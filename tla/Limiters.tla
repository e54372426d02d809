------------------------------- MODULE Limiters -------------------------------
(* limiter.Manager (limiter/limiter.go:20-36): NewManager is given one      *)
(* strategy when the server starts, and every Allow of one key goes to it.  *)
(* The two strategies share nothing but the interface, so a step is one of  *)
(* the strategy that was chosen.                                            *)
EXTENDS TokenBucket, FixedWindow

VARIABLE strategy

limiterVars == <<strategy, vars, windowVars>>

Strategies == {"TokenBucketStrategy", "FixedWindowStrategy"}

NewManager == strategy \in Strategies /\ Init /\ WindowInit

\* A step under the strategy s.
Under(s) == strategy = s /\ UNCHANGED strategy

LimiterNext ==
    \/ Under("TokenBucketStrategy") /\ Next /\ UNCHANGED windowVars
    \/ Under("FixedWindowStrategy") /\ WindowNext /\ UNCHANGED vars

LimiterSpec == NewManager /\ [][LimiterNext]_limiterVars
=============================================================================
