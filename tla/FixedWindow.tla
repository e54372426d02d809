----------------------------- MODULE FixedWindow -----------------------------
(* limiter.FixedWindowStrategy (limiter/limiter.go:38-68) for one key: a    *)
(* Redis counter that expires a window after its first increment.  Allow is *)
(* one atomic script, so requests and the passage of time are all there is. *)
(* Time is counted in ticks, TicksPerSecond to the second, because EXPIRE   *)
(* takes whole seconds and a window need not be a whole number of them.     *)
EXTENDS Integers, FiniteSets, Sequences

CONSTANTS
    WindowLimit,    \* RateLimitConfig.Limit
    WindowTicks,    \* RateLimitConfig.Window, in ticks
    TicksPerSecond,
    MaxRequests,    \* bound: requests
    MaxTicks        \* bound: ticks

ASSUME WindowAssumption ==
    /\ WindowLimit \in Nat \ {0} /\ WindowTicks \in Nat \ {0}
    /\ TicksPerSecond \in Nat \ {0}
    /\ MaxRequests \in Nat /\ MaxTicks \in Nat

VARIABLES
    now,        \* ticks
    count,      \* the counter; 0 when the key is missing
    windowEnd,  \* when the key expires
    arrived,    \* requests so far
    admitted    \* when each admitted request was admitted, in order

windowVars == <<now, count, windowEnd, arrived, admitted>>

WindowInit ==
    now = 0 /\ count = 0 /\ windowEnd = 0 /\ arrived = 0 /\ admitted = <<>>

\* int(window.Seconds()), back in ticks.
ExpireTicks == (WindowTicks \div TicksPerSecond) * TicksPerSecond

\* INCR on a missing or expired key yields 1.
Current == IF now < windowEnd THEN count + 1 ELSE 1

\* Slip: the expiry is renewed by every request.
RenewedExpiry == now + ExpireTicks

\* Slip: the expiry is set one second short.
ShortExpiry == IF Current = 1 THEN now + ExpireTicks - TicksPerSecond ELSE windowEnd

\* EXPIRE, for the first request only; EXPIRE 0 deletes the key at once.
NewExpiry == IF Current = 1 THEN now + ExpireTicks ELSE windowEnd

Request ==
    /\ arrived < MaxRequests
    /\ arrived' = arrived + 1
    /\ windowEnd' = NewExpiry
    /\ count' = IF now < NewExpiry THEN Current ELSE 0
    /\ admitted' = IF Current > WindowLimit THEN admitted ELSE Append(admitted, now)
    /\ UNCHANGED now

WindowTick ==
    /\ now < MaxTicks
    /\ now' = now + 1
    /\ UNCHANGED <<count, windowEnd, arrived, admitted>>

WindowNext == Request \/ WindowTick

WindowSpec == WindowInit /\ [][WindowNext]_windowVars

-----------------------------------------------------------------------------
(* Properties.                                                             *)

\* The requests admitted in the d ticks from t on.
AdmittedIn(t, d) ==
    Cardinality({i \in DOMAIN admitted : admitted[i] \in t..(t + d - 1)})

\* Any interval as long as the key lives, wherever it begins, sees at most two
\* windows' worth of requests: the known burst of a counter (line 49) that is
\* reset at the end of its life, and no more.  The life is the window cut to
\* whole seconds (line 63), so a longer window may see a third burst.
BurstAtMostTwice ==
    \A t \in 0..MaxTicks : AdmittedIn(t, ExpireTicks) <= 2 * WindowLimit

\* A request is refused (line 57) only if the last WindowTicks ticks have
\* already admitted WindowLimit requests: the counter never outlives its window.
RefusedOnlyAtLimit ==
    [][arrived' # arrived /\ admitted' = admitted =>
           AdmittedIn(now - WindowTicks + 1, WindowTicks) >= WindowLimit]_windowVars

-----------------------------------------------------------------------------
(* Inductive strengthening, for the proofs of LimiterProofs.               *)

WindowTyped ==
    /\ now \in Nat /\ count \in Nat /\ arrived \in Nat
    /\ windowEnd \in Nat
    /\ admitted \in Seq(Nat)

\* The requests counted in the last window, admitted after all others.
Counted   == IF count <= WindowLimit THEN count ELSE WindowLimit
Uncounted == Len(admitted) - Counted
Start     == windowEnd - ExpireTicks

\* What the counter counts was admitted since the window started.
CountInv ==
    /\ now < windowEnd => count > 0
    /\ Counted <= Len(admitted) /\ Start <= now
    /\ \A i \in 1..Len(admitted) :
           admitted[i] <= now /\ (i > Uncounted => Start <= admitted[i])

\* What it does not count was admitted before that, and all but WindowLimit of
\* these before the window before.
EarlierInv ==
    /\ \A i \in 1..Len(admitted) :
           /\ i <= Uncounted => admitted[i] <= Start
           /\ i <= Uncounted - WindowLimit => admitted[i] + ExpireTicks <= Start
    /\ \A i, j \in 1..Len(admitted) :
           i + 2 * WindowLimit <= j => admitted[i] + ExpireTicks <= admitted[j]
=============================================================================
