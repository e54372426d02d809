----------------------------- MODULE TokenBucket -----------------------------
(***************************************************************************)
(* limiter.TokenBucketStrategy (limiter/limiter.go) under the rate limit   *)
(* middleware (middleware/customer_middleware.go), for one Redis key.      *)
(*                                                                         *)
(* The handler reads the clock, then calls a Lua script that Redis runs    *)
(* atomically; between the two the clock moves on and other requests run   *)
(* their scripts.  The bucket is a Redis hash that is written only when a  *)
(* request is admitted and that expires TTL seconds after that.            *)
(*                                                                         *)
(* Tokens are counted in units of 1/Window token, so that the rate of      *)
(* Limit / Window tokens a second (a float64 in the code) is a whole       *)
(* number.  Redis and the server are taken to tell the same time.          *)
(***************************************************************************)
EXTENDS Integers, FiniteSets

CONSTANTS
    Requests,   \* the requests with this key
    Limit,      \* RateLimitConfig.Limit (10 in server.go)
    Window,     \* RateLimitConfig.Window, in whole seconds (1)
    TTL,        \* EXPIRE of the hash, in seconds (60)
    MaxDelay,   \* bound: whole seconds from time.Now to the script
    MaxErrors,  \* bound: Redis errors
    MaxClock    \* bound: seconds modelled

ASSUME BucketAssumption ==
    /\ IsFiniteSet(Requests)
    /\ Limit \in Nat /\ Window \in Nat \ {0} /\ TTL \in Nat \ {0}
    /\ MaxDelay \in Nat /\ MaxErrors \in Nat /\ MaxClock \in Nat

VARIABLES
    clock,      \* seconds since the epoch
    phase,      \* of each request
    stamp,      \* ARGV[3] of each request: time.Now().Unix()
    stored,     \* the hash was written
    tokens,     \* its field "tokens", in units
    lastTime,   \* its field "last_time"
    expireAt,   \* when it expires
    errors,     \* Redis errors so far
    rewound     \* history: seconds by which late scripts set last_time back

hashVars == <<stored, tokens, lastTime, expireAt>>
vars == <<clock, phase, stamp, hashVars, errors, rewound>>

Capacity == Limit * Window
Cost     == Window
\* rate <= 0 is replaced by 1 token a second.
Rate     == IF Limit = 0 THEN Window ELSE Limit

Smaller(a, b) == IF a <= b THEN a ELSE b
Elapsed(t, u) == IF t <= u THEN u - t ELSE 0

\* HMGET finds the hash.
Live == stored /\ clock < expireAt

\* Slip: the refill is not capped.
RefilledUncapped(t) ==
    IF Live THEN tokens + Elapsed(lastTime, t) * Rate ELSE Capacity

\* The units in the bucket for a request stamped t; a missing hash is a full
\* bucket.
Refilled(t) ==
    IF Live THEN Smaller(Capacity, tokens + Elapsed(lastTime, t) * Rate)
    ELSE Capacity

TypeOK ==
    /\ clock \in 0..MaxClock
    /\ phase \in [Requests -> {"idle", "stamped", "admitted", "refused", "bypassed"}]
    /\ stamp \in [Requests -> 0..MaxClock]
    /\ stored \in BOOLEAN
    /\ tokens \in 0..Capacity
    /\ lastTime \in 0..MaxClock
    /\ expireAt \in 0..(MaxClock + TTL)
    /\ errors \in 0..MaxErrors
    /\ rewound \in Nat

Init ==
    /\ clock = 0 /\ errors = 0 /\ rewound = 0
    /\ phase = [r \in Requests |-> "idle"]
    /\ stamp = [r \in Requests |-> 0]
    /\ stored = FALSE /\ tokens = 0 /\ lastTime = 0 /\ expireAt = 0

\* The middleware computes the key, Allow the rate and the time.
Arrive(r) ==
    /\ phase[r] = "idle"
    /\ phase' = [phase EXCEPT ![r] = "stamped"]
    /\ stamp' = [stamp EXCEPT ![r] = clock]
    /\ UNCHANGED <<clock, hashVars, errors, rewound>>

\* Slip: the hash keeps its old last_time.
AllowKeepsTime(r) ==
    /\ phase[r] = "stamped"
    /\ Refilled(stamp[r]) >= Cost
    /\ stored' = TRUE
    /\ tokens' = Refilled(stamp[r]) - Cost
    /\ lastTime' = IF Live THEN lastTime ELSE stamp[r]
    /\ expireAt' = clock + TTL
    /\ phase' = [phase EXCEPT ![r] = "admitted"]
    /\ UNCHANGED <<clock, stamp, errors, rewound>>

\* The script takes a token and saves the bucket; next(c) is called.  It is
\* called too if the reply is lost: the middleware fails open.  A script whose
\* stamp is older than the hash generates nothing (line 98) but saves its stamp
\* (line 108): the seconds in between will generate their tokens again.
Allow(r) ==
    /\ phase[r] = "stamped"
    /\ Refilled(stamp[r]) >= Cost
    /\ stored' = TRUE
    /\ tokens' = Refilled(stamp[r]) - Cost
    /\ lastTime' = stamp[r]
    /\ expireAt' = clock + TTL
    /\ phase' = [phase EXCEPT ![r] = "admitted"]
    /\ rewound' = rewound + (IF Live THEN Elapsed(stamp[r], lastTime) ELSE 0)
    /\ UNCHANGED <<clock, stamp, errors>>

\* Slip: a refusal updates last_time, as the comment on line 113 contemplates.
RefuseAndSave(r) ==
    /\ phase[r] = "stamped"
    /\ Refilled(stamp[r]) < Cost
    /\ lastTime' = stamp[r]
    /\ phase' = [phase EXCEPT ![r] = "refused"]
    /\ UNCHANGED <<clock, stamp, stored, tokens, expireAt, errors, rewound>>

\* Too few tokens: 429, and the hash is left as it is.
Refuse(r) ==
    /\ phase[r] = "stamped"
    /\ Refilled(stamp[r]) < Cost
    /\ phase' = [phase EXCEPT ![r] = "refused"]
    /\ UNCHANGED <<clock, stamp, hashVars, errors, rewound>>

\* Redis fails before the script runs, or the reply of a refusal is lost: the
\* request passes without a token.
FailOpen(r) ==
    /\ phase[r] = "stamped"
    /\ errors < MaxErrors
    /\ errors' = errors + 1
    /\ phase' = [phase EXCEPT ![r] = "bypassed"]
    /\ UNCHANGED <<clock, stamp, hashVars, rewound>>

\* Time passes; no request waits for its script longer than MaxDelay.
Tick ==
    /\ clock < MaxClock
    /\ \A r \in Requests : phase[r] = "stamped" => clock - stamp[r] < MaxDelay
    /\ clock' = clock + 1
    /\ UNCHANGED <<phase, stamp, hashVars, errors, rewound>>

Next ==
    \/ \E r \in Requests : Arrive(r) \/ Allow(r) \/ Refuse(r) \/ FailOpen(r)
    \/ Tick

Spec == Init /\ [][Next]_vars

-----------------------------------------------------------------------------
(* Properties.                                                             *)

Admitted == {r \in Requests : phase[r] = "admitted"}

\* The requests admitted with a token never cost more than a full bucket and
\* what the elapsed seconds have generated (lines 98-103), however the hash
\* expired and came back, and however the clock (line 125) and the scripts of
\* other requests move on between a request's stamp and its script: the only
\* excess is what the seconds generate again by which late scripts set
\* last_time back, and nothing else ever exceeds the rate.
AdmittedWithinRate ==
    Cost * Cardinality(Admitted) <= Capacity + Rate * (clock + rewound)

\* The lazily refilled, expiring Redis hash is the ideal bucket.
Level == Refilled(clock)

Told(p) == CASE p = "admitted" -> "yes"
             [] p = "refused"  -> "no"
             [] OTHER          -> "none"

Answer == [r \in Requests |-> Told(phase[r])]

\* What the seconds generate that a script may be late.
Ideal == INSTANCE IdealBucket
         WITH level <- Level, answer <- Answer, Slack <- Rate * MaxDelay

\* Allow and Refuse (lines 81-116) decide every request as the ideal bucket
\* would, late scripts included: none is admitted without a token being there,
\* and none is refused while there is one besides those of the seconds that a
\* script may be late.
ImplementsIdealBucket == Ideal!Spec

-----------------------------------------------------------------------------
(* Inductive strengthening, for the proofs of LimiterProofs.               *)

\* A stamp that waits is at most MaxDelay seconds old, so the hash is never
\* ahead of the clock and outlives its last_time by TTL seconds or more.
StampsInv ==
    /\ \A r \in Requests : phase[r] = "stamped" =>
           stamp[r] <= clock /\ clock <= stamp[r] + MaxDelay
    /\ stored => lastTime <= clock /\ lastTime + TTL <= expireAt

\* Tokens are conserved: what the hash holds and what was handed out never
\* exceed a full bucket and what was generated until last_time.
Conserved ==
    /\ ~stored => Admitted = {}
    /\ stored => tokens + Cost * Cardinality(Admitted)
                    <= Capacity + Rate * (lastTime + rewound)
=============================================================================
