----------------------------- MODULE LimiterProofs -----------------------------
(* Proofs about TokenBucket, for any limit, window, expiry and requests,    *)
(* about FixedWindow, for any limit, window and length of a second, and     *)
(* that Limiters behaves as the strategy that was chosen.                   *)
EXTENDS Limiters, FiniteSetTheorems, SequenceTheorems,
        WellFoundedInduction, TLAPS

-----------------------------------------------------------------------------
(* Arithmetic of the bucket.                                               *)

LEMMA Units ==
    /\ Capacity \in Nat /\ Cost \in Nat \ {0} /\ Rate \in Nat
    /\ Limit = 0 => Capacity = 0
    /\ Limit # 0 => Rate = Limit
BY BucketAssumption DEF Capacity, Cost, Rate

\* A bucket left alone for TTL seconds is full, if a window fits in a TTL.
LEMMA FullAfterTTL ==
    ASSUME Window <= TTL, NEW d \in Nat, d >= TTL
    PROVE  d * Rate >= Capacity
<1>1. d * Limit >= Window * Limit
  BY BucketAssumption
<1>2. Window * Limit = Limit * Window
  BY BucketAssumption
<1> QED BY <1>1, <1>2, BucketAssumption DEF Capacity, Rate

\* One second more generates one Rate more.
LEMMA OneSecondMore ==
    ASSUME NEW t \in Nat, NEW u \in Nat, t <= u
    PROVE  Elapsed(t, u + 1) * Rate = Elapsed(t, u) * Rate + Rate
BY Units DEF Elapsed

LEMMA ProductNat ==
    ASSUME NEW t \in Nat, NEW u \in Nat
    PROVE  Elapsed(t, u) * Rate \in Nat
BY Units DEF Elapsed

LEMMA RefilledTyped ==
    ASSUME TypeOK, NEW t \in Nat
    PROVE  Refilled(t) \in 0..Capacity
<1>1. tokens \in 0..Capacity /\ lastTime \in Nat
  BY Units, BucketAssumption DEF TypeOK
<1>2. Elapsed(lastTime, t) * Rate \in Nat
  BY <1>1, ProductNat
<1> QED BY <1>1, <1>2, Units DEF Refilled, Smaller

-----------------------------------------------------------------------------
(* Types.                                                                  *)

LEMMA InitTyped == Init => TypeOK
<1> SUFFICES ASSUME Init PROVE TypeOK
  OBVIOUS
<1>1. 0 \in 0..MaxClock /\ 0 \in 0..(MaxClock + TTL) /\ 0 \in 0..MaxErrors
  BY BucketAssumption
<1>2. 0 \in 0..Capacity
  BY Units
<1> QED BY <1>1, <1>2 DEF Init, TypeOK

LEMMA StepTyped == TypeOK /\ [Next]_vars => TypeOK'
<1> SUFFICES ASSUME TypeOK, [Next]_vars PROVE TypeOK'
  OBVIOUS
<1> USE BucketAssumption, Units DEF TypeOK, hashVars, vars
<1>1. ASSUME NEW r \in Requests, Arrive(r) PROVE TypeOK'
  BY <1>1 DEF Arrive
<1>2. ASSUME NEW r \in Requests, Allow(r) PROVE TypeOK'
  <2>1. Refilled(stamp[r]) \in 0..Capacity /\ Refilled(stamp[r]) >= Cost
    BY <1>2, RefilledTyped DEF Allow
  <2>2. tokens' \in 0..Capacity
    BY <1>2, <2>1 DEF Allow
  <2>3. lastTime' \in 0..MaxClock /\ expireAt' \in 0..(MaxClock + TTL)
    BY <1>2 DEF Allow
  <2>4. rewound' \in Nat
    <3>1. /\ rewound \in Nat /\ Elapsed(stamp[r], lastTime) \in Nat
          /\ rewound' = rewound + (IF Live THEN Elapsed(stamp[r], lastTime) ELSE 0)
      BY <1>2 DEF Allow, Elapsed
    <3> HIDE DEF TypeOK
    <3> QED BY <3>1
  <2> QED BY <1>2, <2>2, <2>3, <2>4 DEF Allow
<1>3. ASSUME NEW r \in Requests, Refuse(r) PROVE TypeOK'
  BY <1>3 DEF Refuse
<1>4. ASSUME NEW r \in Requests, FailOpen(r) PROVE TypeOK'
  BY <1>4 DEF FailOpen
<1>5. CASE Tick
  BY <1>5 DEF Tick
<1>6. CASE UNCHANGED vars
  BY <1>6
<1> QED BY <1>1, <1>2, <1>3, <1>4, <1>5, <1>6 DEF Next

\* The bucket never holds less than nothing nor more than its capacity, and
\* the other variables keep their types, whatever the delays and errors.
THEOREM BucketTyped == Spec => []TypeOK
BY InitTyped, StepTyped, PTL DEF Spec

-----------------------------------------------------------------------------
(* Stamps, and the effect of a step on the level.                          *)

LEMMA InitStamps == Init => StampsInv
BY DEF Init, StampsInv

LEMMA StepStamps == TypeOK /\ StampsInv /\ [Next]_vars => StampsInv'
<1> SUFFICES ASSUME TypeOK, StampsInv, [Next]_vars PROVE StampsInv'
  OBVIOUS
<1> USE BucketAssumption DEF TypeOK, StampsInv, hashVars, vars
<1>1. ASSUME NEW r \in Requests, Arrive(r) PROVE StampsInv'
  BY <1>1 DEF Arrive
<1>2. ASSUME NEW r \in Requests, Allow(r) PROVE StampsInv'
  BY <1>2 DEF Allow
<1>3. ASSUME NEW r \in Requests, Refuse(r) \/ FailOpen(r) PROVE StampsInv'
  BY <1>3 DEF Refuse, FailOpen
<1>4. CASE Tick
  BY <1>4 DEF Tick
<1>5. CASE UNCHANGED vars
  BY <1>5
<1> QED BY <1>1, <1>2, <1>3, <1>4, <1>5 DEF Next

\* Products of the rate, and that they are ordered as their factors are.
LEMMA RateGrows ==
    ASSUME NEW a \in Nat, NEW b \in Nat, a <= b
    PROVE  a * Rate \in Nat /\ b * Rate \in Nat /\ a * Rate <= b * Rate
BY Units

LEMMA RateAdds ==
    ASSUME NEW a \in Nat, NEW b \in Nat
    PROVE  (a + b) * Rate = a * Rate + b * Rate
BY Units

\* A script that is late sees at most what the present sees, and what it misses
\* is no more than the time in between generates.
LEMMA RefilledLate ==
    ASSUME TypeOK, StampsInv, NEW r \in Requests, phase[r] = "stamped"
    PROVE  /\ stamp[r] \in Nat /\ clock \in Nat /\ stamp[r] <= clock
           /\ Refilled(stamp[r]) \in 0..Capacity
           /\ Refilled(stamp[r]) <= Level
           /\ Level <= Refilled(stamp[r]) + (clock - stamp[r]) * Rate
           /\ (clock - stamp[r]) * Rate \in Nat
           /\ (clock - stamp[r]) * Rate <= Rate * MaxDelay
<1> DEFINE late == clock - stamp[r]
<1>1. /\ stamp[r] \in Nat /\ clock \in Nat /\ lastTime \in Nat /\ tokens \in Nat
      /\ stamp[r] <= clock /\ late \in Nat /\ late <= MaxDelay
  BY BucketAssumption, Units DEF TypeOK, StampsInv
<1>2. late * Rate \in Nat /\ late * Rate <= MaxDelay * Rate
  BY <1>1, RateGrows, BucketAssumption
<1>3. MaxDelay * Rate = Rate * MaxDelay
  BY BucketAssumption, Units
<1>4. Refilled(stamp[r]) \in 0..Capacity
  BY <1>1, RefilledTyped
<1>5. Refilled(stamp[r]) <= Level /\ Level <= Refilled(stamp[r]) + late * Rate
  <2>1. CASE ~Live
    BY <2>1, <1>2, Units DEF Level, Refilled
  <2>2. CASE Live
    <3> DEFINE a == Elapsed(lastTime, stamp[r])
               b == Elapsed(lastTime, clock)
    <3>1. a \in Nat /\ b \in Nat /\ a <= b /\ b <= a + late
      BY <1>1, <2>2 DEF Elapsed, StampsInv, Live
    <3>2. /\ Refilled(stamp[r]) = Smaller(Capacity, tokens + a * Rate)
          /\ Level = Smaller(Capacity, tokens + b * Rate)
      BY <2>2 DEF Level, Refilled
    <3> HIDE DEF a, b, late
    <3>3. late \in Nat
      BY <1>1 DEF late
    <3>4. a * Rate <= b * Rate /\ b * Rate <= a * Rate + late * Rate
      BY <3>1, <3>3, RateGrows, RateAdds
    <3>5. a * Rate \in Nat /\ b * Rate \in Nat /\ late * Rate \in Nat
      BY <3>1, <3>3, RateGrows
    <3> QED BY <1>1, <3>2, <3>4, <3>5, Units DEF Smaller
  <2> QED BY <2>1, <2>2
<1> QED BY <1>1, <1>2, <1>3, <1>4, <1>5

LEMMA LevelOfAllow ==
    ASSUME TypeOK, StampsInv, NEW r \in Requests, Allow(r)
    PROVE  /\ Level >= Cost
           /\ Level' \in (Level - Cost)..Smaller(Capacity, Level - Cost + Rate * MaxDelay)
<1> DEFINE s == stamp[r]
           late == (clock - s) * Rate
<1>1. /\ s \in Nat /\ clock \in Nat /\ s <= clock
      /\ Refilled(s) \in 0..Capacity /\ Refilled(s) <= Level
      /\ Level <= Refilled(s) + late
      /\ late \in Nat /\ late <= Rate * MaxDelay
  BY RefilledLate DEF Allow
<1>2. Level \in 0..Capacity
  BY <1>1, RefilledTyped DEF Level
<1>3. Refilled(s) >= Cost /\ tokens' = Refilled(s) - Cost /\ lastTime' = s
  BY DEF Allow
<1>4. Live' /\ clock' = clock
  BY <1>1, BucketAssumption DEF Allow, Live
<1>5. Elapsed(lastTime', clock') * Rate = late
  BY <1>1, <1>3, <1>4 DEF Elapsed
<1>6. Level' = Smaller(Capacity, Refilled(s) - Cost + late)
  BY <1>3, <1>4, <1>5 DEF Level, Refilled
<1>7. Rate * MaxDelay \in Nat
  BY BucketAssumption, Units
<1> HIDE DEF s, late
<1> QED BY <1>1, <1>2, <1>3, <1>6, <1>7, Units DEF Smaller

LEMMA LevelOfTick ==
    ASSUME Window <= TTL, TypeOK, StampsInv, Tick
    PROVE  Level' = Smaller(Capacity, Level + Rate)
<1>1. /\ clock' = clock + 1 /\ clock \in Nat
      /\ stored' = stored /\ tokens' = tokens /\ lastTime' = lastTime
      /\ expireAt' = expireAt
      /\ tokens \in 0..Capacity /\ lastTime \in Nat /\ expireAt \in Nat
  BY BucketAssumption DEF Tick, TypeOK, hashVars
<1>2. CASE ~Live
  <2>1. ~Live'
    BY <1>1, <1>2 DEF Live
  <2> QED BY <1>2, <2>1, Units DEF Level, Refilled, Smaller
<1>3. CASE Live
  <2> DEFINE g == Elapsed(lastTime, clock) * Rate
             h == Elapsed(lastTime, clock + 1) * Rate
  <2>1. lastTime <= clock /\ lastTime + TTL <= expireAt
    BY <1>3 DEF StampsInv, Live
  <2>2. g \in Nat /\ h = g + Rate
    BY <1>1, <2>1, ProductNat, OneSecondMore
  <2>3. Level = Smaller(Capacity, tokens + g)
    BY <1>3 DEF Level, Refilled
  <2>4. CASE Live'
    <3>1. Level' = Smaller(Capacity, tokens + h)
      BY <1>1, <2>4 DEF Level, Refilled
    <3> HIDE DEF g, h
    <3> QED BY <1>1, <2>2, <2>3, <3>1, Units DEF Smaller
  <2>5. CASE ~Live'
    <3>1. Elapsed(lastTime, clock + 1) >= TTL
      BY <1>1, <1>3, <2>1, <2>5, BucketAssumption DEF Live, Elapsed
    <3>2. h >= Capacity
      <4>1. Elapsed(lastTime, clock + 1) \in Nat
        BY <1>1, <2>1 DEF Elapsed
      <4> QED BY <3>1, <4>1, FullAfterTTL
    <3>3. Level' = Capacity
      BY <1>1, <2>5 DEF Level, Refilled
    <3> HIDE DEF g, h
    <3> QED BY <1>1, <2>2, <2>3, <3>2, <3>3, Units DEF Smaller
  <2> QED BY <2>4, <2>5
<1> QED BY <1>2, <1>3

\* A step that writes neither the hash nor the clock.
LEMMA LevelUntouched ==
    ASSUME UNCHANGED <<clock, hashVars>>
    PROVE  Level' = Level
BY DEF hashVars, Level, Refilled, Live

-----------------------------------------------------------------------------
(* The Redis bucket implements the ideal one.                              *)

LEMMA InitIdeal == Init => Ideal!Init
BY DEF Init, Ideal!Init, Level, Refilled, Live, Answer, Told

LEMMA StepIdeal ==
    ASSUME Window <= TTL, TypeOK, StampsInv, [Next]_vars
    PROVE  [Ideal!Next]_(Ideal!bucketVars)
<1> USE DEF Ideal!bucketVars
<1>1. ASSUME NEW r \in Requests, Arrive(r) PROVE UNCHANGED Ideal!bucketVars
  <2>1. Answer' = Answer
    BY <1>1 DEF Arrive, Answer, Told, TypeOK
  <2> QED BY <1>1, <2>1, LevelUntouched DEF Arrive
<1>2. ASSUME NEW r \in Requests, Allow(r) PROVE Ideal!Admit(r)
  <2>1. Answer[r] = "none" /\ Answer' = [Answer EXCEPT ![r] = "yes"]
    BY <1>2 DEF Allow, Answer, Told, TypeOK
  <2> QED BY <1>2, <2>1, LevelOfAllow DEF Ideal!Admit, Ideal!Smaller, Smaller
<1>3. ASSUME NEW r \in Requests, Refuse(r) PROVE Ideal!Refuse(r)
  <2>1. Answer[r] = "none" /\ Answer' = [Answer EXCEPT ![r] = "no"]
    BY <1>3 DEF Refuse, Answer, Told, TypeOK
  <2>2. Level < Cost + Rate * MaxDelay
    <3>1. Refilled(stamp[r]) < Cost /\ Rate * MaxDelay \in Nat
      BY <1>3, BucketAssumption, Units DEF Refuse
    <3>2. /\ Refilled(stamp[r]) \in 0..Capacity
          /\ Level <= Refilled(stamp[r]) + (clock - stamp[r]) * Rate
          /\ (clock - stamp[r]) * Rate \in Nat
          /\ (clock - stamp[r]) * Rate <= Rate * MaxDelay
      BY <1>3, RefilledLate DEF Refuse
    <3>3. Level \in Nat
      BY RefilledTyped, BucketAssumption, Units DEF TypeOK, Level
    <3> QED BY <3>1, <3>2, <3>3, Units
  <2>3. Level' = Level
    BY <1>3, LevelUntouched DEF Refuse
  <2> QED BY <2>1, <2>2, <2>3 DEF Ideal!Refuse
<1>4. ASSUME NEW r \in Requests, FailOpen(r) PROVE UNCHANGED Ideal!bucketVars
  <2>1. Answer' = Answer
    BY <1>4 DEF FailOpen, Answer, Told, TypeOK
  <2> QED BY <1>4, <2>1, LevelUntouched DEF FailOpen
<1>5. CASE Tick
  <2>1. Answer' = Answer
    BY <1>5 DEF Tick, Answer
  <2>2. Level' = Ideal!Smaller(Capacity, Level + Rate)
    BY <1>5, LevelOfTick DEF Smaller, Ideal!Smaller
  <2> QED BY <2>1, <2>2 DEF Ideal!Next, Ideal!Second
<1>6. CASE UNCHANGED vars
  BY <1>6, LevelUntouched DEF vars, Answer
<1> QED BY <1>1, <1>2, <1>3, <1>4, <1>5, <1>6 DEF Next, Ideal!Next

\* However late scripts run, if only a window fits in the hash's time to live,
\* every decision is the ideal bucket's with as many seconds of slack.
THEOREM BucketIsIdeal ==
    ASSUME Window <= TTL
    PROVE  Spec => ImplementsIdealBucket
<1>1. TypeOK /\ StampsInv /\ [Next]_vars => (TypeOK /\ StampsInv)'
  BY StepTyped, StepStamps
<1>2. TypeOK /\ StampsInv /\ [Next]_vars => [Ideal!Next]_(Ideal!bucketVars)
  BY StepIdeal
<1> QED BY <1>1, <1>2, InitTyped, InitStamps, InitIdeal, PTL
        DEF Spec, ImplementsIdealBucket, Ideal!Spec

-----------------------------------------------------------------------------
(* The rate.                                                               *)

LEMMA AdmittedFinite == IsFiniteSet(Admitted) /\ Cardinality(Admitted) \in Nat
<1>1. IsFiniteSet(Admitted)
  BY BucketAssumption, FS_Subset DEF Admitted
<1> QED BY <1>1, FS_CardinalityType

LEMMA InitConserved == Init => Conserved
BY DEF Init, Conserved, Admitted

\* What a script takes was generated by the time of its stamp, after a hash
\* that has expired as well: a window has passed since that was written.
LEMMA RefilledPaid ==
    ASSUME Window + MaxDelay <= TTL, TypeOK, StampsInv, Conserved,
           NEW r \in Requests, Allow(r), NEW spent \in Nat,
           spent = Cost * Cardinality(Admitted)
    PROVE  Refilled(stamp[r]) + spent <= Capacity + Rate * (stamp[r] + rewound')
<1> DEFINE s == stamp[r]
<1>0. /\ s \in Nat /\ rewound \in Nat /\ lastTime \in Nat /\ tokens \in Nat
      /\ clock \in Nat /\ expireAt \in Nat
      /\ s <= clock /\ clock <= s + MaxDelay /\ Rate \in Nat /\ Capacity \in Nat
  BY BucketAssumption, Units DEF TypeOK, StampsInv, Allow
<1>1. CASE Live
  <2>1. /\ rewound' = rewound + Elapsed(s, lastTime)
        /\ tokens + spent <= Capacity + Rate * (lastTime + rewound)
    BY <1>1 DEF Allow, Conserved, Live
  <2>2. Refilled(s) <= tokens + Elapsed(lastTime, s) * Rate
    <3>1. Elapsed(lastTime, s) * Rate \in Nat
      BY <1>0, ProductNat
    <3> QED BY <1>0, <1>1, <3>1 DEF Refilled, Smaller
  <2>3. lastTime + Elapsed(lastTime, s) + rewound = s + rewound'
    BY <1>0, <2>1 DEF Elapsed
  <2>4. Elapsed(lastTime, s) \in Nat /\ lastTime + rewound \in Nat
    BY <1>0 DEF Elapsed
  <2>5. Rate * (lastTime + rewound) + Elapsed(lastTime, s) * Rate
          = Rate * (s + rewound')
    <3>1. (lastTime + rewound + Elapsed(lastTime, s)) * Rate
            = (lastTime + rewound) * Rate + Elapsed(lastTime, s) * Rate
      BY <2>4, RateAdds
    <3>2. lastTime + rewound + Elapsed(lastTime, s) = s + rewound'
      BY <1>0, <2>3, <2>4
    <3>3. s + rewound' \in Nat
      BY <1>0, <2>4, <3>2
    <3>4. /\ (lastTime + rewound) * Rate = Rate * (lastTime + rewound)
          /\ (s + rewound') * Rate = Rate * (s + rewound')
      BY <1>0, <2>4, <3>3
    <3> QED BY <3>1, <3>2, <3>4
  <2>6. /\ Elapsed(lastTime, s) * Rate \in Nat
        /\ Rate * (lastTime + rewound) \in Nat /\ Refilled(s) \in Nat
    <3>1. Refilled(s) \in 0..Capacity /\ Elapsed(lastTime, s) * Rate \in Nat
      BY <1>0, ProductNat, RefilledTyped
    <3> QED BY <1>0, <2>4, <3>1
  <2> QED BY <1>0, <2>1, <2>2, <2>5, <2>6
<1>2. CASE stored /\ ~Live
  <2>1. Refilled(s) = Capacity /\ rewound' = rewound
    BY <1>0, <1>2 DEF Allow, Refilled
  <2>2. lastTime + Window <= s
    BY <1>0, <1>2, BucketAssumption DEF Live, StampsInv
  <2>3. tokens + spent <= Capacity + Rate * (lastTime + rewound)
    BY <1>2 DEF Conserved
  <2>4. Capacity + Rate * (lastTime + rewound) <= Rate * (s + rewound)
    <3> DEFINE a == lastTime + rewound
    <3>1. a \in Nat /\ a + Window \in Nat /\ s + rewound \in Nat /\ a + Window <= s + rewound
      BY <1>0, <2>2, BucketAssumption
    <3>2. (a + Window) * Rate <= (s + rewound) * Rate
      BY <3>1, RateGrows
    <3>3. (a + Window) * Rate = a * Rate + Window * Rate /\ a * Rate \in Nat
      BY <3>1, RateAdds, RateGrows, BucketAssumption
    <3>4. Capacity <= Window * Rate
      BY BucketAssumption DEF Capacity, Rate
    <3>5. a * Rate = Rate * a /\ (s + rewound) * Rate = Rate * (s + rewound)
      BY <1>0, <3>1
    <3> HIDE DEF a
    <3>6. Window * Rate \in Nat
      BY <1>0, BucketAssumption
    <3>7. Capacity + Rate * a <= Rate * (s + rewound)
      BY <1>0, <3>2, <3>3, <3>4, <3>5, <3>6
    <3> QED BY <3>7 DEF a
  <2>5. Rate * (s + rewound) \in Nat /\ Rate * (lastTime + rewound) \in Nat
    BY <1>0
  <2> QED BY <1>0, <2>1, <2>3, <2>4, <2>5
<1>3. CASE ~stored
  <2>1. Refilled(s) = Capacity /\ rewound' = rewound
    BY <1>0, <1>3 DEF Allow, Refilled, Live
  <2>2. Admitted = {}
    BY <1>3 DEF Conserved
  <2>3. spent = 0
    BY <2>2, FS_EmptySet, Units
  <2>4. Rate * (s + rewound) \in Nat
    BY <1>0
  <2> QED BY <1>0, <2>1, <2>3, <2>4
<1> QED BY <1>1, <1>2, <1>3 DEF Live

LEMMA StepConserved ==
    ASSUME Window + MaxDelay <= TTL, TypeOK, StampsInv, Conserved, [Next]_vars
    PROVE  Conserved'
<1>1. ASSUME NEW r \in Requests, Allow(r) PROVE Conserved'
  <2> DEFINE n == Cardinality(Admitted)
             spent == Cost * n
  <2>1. Admitted' = Admitted \cup {r} /\ r \notin Admitted
    BY <1>1 DEF Allow, Admitted, TypeOK
  <2>2. Cardinality(Admitted') = n + 1 /\ n \in Nat
    BY <2>1, AdmittedFinite, FS_AddElement
  <2>3. spent \in Nat
    BY <2>2, Units
  <2>4. Refilled(stamp[r]) + spent <= Capacity + Rate * (stamp[r] + rewound')
    BY <1>1, <2>3, RefilledPaid
  <2>5. /\ stored' /\ tokens' = Refilled(stamp[r]) - Cost /\ lastTime' = stamp[r]
        /\ stamp[r] \in Nat /\ Refilled(stamp[r]) \in Nat /\ rewound' \in Nat
    BY <1>1, RefilledLate, Units, StepTyped, BucketAssumption DEF Allow, TypeOK
  <2>6. Cost * (n + 1) = spent + Cost
    BY <2>2, Units
  <2>7. Rate * (stamp[r] + rewound') \in Nat
    BY <2>5, Units
  <2>8. tokens' + Cost * (n + 1) <= Capacity + Rate * (lastTime' + rewound')
    <3> HIDE DEF spent, n
    <3> QED BY <2>3, <2>4, <2>5, <2>6, <2>7, Units
  <2> QED BY <2>2, <2>5, <2>8 DEF Conserved
<1>2. ASSUME UNCHANGED <<hashVars, rewound>>, Admitted' = Admitted
      PROVE  Conserved'
  BY <1>2 DEF Conserved, hashVars
<1>3. ASSUME NEW r \in Requests, Arrive(r) \/ Refuse(r) \/ FailOpen(r)
      PROVE  Conserved'
  <2>1. Admitted' = Admitted /\ UNCHANGED <<hashVars, rewound>>
    BY <1>3 DEF Arrive, Refuse, FailOpen, Admitted, TypeOK
  <2> QED BY <2>1, <1>2
<1>4. CASE Tick
  BY <1>2, <1>4 DEF Tick, Admitted
<1>5. CASE UNCHANGED vars
  BY <1>2, <1>5 DEF vars, Admitted
<1> QED BY <1>1, <1>3, <1>4, <1>5 DEF Next

\* If a script is never so late that a hash written before its stamp could
\* have expired within a window of it (with a minute's expiry and windows of a
\* second: 59 seconds), no run of requests, however they interleave, gets more
\* than a full bucket and what the seconds have generated, those counted twice
\* that late scripts gave back.
THEOREM RateIsKept ==
    ASSUME Window + MaxDelay <= TTL
    PROVE  Spec => []AdmittedWithinRate
<1> DEFINE Inv == TypeOK /\ StampsInv /\ Conserved
<1>1. Init => Inv
  BY InitTyped, InitStamps, InitConserved
<1>2. Inv /\ [Next]_vars => Inv'
  BY StepTyped, StepStamps, StepConserved
<1>3. Inv => AdmittedWithinRate
  <2> SUFFICES ASSUME Inv PROVE AdmittedWithinRate
    OBVIOUS
  <2> DEFINE spent == Cost * Cardinality(Admitted)
  <2>1. spent \in Nat
    BY AdmittedFinite, Units
  <2>2. /\ clock \in Nat /\ lastTime \in Nat /\ rewound \in Nat /\ tokens \in Nat
        /\ Rate \in Nat /\ Capacity \in Nat
    BY BucketAssumption, Units DEF TypeOK
  <2>3. Rate * (clock + rewound) \in Nat
    BY <2>2
  <2>4. CASE stored
    <3>1. tokens + spent <= Capacity + Rate * (lastTime + rewound)
      BY <2>4 DEF Conserved
    <3>2. lastTime + rewound <= clock + rewound
      BY <2>2, <2>4 DEF StampsInv
    <3>3. (lastTime + rewound) * Rate <= (clock + rewound) * Rate
      BY <2>2, <3>2, RateGrows
    <3>4. /\ (lastTime + rewound) * Rate = Rate * (lastTime + rewound)
          /\ (clock + rewound) * Rate = Rate * (clock + rewound)
          /\ Rate * (lastTime + rewound) \in Nat
      BY <2>2
    <3> HIDE DEF spent
    <3>5. spent <= Capacity + Rate * (clock + rewound)
      BY <2>1, <2>2, <2>3, <3>1, <3>3, <3>4
    <3> QED BY <3>5 DEF AdmittedWithinRate, spent
  <2>5. CASE ~stored
    <3>1. spent = 0
      BY <2>5, FS_EmptySet, Units DEF Conserved
    <3> QED BY <2>2, <2>3, <3>1 DEF AdmittedWithinRate
  <2> QED BY <2>4, <2>5
<1> QED BY <1>1, <1>2, <1>3, PTL DEF Spec

-----------------------------------------------------------------------------
(* FixedWindow: the times of the admitted requests, in order.              *)

LEMMA Seconds == ExpireTicks \in Nat /\ ExpireTicks <= WindowTicks
BY WindowAssumption, SMTT(20) DEF ExpireTicks

LEMMA Counts ==
    ASSUME WindowTyped
    PROVE  /\ Counted \in Nat /\ Uncounted \in Int /\ Start \in Int
           /\ Len(admitted) \in Nat /\ DOMAIN admitted = 1..Len(admitted)
           /\ \A i \in 1..Len(admitted) : admitted[i] \in Nat
BY WindowAssumption, Seconds, LenProperties, ElementOfSeq
   DEF WindowTyped, Counted, Uncounted, Start

LEMMA InitWindow == WindowInit => WindowTyped /\ CountInv /\ EarlierInv
<1> SUFFICES ASSUME WindowInit PROVE WindowTyped /\ CountInv /\ EarlierInv
  OBVIOUS
<1>1. WindowTyped /\ Len(admitted) = 0
  BY EmptySeq DEF WindowInit, WindowTyped
<1>2. Counted = 0 /\ Start <= now
  BY Seconds, WindowAssumption DEF WindowInit, Counted, Start
<1> QED BY <1>1, <1>2 DEF CountInv, EarlierInv, WindowInit

\* A request, counted or not, admitted or not.
LEMMA RequestCases ==
    ASSUME WindowTyped, CountInv, Request
    PROVE  /\ WindowTyped'
           /\ UNCHANGED now
           /\ \/ /\ now < windowEnd /\ count >= WindowLimit
                 /\ UNCHANGED <<windowEnd, admitted>> /\ count' = count + 1
              \/ /\ now < windowEnd /\ count < WindowLimit
                 /\ UNCHANGED windowEnd /\ count' = count + 1
                 /\ admitted' = Append(admitted, now)
              \/ /\ windowEnd <= now /\ windowEnd' = now + ExpireTicks
                 /\ count' = IF ExpireTicks = 0 THEN 0 ELSE 1
                 /\ admitted' = Append(admitted, now)
<1> USE WindowAssumption, Seconds
<1>1. now \in Nat /\ count \in Nat /\ windowEnd \in Nat
  BY DEF WindowTyped
<1>2. CASE now < windowEnd
  <2>1. Current = count + 1 /\ count > 0 /\ NewExpiry = windowEnd
    BY <1>1, <1>2 DEF Current, NewExpiry, CountInv
  <2>2. /\ UNCHANGED windowEnd /\ count' = count + 1
        /\ IF count >= WindowLimit THEN UNCHANGED admitted
           ELSE admitted' = Append(admitted, now)
    BY <1>1, <1>2, <2>1 DEF Request
  <2> QED BY <1>1, <1>2, <2>2, AppendProperties DEF Request, WindowTyped
<1>3. CASE windowEnd <= now
  <2>1. Current = 1 /\ NewExpiry = now + ExpireTicks
    BY <1>1, <1>3 DEF Current, NewExpiry
  <2>2. /\ windowEnd' = now + ExpireTicks
        /\ count' = IF ExpireTicks = 0 THEN 0 ELSE 1
        /\ admitted' = Append(admitted, now)
    BY <1>1, <1>3, <2>1 DEF Request
  <2> QED BY <1>1, <1>3, <2>2, AppendProperties DEF Request, WindowTyped
<1> QED BY <1>1, <1>2, <1>3

\* The request that is admitted is the last.
LEMMA OneAdmitted ==
    ASSUME WindowTyped, WindowTyped', admitted' = Append(admitted, now)
    PROVE  /\ Len(admitted') = Len(admitted) + 1
           /\ admitted'[Len(admitted')] = now
           /\ \A i \in 1..Len(admitted) : admitted'[i] = admitted[i]
           /\ \A i \in 1..Len(admitted') :
                  i # Len(admitted') => i \in 1..Len(admitted)
<1>1. admitted \in Seq(Nat) /\ now \in Nat /\ Len(admitted) \in Nat
  BY Counts DEF WindowTyped
<1> QED BY <1>1, AppendProperties

LEMMA StepCount ==
    ASSUME WindowTyped, CountInv, Request
    PROVE  CountInv'
<1> USE WindowAssumption, Seconds
<1>1. WindowTyped' /\ UNCHANGED now
  BY RequestCases
<1>2. /\ now \in Nat /\ count \in Nat /\ windowEnd \in Nat
      /\ Counted <= Len(admitted) /\ Start <= now
      /\ \A i \in 1..Len(admitted) :
             admitted[i] <= now /\ (i > Uncounted => Start <= admitted[i])
  BY DEF WindowTyped, CountInv
<1>3. CASE /\ now < windowEnd /\ count >= WindowLimit
           /\ UNCHANGED <<windowEnd, admitted>> /\ count' = count + 1
  <2>1. Counted' = Counted /\ Uncounted' = Uncounted /\ Start' = Start
    BY <1>2, <1>3 DEF Counted, Uncounted, Start
  <2> QED BY <1>1, <1>2, <1>3, <2>1 DEF CountInv
<1>4. CASE /\ now < windowEnd /\ count < WindowLimit
           /\ UNCHANGED windowEnd /\ count' = count + 1
           /\ admitted' = Append(admitted, now)
  <2>1. Counted' = Counted + 1 /\ Uncounted' = Uncounted /\ Start' = Start
    BY <1>1, <1>2, <1>4, Counts, OneAdmitted DEF Counted, Uncounted, Start
  <2> QED BY <1>1, <1>2, <1>4, <2>1, Counts, OneAdmitted DEF CountInv
<1>5. CASE /\ windowEnd <= now /\ windowEnd' = now + ExpireTicks
           /\ count' = IF ExpireTicks = 0 THEN 0 ELSE 1
           /\ admitted' = Append(admitted, now)
  <2>1. Counted' \in 0..1 /\ Start' = now
    BY <1>2, <1>5 DEF Counted, Start
  <2>2. Uncounted' \in {Len(admitted), Len(admitted) + 1}
    BY <1>1, <1>5, <2>1, Counts, OneAdmitted DEF Uncounted
  <2>3. now' < windowEnd' => count' > 0
    BY <1>1, <1>2, <1>5
  <2> QED BY <1>1, <1>2, <1>5, <2>1, <2>2, <2>3, Counts, OneAdmitted DEF CountInv
<1> QED BY <1>3, <1>4, <1>5, RequestCases

LEMMA StepTick ==
    ASSUME WindowTyped, CountInv, WindowTick \/ UNCHANGED windowVars
    PROVE  /\ WindowTyped' /\ CountInv'
           /\ EarlierInv => EarlierInv'
<1>1. /\ now' \in Nat /\ now <= now' /\ now \in Nat
      /\ UNCHANGED <<count, windowEnd, arrived, admitted>>
  BY DEF WindowTick, windowVars, WindowTyped
<1>2. Counted' = Counted /\ Uncounted' = Uncounted /\ Start' = Start
  BY <1>1 DEF Counted, Uncounted, Start
<1> QED BY <1>1, <1>2, Counts DEF WindowTyped, CountInv, EarlierInv

\* A new window starts when the one before has run its length, and takes what
\* that one counted among the earlier requests.
LEMMA StepEarlier ==
    ASSUME WindowTyped, CountInv, EarlierInv, Request
    PROVE  EarlierInv'
<1> USE WindowAssumption, Seconds
<1>1. WindowTyped' /\ UNCHANGED now
  BY RequestCases
<1>2. /\ now \in Nat /\ count \in Nat /\ windowEnd \in Nat
      /\ Start = windowEnd - ExpireTicks
      /\ Counted <= Len(admitted) /\ Counted <= WindowLimit
      /\ Uncounted = Len(admitted) - Counted /\ Start <= now
  BY DEF WindowTyped, CountInv, Start, Counted, Uncounted
<1>3. /\ \A i \in 1..Len(admitted) :
           /\ i <= Uncounted => admitted[i] <= Start
           /\ i <= Uncounted - WindowLimit => admitted[i] + ExpireTicks <= Start
      /\ \A i, j \in 1..Len(admitted) :
           i + 2 * WindowLimit <= j => admitted[i] + ExpireTicks <= admitted[j]
  BY DEF EarlierInv
<1>4. CASE /\ now < windowEnd /\ count >= WindowLimit
           /\ UNCHANGED <<windowEnd, admitted>> /\ count' = count + 1
  <2>1. Uncounted' = Uncounted /\ Start' = Start
    BY <1>2, <1>4 DEF Counted, Uncounted, Start
  <2> QED BY <1>3, <1>4, <2>1 DEF EarlierInv
<1>5. ASSUME admitted' = Append(admitted, now),
             \A i \in 1..Len(admitted) :
                 i + 2 * WindowLimit <= Len(admitted) + 1
                     => admitted[i] + ExpireTicks <= now
      PROVE  \A i, j \in 1..Len(admitted') :
                 i + 2 * WindowLimit <= j => admitted'[i] + ExpireTicks <= admitted'[j]
  <2> SUFFICES ASSUME NEW i \in 1..Len(admitted'), NEW j \in 1..Len(admitted'),
                      i + 2 * WindowLimit <= j
               PROVE  admitted'[i] + ExpireTicks <= admitted'[j]
    OBVIOUS
  <2>1. /\ Len(admitted') = Len(admitted) + 1 /\ Len(admitted) \in Nat
        /\ admitted'[Len(admitted')] = now
        /\ \A k \in 1..Len(admitted) : admitted'[k] = admitted[k]
    BY <1>1, <1>5, Counts, OneAdmitted
  <2>2. i \in 1..Len(admitted)
    BY <2>1
  <2>3. CASE j = Len(admitted')
    BY <1>5, <2>1, <2>2, <2>3
  <2>4. CASE j \in 1..Len(admitted)
    BY <1>3, <2>1, <2>2, <2>4
  <2> QED BY <2>1, <2>3, <2>4
<1>6. CASE /\ now < windowEnd /\ count < WindowLimit
           /\ UNCHANGED windowEnd /\ count' = count + 1
           /\ admitted' = Append(admitted, now)
  <2>1. Uncounted' = Uncounted /\ Start' = Start /\ Counted = count
    BY <1>1, <1>2, <1>6, Counts, OneAdmitted DEF Counted, Uncounted, Start
  <2>2. ASSUME NEW i \in 1..Len(admitted), i + 2 * WindowLimit <= Len(admitted) + 1
        PROVE  admitted[i] + ExpireTicks <= now
    <3>1. i <= Uncounted - WindowLimit
      BY <1>2, <1>6, <2>1, <2>2, Counts
    <3> QED BY <1>2, <1>3, <3>1, Counts
  <2>3. \A i \in 1..Len(admitted') : i <= Uncounted => i \in 1..Len(admitted)
                                                       /\ admitted'[i] = admitted[i]
    BY <1>1, <1>2, <1>6, Counts, OneAdmitted
  <2>4. \A i, j \in 1..Len(admitted') :
            i + 2 * WindowLimit <= j => admitted'[i] + ExpireTicks <= admitted'[j]
    BY <1>5, <1>6, <2>2
  <2>5. \A i \in 1..Len(admitted') :
            /\ i <= Uncounted => admitted'[i] <= Start
            /\ i <= Uncounted - WindowLimit => admitted'[i] + ExpireTicks <= Start
    BY <1>2, <1>3, <2>3, Counts
  <2> QED BY <2>1, <2>4, <2>5 DEF EarlierInv
<1>7. CASE /\ windowEnd <= now /\ windowEnd' = now + ExpireTicks
           /\ count' = IF ExpireTicks = 0 THEN 0 ELSE 1
           /\ admitted' = Append(admitted, now)
  <2>1. /\ Start' = now
        /\ Uncounted' = IF ExpireTicks = 0 THEN Len(admitted) + 1 ELSE Len(admitted)
    <3>1. Len(admitted') = Len(admitted) + 1 /\ Len(admitted) \in Nat
      BY <1>1, <1>7, Counts, OneAdmitted
    <3>2. Counted' = IF ExpireTicks = 0 THEN 0 ELSE 1
      BY <1>7 DEF Counted
    <3>3. Start' = now
      BY <1>2, <1>7 DEF Start
    <3> QED BY <3>1, <3>2, <3>3 DEF Uncounted
  <2>2. \A i \in 1..Len(admitted) : admitted[i] <= now
    BY DEF CountInv
  <2>3. ASSUME NEW i \in 1..Len(admitted), i <= Len(admitted) - WindowLimit
        PROVE  admitted[i] + ExpireTicks <= now
    <3>1. i <= Uncounted
      BY <1>2, <2>3, Counts
    <3> QED BY <1>2, <1>3, <1>7, <3>1, Counts
  <2>4. \A i \in 1..Len(admitted') :
            i <= Len(admitted) => i \in 1..Len(admitted) /\ admitted'[i] = admitted[i]
    BY <1>1, <1>7, Counts, OneAdmitted
  <2>5. \A i \in 1..Len(admitted) :
            i + 2 * WindowLimit <= Len(admitted) + 1 => admitted[i] + ExpireTicks <= now
    BY <2>3, Counts
  <2>6. \A i, j \in 1..Len(admitted') :
            i + 2 * WindowLimit <= j => admitted'[i] + ExpireTicks <= admitted'[j]
    BY <1>5, <1>7, <2>5
  <2>7. \A i \in 1..Len(admitted') :
            /\ i <= Uncounted' => admitted'[i] <= now
            /\ i <= Uncounted' - WindowLimit => admitted'[i] + ExpireTicks <= now
    <3>1. \A i \in 1..Len(admitted') : admitted'[i] \in Nat /\ admitted'[i] <= now
      BY <1>1, <1>2, <1>7, <2>2, Counts, OneAdmitted
    <3>2. CASE ExpireTicks = 0
      BY <3>1, <3>2
    <3>3. CASE ExpireTicks # 0
      <4>1. \A i \in 1..Len(admitted') :
                i <= Len(admitted) - WindowLimit => admitted'[i] + ExpireTicks <= now
        BY <2>3, <2>4, Counts
      <4> QED BY <2>1, <3>1, <3>3, <4>1
    <3> QED BY <3>2, <3>3
  <2> QED BY <2>1, <2>6, <2>7 DEF EarlierInv
<1> QED BY <1>4, <1>6, <1>7, RequestCases, Zenon

LEMMA StepWindow ==
    WindowTyped /\ CountInv /\ [WindowNext]_windowVars
        => /\ WindowTyped' /\ CountInv'
           /\ EarlierInv => EarlierInv'
BY RequestCases, StepCount, StepTick, StepEarlier DEF WindowNext

\* The requests at a stretch of indices are as many as the stretch is long.
LEMMA Stretch ==
    ASSUME NEW a \in Int, NEW n \in Nat
    PROVE  IsFiniteSet(a..(a + n - 1)) /\ Cardinality(a..(a + n - 1)) = n
BY FS_Interval

LEMMA AdmittedSet ==
    ASSUME WindowTyped, NEW t \in Int, NEW d \in Int
    PROVE  /\ IsFiniteSet({i \in DOMAIN admitted : admitted[i] \in t..(t + d - 1)})
           /\ AdmittedIn(t, d) \in Nat
<1>1. IsFiniteSet(DOMAIN admitted)
  BY Counts, FS_Interval
<1> QED BY <1>1, FS_Subset, FS_CardinalityType DEF AdmittedIn

\* The counter is at its limit only for as long as its window, all of whose
\* requests are among those of the last WindowTicks ticks.
THEOREM RefusalsAtLimit == WindowSpec => RefusedOnlyAtLimit
<1>1. ASSUME WindowTyped, CountInv, [WindowNext]_windowVars,
             arrived' # arrived, admitted' = admitted
      PROVE  AdmittedIn(now - WindowTicks + 1, WindowTicks) >= WindowLimit
  <2> DEFINE t == now - WindowTicks + 1
             S == {i \in DOMAIN admitted : admitted[i] \in t..(t + WindowTicks - 1)}
             T == (Uncounted + 1)..(Uncounted + 1 + WindowLimit - 1)
  <2>1. Request
    BY <1>1 DEF WindowNext, WindowTick, windowVars
  <2>2. now < windowEnd /\ count >= WindowLimit
    <3>1. admitted \in Seq(Nat) /\ now \in Nat
      BY <1>1 DEF WindowTyped
    <3>2. admitted' # Append(admitted, now)
      BY <1>1, <3>1, AppendProperties, LenProperties
    <3> QED BY <1>1, <2>1, <3>2, RequestCases, Zenon
  <2>3. /\ Counted = WindowLimit /\ Uncounted = Len(admitted) - WindowLimit
        /\ Uncounted \in Nat /\ now \in Nat
        /\ Start > now - WindowTicks
    <3>1. /\ now \in Nat /\ count \in Nat /\ windowEnd \in Nat
          /\ Len(admitted) \in Nat /\ Counted <= Len(admitted)
      BY <1>1, Counts DEF WindowTyped, CountInv
    <3>2. Counted = WindowLimit /\ Uncounted = Len(admitted) - WindowLimit
      BY <2>2, <3>1, WindowAssumption DEF Counted, Uncounted
    <3>3. Start > now - WindowTicks
      BY <2>2, <3>1, WindowAssumption, Seconds DEF Start
    <3> QED BY <3>1, <3>2, <3>3, WindowAssumption
  <2>4. T \subseteq S
    <3> SUFFICES ASSUME NEW i \in T PROVE i \in S
      OBVIOUS
    <3>1. i \in 1..Len(admitted) /\ i > Uncounted
      BY <2>3, Counts, WindowAssumption
    <3>2. Start <= admitted[i] /\ admitted[i] <= now /\ admitted[i] \in Nat
      BY <1>1, <3>1, Counts DEF CountInv
    <3> QED BY <1>1, <2>3, <3>1, <3>2, Counts, WindowAssumption
  <2>5. IsFiniteSet(S) /\ AdmittedIn(t, WindowTicks) = Cardinality(S) /\ Cardinality(S) \in Nat
    <3>1. t \in Int /\ WindowTicks \in Int
      BY <2>3, WindowAssumption
    <3> QED BY <1>1, <3>1, AdmittedSet DEF AdmittedIn
  <2>6. IsFiniteSet(T) /\ Cardinality(T) = WindowLimit
    <3>1. Uncounted + 1 \in Int /\ WindowLimit \in Nat
      BY <2>3, WindowAssumption
    <3> QED BY <3>1, Stretch
  <2>7. Cardinality(T) <= Cardinality(S)
    BY <2>4, <2>5, FS_Subset
  <2> QED BY <2>5, <2>6, <2>7
<1> QED BY <1>1, InitWindow, StepWindow, PTL DEF WindowSpec, RefusedOnlyAtLimit

\* A set of numbers that is not empty has a least one.
LEMMA Least ==
    ASSUME NEW S, S \subseteq Nat, S # {}
    PROVE  \E a \in S : \A i \in S : a <= i
<1> DEFINE lt == OpToRel(<, Nat)
<1>1. IsWellFoundedOn(lt, Nat)
  BY NatLessThanWellFounded
<1>2. PICK a \in S : \A i \in S : ~ (<<i, a>> \in lt)
  <2> HIDE DEF lt
  <2> QED BY <1>1, WFMin, Zenon
<1>3. \A i \in S : ~ (i < a)
  BY <1>2 DEF OpToRel
<1> QED BY <1>3

\* Any interval as long as the key lives sees at most two windows' worth of
\* requests: of 2 * WindowLimit + 1 in a row, the last is a life later.
LEMMA BurstOfALife ==
    ASSUME WindowTyped, EarlierInv, NEW t \in Nat
    PROVE  AdmittedIn(t, ExpireTicks) <= 2 * WindowLimit
<1> DEFINE S == {i \in DOMAIN admitted : admitted[i] \in t..(t + ExpireTicks - 1)}
<1>1. AdmittedIn(t, ExpireTicks) = Cardinality(S) /\ S \subseteq Nat
  BY Counts DEF AdmittedIn
<1>2. CASE S = {}
  BY <1>1, <1>2, FS_EmptySet, WindowAssumption
<1>3. CASE S # {}
  <2>1. PICK a \in S : \A i \in S : a <= i
    <3> HIDE DEF S
    <3> QED BY <1>1, <1>3, Least
  <2> DEFINE T == a..(a + 2 * WindowLimit - 1)
  <2>2. S \subseteq T
    <3> SUFFICES ASSUME NEW i \in S, i >= a + 2 * WindowLimit PROVE FALSE
      BY <1>1, <2>1, WindowAssumption
    <3>1. a \in 1..Len(admitted) /\ i \in 1..Len(admitted)
      BY Counts
    <3>2. admitted[a] + ExpireTicks <= admitted[i]
      BY <3>1 DEF EarlierInv
    <3>3. /\ admitted[a] \in Nat /\ admitted[i] \in Nat
          /\ t <= admitted[a] /\ admitted[i] <= t + ExpireTicks - 1
      BY <3>1, Counts
    <3> QED BY <3>2, <3>3, Seconds
  <2>3. IsFiniteSet(T) /\ Cardinality(T) = 2 * WindowLimit
    <3>1. a \in Int /\ 2 * WindowLimit \in Nat
      BY <1>1, WindowAssumption
    <3> QED BY <3>1, Stretch
  <2>4. Cardinality(S) <= Cardinality(T)
    BY <2>2, <2>3, FS_Subset
  <2> QED BY <1>1, <2>3, <2>4
<1> QED BY <1>2, <1>3

\* Whatever the window: in no interval as long as the key lives, which is the
\* window cut to whole seconds, are more than two windows' worth admitted.
THEOREM BurstsOfALife == WindowSpec => []BurstAtMostTwice
<1>1. WindowTyped /\ EarlierInv => BurstAtMostTwice
  BY BurstOfALife, WindowAssumption DEF BurstAtMostTwice
<1> QED BY <1>1, InitWindow, StepWindow, PTL DEF WindowSpec

\* If windows are whole seconds, as those of the server are (server.go:80),
\* that is any interval as long as a window.
THEOREM BurstsAreBounded ==
    ASSUME ExpireTicks = WindowTicks
    PROVE  WindowSpec => [](\A t \in Nat : AdmittedIn(t, WindowTicks) <= 2 * WindowLimit)
<1>1. WindowTyped /\ EarlierInv =>
          \A t \in Nat : AdmittedIn(t, WindowTicks) <= 2 * WindowLimit
  BY BurstOfALife
<1> QED BY <1>1, InitWindow, StepWindow, PTL DEF WindowSpec

-----------------------------------------------------------------------------
(* The manager.                                                            *)

\* Under the manager each strategy behaves as it does alone, so every theorem
\* above holds of the manager's key as well.
THEOREM ManagerDelegates == LimiterSpec => Spec /\ WindowSpec
<1>1. NewManager => Init /\ WindowInit
  BY DEF NewManager
<1>2. [LimiterNext]_limiterVars => [Next]_vars /\ [WindowNext]_windowVars
  BY DEF LimiterNext, limiterVars
<1> QED BY <1>1, <1>2, PTL DEF LimiterSpec, Spec, WindowSpec
=============================================================================
