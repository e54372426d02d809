----------------------------- MODULE OrdersProofs -----------------------------
(* Proofs about Orders, for any orders, consumers, faults and rebalances.   *)
EXTENDS Orders, SequenceTheorems, FiniteSetTheorems, TLAPS

Messages == Orders \cup {Garbage}

LEMMA Log ==
    ASSUME TypeOK
    PROVE  /\ log \in Seq(Messages) /\ Len(log) \in Nat
           /\ \A i \in 1..Len(log) : log[i] \in Messages /\ handled[i] \in Nat
BY LenProperties, ElementOfSeq DEF TypeOK, Messages

\* The broker appends; what is there stays.
LEMMA Written ==
    ASSUME TypeOK, NEW m \in Messages, Write(m)
    PROVE  /\ log' \in Seq(Messages) /\ Len(log') = Len(log) + 1
           /\ handled' \in [1..Len(log') -> Nat]
           /\ \A i \in 1..Len(log) : log'[i] = log[i] /\ handled'[i] = handled[i]
<1>1. log \in Seq(Messages) /\ Len(log) \in Nat
  BY Log
<1>2. /\ log' \in Seq(Messages) /\ Len(log') = Len(log) + 1
      /\ \A i \in 1..Len(log) : log'[i] = log[i]
  BY <1>1, AppendProperties DEF Write
<1>3. handled \in Seq(Nat) /\ Len(handled) = Len(log)
  <2>1. handled \in [1..Len(log) -> Nat]
    BY DEF TypeOK
  <2> QED BY <1>1, <2>1
<1>4. /\ handled' \in Seq(Nat) /\ Len(handled') = Len(log) + 1
      /\ \A i \in 1..Len(log) : handled'[i] = handled[i]
  BY <1>3, AppendProperties DEF Write
<1>5. handled' \in [1..Len(log') -> Nat]
  BY <1>2, <1>4, LenProperties
<1> QED BY <1>2, <1>4, <1>5

LEMMA InitTyped == Init => TypeOK /\ ClaimInv
<1> SUFFICES ASSUME Init PROVE TypeOK /\ ClaimInv
  OBVIOUS
<1>1. log = <<>> /\ handled = <<>> /\ Len(log) = 0 /\ log \in Seq(Messages)
  BY EmptySeq DEF Init
<1>2. handled \in [1..Len(log) -> Nat]
  BY <1>1
<1>3. TypeOK
  BY <1>1, <1>2, OrdersAssumption DEF Init, TypeOK, Messages, NoOffset
<1>4. ClaimInv
  BY <1>1, OrdersAssumption
     DEF Init, ClaimInv, CommittedIsHandled, HandledUpTo, NoOffset
<1> QED BY <1>3, <1>4

-----------------------------------------------------------------------------
(* The producers: the log grows, the claims stay where they are.            *)

LEMMA StepWrite ==
    ASSUME TypeOK, ClaimInv,
           UNCHANGED <<claimVars, committed, first, faults, rebalances>>,
           \/ UNCHANGED <<log, handled>>
           \/ \E m \in Messages : Write(m),
           sent' \in [Orders -> {"none", "nil", "error"}],
           resends' \in 0..MaxResends, garbage' \in 0..MaxGarbage
    PROVE  TypeOK' /\ ClaimInv'
<1>1. /\ log' \in Seq(Messages) /\ Len(log) <= Len(log')
      /\ Len(log) \in Nat /\ Len(log') \in Nat
      /\ handled' \in [1..Len(log') -> Nat]
      /\ \A i \in 1..Len(log) : log'[i] = log[i] /\ handled'[i] = handled[i]
  <2>1. CASE UNCHANGED <<log, handled>>
    BY <2>1, Log DEF TypeOK
  <2>2. CASE \E m \in Messages : Write(m)
    BY <2>2, Log, Written
  <2> QED BY <2>1, <2>2
<1>2. TypeOK'
  <2>1. /\ next' \in [Consumers -> NoOffset..Len(log')]
        /\ marked' \in [Consumers -> NoOffset..Len(log')]
    <3>1. NoOffset..Len(log) \subseteq NoOffset..Len(log')
      BY <1>1 DEF NoOffset
    <3>2. UNCHANGED <<next, marked>>
      BY DEF claimVars
    <3>3. /\ next \in [Consumers -> NoOffset..Len(log)]
          /\ marked \in [Consumers -> NoOffset..Len(log)]
      BY DEF TypeOK
    <3> QED BY <3>1, <3>2, <3>3
  <2>2. committed' \in NoOffset..Len(log') /\ first' \in 0..Len(log')
    BY <1>1 DEF TypeOK, NoOffset
  <2> QED BY <1>1, <2>1, <2>2 DEF TypeOK, claimVars, Messages
<1>3. \A k \in NoOffset..Len(log) : \A i \in 1..Len(log') :
          first < i /\ i <= k /\ HandledUpTo(k) /\ log'[i] # Garbage
              => handled'[i] > 0
  BY <1>1 DEF HandledUpTo, NoOffset, TypeOK
<1>4. /\ committed \in NoOffset..Len(log)
      /\ \A c \in Consumers : next[c] \in NoOffset..Len(log)
  BY DEF TypeOK
<1>5. CommittedIsHandled'
  BY <1>3, <1>4 DEF CommittedIsHandled, HandledUpTo, ClaimInv
<1>6. \A c \in Consumers : busy'[c] => /\ next'[c] # NoOffset
                                       /\ next'[c] < Len(log')
                                       /\ handled'[next'[c] + 1] > 0
  BY <1>1, <1>4 DEF ClaimInv, claimVars, NoOffset
<1>7. \A c \in Consumers : owner' = c => HandledUpTo(next[c])'
  BY <1>3, <1>4 DEF HandledUpTo, ClaimInv, claimVars
<1> QED BY <1>2, <1>5, <1>6, <1>7 DEF ClaimInv, claimVars

-----------------------------------------------------------------------------
(* A consumer's steps.                                                     *)

\* Where a claim can be.
LEMMA Places ==
    ASSUME TypeOK, ClaimInv, NEW c \in Consumers
    PROVE  /\ Len(log) \in Nat /\ committed \in Int /\ first \in Nat
           /\ committed <= Len(log) /\ first <= Len(log) /\ NoOffset <= committed
           /\ next[c] \in NoOffset..Len(log) /\ next[c] \in Int
           /\ marked[c] \in NoOffset..Len(log) /\ marked[c] \in Int
           /\ busy[c] => next[c] \in 0..(Len(log) - 1) /\ next[c] + 1 \in 1..Len(log)
BY Log DEF TypeOK, ClaimInv, NoOffset

LEMMA StepHandle ==
    ASSUME TypeOK, ClaimInv, NEW c \in Consumers, Handle(c)
    PROVE  TypeOK' /\ ClaimInv'
<1>1. /\ next[c] + 1 \in 1..Len(log) /\ next[c] < Len(log) /\ next[c] # NoOffset
  BY Places DEF Handle, HasMessage, NoOffset
<1>2. /\ handled' \in [1..Len(log) -> Nat]
      /\ handled'[next[c] + 1] > 0
      /\ \A i \in 1..Len(log) : handled[i] > 0 => handled'[i] > 0
  <2>1. /\ handled \in [1..Len(log) -> Nat]
        /\ handled' = [handled EXCEPT ![next[c] + 1] = handled[next[c] + 1] + 1]
    BY DEF Handle, TypeOK
  <2>2. handled[next[c] + 1] \in Nat
    BY <1>1, <2>1
  <2> QED BY <1>1, <2>1, <2>2
<1>3. /\ busy' \in [Consumers -> BOOLEAN]
      /\ \A d \in Consumers : busy'[d] => busy[d] \/ d = c
  BY DEF Handle, TypeOK
<1>4. TypeOK'
  BY <1>2, <1>3 DEF Handle, TypeOK, sendVars
<1>5. \A k : HandledUpTo(k) => \A i \in 1..Len(log) :
          first < i /\ i <= k /\ log[i] # Garbage => handled'[i] > 0
  BY <1>2 DEF HandledUpTo
<1>6. CommittedIsHandled'
  BY <1>5 DEF Handle, CommittedIsHandled, HandledUpTo, ClaimInv
<1>7. \A d \in Consumers : busy'[d] => /\ next[d] # NoOffset
                                       /\ next[d] < Len(log)
                                       /\ handled'[next[d] + 1] > 0
  <2> SUFFICES ASSUME NEW d \in Consumers, busy'[d]
               PROVE  /\ next[d] # NoOffset /\ next[d] < Len(log)
                      /\ handled'[next[d] + 1] > 0
    OBVIOUS
  <2>1. CASE d = c
    BY <1>1, <1>2, <2>1
  <2>2. CASE busy[d]
    BY <1>2, <2>2, Places DEF ClaimInv
  <2> QED BY <1>3, <2>1, <2>2
<1>8. \A d \in Consumers : owner = d => HandledUpTo(next[d])'
  BY <1>5 DEF Handle, HandledUpTo, ClaimInv
<1> QED BY <1>4, <1>6, <1>7, <1>8 DEF Handle, ClaimInv

\* Mark and Skip: a claim goes past a message that is dealt with.
LEMMA StepPast ==
    ASSUME TypeOK, ClaimInv, NEW c \in Consumers, Mark(c) \/ Skip(c)
    PROVE  TypeOK' /\ ClaimInv'
<1>1. /\ next[c] + 1 \in 1..Len(log) /\ next[c] \in 0..(Len(log) - 1)
      /\ log[next[c] + 1] # Garbage => handled[next[c] + 1] > 0
  <2>1. CASE Mark(c)
    BY <2>1, Places DEF Mark, ClaimInv
  <2>2. CASE Skip(c)
    <3>1. next[c] # NoOffset /\ next[c] < Len(log) /\ log[next[c] + 1] = Garbage
      BY <2>2 DEF Skip, HasMessage
    <3> QED BY <3>1, Places DEF NoOffset
  <2> QED BY <2>1, <2>2
<1>2. /\ next' = [next EXCEPT ![c] = next[c] + 1]
      /\ next'[c] = next[c] + 1
      /\ \A d \in Consumers : d # c => next'[d] = next[d]
  BY DEF Mark, Skip, TypeOK
<1>3. /\ busy' \in [Consumers -> BOOLEAN] /\ ~busy'[c]
      /\ \A d \in Consumers : d # c => busy'[d] = busy[d]
  BY DEF Mark, Skip, HasMessage, TypeOK
<1>4. /\ marked' \in [Consumers -> NoOffset..Len(log)]
      /\ marked'[c] \in {marked[c], next[c] + 1}
      /\ \A d \in Consumers : d # c => marked'[d] = marked[d]
  <2>1. next[c] + 1 \in NoOffset..Len(log)
    BY <1>1, Places DEF NoOffset
  <2>2. CASE Mark(c)
    <3>1. marked' = [marked EXCEPT ![c] = next[c] + 1]
      BY <2>2 DEF Mark
    <3> QED BY <2>1, <3>1 DEF TypeOK
  <2>3. CASE Skip(c)
    <3>1. marked' = marked
      BY <2>3 DEF Skip
    <3> QED BY <3>1 DEF TypeOK
  <2> QED BY <2>2, <2>3
<1>5. UNCHANGED <<log, sendVars, owner, committed, first, handled, faults, rebalances>>
  BY DEF Mark, Skip
<1>6. TypeOK'
  <2>1. next' \in [Consumers -> NoOffset..Len(log)]
    BY <1>1, <1>2 DEF TypeOK, NoOffset
  <2> QED BY <1>3, <1>4, <1>5, <2>1 DEF TypeOK, sendVars
<1>7. CommittedIsHandled' /\ (committed' # NoOffset => first' <= committed')
  BY <1>5 DEF CommittedIsHandled, HandledUpTo, ClaimInv
<1>8. \A d \in Consumers : busy'[d] => /\ next'[d] # NoOffset
                                       /\ next'[d] < Len(log')
                                       /\ handled'[next'[d] + 1] > 0
  BY <1>2, <1>3, <1>5 DEF ClaimInv
<1>9. ASSUME NEW d \in Consumers, owner' = d
      PROVE  /\ next'[d] # NoOffset /\ first' <= next'[d]
             /\ HandledUpTo(next[d])'
             /\ committed' <= marked'[d] /\ marked'[d] <= next'[d]
             /\ marked'[d] # NoOffset => first' <= marked'[d]
  <2>0. /\ next[d] # NoOffset /\ first <= next[d] /\ HandledUpTo(next[d])
        /\ committed <= marked[d] /\ marked[d] <= next[d]
        /\ marked[d] # NoOffset => first <= marked[d]
    BY <1>5, <1>9 DEF ClaimInv
  <2>1. CASE d # c
    BY <1>2, <1>4, <1>5, <2>0, <2>1 DEF HandledUpTo
  <2>2. CASE d = c
    <3>1. HandledUpTo(next[c])'
      BY <1>1, <1>2, <1>5, <2>0, <2>2, Log DEF HandledUpTo
    <3>2. /\ next'[d] # NoOffset /\ first' <= next'[d]
          /\ committed' <= marked'[d] /\ marked'[d] <= next'[d]
          /\ marked'[d] # NoOffset => first' <= marked'[d]
      BY <1>1, <1>2, <1>4, <1>5, <2>0, <2>2, Places DEF NoOffset
    <3> QED BY <2>2, <3>1, <3>2
  <2> QED BY <2>1, <2>2
<1> QED BY <1>6, <1>7, <1>8, <1>9 DEF ClaimInv

\* A claim begins where the group is, or at the end of the log.
LEMMA StepClaim ==
    ASSUME TypeOK, ClaimInv, NEW c \in Consumers, Claim(c)
    PROVE  TypeOK' /\ ClaimInv'
<1>1. /\ next'[c] = IF committed = NoOffset THEN Len(log) ELSE committed
      /\ marked'[c] = committed /\ owner' = c /\ ~busy[c]
      /\ first' = IF committed = NoOffset THEN Len(log) ELSE first
      /\ \A d \in Consumers : d # c => next'[d] = next[d] /\ marked'[d] = marked[d]
      /\ UNCHANGED <<log, sendVars, busy, committed, handled, faults, rebalances>>
  BY DEF Claim, TypeOK, ClaimInv
<1>2. TypeOK'
  <2>1. /\ next' \in [Consumers -> NoOffset..Len(log)]
        /\ marked' \in [Consumers -> NoOffset..Len(log)]
        /\ first' \in 0..Len(log)
    BY Places DEF Claim, TypeOK, NoOffset
  <2> QED BY <1>1, <2>1 DEF TypeOK, sendVars
<1>3. CommittedIsHandled' /\ (committed' # NoOffset => first' <= committed')
  BY <1>1, Places DEF CommittedIsHandled, HandledUpTo, ClaimInv, NoOffset
<1>4. \A d \in Consumers : busy'[d] => /\ next'[d] # NoOffset
                                       /\ next'[d] < Len(log')
                                       /\ handled'[next'[d] + 1] > 0
  BY <1>1 DEF ClaimInv
<1>5. /\ next'[c] # NoOffset /\ first' <= next'[c]
      /\ committed' <= marked'[c] /\ marked'[c] <= next'[c]
      /\ marked'[c] # NoOffset => first' <= marked'[c]
  BY <1>1, Places DEF ClaimInv, NoOffset
<1>6. HandledUpTo(next[c])'
  BY <1>1, Places DEF HandledUpTo, ClaimInv, CommittedIsHandled
<1> QED BY <1>1, <1>2, <1>3, <1>4, <1>5, <1>6 DEF ClaimInv

\* A session ends, in one way or another: what is committed is kept, or is
\* what the owner has marked.
LEMMA StepLeave ==
    ASSUME TypeOK, ClaimInv, NEW c \in Consumers, Leave(c),
           committed' = committed \/ (owner = c /\ committed' = marked[c]),
           faults' \in 0..MaxFaults, rebalances' \in 0..MaxRebalances
    PROVE  TypeOK' /\ ClaimInv'
<1>1. /\ next'[c] = NoOffset /\ ~busy'[c] /\ owner' # c
      /\ owner' \in Consumers => owner' = owner
      /\ \A d \in Consumers : d # c =>
             next'[d] = next[d] /\ marked'[d] = marked[d] /\ busy'[d] = busy[d]
      /\ UNCHANGED <<log, sendVars, first, handled>>
  BY OrdersAssumption DEF Leave, TypeOK
<1>2. TypeOK'
  <2>1. /\ next' \in [Consumers -> NoOffset..Len(log)]
        /\ marked' \in [Consumers -> NoOffset..Len(log)]
        /\ busy' \in [Consumers -> BOOLEAN]
        /\ owner' \in Consumers \cup {Nobody}
        /\ committed' \in NoOffset..Len(log)
    <3>1. NoOffset \in NoOffset..Len(log) /\ Nobody \in Consumers \cup {Nobody}
      BY Log DEF NoOffset
    <3>2. /\ next' \in [Consumers -> NoOffset..Len(log)]
          /\ marked' \in [Consumers -> NoOffset..Len(log)]
      BY <3>1 DEF Leave, TypeOK
    <3>3. busy' \in [Consumers -> BOOLEAN] /\ owner' \in Consumers \cup {Nobody}
      BY <3>1 DEF Leave, TypeOK
    <3>4. committed' \in NoOffset..Len(log)
      BY DEF TypeOK
    <3> QED BY <3>2, <3>3, <3>4
  <2> QED BY <1>1, <2>1 DEF TypeOK, sendVars
<1>3. CommittedIsHandled' /\ (committed' # NoOffset => first' <= committed')
  <2>1. CASE committed' = committed
    BY <1>1, <2>1 DEF CommittedIsHandled, HandledUpTo, ClaimInv
  <2>2. CASE owner = c /\ committed' = marked[c]
    <3>1. /\ HandledUpTo(next[c]) /\ marked[c] <= next[c]
          /\ marked[c] # NoOffset => first <= marked[c]
      BY <2>2 DEF ClaimInv
    <3>2. marked[c] \in Int /\ next[c] \in Int /\ Len(log) \in Nat
      BY Places
    <3> QED BY <1>1, <2>2, <3>1, <3>2 DEF CommittedIsHandled, HandledUpTo
  <2> QED BY <2>1, <2>2
<1>4. \A d \in Consumers : busy'[d] => /\ next'[d] # NoOffset
                                       /\ next'[d] < Len(log')
                                       /\ handled'[next'[d] + 1] > 0
  BY <1>1 DEF ClaimInv
<1>5. ASSUME NEW d \in Consumers, owner' = d
      PROVE  /\ next'[d] # NoOffset /\ first' <= next'[d]
             /\ HandledUpTo(next[d])'
             /\ committed' <= marked'[d] /\ marked'[d] <= next'[d]
             /\ marked'[d] # NoOffset => first' <= marked'[d]
  <2>1. d # c /\ owner = d /\ committed' = committed
    BY <1>1, <1>5
  <2> QED BY <1>1, <2>1 DEF ClaimInv, HandledUpTo
<1> QED BY <1>2, <1>3, <1>4, <1>5 DEF ClaimInv

\* The commit of the owner, and the loss of the partition.
LEMMA StepCommit ==
    ASSUME TypeOK, ClaimInv, NEW c \in Consumers, Commit(c) \/ LosePartition(c)
    PROVE  TypeOK' /\ ClaimInv'
<1>1. /\ owner = c /\ UNCHANGED <<log, sendVars, next, busy, marked, first, handled,
                                  rebalances>>
      /\ \/ committed' = marked[c] /\ owner' = c /\ UNCHANGED faults
         \/ committed' = committed /\ owner' = Nobody /\ Fault
  BY DEF Commit, LosePartition, claimVars
<1>2. faults' \in 0..MaxFaults
  BY <1>1, OrdersAssumption DEF Fault, TypeOK
<1>3. /\ next[c] # NoOffset /\ first <= next[c] /\ HandledUpTo(next[c])
      /\ marked[c] <= next[c] /\ committed <= marked[c]
      /\ marked[c] # NoOffset => first <= marked[c]
  BY <1>1 DEF ClaimInv
<1>4. TypeOK'
  BY <1>1, <1>2, Places DEF TypeOK, sendVars
<1>5. CommittedIsHandled' /\ (committed' # NoOffset => first' <= committed')
  <2>1. HandledUpTo(marked[c])
    BY <1>3, Places DEF HandledUpTo
  <2> QED BY <1>1, <1>3, <2>1 DEF CommittedIsHandled, HandledUpTo, ClaimInv
<1>6. \A d \in Consumers : busy'[d] => /\ next'[d] # NoOffset
                                       /\ next'[d] < Len(log')
                                       /\ handled'[next'[d] + 1] > 0
  BY <1>1 DEF ClaimInv
<1>7. ASSUME NEW d \in Consumers, owner' = d
      PROVE  /\ next'[d] # NoOffset /\ first' <= next'[d]
             /\ HandledUpTo(next[d])'
             /\ committed' <= marked'[d] /\ marked'[d] <= next'[d]
             /\ marked'[d] # NoOffset => first' <= marked'[d]
  <2>1. d = c /\ committed' = marked[c]
    BY <1>1, <1>7, OrdersAssumption
  <2> QED BY <1>1, <1>3, <2>1, Places DEF HandledUpTo
<1> QED BY <1>4, <1>5, <1>6, <1>7 DEF ClaimInv

-----------------------------------------------------------------------------
LEMMA Step == TypeOK /\ ClaimInv /\ [Next]_vars => TypeOK' /\ ClaimInv'
<1> SUFFICES ASSUME TypeOK, ClaimInv, [Next]_vars PROVE TypeOK' /\ ClaimInv'
  OBVIOUS
<1>1. ASSUME NEW o \in Orders, Send(o) PROVE TypeOK' /\ ClaimInv'
  <2>1. /\ sent' \in [Orders -> {"none", "nil", "error"}]
        /\ resends' \in 0..MaxResends /\ garbage' \in 0..MaxGarbage
    <3>1. \/ sent' = sent
          \/ sent' = [sent EXCEPT ![o] = "nil"]
          \/ sent' = [sent EXCEPT ![o] = "error"]
      BY <1>1 DEF Send
    <3>2. resends' = resends \/ (resends < MaxResends /\ resends' = resends + 1)
      BY <1>1 DEF Send
    <3>3. garbage' = garbage
      BY <1>1 DEF Send
    <3>4. sent' \in [Orders -> {"none", "nil", "error"}]
      BY <3>1 DEF TypeOK
    <3> QED BY <3>2, <3>3, <3>4, OrdersAssumption DEF TypeOK
  <2>2. /\ UNCHANGED <<claimVars, committed, first, faults, rebalances>>
        /\ Write(o) \/ UNCHANGED <<log, handled>>
    BY <1>1 DEF Send
  <2> QED BY <2>1, <2>2, StepWrite DEF Messages
<1>2. ASSUME WriteGarbage PROVE TypeOK' /\ ClaimInv'
  <2>1. /\ sent' \in [Orders -> {"none", "nil", "error"}]
        /\ resends' \in 0..MaxResends /\ garbage' \in 0..MaxGarbage
    BY <1>2, OrdersAssumption DEF WriteGarbage, TypeOK
  <2>2. /\ UNCHANGED <<claimVars, committed, first, faults, rebalances>>
        /\ Write(Garbage)
    BY <1>2 DEF WriteGarbage
  <2> QED BY <2>1, <2>2, StepWrite DEF Messages
<1>3. ASSUME NEW c \in Consumers, EndSession(c) PROVE TypeOK' /\ ClaimInv'
  <2>1. /\ owner = c /\ Leave(c)
        /\ committed' = committed \/ committed' = marked[c]
    BY <1>3 DEF EndSession
  <2>2. faults' \in 0..MaxFaults /\ rebalances' \in 0..MaxRebalances
    BY <1>3, OrdersAssumption DEF EndSession, Fault, TypeOK
  <2> QED BY <2>1, <2>2, StepLeave
<1>4. ASSUME NEW c \in Consumers, NoticeLoss(c) \/ Crash(c)
      PROVE  TypeOK' /\ ClaimInv'
  <2>1. Leave(c) /\ committed' = committed
    BY <1>4 DEF NoticeLoss, Crash
  <2>2. faults' \in 0..MaxFaults /\ rebalances' \in 0..MaxRebalances
    BY <1>4, OrdersAssumption DEF NoticeLoss, Crash, Fault, TypeOK
  <2> QED BY <2>1, <2>2, StepLeave
<1>5. CASE UNCHANGED vars
  BY <1>5, StepWrite DEF vars, sendVars, TypeOK
<1> QED BY <1>1, <1>2, <1>3, <1>4, <1>5, StepHandle, StepPast, StepClaim,
           StepCommit DEF Next, ClaimStep

\* The log, its counts and every offset stay in their ranges.
THEOREM OrdersTyped == Spec => []TypeOK
BY InitTyped, Step, PTL DEF Spec

\* Whatever consumers come, go, crash and are taken for dead: nothing is
\* committed that was neither handled nor refused by Handle.
THEOREM CommitsAreHandled == Spec => []CommittedIsHandled
<1>1. ClaimInv => CommittedIsHandled
  BY DEF ClaimInv
<1> QED BY <1>1, InitTyped, Step, PTL DEF Spec

-----------------------------------------------------------------------------
(* How often a message is handled: sets of claims that lose, gain or swap a  *)
(* member.                                                                   *)

LEMMA Fewer ==
    ASSUME NEW S, IsFiniteSet(S), NEW T, T \subseteq S
    PROVE  /\ IsFiniteSet(T) /\ Cardinality(T) \in Nat /\ Cardinality(S) \in Nat
           /\ Cardinality(T) <= Cardinality(S)
BY FS_Subset, FS_CardinalityType

LEMMA OneLess ==
    ASSUME NEW S, IsFiniteSet(S), NEW a \in S, NEW T, T \subseteq S \ {a}
    PROVE  /\ IsFiniteSet(T) /\ Cardinality(T) \in Nat /\ Cardinality(S) \in Nat
           /\ Cardinality(T) + 1 <= Cardinality(S)
<1>1. IsFiniteSet(S \ {a}) /\ Cardinality(S \ {a}) = Cardinality(S) - 1
  BY FS_RemoveElement
<1> QED BY <1>1, Fewer, FS_CardinalityType

LEMMA OneMore ==
    ASSUME NEW S, IsFiniteSet(S), NEW a, NEW T, T \subseteq S \cup {a}
    PROVE  /\ IsFiniteSet(T) /\ Cardinality(T) \in Nat /\ Cardinality(S) \in Nat
           /\ Cardinality(T) <= Cardinality(S) + 1
<1>1. /\ IsFiniteSet(S \cup {a}) /\ Cardinality(S) \in Nat
      /\ Cardinality(S \cup {a}) <= Cardinality(S) + 1
  BY FS_AddElement, FS_CardinalityType
<1> QED BY <1>1, Fewer, FS_CardinalityType

LEMMA Swapped ==
    ASSUME NEW S, IsFiniteSet(S), NEW a \in S, NEW b, NEW T,
           T \subseteq (S \ {a}) \cup {b}
    PROVE  /\ IsFiniteSet(T) /\ Cardinality(T) \in Nat /\ Cardinality(S) \in Nat
           /\ Cardinality(T) <= Cardinality(S)
<1>1. /\ IsFiniteSet(S \ {a}) /\ Cardinality(S \ {a}) + 1 <= Cardinality(S)
      /\ Cardinality(S) \in Nat
  BY OneLess
<1> QED BY <1>1, OneMore

\* Who has a message before him is a claim.
LEMMA Yets ==
    ASSUME TypeOK, RepeatInv, NEW i
    PROVE  /\ Yet(i) \subseteq Claimants /\ IsFiniteSet(Yet(i))
           /\ Cardinality(Yet(i)) \in Nat /\ Cardinality(Yet(i)) <= 1 + faults
           /\ Cardinality(Claimants) \in Nat
<1>1. Yet(i) \subseteq Claimants /\ IsFiniteSet(Claimants)
  BY DEF Yet, Claimants, RepeatInv
<1>2. Cardinality(Claimants) <= 1 + faults /\ faults \in Nat
  BY DEF RepeatInv, TypeOK
<1> QED BY <1>1, <1>2, Fewer

LEMMA InitRepeats == Init => RepeatInv
<1> SUFFICES ASSUME Init PROVE RepeatInv
  OBVIOUS
<1>1. Claimants = {Nobody} /\ log = <<>> /\ faults = 0 /\ Len(log) = 0
  BY DEF Init, Claimants
<1>2. IsFiniteSet(Claimants) /\ Cardinality(Claimants) = 1
  BY <1>1, FS_Singleton
<1> QED BY <1>1, <1>2 DEF RepeatInv, Init, NoOffset

\* The log grows: all claims may have the new message before them.
LEMMA RepeatWrite ==
    ASSUME TypeOK, RepeatInv, UNCHANGED <<claimVars, committed, faults>>,
           NEW m \in Messages, Write(m)
    PROVE  RepeatInv'
<1>1. /\ Len(log) \in Nat /\ Len(log') = Len(log) + 1
      /\ \A i \in 1..Len(log) : log'[i] = log[i] /\ handled'[i] = handled[i]
  BY Log, Written
<1>2. handled'[Len(log')] = 0
  <2>1. handled \in Seq(Nat) /\ Len(handled) = Len(log)
    <3>1. handled \in [1..Len(log) -> Nat]
      BY DEF TypeOK
    <3> QED BY <1>1, <3>1
  <2> QED BY <1>1, <2>1, AppendProperties DEF Write
<1>3. Claimants' = Claimants /\ faults' = faults
  BY DEF Claimants, claimVars
<1>4. \A i : Yet(i)' = Yet(i)
  BY DEF Yet, claimVars
<1>5. ASSUME NEW i \in 1..Len(log')
      PROVE  IF log'[i] = Garbage THEN handled'[i] = 0
             ELSE handled'[i] + Cardinality(Yet(i)') <= 1 + faults'
  <2>1. CASE i \in 1..Len(log)
    BY <1>1, <1>3, <1>4, <2>1 DEF RepeatInv
  <2>2. CASE i = Len(log')
    BY <1>2, <1>3, <1>4, <2>2, Yets
  <2> QED BY <1>1, <2>1, <2>2
<1>6. ASSUME NEW c \in Consumers, owner' = c, marked'[c] # NoOffset,
             NEW i \in 1..Len(log'), marked'[c] < i, i <= next'[c]
      PROVE  log'[i] = Garbage
  <2>1. next[c] \in NoOffset..Len(log)
    BY DEF TypeOK
  <2>2. i \in 1..Len(log) /\ owner = c /\ marked[c] # NoOffset
        /\ marked[c] < i /\ i <= next[c]
    BY <1>1, <1>6, <2>1 DEF claimVars, NoOffset
  <2> QED BY <1>1, <2>2 DEF RepeatInv
<1> QED BY <1>3, <1>5, <1>6 DEF RepeatInv

\* The claim that handles a message does not have it before it any more.
LEMMA RepeatHandle ==
    ASSUME TypeOK, ClaimInv, RepeatInv, NEW c \in Consumers, Handle(c)
    PROVE  RepeatInv'
<1> DEFINE j == next[c] + 1
<1>1. /\ j \in 1..Len(log) /\ next[c] # NoOffset /\ ~busy[c] /\ log[j] # Garbage
      /\ handled[j] \in Nat /\ next[c] \in Int
  BY Places, Log DEF Handle, HasMessage, NoOffset
<1>2. /\ handled'[j] = handled[j] + 1
      /\ \A i \in 1..Len(log) : i # j => handled'[i] = handled[i]
      /\ busy'[c] /\ \A d \in Consumers : d # c => busy'[d] = busy[d]
      /\ UNCHANGED <<log, owner, next, marked, committed, faults>>
  BY <1>1 DEF Handle, TypeOK
<1>3. Claimants' = Claimants
  BY <1>2 DEF Claimants
<1>4. \A i \in 1..Len(log) : Yet(i)' \subseteq Yet(i)
  BY <1>1, <1>2 DEF Yet
<1>5. ASSUME NEW i \in 1..Len(log), i = j
      PROVE  c \in Yet(i) /\ Yet(i)' \subseteq Yet(i) \ {c}
  BY <1>1, <1>2, <1>5, OrdersAssumption DEF Yet
<1>6. ASSUME NEW i \in 1..Len(log)
      PROVE  IF log[i] = Garbage THEN handled'[i] = 0
             ELSE handled'[i] + Cardinality(Yet(i)') <= 1 + faults
  <2>1. CASE i = j
    <3>1. handled[i] + Cardinality(Yet(i)) <= 1 + faults
      BY <1>1, <2>1 DEF RepeatInv
    <3>2. /\ Cardinality(Yet(i)') + 1 <= Cardinality(Yet(i))
          /\ Cardinality(Yet(i)') \in Nat /\ Cardinality(Yet(i)) \in Nat
      <4>1. IsFiniteSet(Yet(i))
        BY Yets
      <4>2. c \in Yet(i) /\ Yet(i)' \subseteq Yet(i) \ {c}
        BY <1>5, <2>1
      <4> QED BY <4>1, <4>2, OneLess
    <3>3. faults \in Nat /\ handled[i] \in Nat
      BY Log DEF TypeOK
    <3>4. handled'[i] = handled[i] + 1 /\ log[i] # Garbage
      BY <1>1, <1>2, <2>1
    <3> QED BY <3>1, <3>2, <3>3, <3>4
  <2>2. CASE i # j
    <3>1. IF log[i] = Garbage THEN handled[i] = 0
          ELSE handled[i] + Cardinality(Yet(i)) <= 1 + faults
      BY DEF RepeatInv
    <3>2. /\ Cardinality(Yet(i)') <= Cardinality(Yet(i))
          /\ Cardinality(Yet(i)') \in Nat /\ Cardinality(Yet(i)) \in Nat
      BY <1>4, Yets, Fewer
    <3>3. faults \in Nat /\ handled[i] \in Nat
      BY Log DEF TypeOK
    <3> QED BY <1>2, <2>2, <3>1, <3>2, <3>3
  <2> QED BY <2>1, <2>2
<1> QED BY <1>2, <1>3, <1>6 DEF RepeatInv

\* Going past a message changes nothing for the others but what is refused.
LEMMA RepeatPast ==
    ASSUME TypeOK, ClaimInv, RepeatInv, NEW c \in Consumers, Mark(c) \/ Skip(c)
    PROVE  RepeatInv'
<1>1. /\ next[c] \in Nat /\ next[c] + 1 \in 1..Len(log) /\ Len(log) \in Nat
      /\ marked[c] \in Int /\ marked[c] <= Len(log)
  <2>1. next[c] # NoOffset /\ next[c] < Len(log)
    BY DEF Mark, Skip, HasMessage, ClaimInv
  <2> QED BY <2>1, Places DEF NoOffset
<1>2. /\ next'[c] = next[c] + 1
      /\ \A d \in Consumers : d # c => next'[d] = next[d]
      /\ \A d \in Consumers : d # c => marked'[d] = marked[d]
      /\ \A d \in Consumers : d # c => busy'[d] = busy[d]
      /\ ~busy'[c]
      /\ UNCHANGED <<log, owner, committed, handled, faults>>
  BY DEF Mark, Skip, HasMessage, TypeOK
<1>3. \/ busy[c] /\ marked'[c] = next[c] + 1
      \/ ~busy[c] /\ log[next[c] + 1] = Garbage /\ marked'[c] = marked[c]
  BY DEF Mark, Skip, HasMessage, TypeOK
<1>4. Claimants' = Claimants
  BY <1>1, <1>2 DEF Claimants, NoOffset
<1>5. ASSUME NEW i \in 1..Len(log), log[i] # Garbage
      PROVE  Yet(i)' \subseteq Yet(i)
  BY <1>1, <1>2, <1>3, <1>5 DEF Yet, NoOffset
<1>6. ASSUME NEW i \in 1..Len(log)
      PROVE  IF log[i] = Garbage THEN handled[i] = 0
             ELSE handled[i] + Cardinality(Yet(i)') <= 1 + faults
  <2>1. IF log[i] = Garbage THEN handled[i] = 0
        ELSE handled[i] + Cardinality(Yet(i)) <= 1 + faults
    BY DEF RepeatInv
  <2>2. faults \in Nat /\ handled[i] \in Nat
    BY Log DEF TypeOK
  <2>3. CASE log[i] # Garbage
    <3>1. /\ Cardinality(Yet(i)') <= Cardinality(Yet(i))
          /\ Cardinality(Yet(i)') \in Nat /\ Cardinality(Yet(i)) \in Nat
      BY <1>5, <2>3, Yets, Fewer
    <3> QED BY <2>1, <2>2, <2>3, <3>1
  <2> QED BY <2>1, <2>3
<1>7. ASSUME NEW d \in Consumers, owner = d, marked'[d] # NoOffset,
             NEW i \in 1..Len(log), marked'[d] < i, i <= next'[d]
      PROVE  log[i] = Garbage
  <2>1. marked[d] # NoOffset /\ marked[d] < i /\ i <= next[d] => log[i] = Garbage
    BY <1>7 DEF RepeatInv
  <2>2. CASE d # c
    BY <1>2, <1>7, <2>1, <2>2
  <2>3. CASE d = c
    BY <1>1, <1>2, <1>3, <1>7, <2>1, <2>3
  <2> QED BY <2>2, <2>3
<1> QED BY <1>2, <1>4, <1>6, <1>7 DEF RepeatInv

\* A claim takes the place of the one that was to come.
LEMMA RepeatClaim ==
    ASSUME TypeOK, ClaimInv, RepeatInv, NEW c \in Consumers, Claim(c)
    PROVE  RepeatInv'
<1>1. /\ next'[c] = IF committed = NoOffset THEN Len(log) ELSE committed
      /\ marked'[c] = committed /\ owner = Nobody /\ owner' = c /\ c # Nobody
      /\ next[c] = NoOffset /\ ~busy[c]
      /\ \A d \in Consumers : d # c => next'[d] = next[d]
      /\ UNCHANGED <<log, busy, committed, handled, faults>>
  BY OrdersAssumption DEF Claim, TypeOK, ClaimInv
<1>2. Nobody \in Claimants /\ Claimants' \subseteq (Claimants \ {Nobody}) \cup {c}
  BY <1>1, OrdersAssumption DEF Claimants
<1>3. IsFiniteSet(Claimants') /\ Cardinality(Claimants') <= 1 + faults
  <2>1. IsFiniteSet(Claimants) /\ Cardinality(Claimants) <= 1 + faults
        /\ faults \in Nat
    BY DEF RepeatInv, TypeOK
  <2>2. /\ Cardinality(Claimants') <= Cardinality(Claimants)
        /\ Cardinality(Claimants') \in Nat /\ Cardinality(Claimants) \in Nat
        /\ IsFiniteSet(Claimants')
    BY <1>2, <2>1, Swapped
  <2> QED BY <2>1, <2>2
<1>4. ASSUME NEW i \in 1..Len(log)
      PROVE  IF log[i] = Garbage THEN handled[i] = 0
             ELSE handled[i] + Cardinality(Yet(i)') <= 1 + faults
  <2>1. IF log[i] = Garbage THEN handled[i] = 0
        ELSE handled[i] + Cardinality(Yet(i)) <= 1 + faults
    BY DEF RepeatInv
  <2>2. /\ Cardinality(Yet(i)') <= Cardinality(Yet(i))
        /\ Cardinality(Yet(i)') \in Nat /\ Cardinality(Yet(i)) \in Nat
    <3>0. Len(log) \in Nat
      BY Log
    <3>1. CASE committed # NoOffset /\ committed < i
      <4>1. Nobody \in Yet(i) /\ Yet(i)' \subseteq (Yet(i) \ {Nobody}) \cup {c}
        BY <1>1, <3>1, OrdersAssumption DEF Yet
      <4>2. IsFiniteSet(Yet(i))
        BY Yets
      <4> QED BY <4>1, <4>2, Swapped
    <3>2. CASE ~(committed # NoOffset /\ committed < i)
      <4>1. Yet(i)' \subseteq Yet(i)
        BY <1>1, <3>0, <3>2, Places, OrdersAssumption DEF Yet, NoOffset
      <4> QED BY <4>1, Yets, Fewer
    <3> QED BY <3>1, <3>2
  <2>3. faults \in Nat /\ handled[i] \in Nat
    BY Log DEF TypeOK
  <2> QED BY <2>1, <2>2, <2>3
<1>5. ASSUME NEW d \in Consumers, owner' = d, marked'[d] # NoOffset,
             NEW i \in 1..Len(log), marked'[d] < i, i <= next'[d]
      PROVE  log[i] = Garbage
  BY <1>1, <1>5, Places
<1> QED BY <1>1, <1>3, <1>4, <1>5 DEF RepeatInv

\* What the owner has marked is committed: nothing but what was refused lies
\* between there and where it was.
LEMMA RepeatCommitted ==
    ASSUME TypeOK, ClaimInv, RepeatInv, NEW c \in Consumers, owner = c, ~busy[c],
           Leave(c), committed' = marked[c], UNCHANGED faults
    PROVE  RepeatInv'
<1>1. /\ next'[c] = NoOffset /\ owner' = Nobody /\ c # Nobody
      /\ next[c] # NoOffset /\ next[c] \in Int /\ marked[c] \in Int
      /\ \A d \in Consumers : d # c => next'[d] = next[d] /\ busy'[d] = busy[d]
      /\ UNCHANGED <<log, handled>>
  BY Places, OrdersAssumption DEF Leave, TypeOK, ClaimInv
<1>2. c \in Claimants /\ Claimants' \subseteq (Claimants \ {c}) \cup {Nobody}
  BY <1>1, OrdersAssumption DEF Claimants
<1>3. IsFiniteSet(Claimants') /\ Cardinality(Claimants') <= 1 + faults
  <2>1. IsFiniteSet(Claimants) /\ Cardinality(Claimants) <= 1 + faults
        /\ faults \in Nat
    BY DEF RepeatInv, TypeOK
  <2>2. /\ Cardinality(Claimants') <= Cardinality(Claimants)
        /\ Cardinality(Claimants') \in Nat /\ Cardinality(Claimants) \in Nat
        /\ IsFiniteSet(Claimants')
    BY <1>2, <2>1, Swapped
  <2> QED BY <2>1, <2>2
<1>4. ASSUME NEW i \in 1..Len(log)
      PROVE  IF log[i] = Garbage THEN handled[i] = 0
             ELSE handled[i] + Cardinality(Yet(i)') <= 1 + faults
  <2>1. IF log[i] = Garbage THEN handled[i] = 0
        ELSE handled[i] + Cardinality(Yet(i)) <= 1 + faults
    BY DEF RepeatInv
  <2>2. ASSUME log[i] # Garbage
        PROVE  /\ Cardinality(Yet(i)') <= Cardinality(Yet(i))
               /\ Cardinality(Yet(i)') \in Nat /\ Cardinality(Yet(i)) \in Nat
    <3>1. CASE next[c] < i
      <4>1. c \in Yet(i) /\ Yet(i)' \subseteq (Yet(i) \ {c}) \cup {Nobody}
        BY <1>1, <3>1, OrdersAssumption DEF Yet
      <4>2. IsFiniteSet(Yet(i))
        BY Yets
      <4> QED BY <4>1, <4>2, Swapped, ZenonT(40)
    <3>2. CASE i <= next[c]
      <4>1. ~(marked[c] # NoOffset /\ marked[c] < i)
        BY <2>2, <3>2 DEF RepeatInv
      <4>2. Yet(i)' \subseteq Yet(i)
        BY <1>1, <3>2, <4>1, OrdersAssumption DEF Yet
      <4> QED BY <4>2, Yets, Fewer
    <3> QED BY <1>1, <3>1, <3>2
  <2>3. faults \in Nat /\ handled[i] \in Nat
    BY Log DEF TypeOK
  <2> QED BY <2>1, <2>2, <2>3
<1> QED BY <1>1, <1>3, <1>4, OrdersAssumption DEF RepeatInv

\* A fault: a claim is to come that may begin before where the owner was.
LEMMA RepeatFault ==
    ASSUME TypeOK, ClaimInv, RepeatInv, NEW c \in Consumers, owner = c,
           Leave(c) \/ LosePartition(c), UNCHANGED committed, faults' = faults + 1
    PROVE  RepeatInv'
<1>1. /\ owner' = Nobody /\ next'[c] \in {next[c], NoOffset}
      /\ \A d \in Consumers : d # c => next'[d] = next[d]
      /\ \A d \in Consumers : next'[d] # NoOffset => busy'[d] = busy[d]
      /\ UNCHANGED <<log, handled>> /\ c # Nobody
  BY OrdersAssumption DEF Leave, LosePartition, TypeOK
<1>2. /\ \A d \in Consumers : next'[d] # NoOffset => next'[d] = next[d]
      /\ faults \in Nat
  BY <1>1 DEF TypeOK
<1>3. Claimants' \subseteq Claimants \cup {Nobody}
  BY <1>1, <1>2 DEF Claimants
<1>4. IsFiniteSet(Claimants') /\ Cardinality(Claimants') <= 1 + faults'
  <2>1. IsFiniteSet(Claimants) /\ Cardinality(Claimants) <= 1 + faults
    BY DEF RepeatInv
  <2>2. /\ Cardinality(Claimants') <= Cardinality(Claimants) + 1
        /\ Cardinality(Claimants') \in Nat /\ Cardinality(Claimants) \in Nat
        /\ IsFiniteSet(Claimants')
    BY <1>3, <2>1, OneMore
  <2> QED BY <1>2, <2>1, <2>2
<1>5. ASSUME NEW i \in 1..Len(log)
      PROVE  IF log[i] = Garbage THEN handled[i] = 0
             ELSE handled[i] + Cardinality(Yet(i)') <= 1 + faults'
  <2>1. IF log[i] = Garbage THEN handled[i] = 0
        ELSE handled[i] + Cardinality(Yet(i)) <= 1 + faults
    BY DEF RepeatInv
  <2>2. Yet(i)' \subseteq Yet(i) \cup {Nobody}
    BY <1>1, <1>2 DEF Yet
  <2>3. /\ Cardinality(Yet(i)') <= Cardinality(Yet(i)) + 1
        /\ Cardinality(Yet(i)') \in Nat /\ Cardinality(Yet(i)) \in Nat
    BY <2>2, Yets, OneMore
  <2>4. handled[i] \in Nat
    BY Log
  <2> QED BY <1>2, <2>1, <2>3, <2>4
<1> QED BY <1>1, <1>4, <1>5, OrdersAssumption DEF RepeatInv

\* A consumer that is not the owner any more finds out.
LEMMA RepeatNotice ==
    ASSUME TypeOK, RepeatInv, NEW c \in Consumers, NoticeLoss(c)
    PROVE  RepeatInv'
<1>1. /\ owner # c /\ next'[c] = NoOffset
      /\ \A d \in Consumers : d # c => /\ next'[d] = next[d] /\ busy'[d] = busy[d]
                                       /\ marked'[d] = marked[d]
      /\ UNCHANGED <<log, handled, owner, committed, faults>>
  BY DEF NoticeLoss, Leave, TypeOK
<1>2. Claimants' \subseteq Claimants
  BY <1>1 DEF Claimants
<1>3. IsFiniteSet(Claimants') /\ Cardinality(Claimants') <= 1 + faults
  <2>1. IsFiniteSet(Claimants) /\ Cardinality(Claimants) <= 1 + faults
        /\ faults \in Nat
    BY DEF RepeatInv, TypeOK
  <2>2. /\ Cardinality(Claimants') <= Cardinality(Claimants)
        /\ Cardinality(Claimants') \in Nat /\ Cardinality(Claimants) \in Nat
        /\ IsFiniteSet(Claimants')
    BY <1>2, <2>1, Fewer
  <2> QED BY <2>1, <2>2
<1>4. ASSUME NEW i \in 1..Len(log)
      PROVE  IF log[i] = Garbage THEN handled[i] = 0
             ELSE handled[i] + Cardinality(Yet(i)') <= 1 + faults
  <2>1. IF log[i] = Garbage THEN handled[i] = 0
        ELSE handled[i] + Cardinality(Yet(i)) <= 1 + faults
    BY DEF RepeatInv
  <2>2. Yet(i)' \subseteq Yet(i)
    BY <1>1 DEF Yet
  <2>3. /\ Cardinality(Yet(i)') <= Cardinality(Yet(i))
        /\ Cardinality(Yet(i)') \in Nat /\ Cardinality(Yet(i)) \in Nat
    BY <2>2, Yets, Fewer
  <2>4. faults \in Nat /\ handled[i] \in Nat
    BY Log DEF TypeOK
  <2> QED BY <2>1, <2>3, <2>4
<1>5. \A d \in Consumers : owner' = d /\ marked'[d] # NoOffset =>
          \A i \in 1..Len(log) :
              marked'[d] < i /\ i <= next'[d] => log[i] = Garbage
  BY <1>1 DEF RepeatInv
<1> QED BY <1>1, <1>3, <1>4, <1>5 DEF RepeatInv

\* The commit of the owner changes nothing for a claim that is to come.
LEMMA RepeatSame ==
    ASSUME RepeatInv, UNCHANGED <<log, claimVars, handled, faults>>,
           committed' = committed \/ owner # Nobody
    PROVE  RepeatInv'
<1>1. Claimants' = Claimants
  BY DEF Claimants, claimVars
<1>2. \A i : Yet(i)' = Yet(i)
  BY DEF Yet, claimVars
<1> QED BY <1>1, <1>2 DEF RepeatInv, claimVars

LEMMA RepeatStep ==
    TypeOK /\ ClaimInv /\ RepeatInv /\ [Next]_vars => RepeatInv'
<1> SUFFICES ASSUME TypeOK, ClaimInv, RepeatInv, [Next]_vars PROVE RepeatInv'
  OBVIOUS
<1>1. ASSUME NEW o \in Orders, Send(o) PROVE RepeatInv'
  <2>1. /\ UNCHANGED <<claimVars, committed, faults>>
        /\ Write(o) \/ UNCHANGED <<log, handled>>
    BY <1>1 DEF Send
  <2> QED BY <2>1, RepeatWrite, RepeatSame DEF Messages
<1>2. ASSUME WriteGarbage PROVE RepeatInv'
  BY <1>2, RepeatWrite DEF WriteGarbage, Messages
<1>3. ASSUME NEW c \in Consumers, Commit(c) PROVE RepeatInv'
  BY <1>3, RepeatSame, OrdersAssumption DEF Commit
<1>4. ASSUME NEW c \in Consumers, EndSession(c) PROVE RepeatInv'
  <2>1. /\ owner = c /\ ~busy[c] /\ Leave(c)
        /\ \/ committed' = marked[c] /\ UNCHANGED faults
           \/ UNCHANGED committed /\ faults' = faults + 1
    BY <1>4 DEF EndSession, Fault
  <2> QED BY <2>1, RepeatCommitted, RepeatFault
<1>5. ASSUME NEW c \in Consumers, LosePartition(c) \/ Crash(c) PROVE RepeatInv'
  <2>1. /\ owner = c /\ UNCHANGED committed /\ faults' = faults + 1
        /\ Leave(c) \/ LosePartition(c)
    BY <1>5 DEF LosePartition, Crash, Fault
  <2> QED BY <2>1, RepeatFault
<1>6. CASE UNCHANGED vars
  BY <1>6, RepeatSame DEF vars
<1> QED BY <1>1, <1>2, <1>3, <1>4, <1>5, <1>6, RepeatHandle, RepeatPast,
           RepeatClaim, RepeatNotice DEF Next, ClaimStep

\* A message is handled once, and at most once more for each crash, missed
\* heartbeat or failing commit there has been, whichever consumers share the
\* partition and however often it is rebalanced.
THEOREM RepeatsNeedFaults == Spec => []RepeatedOnlyByFaults
<1>1. TypeOK /\ RepeatInv => RepeatedOnlyByFaults
  <2> SUFFICES ASSUME TypeOK, RepeatInv, NEW i \in 1..Len(log)
               PROVE  handled[i] <= 1 + faults
    BY DEF RepeatedOnlyByFaults
  <2>1. IF log[i] = Garbage THEN handled[i] = 0
        ELSE handled[i] + Cardinality(Yet(i)) <= 1 + faults
    BY DEF RepeatInv
  <2>2. Cardinality(Yet(i)) \in Nat
    BY Yets
  <2>3. handled[i] \in Nat /\ faults \in Nat
    BY Log DEF TypeOK
  <2> QED BY <2>1, <2>2, <2>3
<1> QED BY <1>1, InitTyped, InitRepeats, Step, RepeatStep, PTL DEF Spec

-----------------------------------------------------------------------------
(* What follows for the group.                                             *)

\* The group's offset never goes back, although a consumer commits whatever it
\* has marked when it leaves: a claim marks from the committed offset on, and
\* nobody else commits while it lasts.
THEOREM CommitsOnlyAdvance == Spec => [][committed <= committed']_vars
<1>1. TypeOK /\ ClaimInv /\ [Next]_vars => [committed <= committed']_vars
  <2> SUFFICES ASSUME TypeOK, ClaimInv, Next PROVE committed <= committed'
    OBVIOUS
  <2>1. committed \in Int /\ \A c \in Consumers : marked[c] \in Int
    BY Log DEF TypeOK, NoOffset
  <2>2. \A c \in Consumers : owner = c => committed <= marked[c]
    BY DEF ClaimInv
  <2>3. ASSUME NEW c \in Consumers, Commit(c) \/ EndSession(c)
        PROVE  committed <= committed'
    BY <2>1, <2>2, <2>3 DEF Commit, EndSession
  <2>4. ASSUME UNCHANGED committed PROVE committed <= committed'
    BY <2>1, <2>4
  <2>5. ASSUME NEW o \in Orders, Send(o) PROVE UNCHANGED committed
    BY <2>5 DEF Send
  <2>6. ASSUME WriteGarbage PROVE UNCHANGED committed
    BY <2>6 DEF WriteGarbage
  <2>7. ASSUME NEW c \in Consumers,
               \/ Claim(c) \/ ClaimStep(c)
               \/ LosePartition(c) \/ NoticeLoss(c) \/ Crash(c)
        PROVE  UNCHANGED committed
    BY <2>7 DEF Claim, ClaimStep, Handle, Mark, Skip, LosePartition, NoticeLoss, Crash
  <2> QED BY <2>3, <2>4, <2>5, <2>6, <2>7 DEF Next
<1> QED BY <1>1, InitTyped, Step, PTL DEF Spec

\* As long as nothing crashes, misses its heartbeats or fails to commit, every
\* well-formed message below the group's offset was handled exactly once, for
\* any number of consumers and rebalances.
THEOREM ExactlyOnceWithoutFaults ==
    Spec => [](faults = 0 =>
                  \A i \in 1..Len(log) :
                      first < i /\ i <= committed /\ log[i] # Garbage
                          => handled[i] = 1)
<1>1. TypeOK /\ ClaimInv /\ RepeatedOnlyByFaults =>
          (faults = 0 =>
              \A i \in 1..Len(log) :
                  first < i /\ i <= committed /\ log[i] # Garbage
                      => handled[i] = 1)
  <2> SUFFICES ASSUME TypeOK, ClaimInv, RepeatedOnlyByFaults, faults = 0,
                      NEW i \in 1..Len(log),
                      first < i, i <= committed, log[i] # Garbage
               PROVE  handled[i] = 1
    OBVIOUS
  <2>1. handled[i] > 0
    BY DEF ClaimInv, CommittedIsHandled, HandledUpTo
  <2>2. handled[i] <= 1 /\ handled[i] \in Nat
    BY DEF RepeatedOnlyByFaults, TypeOK
  <2> QED BY <2>1, <2>2
<1>2. Spec => [](TypeOK /\ ClaimInv)
  BY InitTyped, Step, PTL DEF Spec
<1> QED BY <1>1, <1>2, RepeatsNeedFaults, PTL
=============================================================================
