-------------------------------- MODULE Orders --------------------------------
(***************************************************************************)
(* Order messages over Kafka (kafka/): Producer.SendMessage and the        *)
(* Consumer's group, for one partition of the topic.  The partitioner is   *)
(* random and a claim has a goroutine of its own, so that partitions have  *)
(* nothing to do with each other.                                          *)
(*                                                                         *)
(* The broker and sarama are modelled from how NewSaramaConfig sets them   *)
(* up.  Offsets count from 0; the message at offset k is log[k + 1].  A    *)
(* claim reads from the committed offset, or from the end of the log if    *)
(* there is none; what is marked is committed once a second and when a     *)
(* session ends in good order.  A consumer that misses its heartbeats      *)
(* loses the partition before it knows: its commits are refused, but it    *)
(* goes on with the messages it has fetched, for Handle takes no notice of *)
(* the session's context.                                                  *)
(***************************************************************************)
EXTENDS Integers, Sequences, FiniteSets

CONSTANTS
    Orders,         \* the orders that are sent, once each
    Garbage,        \* a message of somebody else that is no JSON
    Consumers,      \* processes in Start
    Nobody,
    MaxResends,     \* bound: repeated attempts of SendMessage, all together
    MaxGarbage,     \* bound: malformed messages
    MaxFaults,      \* bound: crashes, missed heartbeats, failing commits
    MaxRebalances   \* bound: rebalances in good order

ASSUME OrdersAssumption ==
    /\ Garbage \notin Orders
    /\ Nobody \notin Consumers
    /\ MaxResends \in Nat /\ MaxGarbage \in Nat
    /\ MaxFaults \in Nat /\ MaxRebalances \in Nat

VARIABLES
    log,        \* the partition
    sent,       \* what SendMessage has answered for each order
    resends,    \* attempts that were repeated
    garbage,    \* malformed messages so far
    owner,      \* the consumer the coordinator gives the partition to
    next,       \* the offset each consumer's claim is at, NoOffset without one
    busy,       \* Handle has returned nil, MarkMessage is not called yet
    marked,     \* the offset each claim has marked
    committed,  \* the group's offset
    first,      \* where the group began to read
    handled,    \* how often Handle has accepted each offset
    faults,
    rebalances

sendVars  == <<sent, resends, garbage>>
claimVars == <<owner, next, busy, marked>>
vars == <<log, sendVars, claimVars, committed, first, handled, faults, rebalances>>

NoOffset == -1

TypeOK ==
    /\ log \in Seq(Orders \cup {Garbage})
    /\ sent \in [Orders -> {"none", "nil", "error"}]
    /\ resends \in 0..MaxResends /\ garbage \in 0..MaxGarbage
    /\ owner \in Consumers \cup {Nobody}
    /\ next \in [Consumers -> NoOffset..Len(log)]
    /\ busy \in [Consumers -> BOOLEAN]
    /\ marked \in [Consumers -> NoOffset..Len(log)]
    /\ committed \in NoOffset..Len(log)
    /\ first \in 0..Len(log)
    /\ handled \in [1..Len(log) -> Nat]
    /\ faults \in 0..MaxFaults /\ rebalances \in 0..MaxRebalances

Init ==
    /\ log = <<>> /\ handled = <<>>
    /\ sent = [o \in Orders |-> "none"]
    /\ owner = Nobody /\ committed = NoOffset /\ first = 0
    /\ next = [c \in Consumers |-> NoOffset]
    /\ marked = [c \in Consumers |-> NoOffset]
    /\ busy = [c \in Consumers |-> FALSE]
    /\ resends = 0 /\ garbage = 0 /\ faults = 0 /\ rebalances = 0

Fault == faults < MaxFaults /\ faults' = faults + 1

Write(m) == log' = Append(log, m) /\ handled' = Append(handled, 0)

-----------------------------------------------------------------------------
(* The producers.                                                          *)

\* An attempt of SendMessage: acknowledged; or it fails, before or after the
\* broker has written the message, and is repeated (Retry.Max times at most)
\* or given up.
Send(o) ==
    /\ sent[o] = "none"
    /\ \/ /\ Write(o)
          /\ sent' = [sent EXCEPT ![o] = "nil"]
          /\ UNCHANGED resends
       \/ /\ Write(o) \/ UNCHANGED <<log, handled>>
          /\ sent' = [sent EXCEPT ![o] = "error"]
          /\ UNCHANGED resends
       \/ /\ resends < MaxResends
          /\ resends' = resends + 1
          /\ Write(o)
          /\ UNCHANGED sent
    /\ UNCHANGED <<garbage, claimVars, committed, first, faults, rebalances>>

WriteGarbage ==
    /\ garbage < MaxGarbage
    /\ garbage' = garbage + 1
    /\ Write(Garbage)
    /\ UNCHANGED <<sent, resends, claimVars, committed, first, faults, rebalances>>

-----------------------------------------------------------------------------
(* A consumer's session.                                                   *)

\* Consume: the partition is claimed, from OffsetNewest if the group has no
\* offset.  Whatever Consume returns, Start calls it again.
Claim(c) ==
    /\ owner = Nobody
    /\ next[c] = NoOffset
    /\ owner' = c
    /\ next' = [next EXCEPT ![c] = IF committed = NoOffset THEN Len(log)
                                   ELSE committed]
    /\ marked' = [marked EXCEPT ![c] = committed]
    /\ first' = IF committed = NoOffset THEN Len(log) ELSE first
    /\ UNCHANGED <<log, sendVars, busy, committed, handled, faults, rebalances>>

Leave(c) ==
    /\ next' = [next EXCEPT ![c] = NoOffset]
    /\ busy' = [busy EXCEPT ![c] = FALSE]
    /\ marked' = [marked EXCEPT ![c] = NoOffset]
    /\ owner' = IF owner = c THEN Nobody ELSE owner
    /\ UNCHANGED <<log, sendVars, first, handled>>

HasMessage(c) == next[c] # NoOffset /\ next[c] < Len(log) /\ ~busy[c]

\* ConsumeClaim: Handle returns nil.
Handle(c) ==
    /\ HasMessage(c)
    /\ log[next[c] + 1] # Garbage
    /\ handled' = [handled EXCEPT ![next[c] + 1] = @ + 1]
    /\ busy' = [busy EXCEPT ![c] = TRUE]
    /\ UNCHANGED <<log, sendVars, owner, next, marked, committed, first,
                   faults, rebalances>>

\* Slip: MarkOffset(message.Offset), which is the message itself.
MarkItself(c) ==
    /\ busy[c]
    /\ busy' = [busy EXCEPT ![c] = FALSE]
    /\ next' = [next EXCEPT ![c] = @ + 1]
    /\ marked' = [marked EXCEPT ![c] = next[c]]
    /\ UNCHANGED <<log, sendVars, owner, committed, first, handled, faults,
                   rebalances>>

\* Slip: the offset after the message is marked, which MarkMessage adds 1 to.
MarkNext(c) ==
    /\ busy[c]
    /\ busy' = [busy EXCEPT ![c] = FALSE]
    /\ next' = [next EXCEPT ![c] = @ + 1]
    /\ marked' = [marked EXCEPT ![c] = next[c] + 2]
    /\ UNCHANGED <<log, sendVars, owner, committed, first, handled, faults,
                   rebalances>>

\* ConsumeClaim: session.MarkMessage.
Mark(c) ==
    /\ busy[c]
    /\ busy' = [busy EXCEPT ![c] = FALSE]
    /\ next' = [next EXCEPT ![c] = @ + 1]
    /\ marked' = [marked EXCEPT ![c] = next[c] + 1]
    /\ UNCHANGED <<log, sendVars, owner, committed, first, handled, faults,
                   rebalances>>

\* Slip: the error is returned from ConsumeClaim, which ends the session.
ReturnError(c) ==
    /\ HasMessage(c)
    /\ log[next[c] + 1] = Garbage
    /\ Leave(c)
    /\ UNCHANGED <<committed, faults, rebalances>>

\* ConsumeClaim: Handle returns an error, which is logged.
Skip(c) ==
    /\ HasMessage(c)
    /\ log[next[c] + 1] = Garbage
    /\ next' = [next EXCEPT ![c] = @ + 1]
    /\ UNCHANGED <<log, sendVars, owner, busy, marked, committed, first,
                   handled, faults, rebalances>>

\* The autocommit; the coordinator takes commits of the owner only.
Commit(c) ==
    /\ owner = c
    /\ marked[c] > committed
    /\ committed' = marked[c]
    /\ UNCHANGED <<log, sendVars, claimVars, first, handled, faults, rebalances>>

\* A rebalance, or the end of Start: ConsumeClaim finishes its message, and
\* what is marked is committed, unless that fails.
EndSession(c) ==
    /\ owner = c
    /\ ~busy[c]
    /\ rebalances < MaxRebalances
    /\ rebalances' = rebalances + 1
    /\ \/ committed' = marked[c] /\ UNCHANGED faults
       \/ Fault /\ UNCHANGED committed
    /\ Leave(c)

\* The coordinator takes the partition from a consumer it has not heard of.
LosePartition(c) ==
    /\ owner = c
    /\ Fault
    /\ owner' = Nobody
    /\ UNCHANGED <<log, sendVars, next, busy, marked, committed, first, handled,
                   rebalances>>

\* The consumer finds out, or its process ends.
NoticeLoss(c) ==
    /\ owner # c
    /\ next[c] # NoOffset
    /\ Leave(c)
    /\ UNCHANGED <<committed, faults, rebalances>>

Crash(c) ==
    /\ owner = c
    /\ Fault
    /\ Leave(c)
    /\ UNCHANGED <<committed, rebalances>>

-----------------------------------------------------------------------------
ClaimStep(c) == Handle(c) \/ Mark(c) \/ Skip(c)

Next ==
    \/ \E o \in Orders : Send(o)
    \/ WriteGarbage
    \/ \E c \in Consumers :
           \/ Claim(c) \/ ClaimStep(c) \/ Commit(c) \/ EndSession(c)
           \/ LosePartition(c) \/ NoticeLoss(c) \/ Crash(c)

Spec == Init /\ [][Next]_vars

\* Start calls Consume again for ever, a claim's goroutine runs when there is
\* a message, and a consumer that lost its partition learns of it from the
\* next heartbeat.  Commits and faults may happen or not.
Fairness ==
    /\ WF_vars(\E c \in Consumers : Claim(c))
    /\ \A c \in Consumers : WF_vars(ClaimStep(c)) /\ WF_vars(NoticeLoss(c))

FairSpec == Spec /\ Fairness

-----------------------------------------------------------------------------
(* Properties.                                                             *)

\* Offsets below k that the group must have dealt with were handled.
HandledUpTo(k) ==
    \A i \in 1..Len(log) :
        first < i /\ i <= k /\ log[i] # Garbage => handled[i] > 0

\* An offset is marked, and committed, only past messages that were handled
\* or that Handle refused (kafka/consumer.go:41-46), whichever consumer handled
\* them and however sessions ended.
CommittedIsHandled == HandledUpTo(committed)

\* A message is handled once, and at most once more for each crash, missed
\* heartbeat or failing commit: a rebalance in good order repeats nothing.
RepeatedOnlyByFaults == \A i \in 1..Len(log) : handled[i] <= 1 + faults

\* An order that SendMessage accepted (kafka/producer.go:41) is handled sooner or
\* later, although messages before it cannot be parsed and consumers come and
\* go, if it was written after the group began to read and the group has
\* committed an offset since.
SentIsHandled ==
    \A o \in Orders :
        /\ sent[o] = "nil" /\ committed # NoOffset
        /\ \E i \in 1..Len(log) : first < i /\ log[i] = o
        ~> \E i \in 1..Len(log) : log[i] = o /\ handled[i] > 0

(* Inductive strengthening, for the proofs of OrdersProofs.                *)

\* The owner has dealt with everything before the message it is at.
ClaimInv ==
    /\ CommittedIsHandled
    /\ committed # NoOffset => first <= committed
    /\ \A c \in Consumers : busy[c] => next[c] # NoOffset /\ next[c] < Len(log)
    /\ \A c \in Consumers : busy[c] => handled[next[c] + 1] > 0
    /\ \A c \in Consumers : owner = c =>
           /\ next[c] # NoOffset /\ first <= next[c]
           /\ HandledUpTo(next[c])
           /\ committed <= marked[c] /\ marked[c] <= next[c]
           /\ marked[c] # NoOffset => first <= marked[c]

\* The claims there are, Nobody standing for the one that is still to come.
Claimants ==
    {c \in Consumers : next[c] # NoOffset}
        \cup (IF owner = Nobody THEN {Nobody} ELSE {})

\* Those of them that have the message log[i] before them.
Yet(i) ==
    {c \in Consumers : /\ next[c] # NoOffset
                       /\ next[c] < i
                       /\ busy[c] => next[c] + 1 < i}
        \cup (IF owner = Nobody /\ committed # NoOffset /\ committed < i
              THEN {Nobody} ELSE {})

\* A fault leaves one claim more behind that may handle what is before it; the
\* owner has marked everything but what Handle refused.
RepeatInv ==
    /\ IsFiniteSet(Claimants) /\ Cardinality(Claimants) <= 1 + faults
    /\ \A i \in 1..Len(log) :
           IF log[i] = Garbage THEN handled[i] = 0
           ELSE handled[i] + Cardinality(Yet(i)) <= 1 + faults
    /\ \A c \in Consumers : owner = c /\ marked[c] # NoOffset =>
           \A i \in 1..Len(log) :
               marked[c] < i /\ i <= next[c] => log[i] = Garbage
=============================================================================
