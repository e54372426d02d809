-------------------------- MODULE MessageStoreProofs --------------------------
(* Proofs about MessageStore, for any connections, workers and capacity of  *)
(* the queue, and any number of messages, failures and restarts.            *)
EXTENDS MessageStore, SequenceTheorems, TLAPS

-----------------------------------------------------------------------------
(* Sequences and what is in them.                                          *)

LEMMA Elements ==
    ASSUME NEW S, NEW s \in Seq(S)
    PROVE  /\ Len(s) \in Nat /\ DOMAIN s = 1..Len(s) /\ ToSet(s) \subseteq S
           /\ \A i \in DOMAIN s : s[i] \in S /\ s[i] \in ToSet(s)
           /\ \A x \in ToSet(s) : \E i \in DOMAIN s : s[i] = x
BY LenProperties, ElementOfSeq DEF ToSet

LEMMA Joined ==
    ASSUME NEW S, NEW s \in Seq(S), NEW x \in S
    PROVE  /\ Append(s, x) \in Seq(S) /\ Len(Append(s, x)) = Len(s) + 1
           /\ DOMAIN Append(s, x) = DOMAIN s \cup {Len(s) + 1}
           /\ Len(s) + 1 \notin DOMAIN s
           /\ Append(s, x)[Len(s) + 1] = x
           /\ \A i \in DOMAIN s : Append(s, x)[i] = s[i] /\ i < Len(s) + 1
           /\ ToSet(Append(s, x)) = ToSet(s) \cup {x}
           /\ IsInjective(s) /\ x \notin ToSet(s) => IsInjective(Append(s, x))
<1>1. /\ Append(s, x) \in Seq(S) /\ Len(Append(s, x)) = Len(s) + 1
      /\ Append(s, x)[Len(s) + 1] = x
      /\ \A i \in 1..Len(s) : Append(s, x)[i] = s[i]
      /\ Len(s) \in Nat /\ DOMAIN s = 1..Len(s)
      /\ DOMAIN Append(s, x) = 1..(Len(s) + 1)
  BY AppendProperties, LenProperties
<1>2. /\ DOMAIN Append(s, x) = DOMAIN s \cup {Len(s) + 1}
      /\ Len(s) + 1 \notin DOMAIN s
      /\ \A i \in DOMAIN s : i < Len(s) + 1
  BY <1>1
<1> HIDE <1>2
<1>3. ToSet(Append(s, x)) = ToSet(s) \cup {x}
  <2>1. \A i \in DOMAIN s : Append(s, x)[i] = s[i]
    BY <1>1
  <2>2. Append(s, x)[Len(s) + 1] = x
    BY <1>1
  <2> QED BY <1>2, <2>1, <2>2 DEF ToSet
<1>4. ASSUME IsInjective(s), x \notin ToSet(s) PROVE IsInjective(Append(s, x))
  BY <1>1, <1>2, <1>4, Zenon DEF IsInjective, ToSet
<1> QED BY <1>1, <1>2, <1>3, <1>4

\* A message is taken off a queue that holds it once.
LEMMA Taken ==
    ASSUME NEW S, NEW q \in Seq(S), q # <<>>
    PROVE  /\ Tail(q) \in Seq(S) /\ Len(Tail(q)) <= Len(q)
           /\ Head(q) \in S /\ ToSet(q) = ToSet(Tail(q)) \cup {Head(q)}
           /\ IsInjective(q) => IsInjective(Tail(q)) /\ Head(q) \notin ToSet(Tail(q))
<1>1. /\ Len(q) \in Nat \ {0} /\ DOMAIN q = 1..Len(q)
      /\ Head(q) \in S /\ Head(q) = q[1]
      /\ Tail(q) \in Seq(S) /\ Len(Tail(q)) = Len(q) - 1
      /\ DOMAIN Tail(q) = 1..(Len(q) - 1)
      /\ \A i \in 1..(Len(q) - 1) : Tail(q)[i] = q[i + 1]
  BY EmptySeq, LenProperties, HeadTailProperties, ElementOfSeq
<1>2. ToSet(q) = ToSet(Tail(q)) \cup {Head(q)}
  <2>1. ASSUME NEW i \in DOMAIN q PROVE q[i] \in ToSet(Tail(q)) \cup {Head(q)}
    <3>1. CASE i = 1
      BY <1>1, <3>1
    <3>2. CASE i # 1
      <4>1. i - 1 \in DOMAIN Tail(q) /\ Tail(q)[i - 1] = q[i]
        BY <1>1, <3>2
      <4> QED BY <4>1 DEF ToSet
    <3> QED BY <3>1, <3>2
  <2>2. ASSUME NEW i \in DOMAIN Tail(q) PROVE Tail(q)[i] \in ToSet(q)
    <3>1. i + 1 \in DOMAIN q /\ q[i + 1] = Tail(q)[i]
      BY <1>1
    <3> QED BY <3>1 DEF ToSet
  <2>3. Head(q) \in ToSet(q)
    <3>1. 1 \in DOMAIN q
      BY <1>1
    <3> QED BY <1>1, <3>1 DEF ToSet
  <2> QED BY <2>1, <2>2, <2>3 DEF ToSet
<1>3. ASSUME IsInjective(q)
      PROVE  IsInjective(Tail(q)) /\ Head(q) \notin ToSet(Tail(q))
  <2>1. \A a, b \in DOMAIN q : q[a] = q[b] => a = b
    BY <1>3 DEF IsInjective
  <2>2. IsInjective(Tail(q))
    <3> SUFFICES ASSUME NEW a \in DOMAIN Tail(q), NEW b \in DOMAIN Tail(q),
                        Tail(q)[a] = Tail(q)[b]
                 PROVE  a = b
      BY DEF IsInjective
    <3>1. a + 1 \in DOMAIN q /\ b + 1 \in DOMAIN q /\ q[a + 1] = q[b + 1]
      BY <1>1
    <3> QED BY <1>1, <2>1, <3>1
  <2>3. Head(q) \notin ToSet(Tail(q))
    <3> SUFFICES ASSUME NEW a \in DOMAIN Tail(q), Tail(q)[a] = Head(q) PROVE FALSE
      BY DEF ToSet
    <3>1. a + 1 \in DOMAIN q /\ 1 \in DOMAIN q /\ q[a + 1] = q[1]
      BY <1>1
    <3> QED BY <1>1, <2>1, <3>1
  <2> QED BY <2>2, <2>3
<1> QED BY <1>1, <1>2, <1>3

-----------------------------------------------------------------------------
(* Types.                                                                  *)

Rows == [message : Messages, created_at : Nat \ {0}]

LEMMA Typed ==
    ASSUME TypeOK
    PROVE  /\ NoMessage \notin Messages /\ QueueCap \in Nat /\ MaxMessages \in Nat
           /\ count \in Nat /\ count <= MaxMessages
           /\ dbQueue \in Seq(Messages) /\ Len(dbQueue) \in Nat
           /\ ToSet(dbQueue) \subseteq Messages
           /\ rows \in Seq(Rows) /\ DOMAIN rows = 1..Len(rows) /\ Len(rows) \in Nat
           /\ \A k \in DOMAIN rows : rows[k].message \in Messages
           /\ broadcast \in Seq(Messages) /\ ToSet(broadcast) \subseteq Messages
           /\ Pending \subseteq Messages /\ Saved \subseteq Messages
           /\ \A w \in Workers : worker[w] # NoMessage => worker[w] \in Pending
           /\ \A m \in Messages : /\ m.from \in Conns /\ m.number \in 1..MaxMessages
                                  /\ Stamp[m.number] \in Nat \ {0}
<1>1. /\ NoMessage \notin Messages /\ QueueCap \in Nat /\ MaxMessages \in Nat
      /\ count \in Nat /\ count <= MaxMessages
  BY StoreAssumption DEF TypeOK, Messages
<1>2. /\ dbQueue \in Seq(Messages) /\ broadcast \in Seq(Messages)
      /\ rows \in Seq(Rows)
  BY DEF TypeOK, Rows
<1>3. /\ Len(dbQueue) \in Nat /\ ToSet(dbQueue) \subseteq Messages
      /\ ToSet(broadcast) \subseteq Messages
  BY <1>2, Elements
<1>4. /\ DOMAIN rows = 1..Len(rows) /\ Len(rows) \in Nat
      /\ \A k \in DOMAIN rows : rows[k] \in Rows
  BY <1>2, Elements
<1>5. \A k \in DOMAIN rows : rows[k].message \in Messages
  BY <1>4 DEF Rows
<1>6. /\ Pending \subseteq Messages /\ Saved \subseteq Messages
      /\ \A w \in Workers : worker[w] # NoMessage => worker[w] \in Pending
  BY <1>3, <1>5 DEF TypeOK, Pending, Saved
<1>7. \A m \in Messages : /\ m.from \in Conns /\ m.number \in 1..MaxMessages
                          /\ Stamp[m.number] \in Nat \ {0}
  BY StoreAssumption DEF Messages
<1> QED BY <1>1, <1>2, <1>3, <1>4, <1>5, <1>6, <1>7

LEMMA InitTyped == Init => TypeOK /\ OfferInv
<1> SUFFICES ASSUME Init PROVE TypeOK /\ OfferInv
  OBVIOUS
<1>1. Len(<<>>) = 0 /\ \A S : <<>> \in Seq(S)
  BY EmptySeq
<1>2. TypeOK
  BY <1>1, StoreAssumption DEF Init, TypeOK
<1>3. OfferInv
  BY DEF Init, OfferInv
<1> QED BY <1>2, <1>3

LEMMA StepTyped == TypeOK /\ OfferInv /\ [Next]_vars => TypeOK'
<1> SUFFICES ASSUME TypeOK, OfferInv, [Next]_vars PROVE TypeOK'
  OBVIOUS
<1>0. /\ stage \in [Conns -> {"read", "offer", "post"}]
      /\ message \in [Conns -> Messages \cup {NoMessage}]
      /\ worker \in [Workers -> Messages \cup {NoMessage}]
      /\ lost \subseteq Messages /\ Len(dbQueue) <= QueueCap
      /\ failures \in 0..MaxFailures /\ restarts \in 0..MaxRestarts
  BY DEF TypeOK
<1>a. \A c \in Conns : stage[c] # "read" => message[c] \in Messages
  BY <1>0 DEF OfferInv
<1>1. ASSUME NEW c \in Conns, Receive(c) PROVE TypeOK'
  <2>1. count + 1 \in 1..MaxMessages
    BY <1>1, Typed DEF Receive
  <2>2. [from |-> c, number |-> count + 1] \in Messages
    BY <2>1 DEF Messages
  <2>3. message' \in [Conns -> Messages \cup {NoMessage}]
    BY <1>0, <1>1, <2>2 DEF Receive
  <2>4. stage' \in [Conns -> {"read", "offer", "post"}] /\ count' \in 0..MaxMessages
    BY <1>0, <1>1, <2>1 DEF Receive, Goto
  <2> QED BY <1>1, <2>3, <2>4 DEF Receive, TypeOK, storeVars
<1>2. ASSUME NEW c \in Conns, Offer(c) PROVE TypeOK'
  <2>1. message[c] \in Messages
    BY <1>2, <1>a DEF Offer
  <2>2. dbQueue' \in Seq(Messages) /\ Len(dbQueue') <= QueueCap
    <3>1. /\ Append(dbQueue, message[c]) \in Seq(Messages)
          /\ Len(Append(dbQueue, message[c])) = Len(dbQueue) + 1
          /\ Len(dbQueue) \in Nat /\ QueueCap \in Nat
      BY <2>1, Typed, Joined
    <3>2. \/ dbQueue' = dbQueue
          \/ dbQueue' = Append(dbQueue, message[c]) /\ Len(dbQueue) < QueueCap
      BY <1>2 DEF Offer, QueueHasRoom
    <3>3. dbQueue \in Seq(Messages)
      BY Typed
    <3>4. Len(dbQueue) < QueueCap => Len(dbQueue) + 1 <= QueueCap
      BY <3>1
    <3> QED BY <1>0, <3>1, <3>2, <3>3, <3>4
  <2>3. lost' \subseteq Messages
    BY <1>0, <1>2, <2>1 DEF Offer
  <2>4. stage' \in [Conns -> {"read", "offer", "post"}]
    BY <1>0, <1>2 DEF Offer, Goto
  <2> QED BY <1>2, <2>2, <2>3, <2>4 DEF Offer, TypeOK
<1>3. ASSUME NEW c \in Conns, Post(c) PROVE TypeOK'
  <2>1. message[c] \in Messages
    BY <1>3, <1>a DEF Post
  <2>2. broadcast' \in Seq(Messages)
    BY <1>3, <2>1, Typed, Joined DEF Post
  <2>3. /\ stage' \in [Conns -> {"read", "offer", "post"}]
        /\ message' \in [Conns -> Messages \cup {NoMessage}]
    BY <1>0, <1>3 DEF Post, Goto
  <2> QED BY <1>3, <2>2, <2>3 DEF Post, TypeOK, storeVars
<1>4. ASSUME NEW w \in Workers, Take(w) PROVE TypeOK'
  <2>1. /\ dbQueue' \in Seq(Messages) /\ Head(dbQueue) \in Messages
        /\ Len(dbQueue') <= Len(dbQueue) /\ Len(dbQueue') \in Nat
    BY <1>4, Typed, Taken, LenProperties DEF Take
  <2>2. worker' \in [Workers -> Messages \cup {NoMessage}]
    BY <1>0, <1>4, <2>1 DEF Take
  <2>3. Len(dbQueue') <= QueueCap
    BY <1>0, <2>1, Typed
  <2> QED BY <1>4, <2>1, <2>2, <2>3 DEF Take, TypeOK, handlerVars
<1>5. ASSUME NEW w \in Workers, Insert(w) PROVE TypeOK'
  <2>1. worker[w] \in Messages
    BY <1>0, <1>5 DEF Insert
  <2>2. [message |-> worker[w], created_at |-> CreatedAt(worker[w])] \in Rows
    BY <2>1, Typed DEF Rows, CreatedAt
  <2>3. rows' \in Seq(Rows)
    BY <1>5, <2>2, Typed, Joined DEF Insert
  <2>4. worker' \in [Workers -> Messages \cup {NoMessage}]
    BY <1>0, <1>5 DEF Insert
  <2> QED BY <1>5, <2>3, <2>4 DEF Insert, TypeOK, handlerVars, Rows
<1>6. ASSUME NEW w \in Workers, InsertFails(w) PROVE TypeOK'
  <2>1. lost' \subseteq Messages
    BY <1>0, <1>6 DEF InsertFails
  <2>2. worker' \in [Workers -> Messages \cup {NoMessage}]
    BY <1>0, <1>6 DEF InsertFails
  <2>3. failures' \in 0..MaxFailures
    BY <1>0, <1>6, StoreAssumption DEF InsertFails
  <2> QED BY <1>6, <2>1, <2>2, <2>3 DEF InsertFails, TypeOK, handlerVars
<1>7. ASSUME Restart PROVE TypeOK'
  <2>1. lost' \subseteq Messages
    BY <1>0, <1>a, <1>7, Typed DEF Restart
  <2>2. restarts' \in 0..MaxRestarts
    BY <1>0, <1>7, StoreAssumption DEF Restart
  <2>3. dbQueue' \in Seq(Messages) /\ Len(dbQueue') <= QueueCap
    BY <1>7, EmptySeq, StoreAssumption DEF Restart
  <2> QED BY <1>7, <2>1, <2>2, <2>3 DEF Restart, TypeOK
<1>8. CASE UNCHANGED vars
  BY <1>8 DEF vars, handlerVars, storeVars, TypeOK
<1> QED BY <1>1, <1>2, <1>3, <1>4, <1>5, <1>6, <1>7, <1>8 DEF Next

-----------------------------------------------------------------------------
(* No message is in two hands.                                             *)

\* Where the messages are that the handler or a worker holds.
Hands == SavedOnce /\ OfferInv /\ StampInv

LEMMA InitHands == Init => Hands
<1> SUFFICES ASSUME Init PROVE Hands
  OBVIOUS
<1>1. ToSet(dbQueue) = {} /\ ToSet(broadcast) = {} /\ DOMAIN rows = {}
  BY DEF Init, ToSet
<1>2. Pending = {} /\ Saved = {} /\ lost = {}
  BY <1>1 DEF Init, Pending, Saved
<1>3. SavedOnce
  BY <1>1, <1>2 DEF Init, SavedOnce, IsInjective
<1>4. OfferInv /\ StampInv
  BY <1>1, <1>2 DEF Init, OfferInv, StampInv
<1> QED BY <1>3, <1>4 DEF Hands

\* A stamp is newer than every message there is.
LEMMA HandsReceive ==
    ASSUME TypeOK, Hands, NEW c \in Conns, Receive(c)
    PROVE  Hands'
<1>1. /\ UNCHANGED <<broadcast, dbQueue, worker, rows, lost>>
      /\ count' = count + 1 /\ count \in Nat
      /\ message'[c] = [from |-> c, number |-> count + 1]
      /\ \A d \in Conns : d # c => message'[d] = message[d] /\ stage'[d] = stage[d]
  BY Typed DEF Receive, Goto, storeVars, TypeOK
<1>2. Pending' = Pending /\ Saved' = Saved /\ SavedOnce'
  BY <1>1 DEF Pending, Saved, SavedOnce, Hands
<1>3. \A m \in Pending \cup Saved \cup lost \cup ToSet(broadcast) :
          m \in Messages /\ m.number <= count /\ m.number \in Nat
  BY Typed DEF Hands, StampInv, TypeOK
<1>4. message'[c] \in Messages
  BY <1>1, Typed DEF Receive, Messages
<1>5. message'[c] \notin Pending \cup Saved \cup lost
  BY <1>1, <1>3
<1>6. OfferInv'
  BY <1>1, <1>2, <1>4, <1>5, Typed DEF Hands, OfferInv
<1>7. StampInv'
  <2>1. \A d \in Conns : stage[d] # "read" => message[d].number \in Nat
    BY Typed DEF TypeOK, Hands, OfferInv
  <2>2. \A d \in Conns : stage'[d] # "read" => message'[d].number <= count'
    BY <1>1, <2>1 DEF Hands, StampInv
  <2> QED BY <1>1, <1>2, <1>3, <2>2 DEF StampInv
<1> QED BY <1>2, <1>6, <1>7 DEF Hands

\* The message that is offered gets into one hand.
LEMMA HandsOffer ==
    ASSUME TypeOK, Hands, NEW c \in Conns, Offer(c)
    PROVE  Hands'
<1> DEFINE m == message[c]
<1>1. /\ stage[c] = "offer" /\ stage'[c] = "post"
      /\ \A d \in Conns : d # c => stage'[d] = stage[d]
      /\ UNCHANGED <<count, message, broadcast, worker, rows>>
  BY DEF Offer, Goto, TypeOK
<1>2. /\ m \in Messages /\ m.from = c /\ m.number <= count
      /\ m \notin Pending \cup Saved \cup lost
  BY <1>1 DEF Hands, OfferInv, StampInv, TypeOK
<1>3. \/ /\ ToSet(dbQueue') = ToSet(dbQueue) \cup {m} /\ lost' = lost
         /\ IsInjective(dbQueue')
      \/ UNCHANGED dbQueue /\ lost' = lost \cup {m}
  <2>1. m \notin ToSet(dbQueue) /\ IsInjective(dbQueue)
    BY <1>2, Typed DEF Hands, SavedOnce, Pending
  <2>2. /\ ToSet(Append(dbQueue, m)) = ToSet(dbQueue) \cup {m}
        /\ IsInjective(Append(dbQueue, m))
    BY <1>2, <2>1, Typed, Joined
  <2> QED BY <2>2 DEF Offer
<1>4. /\ Saved' = Saved
      /\ \/ Pending' = Pending \cup {m} /\ lost' = lost
         \/ Pending' = Pending /\ lost' = lost \cup {m}
  BY <1>1, <1>2, <1>3, Typed DEF Pending, Saved
<1>5. SavedOnce'
  <2>1. IsInjective(dbQueue')
    BY <1>3 DEF Hands, SavedOnce
  <2>2. ToSet(dbQueue') \cap {worker'[w] : w \in Workers} = {}
    <3>1. m \notin {worker[w] : w \in Workers}
      BY <1>2, Typed
    <3>2. ToSet(dbQueue) \cap {worker[w] : w \in Workers} = {}
      BY DEF Hands, SavedOnce
    <3> QED BY <1>1, <1>3, <3>1, <3>2
  <2>3. Pending' \cap (Saved' \cup lost') = {} /\ Saved' \cap lost' = {}
    BY <1>2, <1>4 DEF Hands, SavedOnce
  <2> QED BY <1>1, <2>1, <2>2, <2>3 DEF SavedOnce, Hands
<1>6. OfferInv'
  <2> SUFFICES ASSUME NEW d \in Conns
               PROVE  /\ stage'[d] # "read" => /\ message'[d] # NoMessage
                                               /\ message'[d].from = d
                      /\ stage'[d] = "offer" =>
                             message'[d] \notin Pending' \cup Saved' \cup lost'
    BY DEF OfferInv
  <2>1. CASE d = c
    BY <1>1, <1>2, <2>1, Typed
  <2>2. CASE d # c
    <3>1. stage[d] = "offer" => message[d] # m
      BY <1>2, <2>2 DEF Hands, OfferInv
    <3> QED BY <1>1, <1>4, <2>2, <3>1 DEF Hands, OfferInv
  <2> QED BY <2>1, <2>2
<1>7. StampInv'
  BY <1>1, <1>2, <1>4 DEF Hands, StampInv
<1> QED BY <1>5, <1>6, <1>7 DEF Hands

LEMMA HandsPost ==
    ASSUME TypeOK, Hands, NEW c \in Conns, Post(c)
    PROVE  Hands'
<1>1. /\ stage[c] = "post" /\ stage'[c] = "read"
      /\ \A d \in Conns : d # c => stage'[d] = stage[d] /\ message'[d] = message[d]
      /\ UNCHANGED <<count, dbQueue, worker, rows, lost>>
  BY DEF Post, Goto, storeVars, TypeOK
<1>2. Pending' = Pending /\ Saved' = Saved /\ SavedOnce'
  BY <1>1 DEF Pending, Saved, SavedOnce, Hands
<1>3. OfferInv'
  BY <1>1, <1>2 DEF Hands, OfferInv
<1>4. StampInv'
  <2>1. message[c] \in Messages /\ message[c].number <= count
    BY <1>1 DEF Hands, OfferInv, StampInv, TypeOK
  <2>2. ToSet(broadcast') = ToSet(broadcast) \cup {message[c]}
    BY <2>1, Typed, Joined DEF Post
  <2> QED BY <1>1, <1>2, <2>1, <2>2 DEF Hands, StampInv
<1> QED BY <1>2, <1>3, <1>4 DEF Hands

\* The steps of the workers leave the handlers alone.
LEMMA HandsKept ==
    ASSUME TypeOK, Hands, UNCHANGED handlerVars, SavedOnce',
           Pending' \cup Saved' \cup lost' \subseteq Pending \cup Saved \cup lost
    PROVE  Hands'
BY DEF Hands, OfferInv, StampInv, handlerVars

LEMMA HandsTake ==
    ASSUME TypeOK, Hands, NEW w \in Workers, Take(w)
    PROVE  Hands'
<1> DEFINE m == Head(dbQueue)
<1>1. /\ worker[w] = NoMessage /\ worker'[w] = m /\ dbQueue' = Tail(dbQueue)
      /\ \A v \in Workers : v # w => worker'[v] = worker[v]
      /\ UNCHANGED <<handlerVars, rows, lost>>
  BY DEF Take, TypeOK
<1>2. /\ m \in Messages /\ ToSet(dbQueue) = ToSet(dbQueue') \cup {m}
      /\ IsInjective(dbQueue') /\ m \notin ToSet(dbQueue')
  BY <1>1, Typed, Taken DEF Take, Hands, SavedOnce
<1>3. m # NoMessage /\ ToSet(dbQueue) \cap {worker[v] : v \in Workers} = {}
  BY <1>2, Typed DEF Hands, SavedOnce
<1>4. {worker'[v] : v \in Workers} \ {NoMessage}
          = ({worker[v] : v \in Workers} \ {NoMessage}) \cup {m}
  BY <1>1, <1>3
<1>5. Pending' = Pending /\ Saved' = Saved
  BY <1>1, <1>2, <1>3, <1>4 DEF Pending, Saved
<1>6. SavedOnce'
  <2>1. \A u, v \in Workers :
            worker'[u] = worker'[v] /\ u # v => worker'[u] = NoMessage
    BY <1>1, <1>2, <1>3 DEF Hands, SavedOnce
  <2>2. ToSet(dbQueue') \cap {worker'[v] : v \in Workers} = {}
    BY <1>1, <1>2, <1>3
  <2> QED BY <1>1, <1>2, <1>5, <2>1, <2>2 DEF Hands, SavedOnce
<1> QED BY <1>1, <1>5, <1>6, HandsKept

\* What a worker lets go of is nowhere else on its way.
LEMMA WorkerDone ==
    ASSUME TypeOK, SavedOnce, NEW w \in Workers, worker[w] # NoMessage,
           worker' = [worker EXCEPT ![w] = NoMessage], UNCHANGED dbQueue
    PROVE  /\ worker[w] \in Messages /\ worker[w] \in Pending
           /\ Pending' = Pending \ {worker[w]}
           /\ \A u, v \in Workers :
                  worker'[u] = worker'[v] /\ u # v => worker'[u] = NoMessage
           /\ ToSet(dbQueue') \cap {worker'[v] : v \in Workers} = {}
<1>1. /\ worker'[w] = NoMessage
      /\ \A v \in Workers : v # w => worker'[v] = worker[v]
  BY DEF TypeOK
<1>2. worker[w] \in Messages /\ worker[w] \in Pending
  BY Typed DEF TypeOK
<1>3. /\ \A u, v \in Workers : worker[u] = worker[v] /\ u # v => worker[u] = NoMessage
      /\ ToSet(dbQueue) \cap {worker[v] : v \in Workers} = {}
      /\ NoMessage \notin ToSet(dbQueue)
  BY Typed DEF SavedOnce
<1>4. worker[w] \notin ToSet(dbQueue)
  BY <1>3
<1>5. {worker'[v] : v \in Workers} \ {NoMessage}
          = ({worker[v] : v \in Workers} \ {NoMessage}) \ {worker[w]}
  BY <1>1, <1>3
<1>6. Pending' = Pending \ {worker[w]}
  BY <1>4, <1>5 DEF Pending
<1>7. \A u, v \in Workers :
          worker'[u] = worker'[v] /\ u # v => worker'[u] = NoMessage
  BY <1>1, <1>3
<1>8. ToSet(dbQueue') \cap {worker'[v] : v \in Workers} = {}
  BY <1>1, <1>3
<1> QED BY <1>2, <1>6, <1>7, <1>8

LEMMA HandsInsert ==
    ASSUME TypeOK, Hands, NEW w \in Workers, Insert(w)
    PROVE  Hands'
<1> DEFINE m == worker[w]
           new == [message |-> m, created_at |-> CreatedAt(m)]
<1>1. /\ m \in Messages /\ m \in Pending /\ Pending' = Pending \ {m}
      /\ \A u, v \in Workers :
             worker'[u] = worker'[v] /\ u # v => worker'[u] = NoMessage
      /\ ToSet(dbQueue') \cap {worker'[v] : v \in Workers} = {}
  BY WorkerDone DEF Insert, Hands
<1>2. new \in Rows /\ new.message = m
  BY <1>1, Typed DEF Rows, CreatedAt
<1>3. /\ DOMAIN rows' = DOMAIN rows \cup {Len(rows) + 1}
      /\ Len(rows) + 1 \notin DOMAIN rows
      /\ rows'[Len(rows) + 1].message = m
      /\ \A k \in DOMAIN rows : rows'[k].message = rows[k].message
  BY <1>2, Typed, Joined DEF Insert
<1>4. Saved' = Saved \cup {m}
  <2>1. Saved' = {rows'[k].message : k \in DOMAIN rows \cup {Len(rows) + 1}}
    BY <1>3 DEF Saved
  <2> QED BY <1>3, <2>1 DEF Saved
<1>5. m \notin Saved \cup lost /\ UNCHANGED <<handlerVars, dbQueue, lost>>
  BY <1>1 DEF Hands, SavedOnce, Insert
<1>6. IsInjective([k \in DOMAIN rows' |-> rows'[k].message])
  <2>1. \A k, l \in DOMAIN rows : rows[k].message = rows[l].message => k = l
    BY DEF Hands, SavedOnce, IsInjective
  <2>2. \A k \in DOMAIN rows : rows[k].message # m
    BY <1>5 DEF Saved
  <2>3. \A k, l \in DOMAIN rows' : rows'[k].message = rows'[l].message => k = l
    BY <1>3, <2>1, <2>2
  <2> QED BY <2>3 DEF IsInjective
<1>7. SavedOnce'
  BY <1>1, <1>4, <1>5, <1>6 DEF Hands, SavedOnce
<1> QED BY <1>1, <1>4, <1>5, <1>7, HandsKept

LEMMA HandsInsertFails ==
    ASSUME TypeOK, Hands, NEW w \in Workers, InsertFails(w)
    PROVE  Hands'
<1> DEFINE m == worker[w]
<1>1. /\ m \in Messages /\ m \in Pending /\ Pending' = Pending \ {m}
      /\ \A u, v \in Workers :
             worker'[u] = worker'[v] /\ u # v => worker'[u] = NoMessage
      /\ ToSet(dbQueue') \cap {worker'[v] : v \in Workers} = {}
  BY WorkerDone DEF InsertFails, Hands
<1>2. /\ lost' = lost \cup {m} /\ UNCHANGED <<handlerVars, dbQueue, rows>>
      /\ Saved' = Saved
  BY DEF InsertFails, Saved
<1>3. SavedOnce'
  BY <1>1, <1>2 DEF Hands, SavedOnce
<1> QED BY <1>1, <1>2, <1>3, HandsKept

\* With the process everything on its way is lost.
LEMMA HandsRestart ==
    ASSUME TypeOK, Hands, Restart
    PROVE  Hands'
<1> DEFINE offered == {message[c] : c \in {d \in Conns : stage[d] = "offer"}}
<1>1. /\ lost' = lost \cup Pending \cup offered
      /\ UNCHANGED <<count, rows, broadcast>>
      /\ \A c \in Conns : stage'[c] = "read"
      /\ \A w \in Workers : worker'[w] = NoMessage
      /\ dbQueue' = <<>>
  BY DEF Restart
<1>2. ToSet(dbQueue') = {} /\ Pending' = {} /\ Saved' = Saved
  BY <1>1 DEF ToSet, Pending, Saved
<1>3. Saved \cap lost' = {}
  BY <1>1 DEF Hands, SavedOnce, OfferInv
<1>4. IsInjective(dbQueue')
  BY <1>1 DEF IsInjective
<1>5. SavedOnce'
  BY <1>1, <1>2, <1>3, <1>4 DEF Hands, SavedOnce
<1>6. \A m \in offered : m.number <= count
  BY DEF Hands, StampInv
<1>7. OfferInv' /\ StampInv'
  BY <1>1, <1>2, <1>6 DEF Hands, OfferInv, StampInv
<1> QED BY <1>5, <1>7 DEF Hands

LEMMA StepHands == TypeOK /\ Hands /\ [Next]_vars => Hands'
<1> SUFFICES ASSUME TypeOK, Hands, [Next]_vars PROVE Hands'
  OBVIOUS
<1>1. CASE UNCHANGED vars
  BY <1>1 DEF vars, handlerVars, storeVars, Hands, SavedOnce, OfferInv, StampInv,
              Pending, Saved
<1> QED BY <1>1, HandsReceive, HandsOffer, HandsPost, HandsTake, HandsInsert,
           HandsInsertFails, HandsRestart DEF Next

\* Clock, queue, workers, table and broadcasts keep their types, and the queue
\* its capacity.
THEOREM StoreTyped == Spec => []TypeOK
<1>1. TypeOK /\ Hands /\ [Next]_vars => TypeOK' /\ Hands'
  BY StepTyped, StepHands DEF Hands
<1> QED BY <1>1, InitTyped, InitHands, PTL DEF Spec

\* Whatever the workers do and however often the process restarts, a message is
\* in one place only and is saved once at most.
THEOREM MessagesAreSavedOnce == Spec => []SavedOnce
<1>1. TypeOK /\ Hands /\ [Next]_vars => TypeOK' /\ Hands'
  BY StepTyped, StepHands DEF Hands
<1>2. Hands => SavedOnce
  BY DEF Hands
<1> QED BY <1>1, <1>2, InitTyped, InitHands, PTL DEF Spec

-----------------------------------------------------------------------------
(* The history and the room agree.                                         *)

LEMMA InitLive == Init => LiveInv
<1> SUFFICES ASSUME Init PROVE LiveInv
  OBVIOUS
<1>1. DOMAIN rows = {} /\ DOMAIN broadcast = {}
  BY DEF Init
<1> QED BY <1>1 DEF LiveInv

LEMMA Broadcast ==
    ASSUME TypeOK
    PROVE  /\ DOMAIN broadcast = 1..Len(broadcast) /\ Len(broadcast) \in Nat
           /\ \A i \in DOMAIN broadcast :
                  /\ broadcast[i] \in Messages /\ broadcast[i] \in ToSet(broadcast)
                  /\ broadcast[i].number \in Nat
<1>1. broadcast \in Seq(Messages)
  BY DEF TypeOK
<1>2. /\ DOMAIN broadcast = 1..Len(broadcast) /\ Len(broadcast) \in Nat
      /\ \A i \in DOMAIN broadcast :
             broadcast[i] \in Messages /\ broadcast[i] \in ToSet(broadcast)
  BY <1>1, Elements
<1> QED BY <1>2, Typed

\* A message has a higher number than what the room has seen.
LEMMA LiveReceive ==
    ASSUME TypeOK, Hands, LiveInv, NEW c \in Conns, Receive(c)
    PROVE  LiveInv'
<1>1. /\ UNCHANGED <<broadcast, rows>> /\ count \in Nat
      /\ message'[c].number = count + 1
      /\ \A d \in Conns : d # c => message'[d] = message[d] /\ stage'[d] = stage[d]
  BY Typed DEF Receive, Goto, storeVars, TypeOK
<1>2. \A i \in DOMAIN broadcast : broadcast[i].number < message'[c].number
  BY <1>1, Broadcast DEF Hands, StampInv
<1> QED BY <1>1, <1>2 DEF LiveInv

\* The room sees a message after what its connection sent before.
LEMMA LivePost ==
    ASSUME TypeOK, Hands, LiveInv, NEW c \in Conns, Post(c)
    PROVE  LiveInv'
<1> DEFINE m == message[c]
           n == Len(broadcast) + 1
<1>1. /\ stage[c] = "post" /\ stage'[c] = "read"
      /\ \A d \in Conns : d # c => stage'[d] = stage[d] /\ message'[d] = message[d]
      /\ UNCHANGED rows
  BY DEF Post, Goto, storeVars, TypeOK
<1>2. m \in Messages /\ m.from = c
  BY <1>1 DEF Hands, OfferInv, TypeOK
<1>3. /\ DOMAIN broadcast' = DOMAIN broadcast \cup {n} /\ n \notin DOMAIN broadcast
      /\ broadcast'[n] = m
      /\ \A i \in DOMAIN broadcast : broadcast'[i] = broadcast[i] /\ i < n
      /\ DOMAIN broadcast \subseteq Nat /\ n \in Nat
  <2>1. broadcast \in Seq(Messages) /\ broadcast' = Append(broadcast, m)
    BY DEF Post, TypeOK
  <2> QED BY <1>2, <2>1, Joined, Broadcast
<1>4. \A i \in DOMAIN broadcast :
          broadcast[i].from = c => broadcast[i].number < m.number
  BY <1>1 DEF LiveInv
<1>5. \A i, j \in DOMAIN broadcast' :
          i < j /\ broadcast'[i].from = broadcast'[j].from
              => broadcast'[i].number < broadcast'[j].number
  <2> SUFFICES ASSUME NEW i \in DOMAIN broadcast', NEW j \in DOMAIN broadcast',
                      i < j, broadcast'[i].from = broadcast'[j].from
               PROVE  broadcast'[i].number < broadcast'[j].number
    OBVIOUS
  <2>1. i \in DOMAIN broadcast
    BY <1>3
  <2>2. CASE j = n
    BY <1>2, <1>3, <1>4, <2>1, <2>2
  <2>3. CASE j # n
    BY <1>3, <2>1, <2>3 DEF LiveInv
  <2> QED BY <2>2, <2>3
<1>6. \A d \in Conns : \A i \in DOMAIN broadcast' :
          stage'[d] # "read" /\ broadcast'[i].from = d
              => broadcast'[i].number < message'[d].number
  BY <1>1, <1>2, <1>3 DEF LiveInv
<1> QED BY <1>1, <1>5, <1>6 DEF LiveInv

\* A row keeps the stamp of its message.
LEMMA LiveInsert ==
    ASSUME TypeOK, LiveInv, NEW w \in Workers, Insert(w)
    PROVE  LiveInv'
<1> DEFINE new == [message |-> worker[w], created_at |-> CreatedAt(worker[w])]
<1>1. worker[w] \in Messages
  BY DEF Insert, TypeOK
<1>2. new \in Rows
  BY <1>1, Typed DEF Rows, CreatedAt
<1>3. /\ DOMAIN rows' = DOMAIN rows \cup {Len(rows) + 1}
      /\ rows'[Len(rows) + 1] = new
      /\ \A k \in DOMAIN rows : rows'[k] = rows[k]
  BY <1>2, Typed, Joined DEF Insert
<1>4. \A k \in DOMAIN rows' : rows'[k].created_at = Stamp[rows'[k].message.number]
  BY <1>3 DEF LiveInv, CreatedAt
<1> QED BY <1>4 DEF LiveInv, Insert, handlerVars

LEMMA StepLive == TypeOK /\ Hands /\ LiveInv /\ [Next]_vars => LiveInv'
<1> SUFFICES ASSUME TypeOK, Hands, LiveInv, [Next]_vars PROVE LiveInv'
  OBVIOUS
<1>1. ASSUME NEW c \in Conns, Offer(c) PROVE LiveInv'
  BY <1>1 DEF Offer, Goto, LiveInv, TypeOK
<1>2. ASSUME NEW w \in Workers, Take(w) \/ InsertFails(w) PROVE LiveInv'
  BY <1>2 DEF Take, InsertFails, handlerVars, LiveInv
<1>3. ASSUME Restart PROVE LiveInv'
  BY <1>3 DEF Restart, LiveInv
<1>4. CASE UNCHANGED vars
  BY <1>4 DEF vars, handlerVars, storeVars, LiveInv
<1> QED BY <1>1, <1>2, <1>3, <1>4, LiveReceive, LivePost, LiveInsert DEF Next

\* A message that the room saw has a position.
LEMMA Positions ==
    ASSUME NEW m \in ToSet(broadcast)
    PROVE  /\ Position(broadcast, m) \in DOMAIN broadcast
           /\ broadcast[Position(broadcast, m)] = m
<1>1. \E i \in DOMAIN broadcast : broadcast[i] = m
  BY DEF ToSet
<1> QED BY <1>1 DEF Position

\* However the workers overtake each other, and whatever the wall clock does,
\* the history shows the messages of a connection in the order in which the
\* room saw them, those excepted for which the clock did not move on.
THEOREM HistoryIsLive == Spec => []HistoryAgreesWithLive
<1>1. TypeOK /\ Hands /\ LiveInv => HistoryAgreesWithLive
  <2> SUFFICES ASSUME TypeOK, Hands, LiveInv,
                      NEW k \in DOMAIN rows, NEW l \in DOMAIN rows,
                      HistoryOrder(k, l),
                      rows[k].message.from = rows[l].message.from,
                      rows[k].message \in ToSet(broadcast),
                      rows[l].message \in ToSet(broadcast),
                      ~ClockStoodStill(rows[l].message, rows[k].message)
               PROVE  Position(broadcast, rows[k].message)
                          < Position(broadcast, rows[l].message)
    BY DEF HistoryAgreesWithLive
  <2> DEFINE i == Position(broadcast, rows[k].message)
             j == Position(broadcast, rows[l].message)
  <2>1. /\ i \in DOMAIN broadcast /\ broadcast[i] = rows[k].message
        /\ j \in DOMAIN broadcast /\ broadcast[j] = rows[l].message
    BY Positions
  <2>2. rows[k].message # rows[l].message
    BY DEF HistoryOrder, Hands, SavedOnce, IsInjective
  <2>3. rows[k].message.number <= rows[l].message.number
    BY Typed DEF HistoryOrder, LiveInv, ClockStoodStill
  <2> HIDE DEF i, j
  <2>4. i # j
    BY <2>1, <2>2
  <2>5. ~ (j < i)
    <3>1. j < i => broadcast[j].number < broadcast[i].number
      BY <2>1 DEF LiveInv
    <3>2. broadcast[j].number \in Nat /\ broadcast[i].number \in Nat
      BY <2>1, Broadcast
    <3> QED BY <2>1, <2>3, <3>1, <3>2
  <2>6. i < j
    BY <2>1, <2>4, <2>5, Broadcast
  <2> QED BY <2>6 DEF i, j
<1>2. TypeOK /\ Hands /\ LiveInv /\ [Next]_vars => TypeOK' /\ Hands' /\ LiveInv'
  BY StepTyped, StepHands, StepLive DEF Hands
<1> QED BY <1>1, <1>2, InitTyped, InitHands, InitLive, PTL DEF Spec

-----------------------------------------------------------------------------
(* What becomes of a message.                                              *)

Hand == Pending \cup Saved \cup lost

\* Where an offered message goes.
LEMMA Offered ==
    ASSUME TypeOK, NEW c \in Conns, Offer(c), message[c] \in Messages
    PROVE  \/ ToSet(dbQueue') = ToSet(dbQueue) \cup {message[c]} /\ lost' = lost
           \/ UNCHANGED dbQueue /\ lost' = lost \cup {message[c]}
<1>1. ToSet(Append(dbQueue, message[c])) = ToSet(dbQueue) \cup {message[c]}
  BY Typed, Joined
<1> QED BY <1>1 DEF Offer

\* No step takes a message out of hand, or one that is saved or lost from where
\* it is.
LEMMA Kept ==
    ASSUME TypeOK, Hands, Next
    PROVE  Hand \subseteq Hand' /\ Saved \subseteq Saved' /\ lost \subseteq lost'
<1>1. ASSUME NEW c \in Conns, Receive(c) \/ Post(c)
      PROVE  UNCHANGED <<dbQueue, worker, rows, lost>>
  BY <1>1 DEF Receive, Post, storeVars
<1>2. ASSUME UNCHANGED <<dbQueue, worker, rows, lost>>
      PROVE  Hand' = Hand /\ Saved' = Saved /\ lost' = lost
  BY <1>2 DEF Hand, Pending, Saved
<1>3. ASSUME NEW c \in Conns, Offer(c)
      PROVE  Hand \subseteq Hand' /\ Saved \subseteq Saved' /\ lost \subseteq lost'
  <2>1. message[c] \in Messages /\ UNCHANGED <<worker, rows>>
    BY <1>3 DEF Offer, Hands, OfferInv, TypeOK
  <2>2. ToSet(dbQueue) \subseteq ToSet(dbQueue') /\ lost \subseteq lost'
    BY <1>3, <2>1, Offered
  <2> QED BY <2>1, <2>2 DEF Hand, Pending, Saved
<1>4. ASSUME NEW w \in Workers, Take(w)
      PROVE  Hand \subseteq Hand' /\ Saved \subseteq Saved' /\ lost \subseteq lost'
  <2>1. /\ worker[w] = NoMessage /\ worker'[w] = Head(dbQueue)
        /\ \A v \in Workers : v # w => worker'[v] = worker[v]
        /\ ToSet(dbQueue) = ToSet(dbQueue') \cup {Head(dbQueue)}
        /\ UNCHANGED <<rows, lost>>
    BY <1>4, Typed, Taken DEF Take, TypeOK
  <2>2. Pending \subseteq Pending'
    BY <2>1 DEF Pending
  <2> QED BY <2>1, <2>2 DEF Hand, Saved
<1>5. ASSUME NEW w \in Workers, Insert(w)
      PROVE  Hand \subseteq Hand' /\ Saved \subseteq Saved' /\ lost \subseteq lost'
  <2>1. Pending' = Pending \ {worker[w]} /\ lost' = lost /\ worker[w] \in Messages
    BY <1>5, WorkerDone DEF Insert, Hands
  <2>2. [message |-> worker[w], created_at |-> CreatedAt(worker[w])] \in Rows
    BY <2>1, Typed DEF Rows, CreatedAt
  <2>3. /\ DOMAIN rows' = DOMAIN rows \cup {Len(rows) + 1}
        /\ rows'[Len(rows) + 1].message = worker[w]
        /\ \A k \in DOMAIN rows : rows'[k].message = rows[k].message
    BY <1>5, <2>2, Typed, Joined DEF Insert
  <2>4. Saved \cup {worker[w]} \subseteq Saved'
    BY <2>3 DEF Saved
  <2> QED BY <2>1, <2>4 DEF Hand
<1>6. ASSUME NEW w \in Workers, InsertFails(w)
      PROVE  Hand \subseteq Hand' /\ Saved \subseteq Saved' /\ lost \subseteq lost'
  <2>1. /\ Pending' = Pending \ {worker[w]} /\ lost' = lost \cup {worker[w]}
        /\ Saved' = Saved
    BY <1>6, WorkerDone DEF InsertFails, Hands, Saved
  <2> QED BY <2>1 DEF Hand
<1>7. ASSUME Restart
      PROVE  Hand \subseteq Hand' /\ Saved \subseteq Saved' /\ lost \subseteq lost'
  <2>1. Pending \cup lost \subseteq lost' /\ Saved' = Saved
    BY <1>7 DEF Restart, Saved
  <2> QED BY <2>1 DEF Hand
<1> QED BY <1>1, <1>2, <1>3, <1>4, <1>5, <1>6, <1>7 DEF Next

LEMMA InitFates == Init => FateInv
<1> SUFFICES ASSUME Init PROVE FateInv
  OBVIOUS
<1>1. ToSet(broadcast) = {}
  BY DEF Init, ToSet
<1> QED BY <1>1 DEF Init, FateInv

LEMMA StepFates == TypeOK /\ Hands /\ FateInv /\ [Next]_vars => FateInv'
<1> SUFFICES ASSUME TypeOK, Hands, FateInv, [Next]_vars PROVE FateInv'
  OBVIOUS
<1>0. /\ \A c \in Conns : stage[c] = "post" => message[c] \in Hand
      /\ ToSet(broadcast) \subseteq Hand
  BY DEF FateInv, Hand
<1>a. CASE UNCHANGED vars
  BY <1>a DEF vars, handlerVars, storeVars, FateInv, Pending, Saved
<1>b. CASE Next
  <2>0. Hand \subseteq Hand'
    BY <1>b, Kept
  <2>1. ASSUME UNCHANGED <<stage, message, broadcast>> PROVE FateInv'
    BY <1>0, <2>0, <2>1 DEF FateInv, Hand
  <2>2. ASSUME NEW c \in Conns, Receive(c) PROVE FateInv'
    <3>1. /\ stage'[c] = "offer" /\ broadcast' = broadcast
          /\ \A d \in Conns : d # c => stage'[d] = stage[d] /\ message'[d] = message[d]
      BY <2>2 DEF Receive, Goto, TypeOK
    <3> QED BY <1>0, <2>0, <3>1 DEF FateInv, Hand
  <2>3. ASSUME NEW c \in Conns, Offer(c) PROVE FateInv'
    <3>1. /\ \A d \in Conns : d # c => stage'[d] = stage[d]
          /\ UNCHANGED <<message, broadcast, worker>> /\ message[c] \in Messages
      BY <2>3 DEF Offer, Goto, TypeOK, Hands, OfferInv
    <3>2. message[c] \in ToSet(dbQueue') \cup lost'
      BY <2>3, <3>1, Offered
    <3>3. message[c] \in Hand'
      BY <3>1, <3>2, Typed DEF Hand, Pending
    <3> QED BY <1>0, <2>0, <3>1, <3>3 DEF FateInv, Hand
  <2>4. ASSUME NEW c \in Conns, Post(c) PROVE FateInv'
    <3>1. /\ stage[c] = "post" /\ stage'[c] = "read"
          /\ \A d \in Conns : d # c => stage'[d] = stage[d] /\ message'[d] = message[d]
          /\ message[c] \in Messages
      BY <2>4 DEF Post, Goto, TypeOK, Hands, OfferInv
    <3>2. ToSet(broadcast') = ToSet(broadcast) \cup {message[c]}
      BY <2>4, <3>1, Typed, Joined DEF Post
    <3> QED BY <1>0, <2>0, <3>1, <3>2 DEF FateInv, Hand
  <2>5. ASSUME NEW w \in Workers, Take(w) \/ Insert(w) \/ InsertFails(w) PROVE FateInv'
    BY <2>1, <2>5 DEF Take, Insert, InsertFails, handlerVars
  <2>6. ASSUME Restart PROVE FateInv'
    BY <1>0, <2>0, <2>6 DEF Restart, FateInv, Hand
  <2> QED BY <1>b, <2>2, <2>3, <2>4, <2>5, <2>6 DEF Next
<1> QED BY <1>a, <1>b

\* Every message that the room saw is on its way to the table, in it, or among
\* those dropped at the full queue, refused by the database or lost in a
\* restart: the part of EventuallySettled that needs no fairness.
THEOREM BroadcastsAreAccounted ==
    Spec => [](ToSet(broadcast) \subseteq Pending \cup Saved \cup lost)
<1>1. FateInv => ToSet(broadcast) \subseteq Pending \cup Saved \cup lost
  BY DEF FateInv
<1>2. TypeOK /\ Hands /\ FateInv /\ [Next]_vars => TypeOK' /\ Hands' /\ FateInv'
  BY StepTyped, StepHands, StepFates DEF Hands
<1> QED BY <1>1, <1>2, InitTyped, InitHands, InitFates, PTL DEF Spec

\* What was saved stays saved, and what was given up is not saved later: with
\* MessagesAreSavedOnce, a message that has left the queue and the workers has
\* one fate for good.
THEOREM FatesAreFinal ==
    Spec => [][/\ Saved \subseteq Saved' /\ lost \subseteq lost'
               /\ Saved' \cap lost = {} /\ Saved \cap lost' = {}]_vars
<1>1. TypeOK /\ Hands /\ [Next]_vars => TypeOK' /\ Hands'
  BY StepTyped, StepHands DEF Hands
<1>2. TypeOK /\ Hands /\ Hands' /\ [Next]_vars =>
          [/\ Saved \subseteq Saved' /\ lost \subseteq lost'
           /\ Saved' \cap lost = {} /\ Saved \cap lost' = {}]_vars
  <2> SUFFICES ASSUME TypeOK, Hands, Hands', Next
               PROVE  /\ Saved \subseteq Saved' /\ lost \subseteq lost'
                      /\ Saved' \cap lost = {} /\ Saved \cap lost' = {}
    OBVIOUS
  <2>1. Saved \subseteq Saved' /\ lost \subseteq lost'
    BY Kept
  <2>2. Saved' \cap lost' = {}
    BY DEF Hands, SavedOnce
  <2> QED BY <2>1, <2>2
<1> QED BY <1>1, <1>2, InitTyped, InitHands, PTL DEF Spec
=============================================================================
