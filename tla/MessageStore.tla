----------------------------- MODULE MessageStore -----------------------------
(***************************************************************************)
(* What ChatWebSocketHandler (handlers/chat_websocket_handler.go) does     *)
(* with a chat message: handleChatMessage stamps it, offers it to the      *)
(* queue of the database workers and broadcasts it; a worker inserts it;   *)
(* GetMessages reads the history back in the order of the stamps.          *)
(*                                                                         *)
(* The connections of one room are modelled, with the queue and the        *)
(* workers that all rooms share: stages "offer" and "post" are the points  *)
(* "persist" and "post" of module ChatHub.  broadcast is the order in      *)
(* which messages enter room.Broadcast, the one that members see live.     *)
(* The "id" of the broadcast message, which races with the worker that     *)
(* sets it, is left out.                                                   *)
(***************************************************************************)
EXTENDS Naturals, SequencesExt

CONSTANTS
    Conns,          \* the connections of the room
    Workers,        \* the dbWorker goroutines (4 in the code)
    QueueCap,       \* capacity of dbQueue (1000)
    MaxMessages,    \* bound: messages
    MaxFailures,    \* bound: inserts that fail
    MaxRestarts,    \* bound: restarts of the process
    Stamp,          \* time.Now, in whole microseconds, at the n-th message
    NoMessage       \* no message

ASSUME StoreAssumption ==
    /\ QueueCap \in Nat \ {0}
    /\ MaxMessages \in Nat /\ MaxFailures \in Nat /\ MaxRestarts \in Nat
    /\ Stamp \in [1..MaxMessages -> Nat \ {0}]
    /\ NoMessage \notin [from : Conns, number : 1..MaxMessages]

VARIABLES
    count,      \* the messages received so far
    stage,      \* where handleChatMessage is, for each connection
    message,    \* the message it handles
    dbQueue,    \* the queue of messages to save
    worker,     \* the message each worker saves, NoMessage while it waits
    rows,       \* table messages, by primary key: message and created_at
    broadcast,  \* the messages broadcast so far
    lost,       \* the messages that will never be saved
    failures,   \* inserts that failed
    restarts

handlerVars == <<count, stage, message, broadcast>>
storeVars   == <<dbQueue, worker, rows, lost>>
vars == <<handlerVars, storeVars, failures, restarts>>

Messages == [from : Conns, number : 1..MaxMessages]

TypeOK ==
    /\ count \in 0..MaxMessages
    /\ stage \in [Conns -> {"read", "offer", "post"}]
    /\ message \in [Conns -> Messages \cup {NoMessage}]
    /\ dbQueue \in Seq(Messages) /\ Len(dbQueue) <= QueueCap
    /\ worker \in [Workers -> Messages \cup {NoMessage}]
    /\ rows \in Seq([message : Messages, created_at : Nat \ {0}])
    /\ broadcast \in Seq(Messages)
    /\ lost \subseteq Messages
    /\ failures \in 0..MaxFailures /\ restarts \in 0..MaxRestarts

Init ==
    /\ count = 0 /\ failures = 0 /\ restarts = 0
    /\ stage = [c \in Conns |-> "read"]
    /\ message = [c \in Conns |-> NoMessage]
    /\ worker = [w \in Workers |-> NoMessage]
    /\ dbQueue = <<>> /\ rows = <<>> /\ broadcast = <<>> /\ lost = {}

Goto(c, point) == stage' = [stage EXCEPT ![c] = point]

-----------------------------------------------------------------------------
(* handleChatMessage.                                                      *)

\* now := time.Now(): the next message has the next stamp.
Receive(c) ==
    /\ stage[c] = "read"
    /\ count < MaxMessages
    /\ count' = count + 1
    /\ message' = [message EXCEPT ![c] = [from |-> c, number |-> count + 1]]
    /\ Goto(c, "offer")
    /\ UNCHANGED <<broadcast, storeVars, failures, restarts>>

QueueHasRoom == Len(dbQueue) < QueueCap

\* case h.dbQueue <- &message, or default: the message is dropped.
Offer(c) ==
    /\ stage[c] = "offer"
    /\ IF QueueHasRoom
       THEN dbQueue' = Append(dbQueue, message[c]) /\ UNCHANGED lost
       ELSE lost' = lost \cup {message[c]} /\ UNCHANGED dbQueue
    /\ Goto(c, "post")
    /\ UNCHANGED <<count, message, broadcast, worker, rows, failures, restarts>>

\* Room.Broadcast <- broadcastMsg, which may have to wait for the hub.
Post(c) ==
    /\ stage[c] = "post"
    /\ broadcast' = Append(broadcast, message[c])
    /\ message' = [message EXCEPT ![c] = NoMessage]
    /\ Goto(c, "read")
    /\ UNCHANGED <<count, storeVars, failures, restarts>>

-----------------------------------------------------------------------------
(* dbWorker.                                                               *)

\* Slip: the message stays in the queue while it is saved.
TakeAndKeep(w) ==
    /\ worker[w] = NoMessage
    /\ dbQueue # <<>>
    /\ worker' = [worker EXCEPT ![w] = Head(dbQueue)]
    /\ UNCHANGED <<handlerVars, dbQueue, rows, lost, failures, restarts>>

\* Slip: an error ends the loop of the workers.
TakeUntilError(w) ==
    /\ failures = 0
    /\ worker[w] = NoMessage
    /\ dbQueue # <<>>
    /\ worker' = [worker EXCEPT ![w] = Head(dbQueue)]
    /\ dbQueue' = Tail(dbQueue)
    /\ UNCHANGED <<handlerVars, rows, lost, failures, restarts>>

\* message := range h.dbQueue
Take(w) ==
    /\ worker[w] = NoMessage
    /\ dbQueue # <<>>
    /\ worker' = [worker EXCEPT ![w] = Head(dbQueue)]
    /\ dbQueue' = Tail(dbQueue)
    /\ UNCHANGED <<handlerVars, rows, lost, failures, restarts>>

\* Slip: created_at is when the row is made.
InsertedAt(m) == Stamp[count]

\* Slip: the stamp does not get into the row, which has the zero time.
ZeroTime(m) == 0

\* created_at is the handler's stamp, cut to the microseconds of the column:
\* gorm sets it only when it is zero.
CreatedAt(m) == Stamp[m.number]

Insert(w) ==
    /\ worker[w] # NoMessage
    /\ rows' = Append(rows, [message    |-> worker[w],
                             created_at |-> CreatedAt(worker[w])])
    /\ worker' = [worker EXCEPT ![w] = NoMessage]
    /\ UNCHANGED <<handlerVars, dbQueue, lost, failures, restarts>>

\* Create fails: the error is logged and the worker goes on.
InsertFails(w) ==
    /\ worker[w] # NoMessage
    /\ failures < MaxFailures
    /\ failures' = failures + 1
    /\ lost' = lost \cup {worker[w]}
    /\ worker' = [worker EXCEPT ![w] = NoMessage]
    /\ UNCHANGED <<handlerVars, dbQueue, rows, restarts>>

\* The messages on their way to the table.
Pending == (ToSet(dbQueue) \cup {worker[w] : w \in Workers}) \ {NoMessage}

\* The process dies with its queue and starts again.
Restart ==
    /\ restarts < MaxRestarts
    /\ restarts' = restarts + 1
    /\ lost' = lost \cup Pending
                    \cup {message[c] : c \in {d \in Conns : stage[d] = "offer"}}
    /\ stage' = [c \in Conns |-> "read"]
    /\ message' = [c \in Conns |-> NoMessage]
    /\ worker' = [w \in Workers |-> NoMessage]
    /\ dbQueue' = <<>>
    /\ UNCHANGED <<count, rows, broadcast, failures>>

Next ==
    \/ \E c \in Conns : Receive(c) \/ Offer(c) \/ Post(c)
    \/ \E w \in Workers : Take(w) \/ Insert(w) \/ InsertFails(w)
    \/ Restart

Spec == Init /\ [][Next]_vars

\* The scheduler runs a worker that has a message to take or to save, and a
\* worker that is not fair to one message takes the next from a queue of
\* finite length.
Fairness == \A w \in Workers : WF_vars(Take(w) \/ Insert(w) \/ InsertFails(w))

FairSpec == Spec /\ Fairness

-----------------------------------------------------------------------------
(* GetMessages.                                                            *)

Saved == {rows[k].message : k \in DOMAIN rows}

\* ORDER BY created_at ASC: whether the history may have row k before row l;
\* equal stamps come in any order.
HistoryOrder(k, l) == k # l /\ rows[k].created_at <= rows[l].created_at

-----------------------------------------------------------------------------
(* Properties.                                                             *)

Position(s, m) == CHOOSE i \in DOMAIN s : s[i] = m

\* time.Now had not moved on, or had been set back, between the earlier message
\* n and the later message m.
ClockStoodStill(n, m) == n.number < m.number /\ Stamp[m.number] <= Stamp[n.number]

\* However the workers' inserts overtake each other (line 250), the history
\* that GetMessages returns (line 606) has the messages of one connection in
\* the order in which the room saw them live; two messages for which the wall
\* clock did not move on (line 444) are all that may be the other way round.
HistoryAgreesWithLive ==
    \A k, l \in DOMAIN rows :
        LET m == rows[k].message
            n == rows[l].message
            Seen == ToSet(broadcast)
        IN  HistoryOrder(k, l) /\ m.from = n.from /\ {m, n} \subseteq Seen
                => \/ Position(broadcast, m) < Position(broadcast, n)
                   \/ ClockStoodStill(n, m)

\* A message is saved at most once, is not saved after it was given up, and
\* is never in two hands: queue, workers, table and lost messages are apart.
SavedOnce ==
    /\ IsInjective([k \in DOMAIN rows |-> rows[k].message])
    /\ IsInjective(dbQueue)
    /\ \A v, w \in Workers : worker[v] = worker[w] /\ v # w => worker[v] = NoMessage
    /\ ToSet(dbQueue) \cap {worker[w] : w \in Workers} = {}
    /\ Pending \cap (Saved \cup lost) = {} /\ Saved \cap lost = {}

\* A message whose handler got as far as to broadcast it is saved sooner or
\* later, or was dropped at the full queue (line 457), refused by the database
\* (line 260) or lost in a restart: a worker survives failing inserts.
EventuallySettled ==
    \A m \in Messages : m \in ToSet(broadcast) ~> m \in Saved \cup lost

-----------------------------------------------------------------------------
(* Inductive strengthening, for the proofs of MessageStoreProofs.          *)

\* A message that is still to be offered is nowhere else.
OfferInv ==
    \A c \in Conns :
        /\ stage[c] # "read" => message[c] # NoMessage /\ message[c].from = c
        /\ stage[c] = "offer" => message[c] \notin Pending \cup Saved \cup lost

\* No message has a number that is still to come.
StampInv ==
    /\ \A c \in Conns : stage[c] # "read" => message[c].number <= count
    /\ \A m \in Pending \cup Saved \cup lost \cup ToSet(broadcast) :
           m.number <= count

\* Rows keep the stamps of their messages, and the room sees the messages of
\* a connection in the order in which they were received.
LiveInv ==
    /\ \A k \in DOMAIN rows : rows[k].created_at = Stamp[rows[k].message.number]
    /\ \A i, j \in DOMAIN broadcast :
           i < j /\ broadcast[i].from = broadcast[j].from
               => broadcast[i].number < broadcast[j].number
    /\ \A c \in Conns : \A i \in DOMAIN broadcast :
           stage[c] # "read" /\ broadcast[i].from = c
               => broadcast[i].number < message[c].number

\* A message that was offered is in some hand, broadcast or not: nothing that
\* the room saw gets out of sight without being saved or counted as lost.
FateInv ==
    /\ \A c \in Conns :
           stage[c] = "post" => message[c] \in Pending \cup Saved \cup lost
    /\ ToSet(broadcast) \subseteq Pending \cup Saved \cup lost
=============================================================================
