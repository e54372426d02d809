------------------------------ MODULE RoomsProofs ------------------------------
(* Proofs about table rooms: types, and who ends a room.  The lemmas on how *)
(* the table changes are also those of CustomerSessionsProofs.              *)
EXTENDS Rooms, SequenceTheorems, TLAPS

-----------------------------------------------------------------------------
(* The two ways in which the table changes.                                *)

\* The keys of the table are the numbers up to its length.
LEMMA KeysOfTable ==
    ASSUME RoomsTypeOK
    PROVE  /\ rooms \in Seq(RoomRows) /\ Len(rooms) \in Nat
           /\ Keys = 1..Len(rooms) /\ NoKey \notin Keys
           /\ \A k \in Keys : /\ rooms[k] \in RoomRows
                              /\ rooms[k].owner \in Users \cup {Nobody}
                              /\ rooms[k].live \in BOOLEAN
<1>1. rooms \in Seq(RoomRows) /\ Len(rooms) \in Nat /\ Keys = 1..Len(rooms)
  BY DEF RoomsTypeOK, Keys
<1>2. \A k \in Keys : rooms[k] \in RoomRows
  BY <1>1 DEF Keys
<1> QED BY <1>1, <1>2 DEF RoomRows, NoKey

\* An INSERT adds one live row of its owner and leaves the others alone.
LEMMA Insertion ==
    ASSUME RoomsTypeOK, NEW u \in Users \cup {Nobody}, Insert(u)
    PROVE  /\ rooms' \in Seq(RoomRows)
           /\ Keys' = Keys \cup {Len(rooms) + 1} /\ Len(rooms) + 1 \notin Keys
           /\ \A k \in Keys : rooms'[k] = rooms[k]
           /\ rooms'[Len(rooms) + 1] = [owner |-> u, live |-> TRUE]
           /\ Live' = Live \cup {Len(rooms) + 1}
<1> DEFINE row == [owner |-> u, live |-> TRUE]
<1>1. row \in RoomRows
  BY DEF RoomRows
<1>2. /\ rooms' = Append(rooms, row) /\ rooms \in Seq(RoomRows)
      /\ Len(rooms) \in Nat /\ Keys = 1..Len(rooms)
  BY KeysOfTable DEF Insert
<1> HIDE DEF row
<1>3. /\ rooms' \in Seq(RoomRows) /\ Len(rooms') = Len(rooms) + 1
      /\ \A k \in 1..Len(rooms) : rooms'[k] = rooms[k]
      /\ rooms'[Len(rooms) + 1] = row
  BY <1>1, <1>2
<1>4. Keys' = 1..(Len(rooms) + 1)
  BY <1>2, <1>3 DEF Keys
<1>5. Keys' = Keys \cup {Len(rooms) + 1} /\ Len(rooms) + 1 \notin Keys
  BY <1>2, <1>4
<1>6. rooms'[Len(rooms) + 1].live
  BY <1>3 DEF row
<1>7. Live' = Live \cup {Len(rooms) + 1}
  BY <1>2, <1>3, <1>5, <1>6 DEF Live
<1> QED BY <1>2, <1>3, <1>5, <1>7 DEF row

\* A deletion ends the life of its row and changes nothing else.
LEMMA Deletion ==
    ASSUME RoomsTypeOK, NEW k \in Keys, rooms' = [rooms EXCEPT ![k].live = FALSE]
    PROVE  /\ rooms' \in Seq(RoomRows) /\ Keys' = Keys
           /\ \A l \in Keys : rooms'[l].owner = rooms[l].owner
           /\ \A l \in Keys : l # k => rooms'[l] = rooms[l]
           /\ ~rooms'[k].live /\ Live' = Live \ {k}
<1>1. /\ rooms \in Seq(RoomRows) /\ Len(rooms) \in Nat /\ Keys = 1..Len(rooms)
      /\ \A l \in Keys : rooms[l] \in RoomRows
  BY KeysOfTable
<1> DEFINE row == [rooms[k] EXCEPT !.live = FALSE]
<1>2. row \in RoomRows /\ row.owner = rooms[k].owner /\ ~row.live
  BY <1>1 DEF RoomRows
<1>3. rooms' = [rooms EXCEPT ![k] = row]
  OBVIOUS
<1> HIDE DEF row
<1>4. /\ rooms' \in Seq(RoomRows) /\ Len(rooms') = Len(rooms)
      /\ \A l \in Keys : l # k => rooms'[l] = rooms[l]
      /\ rooms'[k] = row
  <2>1. rooms' \in [1..Len(rooms) -> RoomRows] /\ k \in 1..Len(rooms)
    BY <1>1, <1>2, <1>3 DEF Keys
  <2>2. rooms' \in Seq(RoomRows)
    BY <1>1, <2>1, IsASeq
  <2>3. DOMAIN rooms' = 1..Len(rooms) /\ DOMAIN rooms' = 1..Len(rooms')
    BY <2>1, <2>2, LenProperties
  <2>4. Len(rooms') = Len(rooms)
    BY <1>1, <2>2, <2>3, LenProperties
  <2> QED BY <1>1, <1>3, <2>1, <2>2, <2>4
<1>5. Keys' = Keys
  BY <1>1, <1>4 DEF Keys
<1>6. \A l \in Keys : rooms'[l].owner = rooms[l].owner
  BY <1>2, <1>4
<1>7. ~rooms'[k].live
  BY <1>2, <1>4
<1> QED BY <1>4, <1>5, <1>6, <1>7 DEF Live

-----------------------------------------------------------------------------
(* The invariant.                                                          *)

RoomsInv == RoomsTypeOK /\ DeletionsInv

LEMMA InitRooms == RoomsInit => RoomsInv
<1> SUFFICES ASSUME RoomsInit PROVE RoomsInv
  OBVIOUS
<1>1. RoomsTypeOK
  BY RoomsAssumption DEF RoomsInit, RoomsTypeOK, NoKey, Answers
<1>2. DeletionsInv
  BY DEF RoomsInit, DeletionsInv, GoneByOwner, Keys
<1> QED BY <1>1, <1>2 DEF RoomsInv

\* An INSERT, be it of a user's room or of a customer's.
LEMMA InsertKeepsRooms ==
    ASSUME RoomsInv, NEW u \in Users \cup {Nobody}, Insert(u),
           created' \in 0..MaxRooms, UNCHANGED <<deletion, target, failures>>
    PROVE  RoomsInv'
<1>1. /\ rooms' \in Seq(RoomRows) /\ Keys' = Keys \cup {Len(rooms) + 1}
      /\ \A k \in Keys : rooms'[k] = rooms[k]
      /\ rooms'[Len(rooms) + 1] = [owner |-> u, live |-> TRUE]
  BY Insertion DEF RoomsInv
<1>2. RoomsTypeOK'
  BY <1>1 DEF RoomsInv, RoomsTypeOK
<1>3. GoneByOwner'
  BY <1>1 DEF RoomsInv, DeletionsInv, GoneByOwner
<1>4. DeletionsInv'
  BY <1>1, <1>3 DEF RoomsInv, DeletionsInv
<1> QED BY <1>2, <1>4 DEF RoomsInv

\* A step that leaves the table and the deletions alone.
LEMMA RoomsUntouched ==
    ASSUME RoomsInv, UNCHANGED <<rooms, created, deletion, target>>,
           failures' \in 0..MaxFailures
    PROVE  RoomsInv' /\ Keys' = Keys /\ Live' = Live
BY DEF RoomsInv, RoomsTypeOK, DeletionsInv, GoneByOwner, Keys, Live

LEMMA FailureTyped ==
    ASSUME RoomsInv, Failure \/ UNCHANGED failures
    PROVE  failures' \in 0..MaxFailures
BY RoomsAssumption DEF RoomsInv, RoomsTypeOK, Failure

LEMMA CreateKeepsRooms ==
    ASSUME RoomsInv, NEW u \in Users, Create(u)
    PROVE  RoomsInv'
<1>1. created' \in 0..MaxRooms
  BY RoomsAssumption DEF RoomsInv, RoomsTypeOK, Create
<1> QED BY <1>1, InsertKeepsRooms DEF Create

LEMMA CheckKeepsRooms ==
    ASSUME RoomsInv, NEW d \in Deletes, Check(d)
    PROVE  RoomsInv' /\ UNCHANGED rooms
<1>a. RoomsTypeOK /\ DeletionsInv
  BY DEF RoomsInv
<1>1. UNCHANGED <<rooms, created>> /\ Keys' = Keys /\ deletion[d] = "idle"
  BY DEF Check, Keys
<1>2. PICK k \in Keys \cup {NoKey} :
          /\ target' = [target EXCEPT ![d] = k]
          /\ \/ /\ k \in Live
                /\ deletion' = [deletion EXCEPT ![d] =
                                   IF MayDelete(d, k) THEN "delete" ELSE "denied"]
             \/ deletion' = [deletion EXCEPT ![d] = "notFound"]
             \/ deletion' = [deletion EXCEPT ![d] = "failed"]
  BY DEF Check
<1>3. RoomsTypeOK'
  <2>1. target' \in [Deletes -> Keys' \cup {NoKey}]
    BY <1>a, <1>1, <1>2 DEF RoomsTypeOK
  <2>2. deletion' \in [Deletes -> {"idle", "delete"} \cup Answers]
    BY <1>a, <1>2 DEF RoomsTypeOK, Answers
  <2>3. failures' \in 0..MaxFailures
    BY FailureTyped DEF Check
  <2> QED BY <1>a, <1>1, <2>1, <2>2, <2>3 DEF RoomsTypeOK
<1>4. \A e \in Deletes : e # d => deletion'[e] = deletion[e] /\ target'[e] = target[e]
  BY <1>a, <1>2 DEF RoomsTypeOK
<1>5. GoneByOwner'
  <2> SUFFICES ASSUME NEW l \in Keys, ~rooms[l].live
               PROVE  \E e \in Deletes : /\ deletion'[e] = "deleted" /\ target'[e] = l
                                         /\ Caller[e] = rooms[l].owner
    BY <1>1 DEF GoneByOwner
  <2>1. PICK e \in Deletes : /\ deletion[e] = "deleted" /\ target[e] = l
                             /\ Caller[e] = rooms[l].owner
    BY <1>a DEF DeletionsInv, GoneByOwner
  <2>2. e # d
    BY <1>1, <2>1
  <2> QED BY <1>4, <2>1, <2>2
<1>6. \A e \in Deletes : deletion'[e] = "delete" =>
          target'[e] \in Keys /\ rooms[target'[e]].owner = Caller[e]
  <2> SUFFICES ASSUME NEW e \in Deletes, deletion'[e] = "delete"
               PROVE  target'[e] \in Keys /\ rooms[target'[e]].owner = Caller[e]
    OBVIOUS
  <2>1. CASE e # d
    BY <1>4, <1>a, <2>1 DEF DeletionsInv
  <2>2. CASE e = d
    <3>1. target'[d] = k /\ k \in Live /\ MayDelete(d, k)
      BY <1>a, <1>2, <2>2 DEF RoomsTypeOK
    <3> QED BY <2>2, <3>1 DEF MayDelete, Live
  <2> QED BY <2>1, <2>2
<1> QED BY <1>1, <1>3, <1>5, <1>6 DEF RoomsInv, DeletionsInv

\* A deletion ends its caller's room, or fails.
LEMMA DeleteKeepsRooms ==
    ASSUME RoomsInv, NEW d \in Deletes, Delete(d)
    PROVE  /\ RoomsInv' /\ Keys' = Keys
           /\ \A k \in Keys : rooms'[k].owner = rooms[k].owner
           /\ \A k \in Live : rooms[k].owner = Nobody => k \in Live'
<1>a. RoomsTypeOK /\ DeletionsInv
  BY DEF RoomsInv
<1> DEFINE k == target[d]
<1>1. /\ k \in Keys /\ rooms[k].owner = Caller[d] /\ Caller[d] \in Users
      /\ deletion[d] = "delete" /\ UNCHANGED <<created, target>>
  BY <1>a, RoomsAssumption DEF DeletionsInv, Delete
<1>2. failures' \in 0..MaxFailures
  BY FailureTyped DEF Delete
<1>3. \A e \in Deletes : e # d => deletion'[e] = deletion[e]
  BY <1>a DEF RoomsTypeOK, Delete
<1>4. CASE /\ rooms' = [rooms EXCEPT ![k].live = FALSE]
           /\ deletion' = [deletion EXCEPT ![d] = "deleted"]
  <2>1. /\ rooms' \in Seq(RoomRows) /\ Keys' = Keys
        /\ \A l \in Keys : rooms'[l].owner = rooms[l].owner
        /\ \A l \in Keys : l # k => rooms'[l] = rooms[l]
        /\ Live' = Live \ {k}
    BY <1>a, <1>1, <1>4, Deletion
  <2>2. deletion' \in [Deletes -> {"idle", "delete"} \cup Answers] /\ deletion'[d] = "deleted"
    BY <1>a, <1>4 DEF RoomsTypeOK, Answers
  <2>3. RoomsTypeOK'
    BY <1>a, <1>1, <1>2, <2>1, <2>2 DEF RoomsTypeOK
  <2>4. GoneByOwner'
    <3> SUFFICES ASSUME NEW l \in Keys, ~rooms'[l].live
                 PROVE  \E e \in Deletes : /\ deletion'[e] = "deleted" /\ target[e] = l
                                           /\ Caller[e] = rooms[l].owner
      BY <1>1, <2>1 DEF GoneByOwner
    <3>1. CASE l = k
      BY <1>1, <2>2, <3>1
    <3>2. CASE l # k
      <4>1. ~rooms[l].live
        BY <2>1, <3>2
      <4>2. PICK e \in Deletes : /\ deletion[e] = "deleted" /\ target[e] = l
                                 /\ Caller[e] = rooms[l].owner
        BY <1>a, <4>1 DEF DeletionsInv, GoneByOwner
      <4> QED BY <1>1, <1>3, <4>2
    <3> QED BY <3>1, <3>2
  <2>5. \A e \in Deletes : deletion'[e] = "delete" => e # d
    BY <2>2
  <2>6. DeletionsInv'
    BY <1>a, <1>1, <1>3, <2>1, <2>4, <2>5 DEF DeletionsInv
  <2>7. \A l \in Live : rooms[l].owner = Nobody => l # k
    BY <1>1, RoomsAssumption
  <2> QED BY <2>1, <2>3, <2>6, <2>7 DEF RoomsInv
<1>5. CASE UNCHANGED rooms /\ deletion' = [deletion EXCEPT ![d] = "failed"]
  <2>1. Keys' = Keys /\ Live' = Live
    BY <1>5 DEF Keys, Live
  <2>2. deletion' \in [Deletes -> {"idle", "delete"} \cup Answers] /\ deletion'[d] = "failed"
    BY <1>a, <1>5 DEF RoomsTypeOK, Answers
  <2>3. RoomsTypeOK'
    BY <1>a, <1>1, <1>2, <1>5, <2>1, <2>2 DEF RoomsTypeOK
  <2>4. \A e \in Deletes : deletion[e] = "deleted" => deletion'[e] = "deleted"
    BY <1>1, <1>3
  <2>5. GoneByOwner'
    BY <1>a, <1>1, <1>5, <2>1, <2>4 DEF DeletionsInv, GoneByOwner
  <2>6. \A e \in Deletes : deletion'[e] = "delete" => deletion[e] = "delete"
    BY <1>1, <1>3
  <2>7. DeletionsInv'
    BY <1>a, <1>1, <1>5, <2>1, <2>5, <2>6 DEF DeletionsInv
  <2> QED BY <1>5, <2>1, <2>3, <2>7 DEF RoomsInv
<1> QED BY <1>4, <1>5 DEF Delete

\* A call of room_service.go adds rooms of users and ends such rooms only.
LEMMA RoomServiceStep ==
    ASSUME RoomsInv, RoomsNext
    PROVE  /\ RoomsInv' /\ Keys \subseteq Keys'
           /\ \A k \in Keys : rooms'[k].owner = rooms[k].owner
           /\ \A k \in Live : rooms[k].owner = Nobody => k \in Live'
<1>1. ASSUME NEW u \in Users, Create(u)
      PROVE  /\ RoomsInv' /\ Keys \subseteq Keys' /\ Live \subseteq Live'
             /\ \A k \in Keys : rooms'[k] = rooms[k]
  BY <1>1, CreateKeepsRooms, Insertion DEF Create, RoomsInv
<1>2. ASSUME NEW d \in Deletes, Check(d)
      PROVE  RoomsInv' /\ Keys' = Keys /\ Live' = Live /\ UNCHANGED rooms
  BY <1>2, CheckKeepsRooms DEF Keys, Live
<1> QED BY <1>1, <1>2, DeleteKeepsRooms DEF RoomsNext

-----------------------------------------------------------------------------
(* Theorems.                                                               *)

\* Whatever rooms users create and delete, and however the checks and the
\* deletions of different calls interleave and fail, a room is ended by its
\* owner's call only, and rows, keys and answers stay in their ranges.
THEOREM OwnersEndRooms == RoomsSpec => [](RoomsTypeOK /\ GoneByOwner)
<1>1. RoomsInv /\ [RoomsNext]_roomsVars => RoomsInv'
  <2>1. RoomsInv /\ UNCHANGED roomsVars => RoomsInv'
    BY RoomsUntouched, FailureTyped DEF roomsVars
  <2> QED BY <2>1, RoomServiceStep
<1>2. RoomsInv => RoomsTypeOK /\ GoneByOwner
  BY DEF RoomsInv, DeletionsInv
<1> QED BY InitRooms, <1>1, <1>2, PTL DEF RoomsSpec
=============================================================================
