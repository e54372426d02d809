------------------------ MODULE CustomerSessionsProofs ------------------------
(* Proofs about CustomerSessions, for any users, calls and failures.        *)
EXTENDS CustomerSessions, RoomsProofs, FiniteSetTheorems

-----------------------------------------------------------------------------
(* Rows.                                                                   *)

\* INSERT: one more row, the others as they were.
LEMMA AppendRow ==
    ASSUME NEW S, NEW s \in Seq(S), NEW e \in S
    PROVE  /\ Append(s, e) \in Seq(S)
           /\ DOMAIN Append(s, e) = DOMAIN s \cup {Len(s) + 1}
           /\ Len(s) + 1 \in Nat /\ Len(s) + 1 \notin DOMAIN s
           /\ \A i \in DOMAIN s : Append(s, e)[i] = s[i]
           /\ Append(s, e)[Len(s) + 1] = e
<1>1. /\ Append(s, e) \in Seq(S) /\ Len(Append(s, e)) = Len(s) + 1
      /\ \A i \in 1..Len(s) : Append(s, e)[i] = s[i]
      /\ Append(s, e)[Len(s) + 1] = e
  BY AppendProperties
<1>2. /\ DOMAIN s = 1..Len(s) /\ Len(s) \in Nat
      /\ DOMAIN Append(s, e) = 1..(Len(s) + 1)
  BY <1>1, LenProperties
<1> QED BY <1>1, <1>2

\* A table whose rows are rewritten one by one remains a table.
LEMMA RewrittenRows ==
    ASSUME NEW S, NEW s \in Seq(S), NEW f, f = [i \in DOMAIN s |-> f[i]],
           \A i \in DOMAIN s : f[i] \in S
    PROVE  f \in Seq(S)
<1>1. DOMAIN s = 1..Len(s) /\ Len(s) \in Nat
  BY LenProperties
<1>2. f \in [1..Len(s) -> S]
  BY <1>1
<1> QED BY <1>1, <1>2, IsASeq

LEMMA TableOfSessions ==
    ASSUME TypeOK
    PROVE  /\ sessions \in Seq(Rows) /\ Len(sessions) \in Nat
           /\ DOMAIN sessions = 1..Len(sessions) /\ DOMAIN sessions \subseteq Nat
           /\ \A s \in DOMAIN sessions : sessions[s] \in Rows
BY LenProperties DEF TypeOK

\* The sessions there were keep their user and room, and
SessionsKept ==
    /\ sessions' \in Seq(Rows)
    /\ DOMAIN sessions \subseteq DOMAIN sessions'
    /\ \A s \in DOMAIN sessions : /\ sessions'[s].user = sessions[s].user
                                  /\ sessions'[s].room = sessions[s].room

\* there are no others.
SameOwners == SessionsKept /\ DOMAIN sessions' = DOMAIN sessions

LEMMA Untouched == ASSUME TypeOK, UNCHANGED sessions PROVE SameOwners
BY DEF TypeOK, SameOwners, SessionsKept

\* A Save writes back the user and the room that it read.
LEMMA SaveKeeps ==
    ASSUME TypeOK, CopiesInv, NEW p \in Requests \cup Updates,
           pc[p] \in {"reactivate", "save"}, NEW st \in Statuses, Save(p, st)
    PROVE  SameOwners
<1> DEFINE new == [copy[p] EXCEPT !.status = st]
<1>1. /\ row[p] \in DOMAIN sessions
      /\ new \in Rows
      /\ new.user = sessions[row[p]].user /\ new.room = sessions[row[p]].room
  BY DEF CopiesInv, Rows
<1>2. sessions' = [sessions EXCEPT ![row[p]] = new]
  BY DEF Save
<1> HIDE DEF new
<1>3. /\ DOMAIN sessions' = DOMAIN sessions
      /\ sessions' = [i \in DOMAIN sessions |-> sessions'[i]]
      /\ \A s \in DOMAIN sessions : sessions'[s] = IF s = row[p] THEN new ELSE sessions[s]
  BY <1>2, TableOfSessions
<1> DEFINE tab == sessions'
<1>4. /\ tab = [i \in DOMAIN sessions |-> tab[i]]
      /\ \A s \in DOMAIN sessions : tab[s] \in Rows
  BY <1>1, <1>3, TableOfSessions
<1> HIDE DEF tab
<1>5. tab \in Seq(Rows)
  BY <1>4, RewrittenRows, TableOfSessions
<1> QED BY <1>1, <1>3, <1>5 DEF tab, SameOwners, SessionsKept

LEMMA ChatKeeps ==
    ASSUME TypeOK, NEW s0 \in DOMAIN sessions, Chat(s0)
    PROVE  SameOwners
<1>1. PICK name : sessions' = [t \in DOMAIN sessions |->
               IF name.prefixed /\ t \in SessionsNamed(name)
               THEN Answered(sessions[t]) ELSE sessions[t]]
  BY DEF Chat
<1>2. \A s \in DOMAIN sessions : /\ sessions'[s] \in Rows
                                 /\ sessions'[s].user = sessions[s].user
                                 /\ sessions'[s].room = sessions[s].room
  BY <1>1, TableOfSessions, SessionsAssumption DEF Answered, Rows
<1>3. sessions' = [i \in DOMAIN sessions |-> sessions'[i]]
  BY <1>1
<1> DEFINE tab == sessions'
<1>4. /\ tab = [i \in DOMAIN sessions |-> tab[i]]
      /\ \A s \in DOMAIN sessions : tab[s] \in Rows
  BY <1>2, <1>3
<1> HIDE DEF tab
<1>5. tab \in Seq(Rows)
  BY <1>4, RewrittenRows, TableOfSessions
<1> QED BY <1>1, <1>2, <1>5 DEF tab, SameOwners, SessionsKept

\* INSERT of a session.
LEMMA InsertKeeps ==
    ASSUME TypeOK, NEW e \in Rows, sessions' = Append(sessions, e)
    PROVE  /\ SessionsKept
           /\ DOMAIN sessions' = DOMAIN sessions \cup {Len(sessions) + 1}
           /\ Len(sessions) + 1 \notin DOMAIN sessions
           /\ sessions'[Len(sessions) + 1] = e
BY AppendRow, TableOfSessions DEF SessionsKept

-----------------------------------------------------------------------------
(* The places of calls.                                                    *)

CallsTyped ==
    /\ pc \in [Requests \cup Updates -> Points]
    /\ row \in [Requests \cup Updates -> Nat]
    /\ copy \in [Requests \cup Updates -> Rows \cup {NoRow}]

\* Only the actor's own place, key and copy change.
LEMMA GotoMoves ==
    ASSUME TypeOK, NEW a \in Requests \cup Updates, NEW point \in Points,
           NEW key \in Nat, Goto(a, point, key)
    PROVE  /\ pc'[a] = point /\ row'[a] = key
           /\ point \in {"reactivate", "save"} => copy'[a] = sessions[key]
           /\ \A q \in Requests \cup Updates :
                  q # a => pc'[q] = pc[q] /\ row'[q] = row[q] /\ copy'[q] = copy[q]
BY DEF Goto, TypeOK

\* Whoever goes to a Save has read a session of the table.
LEMMA CallStep ==
    ASSUME TypeOK, CopiesInv, SessionsKept, NEW a \in Requests \cup Updates,
           NEW point \in Points, NEW key \in Nat, Goto(a, point, key),
           point \in {"reactivate", "save"} => key \in DOMAIN sessions
    PROVE  CallsTyped' /\ CopiesInv'
<1>1. point \in {"reactivate", "save"} => sessions[key] \in Rows
  BY TableOfSessions
<1>2. CallsTyped'
  BY <1>1 DEF Goto, TypeOK, CallsTyped
<1>3. CopiesInv'
  <2> SUFFICES ASSUME NEW p \in Requests \cup Updates, pc'[p] \in {"reactivate", "save"}
               PROVE  /\ row'[p] \in DOMAIN sessions' /\ copy'[p] \in Rows
                      /\ copy'[p].user = sessions'[row'[p]].user
                      /\ copy'[p].room = sessions'[row'[p]].room
    BY DEF CopiesInv
  <2>1. CASE p = a
    BY <1>1, <2>1, GotoMoves DEF SessionsKept
  <2>2. CASE p # a
    BY <2>2, GotoMoves DEF CopiesInv, SessionsKept
  <2> QED BY <2>1, <2>2
<1> QED BY <1>2, <1>3

\* A step that moves no call.
LEMMA CallsWait ==
    ASSUME TypeOK, CopiesInv, SessionsKept, UNCHANGED callVars
    PROVE  CallsTyped' /\ CopiesInv'
BY DEF TypeOK, CopiesInv, SessionsKept, CallsTyped, callVars

-----------------------------------------------------------------------------
(* The four parts of the invariant, and when a step keeps each.            *)

Inv == TypeOK /\ RoomsInv /\ CopiesInv /\ SoleRoom /\ OverlapInv

OtherwiseTyped ==
    asked \in [Updates -> Statuses] /\ overlaps \in [Users -> Nat]

LEMMA Typed ==
    ASSUME Inv, RoomsInv', SessionsKept, CallsTyped', OtherwiseTyped', UNCHANGED chats
    PROVE  TypeOK'
BY DEF Inv, TypeOK, RoomsInv, SessionsKept, CallsTyped, OtherwiseTyped

\* No new session, no new room for one, and the rooms there are stay.
LEMMA SoleRoomKept ==
    ASSUME SoleRoom, SameOwners,
           \A k \in Keys : rooms'[k].owner = rooms[k].owner,
           \A k \in Live : rooms[k].owner = Nobody => k \in Live',
           \A r \in Requests : pc'[r] = "createSession" =>
               pc[r] = "createSession" /\ row'[r] = row[r]
    PROVE  SoleRoom'
<1>1. \A k \in Live : rooms[k].owner = Nobody => k \in Live' /\ rooms'[k].owner = Nobody
  BY DEF Live
<1>2. \A s \in DOMAIN sessions' : s \in DOMAIN sessions /\ sessions'[s].room = sessions[s].room
  BY DEF SameOwners, SessionsKept
<1>3. OwnRooms' /\ SessionRoomsExist'
  BY <1>1, <1>2 DEF SoleRoom, OwnRooms, SessionRoomsExist
<1>4. \A r \in Requests : pc'[r] = "createSession" =>
          /\ row'[r] \in Live' /\ rooms'[row'[r]].owner = Nobody
          /\ \A s \in DOMAIN sessions' : sessions'[s].room # row'[r]
  BY <1>1, <1>2 DEF SoleRoom
<1>5. \A q, r \in Requests :
          pc'[q] = "createSession" /\ pc'[r] = "createSession" /\ row'[q] = row'[r]
              => q = r
  BY DEF SoleRoom
<1> QED BY <1>3, <1>4, <1>5 DEF SoleRoom

LEMMA Counted ==
    ASSUME TypeOK, NEW u \in Users
    PROVE  /\ IsFiniteSet(SessionsOf(u)) /\ Cardinality(SessionsOf(u)) \in Nat
           /\ IsFiniteSet(Creating(u)) /\ Cardinality(Creating(u)) \in Nat
           /\ overlaps[u] \in Nat
<1>1. IsFiniteSet(DOMAIN sessions) /\ SessionsOf(u) \subseteq DOMAIN sessions
  BY TableOfSessions, FS_Interval DEF SessionsOf
<1>2. IsFiniteSet(Requests) /\ Creating(u) \subseteq Requests
  BY SessionsAssumption DEF Creating
<1>3. overlaps[u] \in Nat
  BY DEF TypeOK
<1> QED BY <1>1, <1>2, <1>3, FS_Subset, FS_CardinalityType

\* No new session and nobody who starts to create one.
LEMMA OverlapKept ==
    ASSUME TypeOK, OverlapInv, SameOwners, UNCHANGED overlaps,
           \A r \in Requests : pc'[r] \in {"createRoom", "createSession"} =>
               pc[r] \in {"createRoom", "createSession"}
    PROVE  OverlapInv'
<1> SUFFICES ASSUME NEW u \in Users
             PROVE  Cardinality(SessionsOf(u)') + Cardinality(Creating(u)') <= 1 + overlaps[u]
  BY DEF OverlapInv
<1>1. SessionsOf(u)' = SessionsOf(u)
  BY DEF SameOwners, SessionsKept, SessionsOf
<1>2. Creating(u)' \subseteq Creating(u)
  BY DEF Creating
<1>3. /\ Cardinality(Creating(u)') <= Cardinality(Creating(u))
      /\ Cardinality(Creating(u)') \in Nat
  BY <1>2, Counted, FS_Subset, FS_CardinalityType
<1> QED BY <1>1, <1>3, Counted DEF OverlapInv

-----------------------------------------------------------------------------
(* The actions.                                                            *)

LEMMA InitInv == Init => Inv
<1> SUFFICES ASSUME Init PROVE Inv
  OBVIOUS
<1>1. RoomsInv /\ RoomsTypeOK
  BY InitRooms DEF Init, RoomsInv
<1>2. TypeOK
  BY <1>1, SessionsAssumption, EmptySeq DEF Init, TypeOK, Points
<1>3. CopiesInv /\ SoleRoom
  BY DEF Init, CopiesInv, SoleRoom, OwnRooms, SessionRoomsExist
<1>4. OverlapInv
  <2> SUFFICES ASSUME NEW u \in Users
               PROVE  Cardinality(SessionsOf(u)) + Cardinality(Creating(u)) <= 1 + overlaps[u]
    BY DEF OverlapInv
  <2>1. SessionsOf(u) = {} /\ Creating(u) = {} /\ overlaps[u] = 0
    BY DEF Init, SessionsOf, Creating
  <2> QED BY <2>1, FS_EmptySet
<1> QED BY <1>1, <1>2, <1>3, <1>4 DEF Inv

\* The statements of a handler that leave the table rooms alone.
LEMMA FailureKeepsRooms ==
    ASSUME Inv, UNCHANGED <<rooms, created, deletion, target>>,
           Failure \/ UNCHANGED failures
    PROVE  RoomsInv' /\ Keys' = Keys /\ Live' = Live
BY RoomsUntouched, FailureTyped DEF Inv

\* A call goes on, and neither sessions nor rooms are added.
LEMMA QuietStep ==
    ASSUME Inv, SameOwners, UNCHANGED <<rooms, created, deletion, target, chats, overlaps>>,
           Failure \/ UNCHANGED failures, asked' \in [Updates -> Statuses],
           NEW a \in Requests \cup Updates, NEW key \in Nat,
           NEW point \in {"reactivate", "save", "done", "failed"}, Goto(a, point, key),
           point \in {"reactivate", "save"} => key \in DOMAIN sessions
    PROVE  Inv'
<1>1. point \in Points /\ TypeOK /\ CopiesInv /\ SoleRoom /\ OverlapInv /\ SessionsKept
  BY DEF Points, Inv, SameOwners
<1>2. RoomsInv' /\ Keys' = Keys /\ Live' = Live
  BY FailureKeepsRooms
<1>3. CallsTyped' /\ CopiesInv'
  BY <1>1, CallStep
<1>4. TypeOK'
  BY <1>1, <1>2, <1>3, Typed DEF OtherwiseTyped, TypeOK
<1>5. \A r \in Requests : pc'[r] \in {"createRoom", "createSession"} =>
          pc'[r] = pc[r] /\ row'[r] = row[r]
  BY <1>1, GotoMoves
<1>6. SoleRoom'
  BY <1>1, <1>2, <1>5, SoleRoomKept
<1>7. OverlapInv'
  BY <1>1, <1>5, OverlapKept
<1> QED BY <1>2, <1>3, <1>4, <1>6, <1>7 DEF Inv

\* The look-up that finds nothing is the only step that lets a call create.
LEMMA FindStep ==
    ASSUME Inv, NEW r \in Requests, Find(r)
    PROVE  Inv'
<1>0. /\ UNCHANGED <<rooms, created, deletion, target, sessions, asked, chats>>
      /\ pc[r] = "idle" /\ TypeOK /\ asked' \in [Updates -> Statuses] /\ SameOwners
  BY Untouched DEF Find, Inv, TypeOK
<1>1. CASE /\ SessionsOf(Owner[r]) = {}
           /\ Goto(r, "createRoom", 0)
           /\ overlaps' = [overlaps EXCEPT ![Owner[r]] =
                              IF Creating(Owner[r]) = {} THEN @ ELSE @ + 1]
           /\ UNCHANGED failures
  <2>0. Owner[r] \in Users /\ "createRoom" \in Points /\ CopiesInv /\ SoleRoom /\ OverlapInv
    BY SessionsAssumption DEF Points, Inv
  <2>1. RoomsInv' /\ Keys' = Keys /\ Live' = Live
    BY <1>0, <1>1, FailureKeepsRooms
  <2>2. CallsTyped' /\ CopiesInv'
    BY <1>0, <1>1, <2>0, CallStep DEF SameOwners
  <2>3. overlaps' \in [Users -> Nat]
    <3>1. overlaps[Owner[r]] \in Nat /\ overlaps[Owner[r]] + 1 \in Nat
      BY <1>0, <2>0 DEF TypeOK
    <3> QED BY <1>0, <1>1, <2>0, <3>1 DEF TypeOK
  <2>4. TypeOK'
    BY <1>0, <2>1, <2>2, <2>3, Typed DEF OtherwiseTyped, SameOwners
  <2>5. /\ pc'[r] = "createRoom"
        /\ \A q \in Requests : q # r => pc'[q] = pc[q] /\ row'[q] = row[q]
    BY <1>0, <1>1, <2>0, GotoMoves
  <2>6. SoleRoom'
    BY <1>0, <2>0, <2>1, <2>5, SoleRoomKept
  <2>7. OverlapInv'
    <3> SUFFICES ASSUME NEW u \in Users
                 PROVE  Cardinality(SessionsOf(u)') + Cardinality(Creating(u)')
                          <= 1 + overlaps'[u]
      BY DEF OverlapInv
    <3>1. SessionsOf(u)' = SessionsOf(u)
      BY <1>0 DEF SessionsOf
    <3>2. CASE u # Owner[r]
      <4>1. Creating(u)' = Creating(u) /\ overlaps'[u] = overlaps[u]
        BY <1>0, <1>1, <2>5, <3>2 DEF Creating, TypeOK
      <4> QED BY <2>0, <3>1, <4>1 DEF OverlapInv
    <3>3. CASE u = Owner[r]
      <4>1. Creating(u)' = Creating(u) \cup {r} /\ r \notin Creating(u)
        BY <1>0, <2>5, <3>3 DEF Creating
      <4>2. Cardinality(Creating(u)') = Cardinality(Creating(u)) + 1
        BY <1>0, <4>1, Counted, FS_AddElement
      <4>3. Cardinality(SessionsOf(u)') = 0
        BY <1>1, <3>1, <3>3, FS_EmptySet
      <4>4. Cardinality(SessionsOf(u)) = 0
        BY <1>1, <3>3, FS_EmptySet
      <4>5. CASE Creating(u) = {}
        <5>1. Cardinality(Creating(u)) = 0
          BY <4>5, FS_EmptySet
        <5> QED BY <1>0, <4>2, <4>3, <5>1, <2>3
      <4>6. CASE Creating(u) # {}
        <5>1. overlaps'[u] = overlaps[u] + 1
          BY <1>0, <1>1, <3>3, <4>6 DEF TypeOK
        <5> QED BY <1>0, <2>0, <4>2, <4>3, <4>4, <5>1, Counted DEF OverlapInv
      <4> QED BY <4>5, <4>6
    <3> QED BY <3>2, <3>3
  <2> QED BY <2>0, <2>1, <2>2, <2>4, <2>6, <2>7 DEF Inv
<1>2. CASE \E s \in SessionsOf(Owner[r]) :
              /\ Goto(r, IF sessions[s].status = "closed" THEN "reactivate" ELSE "done", s)
              /\ UNCHANGED <<failures, overlaps>>
  <2>1. PICK s \in SessionsOf(Owner[r]) :
              /\ Goto(r, IF sessions[s].status = "closed" THEN "reactivate" ELSE "done", s)
              /\ UNCHANGED <<failures, overlaps>>
    BY <1>2
  <2>2. s \in DOMAIN sessions /\ s \in Nat
    BY <1>0, TableOfSessions DEF SessionsOf
  <2>3. PICK point \in {"reactivate", "done"} : Goto(r, point, s)
    BY <2>1
  <2> QED BY <1>0, <2>1, <2>2, <2>3, QuietStep
<1>3. CASE Fail(r) /\ UNCHANGED overlaps
  BY <1>0, <1>3, QuietStep DEF Fail
<1> QED BY <1>1, <1>2, <1>3 DEF Find, FindSession

\* The new room is nobody's, and no session's yet.
LEMMA CreateRoomStep ==
    ASSUME Inv, NEW r \in Requests, CreateRoom(r)
    PROVE  Inv'
<1>0. /\ UNCHANGED <<created, deletion, target, sessions, asked, chats, overlaps>>
      /\ pc[r] = "createRoom" /\ asked' \in [Updates -> Statuses] /\ SameOwners
      /\ TypeOK /\ RoomsInv /\ RoomsTypeOK /\ CopiesInv /\ SoleRoom /\ OverlapInv
  BY Untouched DEF CreateRoom, Inv, TypeOK
<1>1. CASE Insert(Nobody) /\ Goto(r, "createSession", Len(rooms) + 1) /\ UNCHANGED failures
  <2> DEFINE key == Len(rooms) + 1
  <2>1. /\ Live' = Live \cup {key} /\ key \notin Keys /\ key \in Nat
        /\ \A k \in Keys : rooms'[k] = rooms[k]
        /\ rooms'[key].owner = Nobody
    <3>1. Len(rooms) \in Nat /\ Keys = 1..Len(rooms)
      BY <1>0, KeysOfTable
    <3>2. Nobody \in Users \cup {Nobody}
      OBVIOUS
    <3>3. RoomsTypeOK /\ Insert(Nobody)
      BY <1>0, <1>1
    <3>4. /\ \A k \in Keys : rooms'[k] = rooms[k]
          /\ rooms'[Len(rooms) + 1] = [owner |-> Nobody, live |-> TRUE]
          /\ Live' = Live \cup {Len(rooms) + 1}
      BY <3>2, <3>3, Insertion
    <3> QED BY <3>1, <3>4
  <2>2. RoomsInv'
    BY <1>0, <1>1, InsertKeepsRooms DEF RoomsTypeOK
  <2> HIDE DEF key
  <2>3. Goto(r, "createSession", key) /\ "createSession" \in Points
    BY <1>1 DEF key, Points
  <2>4. CallsTyped' /\ CopiesInv'
    BY <1>0, <2>1, <2>3, CallStep DEF SameOwners
  <2>5. TypeOK'
    BY <1>0, <2>2, <2>4, Typed DEF OtherwiseTyped, SameOwners, Inv, TypeOK
  <2>6. /\ pc'[r] = "createSession" /\ row'[r] = key
        /\ \A q \in Requests : q # r => pc'[q] = pc[q] /\ row'[q] = row[q]
    BY <1>0, <2>1, <2>3, GotoMoves
  <2>7. SoleRoom'
    <3>1. \A k \in Live : k \in Keys /\ k \in Live' /\ k # key /\ rooms'[k] = rooms[k]
      BY <2>1 DEF Live
    <3>2. OwnRooms' /\ SessionRoomsExist'
      BY <1>0, <3>1 DEF SoleRoom, OwnRooms, SessionRoomsExist
    <3>3. \A q \in Requests : pc'[q] = "createSession" =>
             /\ row'[q] \in Live' /\ rooms'[row'[q]].owner = Nobody
             /\ \A s \in DOMAIN sessions : sessions[s].room # row'[q]
      <4> SUFFICES ASSUME NEW q \in Requests, pc'[q] = "createSession"
                   PROVE  /\ row'[q] \in Live' /\ rooms'[row'[q]].owner = Nobody
                          /\ \A s \in DOMAIN sessions : sessions[s].room # row'[q]
        OBVIOUS
      <4>1. CASE q = r
        BY <1>0, <2>1, <2>6, <3>1, <4>1 DEF SoleRoom, SessionRoomsExist
      <4>2. CASE q # r
        BY <1>0, <2>6, <3>1, <4>2 DEF SoleRoom
      <4> QED BY <4>1, <4>2
    <3>4. \A p, q \in Requests :
             pc'[p] = "createSession" /\ pc'[q] = "createSession" /\ row'[p] = row'[q]
                 => p = q
      <4>1. \A q \in Requests : q # r /\ pc'[q] = "createSession" => row'[q] # key
        BY <1>0, <2>6, <3>1 DEF SoleRoom
      <4> QED BY <1>0, <2>6, <4>1 DEF SoleRoom
    <3> QED BY <1>0, <3>2, <3>3, <3>4 DEF SoleRoom
  <2>8. OverlapInv'
    BY <1>0, <2>6, OverlapKept
  <2> QED BY <2>2, <2>4, <2>5, <2>7, <2>8 DEF Inv
<1>2. CASE Fail(r) /\ UNCHANGED rooms
  BY <1>0, <1>2, QuietStep DEF Fail
<1> QED BY <1>1, <1>2 DEF CreateRoom

\* The session takes over the room of its call, which creates no more.
LEMMA CreateSessionStep ==
    ASSUME Inv, NEW r \in Requests, CreateSession(r)
    PROVE  Inv'
<1>0. /\ UNCHANGED <<rooms, created, deletion, target, asked, chats, overlaps>>
      /\ pc[r] = "createSession" /\ asked' \in [Updates -> Statuses]
      /\ TypeOK /\ RoomsInv /\ RoomsTypeOK /\ CopiesInv /\ SoleRoom /\ OverlapInv
  BY DEF CreateSession, Inv, TypeOK
<1>1. CASE /\ sessions' = Append(sessions, Session(Owner[r], row[r]))
           /\ Goto(r, "done", Len(sessions) + 1) /\ UNCHANGED failures
  <2> DEFINE e == Session(Owner[r], row[r])
             new == Len(sessions) + 1
  <2>1. /\ row[r] \in Live /\ row[r] \in Nat /\ row[r] # 0 /\ Owner[r] \in Users
        /\ rooms[row[r]].owner = Nobody
        /\ \A s \in DOMAIN sessions : sessions[s].room # row[r]
    BY <1>0, KeysOfTable, SessionsAssumption DEF SoleRoom, Live, NoKey
  <2>2. e \in Rows /\ e.room = row[r] /\ e.user = Owner[r]
    BY <2>1, SessionsAssumption DEF Session, Rows
  <2> HIDE DEF e
  <2>3. sessions' = Append(sessions, e)
    BY <1>1 DEF e
  <2>4. /\ SessionsKept /\ DOMAIN sessions' = DOMAIN sessions \cup {new}
        /\ new \notin DOMAIN sessions /\ sessions'[new] = e /\ new \in Nat
    BY <1>0, <2>2, <2>3, InsertKeeps, TableOfSessions
  <2> HIDE DEF new
  <2>5. Goto(r, "done", new) /\ "done" \in Points
    BY <1>1 DEF new, Points
  <2>6. CallsTyped' /\ CopiesInv'
    BY <1>0, <2>4, <2>5, CallStep
  <2>7. RoomsInv' /\ Keys' = Keys /\ Live' = Live
    BY <1>0, <1>1, FailureKeepsRooms
  <2>8. TypeOK'
    BY <1>0, <2>4, <2>6, <2>7, Typed DEF OtherwiseTyped, TypeOK
  <2>9. /\ pc'[r] = "done"
        /\ \A q \in Requests : q # r => pc'[q] = pc[q] /\ row'[q] = row[q]
    BY <1>0, <2>4, <2>5, GotoMoves
  <2>10. SoleRoom'
    <3>1. \A s \in DOMAIN sessions' : \/ s \in DOMAIN sessions /\ sessions'[s].room = sessions[s].room
                                      \/ s = new /\ sessions'[s].room = row[r]
      BY <2>2, <2>4 DEF SessionsKept
    <3>2. OwnRooms' /\ SessionRoomsExist'
      BY <1>0, <2>1, <2>7, <3>1 DEF SoleRoom, OwnRooms, SessionRoomsExist
    <3>3. \A q \in Requests : pc'[q] = "createSession" =>
             q # r /\ pc[q] = "createSession" /\ row'[q] = row[q] /\ row[q] # row[r]
      BY <1>0, <2>9 DEF SoleRoom
    <3>4. \A q \in Requests : pc'[q] = "createSession" =>
             /\ row'[q] \in Live' /\ rooms'[row'[q]].owner = Nobody
             /\ \A s \in DOMAIN sessions' : sessions'[s].room # row'[q]
      BY <1>0, <2>7, <3>1, <3>3 DEF SoleRoom
    <3> QED BY <1>0, <3>2, <3>3, <3>4 DEF SoleRoom
  <2>11. OverlapInv'
    <3> SUFFICES ASSUME NEW u \in Users
                 PROVE  Cardinality(SessionsOf(u)') + Cardinality(Creating(u)')
                          <= 1 + overlaps[u]
      BY <1>0 DEF OverlapInv
    <3>1. CASE u # Owner[r]
      <4>1. SessionsOf(u)' = SessionsOf(u) /\ Creating(u)' = Creating(u)
        BY <2>2, <2>4, <2>9, <3>1 DEF SessionsOf, Creating, SessionsKept
      <4> QED BY <1>0, <4>1 DEF OverlapInv
    <3>2. CASE u = Owner[r]
      <4>1. SessionsOf(u)' = SessionsOf(u) \cup {new} /\ new \notin SessionsOf(u)
        BY <2>2, <2>4, <3>2 DEF SessionsOf, SessionsKept
      <4>2. Creating(u)' = Creating(u) \ {r} /\ r \in Creating(u)
        BY <1>0, <2>9, <3>2 DEF Creating
      <4>3. Cardinality(SessionsOf(u)') = Cardinality(SessionsOf(u)) + 1
        BY <1>0, <4>1, Counted, FS_AddElement
      <4>4. Cardinality(Creating(u)') = Cardinality(Creating(u)) - 1
        BY <1>0, <4>2, Counted, FS_RemoveElement
      <4> QED BY <1>0, <4>3, <4>4, Counted DEF OverlapInv
    <3> QED BY <3>1, <3>2
  <2> QED BY <2>6, <2>7, <2>8, <2>10, <2>11 DEF Inv
<1>2. CASE Fail(r) /\ UNCHANGED sessions
  BY <1>0, <1>2, Untouched, QuietStep DEF Fail
<1> QED BY <1>1, <1>2 DEF CreateSession

LEMMA ReactivateStep ==
    ASSUME Inv, NEW r \in Requests, Reactivate(r)
    PROVE  Inv'
<1>1. /\ pc[r] = "reactivate" /\ Goto(r, "done", row[r])
      /\ UNCHANGED <<rooms, created, deletion, target, asked, chats, overlaps>>
      /\ Failure \/ UNCHANGED failures
  BY Zenon DEF Reactivate
<1>2. /\ TypeOK /\ CopiesInv /\ row[r] \in Nat /\ asked' \in [Updates -> Statuses]
  BY <1>1 DEF Inv, TypeOK
<1>3. SameOwners
  BY <1>1, <1>2, SaveKeeps, Untouched, SessionsAssumption DEF Reactivate
<1> QED BY <1>1, <1>2, <1>3, QuietStep

LEMMA ReadStep ==
    ASSUME Inv, NEW p \in Updates, ReadForUpdate(p)
    PROVE  Inv'
<1>1. PICK s \in DOMAIN sessions, status \in Statuses :
          Goto(p, "save", s) /\ asked' = [asked EXCEPT ![p] = status]
  BY DEF ReadForUpdate
<1>2. UNCHANGED <<rooms, created, deletion, target, failures, chats, overlaps, sessions>>
  BY DEF ReadForUpdate, roomsVars
<1>3. TypeOK /\ s \in Nat /\ asked' \in [Updates -> Statuses]
  BY <1>1, TableOfSessions DEF Inv, TypeOK
<1>4. SameOwners
  BY <1>2, <1>3, Untouched
<1> QED BY <1>1, <1>2, <1>3, <1>4, QuietStep

LEMMA SaveUpdateStep ==
    ASSUME Inv, NEW p \in Updates, SaveUpdate(p)
    PROVE  Inv'
<1>1. /\ pc[p] = "save" /\ TypeOK /\ CopiesInv
      /\ UNCHANGED <<rooms, created, deletion, target, asked, chats, overlaps>>
  BY DEF SaveUpdate, Inv
<1>2. asked[p] \in Statuses /\ row[p] \in Nat /\ asked' \in [Updates -> Statuses]
  BY <1>1 DEF TypeOK
<1>3. CASE Save(p, asked[p]) /\ Goto(p, "done", row[p]) /\ UNCHANGED failures
  BY <1>1, <1>2, <1>3, SaveKeeps, QuietStep
<1>4. CASE Fail(p) /\ UNCHANGED sessions
  BY <1>1, <1>2, <1>4, Untouched, QuietStep DEF Fail
<1> QED BY <1>3, <1>4 DEF SaveUpdate

\* Neither chat messages nor the calls of room_service.go move a call.
LEMMA StillStep ==
    ASSUME Inv, SameOwners, RoomsInv', UNCHANGED <<callVars, asked, overlaps>>,
           \A k \in Keys : rooms'[k].owner = rooms[k].owner,
           \A k \in Live : rooms[k].owner = Nobody => k \in Live',
           chats' \subseteq DOMAIN sessions
    PROVE  Inv'
<1>1. CallsTyped' /\ CopiesInv'
  BY CallsWait DEF Inv, SameOwners
<1>2. TypeOK'
  BY <1>1 DEF Inv, TypeOK, RoomsInv, SameOwners, SessionsKept, CallsTyped
<1>3. SoleRoom'
  BY SoleRoomKept DEF Inv, callVars
<1>4. OverlapInv'
  BY OverlapKept DEF Inv, callVars
<1> QED BY <1>1, <1>2, <1>3, <1>4 DEF Inv

LEMMA ChatStep ==
    ASSUME Inv, NEW s \in DOMAIN sessions, Chat(s)
    PROVE  Inv'
<1>1. /\ UNCHANGED <<rooms, created, deletion, target, failures>>
      /\ UNCHANGED <<callVars, asked, overlaps>>
      /\ chats' \subseteq DOMAIN sessions /\ SameOwners
  BY ChatKeeps DEF Chat, Inv, TypeOK, roomsVars
<1>2. RoomsInv' /\ Keys' = Keys /\ Live' = Live
  BY <1>1, FailureKeepsRooms
<1> QED BY <1>1, <1>2, StillStep

LEMMA RoomServiceCall ==
    ASSUME Inv, RoomService
    PROVE  Inv'
<1>1. /\ UNCHANGED <<sessions, callVars, asked, chats, overlaps>>
      /\ chats' \subseteq DOMAIN sessions /\ SameOwners
  BY Untouched DEF RoomService, Inv, TypeOK
<1>2. /\ RoomsInv'
      /\ \A k \in Keys : rooms'[k].owner = rooms[k].owner
      /\ \A k \in Live : rooms[k].owner = Nobody => k \in Live'
  BY RoomServiceStep DEF RoomService, Inv
<1> QED BY <1>1, <1>2, StillStep

LEMMA StepInv == Inv /\ [Next]_vars => Inv'
<1> SUFFICES ASSUME Inv, [Next]_vars PROVE Inv'
  OBVIOUS
<1>1. CASE UNCHANGED vars
  <2>1. /\ UNCHANGED <<rooms, created, deletion, target, failures>>
        /\ UNCHANGED <<callVars, asked, overlaps>>
        /\ chats' \subseteq DOMAIN sessions /\ SameOwners
    BY <1>1, Untouched DEF vars, roomsVars, Inv, TypeOK
  <2>2. RoomsInv' /\ Keys' = Keys /\ Live' = Live
    BY <2>1, FailureKeepsRooms
  <2> QED BY <2>1, <2>2, StillStep
<1>2. CASE Next
  BY <1>2, FindStep, CreateRoomStep, CreateSessionStep, ReactivateStep, ReadStep,
     SaveUpdateStep, ChatStep, RoomServiceCall DEF Next
<1> QED BY <1>1, <1>2

-----------------------------------------------------------------------------
(* Theorems.                                                               *)

\* Sessions are well typed, and each has a room of its own that exists and is
\* nobody's, in every interleaving of the statements of all handlers.
THEOREM TypesAndRooms == Spec => [](TypeOK /\ OwnRooms /\ SessionRoomsExist)
<1>1. Inv => TypeOK /\ OwnRooms /\ SessionRoomsExist
  BY DEF Inv, SoleRoom
<1> QED BY InitInv, StepInv, <1>1, PTL DEF Spec

\* A user has no more sessions than one and one for each call that looked
\* while another was creating one (customer_handler.go:35-67), whatever fails.
THEOREM OverlapsMakeSessions == Spec => []SecondSessionNeedsOverlap
<1>1. Inv => SecondSessionNeedsOverlap
  <2> SUFFICES ASSUME Inv, NEW u \in Users
               PROVE  Cardinality(SessionsOf(u)) <= 1 + overlaps[u]
    BY DEF SecondSessionNeedsOverlap
  <2> QED BY Counted DEF Inv, OverlapInv
<1> QED BY InitInv, StepInv, <1>1, PTL DEF Spec

\* Every row, key and point stays in its range.
THEOREM SessionsTyped == Spec => []TypeOK
BY TypesAndRooms, PTL

\* Customers' rooms in the table change nothing about who ends a room.
THEOREM OwnersStillEndRooms == Spec => []GoneByOwner
<1>1. Inv => GoneByOwner
  BY DEF Inv, RoomsInv, DeletionsInv
<1> QED BY InitInv, StepInv, <1>1, PTL DEF Spec
=============================================================================
