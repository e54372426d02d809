--------------------------- MODULE CustomerSessions ---------------------------
(***************************************************************************)
(* handlers/customer_handler.go: the customer service sessions, beside the *)
(* calls of room_service.go on the table rooms that they share, and the    *)
(* chat hub's attempt to keep the sessions up to date                      *)
(* (chat_websocket_handler.go:460-463, 485-496).                           *)
(*                                                                         *)
(* Every handler reads rows and writes them back in separate statements    *)
(* without a transaction, and Save writes the whole row it read, so a step *)
(* of the model is one statement.  Sessions are never deleted: the table   *)
(* is a sequence whose indices are the primary keys.                       *)
(***************************************************************************)
EXTENDS Rooms, FiniteSets

CONSTANTS
    Requests,       \* calls of CreateOrGetSession
    Owner,          \* who makes each of them
    Updates,        \* calls of UpdateSessionStatus
    Statuses,       \* what those calls may ask for
    NoRow,          \* nothing read
    MaxChats        \* bound: chat messages

ASSUME SessionsAssumption ==
    /\ IsFiniteSet(Requests)
    /\ Owner \in [Requests -> Users]
    /\ Requests \cap Updates = {}
    /\ {"pending", "active", "closed"} \subseteq Statuses
    /\ MaxChats \in Nat

VARIABLES
    sessions,   \* table customer_sessions
    pc,         \* where each request or update is
    row,        \* the key of the row it has read, or of the room it created
    copy,       \* the row it has read and will Save
    asked,      \* the status an update was asked for
    chats,      \* the sessions in whose room a customer has written
    overlaps    \* history: calls of each user that found no session while
                \* another call of the user was creating one

callVars == <<pc, row, copy>>
vars == <<roomsVars, sessions, callVars, asked, chats, overlaps>>

Points == {"idle", "createRoom", "createSession", "reactivate", "save",
           "done", "failed"}

\* Slip: the session is built before the room has its key.
SessionWithoutRoom(u, room) == [user |-> u, room |-> 0, status |-> "pending",
                                lastMessage |-> FALSE]

Session(u, room) == [user |-> u, room |-> room, status |-> "pending",
                     lastMessage |-> FALSE]

Rows == [user : Users, room : Nat \ {0}, status : Statuses,
         lastMessage : BOOLEAN]

TypeOK ==
    /\ RoomsTypeOK
    /\ sessions \in Seq(Rows)
    /\ pc \in [Requests \cup Updates -> Points]
    /\ row \in [Requests \cup Updates -> Nat]
    /\ copy \in [Requests \cup Updates -> Rows \cup {NoRow}]
    /\ asked \in [Updates -> Statuses]
    /\ chats \subseteq DOMAIN sessions
    /\ overlaps \in [Users -> Nat]

Init ==
    /\ RoomsInit
    /\ sessions = <<>> /\ chats = {}
    /\ pc = [p \in Requests \cup Updates |-> "idle"]
    /\ row = [p \in Requests \cup Updates |-> 0]
    /\ copy = [p \in Requests \cup Updates |-> NoRow]
    /\ asked = [p \in Updates |-> "pending"]
    /\ overlaps = [u \in Users |-> 0]

\* The call goes on at a point, with a key; it holds the session with that key
\* if it is going to Save it.
Goto(p, point, key) ==
    /\ pc' = [pc EXCEPT ![p] = point]
    /\ row' = [row EXCEPT ![p] = key]
    /\ copy' = [copy EXCEPT ![p] = IF point \in {"reactivate", "save"}
                                   THEN sessions[key] ELSE NoRow]

Fail(p) == Failure /\ Goto(p, "failed", 0)

-----------------------------------------------------------------------------
(* CreateOrGetSession.                                                     *)

SessionsOf(u) == {s \in DOMAIN sessions : sessions[s].user = u}

\* The calls of u between the look-up that found nothing and the INSERT.
Creating(u) ==
    {r \in Requests : Owner[r] = u /\ pc[r] \in {"createRoom", "createSession"}}

\* Slip: only an open session is looked for.
Found(u) == {s \in SessionsOf(u) : sessions[s].status # "closed"}

\* db.Where("user_id = ?"), of which First takes the lowest key.
FindSession(u) == SessionsOf(u)

Find(r) ==
    LET found == FindSession(Owner[r]) IN
    /\ pc[r] = "idle"
    /\ \/ /\ found = {}
          /\ Goto(r, "createRoom", 0)
          /\ overlaps' = [overlaps EXCEPT ![Owner[r]] =
                             IF Creating(Owner[r]) = {} THEN @ ELSE @ + 1]
          /\ UNCHANGED failures
       \/ \E s \in found :
              /\ \A t \in found : s <= t
              /\ Goto(r, IF sessions[s].status = "closed" THEN "reactivate"
                         ELSE "done", s)
              /\ UNCHANGED <<failures, overlaps>>
       \/ Fail(r) /\ UNCHANGED overlaps
    /\ UNCHANGED <<rooms, created, deletion, target, sessions, asked, chats>>

\* models.Room{...} has no OwnerID.
CreateRoom(r) ==
    /\ pc[r] = "createRoom"
    /\ \/ /\ Insert(Nobody)
          /\ Goto(r, "createSession", Len(rooms) + 1)
          /\ UNCHANGED failures
       \/ Fail(r) /\ UNCHANGED rooms
    /\ UNCHANGED <<created, deletion, target, sessions, asked, chats, overlaps>>

\* Slip: the session is given the newest room.
CreateSessionInNewest(r) ==
    /\ pc[r] = "createSession"
    /\ sessions' = Append(sessions, Session(Owner[r], Len(rooms)))
    /\ Goto(r, "done", Len(sessions) + 1)
    /\ UNCHANGED <<roomsVars, asked, chats, overlaps>>

\* Its failure leaves the room behind.
CreateSession(r) ==
    /\ pc[r] = "createSession"
    /\ \/ /\ sessions' = Append(sessions, Session(Owner[r], row[r]))
          /\ Goto(r, "done", Len(sessions) + 1)
          /\ UNCHANGED failures
       \/ Fail(r) /\ UNCHANGED sessions
    /\ UNCHANGED <<rooms, created, deletion, target, asked, chats, overlaps>>

\* Save: every column of the row as it was read, but for the status.
Save(p, status) ==
    sessions' = [sessions EXCEPT ![row[p]] = [copy[p] EXCEPT !.status = status]]

\* An error of Save is ignored.
Reactivate(r) ==
    /\ pc[r] = "reactivate"
    /\ \/ Save(r, "pending") /\ UNCHANGED failures
       \/ Failure /\ UNCHANGED sessions
    /\ Goto(r, "done", row[r])
    /\ UNCHANGED <<rooms, created, deletion, target, asked, chats, overlaps>>

-----------------------------------------------------------------------------
(* UpdateSessionStatus.                                                    *)

\* Any session, by anyone; the status is not validated.
ReadForUpdate(p) ==
    /\ pc[p] = "idle"
    /\ \E s \in DOMAIN sessions, status \in Statuses :
           /\ Goto(p, "save", s)
           /\ asked' = [asked EXCEPT ![p] = status]
    /\ UNCHANGED <<roomsVars, sessions, chats, overlaps>>

SaveUpdate(p) ==
    /\ pc[p] = "save"
    /\ \/ /\ Save(p, asked[p])
          /\ Goto(p, "done", row[p])
          /\ UNCHANGED failures
       \/ Fail(p) /\ UNCHANGED sessions
    /\ UNCHANGED <<rooms, created, deletion, target, asked, chats, overlaps>>

-----------------------------------------------------------------------------
(* A customer writes in the room of a session.                             *)

\* The client chooses how it names the room in the path: by its key, or with
\* the prefix that handleChatMessage looks for.
RoomNames(s) == {[prefixed |-> p, room |-> sessions[s].room] : p \in BOOLEAN}

\* updateCustomerServiceSession compares the whole name with the integer
\* column room_id: a prefixed name is no integer, and the query fails.
SessionsNamed(name) ==
    IF name.prefixed THEN {}
    ELSE {s \in DOMAIN sessions : sessions[s].room = name.room}

Answered(session) ==
    [session EXCEPT !.lastMessage = TRUE,
                    !.status = IF @ = "pending" THEN "active" ELSE @]

\* The goroutine's look-up and Save are part of the step.
Chat(s) ==
    /\ Cardinality(chats) < MaxChats
    /\ s \in DOMAIN sessions \ chats
    /\ chats' = chats \cup {s}
    /\ \E name \in RoomNames(s) :
           sessions' = [t \in DOMAIN sessions |->
               IF name.prefixed /\ t \in SessionsNamed(name)
               THEN Answered(sessions[t]) ELSE sessions[t]]
    /\ UNCHANGED <<roomsVars, callVars, asked, overlaps>>

-----------------------------------------------------------------------------
\* A call of room_service.go.
RoomService ==
    RoomsNext /\ UNCHANGED <<sessions, callVars, asked, chats, overlaps>>

Next ==
    \/ \E r \in Requests : Find(r) \/ CreateRoom(r) \/ CreateSession(r)
                             \/ Reactivate(r)
    \/ \E p \in Updates : ReadForUpdate(p) \/ SaveUpdate(p)
    \/ \E s \in DOMAIN sessions : Chat(s)
    \/ RoomService

Spec == Init /\ [][Next]_vars

-----------------------------------------------------------------------------
(* Properties.                                                             *)

\* CreateOrGetSession (lines 35-67) looks before it creates and there is no
\* unique index on user_id (models/customer.go:7): a user gets a session more
\* only by a call that looked while another call of the user was between its
\* look-up and its INSERT.  Nothing else adds one, however statements fail and
\* calls are retried, and whatever becomes of a session in between.
SecondSessionNeedsOverlap ==
    \A u \in Users : Cardinality(SessionsOf(u)) <= 1 + overlaps[u]

\* Two customers never end up in one room, although rooms are left behind by
\* failing calls and users create rooms of theirs in between.  The unique
\* index on room_id (models/customer.go:8) is left out of the model: the calls
\* do not need it.
OwnRooms ==
    \A s, t \in DOMAIN sessions : sessions[s].room = sessions[t].room => s = t

\* A customer's session (customer_handler.go:57) leads to a room that exists
\* and that nobody owns: no sequence of DeleteRoom calls (room_service.go:113),
\* which do not look at the sessions, removes it.
SessionRoomsExist ==
    \A s \in DOMAIN sessions :
        sessions[s].room \in Live /\ rooms[sessions[s].room].owner = Nobody

\* What the comments on handleChatMessage (chat_websocket_handler.go:460) and
\* on UpdateLastMessage (customer_handler.go:139, 149) say: a chat message in
\* the room of a session becomes its last message, and it is pending no more.
ChatUpdatesSession ==
    [][\A s \in chats' \ chats :
           sessions'[s].lastMessage /\ sessions'[s].status # "pending"]_vars

-----------------------------------------------------------------------------
(* Inductive strengthenings, for the proofs of CustomerSessionsProofs.     *)

\* A row that waits to be saved is one of the table, with its user and room.
CopiesInv ==
    \A p \in Requests \cup Updates : pc[p] \in {"reactivate", "save"} =>
        /\ row[p] \in DOMAIN sessions /\ copy[p] \in Rows
        /\ copy[p].user = sessions[row[p]].user
        /\ copy[p].room = sessions[row[p]].room

\* What exists and what is being created never exceeds what overlapped.
OverlapInv ==
    \A u \in Users :
        Cardinality(SessionsOf(u)) + Cardinality(Creating(u)) <= 1 + overlaps[u]

\* A room belongs to one session or to one call that is to make one, and is
\* nobody's and live; no deletion that passed its check is about it.
SoleRoom ==
    /\ OwnRooms /\ SessionRoomsExist
    /\ \A r \in Requests : pc[r] = "createSession" =>
           /\ row[r] \in Live /\ rooms[row[r]].owner = Nobody
           /\ \A s \in DOMAIN sessions : sessions[s].room # row[r]
    /\ \A q, r \in Requests :
           pc[q] = "createSession" /\ pc[r] = "createSession" /\ row[q] = row[r]
               => q = r
=============================================================================
