--------------------------------- MODULE Rooms ---------------------------------
(***************************************************************************)
(* Table rooms, and the calls by which users create and delete rooms of    *)
(* theirs (services/room_service.go under handlers/room_handler.go).       *)
(* Module CustomerSessions adds the rooms made for customers.              *)
(*                                                                         *)
(* DeleteRoom is a transaction of two statements.  PostgreSQL runs it at   *)
(* its default level, READ COMMITTED: each statement sees what is          *)
(* committed when it starts, and a DELETE waits for another transaction's  *)
(* DELETE of the row and then finds nothing to delete.  A step of the      *)
(* model is one statement, the last one with its COMMIT.  Keys are never   *)
(* used twice, so the table is a sequence of rows that are live or not.    *)
(*                                                                         *)
(* Names, passwords and the other columns are left out; entering a room    *)
(* (AuthorizeRoomEntry), reading one and listing them change nothing.      *)
(***************************************************************************)
EXTENDS Naturals, Sequences

CONSTANTS
    Users,          \* user ids, from 1 on in the table users
    Nobody,         \* owner_id 0
    Deletes,        \* calls of DeleteRoom
    Caller,         \* who makes each of them
    MaxRooms,       \* bound: rooms that users create
    MaxFailures     \* bound: failing statements

ASSUME RoomsAssumption ==
    /\ Nobody \notin Users
    /\ Caller \in [Deletes -> Users]
    /\ MaxRooms \in Nat /\ MaxFailures \in Nat

VARIABLES
    rooms,      \* table rooms
    created,    \* rooms that users have created
    deletion,   \* where each deletion is, or what it answered
    target,     \* the room each deletion is about
    failures

roomsVars == <<rooms, created, deletion, target, failures>>

RoomRows == [owner : Users \cup {Nobody}, live : BOOLEAN]
Keys     == DOMAIN rooms
Live     == {k \in Keys : rooms[k].live}
NoKey    == 0
Answers  == {"deleted", "notFound", "denied", "failed"}

RoomsTypeOK ==
    /\ rooms \in Seq(RoomRows)
    /\ created \in 0..MaxRooms
    /\ deletion \in [Deletes -> {"idle", "delete"} \cup Answers]
    /\ target \in [Deletes -> Keys \cup {NoKey}]
    /\ failures \in 0..MaxFailures

RoomsInit ==
    /\ rooms = <<>> /\ created = 0 /\ failures = 0
    /\ deletion = [d \in Deletes |-> "idle"]
    /\ target = [d \in Deletes |-> NoKey]

Failure == failures < MaxFailures /\ failures' = failures + 1

Insert(owner) == rooms' = Append(rooms, [owner |-> owner, live |-> TRUE])

\* CreateRoom: one INSERT, with the caller as the owner.
Create(u) ==
    /\ created < MaxRooms
    /\ created' = created + 1
    /\ Insert(u)
    /\ UNCHANGED <<deletion, target, failures>>

\* Slip: whoever finds the room may delete it.
AnyoneMay(d, k) == TRUE

\* room.OwnerID == user.ID
MayDelete(d, k) == rooms[k].owner = Caller[d]

\* tx.First(&room, roomID) and the owner of what it found; the path may name
\* a room that is gone, or that never was (NoKey).
Check(d) ==
    /\ deletion[d] = "idle"
    /\ \E k \in Keys \cup {NoKey} :
           /\ target' = [target EXCEPT ![d] = k]
           /\ \/ /\ k \in Live
                 /\ deletion' = [deletion EXCEPT ![d] =
                                    IF MayDelete(d, k) THEN "delete" ELSE "denied"]
                 /\ UNCHANGED failures
              \/ /\ k \notin Live
                 /\ deletion' = [deletion EXCEPT ![d] = "notFound"]
                 /\ UNCHANGED failures
              \/ Failure /\ deletion' = [deletion EXCEPT ![d] = "failed"]
    /\ UNCHANGED <<rooms, created>>

\* tx.Delete(&room) and the COMMIT.  No error, and RowsAffected unread, if
\* another transaction was faster.
Delete(d) ==
    /\ deletion[d] = "delete"
    /\ \/ /\ rooms' = [rooms EXCEPT ![target[d]].live = FALSE]
          /\ deletion' = [deletion EXCEPT ![d] = "deleted"]
          /\ UNCHANGED failures
       \/ Failure /\ deletion' = [deletion EXCEPT ![d] = "failed"] /\ UNCHANGED rooms
    /\ UNCHANGED <<created, target>>

RoomsNext ==
    \/ \E u \in Users : Create(u)
    \/ \E d \in Deletes : Check(d) \/ Delete(d)

RoomsSpec == RoomsInit /\ [][RoomsNext]_roomsVars

-----------------------------------------------------------------------------
(* Property.                                                               *)

\* Only its owner ends a room: a room that is gone was deleted by a DeleteRoom
\* (room_service.go:113-132) of the user who created it which was told so, in
\* whatever order the checks and deletions of several calls ran and failed.
GoneByOwner ==
    \A k \in Keys : ~rooms[k].live =>
        \E d \in Deletes : /\ deletion[d] = "deleted" /\ target[d] = k
                           /\ Caller[d] = rooms[k].owner

-----------------------------------------------------------------------------
(* Inductive strengthening, for the proofs of RoomsProofs.                 *)

\* A deletion that has passed its check is about a room of its caller.
DeletionsInv ==
    /\ GoneByOwner
    /\ \A d \in Deletes : deletion[d] = "delete" =>
           target[d] \in Keys /\ rooms[target[d]].owner = Caller[d]
=============================================================================
