------------------------------- MODULE ChatHub -------------------------------
(***************************************************************************)
(* One chat room of handlers/chat_websocket_handler.go.                    *)
(*                                                                         *)
(* Three kinds of goroutine share the room:                                *)
(*   - a handler per connection: HandleWebSocket, then readPump and its    *)
(*     deferred clean-up (variable pc);                                    *)
(*   - a writer per connection: writePump (variable writer);               *)
(*   - the hub: ChatRoom.run, the only reader of the room's three channels *)
(*     and the only writer of room.Clients (variable hubPc).               *)
(* They meet in the bounded channels Register, Unregister, Broadcast and   *)
(* client.Send, and in the Redis hash of on-line users, which outlives the *)
(* process.  A step of the model ends where a goroutine can be preempted   *)
(* with an effect on another one: at a channel operation, at a Redis call, *)
(* at a socket operation.                                                  *)
(*                                                                         *)
(* room.cancel is called nowhere in the program, so the hub's ctx.Done     *)
(* case never fires and is not modelled.                                   *)
(***************************************************************************)
EXTENDS Naturals, SequencesExt

CONSTANTS
    Conns,          \* the connections: one ChatClient, with its own UUID, each
    Users,          \* user ids
    UserOf,         \* the user a connection was authenticated as
    SendCap,        \* capacity of client.Send (256 in the code)
    BroadcastCap,   \* capacity of room.Broadcast (256)
    RegisterCap,    \* capacity of room.Register (16)
    UnregisterCap,  \* capacity of room.Unregister (16)
    MaxFrames,      \* bound: frames the peers send
    Mishaps,        \* the environment's faults: "redis", "expire", "restart",
                    \* and "lost" for peers that go away
    MaxMishaps,     \* bound: how many of the first three happen
    NoConn          \* no connection

ASSUME HubAssumption ==
    /\ UserOf \in [Conns -> Users]
    /\ NoConn \notin Conns
    /\ SendCap \in Nat \ {0} /\ BroadcastCap \in Nat \ {0}
    /\ RegisterCap \in Nat \ {0} /\ UnregisterCap \in Nat \ {0}
    /\ MaxFrames \in Nat /\ MaxMishaps \in Nat

VARIABLES
    pc,         \* where the handler goroutine of each connection is
    frames,     \* frames read so far
    writer,     \* where the writePump goroutine of each connection is
    conn,       \* the socket: working, peer lost, or closed by this process
    cancelled,  \* client.ctx
    send,       \* how many messages wait in client.Send
    sendClosed, \* close(client.Send) was called
    register,   \* room.Register
    unregister, \* room.Unregister
    broadcast,  \* room.Broadcast
    clients,    \* room.Clients
    hubPc,      \* where the hub goroutine is
    hubClient,  \* the client the hub is dealing with
    todo,       \* the clients of the snapshot the hub has not served yet
    online,     \* Redis hash chat:room:<id>:online_users
    stale,      \* history: the users a fault may have listed or unlisted wrongly
    mishaps,    \* faults so far
    restarts    \* those of them that were restarts

handlerVars == <<pc, frames>>
socketVars  == <<writer, conn, cancelled>>
sendVars    == <<send, sendClosed>>
hubVars     == <<clients, hubPc, hubClient, todo>>
storeVars   == <<online, stale, mishaps, restarts>>
vars == <<handlerVars, socketVars, sendVars, register, unregister, broadcast,
          hubVars, storeVars>>

-----------------------------------------------------------------------------
(* Types.                                                                  *)

\* A handler passes through these points in this order; "fetch" up to
\* "startPumps" is HandleWebSocket, "read" to "typing" the loop of readPump,
\* and "unregister" to "systemLeft" its deferred function.
HandlerPoints ==
    {"idle", "register", "fetch", "init", "joined", "systemJoined",
     "startPumps", "read", "persist", "post", "typing",
     "unregister", "closeConn", "left", "systemLeft", "done", "panicked"}

HubPoints == {"off", "select", "add", "drop", "fanout", "kick"}

Kinds == {"user_joined", "system_joined", "message", "typing",
          "user_left", "system_left"}

Message(kind, c) == [kind |-> kind, from |-> c]
RoomMessages     == [kind : Kinds, from : Conns]

\* BroadcastMessage.ExceptIDs
ExceptIDs(m) == IF m.kind \in {"user_joined", "typing"} THEN {m.from} ELSE {}

UsersOf(C) == {UserOf[c] : c \in C}

TypeOK ==
    /\ pc \in [Conns -> HandlerPoints]
    /\ frames \in 0..MaxFrames
    /\ writer \in [Conns -> {"off", "running", "exited"}]
    /\ conn \in [Conns -> {"open", "lost", "closed"}]
    /\ cancelled \in [Conns -> BOOLEAN]
    /\ send \in [Conns -> 0..SendCap]
    /\ sendClosed \in [Conns -> BOOLEAN]
    /\ register \in Seq(Conns) /\ Len(register) <= RegisterCap
    /\ unregister \in Seq(Conns) /\ Len(unregister) <= UnregisterCap
    /\ broadcast \in Seq(RoomMessages) /\ Len(broadcast) <= BroadcastCap
    /\ clients \in SUBSET Conns
    /\ hubPc \in HubPoints
    /\ hubClient \in Conns \cup {NoConn}
    /\ todo \in SUBSET Conns
    /\ online \in SUBSET Users /\ stale \in SUBSET Users
    /\ mishaps \in 0..MaxMishaps /\ restarts \in 0..mishaps

-----------------------------------------------------------------------------
\* A process starts with what an earlier one may have left in Redis: nothing
\* clears the list.
Init ==
    /\ pc = [c \in Conns |-> "idle"]
    /\ frames = 0
    /\ writer = [c \in Conns |-> "off"]
    /\ conn = [c \in Conns |-> "open"]
    /\ cancelled = [c \in Conns |-> FALSE]
    /\ send = [c \in Conns |-> 0]
    /\ sendClosed = [c \in Conns |-> FALSE]
    /\ register = <<>> /\ unregister = <<>> /\ broadcast = <<>>
    /\ clients = {} /\ todo = {}
    /\ hubPc = "off" /\ hubClient = NoConn
    /\ online \in SUBSET Users /\ stale = online
    /\ mishaps = 0 /\ restarts = 0

\* One fault of the given kind, within the budget.
Mishap(kind) ==
    /\ kind \in Mishaps
    /\ mishaps < MaxMishaps
    /\ mishaps' = mishaps + 1

Goto(c, point) == pc' = [pc EXCEPT ![c] = point]

-----------------------------------------------------------------------------
(* The handler goroutine: HandleWebSocket.                                 *)

\* Upgrade, a fresh ChatClient, GetOrCreateRoom: the first connection creates
\* the room and starts its hub.
Connect(c) ==
    /\ pc[c] = "idle"
    /\ Goto(c, "register")
    /\ hubPc' = IF hubPc = "off" THEN "select" ELSE hubPc
    /\ UNCHANGED <<frames, socketVars, sendVars, register, unregister,
                   broadcast, clients, hubClient, todo, storeVars>>

\* room.Register <- client
SendRegister(c) ==
    /\ pc[c] = "register"
    /\ Len(register) < RegisterCap
    /\ register' = Append(register, c)
    /\ Goto(c, "fetch")
    /\ UNCHANGED <<frames, socketVars, sendVars, unregister, broadcast,
                   hubVars, storeVars>>

\* sendInitData: HGetAll of the on-line list; after an error the list is empty.
\* It goes into the init message, whose contents are left out.
FetchOnline(c) ==
    /\ pc[c] = "fetch"
    /\ Goto(c, "init")
    /\ UNCHANGED <<frames, socketVars, sendVars, register, unregister,
                   broadcast, hubVars, storeVars>>

\* client.Send has a free slot.
HasRoom(c) == send[c] < SendCap

\* sendInitData: client.Send <- initMsg.  Nothing drains client.Send yet, so
\* the handler blocks while it is full.
SendInit(c) ==
    /\ pc[c] = "init"
    /\ ~sendClosed[c]
    /\ HasRoom(c)
    /\ send' = [send EXCEPT ![c] = @ + 1]
    /\ Goto(c, "joined")
    /\ UNCHANGED <<frames, socketVars, sendClosed, register,
                   unregister, broadcast, hubVars, storeVars>>

\* The same send when the hub has closed client.Send meanwhile: the handler
\* panics, echo's Recover middleware ends it, no deferred clean-up exists yet.
SendInitPanics(c) ==
    /\ pc[c] = "init"
    /\ sendClosed[c]
    /\ Goto(c, "panicked")
    /\ UNCHANGED <<frames, socketVars, sendVars, register, unregister,
                   broadcast, hubVars, storeVars>>

\* room.Broadcast <- message, then on to the next point of the handler.
Post(c, kind, next) ==
    /\ Len(broadcast) < BroadcastCap
    /\ broadcast' = Append(broadcast, Message(kind, c))
    /\ Goto(c, next)
    /\ UNCHANGED <<frames, socketVars, sendVars, register, unregister,
                   hubVars, storeVars>>

BroadcastUserJoined(c) ==
    pc[c] = "joined" /\ Post(c, "user_joined", "systemJoined")

SystemMessageJoined(c) ==
    pc[c] = "systemJoined" /\ Post(c, "system_joined", "startPumps")

\* go h.writePump(client); h.readPump(client)
StartPumps(c) ==
    /\ pc[c] = "startPumps"
    /\ writer' = [writer EXCEPT ![c] = "running"]
    /\ Goto(c, "read")
    /\ UNCHANGED <<frames, conn, cancelled, sendVars, register,
                   unregister, broadcast, hubVars, storeVars>>

-----------------------------------------------------------------------------
(* The handler goroutine: readPump and its deferred clean-up.              *)

\* A well-formed "message" frame.  Frames already buffered are still read
\* after the peer is gone or the socket is closed.
ReadMessage(c) ==
    /\ pc[c] = "read"
    /\ frames < MaxFrames
    /\ frames' = frames + 1
    /\ Goto(c, "persist")
    /\ UNCHANGED <<socketVars, sendVars, register, unregister,
                   broadcast, hubVars, storeVars>>

\* The offer to the handler's database queue, which never blocks; what the
\* queue does with it is module MessageStore.
Persist(c) ==
    /\ pc[c] = "persist"
    /\ Goto(c, "post")
    /\ UNCHANGED <<frames, socketVars, sendVars, register, unregister,
                   broadcast, hubVars, storeVars>>

PostMessage(c) == pc[c] = "post" /\ Post(c, "message", "read")

ReadTyping(c) ==
    /\ pc[c] = "read"
    /\ frames < MaxFrames
    /\ frames' = frames + 1
    /\ Goto(c, "typing")
    /\ UNCHANGED <<socketVars, sendVars, register, unregister,
                   broadcast, hubVars, storeVars>>

PostTyping(c) == pc[c] = "typing" /\ Post(c, "typing", "read")

\* ReadJSON fails (the peer left, the frame is no JSON, 60s without a pong,
\* the socket was closed here); the deferred function cancels the context.
ReadError(c) ==
    /\ pc[c] = "read"
    /\ cancelled' = [cancelled EXCEPT ![c] = TRUE]
    /\ Goto(c, "unregister")
    /\ UNCHANGED <<frames, writer, conn, sendVars, register,
                   unregister, broadcast, hubVars, storeVars>>

\* Slip: the client is looked up in room.Clients again, where an evicted one is
\* not to be found (nil).
SendUnregisterFound(c) ==
    /\ pc[c] = "unregister"
    /\ Len(unregister) < UnregisterCap
    /\ unregister' = Append(unregister, IF c \in clients THEN c ELSE NoConn)
    /\ Goto(c, "closeConn")
    /\ UNCHANGED <<frames, socketVars, sendVars, register, broadcast,
                   hubVars, storeVars>>

\* client.Room.Unregister <- client
SendUnregister(c) ==
    /\ pc[c] = "unregister"
    /\ Len(unregister) < UnregisterCap
    /\ unregister' = Append(unregister, c)
    /\ Goto(c, "closeConn")
    /\ UNCHANGED <<frames, socketVars, sendVars, register, broadcast,
                   hubVars, storeVars>>

\* client.Conn.Close()
CloseConn(c) ==
    /\ pc[c] = "closeConn"
    /\ conn' = [conn EXCEPT ![c] = "closed"]
    /\ Goto(c, "left")
    /\ UNCHANGED <<frames, writer, cancelled, sendVars, register,
                   unregister, broadcast, hubVars, storeVars>>

BroadcastUserLeft(c) ==
    pc[c] = "left" /\ Post(c, "user_left", "systemLeft")

SystemMessageLeft(c) ==
    pc[c] = "systemLeft" /\ Post(c, "system_left", "done")

-----------------------------------------------------------------------------
(* The writer goroutine: writePump.  Its select may take any ready case.   *)

\* Slip: the deferred function of writePump only stops the ticker.
WriterExitsOpen(c) ==
    /\ writer' = [writer EXCEPT ![c] = "exited"]
    /\ UNCHANGED <<handlerVars, conn, cancelled, sendClosed, register,
                   unregister, broadcast, hubVars, storeVars>>

\* The deferred function of writePump: every exit closes the socket.
WriterExits(c) ==
    /\ writer' = [writer EXCEPT ![c] = "exited"]
    /\ conn' = [conn EXCEPT ![c] = "closed"]
    /\ UNCHANGED <<handlerVars, cancelled, sendClosed, register, unregister,
                   broadcast, hubVars, storeVars>>

\* <-client.ctx.Done()
WriterCancelled(c) ==
    /\ writer[c] = "running"
    /\ cancelled[c]
    /\ WriterExits(c)
    /\ UNCHANGED send

\* WriteJSON succeeds; a write to a lost peer may still be buffered.
WriterSends(c) ==
    /\ writer[c] = "running"
    /\ send[c] > 0
    /\ conn[c] # "closed"
    /\ send' = [send EXCEPT ![c] = @ - 1]
    /\ UNCHANGED <<handlerVars, socketVars, sendClosed, register, unregister,
                   broadcast, hubVars, storeVars>>

\* WriteJSON fails or misses its 10s deadline; the message is gone.
WriterWriteFails(c) ==
    /\ writer[c] = "running"
    /\ send[c] > 0
    /\ send' = [send EXCEPT ![c] = @ - 1]
    /\ WriterExits(c)

\* The channel is closed and drained: a close frame, then the end.
WriterSeesClosed(c) ==
    /\ writer[c] = "running"
    /\ send[c] = 0
    /\ sendClosed[c]
    /\ WriterExits(c)
    /\ UNCHANGED send

\* The ping of every 54s cannot be written.
WriterPingFails(c) ==
    /\ writer[c] = "running"
    /\ WriterExits(c)
    /\ UNCHANGED send

-----------------------------------------------------------------------------
(* The hub goroutine: ChatRoom.run.                                        *)

\* case client := <-room.Register
HubRegister ==
    /\ hubPc = "select"
    /\ register # <<>>
    /\ register' = Tail(register)
    /\ hubClient' = Head(register)
    /\ clients' = clients \cup {Head(register)}
    /\ hubPc' = "add"
    /\ UNCHANGED <<handlerVars, socketVars, sendVars, unregister, broadcast,
                   todo, storeVars>>

BackToSelect ==
    /\ hubPc' = "select"
    /\ hubClient' = NoConn
    /\ UNCHANGED <<handlerVars, socketVars, sendVars, register, unregister,
                   broadcast, clients, todo, restarts>>

\* addUserToRedis: HSet; its error is logged and forgotten.
HubAddOnline ==
    /\ hubPc = "add"
    /\ \/ /\ online' = online \cup {UserOf[hubClient]}
          /\ stale' = stale \ {UserOf[hubClient]}
          /\ mishaps' = mishaps
       \/ /\ Mishap("redis")
          /\ stale' = stale \cup {UserOf[hubClient]}
          /\ UNCHANGED online
    /\ BackToSelect

\* case client := <-room.Unregister: only a member is deleted and has its
\* Send channel closed, so a second request for it is harmless.
HubUnregister ==
    LET c == Head(unregister) IN
    /\ hubPc = "select"
    /\ unregister # <<>>
    /\ unregister' = Tail(unregister)
    /\ hubClient' = c
    /\ clients' = clients \ {c}
    /\ sendClosed' = IF c \in clients THEN [sendClosed EXCEPT ![c] = TRUE]
                     ELSE sendClosed
    /\ hubPc' = "drop"
    /\ UNCHANGED <<handlerVars, socketVars, send, register, broadcast, todo,
                   storeVars>>

\* Slip: removeUserFromRedis does not look at the other connections.
HasNoOtherConnection(c) == FALSE

\* removeUserFromRedis: another connection of the same user keeps it listed.
HasOtherConnection(c) == \E d \in clients \ {c} : UserOf[d] = UserOf[c]

HubDropOnline ==
    /\ hubPc = "drop"
    /\ \/ HasOtherConnection(hubClient) /\ UNCHANGED <<online, stale, mishaps>>
       \/ /\ ~HasOtherConnection(hubClient)
          /\ online' = online \ {UserOf[hubClient]}
          /\ stale' = stale \ {UserOf[hubClient]}
          /\ mishaps' = mishaps
       \/ /\ ~HasOtherConnection(hubClient)
          /\ Mishap("redis")
          /\ stale' = stale \cup {UserOf[hubClient]}
          /\ UNCHANGED online
    /\ BackToSelect

\* The hub goes on with the rest of the snapshot, or back to its select.
ContinueWith(rest) ==
    /\ todo' = rest
    /\ hubPc' = IF rest = {} THEN "select" ELSE "fanout"
    /\ hubClient' = NoConn

\* case message := <-room.Broadcast: the snapshot of the members.
HubReceive ==
    /\ hubPc = "select"
    /\ broadcast # <<>>
    /\ broadcast' = Tail(broadcast)
    /\ ContinueWith(clients \ ExceptIDs(Head(broadcast)))
    /\ UNCHANGED <<handlerVars, socketVars, sendVars, register, unregister,
                   clients, storeVars>>

\* case client.Send <- message.Data, for the next client of the snapshot (in
\* the order of a Go map: any).
HubDeliver(c) ==
    /\ hubPc = "fanout"
    /\ c \in todo
    /\ HasRoom(c)
    /\ send' = [send EXCEPT ![c] = @ + 1]
    /\ ContinueWith(todo \ {c})
    /\ UNCHANGED <<handlerVars, socketVars, sendClosed, register, unregister,
                   broadcast, clients, storeVars>>

\* Slip: a client whose buffer is full misses the message.
HubBufferFullSkips(c) ==
    /\ hubPc = "fanout"
    /\ c \in todo
    /\ ~HasRoom(c)
    /\ ContinueWith(todo \ {c})
    /\ UNCHANGED <<handlerVars, socketVars, sendVars, register, unregister,
                   broadcast, clients, storeVars>>

\* default: the buffer is full, the client is to be disconnected.
HubBufferFull(c) ==
    /\ hubPc = "fanout"
    /\ c \in todo
    /\ ~HasRoom(c)
    /\ hubPc' = "kick"
    /\ hubClient' = c
    /\ UNCHANGED <<handlerVars, socketVars, sendVars, register, unregister,
                   broadcast, clients, todo, storeVars>>

\* Slip: the hub closes Send on the spot and leaves the member in the room.
HubKickCloses ==
    /\ hubPc = "kick"
    /\ sendClosed' = [sendClosed EXCEPT ![hubClient] = TRUE]
    /\ ContinueWith(todo \ {hubClient})
    /\ UNCHANGED <<handlerVars, socketVars, send, register, unregister,
                   broadcast, clients, storeVars>>

\* Slip: the hub gives up on an eviction it cannot queue.
HubKickGivesUp ==
    /\ hubPc = "kick"
    /\ unregister' = IF Len(unregister) < UnregisterCap
                     THEN Append(unregister, hubClient) ELSE unregister
    /\ ContinueWith(todo \ {hubClient})
    /\ UNCHANGED <<handlerVars, socketVars, sendVars, register, broadcast,
                   clients, storeVars>>

\* room.Unregister <- client, by the hub, which is the channel's only reader.
HubKick ==
    /\ hubPc = "kick"
    /\ Len(unregister) < UnregisterCap
    /\ unregister' = Append(unregister, hubClient)
    /\ ContinueWith(todo \ {hubClient})
    /\ UNCHANGED <<handlerVars, socketVars, sendVars, register, broadcast,
                   clients, storeVars>>

-----------------------------------------------------------------------------
(* The environment.                                                        *)

\* The peer of a connection is gone.  The socket is not used before the pumps
\* run, so an earlier loss is one that happens then.  To safety it adds nothing:
\* reads and writes may fail anyway, from now on they do (ReadFails).
PeerLost(c) ==
    /\ "lost" \in Mishaps
    /\ conn[c] = "open"
    /\ pc[c] = "read"
    /\ conn' = [conn EXCEPT ![c] = "lost"]
    /\ UNCHANGED <<handlerVars, writer, cancelled, sendVars, register,
                   unregister, broadcast, hubVars, storeVars>>

\* The on-line list expires 24 hours after the last registration, which alone
\* renews its TTL (line 181): members who stay longer are not on it any more.
ExpireOnline ==
    /\ online # {}
    /\ Mishap("expire")
    /\ online' = {}
    /\ stale' = UsersOf(clients)
    /\ UNCHANGED <<handlerVars, socketVars, sendVars, register, unregister,
                   broadcast, hubVars, restarts>>

\* The process dies and starts again: its goroutines and channels are gone,
\* the Redis hash is not.  A connection is not resumed; a new one is made.
Restart ==
    /\ Mishap("restart")
    /\ restarts' = restarts + 1
    /\ pc' = [c \in Conns |-> IF pc[c] = "idle" THEN "idle" ELSE "done"]
    /\ conn' = [c \in Conns |-> IF pc[c] = "idle" THEN "open" ELSE "closed"]
    /\ writer' = [c \in Conns |->
                    IF writer[c] = "running" THEN "exited" ELSE writer[c]]
    /\ send' = [c \in Conns |-> 0]
    /\ sendClosed' = [c \in Conns |-> FALSE]
    /\ register' = <<>> /\ unregister' = <<>> /\ broadcast' = <<>>
    /\ clients' = {} /\ todo' = {}
    /\ hubPc' = "off" /\ hubClient' = NoConn
    /\ stale' = online
    /\ UNCHANGED <<frames, cancelled, online>>

-----------------------------------------------------------------------------
(* The specification.                                                      *)

\* What the handler goroutine does on its own; the peer decides on frames.
HandlerStep(c) ==
    \/ SendRegister(c) \/ FetchOnline(c) \/ SendInit(c) \/ SendInitPanics(c)
    \/ BroadcastUserJoined(c) \/ SystemMessageJoined(c) \/ StartPumps(c)
    \/ Persist(c) \/ PostMessage(c) \/ PostTyping(c)
    \/ SendUnregister(c) \/ CloseConn(c)
    \/ BroadcastUserLeft(c) \/ SystemMessageLeft(c)

\* What the peer of a connection does, or fails to do in time.
PeerStep(c) ==
    \/ Connect(c) \/ ReadMessage(c) \/ ReadTyping(c) \/ ReadError(c)
    \/ PeerLost(c)

WriterStep(c) ==
    \/ WriterCancelled(c) \/ WriterSends(c) \/ WriterWriteFails(c)
    \/ WriterSeesClosed(c)

HubStep ==
    \/ HubRegister \/ HubAddOnline \/ HubUnregister \/ HubDropOnline
    \/ HubReceive \/ HubKick
    \/ \E c \in Conns : HubDeliver(c) \/ HubBufferFull(c)

Next ==
    \/ \E c \in Conns : HandlerStep(c) \/ PeerStep(c) \/ WriterStep(c)
                        \/ WriterPingFails(c)
    \/ HubStep
    \/ ExpireOnline
    \/ Restart

Spec == Init /\ [][Next]_vars

\* A read fails once the socket is lost or closed, at the latest at its 60s
\* deadline; on a working socket it need not.
ReadFails(c) == conn[c] # "open" /\ ReadError(c)

\* The Go scheduler runs every goroutine that can run, and a goroutine that
\* waits on a channel is served in its turn.  Which case a select takes is
\* random, but the traffic of the model is bounded (MaxFrames), so weak
\* fairness of each goroutine as a whole is all that is assumed.
Fairness ==
    /\ \A c \in Conns : /\ WF_vars(HandlerStep(c) \/ ReadFails(c))
                        /\ WF_vars(WriterStep(c))
    /\ WF_vars(HubStep)

FairSpec == Spec /\ Fairness

-----------------------------------------------------------------------------
(* Properties.                                                             *)

\* The hub never sends on a closed channel nor closes one twice, which would
\* panic a goroutine nobody recovers: a member's Send is open, and so is that
\* of every client the fan-out (lines 140-151) still has before it, although
\* the hub queues evictions for itself in the middle of the loop.
NoHubPanic ==
    /\ \A c \in clients : ~sendClosed[c]
    /\ hubPc \in {"fanout", "kick"} => todo \subseteq clients

\* Whenever the hub is not in the middle of addUserToRedis or
\* removeUserFromRedis (lines 157-207), the Redis list is the set of users of
\* the room's members, however often and in whatever order connections of one
\* user come, go and are evicted.  A Redis error, an expiry or a restart makes
\* it wrong about the users it hits only, and about each of them no longer
\* than until the user is next written to it or taken off it.
PresenceMatchesClients ==
    hubPc \notin {"add", "drop"} => online \ stale = UsersOf(clients) \ stale

\* Where restarts are all that goes wrong, nobody who is connected is missing
\* from the list, although it still names users of earlier processes: one of
\* them who is back with two connections is on it until the second has left
\* (line 197).
ConnectedAreListed ==
    mishaps = restarts /\ hubPc \notin {"add", "drop"} =>
        UsersOf(clients) \subseteq online

\* A handler that panicked in sendInitData never runs readPump's clean-up
\* (line 312), so nobody else would unregister it: it must already be out of
\* the room, and not be queued to enter it again.
PanickedIsEvicted ==
    \A c \in Conns :
        pc[c] = "panicked" => c \notin clients /\ c \notin ToSet(register)

\* The hub waits at line 149 for room in the channel only it empties.
Wedged == hubPc = "kick" /\ Len(unregister) = UnregisterCap

\* A room whose hub waits for itself never serves anyone again: no handler,
\* writer or peer can free it, only a restart of the process.
WedgeEndsOnlyByRestart == [][Wedged => Wedged' \/ Restart]_vars

\* A client that was evicted for being slow, or whose socket is gone, leaves
\* for good: both its goroutines end and the socket is closed, whatever the
\* hub and the other connections are doing.  A wedged hub is all that can
\* keep it from doing so.
EveryConnectionWindsDown ==
    \A c \in Conns :
        pc[c] = "read" /\ (sendClosed[c] \/ conn[c] # "open") ~>
            \/ pc[c] = "done" /\ writer[c] = "exited" /\ conn[c] = "closed"
            \/ Wedged

\* A member that could not be given a message is out of the room sooner or
\* later, although its eviction (line 149) waits among other requests that
\* the hub may serve first.
SlowClientLeaves ==
    \A c \in Conns : hubPc = "kick" /\ hubClient = c ~> c \notin clients \/ Wedged

\* A handler waits for room in a Send that nobody drains yet (line 393): the
\* next message of the room evicts its client, which ends the wait, even if
\* by a panic.
BlockedInitIsFreed ==
    \A c \in Conns :
        pc[c] = "init" /\ c \in clients /\ ~HasRoom(c) /\ broadcast # <<>> ~>
            pc[c] # "init" \/ Wedged

(* Inductive strengthenings, for the proofs of ChatHubProofs.              *)

\* While the hub deals with a client, there is one.
HubTyped == TypeOK /\ (hubPc \in {"add", "drop", "kick"} => hubClient \in Conns)

\* A connection is queued in Register at most once and before it is a member;
\* its Send is closed only after that.
MembershipInv ==
    /\ IsInjective(register)
    /\ \A c \in ToSet(register) : /\ pc[c] \notin {"idle", "register"}
                                  /\ c \notin clients
                                  /\ ~sendClosed[c]
    /\ \A c \in clients : pc[c] \notin {"idle", "register"}
    /\ \A c \in Conns : sendClosed[c] => pc[c] \notin {"idle", "register"}
    /\ \A c \in Conns : pc[c] = "panicked" => sendClosed[c]
    /\ NoHubPanic

\* What the Redis list is in the middle of an update of the hub, of the users
\* no fault has hit: the members', the client that is dealt with excepted.
PresenceInv ==
    /\ hubPc \notin {"add", "drop"} => online \ stale = UsersOf(clients) \ stale
    /\ hubPc = "add" =>
            /\ hubClient \in clients
            /\ UsersOf(clients) \ stale \subseteq online \cup {UserOf[hubClient]}
            /\ online \ stale \subseteq UsersOf(clients)
    /\ hubPc = "drop" =>
            /\ hubClient \notin clients
            /\ UsersOf(clients) \ stale \subseteq online
            /\ online \ stale \subseteq UsersOf(clients) \cup {UserOf[hubClient]}

\* The same after restarts, which leave users on the list.
ListedInv ==
    mishaps = restarts =>
        /\ hubPc # "add" => UsersOf(clients) \subseteq online
        /\ hubPc = "add" =>
                UsersOf(clients) \subseteq online \cup {UserOf[hubClient]}
        /\ hubPc = "drop" => hubClient \notin clients

(* What the documents of the repository say and the code does not keep.    *)

\* md/chat_webscoket.md:135: a full send queue disconnects its client so that
\* it does not drag the system down; the hub (line 149) is never stuck on it.
HubNeverStuck == ~Wedged

\* md/chat_webscoket.md:353: the deferred clean-up releases the resources of a
\* connection; once the hub (lines 113-130) has no more requests, no member
\* of the room is a connection whose handler has ended.
NoGhostClient ==
    hubPc = "select" /\ register = <<>> /\ unregister = <<>> =>
        \A c \in clients : pc[c] # "done"
=============================================================================
