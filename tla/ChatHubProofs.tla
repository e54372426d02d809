---------------------------- MODULE ChatHubProofs ----------------------------
(* Proofs about ChatHub, for any connections, users, capacities and faults. *)
EXTENDS ChatHub, SequenceTheorems, TLAPS

-----------------------------------------------------------------------------
(* The channels.                                                           *)

\* What a send adds to a channel.
LEMMA AppendEntries ==
    ASSUME NEW S, NEW s \in Seq(S), NEW e \in S
    PROVE  /\ Append(s, e) \in Seq(S)
           /\ Len(Append(s, e)) = Len(s) + 1
           /\ ToSet(Append(s, e)) = ToSet(s) \cup {e}
           /\ IsInjective(s) /\ e \notin ToSet(s) => IsInjective(Append(s, e))
<1> DEFINE t == Append(s, e)
<1>1. /\ t \in Seq(S) /\ Len(t) = Len(s) + 1 /\ t[Len(s) + 1] = e
      /\ \A i \in 1..Len(s) : t[i] = s[i]
  BY AppendProperties
<1>2. DOMAIN t = 1..(Len(s) + 1) /\ DOMAIN s = 1..Len(s) /\ Len(s) \in Nat
  BY <1>1, LenProperties
<1>3. ToSet(t) = ToSet(s) \cup {e}
  <2>1. ToSet(t) \subseteq ToSet(s) \cup {e}
    BY <1>1, <1>2 DEF ToSet
  <2>2. ToSet(s) \cup {e} \subseteq ToSet(t)
    <3>1. ASSUME NEW i \in 1..Len(s) PROVE s[i] \in ToSet(t)
      <4>1. i \in DOMAIN t /\ t[i] = s[i]
        BY <1>1, <1>2
      <4> QED BY <4>1 DEF ToSet
    <3>2. e \in ToSet(t)
      BY <1>1, <1>2 DEF ToSet
    <3> QED BY <1>2, <3>1, <3>2 DEF ToSet
  <2> QED BY <2>1, <2>2
<1>4. ASSUME IsInjective(s), e \notin ToSet(s) PROVE IsInjective(t)
  <2>1. SUFFICES ASSUME NEW i \in 1..(Len(s) + 1), NEW j \in 1..(Len(s) + 1),
                        t[i] = t[j]
                 PROVE  i = j
    BY <1>2 DEF IsInjective
  <2>2. \A k \in 1..Len(s) : s[k] # e
    BY <1>2, <1>4 DEF ToSet
  <2>3. CASE i \in 1..Len(s) /\ j \in 1..Len(s)
    BY <1>1, <1>2, <1>4, <2>1, <2>3 DEF IsInjective
  <2>4. CASE i = Len(s) + 1 \/ j = Len(s) + 1
    BY <1>1, <1>2, <2>1, <2>2, <2>4
  <2> QED BY <1>2, <2>3, <2>4
<1> QED BY <1>1, <1>3, <1>4

\* What a receive takes from a channel.
LEMMA TailEntries ==
    ASSUME NEW S, NEW s \in Seq(S), s # <<>>
    PROVE  /\ Head(s) \in S /\ Head(s) \in ToSet(s)
           /\ Tail(s) \in Seq(S)
           /\ Len(Tail(s)) = Len(s) - 1
           /\ ToSet(Tail(s)) \subseteq ToSet(s)
           /\ IsInjective(s) =>
                  IsInjective(Tail(s)) /\ Head(s) \notin ToSet(Tail(s))
<1> DEFINE t == Tail(s)
<1>1. /\ Head(s) \in S /\ t \in Seq(S) /\ Len(t) = Len(s) - 1
      /\ \A i \in 1..Len(t) : t[i] = s[i + 1]
  BY HeadTailProperties
<1>2. /\ DOMAIN t = 1..Len(t) /\ DOMAIN s = 1..Len(s)
      /\ Len(s) \in Nat \ {0} /\ Head(s) = s[1]
  BY <1>1, LenProperties, EmptySeq
<1>3. \A i \in DOMAIN t : i + 1 \in DOMAIN s /\ t[i] = s[i + 1]
  BY <1>1, <1>2
<1>4. Head(s) \in ToSet(s)
  BY <1>2 DEF ToSet
<1>5. ToSet(t) \subseteq ToSet(s)
  BY <1>3 DEF ToSet
<1>6. ASSUME IsInjective(s) PROVE IsInjective(t) /\ Head(s) \notin ToSet(t)
  <2>1. IsInjective(t)
    BY <1>2, <1>3, <1>6 DEF IsInjective
  <2>2. ASSUME NEW i \in DOMAIN t PROVE t[i] # Head(s)
    BY <1>2, <1>3, <1>6 DEF IsInjective
  <2> QED BY <2>1, <2>2 DEF ToSet
<1> QED BY <1>1, <1>4, <1>5, <1>6

\* The empty channels of a new room.
LEMMA EmptyEntries ==
    /\ \A S : <<>> \in Seq(S)
    /\ Len(<<>>) = 0 /\ ToSet(<<>>) = {} /\ IsInjective(<<>>)
BY EmptySeq DEF ToSet, IsInjective
-----------------------------------------------------------------------------
(* Types.                                                                  *)

\* The types of the messages the handlers post.
LEMMA PostedMessage ==
    ASSUME NEW c \in Conns
    PROVE  \A k \in {"user_joined", "system_joined", "message", "typing",
                     "user_left", "system_left"} :
               Message(k, c) \in RoomMessages
BY DEF Message, RoomMessages, Kinds

\* One message more, or one less, in a client.Send.
LEMMA OneMoreWaits ==
    ASSUME NEW f \in [Conns -> 0..SendCap], NEW c \in Conns, f[c] < SendCap
    PROVE  [f EXCEPT ![c] = @ + 1] \in [Conns -> 0..SendCap]
BY HubAssumption

LEMMA OneLessWaits ==
    ASSUME NEW f \in [Conns -> 0..SendCap], NEW c \in Conns, f[c] > 0
    PROVE  [f EXCEPT ![c] = @ - 1] \in [Conns -> 0..SendCap]
BY HubAssumption

LEMMA InitTyped == Init => HubTyped
BY EmptyEntries, HubAssumption DEF Init, HubTyped, TypeOK, HandlerPoints, HubPoints

LEMMA StepTyped == HubTyped /\ [Next]_vars => HubTyped'
<1> SUFFICES ASSUME HubTyped, [Next]_vars PROVE HubTyped'
  OBVIOUS
<1>0. send \in [Conns -> 0..SendCap]
  BY DEF HubTyped, TypeOK
<1>a. ASSUME NEW c \in Conns, HasRoom(c), send' = [send EXCEPT ![c] = @ + 1]
      PROVE  send' \in [Conns -> 0..SendCap]
  BY <1>0, <1>a, OneMoreWaits DEF HasRoom
<1>b. ASSUME NEW c \in Conns, send[c] > 0, send' = [send EXCEPT ![c] = @ - 1]
      PROVE  send' \in [Conns -> 0..SendCap]
  BY <1>0, <1>b, OneLessWaits
<1>c. ASSUME NEW c \in Conns, WriterSends(c) \/ WriterWriteFails(c)
      PROVE  send' \in [Conns -> 0..SendCap]
  BY <1>b, <1>c DEF WriterSends, WriterWriteFails
<1>d. ASSUME NEW c \in Conns, SendInit(c) \/ HubDeliver(c)
      PROVE  send' \in [Conns -> 0..SendCap]
  BY <1>a, <1>d DEF SendInit, HubDeliver
<1> USE HubAssumption DEF handlerVars, socketVars, sendVars, hubVars, storeVars,
        vars, HubTyped, TypeOK, HandlerPoints, HubPoints, Goto, Mishap
<1>1. ASSUME NEW c \in Conns, SendRegister(c) PROVE HubTyped'
  <2>1. pc' \in [Conns -> HandlerPoints]
    BY <1>1 DEF SendRegister
  <2>2. register' \in Seq(Conns) /\ Len(register') <= RegisterCap
    BY <1>1, AppendEntries DEF SendRegister
  <2> QED BY <1>1, <2>1, <2>2 DEF SendRegister
<1>2. ASSUME NEW c \in Conns, FetchOnline(c) PROVE HubTyped'
  <2>1. mishaps' \in 0..MaxMishaps
    BY <1>2 DEF FetchOnline
  <2>2. pc' \in [Conns -> HandlerPoints]
    BY <1>2 DEF FetchOnline
  <2> QED BY <1>2, <2>1, <2>2 DEF FetchOnline
<1>3. ASSUME NEW c \in Conns, SendInit(c) PROVE HubTyped'
  <2>1. pc' \in [Conns -> HandlerPoints]
    BY <1>3 DEF SendInit
  <2>2. send' \in [Conns -> 0..SendCap]
    BY <1>3, <1>d
  <2> QED BY <1>3, <2>1, <2>2 DEF SendInit
<1>4. ASSUME NEW c \in Conns, SendInitPanics(c) PROVE HubTyped'
  BY <1>4 DEF SendInitPanics
<1>5. ASSUME NEW c \in Conns, BroadcastUserJoined(c) PROVE HubTyped'
  <2>1. pc' \in [Conns -> HandlerPoints]
    BY <1>5 DEF BroadcastUserJoined, Post
  <2>2. broadcast' \in Seq(RoomMessages) /\ Len(broadcast') <= BroadcastCap
    BY <1>5, PostedMessage, AppendEntries DEF BroadcastUserJoined, Post
  <2> QED BY <1>5, <2>1, <2>2 DEF BroadcastUserJoined, Post
<1>6. ASSUME NEW c \in Conns, SystemMessageJoined(c) PROVE HubTyped'
  <2>1. pc' \in [Conns -> HandlerPoints]
    BY <1>6 DEF SystemMessageJoined, Post
  <2>2. broadcast' \in Seq(RoomMessages) /\ Len(broadcast') <= BroadcastCap
    BY <1>6, PostedMessage, AppendEntries DEF SystemMessageJoined, Post
  <2> QED BY <1>6, <2>1, <2>2 DEF SystemMessageJoined, Post
<1>7. ASSUME NEW c \in Conns, StartPumps(c) PROVE HubTyped'
  BY <1>7 DEF StartPumps
<1>8. ASSUME NEW c \in Conns, Persist(c) PROVE HubTyped'
  BY <1>8 DEF Persist
<1>9. ASSUME NEW c \in Conns, PostMessage(c) PROVE HubTyped'
  <2>1. pc' \in [Conns -> HandlerPoints]
    BY <1>9 DEF PostMessage, Post
  <2>2. broadcast' \in Seq(RoomMessages) /\ Len(broadcast') <= BroadcastCap
    BY <1>9, PostedMessage, AppendEntries DEF PostMessage, Post
  <2> QED BY <1>9, <2>1, <2>2 DEF PostMessage, Post
<1>10. ASSUME NEW c \in Conns, PostTyping(c) PROVE HubTyped'
  <2>1. pc' \in [Conns -> HandlerPoints]
    BY <1>10 DEF PostTyping, Post
  <2>2. broadcast' \in Seq(RoomMessages) /\ Len(broadcast') <= BroadcastCap
    BY <1>10, PostedMessage, AppendEntries DEF PostTyping, Post
  <2> QED BY <1>10, <2>1, <2>2 DEF PostTyping, Post
<1>11. ASSUME NEW c \in Conns, SendUnregister(c) PROVE HubTyped'
  <2>1. pc' \in [Conns -> HandlerPoints]
    BY <1>11 DEF SendUnregister
  <2>2. unregister' \in Seq(Conns) /\ Len(unregister') <= UnregisterCap
    BY <1>11, AppendEntries DEF SendUnregister
  <2> QED BY <1>11, <2>1, <2>2 DEF SendUnregister
<1>12. ASSUME NEW c \in Conns, CloseConn(c) PROVE HubTyped'
  BY <1>12 DEF CloseConn
<1>13. ASSUME NEW c \in Conns, BroadcastUserLeft(c) PROVE HubTyped'
  <2>1. pc' \in [Conns -> HandlerPoints]
    BY <1>13 DEF BroadcastUserLeft, Post
  <2>2. broadcast' \in Seq(RoomMessages) /\ Len(broadcast') <= BroadcastCap
    BY <1>13, PostedMessage, AppendEntries DEF BroadcastUserLeft, Post
  <2> QED BY <1>13, <2>1, <2>2 DEF BroadcastUserLeft, Post
<1>14. ASSUME NEW c \in Conns, SystemMessageLeft(c) PROVE HubTyped'
  <2>1. pc' \in [Conns -> HandlerPoints]
    BY <1>14 DEF SystemMessageLeft, Post
  <2>2. broadcast' \in Seq(RoomMessages) /\ Len(broadcast') <= BroadcastCap
    BY <1>14, PostedMessage, AppendEntries DEF SystemMessageLeft, Post
  <2> QED BY <1>14, <2>1, <2>2 DEF SystemMessageLeft, Post
<1>15. ASSUME NEW c \in Conns, Connect(c) PROVE HubTyped'
  BY <1>15 DEF Connect
<1>16. ASSUME NEW c \in Conns, ReadMessage(c) PROVE HubTyped'
  <2>1. pc' \in [Conns -> HandlerPoints]
    BY <1>16 DEF ReadMessage
  <2>2. frames' \in 0..MaxFrames
    BY <1>16 DEF ReadMessage
  <2> QED BY <1>16, <2>1, <2>2 DEF ReadMessage
<1>17. ASSUME NEW c \in Conns, ReadTyping(c) PROVE HubTyped'
  <2>1. pc' \in [Conns -> HandlerPoints]
    BY <1>17 DEF ReadTyping
  <2>2. frames' \in 0..MaxFrames
    BY <1>17 DEF ReadTyping
  <2> QED BY <1>17, <2>1, <2>2 DEF ReadTyping
<1>18. ASSUME NEW c \in Conns, ReadError(c) PROVE HubTyped'
  BY <1>18 DEF ReadError
<1>19. ASSUME NEW c \in Conns, PeerLost(c) PROVE HubTyped'
  BY <1>19 DEF PeerLost
<1>20. ASSUME NEW c \in Conns, WriterCancelled(c) PROVE HubTyped'
  <2>1. conn' \in [Conns -> {"open", "lost", "closed"}]
    BY <1>20 DEF WriterCancelled, WriterExits
  <2>2. writer' \in [Conns -> {"off", "running", "exited"}]
    BY <1>20 DEF WriterCancelled, WriterExits
  <2> QED BY <1>20, <2>1, <2>2 DEF WriterCancelled, WriterExits
<1>21. ASSUME NEW c \in Conns, WriterSends(c) PROVE HubTyped'
  <2>1. send' \in [Conns -> 0..SendCap]
    BY <1>21, <1>c
  <2> QED BY <1>21, <2>1 DEF WriterSends
<1>22. ASSUME NEW c \in Conns, WriterWriteFails(c) PROVE HubTyped'
  <2>1. conn' \in [Conns -> {"open", "lost", "closed"}]
    BY <1>22 DEF WriterWriteFails, WriterExits
  <2>2. writer' \in [Conns -> {"off", "running", "exited"}]
    BY <1>22 DEF WriterWriteFails, WriterExits
  <2>3. send' \in [Conns -> 0..SendCap]
    BY <1>22, <1>c
  <2> QED BY <1>22, <2>1, <2>2, <2>3 DEF WriterWriteFails, WriterExits
<1>23. ASSUME NEW c \in Conns, WriterSeesClosed(c) PROVE HubTyped'
  <2>1. conn' \in [Conns -> {"open", "lost", "closed"}]
    BY <1>23 DEF WriterSeesClosed, WriterExits
  <2>2. writer' \in [Conns -> {"off", "running", "exited"}]
    BY <1>23 DEF WriterSeesClosed, WriterExits
  <2> QED BY <1>23, <2>1, <2>2 DEF WriterSeesClosed, WriterExits
<1>24. ASSUME NEW c \in Conns, WriterPingFails(c) PROVE HubTyped'
  <2>1. conn' \in [Conns -> {"open", "lost", "closed"}]
    BY <1>24 DEF WriterPingFails, WriterExits
  <2>2. writer' \in [Conns -> {"off", "running", "exited"}]
    BY <1>24 DEF WriterPingFails, WriterExits
  <2> QED BY <1>24, <2>1, <2>2 DEF WriterPingFails, WriterExits
<1>25. ASSUME NEW c \in Conns, HubDeliver(c) PROVE HubTyped'
  <2>1. send' \in [Conns -> 0..SendCap]
    BY <1>25, <1>d
  <2>2. todo' \in SUBSET Conns /\ hubPc' \in HubPoints
    BY <1>25 DEF HubDeliver, ContinueWith
  <2> QED BY <1>25, <2>1, <2>2 DEF HubDeliver, ContinueWith
<1>26. ASSUME NEW c \in Conns, HubBufferFull(c) PROVE HubTyped'
  BY <1>26 DEF HubBufferFull
<1>27. CASE HubRegister
  <2>1. register' \in Seq(Conns) /\ Len(register') <= RegisterCap
    BY <1>27, TailEntries DEF HubRegister
  <2>2. clients' \in SUBSET Conns
    BY <1>27 DEF HubRegister
  <2>3. hubClient' \in Conns
    BY <1>27, TailEntries DEF HubRegister
  <2> QED BY <1>27, <2>1, <2>2, <2>3 DEF HubRegister
<1>28. CASE HubAddOnline
  <2>1. mishaps' \in 0..MaxMishaps
    BY <1>28 DEF HubAddOnline, BackToSelect
  <2>2. online' \in SUBSET Users /\ stale' \in SUBSET Users
    BY <1>28 DEF HubAddOnline, BackToSelect
  <2> QED BY <1>28, <2>1, <2>2 DEF HubAddOnline, BackToSelect
<1>29. CASE HubUnregister
  <2>1. unregister' \in Seq(Conns) /\ Len(unregister') <= UnregisterCap
    BY <1>29, TailEntries DEF HubUnregister
  <2>2. clients' \in SUBSET Conns
    BY <1>29 DEF HubUnregister
  <2>3. hubClient' \in Conns
    BY <1>29, TailEntries DEF HubUnregister
  <2>4. sendClosed' \in [Conns -> BOOLEAN]
    BY <1>29 DEF HubUnregister
  <2> QED BY <1>29, <2>1, <2>2, <2>3, <2>4 DEF HubUnregister
<1>30. CASE HubDropOnline
  <2>1. mishaps' \in 0..MaxMishaps
    BY <1>30 DEF HubDropOnline, BackToSelect
  <2>2. online' \in SUBSET Users /\ stale' \in SUBSET Users
    BY <1>30 DEF HubDropOnline, BackToSelect
  <2> QED BY <1>30, <2>1, <2>2 DEF HubDropOnline, BackToSelect
<1>31. CASE HubReceive
  <2>1. broadcast' \in Seq(RoomMessages) /\ Len(broadcast') <= BroadcastCap
    BY <1>31, TailEntries DEF HubReceive, ContinueWith
  <2>2. todo' \in SUBSET Conns /\ hubPc' \in HubPoints
    BY <1>31 DEF HubReceive, ContinueWith
  <2> QED BY <1>31, <2>1, <2>2 DEF HubReceive, ContinueWith
<1>32. CASE HubKick
  <2>1. unregister' \in Seq(Conns) /\ Len(unregister') <= UnregisterCap
    BY <1>32, AppendEntries DEF HubKick, ContinueWith
  <2>2. todo' \in SUBSET Conns /\ hubPc' \in HubPoints
    BY <1>32 DEF HubKick, ContinueWith
  <2> QED BY <1>32, <2>1, <2>2 DEF HubKick, ContinueWith
<1>33. CASE ExpireOnline
  <2>1. stale' \in SUBSET Users
    BY <1>33 DEF ExpireOnline, UsersOf
  <2> QED BY <1>33, <2>1 DEF ExpireOnline
<1>34. CASE Restart
  BY <1>34, EmptyEntries DEF Restart
<1>35. CASE UNCHANGED vars
  BY <1>35
<1> QED
  BY <1>1, <1>2, <1>3, <1>4, <1>5, <1>6, <1>7, <1>8, <1>9,
      <1>10, <1>11, <1>12, <1>13, <1>14, <1>15, <1>16, <1>17, <1>18,
      <1>19, <1>20, <1>21, <1>22, <1>23, <1>24, <1>25, <1>26, <1>27,
      <1>28, <1>29, <1>30, <1>31, <1>32, <1>33, <1>34, <1>35
  DEF Next, HandlerStep, PeerStep, WriterStep, HubStep

\* Every variable keeps the type TypeOK gives it.
THEOREM TypeCorrect == Spec => []TypeOK
<1>1. Spec => []HubTyped
  BY InitTyped, StepTyped, PTL DEF Spec
<1>2. HubTyped => TypeOK
  BY DEF HubTyped
<1> QED BY <1>1, <1>2, PTL

-----------------------------------------------------------------------------
(* Membership and Send channels.                                           *)

\* The clients queued in a channel are connections.
LEMMA EntriesTyped ==
    ASSUME NEW S, NEW s \in Seq(S)
    PROVE  ToSet(s) \subseteq S
BY LenProperties DEF ToSet

LEMMA InitMembership == Init => MembershipInv
BY EmptyEntries DEF Init, MembershipInv, NoHubPanic

\* A step that neither registers, unregisters nor closes anything, and takes
\* a handler neither back to its start nor into a panic on an open channel.
Untouched ==
    /\ register' = register /\ clients' = clients /\ sendClosed' = sendClosed
    /\ hubPc' \in {"fanout", "kick"} => todo' \subseteq clients
    /\ \A c \in Conns :
           /\ pc[c] \notin {"idle", "register"} => pc'[c] \notin {"idle", "register"}
           /\ pc'[c] = "panicked" => pc[c] = "panicked" \/ sendClosed[c]

LEMMA UntouchedMembership ==
    HubTyped /\ MembershipInv /\ Untouched => MembershipInv'
<1> SUFFICES ASSUME HubTyped, MembershipInv, Untouched PROVE MembershipInv'
  OBVIOUS
<1>1. ToSet(register) \subseteq Conns /\ clients \subseteq Conns
  BY EntriesTyped DEF HubTyped, TypeOK
<1> QED BY <1>1 DEF MembershipInv, NoHubPanic, Untouched

LEMMA StepMembership ==
    HubTyped /\ MembershipInv /\ [Next]_vars => MembershipInv'
<1> SUFFICES ASSUME HubTyped, MembershipInv, [Next]_vars PROVE MembershipInv'
  OBVIOUS
<1>0. /\ pc \in [Conns -> HandlerPoints] /\ sendClosed \in [Conns -> BOOLEAN]
      /\ register \in Seq(Conns) /\ unregister \in Seq(Conns)
      /\ clients \subseteq Conns /\ ToSet(register) \subseteq Conns
      /\ hubPc \in {"fanout", "kick"} => todo \subseteq clients
  BY EntriesTyped DEF HubTyped, TypeOK, MembershipInv, NoHubPanic
<1> USE DEF handlerVars, socketVars, sendVars, hubVars, storeVars, vars, Goto
<1>1. ASSUME NEW c \in Conns, SendRegister(c) PROVE MembershipInv'
  <2>1. /\ ToSet(register') = ToSet(register) \cup {c}
        /\ IsInjective(register')
    <3>1. c \notin ToSet(register)
      BY <1>1 DEF SendRegister, MembershipInv
    <3> QED BY <1>1, <1>0, <3>1, AppendEntries DEF SendRegister, MembershipInv
  <2>2. /\ pc[c] = "register" /\ pc' = [pc EXCEPT ![c] = "fetch"]
        /\ UNCHANGED <<clients, sendClosed, hubPc, todo>>
    BY <1>1 DEF SendRegister
  <2>3. c \notin clients /\ ~sendClosed[c]
    BY <2>2 DEF MembershipInv
  <2>4. \A d \in Conns : pc'[d] = IF d = c THEN "fetch" ELSE pc[d]
    BY <1>0, <2>2
  <2>5. \A d \in ToSet(register') : /\ pc'[d] \notin {"idle", "register"}
                                   /\ d \notin clients /\ ~sendClosed[d]
    BY <1>0, <2>1, <2>3, <2>4 DEF MembershipInv
  <2> QED BY <1>0, <2>1, <2>2, <2>4, <2>5 DEF MembershipInv, NoHubPanic
<1>2. ASSUME NEW c \in Conns, FetchOnline(c) PROVE MembershipInv'
  <2>1. Untouched
    BY <1>2, <1>0 DEF FetchOnline, Untouched
  <2> QED BY <2>1, UntouchedMembership
<1>3. ASSUME NEW c \in Conns, SendInit(c) PROVE MembershipInv'
  <2>1. Untouched
    BY <1>3, <1>0 DEF SendInit, Untouched
  <2> QED BY <2>1, UntouchedMembership
<1>4. ASSUME NEW c \in Conns, SendInitPanics(c) PROVE MembershipInv'
  <2>1. Untouched
    BY <1>4, <1>0 DEF SendInitPanics, Untouched
  <2> QED BY <2>1, UntouchedMembership
<1>5. ASSUME NEW c \in Conns, BroadcastUserJoined(c) PROVE MembershipInv'
  <2>1. Untouched
    BY <1>5, <1>0 DEF BroadcastUserJoined, Post, Untouched
  <2> QED BY <2>1, UntouchedMembership
<1>6. ASSUME NEW c \in Conns, SystemMessageJoined(c) PROVE MembershipInv'
  <2>1. Untouched
    BY <1>6, <1>0 DEF SystemMessageJoined, Post, Untouched
  <2> QED BY <2>1, UntouchedMembership
<1>7. ASSUME NEW c \in Conns, StartPumps(c) PROVE MembershipInv'
  <2>1. Untouched
    BY <1>7, <1>0 DEF StartPumps, Untouched
  <2> QED BY <2>1, UntouchedMembership
<1>8. ASSUME NEW c \in Conns, Persist(c) PROVE MembershipInv'
  <2>1. Untouched
    BY <1>8, <1>0 DEF Persist, Untouched
  <2> QED BY <2>1, UntouchedMembership
<1>9. ASSUME NEW c \in Conns, PostMessage(c) PROVE MembershipInv'
  <2>1. Untouched
    BY <1>9, <1>0 DEF PostMessage, Post, Untouched
  <2> QED BY <2>1, UntouchedMembership
<1>10. ASSUME NEW c \in Conns, PostTyping(c) PROVE MembershipInv'
  <2>1. Untouched
    BY <1>10, <1>0 DEF PostTyping, Post, Untouched
  <2> QED BY <2>1, UntouchedMembership
<1>11. ASSUME NEW c \in Conns, SendUnregister(c) PROVE MembershipInv'
  <2>1. Untouched
    BY <1>11, <1>0 DEF SendUnregister, Untouched
  <2> QED BY <2>1, UntouchedMembership
<1>12. ASSUME NEW c \in Conns, CloseConn(c) PROVE MembershipInv'
  <2>1. Untouched
    BY <1>12, <1>0 DEF CloseConn, Untouched
  <2> QED BY <2>1, UntouchedMembership
<1>13. ASSUME NEW c \in Conns, BroadcastUserLeft(c) PROVE MembershipInv'
  <2>1. Untouched
    BY <1>13, <1>0 DEF BroadcastUserLeft, Post, Untouched
  <2> QED BY <2>1, UntouchedMembership
<1>14. ASSUME NEW c \in Conns, SystemMessageLeft(c) PROVE MembershipInv'
  <2>1. Untouched
    BY <1>14, <1>0 DEF SystemMessageLeft, Post, Untouched
  <2> QED BY <2>1, UntouchedMembership
<1>15. ASSUME NEW c \in Conns, Connect(c) PROVE MembershipInv'
  <2>1. Untouched
    BY <1>15, <1>0 DEF Connect, Untouched
  <2> QED BY <2>1, UntouchedMembership
<1>16. ASSUME NEW c \in Conns, ReadMessage(c) PROVE MembershipInv'
  <2>1. Untouched
    BY <1>16, <1>0 DEF ReadMessage, Untouched
  <2> QED BY <2>1, UntouchedMembership
<1>17. ASSUME NEW c \in Conns, ReadTyping(c) PROVE MembershipInv'
  <2>1. Untouched
    BY <1>17, <1>0 DEF ReadTyping, Untouched
  <2> QED BY <2>1, UntouchedMembership
<1>18. ASSUME NEW c \in Conns, ReadError(c) PROVE MembershipInv'
  <2>1. Untouched
    BY <1>18, <1>0 DEF ReadError, Untouched
  <2> QED BY <2>1, UntouchedMembership
<1>19. ASSUME NEW c \in Conns, PeerLost(c) PROVE MembershipInv'
  <2>1. Untouched
    BY <1>19, <1>0 DEF PeerLost, Untouched
  <2> QED BY <2>1, UntouchedMembership
<1>20. ASSUME NEW c \in Conns, WriterCancelled(c) PROVE MembershipInv'
  <2>1. Untouched
    BY <1>20, <1>0 DEF WriterCancelled, WriterExits, Untouched
  <2> QED BY <2>1, UntouchedMembership
<1>21. ASSUME NEW c \in Conns, WriterSends(c) PROVE MembershipInv'
  <2>1. Untouched
    BY <1>21, <1>0 DEF WriterSends, Untouched
  <2> QED BY <2>1, UntouchedMembership
<1>22. ASSUME NEW c \in Conns, WriterWriteFails(c) PROVE MembershipInv'
  <2>1. Untouched
    BY <1>22, <1>0 DEF WriterWriteFails, WriterExits, Untouched
  <2> QED BY <2>1, UntouchedMembership
<1>23. ASSUME NEW c \in Conns, WriterSeesClosed(c) PROVE MembershipInv'
  <2>1. Untouched
    BY <1>23, <1>0 DEF WriterSeesClosed, WriterExits, Untouched
  <2> QED BY <2>1, UntouchedMembership
<1>24. ASSUME NEW c \in Conns, WriterPingFails(c) PROVE MembershipInv'
  <2>1. Untouched
    BY <1>24, <1>0 DEF WriterPingFails, WriterExits, Untouched
  <2> QED BY <2>1, UntouchedMembership
<1>25. ASSUME NEW c \in Conns, HubDeliver(c) PROVE MembershipInv'
  <2>1. Untouched
    BY <1>25, <1>0 DEF HubDeliver, ContinueWith, Untouched
  <2> QED BY <2>1, UntouchedMembership
<1>26. ASSUME NEW c \in Conns, HubBufferFull(c) PROVE MembershipInv'
  <2>1. Untouched
    BY <1>26, <1>0 DEF HubBufferFull, Untouched
  <2> QED BY <2>1, UntouchedMembership
<1>27. CASE HubRegister
  <2> DEFINE r == Head(register)
  <2>1. /\ r \in Conns /\ r \in ToSet(register)
        /\ ToSet(register') \subseteq ToSet(register)
        /\ IsInjective(register') /\ r \notin ToSet(register')
    BY <1>27, <1>0, TailEntries DEF HubRegister, MembershipInv
  <2>2. /\ clients' = clients \cup {r} /\ hubPc' = "add"
        /\ UNCHANGED <<pc, sendClosed>>
    BY <1>27 DEF HubRegister
  <2> HIDE DEF r
  <2> QED BY <2>1, <2>2 DEF MembershipInv, NoHubPanic
<1>28. CASE HubAddOnline
  <2>1. Untouched
    BY <1>28, <1>0 DEF HubAddOnline, BackToSelect, Untouched
  <2> QED BY <2>1, UntouchedMembership
<1>29. CASE HubUnregister
  <2> DEFINE u == Head(unregister)
  <2>1. u \in Conns
    BY <1>29, <1>0, TailEntries DEF HubUnregister
  <2>2. /\ clients' = clients \ {u} /\ hubPc' = "drop" /\ pc' = pc
        /\ register' = register
        /\ sendClosed' = IF u \in clients THEN [sendClosed EXCEPT ![u] = TRUE]
                         ELSE sendClosed
    BY <1>29 DEF HubUnregister
  <2> HIDE DEF u
  <2>3. \A d \in Conns \ {u} : sendClosed'[d] = sendClosed[d]
    BY <1>0, <2>1, <2>2
  <2>4. \A d \in Conns : sendClosed'[d] = sendClosed[d] \/ d \in clients
    BY <1>0, <2>1, <2>2
  <2>5. \A d \in Conns : pc[d] = "panicked" => sendClosed'[d]
    BY <1>0, <2>1, <2>2 DEF MembershipInv
  <2> QED BY <1>0, <2>1, <2>2, <2>3, <2>4, <2>5 DEF MembershipInv, NoHubPanic
<1>30. CASE HubDropOnline
  <2>1. Untouched
    BY <1>30, <1>0 DEF HubDropOnline, BackToSelect, Untouched
  <2> QED BY <2>1, UntouchedMembership
<1>31. CASE HubReceive
  <2>1. Untouched
    BY <1>31, <1>0 DEF HubReceive, ContinueWith, Untouched
  <2> QED BY <2>1, UntouchedMembership
<1>32. CASE HubKick
  <2>1. Untouched
    BY <1>32, <1>0 DEF HubKick, ContinueWith, Untouched
  <2> QED BY <2>1, UntouchedMembership
<1>33. CASE ExpireOnline
  <2>1. Untouched
    BY <1>33, <1>0 DEF ExpireOnline, Untouched
  <2> QED BY <2>1, UntouchedMembership
<1>34. CASE Restart
  BY <1>34, <1>0, EmptyEntries DEF Restart, MembershipInv, NoHubPanic
<1>35. CASE UNCHANGED vars
  BY <1>35, <1>0, UntouchedMembership DEF Untouched
<1> QED
  BY <1>1, <1>2, <1>3, <1>4, <1>5, <1>6, <1>7, <1>8, <1>9,
      <1>10, <1>11, <1>12, <1>13, <1>14, <1>15, <1>16, <1>17, <1>18,
      <1>19, <1>20, <1>21, <1>22, <1>23, <1>24, <1>25, <1>26, <1>27,
      <1>28, <1>29, <1>30, <1>31, <1>32, <1>33, <1>34, <1>35
  DEF Next, HandlerStep, PeerStep, WriterStep, HubStep

\* The inductive invariant about types, membership and closed channels.
LEMMA MembershipInvariant == Spec => [](HubTyped /\ MembershipInv)
<1>1. Init => HubTyped /\ MembershipInv
  BY InitTyped, InitMembership
<1>2. HubTyped /\ MembershipInv /\ [Next]_vars => (HubTyped /\ MembershipInv)'
  BY StepTyped, StepMembership
<1> QED BY <1>1, <1>2, PTL DEF Spec

\* The hub never sends on a closed Send channel and never closes one twice.
THEOREM HubDoesNotPanic == Spec => []NoHubPanic
<1>1. MembershipInv => NoHubPanic
  BY DEF MembershipInv
<1> QED BY <1>1, MembershipInvariant, PTL

\* A connection whose handler panicked is out of the room for good.
THEOREM PanickedLeaves == Spec => []PanickedIsEvicted
<1>1. HubTyped /\ MembershipInv => PanickedIsEvicted
  BY DEF MembershipInv, NoHubPanic, PanickedIsEvicted
<1> QED BY <1>1, MembershipInvariant, PTL

-----------------------------------------------------------------------------
(* Presence list and membership.                                           *)

LEMMA InitPresence == Init => PresenceInv
BY DEF Init, PresenceInv, UsersOf

\* The steps that touch neither the members, nor the Redis list, nor the
\* client the hub is dealing with.
SamePresence ==
    /\ clients' = clients /\ online' = online /\ stale' = stale
    /\ mishaps' = mishaps /\ restarts' = restarts
    /\ \/ hubPc \notin {"add", "drop"} /\ hubPc' \notin {"add", "drop"}
       \/ hubPc' = hubPc /\ hubClient' = hubClient

\* The others.
PresenceStep ==
    \/ HubRegister \/ HubAddOnline \/ HubUnregister \/ HubDropOnline
    \/ ExpireOnline \/ Restart

LEMMA PresenceSteps == [Next]_vars => SamePresence \/ PresenceStep
<1> SUFFICES ASSUME [Next]_vars, ~PresenceStep PROVE SamePresence
  OBVIOUS
<1> USE DEF handlerVars, socketVars, sendVars, hubVars, storeVars, vars, SamePresence
<1>1. ASSUME NEW c \in Conns, HandlerStep(c) PROVE SamePresence
  BY <1>1 DEF HandlerStep, SendRegister, FetchOnline, SendInit, SendInitPanics,
              BroadcastUserJoined, SystemMessageJoined, StartPumps, Persist,
              PostMessage, PostTyping, Post, SendUnregister, CloseConn,
              BroadcastUserLeft, SystemMessageLeft
<1>2. ASSUME NEW c \in Conns, PeerStep(c) PROVE SamePresence
  <2>1. CASE Connect(c)
    BY <2>1 DEF Connect
  <2>2. CASE ReadMessage(c) \/ ReadTyping(c) \/ ReadError(c) \/ PeerLost(c)
    BY <2>2 DEF ReadMessage, ReadTyping, ReadError, PeerLost
  <2> QED BY <1>2, <2>1, <2>2 DEF PeerStep
<1>3. ASSUME NEW c \in Conns, WriterStep(c) \/ WriterPingFails(c)
      PROVE  SamePresence
  BY <1>3 DEF WriterStep, WriterCancelled, WriterSends, WriterWriteFails,
              WriterSeesClosed, WriterPingFails, WriterExits
<1>4. ASSUME NEW c \in Conns, HubDeliver(c) \/ HubBufferFull(c)
      PROVE  SamePresence
  BY <1>4 DEF HubDeliver, HubBufferFull, ContinueWith
<1>5. CASE HubReceive \/ HubKick
  BY <1>5 DEF HubReceive, HubKick, ContinueWith
<1>6. CASE UNCHANGED vars
  BY <1>6
<1> QED BY <1>1, <1>2, <1>3, <1>4, <1>5, <1>6 DEF Next, HubStep, PresenceStep

\* The hub writes the user of a member, or fails to.
LEMMA PresenceAdd == PresenceInv /\ HubAddOnline => PresenceInv'
<1> SUFFICES ASSUME PresenceInv, HubAddOnline PROVE PresenceInv'
  OBVIOUS
<1> DEFINE u == UserOf[hubClient]
<1>1. /\ hubPc = "add" /\ hubPc' = "select" /\ clients' = clients
      /\ hubClient \in clients
      /\ UsersOf(clients) \ stale \subseteq online \cup {u}
      /\ online \ stale \subseteq UsersOf(clients)
  BY DEF HubAddOnline, BackToSelect, PresenceInv
<1>2. \/ online' = online \cup {u} /\ stale' = stale \ {u}
      \/ online' = online /\ stale' = stale \cup {u}
  BY DEF HubAddOnline
<1>3. u \in UsersOf(clients) /\ UsersOf(clients)' = UsersOf(clients)
  BY <1>1 DEF UsersOf
<1> HIDE DEF u
<1>4. (online \ stale)' = (UsersOf(clients) \ stale)'
  BY <1>1, <1>2, <1>3
<1> QED BY <1>1, <1>4 DEF PresenceInv

\* The hub takes a user off the list, fails to, or need not.
LEMMA PresenceDrop == PresenceInv /\ HubDropOnline => PresenceInv'
<1> SUFFICES ASSUME PresenceInv, HubDropOnline PROVE PresenceInv'
  OBVIOUS
<1> DEFINE u == UserOf[hubClient]
<1>1. /\ hubPc = "drop" /\ hubPc' = "select" /\ clients' = clients
      /\ hubClient \notin clients
      /\ UsersOf(clients) \ stale \subseteq online
      /\ online \ stale \subseteq UsersOf(clients) \cup {u}
  BY DEF HubDropOnline, BackToSelect, PresenceInv
<1>2. \/ HasOtherConnection(hubClient) /\ online' = online /\ stale' = stale
      \/ /\ ~HasOtherConnection(hubClient)
         /\ \/ online' = online \ {u} /\ stale' = stale \ {u}
            \/ online' = online /\ stale' = stale \cup {u}
  BY DEF HubDropOnline
<1>3. UsersOf(clients)' = UsersOf(clients)
  BY <1>1 DEF UsersOf
<1>4. HasOtherConnection(hubClient) <=> u \in UsersOf(clients)
  BY <1>1 DEF HasOtherConnection, UsersOf
<1> HIDE DEF u
<1>5. (online \ stale)' = (UsersOf(clients) \ stale)'
  BY <1>1, <1>2, <1>3, <1>4
<1> QED BY <1>1, <1>5 DEF PresenceInv

LEMMA StepPresence == PresenceInv /\ [Next]_vars => PresenceInv'
<1> SUFFICES ASSUME PresenceInv, [Next]_vars PROVE PresenceInv'
  OBVIOUS
<1> USE DEF handlerVars, socketVars, sendVars, hubVars, storeVars, vars
<1>1. CASE SamePresence
  BY <1>1 DEF PresenceInv, SamePresence, UsersOf
<1>2. CASE HubRegister
  <2> DEFINE r == Head(register)
  <2>1. /\ hubPc = "select" /\ hubPc' = "add" /\ hubClient' = r
        /\ clients' = clients \cup {r}
        /\ online' = online /\ stale' = stale
    BY <1>2 DEF HubRegister
  <2> HIDE DEF r
  <2> QED BY <2>1 DEF PresenceInv, UsersOf
<1>3. CASE HubUnregister
  <2> DEFINE u == Head(unregister)
  <2>1. /\ hubPc = "select" /\ hubPc' = "drop" /\ hubClient' = u
        /\ clients' = clients \ {u}
        /\ online' = online /\ stale' = stale
    BY <1>3 DEF HubUnregister
  <2> HIDE DEF u
  <2> QED BY <2>1 DEF PresenceInv, UsersOf
<1>4. CASE ExpireOnline
  BY <1>4 DEF ExpireOnline, PresenceInv, UsersOf
<1>5. CASE Restart
  BY <1>5 DEF Restart, PresenceInv, UsersOf
<1> QED BY <1>1, <1>2, <1>3, <1>4, <1>5, PresenceAdd, PresenceDrop, PresenceSteps
        DEF PresenceStep

\* Whatever faults happen, the Redis list agrees with the members about every
\* user whom no fault has hit since the user was last written.
THEOREM PresenceIsMembership == Spec => []PresenceMatchesClients
<1>1. PresenceInv => PresenceMatchesClients
  BY DEF PresenceInv, PresenceMatchesClients
<1> QED BY <1>1, InitPresence, StepPresence, PTL DEF Spec

\* Restarts leave users on the list and never take one off it.
LEMMA StepListed == HubTyped /\ ListedInv /\ [Next]_vars => ListedInv'
<1> SUFFICES ASSUME HubTyped, ListedInv, [Next]_vars PROVE ListedInv'
  OBVIOUS
<1>0. mishaps \in Nat /\ restarts \in Nat /\ restarts <= mishaps
  BY HubAssumption DEF HubTyped, TypeOK
<1> USE DEF handlerVars, socketVars, sendVars, hubVars, storeVars, vars
<1>1. CASE SamePresence
  BY <1>1 DEF ListedInv, SamePresence, UsersOf
<1>2. CASE HubRegister
  <2> DEFINE r == Head(register)
  <2>1. /\ hubPc = "select" /\ hubPc' = "add" /\ hubClient' = r
        /\ clients' = clients \cup {r}
        /\ online' = online /\ mishaps' = mishaps /\ restarts' = restarts
    BY <1>2 DEF HubRegister
  <2> HIDE DEF r
  <2> QED BY <2>1 DEF ListedInv, UsersOf
<1>3. CASE HubAddOnline
  <2>1. CASE Mishap("redis") /\ restarts' = restarts
    BY <1>0, <2>1 DEF Mishap, ListedInv
  <2>2. CASE /\ online' = online \cup {UserOf[hubClient]}
             /\ mishaps' = mishaps /\ restarts' = restarts
    BY <1>3, <2>2 DEF HubAddOnline, BackToSelect, ListedInv, UsersOf
  <2> QED BY <1>3, <2>1, <2>2 DEF HubAddOnline, BackToSelect
<1>4. CASE HubUnregister
  <2> DEFINE u == Head(unregister)
  <2>1. /\ hubPc = "select" /\ hubPc' = "drop" /\ hubClient' = u
        /\ clients' = clients \ {u}
        /\ online' = online /\ mishaps' = mishaps /\ restarts' = restarts
    BY <1>4 DEF HubUnregister
  <2> HIDE DEF u
  <2> QED BY <2>1 DEF ListedInv, UsersOf
<1>5. CASE HubDropOnline
  <2>1. CASE Mishap("redis") /\ restarts' = restarts
    BY <1>0, <2>1 DEF Mishap, ListedInv
  <2>2. CASE mishaps' = mishaps /\ restarts' = restarts
    <3>1. /\ hubPc = "drop" /\ hubPc' = "select" /\ clients' = clients
          /\ online' = IF HasOtherConnection(hubClient) THEN online
                       ELSE online \ {UserOf[hubClient]}
      BY <1>0, <1>5, <2>2 DEF HubDropOnline, BackToSelect, Mishap
    <3>2. SUFFICES ASSUME mishaps = restarts
                   PROVE  UsersOf(clients) \subseteq online'
      BY <2>2, <3>1 DEF ListedInv, UsersOf
    <3>3. hubClient \notin clients /\ UsersOf(clients) \subseteq online
      BY <3>1, <3>2 DEF ListedInv
    <3>4. ~HasOtherConnection(hubClient) =>
              UserOf[hubClient] \notin UsersOf(clients)
      BY <3>3 DEF HasOtherConnection, UsersOf
    <3> QED BY <3>1, <3>3, <3>4
  <2> QED BY <1>5, <2>1, <2>2 DEF HubDropOnline, BackToSelect
<1>6. CASE ExpireOnline
  BY <1>0, <1>6 DEF ExpireOnline, Mishap, ListedInv
<1>7. CASE Restart
  BY <1>0, <1>7 DEF Restart, Mishap, ListedInv, UsersOf
<1> QED BY <1>1, <1>2, <1>3, <1>4, <1>5, <1>6, <1>7, PresenceSteps
        DEF PresenceStep

\* However often the process restarts, nobody who is connected is missing from
\* the Redis list while Redis answers.
THEOREM RestartsHideNobody == Spec => []ConnectedAreListed
<1>1. Init => HubTyped /\ ListedInv
  BY InitTyped DEF Init, ListedInv, UsersOf
<1>2. HubTyped /\ ListedInv /\ [Next]_vars => (HubTyped /\ ListedInv)'
  BY StepTyped, StepListed
<1>3. ListedInv => ConnectedAreListed
  BY DEF ListedInv, ConnectedAreListed
<1> QED BY <1>1, <1>2, <1>3, PTL DEF Spec

-----------------------------------------------------------------------------
(* The wedge.                                                              *)

\* Once the hub waits for itself, only a restart of the process ends it.
THEOREM WedgeIsPermanent == Spec => WedgeEndsOnlyByRestart
<1>1. ASSUME [Next]_vars PROVE [Wedged => Wedged' \/ Restart]_vars
  <2> SUFFICES ASSUME Wedged, ~Restart, Next PROVE Wedged'
    BY <1>1
  <2> USE DEF Wedged, handlerVars, socketVars, sendVars, hubVars, storeVars
  <2>1. ASSUME NEW c \in Conns, HandlerStep(c) PROVE Wedged'
    BY <2>1 DEF HandlerStep, SendRegister, FetchOnline, SendInit, SendInitPanics,
                BroadcastUserJoined, SystemMessageJoined, StartPumps, Persist,
                PostMessage, PostTyping, Post, SendUnregister, CloseConn,
                BroadcastUserLeft, SystemMessageLeft
  <2>2. ASSUME NEW c \in Conns, PeerStep(c) PROVE Wedged'
    BY <2>2 DEF PeerStep, Connect, ReadMessage, ReadTyping, ReadError, PeerLost
  <2>3. ASSUME NEW c \in Conns, WriterStep(c) \/ WriterPingFails(c) PROVE Wedged'
    BY <2>3 DEF WriterStep, WriterCancelled, WriterSends, WriterWriteFails,
                WriterSeesClosed, WriterPingFails, WriterExits
  <2>4. CASE HubStep
    BY <2>4 DEF HubStep, HubRegister, HubAddOnline, HubUnregister, HubDropOnline,
                HubReceive, HubKick, HubDeliver, HubBufferFull
  <2>5. CASE ExpireOnline
    BY <2>5 DEF ExpireOnline
  <2> QED BY <2>1, <2>2, <2>3, <2>4, <2>5 DEF Next
<1> QED BY <1>1, PTL DEF Spec, WedgeEndsOnlyByRestart
=============================================================================
