------------------------------ MODULE Relay_proofs -----------------------------
(****************************************************************************)
(* Proofs about Relay for any number of sockets, channels, userIds, keys    *)
(* and values.                                                              *)
(****************************************************************************)
EXTENDS Relay, TLAPS

(* No client asks for userId 0.  The relay does not forbid it, and what     *)
(* follows is false without it.                                             *)
ZeroNotRequested == Zero \notin Requestable

(* The inductive invariant.  A session's address, its place in the queue    *)
(* and the state of its socket depend on each other: a retired session must *)
(* still be allocated and addressed so that the collector can erase it, and *)
(* a kicked one must not be queued again.                                   *)
IInv == /\ TypeOK
        /\ IdOwnership
        /\ GarbageExactlyOnce
        /\ ValidMeansOpen
        /\ ChannelTableExact

(* What Sent builds is a message, if it names an id.                          *)
LEMMA SentIsMessage ==
  \A A, B : \A from \in Id,
     kind \in {"none", "userId", "broadcast", "private", "disconnect", "channels", "variable"} :
        Sent(kind, from, A, B) \in Message
  BY DEF Sent, Message, Copies

(* The three sources of userIds.                                              *)
LEMMA IdsAreIds == Zero \in Id /\ Generated \subseteq Id /\ Requestable \subseteq Id
  BY DEF Id

(* A handler that sends nothing leaves a message that reaches nobody.         *)
LEMMA NothingIsMessage == Nothing \in Message
  BY SentIsMessage, IdsAreIds DEF Nothing

(* A disconnect event is a message.                                           *)
LEMMA EventIsMessage == \A c, id : id \in Id => DisconnectEvent(c, id) \in Message
  BY SentIsMessage DEF DisconnectEvent

(* The state always has its type. *)
THEOREM TypeCorrect == Spec => []TypeOK
<1>1. Init => TypeOK
  BY NothingIsMessage, IdsAreIds, RelayAssumption DEF Init, TypeOK, Unset, Mask
<1>2. TypeOK /\ [Next]_vars => TypeOK'
  <2> SUFFICES ASSUME TypeOK, [Next]_vars PROVE TypeOK'
    OBVIOUS
  <2> USE DEF TypeOK, session, tables
  <2>1. ASSUME NEW c \in Conn, Connect(c) PROVE TypeOK'
    BY <2>1, NothingIsMessage DEF Connect
  <2>2. ASSUME NEW c \in Conn, NEW ch \in Channel, FirstPacket(c, ch) PROVE TypeOK'
    <3>1. PICK u \in Generated : /\ userId' = [userId EXCEPT ![c] = u]
                                 /\ UserIDSessionMap' = [UserIDSessionMap EXCEPT ![u] = c]
                                 /\ out' = Sent("userId", u, {c}, {})
      BY <2>2 DEF FirstPacket
    <3>2. u \in Id
      BY IdsAreIds
    <3>3. out' \in Message
      BY <3>1, <3>2, SentIsMessage
    <3>4. userId' \in [Conn -> Id] /\ UserIDSessionMap' \in [Id -> Conn \cup {NoSession}]
      BY <3>1, <3>2
    <3>5. QED
      BY <2>2, <3>3, <3>4 DEF FirstPacket
  <2>3. ASSUME NEW c \in Conn, FirstPacketTooLong(c) PROVE TypeOK'
    BY <2>3, NothingIsMessage DEF FirstPacketTooLong
  <2>4. ASSUME NEW c \in Conn, Broadcast(c) PROVE TypeOK'
    <3>1. out' \in Message
      BY <2>4, SentIsMessage DEF Broadcast
    <3>2. QED
      BY <2>4, <3>1 DEF Broadcast
  <2>5. ASSUME NEW c \in Conn, NEW u \in Id, PrivateMessage(c, u) PROVE TypeOK'
    <3>1. out' \in Message
      BY <2>5, SentIsMessage, NothingIsMessage DEF PrivateMessage, Forwarded
    <3>2. QED
      BY <2>5, <3>1 DEF PrivateMessage
  <2>6. ASSUME NEW c \in Conn, Authenticate(c) PROVE TypeOK'
    BY <2>6, NothingIsMessage DEF Authenticate
  <2>7. ASSUME NEW c \in Conn, NEW mode \in Modes, SetListenerMode(c, mode) PROVE TypeOK'
    BY <2>7, NothingIsMessage, RelayAssumption DEF SetListenerMode
  <2>8. ASSUME NEW c \in Conn, ListChannels(c) PROVE TypeOK'
    BY <2>8, SentIsMessage, IdsAreIds DEF ListChannels
  <2>9. ASSUME NEW c \in Conn, NEW u \in Requestable, AssignUserId(c, u) PROVE TypeOK'
    <3>1. u \in Id /\ Zero \in Id
      BY IdsAreIds
    <3>2. Surrendered(u) \in [Conn -> Id]
      BY <3>1 DEF Surrendered
    <3>3. /\ userId' \in [Conn -> Id]
          /\ UserIDSessionMap' \in [Id -> Conn \cup {NoSession}]
      BY <2>9, <3>1, <3>2 DEF AssignUserId, MapAssigned
    <3>4. out' \in Message
      BY <2>9, <3>1, NothingIsMessage, EventIsMessage DEF AssignUserId
    <3>5. valid' \subseteq Conn /\ GarbageQueue' \in [Conn -> Nat]
      BY <2>9 DEF AssignUserId
    <3>6. ws' \in [Conn -> {"none", "open", "closing"}]
      BY <2>9 DEF AssignUserId
    <3>7. QED
      BY <2>9, <3>3, <3>4, <3>5, <3>6 DEF AssignUserId
  <2>10. ASSUME NEW c \in Conn, NEW k \in Key, NEW val \in Value,
                AssignChannelVariable(c, k, val)
         PROVE  TypeOK'
    BY <2>10, NothingIsMessage DEF AssignChannelVariable
  <2>11. ASSUME NEW c \in Conn, TransmitChannelVariable(c) PROVE TypeOK'
    BY <2>11, SentIsMessage, IdsAreIds DEF TransmitChannelVariable
  <2>12. ASSUME NEW c \in Conn, OnDisconnection(c), ws' \in [Conn -> {"none", "open", "closing"}]
         PROVE  TypeOK'
    <3>1. userId[c] \in Id
      OBVIOUS
    <3>2. out' \in Message
      BY <2>12, <3>1, NothingIsMessage, EventIsMessage DEF OnDisconnection
    <3>3. valid' \subseteq Conn /\ GarbageQueue' \in [Conn -> Nat]
      <4>1. CASE c \in valid
        BY <2>12, <4>1 DEF OnDisconnection, Retire
      <4>2. CASE c \notin valid
        BY <2>12, <4>2 DEF OnDisconnection
      <4>3. QED
        BY <4>1, <4>2
    <3>4. QED
      BY <2>12, <3>2, <3>3 DEF OnDisconnection
  <2>13. ASSUME NEW c \in Conn, DisconnectClient(c) PROVE TypeOK'
    BY <2>13, EventIsMessage DEF DisconnectClient, Retire
  <2>14. ASSUME NEW c \in Conn, PeerClose(c) PROVE TypeOK'
    <3>1. ws' \in [Conn -> {"none", "open", "closing"}] /\ OnDisconnection(c)
      BY <2>14 DEF PeerClose
    <3>2. QED
      BY <2>12, <3>1
  <2>15. ASSUME NEW c \in Conn, SocketEnd(c) PROVE TypeOK'
    <3>1. ws' \in [Conn -> {"none", "open", "closing"}]
      BY <2>15 DEF SocketEnd
    <3>2. CASE ws[c] = "open"
      BY <2>12, <2>15, <3>1, <3>2 DEF SocketEnd
    <3>3. CASE ws[c] # "open"
      BY <2>15, <3>1, <3>3, NothingIsMessage DEF SocketEnd
    <3>4. QED
      BY <3>2, <3>3
  <2>16. ASSUME FreeGarbage PROVE TypeOK'
    <3>1. out' \in Message /\ Zero \in Id
      BY <2>16, NothingIsMessage, IdsAreIds DEF FreeGarbage
    <3>2. Unset \in [Key -> Value \cup {NoValue}]
      BY DEF Unset
    <3>3. ChannelVariables' \in [Channel -> [Key -> Value \cup {NoValue}]]
      BY <2>16, <3>2 DEF FreeGarbage
    <3>4. /\ UserIDSessionMap' \in [Id -> Conn \cup {NoSession}]
          /\ channelIndex' \in [Channel -> SUBSET Conn]
          /\ GarbageQueue' \in [Conn -> Nat]
      BY <2>16 DEF FreeGarbage
    <3>5. /\ userId' \in [Conn -> Id]
          /\ channel' \in [Conn -> Channel]
          /\ listenerMode' \in [Conn -> SUBSET Mask]
          /\ authLevel' \in [Conn -> {0, 1}]
      BY <2>16, <3>1, RelayAssumption DEF FreeGarbage
    <3>6. /\ ChannelClientTable' \subseteq Channel
          /\ SessionExists' \subseteq Conn /\ alloc' \subseteq Conn
          /\ ws' = ws /\ valid' = valid
      BY <2>16 DEF FreeGarbage
    <3>7. QED
      BY <3>1, <3>3, <3>4, <3>5, <3>6
  <2>17. CASE UNCHANGED vars
    BY <2>17 DEF vars
  <2>18. QED
    BY <2>1, <2>2, <2>3, <2>4, <2>5, <2>6, <2>7, <2>8, <2>9, <2>10, <2>11,
       <2>13, <2>14, <2>15, <2>16, <2>17
    DEF Next, ClientStep
<1>3. QED
  BY <1>1, <1>2, PTL DEF Spec

--------------------------------------------------------------------------------
(* The registry invariant, action by action.  Many handlers only read what  *)
(* it is about.                                                             *)
Registry == IdOwnership /\ GarbageExactlyOnce /\ ValidMeansOpen /\ ChannelTableExact

(* Requests that change no session and no table, such as messages and         *)
(* channel variables, leave the registry as it is.                            *)
LEMMA UntouchedStep ==
  ASSUME IInv, UNCHANGED <<ws, alloc, valid, userId, channel, tables, GarbageQueue>>
  PROVE  Registry'
  BY DEF IInv, Registry, tables, IdOwnership, GarbageExactlyOnce, ValidMeansOpen,
         ChannelTableExact

(* The socket of a slot without a Session opens, or closes.                 *)
LEMMA SocketStep ==
  ASSUME IInv, NEW c \in Conn, NEW s \in {"open", "closing", "none"},
         c \notin alloc \/ (ws[c] # "open" /\ s # "open"),
         ws' = [ws EXCEPT ![c] = s],
         UNCHANGED <<alloc, valid, userId, channel, tables, GarbageQueue>>
  PROVE  Registry'
<1>1. ValidMeansOpen'
  <2>1. \A d \in alloc : ws'[d] = "open" <=> ws[d] = "open"
    BY DEF IInv, TypeOK
  <2>2. QED
    BY <2>1 DEF IInv, ValidMeansOpen
<1>2. QED
  BY <1>1 DEF IInv, Registry, tables, IdOwnership, GarbageExactlyOnce, ChannelTableExact

(* A new session takes an unused userId and joins its channel.              *)
LEMMA FirstPacketStep ==
  ASSUME IInv, NEW c \in Conn, NEW ch \in Channel, FirstPacket(c, ch)
  PROVE  Registry'
<1> USE DEF IInv, TypeOK
<1>1. PICK u \in Generated : /\ UserIDSessionMap[u] = NoSession
                             /\ userId' = [userId EXCEPT ![c] = u]
                             /\ UserIDSessionMap' = [UserIDSessionMap EXCEPT ![u] = c]
  BY DEF FirstPacket, Unused
<1>2. u \in Id /\ u # Zero /\ Zero \in Id
  BY IdsAreIds, RelayAssumption
<1>3. c \notin alloc /\ c \notin valid /\ c # NoSession /\ ws[c] = "open"
  BY RelayAssumption DEF FirstPacket, ValidMeansOpen
<1>4. /\ alloc' = alloc \cup {c} /\ valid' = valid \cup {c}
      /\ channel' = [channel EXCEPT ![c] = ch]
      /\ channelIndex' = [channelIndex EXCEPT ![ch] = @ \cup {c}]
      /\ ChannelClientTable' = ChannelClientTable \cup {ch}
      /\ SessionExists' = SessionExists \cup {c}
      /\ ws' = ws /\ GarbageQueue' = GarbageQueue
  BY DEF FirstPacket
<1>5. IdOwnership'
  <2>1. \A w \in Id : UserIDSessionMap'[w] # NoSession =>
           UserIDSessionMap'[w] \in alloc' /\ userId'[UserIDSessionMap'[w]] = w
    <3> SUFFICES ASSUME NEW w \in Id, UserIDSessionMap'[w] # NoSession
                 PROVE  UserIDSessionMap'[w] \in alloc' /\ userId'[UserIDSessionMap'[w]] = w
      OBVIOUS
    <3>1. CASE w = u
      BY <1>1, <1>2, <1>4, <3>1
    <3>2. CASE w # u
      <4>1. UserIDSessionMap'[w] = UserIDSessionMap[w]
        BY <1>1, <3>2
      <4>2. UserIDSessionMap[w] \in alloc /\ userId[UserIDSessionMap[w]] = w
        BY <4>1 DEF IdOwnership
      <4>3. QED
        BY <1>1, <1>3, <1>4, <4>1, <4>2
    <3>3. QED
      BY <3>1, <3>2
  <2>2. \A d \in alloc' : userId'[d] # Zero => UserIDSessionMap'[userId'[d]] = d
    <3> SUFFICES ASSUME NEW d \in alloc', userId'[d] # Zero
                 PROVE  UserIDSessionMap'[userId'[d]] = d
      OBVIOUS
    <3>1. CASE d = c
      BY <1>1, <1>2, <3>1
    <3>2. CASE d # c
      <4>1. d \in alloc /\ userId'[d] = userId[d] /\ userId[d] \in Id
        BY <1>1, <1>4, <3>2
      <4>2. UserIDSessionMap[userId[d]] = d
        BY <4>1 DEF IdOwnership
      <4>3. userId[d] # u
        BY <1>1, <4>1, <4>2, RelayAssumption
      <4>4. QED
        BY <1>1, <4>1, <4>2, <4>3
    <3>3. QED
      BY <3>1, <3>2
  <2>3. UserIDSessionMap'[Zero] = NoSession
    BY <1>1, <1>2 DEF IdOwnership
  <2>4. \A d \in valid' : userId'[d] # Zero
    BY <1>1, <1>2, <1>4 DEF IdOwnership
  <2>5. QED
    BY <2>1, <2>2, <2>3, <2>4 DEF IdOwnership
<1>6. GarbageExactlyOnce'
  BY <1>3, <1>4 DEF GarbageExactlyOnce
<1>7. ValidMeansOpen'
  BY <1>3, <1>4 DEF ValidMeansOpen
<1>8. ChannelTableExact'
  <2>1. \A e \in Channel : channelIndex'[e] = {d \in alloc' : channel'[d] = e}
    BY <1>3, <1>4 DEF ChannelTableExact
  <2>2. \A e \in Channel : e \in ChannelClientTable' <=> channelIndex'[e] # {} \/ e = Global
    BY <1>4 DEF ChannelTableExact
  <2>3. SessionExists' = alloc'
    BY <1>4 DEF ChannelTableExact
  <2>4. QED
    BY <2>1, <2>2, <2>3 DEF ChannelTableExact
<1>9. QED
  BY <1>5, <1>6, <1>7, <1>8 DEF Registry

(* An open socket leaves: a session of it is retired, and is then queued    *)
(* once, because it was valid and so not queued before.                     *)
LEMMA LeaveStep ==
  ASSUME IInv, NEW c \in Conn, NEW s \in {"closing", "none"}, ws[c] = "open",
         IF c \in valid THEN Retire(c) ELSE UNCHANGED <<valid, GarbageQueue>>,
         ws' = [ws EXCEPT ![c] = s],
         UNCHANGED <<alloc, userId, channel, tables>>
  PROVE  Registry'
<1> USE DEF IInv, TypeOK
<1>1. valid' = valid \ {c}
  BY DEF Retire
<1>2. valid \subseteq alloc
  BY DEF ValidMeansOpen
<1>3. IdOwnership'
  BY <1>1 DEF IdOwnership, tables
<1>4. GarbageExactlyOnce'
  <2>1. CASE c \in valid
    <3>1. GarbageQueue' = [GarbageQueue EXCEPT ![c] = @ + 1] /\ GarbageQueue[c] = 0
      BY <2>1 DEF Retire, GarbageExactlyOnce
    <3>2. QED
      BY <1>1, <1>2, <2>1, <3>1 DEF GarbageExactlyOnce
  <2>2. CASE c \notin valid
    BY <2>2 DEF GarbageExactlyOnce
  <2>3. QED
    BY <2>1, <2>2
<1>5. ValidMeansOpen'
  BY <1>1 DEF ValidMeansOpen
<1>6. ChannelTableExact'
  BY DEF ChannelTableExact, tables
<1>7. QED
  BY <1>3, <1>4, <1>5, <1>6 DEF Registry

(* The client moves to userId u.  Whoever held u gives it up before the map *)
(* entry is overwritten, and is retired if it is valid; the client's old    *)
(* entry is erased, unless the client gave up u itself.                     *)
LEMMA AssignUserIdEffect ==
  ASSUME IInv, ZeroNotRequested, NEW c \in Conn, NEW u \in Requestable, AssignUserId(c, u)
  PROVE  LET h == UserIDSessionMap[u] IN
         /\ u \in Id /\ u # Zero /\ Zero \in Id /\ NoSession \notin Conn
         /\ c \in alloc /\ c \in valid
         /\ userId[c] \in Id /\ userId[c] # Zero /\ UserIDSessionMap[userId[c]] = c
         /\ \A d \in alloc : userId[d] = u <=> d = h
         /\ valid' = valid \ {h}
         /\ alloc' = alloc /\ SessionExists' = SessionExists
         /\ ChannelClientTable' = ChannelClientTable
         /\ channelIndex' = channelIndex /\ channel' = channel
         /\ \A d \in Conn : userId'[d] = IF d = c THEN u ELSE IF d = h THEN Zero ELSE userId[d]
         /\ \A w \in Id : UserIDSessionMap'[w] =
                IF w = u THEN c
                ELSE IF c # h /\ w = userId[c] THEN NoSession
                ELSE UserIDSessionMap[w]
<1> USE DEF IInv, TypeOK
<1> DEFINE h == UserIDSessionMap[u]
<1>1. u \in Id /\ u # Zero /\ Zero \in Id /\ NoSession \notin Conn
  BY IdsAreIds, RelayAssumption DEF ZeroNotRequested
<1>2. /\ c \in alloc /\ c \in valid
      /\ userId[c] \in Id /\ userId[c] # Zero /\ UserIDSessionMap[userId[c]] = c
  BY DEF AssignUserId, Client, ValidMeansOpen, IdOwnership
<1>3. \A d \in alloc : userId[d] = u <=> d = h
  BY <1>1 DEF IdOwnership
<1>4. /\ valid' = valid \ {h}
      /\ alloc' = alloc /\ SessionExists' = SessionExists
      /\ ChannelClientTable' = ChannelClientTable
      /\ channelIndex' = channelIndex /\ channel' = channel
  BY DEF AssignUserId, Kicked
<1>5. \A d \in Conn : userId'[d] = IF d = c THEN u ELSE IF d = h THEN Zero ELSE userId[d]
  BY DEF AssignUserId, Surrendered
<1>6. \A w \in Id : UserIDSessionMap'[w] =
          IF w = u THEN c
          ELSE IF c # h /\ w = userId[c] THEN NoSession
          ELSE UserIDSessionMap[w]
  <2>1. CASE c = h
    <3>1. Surrendered(u)[c] = Zero
      BY <2>1 DEF Surrendered
    <3>2. UserIDSessionMap' = [UserIDSessionMap EXCEPT ![u] = c, ![Zero] = NoSession]
      BY <3>1 DEF AssignUserId, MapAssigned
    <3>3. UserIDSessionMap[Zero] = NoSession
      BY DEF IdOwnership
    <3>4. QED
      BY <1>1, <2>1, <3>2, <3>3
  <2>2. CASE c # h
    <3>1. Surrendered(u)[c] = userId[c]
      BY <2>2 DEF Surrendered
    <3>2. UserIDSessionMap' = [UserIDSessionMap EXCEPT ![u] = c, ![userId[c]] = NoSession]
      BY <3>1 DEF AssignUserId, MapAssigned
    <3>3. userId[c] # u
      BY <1>2, <1>3, <2>2
    <3>4. QED
      BY <1>1, <1>2, <2>2, <3>2, <3>3
  <2>3. QED
    BY <2>1, <2>2
<1>7. QED
  BY <1>1, <1>2, <1>3, <1>4, <1>5, <1>6

(* AssignUserId keeps the registry consistent: the effect on the map and on   *)
(* the userIds, and a kicked session that is queued exactly once.             *)
LEMMA AssignUserIdStep ==
  ASSUME IInv, ZeroNotRequested, NEW c \in Conn, NEW u \in Requestable, AssignUserId(c, u)
  PROVE  Registry'
<1> USE DEF IInv, TypeOK
<1> DEFINE h == UserIDSessionMap[u]
<1>1. u \in Id /\ u # Zero /\ Zero \in Id /\ NoSession \notin Conn
  BY AssignUserIdEffect
<1>2. /\ c \in alloc /\ c \in valid
      /\ userId[c] \in Id /\ userId[c] # Zero /\ UserIDSessionMap[userId[c]] = c
  BY AssignUserIdEffect
<1>3. \A d \in alloc : userId[d] = u <=> d = h
  BY AssignUserIdEffect
<1>4. /\ valid' = valid \ {h}
      /\ alloc' = alloc /\ SessionExists' = SessionExists
      /\ ChannelClientTable' = ChannelClientTable
      /\ channelIndex' = channelIndex /\ channel' = channel
  BY AssignUserIdEffect
<1>5. \A d \in Conn : userId'[d] = IF d = c THEN u ELSE IF d = h THEN Zero ELSE userId[d]
  BY AssignUserIdEffect
<1>6. \A w \in Id : UserIDSessionMap'[w] =
          IF w = u THEN c
          ELSE IF c # h /\ w = userId[c] THEN NoSession
          ELSE UserIDSessionMap[w]
  BY AssignUserIdEffect
<1>7. IdOwnership'
  <2>1. \A w \in Id : UserIDSessionMap'[w] # NoSession =>
           UserIDSessionMap'[w] \in alloc' /\ userId'[UserIDSessionMap'[w]] = w
    <3> SUFFICES ASSUME NEW w \in Id, UserIDSessionMap'[w] # NoSession
                 PROVE  UserIDSessionMap'[w] \in alloc' /\ userId'[UserIDSessionMap'[w]] = w
      OBVIOUS
    <3>1. CASE w = u
      BY <1>2, <1>4, <1>5, <1>6, <3>1
    <3>2. CASE w # u
      <4>1. UserIDSessionMap'[w] = UserIDSessionMap[w] /\ ~(c # h /\ w = userId[c])
        BY <1>6, <3>2
      <4>2. UserIDSessionMap[w] \in alloc /\ userId[UserIDSessionMap[w]] = w
        BY <4>1 DEF IdOwnership
      <4>3. UserIDSessionMap[w] # h
        BY <1>3, <3>2, <4>2
      <4>4. UserIDSessionMap[w] # c
        BY <1>3, <3>2, <4>1, <4>2, <4>3
      <4>5. QED
        BY <1>4, <1>5, <4>1, <4>2, <4>3, <4>4
    <3>3. QED
      BY <3>1, <3>2
  <2>2. \A d \in alloc' : userId'[d] # Zero => UserIDSessionMap'[userId'[d]] = d
    <3> SUFFICES ASSUME NEW d \in alloc', userId'[d] # Zero
                 PROVE  UserIDSessionMap'[userId'[d]] = d
      OBVIOUS
    <3>1. d \in Conn /\ d \in alloc
      BY <1>4
    <3>2. CASE d = c
      BY <1>1, <1>5, <1>6, <3>2
    <3>3. CASE d # c
      <4>1. d # h /\ userId'[d] = userId[d] /\ userId[d] \in Id /\ userId[d] # Zero
        BY <1>5, <3>1, <3>3
      <4>2. UserIDSessionMap[userId[d]] = d
        BY <3>1, <4>1 DEF IdOwnership
      <4>3. userId[d] # u /\ userId[d] # userId[c]
        BY <1>2, <3>3, <4>1, <4>2
      <4>4. QED
        BY <1>6, <4>1, <4>2, <4>3
    <3>4. QED
      BY <3>2, <3>3
  <2>3. UserIDSessionMap'[Zero] = NoSession
    BY <1>1, <1>6 DEF IdOwnership
  <2>4. \A d \in valid' : userId'[d] # Zero
    BY <1>1, <1>4, <1>5 DEF IdOwnership
  <2>5. QED
    BY <2>1, <2>2, <2>3, <2>4 DEF IdOwnership
<1>8. GarbageExactlyOnce'
  <2> SUFFICES ASSUME NEW d \in Conn
               PROVE  GarbageQueue'[d] = IF d \in alloc' \ valid' THEN 1 ELSE 0
    BY DEF GarbageExactlyOnce
  <2>1. GarbageQueue'[d] = GarbageQueue[d] + (IF d = h /\ d \in valid THEN 1 ELSE 0)
    BY DEF AssignUserId, Kicked
  <2>2. valid \subseteq alloc
    BY DEF ValidMeansOpen
  <2>3. GarbageQueue[d] = IF d \in alloc \ valid THEN 1 ELSE 0
    BY DEF GarbageExactlyOnce
  <2>4. QED
    BY <1>4, <2>1, <2>2, <2>3
<1>9. ValidMeansOpen'
  <2>1. \A d \in Conn : ws'[d] = IF d = h /\ d \in valid THEN "closing" ELSE ws[d]
    BY DEF AssignUserId, Kicked
  <2>2. QED
    BY <1>4, <2>1 DEF ValidMeansOpen
<1>10. ChannelTableExact'
  BY <1>4 DEF ChannelTableExact
<1>11. QED
  BY <1>7, <1>8, <1>9, <1>10 DEF Registry

(* A collection frees the retired sessions, finds each of them under its    *)
(* own userId, and drops exactly the channels that have no session left.    *)
LEMMA FreeGarbageStep ==
  ASSUME IInv, FreeGarbage
  PROVE  Registry'
<1> USE DEF IInv, TypeOK
<1> DEFINE freed == {c \in Conn : GarbageQueue[c] > 0}
<1>1. freed = alloc \ valid
  BY DEF GarbageExactlyOnce
<1>2. valid \subseteq alloc /\ Zero \in Id
  BY IdsAreIds DEF ValidMeansOpen
<1>3. /\ alloc' = alloc \ freed /\ valid' = valid /\ ws' = ws
      /\ SessionExists' = SessionExists \ freed
      /\ GarbageQueue' = [c \in Conn |-> 0]
  BY DEF FreeGarbage
<1>4. alloc' = valid
  BY <1>1, <1>2, <1>3
<1>5. \A c \in valid : userId'[c] = userId[c] /\ channel'[c] = channel[c]
  BY <1>1, <1>2 DEF FreeGarbage
<1>6. \A u \in Id : UserIDSessionMap'[u] =
          IF u # Zero /\ (\E c \in freed : userId[c] = u) THEN NoSession ELSE UserIDSessionMap[u]
  BY DEF FreeGarbage
<1>7. IdOwnership'
  <2>1. \A u \in Id : UserIDSessionMap'[u] # NoSession =>
           UserIDSessionMap'[u] \in alloc' /\ userId'[UserIDSessionMap'[u]] = u
    <3> SUFFICES ASSUME NEW u \in Id, UserIDSessionMap'[u] # NoSession
                 PROVE  UserIDSessionMap'[u] \in valid /\ userId'[UserIDSessionMap'[u]] = u
      BY <1>4
    <3>1. UserIDSessionMap'[u] = UserIDSessionMap[u] /\ ~\E c \in freed : u # Zero /\ userId[c] = u
      BY <1>6
    <3>2. UserIDSessionMap[u] \in alloc /\ userId[UserIDSessionMap[u]] = u /\ u # Zero
      BY <3>1 DEF IdOwnership
    <3>3. UserIDSessionMap[u] \in valid
      BY <1>1, <3>1, <3>2
    <3>4. QED
      BY <1>5, <3>1, <3>2, <3>3
  <2>2. \A d \in alloc' : userId'[d] # Zero => UserIDSessionMap'[userId'[d]] = d
    <3> SUFFICES ASSUME NEW d \in valid, userId[d] # Zero
                 PROVE  UserIDSessionMap'[userId[d]] = d
      BY <1>4, <1>5
    <3>1. UserIDSessionMap[userId[d]] = d /\ userId[d] \in Id
      BY <1>2 DEF IdOwnership
    <3>2. \A c \in freed : userId[c] # userId[d]
      BY <1>1, <1>2, <3>1 DEF IdOwnership
    <3>3. QED
      BY <1>6, <3>1, <3>2
  <2>3. UserIDSessionMap'[Zero] = NoSession
    BY <1>2, <1>6 DEF IdOwnership
  <2>4. \A d \in valid' : userId'[d] # Zero
    BY <1>3, <1>5 DEF IdOwnership
  <2>5. QED
    BY <2>1, <2>2, <2>3, <2>4 DEF IdOwnership
<1>8. GarbageExactlyOnce'
  BY <1>3, <1>4 DEF GarbageExactlyOnce
<1>9. ValidMeansOpen'
  BY <1>3, <1>4 DEF ValidMeansOpen
<1>10. ChannelTableExact'
  <2>1. channelIndex' = [ch \in Channel |-> channelIndex[ch] \ {c \in freed : channel[c] = ch}]
    BY DEF FreeGarbage
  <2>2. \A ch \in Channel : channelIndex'[ch] = {c \in alloc' : channel'[c] = ch}
    <3> SUFFICES ASSUME NEW ch \in Channel
                 PROVE  channelIndex'[ch] = {c \in valid : channel[c] = ch}
      BY <1>4, <1>5
    <3>1. channelIndex[ch] = {c \in alloc : channel[c] = ch}
      BY DEF ChannelTableExact
    <3>2. QED
      BY <1>1, <1>2, <2>1, <3>1
  <2>3. ASSUME NEW ch \in Channel
        PROVE  ch \in ChannelClientTable' <=> channelIndex'[ch] # {} \/ ch = Global
    <3>1. ch \in ChannelClientTable' <=>
             ch \in ChannelClientTable /\
             ~(ch \in {channel[c] : c \in freed} \ {Global} /\ channelIndex'[ch] = {})
      BY <2>1 DEF FreeGarbage, Emptied
    <3>2. ch \in ChannelClientTable <=> channelIndex[ch] # {} \/ ch = Global
      BY DEF ChannelTableExact
    <3>3. channelIndex'[ch] \subseteq channelIndex[ch]
      BY <2>1
    <3>4. ch \notin {channel[c] : c \in freed} => channelIndex'[ch] = channelIndex[ch]
      BY <2>1
    <3>5. QED
      BY <3>1, <3>2, <3>3, <3>4
  <2>4. SessionExists' = alloc'
    BY <1>3 DEF ChannelTableExact
  <2>5. QED
    BY <2>2, <2>3, <2>4 DEF ChannelTableExact
<1>11. QED
  BY <1>7, <1>8, <1>9, <1>10 DEF Registry

--------------------------------------------------------------------------------
(* Every step of the relay keeps the registry consistent.                     *)
LEMMA RegistryStep ==
  ASSUME ZeroNotRequested, IInv, [Next]_vars
  PROVE  Registry'
<1> USE DEF session
<1>1. ASSUME NEW c \in Conn, Connect(c) PROVE Registry'
  BY <1>1, SocketStep DEF Connect
<1>2. ASSUME NEW c \in Conn, NEW ch \in Channel, FirstPacket(c, ch) PROVE Registry'
  BY <1>2, FirstPacketStep
<1>3. ASSUME NEW c \in Conn, FirstPacketTooLong(c) PROVE Registry'
  BY <1>3, SocketStep DEF FirstPacketTooLong
<1>4. ASSUME NEW c \in Conn,
             \/ Broadcast(c) \/ Authenticate(c) \/ ListChannels(c)
             \/ TransmitChannelVariable(c)
             \/ \E u \in Id : PrivateMessage(c, u)
             \/ \E mode \in Modes : SetListenerMode(c, mode)
             \/ \E k \in Key, val \in Value : AssignChannelVariable(c, k, val)
      PROVE  Registry'
  <2>1. UNCHANGED <<ws, alloc, valid, userId, channel, tables, GarbageQueue>>
    BY <1>4 DEF Broadcast, Authenticate, ListChannels, TransmitChannelVariable,
                PrivateMessage, SetListenerMode, AssignChannelVariable
  <2>2. QED
    BY <2>1, UntouchedStep
<1>5. ASSUME NEW c \in Conn, NEW u \in Requestable, AssignUserId(c, u) PROVE Registry'
  BY <1>5, AssignUserIdStep
<1>6. ASSUME NEW c \in Conn, DisconnectClient(c) PROVE Registry'
  <2>1. ws[c] = "open" /\ c \in valid
    BY <1>6 DEF DisconnectClient, Client, IInv, ValidMeansOpen
  <2>2. QED
    BY <1>6, <2>1, LeaveStep DEF DisconnectClient
<1>7. ASSUME NEW c \in Conn, PeerClose(c) PROVE Registry'
  BY <1>7, LeaveStep DEF PeerClose, OnDisconnection
<1>8. ASSUME NEW c \in Conn, SocketEnd(c) PROVE Registry'
  <2>1. CASE ws[c] = "open"
    BY <1>8, <2>1, LeaveStep DEF SocketEnd, OnDisconnection
  <2>2. CASE ws[c] # "open"
    BY <1>8, <2>2, SocketStep DEF SocketEnd
  <2>3. QED
    BY <2>1, <2>2
<1>9. CASE FreeGarbage
  BY <1>9, FreeGarbageStep
<1>10. CASE UNCHANGED vars
  BY <1>10, UntouchedStep DEF vars
<1>11. QED
  BY <1>1, <1>2, <1>3, <1>4, <1>5, <1>6, <1>7, <1>8, <1>9, <1>10 DEF Next, ClientStep

(* Unless somebody asks for userId 0, the registry is always consistent.    *)
THEOREM RegistryInvariant == ASSUME ZeroNotRequested PROVE Spec => []IInv
<1>1. Init => IInv
  <2> SUFFICES ASSUME Init PROVE IInv
    OBVIOUS
  <2>1. TypeOK
    BY NothingIsMessage, IdsAreIds, RelayAssumption DEF Init, TypeOK, Unset, Mask
  <2>2. IdOwnership
    BY IdsAreIds DEF Init, IdOwnership
  <2>3. GarbageExactlyOnce /\ ValidMeansOpen /\ ChannelTableExact
    BY DEF Init, GarbageExactlyOnce, ValidMeansOpen, ChannelTableExact
  <2>4. QED
    BY <2>1, <2>2, <2>3 DEF IInv
<1>2. IInv /\ TypeOK' /\ [Next]_vars => IInv'
  BY RegistryStep DEF IInv, Registry
<1>3. QED
  BY <1>1, <1>2, TypeCorrect, PTL DEF Spec

(* A userId found in UserIDSessionMap is the address of an allocated        *)
(* session, and of one only.                                                *)
THEOREM IdOwnershipHolds == ASSUME ZeroNotRequested PROVE Spec => []IdOwnership
<1>1. IInv => IdOwnership
  BY DEF IInv
<1>2. QED
  BY <1>1, RegistryInvariant, PTL

(* No session is deleted twice and none is leaked.                          *)
THEOREM GarbageHolds == ASSUME ZeroNotRequested PROVE Spec => []GarbageExactlyOnce
<1>1. IInv => GarbageExactlyOnce
  BY DEF IInv
<1>2. QED
  BY <1>1, RegistryInvariant, PTL

(* A handler that finds a session valid may send to its socket.             *)
THEOREM ValidHolds == ASSUME ZeroNotRequested PROVE Spec => []ValidMeansOpen
<1>1. IInv => ValidMeansOpen
  BY DEF IInv
<1>2. QED
  BY <1>1, RegistryInvariant, PTL

(* The channels are those of the allocated sessions.                        *)
THEOREM ChannelTableHolds == ASSUME ZeroNotRequested PROVE Spec => []ChannelTableExact
<1>1. IInv => ChannelTableExact
  BY DEF IInv
<1>2. QED
  BY <1>1, RegistryInvariant, PTL

--------------------------------------------------------------------------------
(* The refinement.  The user at an address is the valid session that the    *)
(* map finds there, so it is enough to follow that session through a step.  *)

(* The directory at one address.                                              *)
LEMMA DirectoryValue ==
  ASSUME TypeOK, NEW u \in Id, u # Zero
  PROVE  directory[u] = IF UserIDSessionMap[u] \in valid
                        THEN channel[UserIDSessionMap[u]] ELSE Offline
  BY DEF directory

(* A step that leaves the map, the channels and the valid sessions alone      *)
(* leaves the directory alone.                                                *)
LEMMA DirectorySame ==
  ASSUME \A u \in Id \ {Zero} :
            /\ UserIDSessionMap'[u] \in valid' <=> UserIDSessionMap[u] \in valid
            /\ UserIDSessionMap[u] \in valid =>
                  channel'[UserIDSessionMap'[u]] = channel[UserIDSessionMap[u]]
  PROVE  directory' = directory
  BY DEF directory

(* The user at the userId of a valid session is that session, in its channel. *)
LEMMA OnlineIsValid ==
  ASSUME TypeOK, NEW u \in Id \ {Zero}
  PROVE  D!Online(u) <=> UserIDSessionMap[u] \in valid
<1>1. directory[u] = IF UserIDSessionMap[u] \in valid
                     THEN channel[UserIDSessionMap[u]] ELSE Offline
  BY DirectoryValue
<1>2. UserIDSessionMap[u] \in valid => channel[UserIDSessionMap[u]] \in Channel
  BY DEF TypeOK
<1>3. QED
  BY <1>1, <1>2, RelayAssumption DEF D!Online

(* An arrival, a departure or a move is a step of the directory: it changes   *)
(* the place it starts from.                                                  *)
LEMMA DirectoryStep ==
  ASSUME NEW u \in Id \ {Zero},
         \/ \E ch \in Channel : D!Arrive(u, ch)
         \/ D!Depart(u)
         \/ \E w \in Id \ {Zero} : D!Move(u, w)
  PROVE  D!DirectoryNext
<1>1. DOMAIN directory = Id \ {Zero}
  BY DEF directory
<1>2. ASSUME NEW ch \in Channel, D!Arrive(u, ch) PROVE directory'[u] # directory[u]
  BY <1>1, <1>2, RelayAssumption DEF D!Arrive, D!Online
<1>3. ASSUME D!Depart(u) PROVE directory'[u] # directory[u]
  BY <1>1, <1>3 DEF D!Depart, D!Online
<1>4. ASSUME NEW w \in Id \ {Zero}, D!Move(u, w) PROVE directory'[u] # directory[u]
  BY <1>1, <1>4 DEF D!Move, D!Online
<1>5. QED
  BY <1>2, <1>3, <1>4 DEF D!DirectoryNext

(* A session that becomes invalid without anything else changing departs    *)
(* from the address it has.                                                 *)
LEMMA DepartStep ==
  ASSUME IInv, NEW c \in valid, valid' = valid \ {c},
         UserIDSessionMap' = UserIDSessionMap, channel' = channel
  PROVE  D!Depart(userId[c])
<1> USE DEF IInv, TypeOK
<1> DEFINE u == userId[c]
<1>1. u \in Id \ {Zero} /\ UserIDSessionMap[u] = c
  BY DEF IdOwnership, ValidMeansOpen
<1>2. D!Online(u)
  BY <1>1, OnlineIsValid
<1>3. \A w \in Id \ {Zero} : UserIDSessionMap[w] = c => w = u
  BY <1>1, RelayAssumption DEF IdOwnership
<1>4. directory' = [directory EXCEPT ![u] = Offline]
  BY <1>1, <1>3 DEF directory
<1>5. QED
  BY <1>2, <1>4 DEF D!Depart

(* A first packet is an arrival at an address where nobody was.               *)
LEMMA ArriveStep ==
  ASSUME IInv, NEW c \in Conn, NEW ch \in Channel, FirstPacket(c, ch)
  PROVE  \E u \in Id \ {Zero} : D!Arrive(u, ch)
<1> USE DEF IInv, TypeOK
<1>1. PICK u \in Generated : /\ UserIDSessionMap[u] = NoSession
                             /\ UserIDSessionMap' = [UserIDSessionMap EXCEPT ![u] = c]
  BY DEF FirstPacket, Unused
<1>2. u \in Id \ {Zero}
  BY IdsAreIds, RelayAssumption
<1>3. c \notin alloc /\ valid \subseteq alloc /\ NoSession \notin valid
  BY RelayAssumption DEF FirstPacket, ValidMeansOpen
<1>4. valid' = valid \cup {c} /\ channel' = [channel EXCEPT ![c] = ch]
  BY DEF FirstPacket
<1>5. ~D!Online(u)
  BY <1>1, <1>2, <1>3, OnlineIsValid
<1>6. \A w \in Id : UserIDSessionMap[w] # c
  BY <1>3, RelayAssumption DEF IdOwnership
<1>7. directory' = [directory EXCEPT ![u] = ch]
  BY <1>1, <1>2, <1>3, <1>4, <1>6 DEF directory
<1>8. QED
  BY <1>2, <1>5, <1>7 DEF D!Arrive

(* AssignUserId is a move to another address, which replaces the user who     *)
(* was there; to the address the client has already, it is a departure.       *)
LEMMA MoveStep ==
  ASSUME IInv, ZeroNotRequested, NEW c \in Conn, NEW u \in Requestable, AssignUserId(c, u)
  PROVE  \E v \in Id \ {Zero} : D!Depart(v) \/ \E w \in Id \ {Zero} : D!Move(v, w)
<1> USE DEF IInv, TypeOK
<1> DEFINE h == UserIDSessionMap[u]
           v == userId[c]
<1>1. /\ u \in Id \ {Zero} /\ NoSession \notin Conn
      /\ c \in valid /\ v \in Id \ {Zero} /\ UserIDSessionMap[v] = c
      /\ \A d \in alloc : userId[d] = u <=> d = h
      /\ valid' = valid \ {h} /\ channel' = channel
  BY AssignUserIdEffect
<1>2. \A w \in Id : UserIDSessionMap'[w] =
          IF w = u THEN c ELSE IF c # h /\ w = v THEN NoSession ELSE UserIDSessionMap[w]
  BY AssignUserIdEffect
<1>3. CASE c = h
  <2>1. UserIDSessionMap' = UserIDSessionMap
    <3>1. UserIDSessionMap' \in [Id -> Conn \cup {NoSession}]
      <4>1. Surrendered(u)[c] = Zero
        BY <1>3 DEF Surrendered
      <4>2. QED
        BY <4>1 DEF AssignUserId, MapAssigned
    <3>2. QED
      BY <1>2, <1>3, <3>1
  <2>2. D!Depart(v)
    BY <1>1, <1>3, <2>1, DepartStep
  <2>3. QED
    BY <1>1, <2>2
<1>4. CASE c # h
  <2>1. u # v /\ c \in valid' /\ D!Online(v)
    BY <1>1, <1>4, OnlineIsValid
  <2>2. \A w \in Id \ {Zero, u, v} : UserIDSessionMap[w] # h \/ UserIDSessionMap[w] \notin valid
    BY <1>1 DEF IdOwnership
  <2>3. directory[v] = channel[c]
    BY <1>1 DEF directory
  <2>4. directory' = [directory EXCEPT ![v] = Offline, ![u] = directory[v]]
    <3>1. directory' = [w \in Id \ {Zero} |->
                           IF w = u THEN channel[c] ELSE IF w = v THEN Offline ELSE directory[w]]
      BY <1>1, <1>2, <1>4, <2>1, <2>2 DEF directory
    <3>2. QED
      BY <1>1, <2>1, <2>3, <3>1 DEF directory
  <2>5. D!Move(v, u)
    BY <2>1, <2>4 DEF D!Move
  <2>6. QED
    BY <1>1, <2>5
<1>5. QED
  BY <1>3, <1>4

(* A collection frees sessions that are invalid already, so it changes        *)
(* nothing that the directory shows.                                          *)
LEMMA CollectStep ==
  ASSUME IInv, FreeGarbage
  PROVE  directory' = directory
<1> USE DEF IInv, TypeOK
<1>1. {c \in Conn : GarbageQueue[c] > 0} = alloc \ valid /\ NoSession \notin valid
  BY RelayAssumption DEF GarbageExactlyOnce
<1>2. /\ valid' = valid
      /\ \A c \in valid : channel'[c] = channel[c]
      /\ \A u \in Id : UserIDSessionMap'[u] =
             IF u # Zero /\ (\E c \in alloc \ valid : userId[c] = u)
             THEN NoSession ELSE UserIDSessionMap[u]
  BY <1>1 DEF FreeGarbage
<1>3. \A u \in Id : UserIDSessionMap[u] \in valid => UserIDSessionMap'[u] = UserIDSessionMap[u]
  BY <1>1, <1>2 DEF IdOwnership
<1>4. QED
  BY <1>1, <1>2, <1>3, DirectorySame

(* The relay, with its sessions, tables and garbage, behaves as a directory *)
(* of the userIds that can be addressed.                                    *)
THEOREM Refinement == ASSUME ZeroNotRequested PROVE Spec => ImplementsDirectory
<1>1. Init => D!DirectoryInit
  BY RelayAssumption DEF Init, directory, D!DirectoryInit
<1>2. IInv /\ [Next]_vars => [D!DirectoryNext]_directory
  <2> SUFFICES ASSUME IInv, [Next]_vars PROVE D!DirectoryNext \/ directory' = directory
    OBVIOUS
  <2>1. ASSUME NEW c \in Conn, NEW ch \in Channel, FirstPacket(c, ch) PROVE D!DirectoryNext
    BY <2>1, ArriveStep, DirectoryStep
  <2>2. ASSUME NEW c \in Conn, NEW u \in Requestable, AssignUserId(c, u) PROVE D!DirectoryNext
    BY <2>2, MoveStep, DirectoryStep
  <2>3. ASSUME NEW c \in valid, Retire(c), UserIDSessionMap' = UserIDSessionMap, channel' = channel
        PROVE  D!DirectoryNext
    <3>1. userId[c] \in Id \ {Zero}
      BY DEF IInv, TypeOK, IdOwnership
    <3>2. QED
      BY <2>3, <3>1, DepartStep, DirectoryStep DEF Retire
  <2>4. ASSUME valid' = valid, UserIDSessionMap' = UserIDSessionMap, channel' = channel
        PROVE  directory' = directory
    BY <2>4 DEF directory
  <2>5. ASSUME NEW c \in Conn, DisconnectClient(c) PROVE D!DirectoryNext
    <3>1. c \in valid
      BY <2>5 DEF DisconnectClient, Client, IInv, ValidMeansOpen
    <3>2. QED
      BY <2>3, <2>5, <3>1 DEF DisconnectClient, tables
  <2>6. ASSUME NEW c \in Conn, OnDisconnection(c) PROVE D!DirectoryNext \/ directory' = directory
    BY <2>3, <2>4, <2>6 DEF OnDisconnection, tables
  <2>7. ASSUME NEW c \in Conn, PeerClose(c) \/ SocketEnd(c)
        PROVE  D!DirectoryNext \/ directory' = directory
    BY <2>4, <2>6, <2>7 DEF PeerClose, SocketEnd, session, tables
  <2>8. CASE FreeGarbage
    BY <2>8, CollectStep
  <2>9. ASSUME NEW c \in Conn,
               \/ Connect(c) \/ FirstPacketTooLong(c)
               \/ Broadcast(c) \/ Authenticate(c) \/ ListChannels(c)
               \/ TransmitChannelVariable(c)
               \/ \E u \in Id : PrivateMessage(c, u)
               \/ \E mode \in Modes : SetListenerMode(c, mode)
               \/ \E k \in Key, val \in Value : AssignChannelVariable(c, k, val)
        PROVE  directory' = directory
    <3>1. valid' = valid /\ UserIDSessionMap' = UserIDSessionMap /\ channel' = channel
      BY <2>9 DEF Connect, FirstPacketTooLong, Broadcast, Authenticate, ListChannels,
                  TransmitChannelVariable, PrivateMessage, SetListenerMode,
                  AssignChannelVariable, session, tables
    <3>2. QED
      BY <2>4, <3>1
  <2>10. CASE UNCHANGED vars
    BY <2>4, <2>10 DEF vars, session, tables
  <2>11. QED
    BY <2>1, <2>2, <2>5, <2>7, <2>8, <2>9, <2>10 DEF Next, ClientStep
<1>3. QED
  BY <1>1, <1>2, RegistryInvariant, PTL DEF Spec, ImplementsDirectory, D!DirectorySpec
--------------------------------------------------------------------------------
(* Who receives what.  What a handler sends is determined by the tables it  *)
(* reads, so the invariant above carries most of it; that listeners are     *)
(* authenticated is the part it lacks.                                      *)

(* Only request 1 of an authenticated client sets listenerMode, and the     *)
(* collector clears both together.                                          *)
ListenersAuthenticated == \A c \in Conn : listenerMode[c] # {} => authLevel[c] = 1

Delivery == BroadcastExact /\ PrivateConfined /\ DisconnectExact

DeliveryInv == ListenersAuthenticated /\ Delivery

(* How often a message built by Sent goes to a socket.                      *)
LEMMA SentCopies ==
  \A kind, from, A, B : \A d \in Conn :
     /\ Sent(kind, from, A, B).kind = kind
     /\ Sent(kind, from, A, B).from = from
     /\ Sent(kind, from, A, B).copies[d] = (IF d \in A THEN 1 ELSE 0) + (IF d \in B THEN 1 ELSE 0)
  BY DEF Sent, Copies

(* A message of another kind is none that the three properties speak of.    *)
LEMMA OtherKind ==
  ASSUME out'.kind \notin {"broadcast", "private", "disconnect"}
  PROVE  Delivery'
  BY DEF Delivery, BroadcastExact, PrivateConfined, DisconnectExact

(* A handler that sends nothing, or an answer to the client itself.         *)
LEMMA QuietStep ==
  ASSUME NEW kind \in {"userId", "channels", "variable"}, NEW from, NEW A,
         out' = Nothing \/ out' = Sent(kind, from, A, {})
  PROVE  Delivery'
<1>1. out'.kind \notin {"broadcast", "private", "disconnect"}
  BY DEF Nothing, Sent
<1> QED
  BY <1>1, OtherKind

(* The sessions the loops pass are those in the channel, and those of       *)
(* re_globl that listen, who are authenticated.                             *)
LEMMA ReceiverFacts ==
  ASSUME IInv, ListenersAuthenticated, NEW d \in Conn
  PROVE  /\ \A ch \in Channel : d \in Receivers(channelIndex[ch]) <=> d \in valid /\ channel[d] = ch
         /\ \A mask : d \in Receivers(Listeners(mask)) <=> d \in valid /\ MayListen(d, mask)
         /\ d \in valid => d \in SessionExists
<1>1. Global \in Channel
  BY RelayAssumption
<1>2. \A ch \in Channel : channelIndex[ch] = {e \in alloc : channel[e] = ch}
  BY DEF IInv, ChannelTableExact
<1>3. valid \subseteq alloc /\ SessionExists = alloc
  BY DEF IInv, ValidMeansOpen, ChannelTableExact
<1>4. \A mask : d \in Listeners(mask) <=>
                   d \in alloc /\ channel[d] = Global /\ mask \in listenerMode[d]
  BY <1>1, <1>2 DEF Listeners
<1>5. \A mask : mask \in listenerMode[d] => authLevel[d] = 1
  BY DEF ListenersAuthenticated
<1> QED
  BY <1>2, <1>3, <1>4, <1>5 DEF Receivers, MayListen

(* A client that sends a message is valid, and is found at its userId.      *)
LEMMA ClientFacts ==
  ASSUME IInv, NEW c \in Conn, Client(c)
  PROVE  /\ c \in alloc /\ c \in valid /\ channel[c] \in Channel
         /\ userId[c] \in Id /\ userId[c] # Zero /\ UserIDSessionMap[userId[c]] = c
  BY DEF IInv, TypeOK, Client, ValidMeansOpen, IdOwnership

(* A broadcast goes where BroadcastExact says.                              *)
LEMMA BroadcastStep ==
  ASSUME IInv, ListenersAuthenticated, NEW c \in Conn, Broadcast(c)
  PROVE  Delivery'
<1>1. Client(c) /\ UNCHANGED <<valid, channel, authLevel, listenerMode, UserIDSessionMap>>
  BY DEF Broadcast, session, tables
<1>2. c \in valid /\ channel[c] \in Channel /\ UserIDSessionMap[userId[c]] = c
  BY <1>1, ClientFacts
<1>3. out'.kind = "broadcast" /\ out'.from = userId[c]
  BY DEF Broadcast, Sent
<1>4. ASSUME NEW d \in Conn
      PROVE  out'.copies[d] = IF /\ d \in valid \ {c}
                                 /\ \/ channel[c] = Global
                                    \/ channel[d] = channel[c]
                                    \/ MayListen(d, "channel")
                              THEN 1 ELSE 0
  <2>1. CASE channel[c] = Global
    <3>1. out'.copies[d] = IF d \in Receivers(SessionExists \ {c}) THEN 1 ELSE 0
      BY <2>1, SentCopies DEF Broadcast
    <3> QED
      BY <2>1, <3>1, ReceiverFacts DEF Receivers
  <2>2. CASE channel[c] # Global
    <3>1. out'.copies[d] =
             (IF d \in Receivers(channelIndex[channel[c]] \ {c}) THEN 1 ELSE 0)
             + (IF d \in Receivers(Listeners("channel") \ {c}) THEN 1 ELSE 0)
      BY <2>2, SentCopies DEF Broadcast
    <3>2. d \in Receivers(channelIndex[channel[c]] \ {c})
             <=> d # c /\ d \in valid /\ channel[d] = channel[c]
      BY <1>2, ReceiverFacts DEF Receivers
    <3>3. d \in Receivers(Listeners("channel") \ {c})
             <=> d # c /\ d \in valid /\ MayListen(d, "channel")
      BY ReceiverFacts DEF Receivers
    <3>4. ~(channel[d] = channel[c] /\ MayListen(d, "channel"))
      BY <2>2 DEF MayListen
    <3> QED
      BY <2>2, <3>1, <3>2, <3>3, <3>4
  <2> QED
    BY <2>1, <2>2
<1>5. BroadcastExact'
  BY <1>1, <1>2, <1>3, <1>4 DEF BroadcastExact, MayListen
<1> QED
  BY <1>3, <1>5 DEF Delivery, PrivateConfined, DisconnectExact

(* A private message goes to its target and the listeners, to nobody twice. *)
LEMMA PrivateStep ==
  ASSUME IInv, ListenersAuthenticated, NEW c \in Conn, NEW u \in Id, PrivateMessage(c, u)
  PROVE  Delivery'
<1>1. UNCHANGED <<valid, channel, authLevel, listenerMode>>
  BY DEF PrivateMessage, session
<1>2. CASE UserIDSessionMap[u] = NoSession
  BY <1>2, QuietStep DEF PrivateMessage
<1>3. CASE UserIDSessionMap[u] # NoSession
  <2> DEFINE target == UserIDSessionMap[u]
  <2>1. target \in Conn
    BY <1>3 DEF IInv, TypeOK
  <2>2. out' = Forwarded(c, target)
    BY <1>3 DEF PrivateMessage
  <2>3. out'.kind = "private"
    BY <2>2 DEF Forwarded, Sent
  <2>4. ASSUME NEW d \in Conn
        PROVE  out'.copies[d] = (IF d \in Receivers({target}) THEN 1 ELSE 0)
                  + (IF d \in Receivers(Listeners("private") \ {target}) THEN 1 ELSE 0)
    BY <2>2, SentCopies DEF Forwarded
  <2>5. ASSUME NEW d \in Conn PROVE out'.copies[d] <= 1
    <3>1. ~(d \in Receivers({target}) /\ d \in Receivers(Listeners("private") \ {target}))
      BY DEF Receivers
    <3> QED
      BY <2>4, <3>1
  <2>6. ASSUME NEW d \in Conn \ {target}
        PROVE  out'.copies[d] = IF d \in valid /\ MayListen(d, "private") THEN 1 ELSE 0
    <3>1. d \notin Receivers({target})
      BY DEF Receivers
    <3>2. d \in Receivers(Listeners("private") \ {target})
             <=> d \in valid /\ MayListen(d, "private")
      BY ReceiverFacts DEF Receivers
    <3> QED
      BY <2>4, <3>1, <3>2
  <2>7. PrivateConfined'
    BY <1>1, <2>1, <2>5, <2>6 DEF PrivateConfined, MayListen
  <2> QED
    BY <2>3, <2>7 DEF Delivery, BroadcastExact, DisconnectExact
<1> QED
  BY <1>2, <1>3

(* The event of a session that has just been retired reaches those left in  *)
(* its channel, and the listeners.                                          *)
LEMMA EventStep ==
  ASSUME IInv, ListenersAuthenticated, NEW c \in Conn, c \in alloc, c \in valid,
         out' = DisconnectEvent(c, userId[c]), valid' = valid \ {c},
         UNCHANGED <<alloc, channel, authLevel, listenerMode, UserIDSessionMap>>
  PROVE  Delivery'
<1>1. channel[c] \in Channel /\ UserIDSessionMap[userId[c]] = c
  BY DEF IInv, TypeOK, IdOwnership
<1>2. out'.kind = "disconnect" /\ out'.from = userId[c]
  BY DEF DisconnectEvent, Sent
<1>3. ASSUME NEW d \in Conn
      PROVE  out'.copies[d] = IF d \notin valid \ {c} THEN 0
                              ELSE (IF channel[d] = channel[c] THEN 1 ELSE 0)
                                   + (IF MayListen(d, "disconnect") THEN 1 ELSE 0)
  <2>1. out'.copies[d] =
           (IF d \in Receivers(channelIndex[channel[c]] \ {c}) THEN 1 ELSE 0)
           + (IF d \in Receivers(Listeners("disconnect") \ {c}) THEN 1 ELSE 0)
    BY SentCopies DEF DisconnectEvent
  <2>2. d \in Receivers(channelIndex[channel[c]] \ {c})
           <=> d # c /\ d \in valid /\ channel[d] = channel[c]
    BY <1>1, ReceiverFacts DEF Receivers
  <2>3. d \in Receivers(Listeners("disconnect") \ {c})
           <=> d # c /\ d \in valid /\ MayListen(d, "disconnect")
    BY ReceiverFacts DEF Receivers
  <2> QED
    BY <2>1, <2>2, <2>3
<1>4. DisconnectExact'
  BY <1>1, <1>2, <1>3 DEF DisconnectExact, MayListen
<1> QED
  BY <1>2, <1>4 DEF Delivery, BroadcastExact, PrivateConfined

(* onDisconnection: the event of a session, or nothing.                     *)
LEMMA DisconnectionStep ==
  ASSUME IInv, ListenersAuthenticated, NEW c \in Conn, ws[c] = "open", OnDisconnection(c)
  PROVE  Delivery'
<1>1. CASE c \in alloc
  <2>1. c \in valid
    BY <1>1 DEF IInv, ValidMeansOpen
  <2> QED
    BY <1>1, <2>1, EventStep DEF OnDisconnection, Retire, tables
<1>2. CASE c \notin alloc
  BY <1>2, QuietStep DEF OnDisconnection
<1> QED
  BY <1>1, <1>2

(* Every step delivers as the three properties say, and keeps listeners     *)
(* authenticated.                                                           *)
LEMMA DeliveryNext == ASSUME IInv, DeliveryInv, [Next]_vars PROVE DeliveryInv'
<1> USE DEF DeliveryInv
<1>1. ListenersAuthenticated'
  <2>1. ASSUME NEW c \in Conn, NEW mode \in Modes, SetListenerMode(c, mode)
        PROVE  ListenersAuthenticated'
    BY <2>1 DEF SetListenerMode, ListenersAuthenticated, IInv, TypeOK
  <2>2. ASSUME NEW c \in Conn, Authenticate(c) PROVE ListenersAuthenticated'
    BY <2>2 DEF Authenticate, ListenersAuthenticated, IInv, TypeOK
  <2>3. CASE FreeGarbage
    BY <2>3 DEF FreeGarbage, ListenersAuthenticated
  <2>4. CASE UNCHANGED <<listenerMode, authLevel>>
    BY <2>4 DEF ListenersAuthenticated
  <2>5. ASSUME NEW c \in Conn, ClientStep(c) PROVE ListenersAuthenticated'
    <3>1. \/ UNCHANGED <<listenerMode, authLevel>>
          \/ Authenticate(c)
          \/ \E mode \in Modes : SetListenerMode(c, mode)
      BY <2>5
      DEF ClientStep, Connect, FirstPacket, FirstPacketTooLong, Broadcast, PrivateMessage,
          ListChannels, AssignChannelVariable, TransmitChannelVariable, DisconnectClient,
          PeerClose, SocketEnd, OnDisconnection, session
    <3> QED
      BY <2>1, <2>2, <2>4, <3>1
  <2>6. ASSUME NEW c \in Conn, NEW u \in Requestable, AssignUserId(c, u)
        PROVE  ListenersAuthenticated'
    BY <2>4, <2>6 DEF AssignUserId
  <2>7. CASE UNCHANGED vars
    BY <2>4, <2>7 DEF vars, session
  <2> QED
    BY <2>3, <2>5, <2>6, <2>7 DEF Next
<1>2. Delivery'
  <2>1. ASSUME NEW c \in Conn, Connect(c) \/ FirstPacketTooLong(c) \/ Authenticate(c)
        PROVE  Delivery'
    BY <2>1, QuietStep DEF Connect, FirstPacketTooLong, Authenticate
  <2>2. ASSUME NEW c \in Conn, NEW ch \in Channel, FirstPacket(c, ch) PROVE Delivery'
    BY <2>2, QuietStep DEF FirstPacket
  <2>3. ASSUME NEW c \in Conn, NEW mode \in Modes, SetListenerMode(c, mode) PROVE Delivery'
    BY <2>3, QuietStep DEF SetListenerMode
  <2>4. ASSUME NEW c \in Conn, ListChannels(c) \/ TransmitChannelVariable(c) PROVE Delivery'
    BY <2>4, QuietStep DEF ListChannels, TransmitChannelVariable
  <2>5. ASSUME NEW c \in Conn, NEW k \in Key, NEW val \in Value, AssignChannelVariable(c, k, val)
        PROVE  Delivery'
    BY <2>5, QuietStep DEF AssignChannelVariable
  <2>6. ASSUME NEW c \in Conn, DisconnectClient(c) PROVE Delivery'
    <3>1. c \in alloc /\ c \in valid
      BY <2>6, ClientFacts DEF DisconnectClient
    <3> QED
      BY <2>6, <3>1, EventStep DEF DisconnectClient, Retire, tables
  <2>7. ASSUME NEW c \in Conn, PeerClose(c) PROVE Delivery'
    BY <2>7, DisconnectionStep DEF PeerClose
  <2>8. ASSUME NEW c \in Conn, SocketEnd(c) PROVE Delivery'
    BY <2>8, DisconnectionStep, QuietStep DEF SocketEnd
  <2>9. ASSUME NEW c \in Conn, NEW u \in Requestable, AssignUserId(c, u) PROVE Delivery'
    <3>1. CASE Kicked(u) = {}
      BY <2>9, <3>1, QuietStep DEF AssignUserId
    <3>2. CASE Kicked(u) # {}
      <4>1. out'.kind = "disconnect" /\ out'.from = Zero
        BY <2>9, <3>2 DEF AssignUserId, DisconnectEvent, Sent
      <4> QED
        BY <4>1 DEF Delivery, BroadcastExact, PrivateConfined, DisconnectExact
    <3> QED
      BY <3>1, <3>2
  <2>10. CASE FreeGarbage
    BY <2>10, QuietStep DEF FreeGarbage
  <2>11. CASE UNCHANGED vars
    BY <2>11 DEF vars, session, tables, Delivery, BroadcastExact, PrivateConfined,
                 DisconnectExact, MayListen
  <2> QED
    BY <2>1, <2>2, <2>3, <2>4, <2>5, <2>6, <2>7, <2>8, <2>9, <2>10, <2>11,
       BroadcastStep, PrivateStep
    DEF Next, ClientStep
<1> QED
  BY <1>1, <1>2

(* The three delivery properties always hold together, given that userId 0  *)
(* is not requested (relay.cpp: the loops of HandleBinaryMessages,          *)
(* HandleTextMessages and onDisconnection).                                 *)
THEOREM DeliveryInvariant == ASSUME ZeroNotRequested PROVE Spec => []DeliveryInv
<1>1. Init => DeliveryInv
  BY DEF Init, DeliveryInv, ListenersAuthenticated, Delivery, BroadcastExact,
         PrivateConfined, DisconnectExact, Nothing, Sent
<1>2. Spec => []IInv
  BY RegistryInvariant
<1>3. IInv /\ DeliveryInv /\ [Next]_vars => DeliveryInv'
  BY DeliveryNext
<1> QED
  BY <1>1, <1>2, <1>3, PTL DEF Spec

(* Broadcasts reach exactly the users they are for, once.                   *)
THEOREM BroadcastHolds == ASSUME ZeroNotRequested PROVE Spec => []BroadcastExact
<1>1. Spec => []DeliveryInv
  BY DeliveryInvariant
<1>2. DeliveryInv => BroadcastExact
  BY DEF DeliveryInv, Delivery
<1> QED
  BY <1>1, <1>2, PTL

(* Private messages reach their target and authenticated listeners only.    *)
THEOREM PrivateHolds == ASSUME ZeroNotRequested PROVE Spec => []PrivateConfined
<1>1. Spec => []DeliveryInv
  BY DeliveryInvariant
<1>2. DeliveryInv => PrivateConfined
  BY DEF DeliveryInv, Delivery
<1> QED
  BY <1>1, <1>2, PTL

(* Disconnect events reach exactly those who are left, and the listeners.   *)
THEOREM DisconnectHolds == ASSUME ZeroNotRequested PROVE Spec => []DisconnectExact
<1>1. Spec => []DeliveryInv
  BY DeliveryInvariant
<1>2. DeliveryInv => DisconnectExact
  BY DEF DeliveryInv, Delivery
<1> QED
  BY <1>1, <1>2, PTL

--------------------------------------------------------------------------------
Keeps == \A ch \in Channel, k \in Key :
            ChannelVariables[ch][k] # NoValue /\ ChannelVariables'[ch][k] = NoValue
               => \A c \in valid : channel[c] # ch

(* A channel that a collection leaves empty had no valid session.           *)
LEMMA KeptByCollection == ASSUME IInv, FreeGarbage PROVE Keeps
<1> DEFINE freed == {c \in Conn : GarbageQueue[c] > 0}
           remaining == [ch \in Channel |-> channelIndex[ch] \ {c \in freed : channel[c] = ch}]
           emptied == Emptied(freed, remaining)
<1>1. PICK found \in SUBSET emptied :
         ChannelVariables' = [ch \in Channel |-> IF ch \in found THEN Unset
                                                 ELSE ChannelVariables[ch]]
  BY DEF FreeGarbage
<1>2. \A c \in valid : c \in alloc /\ c \in Conn /\ c \notin freed
  BY DEF IInv, TypeOK, ValidMeansOpen, GarbageExactlyOnce
<1>3. ASSUME NEW ch \in Channel, ch \in found, NEW c \in valid, channel[c] = ch PROVE FALSE
  <2>1. remaining[ch] = {}
    BY <1>3 DEF Emptied
  <2>2. c \in channelIndex[ch]
    BY <1>2, <1>3 DEF IInv, ChannelTableExact
  <2>3. c \in remaining[ch]
    BY <1>2, <1>3, <2>2
  <2> QED
    BY <2>1, <2>3
<1> HIDE DEF emptied
<1>4. \A ch \in Channel : ch \notin found => ChannelVariables'[ch] = ChannelVariables[ch]
  BY <1>1
<1> QED
  BY <1>3, <1>4 DEF Keeps

(* Request 4 overwrites one variable, and nothing but a collection clears   *)
(* any.                                                                     *)
LEMMA KeptByStep == ASSUME IInv, [Next]_vars PROVE Keeps
<1>1. ASSUME UNCHANGED ChannelVariables PROVE Keeps
  BY <1>1 DEF Keeps
<1>2. ASSUME NEW c \in Conn, NEW k \in Key, NEW val \in Value, AssignChannelVariable(c, k, val)
      PROVE Keeps
  <2>1. ChannelVariables' = [ChannelVariables EXCEPT ![channel[c]][k] = val]
    BY <1>2 DEF AssignChannelVariable
  <2>2. ChannelVariables \in [Channel -> [Key -> Value \cup {NoValue}]] /\ val # NoValue
    BY RelayAssumption DEF IInv, TypeOK
  <2>3. \A ch \in Channel, k2 \in Key :
           \/ ChannelVariables'[ch][k2] = ChannelVariables[ch][k2]
           \/ ChannelVariables'[ch][k2] = val
    BY <2>1, <2>2
  <2> QED
    BY <2>2, <2>3 DEF Keeps
<1>3. ASSUME NEW c \in Conn, ClientStep(c) PROVE Keeps
  BY <1>1, <1>2, <1>3
  DEF ClientStep, Connect, FirstPacket, FirstPacketTooLong, Broadcast, PrivateMessage,
      Authenticate, SetListenerMode, ListChannels, TransmitChannelVariable,
      DisconnectClient, PeerClose, SocketEnd, OnDisconnection
<1>4. ASSUME NEW c \in Conn, NEW u \in Requestable, AssignUserId(c, u) PROVE Keeps
  BY <1>1, <1>4 DEF AssignUserId
<1> QED
  BY <1>1, <1>3, <1>4, KeptByCollection DEF Next, vars

(* A variable stays set while its channel has a user, although a channel's  *)
(* end may or may not clear it (relay.cpp: ~Session, AssignChannelVariable). *)
THEOREM VariablesHold == ASSUME ZeroNotRequested PROVE Spec => VariablesKept
<1>1. Spec => []IInv
  BY RegistryInvariant
<1>2. IInv /\ [Next]_vars => [Keeps]_vars
  BY KeptByStep
<1>3. []IInv /\ [][Next]_vars => [][Keeps]_vars
  BY <1>2, PTL
<1>4. VariablesKept <=> [][Keeps]_vars
  BY DEF VariablesKept, Keeps
<1> QED
  BY <1>1, <1>3, <1>4, PTL DEF Spec
================================================================================
