------------------------------ MODULE Roster_proofs ----------------------------
(****************************************************************************)
(* The proof that nobody remembers an id whose user is gone, for any number *)
(* of clients, channels and userIds.                                        *)
(****************************************************************************)
EXTENDS Roster, Relay_proofs

(* A slot without a valid session remembers nothing, so that a user who     *)
(* comes later begins with an empty cache.                                  *)
RosterInv == /\ roster \in [Conn -> SUBSET Id]
             /\ \A c \in Conn \ valid : roster[c] = {}
             /\ RosterSound

(* What clients remember has no effect on the relay.                        *)
LEMMA RosterIsRelay == RosterSpec => Spec
<1>1. RosterInit => Init
  BY DEF RosterInit
<1>2. [RosterNext]_rosterVars => [Next]_vars
  BY DEF RosterNext, rosterVars, Next
<1> QED
  BY <1>1, <1>2, PTL DEF RosterSpec, Spec

(* A step that announces nothing, and moves no user that is there.          *)
LEMMA KeepStep ==
  ASSUME IInv, RosterInv, Receive, reassigned' = reassigned, valid' \subseteq Conn,
         out'.kind \notin {"broadcast", "disconnect"},
         \A d \in valid : channel'[d] = channel[d],
         \A w \in Id : UserIDSessionMap[w] \in valid =>
            UserIDSessionMap'[w] = UserIDSessionMap[w] /\ UserIDSessionMap[w] \in valid'
  PROVE  RosterInv'
<1>1. roster' = [c \in Conn |-> IF c \in valid' THEN roster[c] ELSE {}]
  BY DEF Receive, Learned, Dropped
<1>2. roster' \in [Conn -> SUBSET Id] /\ \A c \in Conn \ valid' : roster'[c] = {}
  BY <1>1 DEF RosterInv
<1>3. ASSUME NEW d \in valid', NEW w \in roster'[d]
      PROVE  w \in reassigned' \/ Present(d, w)'
  <2>1. d \in Conn /\ w \in roster[d] /\ w \in Id
    BY <1>1, <1>3 DEF RosterInv
  <2>2. d \in valid
    BY <2>1 DEF RosterInv
  <2>3. w \in reassigned \/ Present(d, w)
    BY <2>1, <2>2 DEF RosterInv, RosterSound
  <2> QED
    BY <2>1, <2>2, <2>3 DEF Present
<1> QED
  BY <1>2, <1>3 DEF RosterInv, RosterSound

(* Whoever learns an id from a broadcast learns it of a user in its channel.*)
LEMMA LearnStep ==
  ASSUME IInv, RosterInv, Receive, reassigned' = reassigned, NEW c \in Conn, Broadcast(c)
  PROVE  RosterInv'
<1>1. UNCHANGED <<valid, channel, UserIDSessionMap>>
  BY DEF Broadcast, session, tables
<1>2. /\ c \in valid /\ userId[c] \in Id /\ UserIDSessionMap[userId[c]] = c
  BY ClientFacts DEF Broadcast
<1>3. out'.kind = "broadcast" /\ out'.from = userId[c]
  BY DEF Broadcast, Sent
<1>4. \A d \in Conn : Learned(d) \in SUBSET {userId[c]} /\ Dropped(d) = {}
  BY <1>3 DEF Learned, Dropped
<1>5. \A d \in Conn : Learned(d) # {} => channel[c] = channel[d]
  BY <1>2, <1>3 DEF Learned
<1>6. roster' = [d \in Conn |-> IF d \in valid THEN roster[d] \cup Learned(d) ELSE {}]
  BY <1>1, <1>4 DEF Receive
<1>7. roster' \in [Conn -> SUBSET Id] /\ \A d \in Conn \ valid' : roster'[d] = {}
  BY <1>1, <1>2, <1>4, <1>6 DEF RosterInv
<1>8. ASSUME NEW d \in valid', NEW w \in roster'[d]
      PROVE  w \in reassigned' \/ Present(d, w)'
  <2>1. d \in valid /\ d \in Conn
    BY <1>1 DEF IInv, TypeOK
  <2>2. CASE w \in roster[d]
    BY <1>1, <2>1, <2>2 DEF RosterInv, RosterSound, Present
  <2>3. CASE w \in Learned(d)
    <3>1. w = userId[c] /\ channel[c] = channel[d]
      BY <1>4, <1>5, <2>1, <2>3
    <3> QED
      BY <1>1, <1>2, <3>1 DEF Present
  <2> QED
    BY <1>6, <1>8, <2>1, <2>2, <2>3
<1> QED
  BY <1>7, <1>8 DEF RosterInv, RosterSound

(* A user who leaves is dropped by everyone in its channel.                 *)
LEMMA ForgetStep ==
  ASSUME IInv, RosterInv, Receive, reassigned' = reassigned, NEW c \in Conn,
         c \in alloc, c \in valid,
         out' = DisconnectEvent(c, userId[c]), valid' = valid \ {c},
         UNCHANGED <<channel, UserIDSessionMap>>
  PROVE  RosterInv'
<1>1. out'.kind = "disconnect" /\ out'.from = userId[c]
  BY DEF DisconnectEvent, Sent
<1>2. \A d \in Conn : Learned(d) = {}
  BY <1>1 DEF Learned
<1>3. roster' = [d \in Conn |-> IF d \in valid' THEN roster[d] \ Dropped(d) ELSE {}]
  BY <1>2 DEF Receive
<1>4. roster' \in [Conn -> SUBSET Id] /\ \A d \in Conn \ valid' : roster'[d] = {}
  BY <1>3 DEF RosterInv
<1>5. channel[c] \in Channel
  BY DEF IInv, TypeOK
<1>6. ASSUME NEW d \in valid', channel[d] = channel[c] PROVE Dropped(d) = {userId[c]}
  <2>1. d \in Conn /\ d \in valid /\ d # c
    BY DEF IInv, TypeOK
  <2>2. d \in Receivers(channelIndex[channel[c]] \ {c})
    BY <1>5, <1>6, <2>1 DEF Receivers, IInv, ChannelTableExact, ValidMeansOpen
  <2>3. out'.copies[d] = 1 + (IF d \in Receivers(Listeners("disconnect") \ {c}) THEN 1 ELSE 0)
    BY <2>1, <2>2, SentCopies DEF DisconnectEvent
  <2>4. out'.copies[d] > 0
    BY <2>3
  <2> QED
    BY <1>1, <2>4 DEF Dropped
<1>7. ASSUME NEW d \in valid', NEW w \in roster'[d]
      PROVE  w \in reassigned' \/ Present(d, w)'
  <2>1. d \in valid /\ d \in Conn /\ w \in roster[d] /\ w \notin Dropped(d) /\ w \in Id
    BY <1>3, <1>7 DEF RosterInv, IInv, TypeOK
  <2>2. w \in reassigned \/ Present(d, w)
    BY <2>1 DEF RosterInv, RosterSound
  <2>3. ASSUME Present(d, w) PROVE UserIDSessionMap[w] # c
    <3>1. UserIDSessionMap[w] = c => userId[c] = w
      BY <2>1, RelayAssumption DEF IInv, IdOwnership
    <3> QED
      BY <1>6, <2>1, <2>3, <3>1 DEF Present
  <2> QED
    BY <2>2, <2>3 DEF Present
<1> QED
  BY <1>4, <1>7 DEF RosterInv, RosterSound

(* The ids that AssignUserId moves are those in reassigned; every other id  *)
(* stays the address of the user it was.                                    *)
LEMMA ReassignStep ==
  ASSUME IInv, RosterInv, Receive, ZeroNotRequested, NEW c \in Conn, NEW u \in Requestable,
         AssignUserId(c, u), reassigned' = reassigned \cup Taken(c, u)
  PROVE  RosterInv'
<1> DEFINE h == UserIDSessionMap[u]
<1>1. /\ u \in Id /\ c \in valid /\ c \in alloc /\ userId[c] \in Id
      /\ \A d \in alloc : userId[d] = u <=> d = h
      /\ valid' = valid \ {h} /\ channel' = channel
      /\ \A w \in Id : UserIDSessionMap'[w] = IF w = u THEN c
                          ELSE IF c # h /\ w = userId[c] THEN NoSession ELSE UserIDSessionMap[w]
  BY AssignUserIdEffect
<1>2. out'.kind # "broadcast"
  BY DEF AssignUserId, Nothing, DisconnectEvent, Sent
<1>3. roster' = [d \in Conn |-> IF d \in valid' THEN roster[d] \ Dropped(d) ELSE {}]
  BY <1>2 DEF Receive, Learned
<1>4. roster' \in [Conn -> SUBSET Id] /\ \A d \in Conn \ valid' : roster'[d] = {}
  BY <1>3 DEF RosterInv
<1>5. ASSUME NEW d \in valid', NEW w \in roster'[d]
      PROVE  w \in reassigned' \/ Present(d, w)'
  <2>1. d \in valid /\ d \in Conn /\ w \in roster[d] /\ w \in Id
    BY <1>1, <1>3, <1>5 DEF RosterInv, IInv, TypeOK
  <2>2. w \in reassigned \/ Present(d, w)
    BY <2>1 DEF RosterInv, RosterSound
  <2>3. CASE w \in reassigned
    BY <2>3
  <2>4. CASE Present(d, w) /\ (w = u \/ w = userId[c])
    BY <2>4 DEF Present, Taken
  <2>5. CASE Present(d, w) /\ w # u /\ w # userId[c]
    <3>1. UserIDSessionMap[w] \in alloc /\ userId[UserIDSessionMap[w]] = w
      BY <2>1, <2>5, RelayAssumption DEF Present, IInv, IdOwnership, TypeOK
    <3>2. UserIDSessionMap[w] # h
      BY <1>1, <2>5, <3>1
    <3>3. UserIDSessionMap'[w] = UserIDSessionMap[w]
      BY <1>1, <2>1, <2>5
    <3> QED
      BY <1>1, <2>5, <3>2, <3>3 DEF Present
  <2> QED
    BY <2>2, <2>3, <2>4, <2>5
<1> QED
  BY <1>4, <1>5 DEF RosterInv, RosterSound

(* onDisconnection: a departure, or nothing.                                *)
LEMMA LeaveRoster ==
  ASSUME IInv, RosterInv, Receive, reassigned' = reassigned, NEW c \in Conn,
         ws[c] = "open", OnDisconnection(c)
  PROVE  RosterInv'
<1>1. UNCHANGED <<channel, UserIDSessionMap>>
  BY DEF OnDisconnection, tables
<1>2. CASE c \in alloc
  <2>1. c \in valid
    BY <1>2 DEF IInv, ValidMeansOpen
  <2> QED
    BY <1>1, <1>2, <2>1, ForgetStep DEF OnDisconnection, Retire
<1>3. CASE c \notin alloc
  <2>1. valid' = valid /\ out' = Nothing
    BY <1>3 DEF OnDisconnection, IInv, ValidMeansOpen
  <2>2. out'.kind \notin {"broadcast", "disconnect"}
    BY <2>1 DEF Nothing, Sent
  <2>3. valid' \subseteq Conn
    BY <2>1 DEF IInv, TypeOK
  <2> QED
    BY <1>1, <2>1, <2>2, <2>3, KeepStep
<1> QED
  BY <1>2, <1>3

(* A client that joins gets an id that nobody remembers as somebody's.      *)
LEMMA JoinRoster ==
  ASSUME IInv, RosterInv, Receive, reassigned' = reassigned, NEW c \in Conn,
         NEW ch \in Channel, FirstPacket(c, ch)
  PROVE  RosterInv'
<1>1. PICK u \in Generated : /\ UserIDSessionMap[u] = NoSession
                             /\ UserIDSessionMap' = [UserIDSessionMap EXCEPT ![u] = c]
                             /\ out' = Sent("userId", u, {c}, {})
  BY DEF FirstPacket, Unused
<1>2. /\ c \notin valid /\ valid' = valid \cup {c} /\ channel' = [channel EXCEPT ![c] = ch]
      /\ valid \subseteq Conn /\ NoSession \notin valid
  BY RelayAssumption DEF FirstPacket, IInv, ValidMeansOpen, TypeOK
<1>3. \A w \in Id : UserIDSessionMap[w] \in valid =>
         UserIDSessionMap'[w] = UserIDSessionMap[w] /\ UserIDSessionMap[w] \in valid'
  BY <1>1, <1>2 DEF IInv, TypeOK
<1>4. \A d \in valid : channel'[d] = channel[d]
  BY <1>2 DEF IInv, TypeOK
<1>5. out'.kind \notin {"broadcast", "disconnect"}
  BY <1>1 DEF Sent
<1>6. valid' \subseteq Conn
  BY <1>2
<1> QED
  BY <1>3, <1>4, <1>5, <1>6, KeepStep

(* The handlers that change no session, and the collector, which changes    *)
(* only those that are not valid.                                           *)
LEMMA QuietRoster ==
  ASSUME IInv, RosterInv, Receive, reassigned' = reassigned,
         \/ FreeGarbage
         \/ /\ UNCHANGED <<valid, channel, UserIDSessionMap>>
            /\ out'.kind \notin {"broadcast", "disconnect"}
  PROVE  RosterInv'
<1>1. CASE UNCHANGED <<valid, channel, UserIDSessionMap>>
            /\ out'.kind \notin {"broadcast", "disconnect"}
  <2>1. valid' \subseteq Conn
    BY <1>1 DEF IInv, TypeOK
  <2> QED
    BY <1>1, <2>1, KeepStep
<1>2. CASE FreeGarbage
  <2> DEFINE freed == {c \in Conn : GarbageQueue[c] > 0}
  <2>1. freed \cap valid = {} /\ valid \subseteq alloc /\ valid \subseteq Conn
    BY DEF IInv, GarbageExactlyOnce, ValidMeansOpen, TypeOK
  <2>2. /\ valid' = valid /\ out' = Nothing
        /\ UserIDSessionMap' = [u \in Id |-> IF u # Zero /\ \E c \in freed : userId[c] = u
                                             THEN NoSession ELSE UserIDSessionMap[u]]
        /\ channel' = [c \in Conn |-> IF c \in freed THEN Global ELSE channel[c]]
    BY <1>2 DEF FreeGarbage
  <2>3. out'.kind \notin {"broadcast", "disconnect"}
    BY <2>2 DEF Nothing, Sent
  <2>4. \A d \in valid : channel'[d] = channel[d]
    BY <2>1, <2>2
  <2>5. ASSUME NEW w \in Id, UserIDSessionMap[w] \in valid
        PROVE  UserIDSessionMap'[w] = UserIDSessionMap[w]
    <3>1. ASSUME NEW c \in freed, userId[c] = w, w # Zero PROVE FALSE
      <4>1. c \in alloc
        BY DEF IInv, GarbageExactlyOnce
      <4>2. UserIDSessionMap[w] = c
        BY <3>1, <4>1 DEF IInv, IdOwnership
      <4> QED
        BY <2>1, <2>5, <4>2
    <3> QED
      BY <2>2, <3>1
  <2> QED
    BY <2>1, <2>2, <2>3, <2>4, <2>5, KeepStep
<1> QED
  BY <1>1, <1>2

(* Every step keeps the rosters sound.                                      *)
LEMMA RosterStep ==
  ASSUME IInv, ZeroNotRequested, RosterInv, [RosterNext]_rosterVars
  PROVE  RosterInv'
<1>1. ASSUME NEW c \in Conn, ClientStep(c), Receive, reassigned' = reassigned
      PROVE  RosterInv'
  <2>1. CASE \/ Connect(c) \/ FirstPacketTooLong(c) \/ Authenticate(c) \/ ListChannels(c)
             \/ TransmitChannelVariable(c)
             \/ \E mode \in Modes : SetListenerMode(c, mode)
             \/ \E k \in Key, val \in Value : AssignChannelVariable(c, k, val)
             \/ \E u \in Id : PrivateMessage(c, u)
    <3>1. UNCHANGED <<valid, channel, UserIDSessionMap>>
      BY <2>1 DEF Connect, FirstPacketTooLong, Authenticate, ListChannels,
                  TransmitChannelVariable, SetListenerMode, AssignChannelVariable,
                  PrivateMessage, session, tables
    <3>2. ASSUME Connect(c) \/ FirstPacketTooLong(c) \/ Authenticate(c) \/ ListChannels(c)
                 \/ TransmitChannelVariable(c)
          PROVE  out'.kind \notin {"broadcast", "disconnect"}
      BY <3>2 DEF Connect, FirstPacketTooLong, Authenticate, ListChannels,
                  TransmitChannelVariable, Nothing, Sent
    <3>3. ASSUME NEW mode \in Modes, SetListenerMode(c, mode)
          PROVE  out'.kind \notin {"broadcast", "disconnect"}
      BY <3>3 DEF SetListenerMode, Nothing, Sent
    <3>4. ASSUME NEW k \in Key, NEW val \in Value, AssignChannelVariable(c, k, val)
          PROVE  out'.kind \notin {"broadcast", "disconnect"}
      BY <3>4 DEF AssignChannelVariable, Nothing, Sent
    <3>5. ASSUME NEW u \in Id, PrivateMessage(c, u)
          PROVE  out'.kind \notin {"broadcast", "disconnect"}
      <4>1. CASE UserIDSessionMap[u] = NoSession
        BY <3>5, <4>1 DEF PrivateMessage, Nothing, Sent
      <4>2. CASE UserIDSessionMap[u] # NoSession
        BY <3>5, <4>2 DEF PrivateMessage, Forwarded, Sent
      <4> QED
        BY <4>1, <4>2
    <3>6. out'.kind \notin {"broadcast", "disconnect"}
      BY <2>1, <3>2, <3>3, <3>4, <3>5
    <3> QED
      BY <1>1, <3>1, <3>6, QuietRoster
  <2>2. ASSUME NEW ch \in Channel, FirstPacket(c, ch) PROVE RosterInv'
    BY <1>1, <2>2, JoinRoster
  <2>3. CASE Broadcast(c)
    BY <1>1, <2>3, LearnStep
  <2>4. CASE DisconnectClient(c)
    <3>1. c \in alloc /\ c \in valid
      BY <2>4, ClientFacts DEF DisconnectClient
    <3> QED
      BY <1>1, <2>4, <3>1, ForgetStep DEF DisconnectClient, Retire, tables
  <2>5. CASE PeerClose(c)
    BY <1>1, <2>5, LeaveRoster DEF PeerClose
  <2>6. CASE SocketEnd(c)
    <3>1. CASE ws[c] = "open"
      BY <1>1, <2>6, <3>1, LeaveRoster DEF SocketEnd
    <3>2. CASE ws[c] # "open"
      <4>1. UNCHANGED <<valid, channel, UserIDSessionMap>> /\ out' = Nothing
        BY <2>6, <3>2 DEF SocketEnd, session, tables
      <4>2. out'.kind \notin {"broadcast", "disconnect"}
        BY <4>1 DEF Nothing, Sent
      <4> QED
        BY <1>1, <4>1, <4>2, QuietRoster
    <3> QED
      BY <3>1, <3>2
  <2> QED
    BY <1>1, <2>1, <2>2, <2>3, <2>4, <2>5, <2>6 DEF ClientStep
<1>2. ASSUME FreeGarbage, Receive, reassigned' = reassigned PROVE RosterInv'
  BY <1>2, QuietRoster
<1>3. ASSUME NEW c \in Conn, NEW u \in Requestable, AssignUserId(c, u), Receive,
             reassigned' = reassigned \cup Taken(c, u)
      PROVE  RosterInv'
  BY <1>3, ReassignStep
<1>4. CASE UNCHANGED rosterVars
  BY <1>4 DEF rosterVars, vars, session, tables, RosterInv, RosterSound, Present
<1> QED
  BY <1>1, <1>2, <1>3, <1>4 DEF RosterNext

(* Nobody remembers the id of a user who is gone, unless AssignUserId moved *)
(* it, and userId 0 is not requested (relay.cpp: onDisconnection; relay.js: *)
(* onClientDisconnect).                                                     *)
THEOREM RosterHolds == ASSUME ZeroNotRequested PROVE RosterSpec => []RosterSound
<1>1. RosterInit => RosterInv
  BY DEF RosterInit, Init, RosterInv, RosterSound
<1>2. RosterSpec => []IInv
  BY RosterIsRelay, RegistryInvariant, PTL
<1>3. IInv /\ RosterInv /\ [RosterNext]_rosterVars => RosterInv'
  BY RosterStep
<1>4. RosterInv => RosterSound
  BY DEF RosterInv
<1> QED
  BY <1>1, <1>2, <1>3, <1>4, PTL DEF RosterSpec
================================================================================
