--------------------------------- MODULE Relay ---------------------------------
(****************************************************************************)
(* The relay's session registry and message handlers (src/relay.cpp): the   *)
(* lookup tables, the Session objects and their life cycle, the requests a  *)
(* client can make of the relay, and who receives what.                     *)
(*                                                                          *)
(* A handler runs under AcquireGarbageLock and is one step here: this is    *)
(* the relay with one worker thread, and with the exclusion of handlers and *)
(* collector that AcquireGarbageLock is meant to give (GarbageLock shows    *)
(* how far it does).  A member of Conn is a slot for one accepted socket    *)
(* and the Session allocated for it; a slot is used again once both are     *)
(* gone, as their memory is.                                                *)
(****************************************************************************)
EXTENDS Integers, FiniteSets

CONSTANTS Conn,         \* slots for a socket and its Session
          Channel,      \* channel names
          Global,       \* "re_globl"
          Generated,    \* userIds rand64p() may return
          Requestable,  \* userIds a client may ask for with AssignUserId
          Zero,         \* userId 0, which is RE_RELAY_TARGET
          Modes,        \* values of listenerMode a client may ask for
          Key, Value,   \* channel variables
          NoSession, NoValue,
          Offline       \* in Directory, nobody has a userId

Id == Generated \cup Requestable \cup {Zero}
Mask == {"channel", "private", "disconnect"}

ASSUME RelayAssumption == /\ Global \in Channel
                          /\ Zero \notin Generated
                          /\ Modes \subseteq SUBSET Mask
                          /\ NoSession \notin Conn
                          /\ NoValue \notin Value
                          /\ Offline \notin Channel

VARIABLES
    ws,                 \* a socket: "none", "open", or "closing" (shutting down)
    alloc,              \* Sessions that are allocated
    valid,              \* Sessions with session->valid
    userId,             \* session->userId
    channel,            \* session->channelName and channelIndex
    listenerMode,       \* session->listenerMode, a set of masks
    authLevel,          \* session->authLevel
    UserIDSessionMap,
    SessionExists,
    ChannelClientTable, \* the names in the table
    channelIndex,       \* the set of sessions under each name
    ChannelVariables,
    GarbageQueue,       \* how often each session is in the queue
    out                 \* what the last handler sent

session == <<alloc, valid, userId, channel, listenerMode, authLevel>>
tables == <<UserIDSessionMap, SessionExists, ChannelClientTable, channelIndex>>
vars == <<ws, session, tables, ChannelVariables, GarbageQueue, out>>

Message == [kind : {"none", "userId", "broadcast", "private", "disconnect",
                    "channels", "variable"},
            from : Id,
            copies : [Conn -> 0 .. 2]]

Unset == [k \in Key |-> NoValue]

--------------------------------------------------------------------------------
(* What a handler sends: `from' is the userId that prefixes the message (or *)
(* that a disconnect event names), copies[c] how often it is sent to c.     *)

Copies(A, B) == [c \in Conn |-> (IF c \in A THEN 1 ELSE 0) + (IF c \in B THEN 1 ELSE 0)]

Sent(kind, from, A, B) == [kind |-> kind, from |-> from, copies |-> Copies(A, B)]

Nothing == Sent("none", Zero, {}, {})

(* Every loop over sessions sends to those that are valid and not `ws'.     *)
Receivers_Any(A) == A                      \* mutant: validity is not tested
Receivers(A) == A \cap valid

(* Sessions of re_globl that listen for one kind of message. *)
Listeners(mask) == {v \in channelIndex[Global] : mask \in listenerMode[v]}

(* onDisconnection's event for session c, which carries the userId it has   *)
(* when the event is sent; c is not valid any more by then.                 *)
DisconnectEvent_ChannelMask(c, id) ==      \* mutant: tests the wrong mask
    Sent("disconnect", id, Receivers(channelIndex[channel[c]] \ {c}),
                           Receivers(Listeners("channel") \ {c}))
DisconnectEvent(c, id) ==
    Sent("disconnect", id, Receivers(channelIndex[channel[c]] \ {c}),
                           Receivers(Listeners("disconnect") \ {c}))

--------------------------------------------------------------------------------
Init == /\ ws = [c \in Conn |-> "none"]
        /\ alloc = {}
        /\ valid = {}
        /\ userId = [c \in Conn |-> Zero]
        /\ channel = [c \in Conn |-> Global]
        /\ listenerMode = [c \in Conn |-> {}]
        /\ authLevel = [c \in Conn |-> 0]
        /\ UserIDSessionMap = [u \in Id |-> NoSession]
        /\ SessionExists = {}
        /\ ChannelClientTable = {Global}
        /\ channelIndex = [ch \in Channel |-> {}]
        /\ ChannelVariables = [ch \in Channel |-> Unset]
        /\ GarbageQueue = [c \in Conn |-> 0]
        /\ out = Nothing

(* The server accepts and upgrades a socket; its user data is null. *)
Connect(c) == /\ ws[c] = "none"
              /\ c \notin alloc
              /\ ws' = [ws EXCEPT ![c] = "open"]
              /\ out' = Nothing
              /\ UNCHANGED <<session, tables, ChannelVariables, GarbageQueue>>

(* An id that rand64p() returned and the loop of Session() lets through. *)
Unused_Any(u) == TRUE                      \* mutant: the id is not looked up
Unused(u) == UserIDSessionMap[u] = NoSession

(* The first packet names a channel: new Session, its own userId in reply,  *)
(* find or insert the channel, insert the session.                          *)
FirstPacket(c, ch) ==
    /\ ws[c] = "open"
    /\ c \notin alloc
    /\ \E u \in Generated :
        /\ Unused(u)
        /\ userId' = [userId EXCEPT ![c] = u]
        /\ UserIDSessionMap' = [UserIDSessionMap EXCEPT ![u] = c]
        /\ out' = Sent("userId", u, {c}, {})
    /\ alloc' = alloc \cup {c}
    /\ valid' = valid \cup {c}
    /\ channel' = [channel EXCEPT ![c] = ch]
    /\ ChannelClientTable' = ChannelClientTable \cup {ch}
    /\ channelIndex' = [channelIndex EXCEPT ![ch] = @ \cup {c}]
    /\ SessionExists' = SessionExists \cup {c}
    /\ UNCHANGED <<ws, listenerMode, authLevel, ChannelVariables, GarbageQueue>>

(* A first packet of more than 16 bytes: the socket is closed, and without  *)
(* a Session onDisconnection does nothing.                                  *)
FirstPacketTooLong(c) ==
    /\ ws[c] = "open"
    /\ c \notin alloc
    /\ ws' = [ws EXCEPT ![c] = "closing"]
    /\ out' = Nothing
    /\ UNCHANGED <<session, tables, ChannelVariables, GarbageQueue>>

--------------------------------------------------------------------------------
(* Messages.  A socket that is shutting down ignores its data, so the       *)
(* client of a message has an open socket; its user data is its Session.    *)

Client(c) == ws[c] = "open" /\ c \in alloc

Broadcast(c) ==
    /\ Client(c)
    /\ out' = IF channel[c] = Global
              THEN Sent("broadcast", userId[c], Receivers(SessionExists \ {c}), {})
              ELSE Sent("broadcast", userId[c], Receivers(channelIndex[channel[c]] \ {c}),
                                                Receivers(Listeners("channel") \ {c}))
    /\ UNCHANGED <<ws, session, tables, ChannelVariables, GarbageQueue>>

(* A binary message to Zero is a request to the relay; a text message to    *)
(* Zero is looked up like any other.                                        *)
Forwarded_Twice(c, target) ==              \* mutant: a target that listens is not left out
    Sent("private", userId[c], Receivers({target}), Receivers(Listeners("private")))
Forwarded(c, target) ==
    Sent("private", userId[c], Receivers({target}), Receivers(Listeners("private") \ {target}))

PrivateMessage(c, u) ==
    /\ Client(c)
    /\ out' = IF UserIDSessionMap[u] = NoSession THEN Nothing
              ELSE Forwarded(c, UserIDSessionMap[u])
    /\ UNCHANGED <<ws, session, tables, ChannelVariables, GarbageQueue>>

(* Request 0 with the password; with any other it has no effect. *)
Authenticate_Count(c) ==                   \* mutant: the level adds up
    /\ Client(c)
    /\ authLevel' = [authLevel EXCEPT ![c] = @ + 1]
    /\ out' = Nothing
    /\ UNCHANGED <<ws, alloc, valid, userId, channel, listenerMode, tables,
                   ChannelVariables, GarbageQueue>>
Authenticate(c) ==
    /\ Client(c)
    /\ authLevel' = [authLevel EXCEPT ![c] = 1]
    /\ out' = Nothing
    /\ UNCHANGED <<ws, alloc, valid, userId, channel, listenerMode, tables,
                   ChannelVariables, GarbageQueue>>

(* Request 1. *)
SetListenerMode(c, mode) ==
    /\ Client(c)
    /\ authLevel[c] = 1
    /\ listenerMode' = [listenerMode EXCEPT ![c] = mode]
    /\ out' = Nothing
    /\ UNCHANGED <<ws, alloc, valid, userId, channel, authLevel, tables,
                   ChannelVariables, GarbageQueue>>

(* Request 2: the names and populations of the channels, to the client. *)
ListChannels(c) ==
    /\ Client(c)
    /\ authLevel[c] = 1
    /\ out' = Sent("channels", Zero, {c}, {})
    /\ UNCHANGED <<ws, session, tables, ChannelVariables, GarbageQueue>>

(* Request 3: the session takes userId u.  A session that holds u loses it, *)
(* and is disconnected if it is still valid; its disconnect event goes out  *)
(* after its userId was set to 0.  The holder may be the client itself.     *)
(* Last, u is entered in the map, and the id the client has by then is      *)
(* erased from it.                                                          *)
Kicked_Again(u) == {UserIDSessionMap[u]} \cap alloc     \* mutant: validity is not tested
Kicked(u) == {UserIDSessionMap[u]} \cap valid

Surrendered(u) == [i \in Conn |-> IF i = UserIDSessionMap[u] THEN Zero ELSE userId[i]]

MapAssigned_KeepOld(c, u) == [UserIDSessionMap EXCEPT ![u] = c]   \* mutant: no erase
MapAssigned(c, u) ==
    [UserIDSessionMap EXCEPT ![u] = c, ![Surrendered(u)[c]] = NoSession]

AssignUserId(c, u) ==
    /\ Client(c)
    /\ authLevel[c] = 1
    /\ userId' = [Surrendered(u) EXCEPT ![c] = u]
    /\ UserIDSessionMap' = MapAssigned(c, u)
    /\ valid' = valid \ Kicked(u)
    /\ GarbageQueue' = [i \in Conn |-> GarbageQueue[i] + (IF i \in Kicked(u) THEN 1 ELSE 0)]
    /\ ws' = [i \in Conn |-> IF i \in Kicked(u) THEN "closing" ELSE ws[i]]
    /\ out' = IF Kicked(u) = {} THEN Nothing ELSE DisconnectEvent(UserIDSessionMap[u], Zero)
    /\ UNCHANGED <<alloc, channel, listenerMode, authLevel, SessionExists,
                   ChannelClientTable, channelIndex, ChannelVariables>>

(* Request 4. *)
AssignChannelVariable(c, k, val) ==
    /\ Client(c)
    /\ ChannelVariables' = [ChannelVariables EXCEPT ![channel[c]][k] = val]
    /\ out' = Nothing
    /\ UNCHANGED <<ws, session, tables, GarbageQueue>>

(* Request 5: the value, or the empty packet, to the client. *)
TransmitChannelVariable(c) ==
    /\ Client(c)
    /\ out' = Sent("variable", Zero, {c}, {})
    /\ UNCHANGED <<ws, session, tables, ChannelVariables, GarbageQueue>>

--------------------------------------------------------------------------------
(* Disconnections. *)

(* Invalidate c's session and put it in the garbage queue. *)
Retire(c) == /\ valid' = valid \ {c}
             /\ GarbageQueue' = [GarbageQueue EXCEPT ![c] = @ + 1]

(* Mutant of the next: the session is not invalidated. *)
OnDisconnection_EventOnly(c) ==
    /\ out' = IF c \in alloc THEN DisconnectEvent(c, userId[c]) ELSE Nothing
    /\ UNCHANGED <<session, tables, ChannelVariables, GarbageQueue>>

(* onDisconnection: a session that is still valid is retired; the event is  *)
(* sent in any case.                                                        *)
OnDisconnection(c) ==
    /\ IF c \in valid THEN Retire(c) ELSE UNCHANGED <<valid, GarbageQueue>>
    /\ out' = IF c \in alloc THEN DisconnectEvent(c, userId[c]) ELSE Nothing
    /\ UNCHANGED <<alloc, userId, channel, listenerMode, authLevel, tables, ChannelVariables>>

(* Mutant of the next: no event for a session that was invalid already. *)
DisconnectClient_Silent(c) ==
    /\ Client(c)
    /\ Retire(c)
    /\ ws' = [ws EXCEPT ![c] = "closing"]
    /\ out' = Nothing
    /\ UNCHANGED <<alloc, userId, channel, listenerMode, authLevel, tables, ChannelVariables>>

(* A message of a wrong size or type or an unknown request: DisconnectClient *)
(* retires the session whatever its state, and close() calls               *)
(* onDisconnection, which finds it invalid.                                 *)
DisconnectClient(c) ==
    /\ Client(c)
    /\ Retire(c)
    /\ ws' = [ws EXCEPT ![c] = "closing"]
    /\ out' = DisconnectEvent(c, userId[c])
    /\ UNCHANGED <<alloc, userId, channel, listenerMode, authLevel, tables, ChannelVariables>>

(* A CLOSE frame from the peer: close(). *)
PeerClose(c) == /\ ws[c] = "open"
                /\ OnDisconnection(c)
                /\ ws' = [ws EXCEPT ![c] = "closing"]

(* onEnd: the peer hung up, the connection failed, or the 15 seconds of a   *)
(* closing socket are over.  onDisconnection is for an open socket only.    *)
SocketEnd(c) == /\ ws[c] # "none"
                /\ IF ws[c] = "open"
                   THEN OnDisconnection(c)
                   ELSE /\ out' = Nothing
                        /\ UNCHANGED <<session, tables, ChannelVariables, GarbageQueue>>
                /\ ws' = [ws EXCEPT ![c] = "none"]

--------------------------------------------------------------------------------
(* Channels other than re_globl that the destructors leave empty. *)
Emptied_Global(freed, remaining) ==        \* mutant: re_globl goes as well
    {ch \in {channel[c] : c \in freed} : remaining[ch] = {}}
Emptied_Unchecked(freed, remaining) ==     \* mutant: size() is not tested
    {channel[c] : c \in freed} \ {Global}
Emptied(freed, remaining) ==
    {ch \in {channel[c] : c \in freed} \ {Global} : remaining[ch] = {}}

(* FreeGarbage: every queued session is deleted.  ~Session erases the       *)
(* session's userId unless it is 0, its place in its channel, the channel   *)
(* when that leaves it empty (re_globl stays), and its place in             *)
(* SessionExists.  tmpName is a reference into the table entry erased on    *)
(* the line before its last use, so whether the channel's variables are     *)
(* found by it and erased is left to chance.                                *)
FreeGarbage ==
    LET freed == {c \in Conn : GarbageQueue[c] > 0}
        remaining == [ch \in Channel |-> channelIndex[ch] \ {c \in freed : channel[c] = ch}]
        emptied == Emptied(freed, remaining)
    IN  /\ freed # {}
        /\ UserIDSessionMap' = [u \in Id |-> IF u # Zero /\ \E c \in freed : userId[c] = u
                                             THEN NoSession ELSE UserIDSessionMap[u]]
        /\ channelIndex' = remaining
        /\ ChannelClientTable' = ChannelClientTable \ emptied
        /\ \E found \in SUBSET emptied :
               ChannelVariables' = [ch \in Channel |-> IF ch \in found THEN Unset
                                                       ELSE ChannelVariables[ch]]
        /\ SessionExists' = SessionExists \ freed
        /\ alloc' = alloc \ freed
        /\ GarbageQueue' = [c \in Conn |-> 0]
        /\ userId' = [c \in Conn |-> IF c \in freed THEN Zero ELSE userId[c]]
        /\ channel' = [c \in Conn |-> IF c \in freed THEN Global ELSE channel[c]]
        /\ listenerMode' = [c \in Conn |-> IF c \in freed THEN {} ELSE listenerMode[c]]
        /\ authLevel' = [c \in Conn |-> IF c \in freed THEN 0 ELSE authLevel[c]]
        /\ out' = Nothing
        /\ UNCHANGED <<ws, valid>>

ClientStep(c) ==
    \/ Connect(c)
    \/ \E ch \in Channel : FirstPacket(c, ch)
    \/ FirstPacketTooLong(c)
    \/ Broadcast(c)
    \/ \E u \in Id : PrivateMessage(c, u)
    \/ Authenticate(c)
    \/ \E mode \in Modes : SetListenerMode(c, mode)
    \/ ListChannels(c)
    \/ \E k \in Key, val \in Value : AssignChannelVariable(c, k, val)
    \/ TransmitChannelVariable(c)
    \/ DisconnectClient(c)
    \/ PeerClose(c)
    \/ SocketEnd(c)

Next == \/ \E c \in Conn : ClientStep(c)
        \/ \E c \in Conn, u \in Requestable : AssignUserId(c, u)
        \/ FreeGarbage

Spec == Init /\ [][Next]_vars

--------------------------------------------------------------------------------
TypeOK ==
    /\ ws \in [Conn -> {"none", "open", "closing"}]
    /\ alloc \subseteq Conn
    /\ valid \subseteq Conn
    /\ userId \in [Conn -> Id]
    /\ channel \in [Conn -> Channel]
    /\ listenerMode \in [Conn -> SUBSET Mask]
    /\ authLevel \in [Conn -> {0, 1}]
    /\ UserIDSessionMap \in [Id -> Conn \cup {NoSession}]
    /\ SessionExists \subseteq Conn
    /\ ChannelClientTable \subseteq Channel
    /\ channelIndex \in [Channel -> SUBSET Conn]
    /\ ChannelVariables \in [Channel -> [Key -> Value \cup {NoValue}]]
    /\ GarbageQueue \in [Conn -> Nat]
    /\ out \in Message

(* A userId is a session's address: an id in the map leads to an allocated  *)
(* session that has it, and a session with an id is found under it.  A      *)
(* valid session always has one.                                            *)
IdOwnership ==
    /\ \A u \in Id : UserIDSessionMap[u] # NoSession =>
           UserIDSessionMap[u] \in alloc /\ userId[UserIDSessionMap[u]] = u
    /\ \A c \in alloc : userId[c] # Zero => UserIDSessionMap[userId[c]] = c
    /\ UserIDSessionMap[Zero] = NoSession
    /\ \A c \in valid : userId[c] # Zero

(* Every session that was invalidated is in the queue exactly once until it *)
(* is freed, and no other is: nothing leaks, nothing is deleted twice.      *)
GarbageExactlyOnce ==
    \A c \in Conn : GarbageQueue[c] = IF c \in alloc \ valid THEN 1 ELSE 0

(* The handlers send to the socket of every session they find valid: those  *)
(* are the sessions whose socket is open and not shutting down.             *)
ValidMeansOpen == valid = {c \in alloc : ws[c] = "open"}

(* The channel table and SessionExists hold the allocated sessions, each in *)
(* its channel, and a channel exists while it has a session (re_globl       *)
(* always).                                                                 *)
ChannelTableExact ==
    /\ \A ch \in Channel : channelIndex[ch] = {c \in alloc : channel[c] = ch}
    /\ \A ch \in Channel : ch \in ChannelClientTable <=> channelIndex[ch] # {} \/ ch = Global
    /\ SessionExists = alloc

(* A broadcast reaches every other user of the sender's channel once, and   *)
(* nobody outside it but authenticated listeners in re_globl; one sent from *)
(* re_globl reaches every other user of the relay once.                     *)
MayListen(c, mask) == channel[c] = Global /\ authLevel[c] = 1 /\ mask \in listenerMode[c]
BroadcastExact ==
    out.kind = "broadcast" =>
        LET sender == UserIDSessionMap[out.from] IN
        \A c \in Conn :
            out.copies[c] = IF /\ c \in valid \ {sender}
                               /\ \/ channel[sender] = Global
                                  \/ channel[c] = channel[sender]
                                  \/ MayListen(c, "channel")
                            THEN 1 ELSE 0

(* Of the sessions that receive a private message all but one are           *)
(* authenticated listeners in re_globl, and none receives it twice.         *)
PrivateConfined ==
    out.kind = "private" =>
        /\ \A c \in Conn : out.copies[c] <= 1
        /\ \E target \in Conn : \A c \in Conn \ {target} :
               out.copies[c] = IF c \in valid /\ MayListen(c, "private") THEN 1 ELSE 0

(* Every user left in the channel of a user who is gone hears of it, and    *)
(* nobody else but the listeners; the session is still allocated then, so   *)
(* the event names an id that is not yet anybody else's.  A listener in     *)
(* re_globl hears twice of a user of re_globl.                              *)
DisconnectExact ==
    out.kind = "disconnect" /\ out.from # Zero =>
        LET gone == UserIDSessionMap[out.from] IN
        /\ gone \in alloc \ valid
        /\ \A c \in Conn :
               out.copies[c] = IF c \notin valid THEN 0
                               ELSE (IF channel[c] = channel[gone] THEN 1 ELSE 0)
                                    + (IF MayListen(c, "disconnect") THEN 1 ELSE 0)

(* A variable of a channel stays set for as long as the channel has a user. *)
VariablesKept ==
    [][\A ch \in Channel, k \in Key :
           ChannelVariables[ch][k] # NoValue /\ ChannelVariables'[ch][k] = NoValue
               => \A c \in valid : channel[c] # ch]_vars

--------------------------------------------------------------------------------
(* The relay implements the directory: the user at an address is the valid  *)
(* session that the map finds there.                                        *)
directory ==
    [u \in Id \ {Zero} |-> IF UserIDSessionMap[u] \in valid
                            THEN channel[UserIDSessionMap[u]] ELSE Offline]

D == INSTANCE Directory WITH Address <- Id \ {Zero}

(* Sessions, kicks, retirements and collections only ever change who is     *)
(* where in the ways a directory allows.                                    *)
ImplementsDirectory == D!DirectorySpec

================================================================================
