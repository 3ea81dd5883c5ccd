------------------------------ MODULE RelayThreads -----------------------------
(****************************************************************************)
(* The relay with several worker threads (src/relay.cpp: main, the handlers *)
(* it registers, and what they call).  Every socket belongs to the thread   *)
(* that accepted it, whose event loop runs one handler at a time; handlers  *)
(* of different threads interleave between any two accesses to the tables   *)
(* and sessions they share.  A handler holds AcquireGarbageLock from its    *)
(* first step to its last; here that lock does exclude the collector, as it *)
(* is meant to (GarbageLock shows how far it does).                         *)
(*                                                                          *)
(* Left to Relay, where a handler is one step: listeners in re_globl,       *)
(* channel variables, authentication (a client that asks for a userId has   *)
(* the level it takes).                                                     *)
(****************************************************************************)
EXTENDS Integers, FiniteSets

CONSTANTS Thread, Conn,
          Owner,        \* the thread of each socket
          Channel, Global,
          Generated,    \* userIds rand64p() may return
          Requestable,  \* userIds a client may ask for with AssignUserId
          Zero,
          NoSession, NoChannel

Id == Generated \cup Requestable \cup {Zero}

ASSUME ThreadsAssumption == /\ Owner \in [Conn -> Thread]
                            /\ Global \in Channel
                            /\ NoChannel \notin Channel
                            /\ NoSession \notin Conn
                            /\ Zero \notin Generated

VARIABLES
    ws,                 \* a socket: "none", "open" or "closing"
    alloc, valid, userId,
    channel,            \* NoChannel while a Session's pointers are uninitialised
    UserIDSessionMap, SessionExists, ChannelClientTable, channelIndex,
    GarbageQueue,       \* how often each session is in the queue
    roster,             \* the userIds each session's user knows of its channel
    th,                 \* what each thread is doing
    crashed             \* the process died of undefined behaviour

session == <<alloc, valid, userId, channel>>
tables == <<UserIDSessionMap, SessionExists, ChannelClientTable, channelIndex>>
vars == <<ws, session, tables, GarbageQueue, roster, th, crashed>>

(* A thread's place in a handler and the handler's local variables:         *)
(* c the client, who the session an event or message is about, v the        *)
(* recipient found valid, id the userId read, ask the userId the client     *)
(* asks for, must and seen the other sessions that a loop had to pass when  *)
(* it started and those it has passed.                                      *)
Idle == [at |-> "loop", kind |-> "none", c |-> NoSession, who |-> NoSession, v |-> NoSession,
         id |-> Zero, ask |-> Zero, ch |-> NoChannel, must |-> {}, seen |-> {}]

Init == /\ ws = [c \in Conn |-> "none"]
        /\ alloc = {} /\ valid = {}
        /\ userId = [c \in Conn |-> Zero]
        /\ channel = [c \in Conn |-> NoChannel]
        /\ UserIDSessionMap = [u \in Id |-> NoSession]
        /\ SessionExists = {}
        /\ ChannelClientTable = {Global}
        /\ channelIndex = [ch \in Channel |-> {}]
        /\ GarbageQueue = [c \in Conn |-> 0]
        /\ roster = [c \in Conn |-> {}]
        /\ th = [t \in Thread |-> Idle]
        /\ crashed = FALSE

Free(t, c) == th[t].at = "loop" /\ Owner[c] = t
Open(t, c) == Free(t, c) /\ ws[c] = "open"
At(t, place) == th[t].at = place
Goto(t, place) == th' = [th EXCEPT ![t].at = place]
Done(t) == th' = [th EXCEPT ![t] = Idle]

--------------------------------------------------------------------------------
(* Sockets. *)

Connect(t, c) == /\ Free(t, c) /\ ws[c] = "none" /\ c \notin alloc
                 /\ ws' = [ws EXCEPT ![c] = "open"]
                 /\ UNCHANGED <<session, tables, GarbageQueue, roster, th, crashed>>

(* A socket that is shutting down ends; one without a Session just closes.  *)
SocketEnd(t, c) == /\ Free(t, c)
                   /\ ws[c] = "closing" \/ (ws[c] = "open" /\ c \notin alloc)
                   /\ ws' = [ws EXCEPT ![c] = "none"]
                   /\ UNCHANGED <<session, tables, GarbageQueue, roster, th, crashed>>

--------------------------------------------------------------------------------
(* onMessage reads the socket's user data, its Session, before it has the   *)
(* lock: the collector may run before the next step.                        *)
OnMessage(t, c) ==
    /\ Open(t, c) /\ c \in alloc
    /\ th' = [th EXCEPT ![t] = [Idle EXCEPT !.at = "lock", !.c = c]]
    /\ UNCHANGED <<ws, session, tables, GarbageQueue, roster, crashed>>

(* It has the lock, but its Session was deleted meanwhile.                  *)
ClientDeleted(t) ==
    /\ At(t, "lock") /\ th[t].c \notin alloc
    /\ crashed' \in {TRUE, FALSE}
    /\ Done(t)
    /\ UNCHANGED <<ws, session, tables, GarbageQueue, roster>>

Client(t, c) == At(t, "lock") /\ th[t].c = c /\ c \in alloc

--------------------------------------------------------------------------------
(* The first packet. *)

(* Session(): rand64p() until count() is 0.  rand64p() reads and writes its *)
(* two static words without synchronisation, so two threads may compute the *)
(* same value; and the value is entered in the map only by the next step.   *)
PickUserId(t, c, ch) ==
    /\ Open(t, c) /\ c \notin alloc
    /\ \E u \in Generated :
        /\ UserIDSessionMap[u] = NoSession
        /\ th' = [th EXCEPT ![t] = [Idle EXCEPT !.at = "map", !.c = c, !.id = u, !.ch = ch]]
    /\ UNCHANGED <<ws, session, tables, GarbageQueue, roster, crashed>>

(* The Session is made, valid, and entered in the map; its channelName and  *)
(* channelIndex are not initialised.                                        *)
EnterMap(t) ==
    LET c == th[t].c IN
    /\ At(t, "map")
    /\ alloc' = alloc \cup {c}
    /\ valid' = valid \cup {c}
    /\ userId' = [userId EXCEPT ![c] = th[t].id]
    /\ UserIDSessionMap' = [UserIDSessionMap EXCEPT ![th[t].id] = c]
    /\ Goto(t, "find")
    /\ UNCHANGED <<ws, channel, SessionExists, ChannelClientTable, channelIndex,
                   GarbageQueue, roster, crashed>>

FindChannel(t) ==
    /\ At(t, "find")
    /\ Goto(t, IF th[t].ch \in ChannelClientTable THEN "subscribe" ELSE "insert")
    /\ UNCHANGED <<ws, session, tables, GarbageQueue, roster, crashed>>

(* insert() gives a node only to the thread whose insertion it is; for any  *)
(* other, node is still end().                                              *)
CreateChannel(t) ==
    /\ At(t, "insert")
    /\ ChannelClientTable' = ChannelClientTable \cup {th[t].ch}
    /\ Goto(t, IF th[t].ch \in ChannelClientTable THEN "end()" ELSE "subscribe")
    /\ UNCHANGED <<ws, session, UserIDSessionMap, SessionExists, channelIndex,
                   GarbageQueue, roster, crashed>>

DereferenceEnd(t) ==
    /\ At(t, "end()")
    /\ crashed' = TRUE
    /\ UNCHANGED <<ws, session, tables, GarbageQueue, roster, th>>

Subscribe(t) ==
    LET c == th[t].c IN
    /\ At(t, "subscribe")
    /\ channel' = [channel EXCEPT ![c] = th[t].ch]
    /\ channelIndex' = [channelIndex EXCEPT ![th[t].ch] = @ \cup {c}]
    /\ Goto(t, "exists")
    /\ UNCHANGED <<ws, alloc, valid, userId, UserIDSessionMap, SessionExists,
                   ChannelClientTable, GarbageQueue, roster, crashed>>

EnterSessionExists(t) ==
    /\ At(t, "exists")
    /\ SessionExists' = SessionExists \cup {th[t].c}
    /\ Done(t)
    /\ UNCHANGED <<ws, session, UserIDSessionMap, ChannelClientTable, channelIndex,
                   GarbageQueue, roster, crashed>>

--------------------------------------------------------------------------------
(* Loops that send: one session at a time, first the test of valid, then    *)
(* send().  Other threads may insert sessions meanwhile, and a loop may or  *)
(* may not come by those; nobody erases any.                                *)

Others(kind, c) == (IF kind = "broadcast" /\ channel[c] = Global THEN SessionExists
                    ELSE channelIndex[channel[c]]) \ {c}

Broadcast(t, c) ==
    /\ Client(t, c)
    /\ th' = [th EXCEPT ![t] = [Idle EXCEPT !.at = "each", !.kind = "broadcast", !.who = c,
                                            !.id = userId[c], !.must = Others("broadcast", c)]]
    /\ UNCHANGED <<ws, session, tables, GarbageQueue, roster, crashed>>

Visit(t) ==
    /\ At(t, "each")
    /\ \E v \in Others(th[t].kind, th[t].who) \ th[t].seen :
        th' = IF v \in valid
              THEN [th EXCEPT ![t].at = "send", ![t].v = v]
              ELSE [th EXCEPT ![t].seen = @ \cup {v}]
    /\ UNCHANGED <<ws, session, tables, GarbageQueue, roster, crashed>>

(* What the recipient's user makes of it: a broadcast of its own channel    *)
(* shows that the sender is there, a disconnect event that it is gone.      *)
Heard(t) == LET v == th[t].v IN
            IF v \notin valid THEN roster[v]
            ELSE IF th[t].kind # "broadcast" THEN roster[v] \ {th[t].id}
            ELSE IF channel[v] = channel[th[t].who] THEN roster[v] \cup {th[t].id}
            ELSE roster[v]

(* send() on a socket that its own thread has deleted since the test is     *)
(* undefined behaviour.                                                     *)
Send(t) ==
    LET v == th[t].v IN
    /\ At(t, "send")
    /\ th' = [th EXCEPT ![t].at = "each", ![t].seen = @ \cup {v}, ![t].v = NoSession]
    /\ IF ws[v] = "none"
       THEN crashed' \in {TRUE, FALSE} /\ UNCHANGED roster
       ELSE roster' = [roster EXCEPT ![v] = Heard(t)] /\ UNCHANGED crashed
    /\ UNCHANGED <<ws, session, tables, GarbageQueue>>

(* The loop is over; what follows it in the handler.  close() marks the     *)
(* socket it was called for as shutting down, onEnd deletes the socket.  A  *)
(* kicked socket may have been deleted by its own thread: close() then has  *)
(* undefined behaviour.                                                     *)
Ends(kind) == IF kind = "gone" THEN {"closing", "none"} ELSE {"closing"}

LoopEnd(t) ==
    LET c == th[t].who IN
    /\ At(t, "each") /\ th[t].must \subseteq th[t].seen
    /\ IF th[t].kind = "broadcast" THEN UNCHANGED <<ws, crashed>>
       ELSE IF ws[c] = "none" THEN crashed' \in {TRUE, FALSE} /\ UNCHANGED ws
       ELSE /\ \E s \in Ends(th[t].kind) : ws' = [ws EXCEPT ![c] = s]
            /\ UNCHANGED crashed
    /\ IF th[t].kind = "kicked"
       THEN th' = [th EXCEPT ![t] = [Idle EXCEPT !.at = "assign", !.c = th[t].c,
                                                 !.ask = th[t].ask]]
       ELSE Done(t)
    /\ UNCHANGED <<session, tables, GarbageQueue, roster>>

--------------------------------------------------------------------------------
(* Disconnections. *)

Departure(t, place, kind, c) ==
    th' = [th EXCEPT ![t] = [Idle EXCEPT !.at = place, !.kind = kind, !.who = c]]

(* The peer hung up (onEnd) or sent a CLOSE frame (close()): both call      *)
(* onDisconnection first.                                                   *)
OnDisconnection(t, c) ==
    /\ Open(t, c) /\ c \in alloc
    /\ Departure(t, "event", "gone", c)
    /\ UNCHANGED <<ws, session, tables, GarbageQueue, roster, crashed>>

(* A protocol error. *)
DisconnectClient(t, c) ==
    /\ Client(t, c)
    /\ Departure(t, "drop", "closed", c)
    /\ UNCHANGED <<ws, session, tables, GarbageQueue, roster, crashed>>

(* Mutant: the session is invalid but not queued. *)
Retire_NoPush(c) == /\ valid' = valid \ {c}
                    /\ roster' = [roster EXCEPT ![c] = {}]
                    /\ UNCHANGED GarbageQueue
Retire(c) == /\ valid' = valid \ {c}
             /\ GarbageQueue' = [GarbageQueue EXCEPT ![c] = @ + 1]
             /\ roster' = [roster EXCEPT ![c] = {}]

(* DisconnectClient invalidates and queues without a test, then close()     *)
(* calls onDisconnection.                                                   *)
Drop(t) == /\ At(t, "drop")
           /\ Retire(th[t].who)
           /\ Goto(t, "event")
           /\ UNCHANGED <<ws, alloc, userId, channel, tables, crashed>>

(* onDisconnection reads the userId for the event ... *)
ReadUserId(t) == /\ At(t, "event")
                 /\ th' = [th EXCEPT ![t].at = "test", ![t].id = userId[th[t].who]]
                 /\ UNCHANGED <<ws, session, tables, GarbageQueue, roster, crashed>>

(* ... tests valid (mutants: it does not, or it returns if it is not) ...   *)
TestValid_Always(t) == /\ At(t, "test")
                       /\ Goto(t, "retire")
                       /\ UNCHANGED <<ws, session, tables, GarbageQueue, roster, crashed>>
TestValid_Return(t) == /\ At(t, "test")
                       /\ Goto(t, IF th[t].who \in valid THEN "retire" ELSE "each")
                       /\ UNCHANGED <<ws, session, tables, GarbageQueue, roster, crashed>>
TestValid(t) == /\ At(t, "test")
                /\ Goto(t, IF th[t].who \in valid THEN "retire" ELSE "event loop")
                /\ UNCHANGED <<ws, session, tables, GarbageQueue, roster, crashed>>

(* ... invalidates and queues the session if it was valid ... *)
RetireValid(t) == /\ At(t, "retire")
                  /\ Retire(th[t].who)
                  /\ Goto(t, "event loop")
                  /\ UNCHANGED <<ws, alloc, userId, channel, tables, crashed>>

(* ... and sends the event to the sessions of its channel.  A session that  *)
(* is disconnected before it has a channel has a wild channelIndex.         *)
EventLoop(t) ==
    LET c == th[t].who IN
    /\ At(t, "event loop")
    /\ IF channel[c] = NoChannel
       THEN crashed' = TRUE /\ UNCHANGED th
       ELSE /\ th' = [th EXCEPT ![t].at = "each", ![t].must = Others("event", c)]
            /\ UNCHANGED crashed
    /\ UNCHANGED <<ws, session, tables, GarbageQueue, roster>>

--------------------------------------------------------------------------------
(* Request 3, AssignUserId, looks its userId up ... *)
AssignUserId(t, c, u) ==
    LET holder == UserIDSessionMap[u] IN
    /\ Client(t, c)
    /\ th' = [th EXCEPT ![t] =
                 IF holder = NoSession
                 THEN [Idle EXCEPT !.at = "assign", !.c = c, !.ask = u]
                 ELSE [Idle EXCEPT !.at = "kick", !.kind = "kicked", !.c = c, !.who = holder,
                                   !.ask = u]]
    /\ UNCHANGED <<ws, session, tables, GarbageQueue, roster, crashed>>

(* ... takes it from the session that holds it, which is disconnected on    *)
(* this thread if it is valid (the map may lead to a deleted session: two   *)
(* sessions had the same userId) ...                                        *)
Kick(t) ==
    LET holder == th[t].who IN
    /\ At(t, "kick")
    /\ IF holder \in alloc
       THEN userId' = [userId EXCEPT ![holder] = Zero] /\ UNCHANGED crashed
       ELSE crashed' \in {TRUE, FALSE} /\ UNCHANGED userId
    /\ th' = IF holder \in valid THEN [th EXCEPT ![t].at = "drop"]
             ELSE [th EXCEPT ![t] = [Idle EXCEPT !.at = "assign", !.c = th[t].c,
                                                 !.ask = th[t].ask]]
    /\ UNCHANGED <<ws, alloc, valid, channel, tables, GarbageQueue, roster>>

(* ... and gives it to the client. *)
Assign(t) ==
    LET c == th[t].c
        u == th[t].ask
    IN  /\ At(t, "assign")
        /\ UserIDSessionMap' = [UserIDSessionMap EXCEPT ![u] = c, ![userId[c]] = NoSession]
        /\ userId' = [userId EXCEPT ![c] = u]
        /\ Done(t)
        /\ UNCHANGED <<ws, alloc, valid, channel, SessionExists, ChannelClientTable,
                       channelIndex, GarbageQueue, roster, crashed>>

--------------------------------------------------------------------------------
(* Collections exclude handlers that have the lock. *)
NoHandler_Any == TRUE                      \* mutant: no lock
NoHandler == \A t \in Thread : At(t, "loop") \/ At(t, "lock")

(* FreeGarbage.  A session that is queued twice is deleted twice. *)
FreeGarbage ==
    LET freed == {c \in Conn : GarbageQueue[c] > 0}
        remaining == [ch \in Channel |-> channelIndex[ch] \ freed]
    IN  /\ NoHandler
        /\ freed # {}
        /\ crashed' = \E c \in freed : GarbageQueue[c] > 1
        /\ UserIDSessionMap' = [u \in Id |-> IF u # Zero /\ \E c \in freed : userId[c] = u
                                             THEN NoSession ELSE UserIDSessionMap[u]]
        /\ channelIndex' = remaining
        /\ ChannelClientTable' = {ch \in ChannelClientTable :
                                      \/ remaining[ch] # {}
                                      \/ \A c \in freed : channel[c] # ch
                                      \/ ch = Global}
        /\ SessionExists' = SessionExists \ freed
        /\ alloc' = alloc \ freed
        /\ userId' = [c \in Conn |-> IF c \in freed THEN Zero ELSE userId[c]]
        /\ channel' = [c \in Conn |-> IF c \in freed THEN NoChannel ELSE channel[c]]
        /\ GarbageQueue' = [c \in Conn |-> 0]
        /\ UNCHANGED <<ws, valid, roster, th>>

Handler(t, c) == \/ Connect(t, c) \/ SocketEnd(t, c)
                 \/ \E ch \in Channel : PickUserId(t, c, ch)
                 \/ OnMessage(t, c) \/ Broadcast(t, c) \/ DisconnectClient(t, c)
                 \/ OnDisconnection(t, c)

Step(t) == \/ EnterMap(t) \/ FindChannel(t) \/ CreateChannel(t) \/ DereferenceEnd(t)
           \/ Subscribe(t) \/ EnterSessionExists(t)
           \/ Visit(t) \/ Send(t) \/ LoopEnd(t)
           \/ Drop(t) \/ ReadUserId(t) \/ TestValid(t) \/ RetireValid(t) \/ EventLoop(t)

RequestStep(t) == \/ ClientDeleted(t)
                  \/ \E c \in Conn, u \in Requestable : AssignUserId(t, c, u)
                  \/ Kick(t) \/ Assign(t)

Next == /\ ~crashed
        /\ \/ \E t \in Thread, c \in Conn : Handler(t, c)
           \/ \E t \in Thread : Step(t) \/ RequestStep(t)
           \/ FreeGarbage

Spec == Init /\ [][Next]_vars

--------------------------------------------------------------------------------
(* A session is in the queue exactly once from the step that invalidates it *)
(* to the collection that deletes it.                                       *)
RetiredOnce == \A c \in Conn : GarbageQueue[c] = IF c \in alloc \ valid THEN 1 ELSE 0

(* Thread t is going to tell c that d is gone. *)
Announces(t, d, c) ==
    /\ th[t].who = d
    /\ \/ th[t].at \in {"event", "test", "retire", "event loop"}
       \/ /\ th[t].kind # "broadcast"
          /\ th[t].at \in {"each", "send"}
          /\ c \in th[t].must \ th[t].seen

(* Whatever the interleaving of joins, broadcasts and disconnections on     *)
(* different threads: a userId that a user has learned from its channel is  *)
(* that of a user who is still there, or of one whose disconnect event is   *)
(* on its way to the user.                                                  *)
RosterSound ==
    \A c \in valid : \A u \in roster[c] : \E d \in alloc :
        /\ userId[d] = u
        /\ channel[d] = channel[c]
        /\ d \in valid \/ \E t \in Thread : Announces(t, d, c)

(* A handler that is about to enter its session in a channel does find the  *)
(* channel in the table, and a session in a loop is not deleted: the        *)
(* collector takes away nothing that a handler has in its hands.            *)
NothingPulledAway ==
    \A t \in Thread :
        /\ At(t, "subscribe") => th[t].ch \in ChannelClientTable
        /\ th[t].must \cup ({th[t].c, th[t].who, th[t].v} \ {NoSession}) \subseteq
               alloc \cup {c \in Conn : At(t, "map") /\ c = th[t].c}

(* With requests for userIds, which disconnect sessions of other threads,   *)
(* RetiredOnce is lost, but nothing leaks: whatever is no longer valid is   *)
(* in the queue, and nothing that is valid is.                              *)
NothingLeaks == \A c \in alloc : GarbageQueue[c] > 0 <=> c \notin valid

(* "Create channel if it doesnt exist" (relay.cpp:661): after the attempt   *)
(* to create it the handler has its channel.                                *)
JoinFindsChannel == \A t \in Thread : ~At(t, "end()")

(* "If client is still valid: invalidate session" (relay.cpp:686) and       *)
(* "pending deletion" (relay.cpp:197): a session is queued for deletion     *)
(* once.                                                                    *)
NotQueuedTwice == \A c \in Conn : GarbageQueue[c] <= 1

================================================================================
