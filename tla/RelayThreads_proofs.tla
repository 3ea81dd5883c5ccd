--------------------------- MODULE RelayThreads_proofs -------------------------
(****************************************************************************)
(* Proofs about RelayThreads, for any number of threads, sockets, channels  *)
(* and userIds.  First what holds whatever the clients ask for: no session  *)
(* leaks.  Then, if no client asks for a userId, what the exclusion of the  *)
(* collector gives the handlers, and what users know of each other.         *)
(****************************************************************************)
EXTENDS RelayThreads, TLAPS

Joining == {"find", "insert", "end()", "subscribe"}
Leaving == {"drop", "event", "test", "retire", "event loop"}
Looping == {"each", "send"}

Place == Joining \cup Leaving \cup Looping
             \cup {"loop", "lock", "map", "exists", "kick", "assign"}
Kind == {"none", "broadcast", "gone", "closed", "kicked"}

Local == [at : Place, kind : Kind, c : Conn \cup {NoSession}, who : Conn \cup {NoSession},
          v : Conn \cup {NoSession}, id : Id, ask : Id, ch : Channel \cup {NoChannel},
          must : SUBSET Conn, seen : SUBSET Conn]

TypeInv == /\ ws \in [Conn -> {"none", "open", "closing"}]
           /\ alloc \subseteq Conn /\ valid \subseteq alloc
           /\ userId \in [Conn -> Id]
           /\ channel \in [Conn -> Channel \cup {NoChannel}]
           /\ UserIDSessionMap \in [Id -> Conn \cup {NoSession}]
           /\ SessionExists \subseteq Conn
           /\ ChannelClientTable \subseteq Channel
           /\ channelIndex \in [Channel -> SUBSET Conn]
           /\ GarbageQueue \in [Conn -> Nat]
           /\ roster \in [Conn -> SUBSET Id]
           /\ th \in [Thread -> Local]

(* What a thread has in its hands.  Only the owner of a socket makes a      *)
(* Session for it.                                                          *)
InHand(t) ==
    /\ th[t].at \in Joining \cup {"map", "exists", "lock"}
           => th[t].c \in Conn /\ Owner[th[t].c] = t
    /\ th[t].at = "map" => th[t].c \notin alloc
    /\ th[t].at \in Joining \cup {"exists"} => th[t].c \in alloc
    /\ th[t].at \in Joining \cup {"map"}
           => channel[th[t].c] = NoChannel /\ th[t].ch \in Channel
    /\ th[t].at \in Leaving \cup Looping => th[t].who \in alloc
    /\ th[t].at \in Looping => channel[th[t].who] \in Channel
    /\ th[t].at = "send" => th[t].v \in Conn

(* A Session has its channel unless its owner is about to find it. *)
Settled == \A c \in Conn :
    IF c \in alloc
    THEN \/ channel[c] \in Channel
         \/ th[Owner[c]].at \in Joining /\ th[Owner[c]].c = c
    ELSE channel[c] = NoChannel

Queued == \A c \in Conn : GarbageQueue[c] > 0 => c \in alloc

BaseInv == TypeInv /\ (\A t \in Thread : InHand(t)) /\ Settled /\ Queued /\ NothingLeaks

--------------------------------------------------------------------------------
NoRequests == Requestable = {}

(* Without requests a session is disconnected by its own thread only. *)
Alone(t) ==
    /\ th[t].at \notin {"kick", "assign"} /\ th[t].kind # "kicked"
    /\ th[t].at \notin Leaving \cup Looping
           => th[t].who = NoSession /\ th[t].v = NoSession /\ th[t].must = {}
    /\ th[t].at \in Leaving \cup Looping \cup {"loop"} => th[t].c = NoSession
    /\ th[t].at \in Leaving \cup Looping
           => /\ Owner[th[t].who] = t /\ ws[th[t].who] = "open"
              /\ th[t].must \subseteq alloc /\ th[t].v \in alloc \cup {NoSession}
    /\ th[t].at = "send" => th[t].v \in alloc
    /\ th[t].at = "map" => ws[th[t].c] = "open"
    /\ th[t].at = "lock" => th[t].c \in valid
    /\ th[t].at = "subscribe" => th[t].ch \in ChannelClientTable
    /\ th[t].at \in Leaving => th[t].kind # "broadcast"
    /\ th[t].at \in {"drop", "retire"} => th[t].who \in valid
    /\ th[t].at = "event loop" => th[t].who \notin valid
    /\ th[t].at \in Looping => (th[t].kind = "broadcast" <=> th[t].who \in valid)
    /\ th[t].at \in Looping \cup {"test", "retire", "event loop"}
           => th[t].id = userId[th[t].who]

ValidOpen == \A c \in valid : ws[c] = "open"

(* An invalid session with an open socket is one that its owner is          *)
(* disconnecting.                                                           *)
OpenInvalid == \A c \in alloc \ valid : ws[c] = "open" =>
    th[Owner[c]].who = c /\ th[Owner[c]].at \in Leaving \cup Looping

IndexExact == /\ SessionExists \subseteq alloc
              /\ \A ch \in Channel : channelIndex[ch] = {c \in alloc : channel[c] = ch}

AloneInv == (\A t \in Thread : Alone(t)) /\ ValidOpen /\ OpenInvalid /\ IndexExact /\ RetiredOnce

(* Who knows somebody is valid and has a channel. *)
RosterPlace == \A c \in Conn : roster[c] # {} => c \in valid /\ channel[c] \in Channel

(* A disconnection has passed nobody before its loop starts. *)
Fresh == \A t \in Thread : th[t].at \in Leaving => th[t].seen = {}

RosterInv == RosterPlace /\ Fresh /\ RosterSound

--------------------------------------------------------------------------------
(* What an assignment to a thread's locals leaves.                          *)
LEMMA Move ==
  ASSUME th \in [Thread -> Local], NEW t \in Thread, NEW p \in Place, Goto(t, p)
  PROVE  /\ th' \in [Thread -> Local]
         /\ \A s \in Thread \ {t} : th'[s] = th[s]
         /\ th'[t].at = p /\ th'[t].kind = th[t].kind /\ th'[t].c = th[t].c
         /\ th'[t].who = th[t].who /\ th'[t].v = th[t].v /\ th'[t].id = th[t].id
         /\ th'[t].ask = th[t].ask /\ th'[t].ch = th[t].ch
         /\ th'[t].must = th[t].must /\ th'[t].seen = th[t].seen
<1>1. th[t] \in Local
  OBVIOUS
<1>2. th' = [th EXCEPT ![t] = [th[t] EXCEPT !.at = p]]
  BY DEF Goto
<1>3. [th[t] EXCEPT !.at = p] \in Local
  BY <1>1 DEF Local
<1>4. th' \in [Thread -> Local] /\ th'[t] = [th[t] EXCEPT !.at = p]
      /\ \A s \in Thread \ {t} : th'[s] = th[s]
  BY <1>2, <1>3
<1> QED
  BY <1>1, <1>4 DEF Local

(* The same if all of them are assigned.                                    *)
LEMMA Become ==
  ASSUME th \in [Thread -> Local], NEW t \in Thread, NEW r \in Local,
         th' = [th EXCEPT ![t] = r]
  PROVE  /\ th' \in [Thread -> Local] /\ th'[t] = r
         /\ \A s \in Thread \ {t} : th'[s] = th[s]
  OBVIOUS

(* A thread that waits in its event loop.                                   *)
LEMMA IdleFacts ==
  /\ Idle \in Local
  /\ Idle.at = "loop" /\ Idle.kind = "none" /\ Idle.c = NoSession /\ Idle.who = NoSession
  /\ Idle.v = NoSession /\ Idle.id = Zero /\ Idle.ask = Zero /\ Idle.must = {}
  /\ Idle.seen = {} /\ Idle.ch = NoChannel
  BY DEF Idle, Local, Place, Kind, Id

(* A step of a thread that leaves sessions, tables and queue alone.         *)
LEMMA BaseFrame ==
  ASSUME BaseInv, NEW t \in Thread, th' \in [Thread -> Local],
         \A s \in Thread \ {t} : th'[s] = th[s],
         UNCHANGED <<session, tables, GarbageQueue>>,
         ws' \in [Conn -> {"none", "open", "closing"}], roster' \in [Conn -> SUBSET Id],
         InHand(t)',
         th[t].at \in Joining => th'[t].at \in Joining /\ th'[t].c = th[t].c
  PROVE  BaseInv'
<1>1. TypeInv'
  BY DEF BaseInv, TypeInv, session, tables
<1>2. ASSUME NEW s \in Thread PROVE InHand(s)'
  <2>1. CASE s # t
    BY <2>1 DEF BaseInv, InHand, session
  <2> QED
    BY <2>1
<1>3. Settled'
  <2> SUFFICES ASSUME NEW c \in Conn
               PROVE  IF c \in alloc
                      THEN \/ channel[c] \in Channel
                           \/ th'[Owner[c]].at \in Joining /\ th'[Owner[c]].c = c
                      ELSE channel[c] = NoChannel
    BY DEF Settled, session
  <2>1. Owner[c] \in Thread
    BY ThreadsAssumption
  <2> QED
    BY <2>1 DEF BaseInv, Settled
<1>4. Queued' /\ NothingLeaks'
  BY DEF BaseInv, Queued, NothingLeaks, session
<1> QED
  BY <1>1, <1>2, <1>3, <1>4 DEF BaseInv

(* A thread goes on, or drops what it has.                                  *)
LEMMA BaseMove ==
  ASSUME BaseInv, NEW t \in Thread, NEW p \in Place, Goto(t, p),
         UNCHANGED <<ws, session, tables, GarbageQueue, roster>>,
         th[t].at \in Joining => p \in Joining,
         p \in {"loop", "each", "retire", "event loop", "test", "drop"}
           \cup {"subscribe", "insert", "end()"},
         p \in {"subscribe", "insert", "end()"} => th[t].at \in Joining,
         p \in Leaving \cup Looping => th[t].at \in Leaving \cup Looping,
         p \in Looping => th[t].at \in Looping
  PROVE  BaseInv'
<1>1. th \in [Thread -> Local] /\ InHand(t)
  BY DEF BaseInv, TypeInv
<1>2. /\ th' \in [Thread -> Local] /\ \A s \in Thread \ {t} : th'[s] = th[s]
      /\ th'[t].at = p /\ th'[t].c = th[t].c /\ th'[t].who = th[t].who /\ th'[t].ch = th[t].ch
  BY <1>1, Move
<1>3. InHand(t)'
  BY <1>1, <1>2 DEF InHand, session, Joining, Leaving, Looping
<1> QED
  BY <1>1, <1>2, <1>3, BaseFrame DEF BaseInv, TypeInv

(* The sessions that a loop passes are sessions.                            *)
LEMMA OthersType ==
  ASSUME TypeInv, NEW kind, NEW c \in Conn, channel[c] \in Channel
  PROVE  Others(kind, c) \in SUBSET Conn
  BY DEF TypeInv, Others

(* The handlers of a socket's events.                                       *)
LEMMA BaseHandler ==
  ASSUME BaseInv, NEW t \in Thread, NEW c \in Conn, Handler(t, c)
  PROVE  BaseInv'
<1>0. /\ th \in [Thread -> Local] /\ roster \in [Conn -> SUBSET Id]
      /\ ws \in [Conn -> {"none", "open", "closing"}]
      /\ \A s \in Thread : InHand(s) /\ th[s] \in Local
      /\ Settled /\ TypeInv /\ Owner \in [Conn -> Thread] /\ NoSession \notin Conn
  BY ThreadsAssumption DEF BaseInv, TypeInv
<1>1. ASSUME NEW r \in Local, th' = [th EXCEPT ![t] = r], th[t].at \in {"loop", "lock"},
             UNCHANGED <<ws, session, tables, GarbageQueue, roster>>,
             \/ r.at = "map" /\ r.c = c /\ Owner[c] = t /\ c \notin alloc /\ r.ch \in Channel
             \/ r.at = "lock" /\ r.c = c /\ Owner[c] = t
             \/ r.at \in Leaving /\ r.who = c /\ c \in alloc
             \/ r.at = "each" /\ r.who = c /\ c \in alloc /\ channel[c] \in Channel
      PROVE  BaseInv'
  <2>1. /\ th' \in [Thread -> Local] /\ th'[t] = r
        /\ \A s \in Thread \ {t} : th'[s] = th[s]
    BY <1>0, <1>1, Become
  <2>2. InHand(t)'
    <3> USE <1>0, <1>1, <2>1 DEF InHand, Joining, Leaving, Looping, session
    <3>1. CASE r.at = "map" /\ r.c = c /\ Owner[c] = t /\ c \notin alloc /\ r.ch \in Channel
      BY <3>1 DEF Settled
    <3>2. CASE r.at = "lock" /\ r.c = c /\ Owner[c] = t
      BY <3>2
    <3>3. CASE r.at \in Leaving /\ r.who = c /\ c \in alloc
      BY <3>3
    <3>4. CASE r.at = "each" /\ r.who = c /\ c \in alloc /\ channel[c] \in Channel
      BY <3>4
    <3> QED
      BY <3>1, <3>2, <3>3, <3>4
  <2>3. th[t].at \notin Joining
    BY <1>1 DEF Joining
  <2> QED
    BY <1>0, <1>1, <2>1, <2>2, <2>3, BaseFrame
<1>2. CASE Connect(t, c) \/ SocketEnd(t, c)
  <2>1. ws' \in [Conn -> {"none", "open", "closing"}]
    BY <1>0, <1>2 DEF Connect, SocketEnd
  <2>2. UNCHANGED <<session, tables, GarbageQueue, roster, th>>
    BY <1>2 DEF Connect, SocketEnd
  <2>3. InHand(t)'
    BY <1>0, <2>2 DEF InHand, session
  <2> QED
    BY <1>0, <2>1, <2>2, <2>3, BaseFrame
<1>3. ASSUME NEW ch \in Channel, PickUserId(t, c, ch) PROVE BaseInv'
  <2>1. PICK u \in Generated :
           th' = [th EXCEPT ![t] = [Idle EXCEPT !.at = "map", !.c = c, !.id = u, !.ch = ch]]
    BY <1>3 DEF PickUserId
  <2> DEFINE r == [Idle EXCEPT !.at = "map", !.c = c, !.id = u, !.ch = ch]
  <2>2. r \in Local /\ r.at = "map" /\ r.c = c /\ r.ch = ch
    BY DEF Idle, Local, Place, Kind, Id
  <2> QED
    BY <1>1, <1>3, <2>1, <2>2 DEF PickUserId, Open, Free
<1>4. CASE OnMessage(t, c)
  <2> DEFINE r == [Idle EXCEPT !.at = "lock", !.c = c]
  <2>1. r \in Local /\ r.at = "lock" /\ r.c = c
    BY DEF Idle, Local, Place, Kind, Id
  <2> QED
    BY <1>1, <1>4, <2>1 DEF OnMessage, Open, Free
<1>5. CASE Broadcast(t, c)
  <2> DEFINE r == [Idle EXCEPT !.at = "each", !.kind = "broadcast", !.who = c,
                               !.id = userId[c], !.must = Others("broadcast", c)]
  <2>1. th[t].at = "lock" /\ th[t].c = c /\ c \in alloc
    BY <1>5 DEF Broadcast, Client, At
  <2>2. channel[c] \in Channel
    BY <1>0, <2>1 DEF InHand, Settled, Joining
  <2>3. Others("broadcast", c) \in SUBSET Conn /\ userId[c] \in Id
    BY <1>0, <2>2, OthersType DEF TypeInv
  <2>4. r \in Local /\ r.at = "each" /\ r.who = c
    BY <2>3 DEF Idle, Local, Place, Kind, Id, Looping
  <2> QED
    BY <1>1, <1>5, <2>1, <2>2, <2>4 DEF Broadcast, Looping
<1>6. CASE DisconnectClient(t, c)
  <2> DEFINE r == [Idle EXCEPT !.at = "drop", !.kind = "closed", !.who = c]
  <2>1. r \in Local /\ r.at = "drop" /\ r.who = c
    BY DEF Idle, Local, Place, Kind, Id, Leaving
  <2> QED
    BY <1>1, <1>6, <2>1 DEF DisconnectClient, Departure, Client, At, Leaving
<1>7. CASE OnDisconnection(t, c)
  <2> DEFINE r == [Idle EXCEPT !.at = "event", !.kind = "gone", !.who = c]
  <2>1. r \in Local /\ r.at = "event" /\ r.who = c
    BY DEF Idle, Local, Place, Kind, Id, Leaving
  <2> QED
    BY <1>1, <1>7, <2>1 DEF OnDisconnection, Departure, Open, Free, Leaving
<1> QED
  BY <1>2, <1>3, <1>4, <1>5, <1>6, <1>7 DEF Handler

(* The loops, and the steps of a disconnection before them.                 *)
LEMMA BaseLoop ==
  ASSUME BaseInv, NEW t \in Thread,
         Visit(t) \/ Send(t) \/ LoopEnd(t) \/ ReadUserId(t) \/ TestValid(t) \/ EventLoop(t)
  PROVE  BaseInv'
<1>0. /\ th \in [Thread -> Local] /\ th[t] \in Local /\ InHand(t) /\ TypeInv
      /\ th[t].at \notin Joining
  BY DEF BaseInv, TypeInv, Visit, Send, LoopEnd, ReadUserId, TestValid, EventLoop, At, Joining
<1>1. ASSUME NEW r \in Local, th' = [th EXCEPT ![t] = r],
             UNCHANGED <<session, tables, GarbageQueue>>,
             ws' \in [Conn -> {"none", "open", "closing"}], roster' \in [Conn -> SUBSET Id],
             \/ r.at \in {"loop", "assign"}
             \/ r.at \in Leaving /\ r.who = th[t].who /\ th[t].at \in Leaving
             \/ /\ r.at \in Looping /\ r.who = th[t].who /\ th[t].at \in Leaving \cup Looping
                /\ channel[th[t].who] \in Channel
                /\ r.at = "send" => r.v \in Conn
      PROVE  BaseInv'
  <2>1. /\ th' \in [Thread -> Local] /\ th'[t] = r
        /\ \A s \in Thread \ {t} : th'[s] = th[s]
    BY <1>0, <1>1, Become
  <2>2. InHand(t)'
    BY <1>0, <1>1, <2>1 DEF InHand, Joining, Leaving, Looping, session
  <2> QED
    BY <1>0, <1>1, <2>1, <2>2, BaseFrame
<1>2. CASE Visit(t)
  <2>1. PICK v \in Others(th[t].kind, th[t].who) \ th[t].seen :
           th' = IF v \in valid
                 THEN [th EXCEPT ![t] = [th[t] EXCEPT !.at = "send", !.v = v]]
                 ELSE [th EXCEPT ![t] = [th[t] EXCEPT !.seen = @ \cup {v}]]
    BY <1>0, <1>2 DEF Visit
  <2>2. th[t].at = "each" /\ th[t].who \in Conn /\ channel[th[t].who] \in Channel
    BY <1>0, <1>2 DEF Visit, At, InHand, Looping, TypeInv
  <2>3. v \in Conn
    BY <1>0, <2>2, OthersType
  <2> DEFINE r == IF v \in valid THEN [th[t] EXCEPT !.at = "send", !.v = v]
                  ELSE [th[t] EXCEPT !.seen = @ \cup {v}]
  <2>4. r \in Local /\ r.at \in {"each", "send"} /\ r.who = th[t].who
        /\ (r.at = "send" => r.v \in Conn)
    BY <1>0, <2>2, <2>3 DEF Local, Place, Looping
  <2>5. th' = [th EXCEPT ![t] = r]
    BY <2>1
  <2> QED
    BY <1>0, <1>1, <1>2, <2>2, <2>4, <2>5 DEF Visit, TypeInv, Looping
<1>3. CASE Send(t)
  <2> DEFINE v == th[t].v
             r == [th[t] EXCEPT !.at = "each", !.seen = @ \cup {v}, !.v = NoSession]
  <2>1. th[t].at = "send" /\ v \in Conn /\ channel[th[t].who] \in Channel
    BY <1>0, <1>3 DEF Send, At, InHand, Looping
  <2>2. th' = [th EXCEPT ![t] = r]
    BY <1>0, <1>3 DEF Send
  <2>3. r \in Local /\ r.at = "each" /\ r.who = th[t].who
    BY <1>0, <2>1 DEF Local, Place, Looping
  <2>4. roster' \in [Conn -> SUBSET Id]
    <3>1. Heard(t) \in SUBSET Id
      BY <1>0, <2>1 DEF Heard, TypeInv, Local
    <3> QED
      BY <1>0, <1>3, <2>1, <3>1 DEF Send, TypeInv
  <2> QED
    BY <1>0, <1>1, <1>3, <2>1, <2>2, <2>3, <2>4 DEF Send, TypeInv, Looping
<1>4. CASE LoopEnd(t)
  <2> DEFINE r == IF th[t].kind = "kicked"
                  THEN [Idle EXCEPT !.at = "assign", !.c = th[t].c, !.ask = th[t].ask]
                  ELSE Idle
  <2>1. r \in Local /\ r.at \in {"loop", "assign"}
    BY <1>0 DEF Idle, Local, Place, Kind, Id
  <2>2. th' = [th EXCEPT ![t] = r]
    BY <1>4 DEF LoopEnd, Done
  <2>3. ws' \in [Conn -> {"none", "open", "closing"}]
    BY <1>0, <1>4 DEF LoopEnd, TypeInv, Ends
  <2> QED
    BY <1>0, <1>1, <1>4, <2>1, <2>2, <2>3 DEF LoopEnd, TypeInv
<1>5. CASE ReadUserId(t)
  <2> DEFINE r == [th[t] EXCEPT !.at = "test", !.id = userId[th[t].who]]
  <2>1. th[t].at = "event" /\ th[t].who \in Conn
    BY <1>0, <1>5 DEF ReadUserId, At, InHand, Leaving, TypeInv
  <2>2. r \in Local /\ r.at = "test" /\ r.who = th[t].who
    BY <1>0, <2>1 DEF Local, Place, Leaving, TypeInv
  <2>3. th' = [th EXCEPT ![t] = r]
    BY <1>0, <1>5 DEF ReadUserId
  <2> QED
    BY <1>0, <1>1, <1>5, <2>1, <2>2, <2>3 DEF ReadUserId, TypeInv, Leaving
<1>6. CASE TestValid(t)
  <2> DEFINE p == IF th[t].who \in valid THEN "retire" ELSE "event loop"
             r == [th[t] EXCEPT !.at = p]
  <2>1. th[t].at = "test"
    BY <1>6 DEF TestValid, At
  <2>2. r \in Local /\ r.at \in {"retire", "event loop"} /\ r.who = th[t].who
    BY <1>0 DEF Local, Place, Leaving
  <2>3. th' = [th EXCEPT ![t] = r]
    BY <1>0, <1>6 DEF TestValid, Goto
  <2> QED
    BY <1>0, <1>1, <1>6, <2>1, <2>2, <2>3 DEF TestValid, TypeInv, Leaving
<1>7. CASE EventLoop(t)
  <2> DEFINE r == IF channel[th[t].who] = NoChannel THEN th[t]
                  ELSE [th[t] EXCEPT !.at = "each", !.must = Others("event", th[t].who)]
  <2>1. th[t].at = "event loop" /\ th[t].who \in Conn
    BY <1>0, <1>7 DEF EventLoop, At, InHand, Leaving, TypeInv
  <2>2. channel[th[t].who] # NoChannel => channel[th[t].who] \in Channel
    BY <1>0, <2>1 DEF TypeInv
  <2>3. channel[th[t].who] # NoChannel => Others("event", th[t].who) \in SUBSET Conn
    BY <1>0, <2>1, <2>2, OthersType
  <2>4. r \in Local /\ r.who = th[t].who
        /\ r.at = IF channel[th[t].who] = NoChannel THEN "event loop" ELSE "each"
    BY <1>0, <2>1, <2>3 DEF Local, Place, Looping
  <2>5. th' = [th EXCEPT ![t] = r]
    BY <1>0, <1>7 DEF EventLoop
  <2>6. \/ r.at \in Leaving /\ r.who = th[t].who /\ th[t].at \in Leaving
        \/ /\ r.at \in Looping /\ r.who = th[t].who /\ th[t].at \in Leaving \cup Looping
           /\ channel[th[t].who] \in Channel
           /\ r.at = "send" => r.v \in Conn
    <3>1. CASE channel[th[t].who] = NoChannel
      <4>1. r.at = "event loop"
        BY <2>4, <3>1
      <4> QED
        BY <2>1, <2>4, <4>1 DEF Leaving
    <3>2. CASE channel[th[t].who] # NoChannel
      <4>1. r.at = "each"
        BY <2>4, <3>2
      <4> QED
        BY <2>1, <2>2, <2>4, <3>2, <4>1 DEF Leaving, Looping
    <3> QED
      BY <3>1, <3>2
  <2>7. UNCHANGED <<ws, session, tables, GarbageQueue, roster>>
    BY <1>7 DEF EventLoop
  <2> HIDE DEF r
  <2> QED
    BY <1>0, <1>1, <2>4, <2>5, <2>6, <2>7 DEF TypeInv
<1> QED
  BY <1>2, <1>3, <1>4, <1>5, <1>6, <1>7

(* The steps of the first packet.                                           *)
LEMMA BaseJoin ==
  ASSUME BaseInv, NEW t \in Thread,
         \/ EnterMap(t) \/ FindChannel(t) \/ CreateChannel(t) \/ DereferenceEnd(t)
         \/ Subscribe(t) \/ EnterSessionExists(t)
  PROVE  BaseInv'
<1> DEFINE c == th[t].c
<1>0. /\ th \in [Thread -> Local] /\ th[t] \in Local /\ TypeInv
      /\ \A s \in Thread : InHand(s)
      /\ Owner \in [Conn -> Thread] /\ Settled /\ Queued /\ NothingLeaks
  BY ThreadsAssumption DEF BaseInv, TypeInv
<1>1. CASE FindChannel(t)
  <2> DEFINE p == IF th[t].ch \in ChannelClientTable THEN "subscribe" ELSE "insert"
  <2>1. th[t].at = "find"
    BY <1>1 DEF FindChannel, At
  <2>2. p \in Place /\ p \in Joining /\ Goto(t, p)
    BY <1>1 DEF FindChannel, Place, Joining
  <2>3. UNCHANGED <<ws, session, tables, GarbageQueue, roster>>
    BY <1>1 DEF FindChannel
  <2>4. p \notin Leaving \cup Looping /\ p \in {"subscribe", "insert", "end()"}
    BY DEF Leaving, Looping
  <2> HIDE DEF p
  <2> QED
    BY <2>1, <2>2, <2>3, <2>4, BaseMove DEF Joining
<1>2. CASE DereferenceEnd(t)
  <2>1. UNCHANGED <<ws, session, tables, GarbageQueue, roster, th>>
    BY <1>2 DEF DereferenceEnd
  <2>2. InHand(t)'
    BY <1>0, <2>1 DEF InHand, session
  <2> QED
    BY <1>0, <2>1, <2>2, BaseFrame DEF TypeInv
<1>3. CASE EnterMap(t)
  <2>1. th[t].at = "map" /\ c \in Conn /\ Owner[c] = t /\ c \notin alloc
        /\ channel[c] = NoChannel /\ th[t].ch \in Channel
    BY <1>0, <1>3 DEF EnterMap, At, InHand, Joining
  <2>2. /\ th' \in [Thread -> Local] /\ \A s \in Thread \ {t} : th'[s] = th[s]
        /\ th'[t].at = "find" /\ th'[t].c = c /\ th'[t].ch = th[t].ch
    <3>1. "find" \in Place /\ Goto(t, "find")
      BY <1>3 DEF EnterMap, Place, Joining
    <3> QED
      BY <1>0, <3>1, Move
  <2>3. alloc' = alloc \cup {c} /\ valid' = valid \cup {c} /\ channel' = channel
        /\ GarbageQueue' = GarbageQueue
    BY <1>3 DEF EnterMap
  <2>4. TypeInv'
    BY <1>0, <1>3, <2>1, <2>2 DEF EnterMap, TypeInv, Local
  <2>5. ASSUME NEW s \in Thread PROVE InHand(s)'
    <3>1. CASE s = t
      BY <2>1, <2>2, <2>3, <3>1 DEF InHand, Joining, Leaving, Looping
    <3>2. CASE s # t
      <4>1. InHand(s) /\ th'[s] = th[s]
        BY <1>0, <2>2, <3>2
      <4>2. th[s].at = "map" => th[s].c # c
        BY <2>1, <3>2, <4>1 DEF InHand
      <4> QED
        BY <2>3, <4>1, <4>2 DEF InHand
    <3> QED
      BY <3>1, <3>2
  <2>6. Settled'
    <3> SUFFICES ASSUME NEW d \in Conn
                 PROVE  IF d \in alloc'
                        THEN \/ channel[d] \in Channel
                             \/ th'[Owner[d]].at \in Joining /\ th'[Owner[d]].c = d
                        ELSE channel[d] = NoChannel
      BY <2>3 DEF Settled
    <3>1. CASE d = c
      BY <2>1, <2>2, <2>3, <3>1 DEF Joining
    <3>2. CASE d # c
      <4>1. th[Owner[d]].at \in Joining => Owner[d] # t
        BY <2>1 DEF Joining
      <4> QED
        BY <1>0, <2>2, <2>3, <3>2, <4>1 DEF Settled
    <3> QED
      BY <3>1, <3>2
  <2>7. Queued' /\ NothingLeaks'
    <3>1. ~(GarbageQueue[c] > 0)
      BY <1>0, <2>1 DEF Queued
    <3> QED
      BY <1>0, <2>1, <2>3, <3>1 DEF Queued, NothingLeaks
  <2> QED
    BY <2>4, <2>5, <2>6, <2>7 DEF BaseInv
<1>4. CASE CreateChannel(t)
  <2> DEFINE p == IF th[t].ch \in ChannelClientTable THEN "end()" ELSE "subscribe"
  <2>1. th[t].at = "insert" /\ c \in Conn /\ c \in alloc /\ channel[c] = NoChannel
        /\ Owner[c] = t /\ th[t].ch \in Channel
    BY <1>0, <1>4 DEF CreateChannel, At, InHand, Joining
  <2>2. /\ th' \in [Thread -> Local] /\ \A s \in Thread \ {t} : th'[s] = th[s]
        /\ th'[t].at = p /\ th'[t].c = c /\ th'[t].ch = th[t].ch
    <3>1. p \in Place /\ Goto(t, p)
      BY <1>4 DEF CreateChannel, Place, Joining
    <3> HIDE DEF p
    <3> QED
      BY <1>0, <3>1, Move
  <2>3. UNCHANGED <<ws, session, UserIDSessionMap, SessionExists, channelIndex,
                    GarbageQueue, roster>>
    BY <1>4 DEF CreateChannel
  <2>4. TypeInv'
    BY <1>0, <1>4, <2>1, <2>2 DEF CreateChannel, TypeInv, session
  <2>5. p \in Joining
    BY DEF Joining
  <2> HIDE DEF p
  <2>6. ASSUME NEW s \in Thread PROVE InHand(s)'
    <3>1. CASE s = t
      <4>1. p \notin Leaving \cup Looping \cup {"map", "exists", "lock"}
        BY <2>5 DEF Joining, Leaving, Looping
      <4> QED
        BY <2>1, <2>2, <2>3, <2>5, <3>1, <4>1 DEF InHand, session, Looping
    <3>2. CASE s # t
      BY <1>0, <2>2, <2>3, <3>2 DEF InHand, session
    <3> QED
      BY <3>1, <3>2
  <2>7. Settled'
    <3> SUFFICES ASSUME NEW d \in Conn
                 PROVE  IF d \in alloc
                        THEN \/ channel[d] \in Channel
                             \/ th'[Owner[d]].at \in Joining /\ th'[Owner[d]].c = d
                        ELSE channel[d] = NoChannel
      BY <2>3 DEF Settled, session
    <3>1. Owner[d] \in Thread
      BY <1>0
    <3>2. Owner[d] = t => th'[Owner[d]].at \in Joining /\ th'[Owner[d]].c = th[Owner[d]].c
      BY <2>2, <2>5
    <3> QED
      BY <1>0, <2>2, <3>1, <3>2 DEF Settled
  <2>8. Queued' /\ NothingLeaks'
    BY <1>0, <2>3 DEF Queued, NothingLeaks, session
  <2> QED
    BY <2>4, <2>6, <2>7, <2>8 DEF BaseInv
<1>5. CASE Subscribe(t)
  <2>1. th[t].at = "subscribe" /\ c \in Conn /\ c \in alloc /\ channel[c] = NoChannel
        /\ Owner[c] = t /\ th[t].ch \in Channel
    BY <1>0, <1>5 DEF Subscribe, At, InHand, Joining
  <2>2. /\ th' \in [Thread -> Local] /\ \A s \in Thread \ {t} : th'[s] = th[s]
        /\ th'[t].at = "exists" /\ th'[t].c = c
    <3>1. "exists" \in Place /\ Goto(t, "exists")
      BY <1>5 DEF Subscribe, Place
    <3> QED
      BY <1>0, <3>1, Move
  <2>3. channel' = [channel EXCEPT ![c] = th[t].ch] /\ channel \in [Conn -> Channel \cup {NoChannel}]
        /\ UNCHANGED <<alloc, valid, GarbageQueue>>
    BY <1>0, <1>5 DEF Subscribe, TypeInv
  <2>4. TypeInv'
    BY <1>0, <1>5, <2>1, <2>2, <2>3 DEF Subscribe, TypeInv
  <2>5. ASSUME NEW s \in Thread PROVE InHand(s)'
    <3>1. CASE s = t
      BY <2>1, <2>2, <2>3, <3>1 DEF InHand, Joining, Leaving, Looping
    <3>2. CASE s # t
      <4>1. InHand(s) /\ th'[s] = th[s]
        BY <1>0, <2>2, <3>2
      <4>2. th[s].at \in Joining \cup {"map"} => th[s].c # c /\ th[s].c \in Conn
        BY <2>1, <3>2, <4>1 DEF InHand
      <4>3. th[s].at \in Looping => channel[th[s].who] \in Channel /\ th[s].who \in Conn
        BY <1>0, <4>1 DEF InHand, TypeInv
      <4>4. th[s].at \in Looping => channel'[th[s].who] \in Channel
        BY <2>1, <2>3, <4>3
      <4> QED
        BY <2>3, <4>1, <4>2, <4>4 DEF InHand
    <3> QED
      BY <3>1, <3>2
  <2>6. Settled'
    BY <1>0, <2>1, <2>2, <2>3 DEF Settled
  <2>7. Queued' /\ NothingLeaks'
    BY <1>0, <2>3 DEF Queued, NothingLeaks
  <2> QED
    BY <2>4, <2>5, <2>6, <2>7 DEF BaseInv
<1>6. CASE EnterSessionExists(t)
  <2>1. th[t].at = "exists" /\ c \in Conn
    BY <1>0, <1>6 DEF EnterSessionExists, At, InHand
  <2>2. th' \in [Thread -> Local] /\ th'[t] = Idle /\ \A s \in Thread \ {t} : th'[s] = th[s]
    BY <1>0, <1>6, Become, IdleFacts DEF EnterSessionExists, Done
  <2>3. UNCHANGED <<session, GarbageQueue>>
    BY <1>6 DEF EnterSessionExists
  <2>4. TypeInv'
    BY <1>0, <1>6, <2>1, <2>2 DEF EnterSessionExists, TypeInv, session
  <2>5. ASSUME NEW s \in Thread PROVE InHand(s)'
    <3>1. CASE s = t
      BY <2>2, <3>1, IdleFacts DEF InHand, Joining, Leaving, Looping
    <3>2. CASE s # t
      BY <1>0, <2>2, <2>3, <3>2 DEF InHand, session
    <3> QED
      BY <3>1, <3>2
  <2>6. Settled'
    BY <1>0, <2>1, <2>2, <2>3 DEF Settled, session, Joining
  <2>7. Queued' /\ NothingLeaks'
    BY <1>0, <2>3 DEF Queued, NothingLeaks, session
  <2> QED
    BY <2>4, <2>5, <2>6, <2>7 DEF BaseInv
<1> QED
  BY <1>1, <1>2, <1>3, <1>4, <1>5, <1>6

(* A session is invalidated and queued.                                     *)
LEMMA BaseRetire ==
  ASSUME BaseInv, NEW t \in Thread, Drop(t) \/ RetireValid(t)
  PROVE  BaseInv'
<1> DEFINE c == th[t].who
           p == IF Drop(t) THEN "event" ELSE "event loop"
<1>0. /\ th \in [Thread -> Local] /\ TypeInv /\ \A s \in Thread : InHand(s)
      /\ Settled /\ Queued /\ NothingLeaks /\ Owner \in [Conn -> Thread]
  BY ThreadsAssumption DEF BaseInv, TypeInv
<1>1. th[t].at \in {"drop", "retire"} /\ Goto(t, p) /\ Retire(c)
      /\ UNCHANGED <<ws, alloc, userId, channel, tables>>
  BY DEF Drop, RetireValid, At
<1>2. c \in alloc /\ c \in Conn
  BY <1>0, <1>1 DEF InHand, Leaving, TypeInv
<1>3. p \in Place /\ p \in Leaving
  BY DEF Place, Leaving
<1> HIDE DEF p
<1>4. /\ th' \in [Thread -> Local] /\ \A s \in Thread \ {t} : th'[s] = th[s]
      /\ th'[t].at = p /\ th'[t].c = th[t].c /\ th'[t].who = c
  BY <1>0, <1>1, <1>3, Move
<1>5. /\ valid' = valid \ {c} /\ roster' = [roster EXCEPT ![c] = {}]
      /\ GarbageQueue' = [GarbageQueue EXCEPT ![c] = @ + 1]
  BY <1>1 DEF Retire
<1>6. TypeInv'
  BY <1>0, <1>1, <1>2, <1>4, <1>5 DEF TypeInv, tables
<1>7. ASSUME NEW s \in Thread PROVE InHand(s)'
  <2>1. CASE s = t
    <3>1. p \notin Joining \cup Looping \cup {"map", "exists", "lock"}
      BY <1>3 DEF Joining, Leaving, Looping
    <3>2. p # "send"
      BY <3>1 DEF Looping
    <3> QED
      BY <1>1, <1>2, <1>4, <2>1, <3>1, <3>2 DEF InHand
  <2>2. CASE s # t
    BY <1>0, <1>1, <1>4, <2>2 DEF InHand
  <2> QED
    BY <2>1, <2>2
<1>8. Settled'
  <2>1. th[t].at \notin Joining
    BY <1>1 DEF Joining
  <2> QED
    BY <1>0, <1>1, <1>4, <2>1 DEF Settled
<1>9. Queued' /\ NothingLeaks'
  BY <1>0, <1>1, <1>2, <1>5 DEF Queued, NothingLeaks, TypeInv
<1> QED
  BY <1>6, <1>7, <1>8, <1>9 DEF BaseInv

(* The steps of a request for a userId.                                     *)
LEMMA BaseRequest ==
  ASSUME BaseInv, NEW t \in Thread, RequestStep(t)
  PROVE  BaseInv'
<1>0. /\ th \in [Thread -> Local] /\ th[t] \in Local /\ TypeInv /\ InHand(t)
      /\ \A s \in Thread : InHand(s)
      /\ Settled /\ Queued /\ NothingLeaks /\ Owner \in [Conn -> Thread]
  BY ThreadsAssumption DEF BaseInv, TypeInv
<1>1. CASE ClientDeleted(t)
  <2>1. th[t].at = "lock" /\ UNCHANGED <<ws, session, tables, GarbageQueue, roster>>
    BY <1>1 DEF ClientDeleted, At
  <2>2. th' \in [Thread -> Local] /\ th'[t] = Idle /\ \A s \in Thread \ {t} : th'[s] = th[s]
    BY <1>0, <1>1, Become, IdleFacts DEF ClientDeleted, Done
  <2>3. InHand(t)'
    BY <2>2, IdleFacts DEF InHand, Joining, Leaving, Looping
  <2> QED
    BY <1>0, <2>1, <2>2, <2>3, BaseFrame DEF TypeInv, Joining
<1>2. ASSUME NEW c \in Conn, NEW u \in Requestable, AssignUserId(t, c, u) PROVE BaseInv'
  <2> DEFINE holder == UserIDSessionMap[u]
             r == IF holder = NoSession
                  THEN [Idle EXCEPT !.at = "assign", !.c = c, !.ask = u]
                  ELSE [Idle EXCEPT !.at = "kick", !.kind = "kicked", !.c = c, !.who = holder,
                                    !.ask = u]
  <2>1. th[t].at = "lock" /\ UNCHANGED <<ws, session, tables, GarbageQueue, roster>>
        /\ th' = [th EXCEPT ![t] = r]
    BY <1>2 DEF AssignUserId, Client, At
  <2>2. u \in Id /\ holder \in Conn \cup {NoSession}
    BY <1>0 DEF TypeInv, Id
  <2>3. r \in Local /\ r.at \in {"assign", "kick"}
    BY <2>2 DEF Idle, Local, Place, Kind, Id
  <2> HIDE DEF r
  <2>4. th' \in [Thread -> Local] /\ th'[t] = r /\ \A s \in Thread \ {t} : th'[s] = th[s]
    BY <1>0, <2>1, <2>3, Become
  <2>5. InHand(t)'
    BY <2>3, <2>4 DEF InHand, Joining, Leaving, Looping
  <2> QED
    BY <1>0, <2>1, <2>4, <2>5, BaseFrame DEF TypeInv, Joining
<1>3. CASE Kick(t)
  <2> DEFINE holder == th[t].who
             r == IF holder \in valid THEN [th[t] EXCEPT !.at = "drop"]
                  ELSE [Idle EXCEPT !.at = "assign", !.c = th[t].c, !.ask = th[t].ask]
  <2>1. th[t].at = "kick" /\ UNCHANGED <<ws, alloc, valid, channel, tables, GarbageQueue, roster>>
        /\ th' = [th EXCEPT ![t] = r]
    BY <1>3 DEF Kick, At
  <2>2. r \in Local /\ (IF holder \in valid THEN r.at = "drop" /\ r.who = holder
                        ELSE r.at = "assign")
    <3>1. CASE holder \in valid
      <4>1. [th[t] EXCEPT !.at = "drop"] \in Local
        BY <1>0 DEF Local, Place, Leaving
      <4>2. [th[t] EXCEPT !.at = "drop"].at = "drop" /\ [th[t] EXCEPT !.at = "drop"].who = holder
        BY <1>0 DEF Local
      <4> QED
        BY <3>1, <4>1, <4>2
    <3>2. CASE holder \notin valid
      <4> DEFINE q == [Idle EXCEPT !.at = "assign", !.c = th[t].c, !.ask = th[t].ask]
      <4>1. th[t].c \in Conn \cup {NoSession} /\ th[t].ask \in Id
        BY <1>0 DEF Local
      <4>2. q \in Local /\ q.at = "assign"
        BY <4>1 DEF Idle, Local, Place, Kind, Id
      <4> QED
        BY <3>2, <4>2
    <3> QED
      BY <3>1, <3>2
  <2> HIDE DEF r
  <2>3. th' \in [Thread -> Local] /\ th'[t] = r /\ \A s \in Thread \ {t} : th'[s] = th[s]
    BY <1>0, <2>1, <2>2, Become
  <2>4. userId' \in [Conn -> Id]
    BY <1>0, <1>3 DEF Kick, TypeInv, Id
  <2>5. TypeInv'
    BY <1>0, <2>1, <2>3, <2>4 DEF TypeInv, tables
  <2>6. ASSUME NEW s \in Thread PROVE InHand(s)'
    <3>1. CASE s = t
      <4>1. r.at \notin Joining \cup Looping \cup {"map", "exists", "lock"}
        BY <2>2 DEF Joining, Looping
      <4>2. r.at # "send"
        BY <2>2
      <4>3. r.at \in Leaving => r.who \in alloc
        BY <1>0, <2>2 DEF Leaving, TypeInv
      <4> QED
        BY <2>1, <2>3, <3>1, <4>1, <4>2, <4>3 DEF InHand
    <3>2. CASE s # t
      BY <1>0, <2>1, <2>3, <3>2 DEF InHand
    <3> QED
      BY <3>1, <3>2
  <2>7. Settled'
    BY <1>0, <2>1, <2>3 DEF Settled, Joining
  <2>8. Queued' /\ NothingLeaks'
    BY <1>0, <2>1 DEF Queued, NothingLeaks
  <2> QED
    BY <2>5, <2>6, <2>7, <2>8 DEF BaseInv
<1>4. CASE Assign(t)
  <2> DEFINE c == th[t].c
  <2>1. th[t].at = "assign" /\ UNCHANGED <<ws, alloc, valid, channel, GarbageQueue>>
    BY <1>4 DEF Assign, At
  <2>2. th' \in [Thread -> Local] /\ th'[t] = Idle /\ \A s \in Thread \ {t} : th'[s] = th[s]
    BY <1>0, <1>4, Become, IdleFacts DEF Assign, Done
  <2>3. c \in Conn \cup {NoSession} /\ th[t].ask \in Id
    BY <1>0 DEF Local
  <2>4. userId' \in [Conn -> Id] /\ UserIDSessionMap' \in [Id -> Conn \cup {NoSession}]
    BY <1>0, <1>4, <2>3 DEF Assign, TypeInv
  <2>5. TypeInv'
    BY <1>0, <1>4, <2>1, <2>2, <2>4 DEF Assign, TypeInv
  <2>6. ASSUME NEW s \in Thread PROVE InHand(s)'
    <3>1. CASE s = t
      BY <2>2, <3>1, IdleFacts DEF InHand, Joining, Leaving, Looping
    <3>2. CASE s # t
      BY <1>0, <2>1, <2>2, <3>2 DEF InHand
    <3> QED
      BY <3>1, <3>2
  <2>7. Settled'
    BY <1>0, <2>1, <2>2 DEF Settled, Joining
  <2>8. Queued' /\ NothingLeaks'
    BY <1>0, <2>1 DEF Queued, NothingLeaks
  <2> QED
    BY <2>5, <2>6, <2>7, <2>8 DEF BaseInv
<1> QED
  BY <1>1, <1>2, <1>3, <1>4 DEF RequestStep

(* A collection takes invalid sessions only, and no handler has any.        *)
LEMMA BaseCollect == ASSUME BaseInv, FreeGarbage PROVE BaseInv'
<1> DEFINE freed == {c \in Conn : GarbageQueue[c] > 0}
<1>0. /\ TypeInv /\ \A s \in Thread : InHand(s)
      /\ Settled /\ Queued /\ NothingLeaks /\ Owner \in [Conn -> Thread]
  BY ThreadsAssumption DEF BaseInv, TypeInv
<1>1. /\ alloc' = alloc \ freed /\ GarbageQueue' = [c \in Conn |-> 0]
      /\ channel' = [c \in Conn |-> IF c \in freed THEN NoChannel ELSE channel[c]]
      /\ UNCHANGED <<ws, valid, roster, th>>
  BY DEF FreeGarbage
<1>2. \A s \in Thread : th[s].at \in {"loop", "lock"}
  BY DEF FreeGarbage, NoHandler, At
<1>3. freed \cap valid = {} /\ freed \subseteq Conn
  BY <1>0 DEF TypeInv, Queued, NothingLeaks
<1>4. TypeInv'
  <2>1. alloc' \subseteq Conn /\ valid' \subseteq alloc'
    BY <1>0, <1>1, <1>3 DEF TypeInv
  <2>2. userId' \in [Conn -> Id] /\ channel' \in [Conn -> Channel \cup {NoChannel}]
    BY <1>0, <1>1 DEF FreeGarbage, TypeInv, Id
  <2>3. UserIDSessionMap' \in [Id -> Conn \cup {NoSession}]
    BY <1>0 DEF FreeGarbage, TypeInv
  <2>4. SessionExists' \subseteq Conn /\ ChannelClientTable' \subseteq Channel
        /\ channelIndex' \in [Channel -> SUBSET Conn]
    BY <1>0 DEF FreeGarbage, TypeInv
  <2> QED
    BY <1>0, <1>1, <2>1, <2>2, <2>3, <2>4 DEF TypeInv
<1>5. ASSUME NEW s \in Thread PROVE InHand(s)'
  BY <1>0, <1>1, <1>2 DEF InHand, Joining, Leaving, Looping
<1>6. Settled'
  BY <1>0, <1>1, <1>2 DEF Settled, Joining
<1>7. Queued' /\ NothingLeaks'
  BY <1>0, <1>1, <1>3 DEF Queued, NothingLeaks, TypeInv
<1> QED
  BY <1>4, <1>5, <1>6, <1>7 DEF BaseInv

(* BaseInv is inductive, whatever userIds clients ask for.                  *)
THEOREM BaseInvariant == Spec => []BaseInv
<1>1. Init => BaseInv
  <2> SUFFICES ASSUME Init PROVE BaseInv
    OBVIOUS
  <2>1. TypeInv
    BY ThreadsAssumption, IdleFacts DEF Init, TypeInv, Id
  <2>2. ASSUME NEW t \in Thread PROVE InHand(t)
    BY IdleFacts DEF Init, InHand, Joining, Leaving, Looping
  <2> QED
    BY <2>1, <2>2 DEF Init, BaseInv, Settled, Queued, NothingLeaks
<1>2. BaseInv /\ [Next]_vars => BaseInv'
  <2> SUFFICES ASSUME BaseInv, [Next]_vars PROVE BaseInv'
    OBVIOUS
  <2>1. ASSUME NEW t \in Thread, Step(t) PROVE BaseInv'
    BY <2>1, BaseJoin, BaseLoop, BaseRetire DEF Step
  <2>2. CASE UNCHANGED vars
    BY <2>2 DEF vars, session, tables, BaseInv, TypeInv, InHand, Settled, Queued, NothingLeaks
  <2> QED
    BY <2>1, <2>2, BaseHandler, BaseRequest, BaseCollect DEF Next
<1> QED
  BY <1>1, <1>2, PTL DEF Spec

(* However clients kick each other across threads, no session leaks: one    *)
(* that is not valid any more is in the garbage queue, and one that is      *)
(* valid is not.                                                            *)
THEOREM NothingLeaksHolds == Spec => []NothingLeaks
<1>1. BaseInv => NothingLeaks
  BY DEF BaseInv
<1> QED
  BY <1>1, BaseInvariant, PTL
--------------------------------------------------------------------------------
(* The places of a handler are different.                                   *)
LEMMA PlaceFacts ==
  /\ Joining \cap (Leaving \cup Looping) = {} /\ Leaving \cap Looping = {}
  /\ {"loop", "lock", "map", "exists", "kick", "assign"}
        \cap (Joining \cup Leaving \cup Looping) = {}
  BY DEF Joining, Leaving, Looping

(* A step of a thread that changes its locals only.                         *)
LEMMA AloneFrame ==
  ASSUME BaseInv, AloneInv, NEW t \in Thread,
         \A s \in Thread \ {t} : th'[s] = th[s],
         UNCHANGED <<ws, session, tables, GarbageQueue>>,
         Alone(t)',
         th[t].at \in Leaving \cup Looping
             => \/ th[t].who \in valid
                \/ th'[t].who = th[t].who /\ th'[t].at \in Leaving \cup Looping
  PROVE  AloneInv'
<1>1. ASSUME NEW s \in Thread PROVE Alone(s)'
  <2>1. CASE s # t
    <3>1. Alone(s) /\ th'[s] = th[s]
      BY <2>1 DEF AloneInv
    <3>2. UNCHANGED <<ws, alloc, valid, userId, ChannelClientTable>>
      BY DEF session, tables
    <3> QED
      BY <3>1, <3>2 DEF Alone
  <2> QED
    BY <2>1
<1>2. ValidOpen' /\ IndexExact' /\ RetiredOnce'
  BY DEF AloneInv, ValidOpen, IndexExact, RetiredOnce, session, tables
<1>3. OpenInvalid'
  <2> SUFFICES ASSUME NEW c \in alloc \ valid, ws[c] = "open"
               PROVE  th'[Owner[c]].who = c /\ th'[Owner[c]].at \in Leaving \cup Looping
    BY DEF OpenInvalid, session
  <2>1. Owner[c] \in Thread
    BY ThreadsAssumption DEF BaseInv, TypeInv
  <2>2. th[Owner[c]].who = c /\ th[Owner[c]].at \in Leaving \cup Looping
    BY DEF AloneInv, OpenInvalid
  <2> QED
    BY <2>1, <2>2
<1> QED
  BY <1>1, <1>2, <1>3 DEF AloneInv

(* The sessions that a loop passes are allocated.                           *)
LEMMA OthersAllocated ==
  ASSUME IndexExact, NEW kind, NEW c, channel[c] \in Channel
  PROVE  Others(kind, c) \subseteq alloc
  BY DEF IndexExact, Others

(* The handlers of a socket's events.                                       *)
LEMMA AloneHandler ==
  ASSUME BaseInv, AloneInv, NEW t \in Thread, NEW c \in Conn, Handler(t, c)
  PROVE  AloneInv'
<1>0. /\ th \in [Thread -> Local] /\ th[t] \in Local /\ TypeInv /\ InHand(t) /\ Alone(t)
      /\ \A s \in Thread : InHand(s) /\ Alone(s)
      /\ Settled /\ Owner \in [Conn -> Thread] /\ NoSession \notin Conn
      /\ ValidOpen /\ OpenInvalid /\ IndexExact /\ RetiredOnce /\ valid \subseteq alloc
  BY ThreadsAssumption DEF BaseInv, AloneInv, TypeInv
<1>1. CASE Connect(t, c) \/ SocketEnd(t, c)
  <2>1. UNCHANGED <<session, tables, GarbageQueue, th>> /\ th[t].at = "loop" /\ Owner[c] = t
        /\ \A d \in Conn \ {c} : ws'[d] = ws[d]
    BY <1>0, <1>1 DEF Connect, SocketEnd, Free, TypeInv
  <2>2. c \in alloc => ws[c] # "open" /\ ws'[c] # "open"
    BY <1>0, <1>1 DEF Connect, SocketEnd, TypeInv
  <2>3. ASSUME NEW s \in Thread PROVE Alone(s)'
    <3>1. InHand(s) /\ Alone(s)
      BY <1>0
    <3>2. th[s].at \in Leaving \cup Looping => th[s].who # c /\ th[s].who \in Conn
      <4>1. th[s].at \in Leaving \cup Looping => th[s].who \in alloc
        BY <3>1 DEF InHand
      <4>2. th[s].at \in Leaving \cup Looping => ws[th[s].who] = "open"
        BY <3>1 DEF Alone
      <4> QED
        BY <1>0, <2>2, <4>1, <4>2 DEF TypeInv
    <3>3. th[s].at = "map" => th[s].c # c /\ th[s].c \in Conn
      BY <2>1, <3>1 DEF InHand
    <3> QED
      BY <2>1, <3>1, <3>2, <3>3 DEF Alone, session, tables
  <2>4. ValidOpen'
    BY <1>0, <2>1, <2>2 DEF ValidOpen, session, TypeInv
  <2>5. OpenInvalid'
    BY <1>0, <2>1, <2>2 DEF OpenInvalid, session, TypeInv
  <2>6. IndexExact' /\ RetiredOnce'
    BY <1>0, <2>1 DEF IndexExact, RetiredOnce, session, tables
  <2> QED
    BY <2>3, <2>4, <2>5, <2>6 DEF AloneInv
<1>2. ASSUME NEW r \in Local, th' = [th EXCEPT ![t] = r], th[t].at \in {"loop", "lock"},
             UNCHANGED <<ws, session, tables, GarbageQueue>>,
             r.kind # "kicked", r.v = NoSession,
             \/ r.at = "map" /\ r.who = NoSession /\ r.must = {} /\ ws[r.c] = "open"
             \/ r.at = "lock" /\ r.who = NoSession /\ r.must = {} /\ r.c \in valid
             \/ /\ r.at = "each" /\ r.c = NoSession /\ r.kind = "broadcast"
                /\ r.who = c /\ c \in valid /\ Owner[c] = t /\ r.id = userId[c]
                /\ r.must \subseteq alloc
             \/ /\ r.at = "drop" /\ r.c = NoSession /\ r.kind = "closed"
                /\ r.who = c /\ c \in valid /\ Owner[c] = t /\ r.must = {}
             \/ /\ r.at = "event" /\ r.c = NoSession /\ r.kind = "gone"
                /\ r.who = c /\ ws[c] = "open" /\ Owner[c] = t /\ r.must = {}
      PROVE  AloneInv'
  <2>0. r.kind # "kicked" /\ r.v = NoSession
    BY <1>2
  <2>1. th'[t] = r /\ \A s \in Thread \ {t} : th'[s] = th[s]
    BY <1>0, <1>2, Become
  <2>2. c \in valid => ws[c] = "open"
    BY <1>0 DEF ValidOpen
  <2>3. Alone(t)'
    <3>1. UNCHANGED <<ws, alloc, valid, userId, ChannelClientTable>>
      BY <1>2 DEF session, tables
    <3>2. CASE r.at = "map" /\ r.who = NoSession /\ r.must = {} /\ ws[r.c] = "open"
      BY <2>0, <2>1, <3>1, <3>2 DEF Alone, Leaving, Looping
    <3>3. CASE r.at = "lock" /\ r.who = NoSession /\ r.must = {} /\ r.c \in valid
      BY <2>0, <2>1, <3>1, <3>3 DEF Alone, Leaving, Looping
    <3>4. CASE /\ r.at = "each" /\ r.c = NoSession /\ r.kind = "broadcast"
               /\ r.who = c /\ c \in valid /\ Owner[c] = t /\ r.id = userId[c]
               /\ r.must \subseteq alloc
      BY <2>0, <2>1, <2>2, <3>1, <3>4 DEF Alone, Leaving, Looping
    <3>5. CASE /\ r.at = "drop" /\ r.c = NoSession /\ r.kind = "closed"
               /\ r.who = c /\ c \in valid /\ Owner[c] = t /\ r.must = {}
      BY <2>0, <2>1, <2>2, <3>1, <3>5 DEF Alone, Leaving, Looping
    <3>6. CASE /\ r.at = "event" /\ r.c = NoSession /\ r.kind = "gone"
               /\ r.who = c /\ ws[c] = "open" /\ Owner[c] = t /\ r.must = {}
      BY <2>0, <2>1, <3>1, <3>6 DEF Alone, Leaving, Looping
    <3> QED
      BY <1>2, <3>2, <3>3, <3>4, <3>5, <3>6
  <2> QED
    BY <1>2, <2>1, <2>3, AloneFrame, PlaceFacts
<1>3. ASSUME NEW ch \in Channel, PickUserId(t, c, ch) PROVE AloneInv'
  <2>1. PICK u \in Generated :
           th' = [th EXCEPT ![t] = [Idle EXCEPT !.at = "map", !.c = c, !.id = u, !.ch = ch]]
    BY <1>3 DEF PickUserId
  <2> DEFINE r == [Idle EXCEPT !.at = "map", !.c = c, !.id = u, !.ch = ch]
  <2>2. r \in Local /\ r.at = "map" /\ r.c = c /\ r.who = NoSession /\ r.must = {}
        /\ r.kind # "kicked" /\ r.v = NoSession
    BY DEF Idle, Local, Place, Kind, Id
  <2> HIDE DEF r
  <2> QED
    BY <1>2, <1>3, <2>1, <2>2 DEF PickUserId, Open, Free, r
<1>4. CASE OnMessage(t, c)
  <2> DEFINE r == [Idle EXCEPT !.at = "lock", !.c = c]
  <2>1. r \in Local /\ r.at = "lock" /\ r.c = c /\ r.who = NoSession /\ r.must = {}
        /\ r.kind # "kicked" /\ r.v = NoSession
    BY DEF Idle, Local, Place, Kind, Id
  <2>2. c \in valid
    BY <1>0, <1>4, PlaceFacts DEF OnMessage, Open, Free, OpenInvalid
  <2> QED
    BY <1>2, <1>4, <2>1, <2>2 DEF OnMessage, Open, Free
<1>5. ASSUME Client(t, c) PROVE c \in valid /\ Owner[c] = t /\ th[t].at = "lock"
  BY <1>0, <1>5 DEF Client, At, Alone, InHand
<1>6. CASE Broadcast(t, c)
  <2> DEFINE r == [Idle EXCEPT !.at = "each", !.kind = "broadcast", !.who = c,
                               !.id = userId[c], !.must = Others("broadcast", c)]
  <2>1. c \in valid /\ Owner[c] = t /\ th[t].at = "lock"
    BY <1>5, <1>6 DEF Broadcast
  <2>2. channel[c] \in Channel
    BY <1>0, <2>1, PlaceFacts DEF Settled
  <2>3. Others("broadcast", c) \in SUBSET Conn /\ userId[c] \in Id
        /\ Others("broadcast", c) \subseteq alloc
    BY <1>0, <2>2, OthersType, OthersAllocated DEF TypeInv
  <2>4. r \in Local /\ r.at = "each" /\ r.c = NoSession /\ r.kind = "broadcast" /\ r.who = c
        /\ r.id = userId[c] /\ r.must = Others("broadcast", c) /\ r.v = NoSession
    BY <2>3 DEF Idle, Local, Place, Kind, Id, Looping
  <2> QED
    BY <1>2, <1>6, <2>1, <2>3, <2>4 DEF Broadcast
<1>7. CASE DisconnectClient(t, c)
  <2> DEFINE r == [Idle EXCEPT !.at = "drop", !.kind = "closed", !.who = c]
  <2>1. r \in Local /\ r.at = "drop" /\ r.c = NoSession /\ r.kind = "closed" /\ r.who = c
        /\ r.must = {} /\ r.v = NoSession
    BY DEF Idle, Local, Place, Kind, Id, Leaving
  <2>2. c \in valid /\ Owner[c] = t /\ th[t].at = "lock"
    BY <1>5, <1>7 DEF DisconnectClient
  <2> QED
    BY <1>2, <1>7, <2>1, <2>2 DEF DisconnectClient, Departure
<1>8. CASE OnDisconnection(t, c)
  <2> DEFINE r == [Idle EXCEPT !.at = "event", !.kind = "gone", !.who = c]
  <2>1. r \in Local /\ r.at = "event" /\ r.c = NoSession /\ r.kind = "gone" /\ r.who = c
        /\ r.must = {} /\ r.v = NoSession
    BY DEF Idle, Local, Place, Kind, Id, Leaving
  <2> QED
    BY <1>2, <1>8, <2>1 DEF OnDisconnection, Departure, Open, Free
<1> QED
  BY <1>1, <1>3, <1>4, <1>6, <1>7, <1>8 DEF Handler
(* The loops, and the steps of a disconnection before them.                 *)
LEMMA AloneLoop ==
  ASSUME BaseInv, AloneInv, NEW t \in Thread,
         Visit(t) \/ Send(t) \/ LoopEnd(t) \/ ReadUserId(t) \/ TestValid(t) \/ EventLoop(t)
  PROVE  AloneInv'
<1> DEFINE d == th[t].who
<1>0. /\ th \in [Thread -> Local] /\ th[t] \in Local /\ TypeInv /\ InHand(t) /\ Alone(t)
      /\ \A s \in Thread : InHand(s) /\ Alone(s)
      /\ Owner \in [Conn -> Thread] /\ NoSession \notin Conn
      /\ ValidOpen /\ OpenInvalid /\ IndexExact /\ RetiredOnce /\ valid \subseteq alloc
  BY ThreadsAssumption DEF BaseInv, AloneInv, TypeInv
<1>1. /\ th[t].at \in Leaving \cup Looping
      /\ d \in alloc /\ Owner[d] = t /\ ws[d] = "open" /\ th[t].c = NoSession
      /\ th[t].kind # "kicked" /\ th[t].must \subseteq alloc
      /\ th[t].v \in alloc \cup {NoSession}
  <2>1. th[t].at \in Leaving \cup Looping
    BY DEF Visit, Send, LoopEnd, ReadUserId, TestValid, EventLoop, At, Leaving, Looping
  <2> QED
    BY <1>0, <2>1 DEF InHand, Alone
<1>2. ASSUME NEW r \in Local, th' = [th EXCEPT ![t] = r],
             UNCHANGED <<ws, session, tables, GarbageQueue>>,
             r.who = d, r.kind = th[t].kind, r.c = NoSession,
             r.must \subseteq alloc, r.v \in alloc \cup {NoSession},
             r.at \in {"each", "send", "test", "retire", "event loop"},
             r.at = "send" => r.v \in alloc,
             r.id = userId[d],
             r.at \notin Looping => r.kind # "broadcast",
             r.at = "retire" => d \in valid,
             r.at = "event loop" => d \notin valid,
             r.at \in Looping => (r.kind = "broadcast" <=> d \in valid)
      PROVE  AloneInv'
  <2>1. th'[t] = r /\ \A s \in Thread \ {t} : th'[s] = th[s]
    BY <1>0, <1>2, Become
  <2>2. UNCHANGED <<ws, alloc, valid, userId, ChannelClientTable>>
    BY <1>2 DEF session, tables
  <2>3. /\ r.who = d /\ r.kind = th[t].kind /\ r.c = NoSession
        /\ r.must \subseteq alloc /\ r.v \in alloc \cup {NoSession}
        /\ r.at \in {"each", "send", "test", "retire", "event loop"}
        /\ r.at \in Leaving \cup Looping
        /\ (r.at = "send" => r.v \in alloc)
        /\ r.id = userId[d]
        /\ (r.at \notin Looping => r.kind # "broadcast")
        /\ (r.at = "retire" => d \in valid)
        /\ (r.at = "event loop" => d \notin valid)
        /\ (r.at \in Looping => (r.kind = "broadcast" <=> d \in valid))
    BY <1>2 DEF Leaving, Looping
  <2>4. Alone(t)'
    BY <1>1, <2>1, <2>2, <2>3 DEF Alone, Leaving, Looping
  <2> QED
    BY <1>2, <2>1, <2>3, <2>4, AloneFrame
<1>3. CASE Visit(t)
  <2>1. PICK v \in Others(th[t].kind, th[t].who) \ th[t].seen :
           th' = IF v \in valid
                 THEN [th EXCEPT ![t] = [th[t] EXCEPT !.at = "send", !.v = v]]
                 ELSE [th EXCEPT ![t] = [th[t] EXCEPT !.seen = @ \cup {v}]]
    BY <1>0, <1>3 DEF Visit
  <2>2. th[t].at = "each" /\ channel[d] \in Channel /\ d \in Conn
    BY <1>0, <1>3 DEF Visit, At, InHand, Looping, TypeInv
  <2>3. v \in alloc /\ v \in Conn
    BY <1>0, <2>2, OthersAllocated DEF TypeInv
  <2>4. th[t].id = userId[d] /\ (th[t].kind = "broadcast" <=> d \in valid)
    BY <1>0, <2>2 DEF Alone, Looping
  <2> DEFINE r == IF v \in valid THEN [th[t] EXCEPT !.at = "send", !.v = v]
                  ELSE [th[t] EXCEPT !.seen = @ \cup {v}]
  <2>5. /\ r \in Local /\ r.at \in {"each", "send"} /\ r.who = d /\ r.kind = th[t].kind
        /\ r.c = th[t].c /\ r.must = th[t].must /\ r.v \in {th[t].v, v} /\ r.id = th[t].id
        /\ (r.at = "send" => r.v = v)
    BY <1>0, <2>2, <2>3 DEF Local, Place, Looping
  <2>6. th' = [th EXCEPT ![t] = r]
    BY <2>1
  <2>7. UNCHANGED <<ws, session, tables, GarbageQueue>>
    BY <1>3 DEF Visit
  <2> HIDE DEF r
  <2>8. r.at \in Looping
    BY <2>5 DEF Looping
  <2> QED
    BY <1>1, <1>2, <2>3, <2>4, <2>5, <2>6, <2>7, <2>8
<1>4. CASE Send(t)
  <2> DEFINE v == th[t].v
             r == [th[t] EXCEPT !.at = "each", !.seen = @ \cup {v}, !.v = NoSession]
  <2>1. th[t].at = "send" /\ v \in Conn
    BY <1>0, <1>4 DEF Send, At, InHand
  <2>2. th[t].id = userId[d] /\ (th[t].kind = "broadcast" <=> d \in valid)
    BY <1>0, <2>1 DEF Alone, Looping
  <2>3. /\ r \in Local /\ r.at = "each" /\ r.who = d /\ r.kind = th[t].kind
        /\ r.c = th[t].c /\ r.must = th[t].must /\ r.v = NoSession /\ r.id = th[t].id
    BY <1>0, <2>1 DEF Local, Place, Looping
  <2>4. th' = [th EXCEPT ![t] = r]
    BY <1>0, <1>4 DEF Send
  <2>5. UNCHANGED <<ws, session, tables, GarbageQueue>>
    BY <1>4 DEF Send
  <2> HIDE DEF r
  <2>6. r.at \in Looping
    BY <2>3 DEF Looping
  <2> QED
    BY <1>1, <1>2, <2>2, <2>3, <2>4, <2>5, <2>6
<1>5. CASE LoopEnd(t)
  <2>1. th[t].at = "each" /\ th' = [th EXCEPT ![t] = Idle]
        /\ UNCHANGED <<session, tables, GarbageQueue>>
    BY <1>1, <1>5 DEF LoopEnd, At, Done
  <2>2. th'[t] = Idle /\ \A s \in Thread \ {t} : th'[s] = th[s]
    BY <1>0, <2>1, Become, IdleFacts
  <2>3. Alone(t)'
    BY <2>2, IdleFacts DEF Alone, Leaving, Looping
  <2>4. CASE th[t].kind = "broadcast"
    <3>1. d \in valid
      BY <1>0, <2>1, <2>4 DEF Alone, Looping
    <3>2. ws' = ws
      BY <1>5, <2>4 DEF LoopEnd
    <3> QED
      BY <2>1, <2>2, <2>3, <3>1, <3>2, AloneFrame
  <2>5. CASE th[t].kind # "broadcast"
    <3>1. d \notin valid /\ d \in Conn
      BY <1>0, <1>1, <2>1, <2>5 DEF Alone, Looping, TypeInv
    <3>2. ws'[d] # "open" /\ \A e \in Conn \ {d} : ws'[e] = ws[e]
      BY <1>0, <1>1, <1>5, <2>5, <3>1 DEF LoopEnd, Ends, TypeInv
    <3>3. UNCHANGED <<alloc, valid, userId, ChannelClientTable>>
      BY <2>1 DEF session, tables
    <3>4. ASSUME NEW s \in Thread PROVE Alone(s)'
      <4>1. CASE s # t
        <5>1. Alone(s) /\ InHand(s) /\ th'[s] = th[s]
          BY <1>0, <2>2, <4>1
        <5>2. th[s].at \in Leaving \cup Looping => th[s].who \in Conn \ {d}
          <6>1. th[s].at \in Leaving \cup Looping => th[s].who \in alloc
            BY <5>1 DEF InHand
          <6>2. th[s].at \in Leaving \cup Looping => Owner[th[s].who] = s
            BY <5>1 DEF Alone
          <6> QED
            BY <1>0, <1>1, <4>1, <6>1, <6>2 DEF TypeInv
        <5>3. th[s].at = "map" => th[s].c \in Conn \ {d}
          BY <1>1, <4>1, <5>1 DEF InHand
        <5> QED
          BY <3>2, <3>3, <5>1, <5>2, <5>3 DEF Alone
      <4> QED
        BY <2>3, <4>1
    <3>5. ValidOpen'
      BY <1>0, <3>1, <3>2, <3>3 DEF ValidOpen, TypeInv
    <3>6. OpenInvalid'
      <4> SUFFICES ASSUME NEW e \in alloc \ valid, ws'[e] = "open"
                   PROVE  th'[Owner[e]].who = e /\ th'[Owner[e]].at \in Leaving \cup Looping
        BY <3>3 DEF OpenInvalid
      <4>1. e \in Conn /\ e # d /\ ws[e] = "open"
        BY <1>0, <3>2 DEF TypeInv
      <4>2. th[Owner[e]].who = e /\ th[Owner[e]].at \in Leaving \cup Looping
        BY <1>0, <4>1 DEF OpenInvalid
      <4> QED
        BY <1>0, <2>2, <4>1, <4>2
    <3>7. IndexExact' /\ RetiredOnce'
      BY <1>0, <2>1 DEF IndexExact, RetiredOnce, session, tables
    <3> QED
      BY <3>4, <3>5, <3>6, <3>7 DEF AloneInv
  <2> QED
    BY <2>4, <2>5
<1>6. CASE ReadUserId(t)
  <2> DEFINE r == [th[t] EXCEPT !.at = "test", !.id = userId[d]]
  <2>1. th[t].at = "event" /\ d \in Conn /\ th[t].kind # "broadcast"
    BY <1>0, <1>1, <1>6 DEF ReadUserId, At, Alone, Leaving, TypeInv
  <2>2. /\ r \in Local /\ r.at = "test" /\ r.who = d /\ r.kind = th[t].kind
        /\ r.c = th[t].c /\ r.must = th[t].must /\ r.v = th[t].v /\ r.id = userId[d]
    BY <1>0, <2>1 DEF Local, Place, Leaving, TypeInv
  <2>3. th' = [th EXCEPT ![t] = r]
    BY <1>0, <1>6 DEF ReadUserId
  <2>4. UNCHANGED <<ws, session, tables, GarbageQueue>>
    BY <1>6 DEF ReadUserId
  <2> HIDE DEF r
  <2>5. r.at \notin Looping
    BY <2>2 DEF Looping
  <2> QED
    BY <1>1, <1>2, <2>1, <2>2, <2>3, <2>4, <2>5
<1>7. CASE TestValid(t)
  <2> DEFINE r == [th[t] EXCEPT !.at = IF d \in valid THEN "retire" ELSE "event loop"]
  <2>1. th[t].at = "test" /\ th[t].kind # "broadcast" /\ th[t].id = userId[d]
    BY <1>0, <1>7 DEF TestValid, At, Alone, Leaving
  <2>2. /\ r \in Local /\ r.at = (IF d \in valid THEN "retire" ELSE "event loop") /\ r.who = d
        /\ r.kind = th[t].kind /\ r.c = th[t].c /\ r.must = th[t].must /\ r.v = th[t].v
        /\ r.id = th[t].id
    BY <1>0 DEF Local, Place, Leaving
  <2>3. th' = [th EXCEPT ![t] = r]
    BY <1>0, <1>7 DEF TestValid, Goto
  <2>4. UNCHANGED <<ws, session, tables, GarbageQueue>>
    BY <1>7 DEF TestValid
  <2> HIDE DEF r
  <2>5. r.at \notin Looping
    BY <2>2 DEF Looping
  <2> QED
    BY <1>1, <1>2, <2>1, <2>2, <2>3, <2>4, <2>5
<1>8. CASE EventLoop(t)
  <2>1. th[t].at = "event loop" /\ d \in Conn /\ th[t].kind # "broadcast"
        /\ th[t].id = userId[d] /\ d \notin valid
    BY <1>0, <1>1, <1>8 DEF EventLoop, At, Alone, Leaving, TypeInv
  <2>2. UNCHANGED <<ws, session, tables, GarbageQueue>>
    BY <1>8 DEF EventLoop
  <2>3. CASE channel[d] = NoChannel
    <3>1. th' = th
      BY <1>8, <2>3 DEF EventLoop
    <3>2. Alone(t)'
      BY <1>0, <2>2, <3>1 DEF Alone, session, tables
    <3> QED
      BY <1>1, <2>2, <3>1, <3>2, AloneFrame
  <2>4. CASE channel[d] # NoChannel
    <3> DEFINE r == [th[t] EXCEPT !.at = "each", !.must = Others("event", d)]
    <3>1. channel[d] \in Channel
      BY <1>0, <2>1, <2>4 DEF TypeInv
    <3>2. Others("event", d) \in SUBSET Conn /\ Others("event", d) \subseteq alloc
      BY <1>0, <2>1, <3>1, OthersType, OthersAllocated
    <3>3. /\ r \in Local /\ r.at = "each" /\ r.who = d /\ r.kind = th[t].kind
          /\ r.c = th[t].c /\ r.must = Others("event", d) /\ r.v = th[t].v /\ r.id = th[t].id
      BY <1>0, <3>2 DEF Local, Place, Looping
    <3>4. th' = [th EXCEPT ![t] = r]
      BY <1>0, <1>8, <2>4 DEF EventLoop
    <3> HIDE DEF r
    <3>5. r.at \in Looping
      BY <3>3 DEF Looping
    <3> QED
      BY <1>1, <1>2, <2>1, <2>2, <3>2, <3>3, <3>4, <3>5
  <2> QED
    BY <2>3, <2>4
<1> QED
  BY <1>3, <1>4, <1>5, <1>6, <1>7, <1>8
(* The steps of the first packet.                                           *)
LEMMA AloneJoin ==
  ASSUME BaseInv, AloneInv, NEW t \in Thread,
         \/ EnterMap(t) \/ FindChannel(t) \/ CreateChannel(t) \/ DereferenceEnd(t)
         \/ Subscribe(t) \/ EnterSessionExists(t)
  PROVE  AloneInv'
<1> DEFINE c == th[t].c
<1>0. /\ th \in [Thread -> Local] /\ th[t] \in Local /\ TypeInv /\ InHand(t) /\ Alone(t)
      /\ \A s \in Thread : InHand(s) /\ Alone(s)
      /\ Owner \in [Conn -> Thread] /\ NoSession \notin Conn /\ NoChannel \notin Channel
      /\ ValidOpen /\ OpenInvalid /\ IndexExact /\ RetiredOnce /\ valid \subseteq alloc
  BY ThreadsAssumption DEF BaseInv, AloneInv, TypeInv
<1>1. /\ th[t].at \in Joining \cup {"map", "exists"}
      /\ c \in Conn /\ Owner[c] = t
      /\ th[t].who = NoSession /\ th[t].v = NoSession /\ th[t].must = {}
      /\ th[t].kind # "kicked"
  <2>1. th[t].at \in Joining \cup {"map", "exists"}
    BY DEF EnterMap, FindChannel, CreateChannel, DereferenceEnd, Subscribe,
           EnterSessionExists, At, Joining
  <2> QED
    BY <1>0, <2>1, PlaceFacts DEF InHand, Alone
<1>2. ASSUME NEW p \in Place, p \in Joining \cup {"exists"}, Goto(t, p),
             p = "subscribe" => th[t].ch \in ChannelClientTable'
      PROVE  /\ Alone(t)' /\ th'[t].c = c /\ th'[t].ch = th[t].ch
             /\ \A s \in Thread \ {t} : th'[s] = th[s]
  <2>1. /\ th'[t].at = p /\ th'[t].kind = th[t].kind /\ th'[t].c = c /\ th'[t].ch = th[t].ch
        /\ th'[t].who = th[t].who /\ th'[t].v = th[t].v /\ th'[t].must = th[t].must
        /\ \A s \in Thread \ {t} : th'[s] = th[s]
    BY <1>0, <1>2, Move
  <2>2. p \notin Leaving \cup Looping
        /\ p \notin {"loop", "lock", "map", "kick", "assign", "drop", "retire", "event loop",
                     "test", "send"}
    BY <1>2 DEF Joining, Leaving, Looping
  <2>3. Alone(t)'
    BY <1>1, <1>2, <2>1, <2>2 DEF Alone
  <2> QED
    BY <2>1, <2>3
<1>3. \A e \in alloc \ valid : ws[e] = "open" => Owner[e] # t
  BY <1>0, <1>1, PlaceFacts DEF OpenInvalid
<1>4. CASE FindChannel(t) \/ DereferenceEnd(t)
  <2>1. UNCHANGED <<ws, session, tables, GarbageQueue>>
    BY <1>4 DEF FindChannel, DereferenceEnd
  <2>2. Alone(t)' /\ \A s \in Thread \ {t} : th'[s] = th[s]
    <3>1. CASE FindChannel(t)
      <4> DEFINE p == IF th[t].ch \in ChannelClientTable THEN "subscribe" ELSE "insert"
      <4>1. p \in Place /\ p \in Joining /\ Goto(t, p)
            /\ (p = "subscribe" => th[t].ch \in ChannelClientTable')
        BY <2>1, <3>1 DEF FindChannel, Place, Joining, tables
      <4> HIDE DEF p
      <4> QED
        BY <1>2, <4>1
    <3>2. CASE DereferenceEnd(t)
      <4>1. th' = th
        BY <3>2 DEF DereferenceEnd
      <4> QED
        BY <1>0, <2>1, <4>1 DEF Alone, session, tables
    <3> QED
      BY <1>4, <3>1, <3>2
  <2>3. th[t].at \notin Leaving \cup Looping
    BY <1>1, PlaceFacts
  <2> QED
    BY <2>1, <2>2, <2>3, AloneFrame
<1>5. ASSUME UNCHANGED <<ws, alloc, valid, userId, channel, channelIndex, GarbageQueue>>,
             SessionExists' \subseteq alloc, ChannelClientTable \subseteq ChannelClientTable',
             Alone(t)', \A s \in Thread \ {t} : th'[s] = th[s]
      PROVE  AloneInv'
  <2>1. ASSUME NEW s \in Thread PROVE Alone(s)'
    <3>1. CASE s # t
      <4>1. Alone(s) /\ th'[s] = th[s]
        BY <1>0, <1>5, <3>1
      <4> QED
        BY <1>5, <4>1 DEF Alone
    <3> QED
      BY <1>5, <3>1
  <2>2. OpenInvalid'
    BY <1>0, <1>3, <1>5 DEF OpenInvalid, TypeInv
  <2> QED
    BY <1>0, <1>5, <2>1, <2>2 DEF AloneInv, ValidOpen, IndexExact, RetiredOnce
<1>6. CASE CreateChannel(t)
  <2> DEFINE p == IF th[t].ch \in ChannelClientTable THEN "end()" ELSE "subscribe"
  <2>1. p \in Place /\ p \in Joining /\ Goto(t, p)
        /\ (p = "subscribe" => th[t].ch \in ChannelClientTable')
    BY <1>6 DEF CreateChannel, Place, Joining
  <2> HIDE DEF p
  <2>2. Alone(t)' /\ \A s \in Thread \ {t} : th'[s] = th[s]
    BY <1>2, <2>1
  <2> QED
    BY <1>0, <1>5, <1>6, <2>2 DEF CreateChannel, session, IndexExact
<1>7. CASE EnterSessionExists(t)
  <2>1. th[t].at = "exists" /\ c \in alloc
    BY <1>0, <1>7 DEF EnterSessionExists, At, InHand
  <2>2. th'[t] = Idle /\ \A s \in Thread \ {t} : th'[s] = th[s]
    BY <1>0, <1>7, Become, IdleFacts DEF EnterSessionExists, Done
  <2>3. Alone(t)'
    BY <2>2, IdleFacts DEF Alone, Leaving, Looping
  <2> QED
    BY <1>0, <1>5, <1>7, <2>1, <2>2, <2>3 DEF EnterSessionExists, session, IndexExact
<1>8. CASE EnterMap(t)
  <2>1. th[t].at = "map" /\ c \notin alloc /\ channel[c] = NoChannel /\ ws[c] = "open"
    BY <1>0, <1>8 DEF EnterMap, At, InHand, Alone
  <2>2. /\ alloc' = alloc \cup {c} /\ valid' = valid \cup {c}
        /\ \A e \in Conn \ {c} : userId'[e] = userId[e]
        /\ UNCHANGED <<ws, channel, SessionExists, ChannelClientTable, channelIndex,
                       GarbageQueue>>
    BY <1>0, <1>8 DEF EnterMap, TypeInv
  <2>3. "find" \in Place /\ "find" \in Joining /\ Goto(t, "find")
    BY <1>8 DEF EnterMap, Place, Joining
  <2>4. Alone(t)' /\ \A s \in Thread \ {t} : th'[s] = th[s]
    BY <1>2, <2>3
  <2>5. ASSUME NEW s \in Thread PROVE Alone(s)'
    <3>1. CASE s # t
      <4>1. Alone(s) /\ InHand(s) /\ th'[s] = th[s]
        BY <1>0, <2>4, <3>1
      <4>2. th[s].at \in Leaving \cup Looping => th[s].who \in alloc
        BY <4>1 DEF InHand
      <4>3. th[s].at \in Leaving \cup Looping => th[s].who \in Conn \ {c}
        BY <1>0, <2>1, <4>2 DEF TypeInv
      <4>4. {"drop", "retire", "event loop", "test"} \subseteq Leaving
        BY DEF Leaving
      <4> QED
        BY <2>2, <4>1, <4>3, <4>4 DEF Alone
    <3> QED
      BY <2>4, <3>1
  <2>6. ValidOpen'
    BY <1>0, <2>1, <2>2 DEF ValidOpen
  <2>7. OpenInvalid'
    BY <1>0, <1>1, <1>3, <2>1, <2>2, <2>4 DEF OpenInvalid, TypeInv
  <2>8. IndexExact'
    BY <1>0, <2>1, <2>2 DEF IndexExact
  <2>9. RetiredOnce'
    BY <1>0, <1>1, <2>1, <2>2 DEF RetiredOnce, TypeInv
  <2> QED
    BY <2>5, <2>6, <2>7, <2>8, <2>9 DEF AloneInv
<1>9. CASE Subscribe(t)
  <2>1. th[t].at = "subscribe" /\ c \in alloc /\ channel[c] = NoChannel /\ th[t].ch \in Channel
    BY <1>0, <1>9 DEF Subscribe, At, InHand, Joining
  <2>2. /\ UNCHANGED <<ws, alloc, valid, userId, SessionExists, ChannelClientTable, GarbageQueue>>
        /\ channel' = [channel EXCEPT ![c] = th[t].ch]
        /\ channelIndex' = [channelIndex EXCEPT ![th[t].ch] = @ \cup {c}]
    BY <1>9 DEF Subscribe
  <2>3. "exists" \in Place /\ Goto(t, "exists")
    BY <1>9 DEF Subscribe, Place
  <2>4. Alone(t)' /\ \A s \in Thread \ {t} : th'[s] = th[s]
    BY <1>2, <2>3
  <2>5. ASSUME NEW s \in Thread PROVE Alone(s)'
    <3>1. CASE s # t
      <4>1. Alone(s) /\ th'[s] = th[s]
        BY <1>0, <2>4, <3>1
      <4> QED
        BY <2>2, <4>1 DEF Alone
    <3> QED
      BY <2>4, <3>1
  <2>6. ValidOpen' /\ RetiredOnce'
    BY <1>0, <2>2 DEF ValidOpen, RetiredOnce
  <2>7. OpenInvalid'
    BY <1>0, <1>3, <2>2, <2>4 DEF OpenInvalid, TypeInv
  <2>8. IndexExact'
    <3>1. \A e \in Conn : channel'[e] = IF e = c THEN th[t].ch ELSE channel[e]
      BY <1>0, <1>1, <2>2 DEF TypeInv
    <3>2. \A ch \in Channel : channelIndex'[ch] =
             IF ch = th[t].ch THEN channelIndex[ch] \cup {c} ELSE channelIndex[ch]
      BY <1>0, <2>1, <2>2 DEF TypeInv
    <3> QED
      BY <1>0, <2>1, <2>2, <3>1, <3>2 DEF IndexExact, TypeInv
  <2> QED
    BY <2>5, <2>6, <2>7, <2>8 DEF AloneInv
<1> QED
  BY <1>4, <1>6, <1>7, <1>8, <1>9

(* A session is invalidated and queued, by its own thread.                  *)
LEMMA AloneRetire ==
  ASSUME BaseInv, AloneInv, NEW t \in Thread, Drop(t) \/ RetireValid(t)
  PROVE  AloneInv'
<1> DEFINE c == th[t].who
           p == IF Drop(t) THEN "event" ELSE "event loop"
<1>0. /\ th \in [Thread -> Local] /\ th[t] \in Local /\ TypeInv /\ InHand(t) /\ Alone(t)
      /\ \A s \in Thread : InHand(s) /\ Alone(s)
      /\ Owner \in [Conn -> Thread]
      /\ ValidOpen /\ OpenInvalid /\ IndexExact /\ RetiredOnce /\ valid \subseteq alloc
  BY ThreadsAssumption DEF BaseInv, AloneInv, TypeInv
<1>1. th[t].at \in {"drop", "retire"} /\ Goto(t, p) /\ Retire(c)
      /\ (th[t].at = "drop" => p = "event") /\ (th[t].at = "retire" => p = "event loop")
      /\ UNCHANGED <<ws, alloc, userId, channel, tables>>
  BY DEF Drop, RetireValid, At
<1>2. th[t].at \in Leaving
  BY <1>1 DEF Leaving
<1>3. c \in valid /\ c \in alloc /\ c \in Conn /\ Owner[c] = t /\ ws[c] = "open"
      /\ th[t].kind # "broadcast" /\ th[t].kind # "kicked" /\ th[t].c = NoSession
      /\ th[t].must \subseteq alloc /\ th[t].v \in alloc \cup {NoSession}
      /\ (th[t].at = "retire" => th[t].id = userId[c])
  BY <1>0, <1>1, <1>2 DEF Alone, InHand, TypeInv
<1>4. p \in Place /\ p \in Leaving /\ p \in {"event", "event loop"}
  BY DEF Place, Leaving
<1> HIDE DEF p
<1>5. /\ \A s \in Thread \ {t} : th'[s] = th[s]
      /\ th'[t].at = p /\ th'[t].kind = th[t].kind /\ th'[t].c = th[t].c
      /\ th'[t].who = c /\ th'[t].v = th[t].v /\ th'[t].id = th[t].id
      /\ th'[t].must = th[t].must
  BY <1>0, <1>1, <1>4, Move
<1>6. /\ valid' = valid \ {c}
      /\ GarbageQueue' = [GarbageQueue EXCEPT ![c] = @ + 1]
  BY <1>1 DEF Retire
<1>7. ASSUME NEW s \in Thread PROVE Alone(s)'
  <2>1. CASE s = t
    <3>1. p \notin Looping
      BY <1>4 DEF Looping
    <3>2. p = "event loop" => th[t].id = userId[c]
      BY <1>1, <1>3
    <3> QED
      BY <1>1, <1>3, <1>4, <1>5, <1>6, <2>1, <3>1, <3>2 DEF Alone
  <2>2. CASE s # t
    <3>1. Alone(s) /\ InHand(s) /\ th'[s] = th[s]
      BY <1>0, <1>5, <2>2
    <3>2. th[s].at \in Leaving \cup Looping => th[s].who # c
      BY <1>3, <2>2, <3>1 DEF Alone
    <3>3. th[s].at = "lock" => th[s].c # c
      BY <1>3, <2>2, <3>1 DEF InHand
    <3>4. {"drop", "retire", "event loop", "test"} \subseteq Leaving
      BY DEF Leaving
    <3>5. UNCHANGED <<ws, alloc, userId, ChannelClientTable>>
      BY <1>1 DEF tables
    <3> QED
      BY <1>6, <3>1, <3>2, <3>3, <3>4, <3>5 DEF Alone
  <2> QED
    BY <2>1, <2>2
<1>8. ValidOpen'
  BY <1>0, <1>1, <1>6 DEF ValidOpen
<1>9. OpenInvalid'
  <2> SUFFICES ASSUME NEW e \in alloc \ valid', ws[e] = "open"
               PROVE  th'[Owner[e]].who = e /\ th'[Owner[e]].at \in Leaving \cup Looping
    BY <1>1 DEF OpenInvalid
  <2>1. CASE e = c
    BY <1>3, <1>4, <1>5, <2>1
  <2>2. CASE e # c
    <3>1. th[Owner[e]].who = e /\ th[Owner[e]].at \in Leaving \cup Looping
      BY <1>0, <1>6, <2>2 DEF OpenInvalid
    <3>2. Owner[e] \in Thread /\ Owner[e] # t
      BY <1>0, <2>2, <3>1 DEF TypeInv
    <3> QED
      BY <1>5, <3>1, <3>2
  <2> QED
    BY <2>1, <2>2
<1>10. IndexExact'
  BY <1>0, <1>1 DEF IndexExact, tables
<1>11. RetiredOnce'
  <2>1. GarbageQueue[c] = 0
    BY <1>0, <1>3 DEF RetiredOnce
  <2>2. \A e \in Conn : GarbageQueue'[e] = IF e = c THEN 1 ELSE GarbageQueue[e]
    BY <1>0, <1>3, <1>6, <2>1 DEF TypeInv
  <2>3. \A e \in Conn : e \in alloc' \ valid' <=> e = c \/ e \in alloc \ valid
    BY <1>1, <1>3, <1>6
  <2> QED
    BY <1>0, <2>2, <2>3 DEF RetiredOnce
<1> QED
  BY <1>7, <1>8, <1>9, <1>10, <1>11 DEF AloneInv

(* A collection deletes the sessions that are not valid, all of them.       *)
LEMMA AloneCollect == ASSUME BaseInv, AloneInv, FreeGarbage PROVE AloneInv'
<1> DEFINE freed == {c \in Conn : GarbageQueue[c] > 0}
<1>0. /\ TypeInv /\ \A s \in Thread : InHand(s) /\ Alone(s)
      /\ Owner \in [Conn -> Thread] /\ NoChannel \notin Channel
      /\ ValidOpen /\ OpenInvalid /\ IndexExact /\ RetiredOnce /\ valid \subseteq alloc
  BY ThreadsAssumption DEF BaseInv, AloneInv, TypeInv
<1>1. /\ alloc' = alloc \ freed /\ GarbageQueue' = [c \in Conn |-> 0]
      /\ channel' = [c \in Conn |-> IF c \in freed THEN NoChannel ELSE channel[c]]
      /\ channelIndex' = [ch \in Channel |-> channelIndex[ch] \ freed]
      /\ SessionExists' = SessionExists \ freed
      /\ UNCHANGED <<ws, valid, roster, th>>
  BY DEF FreeGarbage
<1>2. freed = alloc \ valid
  BY <1>0 DEF TypeInv, RetiredOnce
<1>3. alloc' = valid
  BY <1>0, <1>1, <1>2
<1>4. ASSUME NEW s \in Thread PROVE Alone(s)'
  <2>1. th[s].at \in {"loop", "lock"} /\ Alone(s)
    BY <1>0 DEF FreeGarbage, NoHandler, At
  <2> QED
    BY <1>1, <2>1 DEF Alone, Leaving, Looping
<1>5. ValidOpen' /\ OpenInvalid' /\ RetiredOnce'
  BY <1>0, <1>1, <1>3 DEF ValidOpen, OpenInvalid, RetiredOnce
<1>6. IndexExact'
  <2>1. SessionExists' \subseteq alloc'
    BY <1>0, <1>1 DEF IndexExact
  <2>2. ASSUME NEW ch \in Channel PROVE channelIndex'[ch] = {c \in alloc' : channel'[c] = ch}
    <3>1. channelIndex'[ch] = {c \in alloc : channel[c] = ch} \ freed
      BY <1>0, <1>1 DEF IndexExact
    <3>2. \A c \in alloc' : c \in Conn /\ c \in alloc /\ c \notin freed /\ channel'[c] = channel[c]
      BY <1>0, <1>1 DEF TypeInv
    <3>3. \A c \in alloc \ freed : c \in alloc'
      BY <1>1
    <3> HIDE DEF freed
    <3> QED
      BY <3>1, <3>2, <3>3
  <2> QED
    BY <2>1, <2>2 DEF IndexExact
<1> QED
  BY <1>4, <1>5, <1>6 DEF AloneInv

(* Without requests no step of one is taken, and nobody's Session is        *)
(* deleted while it waits for the lock.                                     *)
LEMMA NoRequestStep ==
  ASSUME NoRequests, BaseInv, AloneInv, NEW t \in Thread
  PROVE  ~RequestStep(t)
<1>1. Alone(t) /\ valid \subseteq alloc
  BY DEF AloneInv, BaseInv, TypeInv
<1>2. ~Kick(t) /\ ~Assign(t)
  BY <1>1 DEF Kick, Assign, At, Alone
<1>3. ~ClientDeleted(t)
  BY <1>1 DEF ClientDeleted, At, Alone
<1>4. ~\E c \in Conn, u \in Requestable : AssignUserId(t, c, u)
  BY DEF NoRequests
<1> QED
  BY <1>2, <1>3, <1>4 DEF RequestStep

(* AloneInv is inductive if no client asks for a userId.                    *)
THEOREM AloneInvariant == ASSUME NoRequests PROVE Spec => []AloneInv
<1>1. Init => AloneInv
  <2> SUFFICES ASSUME Init PROVE AloneInv
    OBVIOUS
  <2>1. ASSUME NEW t \in Thread PROVE Alone(t)
    BY IdleFacts DEF Init, Alone, Leaving, Looping
  <2> QED
    BY <2>1 DEF Init, AloneInv, ValidOpen, OpenInvalid, IndexExact, RetiredOnce
<1>2. BaseInv /\ AloneInv /\ [Next]_vars => AloneInv'
  <2> SUFFICES ASSUME BaseInv, AloneInv, [Next]_vars PROVE AloneInv'
    OBVIOUS
  <2>1. ASSUME NEW t \in Thread, Step(t) PROVE AloneInv'
    BY <2>1, AloneJoin, AloneLoop, AloneRetire DEF Step
  <2>2. ASSUME NEW t \in Thread, RequestStep(t) PROVE FALSE
    BY <2>2, NoRequestStep
  <2>3. CASE UNCHANGED vars
    <3>1. UNCHANGED <<ws, alloc, valid, userId, channel, SessionExists, ChannelClientTable,
                      channelIndex, GarbageQueue, th>>
      BY <2>3 DEF vars, session, tables
    <3>2. ASSUME NEW t \in Thread PROVE Alone(t)'
      <4>1. Alone(t)
        BY DEF AloneInv
      <4> QED
        BY <3>1, <4>1 DEF Alone
    <3>3. ValidOpen' /\ OpenInvalid' /\ IndexExact' /\ RetiredOnce'
      BY <3>1 DEF AloneInv, ValidOpen, OpenInvalid, IndexExact, RetiredOnce
    <3> QED
      BY <3>2, <3>3 DEF AloneInv
  <2> QED
    BY <2>1, <2>2, <2>3, AloneHandler, AloneCollect DEF Next
<1> QED
  BY <1>1, <1>2, BaseInvariant, PTL DEF Spec

(* Without requests for userIds a session is queued for deletion exactly    *)
(* once, however many threads join, broadcast and disconnect at a time.     *)
THEOREM RetiredOnceHolds == ASSUME NoRequests PROVE Spec => []RetiredOnce
<1>1. AloneInv => RetiredOnce
  BY DEF AloneInv
<1> QED
  BY <1>1, AloneInvariant, PTL

(* The collector takes away nothing that a handler has in its hands.        *)
THEOREM NothingPulledAwayHolds == ASSUME NoRequests PROVE Spec => []NothingPulledAway
<1>1. BaseInv /\ AloneInv => NothingPulledAway
  <2> SUFFICES ASSUME BaseInv, AloneInv, NEW t \in Thread
               PROVE  /\ At(t, "subscribe") => th[t].ch \in ChannelClientTable
                      /\ th[t].must \cup ({th[t].c, th[t].who, th[t].v} \ {NoSession}) \subseteq
                             alloc \cup {c \in Conn : At(t, "map") /\ c = th[t].c}
    BY DEF NothingPulledAway
  <2>1. InHand(t) /\ Alone(t) /\ th[t] \in Local /\ valid \subseteq alloc
    BY DEF BaseInv, AloneInv, TypeInv
  <2>2. th[t].must \subseteq alloc /\ th[t].v \in alloc \cup {NoSession}
        /\ th[t].who \in alloc \cup {NoSession}
    BY <2>1 DEF Alone, InHand
  <2>3. \/ th[t].c \in alloc \cup {NoSession}
        \/ At(t, "map") /\ th[t].c \in Conn
    <3>1. th[t].at \in Joining \cup Leaving \cup Looping
                          \cup {"loop", "lock", "map", "exists", "kick", "assign"}
      BY <2>1 DEF Local, Place
    <3>2. th[t].at \in Leaving \cup Looping \cup {"loop"} => th[t].c = NoSession
      BY <2>1 DEF Alone
    <3>3. th[t].at = "lock" => th[t].c \in alloc
      BY <2>1 DEF Alone
    <3>4. th[t].at \in Joining \cup {"exists"} => th[t].c \in alloc
      BY <2>1 DEF InHand
    <3>5. th[t].at = "map" => th[t].c \in Conn
      BY <2>1 DEF InHand
    <3>6. th[t].at \notin {"kick", "assign"}
      BY <2>1 DEF Alone
    <3> QED
      BY <3>1, <3>2, <3>3, <3>4, <3>5, <3>6 DEF At
  <2>4. At(t, "subscribe") => th[t].ch \in ChannelClientTable
    BY <2>1 DEF Alone, At
  <2> QED
    BY <2>2, <2>3, <2>4
<1> QED
  BY <1>1, BaseInvariant, AloneInvariant, PTL
--------------------------------------------------------------------------------
(* What users know.  A step of thread t that leaves sessions and rosters    *)
(* alone keeps them sound if it announces what it was going to announce.    *)
LEMMA RosterFrame ==
  ASSUME BaseInv, RosterInv, NEW t \in Thread,
         \A s \in Thread \ {t} : th'[s] = th[s],
         UNCHANGED <<session, roster>>,
         th'[t].at \in Leaving => th'[t].seen = {},
         \A d \in alloc, c \in valid :
            channel[c] \in Channel /\ channel[d] = channel[c] /\ Announces(t, d, c)
               => Announces(t, d, c)'
  PROVE  RosterInv'
<1>1. UNCHANGED <<alloc, valid, userId, channel, roster>>
  BY DEF session
<1>2. RosterPlace'
  BY <1>1 DEF RosterInv, RosterPlace
<1>3. Fresh'
  <2> SUFFICES ASSUME NEW s \in Thread PROVE th'[s].at \in Leaving => th'[s].seen = {}
    BY DEF Fresh
  <2> QED
    BY DEF RosterInv, Fresh
<1>4. RosterSound'
  <2> SUFFICES ASSUME NEW c \in valid, NEW u \in roster[c]
               PROVE  \E d \in alloc :
                         /\ userId[d] = u
                         /\ channel[d] = channel[c]
                         /\ d \in valid \/ \E s \in Thread : Announces(s, d, c)'
    BY <1>1 DEF RosterSound
  <2>1. PICK d \in alloc : /\ userId[d] = u
                           /\ channel[d] = channel[c]
                           /\ d \in valid \/ \E s \in Thread : Announces(s, d, c)
    BY DEF RosterInv, RosterSound
  <2>2. channel[c] \in Channel
    BY DEF RosterInv, RosterPlace, BaseInv, TypeInv
  <2>3. ASSUME NEW s \in Thread, Announces(s, d, c) PROVE Announces(s, d, c)'
    <3>1. CASE s = t
      BY <2>1, <2>2, <2>3, <3>1
    <3>2. CASE s # t
      BY <2>3, <3>2 DEF Announces
    <3> QED
      BY <3>1, <3>2
  <2> QED
    BY <2>1, <2>3
<1> QED
  BY <1>2, <1>3, <1>4 DEF RosterInv

(* A thread announces nothing but in a disconnection.                       *)
LEMMA NotAnnounced ==
  ASSUME NEW t \in Thread, th[t].at \notin Leaving \cup Looping, NEW d, NEW c
  PROVE  ~Announces(t, d, c)
  BY DEF Announces, Leaving, Looping

(* The handlers of a socket's events, and the steps of the first packet     *)
(* that leave the session as it is.                                         *)
LEMMA RosterHandler ==
  ASSUME BaseInv, AloneInv, RosterInv, NEW t \in Thread,
         \/ \E c \in Conn : Handler(t, c)
         \/ FindChannel(t) \/ CreateChannel(t) \/ DereferenceEnd(t) \/ EnterSessionExists(t)
  PROVE  RosterInv'
<1>0. th \in [Thread -> Local] /\ th[t] \in Local
  BY DEF BaseInv, TypeInv
<1>1. ASSUME UNCHANGED <<session, roster>>, th[t].at \notin Leaving \cup Looping,
             \A s \in Thread \ {t} : th'[s] = th[s],
             th'[t].at \in Leaving => th'[t].seen = {}
      PROVE  RosterInv'
  BY <1>1, NotAnnounced, RosterFrame
<1>2. ASSUME NEW c \in Conn, Connect(t, c) \/ SocketEnd(t, c) PROVE RosterInv'
  <2>1. UNCHANGED <<session, roster, th>> /\ th[t].at = "loop"
    BY <1>2 DEF Connect, SocketEnd, Free
  <2> QED
    BY <1>1, <2>1, PlaceFacts
<1>3. ASSUME NEW c \in Conn, NEW ch \in Channel, PickUserId(t, c, ch) PROVE RosterInv'
  <2>1. PICK u \in Generated :
           th' = [th EXCEPT ![t] = [Idle EXCEPT !.at = "map", !.c = c, !.id = u, !.ch = ch]]
    BY <1>3 DEF PickUserId
  <2>2. th'[t].seen = {} /\ \A s \in Thread \ {t} : th'[s] = th[s]
    BY <1>0, <2>1 DEF Idle
  <2>3. UNCHANGED <<session, roster>> /\ th[t].at = "loop"
    BY <1>3 DEF PickUserId, Open, Free
  <2> QED
    BY <1>1, <2>2, <2>3, PlaceFacts
<1>4. ASSUME NEW c \in Conn,
             OnMessage(t, c) \/ DisconnectClient(t, c) \/ OnDisconnection(t, c) \/ Broadcast(t, c)
      PROVE  RosterInv'
  <2>1. th'[t].seen = {} /\ \A s \in Thread \ {t} : th'[s] = th[s]
    <3>1. CASE OnMessage(t, c)
      BY <1>0, <3>1 DEF OnMessage, Idle
    <3>2. CASE DisconnectClient(t, c)
      BY <1>0, <3>2 DEF DisconnectClient, Departure, Idle
    <3>3. CASE OnDisconnection(t, c)
      BY <1>0, <3>3 DEF OnDisconnection, Departure, Idle
    <3>4. CASE Broadcast(t, c)
      BY <1>0, <3>4 DEF Broadcast, Idle
    <3> QED
      BY <1>4, <3>1, <3>2, <3>3, <3>4
  <2>2. UNCHANGED <<session, roster>> /\ th[t].at \in {"loop", "lock"}
    BY <1>4 DEF OnMessage, DisconnectClient, OnDisconnection, Broadcast, Open, Free, Client, At
  <2> QED
    BY <1>1, <2>1, <2>2, PlaceFacts
<1>5. CASE FindChannel(t) \/ CreateChannel(t)
  <2>1. PICK p \in {"subscribe", "insert", "end()"} : Goto(t, p)
    BY <1>5 DEF FindChannel, CreateChannel
  <2>2. p \in Place /\ p \in Joining
    BY DEF Place, Joining
  <2>3. th'[t].at = p /\ \A s \in Thread \ {t} : th'[s] = th[s]
    BY <1>0, <2>1, <2>2, Move
  <2>4. UNCHANGED <<session, roster>> /\ th[t].at \in Joining
    BY <1>5 DEF FindChannel, CreateChannel, At, Joining
  <2> QED
    BY <1>1, <2>2, <2>3, <2>4, PlaceFacts
<1>6. CASE DereferenceEnd(t)
  <2>1. UNCHANGED <<session, roster, th>> /\ th[t].at \in Joining
    BY <1>6 DEF DereferenceEnd, At, Joining
  <2> QED
    BY <1>1, <2>1, PlaceFacts
<1>7. CASE EnterSessionExists(t)
  <2>1. th'[t] = Idle /\ \A s \in Thread \ {t} : th'[s] = th[s]
    BY <1>0, <1>7, Become, IdleFacts DEF EnterSessionExists, Done
  <2>2. UNCHANGED <<session, roster>> /\ th[t].at = "exists"
    BY <1>7 DEF EnterSessionExists, At
  <2> QED
    BY <1>1, <2>1, <2>2, IdleFacts, PlaceFacts
<1> QED
  BY <1>2, <1>3, <1>4, <1>5, <1>6, <1>7 DEF Handler

(* A session gets its userId, or its channel: nobody knows it yet.          *)
LEMMA RosterJoin ==
  ASSUME BaseInv, AloneInv, RosterInv, NEW t \in Thread, EnterMap(t) \/ Subscribe(t)
  PROVE  RosterInv'
<1> DEFINE c == th[t].c
           p == IF EnterMap(t) THEN "find" ELSE "exists"
<1>0. /\ th \in [Thread -> Local] /\ InHand(t) /\ valid \subseteq alloc /\ alloc \subseteq Conn
      /\ userId \in [Conn -> Id] /\ channel \in [Conn -> Channel \cup {NoChannel}]
      /\ NoChannel \notin Channel
      /\ RosterPlace /\ RosterSound /\ Fresh
  BY ThreadsAssumption DEF BaseInv, TypeInv, RosterInv
<1>1. th[t].at \in {"map", "subscribe"} /\ Goto(t, p) /\ roster' = roster
  BY DEF EnterMap, Subscribe, At
<1>2. c \in Conn /\ channel[c] = NoChannel
  BY <1>0, <1>1 DEF InHand, Joining
<1>3. p \in Place /\ p \notin Leaving \cup Looping
  BY DEF Place, Joining, Leaving, Looping
<1>4. th'[t].at = p /\ \A s \in Thread \ {t} : th'[s] = th[s]
  <2> HIDE DEF p
  <2> QED
    BY <1>0, <1>1, <1>3, Move
<1>5. /\ alloc \subseteq alloc' /\ valid \subseteq valid' /\ valid' \subseteq valid \cup {c}
      /\ \A e \in alloc : e # c => userId'[e] = userId[e] /\ channel'[e] = channel[e]
      /\ EnterMap(t) => channel' = channel
      /\ Subscribe(t) => userId' = userId
  BY <1>0, <1>2 DEF EnterMap, Subscribe
<1>6. \A e \in Conn : roster[e] # {} => e # c
  BY <1>0, <1>2 DEF RosterPlace
<1>7. RosterPlace'
  BY <1>0, <1>1, <1>5, <1>6 DEF RosterPlace
<1>8. Fresh'
  <2> SUFFICES ASSUME NEW s \in Thread PROVE th'[s].at \in Leaving => th'[s].seen = {}
    BY DEF Fresh
  <2> HIDE DEF p
  <2> QED
    BY <1>0, <1>3, <1>4 DEF Fresh
<1>9. RosterSound'
  <2> SUFFICES ASSUME NEW e \in valid', NEW u \in roster[e]
               PROVE  \E d \in alloc' :
                         /\ userId'[d] = u
                         /\ channel'[d] = channel'[e]
                         /\ d \in valid' \/ \E s \in Thread : Announces(s, d, e)'
    BY <1>1 DEF RosterSound
  <2>1. e \in Conn
    BY <1>0, <1>2, <1>5
  <2>2. e # c /\ e \in valid /\ channel[e] \in Channel
    BY <1>0, <1>6, <2>1 DEF RosterPlace
  <2>3. PICK d \in alloc : /\ userId[d] = u
                           /\ channel[d] = channel[e]
                           /\ d \in valid \/ \E s \in Thread : Announces(s, d, e)
    BY <1>0, <2>2 DEF RosterSound
  <2>4. d # c
    BY <1>0, <1>2, <2>2, <2>3
  <2>5. ASSUME NEW s \in Thread, Announces(s, d, e) PROVE Announces(s, d, e)'
    <3>1. s # t
      <4>1. th[t].at \notin Leaving \cup Looping
        BY <1>1 DEF Leaving, Looping
      <4> QED
        BY <2>5, <4>1, NotAnnounced
    <3> QED
      BY <1>4, <2>5, <3>1 DEF Announces
  <2> QED
    BY <1>0, <1>5, <2>2, <2>3, <2>4, <2>5
<1> QED
  BY <1>7, <1>8, <1>9 DEF RosterInv
(* The loops, and the steps of a disconnection before them: whoever was     *)
(* going to be told is told, or is still going to be.                       *)
LEMMA RosterLoop ==
  ASSUME BaseInv, AloneInv, RosterInv, NEW t \in Thread,
         Visit(t) \/ LoopEnd(t) \/ ReadUserId(t) \/ TestValid(t) \/ EventLoop(t)
  PROVE  RosterInv'
<1> DEFINE who == th[t].who
<1>0. /\ th \in [Thread -> Local] /\ th[t] \in Local /\ TypeInv /\ InHand(t) /\ Alone(t)
      /\ IndexExact /\ Fresh
  BY DEF BaseInv, AloneInv, RosterInv, TypeInv
<1>1. UNCHANGED <<session, roster>>
  BY DEF Visit, LoopEnd, ReadUserId, TestValid, EventLoop
<1>2. CASE Visit(t)
  <2>1. PICK v \in Others(th[t].kind, who) \ th[t].seen :
           th' = IF v \in valid
                 THEN [th EXCEPT ![t] = [th[t] EXCEPT !.at = "send", !.v = v]]
                 ELSE [th EXCEPT ![t] = [th[t] EXCEPT !.seen = @ \cup {v}]]
    BY <1>0, <1>2 DEF Visit
  <2>2. th[t].at = "each"
    BY <1>2 DEF Visit, At
  <2>3. /\ \A s \in Thread \ {t} : th'[s] = th[s]
        /\ th'[t].who = who /\ th'[t].kind = th[t].kind /\ th'[t].must = th[t].must
        /\ th'[t].at \in {"each", "send"}
        /\ \A c \in valid : c \in th'[t].seen => c \in th[t].seen
    <3>1. CASE v \in valid
      BY <1>0, <2>1, <2>2, <3>1 DEF Local
    <3>2. CASE v \notin valid
      BY <1>0, <2>1, <2>2, <3>2 DEF Local
    <3> QED
      BY <3>1, <3>2
  <2>4. \A d \in alloc, c \in valid : Announces(t, d, c) => Announces(t, d, c)'
    BY <2>2, <2>3 DEF Announces
  <2>5. th'[t].at \notin Leaving
    BY <2>3 DEF Leaving
  <2> QED
    BY <1>1, <2>3, <2>4, <2>5, RosterFrame
<1>3. CASE LoopEnd(t)
  <2>1. th[t].at = "each" /\ th[t].must \subseteq th[t].seen /\ th[t].kind # "kicked"
    BY <1>0, <1>3 DEF LoopEnd, At, Alone
  <2>2. th'[t] = Idle /\ \A s \in Thread \ {t} : th'[s] = th[s]
    BY <1>0, <1>3, <2>1, Become, IdleFacts DEF LoopEnd, Done
  <2>3. \A d \in alloc, c \in valid : ~Announces(t, d, c)
    BY <2>1 DEF Announces
  <2>4. th'[t].at \notin Leaving
    BY <2>2, IdleFacts DEF Leaving
  <2> QED
    BY <1>1, <2>2, <2>3, <2>4, RosterFrame
<1>4. CASE ReadUserId(t)
  <2>1. th[t].at = "event" /\ th[t].seen = {}
    BY <1>0, <1>4 DEF ReadUserId, At, Fresh, Leaving
  <2>2. /\ \A s \in Thread \ {t} : th'[s] = th[s]
        /\ th'[t].who = who /\ th'[t].at = "test" /\ th'[t].seen = {}
    BY <1>0, <1>4, <2>1 DEF ReadUserId, Local
  <2>3. \A d \in alloc, c \in valid : Announces(t, d, c) => Announces(t, d, c)'
    BY <2>2 DEF Announces
  <2> QED
    BY <1>1, <2>2, <2>3, RosterFrame
<1>5. CASE TestValid(t)
  <2>1. PICK p \in {"retire", "event loop"} : Goto(t, p)
    BY <1>5 DEF TestValid
  <2>2. th[t].seen = {} /\ p \in Place
    BY <1>0, <1>5 DEF TestValid, At, Fresh, Leaving, Place
  <2>3. /\ \A s \in Thread \ {t} : th'[s] = th[s]
        /\ th'[t].who = who /\ th'[t].at = p /\ th'[t].seen = {}
    BY <1>0, <2>1, <2>2, Move
  <2>4. \A d \in alloc, c \in valid : Announces(t, d, c) => Announces(t, d, c)'
    BY <2>3 DEF Announces
  <2> QED
    BY <1>1, <2>3, <2>4, RosterFrame
<1>6. CASE EventLoop(t)
  <2>1. /\ th[t].at = "event loop" /\ th[t].seen = {} /\ th[t].kind # "broadcast"
        /\ who \in alloc /\ who \notin valid /\ who \in Conn
    BY <1>0, <1>6 DEF EventLoop, At, Fresh, Leaving, Alone, InHand, TypeInv
  <2>2. CASE channel[who] = NoChannel
    <3>1. th' = th
      BY <1>6, <2>2 DEF EventLoop
    <3>2. \A d \in alloc, c \in valid : Announces(t, d, c) => Announces(t, d, c)'
      BY <3>1 DEF Announces
    <3> QED
      BY <1>1, <2>1, <3>1, <3>2, RosterFrame
  <2>3. CASE channel[who] # NoChannel
    <3>1. channel[who] \in Channel
      BY <1>0, <2>1, <2>3 DEF TypeInv
    <3>2. th' = [th EXCEPT ![t] = [th[t] EXCEPT !.at = "each", !.must = Others("event", who)]]
      BY <1>0, <1>6, <2>3 DEF EventLoop
    <3>3. /\ \A s \in Thread \ {t} : th'[s] = th[s]
          /\ th'[t].who = who /\ th'[t].kind = th[t].kind /\ th'[t].must = Others("event", who)
          /\ th'[t].at = "each" /\ th'[t].seen = {}
      BY <1>0, <2>1, <3>2 DEF Local
    <3>4. \A c \in valid : channel[c] = channel[who] => c \in Others("event", who)
      BY <1>0, <2>1, <3>1 DEF Others, IndexExact, TypeInv
    <3>5. \A d \in alloc, c \in valid :
             channel[d] = channel[c] /\ Announces(t, d, c) => Announces(t, d, c)'
      BY <2>1, <3>3, <3>4 DEF Announces
    <3> QED
      BY <1>1, <3>3, <3>5, RosterFrame
  <2> QED
    BY <2>2, <2>3
<1> QED
  BY <1>2, <1>3, <1>4, <1>5, <1>6

(* A message or an event reaches a user.                                    *)
LEMMA RosterSend ==
  ASSUME BaseInv, AloneInv, RosterInv, NEW t \in Thread, Send(t)
  PROVE  RosterInv'
<1> DEFINE v == th[t].v
           who == th[t].who
<1>0. /\ th \in [Thread -> Local] /\ th[t] \in Local /\ TypeInv /\ InHand(t) /\ Alone(t)
      /\ ValidOpen /\ RosterPlace /\ Fresh /\ RosterSound
  BY DEF BaseInv, AloneInv, RosterInv, TypeInv
<1>1. /\ th[t].at = "send" /\ v \in Conn /\ who \in alloc /\ channel[who] \in Channel
      /\ th[t].id = userId[who] /\ (th[t].kind = "broadcast" <=> who \in valid)
  BY <1>0 DEF Send, At, InHand, Alone, Looping
<1>2. UNCHANGED <<alloc, valid, userId, channel>>
  BY DEF Send, session
<1>3. /\ \A s \in Thread \ {t} : th'[s] = th[s]
      /\ th'[t].who = who /\ th'[t].kind = th[t].kind /\ th'[t].must = th[t].must
      /\ th'[t].at = "each" /\ th'[t].seen = th[t].seen \cup {v}
  <2>1. th' = [th EXCEPT ![t] = [th[t] EXCEPT !.at = "each", !.seen = @ \cup {v},
                                              !.v = NoSession]]
    BY <1>0 DEF Send
  <2> QED
    BY <1>0, <2>1 DEF Local
<1>4. \A c \in Conn \ {v} : roster'[c] = roster[c]
  BY <1>0 DEF Send, TypeInv
<1>5. \A c \in valid \ {v}, d \in alloc, s \in Thread :
         Announces(s, d, c) => Announces(s, d, c)'
  BY <1>1, <1>3 DEF Announces
<1>6. \A d \in alloc, s \in Thread, c \in {v} :
         Announces(s, d, c) => Announces(s, d, c)' \/ (s = t /\ d = who /\ who \notin valid)
  <2> SUFFICES ASSUME NEW d \in alloc, NEW s \in Thread, NEW c \in {v}, Announces(s, d, c)
               PROVE  Announces(s, d, c)' \/ (s = t /\ d = who /\ who \notin valid)
    OBVIOUS
  <2>1. CASE s = t
    <3>1. d = who /\ th[t].kind # "broadcast"
      BY <1>1, <2>1 DEF Announces
    <3> QED
      BY <1>1, <2>1, <3>1
  <2>2. CASE s # t
    <3>1. th'[s] = th[s]
      BY <1>3, <2>2
    <3> QED
      BY <3>1 DEF Announces
  <2> QED
    BY <2>1, <2>2
<1>7. roster'[v] = IF v \notin valid THEN roster[v]
                   ELSE IF th[t].kind # "broadcast" THEN roster[v] \ {th[t].id}
                   ELSE IF channel[v] = channel[who] THEN roster[v] \cup {th[t].id}
                   ELSE roster[v]
  <2>1. CASE ws[v] = "none"
    <3>1. v \notin valid
      BY <1>0, <2>1 DEF ValidOpen
    <3> QED
      BY <2>1, <3>1 DEF Send
  <2>2. CASE ws[v] # "none"
    BY <1>0, <1>1, <2>2 DEF Send, Heard, TypeInv
  <2> QED
    BY <2>1, <2>2
<1>8. RosterPlace'
  BY <1>0, <1>1, <1>2, <1>4, <1>7 DEF RosterPlace
<1>9. Fresh'
  <2> SUFFICES ASSUME NEW s \in Thread PROVE th'[s].at \in Leaving => th'[s].seen = {}
    BY DEF Fresh
  <2> QED
    BY <1>0, <1>3 DEF Fresh, Leaving
<1>10. RosterSound'
  <2> SUFFICES ASSUME NEW c \in valid, NEW u \in roster'[c]
               PROVE  \E d \in alloc :
                         /\ userId[d] = u
                         /\ channel[d] = channel[c]
                         /\ d \in valid \/ \E s \in Thread : Announces(s, d, c)'
    BY <1>2 DEF RosterSound
  <2>1. c \in Conn
    BY <1>0 DEF TypeInv
  <2>2. CASE u \in roster[c] /\ ~(c = v /\ th[t].kind # "broadcast" /\ u = th[t].id)
    <3>1. PICK d \in alloc : /\ userId[d] = u
                             /\ channel[d] = channel[c]
                             /\ d \in valid \/ \E s \in Thread : Announces(s, d, c)
      BY <1>0, <2>2 DEF RosterSound
    <3>2. CASE c # v
      BY <1>5, <3>1, <3>2
    <3>3. CASE c = v
      <4>1. ~(d = who /\ who \notin valid)
        BY <1>1, <2>2, <3>1, <3>3
      <4>2. CASE d \in valid
        BY <3>1, <4>2
      <4>3. ASSUME NEW s \in Thread, Announces(s, d, c) PROVE Announces(s, d, c)'
          BY <1>6, <3>3, <4>1, <4>3
      <4> QED
        BY <3>1, <4>2, <4>3
    <3> QED
      BY <3>2, <3>3
  <2>3. CASE c = v /\ th[t].kind = "broadcast" /\ u = th[t].id /\ channel[v] = channel[who]
    BY <1>1, <2>3
  <2> QED
    BY <1>4, <1>7, <2>1, <2>2, <2>3
<1> QED
  BY <1>8, <1>9, <1>10 DEF RosterInv

(* A session is invalidated: its thread announces it.                       *)
LEMMA RosterRetire ==
  ASSUME BaseInv, AloneInv, RosterInv, NEW t \in Thread, Drop(t) \/ RetireValid(t)
  PROVE  RosterInv'
<1> DEFINE c == th[t].who
           p == IF Drop(t) THEN "event" ELSE "event loop"
<1>0. /\ th \in [Thread -> Local] /\ th[t] \in Local /\ TypeInv /\ InHand(t)
      /\ RosterPlace /\ Fresh /\ RosterSound
  BY DEF BaseInv, RosterInv, TypeInv
<1>1. th[t].at \in {"drop", "retire"} /\ Goto(t, p) /\ Retire(c)
      /\ UNCHANGED <<alloc, userId, channel>>
  BY DEF Drop, RetireValid, At
<1>2. c \in Conn /\ th[t].seen = {}
  BY <1>0, <1>1 DEF InHand, Leaving, TypeInv, Fresh
<1>3. p \in Place /\ p \in {"event", "event loop"}
  BY DEF Place, Leaving
<1> HIDE DEF p
<1>4. /\ \A s \in Thread \ {t} : th'[s] = th[s]
      /\ th'[t].at = p /\ th'[t].who = c /\ th'[t].seen = {}
  BY <1>0, <1>1, <1>2, <1>3, Move
<1>5. valid' = valid \ {c} /\ \A e \in Conn : roster'[e] = IF e = c THEN {} ELSE roster[e]
  BY <1>0, <1>1, <1>2 DEF Retire, TypeInv
<1>6. RosterPlace'
  BY <1>0, <1>1, <1>5 DEF RosterPlace
<1>7. Fresh'
  <2> SUFFICES ASSUME NEW s \in Thread PROVE th'[s].at \in Leaving => th'[s].seen = {}
    BY DEF Fresh
  <2> QED
    BY <1>0, <1>4 DEF Fresh
<1>8. \A s \in Thread, d \in Conn, e \in Conn : Announces(s, d, e) => Announces(s, d, e)'
  BY <1>1, <1>3, <1>4 DEF Announces
<1>9. \A e \in Conn, d \in {c} : Announces(t, d, e)'
  BY <1>3, <1>4 DEF Announces
<1>10. RosterSound'
  <2> SUFFICES ASSUME NEW e \in valid', NEW u \in roster'[e]
               PROVE  \E d \in alloc :
                         /\ userId[d] = u
                         /\ channel[d] = channel[e]
                         /\ d \in valid' \/ \E s \in Thread : Announces(s, d, e)'
    BY <1>1 DEF RosterSound
  <2>1. e \in Conn /\ e \in valid /\ e # c /\ u \in roster[e]
    BY <1>0, <1>5 DEF TypeInv
  <2>2. PICK d \in alloc : /\ userId[d] = u
                           /\ channel[d] = channel[e]
                           /\ d \in valid \/ \E s \in Thread : Announces(s, d, e)
    BY <1>0, <2>1 DEF RosterSound
  <2>3. d \in Conn
    BY <1>0 DEF TypeInv
  <2>4. CASE d = c
    BY <1>9, <2>1, <2>2, <2>4
  <2>5. CASE d # c /\ d \in valid
    BY <1>5, <2>2, <2>5
  <2>6. ASSUME NEW s \in Thread, Announces(s, d, e) PROVE Announces(s, d, e)'
    BY <1>8, <2>1, <2>3, <2>6
  <2> QED
    BY <2>2, <2>4, <2>5, <2>6
<1> QED
  BY <1>6, <1>7, <1>10 DEF RosterInv

(* A collection runs when no thread announces anything.                     *)
LEMMA RosterCollect == ASSUME BaseInv, AloneInv, RosterInv, FreeGarbage PROVE RosterInv'
<1> DEFINE freed == {c \in Conn : GarbageQueue[c] > 0}
<1>0. /\ TypeInv /\ RosterPlace /\ Fresh /\ RosterSound /\ RetiredOnce /\ valid \subseteq alloc
  BY DEF BaseInv, AloneInv, RosterInv, TypeInv
<1>1. /\ alloc' = alloc \ freed
      /\ channel' = [c \in Conn |-> IF c \in freed THEN NoChannel ELSE channel[c]]
      /\ userId' = [c \in Conn |-> IF c \in freed THEN Zero ELSE userId[c]]
      /\ UNCHANGED <<valid, roster, th>>
  BY DEF FreeGarbage
<1>2. freed \cap valid = {} /\ valid \subseteq Conn
  BY <1>0 DEF TypeInv, RetiredOnce
<1>3. \A c \in valid : c \in alloc' /\ channel'[c] = channel[c] /\ userId'[c] = userId[c]
  BY <1>0, <1>1, <1>2
<1>4. \A s \in Thread : th[s].at \in {"loop", "lock"}
  BY DEF FreeGarbage, NoHandler, At
<1>5. \A s \in Thread : \A d, c : ~Announces(s, d, c)
  BY <1>4, NotAnnounced, PlaceFacts
<1>6. RosterPlace' /\ Fresh'
  BY <1>0, <1>1, <1>3 DEF RosterPlace, Fresh
<1>7. RosterSound'
  <2> SUFFICES ASSUME NEW c \in valid, NEW u \in roster[c]
               PROVE  \E d \in alloc' :
                         /\ userId'[d] = u
                         /\ channel'[d] = channel'[c]
                         /\ d \in valid' \/ \E s \in Thread : Announces(s, d, c)'
    BY <1>1 DEF RosterSound
  <2>1. PICK d \in alloc : userId[d] = u /\ channel[d] = channel[c] /\ d \in valid
    BY <1>0, <1>5 DEF RosterSound
  <2> QED
    BY <1>1, <1>3, <2>1
<1> QED
  BY <1>6, <1>7 DEF RosterInv

(* Whatever the interleaving of joins, broadcasts and disconnections on any *)
(* number of threads: a userId that a user has learned is that of a user    *)
(* who is there, or whose disconnect event is on its way.                   *)
THEOREM RosterSoundHolds == ASSUME NoRequests PROVE Spec => []RosterSound
<1>1. Init => RosterInv
  BY IdleFacts DEF Init, RosterInv, RosterPlace, Fresh, RosterSound, Leaving
<1>2. BaseInv /\ AloneInv /\ RosterInv /\ [Next]_vars => RosterInv'
  <2> SUFFICES ASSUME BaseInv, AloneInv, RosterInv, [Next]_vars PROVE RosterInv'
    OBVIOUS
  <2>1. ASSUME NEW t \in Thread, NEW c \in Conn, Handler(t, c) PROVE RosterInv'
    BY <2>1, RosterHandler
  <2>2. ASSUME NEW t \in Thread, Step(t) PROVE RosterInv'
    BY <2>2, RosterHandler, RosterJoin, RosterLoop, RosterSend, RosterRetire DEF Step
  <2>3. ASSUME NEW t \in Thread, RequestStep(t) PROVE FALSE
    BY <2>3, NoRequestStep
  <2>4. CASE UNCHANGED vars
    <3>1. UNCHANGED <<alloc, valid, userId, channel, roster, th>>
      BY <2>4 DEF vars, session
    <3> QED
      <4>1. RosterPlace'
        BY <3>1 DEF RosterInv, RosterPlace
      <4>2. Fresh'
        BY <3>1 DEF RosterInv, Fresh
      <4>3. ASSUME NEW s, NEW d, NEW c PROVE Announces(s, d, c)' = Announces(s, d, c)
        BY <3>1 DEF Announces
      <4>4. RosterSound'
        BY <3>1, <4>3 DEF RosterInv, RosterSound
      <4> QED
        BY <4>1, <4>2, <4>4 DEF RosterInv
  <2> QED
    BY <2>1, <2>2, <2>3, <2>4, RosterCollect DEF Next
<1>3. RosterInv => RosterSound
  BY DEF RosterInv
<1> QED
  BY <1>1, <1>2, <1>3, BaseInvariant, AloneInvariant, PTL DEF Spec
================================================================================
