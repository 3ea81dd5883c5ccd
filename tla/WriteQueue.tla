-------------------------------- MODULE WriteQueue -----------------------------
(****************************************************************************)
(* One TLS socket of the server and its queue of messages (src/uws/         *)
(* Socket.h: write, sendTransformed, sslIoHandler; src/uws/WebSocket.cpp:   *)
(* send, close, onEnd).  A message is written at once if the queue is empty *)
(* and waits in the queue if TLS cannot take it; the event loop of the      *)
(* thread that owns the socket writes the queue when the socket is ready.   *)
(*                                                                          *)
(* send() may be called by any thread.  Its test of the queue, its          *)
(* SSL_write and its push are steps of their own: the builds (build.sh,     *)
(* app.vcxproj) do not define UWS_THREADSAFE, so that no lock spans them.   *)
(* Renegotiation, for which SSL_write would have to read, is left out.      *)
(****************************************************************************)
EXTENDS Integers, Sequences

CONSTANTS Thread,      \* threads that send to the socket
          Owner,       \* the thread whose event loop serves it
          Room,        \* messages the kernel takes before the peer reads
          MaxMessages, \* bound: messages sent to the socket
          MaxInput     \* bound: messages the peer sends

ASSUME WriteQueueAssumption == /\ Owner \in Thread
                               /\ Room \in Nat \ {0}
                               /\ MaxMessages \in Nat /\ MaxInput \in Nat

VARIABLES
    next,       \* number of messages sent so far; each is known by its number
    closeFrame, \* the number of the CLOSE frame, 0 before close()
    sender,     \* where each thread is in send(), and with which message
    queue,      \* messageQueue
    poll,       \* state.poll, the events the loop waits for
    shuttingDown,
    want,       \* SSL_want: what the last operation of TLS was short of
    pending,    \* the message of an SSL_write that has to be repeated, or 0
    shut,       \* SSL_shutdown was called
    wire,       \* messages the kernel has taken, in this order
    room,       \* messages it can take at the moment
    input,      \* what there is to read: "none", "data" or "eof"
    heard,      \* number of messages the peer has sent
    broken,     \* the connection failed
    at,         \* where the owner is in sslIoHandler
    events,     \* the events it was called with
    alive       \* the socket is not deleted

peer == <<input, heard, broken>>
tls == <<want, pending, shut, wire>>
vars == <<next, closeFrame, sender, queue, poll, shuttingDown, tls, room, peer, at,
          events, alive>>

Message == 1 .. MaxMessages

Idle == [at |-> "idle", m |-> 0]

Init == /\ next = 0 /\ closeFrame = 0
        /\ sender = [t \in Thread |-> Idle]
        /\ queue = <<>>
        /\ poll = {"readable"}
        /\ shuttingDown = FALSE
        /\ want = "reading" /\ pending = 0 /\ shut = FALSE
        /\ wire = <<>> /\ room = Room
        /\ input = "none" /\ heard = 0 /\ broken = FALSE
        /\ at = "loop" /\ events = {}
        /\ alive = TRUE

--------------------------------------------------------------------------------
(* TLS. *)

(* What SSL_write(m) makes of it.  A write that was short of room has to be *)
(* repeated with the same message; nothing is written after SSL_shutdown.   *)
Outcome(m) == IF shut \/ broken \/ pending \notin {0, m} THEN "error"
              ELSE IF room = 0 THEN "want write" ELSE "sent"

(* The whole message is in the kernel.  The callback of a CLOSE frame calls *)
(* SSL_shutdown, whose alert may find no room.                              *)
Complete_NoShutdown(m) ==                  \* mutant: the callback is not called
    /\ wire' = Append(wire, m)
    /\ room' = room - 1
    /\ pending' = 0
    /\ want' = "nothing"
    /\ UNCHANGED shut
Complete(m) ==
    /\ wire' = Append(wire, m)
    /\ room' = room - 1
    /\ pending' = 0
    /\ shut' = (m = closeFrame)
    /\ want' = IF m = closeFrame /\ room = 1 THEN "writing" ELSE "nothing"

(* The message is short of room: the loop waits for it. *)
Block_NoPoll(m) == /\ pending' = m         \* mutant: the poll flag is not set
                   /\ want' = "writing"
                   /\ UNCHANGED <<poll, shut, wire, room>>
Block(m) == /\ pending' = m
            /\ want' = "writing"
            /\ poll' = poll \cup {"writable"}
            /\ UNCHANGED <<shut, wire, room>>

--------------------------------------------------------------------------------
(* Sending. *)

(* The owner sends from handlers of other sockets' messages or of this      *)
(* one's, never in the middle of its flush.                                 *)
MaySend(t) == /\ alive
              /\ sender[t] = Idle
              /\ next < MaxMessages
              /\ t = Owner => at \in {"loop", "data"}

(* sendTransformed and write test the queue.  Behind other messages the     *)
(* new one is queued; else it is going to be written.                       *)
Begin_Direct(t, m) ==                      \* mutant: the queue is not tested
    /\ sender' = [sender EXCEPT ![t] = [at |-> "write", m |-> m]]
    /\ UNCHANGED queue
Begin(t, m) ==
    IF queue # <<>>
    THEN queue' = Append(queue, m) /\ UNCHANGED sender
    ELSE sender' = [sender EXCEPT ![t] = [at |-> "write", m |-> m]] /\ UNCHANGED queue

Send(t) ==
    /\ MaySend(t)
    /\ next' = next + 1
    /\ Begin(t, next + 1)
    /\ UNCHANGED <<closeFrame, poll, shuttingDown, tls, room, peer, at, events, alive>>

(* close(): shutting down, a timer is started, and the CLOSE frame is sent. *)
Close(t) ==
    /\ MaySend(t)
    /\ ~shuttingDown
    /\ shuttingDown' = TRUE
    /\ next' = next + 1
    /\ closeFrame' = next + 1
    /\ Begin(t, next + 1)
    /\ UNCHANGED <<poll, tls, room, peer, at, events, alive>>

(* SSL_write: the message is sent, or will be queued, or is dropped. *)
Write(t) ==
    LET m == sender[t].m IN
    /\ alive /\ sender[t].at = "write"
    /\ \/ /\ Outcome(m) = "sent"
          /\ Complete(m)
          /\ sender' = [sender EXCEPT ![t] = Idle]
          /\ UNCHANGED poll
       \/ /\ Outcome(m) = "want write"
          /\ Block(m)
          /\ sender' = [sender EXCEPT ![t] = [at |-> "push", m |-> m]]
       \/ /\ Outcome(m) = "error"
          /\ sender' = [sender EXCEPT ![t] = Idle]
          /\ UNCHANGED <<poll, tls, room>>
    /\ UNCHANGED <<next, closeFrame, queue, shuttingDown, peer, at, events, alive>>

Push(t) ==
    /\ alive /\ sender[t].at = "push"
    /\ queue' = Append(queue, sender[t].m)
    /\ sender' = [sender EXCEPT ![t] = Idle]
    /\ UNCHANGED <<next, closeFrame, poll, shuttingDown, tls, room, peer, at, events, alive>>

--------------------------------------------------------------------------------
(* The owner's event loop. *)

OwnerIn(place) == alive /\ sender[Owner] = Idle /\ at = place

Ready == (IF room > 0 THEN {"writable"} ELSE {})
             \cup (IF input # "none" THEN {"readable"} ELSE {})

(* What sslIoHandler does after its first part. *)
Rest(ev) == IF "readable" \in ev THEN "read" ELSE "loop"

(* The loop calls sslIoHandler with the events that are ready and waited    *)
(* for; the queue is written when the socket is writable, and also when the *)
(* last operation of TLS was short of input.                                *)
IoHandler ==
    LET ev == Ready \cap poll IN
    /\ OwnerIn("loop") /\ ~broken
    /\ ev # {}
    /\ events' = ev
    /\ at' = IF queue # <<>> /\ ("writable" \in ev \/ want = "reading")
             THEN "flush" ELSE Rest(ev)
    /\ UNCHANGED <<next, closeFrame, sender, queue, poll, shuttingDown, tls, room, peer, alive>>

(* onEnd: the socket is deleted, and what is queued with it. *)
OnEnd == /\ alive' = FALSE
         /\ queue' = <<>>
         /\ at' = "loop"
         /\ events' = {}
         /\ UNCHANGED <<next, closeFrame, sender, poll, shuttingDown, tls, room, peer>>

(* When the last message is written the loop does not wait for room any     *)
(* more, unless TLS itself does.                                            *)
Unpoll_Never(rest) == UNCHANGED poll       \* mutant: the flag is not cleared
Unpoll(rest) == poll' = IF rest = <<>> /\ want' # "writing" THEN {"readable"} ELSE poll

Pop == LET rest == Tail(queue) IN
       /\ queue' = rest
       /\ Unpoll(rest)
       /\ at' = IF rest = <<>> THEN Rest(events) ELSE "flush"
       /\ UNCHANGED <<next, closeFrame, sender, shuttingDown, peer, events, alive>>

(* Mutant of the next: what SSL_write returned is not looked at. *)
Flush_Unchecked == /\ OwnerIn("flush")
                   /\ Complete(Head(queue))
                   /\ Pop
(* One turn of the loop over the queue. *)
Flush ==
    LET m == Head(queue) IN
    /\ OwnerIn("flush")
    /\ \/ /\ Outcome(m) = "sent"
          /\ Complete(m)
          /\ Pop
       \/ /\ Outcome(m) = "want write"
          /\ Block(m)
          /\ at' = Rest(events)
          /\ UNCHANGED <<next, closeFrame, sender, queue, shuttingDown, peer, events, alive>>
       \/ /\ Outcome(m) = "error"
          /\ OnEnd

(* SSL_read: data goes to onData (the handlers it calls may send), which    *)
(* drops it if the socket is shutting down; the end of the connection goes  *)
(* to onEnd.                                                                *)
Read ==
    /\ OwnerIn("read")
    /\ \/ /\ input = "none" /\ ~broken
          /\ want' = "reading"
          /\ at' = "loop"
          /\ UNCHANGED <<next, closeFrame, sender, queue, poll, shuttingDown, pending, shut,
                         wire, room, peer, events, alive>>
       \/ /\ input = "data"
          /\ input' = "none"
          /\ want' = "nothing"
          /\ at' = IF shuttingDown THEN "loop" ELSE "data"
          /\ UNCHANGED <<next, closeFrame, sender, queue, poll, shuttingDown, pending, shut,
                         wire, room, heard, broken, events, alive>>
       \/ /\ input = "eof" \/ (input = "none" /\ broken)
          /\ OnEnd

(* onData returned: TLS may have more, unless the socket is shutting down.  *)
DataDone ==
    /\ OwnerIn("data")
    /\ at' \in IF shuttingDown THEN {"loop"} ELSE {"loop", "read"}
    /\ UNCHANGED <<next, closeFrame, sender, queue, poll, shuttingDown, tls, room, peer,
                   events, alive>>

(* Mutant of the next: the timer of close() is not started. *)
End_NoTimer == /\ OwnerIn("loop")
               /\ broken
               /\ OnEnd
(* The loop reports an error, or the 15 seconds of close() are over. *)
End == /\ OwnerIn("loop")
       /\ broken \/ shuttingDown
       /\ OnEnd

--------------------------------------------------------------------------------
(* The peer and the network. *)

PeerReads == /\ alive /\ room < Room
             /\ room' = room + 1
             /\ UNCHANGED <<next, closeFrame, sender, queue, poll, shuttingDown, tls, peer, at,
                            events, alive>>

PeerSends == /\ alive /\ input = "none"
             /\ \/ heard < MaxInput /\ input' = "data" /\ heard' = heard + 1
                \/ input' = "eof" /\ UNCHANGED heard
             /\ UNCHANGED <<next, closeFrame, sender, queue, poll, shuttingDown, tls, room,
                            broken, at, events, alive>>

Break == /\ alive /\ ~broken
         /\ broken' = TRUE
         /\ UNCHANGED <<next, closeFrame, sender, queue, poll, shuttingDown, tls, room, input,
                        heard, at, events, alive>>

Sending(t) == Write(t) \/ Push(t)
Handler == IoHandler \/ Flush \/ Read \/ DataDone

Next == \/ \E t \in Thread : Send(t) \/ Close(t) \/ Sending(t)
        \/ Handler \/ End
        \/ PeerReads \/ PeerSends \/ Break

Spec == Init /\ [][Next]_vars

(* A thread finishes the send() it is in, the loop runs, and timers fire.   *)
(* Nothing is assumed of the peer.                                          *)
Fairness == /\ \A t \in Thread : WF_vars(Sending(t))
            /\ WF_vars(Handler)
            /\ WF_vars(End)
FairSpec == Spec /\ Fairness

--------------------------------------------------------------------------------
In(m, seq) == \E i \in DOMAIN seq : seq[i] = m

TypeOK ==
    /\ next \in 0 .. MaxMessages /\ closeFrame \in 0 .. MaxMessages
    /\ sender \in [Thread -> [at : {"idle", "write", "push"}, m : 0 .. MaxMessages]]
    /\ queue \in Seq(Message) /\ wire \in Seq(Message)
    /\ poll \subseteq {"readable", "writable"}
    /\ events \subseteq {"readable", "writable"}
    /\ shuttingDown \in BOOLEAN /\ shut \in BOOLEAN
    /\ broken \in BOOLEAN /\ alive \in BOOLEAN
    /\ want \in {"nothing", "reading", "writing"}
    /\ pending \in 0 .. MaxMessages
    /\ room \in 0 .. Room
    /\ input \in {"none", "data", "eof"} /\ heard \in 0 .. MaxInput
    /\ at \in {"loop", "flush", "read", "data"}

(* With one thread the socket is a FIFO channel until it is shut, fails or  *)
(* is deleted.                                                              *)
Usable == alive /\ ~broken /\ ~shut
waiting == IF ~Usable THEN <<>>
           ELSE IF sender[Owner] = Idle THEN queue
           ELSE <<sender[Owner].m>>

Fifo == INSTANCE FifoChannel WITH delivered <- wire, open <- Usable

(* Immediate writes, queued ones and repeated ones add up to a channel that *)
(* keeps the order and loses nothing.                                       *)
ImplementsFifo == Fifo!FifoSpec

(* Nothing follows the CLOSE frame on the wire, although messages may be    *)
(* queued behind it and sent after it, and TLS is not shut before it is     *)
(* out.                                                                     *)
CloseIsLast == /\ In(closeFrame, wire) => wire[Len(wire)] = closeFrame
               /\ shut => In(closeFrame, wire)

(* Between events the loop waits for room exactly when messages do: if it   *)
(* does not they stay in the queue, if it does without need the loop spins. *)
(* Only the alert of SSL_shutdown may leave it spinning.                    *)
PollExact == OwnerIn("loop") /\ ~broken /\ ~shut
                 => ("writable" \in poll <=> queue # <<>>)

(* A queued message gets out if the peer keeps reading, or the socket is    *)
(* deleted.                                                                 *)
QueueDrains ==
    []<>(room > 0) => \A m \in Message : In(m, queue) ~> (In(m, wire) \/ ~alive)

(* close() ends: a peer that neither reads nor hangs up keeps the socket    *)
(* only until the timer.                                                    *)
CloseEnds == shuttingDown ~> ~alive

================================================================================
