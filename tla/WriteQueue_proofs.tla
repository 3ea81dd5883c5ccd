--------------------------- MODULE WriteQueue_proofs ---------------------------
(****************************************************************************)
(* Proofs about WriteQueue for any number of threads, any room and any      *)
(* number of messages.                                                      *)
(****************************************************************************)
EXTENDS WriteQueue, SequenceTheorems, TLAPS

(* The flush loop always has a message before it, and a thread in send()    *)
(* has one in its hands.                                                    *)
FlushHasMessage == alive /\ at = "flush" => queue # <<>>
SenderHasMessage == \A t \in Thread : sender[t].at = "idle" <=> sender[t].m = 0

TypeInv == TypeOK /\ FlushHasMessage /\ SenderHasMessage

(* What the provers need to know of sequences: their head and tail, and     *)
(* what becomes of them when a message is appended.                         *)
LEMMA QueueFacts ==
  ASSUME NEW S, NEW q \in Seq(S)
  PROVE  /\ q # <<>> => Head(q) \in S /\ Tail(q) \in Seq(S)
         /\ \A m \in S : Append(q, m) \in Seq(S) /\ Append(q, m) # <<>>
  BY HeadTailProperties, AppendProperties

(* SSL_write sends only what there is room for. *)
LEMMA OutcomeRoom ==
  ASSUME TypeOK, NEW m, Outcome(m) = "sent"
  PROVE  room - 1 \in 0 .. Room
  BY WriteQueueAssumption DEF Outcome, TypeOK

(* A message that is sent completely keeps the type of all it changes. *)
LEMMA CompleteType ==
  ASSUME TypeOK, NEW m \in Message, Outcome(m) = "sent", Complete(m)
  PROVE  /\ wire' \in Seq(Message) /\ room' \in 0 .. Room
         /\ pending' \in 0 .. MaxMessages /\ shut' \in BOOLEAN
         /\ want' \in {"nothing", "reading", "writing"}
<1>1. room - 1 \in 0 .. Room
  BY OutcomeRoom
<1>2. wire' \in Seq(Message)
  BY QueueFacts DEF Complete, TypeOK
<1>3. pending' \in 0 .. MaxMessages
  BY WriteQueueAssumption DEF Complete
<1>4. QED
  BY <1>1, <1>2, <1>3 DEF Complete

(* A message that begins to be sent is queued or goes to its thread. *)
LEMMA BeginType ==
  ASSUME TypeInv, NEW t \in Thread, MaySend(t), next' = next + 1, Begin(t, next + 1),
         UNCHANGED <<alive, at>>
  PROVE  /\ next' \in 0 .. MaxMessages /\ next + 1 \in Message
         /\ queue' \in Seq(Message)
         /\ sender' \in [Thread -> [at : {"idle", "write", "push"}, m : 0 .. MaxMessages]]
         /\ FlushHasMessage' /\ SenderHasMessage'
<1>1. next + 1 \in Message /\ next + 1 \in 0 .. MaxMessages /\ next + 1 # 0
  BY WriteQueueAssumption DEF MaySend, TypeInv, TypeOK, Message
<1>2. CASE queue # <<>>
  <2>1. queue' = Append(queue, next + 1) /\ sender' = sender
    BY <1>2 DEF Begin
  <2>2. queue' \in Seq(Message) /\ queue' # <<>>
    BY <1>1, <2>1, QueueFacts DEF TypeInv, TypeOK
  <2>3. QED
    BY <1>1, <2>1, <2>2 DEF TypeInv, TypeOK, FlushHasMessage, SenderHasMessage
<1>3. CASE queue = <<>>
  <2>1. /\ queue' = queue
        /\ sender' = [sender EXCEPT ![t] = [at |-> "write", m |-> next + 1]]
    BY <1>3 DEF Begin
  <2>2. FlushHasMessage' /\ queue' \in Seq(Message)
    BY <2>1 DEF TypeInv, TypeOK, FlushHasMessage
  <2>3. sender' \in [Thread -> [at : {"idle", "write", "push"}, m : 0 .. MaxMessages]]
    BY <1>1, <2>1 DEF TypeInv, TypeOK
  <2>4. SenderHasMessage'
    BY <1>1, <2>1 DEF TypeInv, TypeOK, SenderHasMessage
  <2>5. QED
    BY <1>1, <2>2, <2>3, <2>4
<1>4. QED
  BY <1>2, <1>3

(* The type invariant is inductive with what the flush loop and send() have  *)
(* in their hands.                                                          *)
THEOREM TypeInvariant == Spec => []TypeInv
<1>1. Init => TypeInv
  <2> SUFFICES ASSUME Init PROVE TypeInv
    OBVIOUS
  <2>1. <<>> \in Seq(Message)
    BY EmptySeq
  <2>2. sender \in [Thread -> [at : {"idle", "write", "push"}, m : 0 .. MaxMessages]]
    BY WriteQueueAssumption DEF Init, Idle
  <2>3. FlushHasMessage /\ SenderHasMessage
    BY DEF Init, Idle, FlushHasMessage, SenderHasMessage
  <2>4. /\ next \in 0 .. MaxMessages /\ closeFrame \in 0 .. MaxMessages
        /\ pending \in 0 .. MaxMessages /\ heard \in 0 .. MaxInput /\ room \in 0 .. Room
    BY WriteQueueAssumption DEF Init
  <2>5. queue \in Seq(Message) /\ wire \in Seq(Message)
    BY <2>1 DEF Init
  <2>6. QED
    BY <2>2, <2>3, <2>4, <2>5 DEF Init, TypeInv, TypeOK
<1>2. TypeInv /\ [Next]_vars => TypeInv'
  <2> SUFFICES ASSUME TypeInv, [Next]_vars PROVE TypeInv'
    OBVIOUS
  <2> USE DEF tls, peer
  <2>1. ASSUME NEW t \in Thread, Send(t) PROVE TypeInv'
    <3>1. /\ next' \in 0 .. MaxMessages /\ queue' \in Seq(Message)
          /\ sender' \in [Thread -> [at : {"idle", "write", "push"}, m : 0 .. MaxMessages]]
          /\ FlushHasMessage' /\ SenderHasMessage'
      BY <2>1, BeginType DEF Send
    <3>2. QED
      BY <2>1, <3>1 DEF Send, TypeInv, TypeOK
  <2>2. ASSUME NEW t \in Thread, Close(t) PROVE TypeInv'
    <3>1. /\ next' \in 0 .. MaxMessages /\ next + 1 \in Message /\ queue' \in Seq(Message)
          /\ sender' \in [Thread -> [at : {"idle", "write", "push"}, m : 0 .. MaxMessages]]
          /\ FlushHasMessage' /\ SenderHasMessage'
      BY <2>2, BeginType DEF Close
    <3>2. closeFrame' \in 0 .. MaxMessages /\ shuttingDown' \in BOOLEAN
      BY <2>2, <3>1 DEF Close
    <3>3. QED
      BY <2>2, <3>1, <3>2 DEF Close, TypeInv, TypeOK
  <2>3. ASSUME NEW t \in Thread, Write(t) PROVE TypeInv'
    <3> DEFINE m == sender[t].m
    <3>1. m \in Message /\ m # 0
      <4>1. sender[t].at = "write"
        BY <2>3 DEF Write
      <4>2. m # 0
        BY <4>1 DEF TypeInv, SenderHasMessage
      <4>3. m \in 0 .. MaxMessages
        BY DEF TypeInv, TypeOK
      <4>4. QED
        BY <4>2, <4>3, WriteQueueAssumption DEF Message
    <3>2. FlushHasMessage'
      BY <2>3 DEF Write, TypeInv, FlushHasMessage
    <3>3. CASE Outcome(m) = "sent" /\ Complete(m) /\ sender' = [sender EXCEPT ![t] = Idle]
                 /\ UNCHANGED poll
      <4>1. /\ wire' \in Seq(Message) /\ room' \in 0 .. Room
            /\ pending' \in 0 .. MaxMessages /\ shut' \in BOOLEAN
            /\ want' \in {"nothing", "reading", "writing"}
        BY <3>1, <3>3, CompleteType DEF TypeInv
      <4>2. sender' \in [Thread -> [at : {"idle", "write", "push"}, m : 0 .. MaxMessages]]
        BY <3>3, WriteQueueAssumption DEF TypeInv, TypeOK, Idle
      <4>3. SenderHasMessage'
        BY <3>3 DEF TypeInv, TypeOK, Idle, SenderHasMessage
      <4>4. QED
        BY <2>3, <3>2, <3>3, <4>1, <4>2, <4>3 DEF Write, TypeInv, TypeOK
    <3>4. CASE Block(m) /\ sender' = [sender EXCEPT ![t] = [at |-> "push", m |-> m]]
      <4>1. sender' \in [Thread -> [at : {"idle", "write", "push"}, m : 0 .. MaxMessages]]
        BY <3>4 DEF TypeInv, TypeOK
      <4>2. SenderHasMessage'
        BY <3>4, <3>1 DEF TypeInv, TypeOK, SenderHasMessage
      <4>3. /\ pending' \in 0 .. MaxMessages
            /\ want' \in {"nothing", "reading", "writing"}
            /\ poll' \subseteq {"readable", "writable"}
        BY <3>1, <3>4 DEF Block, TypeInv, TypeOK
      <4>4. QED
        BY <2>3, <3>2, <3>4, <4>1, <4>2, <4>3 DEF Write, Block, TypeInv, TypeOK
    <3>5. CASE sender' = [sender EXCEPT ![t] = Idle] /\ UNCHANGED <<poll, tls, room>>
      <4>1. sender' \in [Thread -> [at : {"idle", "write", "push"}, m : 0 .. MaxMessages]]
        BY <3>5, WriteQueueAssumption DEF TypeInv, TypeOK, Idle
      <4>2. SenderHasMessage'
        BY <3>5 DEF TypeInv, TypeOK, Idle, SenderHasMessage
      <4>3. QED
        BY <2>3, <3>2, <3>5, <4>1, <4>2 DEF Write, TypeInv, TypeOK
    <3>6. QED
      BY <2>3, <3>3, <3>4, <3>5 DEF Write
  <2>4. ASSUME NEW t \in Thread, Push(t) PROVE TypeInv'
    <3>1. sender[t].m \in Message
      BY <2>4, WriteQueueAssumption DEF Push, TypeInv, TypeOK, SenderHasMessage, Message
    <3>2. queue' \in Seq(Message) /\ queue' # <<>>
      BY <2>4, <3>1, QueueFacts DEF Push, TypeInv, TypeOK
    <3>3. sender' \in [Thread -> [at : {"idle", "write", "push"}, m : 0 .. MaxMessages]]
      BY <2>4, WriteQueueAssumption DEF Push, TypeInv, TypeOK, Idle
    <3>4. SenderHasMessage'
      BY <2>4 DEF Push, TypeInv, TypeOK, Idle, SenderHasMessage
    <3>5. QED
      BY <2>4, <3>2, <3>3, <3>4 DEF Push, TypeInv, TypeOK, FlushHasMessage
  <2>5. ASSUME OnEnd PROVE TypeInv'
    <3>1. <<>> \in Seq(Message)
      BY EmptySeq
    <3>2. FlushHasMessage' /\ SenderHasMessage'
      BY <2>5 DEF OnEnd, TypeInv, FlushHasMessage, SenderHasMessage
    <3>3. QED
      BY <2>5, <3>1, <3>2 DEF OnEnd, TypeInv, TypeOK
  <2>6. ASSUME IoHandler PROVE TypeInv'
    BY <2>6 DEF IoHandler, Rest, TypeInv, TypeOK, FlushHasMessage, SenderHasMessage, Ready
  <2>7. ASSUME Flush PROVE TypeInv'
    <3> DEFINE m == Head(queue)
    <3>1. m \in Message /\ Tail(queue) \in Seq(Message)
      BY <2>7, QueueFacts DEF Flush, OwnerIn, TypeInv, TypeOK, FlushHasMessage
    <3>2. CASE Outcome(m) = "sent" /\ Complete(m) /\ Pop
      <4>1. /\ wire' \in Seq(Message) /\ room' \in 0 .. Room
            /\ pending' \in 0 .. MaxMessages /\ shut' \in BOOLEAN
            /\ want' \in {"nothing", "reading", "writing"}
        BY <3>1, <3>2, CompleteType DEF TypeInv
      <4>2. poll' \subseteq {"readable", "writable"}
        BY <3>2 DEF Pop, Unpoll, TypeInv, TypeOK
      <4>3. FlushHasMessage' /\ at' \in {"loop", "flush", "read", "data"}
        BY <3>2 DEF Pop, Rest, FlushHasMessage
      <4>4. QED
        BY <3>1, <3>2, <4>1, <4>2, <4>3 DEF Pop, TypeInv, TypeOK, SenderHasMessage
    <3>3. CASE /\ Block(m)
               /\ at' = Rest(events)
               /\ UNCHANGED <<next, closeFrame, sender, queue, shuttingDown, peer, events, alive>>
      <4>1. /\ pending' \in 0 .. MaxMessages
            /\ poll' \subseteq {"readable", "writable"}
        BY <3>1, <3>3 DEF Block, TypeInv, TypeOK, Message
      <4>2. QED
        BY <3>3, <4>1 DEF Block, Rest, TypeInv, TypeOK, FlushHasMessage, SenderHasMessage
    <3>4. QED
      BY <2>5, <2>7, <3>2, <3>3 DEF Flush
  <2>8. ASSUME Read PROVE TypeInv'
    <3>1. CASE OnEnd
      BY <2>5, <3>1
    <3>2. CASE ~OnEnd
      BY <2>8, <3>2 DEF Read, TypeInv, TypeOK, FlushHasMessage, SenderHasMessage
    <3>3. QED
      BY <3>1, <3>2
  <2>9. ASSUME DataDone PROVE TypeInv'
    BY <2>9 DEF DataDone, TypeInv, TypeOK, FlushHasMessage, SenderHasMessage
  <2>10. ASSUME PeerReads \/ PeerSends \/ Break PROVE TypeInv'
    <3>1. FlushHasMessage' /\ SenderHasMessage'
      BY <2>10 DEF PeerReads, PeerSends, Break, TypeInv, FlushHasMessage, SenderHasMessage
    <3>2. CASE PeerReads
      BY <3>1, <3>2, WriteQueueAssumption DEF PeerReads, TypeInv, TypeOK
    <3>3. CASE PeerSends
      BY <3>1, <3>3, WriteQueueAssumption DEF PeerSends, TypeInv, TypeOK
    <3>4. CASE Break
      BY <3>1, <3>4 DEF Break, TypeInv, TypeOK
    <3>5. QED
      BY <2>10, <3>2, <3>3, <3>4
  <2>11. CASE UNCHANGED vars
    BY <2>11 DEF vars, TypeInv, TypeOK, FlushHasMessage, SenderHasMessage
  <2>12. QED
    BY <2>1, <2>2, <2>3, <2>4, <2>5, <2>6, <2>7, <2>8, <2>9, <2>10, <2>11
       DEF Next, Sending, Handler, End
<1>3. QED
  BY <1>1, <1>2, PTL DEF Spec

(* The state always has its type, whatever threads send. *)
THEOREM TypeCorrect == Spec => []TypeOK
<1>1. TypeInv => TypeOK
  BY DEF TypeInv
<1>2. QED
  BY <1>1, TypeInvariant, PTL

--------------------------------------------------------------------------------
(* The CLOSE frame.  It is known by a number that no message has had, TLS   *)
(* is shut by the step that puts it on the wire, and by no other.           *)
Numbered(q) == \A i \in DOMAIN q : q[i] <= next

CloseInv == /\ closeFrame <= next
            /\ ~shuttingDown => closeFrame = 0
            /\ Numbered(wire) /\ Numbered(queue)
            /\ \A t \in Thread : sender[t].m <= next
            /\ shut => In(closeFrame, wire) /\ wire[Len(wire)] = closeFrame
            /\ In(closeFrame, wire) => shut

(* A message appended is the last one, and the only one that is new. *)
LEMMA AppendFacts ==
  ASSUME NEW q \in Seq(Message), NEW m \in Message
  PROVE  /\ \A x : In(x, Append(q, m)) <=> In(x, q) \/ x = m
         /\ Append(q, m)[Len(Append(q, m))] = m
         /\ Numbered(q) /\ m <= next => Numbered(Append(q, m))
<1> DEFINE a == Append(q, m)
<1>1. /\ Len(a) = Len(q) + 1 /\ Len(q) \in Nat
      /\ \A i \in 1 .. Len(q) : a[i] = q[i]
      /\ a[Len(q) + 1] = m
      /\ DOMAIN q = 1 .. Len(q) /\ DOMAIN a = 1 .. Len(a)
  BY AppendProperties, LenProperties
<1> HIDE DEF a
<1>2. \A x : In(x, a) <=> In(x, q) \/ x = m
  BY <1>1 DEF In
<1>3. Numbered(q) /\ m <= next => Numbered(a)
  BY <1>1 DEF Numbered
<1>4. QED
  BY <1>1, <1>2, <1>3 DEF a

(* Nor does popping bring any. *)
LEMMA TailNumbered ==
  ASSUME NEW q \in Seq(Message), q # <<>>, Numbered(q)
  PROVE  Head(q) <= next /\ Numbered(Tail(q))
<1>1. /\ Len(Tail(q)) = Len(q) - 1 /\ Len(q) \in Nat \ {0}
      /\ \A i \in 1 .. Len(Tail(q)) : Tail(q)[i] = q[i + 1]
      /\ Tail(q) \in Seq(Message)
  BY HeadTailProperties, EmptySeq
<1>2. DOMAIN q = 1 .. Len(q) /\ DOMAIN Tail(q) = 1 .. Len(Tail(q))
  BY <1>1, LenProperties
<1>3. Head(q) = q[1]
  OBVIOUS
<1>4. QED
  BY <1>1, <1>2, <1>3 DEF Numbered

(* A message goes on the wire: the CLOSE frame shuts TLS, any other cannot  *)
(* come after it.                                                           *)
LEMMA CompleteClose ==
  ASSUME TypeInv, CloseInv, NEW m \in Message, m <= next, Outcome(m) = "sent", Complete(m),
         UNCHANGED <<next, closeFrame>>
  PROVE  /\ Numbered(wire)'
         /\ shut' => In(closeFrame, wire)' /\ wire'[Len(wire')] = closeFrame'
         /\ In(closeFrame, wire)' => shut'
<1>1. ~shut /\ ~In(closeFrame, wire)
  BY DEF Outcome, CloseInv
<1>2. wire' = Append(wire, m) /\ wire \in Seq(Message)
  BY DEF Complete, TypeInv, TypeOK
<1>3. /\ \A x : In(x, wire') <=> In(x, wire) \/ x = m
      /\ wire'[Len(wire')] = m
      /\ \A i \in DOMAIN wire' : wire'[i] <= next
  BY <1>2, AppendFacts DEF CloseInv, Numbered
<1>4. shut' <=> m = closeFrame
  BY DEF Complete
<1>5. In(closeFrame, wire)' <=> In(closeFrame, wire')
  BY DEF In
<1>6. QED
  BY <1>1, <1>3, <1>4, <1>5 DEF Numbered

(* A new message has the next number. *)
LEMMA BeginNumbered ==
  ASSUME TypeInv, CloseInv, NEW t \in Thread, MaySend(t), next' = next + 1, Begin(t, next + 1)
  PROVE  /\ Numbered(queue)' /\ \A u \in Thread : sender'[u].m <= next'
         /\ \A i \in DOMAIN wire : wire[i] <= next'
<1>1. next \in Nat /\ next + 1 \in Message
  BY WriteQueueAssumption DEF MaySend, TypeInv, TypeOK, Message
<1>2. queue \in Seq(Message) /\ wire \in Seq(Message)
  BY DEF TypeInv, TypeOK
<1>3. \A q \in Seq(Message) : Numbered(q) => \A i \in DOMAIN q : q[i] <= next + 1
  <2> SUFFICES ASSUME NEW q \in Seq(Message), Numbered(q), NEW i \in DOMAIN q
               PROVE  q[i] <= next + 1
    OBVIOUS
  <2>1. q[i] \in Message
    BY LenProperties, ElementOfSeq
  <2>2. QED
    BY <1>1, <2>1 DEF Numbered, Message
<1>4. \A i \in DOMAIN wire : wire[i] <= next'
  BY <1>2, <1>3 DEF CloseInv
<1>5. \A u \in Thread : sender[u].m \in Nat /\ sender[u].m <= next
  BY WriteQueueAssumption DEF TypeInv, TypeOK, CloseInv
<1>6. CASE queue # <<>>
  <2>1. queue' = Append(queue, next + 1) /\ sender' = sender
    BY <1>6 DEF Begin
  <2>2. /\ DOMAIN queue' = 1 .. Len(queue) + 1 /\ DOMAIN queue = 1 .. Len(queue)
        /\ Len(queue) \in Nat
        /\ \A i \in 1 .. Len(queue) : queue'[i] = queue[i]
        /\ queue'[Len(queue) + 1] = next + 1
    BY <1>1, <1>2, <2>1, AppendProperties, LenProperties
  <2>3. \A i \in DOMAIN queue : queue[i] <= next + 1
    BY <1>2, <1>3 DEF CloseInv
  <2>4. Numbered(queue)'
    BY <1>1, <2>2, <2>3 DEF Numbered
  <2>5. QED
    BY <1>1, <1>4, <1>5, <2>1, <2>4
<1>7. CASE queue = <<>>
  <2>1. /\ queue' = <<>>
        /\ sender' = [sender EXCEPT ![t] = [at |-> "write", m |-> next + 1]]
    BY <1>7 DEF Begin
  <2>2. Numbered(queue)'
    BY <2>1, EmptySeq DEF Numbered
  <2>3. \A u \in Thread : sender'[u].m <= next'
    BY <1>1, <1>5, <2>1 DEF TypeInv, TypeOK
  <2>4. QED
    BY <1>4, <2>2, <2>3
<1>8. QED
  BY <1>6, <1>7

(* CloseInv is inductive, and nothing follows the CLOSE frame: whatever     *)
(* threads send before, during and after close().                           *)
THEOREM CloseIsLastHolds == Spec => []CloseIsLast
<1>1. Init => CloseInv
  <2> SUFFICES ASSUME Init PROVE CloseInv
    OBVIOUS
  <2>1. ~In(closeFrame, wire) /\ Numbered(wire) /\ Numbered(queue)
    BY EmptySeq DEF Init, In, Numbered
  <2>2. QED
    BY <2>1 DEF Init, Idle, CloseInv
<1>2. TypeInv /\ CloseInv /\ [Next]_vars => CloseInv'
  <2> SUFFICES ASSUME TypeInv, CloseInv, [Next]_vars PROVE CloseInv'
    OBVIOUS
  <2> USE DEF tls, peer
  <2>1. ASSUME NEW t \in Thread, Send(t) PROVE CloseInv'
    <3>1. /\ Numbered(queue)' /\ \A u \in Thread : sender'[u].m <= next'
          /\ \A i \in DOMAIN wire : wire[i] <= next'
      BY <2>1, BeginNumbered DEF Send
    <3>2. closeFrame' <= next'
      BY <2>1, WriteQueueAssumption DEF Send, CloseInv, TypeInv, TypeOK
    <3>3. QED
      BY <2>1, <3>1, <3>2 DEF Send, CloseInv, Numbered, In
  <2>2. ASSUME NEW t \in Thread, Close(t) PROVE CloseInv'
    <3>1. /\ Numbered(queue)' /\ \A u \in Thread : sender'[u].m <= next'
          /\ \A i \in DOMAIN wire : wire[i] <= next'
      BY <2>2, BeginNumbered DEF Close
    <3>2. next \in Nat /\ wire \in Seq(Message)
      BY WriteQueueAssumption DEF TypeInv, TypeOK
    <3>3. ~In(0, wire) /\ ~In(next + 1, wire)
      <4>1. \A i \in DOMAIN wire : wire[i] \in Message /\ wire[i] <= next
        BY <3>2, LenProperties, ElementOfSeq DEF CloseInv, Numbered
      <4>2. QED
        BY <3>2, <4>1 DEF In, Message
    <3>4. ~shut
      BY <2>2, <3>3 DEF Close, CloseInv
    <3>5. QED
      BY <2>2, <3>1, <3>2, <3>3, <3>4 DEF Close, CloseInv, Numbered, In
  <2>3. ASSUME NEW t \in Thread, Write(t) PROVE CloseInv'
    <3> DEFINE m == sender[t].m
    <3>1. m \in Message /\ m <= next
      <4>1. m # 0 /\ m <= next
        BY <2>3 DEF Write, TypeInv, SenderHasMessage, CloseInv
      <4>2. m \in 0 .. MaxMessages
        BY DEF TypeInv, TypeOK
      <4>3. QED
        BY <4>1, <4>2, WriteQueueAssumption DEF Message
    <3>2. next' = next /\ closeFrame' = closeFrame /\ queue' = queue /\ shuttingDown' = shuttingDown
      BY <2>3 DEF Write
    <3>3. \A u \in Thread : sender'[u].m <= next
      <4>1. sender' = [sender EXCEPT ![t] = Idle]
              \/ sender' = [sender EXCEPT ![t] = [at |-> "push", m |-> m]]
        BY <2>3 DEF Write
      <4>2. 0 <= next
        BY WriteQueueAssumption DEF TypeInv, TypeOK
      <4>3. QED
        BY <3>1, <4>1, <4>2 DEF TypeInv, TypeOK, CloseInv, Idle
    <3>4. CASE Outcome(m) = "sent" /\ Complete(m)
      <4>1. /\ Numbered(wire)'
            /\ shut' => In(closeFrame, wire)' /\ wire'[Len(wire')] = closeFrame'
            /\ In(closeFrame, wire)' => shut'
        BY <3>1, <3>2, <3>4, CompleteClose
      <4>2. QED
        BY <3>2, <3>3, <4>1 DEF CloseInv, Numbered
    <3>5. CASE wire' = wire /\ shut' = shut
      BY <3>2, <3>3, <3>5 DEF CloseInv, Numbered, In
    <3>6. QED
      BY <2>3, <3>4, <3>5 DEF Write, Block
  <2>4. ASSUME NEW t \in Thread, Push(t) PROVE CloseInv'
    <3>1. sender[t].m \in Message /\ sender[t].m <= next
      BY <2>4, WriteQueueAssumption
         DEF Push, TypeInv, TypeOK, SenderHasMessage, CloseInv, Message
    <3>2. \A i \in DOMAIN queue' : queue'[i] <= next
      BY <2>4, <3>1, AppendFacts DEF Push, TypeInv, TypeOK, CloseInv, Numbered
    <3>3. \A u \in Thread : sender'[u].m <= next
      BY <2>4, WriteQueueAssumption DEF Push, Idle, TypeInv, TypeOK, CloseInv
    <3>4. QED
      BY <2>4, <3>2, <3>3 DEF Push, CloseInv, Numbered, In
  <2>5. ASSUME OnEnd PROVE CloseInv'
    <3>1. Numbered(queue)'
      BY <2>5, EmptySeq DEF OnEnd, Numbered
    <3>2. QED
      BY <2>5, <3>1 DEF OnEnd, CloseInv, Numbered, In
  <2>6. ASSUME Flush PROVE CloseInv'
    <3> DEFINE m == Head(queue)
    <3>1. m \in Message /\ queue \in Seq(Message) /\ queue # <<>>
      BY <2>6, QueueFacts DEF Flush, OwnerIn, TypeInv, TypeOK, FlushHasMessage
    <3>2. m <= next /\ \A i \in DOMAIN Tail(queue) : Tail(queue)[i] <= next
      BY <3>1, TailNumbered DEF CloseInv, Numbered
    <3>3. CASE Outcome(m) = "sent" /\ Complete(m) /\ Pop
      <4>1. /\ Numbered(wire)'
            /\ shut' => In(closeFrame, wire)' /\ wire'[Len(wire')] = closeFrame'
            /\ In(closeFrame, wire)' => shut'
        BY <3>1, <3>2, <3>3, CompleteClose DEF Pop
      <4>2. QED
        BY <3>2, <3>3, <4>1 DEF Pop, CloseInv, Numbered
    <3>4. CASE /\ Block(m)
               /\ UNCHANGED <<next, closeFrame, sender, queue, shuttingDown>>
      BY <3>4 DEF Block, CloseInv, Numbered, In
    <3>5. QED
      BY <2>5, <2>6, <3>3, <3>4 DEF Flush
  <2>7. CASE UNCHANGED <<next, closeFrame, sender, queue, shuttingDown, wire, shut>>
    BY <2>7 DEF CloseInv, Numbered, In
  <2>8. ASSUME IoHandler \/ DataDone \/ PeerReads \/ PeerSends \/ Break \/ UNCHANGED vars
        PROVE  CloseInv'
    BY <2>7, <2>8 DEF IoHandler, DataDone, PeerReads, PeerSends, Break, vars
  <2>9. ASSUME Read PROVE CloseInv'
    BY <2>5, <2>7, <2>9 DEF Read
  <2>10. QED
    BY <2>1, <2>2, <2>3, <2>4, <2>5, <2>6, <2>8, <2>9 DEF Next, Sending, Handler, End
<1>3. CloseInv => CloseIsLast
  BY DEF CloseInv, CloseIsLast
<1>4. QED
  BY <1>1, <1>2, <1>3, TypeInvariant, PTL DEF Spec

--------------------------------------------------------------------------------
(* Refinement, for a socket that only its owner sends to: the message in    *)
(* the owner's hands is the only one that waits, and a write to be repeated *)
(* is repeated with the message that waits first.                           *)
OneThread == Thread = {Owner}

OneInHand == sender[Owner] # Idle => queue = <<>> /\ at \in {"loop", "data"}
PendingFirst == Usable /\ pending # 0
                    => /\ sender[Owner].at # "write"
                       /\ waiting # <<>> /\ Head(waiting) = pending
OneInv == OneInHand /\ PendingFirst

(* A message appended to others does not become the first. *)
LEMMA HeadAppend ==
  ASSUME NEW S, NEW q \in Seq(S), q # <<>>, NEW m \in S
  PROVE  Head(Append(q, m)) = Head(q)
<1>1. Len(q) \in Nat \ {0} /\ DOMAIN q = 1 .. Len(q)
  BY EmptySeq, LenProperties
<1>2. Append(q, m)[1] = q[1]
  BY <1>1, AppendProperties
<1>3. QED
  BY <1>2

(* What a queue of one message is. *)
LEMMA Single ==
  ASSUME NEW m
  PROVE  /\ <<m>> # <<>> /\ Head(<<m>>) = m /\ Tail(<<m>>) = <<>>
         /\ Append(<<>>, m) = <<m>>
  OBVIOUS

(* A step that touches neither messages nor the connection is a stutter. *)
Quiet == UNCHANGED <<queue, sender, wire, pending, alive, broken, shut>>

LEMMA QuietStep ==
  ASSUME OneInv, Quiet, sender[Owner] = Idle \/ at' = at
  PROVE  OneInv' /\ UNCHANGED Fifo!fifoVars
<1>1. (Usable' <=> Usable) /\ waiting' = waiting
  BY DEF Quiet, Usable, waiting
<1>2. UNCHANGED Fifo!fifoVars
  BY <1>1 DEF Fifo!fifoVars, Quiet, Usable
<1>3. QED
  BY <1>1, <1>2 DEF Quiet, OneInv, OneInHand, PendingFirst

(* A socket that ends or breaks is a channel that is shut. *)
LEMMA EndStep ==
  ASSUME OneInv, ~Usable', wire' = wire,
         sender' = sender /\ (sender[Owner] = Idle \/ (at' = at /\ queue' = queue))
  PROVE  OneInv' /\ [Fifo!FifoNext]_(Fifo!fifoVars)
<1>1. waiting' = <<>>
  BY DEF waiting
<1>2. OneInv'
  BY DEF OneInv, OneInHand, PendingFirst
<1>3. CASE Usable
  <2>1. Fifo!Shut
    BY <1>1, <1>3 DEF Fifo!Shut
  <2>2. QED
    BY <1>2, <2>1 DEF Fifo!FifoNext
<1>4. CASE ~Usable
  <2>1. UNCHANGED Fifo!fifoVars
    BY <1>1, <1>4 DEF Fifo!fifoVars, waiting, Usable
  <2>2. QED
    BY <1>2, <2>1
<1>5. QED
  BY <1>3, <1>4

(* A message that begins to be sent is submitted, if the channel is open. *)
LEMMA BeginStep ==
  ASSUME OneThread, TypeInv, OneInv, MaySend(Owner), next' = next + 1,
         Begin(Owner, next + 1), UNCHANGED <<wire, pending, alive, broken, shut, at>>
  PROVE  OneInv' /\ [Fifo!FifoNext]_(Fifo!fifoVars)
<1> DEFINE m == next + 1
<1>1. m \in Message
  BY WriteQueueAssumption DEF MaySend, TypeInv, TypeOK, Message
<1>2. (Usable' <=> Usable) /\ sender[Owner] = Idle /\ at \in {"loop", "data"}
  BY DEF MaySend, Usable
<1>3. Owner \in Thread /\ sender \in [Thread -> [at : {"idle", "write", "push"}, m : 0 .. MaxMessages]]
  BY WriteQueueAssumption DEF TypeInv, TypeOK
<1>4. CASE queue # <<>>
  <2>1. queue' = Append(queue, m) /\ sender' = sender
    BY <1>4 DEF Begin
  <2>2. queue' # <<>> /\ Head(queue') = Head(queue)
    BY <1>1, <1>4, <2>1, HeadAppend, QueueFacts DEF TypeInv, TypeOK
  <2>3. OneInv'
    BY <1>2, <1>4, <2>1, <2>2 DEF OneInv, OneInHand, PendingFirst, waiting
  <2>4. CASE Usable
    <3>1. waiting' = Append(waiting, m)
      BY <1>2, <2>1, <2>4 DEF waiting
    <3>2. Fifo!Submit(m)
      BY <1>2, <2>4, <3>1 DEF Fifo!Submit
    <3>3. QED
      BY <1>1, <2>3, <3>2 DEF Fifo!FifoNext
  <2>5. CASE ~Usable
    BY <1>2, <2>3, <2>5 DEF Fifo!fifoVars, waiting, Usable
  <2>6. QED
    BY <2>4, <2>5
<1>5. CASE queue = <<>>
  <2>1. /\ queue' = <<>>
        /\ sender' = [sender EXCEPT ![Owner] = [at |-> "write", m |-> m]]
    BY <1>5 DEF Begin
  <2>2. sender'[Owner] = [at |-> "write", m |-> m]
    BY <1>3, <2>1
  <2>3. sender'[Owner] # Idle /\ sender'[Owner].m = m
    BY <2>2 DEF Idle
  <2>4. Usable => pending = 0
    BY <1>2, <1>5 DEF OneInv, PendingFirst, waiting
  <2>5. OneInv'
    BY <1>2, <2>1, <2>4 DEF OneInv, OneInHand, PendingFirst
  <2>6. CASE Usable
    <3>1. waiting' = <<m>> /\ waiting = <<>>
      BY <1>2, <1>5, <2>3, <2>6 DEF waiting
    <3>2. Append(<<>>, m) = <<m>>
      BY Single
    <3>3. Fifo!Submit(m)
      BY <1>2, <2>6, <3>1, <3>2 DEF Fifo!Submit
    <3>4. QED
      BY <1>1, <2>5, <3>3 DEF Fifo!FifoNext
  <2>7. CASE ~Usable
    BY <1>2, <2>5, <2>7 DEF Fifo!fifoVars, waiting, Usable
  <2>8. QED
    BY <2>6, <2>7
<1>6. QED
  BY <1>4, <1>5

(* A message that waits first goes on the wire: it is delivered. *)
LEMMA CompleteStep ==
  ASSUME OneInv, NEW m, Outcome(m) = "sent", Complete(m), alive,
         waiting # <<>>, Head(waiting) = m,
         sender'[Owner] = Idle, queue' = Tail(waiting), UNCHANGED <<alive, broken>>
  PROVE  OneInv' /\ [Fifo!FifoNext]_(Fifo!fifoVars)
<1>1. Usable /\ (Usable' <=> ~shut')
  BY DEF Outcome, Usable
<1>2. wire' = Append(wire, m) /\ pending' = 0
  BY DEF Complete
<1>3. OneInv'
  BY <1>2 DEF OneInv, OneInHand, PendingFirst
<1>4. IF shut' THEN waiting' = <<>> ELSE waiting' = Tail(waiting)
  BY <1>1 DEF waiting
<1>5. /\ Usable /\ waiting # <<>>
      /\ wire' = Append(wire, Head(waiting))
      /\ \/ waiting' = Tail(waiting) /\ UNCHANGED Usable
         \/ waiting' = <<>> /\ Usable' = FALSE
  BY <1>1, <1>2, <1>4 DEF Usable
<1>6. QED
  BY <1>3, <1>5 DEF Fifo!FifoNext, Fifo!Deliver

(* A socket that one thread sends to is a FIFO channel: the immediate       *)
(* write, the queue and the repeated write together neither reorder, lose   *)
(* nor double a message until the socket is shut.                           *)
THEOREM FifoRefinement == OneThread => (Spec => ImplementsFifo)
<1> SUFFICES ASSUME OneThread PROVE Spec => ImplementsFifo
  OBVIOUS
<1>1. Init => OneInv /\ Fifo!FifoInit
  BY WriteQueueAssumption DEF Init, OneInv, OneInHand, PendingFirst, Fifo!FifoInit,
                              waiting, Usable, Idle
<1>2. TypeInv /\ OneInv /\ [Next]_vars => OneInv' /\ [Fifo!FifoNext]_(Fifo!fifoVars)
  <2> SUFFICES ASSUME TypeInv, OneInv, [Next]_vars
               PROVE  OneInv' /\ [Fifo!FifoNext]_(Fifo!fifoVars)
    OBVIOUS
  <2> DEFINE Goal == OneInv' /\ [Fifo!FifoNext]_(Fifo!fifoVars)
  <2> USE DEF tls, peer
  <2>0. /\ Owner \in Thread
        /\ sender \in [Thread -> [at : {"idle", "write", "push"}, m : 0 .. MaxMessages]]
    BY WriteQueueAssumption DEF TypeInv, TypeOK
  <2>1. ASSUME Send(Owner) \/ Close(Owner) PROVE Goal
    BY <2>1, BeginStep DEF Send, Close
  <2>2. ASSUME Write(Owner) PROVE Goal
    <3> DEFINE m == sender[Owner].m
    <3>1. sender[Owner].at = "write" /\ sender[Owner] # Idle /\ alive
      <4>1. sender[Owner].at = "write" /\ alive
        BY <2>2 DEF Write
      <4>2. QED
        BY <4>1 DEF Idle
    <3>2. queue = <<>> /\ (Usable => waiting = <<m>>)
      BY <3>1 DEF OneInv, OneInHand, waiting
    <3>3. CASE Outcome(m) = "sent" /\ Complete(m) /\ sender' = [sender EXCEPT ![Owner] = Idle]
      <4>1. Usable
        BY <3>1, <3>3 DEF Outcome, Usable
      <4>2. waiting # <<>> /\ Head(waiting) = m /\ Tail(waiting) = <<>>
        BY <3>2, <4>1, Single
      <4>3. sender'[Owner] = Idle /\ queue' = <<>> /\ UNCHANGED <<alive, broken>>
        BY <2>0, <2>2, <3>2, <3>3 DEF Write
      <4>4. QED
        BY <3>1, <3>3, <4>2, <4>3, CompleteStep
    <3>4. CASE /\ Outcome(m) = "want write" /\ Block(m)
               /\ sender' = [sender EXCEPT ![Owner] = [at |-> "push", m |-> m]]
      <4>1. Usable /\ Usable'
        BY <2>2, <3>1, <3>4 DEF Outcome, Usable, Write, Block
      <4>2. sender'[Owner] = [at |-> "push", m |-> m]
        BY <2>0, <3>4
      <4>3. sender'[Owner].at = "push" /\ sender'[Owner].m = m /\ sender'[Owner] # Idle
        BY <4>2 DEF Idle
      <4>4. waiting' = <<m>> /\ pending' = m /\ wire' = wire
        BY <3>4, <4>1, <4>3 DEF waiting, Block
      <4>5. OneInHand'
        BY <2>2, <3>1, <3>2 DEF Write, OneInv, OneInHand
      <4>6. PendingFirst'
        <5>1. waiting' # <<>> /\ Head(waiting') = m
          BY <4>4
        <5>2. QED
          BY <4>3, <4>4, <5>1 DEF PendingFirst
      <4>7. UNCHANGED Fifo!fifoVars
        BY <3>2, <4>1, <4>4 DEF Fifo!fifoVars
      <4>8. QED
        BY <4>5, <4>6, <4>7 DEF OneInv
    <3>5. CASE /\ Outcome(m) = "error" /\ sender' = [sender EXCEPT ![Owner] = Idle]
               /\ UNCHANGED <<poll, tls, room>>
      <4>1. ~Usable
        <5>1. Usable => pending = 0
          BY <3>1 DEF OneInv, PendingFirst
        <5>2. QED
          BY <3>5, <5>1 DEF Outcome, Usable
      <4>2. ~Usable' /\ wire' = wire /\ sender'[Owner] = Idle
        BY <2>0, <2>2, <3>5, <4>1 DEF Write, Usable
      <4>3. OneInv'
        BY <4>2 DEF OneInv, OneInHand, PendingFirst
      <4>4. UNCHANGED Fifo!fifoVars
        BY <4>1, <4>2 DEF Fifo!fifoVars, waiting, Usable
      <4>5. QED
        BY <4>3, <4>4
    <3>6. QED
      BY <2>2, <3>3, <3>4, <3>5 DEF Write
  <2>3. ASSUME Push(Owner) PROVE Goal
    <3> DEFINE m == sender[Owner].m
    <3>1. sender[Owner].at = "push" /\ sender[Owner] # Idle
      BY <2>3 DEF Push, Idle
    <3>2. queue = <<>> /\ (Usable => waiting = <<m>>)
      BY <3>1 DEF OneInv, OneInHand, waiting
    <3>3. queue' = <<m>> /\ sender'[Owner] = Idle
      BY <2>0, <2>3, <3>2 DEF Push
    <3>4. (Usable' <=> Usable) /\ wire' = wire /\ pending' = pending
      BY <2>3 DEF Push, Usable
    <3>5. waiting' = waiting
      BY <3>2, <3>3, <3>4 DEF waiting
    <3>6. OneInHand'
      BY <3>3 DEF OneInHand
    <3>7. PendingFirst'
      BY <3>3, <3>4, <3>5 DEF OneInv, PendingFirst, Idle
    <3>8. UNCHANGED Fifo!fifoVars
      BY <3>4, <3>5 DEF Fifo!fifoVars, Usable
    <3>9. QED
      BY <3>6, <3>7, <3>8 DEF OneInv
  <2>4. ASSUME OnEnd, sender[Owner] = Idle PROVE Goal
    BY <2>4, EndStep DEF OnEnd, Usable
  <2>5. ASSUME Flush PROVE Goal
    <3> DEFINE m == Head(queue)
    <3>1. sender[Owner] = Idle /\ alive /\ queue # <<>>
      BY <2>5 DEF Flush, OwnerIn, TypeInv, FlushHasMessage
    <3>2. Usable => waiting = queue
      BY <3>1 DEF waiting
    <3>3. CASE Outcome(m) = "sent" /\ Complete(m) /\ Pop
      <4>1. Usable
        BY <3>1, <3>3 DEF Outcome, Usable
      <4>2. /\ waiting # <<>> /\ Head(waiting) = m /\ queue' = Tail(waiting)
            /\ sender'[Owner] = Idle /\ UNCHANGED <<alive, broken>>
        BY <3>1, <3>2, <3>3, <4>1 DEF Pop
      <4>3. QED
        BY <3>1, <3>3, <4>2, CompleteStep
    <3>4. CASE /\ Outcome(m) = "want write" /\ Block(m)
               /\ UNCHANGED <<next, closeFrame, sender, queue, shuttingDown, peer, events, alive>>
      <4>1. Usable /\ Usable'
        BY <3>1, <3>4 DEF Outcome, Usable, Block
      <4>2. waiting' = queue /\ pending' = m /\ wire' = wire
        BY <3>1, <3>4, <4>1 DEF waiting, Block
      <4>3. sender'[Owner] = Idle /\ sender'[Owner].at = "idle"
        <5>1. sender'[Owner] = Idle
          BY <3>1, <3>4
        <5>2. QED
          BY <5>1 DEF Idle
      <4>4. OneInv'
        <5>1. waiting' # <<>> /\ Head(waiting') = m
          BY <3>1, <4>2
        <5>2. QED
          BY <4>2, <4>3, <5>1 DEF OneInv, OneInHand, PendingFirst
      <4>5. UNCHANGED Fifo!fifoVars
        BY <3>2, <4>1, <4>2 DEF Fifo!fifoVars, Usable
      <4>6. QED
        BY <4>4, <4>5
    <3>5. QED
      BY <2>4, <2>5, <3>1, <3>3, <3>4 DEF Flush
  <2>6. ASSUME IoHandler \/ DataDone \/ PeerReads \/ PeerSends \/ UNCHANGED vars PROVE Goal
    <3>1. Quiet /\ (sender[Owner] = Idle \/ at' = at)
      BY <2>6 DEF IoHandler, DataDone, PeerReads, PeerSends, vars, Quiet, OwnerIn
    <3>2. QED
      BY <3>1, QuietStep
  <2>7. ASSUME Break PROVE Goal
    BY <2>7, EndStep DEF Break, Usable
  <2>8. ASSUME Read PROVE Goal
    <3>1. CASE OnEnd
      BY <2>4, <2>8, <3>1 DEF Read, OwnerIn
    <3>2. CASE ~OnEnd
      <4>1. Quiet /\ sender[Owner] = Idle
        BY <2>8, <3>2 DEF Read, Quiet, OwnerIn
      <4>2. QED
        BY <4>1, QuietStep
    <3>3. QED
      BY <3>1, <3>2
  <2>9. ASSUME End PROVE Goal
    BY <2>4, <2>9 DEF End, OwnerIn
  <2>10. QED
    BY <2>1, <2>2, <2>3, <2>5, <2>6, <2>7, <2>8, <2>9 DEF Next, Sending, Handler, OneThread
<1>3. QED
  BY <1>1, <1>2, TypeInvariant, PTL DEF Spec, ImplementsFifo, Fifo!FifoSpec

--------------------------------------------------------------------------------
(* The poll flag, for a socket that only its owner sends to: the loop waits *)
(* for room as long as a message is queued or about to be.                  *)
PollInv == Usable => ("writable" \in poll <=> queue # <<>> \/ sender[Owner].at = "push")

(* A queue that a message was appended to is not empty.                     *)
LEMMA AppendNotEmpty ==
  ASSUME NEW S, NEW q \in Seq(S), NEW m \in S
  PROVE  Append(q, m) # <<>>
<1>1. Len(Append(q, m)) = Len(q) + 1 /\ Len(q) \in Nat
  BY AppendProperties, LenProperties
<1> QED
  BY <1>1, EmptySeq

(* Between events the loop waits for room exactly when messages do, if one  *)
(* thread sends (Socket.h: write, sslIoHandler).                            *)
THEOREM PollExactHolds == OneThread => (Spec => []PollExact)
<1> SUFFICES ASSUME OneThread PROVE Spec => []PollExact
  OBVIOUS
<1>1. Init => PollInv
  BY WriteQueueAssumption DEF Init, PollInv, Usable, Idle
<1>2. TypeInv /\ PollInv /\ [Next]_vars => PollInv'
  <2> SUFFICES ASSUME TypeInv, PollInv, [Next]_vars PROVE PollInv'
    OBVIOUS
  <2> USE DEF tls, peer
  <2>0. /\ Owner \in Thread /\ queue \in Seq(Message)
        /\ sender \in [Thread -> [at : {"idle", "write", "push"}, m : 0 .. MaxMessages]]
        /\ \A t \in Thread : sender[t].at = "idle" <=> sender[t].m = 0
    BY WriteQueueAssumption DEF TypeInv, TypeOK, SenderHasMessage
  <2>1. CASE ~Usable'
    BY <2>1 DEF PollInv
  <2>2. CASE UNCHANGED <<poll, queue, sender>> /\ (Usable' => Usable)
    BY <2>2 DEF PollInv
  <2>3. ASSUME Send(Owner) \/ Close(Owner) PROVE PollInv'
    <3>1. /\ UNCHANGED <<poll, alive, broken, shut>> /\ Begin(Owner, next + 1)
          /\ sender[Owner] = Idle /\ next + 1 \in Message
      BY <2>3, WriteQueueAssumption DEF Send, Close, MaySend, TypeInv, TypeOK, Message
    <3>2. (Usable' <=> Usable) /\ sender[Owner].at # "push"
      BY <3>1 DEF Usable, Idle
    <3>3. CASE queue # <<>>
      <4>1. queue' # <<>>
        BY <2>0, <3>1, <3>3, AppendNotEmpty DEF Begin
      <4> QED
        BY <3>1, <3>2, <3>3, <4>1 DEF PollInv
    <3>4. CASE queue = <<>>
      <4>1. queue' = <<>> /\ sender'[Owner].at # "push"
        BY <2>0, <3>1, <3>4 DEF Begin
      <4> QED
        BY <3>1, <3>2, <3>4, <4>1 DEF PollInv
    <3> QED
      BY <3>3, <3>4
  <2>4. ASSUME Write(Owner) PROVE PollInv'
    <3> DEFINE m == sender[Owner].m
    <3>1. UNCHANGED <<queue, alive, broken>> /\ sender[Owner].at = "write"
      BY <2>4 DEF Write
    <3>2. CASE sender' = [sender EXCEPT ![Owner] = Idle] /\ UNCHANGED poll
      <4>1. sender'[Owner].at # "push"
        BY <2>0, <3>2 DEF Idle
      <4>2. CASE Usable
        BY <3>1, <3>2, <4>1, <4>2 DEF PollInv
      <4>3. CASE ~Usable
        <5>1. Outcome(m) = "error"
          BY <2>4, <3>1, <4>3 DEF Outcome, Usable, Write
        <5> QED
          BY <2>1, <2>4, <3>1, <4>3, <5>1 DEF Write, Usable
      <4> QED
        BY <4>2, <4>3
    <3>3. CASE Block(m) /\ sender' = [sender EXCEPT ![Owner] = [at |-> "push", m |-> m]]
      <4>1. sender'[Owner].at = "push" /\ "writable" \in poll'
        BY <2>0, <3>3 DEF Block
      <4> QED
        BY <4>1 DEF PollInv
    <3> QED
      BY <2>4, <3>2, <3>3 DEF Write
  <2>5. ASSUME Push(Owner) PROVE PollInv'
    <3>1. sender[Owner].m \in Message /\ sender[Owner].at = "push"
      BY <2>0, <2>5, WriteQueueAssumption DEF Push, Message
    <3>2. queue' # <<>> /\ UNCHANGED <<poll, alive, broken, shut>>
      BY <2>0, <2>5, <3>1, AppendNotEmpty DEF Push
    <3> QED
      BY <3>1, <3>2 DEF PollInv, Usable
  <2>6. ASSUME Flush PROVE PollInv'
    <3> DEFINE m == Head(queue)
    <3>1. sender[Owner].at # "push" /\ queue # <<>>
      <4>1. sender[Owner] = Idle /\ queue # <<>>
        BY <2>6 DEF Flush, OwnerIn, TypeInv, FlushHasMessage
      <4> QED
        BY <4>1 DEF Idle
    <3>2. CASE Outcome(m) = "sent" /\ Complete(m) /\ Pop
      <4>1. Usable
        BY <2>6, <3>2 DEF Outcome, Usable, Flush, OwnerIn
      <4>2. "writable" \in poll
        BY <3>1, <4>1 DEF PollInv
      <4>3. sender' = sender /\ queue' = Tail(queue)
        BY <3>2 DEF Pop
      <4>4. CASE Tail(queue) # <<>>
        BY <3>2, <4>2, <4>3, <4>4 DEF Pop, Unpoll, PollInv
      <4>5. CASE Tail(queue) = <<>>
        <5>1. ~shut' => want' # "writing"
          BY <3>2 DEF Complete
        <5>2. ~shut' => "writable" \notin poll'
          BY <3>2, <4>5, <5>1 DEF Pop, Unpoll
        <5> QED
          BY <3>1, <4>3, <4>5, <5>2 DEF PollInv, Usable
      <4> QED
        BY <4>4, <4>5
    <3>3. CASE Block(m) /\ UNCHANGED queue
      BY <3>1, <3>3 DEF Block, PollInv
    <3>4. CASE OnEnd
      BY <2>1, <3>4 DEF OnEnd, Usable
    <3> QED
      BY <2>6, <3>2, <3>3, <3>4 DEF Flush
  <2>7. ASSUME IoHandler \/ DataDone \/ PeerReads \/ PeerSends \/ Break \/ UNCHANGED vars
        PROVE  PollInv'
    BY <2>2, <2>7 DEF IoHandler, DataDone, PeerReads, PeerSends, Break, vars, Usable
  <2>8. ASSUME Read PROVE PollInv'
    BY <2>1, <2>2, <2>8 DEF Read, OnEnd, Usable
  <2>9. ASSUME End PROVE PollInv'
    BY <2>1, <2>9 DEF End, OnEnd, Usable
  <2> QED
    BY <2>3, <2>4, <2>5, <2>6, <2>7, <2>8, <2>9 DEF Next, Sending, Handler, OneThread
<1>3. PollInv => PollExact
  BY DEF PollInv, PollExact, OwnerIn, Idle, Usable
<1> QED
  BY <1>1, <1>2, <1>3, TypeInvariant, PTL DEF Spec

================================================================================
