------------------------------- MODULE FrameParser -----------------------------
(****************************************************************************)
(* The frame parser of a server-side WebSocket (src/uws/WebSocketProtocol.h *)
(* consume, consumeMessage, consumeContinuation; src/uws/WebSocket.cpp      *)
(* onData and handleFragment).  The peer's bytes arrive in pieces of any    *)
(* size.  A header that is not there in full is kept in `spill` and put in  *)
(* front of the next piece; a payload is unmasked and handed on in as many  *)
(* parts as it comes in, with the mask rotated between them.                *)
(*                                                                          *)
(* Bytes are named by their place in the stream.  A byte of a payload also  *)
(* carries the byte of the mask it was combined with.  Compression is left  *)
(* out: the relay's Hub does not negotiate it (relay.cpp:600, Hub(0)).      *)
(****************************************************************************)
EXTENDS Integers, Sequences, FiniteSets

CONSTANTS Streams,    \* the sequences of frames a peer may send
          MaxPayload, \* group->maxPayload
          MaxFrames   \* bound: frames of a stream

\* A frame says where it begins, and the next one begins where it ends.
FrameSize(f) == f.head + f.len

IsStream(s) ==
    /\ s \in Seq([op : 0 .. 15, fin : BOOLEAN, rsv : BOOLEAN, head : {6, 8, 14},
                  len : Nat, junk : BOOLEAN, begin : Nat])
    /\ Len(s) \in 1 .. MaxFrames
    /\ s[1].begin = 0
    /\ \A k \in DOMAIN s : s[k].head = 6 => s[k].len < 126
    /\ \A k \in 1 .. Len(s) - 1 : s[k + 1].begin = s[k].begin + FrameSize(s[k])

ASSUME FrameParserAssumption == /\ MaxPayload \in Nat /\ MaxFrames \in Nat
                                /\ \A s \in Streams : IsStream(s)

VARIABLES
    stream,         \* the frames of this peer
    arrived,        \* number of bytes received
    pc,             \* where the event loop is in consume: "idle", "head", "payload"
    src,            \* place in the stream of the first byte not yet parsed
    wantsHead, spillLength, opStack, lastFin, opCode, \* WebSocketState::state
    remainingBytes, \* payload of the current frame still to come
    mask,           \* its mask: which byte of the frame's mask is in each place
    fragmentBuffer, controlTipLength,
    written,        \* end of the last stretch of the buffer unmask has written
    delivered,      \* what the application was handed: messages, pings, close
    status          \* "open", "shuttingDown" by close() or "closed"

buffers == <<fragmentBuffer, controlTipLength>>
vars == <<stream, arrived, pc, src, wantsHead, spillLength, opStack, lastFin, opCode,
          remainingBytes, mask, buffers, written, delivered, status>>

PostPadding == 4   \* CONSUME_POST_PADDING
PrePadding == 13   \* CONSUME_PRE_PADDING and the size of `spill`

Text == 1
Binary == 2
Close == 8
Ping == 9
Pong == 10

End(s) == s[Len(s)].begin + FrameSize(s[Len(s)])

\* The frame whose first byte is at src.
frame == stream[CHOOSE k \in DOMAIN stream : stream[k].begin = src]

length == arrived - src

FreshMask == [j \in 0 .. 3 |-> j]

Init == /\ stream \in Streams
        /\ arrived = 0 /\ src = 0 /\ pc = "idle"
        /\ wantsHead = TRUE /\ spillLength = 0
        /\ opStack = -1 /\ lastFin = TRUE /\ opCode = [i \in 0 .. 1 |-> 0]
        /\ remainingBytes = 0 /\ mask = FreshMask
        /\ fragmentBuffer = <<>> /\ controlTipLength = 0
        /\ written = 0
        /\ delivered = <<>>
        /\ status = "open"

-----------------------------------------------------------------------------
(* The bytes of a payload, and its mask.                                    *)

\* unmaskInplace and unmaskImprecise: the byte at j is combined with mask[j % 4].
Unmasked(from, n, m) == [j \in 1 .. n |-> [at |-> from + j - 1, mask |-> m[(j - 1) % 4]]]

\* Mutant of the next: a word more than there is padding for.
WholeWords_OneMore(n) == 4 * ((n \div 4) + 2)

\* Both work on words: they write the last word in full, and one more if n is a
\* multiple of four.
WholeWords(n) == 4 * ((n \div 4) + 1)

\* Mutant of the next: the mask is rotated the other way.
RotateMask_Left(offset, m) == [j \in 0 .. 3 |-> m[(j + offset) % 4]]

\* The part of a payload that comes next begins with mask[0] again.
RotateMask(offset, m) == [j \in 0 .. 3 |-> m[(j + 4 - offset) % 4]]

Junk(b) == \E k \in DOMAIN stream :
              /\ stream[k].junk
              /\ b.at \in stream[k].begin + stream[k].head
                          .. stream[k].begin + FrameSize(stream[k]) - 1

IsValidUtf8(data) == \A i \in DOMAIN data : ~Junk(data[i])

-----------------------------------------------------------------------------
(* handleFragment: the socket is still open afterwards iff it returned      *)
(* false.  A handler of the application may close the socket.  What a socket  *)
(* that is no longer open keeps in its buffers is never read again, and is  *)
(* left as it was here.                                                     *)

ForceClose == status' = "closed" /\ UNCHANGED <<buffers, delivered>>

Deliver(op, data) == delivered' = Append(delivered, [op |-> op, data |-> data])

HandlerReturns == status' \in {"open", "shuttingDown", "closed"}

DataFragment(data, remaining, op, fin) ==
    LET whole == remaining = 0 /\ fin
        message == fragmentBuffer \o data
    IN \/ /\ ~whole
          /\ fragmentBuffer' = message
          /\ UNCHANGED <<controlTipLength, delivered, status>>
       \/ /\ whole /\ op = Text /\ ~IsValidUtf8(message)
          /\ ForceClose
       \/ /\ whole /\ (op = Text => IsValidUtf8(message))
          /\ Deliver(op, message)
          /\ HandlerReturns
          /\ fragmentBuffer' = IF status' = "open" THEN <<>> ELSE fragmentBuffer
          /\ UNCHANGED controlTipLength

\* The part of a control frame that came first waits at the end of fragmentBuffer.
ControlFragment(data, remaining, op, fin) ==
    LET whole == remaining = 0 /\ fin
        direct == whole /\ controlTipLength = 0
        tip == controlTipLength + Len(data)
        buffer == fragmentBuffer \o data
        control == IF direct THEN data
                   ELSE SubSeq(buffer, Len(buffer) - tip + 1, Len(buffer))
    IN \/ /\ ~whole
          /\ fragmentBuffer' = buffer
          /\ controlTipLength' = tip
          /\ UNCHANGED <<delivered, status>>
       \/ /\ whole
          /\ Deliver(op, control)
          /\ IF op = Close THEN status' = "shuttingDown" ELSE HandlerReturns
          /\ fragmentBuffer' = IF status' = "open" THEN SubSeq(buffer, 1, Len(buffer) - tip)
                                                   ELSE fragmentBuffer
          /\ controlTipLength' = IF status' = "open" THEN 0 ELSE controlTipLength

HandleFragment(data, remaining, op, fin) ==
    IF op <= Binary THEN DataFragment(data, remaining, op, fin)
                    ELSE ControlFragment(data, remaining, op, fin)

-----------------------------------------------------------------------------
(* consumeMessage: a header is there in full.                               *)

IllegalHeader == \/ frame.rsv
                 \/ frame.op \in 3 .. 7 \/ frame.op > Pong
                 \/ frame.op > Binary /\ (~frame.fin \/ frame.head # 6)

Refused == \/ frame.op # 0 /\ (opStack = 1 \/ (~lastFin /\ frame.op < Binary))
           \/ frame.op = 0 /\ opStack = -1
           \/ frame.len > MaxPayload

\* Mutant of the next: a header with nothing behind it is not read.
HeadArrived_Strict == pc = "head" /\ length >= 6 /\ length > frame.head

HeadArrived == pc = "head" /\ length >= 6 /\ length >= frame.head

pushed == IF frame.op = 0 THEN opStack ELSE opStack + 1
pushedCode == IF frame.op = 0 THEN opCode ELSE [opCode EXCEPT ![pushed] = frame.op]

RefuseFrame == /\ pc = "head" /\ length >= 6
               /\ IllegalHeader \/ (length >= frame.head /\ Refused)
               /\ ForceClose
               /\ pc' = "idle"
               /\ UNCHANGED <<stream, arrived, src, wantsHead, spillLength, opStack,
                              lastFin, opCode, remainingBytes, mask, written>>

AcceptHead == /\ HeadArrived /\ ~IllegalHeader /\ ~Refused
              /\ opCode' = pushedCode
              /\ lastFin' = frame.fin
              /\ UNCHANGED <<stream, arrived>>

\* The payload moves four bytes to the front while it is unmasked.
WholeFrame == /\ AcceptHead
              /\ FrameSize(frame) <= length
              /\ written' = src + frame.head - 4 + WholeWords(frame.len)
              /\ HandleFragment(Unmasked(src + frame.head, frame.len, FreshMask),
                                0, pushedCode[pushed], frame.fin)
              /\ opStack' = IF frame.fin /\ status' = "open" THEN pushed - 1 ELSE pushed
              /\ spillLength' = IF status' = "open" THEN 0 ELSE spillLength
              /\ src' = src + FrameSize(frame)
              /\ pc' = IF status' = "open" THEN "head" ELSE "idle"
              /\ UNCHANGED <<wantsHead, remainingBytes, mask>>

\* Mutant of the next: the header is counted as payload.
StillToCome_WithHeader == frame.len - length
StillToCome == frame.len - (length - frame.head)

PartOfFrame == /\ AcceptHead
               /\ FrameSize(frame) > length
               /\ LET n == length - frame.head IN
                  /\ remainingBytes' = StillToCome
                  /\ mask' = RotateMask(4 - (n % 4), FreshMask)
                  /\ written' = src + WholeWords(n)
                  /\ HandleFragment(Unmasked(src + frame.head, n, FreshMask),
                                    remainingBytes', pushedCode[pushed], frame.fin)
               /\ opStack' = pushed
               /\ spillLength' = 0
               /\ wantsHead' = FALSE
               /\ src' = arrived
               /\ pc' = "idle"

-----------------------------------------------------------------------------
(* consumeContinuation: the rest, or more, of a payload.                    *)

RestOfFrame == /\ pc = "payload" /\ remainingBytes <= length
               /\ written' = src + remainingBytes
               /\ HandleFragment(Unmasked(src, remainingBytes, mask), 0,
                                 opCode[opStack], lastFin)
               /\ opStack' = IF lastFin /\ status' = "open" THEN opStack - 1 ELSE opStack
               /\ src' = src + remainingBytes
               /\ wantsHead' = (status' = "open")
               /\ pc' = IF status' = "open" THEN "head" ELSE "idle"
               /\ UNCHANGED <<stream, arrived, spillLength, lastFin, opCode,
                              remainingBytes, mask>>

MoreOfFrame == /\ pc = "payload" /\ remainingBytes > length
               /\ written' = src + WholeWords(length)
               /\ remainingBytes' = remainingBytes - length
               /\ HandleFragment(Unmasked(src, length, mask), remainingBytes',
                                 opCode[opStack], lastFin)
               /\ mask' = IF length % 4 # 0 THEN RotateMask(4 - (length % 4), mask) ELSE mask
               /\ src' = arrived
               /\ pc' = "idle"
               /\ UNCHANGED <<stream, arrived, wantsHead, spillLength, opStack, lastFin,
                              opCode>>

-----------------------------------------------------------------------------
(* consume and WebSocket::onData.                                           *)

\* A piece of the stream arrives, with what was spilled put in front of it.
\* There is no further data for a socket that is closed or closing.
Receive(n) == /\ pc = "idle" /\ status = "open"
              /\ arrived + n <= End(stream)
              /\ arrived' = arrived + n
              /\ src' = arrived - spillLength
              /\ pc' = IF wantsHead THEN "head" ELSE "payload"
              /\ UNCHANGED <<stream, wantsHead, spillLength, opStack, lastFin, opCode,
                             remainingBytes, mask, buffers, written, delivered, status>>

\* Mutant of the next: off by one.
HeadIncomplete_OffByOne ==
    IF length < 6 THEN TRUE ELSE ~IllegalHeader /\ length <= frame.head

\* The header is not there in full: it is left for the next piece.
HeadIncomplete == IF length < 6 THEN TRUE ELSE ~IllegalHeader /\ length < frame.head

Spill == /\ pc = "head" /\ HeadIncomplete
         /\ spillLength' = IF length > 0 THEN length ELSE spillLength
         /\ pc' = "idle"
         /\ UNCHANGED <<stream, arrived, src, wantsHead, opStack, lastFin, opCode,
                        remainingBytes, mask, buffers, written, delivered, status>>

Parse == RefuseFrame \/ WholeFrame \/ PartOfFrame \/ RestOfFrame \/ MoreOfFrame \/ Spill

Next == Parse \/ \E n \in 1 .. End(stream) : Receive(n)

Spec == Init /\ [][Next]_vars

\* consume is a loop in one call: it goes on until it returns.
FairSpec == Spec /\ WF_vars(Parse)

-----------------------------------------------------------------------------
(* Properties.                                                              *)

\* The types of the variables: at most a control frame lies on top of a message
\* on opStack, and what is spilled fits the 13 bytes of WebSocketState::spill.
TypeOK == /\ stream \in Streams
          /\ arrived \in 0 .. End(stream)
          /\ src \in Int
          /\ pc \in {"idle", "head", "payload"}
          /\ wantsHead \in BOOLEAN
          /\ spillLength \in 0 .. PrePadding
          /\ opStack \in -1 .. 1
          /\ lastFin \in BOOLEAN
          /\ opCode \in [0 .. 1 -> 0 .. 15]
          /\ remainingBytes \in Nat
          /\ mask \in [0 .. 3 -> 0 .. 3]
          /\ controlTipLength \in 0 .. 125
          /\ written \in Nat
          /\ status \in {"open", "shuttingDown", "closed"}

\* The places in the stream where a frame begins, and its end.
Boundary == {stream[k].begin : k \in DOMAIN stream} \cup {End(stream)}

\* Where the next header is expected.
nextHead == IF pc = "head" THEN src
            ELSE IF wantsHead THEN arrived - spillLength
            ELSE IF pc = "payload" THEN src + remainingBytes
            ELSE arrived + remainingBytes

\* However the stream is cut into pieces, the parser looks for a header only
\* where the peer put one: the header it looks for now, after what it has spilled
\* or after the payload it still waits for, begins a frame (consume's spill,
\* remainingBytes).
InSync == status = "open" => /\ nextHead \in Boundary
                             /\ ~wantsHead => spillLength = 0

\* Unmasking works on whole words and so writes past the payload, but never over
\* bytes that are still to be parsed, and never past the padding behind what was
\* received (CONSUME_POST_PADDING).
UnmaskInBounds == /\ written <= arrived + PostPadding
                  /\ pc = "head" => written <= src

-----------------------------------------------------------------------------
(* The invariant by which the properties are proved, for an open socket.    *)

\* What is spilled, or still waited for, ends at a boundary.
PlaceInv ==
    /\ (wantsHead => pc \in {"idle", "head"}) /\ (~wantsHead => pc \in {"idle", "payload"})
    /\ wantsHead => src \in Boundary /\ src <= arrived /\ written <= src
    /\ pc = "idle" /\ wantsHead => src = arrived - spillLength
    /\ pc = "head" /\ src = arrived => spillLength = 0
    /\ ~wantsHead => spillLength = 0 /\ nextHead \in Boundary
    /\ pc = "payload" => src \in 0 .. arrived

\* Only data messages lie on opStack when a header is expected; a control frame is
\* on it, above them, while it is incomplete, and its parts are at most 125 bytes.
StackInv ==
    /\ \A i \in 0 .. 1 : i < opStack => opCode[i] <= Binary
    /\ wantsHead => controlTipLength = 0 /\ (opStack >= 0 => opCode[opStack] <= Binary)
    /\ ~wantsHead => /\ opStack >= 0
                     /\ IF opCode[opStack] <= Binary THEN controlTipLength = 0
                        ELSE lastFin /\ controlTipLength + remainingBytes <= 125

ParserInv == /\ TypeOK
             /\ written <= arrived + PostPadding
             /\ status # "open" => pc = "idle"
             /\ status = "open" => PlaceInv /\ StackInv

Before(k, place) == k \in DOMAIN stream /\ stream[k].begin + FrameSize(stream[k]) <= place
Handled(k) == Before(k, src)

\* A frame that has arrived in full is dealt with before the socket waits for more
\* data, unless the connection is ended before its turn (the loop at parseNext).
FrameHandled ==
    \A k \in 1 .. MaxFrames : Before(k, arrived) ~> (Handled(k) \/ status # "open")

-----------------------------------------------------------------------------
(* The refinement.                                                          *)

HandledFrames == {k \in DOMAIN stream : Handled(k)}

taken == Cardinality(HandledFrames)

Unfinished == /\ status = "open"
              /\ \E k \in HandledFrames :
                    /\ stream[k].op <= Binary /\ ~stream[k].fin
                    /\ \A j \in HandledFrames : j > k => stream[j].op > Binary

\* What has come of the payload of the frame being read is the end of
\* fragmentBuffer; what is in front of it belongs to the unfinished message, and
\* the opcode of that message is the one at the bottom of opStack.
part == IF wantsHead THEN 0 ELSE stream[taken + 1].len - remainingBytes

fragments == IF Unfinished THEN SubSeq(fragmentBuffer, 1, Len(fragmentBuffer) - part)
             ELSE <<>>

opcode == IF Unfinished THEN opCode[0] ELSE 0

FS == INSTANCE FrameStream WITH open <- status = "open"

\* The application is handed the messages, pings, pongs and the close of the peer's
\* frames, whole, in order and rightly unmasked, whatever pieces they arrive in.
ImplementsFrameStream == FS!Spec

\* The parser does not see that a message is unfinished in two cases: it takes a
\* Binary frame at any time, and a Text frame after a control frame (the tests of
\* opStack and lastFin in consumeMessage).  These are the streams without them: a
\* frame that begins a message inside another one is refused, for itself or as a
\* Text frame right behind a fragment.
Nested(s, j, k) == /\ j < k /\ s[j].op <= Binary /\ ~s[j].fin
                   /\ \A i \in j + 1 .. k - 1 : s[i].op > Binary
                   /\ s[k].op \in {Text, Binary} /\ ~s[k].rsv /\ s[k].len <= MaxPayload

UnnestedStreams == \A s \in Streams : \A j, k \in DOMAIN s :
                      Nested(s, j, k) => s[k].op = Text /\ ~s[k - 1].fin
=============================================================================
