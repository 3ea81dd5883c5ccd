------------------------------- MODULE FrameStream -----------------------------
(****************************************************************************)
(* What the receiving side of a WebSocket promises: the frames the peer     *)
(* sends are taken whole and in order, the fragments of a message are put   *)
(* together, control frames are handed over between them, and the first     *)
(* frame that may not be sent ends the connection.  Nothing is said of the  *)
(* pieces the bytes arrive in.  FrameParser is shown to implement this.     *)
(****************************************************************************)
EXTENDS Integers, Sequences

CONSTANTS Streams,    \* the sequences of frames a peer may send
          MaxPayload  \* the longest payload of a frame that is accepted

VARIABLES stream,    \* the frames of this peer
          taken,     \* how many of them have been dealt with
          fragments, \* payload of the unfinished message, in order
          opcode,    \* its opcode, or 0 if no message is unfinished
          delivered, \* what has been handed to the application
          open       \* the connection is being read

vars == <<stream, taken, fragments, opcode, delivered, open>>

Text == 1
Binary == 2
Close == 8
Ping == 9
Pong == 10

Init == /\ stream \in Streams
        /\ taken = 0
        /\ fragments = <<>> /\ opcode = 0
        /\ delivered = <<>>
        /\ open = TRUE

\* A byte of the payload, by its place in the stream, and the byte of the
\* frame's mask it has to be combined with.
Byte(at, i) == [at |-> at, mask |-> i % 4]

Payload(f) == [i \in 1 .. f.len |-> Byte(f.begin + f.head + i - 1, i - 1)]

Junk(s, b) == \E k \in DOMAIN s : /\ s[k].junk
                                  /\ s[k].begin + s[k].head <= b.at
                                  /\ b.at < s[k].begin + s[k].head + s[k].len
ValidUtf8(s, bytes) == \A i \in DOMAIN bytes : ~Junk(s, bytes[i])

IsControl(f) == f.op > Binary

\* The frames a peer may send: no reserved bit or opcode, control frames short
\* and in one piece, continuations inside a message and nothing else there.
LegalFrame(f) == /\ ~f.rsv
                 /\ f.op \in {0, Text, Binary, Close, Ping, Pong}
                 /\ IsControl(f) => f.fin /\ f.head = 6
                 /\ (f.op = 0) = (opcode # 0) \/ IsControl(f)
                 /\ f.len <= MaxPayload

next == stream[taken + 1]

Begins == IF next.op = 0 THEN opcode ELSE next.op

Unfinished(op, data) == fragments' = data /\ opcode' = op

\* The application may end the connection when it is handed something.
TakeControl == /\ IsControl(next)
               /\ delivered' = Append(delivered, [op |-> next.op, data |-> Payload(next)])
               /\ open' \in IF next.op = Close THEN {FALSE} ELSE BOOLEAN
               /\ IF open' THEN UNCHANGED <<fragments, opcode>> ELSE Unfinished(0, <<>>)

TakeFragment == /\ ~IsControl(next) /\ ~next.fin
                /\ Unfinished(Begins, fragments \o Payload(next))
                /\ UNCHANGED <<delivered, open>>

TakeMessage == /\ ~IsControl(next) /\ next.fin
               /\ LET data == fragments \o Payload(next) IN
                  IF Begins = Text /\ ~ValidUtf8(stream, data)
                  THEN open' = FALSE /\ UNCHANGED delivered
                  ELSE /\ delivered' = Append(delivered, [op |-> Begins, data |-> data])
                       /\ open' \in BOOLEAN
               /\ Unfinished(0, <<>>)

Take == /\ open /\ taken < Len(stream)
        /\ LegalFrame(next)
        /\ TakeControl \/ TakeFragment \/ TakeMessage
        /\ taken' = taken + 1
        /\ UNCHANGED stream

Refuse == /\ open /\ taken < Len(stream)
          /\ ~LegalFrame(next)
          /\ open' = FALSE
          /\ Unfinished(0, <<>>)
          /\ UNCHANGED <<stream, taken, delivered>>

Next == Take \/ Refuse

Spec == Init /\ [][Next]_vars
=============================================================================
