---------------------------- MODULE FrameParser_proofs -------------------------
(****************************************************************************)
(* For streams of any frames cut into pieces of any size, the parser stays  *)
(* in step with the frames, and unmasking stays within what was received    *)
(* and its padding: the inductive invariant is ParserInv.  With MessageInv, *)
(* in the second half, the parser implements FrameStream.                   *)
(****************************************************************************)
EXTENDS FrameParser, TLAPS, FiniteSetTheorems, SequenceTheorems, NaturalsInduction,
        WellFoundedInduction

FrameType == [op : 0 .. 15, fin : BOOLEAN, rsv : BOOLEAN, head : {6, 8, 14},
              len : Nat, junk : BOOLEAN, begin : Nat]

(* What the assumption says of one stream, with the types of its frames.    *)
LEMMA StreamFacts ==
    ASSUME stream \in Streams
    PROVE  /\ stream \in Seq(FrameType)
           /\ Len(stream) \in Nat \ {0}
           /\ \A k \in DOMAIN stream : stream[k] \in FrameType
           /\ \A k \in DOMAIN stream : stream[k].head = 6 => stream[k].len < 126
           /\ stream[1].begin = 0
           /\ End(stream) \in Nat
<1>1. IsStream(stream)
  BY FrameParserAssumption
<1>2. /\ stream \in Seq(FrameType)
      /\ Len(stream) \in 1 .. MaxFrames
      /\ stream[1].begin = 0
      /\ \A k \in DOMAIN stream : stream[k].head = 6 => stream[k].len < 126
  BY <1>1 DEF IsStream, FrameType
<1>3. \A k \in DOMAIN stream : stream[k] \in FrameType
  BY <1>2
<1>4. Len(stream) \in DOMAIN stream /\ Len(stream) \in Nat \ {0}
  BY <1>2, FrameParserAssumption
<1>5. stream[Len(stream)] \in FrameType
  BY <1>3, <1>4
<1>6. End(stream) \in Nat
  BY <1>5 DEF End, FrameSize, FrameType
<1> QED
  BY <1>2, <1>4, <1>6

(* The header that is read at a boundary is a frame's, and the next boundary *)
(* is behind that frame.                                                     *)
LEMMA FrameFacts ==
    ASSUME stream \in Streams, src \in Boundary, src # End(stream)
    PROVE  /\ frame \in FrameType
           /\ frame.head = 6 => frame.len < 126
           /\ src + FrameSize(frame) \in Boundary
<1>1. \E i \in DOMAIN stream : stream[i].begin = src
  BY DEF Boundary
<1>2. PICK k \in DOMAIN stream : stream[k].begin = src /\ frame = stream[k]
  BY <1>1 DEF frame
<1>4. frame \in FrameType /\ (frame.head = 6 => frame.len < 126)
  BY <1>2, StreamFacts
<1>5. k \in 1 .. Len(stream) /\ DOMAIN stream = 1 .. Len(stream) /\ Len(stream) \in Nat
  BY <1>2, StreamFacts
<1>6. CASE k = Len(stream)
  <2>1. src + FrameSize(frame) = End(stream)
    BY <1>2, <1>6 DEF End
  <2> QED
    BY <1>4, <2>1 DEF Boundary
<1>7. CASE k # Len(stream)
  <2>0. k \in 1 .. Len(stream) - 1 /\ k + 1 \in 1 .. Len(stream)
    BY <1>5, <1>7
  <2>1. k \in 1 .. Len(stream) - 1 /\ k + 1 \in DOMAIN stream
    BY <1>5, <2>0
  <2>2. IsStream(stream)
    BY FrameParserAssumption
  <2>3. stream[k + 1].begin = stream[k].begin + FrameSize(stream[k])
    BY <2>1, <2>2 DEF IsStream
  <2>4. stream[k + 1].begin \in Boundary
    BY <1>4, <2>1 DEF Boundary
  <2> QED
    BY <1>2, <1>4, <2>3, <2>4
<1> QED
  BY <1>6, <1>7

(* The words that unmasking writes end at most four bytes behind a payload.  *)
LEMMA WordFacts ==
    ASSUME NEW n \in Nat
    PROVE  WholeWords(n) \in Nat /\ WholeWords(n) <= n + 4
  BY DEF WholeWords

(* A rotated mask is a mask.                                                 *)
LEMMA MaskFacts ==
    ASSUME NEW m \in [0 .. 3 -> 0 .. 3], NEW n \in Nat
    PROVE  /\ RotateMask(4 - (n % 4), m) \in [0 .. 3 -> 0 .. 3]
           /\ FreshMask \in [0 .. 3 -> 0 .. 3]
<1>1. n % 4 \in 0 .. 3
  OBVIOUS
<1>2. \A j \in 0 .. 3 : (j + 4 - (4 - (n % 4))) % 4 \in 0 .. 3
  BY <1>1
<1>3. RotateMask(4 - (n % 4), m) \in [0 .. 3 -> 0 .. 3]
  BY <1>2 DEF RotateMask
<1> QED
  BY <1>3 DEF FreshMask

(* unmask hands on as many bytes as it was given.                            *)
LEMMA UnmaskedLength ==
    ASSUME NEW from, NEW n \in Nat, NEW m
    PROVE  Len(Unmasked(from, n, m)) = n
  BY DEF Unmasked

(* What handleFragment does to the status and to the control frame that lies *)
(* at the end of fragmentBuffer.                                             *)
LEMMA FragmentFacts ==
    ASSUME TypeOK, NEW data, NEW n \in Nat, NEW op \in 0 .. 15, NEW fin \in BOOLEAN,
           HandleFragment(data, n, op, fin)
    PROVE  /\ status' \in {"open", "shuttingDown", "closed"}
           /\ n # 0 => status' = status
           /\ op <= Binary => controlTipLength' = controlTipLength
           /\ op > Binary =>
                 IF n # 0 \/ ~fin THEN controlTipLength' = controlTipLength + Len(data)
                 ELSE controlTipLength' = IF status' = "open" THEN 0 ELSE controlTipLength
<1>1. CASE op <= Binary
  <2>1. DataFragment(data, n, op, fin)
    BY <1>1 DEF HandleFragment
  <2>2. controlTipLength' = controlTipLength
    BY <2>1 DEF DataFragment, ForceClose, buffers
  <2>3. status' \in {"open", "shuttingDown", "closed"} /\ (n # 0 => status' = status)
    BY <2>1 DEF DataFragment, ForceClose, HandlerReturns, TypeOK
  <2> QED
    BY <1>1, <2>2, <2>3 DEF Binary
<1>2. CASE op > Binary
  <2>1. ControlFragment(data, n, op, fin)
    BY <1>2 DEF HandleFragment, Binary
  <2>2. CASE n # 0 \/ ~fin
    BY <1>2, <2>1, <2>2 DEF ControlFragment, TypeOK, Binary
  <2>3. CASE n = 0 /\ fin
    BY <1>2, <2>1, <2>3 DEF ControlFragment, HandlerReturns, TypeOK, Binary
  <2> QED
    BY <2>2, <2>3
<1> QED
  BY <1>1, <1>2 DEF Binary

-----------------------------------------------------------------------------
(* ParserInv, action by action.                                             *)

\* The initial states satisfy the invariant.
LEMMA InitInv == Init => ParserInv
<1> SUFFICES ASSUME Init PROVE ParserInv
  OBVIOUS
<1>1. stream \in Streams
  BY DEF Init
<1>2. 0 \in Boundary /\ End(stream) \in Nat
  BY <1>1, StreamFacts DEF Boundary
<1>3. TypeOK
  BY <1>1, <1>2, MaskFacts DEF Init, TypeOK, PrePadding, FreshMask
<1>4. PlaceInv
  BY <1>2 DEF Init, PlaceInv, nextHead
<1>5. StackInv
  BY DEF Init, StackInv
<1> QED
  BY <1>3, <1>4, <1>5 DEF Init, ParserInv, PostPadding

(* An accepted header is that of a frame which begins at src, and is pushed  *)
(* on a stack that has room for it.                                          *)
LEMMA HeadFacts ==
    ASSUME ParserInv, AcceptHead
    PROVE  /\ status = "open" /\ pc = "head" /\ wantsHead /\ src \in Nat
           /\ frame \in FrameType /\ (frame.head = 6 => frame.len < 126)
           /\ src + FrameSize(frame) \in Boundary
           /\ frame.op > Binary => frame.fin /\ frame.head = 6
           /\ pushed \in 0 .. 1 /\ pushedCode \in [0 .. 1 -> 0 .. 15]
           /\ pushedCode[pushed] = IF frame.op = 0 THEN opCode[pushed] ELSE frame.op
           /\ \A i \in 0 .. 1 : i < pushed => pushedCode[i] <= Binary
           /\ frame.op = 0 => pushedCode[pushed] <= Binary
           /\ controlTipLength = 0
           /\ written <= src
<1>1. pc = "head" /\ length >= 6 /\ length >= frame.head /\ ~IllegalHeader /\ ~Refused
  BY DEF AcceptHead, HeadArrived
<1>2. status = "open" /\ PlaceInv /\ StackInv /\ TypeOK
  BY <1>1 DEF ParserInv
<1>3. wantsHead /\ src \in Boundary /\ written <= src /\ controlTipLength = 0
  BY <1>1, <1>2 DEF PlaceInv, StackInv, TypeOK
<1>4. stream \in Streams /\ arrived \in Nat /\ arrived <= End(stream) /\ src \in Int
      /\ End(stream) \in Nat
  BY <1>2, StreamFacts DEF TypeOK
<1>5. src # End(stream)
  BY <1>1, <1>4 DEF length
<1>6. /\ frame \in FrameType /\ (frame.head = 6 => frame.len < 126)
      /\ src + FrameSize(frame) \in Boundary
  BY <1>3, <1>4, <1>5, FrameFacts
<1>7. src \in Nat
  BY <1>3, <1>4, <1>2 DEF TypeOK
<1>8. frame.op \in 0 .. 15 /\ frame.fin \in BOOLEAN
  BY <1>6 DEF FrameType
<1>9. frame.op > Binary => frame.fin /\ frame.head = 6
  BY <1>1 DEF IllegalHeader
<1>10. opStack \in -1 .. 1 /\ opCode \in [0 .. 1 -> 0 .. 15]
  BY <1>2 DEF TypeOK
<1>11. frame.op # 0 => opStack # 1
  BY <1>1 DEF Refused
<1>12. frame.op = 0 => opStack # -1
  BY <1>1 DEF Refused
<1>13. pushed \in 0 .. 1
  BY <1>10, <1>11, <1>12 DEF pushed
<1>14. pushedCode \in [0 .. 1 -> 0 .. 15]
  BY <1>8, <1>10, <1>13 DEF pushedCode
<1>15. pushedCode[pushed] = IF frame.op = 0 THEN opCode[pushed] ELSE frame.op
  BY <1>10, <1>13 DEF pushedCode
<1>16. (opStack >= 0 => opCode[opStack] <= Binary)
       /\ \A i \in 0 .. 1 : i < opStack => opCode[i] <= Binary
  BY <1>2, <1>3 DEF StackInv
<1>17. frame.op = 0 => pushedCode[pushed] <= Binary
  BY <1>10, <1>12, <1>15, <1>16 DEF pushed
<1>18. \A i \in 0 .. 1 : i < pushed => pushedCode[i] <= Binary
  BY <1>10, <1>13, <1>16 DEF pushed, pushedCode
<1> QED
  BY <1>1, <1>2, <1>3, <1>6, <1>7, <1>9, <1>13, <1>14, <1>15, <1>17, <1>18

\* A piece that arrives keeps the invariant: parsing begins where it ended, spill included.
LEMMA ReceiveInv == ASSUME ParserInv, NEW n \in 1 .. End(stream), Receive(n) PROVE ParserInv'
<1>1. TypeOK /\ PlaceInv /\ StackInv /\ status = "open" /\ pc = "idle"
      /\ written <= arrived + PostPadding
  BY DEF ParserInv, Receive
<1>2. End(stream) \in Nat /\ stream' = stream /\ Boundary' = Boundary
      /\ End(stream)' = End(stream)
  BY <1>1, StreamFacts DEF TypeOK, Receive, Boundary, End
<1>3. arrived' = arrived + n /\ n \in Nat /\ n > 0
  BY <1>2 DEF Receive
<1>4. TypeOK'
  <2>1. arrived' \in 0 .. End(stream)' /\ src' \in Int /\ pc' \in {"idle", "head", "payload"}
    BY <1>1, <1>2, <1>3 DEF TypeOK, Receive
  <2> QED
    BY <1>1, <2>1 DEF TypeOK, Receive, buffers
<1>5. ASSUME wantsHead PROVE PlaceInv'
  <2>1. pc' = "head" /\ src' = src /\ wantsHead'
    BY <1>1, <1>5 DEF Receive, PlaceInv, TypeOK
  <2>2. src \in Boundary /\ src <= arrived /\ written' <= src
    BY <1>1, <1>5 DEF PlaceInv, Receive
  <2> QED
    BY <1>1, <1>2, <1>3, <2>1, <2>2 DEF PlaceInv, TypeOK
<1>6. ASSUME ~wantsHead PROVE PlaceInv'
  <2>1. pc' = "payload" /\ src' = arrived /\ ~wantsHead' /\ spillLength' = 0
        /\ remainingBytes' = remainingBytes
    BY <1>1, <1>6 DEF Receive, PlaceInv, TypeOK
  <2>2. arrived + remainingBytes \in Boundary
    BY <1>1, <1>6 DEF PlaceInv, nextHead
  <2>3. nextHead' \in Boundary'
    BY <1>2, <2>1, <2>2 DEF nextHead
  <2> QED
    BY <1>1, <1>3, <2>1, <2>3 DEF PlaceInv, TypeOK
<1>7. PlaceInv'
  BY <1>1, <1>5, <1>6 DEF TypeOK
<1>8. StackInv'
  BY <1>1 DEF StackInv, Receive, buffers
<1>9. written' <= arrived' + PostPadding /\ status' = "open"
  BY <1>1, <1>3 DEF Receive, PostPadding, TypeOK
<1> QED
  BY <1>4, <1>7, <1>8, <1>9 DEF ParserInv

\* Keeping an incomplete header for the next piece keeps the invariant.
LEMMA SpillInv == ASSUME ParserInv, Spill PROVE ParserInv'
<1>1. TypeOK /\ PlaceInv /\ StackInv /\ status = "open" /\ pc = "head" /\ wantsHead
      /\ src \in Boundary /\ src <= arrived /\ (src = arrived => spillLength = 0)
      /\ written <= src /\ written <= arrived + PostPadding
  BY DEF ParserInv, Spill, PlaceInv, TypeOK
<1>2. stream' = stream /\ Boundary' = Boundary /\ End(stream)' = End(stream)
  BY DEF Spill, Boundary, End
<1>3. src \in Int /\ arrived \in Nat /\ arrived <= End(stream) /\ End(stream) \in Nat
      /\ stream \in Streams
  BY <1>1, StreamFacts DEF TypeOK
<1>4. length \in Nat /\ (length = 0 => spillLength = 0)
  BY <1>1, <1>3 DEF length
<1>5. length \in 0 .. PrePadding
  <2>1. CASE length < 6
    BY <1>4, <2>1 DEF PrePadding
  <2>2. CASE length >= 6
    <3>1. length < frame.head
      BY <1>4, <2>2 DEF Spill, HeadIncomplete
    <3>2. src # End(stream)
      BY <1>3, <2>2 DEF length
    <3>3. frame.head \in {6, 8, 14}
      BY <1>1, <1>3, <3>2, FrameFacts DEF FrameType
    <3> QED
      BY <1>4, <3>1, <3>3 DEF PrePadding
  <2> QED
    BY <1>4, <2>1, <2>2
<1>6. spillLength' = length /\ src' = src /\ arrived' = arrived /\ wantsHead' /\ pc' = "idle"
  BY <1>1, <1>4 DEF Spill
<1>7. TypeOK'
  BY <1>1, <1>2, <1>5, <1>6 DEF TypeOK, Spill, buffers
<1>8. PlaceInv'
  <2>1. src' = arrived' - spillLength'
    BY <1>3, <1>6 DEF length
  <2> QED
    BY <1>1, <1>2, <1>6, <2>1 DEF PlaceInv, Spill
<1>9. StackInv'
  BY <1>1 DEF StackInv, Spill, buffers
<1> QED
  BY <1>1, <1>6, <1>7, <1>8, <1>9 DEF ParserInv, Spill, PostPadding

\* Refusing a frame keeps the invariant, as the socket is closed.
LEMMA RefuseInv == ASSUME ParserInv, RefuseFrame PROVE ParserInv'
<1>1. TypeOK /\ written <= arrived + PostPadding
  BY DEF ParserInv
<1>2. pc' = "idle" /\ status' = "closed" /\ UNCHANGED <<buffers, delivered>>
  BY DEF RefuseFrame, ForceClose
<1>3. End(stream)' = End(stream)
  BY DEF RefuseFrame, End
<1>4. TypeOK'
  BY <1>1, <1>2, <1>3 DEF TypeOK, RefuseFrame, buffers
<1> QED
  BY <1>1, <1>2, <1>4 DEF ParserInv, RefuseFrame, PostPadding

(* The whole frame is there: the next header is expected behind it.          *)
LEMMA WholeInv == ASSUME ParserInv, WholeFrame PROVE ParserInv'
<1> DEFINE op == pushedCode[pushed]
<1>1. AcceptHead /\ FrameSize(frame) <= length
  BY DEF WholeFrame
<1>2. TypeOK /\ HandleFragment(Unmasked(src + frame.head, frame.len, FreshMask), 0, op, frame.fin)
  BY DEF WholeFrame, ParserInv
<1>3. /\ status = "open" /\ wantsHead /\ src \in Nat
      /\ frame \in FrameType
      /\ src + FrameSize(frame) \in Boundary
      /\ pushed \in 0 .. 1 /\ pushedCode \in [0 .. 1 -> 0 .. 15]
      /\ \A i \in 0 .. 1 : i < pushed => pushedCode[i] <= Binary
      /\ frame.op = 0 => op <= Binary
      /\ frame.op # 0 => op = frame.op
      /\ frame.op > Binary => frame.fin
      /\ controlTipLength = 0
  BY <1>1, HeadFacts
<1>4. op \in 0 .. 15 /\ frame.fin \in BOOLEAN /\ frame.len \in Nat /\ frame.head \in {6, 8, 14}
      /\ FrameSize(frame) \in Nat
  BY <1>3 DEF FrameType, FrameSize
<1> HIDE DEF op
<1>5. /\ status' \in {"open", "shuttingDown", "closed"}
      /\ controlTipLength' = 0 \/ (op > Binary /\ ~frame.fin)
  <2>1. 0 \in Nat /\ op \in 0 .. 15 /\ frame.fin \in BOOLEAN
    BY <1>4
  <2>2. /\ status' \in {"open", "shuttingDown", "closed"}
        /\ op <= Binary => controlTipLength' = controlTipLength
        /\ op > Binary /\ frame.fin =>
              controlTipLength' = IF status' = "open" THEN 0 ELSE controlTipLength
    BY <1>2, <2>1, FragmentFacts
  <2> QED
    BY <1>3, <1>4, <2>2 DEF Binary
<1>6. op > Binary => frame.fin
  BY <1>3, <1>4 DEF Binary
<1>7. controlTipLength' = 0
  BY <1>5, <1>6
<1>8. stream' = stream /\ Boundary' = Boundary /\ End(stream)' = End(stream) /\ arrived' = arrived
  BY <1>1 DEF AcceptHead, Boundary, End
<1>9. arrived \in Nat /\ src' = src + FrameSize(frame) /\ src' <= arrived /\ src' \in Nat
  <2>1. stream \in Streams /\ arrived \in 0 .. End(stream)
    BY <1>2 DEF TypeOK
  <2>2. arrived \in Nat
    BY <2>1, StreamFacts
  <2> QED
    BY <1>1, <1>3, <1>4, <2>2 DEF WholeFrame, length
<1>10. written' \in Nat /\ written' <= src'
  <2>1. WholeWords(frame.len) \in Nat /\ WholeWords(frame.len) <= frame.len + 4
    BY <1>4, WordFacts
  <2>2. written' = src + frame.head - 4 + WholeWords(frame.len)
    BY DEF WholeFrame
  <2> QED
    BY <1>3, <1>4, <1>9, <2>1, <2>2 DEF FrameSize
<1>11. /\ pc' \in {"head", "idle"} /\ (status' = "open" <=> pc' = "head") /\ wantsHead'
       /\ spillLength' \in 0 .. PrePadding /\ (status' = "open" => spillLength' = 0)
       /\ remainingBytes' = remainingBytes /\ mask' = mask
  BY <1>2, <1>3 DEF WholeFrame, TypeOK, PrePadding
<1>12. opStack' \in -1 .. 1 /\ opStack' <= pushed
       /\ (status' = "open" /\ frame.fin => opStack' = pushed - 1)
       /\ (~frame.fin => opStack' = pushed)
  BY <1>3 DEF WholeFrame
<1>13. opCode' = pushedCode /\ lastFin' = frame.fin
  BY <1>1 DEF AcceptHead
<1>14. TypeOK'
  BY <1>2, <1>3, <1>4, <1>5, <1>7, <1>8, <1>9, <1>10, <1>11, <1>12, <1>13 DEF TypeOK
<1>15. ASSUME status' = "open" PROVE PlaceInv'
  BY <1>3, <1>8, <1>9, <1>10, <1>11, <1>15 DEF PlaceInv
<1>16. ASSUME status' = "open" PROVE StackInv'
  <2>1. \A i \in 0 .. 1 : i < opStack' => opCode'[i] <= Binary
    BY <1>3, <1>12, <1>13
  <2>2. opStack' >= 0 => opCode'[opStack'] <= Binary
    <3>1. CASE frame.fin
      BY <1>3, <1>12, <1>13, <1>16, <3>1
    <3>2. CASE ~frame.fin
      BY <1>4, <1>6, <1>12, <1>13, <3>2 DEF Binary, op
    <3> QED
      BY <3>1, <3>2
  <2> QED
    BY <1>7, <1>11, <2>1, <2>2 DEF StackInv
<1> QED
  BY <1>8, <1>9, <1>10, <1>11, <1>14, <1>15, <1>16 DEF ParserInv, PostPadding

(* Only a part of the payload is there: the rest is waited for.              *)
LEMMA PartInv == ASSUME ParserInv, PartOfFrame PROVE ParserInv'
<1> DEFINE op == pushedCode[pushed]
           n == length - frame.head
<1>1. AcceptHead /\ FrameSize(frame) > length
  BY DEF PartOfFrame
<1>2. TypeOK /\ remainingBytes' = StillToCome
      /\ HandleFragment(Unmasked(src + frame.head, n, FreshMask), remainingBytes', op, frame.fin)
  BY DEF PartOfFrame, ParserInv
<1>3. /\ status = "open" /\ wantsHead /\ src \in Nat /\ pc = "head"
      /\ frame \in FrameType /\ (frame.head = 6 => frame.len < 126)
      /\ src + FrameSize(frame) \in Boundary
      /\ pushed \in 0 .. 1 /\ pushedCode \in [0 .. 1 -> 0 .. 15]
      /\ \A i \in 0 .. 1 : i < pushed => pushedCode[i] <= Binary
      /\ frame.op = 0 => op <= Binary
      /\ frame.op # 0 => op = frame.op
      /\ frame.op > Binary => frame.fin /\ frame.head = 6
      /\ controlTipLength = 0
  BY <1>1, HeadFacts
<1>4. op \in 0 .. 15 /\ frame.fin \in BOOLEAN /\ frame.len \in Nat /\ frame.head \in {6, 8, 14}
      /\ arrived \in Nat
  <2>1. stream \in Streams /\ arrived \in 0 .. End(stream)
    BY <1>2 DEF TypeOK
  <2>2. arrived \in Nat
    BY <2>1, StreamFacts
  <2> QED
    BY <1>3, <2>2 DEF FrameType
<1>5. n \in Nat /\ length = arrived - src /\ length >= frame.head
  BY <1>1, <1>3, <1>4 DEF AcceptHead, HeadArrived, length
<1>6. remainingBytes' \in Nat \ {0} /\ n + remainingBytes' = frame.len
  BY <1>1, <1>2, <1>3, <1>4, <1>5 DEF StillToCome, FrameSize, length
<1> HIDE DEF n, op
<1>7. Len(Unmasked(src + frame.head, n, FreshMask)) = n
  BY <1>5, UnmaskedLength
<1>8. /\ status' = "open"
      /\ op <= Binary => controlTipLength' = 0
      /\ op > Binary => controlTipLength' = n
  <2>1. remainingBytes' \in Nat /\ remainingBytes' # 0 /\ op \in 0 .. 15
        /\ frame.fin \in BOOLEAN
    BY <1>4, <1>6
  <2>2. /\ status' = status
        /\ op <= Binary => controlTipLength' = controlTipLength
        /\ op > Binary => controlTipLength' =
              controlTipLength + Len(Unmasked(src + frame.head, n, FreshMask))
    BY <1>2, <2>1, FragmentFacts
  <2> QED
    BY <1>3, <1>5, <1>7, <2>2
<1>9. op > Binary => frame.fin /\ controlTipLength' + remainingBytes' <= 125
  <2> SUFFICES ASSUME op > Binary PROVE frame.fin /\ controlTipLength' + remainingBytes' <= 125
    OBVIOUS
  <2>1. frame.op = op
    BY <1>3, <1>4 DEF Binary
  <2>2. frame.fin /\ frame.len < 126
    BY <1>3, <2>1
  <2>3. controlTipLength' = n /\ n \in Nat /\ remainingBytes' \in Nat /\ frame.len \in Nat
        /\ n + remainingBytes' = frame.len
    BY <1>4, <1>5, <1>6, <1>8
  <2>4. controlTipLength' + remainingBytes' = frame.len
    BY <2>3
  <2>5. frame.len <= 125
    BY <2>2, <2>3
  <2> QED
    BY <2>2, <2>4, <2>5
<1>10. stream' = stream /\ Boundary' = Boundary /\ End(stream)' = End(stream) /\ arrived' = arrived
  BY <1>1 DEF AcceptHead, Boundary, End
<1>11. written' \in Nat /\ written' <= arrived + PostPadding
  <2>1. WholeWords(n) \in Nat /\ WholeWords(n) <= n + 4
    BY <1>5, WordFacts
  <2>2. written' = src + WholeWords(n)
    BY DEF PartOfFrame, n
  <2>3. n <= arrived - src
    BY <1>3, <1>4, <1>5 DEF n
  <2> QED
    BY <1>3, <1>4, <1>5, <2>1, <2>2, <2>3 DEF PostPadding
<1>12. mask' \in [0 .. 3 -> 0 .. 3]
  <2>1. mask' = RotateMask(4 - (n % 4), FreshMask)
    BY DEF PartOfFrame, n
  <2>2. FreshMask \in [0 .. 3 -> 0 .. 3]
    BY DEF FreshMask
  <2> QED
    BY <1>5, <2>1, <2>2, MaskFacts
<1>13. pc' = "idle" /\ ~wantsHead' /\ spillLength' = 0 /\ src' = arrived /\ opStack' = pushed
  BY DEF PartOfFrame
<1>14. opCode' = pushedCode /\ lastFin' = frame.fin
  BY <1>1 DEF AcceptHead
<1>15. controlTipLength' \in 0 .. 125
  BY <1>4, <1>5, <1>6, <1>8, <1>9 DEF Binary
<1>16. wantsHead' \in BOOLEAN
  BY DEF PartOfFrame
<1>17. TypeOK'
  BY <1>2, <1>3, <1>4, <1>6, <1>8, <1>10, <1>11, <1>12, <1>13, <1>14, <1>15, <1>16
     DEF TypeOK, PrePadding
<1>18. PlaceInv'
  <2>1. nextHead' = src + FrameSize(frame)
    BY <1>3, <1>4, <1>5, <1>6, <1>10, <1>13 DEF nextHead, FrameSize, n
  <2> QED
    BY <1>3, <1>10, <1>13, <2>1 DEF PlaceInv
<1>19. StackInv'
  BY <1>3, <1>4, <1>8, <1>9, <1>13, <1>14 DEF StackInv, Binary, op
<1> QED
  BY <1>8, <1>10, <1>11, <1>17, <1>18, <1>19 DEF ParserInv, PostPadding

(* The rest of a payload is there: the next header is expected behind it.    *)
LEMMA RestInv == ASSUME ParserInv, RestOfFrame PROVE ParserInv'
<1> DEFINE op == opCode[opStack]
<1>1. /\ TypeOK /\ PlaceInv /\ StackInv /\ status = "open" /\ pc = "payload" /\ ~wantsHead
      /\ HandleFragment(Unmasked(src, remainingBytes, mask), 0, op, lastFin)
  BY DEF RestOfFrame, ParserInv, PlaceInv, TypeOK
<1>2. /\ src + remainingBytes \in Boundary
      /\ opStack >= 0 /\ \A i \in 0 .. 1 : i < opStack => opCode[i] <= Binary
      /\ IF op <= Binary THEN controlTipLength = 0 ELSE lastFin
  BY <1>1 DEF PlaceInv, StackInv, nextHead
<1>3. stream \in Streams /\ arrived \in 0 .. End(stream) /\ opStack \in 0 .. 1
      /\ opCode \in [0 .. 1 -> 0 .. 15] /\ lastFin \in BOOLEAN /\ remainingBytes \in Nat
      /\ src \in Int
  BY <1>1, <1>2 DEF TypeOK
<1>4. arrived \in Nat /\ op \in 0 .. 15
  BY <1>3, StreamFacts
<1>5. Boundary \subseteq Nat
  BY <1>3, StreamFacts DEF Boundary, FrameType
<1> HIDE DEF op
<1>6. /\ status' \in {"open", "shuttingDown", "closed"}
      /\ controlTipLength' \in 0 .. 125
      /\ status' = "open" => controlTipLength' = 0
  <2>1. 0 \in Nat
    OBVIOUS
  <2>2. /\ status' \in {"open", "shuttingDown", "closed"}
        /\ op <= Binary => controlTipLength' = controlTipLength
        /\ op > Binary /\ lastFin =>
              controlTipLength' = IF status' = "open" THEN 0 ELSE controlTipLength
    BY <1>1, <1>3, <1>4, <2>1, FragmentFacts
  <2>3. controlTipLength \in 0 .. 125
    BY <1>1 DEF TypeOK
  <2> QED
    BY <1>2, <1>4, <2>2, <2>3 DEF Binary
<1>7. stream' = stream /\ Boundary' = Boundary /\ End(stream)' = End(stream) /\ arrived' = arrived
      /\ spillLength' = spillLength /\ lastFin' = lastFin /\ opCode' = opCode
      /\ remainingBytes' = remainingBytes /\ mask' = mask
  BY DEF RestOfFrame, Boundary, End
<1>8. src' = src + remainingBytes /\ src' \in Nat /\ src' <= arrived /\ written' = src'
  BY <1>2, <1>3, <1>4, <1>5 DEF RestOfFrame, length
<1>9. spillLength = 0 /\ opStack' \in -1 .. 1
      /\ (status' = "open" /\ lastFin => opStack' = opStack - 1)
      /\ (~lastFin => opStack' = opStack)
  BY <1>1, <1>3 DEF RestOfFrame, PlaceInv
<1>10. wantsHead' \in BOOLEAN /\ (wantsHead' <=> status' = "open")
       /\ pc' \in {"head", "idle"} /\ (pc' = "head" <=> status' = "open")
  BY DEF RestOfFrame
<1>11. TypeOK'
  BY <1>1, <1>6, <1>7, <1>8, <1>9, <1>10 DEF TypeOK
<1>12. ASSUME status' = "open" PROVE PlaceInv'
  BY <1>2, <1>7, <1>8, <1>9, <1>10, <1>12 DEF PlaceInv
<1>13. ASSUME status' = "open" PROVE StackInv'
  <2>1. \A i \in 0 .. 1 : i < opStack' => opCode'[i] <= Binary
    BY <1>2, <1>3, <1>7, <1>9, <1>13
  <2>2. opStack' >= 0 => opCode'[opStack'] <= Binary
    <3>1. CASE lastFin
      BY <1>2, <1>3, <1>7, <1>9, <1>13, <3>1
    <3>2. CASE ~lastFin
      BY <1>2, <1>7, <1>9, <3>2 DEF op
    <3> QED
      BY <3>1, <3>2
  <2> QED
    BY <1>6, <1>10, <1>13, <2>1, <2>2 DEF StackInv
<1> QED
  BY <1>4, <1>7, <1>8, <1>10, <1>11, <1>12, <1>13 DEF ParserInv, PostPadding

(* A control frame that fits 125 bytes fits them with what comes next.       *)
LEMMA TipFacts ==
    ASSUME NEW tip \in Nat, NEW n \in Nat, NEW rest \in Nat, tip + (n + rest) <= 125
    PROVE  tip + n \in 0 .. 125 /\ (tip + n) + rest <= 125
  OBVIOUS

(* Not even the rest is there: more of it is waited for.                     *)
LEMMA MoreInv == ASSUME ParserInv, MoreOfFrame PROVE ParserInv'
<1> DEFINE op == opCode[opStack]
<1>1. /\ TypeOK /\ PlaceInv /\ StackInv /\ status = "open" /\ pc = "payload" /\ ~wantsHead
      /\ remainingBytes' = remainingBytes - length /\ remainingBytes > length
      /\ HandleFragment(Unmasked(src, length, mask), remainingBytes', op, lastFin)
  BY DEF MoreOfFrame, ParserInv, PlaceInv, TypeOK
<1>2. /\ src + remainingBytes \in Boundary /\ src \in 0 .. arrived
      /\ opStack >= 0 /\ \A i \in 0 .. 1 : i < opStack => opCode[i] <= Binary
      /\ IF op <= Binary THEN controlTipLength = 0
         ELSE lastFin /\ controlTipLength + remainingBytes <= 125
  BY <1>1 DEF PlaceInv, StackInv, nextHead
<1>3. stream \in Streams /\ arrived \in 0 .. End(stream) /\ opStack \in 0 .. 1
      /\ opCode \in [0 .. 1 -> 0 .. 15] /\ lastFin \in BOOLEAN /\ remainingBytes \in Nat
      /\ src \in Int /\ mask \in [0 .. 3 -> 0 .. 3] /\ controlTipLength \in 0 .. 125
  BY <1>1, <1>2 DEF TypeOK
<1>4. arrived \in Nat /\ op \in 0 .. 15
  BY <1>3, StreamFacts
<1>5. length \in Nat /\ length = arrived - src /\ remainingBytes' \in Nat /\ remainingBytes' # 0
      /\ length + remainingBytes' = remainingBytes
  BY <1>1, <1>2, <1>3, <1>4 DEF length
<1> HIDE DEF op
<1>6. /\ status' = "open"
      /\ op <= Binary => controlTipLength' = controlTipLength
      /\ op > Binary => controlTipLength' = controlTipLength + length
  <2>1. Len(Unmasked(src, length, mask)) = length
    BY <1>5, UnmaskedLength
  <2>2. /\ status' = status
        /\ op <= Binary => controlTipLength' = controlTipLength
        /\ op > Binary => controlTipLength' =
              controlTipLength + Len(Unmasked(src, length, mask))
    BY <1>1, <1>3, <1>4, <1>5, FragmentFacts
  <2> QED
    BY <1>1, <2>1, <2>2
<1>7. IF op <= Binary THEN controlTipLength' = 0
      ELSE controlTipLength' \in 0 .. 125 /\ controlTipLength' + remainingBytes' <= 125
  <2>1. CASE op <= Binary
    BY <1>2, <1>6, <2>1
  <2>2. CASE ~(op <= Binary)
    <3>1. op > Binary
      BY <1>4, <2>2 DEF Binary
    <3>2. controlTipLength' = controlTipLength + length /\ controlTipLength + remainingBytes <= 125
      BY <1>2, <1>6, <2>2, <3>1
    <3>3. controlTipLength \in Nat
      BY <1>1 DEF TypeOK
    <3>4. length \in Nat /\ remainingBytes' \in Nat /\ remainingBytes = length + remainingBytes'
      BY <1>5
    <3>5. controlTipLength + (length + remainingBytes') <= 125
      BY <3>2, <3>4
    <3>6. /\ controlTipLength + length \in 0 .. 125
          /\ (controlTipLength + length) + remainingBytes' <= 125
      BY <3>3, <3>4, <3>5, TipFacts
    <3> QED
      BY <2>2, <3>2, <3>6
  <2> QED
    BY <2>1, <2>2
<1>8. stream' = stream /\ Boundary' = Boundary /\ End(stream)' = End(stream) /\ arrived' = arrived
      /\ spillLength' = spillLength /\ lastFin' = lastFin /\ opCode' = opCode
      /\ opStack' = opStack /\ wantsHead' = wantsHead
  BY DEF MoreOfFrame, Boundary, End
<1>9. written' \in Nat /\ written' <= arrived + PostPadding
  <2>1. WholeWords(length) \in Nat /\ WholeWords(length) <= length + 4
    BY <1>5, WordFacts
  <2>2. written' = src + WholeWords(length)
    BY DEF MoreOfFrame
  <2>3. src \in Nat
    BY <1>2, <1>4
  <2> QED
    BY <1>4, <1>5, <2>1, <2>2, <2>3 DEF PostPadding
<1>10. mask' \in [0 .. 3 -> 0 .. 3]
  BY <1>3, <1>5, MaskFacts DEF MoreOfFrame
<1>11. pc' = "idle" /\ src' = arrived
  BY DEF MoreOfFrame
<1>12. TypeOK'
  BY <1>1, <1>4, <1>5, <1>6, <1>7, <1>8, <1>9, <1>10, <1>11 DEF TypeOK
<1>13. PlaceInv'
  <2>1. nextHead' = src + remainingBytes
    BY <1>1, <1>3, <1>4, <1>5, <1>8, <1>11 DEF nextHead
  <2> QED
    BY <1>1, <1>2, <1>8, <1>11, <2>1 DEF PlaceInv
<1>14. StackInv'
  BY <1>1, <1>2, <1>7, <1>8 DEF StackInv, op
<1> QED
  BY <1>6, <1>8, <1>9, <1>12, <1>13, <1>14 DEF ParserInv, PostPadding

-----------------------------------------------------------------------------
\* A step that changes nothing keeps the invariant.
LEMMA StutterInv == ASSUME ParserInv, UNCHANGED vars PROVE ParserInv'
<1>1. UNCHANGED <<stream, arrived, pc, src, wantsHead, spillLength, opStack, lastFin, opCode,
                  remainingBytes, mask, controlTipLength, written, status>>
  BY DEF vars, buffers
<1>2. Boundary' = Boundary /\ nextHead' = nextHead
  BY <1>1 DEF Boundary, nextHead, End
<1>3. TypeOK' = TypeOK
  BY <1>1 DEF TypeOK, End
<1>4. PlaceInv' = PlaceInv
  BY <1>1, <1>2 DEF PlaceInv
<1>5. StackInv' = StackInv
  BY <1>1 DEF StackInv
<1> QED
  BY <1>1, <1>3, <1>4, <1>5 DEF ParserInv

(* ParserInv holds for streams of any frames, cut into pieces of any size:   *)
(* consume never leaves the frames, and opStack never runs over.             *)
THEOREM ParserInvariant == Spec => []ParserInv
<1>1. ParserInv /\ [Next]_vars => ParserInv'
  <2> SUFFICES ASSUME ParserInv, [Next]_vars PROVE ParserInv'
    OBVIOUS
  <2>1. CASE Parse
    BY <2>1, RefuseInv, WholeInv, PartInv, RestInv, MoreInv, SpillInv DEF Parse
  <2>2. ASSUME NEW n \in 1 .. End(stream), Receive(n) PROVE ParserInv'
    BY <2>2, ReceiveInv
  <2>3. CASE UNCHANGED vars
    BY <2>3, StutterInv
  <2> QED
    BY <2>1, <2>2, <2>3 DEF Next
<1> QED
  BY InitInv, <1>1, PTL DEF Spec

(* The parser's state keeps its type: in particular what is spilled fits its *)
(* 13 bytes, and opStack stays within opCode's two places.                   *)
THEOREM TypeCorrect == Spec => []TypeOK
<1>1. ParserInv => TypeOK
  BY DEF ParserInv
<1> QED
  BY <1>1, ParserInvariant, PTL

(* Whatever the pieces, a header is only looked for where a frame begins.    *)
THEOREM SyncHolds == Spec => []InSync
<1>1. ParserInv => InSync
  <2> SUFFICES ASSUME ParserInv, status = "open"
               PROVE  nextHead \in Boundary /\ (~wantsHead => spillLength = 0)
    BY DEF InSync
  <2>1. PlaceInv /\ TypeOK
    BY DEF ParserInv
  <2>2. CASE wantsHead
    BY <2>1, <2>2 DEF PlaceInv, nextHead, TypeOK
  <2>3. CASE ~wantsHead
    BY <2>1, <2>3 DEF PlaceInv
  <2> QED
    BY <2>2, <2>3
<1> QED
  BY <1>1, ParserInvariant, PTL

(* Unmasking stays off the bytes still to be parsed, and within the padding. *)
THEOREM UnmaskHolds == Spec => []UnmaskInBounds
<1>1. ParserInv => UnmaskInBounds
  BY DEF ParserInv, PlaceInv, TypeOK, UnmaskInBounds
<1> QED
  BY <1>1, ParserInvariant, PTL

-----------------------------------------------------------------------------
(* The frames in their order, and what the parser has of them: the invariant *)
(* by which FrameParser implements FrameStream.                              *)

\* Where frame k begins, or would begin.
Place(k) == IF k <= Len(stream) THEN stream[k].begin ELSE End(stream)

ByteType == [at : Nat, mask : 0 .. 3]

\* The first n bytes of a payload, unmasked.
Bytes(from, n) == [i \in 1 .. n |-> [at |-> from + i - 1, mask |-> (i - 1) % 4]]

\* A message is unfinished after t frames.
OpenAfter(t) == \E k \in 1 .. t : /\ stream[k].op <= Binary /\ ~stream[k].fin
                                  /\ \A j \in k + 1 .. t : stream[j].op > Binary

\* The frame that comes next, or is being read, and what has come of its payload.
current == stream[taken + 1]
came == current.len - remainingBytes
payload == current.begin + current.head

\* The mask for the byte behind the first k.
MaskAfter(k) == [j \in 0 .. 3 |-> (k + j) % 4]

TakenInv == /\ taken \in 0 .. Len(stream)
            /\ HandledFrames = 1 .. taken
            /\ fragments \in Seq(ByteType)
            /\ Unfinished => opCode[0] \in {Text, Binary}

\* Between two frames opStack and lastFin tell what the frames so far were.
BetweenInv == /\ src = Place(taken + 1)
              /\ opStack = IF Unfinished THEN 0 ELSE -1
              /\ lastFin = (taken = 0 \/ stream[taken].fin)
              /\ ~lastFin => Unfinished
              /\ fragmentBuffer = fragments

\* Inside a frame the bytes that came lie behind those of the unfinished message,
\* and the mask is the one for the byte that comes next.
WithinInv ==
    /\ taken < Len(stream) /\ FS!LegalFrame(current)
    /\ lastFin = current.fin
    /\ remainingBytes \in 1 .. current.len
    /\ src = payload + came
    /\ mask = MaskAfter(came)
    /\ fragmentBuffer = fragments \o Bytes(payload, came)
    /\ IF current.op > Binary
       THEN /\ opStack = IF Unfinished THEN 1 ELSE 0
            /\ opCode[opStack] = current.op
            /\ controlTipLength = came
       ELSE /\ opStack = 0
            /\ opCode[0] = IF current.op = 0 THEN opcode ELSE current.op

MessageInv == status = "open" => /\ TakenInv
                                 /\ wantsHead => BetweenInv
                                 /\ ~wantsHead => WithinInv
                                 /\ pc = "idle" /\ ~wantsHead => src = arrived

-----------------------------------------------------------------------------
(* The bytes of a payload.                                                   *)

(* A set of natural numbers that is not empty has a least one.               *)
LEMMA LeastNatural ==
    ASSUME NEW S \in SUBSET Nat, S # {}
    PROVE  \E m \in S : \A k \in S : m <= k
<1>1. IsWellFoundedOn(OpToRel(<, Nat), Nat)
  BY NatLessThanWellFounded
<1>2. PICK m \in S : \A k \in S : ~(<<k, m>> \in OpToRel(<, Nat))
  BY <1>1, WFMin
<1>3. \A k \in S : ~(k < m)
  BY <1>2 DEF OpToRel
<1> QED
  BY <1>3

(* A place in the mask counts modulo its length.                             *)
LEMMA ModSum ==
    ASSUME NEW a \in Nat, NEW b \in Nat
    PROVE  (a + (b % 4)) % 4 = (a + b) % 4 /\ b % 4 \in 0 .. 3
  OBVIOUS

(* Bytes is a sequence of bytes.                                             *)
LEMMA BytesType ==
    ASSUME NEW p \in Nat, NEW n \in Nat
    PROVE  /\ Bytes(p, n) \in Seq(ByteType)
           /\ Len(Bytes(p, n)) = n
           /\ DOMAIN Bytes(p, n) = 1 .. n
<1>1. \A i \in 1 .. n : p + i - 1 \in Nat /\ (i - 1) % 4 \in 0 .. 3
  OBVIOUS
<1>2. \A i \in 1 .. n : [at |-> p + i - 1, mask |-> (i - 1) % 4] \in ByteType
  BY <1>1 DEF ByteType
<1>3. Bytes(p, n) \in [1 .. n -> ByteType]
  BY <1>2 DEF Bytes
<1> QED
  BY <1>3

(* A payload is unmasked from its first byte on with the mask as it came.    *)
LEMMA FirstBytes ==
    ASSUME NEW p \in Nat, NEW n \in Nat
    PROVE  Unmasked(p, n, FreshMask) = Bytes(p, n)
<1>1. \A j \in 1 .. n : FreshMask[(j - 1) % 4] = (j - 1) % 4
  BY DEF FreshMask
<1> QED
  BY <1>1 DEF Unmasked, Bytes

(* Behind them it goes on with the mask rotated to the byte that comes next. *)
LEMMA MoreBytes ==
    ASSUME NEW p \in Nat, NEW k \in Nat, NEW n \in Nat
    PROVE  /\ Unmasked(p + k, n, MaskAfter(k)) \in Seq(ByteType)
           /\ Len(Unmasked(p + k, n, MaskAfter(k))) = n
           /\ Bytes(p, k) \o Unmasked(p + k, n, MaskAfter(k)) = Bytes(p, k + n)
<1> DEFINE u == Unmasked(p + k, n, MaskAfter(k))
<1>1. \A j \in 1 .. n : /\ (j - 1) % 4 \in 0 .. 3
                        /\ (k + ((j - 1) % 4)) % 4 = (k + j - 1) % 4
                        /\ (k + j - 1) % 4 \in 0 .. 3
                        /\ (p + k) + j - 1 \in Nat
  <2> TAKE j \in 1 .. n
  <2>1. j - 1 \in Nat /\ k + (j - 1) = k + j - 1 /\ k + j - 1 \in Nat
    OBVIOUS
  <2>2. (k + ((j - 1) % 4)) % 4 = (k + (j - 1)) % 4 /\ (j - 1) % 4 \in 0 .. 3
    BY <2>1, ModSum
  <2> QED
    BY <2>1, <2>2
<1>2. \A j \in 1 .. n : u[j] = [at |-> (p + k) + j - 1, mask |-> (k + j - 1) % 4]
  BY <1>1 DEF Unmasked, MaskAfter
<1>u. u = [j \in 1 .. n |-> u[j]]
  BY DEF Unmasked
<1> HIDE DEF u
<1>3. u \in [1 .. n -> ByteType]
  <2>1. ASSUME NEW j \in 1 .. n PROVE u[j] \in ByteType
    <3>1. (p + k) + j - 1 \in Nat /\ (k + j - 1) % 4 \in 0 .. 3
      BY <1>1
    <3>2. u[j] = [at |-> (p + k) + j - 1, mask |-> (k + j - 1) % 4]
      BY <1>2
    <3> QED
      BY <3>1, <3>2 DEF ByteType
  <2> QED
    BY <1>u, <2>1
<1>4. u \in Seq(ByteType) /\ Len(u) = n
  BY <1>3
<1> DEFINE b == Bytes(p, k)
           whole == Bytes(p, k + n)
           both == b \o u
<1>5. /\ b \in Seq(ByteType) /\ Len(b) = k
      /\ whole \in Seq(ByteType) /\ Len(whole) = k + n
  BY BytesType
<1>6. \A i \in 1 .. k : b[i] = [at |-> p + i - 1, mask |-> (i - 1) % 4]
  BY DEF Bytes
<1>7. \A i \in 1 .. k + n : whole[i] = [at |-> p + i - 1, mask |-> (i - 1) % 4]
  BY DEF Bytes
<1> HIDE DEF b, whole
<1>8. /\ both \in Seq(ByteType) /\ Len(both) = k + n
      /\ \A i \in 1 .. k + n : both[i] = IF i <= k THEN b[i] ELSE u[i - k]
  BY <1>4, <1>5, ConcatProperties
<1> HIDE DEF both
<1>9. \A i \in 1 .. k + n : both[i] = whole[i]
  <2> TAKE i \in 1 .. k + n
  <2>1. CASE i <= k
    <3>1. i \in 1 .. k
      BY <2>1
    <3>2. both[i] = b[i]
      BY <1>8, <2>1
    <3>3. b[i] = [at |-> p + i - 1, mask |-> (i - 1) % 4]
      BY <1>6, <3>1
    <3>4. whole[i] = [at |-> p + i - 1, mask |-> (i - 1) % 4]
      BY <1>7
    <3> QED
      BY <3>2, <3>3, <3>4
  <2>2. CASE i > k
    <3>1. i - k \in 1 .. n /\ (p + k) + (i - k) - 1 = p + i - 1 /\ k + (i - k) - 1 = i - 1
      BY <2>2
    <3>2. both[i] = u[i - k]
      BY <1>8, <2>2
    <3>3. u[i - k] = [at |-> (p + k) + (i - k) - 1, mask |-> (k + (i - k) - 1) % 4]
      BY <1>2, <3>1
    <3>4. whole[i] = [at |-> p + i - 1, mask |-> (i - 1) % 4]
      BY <1>7
    <3> QED
      BY <3>1, <3>2, <3>3, <3>4
  <2> QED
    BY <2>1, <2>2
<1>10. both = whole
  BY <1>5, <1>8, <1>9, SeqEqual
<1> QED
  BY <1>4, <1>10 DEF u, b, whole, both

(* Rotating the mask after n bytes makes it the one for the byte behind them. *)
LEMMA MaskRotated ==
    ASSUME NEW k \in Nat, NEW n \in Nat
    PROVE  /\ RotateMask(4 - (n % 4), MaskAfter(k)) = MaskAfter(k + n)
           /\ n % 4 = 0 => MaskAfter(k) = MaskAfter(k + n)
<1>1. n % 4 \in 0 .. 3
  OBVIOUS
<1>2. \A j \in 0 .. 3 : (j + 4 - (4 - (n % 4))) = j + (n % 4)
  BY <1>1
<1>3. ASSUME NEW j \in 0 .. 3 PROVE (k + ((j + (n % 4)) % 4)) % 4 = ((k + n) + j) % 4
  <2>1. (j + (n % 4)) % 4 = (j + n) % 4 /\ j + n \in Nat
    BY ModSum
  <2>2. (k + ((j + n) % 4)) % 4 = (k + (j + n)) % 4
    BY <2>1, ModSum
  <2> QED
    BY <2>1, <2>2
<1>4. \A j \in 0 .. 3 : (j + (n % 4)) % 4 \in 0 .. 3
  BY <1>1
<1>5. \A j \in 0 .. 3 : MaskAfter(k)[(j + (n % 4)) % 4] = ((k + n) + j) % 4
  BY <1>3, <1>4 DEF MaskAfter
<1>6. RotateMask(4 - (n % 4), MaskAfter(k)) = MaskAfter(k + n)
  <2>1. \A j \in 0 .. 3 : MaskAfter(k)[(j + 4 - (4 - (n % 4))) % 4] = ((k + n) + j) % 4
    BY <1>2, <1>5
  <2> QED
    BY <2>1 DEF RotateMask, MaskAfter
<1>7. ASSUME n % 4 = 0 PROVE MaskAfter(k) = MaskAfter(k + n)
  <2>1. \A j \in 0 .. 3 : (k + j) % 4 = ((k + n) + j) % 4
    BY <1>7
  <2> QED
    BY <2>1 DEF MaskAfter
<1> QED
  BY <1>6, <1>7

(* The mask as it came is the one for the first byte.                        *)
LEMMA MaskFirst == FreshMask = MaskAfter(0)
<1>1. \A j \in 0 .. 3 : (0 + j) % 4 = j
  OBVIOUS
<1> QED
  BY <1>1 DEF FreshMask, MaskAfter

(* What SubSeq takes from both ends of two sequences put together.           *)
LEMMA FrontOf ==
    ASSUME NEW S, NEW s \in Seq(S), NEW t \in Seq(S)
    PROVE  SubSeq(s \o t, 1, Len(s \o t) - Len(t)) = s
<1> DEFINE c == s \o t
           r == SubSeq(c, 1, Len(c) - Len(t))
<1>1. /\ c \in Seq(S) /\ Len(c) = Len(s) + Len(t) /\ Len(s) \in Nat /\ Len(t) \in Nat
      /\ \A i \in 1 .. Len(s) + Len(t) : c[i] = IF i <= Len(s) THEN s[i] ELSE t[i - Len(s)]
  BY ConcatProperties, LenProperties
<1> HIDE DEF c
<1>2. Len(c) - Len(t) = Len(s)
  BY <1>1
<1>3. \A i \in 1 .. Len(s) : c[i] \in S /\ c[i] = s[i]
  BY <1>1, ElementOfSeq
<1>4. /\ r \in Seq(S)
      /\ Len(r) = IF 1 <= Len(s) THEN Len(s) - 1 + 1 ELSE 0
      /\ \A i \in 1 .. Len(s) - 1 + 1 : r[i] = c[1 + i - 1]
  BY <1>1, <1>2, <1>3, SubSeqProperties
<1> HIDE DEF r
<1>5. Len(r) = Len(s) /\ \A i \in 1 .. Len(r) : r[i] = s[i]
  BY <1>1, <1>3, <1>4
<1>6. r = s
  BY <1>4, <1>5, SeqEqual
<1> QED
  BY <1>6 DEF r, c

(* And from the other end.                                                   *)
LEMMA BackOf ==
    ASSUME NEW S, NEW s \in Seq(S), NEW t \in Seq(S)
    PROVE  SubSeq(s \o t, Len(s \o t) - Len(t) + 1, Len(s \o t)) = t
<1> DEFINE c == s \o t
           r == SubSeq(c, Len(c) - Len(t) + 1, Len(c))
<1>1. /\ c \in Seq(S) /\ Len(c) = Len(s) + Len(t) /\ Len(s) \in Nat /\ Len(t) \in Nat
      /\ \A i \in 1 .. Len(s) + Len(t) : c[i] = IF i <= Len(s) THEN s[i] ELSE t[i - Len(s)]
  BY ConcatProperties, LenProperties
<1> HIDE DEF c
<1>2. Len(c) - Len(t) + 1 = Len(s) + 1
  BY <1>1
<1>3. \A i \in Len(s) + 1 .. Len(c) : c[i] \in S
  BY <1>1, ElementOfSeq
<1>4. /\ r \in Seq(S)
      /\ Len(r) = IF Len(s) + 1 <= Len(c) THEN Len(c) - (Len(s) + 1) + 1 ELSE 0
      /\ \A i \in 1 .. Len(c) - (Len(s) + 1) + 1 : r[i] = c[(Len(s) + 1) + i - 1]
  BY <1>1, <1>2, <1>3, SubSeqProperties
<1> HIDE DEF r
<1>5. Len(r) = Len(t) /\ \A i \in 1 .. Len(t) : r[i] = c[Len(s) + i]
  <2>1. /\ Len(c) - (Len(s) + 1) + 1 = Len(t)
        /\ \A i \in 1 .. Len(t) : (Len(s) + 1) + i - 1 = Len(s) + i
    BY <1>1
  <2>2. Len(r) = Len(t)
    BY <1>1, <1>4
  <2> QED
    BY <1>4, <2>1, <2>2
<1>6. \A i \in 1 .. Len(t) : c[Len(s) + i] = t[i]
  <2> TAKE i \in 1 .. Len(t)
  <2>1. Len(s) + i \in 1 .. Len(s) + Len(t) /\ ~(Len(s) + i <= Len(s)) /\ (Len(s) + i) - Len(s) = i
    BY <1>1
  <2> QED
    BY <1>1, <2>1
<1>7. r = t
  BY <1>4, <1>5, <1>6, SeqEqual
<1> QED
  BY <1>7 DEF r, c

-----------------------------------------------------------------------------
(* The frames in their order.                                                *)

\* A frame ends where the next one begins.
LEMMA PlaceFacts ==
    ASSUME stream \in Streams
    PROVE  /\ Len(stream) \in Nat \ {0} /\ DOMAIN stream = 1 .. Len(stream)
           /\ Place(1) = 0
           /\ \A k \in 1 .. Len(stream) :
                 /\ stream[k] \in FrameType
                 /\ FrameSize(stream[k]) \in Nat /\ FrameSize(stream[k]) >= 6
                 /\ Place(k) = stream[k].begin
                 /\ Place(k + 1) = stream[k].begin + FrameSize(stream[k])
           /\ \A k \in 1 .. Len(stream) + 1 : Place(k) \in Nat
<1>1. /\ Len(stream) \in Nat \ {0} /\ DOMAIN stream = 1 .. Len(stream)
      /\ \A k \in 1 .. Len(stream) : stream[k] \in FrameType
      /\ stream[1].begin = 0 /\ End(stream) \in Nat
  <2>1. stream \in Seq(FrameType)
    BY StreamFacts
  <2>2. DOMAIN stream = 1 .. Len(stream)
    BY <2>1
  <2> QED
    BY <2>2, StreamFacts
<1>2. IsStream(stream)
  BY FrameParserAssumption
<1>3. \A k \in 1 .. Len(stream) - 1 : stream[k + 1].begin = stream[k].begin + FrameSize(stream[k])
  BY <1>2 DEF IsStream
<1>4. ASSUME NEW k \in 1 .. Len(stream)
      PROVE  /\ FrameSize(stream[k]) \in Nat /\ FrameSize(stream[k]) >= 6
             /\ Place(k) = stream[k].begin /\ Place(k) \in Nat
             /\ Place(k + 1) = stream[k].begin + FrameSize(stream[k])
  <2>1. stream[k] \in FrameType
    BY <1>1
  <2>2. stream[k].begin \in Nat /\ stream[k].len \in Nat /\ stream[k].head \in {6, 8, 14}
    BY <2>1 DEF FrameType
  <2>3. FrameSize(stream[k]) \in Nat /\ FrameSize(stream[k]) >= 6
    BY <2>2 DEF FrameSize
  <2>4. Place(k) = stream[k].begin
    BY <1>1 DEF Place
  <2>5. CASE k = Len(stream)
    <3>1. Place(k + 1) = End(stream)
      BY <1>1, <2>5 DEF Place
    <3>2. End(stream) = stream[k].begin + FrameSize(stream[k])
      BY <2>5 DEF End
    <3> QED
      BY <2>2, <2>3, <2>4, <3>1, <3>2
  <2>6. CASE k # Len(stream)
    <3>0. Len(stream) \in Nat
      BY <1>1
    <3>1. k \in 1 .. Len(stream) - 1 /\ k + 1 <= Len(stream)
      BY <2>6, <3>0
    <3>2. Place(k + 1) = stream[k + 1].begin
      BY <3>1 DEF Place
    <3>3. stream[k + 1].begin = stream[k].begin + FrameSize(stream[k])
      BY <1>3, <3>1
    <3> QED
      BY <2>2, <2>3, <2>4, <3>2, <3>3
  <2> QED
    BY <2>5, <2>6
<1>5. Place(1) = 0
  BY <1>1 DEF Place
<1>6. ASSUME NEW k \in 1 .. Len(stream) + 1 PROVE Place(k) \in Nat
  <2>1. CASE k <= Len(stream)
    BY <1>1, <1>4, <2>1
  <2>2. CASE ~(k <= Len(stream))
    BY <1>1, <2>2 DEF Place
  <2> QED
    BY <2>1, <2>2
<1> QED
  BY <1>1, <1>4, <1>5, <1>6

(* So a later frame begins behind an earlier one.                            *)
LEMMA PlaceOrder ==
    ASSUME stream \in Streams, NEW j \in 1 .. Len(stream) + 1, NEW k \in 1 .. Len(stream) + 1,
           j < k
    PROVE  Place(j) < Place(k)
<1> DEFINE L == Len(stream)
           Wrong == {i \in 1 .. L + 1 : j < i /\ ~(Place(j) < Place(i))}
<1>1. L \in Nat /\ \A i \in 1 .. L + 1 : Place(i) \in Nat
  BY PlaceFacts
<1>2. \A i \in 1 .. L : Place(i + 1) = Place(i) + FrameSize(stream[i])
                        /\ FrameSize(stream[i]) \in Nat /\ FrameSize(stream[i]) >= 6
  BY PlaceFacts
<1> HIDE DEF L
<1>3. ASSUME Wrong # {} PROVE FALSE
  <2>1. Wrong \in SUBSET Nat
    BY <1>1
  <2>2. PICK m \in Wrong : \A i \in Wrong : m <= i
    <3> HIDE DEF Wrong
    <3> QED
      BY <1>3, <2>1, LeastNatural
  <2>3. /\ m \in 1 .. L + 1 /\ j \in 1 .. L + 1 /\ j < m /\ ~(Place(j) < Place(m))
    BY <2>2 DEF L
  <2>4. m - 1 \in 1 .. L /\ j <= m - 1 /\ (m - 1) + 1 = m /\ m - 1 < m /\ m - 1 \in 1 .. L + 1
    BY <1>1, <2>3
  <2> DEFINE q == m - 1
  <2>5. q \in 1 .. L /\ j <= q /\ q + 1 = m /\ q < m /\ q \in 1 .. L + 1 /\ q \in Int
    BY <2>4
  <2> HIDE DEF q
  <2>6. Place(m) = Place(q) + FrameSize(stream[q]) /\ FrameSize(stream[q]) \in Nat
        /\ FrameSize(stream[q]) >= 6
    BY <1>2, <2>5
  <2>7. Place(q) \in Nat /\ Place(j) \in Nat /\ Place(m) \in Nat
    BY <1>1, <2>3, <2>5
  <2>8. Place(q) < Place(m)
    BY <2>6, <2>7
  <2>9. j < q /\ ~(Place(j) < Place(q))
    <3>1. j # q
      BY <2>3, <2>8
    <3>2. j < q
      BY <2>3, <2>5, <3>1
    <3> QED
      BY <2>3, <2>7, <2>8, <3>2
  <2>10. q \in Wrong
    BY <2>5, <2>9
  <2> QED
    BY <2>2, <2>3, <2>5, <2>10
<1>4. k \in 1 .. L + 1
  BY DEF L
<1> QED
  BY <1>3, <1>4

(* The frame whose first byte is at src is the one after those before src.   *)
LEMMA FrameAt ==
    ASSUME stream \in Streams, NEW t \in 0 .. Len(stream) - 1, src = Place(t + 1)
    PROVE  frame = stream[t + 1]
<1>1. /\ Len(stream) \in Nat /\ DOMAIN stream = 1 .. Len(stream)
      /\ \A k \in 1 .. Len(stream) : Place(k) = stream[k].begin
      /\ \A k \in 1 .. Len(stream) + 1 : Place(k) \in Nat
  BY PlaceFacts
<1> DEFINE n == t + 1
<1>2. n \in 1 .. Len(stream) /\ src = Place(n)
  BY <1>1
<1> HIDE DEF n
<1>3. n \in DOMAIN stream /\ stream[n].begin = src
  BY <1>1, <1>2
<1>4. ASSUME NEW k \in DOMAIN stream, stream[k].begin = src PROVE k = n
  <2>1. k \in 1 .. Len(stream) /\ Place(k) = Place(n)
    BY <1>1, <1>2, <1>4
  <2>2. k \in 1 .. Len(stream) + 1 /\ n \in 1 .. Len(stream) + 1
    BY <1>1, <1>2, <2>1
  <2>3. Place(k) \in Nat /\ Place(n) \in Nat
    BY <1>1, <2>2
  <2>4. ~(k < n)
    BY <2>1, <2>2, <2>3, PlaceOrder
  <2>5. ~(n < k)
    BY <2>1, <2>2, <2>3, PlaceOrder
  <2> QED
    BY <1>1, <2>2, <2>4, <2>5
<1>5. (CHOOSE k \in DOMAIN stream : stream[k].begin = src) = n
  BY <1>3, <1>4
<1> QED
  BY <1>5 DEF frame, n

(* A place in frame t + 1, or where it begins, is behind the first t frames. *)
LEMMA HandledAt ==
    ASSUME stream \in Streams, NEW t \in 0 .. Len(stream), NEW p \in Nat,
           Place(t + 1) <= p, t < Len(stream) => p < Place(t + 2)
    PROVE  {k \in DOMAIN stream : Before(k, p)} = 1 .. t
<1>1. /\ Len(stream) \in Nat /\ DOMAIN stream = 1 .. Len(stream)
      /\ \A k \in 1 .. Len(stream) :
            Place(k + 1) = stream[k].begin + FrameSize(stream[k])
      /\ \A k \in 1 .. Len(stream) + 1 : Place(k) \in Nat
  BY PlaceFacts
<1>2. ASSUME NEW k \in DOMAIN stream PROVE Before(k, p) <=> k <= t
  <2>1. k \in 1 .. Len(stream) /\ (Before(k, p) <=> Place(k + 1) <= p)
    BY <1>1 DEF Before
  <2>2. k + 1 \in 1 .. Len(stream) + 1 /\ t + 1 \in 1 .. Len(stream) + 1
    BY <1>1, <2>1
  <2>3. Place(k + 1) \in Nat /\ Place(t + 1) \in Nat
    BY <1>1, <2>2
  <2>4. CASE k = t
    BY <2>1, <2>4
  <2>5. CASE k < t
    <3>1. k + 1 < t + 1
      BY <2>1, <2>5
    <3>2. Place(k + 1) < Place(t + 1)
      BY <2>2, <3>1, PlaceOrder
    <3> QED
      BY <2>1, <2>3, <2>5, <3>2
  <2>6. CASE k > t
    <3>1. t < Len(stream) /\ t + 2 \in 1 .. Len(stream) + 1 /\ (k + 1 = t + 2 \/ t + 2 < k + 1)
      BY <1>1, <2>1, <2>6
    <3>2. Place(t + 2) \in Nat /\ p < Place(t + 2)
      BY <1>1, <3>1
    <3>3. Place(t + 2) <= Place(k + 1)
      <4>1. CASE k + 1 = t + 2
        BY <2>3, <4>1
      <4>2. CASE t + 2 < k + 1
        <5>1. Place(t + 2) < Place(k + 1)
          BY <2>2, <3>1, <4>2, PlaceOrder
        <5> QED
          BY <2>3, <3>2, <5>1
      <4> QED
        BY <3>1, <4>1, <4>2
    <3>4. ~(Place(k + 1) <= p)
      BY <2>3, <3>2, <3>3
    <3>5. ~(k <= t)
      BY <2>1, <2>6
    <3> QED
      BY <2>1, <3>4, <3>5
  <2> QED
    BY <2>1, <2>4, <2>5, <2>6
<1> QED
  BY <1>1, <1>2

(* As many frames are dealt with.                                            *)
LEMMA TakenAfter ==
    ASSUME stream \in Streams, stream' = stream, NEW t \in 0 .. Len(stream), src' \in Nat,
           Place(t + 1) <= src', t < Len(stream) => src' < Place(t + 2)
    PROVE  HandledFrames' = 1 .. t /\ taken' = t
<1>1. {k \in DOMAIN stream : Before(k, src')} = 1 .. t
  BY HandledAt
<1>2. HandledFrames' = {k \in DOMAIN stream : Before(k, src')}
  BY DEF HandledFrames, Handled, Before
<1>3. Len(stream) \in Nat
  BY PlaceFacts
<1>4. Cardinality(1 .. t) = t
  BY <1>3, FS_Interval
<1> QED
  BY <1>1, <1>2, <1>4 DEF taken

(* A message is unfinished behind a fragment; control frames change nothing. *)
LEMMA OpenNext ==
    ASSUME stream \in Streams, NEW t \in 0 .. Len(stream) - 1
    PROVE  OpenAfter(t + 1) <=> IF stream[t + 1].op > Binary THEN OpenAfter(t)
                                ELSE ~stream[t + 1].fin
<1>1. Len(stream) \in Nat /\ t \in Nat /\ t + 1 \in 1 .. Len(stream)
      /\ \A k \in 1 .. Len(stream) : stream[k].op \in 0 .. 15
  BY PlaceFacts DEF FrameType
<1>2. \A k \in 1 .. t + 1 : k \in 1 .. t \/ k = t + 1
  BY <1>1
<1>3. \A j \in 1 .. t : j \in 1 .. t + 1 /\ j # t + 1 /\ \A i \in j + 1 .. t : i \in j + 1 .. t + 1
  BY <1>1
<1>4. CASE stream[t + 1].op > Binary
  <2>1. \A j \in 1 .. t : \A i \in j + 1 .. t + 1 : i \in j + 1 .. t \/ i = t + 1
    BY <1>1
  <2>2. ~(stream[t + 1].op <= Binary)
    BY <1>1, <1>4 DEF Binary
  <2> QED
    BY <1>2, <1>3, <1>4, <2>1, <2>2 DEF OpenAfter
<1>5. CASE ~(stream[t + 1].op > Binary)
  <2>1. stream[t + 1].op <= Binary
    BY <1>1, <1>5 DEF Binary
  <2>2. \A j \in 1 .. t : t + 1 \in j + 1 .. t + 1
    BY <1>1
  <2>3. t + 1 \in 1 .. t + 1 /\ (t + 1) + 1 .. t + 1 = {}
    BY <1>1
  <2> QED
    BY <1>2, <1>5, <2>1, <2>2, <2>3 DEF OpenAfter
<1> QED
  BY <1>4, <1>5

(* Unfinished says so of the frames dealt with.                              *)
LEMMA UnfinishedIs ==
    ASSUME NEW t \in Nat, NEW H, H = 1 .. t
    PROVE  (\E k \in H : /\ stream[k].op <= Binary /\ ~stream[k].fin
                         /\ \A j \in H : j > k => stream[j].op > Binary) <=> OpenAfter(t)
<1>1. \A k, j \in 1 .. t : j > k <=> j \in k + 1 .. t
  OBVIOUS
<1>2. \A k \in 1 .. t : \A j \in k + 1 .. t : j \in 1 .. t
  OBVIOUS
<1> QED
  BY <1>1, <1>2 DEF OpenAfter

-----------------------------------------------------------------------------
(* The abstract variables across a step.                                     *)

(* Behind the frames dealt with.                                             *)
LEMMA UnfinishedAt ==
    ASSUME TakenInv, stream \in Streams, status = "open"
    PROVE  Unfinished <=> OpenAfter(taken)
<1>1. taken \in Nat /\ HandledFrames = 1 .. taken
  BY PlaceFacts DEF TakenInv
<1> QED
  BY <1>1, UnfinishedIs DEF Unfinished

(* And after a step.                                                         *)
LEMMA UnfinishedThen ==
    ASSUME stream' = stream, NEW t \in Nat, HandledFrames' = 1 .. t
    PROVE  Unfinished' <=> status' = "open" /\ OpenAfter(t)
<1>1. (\E k \in HandledFrames' : /\ stream[k].op <= Binary /\ ~stream[k].fin
                                 /\ \A j \in HandledFrames' : j > k => stream[j].op > Binary)
      <=> OpenAfter(t)
  BY UnfinishedIs
<1> QED
  BY <1>1 DEF Unfinished, Binary

(* The opcode of the unfinished message is not 0.                            *)
LEMMA OpcodeIs ==
    ASSUME TakenInv
    PROVE  /\ opcode # 0 <=> Unfinished
           /\ Unfinished => opcode = opCode[0] /\ opcode \in {Text, Binary}
           /\ ~Unfinished => opcode = 0 /\ fragments = <<>>
  BY DEF TakenInv, opcode, fragments, Text, Binary

(* A socket that is no longer open has no message.                           *)
LEMMA ClosedBars ==
    ASSUME status' # "open"
    PROVE  fragments' = <<>> /\ opcode' = 0 /\ MessageInv'
  BY DEF fragments, opcode, Unfinished, MessageInv

(* A step that leaves the parser where it is leaves all of it.               *)
LEMMA SameBars ==
    ASSUME UNCHANGED <<stream, src, wantsHead, opStack, lastFin, opCode, remainingBytes,
                       mask, fragmentBuffer, controlTipLength, status>>
    PROVE  /\ taken' = taken /\ fragments' = fragments /\ opcode' = opcode
           /\ TakenInv' = TakenInv /\ BetweenInv' = BetweenInv /\ WithinInv' = WithinInv
<1>1. HandledFrames' = HandledFrames
  BY DEF HandledFrames, Handled, Before
<1>2. taken' = taken
  BY <1>1 DEF taken
<1>3. Unfinished' = Unfinished
  BY <1>1 DEF Unfinished
<1>4. current' = current
  BY <1>2 DEF current
<1>5. part' = part
  BY <1>2 DEF part
<1>6. fragments' = fragments /\ opcode' = opcode
  BY <1>3, <1>5 DEF fragments, opcode
<1>7. came' = came /\ payload' = payload
  BY <1>4 DEF came, payload
<1>8. TakenInv' = TakenInv
  BY <1>1, <1>2, <1>3, <1>6 DEF TakenInv
<1>9. Place(taken + 1)' = Place(taken + 1)
  BY <1>2 DEF Place, End
<1>10. BetweenInv' = BetweenInv
  BY <1>2, <1>3, <1>6, <1>9 DEF BetweenInv
<1>11. FS!LegalFrame(current)' = FS!LegalFrame(current)
  BY <1>4, <1>6 DEF FS!LegalFrame
<1>12. WithinInv' = WithinInv
  BY <1>2, <1>3, <1>4, <1>6, <1>7, <1>11 DEF WithinInv
<1> QED
  BY <1>2, <1>6, <1>8, <1>10, <1>12

(* A part of a payload stays apart from the message in front of it.          *)
LEMMA PartBars ==
    ASSUME stream \in Streams, TakenInv, status = "open", status' = "open", stream' = stream,
           HandledFrames' = 1 .. taken, taken' = taken, ~wantsHead',
           NEW t \in Seq(ByteType), fragmentBuffer' = fragments \o t,
           stream[taken + 1].len - remainingBytes' = Len(t),
           Unfinished => opCode'[0] = opCode[0]
    PROVE  /\ Unfinished' = Unfinished /\ fragments' = fragments /\ opcode' = opcode
           /\ TakenInv'
<1>1. taken \in Nat /\ fragments \in Seq(ByteType)
  BY PlaceFacts DEF TakenInv
<1>2. Unfinished' = Unfinished
  BY <1>1, UnfinishedAt, UnfinishedThen DEF Unfinished
<1>3. part' = Len(t)
  BY DEF part
<1>4. SubSeq(fragmentBuffer', 1, Len(fragmentBuffer') - part') = fragments
  BY <1>1, <1>3, FrontOf
<1>5. fragments' = fragments
  BY <1>2, <1>4 DEF fragments
<1>6. opcode' = opcode
  BY <1>2 DEF opcode
<1>7. TakenInv'
  BY <1>1, <1>2, <1>5 DEF TakenInv
<1> QED
  BY <1>2, <1>5, <1>6, <1>7

(* Between two frames fragmentBuffer holds the unfinished message.           *)
LEMMA DoneBars ==
    ASSUME stream' = stream, NEW t \in Nat, HandledFrames' = 1 .. t, taken' = t,
           status' = "open", wantsHead', fragmentBuffer' \in Seq(ByteType),
           OpenAfter(t) \/ fragmentBuffer' = <<>>
    PROVE  /\ Unfinished' <=> OpenAfter(t)
           /\ fragments' = fragmentBuffer'
           /\ opcode' = IF OpenAfter(t) THEN opCode'[0] ELSE 0
<1>1. Unfinished' <=> OpenAfter(t)
  BY UnfinishedThen
<1>2. part' = 0
  BY DEF part
<1>3. Len(fragmentBuffer') \in Nat
  BY LenProperties
<1>4. SubSeq(fragmentBuffer', 1, Len(fragmentBuffer') - part') = fragmentBuffer'
  BY <1>2, <1>3, SubSeqFull
<1> QED
  BY <1>1, <1>4 DEF fragments, opcode

-----------------------------------------------------------------------------
(* What the parser refuses.                                                  *)

(* A header that can be read is that of the frame after those dealt with.    *)
LEMMA HeadIs ==
    ASSUME ParserInv, MessageInv, pc = "head", length >= 6
    PROVE  /\ status = "open" /\ wantsHead /\ TakenInv /\ BetweenInv
           /\ stream \in Streams
           /\ taken \in 0 .. Len(stream) - 1 /\ taken < Len(stream)
           /\ frame = current /\ current \in FrameType
           /\ src = current.begin /\ src \in Nat
<1>1. status = "open" /\ TypeOK /\ PlaceInv
  BY DEF ParserInv
<1>2. wantsHead /\ stream \in Streams /\ arrived \in 0 .. End(stream)
  BY <1>1 DEF PlaceInv, TypeOK
<1>3. TakenInv /\ BetweenInv
  BY <1>1, <1>2 DEF MessageInv
<1>4. Len(stream) \in Nat /\ taken \in 0 .. Len(stream) /\ src = Place(taken + 1)
  BY <1>2, <1>3, PlaceFacts DEF TakenInv, BetweenInv
<1>5. taken # Len(stream)
  <2>1. ASSUME taken = Len(stream) PROVE FALSE
    <3>1. src = End(stream)
      BY <1>4, <2>1 DEF Place
    <3>2. End(stream) \in Nat
      BY <1>2, StreamFacts
    <3> QED
      BY <1>2, <3>1, <3>2 DEF length
  <2> QED
    BY <2>1
<1>6. taken \in 0 .. Len(stream) - 1 /\ taken < Len(stream) /\ taken + 1 \in 1 .. Len(stream)
  BY <1>4, <1>5
<1>7. frame = current
  BY <1>2, <1>4, <1>6, FrameAt DEF current
<1>8. /\ \A k \in 1 .. Len(stream) : stream[k] \in FrameType /\ Place(k) = stream[k].begin
      /\ \A k \in 1 .. Len(stream) + 1 : Place(k) \in Nat
  BY <1>2, PlaceFacts
<1>9. current \in FrameType /\ Place(taken + 1) = current.begin
  BY <1>6, <1>8 DEF current
<1>10. current.begin \in Nat
  BY <1>9 DEF FrameType
<1> QED
  BY <1>1, <1>2, <1>3, <1>4, <1>6, <1>7, <1>9, <1>10

(* Inside an unfinished message a frame that begins another one is refused.  *)
LEMMA NestedRefused ==
    ASSUME UnnestedStreams, ParserInv, MessageInv, pc = "head", length >= 6, Unfinished,
           current.op \in {Text, Binary}, ~current.rsv, current.len <= MaxPayload
    PROVE  current.op = Text /\ ~lastFin
<1>1. /\ status = "open" /\ TakenInv /\ BetweenInv /\ stream \in Streams
      /\ taken \in 0 .. Len(stream) - 1
  BY HeadIs
<1>2. Len(stream) \in Nat /\ DOMAIN stream = 1 .. Len(stream)
  BY <1>1, PlaceFacts
<1>3. PICK k \in 1 .. taken : /\ stream[k].op <= Binary /\ ~stream[k].fin
                              /\ \A j \in k + 1 .. taken : stream[j].op > Binary
  BY <1>1, UnfinishedAt DEF OpenAfter
<1>4. k \in DOMAIN stream /\ taken + 1 \in DOMAIN stream /\ k < taken + 1
      /\ (taken + 1) - 1 = taken /\ taken # 0
  BY <1>1, <1>2, <1>3
<1>5. Nested(stream, k, taken + 1)
  BY <1>3, <1>4 DEF Nested, current
<1>6. current.op = Text /\ ~stream[(taken + 1) - 1].fin
  BY <1>1, <1>4, <1>5 DEF UnnestedStreams, current
<1> QED
  BY <1>1, <1>4, <1>6 DEF BetweenInv

(* The headers that are refused are those of frames that are not legal.      *)
LEMMA LegalIs ==
    ASSUME UnnestedStreams, ParserInv, MessageInv, pc = "head", length >= 6
    PROVE  FS!LegalFrame(current) <=> ~IllegalHeader /\ ~Refused
<1>1. /\ wantsHead /\ TakenInv /\ BetweenInv /\ frame = current /\ current \in FrameType
  BY HeadIs
<1>2. /\ opStack = IF Unfinished THEN 0 ELSE -1
      /\ ~lastFin => Unfinished
  BY <1>1 DEF BetweenInv
<1>3. opcode # 0 <=> Unfinished
  BY <1>1, OpcodeIs
<1>4. current.op \in 0 .. 15 /\ current.fin \in BOOLEAN /\ current.rsv \in BOOLEAN
      /\ current.len \in Nat /\ MaxPayload \in Nat
  BY <1>1, FrameParserAssumption DEF FrameType
<1>5. Unfinished /\ current.op \in {1, 2} /\ ~current.rsv /\ current.len <= MaxPayload
      => current.op = 1 /\ ~lastFin
  BY NestedRefused DEF Text, Binary
<1> DEFINE op == current.op
<1>6. IllegalHeader <=> \/ current.rsv \/ op \in 3 .. 7 \/ op > 10
                        \/ op > 2 /\ (~current.fin \/ current.head # 6)
  BY <1>1 DEF IllegalHeader, Pong, Binary
<1>7. Refused <=> \/ op # 0 /\ ~lastFin /\ op < 2
                  \/ op = 0 /\ ~Unfinished
                  \/ current.len > MaxPayload
  BY <1>1, <1>2 DEF Refused, Binary
<1>8. FS!LegalFrame(current) <=>
         /\ ~current.rsv /\ op \in {0, 1, 2, 8, 9, 10}
         /\ op > 2 => current.fin /\ current.head = 6
         /\ (op = 0 <=> Unfinished) \/ op > 2
         /\ current.len <= MaxPayload
  BY <1>3, <1>4 DEF FS!LegalFrame, FS!IsControl, FS!Text, FS!Binary, FS!Close, FS!Ping, FS!Pong
<1>9. op \in 0 .. 15
  BY <1>4
<1> HIDE DEF op
<1>10. Unfinished /\ op \in {1, 2} /\ ~current.rsv /\ current.len <= MaxPayload
       => op = 1 /\ ~lastFin
  BY <1>5 DEF op
<1>11. CASE op > 2
  BY <1>2, <1>4, <1>6, <1>7, <1>8, <1>9, <1>11
<1>12. CASE op = 0
  BY <1>2, <1>4, <1>6, <1>7, <1>8, <1>9, <1>12
<1>13. CASE op \in {1, 2}
  BY <1>2, <1>4, <1>6, <1>7, <1>8, <1>9, <1>10, <1>13
<1> QED
  BY <1>9, <1>11, <1>12, <1>13

-----------------------------------------------------------------------------
(* A frame that is dealt with.                                               *)

(* Three sequences put together.                                             *)
LEMMA Joined ==
    ASSUME NEW S, NEW s \in Seq(S), NEW t \in Seq(S), NEW u \in Seq(S), NEW r,
           r = s \o t
    PROVE  r \o u = s \o (t \o u)
  BY ConcatAssociative

(* A frame is a data frame or a control frame.                               *)
LEMMA DataOrControl ==
    ASSUME NEW op \in 0 .. 15
    PROVE  ~(op > Binary) <=> op <= Binary
  BY DEF Binary

(* Text is valid here and there alike.                                       *)
LEMMA Utf8Same ==
    ASSUME stream \in Streams, NEW s \in Seq(ByteType)
    PROVE  IsValidUtf8(s) <=> FS!ValidUtf8(stream, s)
<1>1. ASSUME NEW i \in DOMAIN s PROVE Junk(s[i]) <=> FS!Junk(stream, s[i])
  <2>1. s[i] \in ByteType
    BY ElementOfSeq, LenProperties
  <2>2. s[i].at \in Nat
    BY <2>1 DEF ByteType
  <2>3. ASSUME NEW k \in DOMAIN stream
        PROVE  s[i].at \in stream[k].begin + stream[k].head
                           .. stream[k].begin + FrameSize(stream[k]) - 1
               <=> /\ stream[k].begin + stream[k].head <= s[i].at
                   /\ s[i].at < stream[k].begin + stream[k].head + stream[k].len
    <3>1. stream[k] \in FrameType
      BY StreamFacts
    <3>2. stream[k].begin \in Nat /\ stream[k].head \in Nat /\ stream[k].len \in Nat
      BY <3>1 DEF FrameType
    <3> QED
      BY <2>2, <3>2 DEF FrameSize
  <2> QED
    BY <2>3 DEF Junk, FS!Junk
<1> QED
  BY <1>1 DEF IsValidUtf8, FS!ValidUtf8

(* What the current frame is.                                                *)
LEMMA CurrentFacts ==
    ASSUME stream \in Streams, taken \in 0 .. Len(stream), taken < Len(stream)
    PROVE  /\ Len(stream) \in Nat
           /\ taken \in 0 .. Len(stream) - 1 /\ taken + 1 \in 1 .. Len(stream)
           /\ current \in FrameType
           /\ current.len \in Nat /\ current.op \in 0 .. 15 /\ current.fin \in BOOLEAN
           /\ current.begin \in Nat /\ current.head \in {6, 8, 14} /\ payload \in Nat
           /\ Place(taken + 1) = current.begin
           /\ Place(taken + 2) = payload + current.len
           /\ Place(taken + 2) \in Nat
<1>1. Len(stream) \in Nat /\ taken \in 0 .. Len(stream) - 1 /\ taken + 1 \in 1 .. Len(stream)
      /\ (taken + 1) + 1 = taken + 2 /\ taken + 2 \in 1 .. Len(stream) + 1
  BY PlaceFacts
<1>2. /\ \A k \in 1 .. Len(stream) : /\ stream[k] \in FrameType /\ Place(k) = stream[k].begin
                                     /\ Place(k + 1) = stream[k].begin + FrameSize(stream[k])
      /\ \A k \in 1 .. Len(stream) + 1 : Place(k) \in Nat
  BY PlaceFacts
<1>3. current \in FrameType /\ Place(taken + 1) = current.begin
      /\ Place(taken + 2) = current.begin + FrameSize(current) /\ Place(taken + 2) \in Nat
  BY <1>1, <1>2 DEF current
<1>4. current.len \in Nat /\ current.op \in 0 .. 15 /\ current.fin \in BOOLEAN
      /\ current.begin \in Nat /\ current.head \in {6, 8, 14}
  BY <1>3 DEF FrameType
<1>5. payload \in Nat /\ current.begin + FrameSize(current) = payload + current.len
  <2>1. current.begin \in Nat /\ current.head \in Nat /\ current.len \in Nat
    BY <1>4
  <2>2. FrameSize(current) = current.head + current.len
    BY DEF FrameSize
  <2>3. payload = current.begin + current.head
    BY DEF payload
  <2> QED
    BY <2>1, <2>2, <2>3
<1> QED
  BY <1>1, <1>3, <1>4, <1>5

(* The payload of a frame that is taken, and how many are taken then.        *)
LEMMA TakenNext ==
    ASSUME stream \in Streams, stream' = stream, taken \in 0 .. Len(stream),
           taken < Len(stream), src' = Place(taken + 2)
    PROVE  /\ HandledFrames' = 1 .. taken + 1 /\ taken' = taken + 1
           /\ FS!Payload(current) = Bytes(payload, current.len)
           /\ Place(taken + 1)' = src'
<1> DEFINE t == taken + 1
<1>1. Len(stream) \in Nat /\ t \in 1 .. Len(stream) /\ Place(taken + 2) \in Nat
      /\ taken \in Int /\ t + 1 = taken + 2 /\ t \in 0 .. Len(stream)
  BY CurrentFacts
<1>2. ASSUME t < Len(stream) PROVE Place(t + 1) < Place(t + 2)
  <2>1. t + 1 \in 1 .. Len(stream) + 1 /\ t + 2 \in 1 .. Len(stream) + 1 /\ t + 1 < t + 2
    BY <1>1, <1>2
  <2> QED
    BY <2>1, PlaceOrder
<1>3. Place(t + 1) <= src' /\ src' \in Nat /\ src' = Place(t + 1)
  BY <1>1
<1>4. t < Len(stream) => src' < Place(t + 2)
  BY <1>2, <1>3
<1> HIDE DEF t
<1>5. HandledFrames' = 1 .. t /\ taken' = t
  BY <1>1, <1>3, <1>4, TakenAfter
<1>6. Place(taken + 1)' = Place(t + 1)
  BY <1>5 DEF Place, End
<1>7. FS!Payload(current) = Bytes(payload, current.len)
  BY DEF FS!Payload, FS!Byte, Bytes, payload
<1> QED
  BY <1>3, <1>5, <1>6, <1>7 DEF t

\* The opcode of the message a data frame belongs to.
begun == IF current.op = 0 THEN opcode ELSE current.op

(* A data frame begins or goes on with a message of text or of binary data.  *)
LEMMA BegunFacts ==
    ASSUME stream \in Streams, TakenInv, taken < Len(stream), FS!LegalFrame(current)
    PROVE  /\ current.op <= Binary => begun \in {Text, Binary} /\ (current.op # 0 => ~Unfinished)
           /\ current.op > Binary => current.fin /\ begun = current.op
           /\ current.op \in 0 .. 15
<1>1. current.op \in 0 .. 15
  BY CurrentFacts DEF TakenInv
<1>2. /\ current.op \in {0, 1, 2, 8, 9, 10}
      /\ current.op > 2 => current.fin
      /\ (current.op = 0) = (opcode # 0) \/ current.op > 2
  BY DEF FS!LegalFrame, FS!IsControl, FS!Text, FS!Binary, FS!Close, FS!Ping, FS!Pong
<1>3. /\ opcode # 0 <=> Unfinished
      /\ Unfinished => opcode \in {1, 2}
  BY OpcodeIs DEF Text, Binary
<1> QED
  BY <1>1, <1>2, <1>3 DEF begun, Text, Binary

(* The parser is between two frames again.                                   *)
LEMMA TakenBetween ==
    ASSUME stream \in Streams, stream' = stream, TakenInv, status = "open",
           taken < Len(stream), FS!LegalFrame(current),
           src' = Place(taken + 2), lastFin' = current.fin,
           status' = "open", wantsHead', fragmentBuffer' \in Seq(ByteType),
           OpenAfter(taken + 1) \/ fragmentBuffer' = <<>>,
           OpenAfter(taken + 1) => opCode'[0] \in {Text, Binary},
           opStack' = IF OpenAfter(taken + 1) THEN 0 ELSE -1
    PROVE  /\ MessageInv'
           /\ fragments' = fragmentBuffer'
           /\ opcode' = IF OpenAfter(taken + 1) THEN opCode'[0] ELSE 0
<1>1. taken \in 0 .. Len(stream)
  BY DEF TakenInv
<1>2. HandledFrames' = 1 .. taken + 1 /\ taken' = taken + 1 /\ Place(taken + 1)' = src'
  BY <1>1, TakenNext
<1>3. taken + 1 \in 1 .. Len(stream) /\ Len(stream) \in Nat /\ taken \in 0 .. Len(stream) - 1
  BY <1>1, CurrentFacts
<1> DEFINE t == taken + 1
<1>4. t \in Nat /\ HandledFrames' = 1 .. t /\ taken' = t
  BY <1>2, <1>3
<1>5. (OpenAfter(t) \/ fragmentBuffer' = <<>>) /\ (OpenAfter(t) => opCode'[0] \in {Text, Binary})
      /\ opStack' = IF OpenAfter(t) THEN 0 ELSE -1
  OBVIOUS
<1>6. OpenAfter(t) <=> IF current.op > Binary THEN OpenAfter(taken) ELSE ~current.fin
  BY <1>3, OpenNext DEF current
<1>7. current.op > Binary => current.fin
  BY BegunFacts
<1>8. stream'[taken'].fin = current.fin /\ taken' # 0
  BY <1>2, <1>3 DEF current
<1>9. taken' \in 0 .. Len(stream')
  BY <1>2, <1>3
<1> HIDE DEF t
<1>10. /\ Unfinished' <=> OpenAfter(t)
       /\ fragments' = fragmentBuffer'
       /\ opcode' = IF OpenAfter(t) THEN opCode'[0] ELSE 0
  BY <1>4, <1>5, DoneBars
<1>11. TakenInv'
  BY <1>4, <1>5, <1>9, <1>10 DEF TakenInv
<1>12. BetweenInv'
  <2>1. opStack' = IF Unfinished' THEN 0 ELSE -1
    BY <1>5, <1>10
  <2>2. ~lastFin' => Unfinished'
    BY <1>6, <1>7, <1>10
  <2>3. lastFin' = (taken' = 0 \/ stream'[taken'].fin)
    <3>1. current.fin \in BOOLEAN
      BY <1>1, CurrentFacts
    <3> QED
      BY <1>8, <3>1
  <2> QED
    BY <1>2, <1>10, <2>1, <2>2, <2>3 DEF BetweenInv
<1>13. MessageInv'
  BY <1>11, <1>12 DEF MessageInv
<1> QED
  BY <1>10, <1>13 DEF t

(* A whole control frame is handed on, and leaves the message as it was.     *)
LEMMA ControlTaken ==
    ASSUME stream \in Streams, stream' = stream, TakenInv, status = "open",
           taken < Len(stream), FS!LegalFrame(current), current.op > Binary,
           src' = Place(taken + 2), lastFin' = current.fin,
           status' = "open" => wantsHead',
           status' = "open" => opStack' = IF Unfinished THEN 0 ELSE -1,
           Unfinished => opCode'[0] = opCode[0],
           NEW n \in 0 .. current.len, NEW data \in Seq(ByteType),
           Bytes(payload, n) \o data = Bytes(payload, current.len),
           fragmentBuffer = fragments \o Bytes(payload, n),
           controlTipLength = n,
           ControlFragment(data, 0, current.op, TRUE)
    PROVE  FS!Take /\ MessageInv'
<1>1. taken \in 0 .. Len(stream) /\ fragments \in Seq(ByteType)
      /\ (Unfinished => opCode[0] \in {Text, Binary})
  BY DEF TakenInv
<1>2. /\ HandledFrames' = 1 .. taken + 1 /\ taken' = taken + 1
      /\ FS!Payload(current) = Bytes(payload, current.len)
  BY <1>1, TakenNext
<1>3. /\ current.len \in Nat /\ payload \in Nat /\ taken \in 0 .. Len(stream) - 1
      /\ current.op \in 0 .. 15
  BY <1>1, CurrentFacts
<1>4. n \in Nat
  BY <1>3
<1> DEFINE b == Bytes(payload, n)
           w == Bytes(payload, current.len)
           buffer == fragmentBuffer \o data
           tip == controlTipLength + Len(data)
<1>5. b \in Seq(ByteType) /\ Len(b) = n /\ w \in Seq(ByteType) /\ Len(w) = current.len
      /\ b \o data = w /\ fragmentBuffer = fragments \o b
  BY <1>3, <1>4, BytesType
<1>6. n = 0 => b = <<>>
  <2>1. Len(b) = 0 => b = <<>>
    BY <1>5, EmptySeq
  <2> QED
    BY <1>5, <2>1
<1> HIDE DEF b, w
<1>7. Len(w) = tip
  <2>1. Len(b \o data) = Len(b) + Len(data)
    BY <1>5, ConcatProperties
  <2> QED
    BY <1>5, <2>1
<1>8. buffer = fragments \o w
  <2>1. /\ fragments \in Seq(ByteType) /\ b \in Seq(ByteType) /\ data \in Seq(ByteType)
        /\ fragmentBuffer = fragments \o b
    BY <1>1, <1>5
  <2>2. fragmentBuffer \o data = fragments \o (b \o data)
    BY ONLY <2>1, Joined
  <2> QED
    BY <1>5, <2>2 DEF buffer
<1> HIDE DEF buffer, tip
<1>9. /\ SubSeq(buffer, 1, Len(buffer) - tip) = fragments
      /\ SubSeq(buffer, Len(buffer) - tip + 1, Len(buffer)) = w
  BY <1>1, <1>5, <1>7, <1>8, FrontOf, BackOf
<1>10. controlTipLength = 0 => data = w
  BY <1>5, <1>6, ConcatEmptySeq
<1>11. /\ delivered' = Append(delivered, [op |-> current.op, data |-> w])
       /\ current.op = Close => status' = "shuttingDown"
       /\ status' = "open" => fragmentBuffer' = fragments
  <2>1. /\ delivered' = Append(delivered, [op |-> current.op, data |->
                           IF controlTipLength = 0 THEN data
                           ELSE SubSeq(buffer, Len(buffer) - tip + 1, Len(buffer))])
        /\ current.op = Close => status' = "shuttingDown"
        /\ status' = "open" => fragmentBuffer' = SubSeq(buffer, 1, Len(buffer) - tip)
    BY DEF ControlFragment, Deliver, buffer, tip
  <2> QED
    BY <1>9, <1>10, <2>1
<1>12. OpenAfter(taken + 1) <=> Unfinished
  <2>1. OpenAfter(taken + 1) <=> OpenAfter(taken)
    BY <1>3, OpenNext DEF current
  <2> QED
    BY <2>1, UnfinishedAt
<1>13. ASSUME status' = "open"
       PROVE  MessageInv' /\ fragments' = fragments /\ opcode' = opcode
  <2>1. ~Unfinished => fragments = <<>>
    BY DEF fragments
  <2>2. /\ MessageInv' /\ fragments' = fragmentBuffer'
        /\ opcode' = IF OpenAfter(taken + 1) THEN opCode'[0] ELSE 0
    BY <1>1, <1>11, <1>12, <1>13, <2>1, TakenBetween
  <2>3. opcode' = opcode
    BY <1>12, <2>2 DEF opcode
  <2> QED
    BY <1>11, <1>13, <2>2, <2>3
<1>14. ASSUME status' # "open" PROVE MessageInv' /\ fragments' = <<>> /\ opcode' = 0
  BY <1>14, ClosedBars
<1>15. FS!TakeControl
  <2>1. FS!IsControl(FS!next) /\ FS!next = current
    BY DEF FS!IsControl, FS!next, current, FS!Binary, Binary
  <2>2. delivered' = Append(delivered, [op |-> FS!next.op, data |-> FS!Payload(FS!next)])
    BY <1>2, <1>11, <2>1 DEF w
  <2>3. (status' = "open") \in IF FS!next.op = FS!Close THEN {FALSE} ELSE BOOLEAN
    BY <1>11, <2>1 DEF FS!Close, Close
  <2>4. IF status' = "open" THEN UNCHANGED <<fragments, opcode>> ELSE FS!Unfinished(0, <<>>)
    BY <1>13, <1>14 DEF FS!Unfinished
  <2> QED
    BY <2>1, <2>2, <2>3, <2>4 DEF FS!TakeControl
<1>16. FS!Take
  BY <1>2, <1>15 DEF FS!Take, FS!next, current
<1> QED
  BY <1>13, <1>14, <1>16

(* A whole data frame is added to the message, which is handed on with the   *)
(* last one, unless it should be text and is not.                            *)
LEMMA DataTaken ==
    ASSUME stream \in Streams, stream' = stream, TakenInv, status = "open",
           taken < Len(stream), FS!LegalFrame(current), current.op <= Binary,
           src' = Place(taken + 2), lastFin' = current.fin,
           status' = "open" => wantsHead',
           status' = "open" => opStack' = IF current.fin THEN -1 ELSE 0,
           opCode'[0] = begun,
           NEW n \in 0 .. current.len, NEW data \in Seq(ByteType),
           Bytes(payload, n) \o data = Bytes(payload, current.len),
           fragmentBuffer = fragments \o Bytes(payload, n),
           DataFragment(data, 0, begun, current.fin)
    PROVE  FS!Take /\ MessageInv'
<1>1. taken \in 0 .. Len(stream) /\ fragments \in Seq(ByteType)
  BY DEF TakenInv
<1>2. /\ HandledFrames' = 1 .. taken + 1 /\ taken' = taken + 1
      /\ FS!Payload(current) = Bytes(payload, current.len)
  BY <1>1, TakenNext
<1>3. /\ current.len \in Nat /\ payload \in Nat /\ taken \in 0 .. Len(stream) - 1
      /\ current.op \in 0 .. 15 /\ current.fin \in BOOLEAN
  BY <1>1, CurrentFacts
<1>4. n \in Nat
  BY <1>3
<1>5. begun \in {Text, Binary}
  BY BegunFacts
<1> DEFINE b == Bytes(payload, n)
           w == Bytes(payload, current.len)
           message == fragments \o w
<1>6. b \in Seq(ByteType) /\ w \in Seq(ByteType)
      /\ b \o data = w /\ fragmentBuffer = fragments \o b
  BY <1>3, <1>4, BytesType
<1> HIDE DEF b, w
<1>7. fragmentBuffer \o data = message
  <2>1. /\ fragments \in Seq(ByteType) /\ b \in Seq(ByteType) /\ data \in Seq(ByteType)
        /\ fragmentBuffer = fragments \o b
    BY <1>1, <1>6
  <2>2. fragmentBuffer \o data = fragments \o (b \o data)
    BY ONLY <2>1, Joined
  <2> QED
    BY <1>6, <2>2
<1>8. message \in Seq(ByteType)
  BY <1>1, <1>6, ConcatProperties
<1> HIDE DEF message
<1>9. IsValidUtf8(message) <=> FS!ValidUtf8(stream, message)
  BY <1>8, Utf8Same
<1>10. \/ ~current.fin /\ fragmentBuffer' = message /\ delivered' = delivered /\ status' = status
       \/ /\ current.fin /\ begun = Text /\ ~IsValidUtf8(message)
          /\ status' = "closed" /\ delivered' = delivered
       \/ /\ current.fin /\ (begun = Text => IsValidUtf8(message))
          /\ delivered' = Append(delivered, [op |-> begun, data |-> message])
          /\ status' = "open" => fragmentBuffer' = <<>>
  BY <1>7 DEF DataFragment, ForceClose, Deliver
<1>11. OpenAfter(taken + 1) <=> ~current.fin
  <2>1. ~(current.op > Binary)
    BY <1>3, DataOrControl
  <2> QED
    BY <1>3, <2>1, OpenNext DEF current
<1>12. ASSUME status' = "open"
       PROVE  /\ MessageInv' /\ fragments' = fragmentBuffer'
              /\ opcode' = IF current.fin THEN 0 ELSE begun
  <2>1. fragmentBuffer' = IF current.fin THEN <<>> ELSE message
    BY <1>10, <1>12
  <2>2. fragmentBuffer' \in Seq(ByteType) /\ (current.fin => fragmentBuffer' = <<>>)
    BY <1>8, <2>1, EmptySeq
  <2>3. /\ MessageInv' /\ fragments' = fragmentBuffer'
        /\ opcode' = IF OpenAfter(taken + 1) THEN opCode'[0] ELSE 0
    BY <1>5, <1>11, <1>12, <2>2, TakenBetween
  <2> QED
    BY <1>11, <2>3
<1>13. ASSUME status' # "open" PROVE MessageInv' /\ fragments' = <<>> /\ opcode' = 0
  BY <1>13, ClosedBars
<1>14. /\ FS!next = current /\ FS!Begins = begun /\ ~FS!IsControl(FS!next)
       /\ FS!Payload(FS!next) = w
  <2>1. FS!next = current
    BY DEF FS!next, current
  <2>2. ~FS!IsControl(current)
    BY <1>3, DataOrControl DEF FS!IsControl, FS!Binary, Binary
  <2> QED
    BY <1>2, <2>1, <2>2 DEF FS!Begins, begun, w
<1>15. CASE ~current.fin
  <2>1. fragmentBuffer' = message /\ delivered' = delivered /\ status' = "open"
    BY <1>10, <1>15
  <2>2. FS!Unfinished(begun, message)
    BY <1>12, <1>15, <2>1 DEF FS!Unfinished
  <2>3. FS!TakeFragment
    BY <1>14, <1>15, <2>1, <2>2 DEF FS!TakeFragment, message
  <2> QED
    BY <1>2, <1>12, <1>14, <2>1, <2>3 DEF FS!Take
<1>16. CASE current.fin
  <2>1. FS!Unfinished(0, <<>>)
    BY <1>10, <1>12, <1>13, <1>16 DEF FS!Unfinished
  <2>2. IF begun = Text /\ ~FS!ValidUtf8(stream, message)
        THEN (status' = "open") = FALSE /\ delivered' = delivered
        ELSE /\ delivered' = Append(delivered, [op |-> begun, data |-> message])
             /\ (status' = "open") \in BOOLEAN
    BY <1>9, <1>10, <1>16
  <2>3. FS!TakeMessage
    BY <1>14, <1>16, <2>1, <2>2 DEF FS!TakeMessage, message, FS!Text, Text
  <2> QED
    BY <1>2, <1>12, <1>13, <1>14, <2>3 DEF FS!Take
<1> QED
  BY <1>3, <1>15, <1>16

-----------------------------------------------------------------------------
(* The steps of the parser.                                                  *)

\* What FrameStream sees of a step of the parser that is none of its own.
Unseen == /\ stream' = stream /\ taken' = taken /\ fragments' = fragments
          /\ opcode' = opcode /\ delivered' = delivered
          /\ (status' = "open") = (status = "open")

\* Nothing has been dealt with at first.
LEMMA InitStream == Init => FS!Init /\ MessageInv
<1> SUFFICES ASSUME Init PROVE FS!Init /\ MessageInv
  OBVIOUS
<1>1. stream \in Streams /\ src = 0 /\ status = "open" /\ wantsHead = TRUE
      /\ opStack = -1 /\ lastFin = TRUE /\ fragmentBuffer = <<>> /\ delivered = <<>>
  BY DEF Init
<1>2. Len(stream) \in Nat \ {0} /\ Place(1) = 0
  BY <1>1, PlaceFacts
<1>3. Place(0 + 1) <= 0 /\ (0 < Len(stream) => 0 < Place(0 + 2))
  <2>1. 1 \in 1 .. Len(stream) + 1 /\ 2 \in 1 .. Len(stream) + 1
    BY <1>2
  <2>2. Place(1) < Place(2)
    BY <1>1, <2>1, PlaceOrder
  <2> QED
    BY <1>2, <2>2
<1>4. HandledFrames = 1 .. 0
  <2>1. 0 \in 0 .. Len(stream) /\ 0 \in Nat
    BY <1>2
  <2>2. {k \in DOMAIN stream : Before(k, 0)} = 1 .. 0
    BY <1>1, <1>3, <2>1, HandledAt
  <2> QED
    BY <1>1, <2>2 DEF HandledFrames, Handled
<1>5. taken = 0
  BY <1>4, FS_Interval DEF taken
<1>6. ~Unfinished
  <2>1. 1 .. 0 = {}
    OBVIOUS
  <2> QED
    BY <1>4, <2>1 DEF Unfinished
<1>7. fragments = <<>> /\ opcode = 0
  BY <1>6 DEF fragments, opcode
<1>8. TakenInv
  BY <1>2, <1>4, <1>5, <1>6, <1>7, EmptySeq DEF TakenInv
<1>9. BetweenInv
  <2>1. taken + 1 = 1
    BY <1>5
  <2>2. src = Place(taken + 1)
    BY <1>1, <1>2, <2>1
  <2> QED
    BY <1>1, <1>5, <1>6, <1>7, <2>2 DEF BetweenInv
<1>10. MessageInv
  BY <1>1, <1>8, <1>9 DEF MessageInv
<1>11. FS!Init
  BY <1>1, <1>5, <1>7 DEF FS!Init
<1> QED
  BY <1>10, <1>11

(* A piece that arrives is not seen.                                         *)
LEMMA ReceiveStream ==
    ASSUME ParserInv, MessageInv, NEW n \in 1 .. End(stream), Receive(n)
    PROVE  Unseen /\ MessageInv'
<1>1. TypeOK /\ PlaceInv /\ status = "open" /\ pc = "idle" /\ src' = arrived - spillLength
      /\ status' = "open" /\ delivered' = delivered /\ stream' = stream
      /\ wantsHead' = wantsHead /\ pc' = IF wantsHead THEN "head" ELSE "payload"
  BY DEF ParserInv, Receive
<1>2. src' = src
  <2>1. CASE wantsHead
    BY <1>1, <2>1 DEF PlaceInv
  <2>2. CASE ~wantsHead
    <3>1. spillLength = 0 /\ src = arrived
      BY <1>1, <2>2 DEF PlaceInv, MessageInv
    <3>2. stream \in Streams /\ arrived \in 0 .. End(stream)
      BY <1>1 DEF TypeOK
    <3>3. arrived \in Nat
      BY <3>2, StreamFacts
    <3> QED
      BY <1>1, <3>1, <3>3
  <2> QED
    BY <1>1, <2>1, <2>2 DEF TypeOK
<1>3. UNCHANGED <<stream, src, wantsHead, opStack, lastFin, opCode, remainingBytes,
                  mask, fragmentBuffer, controlTipLength, status>>
  BY <1>2 DEF Receive, buffers
<1>4. /\ taken' = taken /\ fragments' = fragments /\ opcode' = opcode
      /\ TakenInv' = TakenInv /\ BetweenInv' = BetweenInv /\ WithinInv' = WithinInv
  BY <1>3, SameBars
<1>5. MessageInv'
  BY <1>1, <1>4 DEF MessageInv
<1> QED
  BY <1>1, <1>4, <1>5 DEF Unseen

(* Nor is a header that is put aside.                                        *)
LEMMA SpillStream ==
    ASSUME ParserInv, MessageInv, Spill
    PROVE  Unseen /\ MessageInv'
<1>1. status = "open" /\ PlaceInv /\ pc = "head" /\ wantsHead
  BY DEF ParserInv, Spill, PlaceInv
<1>2. UNCHANGED <<stream, src, wantsHead, opStack, lastFin, opCode, remainingBytes,
                  mask, fragmentBuffer, controlTipLength, status>> /\ delivered' = delivered
  BY DEF Spill, buffers
<1>3. /\ taken' = taken /\ fragments' = fragments /\ opcode' = opcode
      /\ TakenInv' = TakenInv /\ BetweenInv' = BetweenInv /\ WithinInv' = WithinInv
  BY <1>2, SameBars
<1>4. MessageInv'
  BY <1>1, <1>2, <1>3 DEF MessageInv
<1> QED
  BY <1>1, <1>2, <1>3, <1>4 DEF Unseen

(* A frame that is refused is the first one that is not legal.               *)
LEMMA RefuseStream ==
    ASSUME UnnestedStreams, ParserInv, MessageInv, RefuseFrame
    PROVE  FS!Refuse /\ MessageInv'
<1>1. pc = "head" /\ length >= 6 /\ (IllegalHeader \/ Refused)
      /\ status' = "closed" /\ delivered' = delivered /\ stream' = stream /\ src' = src
  BY DEF RefuseFrame, ForceClose
<1>2. status = "open" /\ taken < Len(stream)
  BY <1>1, HeadIs
<1>3. ~FS!LegalFrame(current)
  BY <1>1, LegalIs
<1>4. taken' = taken
  <2>1. HandledFrames' = HandledFrames
    BY <1>1 DEF HandledFrames, Handled, Before
  <2> QED
    BY <2>1 DEF taken
<1>5. fragments' = <<>> /\ opcode' = 0 /\ MessageInv'
  BY <1>1, ClosedBars
<1>6. ~FS!LegalFrame(FS!next)
  BY <1>3 DEF FS!next, current
<1> QED
  BY <1>1, <1>2, <1>4, <1>5, <1>6 DEF FS!Refuse, FS!Unfinished

(* What a header that is accepted does to the stack.                         *)
LEMMA AcceptFacts ==
    ASSUME UnnestedStreams, ParserInv, MessageInv, AcceptHead
    PROVE  /\ status = "open" /\ wantsHead /\ TakenInv /\ BetweenInv /\ stream \in Streams
           /\ taken \in 0 .. Len(stream) /\ taken < Len(stream)
           /\ frame = current /\ FS!LegalFrame(current)
           /\ src \in Nat /\ src = current.begin /\ src + current.head = payload
           /\ stream' = stream /\ lastFin' = current.fin
           /\ pushedCode[pushed] = begun /\ opCode' = pushedCode
           /\ current.op <= Binary => pushed = 0 /\ opCode'[0] = begun
           /\ current.op > Binary => /\ pushed = IF Unfinished THEN 1 ELSE 0
                                     /\ Unfinished => opCode'[0] = opCode[0]
                                     /\ opCode'[pushed] = current.op
           /\ fragmentBuffer = fragments /\ fragments \in Seq(ByteType)
           /\ controlTipLength = 0
<1>1. pc = "head" /\ length >= 6 /\ ~IllegalHeader /\ ~Refused
      /\ stream' = stream /\ lastFin' = frame.fin /\ opCode' = pushedCode
  BY DEF AcceptHead, HeadArrived
<1>2. /\ status = "open" /\ wantsHead /\ TakenInv /\ BetweenInv /\ stream \in Streams
      /\ taken \in 0 .. Len(stream) - 1 /\ taken < Len(stream)
      /\ frame = current /\ src = current.begin /\ src \in Nat
  BY <1>1, HeadIs
<1>3. FS!LegalFrame(current)
  BY <1>1, LegalIs
<1>4. taken \in 0 .. Len(stream)
  BY <1>2 DEF TakenInv
<1>5. /\ pushed \in 0 .. 1 /\ controlTipLength = 0
      /\ pushedCode[pushed] = IF frame.op = 0 THEN opCode[pushed] ELSE frame.op
  BY HeadFacts
<1>6. /\ opStack = IF Unfinished THEN 0 ELSE -1
      /\ fragmentBuffer = fragments /\ fragments \in Seq(ByteType)
  BY <1>2 DEF BetweenInv, TakenInv
<1>7. /\ current.op <= Binary => begun \in {Text, Binary} /\ (current.op # 0 => ~Unfinished)
      /\ current.op > Binary => current.fin /\ begun = current.op
      /\ current.op \in 0 .. 15
  BY <1>2, <1>3, BegunFacts
<1>8. current.op = 0 => current.op <= Binary
  BY DEF Binary
<1>9. /\ Unfinished => opcode = opCode[0] /\ opcode \in {Text, Binary}
      /\ ~Unfinished => opcode = 0
  BY <1>2, OpcodeIs
<1>10. current.op = 0 => Unfinished
  BY <1>7, <1>8, <1>9 DEF begun, Text, Binary
<1>11. current.op <= Binary => pushed = 0
  BY <1>2, <1>6, <1>7, <1>10 DEF pushed
<1>12. current.op > Binary => pushed = IF Unfinished THEN 1 ELSE 0
  <2>1. current.op > Binary => current.op # 0
    BY DEF Binary
  <2> QED
    BY <1>2, <1>6, <2>1 DEF pushed
<1>13. pushedCode[pushed] = begun
  <2>1. CASE current.op = 0
    BY <1>2, <1>5, <1>8, <1>9, <1>10, <1>11, <2>1 DEF begun
  <2>2. CASE current.op # 0
    BY <1>2, <1>5, <2>2 DEF begun
  <2> QED
    BY <2>1, <2>2
<1>14. current.op > Binary /\ Unfinished => pushedCode[0] = opCode[0]
  <2>1. opCode \in [0 .. 1 -> 0 .. 15]
    BY DEF ParserInv, TypeOK
  <2> QED
    BY <1>12, <2>1 DEF pushedCode
<1>15. src + current.head = payload
  BY <1>2 DEF payload
<1>16. lastFin' = current.fin
  BY <1>1, <1>2
<1>17. current.op <= Binary => opCode'[0] = begun
  BY <1>1, <1>11, <1>13
<1>18. current.op > Binary => opCode'[pushed] = current.op /\ (Unfinished => opCode'[0] = opCode[0])
  BY <1>1, <1>7, <1>13, <1>14
<1> QED
  BY <1>1, <1>2, <1>3, <1>4, <1>5, <1>6, <1>11, <1>12, <1>13, <1>15, <1>16, <1>17, <1>18

(* The whole frame is there.                                                 *)
LEMMA WholeStream ==
    ASSUME UnnestedStreams, ParserInv, MessageInv, WholeFrame
    PROVE  FS!Take /\ MessageInv'
<1>1. AcceptHead
  BY DEF WholeFrame
<1>2. /\ status = "open" /\ wantsHead /\ TakenInv /\ stream \in Streams
      /\ taken \in 0 .. Len(stream) /\ taken < Len(stream)
      /\ frame = current /\ FS!LegalFrame(current)
      /\ src \in Nat /\ src = current.begin /\ src + current.head = payload
      /\ stream' = stream /\ lastFin' = current.fin
  BY <1>1, AcceptFacts
<1>3. /\ pushedCode[pushed] = begun
      /\ current.op <= Binary => pushed = 0 /\ opCode'[0] = begun
      /\ current.op > Binary => /\ pushed = IF Unfinished THEN 1 ELSE 0
                                /\ Unfinished => opCode'[0] = opCode[0]
      /\ fragmentBuffer = fragments /\ fragments \in Seq(ByteType)
      /\ controlTipLength = 0
  BY <1>1, AcceptFacts
<1>4. /\ current.len \in Nat /\ current.fin \in BOOLEAN /\ current.op \in 0 .. 15
      /\ payload \in Nat /\ current.head \in {6, 8, 14}
      /\ Place(taken + 2) = payload + current.len
  BY <1>2, CurrentFacts
<1> DEFINE data == Unmasked(payload, current.len, FreshMask)
<1>5. data = Bytes(payload, current.len)
  BY <1>4, FirstBytes
<1>6. HandleFragment(data, 0, begun, current.fin)
  BY <1>2, <1>3 DEF WholeFrame
<1> HIDE DEF data
<1>7. /\ status' = "open" => wantsHead'
      /\ opStack' = IF current.fin /\ status' = "open" THEN pushed - 1 ELSE pushed
  BY <1>2 DEF WholeFrame
<1>8. src' = Place(taken + 2)
  <2>1. src' = src + FrameSize(current)
    BY <1>2 DEF WholeFrame
  <2>2. FrameSize(current) = current.head + current.len
    BY DEF FrameSize
  <2>3. current.head \in Nat
    BY <1>4
  <2> QED
    BY <1>2, <1>4, <2>1, <2>2, <2>3
<1>9. /\ data \in Seq(ByteType)
      /\ Bytes(payload, 0) \o data = Bytes(payload, current.len)
      /\ fragmentBuffer = fragments \o Bytes(payload, 0)
      /\ 0 \in 0 .. current.len
  <2>1. Bytes(payload, 0) \in Seq(ByteType) /\ Len(Bytes(payload, 0)) = 0
    BY <1>4, BytesType
  <2>2. Bytes(payload, 0) = <<>>
    BY <2>1, EmptySeq
  <2>3. Bytes(payload, current.len) \in Seq(ByteType)
    BY <1>4, BytesType
  <2> QED
    BY <1>3, <1>4, <1>5, <2>2, <2>3, ConcatEmptySeq
<1>10. /\ current.op <= Binary => begun \in {Text, Binary}
       /\ current.op > Binary => current.fin /\ begun = current.op
  BY <1>2, BegunFacts
<1>11. CASE current.op <= Binary
  <2>1. begun <= Binary
    BY <1>10, <1>11 DEF Text, Binary
  <2>2. DataFragment(data, 0, begun, current.fin)
    BY <1>6, <2>1 DEF HandleFragment
  <2>3. status' = "open" => opStack' = IF current.fin THEN -1 ELSE 0
    BY <1>3, <1>7, <1>11
  <2>4. opCode'[0] = begun
    BY <1>3, <1>11
  <2>5. status' = "open" => wantsHead'
    BY <1>7
  <2> QED
    BY <1>2, <1>8, <1>9, <1>11, <2>2, <2>3, <2>4, <2>5, DataTaken
<1>12. CASE current.op > Binary
  <2>1. current.fin /\ begun = current.op
    BY <1>10, <1>12
  <2>2. ~(begun <= Binary)
    BY <1>4, <1>12, <2>1, DataOrControl
  <2>3. ControlFragment(data, 0, current.op, TRUE)
    BY <1>6, <2>1, <2>2 DEF HandleFragment
  <2>4. status' = "open" => opStack' = IF Unfinished THEN 0 ELSE -1
    BY <1>3, <1>7, <1>12, <2>1
  <2>5. /\ Unfinished => opCode'[0] = opCode[0]
        /\ controlTipLength = 0
    BY <1>3, <1>12
  <2>6. status' = "open" => wantsHead'
    BY <1>7
  <2> QED
    BY <1>2, <1>8, <1>9, <1>12, <2>3, <2>4, <2>5, <2>6, ControlTaken
<1> QED
  BY <1>4, <1>11, <1>12, DataOrControl

(* Inside a frame.                                                           *)
LEMMA WithinFacts ==
    ASSUME ParserInv, MessageInv, pc = "payload"
    PROVE  /\ status = "open" /\ TakenInv /\ stream \in Streams
           /\ taken \in 0 .. Len(stream) /\ taken < Len(stream)
           /\ FS!LegalFrame(current) /\ lastFin = current.fin
           /\ remainingBytes \in Nat /\ came \in Nat /\ came \in 0 .. current.len
           /\ came + remainingBytes = current.len
           /\ src = payload + came /\ mask = MaskAfter(came)
           /\ fragmentBuffer = fragments \o Bytes(payload, came)
           /\ opCode[opStack] = begun
           /\ current.op <= Binary => opStack = 0 /\ opCode[0] = begun
           /\ current.op > Binary => /\ opStack = IF Unfinished THEN 1 ELSE 0
                                     /\ controlTipLength = came
<1>1. status = "open" /\ TypeOK /\ PlaceInv
  BY DEF ParserInv
<1>2. ~wantsHead /\ stream \in Streams
  BY <1>1 DEF PlaceInv, TypeOK
<1>3. TakenInv /\ WithinInv
  BY <1>1, <1>2 DEF MessageInv
<1>4. taken \in 0 .. Len(stream) /\ taken < Len(stream) /\ FS!LegalFrame(current)
      /\ remainingBytes \in 1 .. current.len
  BY <1>3 DEF TakenInv, WithinInv
<1>5. current.len \in Nat /\ current.op \in 0 .. 15
  BY <1>2, <1>4, CurrentFacts
<1>6. remainingBytes \in Nat /\ came \in Nat /\ came \in 0 .. current.len
      /\ came + remainingBytes = current.len
  BY <1>4, <1>5 DEF came
<1>7. CASE current.op <= Binary
  <2>1. opStack = 0 /\ opCode[0] = begun
    BY <1>3, <1>5, <1>7, DataOrControl DEF WithinInv, begun
  <2> QED
    BY <1>1, <1>2, <1>3, <1>4, <1>5, <1>6, <1>7, <2>1, DataOrControl DEF WithinInv
<1>8. CASE current.op > Binary
  <2>1. /\ opStack = IF Unfinished THEN 1 ELSE 0
        /\ opCode[opStack] = current.op
        /\ controlTipLength = came
    BY <1>3, <1>8 DEF WithinInv
  <2>2. begun = current.op
    BY <1>2, <1>3, <1>4, <1>8, BegunFacts
  <2> QED
    BY <1>1, <1>2, <1>3, <1>4, <1>5, <1>6, <1>8, <2>1, <2>2, DataOrControl DEF WithinInv
<1> QED
  BY <1>5, <1>7, <1>8, DataOrControl

(* The rest of the payload is there.                                         *)
LEMMA RestStream ==
    ASSUME ParserInv, MessageInv, RestOfFrame
    PROVE  FS!Take /\ MessageInv'
<1>1. pc = "payload" /\ stream' = stream /\ lastFin' = lastFin /\ opCode' = opCode
      /\ src' = src + remainingBytes /\ (status' = "open" => wantsHead')
      /\ opStack' = IF lastFin /\ status' = "open" THEN opStack - 1 ELSE opStack
  BY DEF RestOfFrame
<1>2. /\ status = "open" /\ TakenInv /\ stream \in Streams
      /\ taken \in 0 .. Len(stream) /\ taken < Len(stream)
      /\ FS!LegalFrame(current) /\ lastFin = current.fin
      /\ remainingBytes \in Nat /\ came \in Nat /\ came \in 0 .. current.len
      /\ came + remainingBytes = current.len
      /\ src = payload + came /\ mask = MaskAfter(came)
  BY <1>1, WithinFacts
<1>3. /\ fragmentBuffer = fragments \o Bytes(payload, came)
      /\ opCode[opStack] = begun
      /\ current.op <= Binary => opStack = 0 /\ opCode[0] = begun
      /\ current.op > Binary => /\ opStack = IF Unfinished THEN 1 ELSE 0
                                /\ controlTipLength = came
  BY <1>1, WithinFacts
<1>4. /\ current.len \in Nat /\ current.fin \in BOOLEAN /\ current.op \in 0 .. 15
      /\ payload \in Nat /\ Place(taken + 2) = payload + current.len
  BY <1>2, CurrentFacts
<1> DEFINE data == Unmasked(payload + came, remainingBytes, MaskAfter(came))
<1>5. data \in Seq(ByteType) /\ Bytes(payload, came) \o data = Bytes(payload, current.len)
  <2>1. /\ data \in Seq(ByteType)
        /\ Bytes(payload, came) \o data = Bytes(payload, came + remainingBytes)
    BY <1>2, <1>4, MoreBytes
  <2> QED
    BY <1>2, <2>1
<1>6. HandleFragment(data, 0, begun, current.fin)
  BY <1>2, <1>3 DEF RestOfFrame
<1> HIDE DEF data
<1>7. src' = Place(taken + 2)
  BY <1>1, <1>2, <1>4
<1>8. /\ current.op <= Binary => begun \in {Text, Binary}
      /\ current.op > Binary => current.fin /\ begun = current.op
  BY <1>2, BegunFacts
<1>9. lastFin' = current.fin
  BY <1>1, <1>2
<1>10. CASE current.op <= Binary
  <2>1. begun <= Binary
    BY <1>8, <1>10 DEF Text, Binary
  <2>2. DataFragment(data, 0, begun, current.fin)
    BY <1>6, <2>1 DEF HandleFragment
  <2>3. status' = "open" => opStack' = IF current.fin THEN -1 ELSE 0
    BY <1>1, <1>2, <1>3, <1>10
  <2>4. opCode'[0] = begun
    BY <1>1, <1>3, <1>10
  <2> QED
    BY <1>1, <1>2, <1>3, <1>5, <1>7, <1>9, <1>10, <2>2, <2>3, <2>4, DataTaken
<1>11. CASE current.op > Binary
  <2>1. current.fin /\ begun = current.op
    BY <1>8, <1>11
  <2>2. ~(begun <= Binary)
    BY <1>4, <1>11, <2>1, DataOrControl
  <2>3. ControlFragment(data, 0, current.op, TRUE)
    BY <1>6, <2>1, <2>2 DEF HandleFragment
  <2>4. status' = "open" => opStack' = IF Unfinished THEN 0 ELSE -1
    BY <1>1, <1>2, <1>3, <1>11, <2>1
  <2>5. /\ Unfinished => opCode'[0] = opCode[0]
        /\ controlTipLength = came
    BY <1>1, <1>3, <1>11
  <2> QED
    BY <1>1, <1>2, <1>3, <1>5, <1>7, <1>9, <1>11, <2>3, <2>4, <2>5, ControlTaken
<1> QED
  BY <1>4, <1>10, <1>11, DataOrControl

(* More of the current frame is there, and its end is not: it stays current, *)
(* and what came of it is not seen.                                          *)
LEMMA PartStream ==
    ASSUME stream \in Streams, stream' = stream, TakenInv, status = "open",
           taken \in 0 .. Len(stream), taken < Len(stream), FS!LegalFrame(current),
           NEW n \in 0 .. current.len, NEW data \in Seq(ByteType), NEW k \in Nat,
           Bytes(payload, n) \o data = Bytes(payload, n + k),
           fragmentBuffer = fragments \o Bytes(payload, n),
           remainingBytes' \in 1 .. current.len, n + k + remainingBytes' = current.len,
           current.op > Binary => controlTipLength = n,
           Len(data) = k,
           HandleFragment(data, remainingBytes', begun, current.fin),
           src' = payload + (n + k), pc' = "idle", src' = arrived', ~wantsHead',
           lastFin' = current.fin, mask' = MaskAfter(n + k),
           current.op <= Binary => opStack' = 0 /\ opCode'[0] = begun,
           current.op > Binary => /\ opStack' = IF Unfinished THEN 1 ELSE 0
                                  /\ Unfinished => opCode'[0] = opCode[0]
                                  /\ opCode'[opStack'] = current.op
    PROVE  Unseen /\ MessageInv'
<1>1. /\ current.len \in Nat /\ current.fin \in BOOLEAN /\ current.op \in 0 .. 15
      /\ current.begin \in Nat /\ current.head \in Nat /\ payload \in Nat
      /\ taken + 1 \in 1 .. Len(stream)
      /\ Place(taken + 1) = current.begin /\ Place(taken + 2) = payload + current.len
  <2>1. /\ current.len \in Nat /\ current.fin \in BOOLEAN /\ current.op \in 0 .. 15
        /\ current.begin \in Nat /\ current.head \in {6, 8, 14} /\ payload \in Nat
        /\ taken + 1 \in 1 .. Len(stream)
        /\ Place(taken + 1) = current.begin /\ Place(taken + 2) = payload + current.len
    BY CurrentFacts
  <2>2. \A h \in {6, 8, 14} : h \in Nat
    OBVIOUS
  <2>3. current.head \in Nat
    BY ONLY <2>1, <2>2
  <2> QED
    BY <2>1, <2>3
<1>2. n \in Nat /\ remainingBytes' \in Nat /\ remainingBytes' # 0 /\ n + k \in Nat
      /\ n + k < current.len /\ current.len - remainingBytes' = n + k
  BY <1>1
<1>3. /\ current.op <= Binary => begun \in {Text, Binary} /\ (current.op # 0 => ~Unfinished)
      /\ current.op > Binary => current.fin /\ begun = current.op
  BY BegunFacts
<1>4. /\ fragmentBuffer' = fragmentBuffer \o data
      /\ delivered' = delivered /\ status' = "open"
      /\ current.op > Binary => controlTipLength' = n + k
  <2>1. CASE current.op <= Binary
    <3>1. begun <= Binary
      BY <1>3, <2>1 DEF Text, Binary
    <3>2. DataFragment(data, remainingBytes', begun, current.fin)
      BY <3>1 DEF HandleFragment
    <3>3. ~(current.op > Binary)
      BY <1>1, <2>1, DataOrControl
    <3> QED
      BY <1>2, <3>2, <3>3 DEF DataFragment
  <2>2. CASE current.op > Binary
    <3>1. ~(begun <= Binary)
      BY <1>1, <1>3, <2>2, DataOrControl
    <3>2. ControlFragment(data, remainingBytes', begun, current.fin)
      BY <3>1 DEF HandleFragment
    <3> QED
      BY <1>2, <2>2, <3>2 DEF ControlFragment
  <2> QED
    BY <1>1, <2>1, <2>2, DataOrControl
<1>5. /\ Bytes(payload, n) \in Seq(ByteType)
      /\ Bytes(payload, n + k) \in Seq(ByteType) /\ Len(Bytes(payload, n + k)) = n + k
      /\ fragments \in Seq(ByteType)
  BY <1>1, <1>2, BytesType DEF TakenInv
<1>6. fragmentBuffer' = fragments \o Bytes(payload, n + k)
  <2> DEFINE b == Bytes(payload, n)
  <2>1. /\ fragments \in Seq(ByteType) /\ b \in Seq(ByteType) /\ data \in Seq(ByteType)
        /\ fragmentBuffer = fragments \o b
    BY <1>5
  <2> HIDE DEF b
  <2>2. fragmentBuffer \o data = fragments \o (b \o data)
    BY ONLY <2>1, Joined
  <2> QED
    BY <1>4, <2>2 DEF b
<1>7. HandledFrames' = 1 .. taken /\ taken' = taken
  <2>1. src' \in Nat /\ Place(taken + 1) <= src' /\ src' < Place(taken + 2)
    <3>1. /\ payload = current.begin + current.head
          /\ current.begin \in Nat /\ current.head \in Nat /\ payload \in Nat
          /\ n + k \in Nat /\ current.len \in Nat /\ n + k < current.len
          /\ src' = payload + (n + k)
      BY <1>1, <1>2 DEF payload
    <3>2. src' \in Nat /\ current.begin <= src' /\ src' < payload + current.len
      BY ONLY <3>1
    <3> QED
      BY <1>1, <3>2
  <2> QED
    BY <2>1, TakenAfter
<1>8. Unfinished => opCode'[0] = opCode[0]
  <2>1. CASE current.op <= Binary
    <3>1. Unfinished => current.op = 0 /\ opcode = opCode[0]
      BY <1>3, <2>1, OpcodeIs
    <3> QED
      BY <2>1, <3>1 DEF begun
  <2>2. CASE current.op > Binary
    BY <2>2
  <2> QED
    BY <1>1, <2>1, <2>2, DataOrControl
<1>9. /\ Unfinished' = Unfinished /\ fragments' = fragments /\ opcode' = opcode
      /\ TakenInv'
  <2>1. stream[taken + 1].len - remainingBytes' = Len(Bytes(payload, n + k))
    BY <1>2, <1>5 DEF current
  <2> QED
    BY <1>4, <1>5, <1>6, <1>7, <1>8, <2>1, PartBars
<1>10. current' = current /\ payload' = payload /\ came' = n + k
  <2>1. current' = current
    BY <1>7 DEF current
  <2> QED
    BY <1>2, <2>1 DEF payload, came
<1>11. WithinInv'
  <2>1. FS!LegalFrame(current)'
    BY <1>9, <1>10 DEF FS!LegalFrame
  <2>2. taken' < Len(stream')
    BY <1>7
  <2>3. fragmentBuffer' = fragments' \o Bytes(payload', came')
    BY <1>6, <1>9, <1>10
  <2>4. Bytes(payload, came)' = Bytes(payload', came') /\ MaskAfter(came)' = MaskAfter(came')
    BY DEF Bytes, MaskAfter
  <2>5. src' = payload' + came' /\ mask' = MaskAfter(came') /\ lastFin' = current'.fin
        /\ remainingBytes' \in 1 .. current'.len
    BY <1>10
  <2>6. CASE current.op <= Binary
    <3>1. opStack' = 0 /\ opCode'[0] = IF current'.op = 0 THEN opcode' ELSE current'.op
      BY <1>9, <1>10, <2>6 DEF begun
    <3>2. ~(current'.op > Binary)
      BY <1>1, <1>10, <2>6, DataOrControl
    <3> QED
      BY <2>1, <2>2, <2>3, <2>4, <2>5, <3>1, <3>2 DEF WithinInv
  <2>7. CASE current.op > Binary
    <3>1. /\ opStack' = IF Unfinished' THEN 1 ELSE 0
          /\ opCode'[opStack'] = current'.op
          /\ controlTipLength' = came'
      BY <1>4, <1>9, <1>10, <2>7
    <3>2. current'.op > Binary
      BY <1>10, <2>7
    <3> QED
      BY <2>1, <2>2, <2>3, <2>4, <2>5, <3>1, <3>2 DEF WithinInv
  <2> QED
    BY <1>1, <2>6, <2>7, DataOrControl
<1>12. MessageInv'
  BY <1>9, <1>11 DEF MessageInv
<1> QED
  BY <1>4, <1>7, <1>9, <1>12 DEF Unseen

(* A part of the payload comes with the header.                              *)
LEMMA PartOfStream ==
    ASSUME UnnestedStreams, ParserInv, MessageInv, PartOfFrame
    PROVE  Unseen /\ MessageInv'
<1> DEFINE k == length - frame.head
<1>1. AcceptHead /\ FrameSize(frame) > length
  BY DEF PartOfFrame
<1>2. /\ status = "open" /\ wantsHead /\ TakenInv /\ stream \in Streams
      /\ taken \in 0 .. Len(stream) /\ taken < Len(stream)
      /\ frame = current /\ FS!LegalFrame(current)
      /\ src \in Nat /\ src = current.begin /\ src + current.head = payload
      /\ stream' = stream /\ lastFin' = current.fin
  BY <1>1, AcceptFacts
<1>3. /\ pushedCode[pushed] = begun
      /\ current.op <= Binary => pushed = 0 /\ opCode'[0] = begun
      /\ current.op > Binary => /\ pushed = IF Unfinished THEN 1 ELSE 0
                                /\ Unfinished => opCode'[0] = opCode[0]
                                /\ opCode'[pushed] = current.op
      /\ fragmentBuffer = fragments /\ fragments \in Seq(ByteType)
      /\ controlTipLength = 0
  BY <1>1, AcceptFacts
<1>4. /\ current.len \in Nat /\ current.fin \in BOOLEAN /\ current.op \in 0 .. 15
      /\ payload \in Nat /\ current.head \in {6, 8, 14} /\ current.begin \in Nat
  BY <1>2, CurrentFacts
<1>5. \A h \in {6, 8, 14} : h \in Nat
  OBVIOUS
<1>6. current.head \in Nat
  BY ONLY <1>4, <1>5
<1>7. arrived \in Nat /\ arrived' = arrived /\ length = arrived - src
      /\ length >= current.head /\ FrameSize(current) = current.head + current.len
  <2>1. stream \in Streams /\ arrived \in 0 .. End(stream)
    BY DEF ParserInv, TypeOK
  <2>2. arrived \in Nat
    BY <2>1, StreamFacts
  <2> QED
    BY <1>1, <1>2, <2>2 DEF AcceptHead, HeadArrived, length, FrameSize
<1>8. /\ k \in Nat /\ k < current.len /\ 0 + k = k /\ arrived = payload + k
      /\ current.len - k \in 1 .. current.len /\ 0 + k + (current.len - k) = current.len
  <2>1. /\ arrived \in Nat /\ src \in Nat /\ current.head \in Nat /\ current.len \in Nat
        /\ length = arrived - src /\ length >= current.head
        /\ current.head + current.len > length /\ src + current.head = payload
        /\ k = length - current.head
    BY <1>1, <1>2, <1>4, <1>6, <1>7
  <2> HIDE DEF k
  <2> QED
    BY ONLY <2>1
<1> DEFINE data == Unmasked(payload, k, FreshMask)
<1>9. data = Bytes(payload, k)
  <2> HIDE DEF k
  <2> QED
    BY <1>4, <1>8, FirstBytes
<1>10. /\ remainingBytes' = current.len - k
       /\ HandleFragment(data, remainingBytes', begun, current.fin)
       /\ mask' = RotateMask(4 - (k % 4), FreshMask)
       /\ opStack' = pushed /\ ~wantsHead' /\ src' = arrived /\ pc' = "idle"
  BY <1>2, <1>3 DEF PartOfFrame, StillToCome
<1> HIDE DEF k, data
<1>11. mask' = MaskAfter(0 + k)
  <2>1. FreshMask = MaskAfter(0)
    BY MaskFirst
  <2>2. 0 \in Nat /\ k \in Nat
    BY <1>8
  <2> QED
    BY <1>10, <2>1, <2>2, MaskRotated
<1>12. /\ data \in Seq(ByteType) /\ Len(data) = k
       /\ Bytes(payload, 0) \o data = Bytes(payload, 0 + k)
       /\ fragmentBuffer = fragments \o Bytes(payload, 0)
       /\ 0 \in 0 .. current.len
  <2>1. Bytes(payload, 0) \in Seq(ByteType) /\ Len(Bytes(payload, 0)) = 0
    BY <1>4, BytesType
  <2>2. Bytes(payload, 0) = <<>>
    BY <2>1, EmptySeq
  <2>3. Bytes(payload, k) \in Seq(ByteType) /\ Len(Bytes(payload, k)) = k
    BY <1>4, <1>8, BytesType
  <2>4. data \in Seq(ByteType) /\ Len(data) = k /\ <<>> \o data = data
    BY <1>9, <2>3, ConcatEmptySeq
  <2>5. fragments \o <<>> = fragments
    BY <1>3, ConcatEmptySeq
  <2>6. 0 \in 0 .. current.len /\ 0 + k = k
    BY <1>4, <1>8
  <2> QED
    BY <1>3, <1>9, <2>2, <2>4, <2>5, <2>6
<1>13. /\ remainingBytes' \in 1 .. current.len /\ 0 + k + remainingBytes' = current.len
       /\ src' = payload + (0 + k) /\ src' = arrived'
  BY <1>7, <1>8, <1>10
<1>14. /\ current.op <= Binary => opStack' = 0 /\ opCode'[0] = begun
       /\ current.op > Binary => /\ opStack' = IF Unfinished THEN 1 ELSE 0
                                 /\ Unfinished => opCode'[0] = opCode[0]
                                 /\ opCode'[opStack'] = current.op
       /\ current.op > Binary => controlTipLength = 0
  BY <1>3, <1>10
<1>15. HandleFragment(data, remainingBytes', begun, current.fin) /\ pc' = "idle" /\ ~wantsHead'
       /\ k \in Nat
  BY <1>8, <1>10
<1> QED
  BY <1>2, <1>11, <1>12, <1>13, <1>14, <1>15, PartStream

(* More of the payload comes, but not its end.                               *)
LEMMA MoreStream ==
    ASSUME ParserInv, MessageInv, MoreOfFrame
    PROVE  Unseen /\ MessageInv'
<1>1. /\ pc = "payload" /\ stream' = stream /\ lastFin' = lastFin /\ opCode' = opCode
      /\ arrived' = arrived /\ src' = arrived /\ wantsHead' = wantsHead /\ pc' = "idle"
      /\ opStack' = opStack /\ remainingBytes > length
      /\ remainingBytes' = remainingBytes - length
      /\ mask' = IF length % 4 # 0 THEN RotateMask(4 - (length % 4), mask) ELSE mask
  BY DEF MoreOfFrame
<1>2. /\ status = "open" /\ TakenInv /\ stream \in Streams
      /\ taken \in 0 .. Len(stream) /\ taken < Len(stream)
      /\ FS!LegalFrame(current) /\ lastFin = current.fin
      /\ remainingBytes \in Nat /\ came \in Nat /\ came \in 0 .. current.len
      /\ came + remainingBytes = current.len
      /\ src = payload + came /\ mask = MaskAfter(came)
  BY <1>1, WithinFacts
<1>3. /\ fragmentBuffer = fragments \o Bytes(payload, came)
      /\ opCode[opStack] = begun
      /\ current.op <= Binary => opStack = 0 /\ opCode[0] = begun
      /\ current.op > Binary => /\ opStack = IF Unfinished THEN 1 ELSE 0
                                /\ controlTipLength = came
  BY <1>1, WithinFacts
<1>4. current.len \in Nat /\ payload \in Nat
  BY <1>2, CurrentFacts
<1>5. ~wantsHead /\ length \in Nat /\ length = arrived - src /\ arrived \in Nat
  <2>1. /\ TypeOK /\ ~wantsHead /\ src \in 0 .. arrived
    BY <1>1, <1>2 DEF ParserInv, PlaceInv, TypeOK
  <2>2. arrived \in 0 .. End(stream) /\ stream \in Streams
    BY <2>1 DEF TypeOK
  <2>3. arrived \in Nat
    BY <2>2, StreamFacts
  <2> QED
    BY <2>1, <2>3 DEF length
<1> DEFINE k == length
           data == Unmasked(payload + came, k, MaskAfter(came))
<1>6. /\ data \in Seq(ByteType) /\ Len(data) = k
      /\ Bytes(payload, came) \o data = Bytes(payload, came + k)
  <2>1. payload \in Nat /\ came \in Nat /\ k \in Nat
    BY <1>2, <1>4, <1>5
  <2> QED
    BY ONLY <2>1, MoreBytes
<1>7. HandleFragment(data, remainingBytes', begun, current.fin)
  BY <1>2, <1>3 DEF MoreOfFrame
<1>8. mask' = MaskAfter(came + k)
  BY <1>1, <1>2, <1>5, MaskRotated
<1> HIDE DEF data
<1>9. /\ remainingBytes' \in 1 .. current.len /\ came + k + remainingBytes' = current.len
      /\ src' = payload + (came + k) /\ src' = arrived'
  <2>1. /\ remainingBytes \in Nat /\ came \in Nat /\ k \in Nat /\ current.len \in Nat
        /\ payload \in Nat /\ arrived \in Nat /\ k = arrived - src /\ src = payload + came
        /\ came + remainingBytes = current.len /\ remainingBytes > k
        /\ remainingBytes' = remainingBytes - k /\ src' = arrived /\ arrived' = arrived
    BY <1>1, <1>2, <1>4, <1>5
  <2> HIDE DEF k
  <2> QED
    BY ONLY <2>1
<1>10. /\ current.op <= Binary => opStack' = 0 /\ opCode'[0] = begun
       /\ current.op > Binary => /\ opStack' = IF Unfinished THEN 1 ELSE 0
                                 /\ Unfinished => opCode'[0] = opCode[0]
                                 /\ opCode'[opStack'] = current.op
       /\ current.op > Binary => controlTipLength = came
  <2>1. current.op > Binary => begun = current.op
    BY <1>2, BegunFacts
  <2> QED
    BY <1>1, <1>3, <2>1
<1>11. pc' = "idle" /\ ~wantsHead' /\ k \in Nat /\ lastFin' = current.fin
  BY <1>1, <1>2, <1>5
<1> HIDE DEF k
<1> QED
  BY <1>1, <1>2, <1>3, <1>6, <1>7, <1>8, <1>9, <1>10, <1>11, PartStream

(* MessageInv holds of every stream in which the parser takes no frame that  *)
(* begins a message inside another one, and each of its steps is one of      *)
(* FrameStream's or is not seen.                                             *)
LEMMA StreamStep ==
    ASSUME UnnestedStreams, ParserInv, MessageInv, [Next]_vars
    PROVE  [FS!Next]_(FS!vars) /\ MessageInv'
<1>1. Unseen => UNCHANGED FS!vars
  BY DEF Unseen, FS!vars
<1>2. CASE Parse
  <2>1. CASE RefuseFrame
    BY <2>1, RefuseStream DEF FS!Next
  <2>2. CASE WholeFrame
    BY <2>2, WholeStream DEF FS!Next
  <2>3. CASE PartOfFrame
    BY <1>1, <2>3, PartOfStream
  <2>4. CASE RestOfFrame
    BY <2>4, RestStream DEF FS!Next
  <2>5. CASE MoreOfFrame
    BY <1>1, <2>5, MoreStream
  <2>6. CASE Spill
    BY <1>1, <2>6, SpillStream
  <2> QED
    BY <1>2, <2>1, <2>2, <2>3, <2>4, <2>5, <2>6 DEF Parse
<1>3. ASSUME NEW n \in 1 .. End(stream), Receive(n)
      PROVE  [FS!Next]_(FS!vars) /\ MessageInv'
  BY <1>1, <1>3, ReceiveStream
<1>4. CASE UNCHANGED vars
  <2>1. UNCHANGED <<stream, src, wantsHead, opStack, lastFin, opCode, remainingBytes,
                    mask, fragmentBuffer, controlTipLength, status>>
        /\ pc' = pc /\ arrived' = arrived /\ delivered' = delivered
    BY <1>4 DEF vars, buffers
  <2>2. /\ taken' = taken /\ fragments' = fragments /\ opcode' = opcode
        /\ TakenInv' = TakenInv /\ BetweenInv' = BetweenInv /\ WithinInv' = WithinInv
    BY <2>1, SameBars
  <2>3. MessageInv'
    BY <2>1, <2>2 DEF MessageInv
  <2> QED
    BY <2>1, <2>2, <2>3 DEF FS!vars
<1> QED
  BY <1>2, <1>3, <1>4 DEF Next

(* Whatever the pieces a stream arrives in, the application is handed what   *)
(* FrameStream says: the messages of the legal frames, whole, in order and   *)
(* rightly unmasked, the control frames between them, and nothing behind the *)
(* first frame that is not legal.                                            *)
THEOREM StreamRefinement == ASSUME UnnestedStreams PROVE Spec => ImplementsFrameStream
<1>1. Init => FS!Init /\ MessageInv
  BY InitStream
<1>2. ParserInv /\ MessageInv /\ [Next]_vars => [FS!Next]_(FS!vars) /\ MessageInv'
  BY StreamStep
<1> QED
  BY <1>1, <1>2, ParserInvariant, PTL DEF Spec, ImplementsFrameStream, FS!Spec
=============================================================================
