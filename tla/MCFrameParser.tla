------------------------------ MODULE MCFrameParser ----------------------------
(* Streams of up to three frames for FrameParser.                           *)
EXTENDS FrameParser

Frame(op, fin, head, len) ==
    [op |-> op, fin |-> fin, rsv |-> FALSE, head |-> head, len |-> len, junk |-> FALSE]

\* First and last pieces of a message, control frames, and frames to be refused.
Whole == {Frame(Text, TRUE, 6, 0), Frame(Text, TRUE, 6, 5), Frame(Binary, TRUE, 8, 2),
          [Frame(Text, TRUE, 6, 1) EXCEPT !.junk = TRUE], Frame(Binary, TRUE, 14, 1)}
First == {Frame(Text, FALSE, 6, 1), Frame(Binary, FALSE, 6, 5),
          [Frame(Text, FALSE, 6, 1) EXCEPT !.junk = TRUE]}
Last == {Frame(0, TRUE, 6, 0), Frame(0, TRUE, 6, 6)}
Control == {Frame(Ping, TRUE, 6, 5), Frame(Pong, TRUE, 6, 0), Frame(Close, TRUE, 6, 2)}
Bad == {[Frame(Text, TRUE, 6, 1) EXCEPT !.rsv = TRUE], Frame(3, TRUE, 6, 1),
        Frame(Ping, FALSE, 6, 1), Frame(Ping, TRUE, 8, 1), Frame(Binary, TRUE, 6, 7),
        Frame(11, TRUE, 6, 0)}

Placed(s) == [k \in DOMAIN s |-> [op |-> s[k].op, fin |-> s[k].fin, rsv |-> s[k].rsv,
                 head |-> s[k].head, len |-> s[k].len, junk |-> s[k].junk,
                 begin |-> IF k = 1 THEN 0
                           ELSE IF k = 2 THEN FrameSize(s[1])
                           ELSE FrameSize(s[1]) + FrameSize(s[2])]]

MCStreams ==
    {Placed(s) : s \in
        (Whole \X (Whole \cup Control \cup Bad \cup First))         \* one after the other
        \cup {<<f, m, l>> : f \in First, l \in Last,
                           m \in Control \cup Bad \cup {Frame(0, FALSE, 6, 5)}}
        \cup (First \X {f \in First : f.op = Text})              \* message in a message
        \cup {<<l>> : l \in Last}}                                 \* nothing to continue

\* None of them is of the kind for which the parser departs from FrameStream.
ASSUME MCStreamsUnnested == UnnestedStreams
=============================================================================
