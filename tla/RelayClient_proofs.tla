-------------------------- MODULE RelayClient_proofs ---------------------------
(****************************************************************************)
(* Proofs that relay.js gives every answer to the callback it belongs to,   *)
(* and reports true departures, for any number of keys, values, peers and   *)
(* requests.  Nothing but its place connects an answer with its request, so *)
(* the invariant numbers the answers and requests that are on their way.    *)
(****************************************************************************)
EXTENDS RelayClient, SequenceTheorems, TLAPS

(* No id but the broadcast id passes for it, and applications leave opcode  *)
(* 200 to the library.                                                      *)
DistinctIds == \A p \in Peer \cup {RELAY_QUERY} : ~ArrayEq(BINARY_BROADCAST, p)
OwnOpcode == VARIABLE_REPLY \notin Op \cup {"userId"}

Values == Value \cup {NoValue}

ToRelay == [request : {"join"}] \cup [request : {"set"}, key : Key, value : Value]
           \cup [request : {"get"}, key : Key]

ToClient == [from : {RELAY_QUERY}, op : {"userId"}, body : {NoValue}]
            \cup [from : {RELAY_QUERY}, op : {VARIABLE_REPLY}, body : Values]
            \cup [from : Peer, op : Op, body : {NoValue}]
            \cup [from : {BINARY_BROADCAST}, op : {NoValue}, body : Peer]

Request == [key : Key, values : SUBSET Values]

TypeInv == /\ ready \in BOOLEAN
           /\ VariableCallbacks \in Seq(Nat)
           /\ up \in Seq(ToRelay) /\ down \in Seq(ToClient)
           /\ variables \in [Key -> Values]
           /\ requests \in Seq(Request)
           /\ answers \in Seq(SUBSET Values) /\ Len(answers) = Len(requests)

Departures == /\ told \subseteq left
              /\ \A i \in 1 .. Len(down) : down[i].from = BINARY_BROADCAST
                                              => down[i].body \in left

(* The callbacks that wait are those of the last requests.                  *)
Answered == Len(requests) - Len(VariableCallbacks)

Callbacks == /\ Len(VariableCallbacks) <= Len(requests)
             /\ \A i \in 1 .. Len(VariableCallbacks) : VariableCallbacks[i] = Answered + i
             /\ ~ready => requests = <<>>

Results == \A n \in 1 .. Len(requests) :
    IF n > Answered
    THEN answers[n] = {} /\ variables[requests[n].key] \in requests[n].values
    ELSE \E v \in requests[n].values : answers[n] = {v}

(* f[i] is `first' and the number of marked places up to i.                 *)
Counts(f, first, n, marked) ==
    /\ first \in Nat /\ n \in Nat
    /\ f \in [0 .. n -> Nat]
    /\ f[0] = first
    /\ \A i \in 1 .. n : f[i] = IF i \in marked THEN f[i - 1] + 1 ELSE f[i - 1]
    /\ \A i, j \in 0 .. n : i <= j => f[i] <= f[j]

Reply(m) == m.from = RELAY_QUERY /\ m.op = VARIABLE_REPLY
Replies == {i \in 1 .. Len(down) : Reply(down[i])}
Gets == {i \in 1 .. Len(up) : up[i].request = "get"}

(* The answers on their way to the client, and behind them the requests on  *)
(* their way to the relay, are those of the callbacks, in order.            *)
Order(f, g) ==
    /\ Counts(f, Answered, Len(down), Replies)
    /\ Counts(g, f[Len(down)], Len(up), Gets)
    /\ g[Len(up)] = Len(requests)
    /\ \A i \in Replies : down[i].body \in requests[f[i]].values
    /\ \A i \in Gets : up[i].key = requests[g[i]].key

InOrder == \E f, g : Order(f, g)

ClientInv == TypeInv /\ Departures /\ Callbacks /\ Results /\ InOrder

--------------------------------------------------------------------------------
(* Sequences. *)

(* A sequence with one more element.                                        *)
LEMMA Appended ==
  ASSUME NEW S, NEW s \in Seq(S), NEW x \in S
  PROVE  /\ Append(s, x) \in Seq(S)
         /\ Len(Append(s, x)) = Len(s) + 1 /\ Len(s) \in Nat
         /\ \A i \in 1 .. Len(s) : Append(s, x)[i] = s[i]
         /\ Append(s, x)[Len(s) + 1] = x
  BY AppendProperties, LenProperties

(* A sequence without its first element.                                    *)
LEMMA Dropped ==
  ASSUME NEW S, NEW s \in Seq(S), s # <<>>
  PROVE  /\ Tail(s) \in Seq(S)
         /\ Len(s) \in Nat \ {0} /\ Len(Tail(s)) = Len(s) - 1
         /\ \A i \in 1 .. Len(Tail(s)) : Tail(s)[i] = s[i + 1]
         /\ Head(s) = s[1] /\ Head(s) \in S
<1>1. Len(s) \in Nat \ {0}
  BY EmptySeq, LenProperties
<1>2. /\ Head(s) = s[1] /\ Head(s) \in S /\ Tail(s) \in Seq(S)
      /\ Len(Tail(s)) = Len(s) - 1
      /\ \A i \in 1 .. Len(Tail(s)) : Tail(s)[i] = s[i + 1]
  BY HeadTailProperties
<1> QED
  BY <1>1, <1>2

(* An element of a sequence.                                                *)
LEMMA Element ==
  ASSUME NEW S, NEW s \in Seq(S) PROVE Len(s) \in Nat /\ \A i \in 1 .. Len(s) : s[i] \in S
  BY ElementOfSeq, LenProperties

--------------------------------------------------------------------------------
(* Counting. *)

(* A count does not depend on the name of the marks.                        *)
LEMMA CountsSame ==
  ASSUME NEW f, NEW first, NEW n, NEW M, NEW L, Counts(f, first, n, M),
         \A i \in 1 .. n : i \in L <=> i \in M
  PROVE  Counts(f, first, n, L)
  BY DEF Counts

(* One more place.                                                          *)
LEMMA CountsAppend ==
  ASSUME NEW f, NEW first, NEW n, NEW L, Counts(f, first, n, L)
  PROVE  \E h : /\ Counts(h, first, n + 1, L)
                /\ \A i \in 0 .. n : h[i] = f[i]
                /\ h[n + 1] = IF n + 1 \in L THEN f[n] + 1 ELSE f[n]
<1> DEFINE last == IF n + 1 \in L THEN f[n] + 1 ELSE f[n]
           h == [i \in 0 .. n + 1 |-> IF i = n + 1 THEN last ELSE f[i]]
<1>1. n \in Nat /\ first \in Nat /\ last \in Nat /\ last >= f[n]
  BY DEF Counts
<1>2. \A i \in 0 .. n : h[i] = f[i] /\ f[i] \in Nat
  BY <1>1 DEF Counts
<1>3. h[n + 1] = last /\ h \in [0 .. n + 1 -> Nat]
  BY <1>1, <1>2
<1> HIDE DEF h
<1>4. ASSUME NEW i \in 1 .. n + 1
      PROVE  h[i] = IF i \in L THEN h[i - 1] + 1 ELSE h[i - 1]
  <2>1. CASE i = n + 1
    BY <1>1, <1>2, <1>3, <2>1
  <2>2. CASE i # n + 1
    <3>1. i \in 1 .. n /\ i - 1 \in 0 .. n /\ i \in 0 .. n
      BY <1>1, <2>2
    <3> QED
      BY <1>2, <3>1 DEF Counts
  <2> QED
    BY <2>1, <2>2
<1>5. ASSUME NEW i \in 0 .. n + 1, NEW j \in 0 .. n + 1, i <= j PROVE h[i] <= h[j]
  <2>1. CASE j = n + 1 /\ i = n + 1
    BY <1>1, <1>3, <2>1
  <2>2. CASE j = n + 1 /\ i # n + 1
    <3>1. i \in 0 .. n /\ n \in 0 .. n /\ i <= n
      BY <1>1, <2>2
    <3>2. f[i] <= f[n] /\ f[i] \in Nat /\ f[n] \in Nat
      BY <3>1 DEF Counts
    <3> QED
      BY <1>1, <1>2, <1>3, <2>2, <3>1, <3>2
  <2>3. CASE j # n + 1
    <3>1. i \in 0 .. n /\ j \in 0 .. n
      BY <1>1, <1>5, <2>3
    <3>2. f[i] <= f[j]
      BY <1>5, <3>1 DEF Counts
    <3> QED
      BY <1>2, <3>1, <3>2
  <2> QED
    BY <2>1, <2>2, <2>3
<1>6. h[0] = first
  BY <1>1, <1>2 DEF Counts
<1>7. Counts(h, first, n + 1, L)
  BY <1>1, <1>3, <1>4, <1>5, <1>6 DEF Counts
<1> QED
  BY <1>2, <1>3, <1>7

(* The marks behind the first place. *)
Shifted(M, n) == {i \in 1 .. n - 1 : i + 1 \in M}

(* The first place is gone.                                                 *)
LEMMA CountsTail ==
  ASSUME NEW f, NEW first, NEW n, NEW M, Counts(f, first, n, M), n > 0
  PROVE  /\ f[1] = (IF 1 \in M THEN first + 1 ELSE first) /\ f[1] <= f[n]
         /\ \E h : /\ Counts(h, f[1], n - 1, Shifted(M, n))
                   /\ \A i \in 0 .. n - 1 : h[i] = f[i + 1]
<1> DEFINE h == [i \in 0 .. n - 1 |-> f[i + 1]]
           L == Shifted(M, n)
<1>1. n \in Nat \ {0} /\ first \in Nat /\ f[1] \in Nat
  BY DEF Counts
<1>2. \A i \in 0 .. n : f[i] \in Nat
  BY DEF Counts
<1>3. f[1] = (IF 1 \in M THEN first + 1 ELSE first) /\ f[1] <= f[n]
  BY <1>1 DEF Counts
<1>4. h \in [0 .. n - 1 -> Nat] /\ \A i \in 0 .. n - 1 : h[i] = f[i + 1]
  BY <1>1, <1>2
<1> HIDE DEF h
<1>5. ASSUME NEW i \in 1 .. n - 1
      PROVE  /\ h[i] = IF i \in L THEN h[i - 1] + 1 ELSE h[i - 1]
             /\ h[i] >= h[i - 1]
  <2>1. /\ i \in 0 .. n - 1 /\ i - 1 \in 0 .. n - 1 /\ i + 1 \in 1 .. n /\ i \in 0 .. n
        /\ (i - 1) + 1 = i /\ (i + 1) - 1 = i
    BY <1>1
  <2>2. h[i] = f[i + 1] /\ h[i - 1] = f[i]
    BY <1>4, <2>1
  <2>3. f[i + 1] = IF i + 1 \in M THEN f[i] + 1 ELSE f[i]
    BY <2>1 DEF Counts
  <2>4. i \in L <=> i + 1 \in M
    BY <2>1 DEF Shifted
  <2> QED
    BY <1>2, <2>1, <2>2, <2>3, <2>4
<1>6. ASSUME NEW i \in 0 .. n - 1, NEW j \in 0 .. n - 1, i <= j PROVE h[i] <= h[j]
  <2>1. i + 1 \in 0 .. n /\ j + 1 \in 0 .. n /\ i + 1 <= j + 1
    BY <1>1, <1>6
  <2>2. f[i + 1] <= f[j + 1]
    BY <2>1 DEF Counts
  <2> QED
    BY <1>4, <2>2
<1>7. h[0] = f[1] /\ n - 1 \in Nat
  BY <1>1, <1>4
<1>8. Counts(h, f[1], n - 1, L)
  BY <1>1, <1>4, <1>5, <1>6, <1>7 DEF Counts
<1> QED
  BY <1>3, <1>4, <1>8

--------------------------------------------------------------------------------
(* Messages on their way. *)

(* A message is added to those for the relay.                               *)
LEMMA GetsAppend ==
  ASSUME TypeInv, NEW m \in ToRelay, up' = Append(up, m)
  PROVE  /\ up' \in Seq(ToRelay) /\ Len(up) \in Nat /\ Len(up') = Len(up) + 1
         /\ \A i \in 1 .. Len(up) : up'[i] = up[i] /\ (i \in Gets' <=> i \in Gets)
         /\ up'[Len(up) + 1] = m
         /\ Len(up) + 1 \in Gets' <=> m.request = "get"
<1>1. /\ up' \in Seq(ToRelay) /\ Len(up) \in Nat /\ Len(up') = Len(up) + 1
      /\ \A i \in 1 .. Len(up) : up'[i] = up[i]
      /\ up'[Len(up) + 1] = m
  BY Appended DEF TypeInv
<1> QED
  BY <1>1 DEF Gets

(* The relay takes a message.                                               *)
LEMMA GetsTail ==
  ASSUME TypeInv, up # <<>>, up' = Tail(up)
  PROVE  /\ up' \in Seq(ToRelay) /\ Len(up) \in Nat \ {0} /\ Len(up') = Len(up) - 1
         /\ \A i \in 1 .. Len(up) - 1 : up'[i] = up[i + 1] /\ (i \in Gets' <=> i + 1 \in Gets)
         /\ Head(up) = up[1] /\ Head(up) \in ToRelay
         /\ 1 \in Gets <=> Head(up).request = "get"
<1>1. /\ up' \in Seq(ToRelay) /\ Len(up) \in Nat \ {0} /\ Len(up') = Len(up) - 1
      /\ \A i \in 1 .. Len(up) - 1 : up'[i] = up[i + 1]
      /\ Head(up) = up[1] /\ Head(up) \in ToRelay
  BY Dropped DEF TypeInv
<1> QED
  BY <1>1 DEF Gets

(* A message is added to those for the client.                              *)
LEMMA RepliesAppend ==
  ASSUME TypeInv, NEW m \in ToClient, down' = Append(down, m)
  PROVE  /\ down' \in Seq(ToClient) /\ Len(down) \in Nat /\ Len(down') = Len(down) + 1
         /\ \A i \in 1 .. Len(down) : down'[i] = down[i] /\ (i \in Replies' <=> i \in Replies)
         /\ down'[Len(down) + 1] = m
         /\ Len(down) + 1 \in Replies' <=> Reply(m)
<1>1. /\ down' \in Seq(ToClient) /\ Len(down) \in Nat /\ Len(down') = Len(down) + 1
      /\ \A i \in 1 .. Len(down) : down'[i] = down[i]
      /\ down'[Len(down) + 1] = m
  BY Appended DEF TypeInv
<1> QED
  BY <1>1 DEF Replies, Reply

(* The client takes a message.                                              *)
LEMMA RepliesTail ==
  ASSUME TypeInv, down # <<>>, down' = Tail(down)
  PROVE  /\ down' \in Seq(ToClient) /\ Len(down) \in Nat \ {0} /\ Len(down') = Len(down) - 1
         /\ \A i \in 1 .. Len(down) - 1 : /\ down'[i] = down[i + 1]
                                          /\ i \in Replies' <=> i + 1 \in Replies
         /\ Head(down) = down[1] /\ Head(down) \in ToClient
         /\ 1 \in Replies <=> Reply(Head(down))
<1>1. /\ down' \in Seq(ToClient) /\ Len(down) \in Nat \ {0} /\ Len(down') = Len(down) - 1
      /\ \A i \in 1 .. Len(down) - 1 : down'[i] = down[i + 1]
      /\ Head(down) = down[1] /\ Head(down) \in ToClient
  BY Dropped DEF TypeInv
<1> QED
  BY <1>1 DEF Replies, Reply

(* The numbers on their way are those of requests without an answer.        *)
LEMMA Numbered ==
  ASSUME TypeInv, NEW f, NEW g, Order(f, g)
  PROVE  /\ \A i \in Replies : f[i] \in Answered + 1 .. Len(requests)
         /\ \A i \in Gets : g[i] \in Answered + 1 .. Len(requests)
         /\ Answered \in Nat /\ Answered <= Len(requests) /\ Len(requests) \in Nat
<1>1. /\ Counts(f, Answered, Len(down), Replies)
      /\ Counts(g, f[Len(down)], Len(up), Gets)
      /\ g[Len(up)] = Len(requests)
  BY DEF Order
<1>2. Len(down) \in Nat /\ Len(up) \in Nat /\ Len(requests) \in Nat
  BY Element DEF TypeInv
<1>3. /\ Answered \in Nat
      /\ \A i \in 0 .. Len(down) : f[i] \in Nat /\ Answered <= f[i] /\ f[i] <= f[Len(down)]
  <2>1. f[0] = Answered /\ Answered \in Nat /\ \A i \in 0 .. Len(down) : f[i] \in Nat
    BY <1>1 DEF Counts
  <2>2. ASSUME NEW i \in 0 .. Len(down) PROVE f[0] <= f[i] /\ f[i] <= f[Len(down)]
    BY <1>1, <1>2 DEF Counts
  <2> QED
    BY <2>1, <2>2
<1>4. /\ \A i \in 0 .. Len(up) : g[i] \in Nat /\ f[Len(down)] <= g[i] /\ g[i] <= Len(requests)
  <2>1. g[0] = f[Len(down)] /\ \A i \in 0 .. Len(up) : g[i] \in Nat
    BY <1>1 DEF Counts
  <2>2. ASSUME NEW i \in 0 .. Len(up) PROVE g[0] <= g[i] /\ g[i] <= g[Len(up)]
    BY <1>1, <1>2 DEF Counts
  <2> QED
    BY <1>1, <2>1, <2>2
<1>5. f[Len(down)] \in Nat /\ Answered <= f[Len(down)] /\ f[Len(down)] <= Len(requests)
  <2>1. Len(down) \in 0 .. Len(down) /\ 0 \in 0 .. Len(up)
    BY <1>2
  <2> QED
    BY <1>2, <1>3, <1>4, <2>1
<1>6. ASSUME NEW i \in Replies PROVE f[i] \in Answered + 1 .. Len(requests)
  <2>1. i \in 1 .. Len(down) /\ i \in 0 .. Len(down) /\ i - 1 \in 0 .. Len(down)
    BY <1>2 DEF Replies
  <2>2. f[i] = f[i - 1] + 1
    BY <1>1, <2>1 DEF Counts
  <2> QED
    BY <1>2, <1>3, <1>5, <2>1, <2>2
<1>7. ASSUME NEW i \in Gets PROVE g[i] \in Answered + 1 .. Len(requests)
  <2>1. i \in 1 .. Len(up) /\ i \in 0 .. Len(up) /\ i - 1 \in 0 .. Len(up)
    BY <1>2 DEF Gets
  <2>2. g[i] = g[i - 1] + 1
    BY <1>1, <2>1 DEF Counts
  <2> QED
    BY <1>2, <1>3, <1>4, <1>5, <2>1, <2>2
<1> QED
  BY <1>2, <1>3, <1>5, <1>6, <1>7

--------------------------------------------------------------------------------
(* Steps that neither ask nor answer. *)

(* Requests may only gain values.                                           *)
Grown == /\ Len(requests') = Len(requests)
         /\ \A n \in 1 .. Len(requests) : /\ requests'[n].key = requests[n].key
                                          /\ requests[n].values \subseteq requests'[n].values

(* Answers keep their numbers.                                              *)
LEMMA DownQuiet ==
  ASSUME TypeInv, Grown, NEW f, NEW a, Counts(f, a, Len(down), Replies),
         \A i \in Replies : /\ f[i] \in 1 .. Len(requests)
                            /\ down[i].body \in requests[f[i]].values,
         down' = down \/ \E m \in ToClient : ~Reply(m) /\ down' = Append(down, m)
  PROVE  \E h : /\ Counts(h, a, Len(down'), Replies')
                /\ h[Len(down')] = f[Len(down)]
                /\ \A i \in Replies' : down'[i].body \in requests'[h[i]].values
<1>1. CASE down' = down
  <2>1. Replies' = Replies
    BY <1>1 DEF Replies, Reply
  <2>2. \A i \in Replies' : down'[i].body \in requests'[f[i]].values
    BY <1>1, <2>1 DEF Grown
  <2> QED
    BY <1>1, <2>1, <2>2
<1>2. CASE \E m \in ToClient : ~Reply(m) /\ down' = Append(down, m)
  <2>1. PICK m \in ToClient : ~Reply(m) /\ down' = Append(down, m)
    BY <1>2
  <2>2. /\ Len(down) \in Nat /\ Len(down') = Len(down) + 1
        /\ \A i \in 1 .. Len(down) : down'[i] = down[i] /\ (i \in Replies' <=> i \in Replies)
        /\ Len(down) + 1 \notin Replies'
    BY <2>1, RepliesAppend
  <2>3. PICK h : /\ Counts(h, a, Len(down) + 1, Replies')
                 /\ \A i \in 0 .. Len(down) : h[i] = f[i]
                 /\ h[Len(down) + 1] = IF Len(down) + 1 \in Replies' THEN f[Len(down)] + 1
                                       ELSE f[Len(down)]
    <3>1. \A i \in 1 .. Len(down) : i \in Replies' <=> i \in Replies
      BY <2>2
    <3>2. Counts(f, a, Len(down), Replies')
      BY <3>1, CountsSame
    <3> QED
      BY ONLY <3>2, CountsAppend
  <2>4. ASSUME NEW i \in Replies' PROVE down'[i].body \in requests'[h[i]].values
    <3>1. i \in 1 .. Len(down) /\ i \in Replies
      BY <2>2 DEF Replies
    <3>2. h[i] = f[i] /\ down'[i] = down[i]
      BY <2>2, <2>3, <3>1
    <3> QED
      BY <3>1, <3>2 DEF Grown
  <2> QED
    BY <2>2, <2>3, <2>4
<1> QED
  BY <1>1, <1>2

(* The relay takes a message.                                               *)
LEMMA UpTail ==
  ASSUME TypeInv, NEW g, NEW a, Counts(g, a, Len(up), Gets), up # <<>>, up' = Tail(up)
  PROVE  /\ 1 \in Gets <=> Head(up).request = "get"
         /\ g[1] = IF Head(up).request = "get" THEN a + 1 ELSE a
         /\ \E h : /\ Counts(h, g[1], Len(up'), Gets')
                   /\ h[Len(up')] = g[Len(up)]
                   /\ \A i \in Gets' : /\ i + 1 \in Gets /\ h[i] = g[i + 1]
                                       /\ up'[i] = up[i + 1]
<1>1. /\ Len(up) \in Nat \ {0} /\ Len(up') = Len(up) - 1
      /\ \A i \in 1 .. Len(up) - 1 : up'[i] = up[i + 1] /\ (i \in Gets' <=> i + 1 \in Gets)
      /\ 1 \in Gets <=> Head(up).request = "get"
  BY GetsTail
<1>2. /\ g[1] = IF 1 \in Gets THEN a + 1 ELSE a
      /\ \E h : /\ Counts(h, g[1], Len(up) - 1, Shifted(Gets, Len(up)))
                /\ \A i \in 0 .. Len(up) - 1 : h[i] = g[i + 1]
  BY <1>1, CountsTail
<1>3. PICK h : /\ Counts(h, g[1], Len(up) - 1, Shifted(Gets, Len(up)))
               /\ \A i \in 0 .. Len(up) - 1 : h[i] = g[i + 1]
  BY <1>2
<1>4. \A i \in 1 .. Len(up) - 1 : i \in Gets' <=> i \in Shifted(Gets, Len(up))
  BY <1>1 DEF Shifted
<1>5. Counts(h, g[1], Len(up) - 1, Gets')
  BY ONLY <1>3, <1>4, CountsSame
<1>6. ASSUME NEW i \in Gets'
      PROVE  i + 1 \in Gets /\ h[i] = g[i + 1] /\ up'[i] = up[i + 1]
  <2>1. i \in 1 .. Len(up) - 1 /\ i \in 0 .. Len(up) - 1
    BY <1>1 DEF Gets
  <2> QED
    BY <1>1, <1>3, <2>1
<1>7. h[Len(up')] = g[Len(up)]
  <2>1. Len(up) - 1 \in 0 .. Len(up) - 1 /\ (Len(up) - 1) + 1 = Len(up)
    BY <1>1
  <2> QED
    BY <1>1, <1>3, <2>1
<1> QED
  BY <1>1, <1>2, <1>5, <1>6, <1>7

(* Requests keep their numbers.                                             *)
LEMMA UpQuiet ==
  ASSUME TypeInv, Grown, NEW g, NEW a, Counts(g, a, Len(up), Gets),
         g[Len(up)] = Len(requests),
         \A i \in Gets : g[i] \in 1 .. Len(requests) /\ up[i].key = requests[g[i]].key,
         \/ up' = up
         \/ \E m \in ToRelay : m.request # "get" /\ up' = Append(up, m)
         \/ up # <<>> /\ Head(up).request # "get" /\ up' = Tail(up)
  PROVE  \E h : /\ Counts(h, a, Len(up'), Gets')
                /\ h[Len(up')] = Len(requests')
                /\ \A i \in Gets' : up'[i].key = requests'[h[i]].key
<1>1. CASE up' = up
  <2>1. Gets' = Gets
    BY <1>1 DEF Gets
  <2>2. \A i \in Gets' : up'[i].key = requests'[g[i]].key
    BY <1>1, <2>1 DEF Grown
  <2> QED
    BY <1>1, <2>1, <2>2 DEF Grown
<1>2. CASE \E m \in ToRelay : m.request # "get" /\ up' = Append(up, m)
  <2>1. PICK m \in ToRelay : m.request # "get" /\ up' = Append(up, m)
    BY <1>2
  <2>2. /\ Len(up) \in Nat /\ Len(up') = Len(up) + 1
        /\ \A i \in 1 .. Len(up) : up'[i] = up[i] /\ (i \in Gets' <=> i \in Gets)
        /\ Len(up) + 1 \notin Gets'
    BY <2>1, GetsAppend
  <2>3. PICK h : /\ Counts(h, a, Len(up) + 1, Gets')
                 /\ \A i \in 0 .. Len(up) : h[i] = g[i]
                 /\ h[Len(up) + 1] = IF Len(up) + 1 \in Gets' THEN g[Len(up)] + 1
                                     ELSE g[Len(up)]
    <3>1. \A i \in 1 .. Len(up) : i \in Gets' <=> i \in Gets
      BY <2>2
    <3>2. Counts(g, a, Len(up), Gets')
      BY <3>1, CountsSame
    <3> QED
      BY <3>2, CountsAppend
  <2>4. ASSUME NEW i \in Gets' PROVE up'[i].key = requests'[h[i]].key
    <3>1. i \in 1 .. Len(up) /\ i \in Gets
      BY <2>2 DEF Gets
    <3>2. h[i] = g[i] /\ up'[i] = up[i]
      BY <2>2, <2>3, <3>1
    <3> QED
      BY <3>1, <3>2 DEF Grown
  <2> QED
    BY <2>2, <2>3, <2>4 DEF Grown
<1>3. CASE up # <<>> /\ Head(up).request # "get" /\ up' = Tail(up)
  <2>1. PICK h : /\ Counts(h, g[1], Len(up'), Gets')
                 /\ h[Len(up')] = g[Len(up)]
                 /\ \A i \in Gets' : /\ i + 1 \in Gets /\ h[i] = g[i + 1]
                                     /\ up'[i] = up[i + 1]
    BY <1>3, UpTail
  <2>2. g[1] = a
    BY <1>3, UpTail
  <2> QED
    BY <2>1, <2>2 DEF Grown
<1> QED
  BY <1>1, <1>2, <1>3

(* Neither the application's calls nor the peers disturb the order.         *)
LEMMA QuietOrder ==
  ASSUME TypeInv, InOrder, Grown, UNCHANGED VariableCallbacks,
         down' = down \/ \E m \in ToClient : ~Reply(m) /\ down' = Append(down, m),
         \/ up' = up
         \/ \E m \in ToRelay : m.request # "get" /\ up' = Append(up, m)
         \/ up # <<>> /\ Head(up).request # "get" /\ up' = Tail(up)
  PROVE  InOrder'
<1>1. PICK f, g : Order(f, g)
  BY DEF InOrder
<1>2. /\ \A i \in Replies : f[i] \in 1 .. Len(requests)
      /\ \A i \in Gets : g[i] \in 1 .. Len(requests)
  BY <1>1, Numbered
<1>3. Answered' = Answered
  BY DEF Answered, Grown
<1>4. PICK d : /\ Counts(d, Answered, Len(down'), Replies')
               /\ d[Len(down')] = f[Len(down)]
               /\ \A i \in Replies' : down'[i].body \in requests'[d[i]].values
  BY <1>1, <1>2, DownQuiet DEF Order
<1>5. PICK u : /\ Counts(u, f[Len(down)], Len(up'), Gets')
               /\ u[Len(up')] = Len(requests')
               /\ \A i \in Gets' : up'[i].key = requests'[u[i]].key
  BY <1>1, <1>2, UpQuiet DEF Order
<1>6. Order(d, u)'
  BY <1>3, <1>4, <1>5 DEF Order
<1> QED
  BY <1>6 DEF InOrder

--------------------------------------------------------------------------------
(* Steps that ask or answer. *)

(* The client takes a message.                                              *)
LEMMA DownTail ==
  ASSUME TypeInv, NEW f, NEW a, Counts(f, a, Len(down), Replies), down # <<>>, down' = Tail(down)
  PROVE  /\ 1 \in Replies <=> Reply(Head(down))
         /\ f[1] = IF Reply(Head(down)) THEN a + 1 ELSE a
         /\ \E h : /\ Counts(h, f[1], Len(down'), Replies')
                   /\ h[Len(down')] = f[Len(down)]
                   /\ \A i \in Replies' : /\ i + 1 \in Replies /\ h[i] = f[i + 1]
                                       /\ down'[i] = down[i + 1]
<1>1. /\ Len(down) \in Nat \ {0} /\ Len(down') = Len(down) - 1
      /\ \A i \in 1 .. Len(down) - 1 : down'[i] = down[i + 1] /\ (i \in Replies' <=> i + 1 \in Replies)
      /\ 1 \in Replies <=> Reply(Head(down))
  BY RepliesTail
<1>2. /\ f[1] = IF 1 \in Replies THEN a + 1 ELSE a
      /\ \E h : /\ Counts(h, f[1], Len(down) - 1, Shifted(Replies, Len(down)))
                /\ \A i \in 0 .. Len(down) - 1 : h[i] = f[i + 1]
  BY <1>1, CountsTail
<1>3. PICK h : /\ Counts(h, f[1], Len(down) - 1, Shifted(Replies, Len(down)))
               /\ \A i \in 0 .. Len(down) - 1 : h[i] = f[i + 1]
  BY <1>2
<1>4. \A i \in 1 .. Len(down) - 1 : i \in Replies' <=> i \in Shifted(Replies, Len(down))
  BY <1>1 DEF Shifted
<1>5. Counts(h, f[1], Len(down) - 1, Replies')
  BY ONLY <1>3, <1>4, CountsSame
<1>6. ASSUME NEW i \in Replies'
      PROVE  i + 1 \in Replies /\ h[i] = f[i + 1] /\ down'[i] = down[i + 1]
  <2>1. i \in 1 .. Len(down) - 1 /\ i \in 0 .. Len(down) - 1
    BY <1>1 DEF Replies, Reply
  <2> QED
    BY <1>1, <1>3, <2>1
<1>7. h[Len(down')] = f[Len(down)]
  <2>1. Len(down) - 1 \in 0 .. Len(down) - 1 /\ (Len(down) - 1) + 1 = Len(down)
    BY <1>1
  <2> QED
    BY <1>1, <1>3, <2>1
<1> QED
  BY <1>1, <1>2, <1>5, <1>6, <1>7

(* GetChannelVar puts a callback in the queue and a request on the way.     *)
LEMMA AskOrder ==
  ASSUME TypeInv, Callbacks, InOrder, NEW k \in Key, GetChannelVar(k) PROVE InOrder'
<1> DEFINE N == Len(requests)
<1>1. PICK f, g : Order(f, g)
  BY DEF InOrder
<1>2. /\ \A i \in Replies : f[i] \in 1 .. N
      /\ \A i \in Gets : g[i] \in 1 .. N
      /\ N \in Nat
  BY <1>1, Numbered
<1>3. /\ requests' = Append(requests, [key |-> k, values |-> {variables[k]}])
      /\ VariableCallbacks' = Append(VariableCallbacks, Len(requests'))
      /\ up' = Append(up, [request |-> "get", key |-> k])
      /\ down' = down
  BY DEF GetChannelVar
<1>4. [key |-> k, values |-> {variables[k]}] \in Request
  BY DEF TypeInv, Request
<1>5. /\ Len(requests') = N + 1 /\ \A n \in 1 .. N : requests'[n] = requests[n]
      /\ requests'[N + 1] = [key |-> k, values |-> {variables[k]}]
  BY <1>3, <1>4, Appended DEF TypeInv
<1>6. Answered' = Answered
  <2>1. Len(VariableCallbacks') = Len(VariableCallbacks) + 1 /\ Len(VariableCallbacks) \in Nat
    BY <1>2, <1>3, <1>5, Appended DEF TypeInv
  <2> QED
    BY <1>2, <1>5, <2>1 DEF Answered
<1>7. [request |-> "get", key |-> k] \in ToRelay
  BY DEF ToRelay
<1>8. /\ Len(up) \in Nat /\ Len(up') = Len(up) + 1
      /\ \A i \in 1 .. Len(up) : up'[i] = up[i] /\ (i \in Gets' <=> i \in Gets)
      /\ up'[Len(up) + 1].key = k
      /\ Len(up) + 1 \in Gets'
  BY <1>3, <1>7, GetsAppend
<1>9. PICK h : /\ Counts(h, f[Len(down)], Len(up) + 1, Gets')
               /\ \A i \in 0 .. Len(up) : h[i] = g[i]
               /\ h[Len(up) + 1] = IF Len(up) + 1 \in Gets' THEN g[Len(up)] + 1 ELSE g[Len(up)]
  <2>1. \A i \in 1 .. Len(up) : i \in Gets' <=> i \in Gets
    BY <1>8
  <2>2. Counts(g, f[Len(down)], Len(up), Gets)
    BY <1>1 DEF Order
  <2>3. Counts(g, f[Len(down)], Len(up), Gets')
    BY ONLY <2>1, <2>2, CountsSame
  <2> QED
    BY ONLY <2>3, CountsAppend
<1>10. h[Len(up')] = Len(requests')
  BY <1>1, <1>5, <1>8, <1>9 DEF Order
<1>11. ASSUME NEW i \in Gets' PROVE up'[i].key = requests'[h[i]].key
  <2>1. CASE i = Len(up) + 1
    BY <1>5, <1>8, <1>10, <2>1
  <2>2. CASE i # Len(up) + 1
    <3>1. i \in 1 .. Len(up) /\ i \in Gets /\ i \in 0 .. Len(up)
      BY <1>8, <2>2 DEF Gets
    <3>2. up[i].key = requests[g[i]].key /\ g[i] \in 1 .. N
      BY <1>1, <1>2, <3>1 DEF Order
    <3> QED
      BY <1>5, <1>8, <1>9, <3>1, <3>2
  <2> QED
    BY <2>1, <2>2
<1>12. Replies' = Replies
  BY <1>3 DEF Replies, Reply
<1>13. \A i \in Replies' : down'[i].body \in requests'[f[i]].values
  BY <1>1, <1>2, <1>3, <1>5, <1>12 DEF Order
<1>14. Counts(f, Answered', Len(down'), Replies') /\ Counts(h, f[Len(down')], Len(up'), Gets')
  BY <1>1, <1>3, <1>6, <1>8, <1>9, <1>12 DEF Order
<1> QED
  BY <1>10, <1>11, <1>13, <1>14 DEF InOrder, Order

(* TransmitChannelVariable answers the first request on its way, behind the *)
(* answers on theirs.                                                       *)
LEMMA AnswerOrder ==
  ASSUME TypeInv, Results, InOrder, up # <<>>, Head(up).request = "get", up' = Tail(up),
         TransmitChannelVariable(Head(up).key),
         UNCHANGED <<VariableCallbacks, requests>>
  PROVE  InOrder'
<1> DEFINE m == [from |-> RELAY_QUERY, op |-> VARIABLE_REPLY, body |-> variables[Head(up).key]]
<1>1. PICK f, g : Order(f, g)
  BY DEF InOrder
<1>2. /\ \A i \in Replies : f[i] \in 1 .. Len(requests)
      /\ \A i \in Gets : g[i] \in Answered + 1 .. Len(requests)
      /\ Answered \in Nat /\ Len(requests) \in Nat
  BY <1>1, Numbered
<1>3. /\ 1 \in Gets /\ g[1] = f[Len(down)] + 1
      /\ \E h : /\ Counts(h, g[1], Len(up'), Gets')
                /\ h[Len(up')] = g[Len(up)]
                /\ \A i \in Gets' : /\ i + 1 \in Gets /\ h[i] = g[i + 1]
                                    /\ up'[i] = up[i + 1]
  BY <1>1, UpTail DEF Order
<1>4. PICK u : /\ Counts(u, g[1], Len(up'), Gets')
               /\ u[Len(up')] = g[Len(up)]
               /\ \A i \in Gets' : /\ i + 1 \in Gets /\ u[i] = g[i + 1]
                                   /\ up'[i] = up[i + 1]
  BY <1>3
<1>5. Head(up) = up[1] /\ Head(up) \in ToRelay
  BY Dropped DEF TypeInv
<1>6. Head(up).key \in Key
  BY <1>5 DEF ToRelay
<1>7. m \in ToClient
  BY <1>6 DEF ToClient, TypeInv
<1>8. down' = Append(down, m) /\ Reply(m) /\ m.body = variables[Head(up).key]
  BY DEF TransmitChannelVariable, Sends, Reply
<1> HIDE DEF m
<1>9. /\ Len(down) \in Nat /\ Len(down') = Len(down) + 1
      /\ \A i \in 1 .. Len(down) : down'[i] = down[i] /\ (i \in Replies' <=> i \in Replies)
      /\ down'[Len(down) + 1] = m /\ Len(down) + 1 \in Replies'
  BY <1>7, <1>8, RepliesAppend
<1>10. PICK d : /\ Counts(d, Answered, Len(down) + 1, Replies')
                /\ \A i \in 0 .. Len(down) : d[i] = f[i]
                /\ d[Len(down) + 1] = IF Len(down) + 1 \in Replies' THEN f[Len(down)] + 1
                                      ELSE f[Len(down)]
  <2>1. \A i \in 1 .. Len(down) : i \in Replies' <=> i \in Replies
    BY <1>9
  <2>2. Counts(f, Answered, Len(down), Replies)
    BY <1>1 DEF Order
  <2>3. Counts(f, Answered, Len(down), Replies')
    BY ONLY <2>1, <2>2, CountsSame
  <2> QED
    BY ONLY <2>3, CountsAppend
<1>11. d[Len(down')] = g[1]
  BY <1>3, <1>9, <1>10
<1>12. variables[Head(up).key] \in requests[g[1]].values
  <2>1. Head(up).key = requests[g[1]].key
    BY <1>1, <1>3, <1>5 DEF Order
  <2>2. g[1] \in 1 .. Len(requests) /\ g[1] > Answered
    BY <1>2, <1>3
  <2> QED
    BY <2>1, <2>2 DEF Results
<1>13. ASSUME NEW i \in Replies' PROVE down'[i].body \in requests'[d[i]].values
  <2>1. CASE i = Len(down) + 1
    BY <1>8, <1>9, <1>11, <1>12, <2>1
  <2>2. CASE i # Len(down) + 1
    <3>1. i \in 1 .. Len(down) /\ i \in Replies /\ i \in 0 .. Len(down)
      BY <1>9, <2>2 DEF Replies
    <3> QED
      BY <1>1, <1>9, <1>10, <3>1 DEF Order
  <2> QED
    BY <2>1, <2>2
<1>14. \A i \in Gets' : up'[i].key = requests'[u[i]].key
  BY <1>1, <1>4 DEF Order
<1>15. Answered' = Answered
  BY DEF Answered
<1>16. Counts(d, Answered', Len(down'), Replies') /\ Counts(u, d[Len(down')], Len(up'), Gets')
  BY <1>4, <1>9, <1>10, <1>11, <1>15
<1>17. u[Len(up')] = Len(requests')
  BY <1>1, <1>4 DEF Order
<1>18. Order(d, u)'
  BY <1>13, <1>14, <1>16, <1>17 DEF Order
<1> QED
  BY <1>18 DEF InOrder

(* The client takes a message, and the first callback if it is an answer.   *)
LEMMA ReceiveOrder ==
  ASSUME TypeInv, InOrder, down # <<>>, down' = Tail(down),
         Answered' = IF Reply(Head(down)) THEN Answered + 1 ELSE Answered,
         UNCHANGED <<up, requests>>
  PROVE  InOrder'
<1>1. PICK f, g : Order(f, g)
  BY DEF InOrder
<1>2. /\ f[1] = (IF Reply(Head(down)) THEN Answered + 1 ELSE Answered)
      /\ \E h : /\ Counts(h, f[1], Len(down'), Replies')
                /\ h[Len(down')] = f[Len(down)]
                /\ \A i \in Replies' : /\ i + 1 \in Replies /\ h[i] = f[i + 1]
                                       /\ down'[i] = down[i + 1]
  BY <1>1, DownTail DEF Order
<1>3. PICK h : /\ Counts(h, f[1], Len(down'), Replies')
               /\ h[Len(down')] = f[Len(down)]
               /\ \A i \in Replies' : /\ i + 1 \in Replies /\ h[i] = f[i + 1]
                                      /\ down'[i] = down[i + 1]
  BY <1>2
<1>4. \A i \in Replies' : down'[i].body \in requests'[h[i]].values
  BY <1>1, <1>3 DEF Order
<1>5. Gets' = Gets
  BY DEF Gets
<1>6. f[1] = Answered'
  BY <1>2
<1>7. Counts(h, Answered', Len(down'), Replies') /\ Counts(g, h[Len(down')], Len(up'), Gets')
  BY <1>1, <1>3, <1>5, <1>6 DEF Order
<1>8. g[Len(up')] = Len(requests') /\ \A i \in Gets' : up'[i].key = requests'[g[i]].key
  BY <1>1, <1>5 DEF Order
<1>9. Order(h, g)'
  BY <1>4, <1>7, <1>8 DEF Order
<1> QED
  BY <1>9 DEF InOrder

(* An answer that comes is that of the callback that waits first.           *)
LEMMA FirstAnswer ==
  ASSUME TypeInv, Callbacks, InOrder, down # <<>>, Reply(Head(down))
  PROVE  /\ Answered \in Nat /\ Len(requests) \in Nat /\ Answered < Len(requests)
         /\ VariableCallbacks # <<>> /\ Head(VariableCallbacks) = Answered + 1
         /\ Head(down).body \in requests[Answered + 1].values
<1>1. PICK f, g : Order(f, g)
  BY DEF InOrder
<1>2. Head(down) = down[1] /\ Len(down) \in Nat \ {0}
  BY Dropped DEF TypeInv
<1>3. 1 \in Replies
  BY <1>2 DEF Replies
<1>4. f[1] \in Answered + 1 .. Len(requests) /\ Answered \in Nat /\ Len(requests) \in Nat
  BY <1>1, <1>3, Numbered
<1>5. f[1] = Answered + 1
  <2>1. Counts(f, Answered, Len(down), Replies)
    BY <1>1 DEF Order
  <2> QED
    BY <1>2, <1>3, <2>1 DEF Counts
<1>6. Head(down).body \in requests[Answered + 1].values
  BY <1>1, <1>2, <1>3, <1>5 DEF Order
<1>7. Len(VariableCallbacks) \in Nat \ {0}
  <2>1. Len(VariableCallbacks) \in Nat
    BY Element DEF TypeInv
  <2> QED
    BY <1>4, <2>1 DEF Answered
<1>8. VariableCallbacks # <<>>
  BY <1>7, EmptySeq DEF TypeInv
<1>9. Head(VariableCallbacks) = VariableCallbacks[1]
  BY <1>8, Dropped DEF TypeInv
<1>10. VariableCallbacks[1] = Answered + 1
  BY <1>7 DEF Callbacks
<1> QED
  BY <1>4, <1>6, <1>8, <1>9, <1>10

--------------------------------------------------------------------------------
(* The other parts of the invariant. *)

(* What a variable's change does to the requests.                           *)
LEMMA AssignEffect ==
  ASSUME TypeInv, NEW k \in Key, NEW v \in Value, Assign(k, v)
  PROVE  /\ Grown /\ requests' \in Seq(Request)
         /\ variables' \in [Key -> Values] /\ variables'[k] = v
         /\ \A j \in Key \ {k} : variables'[j] = variables[j]
         /\ \A n \in 1 .. Len(requests) :
               answers[n] = {} /\ requests[n].key = k => v \in requests'[n].values
<1>1. Len(requests) \in Nat /\ \A n \in 1 .. Len(requests) : requests[n] \in Request
  BY Element DEF TypeInv
<1>2. DOMAIN requests = 1 .. Len(requests)
  BY LenProperties DEF TypeInv
<1>3. requests' = [n \in 1 .. Len(requests) |->
                     IF requests[n].key = k /\ answers[n] = {}
                     THEN [requests[n] EXCEPT !.values = @ \cup {v}] ELSE requests[n]]
  BY <1>2 DEF Assign
<1>4. ASSUME NEW n \in 1 .. Len(requests)
      PROVE  /\ requests'[n] \in Request /\ requests'[n].key = requests[n].key
             /\ requests[n].values \subseteq requests'[n].values
             /\ answers[n] = {} /\ requests[n].key = k => v \in requests'[n].values
  <2>1. requests[n] \in [key : Key, values : SUBSET Values] /\ v \in Values
    BY <1>1 DEF Request, Values
  <2>2. CASE requests[n].key = k /\ answers[n] = {}
    <3>1. requests'[n] = [requests[n] EXCEPT !.values = @ \cup {v}]
      BY <1>3, <2>2
    <3> QED
      BY <2>1, <3>1 DEF Request
  <2>3. CASE ~(requests[n].key = k /\ answers[n] = {})
    <3>1. requests'[n] = requests[n]
      BY <1>3, <2>3
    <3> QED
      BY <1>1, <2>3, <3>1
  <2> QED
    BY <2>2, <2>3
<1>5. requests' \in [1 .. Len(requests) -> Request]
  BY <1>3, <1>4
<1>6. requests' \in Seq(Request) /\ Len(requests') = Len(requests)
  BY <1>1, <1>5, LenProperties, SeqDef
<1>7. variables' = [variables EXCEPT ![k] = v] /\ v \in Values
  BY DEF Assign, Values
<1> QED
  BY <1>4, <1>6, <1>7 DEF Grown, TypeInv

(* Answers are unaffected by a change of a variable.                        *)
LEMMA AssignResults ==
  ASSUME TypeInv, Results, NEW k \in Key, NEW v \in Value, Assign(k, v),
         UNCHANGED <<answers, VariableCallbacks>>
  PROVE  Results'
<1>1. /\ Grown /\ variables'[k] = v
      /\ \A j \in Key \ {k} : variables'[j] = variables[j]
      /\ \A n \in 1 .. Len(requests) :
            answers[n] = {} /\ requests[n].key = k => v \in requests'[n].values
  BY AssignEffect
<1>2. Answered' = Answered
  BY <1>1 DEF Answered, Grown
<1>3. \A n \in 1 .. Len(requests) : requests[n].key \in Key
  <2>1. \A n \in 1 .. Len(requests) : requests[n] \in Request
    BY Element DEF TypeInv
  <2> QED
    BY <2>1 DEF Request
<1> SUFFICES ASSUME NEW n \in 1 .. Len(requests)
             PROVE  IF n > Answered
                    THEN answers[n] = {} /\ variables'[requests'[n].key] \in requests'[n].values
                    ELSE \E w \in requests'[n].values : answers[n] = {w}
  BY <1>1, <1>2 DEF Results, Grown
<1>4. requests'[n].key = requests[n].key /\ requests[n].values \subseteq requests'[n].values
  BY <1>1 DEF Grown
<1>5. CASE n > Answered
  <2>1. answers[n] = {} /\ variables[requests[n].key] \in requests[n].values
    BY <1>5 DEF Results
  <2> QED
    BY <1>1, <1>3, <1>4, <1>5, <2>1
<1>6. CASE ~(n > Answered)
  <2>1. \E w \in requests[n].values : answers[n] = {w}
    BY <1>6 DEF Results
  <2> QED
    BY <1>4, <1>6, <2>1
<1> QED
  BY <1>5, <1>6

(* The rest of the invariant where neither requests nor answers change.     *)
LEMMA SameRest ==
  ASSUME Callbacks, Results, ready' = TRUE \/ ready' = ready,
         UNCHANGED <<VariableCallbacks, requests, answers, variables>>
  PROVE  Callbacks' /\ Results' /\ Grown
  BY DEF Callbacks, Results, Answered, Grown

(* The messages that come are true as long as nobody returns.               *)
LEMMA SameDepartures ==
  ASSUME TypeInv, Departures, left \subseteq left', told' = told,
         \/ down' = down
         \/ \E m \in ToClient : /\ down' = Append(down, m)
                                /\ m.from = BINARY_BROADCAST => m.body \in left'
  PROVE  Departures'
<1>1. CASE down' = down
  BY <1>1 DEF Departures
<1>2. CASE \E m \in ToClient : /\ down' = Append(down, m)
                               /\ m.from = BINARY_BROADCAST => m.body \in left'
  <2>1. PICK m \in ToClient : /\ down' = Append(down, m)
                              /\ m.from = BINARY_BROADCAST => m.body \in left'
    BY <1>2
  <2>2. /\ Len(down) \in Nat /\ Len(down') = Len(down) + 1
        /\ \A i \in 1 .. Len(down) : down'[i] = down[i]
        /\ down'[Len(down) + 1] = m
    BY <2>1, Appended DEF TypeInv
  <2>3. ASSUME NEW i \in 1 .. Len(down'), down'[i].from = BINARY_BROADCAST
        PROVE  down'[i].body \in left'
    <3>1. CASE i = Len(down) + 1
      BY <2>1, <2>2, <2>3, <3>1
    <3>2. CASE i # Len(down) + 1
      <4>1. i \in 1 .. Len(down)
        BY <2>2, <3>2
      <4>2. down'[i] = down[i]
        BY <2>2, <4>1
      <4> QED
        BY <2>3, <4>1, <4>2 DEF Departures
    <3> QED
      BY <3>1, <3>2
  <2> QED
    BY <2>3 DEF Departures
<1> QED
  BY <1>1, <1>2

--------------------------------------------------------------------------------
(* The steps. *)

(* The first packet, and a call of SetChannelVar.                           *)
LEMMA CallStep ==
  ASSUME ClientInv, JoinChannel \/ \E k \in Key, v \in Value : SetChannelVar(k, v)
  PROVE  ClientInv'
<1>1. PICK m \in ToRelay : m.request # "get" /\ up' = Append(up, m)
  <2>1. CASE JoinChannel
    <3>1. [request |-> "join"] \in ToRelay
      BY DEF ToRelay
    <3> QED
      BY <2>1, <3>1 DEF JoinChannel
  <2>2. CASE \E k \in Key, v \in Value : SetChannelVar(k, v)
    <3>1. PICK k \in Key, v \in Value : SetChannelVar(k, v)
      BY <2>2
    <3>2. [request |-> "set", key |-> k, value |-> v] \in ToRelay
      BY DEF ToRelay
    <3> QED
      BY <3>1, <3>2 DEF SetChannelVar
  <2> QED
    BY <2>1, <2>2
<1>2. UNCHANGED <<ready, VariableCallbacks, down, variables, requests, answers, left, told>>
  BY DEF JoinChannel, SetChannelVar, library
<1>3. up' \in Seq(ToRelay)
  BY <1>1, GetsAppend DEF ClientInv
<1>4. TypeInv'
  BY <1>2, <1>3 DEF ClientInv, TypeInv
<1>5. Departures'
  BY <1>2 DEF ClientInv, Departures
<1>6. Callbacks' /\ Results' /\ Grown
  BY <1>2, SameRest DEF ClientInv
<1>7. InOrder'
  BY <1>1, <1>2, <1>6, QuietOrder DEF ClientInv
<1> QED
  BY <1>4, <1>5, <1>6, <1>7 DEF ClientInv

(* GetChannelVar.                                                           *)
LEMMA GetStep == ASSUME ClientInv, NEW k \in Key, GetChannelVar(k) PROVE ClientInv'
<1> DEFINE N == Len(requests)
           r == [key |-> k, values |-> {variables[k]}]
<1>1. /\ ready = TRUE /\ requests' = Append(requests, r) /\ answers' = Append(answers, {})
      /\ VariableCallbacks' = Append(VariableCallbacks, Len(requests'))
      /\ up' = Append(up, [request |-> "get", key |-> k])
      /\ UNCHANGED <<ready, down, variables, left, told>>
  BY DEF GetChannelVar, ClientInv, TypeInv
<1>2. r \in Request /\ {} \in SUBSET Values /\ [request |-> "get", key |-> k] \in ToRelay
  BY DEF ClientInv, TypeInv, Request, ToRelay
<1>3. /\ requests' \in Seq(Request) /\ Len(requests') = N + 1 /\ N \in Nat
      /\ \A n \in 1 .. N : requests'[n] = requests[n]
      /\ requests'[N + 1] = r
  BY <1>1, <1>2, Appended DEF ClientInv, TypeInv
<1>4. /\ answers' \in Seq(SUBSET Values) /\ Len(answers') = N + 1
      /\ \A n \in 1 .. N : answers'[n] = answers[n]
      /\ answers'[N + 1] = {}
  BY <1>1, <1>2, Appended DEF ClientInv, TypeInv
<1>5. /\ VariableCallbacks' \in Seq(Nat) /\ Len(VariableCallbacks) \in Nat
      /\ Len(VariableCallbacks') = Len(VariableCallbacks) + 1
      /\ \A i \in 1 .. Len(VariableCallbacks) : VariableCallbacks'[i] = VariableCallbacks[i]
      /\ VariableCallbacks'[Len(VariableCallbacks) + 1] = N + 1
  BY <1>1, <1>3, Appended DEF ClientInv, TypeInv
<1>6. up' \in Seq(ToRelay)
  BY <1>1, <1>2, GetsAppend DEF ClientInv
<1>7. TypeInv'
  BY <1>1, <1>3, <1>4, <1>5, <1>6 DEF ClientInv, TypeInv
<1>8. Departures'
  BY <1>1 DEF ClientInv, Departures
<1>9. Answered' = Answered /\ Answered \in Nat /\ Answered <= N
  <2>1. Len(VariableCallbacks) <= N
    BY DEF ClientInv, Callbacks
  <2> QED
    BY <1>3, <1>5, <2>1 DEF Answered
<1>10. Callbacks'
  <2>1. ASSUME NEW i \in 1 .. Len(VariableCallbacks') PROVE VariableCallbacks'[i] = Answered' + i
    <3>1. CASE i = Len(VariableCallbacks) + 1
      <4>1. Answered + i = N + 1
        BY <1>3, <1>5, <3>1 DEF Answered
      <4> QED
        BY <1>5, <1>9, <3>1, <4>1
    <3>2. CASE i # Len(VariableCallbacks) + 1
      <4>1. i \in 1 .. Len(VariableCallbacks)
        BY <1>5, <3>2
      <4> QED
        BY <1>5, <1>9, <4>1 DEF ClientInv, Callbacks
    <3> QED
      BY <3>1, <3>2
  <2>2. Len(VariableCallbacks') <= Len(requests')
    BY <1>3, <1>5, <1>9 DEF ClientInv, Callbacks
  <2> QED
    BY <1>1, <2>1, <2>2 DEF Callbacks
<1>11. Results'
  <2> SUFFICES ASSUME NEW n \in 1 .. N + 1
               PROVE  IF n > Answered
                      THEN answers'[n] = {} /\ variables[requests'[n].key] \in requests'[n].values
                      ELSE \E w \in requests'[n].values : answers'[n] = {w}
    BY <1>1, <1>3, <1>9 DEF Results
  <2>1. CASE n = N + 1
    BY <1>3, <1>4, <1>9, <2>1
  <2>2. CASE n # N + 1
    <3>1. n \in 1 .. N
      BY <1>3, <2>2
    <3>2. requests'[n] = requests[n] /\ answers'[n] = answers[n]
      BY <1>3, <1>4, <3>1
    <3> QED
      BY <3>1, <3>2 DEF ClientInv, Results
  <2> QED
    BY <2>1, <2>2
<1>12. InOrder'
  BY AskOrder DEF ClientInv
<1> QED
  BY <1>7, <1>8, <1>10, <1>11, <1>12 DEF ClientInv

(* The broadcast id is nobody's.                                            *)
LEMMA NotBroadcast ==
  ASSUME DistinctIds PROVE BINARY_BROADCAST # RELAY_QUERY /\ BINARY_BROADCAST \notin Peer
  BY ClientAssumption DEF DistinctIds, ArrayEq

(* A variable changes: by request 4 or by another user.                     *)
LEMMA AssignStep ==
  ASSUME ClientInv, NEW k \in Key, NEW v \in Value, Assign(k, v),
         UNCHANGED <<ready, VariableCallbacks, down, answers, left, told>>,
         up' = up \/ (up # <<>> /\ Head(up).request # "get" /\ up' = Tail(up))
  PROVE  ClientInv'
<1>1. TypeInv /\ Results /\ Callbacks /\ Departures /\ InOrder
  BY DEF ClientInv
<1>2. Grown /\ requests' \in Seq(Request) /\ variables' \in [Key -> Values]
  BY <1>1, AssignEffect
<1>3. up' \in Seq(ToRelay)
  BY <1>1, GetsTail DEF TypeInv
<1>4. TypeInv'
  BY <1>1, <1>2, <1>3 DEF TypeInv, Grown
<1>5. Departures'
  BY <1>1 DEF Departures
<1>6. Callbacks'
  <2>1. ~ready => requests' = <<>>
    <3>1. ASSUME ~ready PROVE requests' = <<>>
      <4>1. Len(requests) = 0 /\ Len(requests') = 0
        BY <1>1, <1>2, <3>1, EmptySeq DEF Callbacks, Grown
      <4> QED
        BY <1>2, <4>1, EmptySeq
    <3> QED
      BY <3>1
  <2> QED
    BY <1>1, <1>2, <2>1 DEF Callbacks, Answered, Grown
<1>7. Results'
  BY <1>1, AssignResults
<1>8. InOrder'
  BY <1>1, <1>2, QuietOrder
<1> QED
  BY <1>4, <1>5, <1>6, <1>7, <1>8 DEF ClientInv

(* A message goes to the client that is not an answer.                      *)
LEMMA SendStep ==
  ASSUME ClientInv, NEW m \in ToClient, ~Reply(m), down' = Append(down, m),
         left \subseteq left', m.from = BINARY_BROADCAST => m.body \in left',
         UNCHANGED <<ready, VariableCallbacks, variables, requests, answers, told>>,
         up' = up \/ (up # <<>> /\ Head(up).request # "get" /\ up' = Tail(up))
  PROVE  ClientInv'
<1>1. TypeInv /\ Results /\ Callbacks /\ Departures /\ InOrder
  BY DEF ClientInv
<1>2. down' \in Seq(ToClient)
  BY <1>1, RepliesAppend
<1>3. up' \in Seq(ToRelay)
  BY <1>1, GetsTail DEF TypeInv
<1>4. TypeInv'
  BY <1>1, <1>2, <1>3 DEF TypeInv
<1>5. Departures'
  BY <1>1, SameDepartures
<1>6. Callbacks' /\ Results' /\ Grown
  BY <1>1, SameRest
<1>7. InOrder'
  BY <1>1, <1>6, QuietOrder
<1> QED
  BY <1>4, <1>5, <1>6, <1>7 DEF ClientInv

(* The relay handles a message of the client.                               *)
LEMMA MessageStep == ASSUME DistinctIds, OwnOpcode, ClientInv, onMessage PROVE ClientInv'
<1>1. TypeInv /\ Results /\ Callbacks /\ Departures /\ InOrder
  BY DEF ClientInv
<1>2. /\ up # <<>> /\ up' = Tail(up) /\ Handle(Head(up))
      /\ UNCHANGED <<ready, VariableCallbacks, answers, left, told>>
  BY DEF onMessage, library
<1>3. Head(up) \in ToRelay /\ up' \in Seq(ToRelay)
  BY <1>1, <1>2, GetsTail
<1>4. CASE Head(up).request = "join"
  <2> DEFINE m == [from |-> RELAY_QUERY, op |-> "userId", body |-> NoValue]
  <2>1. down' = Append(down, m) /\ UNCHANGED <<variables, requests>>
    BY <1>2, <1>4 DEF Handle, Sends
  <2>2. m \in ToClient /\ ~Reply(m) /\ m.from # BINARY_BROADCAST
    BY NotBroadcast, ClientAssumption DEF ToClient, Reply, OwnOpcode
  <2> HIDE DEF m
  <2> QED
    BY <1>2, <1>4, <2>1, <2>2, SendStep
<1>5. CASE Head(up).request = "set"
  <2>1. Assign(Head(up).key, Head(up).value) /\ UNCHANGED down
    BY <1>2, <1>5 DEF Handle
  <2>2. Head(up).key \in Key /\ Head(up).value \in Value
    BY <1>3, <1>5 DEF ToRelay
  <2> QED
    BY <1>2, <1>5, <2>1, <2>2, AssignStep
<1>6. CASE Head(up).request = "get"
  <2> DEFINE m == [from |-> RELAY_QUERY, op |-> VARIABLE_REPLY,
                   body |-> variables[Head(up).key]]
  <2>1. TransmitChannelVariable(Head(up).key) /\ UNCHANGED <<variables, requests>>
    BY <1>2, <1>6 DEF Handle
  <2>2. Head(up).key \in Key
    BY <1>3, <1>6 DEF ToRelay
  <2>3. m \in ToClient /\ m.from # BINARY_BROADCAST
    BY <1>1, <2>2, NotBroadcast DEF ToClient, TypeInv
  <2>4. down' = Append(down, m)
    BY <2>1 DEF TransmitChannelVariable, Sends
  <2> HIDE DEF m
  <2>5. down' \in Seq(ToClient)
    BY <1>1, <2>3, <2>4, RepliesAppend
  <2>6. TypeInv'
    BY <1>1, <1>2, <1>3, <2>1, <2>5 DEF TypeInv
  <2>7. Departures'
    BY <1>1, <1>2, <2>3, <2>4, SameDepartures
  <2>8. Callbacks' /\ Results'
    BY <1>1, <1>2, <2>1, SameRest
  <2>9. InOrder'
    BY <1>1, <1>2, <1>6, <2>1, AnswerOrder
  <2> QED
    BY <2>6, <2>7, <2>8, <2>9 DEF ClientInv
<1> QED
  BY <1>3, <1>4, <1>5, <1>6 DEF ToRelay

(* Other users set variables, send messages and leave.                      *)
LEMMA PeerStep ==
  ASSUME DistinctIds, OwnOpcode, ClientInv,
         \/ \E k \in Key, v \in Value : PeerSets(k, v)
         \/ \E p \in Peer : onDisconnection(p) \/ \E op \in Op : PeerSends(p, op)
  PROVE  ClientInv'
<1>1. ASSUME NEW k \in Key, NEW v \in Value, PeerSets(k, v) PROVE ClientInv'
  <2>1. Assign(k, v) /\ UNCHANGED <<ready, VariableCallbacks, down, answers, left, told, up>>
    BY <1>1 DEF PeerSets, library
  <2> QED
    BY <2>1, AssignStep
<1>2. ASSUME NEW p \in Peer, NEW op \in Op, PeerSends(p, op) PROVE ClientInv'
  <2> DEFINE m == [from |-> p, op |-> op, body |-> NoValue]
  <2>1. /\ down' = Append(down, m) /\ left' = left
        /\ UNCHANGED <<ready, VariableCallbacks, variables, requests, answers, told, up>>
    BY <1>2 DEF PeerSends, Sends, library
  <2>2. m \in ToClient /\ ~Reply(m) /\ m.from # BINARY_BROADCAST
    BY NotBroadcast, ClientAssumption DEF ToClient, Reply, OwnOpcode
  <2> HIDE DEF m
  <2> QED
    BY <2>1, <2>2, SendStep
<1>3. ASSUME NEW p \in Peer, onDisconnection(p) PROVE ClientInv'
  <2> DEFINE m == [from |-> BINARY_BROADCAST, op |-> NoValue, body |-> p]
  <2>1. /\ down' = Append(down, m) /\ left' = left \cup {p}
        /\ UNCHANGED <<ready, VariableCallbacks, variables, requests, answers, told, up>>
    BY <1>3 DEF onDisconnection, Sends, library
  <2>2. m \in ToClient /\ ~Reply(m) /\ m.body \in left'
    BY <2>1, NotBroadcast DEF ToClient, Reply
  <2> HIDE DEF m
  <2> QED
    BY <2>1, <2>2, SendStep
<1> QED
  BY <1>1, <1>2, <1>3

(* relay.js hands an answer to the callback that waits first.               *)
LEMMA AnsweredStep ==
  ASSUME ClientInv, down # <<>>, down' = Tail(down), Reply(Head(down)),
         Answer(Head(down).body), UNCHANGED <<ready, up, variables, requests, left, told>>
  PROVE  ClientInv'
<1> DEFINE a == Answered + 1
           x == Head(down).body
           C == VariableCallbacks
<1>1. TypeInv /\ Results /\ Callbacks /\ Departures /\ InOrder
  BY DEF ClientInv
<1>2. /\ Answered \in Nat /\ Len(requests) \in Nat /\ Answered < Len(requests)
      /\ C # <<>> /\ Head(C) = a /\ x \in requests[a].values
  BY <1>1, FirstAnswer
<1>3. /\ C' \in Seq(Nat) /\ Len(C) \in Nat \ {0} /\ Len(C') = Len(C) - 1
      /\ \A i \in 1 .. Len(C) - 1 : C'[i] = C[i + 1]
  BY <1>1, <1>2, Dropped DEF Answer, TypeInv
<1>4. a \in 1 .. Len(requests) /\ a > Answered
  BY <1>2
<1>5. answers[a] = {}
  BY <1>1, <1>4 DEF Results
<1>6. requests[a].values \subseteq Values
  <2>1. requests[a] \in Request
    BY <1>1, <1>4, Element DEF TypeInv
  <2> QED
    BY <2>1 DEF Request
<1>7. answers' = [answers EXCEPT ![a] = @ \cup {x}]
  BY <1>2 DEF Answer, Calls
<1>8. /\ answers' \in Seq(SUBSET Values) /\ Len(answers') = Len(answers)
      /\ answers'[a] = {x} /\ \A n \in 1 .. Len(requests) : n # a => answers'[n] = answers[n]
  <2>1. answers \in [1 .. Len(requests) -> SUBSET Values]
    BY <1>1, LenProperties DEF TypeInv
  <2>2. /\ answers' \in [1 .. Len(requests) -> SUBSET Values]
        /\ answers'[a] = {x} /\ \A n \in 1 .. Len(requests) : n # a => answers'[n] = answers[n]
    BY <1>2, <1>4, <1>5, <1>6, <1>7, <2>1
  <2>3. answers' \in Seq(SUBSET Values) /\ Len(answers') = Len(requests)
    BY <1>2, <2>2, SeqDef, LenProperties
  <2> QED
    BY <1>1, <2>2, <2>3 DEF TypeInv
<1>9. Answered' = a
  BY <1>2, <1>3 DEF Answered
<1>10. down' \in Seq(ToClient)
  BY <1>1, RepliesTail
<1>11. TypeInv'
  BY <1>1, <1>3, <1>8, <1>10 DEF TypeInv
<1>12. Callbacks'
  <2>1. ASSUME NEW i \in 1 .. Len(C') PROVE C'[i] = Answered' + i
    <3>1. C'[i] = C[i + 1] /\ i + 1 \in 1 .. Len(C)
      BY <1>3
    <3>2. C[i + 1] = Answered + (i + 1)
      BY <1>1, <3>1 DEF Callbacks
    <3> QED
      BY <1>2, <1>9, <3>1, <3>2
  <2>2. Len(C') <= Len(requests)
    BY <1>1, <1>2, <1>3 DEF Callbacks
  <2> QED
    BY <1>1, <2>1, <2>2 DEF Callbacks
<1>13. Results'
  <2> SUFFICES ASSUME NEW n \in 1 .. Len(requests)
               PROVE  IF n > a
                      THEN answers'[n] = {} /\ variables[requests[n].key] \in requests[n].values
                      ELSE \E w \in requests[n].values : answers'[n] = {w}
    BY <1>9 DEF Results
  <2>1. CASE n = a
    BY <1>2, <1>4, <1>8, <2>1
  <2>2. CASE n # a
    <3>1. answers'[n] = answers[n] /\ (n > Answered <=> n > a)
      BY <1>2, <1>8, <2>2
    <3> QED
      BY <1>1, <3>1 DEF Results
  <2> QED
    BY <2>1, <2>2
<1>14. InOrder'
  BY <1>1, <1>9, ReceiveOrder
<1>15. Departures'
  <2>1. /\ Len(down) \in Nat \ {0} /\ Len(down') = Len(down) - 1
        /\ \A i \in 1 .. Len(down) - 1 : down'[i] = down[i + 1]
    BY <1>1, RepliesTail
  <2>2. ASSUME NEW i \in 1 .. Len(down') PROVE down'[i] = down[i + 1] /\ i + 1 \in 1 .. Len(down)
    BY <2>1
  <2> QED
    BY <1>1, <2>2 DEF Departures
<1> QED
  BY <1>11, <1>12, <1>13, <1>14, <1>15 DEF ClientInv

(* The client takes a message that is not an answer.                        *)
LEMMA OtherStep ==
  ASSUME ClientInv, down # <<>>, down' = Tail(down), ~Reply(Head(down)),
         ready' = TRUE, told' \subseteq left,
         UNCHANGED <<VariableCallbacks, answers, up, variables, requests, left>>
  PROVE  ClientInv'
<1>1. TypeInv /\ Results /\ Callbacks /\ Departures /\ InOrder
  BY DEF ClientInv
<1>2. /\ down' \in Seq(ToClient) /\ Len(down) \in Nat \ {0} /\ Len(down') = Len(down) - 1
      /\ \A i \in 1 .. Len(down) - 1 : down'[i] = down[i + 1]
  BY <1>1, RepliesTail
<1>3. TypeInv'
  BY <1>1, <1>2 DEF TypeInv
<1>4. Departures'
  <2>1. ASSUME NEW i \in 1 .. Len(down') PROVE down'[i] = down[i + 1] /\ i + 1 \in 1 .. Len(down)
    BY <1>2
  <2> QED
    BY <1>1, <2>1 DEF Departures
<1>5. Callbacks' /\ Results' /\ Answered' = Answered
  BY <1>1 DEF Callbacks, Results, Answered
<1>6. InOrder'
  BY <1>1, <1>5, ReceiveOrder
<1> QED
  BY <1>3, <1>4, <1>5, <1>6 DEF ClientInv

(* The client takes a message.                                              *)
LEMMA ReceiveStep == ASSUME DistinctIds, OwnOpcode, ClientInv, Receive PROVE ClientInv'
<1> DEFINE m == Head(down)
<1>1. TypeInv /\ Results /\ Callbacks /\ Departures /\ InOrder
  BY DEF ClientInv
<1>2. down # <<>> /\ down' = Tail(down) /\ UNCHANGED <<up, variables, requests, left>>
  BY DEF Receive
<1>3. m \in ToClient /\ m = down[1] /\ Len(down) \in Nat \ {0}
  BY <1>1, <1>2, RepliesTail
<1>4. CASE ~ready
  <2>1. ready' = TRUE /\ UNCHANGED <<VariableCallbacks, answers, told>>
    BY <1>4 DEF Receive, FirstMessageHandler
  <2>2. ~Reply(m)
    <3>1. ASSUME Reply(m) PROVE FALSE
      <4>1. Len(requests) \in Nat /\ Answered \in Nat /\ Answered < Len(requests)
        BY <1>1, <1>2, <3>1, FirstAnswer
      <4>2. Len(requests) = 0
        BY <1>1, <1>4, EmptySeq DEF Callbacks
      <4> QED
        BY <4>1, <4>2
    <3> QED
      BY <3>1
  <2>3. told' \subseteq left
    BY <1>1, <2>1 DEF Departures
  <2> QED
    BY <1>2, <2>1, <2>2, <2>3, OtherStep
<1>5. CASE ready
  <2>1. ready' = ready /\ MessageDispatcher(m)
    BY <1>5 DEF Receive
  <2>2. CASE m.from = BINARY_BROADCAST
    <3>1. ArrayEq(BINARY_BROADCAST, m.from)
      BY <2>2 DEF ArrayEq
    <3>2. told' = told \cup {m.body} /\ UNCHANGED <<VariableCallbacks, answers>>
      BY <2>1, <3>1 DEF MessageDispatcher
    <3>3. m.body \in left /\ ~Reply(m)
      BY <1>1, <1>3, <2>2, NotBroadcast DEF Departures, Reply
    <3>4. told' \subseteq left /\ ready' = TRUE
      BY <1>1, <1>5, <2>1, <3>2, <3>3 DEF Departures, TypeInv
    <3> QED
      BY <1>2, <3>2, <3>3, <3>4, OtherStep
  <2>3. CASE m.from # BINARY_BROADCAST
    <3>1. m.from \in Peer \cup {RELAY_QUERY}
      BY <1>3, <2>3 DEF ToClient
    <3>2. ~ArrayEq(BINARY_BROADCAST, m.from)
      BY <3>1 DEF DistinctIds
    <3>3. /\ IF m.op = VARIABLE_REPLY /\ VariableCallbacks # <<>> THEN Answer(m.body)
             ELSE UNCHANGED <<VariableCallbacks, answers>>
          /\ told' = told
      BY <2>1, <3>2 DEF MessageDispatcher
    <3>4. CASE Reply(m)
      <4>1. m.op = VARIABLE_REPLY /\ VariableCallbacks # <<>>
        BY <1>1, <1>2, <3>4, FirstAnswer DEF Reply
      <4> QED
        BY <1>2, <2>1, <3>3, <3>4, <4>1, AnsweredStep
    <3>5. CASE ~Reply(m)
      <4>1. m.op # VARIABLE_REPLY
        BY <1>3, <2>3, <3>5 DEF ToClient, Reply, OwnOpcode
      <4>2. told' \subseteq left /\ ready' = TRUE /\ UNCHANGED <<VariableCallbacks, answers>>
        BY <1>1, <1>5, <2>1, <3>3, <4>1 DEF Departures, TypeInv
      <4> QED
        BY <1>2, <3>5, <4>2, OtherStep
    <3> QED
      BY <3>4, <3>5
  <2> QED
    BY <2>2, <2>3
<1> QED
  BY <1>4, <1>5

--------------------------------------------------------------------------------
(* No message is on its way before the connection is open.                  *)
LEMMA ClientInit == Init => ClientInv
<1> SUFFICES ASSUME Init PROVE ClientInv
  OBVIOUS
<1>1. /\ ready = FALSE /\ VariableCallbacks = <<>> /\ up = <<>> /\ down = <<>>
      /\ variables = [k \in Key |-> NoValue] /\ requests = <<>> /\ answers = <<>>
      /\ left = {} /\ told = {}
  BY DEF Init
<1>2. /\ Len(down) = 0 /\ Len(up) = 0 /\ Len(requests) = 0 /\ Len(answers) = 0
      /\ Len(VariableCallbacks) = 0 /\ Answered = 0
  BY <1>1 DEF Answered
<1>3. TypeInv
  BY <1>1, <1>2, EmptySeq DEF TypeInv, Values
<1>4. Departures /\ Callbacks /\ Results
  BY <1>1, <1>2 DEF Departures, Callbacks, Results
<1>5. Replies = {} /\ Gets = {}
  BY <1>2 DEF Replies, Gets
<1>6. Counts([i \in 0 .. 0 |-> 0], 0, 0, {})
  BY DEF Counts
<1>7. Order([i \in 0 .. 0 |-> 0], [i \in 0 .. 0 |-> 0])
  BY <1>2, <1>5, <1>6 DEF Order
<1> QED
  BY <1>3, <1>4, <1>7 DEF ClientInv, InOrder

(* Callbacks, answers on their way and requests on theirs always match.     *)
THEOREM ClientInvariant == ASSUME DistinctIds, OwnOpcode PROVE Spec => []ClientInv
<1>1. ClientInv /\ [Next]_vars => ClientInv'
  <2> SUFFICES ASSUME ClientInv, [Next]_vars PROVE ClientInv'
    OBVIOUS
  <2>1. CASE UNCHANGED vars
    <3>1. UNCHANGED <<ready, VariableCallbacks, up, down, variables, requests, answers, left,
                      told>>
      BY <2>1 DEF vars, library
    <3>2. TypeInv' /\ Departures' /\ Callbacks' /\ Results'
      BY <3>1 DEF ClientInv, TypeInv, Departures, Callbacks, Results, Answered
    <3>3. Grown
      BY <3>1 DEF Grown
    <3>4. InOrder'
      BY <3>1, <3>3, QuietOrder DEF ClientInv
    <3> QED
      BY <3>2, <3>4 DEF ClientInv
  <2>2. ASSUME NEW k \in Key, GetChannelVar(k) PROVE ClientInv'
    BY <2>2, GetStep
  <2> QED
    BY <2>1, <2>2, CallStep, MessageStep, PeerStep, ReceiveStep DEF Next
<1> QED
  BY <1>1, ClientInit, PTL DEF Spec

(* relay.js gives each answer to the callback of its own request, and once, *)
(* although it matches them by order alone (relay.js: GetChannelVar, the    *)
(* handler of opcode 200).                                                  *)
THEOREM AnswersHold == ASSUME DistinctIds, OwnOpcode PROVE Spec => []AnswersRight
<1>1. ClientInv => AnswersRight
  <2> SUFFICES ASSUME ClientInv, NEW n \in DOMAIN requests
               PROVE  answers[n] = {} \/ \E v \in requests[n].values : answers[n] = {v}
    BY DEF AnswersRight
  <2>1. n \in 1 .. Len(requests)
    BY LenProperties DEF ClientInv, TypeInv
  <2> QED
    BY <2>1 DEF ClientInv, Results
<1> QED
  BY <1>1, ClientInvariant, PTL

(* onClientDisconnect is called for users that have left only (relay.js:    *)
(* MessageDispatcher).                                                      *)
THEOREM DeparturesHold == ASSUME DistinctIds, OwnOpcode PROVE Spec => []DeparturesTrue
<1>1. ClientInv => DeparturesTrue
  BY DEF ClientInv, Departures, DeparturesTrue
<1> QED
  BY <1>1, ClientInvariant, PTL
================================================================================
