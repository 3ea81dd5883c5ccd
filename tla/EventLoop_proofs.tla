---------------------------- MODULE EventLoop_proofs ---------------------------
(****************************************************************************)
(* The proof that the event loop keeps its lists, its timers and the pass   *)
(* of the deadline right, and hands no event to a socket that has been      *)
(* closed or freed, for any number of sockets and any lengths of the        *)
(* timers.                                                                  *)
(*                                                                          *)
(* A list is a chain (Chain): linked both ways, and every member on the way *)
(* from the head.  The timers are those of a set, each once (TimersOf).     *)
(* What the operators of EventLoop do to one chain and to the timers of one *)
(* set comes first; then the invariant LoopInv, and how each step of the    *)
(* loop keeps it.                                                           *)
(****************************************************************************)
EXTENDS EventLoop, TLAPS, FiniteSetTheorems, FunctionTheorems, SequenceTheorems,
        WellFoundedInduction

-----------------------------------------------------------------------------
(* The lists.                                                               *)

\* M, linked both ways from h on: every member but h is the successor of its predecessor,
\* and a walk from h comes to all of them.
Chain(M, h, nx, pv) ==
    /\ M \in SUBSET Object
    /\ h \in M \cup {Null}
    /\ h # Null => pv[h] = Null
    /\ \A o \in M : nx[o] \in M \cup {Null} /\ pv[o] \in M \cup {Null}
    /\ \A o \in M : nx[o] # Null => pv[nx[o]] = o
    /\ \A o \in M : IF pv[o] = Null THEN o = h ELSE nx[pv[o]] = o
    /\ \A S \in SUBSET M : (h # Null => h \in S) /\ (\A o \in S : nx[o] # Null => nx[o] \in S)
                           => M \subseteq S

(* Only the links of its members make a chain.                              *)
LEMMA ChainFrame ==
    ASSUME NEW M, NEW h, NEW nx, NEW pv, Chain(M, h, nx, pv), NEW nx2, NEW pv2,
           \A o \in M : nx2[o] = nx[o] /\ pv2[o] = pv[o]
    PROVE  Chain(M, h, nx2, pv2)
<1>0. M \in SUBSET Object /\ h \in M \cup {Null} /\ Null \notin Object
  BY EventLoopAssumption DEF Chain
<1>1. h # Null => pv2[h] = Null
  BY <1>0 DEF Chain
<1>2. \A o \in M : nx2[o] \in M \cup {Null} /\ pv2[o] \in M \cup {Null}
  BY DEF Chain
<1>3. \A o \in M : nx2[o] # Null => pv2[nx2[o]] = o
  BY <1>2 DEF Chain
<1>4. \A o \in M : IF pv2[o] = Null THEN o = h ELSE nx2[pv2[o]] = o
  BY <1>2 DEF Chain
<1>5. ASSUME NEW S \in SUBSET M, h # Null => h \in S,
             \A o \in S : nx2[o] # Null => nx2[o] \in S
      PROVE  M \subseteq S
  <2>1. \A o \in S : nx[o] # Null => nx[o] \in S
    BY <1>5
  <2> QED
    BY <1>5, <2>1 DEF Chain
<1> QED
  BY <1>0, <1>1, <1>2, <1>3, <1>4, <1>5 DEF Chain

(* A walk comes to the members of a chain, and to no others.                *)
LEMMA ChainReach ==
    ASSUME NEW M, NEW h, NEW pv, Chain(M, h, next, pv)
    PROVE  Reach(h) = M
<1>0. M \in SUBSET Object /\ h \in M \cup {Null} /\ Null \notin Object
      /\ \A o \in M : next[o] \in M \cup {Null}
  BY EventLoopAssumption DEF Chain
<1>1. Walk(M, h)
  BY <1>0 DEF Walk
<1>2. Reach(h) \subseteq M
  BY <1>0, <1>1 DEF Reach
<1>3. ASSUME NEW S \in SUBSET Object, Walk(S, h) PROVE M \subseteq S
  <2> DEFINE T == S \cap M
  <2>1. T \in SUBSET M /\ (h # Null => h \in T)
    BY <1>0, <1>3 DEF Walk
  <2>2. \A o \in T : next[o] # Null => next[o] \in T
    BY <1>0, <1>3 DEF Walk
  <2>3. M \subseteq T
    BY <2>1, <2>2 DEF Chain
  <2> QED
    BY <2>3
<1>4. M \subseteq Reach(h)
  BY <1>0, <1>3 DEF Reach
<1> QED
  BY <1>2, <1>4

(* A chain with a member has a first one.                                   *)
LEMMA ChainHead ==
    ASSUME NEW M, NEW h, NEW nx, NEW pv, Chain(M, h, nx, pv), NEW o \in M
    PROVE  h # Null
<1> SUFFICES ASSUME h = Null PROVE FALSE
  OBVIOUS
<1> DEFINE S == {x \in M : FALSE}
<1>1. S \in SUBSET M /\ (h # Null => h \in S) /\ \A x \in S : nx[x] # Null => nx[x] \in S
  OBVIOUS
<1>2. M \subseteq S
  <2> HIDE DEF S
  <2> QED
    BY <1>1 DEF Chain
<1> QED
  BY <1>2

(* The links that addHttpSocket and addWebSocket write.                     *)
LEMMA LinkedLinks ==
    ASSUME NEW L, L.next \in [Object -> Object \cup {Null}],
           L.prev \in [Object -> Object \cup {Null}],
           L.head \in Object \cup {Null}, NEW o \in Object
    PROVE  /\ Linked(L, o).head = o
           /\ Linked(L, o).next \in [Object -> Object \cup {Null}]
           /\ Linked(L, o).prev \in [Object -> Object \cup {Null}]
           /\ \A x \in Object : /\ Linked(L, o).next[x] = IF x = o THEN L.head ELSE L.next[x]
                                /\ Linked(L, o).prev[x] = IF x = L.head THEN o ELSE L.prev[x]
<1> DEFINE h == L.head
           nx == L.next
           pv == L.prev
<1>1. Linked(L, o) = [head |-> o, next |-> [nx EXCEPT ![o] = h],
                      prev |-> [x \in Object |-> IF x = h THEN o ELSE pv[x]]]
  BY DEF Linked
<1>2. nx \in [Object -> Object \cup {Null}] /\ pv \in [Object -> Object \cup {Null}]
      /\ h \in Object \cup {Null}
  OBVIOUS
<1> HIDE DEF h, nx, pv
<1>3. /\ [nx EXCEPT ![o] = h] \in [Object -> Object \cup {Null}]
      /\ \A x \in Object : [nx EXCEPT ![o] = h][x] = IF x = o THEN h ELSE nx[x]
  BY <1>2
<1>4. [x \in Object |-> IF x = h THEN o ELSE pv[x]] \in [Object -> Object \cup {Null}]
  BY <1>2
<1> QED
  BY <1>1, <1>3, <1>4 DEF h, nx, pv

(* The links that removeHttpSocket and removeWebSocket write.               *)
LEMMA UnlinkedLinks ==
    ASSUME NEW L, L.next \in [Object -> Object \cup {Null}],
           L.prev \in [Object -> Object \cup {Null}], NEW o \in Object
    PROVE  /\ Unlinked(L, o).next \in [Object -> Object \cup {Null}]
           /\ Unlinked(L, o).prev \in [Object -> Object \cup {Null}]
           /\ \A x \in Object :
                 /\ Unlinked(L, o).next[x] = IF x = o THEN Null
                                             ELSE IF x = L.prev[o] THEN L.next[o] ELSE L.next[x]
                 /\ Unlinked(L, o).prev[x] = IF x = o THEN Null
                                             ELSE IF x = L.next[o] THEN L.prev[o] ELSE L.prev[x]
<1> DEFINE n == L.next[o]
           p == L.prev[o]
           nl == [x \in Object |-> IF x = o THEN Null ELSE IF x = p THEN n ELSE L.next[x]]
           pl == [x \in Object |-> IF x = o THEN Null ELSE IF x = n THEN p ELSE L.prev[x]]
<1>1. Unlinked(L, o).next = nl /\ Unlinked(L, o).prev = pl
  BY DEF Unlinked
<1>2. n \in Object \cup {Null} /\ p \in Object \cup {Null}
      /\ \A x \in Object : L.next[x] \in Object \cup {Null} /\ L.prev[x] \in Object \cup {Null}
  OBVIOUS
<1>3. nl \in [Object -> Object \cup {Null}] /\ pl \in [Object -> Object \cup {Null}]
  BY <1>2
<1> QED
  BY <1>1, <1>3

(* addHttpSocket and addWebSocket: o comes before the others.               *)
LEMMA LinkedChain ==
    ASSUME NEW M, NEW h, NEW nx \in [Object -> Object \cup {Null}],
           NEW pv \in [Object -> Object \cup {Null}], Chain(M, h, nx, pv),
           NEW L, h = L.head, nx = L.next, pv = L.prev,
           NEW o \in Object \ M, pv[o] = Null
    PROVE  Chain(M \cup {o}, o, Linked(L, o).next, Linked(L, o).prev)
<1> DEFINE l == Linked(L, o)
           nl == l.next
           pl == l.prev
<1>0. /\ M \in SUBSET Object /\ h \in M \cup {Null} /\ Null \notin Object
      /\ \A x \in M : nx[x] \in M \cup {Null} /\ pv[x] \in M \cup {Null}
  BY EventLoopAssumption DEF Chain
<1>1. nl = [nx EXCEPT ![o] = h]
      /\ pl = [p \in Object |-> IF p = h THEN o ELSE pv[p]]
  BY DEF Linked
<1>2. \A x \in Object : /\ nl[x] = IF x = o THEN h ELSE nx[x]
                        /\ pl[x] = IF x = h THEN o ELSE pv[x]
  BY <1>1
<1> HIDE DEF nl, pl
<1>4. o # h /\ o # Null /\ pl[o] = Null
  BY <1>0, <1>2
<1>5. \A x \in M \cup {o} : nl[x] \in (M \cup {o}) \cup {Null} /\ pl[x] \in (M \cup {o}) \cup {Null}
  BY <1>0, <1>2, <1>4
<1>6. \A x \in M \cup {o} : nl[x] # Null => pl[nl[x]] = x
  <2>1. ASSUME NEW x \in M, nx[x] # Null PROVE pl[nx[x]] = x
    <3>1. nx[x] \in M /\ pv[nx[x]] = x
      BY <1>0, <2>1 DEF Chain
    <3>2. nx[x] # h
      BY <1>0, <2>1, <3>1 DEF Chain
    <3> QED
      BY <1>0, <1>2, <3>1, <3>2
  <2>2. ASSUME h # Null PROVE pl[h] = o
    BY <1>0, <1>2, <2>2
  <2> QED
    BY <1>0, <1>2, <2>1, <2>2
<1>7. \A x \in M \cup {o} : IF pl[x] = Null THEN x = o ELSE nl[pl[x]] = x
  <2>1. ASSUME NEW x \in M, x # h PROVE pl[x] # Null /\ nl[pl[x]] = x
    <3>1. pl[x] = pv[x] /\ pv[x] # Null /\ nx[pv[x]] = x /\ pv[x] \in M
      BY <1>0, <1>2, <2>1 DEF Chain
    <3> QED
      BY <1>0, <1>2, <3>1
  <2>2. h # Null => pl[h] = o /\ nl[o] = h
    BY <1>0, <1>2
  <2> QED
    BY <1>0, <1>4, <2>1, <2>2
<1>8. ASSUME NEW S \in SUBSET (M \cup {o}), o \in S,
             \A x \in S : nl[x] # Null => nl[x] \in S
      PROVE  M \cup {o} \subseteq S
  <2> DEFINE T == S \cap M
  <2>1. h # Null => h \in T
    BY <1>0, <1>2, <1>8
  <2>2. \A x \in T : nx[x] # Null => nx[x] \in T
    BY <1>0, <1>2, <1>8
  <2>3. M \subseteq T
    BY <2>1, <2>2 DEF Chain
  <2> QED
    BY <1>8, <2>3
<1>9. Chain(M \cup {o}, o, nl, pl)
  BY <1>0, <1>4, <1>5, <1>6, <1>7, <1>8 DEF Chain
<1> QED
  BY <1>9 DEF nl, pl

(* A chain has no cycle of one or two of its members.                       *)
LEMMA ChainAcyclic ==
    ASSUME NEW M, NEW h, NEW nx, NEW pv, Chain(M, h, nx, pv), NEW o \in M
    PROVE  /\ nx[o] # o /\ pv[o] # o
           /\ nx[o] = pv[o] => nx[o] = Null
<1>0. /\ M \in SUBSET Object /\ h \in M \cup {Null} /\ Null \notin Object /\ o # Null
      /\ \A x \in M : nx[x] \in M \cup {Null} /\ pv[x] \in M \cup {Null}
      /\ \A x \in M : nx[x] # Null => pv[nx[x]] = x
  BY EventLoopAssumption DEF Chain
<1>1. ASSUME NEW C \in SUBSET M, C # {}, h \notin C,
             \A x \in M : nx[x] \in C => x \in C
      PROVE  FALSE
  <2>1. h # Null => h \in M \ C
    BY <1>0, <1>1
  <2>2. \A x \in M \ C : nx[x] # Null => nx[x] \in M \ C
    BY <1>0, <1>1
  <2>3. M \subseteq M \ C
    BY <2>1, <2>2 DEF Chain
  <2> QED
    BY <1>1, <2>3
<1>2. nx[o] # o
  <2> SUFFICES ASSUME nx[o] = o PROVE FALSE
    OBVIOUS
  <2>1. pv[o] = o
    BY <1>0
  <2>2. h # o
    BY <1>0, <2>1 DEF Chain
  <2>3. \A x \in M : nx[x] \in {o} => x \in {o}
    BY <1>0, <2>1
  <2> QED
    BY <1>1, <2>2, <2>3
<1>3. pv[o] # o
  BY <1>0, <1>2 DEF Chain
<1>4. ASSUME nx[o] = pv[o], nx[o] # Null PROVE FALSE
  <2> DEFINE n == nx[o]
  <2>1. n \in M /\ pv[n] = o /\ nx[n] = o /\ pv[o] = n
    BY <1>0, <1>4 DEF Chain
  <2>2. h # o /\ h # n
    BY <1>0, <2>1, <1>4 DEF Chain
  <2>3. \A x \in M : nx[x] \in {o, n} => x \in {o, n}
    BY <1>0, <2>1
  <2>4. {o, n} \in SUBSET M /\ {o, n} # {} /\ h \notin {o, n}
    BY <2>1, <2>2
  <2> QED
    BY <1>1, <2>3, <2>4
<1> QED
  BY <1>2, <1>3, <1>4

(* removeHttpSocket and removeWebSocket: the others stay a chain.           *)
LEMMA UnlinkedChain ==
    ASSUME NEW M, NEW h, NEW nx \in [Object -> Object \cup {Null}],
           NEW pv \in [Object -> Object \cup {Null}], Chain(M, h, nx, pv),
           NEW L, h = L.head, nx = L.next, pv = L.prev,
           NEW o \in M
    PROVE  Chain(M \ {o}, Unlinked(L, o).head, Unlinked(L, o).next, Unlinked(L, o).prev)
<1> DEFINE n == nx[o]
           p == pv[o]
           l == Unlinked(L, o)
           nl == l.next
           pl == l.prev
           hl == l.head
           R == M \ {o}
<1>0. /\ M \in SUBSET Object /\ h \in M \cup {Null} /\ Null \notin Object /\ o # Null /\ o \in Object
      /\ \A x \in M : nx[x] \in M \cup {Null} /\ pv[x] \in M \cup {Null}
      /\ \A x \in M : nx[x] # Null => pv[nx[x]] = x
      /\ \A x \in M : IF pv[x] = Null THEN x = h ELSE nx[pv[x]] = x
  BY EventLoopAssumption DEF Chain
<1>1. n # o /\ p # o /\ (n = p => n = Null) /\ n \in R \cup {Null} /\ p \in R \cup {Null}
  BY <1>0, ChainAcyclic
<1>2. /\ hl = IF n = p THEN Null ELSE IF p = Null THEN n ELSE h
      /\ nl = [x \in Object |-> IF x = o THEN Null ELSE IF x = p THEN n ELSE nx[x]]
      /\ pl = [x \in Object |-> IF x = o THEN Null ELSE IF x = n THEN p ELSE pv[x]]
  BY DEF Unlinked
<1>3. \A x \in Object : /\ nl[x] = IF x = o THEN Null ELSE IF x = p THEN n ELSE nx[x]
                        /\ pl[x] = IF x = o THEN Null ELSE IF x = n THEN p ELSE pv[x]
  BY <1>2
<1>5. (p = Null => o = h) /\ (p # Null => nx[p] = o) /\ (n # Null => pv[n] = o)
  BY <1>0
<1>6. hl = IF p = Null THEN n ELSE h
  BY <1>1, <1>2
<1> HIDE DEF nl, pl, hl, n, p
<1>7. \A x \in R : nx[x] = o => x = p
  BY <1>0 DEF p
<1>8. \A x \in R : pv[x] = o => x = n
  BY <1>0 DEF n
<1>9. hl \in R \cup {Null}
  <2>1. p # Null => h # o
    BY <1>0, <1>5 DEF p, Chain
  <2> QED
    BY <1>0, <1>1, <1>6, <2>1
<1>10. hl # Null => pl[hl] = Null
  <2>1. CASE p = Null
    BY <1>0, <1>1, <1>3, <1>6, <2>1
  <2>2. CASE p # Null
    <3>1. hl = h /\ hl \in R \cup {Null} /\ (h # Null => pv[h] = Null)
      BY <1>6, <1>9, <2>2 DEF Chain
    <3>2. h # Null => h # n
      BY <1>0, <1>5, <3>1
    <3> QED
      BY <1>0, <1>3, <3>1, <3>2
  <2> QED
    BY <2>1, <2>2
<1>11. \A x \in R : nl[x] \in R \cup {Null} /\ pl[x] \in R \cup {Null}
  BY <1>0, <1>1, <1>3, <1>7, <1>8
<1>12. ASSUME NEW x \in R, nl[x] # Null PROVE pl[nl[x]] = x
  <2>1. CASE x = p
    BY <1>0, <1>1, <1>3, <1>12, <2>1
  <2>2. CASE x # p
    <3>1. nl[x] = nx[x] /\ nx[x] \in R /\ pv[nx[x]] = x
      BY <1>0, <1>3, <1>7, <1>12, <2>2
    <3>2. nx[x] # n
      BY <1>5, <1>12, <3>1
    <3> QED
      BY <1>0, <1>3, <3>1, <3>2
  <2> QED
    BY <2>1, <2>2
<1>13. ASSUME NEW x \in R PROVE IF pl[x] = Null THEN x = hl ELSE nl[pl[x]] = x
  <2>1. CASE x = n
    BY <1>0, <1>1, <1>3, <1>6, <2>1
  <2>2. CASE x # n
    <3>1. pl[x] = pv[x] /\ pv[x] # o /\ pv[x] \in R \cup {Null}
      BY <1>0, <1>3, <1>8, <2>2
    <3>2. CASE pv[x] = Null
      <4>1. x = h
        BY <1>0, <3>2
      <4>2. p # Null
        BY <1>5, <4>1
      <4> QED
        BY <1>6, <3>1, <3>2, <4>1, <4>2
    <3>3. CASE pv[x] # Null
      <4>1. nx[pv[x]] = x /\ pv[x] \in Object
        BY <1>0, <3>1, <3>3
      <4>2. pv[x] # p
        BY <1>5, <3>3, <4>1
      <4> QED
        BY <1>3, <3>1, <3>3, <4>1, <4>2
    <3> QED
      BY <3>2, <3>3
  <2> QED
    BY <2>1, <2>2
<1>14. ASSUME NEW S \in SUBSET R, hl # Null => hl \in S,
              \A x \in S : nl[x] # Null => nl[x] \in S
       PROVE  R \subseteq S
  <2>1. CASE p = Null \/ p \in S
    <3> DEFINE T == S \cup {o}
    <3>1. T \in SUBSET M /\ (h # Null => h \in T)
      BY <1>0, <1>5, <1>6, <1>14, <2>1
    <3>2. n # Null => n \in S
      BY <1>0, <1>1, <1>3, <1>6, <1>14, <2>1
    <3>3. ASSUME NEW x \in T, nx[x] # Null PROVE nx[x] \in T
      <4>1. CASE x = o
        BY <3>2, <3>3, <4>1 DEF n
      <4>2. CASE x # o /\ x = p
        BY <1>5, <1>0, <4>2, <1>1
      <4>3. CASE x # o /\ x # p
        <5>1. nl[x] = nx[x] /\ x \in S
          BY <1>0, <1>3, <4>3
        <5> QED
          BY <1>14, <3>3, <5>1
      <4> QED
        BY <4>1, <4>2, <4>3
    <3>4. M \subseteq T
      BY <3>1, <3>3 DEF Chain
    <3> QED
      BY <3>4
  <2>2. CASE p # Null /\ p \notin S
    <3>1. h # Null => h \in S
      BY <1>6, <1>14, <2>2
    <3>2. \A x \in S : nx[x] # Null => nx[x] \in S
      BY <1>0, <1>3, <1>14, <2>2
    <3>3. S \in SUBSET M
      OBVIOUS
    <3>4. M \subseteq S
      BY <3>1, <3>2, <3>3 DEF Chain
    <3> QED
      BY <3>4
  <2> QED
    BY <2>1, <2>2
<1>15. Chain(R, hl, nl, pl)
  <2>1. R \in SUBSET Object
    BY <1>0
  <2> HIDE DEF R
  <2> QED
    BY <1>9, <1>10, <1>11, <1>12, <1>13, <1>14, <2>1 DEF Chain
<1> QED
  BY <1>15 DEF nl, pl, hl

-----------------------------------------------------------------------------
(* The timers.                                                              *)

(* A set of natural numbers has a least element.                            *)
LEMMA LeastNatural ==
    ASSUME NEW S \in SUBSET Nat, S # {}
    PROVE  \E m \in S : \A k \in S : m <= k
<1>1. IsWellFoundedOn(OpToRel(<, Nat), Nat)
  BY NatLessThanWellFounded
<1>2. PICK m \in S : \A k \in S : ~(<<k, m>> \in OpToRel(<, Nat))
  BY <1>1, WFMin
<1>3. \A k \in S : ~(k < m)
  BY <1>2 DEF OpToRel
<1> QED
  BY <1>3

TimerType == [timer : Object \cup {HttpTimer, Listen}, in : Int, repeat : Nat]

\* Just the timers of W, each once, the earliest first; those of closing sockets do not
\* repeat.
TimersOf(ts, W) ==
    /\ ts \in Seq(TimerType)
    /\ \A i \in DOMAIN ts : ts[i].timer \in W
    /\ \A t \in W : \E i \in DOMAIN ts : ts[i].timer = t
    /\ \A i, j \in DOMAIN ts : i < j => ts[i].in <= ts[j].in /\ ts[i].timer # ts[j].timer
    /\ \A i \in DOMAIN ts : ts[i].repeat = IF ts[i].timer \in Object THEN 0 ELSE Second

(* What TimersOf says of the types.                                         *)
LEMMA TimersType ==
    ASSUME NEW W, NEW ts, TimersOf(ts, W)
    PROVE  /\ ts \in Seq(TimerType) /\ Len(ts) \in Nat /\ DOMAIN ts = 1 .. Len(ts)
           /\ \A i \in DOMAIN ts : ts[i] \in TimerType /\ ts[i].in \in Int
<1>1. ts \in Seq(TimerType)
  BY DEF TimersOf
<1>2. Len(ts) \in Nat /\ DOMAIN ts = 1 .. Len(ts) /\ \A i \in 1 .. Len(ts) : ts[i] \in TimerType
  BY <1>1
<1> QED
  BY <1>1, <1>2 DEF TimerType

(* The first elements of a sequence.                                        *)
LEMMA PrefixFacts ==
    ASSUME NEW T, NEW s \in Seq(T), NEW n \in 0 .. Len(s)
    PROVE  /\ SubSeq(s, 1, n) \in Seq(T) /\ Len(SubSeq(s, 1, n)) = n
           /\ \A i \in 1 .. n : SubSeq(s, 1, n)[i] = s[i]
<1>1. n \in Int /\ \A i \in 1 .. n : s[i] \in T
  OBVIOUS
<1>2. /\ SubSeq(s, 1, n) \in Seq(T)
      /\ Len(SubSeq(s, 1, n)) = (IF 1 <= n THEN n - 1 + 1 ELSE 0)
      /\ \A i \in 1 .. n - 1 + 1 : SubSeq(s, 1, n)[i] = s[1 + i - 1]
  BY <1>1, SubSeqProperties
<1>3. \A i \in 1 .. n : 1 + i - 1 = i
  OBVIOUS
<1> QED
  BY <1>2, <1>3

(* The last ones.                                                           *)
LEMMA SuffixFacts ==
    ASSUME NEW T, NEW s \in Seq(T), NEW m \in 1 .. Len(s) + 1
    PROVE  /\ SubSeq(s, m, Len(s)) \in Seq(T) /\ Len(SubSeq(s, m, Len(s))) = Len(s) + 1 - m
           /\ \A i \in 1 .. Len(s) + 1 - m : SubSeq(s, m, Len(s))[i] = s[m + i - 1]
<1> DEFINE k == Len(s)
<1>1. m \in Int /\ k \in Int /\ m <= k + 1 /\ \A i \in m .. k : s[i] \in T
  OBVIOUS
<1> HIDE DEF k
<1>2. /\ SubSeq(s, m, k) \in Seq(T)
      /\ Len(SubSeq(s, m, k)) = (IF m <= k THEN k - m + 1 ELSE 0)
      /\ \A i \in 1 .. k - m + 1 : SubSeq(s, m, k)[i] = s[m + i - 1]
  BY <1>1, SubSeqProperties
<1>3. (IF m <= k THEN k - m + 1 ELSE 0) = k + 1 - m /\ k - m + 1 = k + 1 - m
  BY <1>1
<1> QED
  BY <1>2, <1>3 DEF k

(* The elements of a sequence after InsertAt.                               *)
LEMMA InsertAtFacts ==
    ASSUME NEW T, NEW s \in Seq(T), NEW e \in T, NEW n \in 0 .. Len(s)
    PROVE  /\ InsertAt(s, n + 1, e) \in Seq(T)
           /\ Len(InsertAt(s, n + 1, e)) = Len(s) + 1
           /\ \A i \in 1 .. Len(s) + 1 : InsertAt(s, n + 1, e)[i] =
                 IF i <= n THEN s[i] ELSE IF i = n + 1 THEN e ELSE s[i - 1]
<1> DEFINE a == SubSeq(s, 1, n)
           b == SubSeq(s, n + 1, Len(s))
           c == a \o <<e>>
           r == c \o b
<1>1. /\ Len(s) \in Nat /\ n \in Nat /\ n <= Len(s) /\ DOMAIN s = 1 .. Len(s)
      /\ \A i \in 1 .. Len(s) : s[i] \in T
  OBVIOUS
<1>2. a \in Seq(T) /\ Len(a) = n /\ \A i \in 1 .. n : a[i] = s[i]
  BY PrefixFacts
<1>3. b \in Seq(T) /\ Len(b) = Len(s) - n /\ \A i \in 1 .. Len(s) - n : b[i] = s[n + i]
  <2> DEFINE m == n + 1
  <2>1. /\ m \in 1 .. Len(s) + 1 /\ Len(s) + 1 - m = Len(s) - n
        /\ \A i \in Int : m + i - 1 = n + i
    <3> DEFINE k == Len(s)
    <3>1. k \in Nat /\ n \in Nat /\ n <= k
      BY <1>1
    <3> HIDE DEF k
    <3>2. m \in 1 .. k + 1 /\ k + 1 - m = k - n /\ \A i \in Int : m + i - 1 = n + i
      BY <3>1
    <3> QED
      BY <3>2 DEF k
  <2>2. b = SubSeq(s, m, Len(s))
    OBVIOUS
  <2> HIDE DEF m, b
  <2>3. b \in Seq(T) /\ Len(b) = Len(s) + 1 - m
        /\ \A i \in 1 .. Len(s) + 1 - m : b[i] = s[m + i - 1]
    BY <2>1, <2>2, SuffixFacts
  <2> QED
    BY <2>1, <2>3
<1> HIDE DEF a, b
<1>4. <<e>> \in Seq(T) /\ Len(<<e>>) = 1 /\ <<e>>[1] = e
  OBVIOUS
<1>5. c \in Seq(T) /\ Len(c) = n + 1
      /\ \A i \in 1 .. n + 1 : c[i] = IF i <= n THEN s[i] ELSE e
  <2>1. c \in Seq(T) /\ Len(c) = Len(a) + 1
        /\ \A i \in 1 .. Len(a) + 1 : c[i] = IF i <= Len(a) THEN a[i] ELSE <<e>>[i - Len(a)]
    BY <1>2, <1>4, ConcatProperties
  <2>2. \A i \in 1 .. n + 1 : i <= n \/ i - n = 1
    BY <1>1
  <2> QED
    BY <1>1, <1>2, <1>4, <2>1, <2>2
<1> HIDE DEF c, r
<1>6. /\ r \in Seq(T) /\ Len(r) = Len(s) + 1
      /\ \A i \in 1 .. Len(s) + 1 :
            r[i] = IF i <= n THEN s[i] ELSE IF i = n + 1 THEN e ELSE s[i - 1]
  <2>1. r \in Seq(T) /\ Len(r) = Len(c) + Len(b)
        /\ \A i \in 1 .. Len(c) + Len(b) : r[i] = IF i <= Len(c) THEN c[i] ELSE b[i - Len(c)]
    BY <1>3, <1>5, ConcatProperties DEF r
  <2>2. Len(c) + Len(b) = Len(s) + 1
    BY <1>1, <1>3, <1>5
  <2>3. ASSUME NEW i \in 1 .. Len(s) + 1
        PROVE r[i] = IF i <= n THEN s[i] ELSE IF i = n + 1 THEN e ELSE s[i - 1]
    <3>1. CASE i <= n + 1
      <4>1. i \in 1 .. n + 1 /\ r[i] = c[i]
        BY <1>1, <1>5, <2>1, <2>2, <3>1
      <4> QED
        BY <1>1, <1>5, <4>1
    <3>2. CASE ~(i <= n + 1)
      <4>1. r[i] = b[i - (n + 1)] /\ i - (n + 1) \in 1 .. Len(s) - n
            /\ n + (i - (n + 1)) = i - 1
        BY <1>1, <1>5, <2>1, <2>2, <3>2
      <4>2. b[i - (n + 1)] = s[i - 1]
        BY <1>3, <4>1
      <4> QED
        BY <1>1, <3>2, <4>1, <4>2
    <3> QED
      BY <3>1, <3>2
  <2> QED
    BY <2>1, <2>2, <2>3
<1>7. InsertAt(s, n + 1, e) = r
  <2> DEFINE m == n + 1
  <2>1. a = SubSeq(s, 1, m - 1) /\ b = SubSeq(s, m, Len(s))
    <3>1. m - 1 = n
      BY <1>1
    <3> QED
      BY <3>1 DEF a, b
  <2> HIDE DEF m
  <2>2. InsertAt(s, m, e) = SubSeq(s, 1, m - 1) \o <<e>> \o SubSeq(s, m, Len(s))
    BY DEF InsertAt
  <2>3. InsertAt(s, m, e) = r
    BY <2>1, <2>2, Zenon DEF c, r
  <2> QED
    BY <2>3 DEF m
<1> QED
  BY <1>6, <1>7

(* And after RemoveAt.                                                      *)
LEMMA RemoveAtFacts ==
    ASSUME NEW T, NEW s \in Seq(T), NEW n \in 1 .. Len(s)
    PROVE  /\ RemoveAt(s, n) \in Seq(T) /\ Len(RemoveAt(s, n)) = Len(s) - 1
           /\ \A i \in 1 .. Len(s) - 1 : RemoveAt(s, n)[i] = IF i < n THEN s[i] ELSE s[i + 1]
<1> DEFINE a == SubSeq(s, 1, n - 1)
           b == SubSeq(s, n + 1, Len(s))
           r == a \o b
<1>1. Len(s) \in Nat /\ n \in Nat /\ n >= 1 /\ n <= Len(s) /\ \A i \in 1 .. Len(s) : s[i] \in T
  OBVIOUS
<1>2. a \in Seq(T) /\ Len(a) = n - 1 /\ \A i \in 1 .. n - 1 : a[i] = s[i]
  <2> DEFINE m == n - 1
  <2>1. m \in 0 .. Len(s) /\ a = SubSeq(s, 1, m)
    BY <1>1
  <2> HIDE DEF m, a
  <2>2. a \in Seq(T) /\ Len(a) = m /\ \A i \in 1 .. m : a[i] = s[i]
    BY <2>1, PrefixFacts
  <2> QED
    BY <2>2 DEF m
<1>3. b \in Seq(T) /\ Len(b) = Len(s) - n /\ \A i \in 1 .. Len(s) - n : b[i] = s[n + i]
  <2> DEFINE m == n + 1
  <2>1. m \in 1 .. Len(s) + 1 /\ Len(s) + 1 - m = Len(s) - n /\ \A i \in Int : m + i - 1 = n + i
    BY <1>1
  <2>2. b = SubSeq(s, m, Len(s))
    OBVIOUS
  <2> HIDE DEF m, b
  <2>3. b \in Seq(T) /\ Len(b) = Len(s) + 1 - m
        /\ \A i \in 1 .. Len(s) + 1 - m : b[i] = s[m + i - 1]
    BY <2>1, <2>2, SuffixFacts
  <2> QED
    BY <2>1, <2>3
<1> HIDE DEF a, b, r
<1>4. /\ r \in Seq(T) /\ Len(r) = Len(s) - 1
      /\ \A i \in 1 .. Len(s) - 1 : r[i] = IF i < n THEN s[i] ELSE s[i + 1]
  <2>1. r \in Seq(T) /\ Len(r) = Len(a) + Len(b)
        /\ \A i \in 1 .. Len(a) + Len(b) : r[i] = IF i <= Len(a) THEN a[i] ELSE b[i - Len(a)]
    BY <1>2, <1>3, ConcatProperties DEF r
  <2>2. Len(a) + Len(b) = Len(s) - 1
    BY <1>1, <1>2, <1>3
  <2>3. ASSUME NEW i \in 1 .. Len(s) - 1
        PROVE r[i] = IF i < n THEN s[i] ELSE s[i + 1]
    <3>1. CASE i < n
      <4>1. i \in 1 .. n - 1 /\ r[i] = a[i]
        BY <1>1, <1>2, <2>1, <2>2, <3>1
      <4> QED
        BY <1>2, <3>1, <4>1
    <3>2. CASE ~(i < n)
      <4>1. r[i] = b[i - (n - 1)] /\ i - (n - 1) \in 1 .. Len(s) - n
            /\ n + (i - (n - 1)) = i + 1
        BY <1>1, <1>2, <2>1, <2>2, <3>2
      <4>2. b[i - (n - 1)] = s[i + 1]
        BY <1>3, <4>1
      <4> QED
        BY <3>2, <4>1, <4>2
    <3> QED
      BY <3>1, <3>2
  <2> QED
    BY <2>1, <2>2, <2>3
<1>5. RemoveAt(s, n) = r
  BY DEF RemoveAt, a, b, r
<1> QED
  BY <1>4, <1>5

(* In sorted timers there is a place to insert one at.                      *)
LEMMA UpperBoundFacts ==
    ASSUME NEW W, NEW ts, TimersOf(ts, W), NEW in \in Int
    PROVE  /\ UpperBound(ts, in) \in 0 .. Len(ts)
           /\ \A i \in DOMAIN ts : ts[i].in <= in <=> i <= UpperBound(ts, in)
<1> DEFINE A == {n \in 0 .. Len(ts) : \A j \in DOMAIN ts : j > n => ~(ts[j].in <= in)}
<1>1. Len(ts) \in Nat /\ DOMAIN ts = 1 .. Len(ts) /\ \A i \in DOMAIN ts : ts[i].in \in Int
  BY TimersType
<1>2. A \in SUBSET Nat /\ Len(ts) \in A /\ A # {}
  BY <1>1
<1>3. PICK m \in A : \A k \in A : m <= k
  <2> HIDE DEF A
  <2> QED
    BY <1>2, LeastNatural
<1>4. m \in 0 .. Len(ts) /\ \A j \in DOMAIN ts : j > m => ~(ts[j].in <= in)
  OBVIOUS
<1>5. ASSUME NEW i \in DOMAIN ts, i <= m PROVE ts[i].in <= in
  <2> HIDE DEF A
  <2>0. m \in DOMAIN ts /\ m - 1 \in 0 .. Len(ts) /\ ~(m <= m - 1)
    BY <1>1, <1>4, <1>5
  <2>1. m \in DOMAIN ts /\ m - 1 \in 0 .. Len(ts) /\ m - 1 \notin A
    BY <1>3, <2>0
  <2> USE DEF A
  <2>2. PICK j \in DOMAIN ts : j > m - 1 /\ ts[j].in <= in
    BY <2>1
  <2>3. j = m
    BY <1>1, <1>4, <2>2
  <2>4. i = m \/ ts[i].in <= ts[m].in
    BY <1>1, <1>4, <1>5, <2>1 DEF TimersOf
  <2> QED
    BY <1>1, <2>1, <2>2, <2>3, <2>4
<1>6. \A i \in DOMAIN ts : ts[i].in <= in <=> i <= m
  BY <1>1, <1>4, <1>5
<1> HIDE DEF A
<1> QED
  BY <1>4, <1>6 DEF UpperBound

(* Timer::start.                                                            *)
LEMMA InsertedTimers ==
    ASSUME NEW W, NEW ts, TimersOf(ts, W), NEW in \in Int,
           NEW t \in Object \cup {HttpTimer, Listen}, t \notin W,
           NEW repeat \in Nat, repeat = IF t \in Object THEN 0 ELSE Second
    PROVE  TimersOf(Inserted(ts, t, in, repeat), W \cup {t})
<1> DEFINE n == UpperBound(ts, in)
           e == [timer |-> t, in |-> in, repeat |-> repeat]
           r == InsertAt(ts, n + 1, e)
<1>1. ts \in Seq(TimerType) /\ Len(ts) \in Nat /\ DOMAIN ts = 1 .. Len(ts)
      /\ \A i \in DOMAIN ts : ts[i].in \in Int
  BY TimersType
<1>2. n \in 0 .. Len(ts) /\ \A i \in DOMAIN ts : ts[i].in <= in <=> i <= n
  BY UpperBoundFacts
<1> HIDE DEF n
<1>3. e \in TimerType /\ e.timer = t /\ e.in = in /\ e.repeat = repeat
  BY DEF TimerType
<1> HIDE DEF e
<1> HIDE DEF r
<1>4. /\ r \in Seq(TimerType) /\ Len(r) = Len(ts) + 1
      /\ \A i \in 1 .. Len(ts) + 1 :
            r[i] = IF i <= n THEN ts[i] ELSE IF i = n + 1 THEN e ELSE ts[i - 1]
  <2>1. /\ InsertAt(ts, n + 1, e) \in Seq(TimerType)
        /\ Len(InsertAt(ts, n + 1, e)) = Len(ts) + 1
        /\ \A i \in 1 .. Len(ts) + 1 : InsertAt(ts, n + 1, e)[i] =
              IF i <= n THEN ts[i] ELSE IF i = n + 1 THEN e ELSE ts[i - 1]
    <3>1. ts \in Seq(TimerType) /\ n \in 0 .. Len(ts) /\ e \in TimerType
      BY <1>1, <1>2, <1>3
    <3> QED
      BY <3>1, InsertAtFacts
  <2> QED
    BY <2>1 DEF r
<1>5. DOMAIN r = 1 .. Len(ts) + 1
  BY <1>4
<1>6. ASSUME NEW i \in DOMAIN r
      PROVE  \/ i <= n /\ i \in DOMAIN ts /\ r[i] = ts[i]
             \/ i = n + 1 /\ r[i] = e
             \/ i > n + 1 /\ i - 1 \in DOMAIN ts /\ r[i] = ts[i - 1]
  BY <1>1, <1>2, <1>4, <1>5
<1>7. \A i \in DOMAIN r : r[i].timer \in W \cup {t}
                          /\ r[i].repeat = IF r[i].timer \in Object THEN 0 ELSE Second
  BY <1>3, <1>6 DEF TimersOf
<1>8. ASSUME NEW u \in W \cup {t} PROVE \E i \in DOMAIN r : r[i].timer = u
  <2>1. CASE u = t
    <3>1. n + 1 \in DOMAIN r /\ r[n + 1] = e
      BY <1>1, <1>2, <1>4, <1>5
    <3> QED
      BY <1>3, <2>1, <3>1
  <2>2. CASE u \in W
    <3>1. PICK i \in DOMAIN ts : ts[i].timer = u
      BY <2>2 DEF TimersOf
    <3>2. CASE i <= n
      <4>1. i \in DOMAIN r /\ r[i] = ts[i]
        BY <1>1, <1>2, <1>4, <1>5, <3>2
      <4> QED
        BY <3>1, <4>1
    <3>3. CASE ~(i <= n)
      <4>1. i + 1 \in DOMAIN r /\ r[i + 1] = ts[i + 1 - 1] /\ i + 1 - 1 = i
        BY <1>1, <1>2, <1>4, <1>5, <3>3
      <4> QED
        BY <3>1, <4>1
    <3> QED
      BY <3>2, <3>3
  <2> QED
    BY <2>1, <2>2
<1>9. ASSUME NEW i \in DOMAIN r, NEW j \in DOMAIN r, i < j
      PROVE  r[i].in <= r[j].in /\ r[i].timer # r[j].timer
  <2> DEFINE a == IF i <= n THEN i ELSE i - 1
             b == IF j <= n THEN j ELSE j - 1
  <2>0. n \in Int /\ i \in Int /\ j \in Int
    BY <1>1, <1>2, <1>5
  <2>1. CASE i # n + 1 /\ j # n + 1
    <3>1. a \in DOMAIN ts /\ b \in DOMAIN ts /\ a < b /\ r[i] = ts[a] /\ r[j] = ts[b]
      BY <1>6, <1>9, <2>0, <2>1
    <3> HIDE DEF a, b
    <3> QED
      BY <3>1 DEF TimersOf
  <2>2. CASE i = n + 1
    <3>1. r[i] = e /\ j - 1 \in DOMAIN ts /\ j - 1 > n /\ r[j] = ts[j - 1]
      BY <1>6, <1>9, <2>0, <2>2
    <3>2. in <= ts[j - 1].in
      BY <1>1, <1>2, <2>0, <3>1
    <3>3. ts[j - 1].timer \in W
      BY <3>1 DEF TimersOf
    <3> QED
      BY <1>3, <3>1, <3>2, <3>3
  <2>3. CASE j = n + 1
    <3>1. r[j] = e /\ i \in DOMAIN ts /\ i <= n /\ r[i] = ts[i]
      BY <1>6, <1>9, <2>0, <2>3
    <3>2. ts[i].in <= in /\ ts[i].timer \in W
      BY <1>2, <3>1 DEF TimersOf
    <3> QED
      BY <1>3, <3>1, <3>2
  <2> QED
    BY <2>1, <2>2, <2>3
<1>10. TimersOf(r, W \cup {t})
  BY <1>4, <1>7, <1>8, <1>9 DEF TimersOf
<1> QED
  BY <1>10 DEF Inserted, r, n, e

(* An element taken out of the timers.                                      *)
LEMMA RemovedTimers ==
    ASSUME NEW W, NEW ts, TimersOf(ts, W), NEW n \in DOMAIN ts
    PROVE  TimersOf(RemoveAt(ts, n), W \ {ts[n].timer})
<1> DEFINE r == RemoveAt(ts, n)
<1>1. ts \in Seq(TimerType) /\ Len(ts) \in Nat /\ DOMAIN ts = 1 .. Len(ts) /\ n \in 1 .. Len(ts)
  BY DEF TimersOf, TimerType
<1>2. r \in Seq(TimerType) /\ Len(r) = Len(ts) - 1
      /\ \A i \in 1 .. Len(ts) - 1 : r[i] = IF i < n THEN ts[i] ELSE ts[i + 1]
  BY <1>1, RemoveAtFacts
<1> HIDE DEF r
<1>3. DOMAIN r = 1 .. Len(ts) - 1
  BY <1>2
<1>4. ASSUME NEW i \in DOMAIN r
      PROVE  \/ i < n /\ i \in DOMAIN ts /\ r[i] = ts[i]
             \/ i >= n /\ i + 1 \in DOMAIN ts /\ r[i] = ts[i + 1]
  BY <1>1, <1>2, <1>3
<1>5. \A i \in DOMAIN ts : i # n => ts[i].timer # ts[n].timer
  BY <1>1 DEF TimersOf
<1>6. \A i \in DOMAIN r : r[i].timer \in W \ {ts[n].timer}
                          /\ r[i].repeat = IF r[i].timer \in Object THEN 0 ELSE Second
  <2> TAKE i \in DOMAIN r
  <2> DEFINE a == IF i < n THEN i ELSE i + 1
  <2>1. a \in DOMAIN ts /\ a # n /\ r[i] = ts[a]
    BY <1>1, <1>3, <1>4
  <2> HIDE DEF a
  <2> QED
    BY <1>5, <2>1 DEF TimersOf
<1>7. ASSUME NEW u \in W \ {ts[n].timer} PROVE \E i \in DOMAIN r : r[i].timer = u
  <2>1. PICK i \in DOMAIN ts : ts[i].timer = u
    BY DEF TimersOf
  <2>2. i # n
    BY <2>1
  <2>3. CASE i < n
    <3>1. i \in DOMAIN r /\ r[i] = ts[i]
      BY <1>1, <1>2, <1>3, <2>3
    <3> QED
      BY <2>1, <3>1
  <2>4. CASE ~(i < n)
    <3>1. i - 1 \in DOMAIN r /\ r[i - 1] = ts[i - 1 + 1] /\ i - 1 + 1 = i
      BY <1>1, <1>2, <1>3, <2>2, <2>4
    <3> QED
      BY <2>1, <3>1
  <2> QED
    BY <2>3, <2>4
<1>8. ASSUME NEW i \in DOMAIN r, NEW j \in DOMAIN r, i < j
      PROVE  r[i].in <= r[j].in /\ r[i].timer # r[j].timer
  <2> DEFINE a == IF i < n THEN i ELSE i + 1
             b == IF j < n THEN j ELSE j + 1
  <2>1. a \in DOMAIN ts /\ b \in DOMAIN ts /\ a < b /\ r[i] = ts[a] /\ r[j] = ts[b]
    BY <1>1, <1>3, <1>4, <1>8
  <2> HIDE DEF a, b
  <2> QED
    BY <2>1 DEF TimersOf
<1>9. TimersOf(r, W \ {ts[n].timer})
  BY <1>2, <1>6, <1>7, <1>8 DEF TimersOf
<1> QED
  BY <1>9 DEF r

(* Timer::stop.                                                             *)
LEMMA ErasedTimers ==
    ASSUME NEW W, NEW ts, TimersOf(ts, W), NEW t \in W
    PROVE  TimersOf(Erased(ts, t), W \ {t})
<1>1. \E i \in DOMAIN ts : ts[i].timer = t
  BY DEF TimersOf
<1>2. PICK n \in DOMAIN ts : ts[n].timer = t /\ Erased(ts, t) = RemoveAt(ts, n)
  BY <1>1 DEF Erased
<1> QED
  BY <1>2, RemovedTimers

(* The loop's timers.erase(timers.begin()).                                 *)
LEMMA FirstTimerErased ==
    ASSUME NEW W, NEW ts, TimersOf(ts, W), ts # <<>>
    PROVE  /\ TimersOf(Tail(ts), W \ {ts[1].timer})
           /\ ts[1] \in TimerType /\ ts[1].timer \in W
           /\ ts[1].repeat = IF ts[1].timer \in Object THEN 0 ELSE Second
<1>1. ts \in Seq(TimerType) /\ Len(ts) \in Nat /\ DOMAIN ts = 1 .. Len(ts)
  BY DEF TimersOf
<1>2. 1 \in DOMAIN ts /\ 1 \in 1 .. Len(ts)
  BY <1>1
<1>3. RemoveAt(ts, 1) \in Seq(TimerType) /\ Len(RemoveAt(ts, 1)) = Len(ts) - 1
      /\ \A i \in 1 .. Len(ts) - 1 : RemoveAt(ts, 1)[i] = IF i < 1 THEN ts[i] ELSE ts[i + 1]
  BY <1>1, <1>2, RemoveAtFacts
<1>4. Tail(ts) \in Seq(TimerType) /\ Len(Tail(ts)) = Len(ts) - 1
      /\ \A i \in 1 .. Len(ts) - 1 : Tail(ts)[i] = ts[i + 1]
  BY <1>1, HeadTailProperties
<1>5. \A i \in 1 .. Len(ts) - 1 : RemoveAt(ts, 1)[i] = Tail(ts)[i]
  BY <1>1, <1>3, <1>4
<1>6. Tail(ts) = RemoveAt(ts, 1)
  BY <1>3, <1>4, <1>5, SeqEqual
<1>7. TimersOf(RemoveAt(ts, 1), W \ {ts[1].timer})
  BY <1>2, RemovedTimers
<1>8. TimersOf(Tail(ts), W \ {ts[1].timer})
  BY <1>6, <1>7
<1> QED
  BY <1>1, <1>2, <1>8 DEF TimersOf

(* As time passes.                                                          *)
LEMMA LaterTimers ==
    ASSUME NEW W, TimersOf(timers, W), NEW ticks \in Int
    PROVE  TimersOf(Later(ticks), W) /\ (Later(ticks) = <<>> => timers = <<>>)
<1> DEFINE r == Later(ticks)
           in(i) == IF timers[i].in - ticks < -1 THEN -1 ELSE timers[i].in - ticks
<1>1. timers \in Seq(TimerType) /\ Len(timers) \in Nat /\ DOMAIN timers = 1 .. Len(timers)
      /\ \A i \in DOMAIN timers : timers[i] \in TimerType /\ timers[i].in \in Int
  BY TimersType
<1>2. ASSUME NEW i \in DOMAIN timers
      PROVE  in(i) \in Int /\ [timers[i] EXCEPT !.in = in(i)] \in TimerType
  <2>1. timers[i] \in TimerType /\ in(i) \in Int
    BY <1>1
  <2> HIDE DEF in
  <2>2. \A e \in TimerType, n \in Int : [e EXCEPT !.in = n] \in TimerType
    BY DEF TimerType
  <2> QED
    BY <2>1, <2>2
<1>3. r = [i \in DOMAIN timers |-> [timers[i] EXCEPT !.in = in(i)]]
  BY DEF Later
<1>4. r \in Seq(TimerType) /\ DOMAIN r = DOMAIN timers
  BY <1>1, <1>2, <1>3
<1>5. \A i \in DOMAIN timers : /\ r[i].timer = timers[i].timer /\ r[i].repeat = timers[i].repeat
                               /\ r[i].in = in(i)
  BY <1>1, <1>3 DEF TimerType
<1>6. \A i, j \in DOMAIN timers : timers[i].in <= timers[j].in => in(i) <= in(j)
  BY <1>1
<1> HIDE DEF r, in
<1>7. \A i, j \in DOMAIN r : i < j => r[i].in <= r[j].in /\ r[i].timer # r[j].timer
  BY <1>4, <1>5, <1>6 DEF TimersOf
<1>8. TimersOf(r, W)
  BY <1>4, <1>5, <1>7 DEF TimersOf
<1>9. r = <<>> => timers = <<>>
  BY <1>1, <1>4
<1> QED
  BY <1>8, <1>9 DEF r

(* Each once, the timers are as many as should run.                         *)
LEMMA CountTimers ==
    ASSUME NEW W, NEW ts, TimersOf(ts, W)
    PROVE  {ts[i].timer : i \in DOMAIN ts} = W /\ Len(ts) = Cardinality(W)
<1> DEFINE f == [i \in 1 .. Len(ts) |-> ts[i].timer]
<1>1. Len(ts) \in Nat /\ DOMAIN ts = 1 .. Len(ts)
  BY DEF TimersOf
<1>2. f \in [1 .. Len(ts) -> W] /\ \A t \in W : \E i \in 1 .. Len(ts) : f[i] = t
  BY <1>1 DEF TimersOf
<1>3. \A i, j \in 1 .. Len(ts) : f[i] = f[j] => i = j
  BY <1>1 DEF TimersOf
<1>4. f \in Bijection(1 .. Len(ts), W)
  BY <1>2, <1>3, Fun_IsBij
<1>5. ExistsBijection(1 .. Len(ts), W)
  BY <1>4, Fun_ExistsBij
<1>6. Cardinality(W) = Len(ts)
  BY <1>1, <1>5, FS_CountingElements
<1> QED
  BY <1>1, <1>6 DEF TimersOf

-----------------------------------------------------------------------------
(* The invariant.                                                           *)

Kinds == {"free", "http", "web", "closing", "closed"}

(* Sockets end outside their own event only while no event waits: the pass  *)
(* of the deadline and the timer of close() run when the batch is dealt     *)
(* with.                                                                    *)
BatchInv == /\ kind \in [Object -> Kinds]
            /\ ready \subseteq Object \cup {Listen}
            /\ ready # {} => at = "events" \/ (at = "accept" /\ Listen \in ready)

EventInv == BatchInv /\ NoStaleEvent

Link == [Object -> Object \cup {Null}]

\* The links of a socket that is in no list are Null.
ListInv == /\ next \in Link /\ prev \in Link
           /\ \A o \in Object : kind[o] \notin {"http", "web"} => next[o] = Null /\ prev[o] = Null
           /\ Chain(Is("http"), httpHead, next, prev)
           /\ Chain(Is("web"), webHead, next, prev)

\* Where the loop sleeps, or is about to, it knows for how long; a callback that has
\* stopped its own timer has set that, and one that has not finds its timer still first.
TimerInv ==
    /\ listening \in BOOLEAN /\ cancelled \in BOOLEAN
    /\ TimersOf(timers, Wanted)
    /\ timers = <<>> => delay = -1
    /\ Listen \in ready => listening
    /\ at \in {"reap", "wait", "events", "accept", "timers", "more", "return", "pass", "retry"}
    /\ at \in {"reap", "wait", "events", "timers", "more"} => processing = Null /\ ~cancelled
    /\ at = "accept" => IF Listen \in ready THEN processing = Null /\ ~cancelled
                        ELSE processing = Listen /\ cancelled
    /\ at = "retry" => processing = Listen /\ cancelled
    /\ at = "pass" => processing = HttpTimer
    /\ at \in {"return", "pass"} /\ ~cancelled =>
           /\ timers # <<>> /\ timers[1].timer = processing
           /\ processing \in {HttpTimer, Listen}
    /\ \/ at \in {"reap", "wait", "more"}
       \/ at \in {"accept", "return", "pass", "retry"} /\ cancelled
       => delay = NextDelay(timers)

\* pv, with h as the first of its chain.
From(h, pv) == [o \in Object |-> IF o = h THEN Null ELSE pv[o]]

\* The pass is at the first of the sockets that are left.
PassInv == IF at = "pass"
           THEN /\ iterators = <<iterator>>
                /\ Chain(Is("http") \ visited, iterator, next, From(iterator, prev))
           ELSE iterators = <<>>

LoopInv == BatchInv /\ ListInv /\ TimerInv /\ PassInv

-----------------------------------------------------------------------------
(* The steps and the batch of events.                                       *)

(* A callback for a socket's own event, which is the one that may end it.   *)
LEMMA OwnEvent ==
  ASSUME EventInv, NEW o \in Object, Event(o), at' = at, NEW to \in Kinds,
         kind' = [kind EXCEPT ![o] = to]
  PROVE  EventInv'
<1>1. ready' = ready \ {o} /\ at = "events"
  BY DEF Event
<1>2. kind' \in [Object -> Kinds] /\ \A p \in Object \ {o} : kind'[p] = kind[p]
  BY DEF EventInv, BatchInv
<1>3. BatchInv'
  BY <1>1, <1>2 DEF EventInv, BatchInv
<1>4. ASSUME NEW p \in ready', p # Listen PROVE kind'[p] \in {"http", "web", "closing"}
  <2>1. p \in ready /\ p \in Object /\ p # o
    BY <1>1, <1>4 DEF EventInv, BatchInv
  <2>2. kind[p] \in {"http", "web", "closing"}
    BY <1>4, <2>1 DEF EventInv, NoStaleEvent
  <2> QED
    BY <1>2, <2>1, <2>2
<1> QED
  BY <1>3, <1>4 DEF EventInv, NoStaleEvent

(* The callbacks of a batch of events.                                      *)
LEMMA CallbackStep == ASSUME EventInv, Callback PROVE EventInv'
<1>1. kind \in [Object -> Kinds] /\ ready \subseteq Object \cup {Listen} /\ NoStaleEvent
  BY DEF EventInv, BatchInv
<1>2. ASSUME NEW o \in Object, Accept(o) PROVE EventInv'
  <2>1. /\ kind[o] = "free" /\ kind' = [kind EXCEPT ![o] = "http"]
        /\ ready' = ready /\ at' = "accept"
    BY <1>2 DEF Accept
  <2>2. \A p \in Object : kind'[p] = IF p = o THEN "http" ELSE kind[p]
    BY <1>1, <2>1
  <2>3. ready # {} => Listen \in ready
    BY <1>2 DEF Accept, EventInv, BatchInv
  <2>4. kind' \in [Object -> Kinds]
    BY <1>1, <2>1 DEF Kinds
  <2> QED
    BY <1>1, <2>1, <2>2, <2>3, <2>4 DEF EventInv, BatchInv, NoStaleEvent
<1>3. ASSUME NEW o \in Object, Request(o) \/ Data(o) PROVE EventInv'
  <2>1. Event(o) /\ at' = at /\ kind' = kind
    BY <1>3 DEF Request, Data, sockets
  <2>2. ready' = ready \ {o} /\ at = "events"
    BY <2>1 DEF Event
  <2> QED
    BY <1>1, <2>1, <2>2 DEF EventInv, BatchInv, NoStaleEvent
<1>4. ASSUME NEW o \in Object, Ends(o) PROVE EventInv'
  <2>1. Event(o) /\ at' = at /\ kind' = [kind EXCEPT ![o] = "closed"]
    BY <1>4 DEF Ends, HttpEnd, WebEnd
  <2>2. "closed" \in Kinds
    BY DEF Kinds
  <2> QED
    BY <2>1, <2>2, OwnEvent
<1>5. ASSUME NEW o \in Object, NEW w \in Object, Upgrade(o, w) PROVE EventInv'
  <2>1. /\ ready' = ready \ {o} /\ at' = at /\ at = "events"
        /\ kind' = [kind EXCEPT ![o] = "free", ![w] = "web"]
        /\ kind[o] = "http" /\ kind[w] = "free"
    BY <1>5 DEF Upgrade, Event
  <2>2. kind' \in [Object -> Kinds]
    BY <1>1, <2>1 DEF Kinds
  <2>3. \A p \in Object : kind'[p] = IF p = w THEN "web" ELSE IF p = o THEN "free" ELSE kind[p]
    BY <1>1, <2>1
  <2>4. ASSUME NEW p \in ready', p # Listen PROVE kind'[p] \in {"http", "web", "closing"}
    <3>1. p \in ready /\ p # o /\ p \in Object
      BY <1>1, <2>1, <2>4
    <3>2. kind[p] \in {"http", "web", "closing"}
      BY <1>1, <2>4, <3>1 DEF NoStaleEvent
    <3> QED
      BY <2>3, <3>1, <3>2
  <2> QED
    BY <1>1, <2>1, <2>2, <2>4 DEF EventInv, BatchInv, NoStaleEvent
<1>6. ASSUME NEW o \in Object, NEW p \in Object, Closes(o, p) PROVE EventInv'
  <2>1. /\ ready' = ready \ {o} /\ at' = at /\ at = "events"
        /\ kind' = [kind EXCEPT ![p] = "closing"]
    BY <1>6 DEF Closes, Close, Event
  <2>2. \A q \in Object : kind'[q] = IF q = p THEN "closing" ELSE kind[q]
    BY <1>1, <2>1
  <2>3. kind' \in [Object -> Kinds]
    BY <1>1, <2>1 DEF Kinds
  <2> QED
    BY <1>1, <2>1, <2>2, <2>3 DEF EventInv, BatchInv, NoStaleEvent
<1>7. ASSUME NoMore PROVE EventInv'
  <2>1. /\ ready' = ready \ {Listen} /\ kind' = kind
        /\ at' = IF Listen \in ready THEN "events" ELSE "return"
    BY <1>7 DEF NoMore, sockets
  <2>2. at = "accept"
    BY <1>7 DEF NoMore
  <2> QED
    BY <1>1, <2>1, <2>2 DEF EventInv, BatchInv, NoStaleEvent
<1>8. ASSUME AcceptFails PROVE EventInv'
  <2>1. ready' = ready \ {Listen} /\ kind' = kind /\ at' = at /\ at = "events"
    BY <1>8 DEF AcceptFails, Event, sockets
  <2> QED
    BY <1>1, <2>1 DEF EventInv, BatchInv, NoStaleEvent
<1> QED
  BY <1>2, <1>3, <1>4, <1>5, <1>6, <1>7, <1>8 DEF Callback

(* The turns of the loop: what they end or free has no event waiting.       *)
LEMMA TurnStep ==
  ASSUME EventInv, Turn \/ \E ticks \in 0 .. MaxTicks : Wait(ticks) PROVE EventInv'
<1>1. kind \in [Object -> Kinds] /\ ready \subseteq Object \cup {Listen} /\ NoStaleEvent
  BY DEF EventInv, BatchInv
<1>2. ASSUME ready' = {}, kind' \in [Object -> Kinds] PROVE EventInv'
  BY <1>2 DEF EventInv, BatchInv, NoStaleEvent
<1>3. at \notin {"events", "accept"} => ready = {}
  BY DEF EventInv, BatchInv
<1>4. CASE Reap
  <2>1. ready' = ready /\ ready = {}
    BY <1>3, <1>4 DEF Reap
  <2>2. kind' \in [Object -> Kinds]
    BY <1>1, <1>4 DEF Reap, Kinds
  <2> QED
    BY <1>2, <2>1, <2>2
<1>5. CASE EventsDone \/ NoneDue \/ DeadlineTimer \/ AcceptTimer \/ PassDone \/ Return
  <2>1. kind' = kind /\ ready' = ready /\ ready = {}
    BY <1>3, <1>5 DEF EventsDone, NoneDue, DeadlineTimer, AcceptTimer, PassDone, Return,
                      Process, sockets
  <2> QED
    BY <1>1, <1>2, <2>1
<1>6. CASE CloseTimer
  <2>1. ready' = ready /\ ready = {}
    BY <1>3, <1>6 DEF CloseTimer, Process
  <2>2. kind' \in [Object -> Kinds]
    BY <1>1, <1>6 DEF CloseTimer, Kinds
  <2> QED
    BY <1>2, <2>1, <2>2
<1>7. CASE Visit
  <2>1. ready' = ready /\ ready = {}
    BY <1>3, <1>7 DEF Visit
  <2>2. kind' = [kind EXCEPT ![iterator] = "closed"] \/ kind' = kind
    BY <1>7 DEF Visit, Missed, Spare, HttpEnd
  <2>3. kind' \in [Object -> Kinds]
    BY <1>1, <2>2 DEF Kinds
  <2> QED
    BY <1>2, <2>1, <2>3
<1>8. ASSUME NEW ticks \in 0 .. MaxTicks, Wait(ticks) PROVE EventInv'
  <2>1. /\ kind' = kind /\ at' = "events"
        /\ ready' \subseteq Open \cup {p \in {Listen} : listening}
    BY <1>8 DEF Wait, sockets
  <2>2. \A o \in Open : o \in Object /\ kind[o] \in {"http", "web", "closing"}
    BY DEF Open, Is
  <2> QED
    BY <1>1, <2>1, <2>2 DEF EventInv, BatchInv, NoStaleEvent
<1> QED
  BY <1>4, <1>5, <1>6, <1>7, <1>8 DEF Turn

-----------------------------------------------------------------------------
(* The steps and the lists.                                                 *)
LEMMA ListFacts ==
    ASSUME BatchInv, ListInv
    PROVE  /\ Null \notin Object /\ kind \in [Object -> Kinds]
           /\ next \in [Object -> Object \cup {Null}] /\ prev \in [Object -> Object \cup {Null}]
           /\ \A o \in Is("http") : o \in Object /\ kind[o] = "http"
                                    /\ next[o] \in Is("http") \cup {Null}
                                    /\ prev[o] \in Is("http") \cup {Null}
           /\ \A o \in Is("web") : o \in Object /\ kind[o] = "web"
                                   /\ next[o] \in Is("web") \cup {Null}
                                   /\ prev[o] \in Is("web") \cup {Null}
           /\ \A o \in Is("http") : o \notin Is("web")
           /\ httpHead \in Is("http") \cup {Null} /\ webHead \in Is("web") \cup {Null}
<1>1. Null \notin Object
  BY EventLoopAssumption
<1>2. \A o \in Is("http") : o \in Object /\ kind[o] = "http"
  BY DEF Is
<1>3. \A o \in Is("web") : o \in Object /\ kind[o] = "web"
  BY DEF Is
<1>4. \A o \in Is("http") : next[o] \in Is("http") \cup {Null} /\ prev[o] \in Is("http") \cup {Null}
  BY DEF ListInv, Chain
<1>5. \A o \in Is("web") : next[o] \in Is("web") \cup {Null} /\ prev[o] \in Is("web") \cup {Null}
  BY DEF ListInv, Chain
<1>6. httpHead \in Is("http") \cup {Null} /\ webHead \in Is("web") \cup {Null}
  BY DEF ListInv, Chain
<1>7. \A o \in Is("http") : o \notin Is("web")
  BY <1>2, <1>3
<1> QED
  BY <1>1, <1>2, <1>3, <1>4, <1>5, <1>6, <1>7 DEF BatchInv, ListInv, Link

(* removeHttpSocket: the other HttpSockets stay a list, and the WebSockets. *)
LEMMA HttpRemoved ==
    ASSUME BatchInv, ListInv, NEW o \in Is("http"),
           NEW l, l = Unlinked(HttpList, o)
    PROVE  /\ l.next \in Link /\ l.prev \in Link /\ l.next[o] = Null /\ l.prev[o] = Null
           /\ \A x \in Object : kind[x] \notin {"http", "web"} =>
                                   l.next[x] = Null /\ l.prev[x] = Null
           /\ Chain(Is("http") \ {o}, l.head, l.next, l.prev)
           /\ Chain(Is("web"), webHead, l.next, l.prev)
<1>1. httpHead = HttpList.head /\ next = HttpList.next /\ prev = HttpList.prev
  BY DEF HttpList
<1>2. Chain(Is("http"), httpHead, next, prev) /\ Chain(Is("web"), webHead, next, prev)
  BY DEF ListInv
<1>3. next \in [Object -> Object \cup {Null}] /\ prev \in [Object -> Object \cup {Null}]
      /\ o \in Object
  BY ListFacts
<1>4. Chain(Is("http") \ {o}, l.head, l.next, l.prev)
  BY <1>1, <1>2, <1>3, UnlinkedChain
<1>5. /\ l.next \in Link /\ l.prev \in Link
      /\ \A x \in Object :
            /\ l.next[x] = IF x = o THEN Null ELSE IF x = prev[o] THEN next[o] ELSE next[x]
            /\ l.prev[x] = IF x = o THEN Null ELSE IF x = next[o] THEN prev[o] ELSE prev[x]
  BY <1>1, <1>3, UnlinkedLinks DEF Link
<1>6. \A x \in Object : kind[x] # "http" => l.next[x] = next[x] /\ l.prev[x] = prev[x]
  BY <1>5, ListFacts
<1>7. Chain(Is("web"), webHead, l.next, l.prev)
  <2>1. \A x \in Is("web") : l.next[x] = next[x] /\ l.prev[x] = prev[x]
    BY <1>6, ListFacts
  <2> QED
    BY <1>2, <2>1, ChainFrame
<1>8. \A x \in Object : kind[x] \notin {"http", "web"} => next[x] = Null /\ prev[x] = Null
  BY DEF ListInv
<1> QED
  BY <1>3, <1>4, <1>5, <1>6, <1>7, <1>8, ListFacts

(* removeWebSocket.                                                         *)
LEMMA WebRemoved ==
    ASSUME BatchInv, ListInv, NEW o \in Is("web"),
           NEW l, l = Unlinked(WebList, o)
    PROVE  /\ l.next \in Link /\ l.prev \in Link /\ l.next[o] = Null /\ l.prev[o] = Null
           /\ \A x \in Object : kind[x] \notin {"http", "web"} =>
                                   l.next[x] = Null /\ l.prev[x] = Null
           /\ Chain(Is("web") \ {o}, l.head, l.next, l.prev)
           /\ Chain(Is("http"), httpHead, l.next, l.prev)
<1>1. webHead = WebList.head /\ next = WebList.next /\ prev = WebList.prev
  BY DEF WebList
<1>2. Chain(Is("http"), httpHead, next, prev) /\ Chain(Is("web"), webHead, next, prev)
  BY DEF ListInv
<1>3. next \in [Object -> Object \cup {Null}] /\ prev \in [Object -> Object \cup {Null}]
      /\ o \in Object
  BY ListFacts
<1>4. Chain(Is("web") \ {o}, l.head, l.next, l.prev)
  BY <1>1, <1>2, <1>3, UnlinkedChain
<1>5. /\ l.next \in Link /\ l.prev \in Link
      /\ \A x \in Object :
            /\ l.next[x] = IF x = o THEN Null ELSE IF x = prev[o] THEN next[o] ELSE next[x]
            /\ l.prev[x] = IF x = o THEN Null ELSE IF x = next[o] THEN prev[o] ELSE prev[x]
  BY <1>1, <1>3, UnlinkedLinks DEF Link
<1>6. \A x \in Object : kind[x] # "web" => l.next[x] = next[x] /\ l.prev[x] = prev[x]
  BY <1>5, ListFacts
<1>7. Chain(Is("http"), httpHead, l.next, l.prev)
  <2>1. \A x \in Is("http") : l.next[x] = next[x] /\ l.prev[x] = prev[x]
    BY <1>6, ListFacts
  <2> QED
    BY <1>2, <2>1, ChainFrame
<1>8. \A x \in Object : kind[x] \notin {"http", "web"} => next[x] = Null /\ prev[x] = Null
  BY DEF ListInv
<1> QED
  BY <1>3, <1>4, <1>5, <1>6, <1>7, <1>8, ListFacts

(* addHttpSocket, for accept_cb.                                            *)
LEMMA AcceptLists ==
    ASSUME BatchInv, ListInv, NEW o \in Object, Accept(o)
    PROVE  ListInv'
<1>1. /\ kind[o] = "free" /\ kind' = [kind EXCEPT ![o] = "http"] /\ webHead' = webHead
      /\ kind \in [Object -> Kinds]
  BY ListFacts DEF Accept
<1> DEFINE l == Linked(HttpList, o)
<1>2. httpHead' = l.head /\ next' = l.next /\ prev' = l.prev
  BY DEF Accept, SetLinks
<1>3. httpHead = HttpList.head /\ next = HttpList.next /\ prev = HttpList.prev /\ l = Linked(HttpList, o)
  BY DEF HttpList
<1> HIDE DEF l
<1>4. o \in Object \ Is("http") /\ prev[o] = Null /\ next[o] = Null
  BY <1>1 DEF Is, ListInv
<1>5. Chain(Is("http"), httpHead, next, prev) /\ Chain(Is("web"), webHead, next, prev)
  BY DEF ListInv
<1>6. next \in [Object -> Object \cup {Null}] /\ prev \in [Object -> Object \cup {Null}]
      /\ httpHead \in Object \cup {Null}
  BY ListFacts
<1>6a. Chain(Is("http") \cup {o}, o, l.next, l.prev)
  BY <1>3, <1>4, <1>5, <1>6, LinkedChain
<1>6b. /\ l.head = o /\ l.next \in Link /\ l.prev \in Link
       /\ \A x \in Object : /\ l.next[x] = IF x = o THEN httpHead ELSE next[x]
                            /\ l.prev[x] = IF x = httpHead THEN o ELSE prev[x]
  BY <1>3, <1>6, LinkedLinks DEF Link
<1>7. \A x \in Object : kind'[x] = IF x = o THEN "http" ELSE kind[x]
  BY <1>1
<1>8. Is("http")' = Is("http") \cup {o} /\ Is("web")' = Is("web")
  BY <1>1, <1>7 DEF Is
<1>9. Chain(Is("web"), webHead, l.next, l.prev)
  <2>1. \A x \in Is("web") : l.next[x] = next[x] /\ l.prev[x] = prev[x]
    BY <1>1, <1>6b, ListFacts
  <2> QED
    BY <1>5, <2>1, ChainFrame
<1>10. \A x \in Object : kind'[x] \notin {"http", "web"} => next'[x] = Null /\ prev'[x] = Null
  <2>1. \A x \in Object : kind[x] \notin {"http", "web"} => next[x] = Null /\ prev[x] = Null
    BY DEF ListInv
  <2> QED
    BY <1>2, <1>7, <1>6b, <2>1, ListFacts
<1> QED
  BY <1>1, <1>2, <1>6a, <1>6b, <1>8, <1>9, <1>10 DEF ListInv

(* onEnd of an HttpSocket.                                                  *)
LEMMA HttpEndLists ==
    ASSUME BatchInv, ListInv, NEW o \in Is("http"), HttpEnd(o)
    PROVE  ListInv'
<1> DEFINE l == Unlinked(HttpList, o)
<1>1. /\ httpHead' = l.head /\ next' = l.next /\ prev' = l.prev /\ webHead' = webHead
      /\ kind' = [kind EXCEPT ![o] = "closed"]
  BY DEF HttpEnd, RemoveHttpSocket, SetLinks
<1>2. /\ l.next \in Link /\ l.prev \in Link /\ l.next[o] = Null /\ l.prev[o] = Null
      /\ \A x \in Object : kind[x] \notin {"http", "web"} => l.next[x] = Null /\ l.prev[x] = Null
      /\ Chain(Is("http") \ {o}, l.head, l.next, l.prev)
      /\ Chain(Is("web"), webHead, l.next, l.prev)
  BY HttpRemoved
<1> HIDE DEF l
<1>3. \A x \in Object : kind'[x] = IF x = o THEN "closed" ELSE kind[x]
  BY <1>1, ListFacts
<1>4. Is("http")' = Is("http") \ {o} /\ Is("web")' = Is("web")
  BY <1>3, ListFacts DEF Is
<1> QED
  BY <1>1, <1>2, <1>3, <1>4 DEF ListInv

(* onEnd of a WebSocket that was not closing, and close().                  *)
LEMMA WebGone ==
    ASSUME BatchInv, ListInv, NEW o \in Is("web"), RemoveWebSocket(o),
           NEW k \in {"closing", "closed"}, kind' = [kind EXCEPT ![o] = k]
    PROVE  ListInv'
<1> DEFINE l == Unlinked(WebList, o)
<1>1. webHead' = l.head /\ next' = l.next /\ prev' = l.prev /\ httpHead' = httpHead
  BY DEF RemoveWebSocket, SetLinks
<1>2. /\ l.next \in Link /\ l.prev \in Link /\ l.next[o] = Null /\ l.prev[o] = Null
      /\ \A x \in Object : kind[x] \notin {"http", "web"} => l.next[x] = Null /\ l.prev[x] = Null
      /\ Chain(Is("web") \ {o}, l.head, l.next, l.prev)
      /\ Chain(Is("http"), httpHead, l.next, l.prev)
  BY WebRemoved
<1> HIDE DEF l
<1>3. \A x \in Object : kind'[x] = IF x = o THEN k ELSE kind[x]
  BY ListFacts
<1>4. Is("web")' = Is("web") \ {o} /\ Is("http")' = Is("http")
  BY <1>3, ListFacts DEF Is
<1> QED
  BY <1>1, <1>2, <1>3, <1>4 DEF ListInv

(* The upgrade: one list gives up a socket, the other gets a new one.       *)
LEMMA UpgradeLists ==
    ASSUME BatchInv, ListInv, NEW o \in Object, NEW w \in Object, Upgrade(o, w)
    PROVE  ListInv'
<1>1. /\ kind[o] = "http" /\ kind[w] = "free"
      /\ kind' = [kind EXCEPT ![o] = "free", ![w] = "web"] /\ kind \in [Object -> Kinds]
  BY ListFacts DEF Upgrade
<1> DEFINE h == Unlinked(HttpList, o)
           l == Linked([h EXCEPT !.head = webHead], w)
<1>2. httpHead' = h.head /\ webHead' = w /\ next' = l.next /\ prev' = l.prev
  BY DEF Upgrade, SetLinks
<1>3. o \in Is("http") /\ w \notin Is("http") /\ w \notin Is("web") /\ w # o
  BY <1>1 DEF Is
<1>4. /\ h.next \in Link /\ h.prev \in Link /\ h.next[o] = Null /\ h.prev[o] = Null
      /\ \A x \in Object : kind[x] \notin {"http", "web"} => h.next[x] = Null /\ h.prev[x] = Null
      /\ Chain(Is("http") \ {o}, h.head, h.next, h.prev)
      /\ Chain(Is("web"), webHead, h.next, h.prev)
  BY <1>3, HttpRemoved
<1> DEFINE L == [h EXCEPT !.head = webHead]
<1>5. webHead = L.head /\ h.next = L.next /\ h.prev = L.prev /\ l = Linked(L, w)
  BY DEF Unlinked
<1> HIDE DEF L
<1> HIDE DEF h, l
<1>7. h.prev[w] = Null
  BY <1>1, <1>4
<1>8. /\ h.next \in [Object -> Object \cup {Null}] /\ h.prev \in [Object -> Object \cup {Null}]
      /\ webHead \in Object \cup {Null}
  BY <1>4, ListFacts DEF Link
<1>8a. Chain(Is("web") \cup {w}, w, l.next, l.prev)
  <2>1. w \in Object \ Is("web") /\ Chain(Is("web"), webHead, h.next, h.prev)
    BY <1>3, <1>4
  <2> QED
    BY <1>5, <1>7, <1>8, <2>1, LinkedChain
<1>8b. /\ l.next \in Link /\ l.prev \in Link
       /\ \A x \in Object : /\ l.next[x] = IF x = w THEN webHead ELSE h.next[x]
                            /\ l.prev[x] = IF x = webHead THEN w ELSE h.prev[x]
  BY <1>5, <1>8, LinkedLinks DEF Link
<1>9. \A x \in Object : kind'[x] = IF x = w THEN "web" ELSE IF x = o THEN "free" ELSE kind[x]
  BY <1>1
<1>10. Is("http")' = Is("http") \ {o} /\ Is("web")' = Is("web") \cup {w}
  BY <1>1, <1>3, <1>9 DEF Is
<1>11. Chain(Is("http") \ {o}, h.head, l.next, l.prev)
  <2>1. \A x \in Is("http") \ {o} : l.next[x] = h.next[x] /\ l.prev[x] = h.prev[x]
    BY <1>3, <1>8b, ListFacts
  <2> QED
    BY <1>4, <2>1, ChainFrame
<1>12. \A x \in Object : kind'[x] \notin {"http", "web"} => next'[x] = Null /\ prev'[x] = Null
  <2> TAKE x \in Object
  <2> HAVE kind'[x] \notin {"http", "web"}
  <2>0. kind[x] \notin {"http", "web"} \/ x = o
    BY <1>9
  <2>1. x # w /\ h.next[x] = Null /\ h.prev[x] = Null /\ x \notin Is("web")
    BY <1>1, <1>4, <1>9, <2>0 DEF Is
  <2> QED
    BY <1>2, <1>8b, <2>1, ListFacts
<1> QED
  BY <1>2, <1>8a, <1>8b, <1>10, <1>11, <1>12 DEF ListInv

(* The others leave the lists alone.                                        *)
LEMMA ListsKept ==
    ASSUME BatchInv, ListInv, UNCHANGED lists, kind' \in [Object -> Kinds],
           \A o \in Object : \/ kind'[o] = kind[o]
                             \/ kind[o] \notin {"http", "web"} /\ kind'[o] \notin {"http", "web"}
    PROVE  ListInv'
<1>1. httpHead' = httpHead /\ webHead' = webHead /\ next' = next /\ prev' = prev
  BY DEF lists
<1>2. Is("http")' = Is("http") /\ Is("web")' = Is("web")
  BY DEF Is
<1>3. \A o \in Object : kind'[o] \notin {"http", "web"} => next'[o] = Null /\ prev'[o] = Null
  BY <1>1 DEF ListInv
<1> QED
  BY <1>1, <1>2, <1>3 DEF ListInv

-----------------------------------------------------------------------------
(* The steps and the timers.                                                *)
LEMMA WantedFacts ==
    /\ HttpTimer \in Wanted <=> httpHead # Null
    /\ Listen \in Wanted <=> ~listening
    /\ \A o \in Object : o \in Wanted <=> kind[o] = "closing"
    /\ Wanted \subseteq Object \cup {HttpTimer, Listen}
    /\ HttpTimer \notin Object /\ Listen \notin Object /\ Null \notin Object
    /\ Listen # HttpTimer /\ Null # Listen /\ Null # HttpTimer
<1>1. HttpTimer \notin Object /\ Listen \notin Object /\ Null \notin Object
      /\ Listen # HttpTimer /\ Null # Listen /\ Null # HttpTimer
  BY EventLoopAssumption
<1> QED
  BY <1>1 DEF Wanted, Is

(* Timer::start and Timer::stop set the delay.                             *)
LEMMA SetTimersFacts ==
    ASSUME NEW ts, SetTimers(ts)
    PROVE  /\ timers' = ts /\ delay' = NextDelay(timers') /\ (timers' = <<>> => delay' = -1)
  BY DEF SetTimers, NextDelay

(* What changes no socket's kind to or from closing, nor a list, nor the    *)
(* listen socket's poll, leaves what should run as it is.                   *)
LEMMA WantedKept ==
    ASSUME httpHead' = Null <=> httpHead = Null, listening' = listening,
           \A o \in Object : kind'[o] = "closing" <=> kind[o] = "closing"
    PROVE  Wanted' = Wanted
  BY DEF Wanted, Is


(* The removal of an HttpSocket stops the timer with the last one.          *)
LEMMA RemovalClock ==
    ASSUME BatchInv, ListInv, TimerInv, NEW o \in Is("http"), RemoveHttpSocket(o),
           listening' = listening,
           \A x \in Object : kind'[x] = "closing" <=> kind[x] = "closing"
    PROVE  /\ TimersOf(timers', Wanted')
           /\ \/ UNCHANGED <<timers, delay, cancelled>>
              \/ /\ delay' = NextDelay(timers') /\ (timers' = <<>> => delay' = -1)
                 /\ cancelled' = (cancelled \/ processing = HttpTimer)
<1>1. httpHead # Null
  BY ChainHead DEF ListInv
<1>2. TimersOf(timers, Wanted)
  BY DEF TimerInv
<1>3. CASE httpHead' = Null
  <2>1. SetTimers(Erased(timers, HttpTimer)) /\ cancelled' = (cancelled \/ processing = HttpTimer)
    BY <1>3 DEF RemoveHttpSocket, Stop
  <2>2. HttpTimer \in Wanted
    BY <1>1, WantedFacts
  <2>3. Wanted' = Wanted \ {HttpTimer}
    BY <1>3, EventLoopAssumption DEF Wanted, Is
  <2>4. TimersOf(Erased(timers, HttpTimer), Wanted \ {HttpTimer})
    BY <1>2, <2>2, ErasedTimers
  <2> QED
    BY <2>1, <2>3, <2>4, SetTimersFacts
<1>4. CASE httpHead' # Null
  <2>1. UNCHANGED <<timers, delay, cancelled>>
    BY <1>4 DEF RemoveHttpSocket, clock
  <2>2. Wanted' = Wanted
    BY <1>1, <1>4, WantedKept
  <2> QED
    BY <1>2, <2>1, <2>2
<1> QED
  BY <1>3, <1>4

(* The first HttpSocket starts the timer of the deadline.                  *)
LEMMA AcceptTimers ==
    ASSUME BatchInv, ListInv, TimerInv, NEW o \in Object, Accept(o) PROVE TimerInv'
<1>1. /\ at' = "accept" /\ kind[o] = "free" /\ kind' = [kind EXCEPT ![o] = "http"]
      /\ processing' = processing /\ cancelled' = cancelled /\ ready' = ready
      /\ listening' = listening
      /\ IF httpHead = Null THEN Start(HttpTimer, Second, Second)
         ELSE timers' = timers /\ delay' = delay
      /\ kind \in [Object -> Kinds]
  BY ListFacts DEF Accept, clock
<1>2. httpHead' = o
  BY DEF Accept, Linked
<1>3. \A x \in Object : kind'[x] = "closing" <=> kind[x] = "closing"
  BY <1>1
<1>4. o # Null
  BY EventLoopAssumption
<1>5. TimersOf(timers, Wanted)
  BY DEF TimerInv
<1>6. TimersOf(timers', Wanted') /\ (timers' = <<>> => delay' = -1)
      /\ (delay = NextDelay(timers) => delay' = NextDelay(timers'))
  <2>1. CASE httpHead = Null
    <3>1. SetTimers(Inserted(timers, HttpTimer, Second, Second))
      BY <1>1, <2>1 DEF Start
    <3>2. HttpTimer \notin Wanted /\ HttpTimer \notin Object
      BY <2>1, WantedFacts
    <3>3. Wanted' = Wanted \cup {HttpTimer}
      BY <1>1, <1>2, <1>3, <1>4, <2>1 DEF Wanted, Is
    <3>4. Second \in Nat /\ Second \in Int
      BY EventLoopAssumption
    <3>5. TimersOf(Inserted(timers, HttpTimer, Second, Second), Wanted \cup {HttpTimer})
      BY <1>5, <3>2, <3>4, InsertedTimers
    <3> QED
      BY <3>1, <3>3, <3>5, SetTimersFacts
  <2>2. CASE httpHead # Null
    <3>1. Wanted' = Wanted
      BY <1>1, <1>2, <1>3, <1>4, <2>2, WantedKept
    <3>2. timers' = timers /\ delay' = delay
      BY <1>1, <2>2
    <3> QED
      BY <1>5, <3>1, <3>2 DEF TimerInv
  <2> QED
    BY <2>1, <2>2
<1>7. (at = "events" /\ Listen \in ready) \/ at \in {"accept", "retry"}
  BY DEF Accept
<1>8. at = "retry" => Listen \notin ready
  BY DEF BatchInv
<1> QED
  BY <1>1, <1>6, <1>7, <1>8 DEF TimerInv

(* The last HttpSocket stops it, by an upgrade or by its end.              *)
LEMMA UpgradeTimers ==
    ASSUME BatchInv, ListInv, TimerInv, NEW o \in Object, NEW w \in Object, Upgrade(o, w)
    PROVE  TimerInv'
<1> DEFINE h == Unlinked(HttpList, o)
<1>1. /\ at = "events" /\ at' = at /\ processing' = processing /\ ready' = ready \ {o}
      /\ listening' = listening /\ kind[o] = "http" /\ kind[w] = "free"
      /\ kind' = [kind EXCEPT ![o] = "free", ![w] = "web"] /\ httpHead' = h.head
      /\ IF h.head = Null THEN Stop(HttpTimer)
         ELSE timers' = timers /\ delay' = delay /\ cancelled' = cancelled
      /\ kind \in [Object -> Kinds]
  BY ListFacts DEF Upgrade, Event, clock
<1> HIDE DEF h
<1>2. \A x \in Object : kind'[x] = "closing" <=> kind[x] = "closing"
  BY <1>1
<1>3. httpHead # Null
  <2>1. o \in Is("http")
    BY <1>1 DEF Is
  <2> QED
    BY <2>1, ChainHead DEF ListInv
<1>4. TimersOf(timers, Wanted) /\ processing = Null /\ ~cancelled
  BY <1>1 DEF TimerInv
<1>5. CASE h.head = Null
  <2>1. SetTimers(Erased(timers, HttpTimer)) /\ cancelled' = (cancelled \/ processing = HttpTimer)
    BY <1>1, <1>5 DEF Stop
  <2>2. HttpTimer \in Wanted
    BY <1>3, WantedFacts
  <2>3. Wanted' = Wanted \ {HttpTimer}
    BY <1>1, <1>2, <1>5, EventLoopAssumption DEF Wanted, Is
  <2>4. TimersOf(Erased(timers, HttpTimer), Wanted \ {HttpTimer})
    BY <1>4, <2>2, ErasedTimers
  <2>5. cancelled' = FALSE
    BY <1>4, <2>1, WantedFacts
  <2>6. timers' = <<>> => delay' = -1
    BY <2>1, SetTimersFacts
  <2>7. TimersOf(timers', Wanted')
    BY <2>1, <2>3, <2>4, SetTimersFacts
  <2> QED
    BY <1>1, <2>5, <2>6, <2>7 DEF TimerInv
<1>6. CASE h.head # Null
  <2>1. timers' = timers /\ delay' = delay /\ cancelled' = cancelled
    BY <1>1, <1>6
  <2>2. Wanted' = Wanted
    BY <1>1, <1>2, <1>3, <1>6, WantedKept
  <2> QED
    BY <1>1, <2>1, <2>2 DEF TimerInv
<1> QED
  BY <1>5, <1>6

(* onEnd stops the timer of a socket that was closing.                     *)
LEMMA EndsTimers ==
    ASSUME BatchInv, ListInv, TimerInv, NEW o \in Object, Ends(o)
    PROVE  TimerInv'
<1>1. /\ at = "events" /\ at' = at /\ processing' = processing /\ ready' = ready \ {o}
      /\ listening' = listening /\ kind \in [Object -> Kinds]
  BY ListFacts DEF Ends, Event
<1>2. TimersOf(timers, Wanted) /\ processing = Null /\ ~cancelled
  BY <1>1 DEF TimerInv
<1>3. CASE kind[o] = "http" /\ HttpEnd(o)
  <2>1. o \in Is("http") /\ RemoveHttpSocket(o) /\ kind' = [kind EXCEPT ![o] = "closed"]
    BY <1>3 DEF Is, HttpEnd
  <2>2. \A x \in Object : kind'[x] = "closing" <=> kind[x] = "closing"
    BY <1>1, <1>3, <2>1
  <2>3. /\ TimersOf(timers', Wanted')
        /\ \/ UNCHANGED <<timers, delay, cancelled>>
           \/ /\ delay' = NextDelay(timers') /\ (timers' = <<>> => delay' = -1)
              /\ cancelled' = (cancelled \/ processing = HttpTimer)
    BY <1>1, <2>1, <2>2, RemovalClock
  <2>4. cancelled' = FALSE
    BY <1>1, <1>2, <2>3, WantedFacts DEF TimerInv
  <2>5. timers' = <<>> => delay' = -1
    BY <2>3 DEF TimerInv
  <2> QED
    BY <1>1, <2>3, <2>4, <2>5 DEF TimerInv
<1>4. CASE kind[o] = "web" /\ WebEnd(o)
  <2>1. /\ timers' = timers /\ delay' = delay /\ cancelled' = cancelled
        /\ kind' = [kind EXCEPT ![o] = "closed"] /\ RemoveWebSocket(o)
    BY <1>4 DEF WebEnd, clock
  <2>2. \A x \in Object : kind'[x] = "closing" <=> kind[x] = "closing"
    BY <1>1, <1>4, <2>1
  <2>3. Wanted' = Wanted
    BY <1>1, <2>1, <2>2, WantedKept DEF RemoveWebSocket
  <2> QED
    BY <1>1, <2>1, <2>3 DEF TimerInv
<1>5. CASE kind[o] = "closing" /\ WebEnd(o)
  <2>1. /\ SetTimers(Erased(timers, o)) /\ cancelled' = (cancelled \/ processing = o)
        /\ kind' = [kind EXCEPT ![o] = "closed"] /\ httpHead' = httpHead
    BY <1>5 DEF WebEnd, Stop, lists
  <2>2. o \in Wanted /\ processing # o
    BY <1>2, <1>5, WantedFacts
  <2>3. Wanted' = Wanted \ {o}
    BY <1>1, <2>1, <2>2, WantedFacts DEF Wanted, Is
  <2>4. TimersOf(Erased(timers, o), Wanted \ {o})
    BY <1>2, <2>2, ErasedTimers
  <2>5. cancelled' = FALSE
    BY <1>2, <2>1, <2>2
  <2>6. TimersOf(timers', Wanted') /\ (timers' = <<>> => delay' = -1)
    BY <2>1, <2>3, <2>4, SetTimersFacts
  <2> QED
    BY <1>1, <2>5, <2>6 DEF TimerInv
<1> QED
  BY <1>3, <1>4, <1>5 DEF Ends

(* close() starts it.                                                      *)
LEMMA ClosesTimers ==
    ASSUME BatchInv, ListInv, TimerInv, NEW o \in Object, NEW p \in Object, Closes(o, p)
    PROVE  TimerInv'
<1>1. /\ at = "events" /\ at' = at /\ processing' = processing /\ ready' = ready \ {o}
      /\ listening' = listening /\ kind \in [Object -> Kinds] /\ kind[p] = "web"
      /\ kind' = [kind EXCEPT ![p] = "closing"] /\ cancelled' = cancelled
      /\ httpHead' = httpHead
      /\ SetTimers(Inserted(timers, p, CloseTimeout, 0))
  BY ListFacts DEF Closes, Event, Close, Start, RemoveWebSocket
<1>2. TimersOf(timers, Wanted)
  BY DEF TimerInv
<1>3. p \notin Wanted
  BY <1>1, WantedFacts
<1>4. Wanted' = Wanted \cup {p}
  BY <1>1 DEF Wanted, Is
<1>5. TimersOf(Inserted(timers, p, CloseTimeout, 0), Wanted \cup {p})
  <2>1. CloseTimeout \in Int /\ 0 \in Nat
    BY EventLoopAssumption
  <2> QED
    BY <1>2, <1>3, <2>1, InsertedTimers
<1>6. TimersOf(timers', Wanted') /\ (timers' = <<>> => delay' = -1)
  BY <1>1, <1>4, <1>5, SetTimersFacts
<1> QED
  BY <1>1, <1>6 DEF TimerInv

(* accept() fails and is left to a timer.                                  *)
LEMMA AcceptFailsTimers ==
    ASSUME BatchInv, ListInv, TimerInv, AcceptFails
    PROVE  TimerInv'
<1>1. /\ at = "events" /\ at' = at /\ processing' = processing /\ ready' = ready \ {Listen}
      /\ cancelled' = cancelled /\ kind' = kind /\ httpHead' = httpHead /\ Listen \in ready
      /\ \/ timers' = timers /\ delay' = delay /\ listening' = listening
         \/ listening' = FALSE /\ SetTimers(Inserted(timers, Listen, Second, Second))
  BY DEF AcceptFails, Event, Start, lists, sockets, clock
<1>2. TimersOf(timers, Wanted) /\ listening
  BY <1>1 DEF TimerInv
<1>3. CASE timers' = timers /\ delay' = delay /\ listening' = listening
  <2>1. Wanted' = Wanted
    BY <1>1, <1>3, WantedKept
  <2> QED
    BY <1>1, <1>3, <2>1 DEF TimerInv
<1>4. CASE listening' = FALSE /\ SetTimers(Inserted(timers, Listen, Second, Second))
  <2>1. Listen \notin Wanted /\ Listen \notin Object
    BY <1>2, WantedFacts
  <2>2. Wanted' = Wanted \cup {Listen}
    BY <1>1, <1>2, <1>4 DEF Wanted, Is
  <2>3. Second \in Nat /\ Second \in Int
    BY EventLoopAssumption
  <2>4. TimersOf(Inserted(timers, Listen, Second, Second), Wanted \cup {Listen})
    BY <1>2, <2>1, <2>3, InsertedTimers
  <2>5. TimersOf(timers', Wanted') /\ (timers' = <<>> => delay' = -1)
    BY <1>4, <2>2, <2>4, SetTimersFacts
  <2> QED
    BY <1>1, <1>4, <2>5 DEF TimerInv
<1> QED
  BY <1>1, <1>3, <1>4

(* The callbacks of a batch of events.                                     *)
LEMMA CallbackTimers ==
    ASSUME BatchInv, ListInv, TimerInv, Callback
    PROVE  TimerInv'
<1>1. ASSUME NEW o \in Object, Request(o) \/ Data(o) PROVE TimerInv'
  <2>1. /\ at = "events" /\ at' = at /\ processing' = processing /\ ready' = ready \ {o}
        /\ cancelled' = cancelled /\ kind' = kind /\ httpHead' = httpHead
        /\ timers' = timers /\ delay' = delay /\ listening' = listening
    BY <1>1 DEF Request, Data, Event, lists, sockets, clock
  <2>2. Wanted' = Wanted
    BY <2>1, WantedKept
  <2> QED
    BY <2>1, <2>2 DEF TimerInv
<1>2. ASSUME NoMore PROVE TimerInv'
  <2>1. /\ at = "accept" /\ at' = IF Listen \in ready THEN "events" ELSE "return"
        /\ processing' = processing /\ ready' = ready \ {Listen}
        /\ cancelled' = cancelled /\ kind' = kind /\ httpHead' = httpHead
        /\ timers' = timers /\ delay' = delay /\ listening' = listening
    BY <1>2 DEF NoMore, lists, sockets, clock
  <2>2. Wanted' = Wanted
    BY <2>1, WantedKept
  <2> QED
    BY <2>1, <2>2 DEF TimerInv
<1> QED
  BY <1>1, <1>2, AcceptTimers, EndsTimers, UpgradeTimers, ClosesTimers, AcceptFailsTimers
  DEF Callback

(* A timer that is due.                                                     *)
LEMMA DueTimer ==
    ASSUME TimerInv, Process
    PROVE  /\ timers # <<>> /\ timers[1].timer \in Wanted /\ processing' = timers[1].timer
           /\ ready' = ready /\ at \in {"timers", "more"} /\ TimersOf(timers, Wanted)
<1>1. timers # <<>> /\ TimersOf(timers, Wanted)
  BY DEF Process, Due, TimerInv
<1> QED
  BY <1>1, FirstTimerErased DEF Process

(* A timer of close() is stopped in its own callback.                      *)
LEMMA CloseTimerTimers ==
    ASSUME BatchInv, ListInv, TimerInv, CloseTimer
    PROVE  TimerInv'
<1> DEFINE o == timers[1].timer
<1>1. o \in Wanted /\ o \in Object /\ TimersOf(timers, Wanted) /\ ready' = ready
  BY DueTimer DEF CloseTimer
<1>2. /\ SetTimers(Erased(timers, o)) /\ cancelled' = TRUE /\ at' = "return"
      /\ kind' = [kind EXCEPT ![o] = "closed"] /\ httpHead' = httpHead /\ listening' = listening
      /\ kind \in [Object -> Kinds]
  BY ListFacts DEF CloseTimer, lists
<1> HIDE DEF o
<1>3. Wanted' = Wanted \ {o}
  BY <1>1, <1>2, WantedFacts DEF Wanted, Is
<1>4. TimersOf(Erased(timers, o), Wanted \ {o})
  BY <1>1, ErasedTimers
<1>5. TimersOf(timers', Wanted') /\ (timers' = <<>> => delay' = -1)
      /\ delay' = NextDelay(timers')
  BY <1>2, <1>3, <1>4, SetTimersFacts
<1> QED
  BY <1>1, <1>2, <1>5 DEF TimerInv

(* So is the one of accept(), unless accept() fails again.                 *)
LEMMA AcceptTimerTimers ==
    ASSUME BatchInv, ListInv, TimerInv, AcceptTimer
    PROVE  TimerInv'
<1>1. /\ timers # <<>> /\ timers[1].timer = Listen /\ processing' = Listen /\ Listen \in Wanted
      /\ TimersOf(timers, Wanted) /\ ready' = ready /\ at \in {"timers", "more"}
  BY DueTimer DEF AcceptTimer
<1>2. /\ kind' = kind /\ httpHead' = httpHead
      /\ \/ /\ at' = "return" /\ cancelled' = FALSE
            /\ timers' = timers /\ delay' = delay /\ listening' = listening
         \/ /\ at' = "retry" /\ cancelled' = TRUE /\ listening' = TRUE
            /\ SetTimers(Erased(timers, Listen))
  BY DEF AcceptTimer, sockets, lists, clock
<1>3. CASE /\ at' = "return" /\ cancelled' = FALSE
           /\ timers' = timers /\ delay' = delay /\ listening' = listening
  <2>1. Wanted' = Wanted
    BY <1>2, <1>3, WantedKept
  <2> QED
    BY <1>1, <1>2, <1>3, <2>1 DEF TimerInv
<1>4. CASE /\ at' = "retry" /\ cancelled' = TRUE /\ listening' = TRUE
           /\ SetTimers(Erased(timers, Listen))
  <2>1. Wanted' = Wanted \ {Listen}
    BY <1>1, <1>2, <1>4, WantedFacts DEF Wanted, Is
  <2>2. TimersOf(Erased(timers, Listen), Wanted \ {Listen})
    BY <1>1, ErasedTimers
  <2>3. TimersOf(timers', Wanted') /\ (timers' = <<>> => delay' = -1)
        /\ delay' = NextDelay(timers')
    BY <1>4, <2>1, <2>2, SetTimersFacts
  <2> QED
    BY <1>1, <1>4, <2>3 DEF TimerInv
<1> QED
  BY <1>2, <1>3, <1>4

(* The deadline is stopped in its own callback with the last HttpSocket.   *)
LEMMA VisitTimers ==
    ASSUME BatchInv, ListInv, TimerInv, PassInv, Visit
    PROVE  TimerInv'
<1>1. at = "pass" /\ at' = at /\ processing' = processing /\ ready' = ready
      /\ listening' = listening /\ processing = HttpTimer
  BY DEF Visit, TimerInv
<1>2. CASE Missed(iterator)
  <2>1. iterator \in Is("http")
    BY <1>1 DEF Visit, PassInv, Chain
  <2>2. RemoveHttpSocket(iterator) /\ kind' = [kind EXCEPT ![iterator] = "closed"]
    BY <1>2 DEF Missed, HttpEnd
  <2>3. \A x \in Object : kind'[x] = "closing" <=> kind[x] = "closing"
    BY <2>1, <2>2, ListFacts
  <2>4. /\ TimersOf(timers', Wanted')
        /\ \/ UNCHANGED <<timers, delay, cancelled>>
           \/ /\ delay' = NextDelay(timers') /\ (timers' = <<>> => delay' = -1)
              /\ cancelled' = (cancelled \/ processing = HttpTimer)
    BY <1>1, <2>1, <2>2, <2>3, RemovalClock
  <2>5. CASE UNCHANGED <<timers, delay, cancelled>>
    BY <1>1, <2>4, <2>5 DEF TimerInv
  <2>6. CASE /\ delay' = NextDelay(timers') /\ (timers' = <<>> => delay' = -1)
             /\ cancelled' = (cancelled \/ processing = HttpTimer)
    <3>1. cancelled' = TRUE
      BY <1>1, <2>6
    <3> QED
      BY <1>1, <2>4, <2>6, <3>1 DEF TimerInv
  <2> QED
    BY <2>4, <2>5, <2>6
<1>3. CASE Spare(iterator)
  <2>1. kind' = kind /\ httpHead' = httpHead /\ timers' = timers /\ delay' = delay
        /\ cancelled' = cancelled
    BY <1>3 DEF Spare, lists, clock
  <2>2. Wanted' = Wanted
    BY <1>1, <2>1, WantedKept
  <2> QED
    BY <1>1, <2>1, <2>2 DEF TimerInv
<1> QED
  BY <1>2, <1>3 DEF Visit

(* A timer its callback has not stopped is the first one still.            *)
LEMMA ReturnTimers ==
    ASSUME BatchInv, ListInv, TimerInv, Return
    PROVE  TimerInv'
<1>1. /\ at = "return" /\ at' = "more" /\ processing' = Null /\ cancelled' = FALSE
      /\ ready' = ready /\ listening' = listening /\ kind' = kind /\ httpHead' = httpHead
  BY DEF Return, sockets, lists
<1>2. Wanted' = Wanted
  BY <1>1, WantedKept
<1>3. TimersOf(timers, Wanted)
  BY DEF TimerInv
<1>4. CASE cancelled
  <2>1. timers' = timers /\ delay' = delay
    BY <1>4 DEF Return, clock
  <2>2. delay = NextDelay(timers)
    BY <1>1, <1>4 DEF TimerInv
  <2> QED
    BY <1>1, <1>2, <2>1, <2>2 DEF TimerInv
<1>5. CASE ~cancelled
  <2>1. timers # <<>> /\ timers[1].timer = processing /\ processing \in {HttpTimer, Listen}
    BY <1>1, <1>5 DEF TimerInv
  <2>2. /\ TimersOf(Tail(timers), Wanted \ {processing}) /\ processing \in Wanted
        /\ processing \notin Object /\ timers[1].repeat = Second
    BY <1>3, <2>1, FirstTimerErased, WantedFacts
  <2>3. Second \in Nat /\ Second \in Int /\ Second # 0
    BY EventLoopAssumption
  <2>4. SetTimers(Inserted(Tail(timers), processing, Second, Second))
    BY <1>5, <2>2, <2>3 DEF Return
  <2>5. /\ processing \in Object \cup {HttpTimer, Listen} /\ processing \notin Wanted \ {processing}
        /\ Second = IF processing \in Object THEN 0 ELSE Second
    BY <2>1, <2>2
  <2>6. TimersOf(Inserted(Tail(timers), processing, Second, Second),
                 (Wanted \ {processing}) \cup {processing})
    BY <2>2, <2>3, <2>5, InsertedTimers
  <2>7. (Wanted \ {processing}) \cup {processing} = Wanted
    BY <2>2
  <2>8. TimersOf(Inserted(Tail(timers), processing, Second, Second), Wanted)
    BY <2>6, <2>7
  <2>9. TimersOf(timers', Wanted') /\ (timers' = <<>> => delay' = -1)
        /\ delay' = NextDelay(timers')
    BY <1>2, <2>4, <2>8, SetTimersFacts
  <2> QED
    BY <1>1, <2>9 DEF TimerInv
<1> QED
  BY <1>4, <1>5

(* The turns of the loop.                                                  *)
LEMMA TurnTimers ==
    ASSUME BatchInv, ListInv, TimerInv, PassInv, Turn \/ \E ticks \in 0 .. MaxTicks : Wait(ticks)
    PROVE  TimerInv'
<1>1. CASE Reap
  <2>1. /\ at = "reap" /\ at' = "wait" /\ UNCHANGED <<timers, delay, processing, cancelled>>
        /\ ready' = ready /\ listening' = listening /\ httpHead' = httpHead
        /\ \A o \in Object : kind'[o] = IF kind[o] = "closed" THEN "free" ELSE kind[o]
    BY <1>1 DEF Reap, lists, clock
  <2>2. Wanted' = Wanted
    BY <2>1, WantedKept
  <2> QED
    BY <2>1, <2>2 DEF TimerInv
<1>2. ASSUME NEW ticks \in 0 .. MaxTicks, Wait(ticks) PROVE TimerInv'
  <2>1. /\ at = "wait" /\ at' = "events" /\ timers' = Later(ticks)
        /\ UNCHANGED <<kind, httpHead, delay, processing, cancelled, listening>>
        /\ ready' \subseteq Open \cup {p \in {Listen} : listening}
    BY <1>2 DEF Wait, sockets, lists
  <2>2. Wanted' = Wanted
    BY <2>1, WantedKept
  <2>3. TimersOf(timers', Wanted) /\ (timers' = <<>> => timers = <<>>)
    BY <2>1, LaterTimers DEF TimerInv
  <2>4. Listen \in ready' => listening
    BY <2>1, WantedFacts DEF Open, Is
  <2> QED
    BY <2>1, <2>2, <2>3, <2>4 DEF TimerInv
<1>3. CASE EventsDone
  <2>1. /\ at' = "timers" /\ at = "events"
        /\ UNCHANGED <<kind, httpHead, timers, delay, processing, cancelled, listening, ready>>
    BY <1>3 DEF EventsDone, sockets, lists, clock
  <2>2. Wanted' = Wanted
    BY <2>1, WantedKept
  <2> QED
    BY <2>1, <2>2 DEF TimerInv
<1>4. CASE NoneDue
  <2>1. /\ at' = "reap" /\ at \in {"timers", "more"}
        /\ delay' = IF at = "timers" /\ timers # <<>> THEN NextDelay(timers) ELSE delay
        /\ UNCHANGED <<kind, httpHead, timers, processing, cancelled, listening, ready>>
    BY <1>4 DEF NoneDue, sockets, lists
  <2>2. Wanted' = Wanted
    BY <2>1, WantedKept
  <2>3. timers = <<>> => NextDelay(timers) = -1
    BY DEF NextDelay
  <2> QED
    BY <2>1, <2>2, <2>3 DEF TimerInv
<1>5. CASE DeadlineTimer
  <2>1. /\ timers # <<>> /\ timers[1].timer = HttpTimer /\ processing' = HttpTimer
        /\ ready' = ready
    BY <1>5, DueTimer DEF DeadlineTimer
  <2>2. /\ at' = "pass" /\ cancelled' = FALSE
        /\ UNCHANGED <<kind, httpHead, timers, delay, listening>>
    BY <1>5 DEF DeadlineTimer, sockets, lists, clock
  <2>3. Wanted' = Wanted
    BY <2>2, WantedKept
  <2> QED
    BY <2>1, <2>2, <2>3 DEF TimerInv
<1>6. CASE PassDone
  <2>1. /\ at' = "return" /\ at = "pass"
        /\ UNCHANGED <<kind, httpHead, timers, delay, processing, cancelled, listening, ready>>
    BY <1>6 DEF PassDone, sockets, lists, clock
  <2>2. Wanted' = Wanted
    BY <2>1, WantedKept
  <2> QED
    BY <2>1, <2>2 DEF TimerInv
<1> QED
  BY <1>1, <1>2, <1>3, <1>4, <1>5, <1>6, CloseTimerTimers, AcceptTimerTimers, VisitTimers,
     ReturnTimers DEF Turn

-----------------------------------------------------------------------------
(* The steps and the whole invariant.                                       *)

(* Every step leaves the lists right.                                       *)
LEMMA ListStep == ASSUME LoopInv, Next, BatchInv' PROVE ListInv'
<1>1. BatchInv /\ ListInv /\ kind \in [Object -> Kinds] /\ kind' \in [Object -> Kinds]
  BY DEF LoopInv, BatchInv
<1>2. ASSUME NEW o \in Object, Ends(o) PROVE ListInv'
  <2>1. CASE kind[o] = "http" /\ HttpEnd(o)
    BY <1>1, <2>1, HttpEndLists DEF Is
  <2>2. CASE kind[o] = "web" /\ WebEnd(o)
    <3>1. o \in Is("web") /\ RemoveWebSocket(o) /\ kind' = [kind EXCEPT ![o] = "closed"]
      BY <2>2 DEF Is, WebEnd
    <3> QED
      BY <1>1, <3>1, WebGone
  <2>3. CASE kind[o] = "closing" /\ WebEnd(o)
    <3>1. UNCHANGED lists /\ kind' = [kind EXCEPT ![o] = "closed"]
      BY <2>3 DEF WebEnd, lists
    <3>2. \A p \in Object : kind'[p] = IF p = o THEN "closed" ELSE kind[p]
      BY <1>1, <3>1
    <3> QED
      BY <1>1, <2>3, <3>1, <3>2, ListsKept
  <2> QED
    BY <1>2, <2>1, <2>2, <2>3 DEF Ends
<1>3. ASSUME NEW o \in Object, NEW p \in Object, Closes(o, p) PROVE ListInv'
  <2>1. p \in Is("web") /\ RemoveWebSocket(p) /\ kind' = [kind EXCEPT ![p] = "closing"]
    BY <1>3 DEF Closes, Close, Is
  <2> QED
    BY <1>1, <2>1, WebGone
<1>4. CASE Reap
  <2>1. UNCHANGED lists
        /\ \A o \in Object : kind'[o] = IF kind[o] = "closed" THEN "free" ELSE kind[o]
    BY <1>4 DEF Reap
  <2> QED
    BY <1>1, <2>1, ListsKept
<1>5. CASE CloseTimer
  <2> DEFINE o == timers[1].timer
  <2>1. o \in Object /\ UNCHANGED lists /\ kind' = [kind EXCEPT ![o] = "closed"]
    BY <1>5 DEF CloseTimer
  <2>2. o \in Wanted
    BY <1>5, DueTimer DEF LoopInv, CloseTimer
  <2> HIDE DEF o
  <2>3. kind[o] = "closing"
    BY <2>1, <2>2, WantedFacts
  <2>4. \A p \in Object : kind'[p] = IF p = o THEN "closed" ELSE kind[p]
    BY <1>1, <2>1
  <2> QED
    BY <1>1, <2>1, <2>3, <2>4, ListsKept
<1>6. CASE Visit
  <2>1. CASE Missed(iterator)
    <3>1. iterator \in Is("http")
      BY <1>6 DEF Visit, LoopInv, PassInv, Chain
    <3> QED
      BY <1>1, <2>1, <3>1, HttpEndLists DEF Missed
  <2>2. CASE Spare(iterator)
    BY <1>1, <2>2, ListsKept DEF Spare
  <2> QED
    BY <1>6, <2>1, <2>2 DEF Visit
<1>7. CASE \/ NoMore \/ AcceptFails \/ EventsDone \/ NoneDue \/ DeadlineTimer \/ AcceptTimer
           \/ PassDone \/ Return
           \/ \E o \in Object : Request(o) \/ Data(o)
           \/ \E ticks \in 0 .. MaxTicks : Wait(ticks)
  <2>1. UNCHANGED <<lists, kind>>
    BY <1>7 DEF NoMore, AcceptFails, EventsDone, NoneDue, DeadlineTimer, AcceptTimer, PassDone,
                Return, Request, Data, Wait, sockets
  <2> QED
    BY <1>1, <2>1, ListsKept
<1> QED
  BY <1>1, <1>2, <1>3, <1>4, <1>5, <1>6, <1>7, AcceptLists, UpgradeLists
  DEF Next, Turn, Callback

(* What is left of a chain behind its first member.                         *)
LEMMA ChainTail ==
    ASSUME NEW M, NEW h \in Object, NEW nx \in Link, NEW pv \in Link, Chain(M, h, nx, pv)
    PROVE  Chain(M \ {h}, nx[h], nx, From(nx[h], pv))
<1> DEFINE L == [head |-> h, next |-> nx, prev |-> pv]
           l == Unlinked(L, h)
           n == nx[h]
<1>0. /\ Null \notin Object /\ M \in SUBSET Object /\ h \in M /\ pv[h] = Null
      /\ \A x \in M : nx[x] \in M \cup {Null} /\ pv[x] \in M \cup {Null}
      /\ \A x \in M : IF pv[x] = Null THEN x = h ELSE nx[pv[x]] = x
  BY EventLoopAssumption DEF Chain
<1>1. nx \in [Object -> Object \cup {Null}] /\ pv \in [Object -> Object \cup {Null}]
      /\ h = L.head /\ nx = L.next /\ pv = L.prev
  BY DEF Link
<1>2. l.head = n
  BY <1>0 DEF Unlinked
<1> HIDE DEF L
<1>3. Chain(M \ {h}, l.head, l.next, l.prev)
  BY <1>0, <1>1, UnlinkedChain
<1>4. \A x \in Object : /\ l.next[x] = IF x = h THEN Null ELSE IF x = pv[h] THEN nx[h] ELSE nx[x]
                        /\ l.prev[x] = IF x = h THEN Null ELSE IF x = nx[h] THEN pv[h] ELSE pv[x]
  BY <1>1, UnlinkedLinks
<1> HIDE DEF l
<1>5. \A x \in M \ {h} : nx[x] = l.next[x] /\ From(n, pv)[x] = l.prev[x]
  BY <1>0, <1>4 DEF From
<1> QED
  BY <1>2, <1>3, <1>5, ChainFrame

(* The pass moves on to the rest of the sockets, whether the callback has   *)
(* removed the one it was at or not.                                        *)
LEMMA VisitPass == ASSUME LoopInv, Visit PROVE PassInv'
<1> DEFINE o == iterator
           M == Is("http") \ visited
           n == next[o]
           pv == From(o, prev)
<1>1. /\ at = "pass" /\ at' = "pass" /\ o # Null /\ iterators = <<o>>
      /\ visited' = visited \cup {o} /\ Chain(M, o, next, pv)
  BY DEF LoopInv, PassInv, Visit
<1>2. o \in Is("http") /\ o \notin visited /\ o \in Object /\ BatchInv /\ ListInv
  BY <1>1 DEF LoopInv, Chain, Is
<1>3. next \in Link /\ prev \in Link
  BY <1>2 DEF ListInv
<1>4. pv \in Link
  BY <1>3 DEF From, Link
<1>5. Chain(M \ {o}, n, next, From(n, pv))
  <2> HIDE DEF M, pv
  <2> QED
    BY <1>1, <1>2, <1>3, <1>4, ChainTail
<1>6. n # o
  <2> HIDE DEF M, pv
  <2>1. o \in M
    BY <1>1 DEF Chain
  <2> QED
    BY <1>1, <2>1, ChainAcyclic
<1>7. CASE Missed(o)
  <2> DEFINE l == Unlinked(HttpList, o)
  <2>1. /\ next' = l.next /\ prev' = l.prev /\ iterators' = [iterators EXCEPT ![Len(iterators)] = n]
        /\ kind' = [kind EXCEPT ![o] = "closed"]
    BY <1>1, <1>7 DEF Missed, HttpEnd, RemoveHttpSocket, SetLinks, Redirect
  <2>2. iterators' = <<n>> /\ iterators'[Len(iterators')] = n
    BY <1>1, <2>1
  <2>3. iterator' = n
    BY <1>6, <1>7, <2>2 DEF Missed, Advance
  <2>4. next = HttpList.next /\ prev = HttpList.prev
    BY DEF HttpList
  <2>5. \A x \in Object :
            /\ l.next[x] = IF x = o THEN Null ELSE IF x = prev[o] THEN next[o] ELSE next[x]
            /\ l.prev[x] = IF x = o THEN Null ELSE IF x = next[o] THEN prev[o] ELSE prev[x]
    BY <1>2, <1>3, <2>4, UnlinkedLinks DEF Link
  <2> HIDE DEF l
  <2>6. Is("http")' \ visited' = M \ {o}
    <3>1. \A x \in Object : kind'[x] = IF x = o THEN "closed" ELSE kind[x]
      BY <1>2, <2>1, ListFacts
    <3>2. Is("http")' = Is("http") \ {o}
      BY <1>2, <3>1 DEF Is
    <3> QED
      BY <1>1, <3>2
  <2>7. ASSUME NEW x \in M \ {o}
        PROVE  next'[x] = next[x] /\ From(iterator', prev')[x] = From(n, pv)[x]
    <3>1. x \in Object /\ x \in Is("http") /\ x # o
      BY DEF Is
    <3>2. x # prev[o]
      <4>1. x = prev[o] => next[x] = o
        BY <1>2, <3>1, ListFacts DEF ListInv, Chain
      <4>2. next[x] # Null => pv[next[x]] = x
        <5> HIDE DEF M, pv
        <5> QED
          BY <1>1 DEF Chain
      <4>3. pv[o] = Null /\ o # Null /\ x # Null
        BY <1>1, <1>2, <3>1, ListFacts DEF From
      <4> QED
        BY <4>1, <4>2, <4>3
    <3>3. next'[x] = next[x]
      BY <2>1, <2>5, <3>1, <3>2
    <3>4. From(n, prev')[x] = From(n, pv)[x]
      BY <2>1, <2>5, <3>1 DEF From
    <3> QED
      BY <2>3, <3>3, <3>4
  <2>8. Chain(M \ {o}, n, next', From(iterator', prev'))
    <3> HIDE DEF M, pv, n
    <3> QED
      BY <1>5, <2>7, ChainFrame
  <2> QED
    BY <1>1, <2>2, <2>3, <2>6, <2>8 DEF PassInv
<1>8. CASE Spare(o)
  <2>1. /\ next' = next /\ prev' = prev /\ kind' = kind /\ iterator' = n
        /\ iterators' = [iterators EXCEPT ![Len(iterators)] = n]
    BY <1>8 DEF Spare, lists
  <2>2. iterators' = <<n>>
    BY <1>1, <2>1
  <2>3. Is("http")' \ visited' = M \ {o}
    BY <1>1, <2>1 DEF Is
  <2>4. \A x \in M \ {o} : From(iterator', prev')[x] = From(n, pv)[x]
    BY <2>1 DEF From, Is
  <2>5. Chain(M \ {o}, n, next', From(iterator', prev'))
    <3> HIDE DEF M, pv, n
    <3> QED
      BY <1>5, <2>1, <2>4, ChainFrame
  <2> QED
    BY <1>1, <2>1, <2>2, <2>3, <2>5 DEF PassInv
<1> QED
  BY <1>7, <1>8 DEF Visit

(* Every step leaves the pass right.                                        *)
LEMMA PassStep == ASSUME LoopInv, Next PROVE PassInv'
<1>1. CASE DeadlineTimer
  <2>1. /\ at # "pass" /\ at' = "pass" /\ iterator' = httpHead /\ visited' = {}
        /\ iterators' = Append(iterators, httpHead)
        /\ next' = next /\ prev' = prev /\ kind' = kind
    BY <1>1 DEF DeadlineTimer, Process, sockets, lists
  <2>2. iterators' = <<iterator'>>
    BY <2>1 DEF LoopInv, PassInv
  <2>3. Is("http")' \ visited' = Is("http")
    BY <2>1 DEF Is
  <2>4. Chain(Is("http"), httpHead, next, prev)
    BY DEF LoopInv, ListInv
  <2>5. \A x \in Is("http") : From(httpHead, prev)[x] = prev[x]
    <3>1. httpHead # Null => prev[httpHead] = Null
      BY <2>4 DEF Chain
    <3>2. \A x \in Is("http") : x \in Object /\ x # Null
      BY EventLoopAssumption DEF Is
    <3> QED
      BY <3>1, <3>2 DEF From
  <2>6. Chain(Is("http"), httpHead, next, From(httpHead, prev))
    BY <2>4, <2>5, ChainFrame
  <2> QED
    BY <2>1, <2>2, <2>3, <2>6 DEF PassInv
<1>2. CASE PassDone
  BY <1>2 DEF PassDone, LoopInv, PassInv
<1>3. CASE Callback
  <2>1. at # "pass" /\ at' # "pass" /\ (iterators' = iterators \/ \E o \in Object : Redirect(o))
    BY <1>3 DEF Callback, Accept, Request, Ends, Data, Upgrade, Closes, NoMore, AcceptFails, Event,
                HttpEnd, WebEnd, Close, RemoveHttpSocket, RemoveWebSocket, pass
  <2> QED
    BY <2>1 DEF LoopInv, PassInv, Redirect
<1>4. CASE \/ Reap \/ EventsDone \/ NoneDue \/ CloseTimer \/ AcceptTimer \/ Return
           \/ \E ticks \in 0 .. MaxTicks : Wait(ticks)
  <2>1. at # "pass" /\ at' # "pass" /\ iterators' = iterators
    BY <1>4 DEF Reap, EventsDone, NoneDue, CloseTimer, AcceptTimer, Return, Wait, Process, pass
  <2> QED
    BY <2>1 DEF LoopInv, PassInv
<1> QED
  BY <1>1, <1>2, <1>3, <1>4, VisitPass DEF Next, Turn

(* Where the invariants begin.                                              *)
LEMMA LoopInit == Init => LoopInv
<1> SUFFICES ASSUME Init PROVE LoopInv
  OBVIOUS
<1>1. BatchInv /\ PassInv
  BY DEF Init, BatchInv, PassInv, Kinds
<1>2. Is("http") = {} /\ Is("web") = {} /\ Is("closing") = {}
  BY DEF Init, Is
<1>3. ListInv
  <2>1. Chain({}, Null, next, prev)
    BY DEF Chain
  <2> QED
    BY <1>2, <2>1 DEF Init, ListInv, Link
<1>4. TimerInv
  <2>1. Wanted = {} /\ timers = <<>>
    BY <1>2 DEF Init, Wanted
  <2>2. TimersOf(<<>>, {})
    BY DEF TimersOf
  <2> QED
    BY <2>1, <2>2 DEF Init, TimerInv, NextDelay
<1> QED
  BY <1>1, <1>3, <1>4 DEF LoopInv

(* Nor does a step of something else change anything.                       *)
LEMMA LoopStutter == ASSUME LoopInv, UNCHANGED vars PROVE LoopInv'
<1>1. UNCHANGED <<kind, httpHead, webHead, next, prev, timers, delay, processing, cancelled,
                  ready, listening, at, iterators, iterator, visited>>
  BY DEF vars, sockets, lists, clock, pass
<1>2. BatchInv' /\ PassInv'
  BY <1>1 DEF LoopInv, BatchInv, PassInv, Is
<1>3. Is("http")' = Is("http") /\ Is("web")' = Is("web")
  BY <1>1 DEF Is
<1>4. ListInv'
  BY <1>1, <1>3 DEF LoopInv, ListInv
<1>5. Wanted' = Wanted
  BY <1>1, WantedKept
<1>6. TimerInv'
  BY <1>1, <1>5 DEF LoopInv, TimerInv
<1> QED
  BY <1>2, <1>4, <1>6 DEF LoopInv

(* The invariant is inductive.                                              *)
LEMMA LoopStep == ASSUME LoopInv, BatchInv', [Next]_vars PROVE LoopInv'
<1>1. CASE UNCHANGED vars
  BY <1>1, LoopStutter
<1>2. CASE Next
  BY <1>2, ListStep, PassStep, CallbackTimers, TurnTimers DEF Next, LoopInv
<1> QED
  BY <1>1, <1>2

(* What the invariant says of the lists, the timers and the pass.           *)
LEMMA ListsFollow == LoopInv => ListsExact
<1> SUFFICES ASSUME LoopInv PROVE ListsExact
  OBVIOUS
<1>1. Chain(Is("http"), httpHead, next, prev) /\ Chain(Is("web"), webHead, next, prev)
  BY DEF LoopInv, ListInv
<1>2. Reach(httpHead) = Is("http") /\ Reach(webHead) = Is("web")
  BY <1>1, ChainReach
<1>3. IsList(httpHead, "http")
  BY <1>1, <1>2 DEF IsList, Chain
<1>4. IsList(webHead, "web")
  BY <1>1, <1>2 DEF IsList, Chain
<1> QED
  BY <1>3, <1>4 DEF ListsExact

(* Just the timers that should run do.                                      *)
LEMMA TimersFollow == LoopInv => TimersExact
<1> SUFFICES ASSUME LoopInv PROVE TimersExact
  OBVIOUS
<1>1. TimersOf(timers, Wanted)
  BY DEF LoopInv, TimerInv
<1>2. \A i, j \in DOMAIN timers : i < j => timers[i].in <= timers[j].in
  BY <1>1 DEF TimersOf
<1>3. at = "wait" => delay = NextDelay(timers)
  BY DEF LoopInv, TimerInv
<1> QED
  BY <1>1, <1>2, <1>3, CountTimers DEF TimersExact

(* The pass has the HttpSockets it has not come to before it.               *)
LEMMA PassFollows == LoopInv => PassExact
<1> SUFFICES ASSUME LoopInv, at = "pass" PROVE Reach(iterator) = Is("http") \ visited
  BY DEF LoopInv, PassInv, PassExact
<1> DEFINE M == Is("http") \ visited
<1>1. Chain(M, iterator, next, From(iterator, prev))
  BY DEF LoopInv, PassInv
<1> HIDE DEF M
<1>2. Reach(iterator) = M
  BY <1>1, ChainReach
<1> QED
  BY <1>2 DEF M

-----------------------------------------------------------------------------
(* What holds of the loop between any two of its steps.                     *)
LEMMA LoopHolds == Spec => [](EventInv /\ LoopInv)
<1>1. Init => EventInv /\ LoopInv
  <2>1. Init => EventInv
    BY DEF Init, EventInv, BatchInv, NoStaleEvent, Kinds
  <2> QED
    BY <2>1, LoopInit
<1>2. EventInv /\ LoopInv /\ [Next]_vars => (EventInv /\ LoopInv)'
  <2>1. ASSUME EventInv, UNCHANGED vars PROVE EventInv'
    <3>1. kind' = kind /\ ready' = ready /\ at' = at
      BY <2>1 DEF vars, sockets
    <3> QED
      BY <2>1, <3>1 DEF EventInv, BatchInv, NoStaleEvent
  <2>2. EventInv /\ [Next]_vars => EventInv'
    BY <2>1, CallbackStep, TurnStep DEF Next
  <2>3. EventInv' => BatchInv'
    BY DEF EventInv
  <2> QED
    BY <2>2, <2>3, LoopStep
<1> QED
  BY <1>1, <1>2, PTL DEF Spec

(* An event of a batch is never handed to a socket that an earlier event of *)
(* the batch has ended, nor to memory that is free (Epoll.cpp: doEpoll;     *)
(* WebSocket.cpp: close, onEnd).                                            *)
THEOREM NoStaleEventHolds == Spec => []NoStaleEvent
<1>1. EventInv => NoStaleEvent
  BY DEF EventInv
<1> QED
  BY <1>1, LoopHolds, PTL

(* Each list of the group holds the sockets of its kind, linked both ways,  *)
(* whatever sockets come, go and change lists in the middle of a pass or a  *)
(* batch (Group.cpp: addHttpSocket, removeHttpSocket; Group.h:              *)
(* addWebSocket, removeWebSocket).                                          *)
THEOREM ListsHold == Spec => []ListsExact
  BY LoopHolds, ListsFollow, PTL

(* Just the timers that should run do, each once and in order, and the loop *)
(* does not sleep past the first (Epoll.h: Timer::start, Timer::stop;       *)
(* Epoll.cpp: doEpoll).                                                     *)
THEOREM TimersHold == Spec => []TimersExact
  BY LoopHolds, TimersFollow, PTL

(* The pass of the deadline comes to every HttpSocket once (Group.cpp:      *)
(* addHttpSocket; Group.h: forEachHttpSocket).                              *)
THEOREM PassHolds == Spec => []PassExact
  BY LoopHolds, PassFollows, PTL
================================================================================
