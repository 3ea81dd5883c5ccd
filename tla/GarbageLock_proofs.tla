--------------------------- MODULE GarbageLock_proofs --------------------------
(****************************************************************************)
(* Proofs about GarbageLock for every set of threads whose two locks each   *)
(* a char can count.                                                        *)
(****************************************************************************)
EXTENDS GarbageLock, FiniteSetTheorems, TLAPS

(* Every thread may hold two locks, and gc_State is a char: from 64 worker  *)
(* threads on, CharMax = 127 does not satisfy this.                         *)
FewThreads == IsFiniteSet(Thread) /\ 2 * Cardinality(Thread) <= CharMax

IInv == TypeOK /\ LocksMatchScopes /\ DriftBounded

(* A char stays a char under ++ and --. *)
LEMMA CharClosed == \A n \in Char : CharInc(n) \in Char /\ CharDec(n) \in Char
  BY ConstantsAssumption DEF Char, CharInc, CharDec

(* The state always has its type: gc_State stays in a char, however many    *)
(* threads there are.                                                       *)
THEOREM TypeCorrect == Spec => []TypeOK
<1>1. Init => TypeOK
  BY ConstantsAssumption DEF Init, TypeOK, Char
<1>2. TypeOK /\ [Next]_vars => TypeOK'
  <2> SUFFICES ASSUME TypeOK, [Next]_vars PROVE TypeOK'
    OBVIOUS
  <2> USE DEF TypeOK
  <2>1. ASSUME NEW t \in Thread, Handler(t) PROVE TypeOK'
    BY <2>1 DEF Handler
  <2>2. ASSUME NEW t \in Thread, WaitForGC(t) PROVE TypeOK'
    BY <2>2 DEF WaitForGC
  <2>3. ASSUME NEW t \in Thread, Acquire(t) PROVE TypeOK'
    BY <2>3, CharClosed DEF Acquire
  <2>4. ASSUME NEW t \in Thread, NestedAcquire(t) PROVE TypeOK'
    BY <2>4, CharClosed DEF NestedAcquire
  <2>5. ASSUME NEW t \in Thread, Invalidate(t) PROVE TypeOK'
    BY <2>5, ConstantsAssumption DEF Invalidate, Push
  <2>6. ASSUME NEW t \in Thread, DisconnectClient(t) PROVE TypeOK'
    BY <2>6, ConstantsAssumption DEF DisconnectClient, Push
  <2>7. ASSUME NEW t \in Thread, Release(t) PROVE TypeOK'
    BY <2>7, CharClosed DEF Release
  <2>8. ASSUME NEW t \in Thread, NestedRelease(t) PROVE TypeOK'
    BY <2>8, CharClosed DEF NestedRelease
  <2>9. ASSUME FreeGarbage PROVE TypeOK'
    BY <2>9, ConstantsAssumption
    DEF FreeGarbage, Wake, WaitForRelay, Claim, Delete, Finish, Char
  <2>10. CASE UNCHANGED vars
    BY <2>10 DEF vars
  <2>11. QED
    BY <2>1, <2>2, <2>3, <2>4, <2>5, <2>6, <2>7, <2>8, <2>9, <2>10
    DEF Next, InHandler
<1>3. QED
  BY <1>1, <1>2, PTL DEF Spec

(* A set of locks is finite and holds at most two for each thread. *)
LEMMA LocksCountable ==
  ASSUME FewThreads, NEW L \in SUBSET (Thread \X {1, 2})
  PROVE  /\ IsFiniteSet(L)
         /\ Cardinality(L) \in Nat
         /\ Cardinality(Thread) \in Nat
         /\ Cardinality(L) <= 2 * Cardinality(Thread)
<1>1. IsFiniteSet({1, 2}) /\ Cardinality({1, 2}) = 2
  <2>1. IsFiniteSet({1}) /\ Cardinality({1}) = 1
    BY FS_Singleton
  <2>2. /\ IsFiniteSet({1} \cup {2})
        /\ Cardinality({1} \cup {2}) = Cardinality({1}) + 1
    BY <2>1, FS_AddElement
  <2>3. {1} \cup {2} = {1, 2}
    OBVIOUS
  <2>4. QED
    BY <2>1, <2>2, <2>3
<1>2. Cardinality(Thread) \in Nat
  BY FS_CardinalityType DEF FewThreads
<1>3. /\ IsFiniteSet(Thread \X {1, 2})
      /\ Cardinality(Thread \X {1, 2}) = Cardinality(Thread) * 2
  BY <1>1, FS_Product DEF FewThreads
<1>4. IsFiniteSet(L) /\ Cardinality(L) <= Cardinality(Thread \X {1, 2})
  BY <1>3, FS_Subset
<1>5. Cardinality(L) \in Nat
  BY <1>4, FS_CardinalityType
<1>6. QED
  BY <1>2, <1>3, <1>4, <1>5

(* gc_State moves with the set of locks: a thread adds a lock it did not    *)
(* hold or drops one it held, and the char is short of its limit when it    *)
(* does, so it does not wrap.                                               *)
LEMMA AcquireKeepsDrift ==
  ASSUME FewThreads, IInv, NEW l \in Thread \X {1, 2}, l \notin locks,
         gc_State' = CharInc(gc_State), locks' = locks \cup {l}
  PROVE  Drift' = Drift
<1>1. /\ locks \in SUBSET (Thread \X {1, 2})
      /\ locks \cup {l} \in SUBSET (Thread \X {1, 2})
  BY DEF IInv, TypeOK
<1>2. /\ IsFiniteSet(locks)
      /\ Cardinality(locks) \in Nat
      /\ Cardinality(Thread) \in Nat
      /\ Cardinality(locks \cup {l}) <= 2 * Cardinality(Thread)
  BY <1>1, LocksCountable
<1>3. Cardinality(locks \cup {l}) = Cardinality(locks) + 1
  BY <1>2, FS_AddElement
<1>4. gc_State \in Int /\ gc_State < CharMax
  BY <1>2, <1>3, ConstantsAssumption
  DEF IInv, TypeOK, Char, DriftBounded, Drift, FewThreads
<1>5. gc_State' = gc_State + 1
  BY <1>4 DEF CharInc
<1>6. QED
  BY <1>2, <1>3, <1>4, <1>5 DEF Drift

(* A destructor takes one from the locks and one from gc_State.               *)
LEMMA ReleaseKeepsDrift ==
  ASSUME FewThreads, IInv, NEW l \in locks,
         gc_State' = CharDec(gc_State), locks' = locks \ {l}
  PROVE  Drift' = Drift
<1>1. locks \in SUBSET (Thread \X {1, 2})
  BY DEF IInv, TypeOK
<1>2. /\ IsFiniteSet(locks)
      /\ Cardinality(locks) \in Nat
      /\ Cardinality(Thread) \in Nat
  BY <1>1, LocksCountable
<1>3. Cardinality(locks \ {l}) = Cardinality(locks) - 1
  BY <1>2, FS_RemoveElement
<1>4. Cardinality(locks) >= 1
  BY <1>2, FS_EmptySet
<1>5. gc_State \in Int /\ gc_State # -CharMax - 1
  BY <1>2, <1>4, ConstantsAssumption
  DEF IInv, TypeOK, Char, DriftBounded, Drift, FewThreads
<1>6. gc_State' = gc_State - 1
  BY <1>5 DEF CharDec
<1>7. QED
  BY <1>2, <1>3, <1>5, <1>6 DEF Drift

(* The scopes of the lock objects: every step that adds or drops a lock     *)
(* moves its thread into or out of the scope of that lock.                  *)
LEMMA ScopesInvariant == Spec => []LocksMatchScopes
<1>1. Init => LocksMatchScopes
  BY DEF Init, LocksMatchScopes
<1>2. TypeOK /\ LocksMatchScopes /\ [Next]_vars => LocksMatchScopes'
  <2> SUFFICES ASSUME TypeOK, LocksMatchScopes, [Next]_vars, NEW u \in Thread
               PROVE  /\ <<u, 1>> \in locks' <=>
                             pc'[u] \in {"body", "nestedWait", "nestedInc",
                                         "nestedBody", "tail"}
                      /\ <<u, 2>> \in locks' <=> pc'[u] = "nestedBody"
    BY DEF LocksMatchScopes
  <2> DEFINE Goal == /\ <<u, 1>> \in locks' <=>
                            pc'[u] \in {"body", "nestedWait", "nestedInc",
                                        "nestedBody", "tail"}
                     /\ <<u, 2>> \in locks' <=> pc'[u] = "nestedBody"
  <2> USE DEF TypeOK, LocksMatchScopes
  <2>0. /\ \A t, n : <<u, n>> = <<t, n>> <=> u = t
        /\ \A t : <<u, 1>> # <<t, 2>> /\ <<u, 2>> # <<t, 1>>
    OBVIOUS
  <2>1. ASSUME NEW t \in Thread, Handler(t) PROVE Goal
    BY <2>1 DEF Handler
  <2>2. ASSUME NEW t \in Thread, WaitForGC(t) PROVE Goal
    BY <2>2 DEF WaitForGC
  <2>3. ASSUME NEW t \in Thread, Acquire(t) PROVE Goal
    BY <2>3 DEF Acquire
  <2>4. ASSUME NEW t \in Thread, NestedAcquire(t) PROVE Goal
    BY <2>4 DEF NestedAcquire
  <2>5. ASSUME NEW t \in Thread, Invalidate(t) PROVE Goal
    BY <2>5 DEF Invalidate
  <2>6. ASSUME NEW t \in Thread, DisconnectClient(t) PROVE Goal
    BY <2>6 DEF DisconnectClient
  <2>7. ASSUME NEW t \in Thread, Release(t) PROVE Goal
    BY <2>7 DEF Release
  <2>8. ASSUME NEW t \in Thread, NestedRelease(t) PROVE Goal
    BY <2>8 DEF NestedRelease
  <2>9. CASE FreeGarbage
    BY <2>9 DEF FreeGarbage, Wake, WaitForRelay, Claim, Delete, Finish
  <2>10. CASE UNCHANGED vars
    BY <2>10 DEF vars
  <2>11. QED
    BY <2>1, <2>2, <2>3, <2>4, <2>5, <2>6, <2>7, <2>8, <2>9, <2>10
    DEF Next, InHandler
<1>3. QED
  BY <1>1, <1>2, TypeCorrect, PTL DEF Spec

(* gc_State never exceeds the locks held, and never falls short of them by  *)
(* more than two for each thread (one more during a collection): the race   *)
(* between the gate and the collector's stores cannot build up.             *)
THEOREM DriftInvariant == ASSUME FewThreads PROVE Spec => []DriftBounded
<1>1. Init => DriftBounded
  <2> SUFFICES ASSUME Init PROVE DriftBounded
    OBVIOUS
  <2>1. Cardinality(locks) = 0 /\ gc_State = 0
    BY FS_EmptySet DEF Init
  <2>2. Cardinality(Thread) \in Nat
    BY FS_CardinalityType DEF FewThreads
  <2>3. QED
    BY <2>1, <2>2 DEF DriftBounded, Drift
<1>2. IInv /\ TypeOK' /\ [Next]_vars => DriftBounded'
  <2> SUFFICES ASSUME IInv, TypeOK', [Next]_vars PROVE DriftBounded'
    OBVIOUS
  <2>1. /\ Cardinality(locks) \in Nat
        /\ Cardinality(locks') \in Nat
        /\ Cardinality(locks) <= 2 * Cardinality(Thread)
        /\ Cardinality(Thread) \in Nat
    BY LocksCountable DEF IInv, TypeOK
  <2>2. ASSUME gcPc' = gcPc, Drift' = Drift PROVE DriftBounded'
    BY <2>2 DEF IInv, DriftBounded
  <2>3. ASSUME NEW t \in Thread, Acquire(t) PROVE DriftBounded'
    BY <2>2, <2>3, AcquireKeepsDrift DEF Acquire, IInv, LocksMatchScopes
  <2>4. ASSUME NEW t \in Thread, NestedAcquire(t) PROVE DriftBounded'
    BY <2>2, <2>4, AcquireKeepsDrift DEF NestedAcquire, IInv, LocksMatchScopes
  <2>5. ASSUME NEW t \in Thread, Release(t) PROVE DriftBounded'
    BY <2>2, <2>5, ReleaseKeepsDrift DEF Release, IInv, LocksMatchScopes
  <2>6. ASSUME NEW t \in Thread, NestedRelease(t) PROVE DriftBounded'
    BY <2>2, <2>6, ReleaseKeepsDrift DEF NestedRelease, IInv, LocksMatchScopes
  <2>7. ASSUME locks' = locks, gc_State' = gc_State, gcPc' = gcPc
        PROVE  DriftBounded'
    BY <2>2, <2>7 DEF Drift
  <2>8. ASSUME NEW t \in Thread, InHandler(t) PROVE DriftBounded'
    BY <2>3, <2>4, <2>5, <2>6, <2>7, <2>8
    DEF InHandler, WaitForGC, Invalidate, DisconnectClient
  <2>9. CASE Claim
    BY <2>1, <2>9 DEF Claim, DriftBounded, Drift
  <2>10. CASE Finish
    BY <2>1, <2>10 DEF Finish, DriftBounded, Drift
  <2>11. CASE Wake \/ WaitForRelay
    BY <2>11 DEF Wake, WaitForRelay, IInv, DriftBounded, Drift
  <2>12. CASE Delete \/ UNCHANGED vars
    BY <2>7, <2>12 DEF Delete, vars
  <2>13. ASSUME NEW t \in Thread, Handler(t) PROVE DriftBounded'
    BY <2>7, <2>13 DEF Handler
  <2>14. QED
    BY <2>8, <2>9, <2>10, <2>11, <2>12, <2>13 DEF Next, FreeGarbage
<1>3. QED
  BY <1>1, <1>2, TypeCorrect, ScopesInvariant, PTL DEF Spec, IInv

(* Whenever no handler holds a lock, FreeGarbage gets past WAIT_FOR_RELAY:  *)
(* an idle relay never keeps its garbage because of a leaked count.         *)
THEOREM IdleGateInvariant == ASSUME FewThreads PROVE Spec => []IdleGateOpen
<1>1. TypeOK /\ DriftBounded => IdleGateOpen
  <2> SUFFICES ASSUME TypeOK, DriftBounded, locks = {} PROVE ~(gc_State > 0)
    BY DEF IdleGateOpen
  <2>1. Cardinality(locks) = 0
    BY FS_EmptySet
  <2>2. gc_State \in Int
    BY ConstantsAssumption DEF TypeOK, Char
  <2>3. QED
    BY <2>1, <2>2 DEF DriftBounded, Drift
<1>2. QED
  BY <1>1, TypeCorrect, DriftInvariant, PTL
================================================================================
