------------------------------ MODULE GarbageLock ------------------------------
(****************************************************************************)
(* The lock between the relay's worker threads and its garbage collector:   *)
(* gc_State, AcquireGarbageLock, FreeGarbage and the places where the       *)
(* handlers of main() take the lock (src/relay.cpp).                        *)
(*                                                                          *)
(* gc_State is one atomic char.  A worker spins while it reads -1, THEN     *)
(* increments it; the collector spins while it reads a positive value, THEN *)
(* stores -1.  Each read and each write is a step of its own here, because  *)
(* nothing in the code makes a read and the write that follows it atomic.   *)
(* onDisconnection runs nested inside a handler that closes a socket, so    *)
(* one thread may hold two locks.                                           *)
(****************************************************************************)
EXTENDS Integers, FiniteSets

CONSTANTS Thread,      \* the worker threads (hardware_concurrency of them)
          CharMax,     \* the largest value of a char, 127 in the builds
          MaxGarbage   \* bound: sessions waiting in GarbageQueue

ASSUME ConstantsAssumption == CharMax \in Nat \ {0} /\ MaxGarbage \in Nat

VARIABLES gc_State,    \* std::atomic<char> gc_State
          locks,       \* the live AcquireGarbageLock objects, <<thread, depth>>
          pc,          \* where each worker thread is
          gcPc,        \* where the collector thread is
          garbage      \* number of sessions in GarbageQueue

vars == <<gc_State, locks, pc, gcPc, garbage>>

Char == (-CharMax - 1) .. CharMax

(* A char wraps around at its limits. *)
CharInc(n) == IF n = CharMax THEN -CharMax - 1 ELSE n + 1
CharDec(n) == IF n = -CharMax - 1 THEN CharMax ELSE n - 1

Init == /\ gc_State = 0
        /\ locks = {}
        /\ pc = [t \in Thread |-> "loop"]
        /\ gcPc = "sleep"
        /\ garbage = 0

--------------------------------------------------------------------------------
(* Worker threads. *)

(* The event loop calls onMessage, or onDisconnection for a socket that     *)
(* ended; both begin by constructing gcLock.                                *)
Handler(t) == /\ pc[t] = "loop"
              /\ pc' = [pc EXCEPT ![t] = "wait"]
              /\ UNCHANGED <<gc_State, locks, gcPc, garbage>>

(* WAIT_FOR_GC(): the spin ends on a read that is not -1. *)
WaitForGC(t) == /\ pc[t] \in {"wait", "nestedWait"}
                /\ gc_State # -1
                /\ pc' = [pc EXCEPT ![t] = IF @ = "wait" THEN "inc" ELSE "nestedInc"]
                /\ UNCHANGED <<gc_State, locks, gcPc, garbage>>

(* gc_State++ *)
Acquire(t) == /\ pc[t] = "inc"
              /\ gc_State' = CharInc(gc_State)
              /\ locks' = locks \cup {<<t, 1>>}
              /\ pc' = [pc EXCEPT ![t] = "body"]
              /\ UNCHANGED <<gcPc, garbage>>

NestedAcquire(t) == /\ pc[t] = "nestedInc"
                    /\ gc_State' = CharInc(gc_State)
                    /\ locks' = locks \cup {<<t, 2>>}
                    /\ pc' = [pc EXCEPT ![t] = "nestedBody"]
                    /\ UNCHANGED <<gcPc, garbage>>

Push(n) == /\ garbage + n <= MaxGarbage
           /\ garbage' = garbage + n

(* onDisconnection invalidates the session and queues it. *)
Invalidate(t) == /\ pc[t] = "body"
                 /\ Push(1)
                 /\ pc' = [pc EXCEPT ![t] = "tail"]
                 /\ UNCHANGED <<gc_State, locks, gcPc>>

(* DisconnectClient: queue the session (not for a NULL one), then           *)
(* ws->close(), which calls onDisconnection before it returns.              *)
DisconnectClient(t) == /\ pc[t] = "body"
                       /\ \E n \in {0, 1} : Push(n)
                       /\ pc' = [pc EXCEPT ![t] = "nestedWait"]
                       /\ UNCHANGED <<gc_State, locks, gcPc>>

(* ~AcquireGarbageLock: gc_State-- *)
Release(t) == /\ pc[t] \in {"body", "tail"}
              /\ gc_State' = CharDec(gc_State)
              /\ locks' = locks \ {<<t, 1>>}
              /\ pc' = [pc EXCEPT ![t] = "loop"]
              /\ UNCHANGED <<gcPc, garbage>>

(* Mutant: a return path of the nested handler that skips the destructor's decrement. *)
NestedRelease_NoDecrement(t) == /\ pc[t] = "nestedBody"
                                /\ locks' = locks \ {<<t, 2>>}
                                /\ pc' = [pc EXCEPT ![t] = "tail"]
                                /\ UNCHANGED <<gc_State, gcPc, garbage>>

NestedRelease(t) == /\ pc[t] = "nestedBody"
                    /\ gc_State' = CharDec(gc_State)
                    /\ locks' = locks \ {<<t, 2>>}
                    /\ pc' = [pc EXCEPT ![t] = "tail"]
                    /\ UNCHANGED <<gcPc, garbage>>

InHandler(t) == \/ WaitForGC(t)
                \/ Acquire(t) \/ NestedAcquire(t)
                \/ Invalidate(t) \/ DisconnectClient(t)
                \/ Release(t) \/ NestedRelease(t)

--------------------------------------------------------------------------------
(* The collector thread. *)

(* sleep_for(30 s) ends and FreeGarbage is called. *)
Wake == /\ gcPc = "sleep"
        /\ gcPc' = "wait"
        /\ UNCHANGED <<gc_State, locks, pc, garbage>>

(* Mutant: the collector waits for exactly 0. *)
WaitForRelay_Zero == /\ gcPc = "wait"
                     /\ gc_State = 0
                     /\ gcPc' = "claim"
                     /\ UNCHANGED <<gc_State, locks, pc, garbage>>

(* WAIT_FOR_RELAY(): the spin ends on a read that is not positive. *)
WaitForRelay == /\ gcPc = "wait"
                /\ ~(gc_State > 0)
                /\ gcPc' = "claim"
                /\ UNCHANGED <<gc_State, locks, pc, garbage>>

(* gc_State = -1 *)
Claim == /\ gcPc = "claim"
         /\ gc_State' = -1
         /\ gcPc' = "collect"
         /\ UNCHANGED <<locks, pc, garbage>>

(* Mutant: try_pop's result is not tested. *)
Delete_Unchecked == /\ gcPc = "collect"
                    /\ garbage' = garbage - 1
                    /\ UNCHANGED <<gc_State, locks, pc, gcPc>>

(* One turn of the loop: try_pop and delete. *)
Delete == /\ gcPc = "collect"
          /\ garbage > 0
          /\ garbage' = garbage - 1
          /\ UNCHANGED <<gc_State, locks, pc, gcPc>>

(* Mutant: the final store is missing. *)
Finish_NoStore == /\ gcPc = "collect"
                  /\ garbage = 0
                  /\ gcPc' = "sleep"
                  /\ UNCHANGED <<gc_State, locks, pc, garbage>>

(* try_pop fails; gc_State = 0 *)
Finish == /\ gcPc = "collect"
          /\ garbage = 0
          /\ gc_State' = 0
          /\ gcPc' = "sleep"
          /\ UNCHANGED <<locks, pc, garbage>>

FreeGarbage == Wake \/ WaitForRelay \/ Claim \/ Delete \/ Finish

Next == \/ \E t \in Thread : Handler(t) \/ InHandler(t)
        \/ FreeGarbage

(* A thread that is in a handler keeps running, and so does the collector.  *)
(* A spinning thread reads gc_State all the time while the value it waits   *)
(* to leave lasts only for one collection of every 30 seconds, so a gate    *)
(* that keeps opening is seen open: strong fairness for WaitForGC.  Nothing *)
(* is assumed of WAIT_FOR_RELAY beyond weak fairness: under a load that     *)
(* keeps gc_State positive the collector may spin forever.                  *)
Fairness == /\ \A t \in Thread : WF_vars(InHandler(t)) /\ SF_vars(WaitForGC(t))
            /\ WF_vars(FreeGarbage)

Spec == Init /\ [][Next]_vars
FairSpec == Spec /\ Fairness

--------------------------------------------------------------------------------
TypeOK == /\ gc_State \in Char
          /\ locks \subseteq Thread \X {1, 2}
          /\ pc \in [Thread -> {"loop", "wait", "inc", "body", "nestedWait",
                                "nestedInc", "nestedBody", "tail"}]
          /\ gcPc \in {"sleep", "wait", "claim", "collect"}
          /\ garbage \in 0 .. MaxGarbage

(* A lock object lives exactly while its scope does. *)
LocksMatchScopes ==
    \A t \in Thread :
        /\ <<t, 1>> \in locks <=> pc[t] \in {"body", "nestedWait", "nestedInc",
                                             "nestedBody", "tail"}
        /\ <<t, 2>> \in locks <=> pc[t] = "nestedBody"

(* How many held locks gc_State fails to count. *)
Drift == Cardinality(locks) - gc_State

(* The collector's two stores overwrite the increments of handlers that     *)
(* slipped through the gate, so gc_State can fall short of the locks held.  *)
(* It never exceeds them, and the shortfall does not build up from one      *)
(* collection to the next: two locks per thread, one more while gc_State    *)
(* was last set to -1.                                                      *)
DriftBounded ==
    /\ 0 <= Drift
    /\ Drift <= 2 * Cardinality(Thread) + (IF gcPc = "collect" THEN 1 ELSE 0)

(* FreeGarbage's gate is open when no handler holds a lock: garbage can be  *)
(* held up by running handlers, never by a count that leaked.               *)
IdleGateOpen == locks = {} => ~(gc_State > 0)

(* A handler that waits for the lock gets it, although the race may leave   *)
(* gc_State at -1 when the collector is asleep: the next collection, 30 s   *)
(* later, opens the gate again.                                             *)
HandlerEventuallyRuns == \A t \in Thread : (pc[t] = "wait") ~> (pc[t] = "body")

(* When the handlers fall silent, everything FreeGarbage can free is freed. *)
Quiet == \A t \in Thread : pc[t] = "loop"
QuietGarbageFreed == <>[]Quiet => <>[](garbage = 0)

(* ... and the count the race left wrong is right again: gc_State is 0      *)
(* whenever the collector is not in a collection.                           *)
QuietLockHeals == <>[]Quiet => <>[](gcPc # "collect" => gc_State = 0)

(* "Destructor MUST be performed while mutex is held preventing iterator    *)
(* access" (relay.cpp:221): no handler holds the lock during a collection.  *)
ReclaimExcludesHandlers == gcPc = "collect" => locks = {}

================================================================================
