----------------------------- MODULE MCRelayThreads ----------------------------
(* Definitions for model checking RelayThreads: one socket on the first
   thread, the others on the second; ids are interchangeable. *)
EXTENDS RelayThreads, TLC
CONSTANTS t1, t2, c1
OwnerOf == [c \in Conn |-> IF c = c1 THEN t1 ELSE t2]
Symmetry == Permutations(Conn \ {c1}) \cup Permutations(Generated \ Requestable)
================================================================================
