-------------------------------- MODULE MCRoster -------------------------------
(* Definitions for model checking Roster: slots are interchangeable, and so
   are the ids that nobody asks for. *)
EXTENDS Roster, TLC
Symmetry == Permutations(Conn) \cup Permutations(Generated \ Requestable)
================================================================================
