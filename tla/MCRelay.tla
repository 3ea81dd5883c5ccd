-------------------------------- MODULE MCRelay --------------------------------
(* Definitions for model checking Relay: slots are interchangeable, and so
   are the ids that nobody asks for. *)
EXTENDS Relay, TLC
Symmetry == Permutations(Conn) \cup Permutations(Generated \ Requestable)
SomeModes == {{"channel"}, {"private", "disconnect"}}
================================================================================
