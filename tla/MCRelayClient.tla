----------------------------- MODULE MCRelayClient -----------------------------
(* Definitions for model checking RelayClient: ids of three bytes, the other
   user's like the broadcast id but for the one in the middle. *)
EXTENDS RelayClient
Broadcast == <<255, 255, 255>>
Query == <<0, 0, 0>>
Peers == {<<255, 1, 255>>}
================================================================================
