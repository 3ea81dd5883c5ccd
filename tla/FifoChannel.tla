------------------------------- MODULE FifoChannel -----------------------------
(****************************************************************************)
(* What a socket promises those who send to it: messages arrive in the      *)
(* order in which they were sent, none is lost, doubled or overtaken, until *)
(* the channel is closed; what waits then does not arrive any more.         *)
(****************************************************************************)
EXTENDS Sequences

CONSTANT Message

VARIABLES waiting,    \* messages on their way
          delivered,  \* messages that arrived, in this order
          open

fifoVars == <<waiting, delivered, open>>

FifoInit == waiting = <<>> /\ delivered = <<>> /\ open = TRUE

Submit(m) == /\ open
             /\ waiting' = Append(waiting, m)
             /\ UNCHANGED <<delivered, open>>

(* The delivery of a last message may close the channel. *)
Deliver == /\ open /\ waiting # <<>>
           /\ delivered' = Append(delivered, Head(waiting))
           /\ \/ waiting' = Tail(waiting) /\ UNCHANGED open
              \/ waiting' = <<>> /\ open' = FALSE

Shut == /\ open
        /\ open' = FALSE
        /\ waiting' = <<>>
        /\ UNCHANGED delivered

FifoNext == (\E m \in Message : Submit(m)) \/ Deliver \/ Shut

FifoSpec == FifoInit /\ [][FifoNext]_fifoVars

================================================================================
