--------------------------------- MODULE Roster --------------------------------
(****************************************************************************)
(* The relay together with what its users know of each other.  "It is       *)
(* typical for an application to use channel broadcasting to allow users to *)
(* discover each other so they may cache each other's UserIds" (README.md): *)
(* a user caches the id of a broadcast of its channel, and drops the id     *)
(* that a disconnect event names (relay.js: onClientDisconnect).            *)
(****************************************************************************)
EXTENDS Relay

VARIABLES roster,     \* the ids each session's user has cached
          reassigned  \* ids that AssignUserId took from a session

rosterVars == <<vars, roster, reassigned>>

RosterInit == /\ Init
              /\ roster = [c \in Conn |-> {}]
              /\ reassigned = {}

(* relay.js MessageDispatcher: a message from RE_BROADCAST_TARGET is a      *)
(* disconnect event; any other shows its sender's id.                       *)
Learned(c) == IF out'.kind = "broadcast" /\ out'.copies[c] > 0
                 /\ channel[UserIDSessionMap[out'.from]] = channel[c]
              THEN {out'.from} ELSE {}
Dropped(c) == IF out'.kind = "disconnect" /\ out'.copies[c] > 0
              THEN {out'.from} ELSE {}
Receive == roster' = [c \in Conn |-> IF c \in valid'
                                     THEN (roster[c] \cup Learned(c)) \ Dropped(c)
                                     ELSE {}]

(* The client's old id and, if somebody has it, the id it asks for. *)
Taken(c, u) == {userId[c]} \cup {w \in {u} : UserIDSessionMap[w] \in valid}

RosterNext ==
    \/ /\ (\E c \in Conn : ClientStep(c)) \/ FreeGarbage
       /\ Receive
       /\ UNCHANGED reassigned
    \/ \E c \in Conn, u \in Requestable :
           /\ AssignUserId(c, u)
           /\ Receive
           /\ reassigned' = reassigned \cup Taken(c, u)

RosterSpec == RosterInit /\ [][RosterNext]_rosterVars

Present(c, u) == /\ UserIDSessionMap[u] \in valid
                 /\ channel[UserIDSessionMap[u]] = channel[c]

(* An id that a user has cached from its channel is the address of a user   *)
(* who is in that channel now, unless AssignUserId moved it: every other    *)
(* departure is announced to everyone who may have cached the id.           *)
RosterSound == \A c \in valid : \A u \in roster[c] : u \in reassigned \/ Present(c, u)

================================================================================
