------------------------------- MODULE Directory -------------------------------
(****************************************************************************)
(* What the relay promises of userIds, whatever sessions, tables and        *)
(* garbage lie behind them: a userId is the address of at most one user,    *)
(* who is in one channel for as long as the connection lasts; a user may    *)
(* move to another userId and then replaces a user who was there.           *)
(****************************************************************************)
CONSTANTS Address,  \* the userIds that may be a user's
          Channel,
          Offline   \* nobody has this userId; not a channel

VARIABLE directory  \* the channel of the user behind each address

DirectoryInit == directory = [u \in Address |-> Offline]

Online(u) == directory[u] # Offline

Arrive(u, ch) == /\ ~Online(u)
                 /\ directory' = [directory EXCEPT ![u] = ch]

Depart(u) == /\ Online(u)
             /\ directory' = [directory EXCEPT ![u] = Offline]

(* The user at u moves to w, with its channel; a user at w is disconnected. *)
Move(u, w) == /\ Online(u)
              /\ u # w
              /\ directory' = [directory EXCEPT ![u] = Offline, ![w] = directory[u]]

(* Somebody comes, goes or moves: no step is an empty one. *)
DirectoryNext == \E u \in Address : /\ directory'[u] # directory[u]
                                    /\ \/ \E ch \in Channel : Arrive(u, ch)
                                       \/ Depart(u)
                                       \/ \E w \in Address : Move(u, w)

DirectorySpec == DirectoryInit /\ [][DirectoryNext]_directory

================================================================================
