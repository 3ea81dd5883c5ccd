------------------------------- MODULE RelayClient -----------------------------
(****************************************************************************)
(* One client library (src/relay.js: class Relay), the relay's handling of  *)
(* channel variables (src/relay.cpp: requests 4 and 5) and the channel's    *)
(* other users, joined by the WebSocket, which keeps messages in order.     *)
(*                                                                          *)
(* The library matches an answer to a request by order alone: a callback    *)
(* waits in a queue, and the next message with opcode 200 takes it, whoever *)
(* sent it.  It tells a disconnect event from a message by its sender.      *)
(*                                                                          *)
(* An id is a sequence of bytes.                                            *)
(****************************************************************************)
EXTENDS Integers, Sequences

CONSTANTS Key, Value, NoValue,
          Peer,            \* ids of other users
          BINARY_BROADCAST, RELAY_QUERY, \* ids of the relay
          Op,              \* opcodes that the application uses
          VARIABLE_REPLY,  \* opcode 200
          MaxRequests,     \* bound on calls of GetChannelVar
          MaxWaiting       \* bound on messages on their way, for those who add to them

ASSUME ClientAssumption ==
    /\ NoValue \notin Value
    /\ BINARY_BROADCAST \notin Peer /\ RELAY_QUERY \notin Peer
    /\ MaxRequests \in Nat /\ MaxWaiting \in Nat

VARIABLES
    ws,                \* "connecting", "open"
    ready,             \* this.ready: the first message has come
    VariableCallbacks, \* the queue of callbacks, each known by its request's number
    up, down,          \* messages to the relay and to the client
    variables,         \* the channel's variables at the relay
    present,           \* the other users of the channel
    \* History: the key of each request and the values it had since, the value
    \* that its callback got, and the ids that onClientDisconnect got.
    requests, answers, left, told

library == <<ws, ready, VariableCallbacks>>
vars == <<library, up, down, variables, present, requests, answers, left, told>>

Init == /\ ws = "connecting" /\ ready = FALSE /\ VariableCallbacks = <<>>
        /\ up = <<>> /\ down = <<>>
        /\ variables = [k \in Key |-> NoValue]
        /\ present = Peer
        /\ requests = <<>> /\ answers = <<>> /\ left = {} /\ told = {}

-----------------------------------------------------------------------------
(* The application calls the library.                                       *)

\* ws.onopen: the first packet names the channel.
JoinChannel == /\ ws = "connecting" /\ ws' = "open"
               /\ up' = Append(up, [request |-> "join"])
               /\ UNCHANGED <<ready, VariableCallbacks, down, variables, present, requests,
                              answers, left, told>>

\* Applications start with onSubscription: before it, send() would throw.
SetChannelVar(k, v) ==
    /\ ready /\ Len(up) < MaxWaiting
    /\ up' = Append(up, [request |-> "set", key |-> k, value |-> v])
    /\ UNCHANGED <<library, down, variables, present, requests, answers, left, told>>

GetChannelVar(k) ==
    /\ ready /\ Len(requests) < MaxRequests
    /\ requests' = Append(requests, [key |-> k, values |-> {variables[k]}])
    /\ answers' = Append(answers, {})
    /\ VariableCallbacks' = Append(VariableCallbacks, Len(requests'))
    /\ up' = Append(up, [request |-> "get", key |-> k])
    /\ UNCHANGED <<ws, ready, down, variables, present, left, told>>

-----------------------------------------------------------------------------
(* The relay.                                                               *)

\* A variable changes; requests that wait may be answered with the new value.
Assign(k, v) == /\ variables' = [variables EXCEPT ![k] = v]
                /\ requests' = [n \in DOMAIN requests |->
                                  IF requests[n].key = k /\ answers[n] = {}
                                  THEN [requests[n] EXCEPT !.values = @ \cup {v}]
                                  ELSE requests[n]]

Sends(from, op, body) == down' = Append(down, [from |-> from, op |-> op, body |-> body])

\* Fault: a variable that is not set is not answered.
TransmitChannelVariable_OnlySet(k) == IF variables[k] = NoValue THEN UNCHANGED down
                                      ELSE Sends(RELAY_QUERY, VARIABLE_REPLY, variables[k])

TransmitChannelVariable(k) == Sends(RELAY_QUERY, VARIABLE_REPLY, variables[k])

Handle(m) == CASE m.request = "join" -> /\ Sends(RELAY_QUERY, "userId", NoValue)
                                        /\ UNCHANGED <<variables, requests>>
               [] m.request = "set"  -> Assign(m.key, m.value) /\ UNCHANGED down
               [] m.request = "get"  -> /\ TransmitChannelVariable(m.key)
                                        /\ UNCHANGED <<variables, requests>>

onMessage == /\ up # <<>>
             /\ Handle(Head(up))
             /\ up' = Tail(up)
             /\ UNCHANGED <<library, present, answers, left, told>>

\* The client is in the channel from its first packet on.
Joined == ready \/ down # <<>>

PeerSets(k, v) == /\ v # variables[k] /\ Assign(k, v)
                  /\ UNCHANGED <<library, up, down, present, answers, left, told>>

PeerSends(p, op) == /\ p \in present /\ Joined /\ Len(down) < MaxWaiting
                    /\ Sends(p, op, NoValue)
                    /\ UNCHANGED <<library, up, variables, present, requests, answers, left,
                                   told>>

onDisconnection(p) == /\ p \in present /\ Joined /\ Len(down) < MaxWaiting
                      /\ present' = present \ {p} /\ left' = left \cup {p}
                      /\ Sends(BINARY_BROADCAST, NoValue, p)
                      /\ UNCHANGED <<library, up, variables, requests, answers, told>>

-----------------------------------------------------------------------------
(* A message comes to the client.                                           *)

\* Fault: the loop stops after the last byte.
ArrayEq_Last(a, b) == a[Len(a)] = b[Len(a)]

\* The loop runs from the last byte down to the second.
ArrayEq(a, b) == \A i \in 2 .. Len(a) : a[i] = b[i]

FirstMessageHandler == /\ ready' = TRUE
                       /\ UNCHANGED <<VariableCallbacks, answers, told>>

Calls(n, value) == answers' = [answers EXCEPT ![n] = @ \cup {value}]

\* Fault: the callback that was pushed last is taken.
Answer_Pop(value) ==
    LET last == Len(VariableCallbacks) IN
    /\ Calls(VariableCallbacks[last], value)
    /\ VariableCallbacks' = SubSeq(VariableCallbacks, 1, last - 1)

\* The handler of opcode 200, the library's own.
Answer(value) == /\ Calls(Head(VariableCallbacks), value)
                 /\ VariableCallbacks' = Tail(VariableCallbacks)

\* Without a callback the handler throws, and nothing comes of the message.
MessageDispatcher(m) ==
    IF ArrayEq(BINARY_BROADCAST, m.from)
    THEN told' = told \cup {m.body} /\ UNCHANGED <<VariableCallbacks, answers>>
    ELSE /\ IF m.op = VARIABLE_REPLY /\ VariableCallbacks # <<>>
            THEN Answer(m.body)
            ELSE UNCHANGED <<VariableCallbacks, answers>>
         /\ UNCHANGED told

Receive == /\ down # <<>>
           /\ IF ready THEN MessageDispatcher(Head(down)) /\ UNCHANGED ready
              ELSE FirstMessageHandler
           /\ down' = Tail(down)
           /\ UNCHANGED <<ws, up, variables, present, requests, left>>

-----------------------------------------------------------------------------
Next == \/ JoinChannel \/ onMessage \/ Receive
        \/ \E k \in Key : \/ GetChannelVar(k)
                          \/ \E v \in Value : SetChannelVar(k, v) \/ PeerSets(k, v)
        \/ \E p \in Peer : onDisconnection(p) \/ \E op \in Op : PeerSends(p, op)

Spec == Init /\ [][Next]_vars

\* The connection stays up, and relay and browser handle what has come.
FairSpec == Spec /\ WF_vars(JoinChannel) /\ WF_vars(onMessage) /\ WF_vars(Receive)

-----------------------------------------------------------------------------
(* Properties.                                                              *)

\* A callback gets a value that its own key had between the call and the answer, at
\* most once (relay.js: GetChannelVar, the handler of opcode 200).
AnswersRight == \A n \in DOMAIN requests :
    \/ answers[n] = {}
    \/ \E v \in requests[n].values : answers[n] = {v}

\* onClientDisconnect is called for users that have gone, and for no other.
DeparturesTrue == told \subseteq left

\* On a connection that stays, every callback is called in the end, although nothing
\* but its place in a queue connects it with its request.
EveryRequestAnswered ==
    \A n \in 1 .. MaxRequests : n \in DOMAIN requests ~> n \in DOMAIN answers /\ answers[n] # {}
=============================================================================
