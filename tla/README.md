# A TLA+ verification of the WebSocket Application Relay

The relay (`src/relay.cpp`) accepts WebSocket connections, puts every client in
one channel, gives it a userId, and forwards messages: to the client's channel,
to another userId, or, for authenticated clients, as requests to the relay
itself. It runs one event loop per hardware thread on a bundled copy of
µWebSockets (`src/uws`), shares its tables between the threads without a mutex,
and deletes sessions only in a collector thread, every 30 seconds. The modules
here model that program, TLC checks them on small instances, and TLAPS proves
the central invariants for every instance.

## 1. The system

| component | state | operations | interacts by |
|---|---|---|---|
| **Garbage lock** `relay.cpp:62, 250-271` | `gc_State`, one atomic `char`; the lock objects alive | `AcquireGarbageLock` (spin on -1, then increment), its destructor (decrement), `FreeGarbage` (spin while positive, store -1, delete, store 0) | every handler takes it; the collector closes it |
| **Session registry** `relay.cpp:66-74, 190-245` | `Session` objects, `UserIDSessionMap`, `SessionExists`, `ChannelClientTable`, `GarbageQueue` | `Session()`, `~Session()`, userId allocation, invalidation, queueing, collection | handlers of all threads read and insert; only the collector (and `AssignUserId`) erases |
| **Message handlers** `relay.cpp:274-634, 643-672` | `authLevel`, `listenerMode`, `ChannelVariables` | first packet, broadcast, private message, requests 0 to 5, refusal of malformed messages | called by a thread's loop; call `send` on sockets of any thread |
| **Disconnections** `relay.cpp:324-331, 675-721` | `valid` | `DisconnectClient`, `onDisconnection`, `onError` | `close()` calls `onDisconnection` inside the handler that closes |
| **Client library** `relay.js`, `relay.module.js` | what a client knows: its id, the callbacks that wait for a variable | first message, dispatch on sender and opcode, disconnect events | reads what the relay sends |
| **uws WebSocket** `uws/WebSocket.*` | shutting-down flag, timer, fragment buffer | `send`, `close`, `onEnd`, `handleFragment` | calls the relay's handlers |
| **uws frame parser** `uws/WebSocketProtocol.h` | spill, remaining bytes, opcode stack | consume a chunk | calls `handleFragment` |
| **uws sockets and TLS** `uws/Socket.h` | message queue, poll mask | write now or queue, flush, shutdown | event loop |
| **uws groups, loop, timers** `uws/Group.*`, `uws/Epoll.*` | intrusive socket lists, sorted timers, sockets to delete | add, remove, iterate, start and cancel a timer | event loop |
| **HTTP upgrade, Hub, Node** | header buffer | accept, upgrade | hands sockets to the group |

What is hard in it:

* **Threads.** Handlers of different threads interleave between any two
  accesses to the tables and to each other's `Session`s. `valid` is tested and
  then used; a `find` is followed by an `insert`; `AssignUserId` disconnects a
  session of another thread.
* **Reclamation.** Nothing may be deleted while a loop passes it; everything
  invalid must be deleted once. The lock that separates the two is made of a
  read and a write that are not atomic together.
* **Callbacks.** `close()` calls `onDisconnection` in the middle of the handler
  that closes, so the same session passes two invalidation paths in one call
  stack, and one thread holds two locks.
* **Order.** A kick clears the holder's userId before the disconnect event is
  sent; the channel's name is used after the entry it lies in was erased.
* **What clients rely on.** They cache each other's userIds and are told of a
  departure once; a missed event leaves a ghost for good.

Correctness, per component: the lock counts the locks held, opens again, lets
handlers and collector through; the registry's tables agree with each other and
with the sockets, and every session is queued exactly once between its end and
its deletion; handlers deliver to exactly the clients they name, exactly once;
each departure reaches all who know the one that left; a frame parser's output
does not depend on how TCP cuts its input; a socket's output is a FIFO.

The list of hazards, with the source line of each and the properties that watch
it, is in `PROJECT.json`.

## 2. The modules

| module | models | composed of |
|---|---|---|
| `GarbageLock` | the lock and the collector, one step per access to `gc_State` | |
| `Directory` | abstract: who is in which channel at which userId | |
| `Relay` | registry, handlers, requests, disconnections; one handler is one step | refines `Directory` |
| `Roster` | `Relay` and the userIds each client has cached | extends `Relay` |
| `RelayThreads` | the registry's handlers on several threads, one step per access to shared state | |
| `FifoChannel` | abstract: messages arrive in order until the channel is shut | |
| `WriteQueue` | one TLS socket: writes, queue, poll flags, `close()`, reads, deletion | refines `FifoChannel` |
| `FrameStream` | abstract: frames are taken whole and in order, messages put together | |
| `FrameParser` | the parser of incoming frames and `handleFragment`, fed with pieces of any size | refines `FrameStream` |
| `EventLoop` | one thread's loop: socket lists, timers, accept, upgrade, close, deletion | |
| `RelayClient` | `relay.js`, the relay's variables, and peers, joined by two message queues | |
| `MCRelay`, `MCRoster`, `MCRelayThreads`, `MCFrameParser`, `MCRelayClient` | definitions for TLC: symmetry, listener masks, which thread owns which socket, the streams of frames, ids as bytes | |
| `GarbageLock_proofs`, `Relay_proofs`, `Roster_proofs`, `RelayThreads_proofs`, `WriteQueue_proofs`, `FrameParser_proofs`, `EventLoop_proofs`, `RelayClient_proofs` | theorems | each extends the module it is about |

### GarbageLock

A worker thread's `pc` goes `loop`, `wait` (in `WAIT_FOR_GC`), `inc` (it has read
a value that is not -1), `body`, then either straight back by `Release` or
through `nestedWait`, `nestedInc`, `nestedBody` when the handler closes a socket
and `onDisconnection` takes a lock of its own. The collector goes `sleep`,
`wait` (in `WAIT_FOR_RELAY`), `claim`, `collect`. `gc_State` is a char that wraps
around at `CharMax`. `locks` is the set of lock objects alive, the ghost that
`gc_State` is meant to count.

### Relay

One handler is one step. This is the relay with one worker thread and an ideal
lock. A member of `Conn` is a slot for an accepted socket together with the
`Session` made for it; it is used again after both are gone, as memory is, so a
stale table entry would lead to somebody else. The C++ names are kept:
`UserIDSessionMap`, `SessionExists`, `ChannelClientTable` (the names),
`channelIndex` (the sets), `ChannelVariables`, `GarbageQueue` (how often each
session is in it). `out` records what the last handler sent and how often to
whom. `rand64p` is any unused member of `Generated`; `Requestable` are the
userIds clients ask for with request 3. What is abstracted: the bytes of
messages and their lengths, the text/binary encoding of a target (both forms
share one action), passwords (`Authenticate` is request 0 with the right one).
`tmpName`, a reference into an erased table entry, either still finds the
channel's variables or does not: `FreeGarbage` chooses.

A step of `FreeGarbage` deletes all queued sessions. It cannot be cut by a
handler in this module (that is `GarbageLock`'s subject), and destructors of one
collection commute, so one step per collection loses nothing.

### Roster

`roster[c]` is what the user of `c` knows by following the README's advice
("cache each other's UserIds"): the sender of every broadcast from its channel,
until a disconnect event names it. `reassigned` holds the ids that
`AssignUserId` took from someone, of which no event ever speaks.

### RelayThreads

`th[t]` is a thread's place in a handler and the handler's local variables;
each socket belongs to one thread (`Owner`). The steps are the accesses: read
the user data before the lock (`OnMessage`); pick an id, enter the map, find the
channel, insert it, subscribe, enter `SessionExists`; in loops test `valid`
(`Visit`) and only then `Send`; in `onDisconnection` read the userId, test
`valid`, invalidate and queue, send the events; in `AssignUserId` look up, clear
and kick (which runs `DisconnectClient` and `onDisconnection` of another
thread's socket), assign. A loop has to pass the sessions that were there when
it began and may pass those inserted meanwhile, as with tbb's sets. Undefined
behaviour (dereferencing `end()`, a wild `channelIndex`, `send` or `close` on a
deleted socket, a double deletion) sets `crashed`, or may, and a crashed process
stops: the threads' runs do not check for deadlock for that reason. The lock is ideal here;
listeners, variables and authentication are left to `Relay`.

### WriteQueue

One socket of the server, with TLS as `SSL_write`, `SSL_read`, `SSL_want` and
`SSL_shutdown` show it. A message is known by the order in which it was sent.
`sender[t]` is a thread's place in `send()`: `Send` and `Close` test the queue
(`sendTransformed`, `write`), `Write` is the `SSL_write`, `Push` the append to
`messageQueue`. `pending` is OpenSSL's memory of a write that has to be repeated
with the same message (the sockets do not set
`SSL_MODE_ACCEPT_MOVING_WRITE_BUFFER`); any other message is refused until then.
`at` is the owner's place in `sslIoHandler`: `flush` (the loop over the queue),
`read` (before `SSL_read`), `data` (in `onData`), `loop` (not in the handler).
`End` is an error that the loop reports or the timer of `close()`; both lead to
`OnEnd`, as do a failed `SSL_write` and the end of the connection. `room`,
`input` and `broken` belong to the peer and the kernel and change at any time. A
message takes one unit of the kernel's room: part of a message on the wire is
OpenSSL's business, since without `SSL_MODE_ENABLE_PARTIAL_WRITE` a write
reports all or nothing. The callback of a message matters for the CLOSE frame
only, whose callback shuts TLS down (`Complete`).

### FrameParser

A byte is known by its place in the peer's stream, and a byte of a payload also
by the byte of the mask it was combined with; `FrameStream` says what the two
must be. `Receive(n)` is `onData` with the next `n` bytes: `consume` puts what it
has spilled in front of them. Each turn of `consume`'s loop is then a step:
`WholeFrame` and `PartOfFrame` are the two halves of `consumeMessage`,
`RestOfFrame` and `MoreOfFrame` those of `consumeContinuation`, `RefuseFrame` a
header that ends the connection, `Spill` a header that has not arrived in full.
The state is `WebSocketState`'s, with the C++ names, and `fragmentBuffer` and
`controlTipLength` of the `WebSocket`. `handleFragment` calls the application,
which may close or terminate the socket (`HandlerReturns`). `written` is how far
the last unmasking has written, since it works on words. A frame's header says
its size in 6, 8 or 14 bytes; `junk` marks a payload that is not UTF-8. The
connection has no compression, as the relay's `Hub` does not offer it.

### EventLoop

The sockets a thread owns, as objects at addresses that are used again: `kind`
goes from `free` to `http` (accepted), `web` (upgraded: a new object, the old one
is deleted at once), `closing` (after `close()`), `closed` (after `onEnd`) and back
to `free` when the next turn begins (`Reap`). The two lists are intrusive and
doubly linked as in `Group.cpp`; links of a socket that is in no list are read by
nobody and kept at `Null`. `at` is the loop's place in `doEpoll`: `reap`, `wait`
(in `epoll_wait`), `events`, `accept` (in the loop of `accept_cb`), `timers`,
`more`, `pass` (in `forEachHttpSocket`), `return` (a timer's callback has
returned). The timers are a sorted sequence with the time until each is due.
Time passes only in `Wait`: within a turn it stands still, as `loop->timepoint`
nearly does. That the system clock may be set back is not modelled, and handlers
close sockets of their own thread only.

### RelayClient

The client's `ws` delivers in order, both ways: `up` and `down`. `GetChannelVar`
pushes a callback, known by its request's number, and sends request 5; the
relay answers in the order of arrival; `MessageDispatcher` takes the head of
the queue of callbacks for the next message with opcode 200. `requests[n].values`
records the values the key had between call and answer. An id is a sequence of
bytes, because `ArrayEq` compares bytes. What the library cannot handle is left
out of the inputs, and listed with the hazards: empty keys, peers that use
opcode 200, calls before the socket is open, ids that differ from the broadcast
id in the first byte only.

## 3. What TLC checks

| run | shows |
|---|---|
| `gc_lock` | Three threads with nested locks. `DriftBounded`: the count never exceeds the locks held, and the increments a collection wipes out do not build up. `IdleGateOpen`: no leak can shut the collector out of an idle relay. Liveness: a waiting handler runs, a relay that falls silent frees all garbage, and its count becomes right again. |
| `registry` | `IdOwnership`, `GarbageExactlyOnce`, `ValidMeansOpen`, `ChannelTableExact`, and `ImplementsDirectory`: however sessions are kicked, closed, collected and their memory reused, userIds behave as addresses of at most one user each. `RosterSound`: nobody's cache holds an id whose user is gone, except ids that request 3 moved. |
| `relay_delivery` | `BroadcastExact`, `PrivateConfined`, `DisconnectExact`: who receives what and how often, with listeners of several kinds. `VariablesKept`: a channel in use keeps its variables through the collections of others. |
| `threads` | The same across two threads: `RosterSound` (with an event under way counted as told), `RetiredOnce`, and `NothingPulledAway`: whatever a handler has in its hands is still there. |
| `threads_kick` | With requests that disconnect sessions of the other thread, `NothingLeaks`: a session is in the queue if and only if it is invalid. |
| `write_queue` | A socket that only its own thread sends to. `ImplementsFifo`: writes at once, queued and repeated keep the order and lose nothing. `CloseIsLast`: nothing follows the CLOSE frame. `PollExact`: between events the writable flag is set exactly while something waits. Liveness: what is queued gets out if the peer keeps reading (`QueueDrains`), and `close()` ends whatever the peer does (`CloseEnds`). |
| `frame_parser` | `ImplementsFrameStream`: however TCP cuts a stream of up to three frames, the application is handed whole messages and control frames, in order and rightly unmasked, and the first frame that may not be sent ends the connection. `InSync`: a header is looked for only where one begins. `UnmaskInBounds`: unmasking by words spoils nothing that is still to be read. `FrameHandled` (liveness): a frame that has arrived in full does not wait for more data. |
| `event_loop` | `ListsExact` and `TimersExact`: lists and timers are those of the sockets there are, whatever callbacks add and remove. `NoStaleEvent`: no event of a batch reaches a socket that `onEnd` has closed. `PassExact`: the pass of the request deadline visits each socket once although it removes some. `SocketsEnd` (liveness): connections that make no request, and closing ones, end. |
| `relay_client` | `AnswersRight`: each callback gets, once, a value that its own key had meanwhile. `DeparturesTrue`: what is reported as a departure was one. `EveryRequestAnswered` (liveness): also for variables that are not set, and with any messages in between. |
| `gc_lock_exclusion`, `threads_join`, `threads_retire` | Violations: see section 6. |

Each property has, in `PROJECT.json`, a mutant of a definition that models
code, under which TLC finds the property violated.

**Bounds.** `gc_lock`: three threads suffice for a collector's store to fall
between the steps of two handlers while a third holds a nested lock;
`MaxGarbage = 2` is one session to delete and one pushed during the collection.
`CharMax` is the real 127; no run overflows it (see section 5 for the
condition). `registry`, `relay_delivery`: three slots give a sender or kicker, a victim or target,
and a bystander; two channels give `re_globl`, which is special in every
handler, and an ordinary one; three generated ids make each slot's id distinct;
`Requestable` holds one generated id, which anyone may have, hold already, or ask
for while it is free.
`relay_delivery` has no requests for ids, `registry` no listeners and
variables: the two parts of the state do not touch, apart from the userId 0 of
a kick's event, and the product is too large. `threads`: three sockets on two
threads let two handlers work on a third session, which is what each of the
properties needs to fail; four would only repeat a role. `threads_kick` has two sockets on two
threads, each of which may kick the other or itself. Symmetry is used in runs
of invariants, over slots and ids that nobody asks for by name, and in `registry` for a
property that is a refinement without liveness.

`write_queue`: with room for two messages and six to send, a queue of several
messages forms behind a write that is to be repeated, with the CLOSE frame at
any place in it; the peer sends twice, so that events of both kinds coincide.
The run does not check for deadlock, since a deleted socket does nothing more.

`frame_parser`: 153 streams of one to three frames. Two frames suffice for one
to be spilled behind the other, three for a control frame between two fragments
(`opStack` then is at its limit). Payloads have 0, 1, 2, 5, 6 bytes, so that parts
of every length modulo four occur, and headers have all three sizes; a seventh
byte exceeds `MaxPayload`. The run ends when the stream does and does not check
for deadlock. `event_loop`: three objects make lists of up to three sockets, an
upgrade while another request waits, and reuse of an address within a pass;
the deadline's timer is shorter than that of `close()`, so that both orders of
two timers come up. `relay_client`: three requests for two keys let answers be
taken for each other; `MaxWaiting` bounds only those who add to a queue that
someone else must empty.

**Fairness** is assumed in `gc_lock`, `write_queue`, `frame_parser`,
`event_loop` and `relay_client`. In `frame_parser`: `consume` is a loop in one
call and goes on until it returns; that more data come is not assumed. In
`event_loop`: the loop goes on, and time passes, that is, not every wait is over
within the same tick (strong fairness of waits of at least a tick; without
it events at a standing clock would keep timers from ever being due). In
`relay_client`: the connection stays up, the relay and the browser handle what
has come; calls of the application and messages of peers are never assumed. In `write_queue`: a
thread finishes the `send()` it is in, the owner's loop goes on (it handles what
epoll reports, and timers fire), both weakly fair because nothing disables them
but their own progress or the socket's end. The peer owes nothing: `QueueDrains`
has "there is room again and again" as its hypothesis. In `gc_lock`: weak fairness for a thread inside a
handler and for the collector: the operating system runs threads that can run,
and no handler waits for input. Strong fairness for `WaitForGC`: the value -1
that a spinning thread waits to leave lasts for one collection of every 30
seconds, and the thread reads it all the time. Nothing more than weak fairness
is assumed of `WAIT_FOR_RELAY`: under a load that keeps the count positive the
collector may wait forever, which is why `QuietGarbageFreed` and
`QuietLockHeals` speak of a relay that falls silent. That new messages arrive
is never assumed.

## 4. What is only model-checked

Liveness: `HandlerEventuallyRuns`, `QuietGarbageFreed`, `QuietLockHeals`,
`QueueDrains`, `CloseEnds`, `FrameHandled`, `SocketsEnd`, `EveryRequestAnswered`.
It rests on fairness and so on ENABLED, which the prover does not handle. Every
other property that a passing run checks, refinements included, is also a theorem.

## 5. What is proved

`GarbageLock_proofs`, for every set of threads and every char width.
`TypeCorrect` needs nothing. `DriftInvariant` and `IdleGateInvariant` assume
`FewThreads`: a finite set of threads, with `2 * Cardinality(Thread) <= CharMax`.
A thread has at most two locks, so with up to 63 threads the count fits into a
char; with more it may wrap around, and the properties fail. The inductive
invariant is `TypeOK`, `DriftBounded` itself and `LocksMatchScopes`: a lock
object lives exactly while its scope does, so that an acquisition adds a lock
that was not there and a release drops one that was. Increment and
creation of a lock happen together, decrement and destruction too; the
collector's stores only lower the count relative to the locks, and reset the
shortfall to at most the locks then held. That last point is what keeps the
drift from accumulating.

`Relay_proofs`, for every number of slots, channels, ids, keys and values.
`TypeCorrect` is unconditional. The rest assumes `ZeroNotRequested`, that no
client asks for userId 0: without it the statements are false. `AssignUserId`
enters 0 in the map like any other id (`relay.cpp:473`), but `~Session` takes 0
to mean that there is no entry to erase (`relay.cpp:225`), so that the entry
outlives the session. The
inductive invariant `IInv` is the conjunction of `TypeOK`, `IdOwnership`,
`GarbageExactlyOnce`, `ValidMeansOpen` and `ChannelTableExact`. None is
inductive alone: that a kick queues its victim once needs the map to be exact
(`IdOwnership`), that collection leaves the map exact needs the queue to hold
exactly the invalid sessions, and that a first packet makes a session where
none was needs sockets and sessions to agree. `RegistryInvariant` states
`Spec => []IInv`; `IdOwnershipHolds`, `GarbageHolds`, `ValidHolds`,
and `ChannelTableHolds` follow. `Refinement` proves
`ImplementsDirectory`: the map's user at an id is the valid session found there,
first packets are arrivals, retirements departures, request 3 a move (or
nothing, when a client asks for its own id and thereby disconnects itself, which is a
departure), everything else a stutter, collections included.

The same module proves who receives what, under the same hypothesis. What a handler sends is
determined by the tables it reads, so `IInv` says who is in a channel, who is
valid and who a userId belongs to. It says nothing of listeners: the loops test
`listenerMode` only, the properties speak of authenticated sessions, and
`ListenersAuthenticated` joins the two. With it `BroadcastHolds`, `PrivateHolds` and `DisconnectHolds`
follow, step by step for each handler. `VariablesHold` is an action property: a channel that a
collection leaves empty had no valid session, by `ChannelTableExact` and
`GarbageExactlyOnce`, so that it does not matter whether `tmpName` finds its variables.

`Roster_proofs` proves `RosterHolds` for `RosterSpec`, which is `Relay` with what
each client has cached (`RosterSpec => Spec`, so `IInv` is there to use). Its
invariant adds that a slot without a valid session remembers nothing; a step
either keeps every roster, lets some clients learn the id of a sender, lets them
forget one, or is a reassignment, whose old id the property excepts by name.

`RelayThreads_proofs`, for any number of threads. `BaseInv` needs no hypothesis:
types, what each thread has in its hands (`InHand`: only the owner of a socket makes
a Session for it), `Settled` (a Session has its channel, or its owner is about to
find it) and `NothingLeaks` itself. The rest assumes `NoRequests`, as the run
`threads` does; with requests the properties are false (section 6, point 3).
`AloneInv` says then that each session is disconnected by its own thread only
(`Alone`), that an invalid session with an open socket is one its owner is just
disconnecting (`OpenInvalid`), and that the channel table is exact. From it follow
`RetiredOnceHolds` and `NothingPulledAwayHolds`. `RosterInv` adds that a loop that
announces a departure has passed nobody before it starts (`Fresh`), from which
`RosterSoundHolds`: while a disconnected user's loop is on its way to somebody, that
one may still remember its id.

`EventLoop_proofs`, for any number of sockets and any lengths of the two timers.
`NoStaleEventHolds` rests on
`BatchInv`: events wait only while the loop deals with its batch, or with an accept out of
it. So the deadline's pass and the timer of `close()`, which end sockets outside of their own
events, find none waiting; and in the batch a handler ends its own socket only, as
`close()` of another one leaves that one polled and alive.

`ListsHold`, `TimersHold` and `PassHolds` need more, the conjunction `LoopInv`:

* `ListInv`: each list is a `Chain`, the links of a socket in neither are `Null`.
  A chain of the sockets `M` from a head has `next` and `prev` undo each other,
  nothing in front of the head, and no part of `M` that is closed under `next` and
  has the head, other than `M`. This last conjunct is what "all are on the way from the
  head" means without counting steps. It keeps a list from closing on itself somewhere
  behind the head, which links that agree do not exclude. `LinkedChain`
  (`addWebSocket`), `UnlinkedChain` (`removeWebSocket`) and `ChainFrame` (links of
  others change) carry it through every step. From it follows
  what the property says: `Reach`, the least set that the head leads to, is the list.
* `TimerInv`: `TimersOf(timers, Wanted)`, sorted, one timer each, plus where the
  loop is in a callback. `Process` takes the first timer again after its callback
  unless that has cancelled it; so `cancelled` must be right at every place where
  a callback stops its own timer, starts others in front of it (`Inserted` puts a timer
  behind those that are due no later) or stops somebody else's. Without the conjuncts on
  `processing` and `cancelled`, the timer taken off might be another one.
* `PassInv`: the pass's own iterator is the only one, and the sockets it has not come to
  are a chain of their own from there, with the links they have in the list. A
  removal of the socket the iterator points to moves it on (`Redirect`), any other removal
  takes place behind it. That no iterator is left outside the pass is what allows
  `onEnd` elsewhere to leave them alone.

Where a timer is inserted is `UpperBound`, the least place with a later one behind it,
and what a list holds is a least set; both are defined without recursion. That such a
place exists, and that a chain never comes back to its head, is proved with the
least-number principle for sets of numbers (`LeastNatural`), which needs no operator
as a parameter and so is in the provers' reach where induction over an operator is not.

`RelayClient_proofs`, for any numbers of keys, values, peers and requests. It
assumes `DistinctIds` (no other id passes for the broadcast id in `ArrayEq`, which
does not look at the first byte) and `OwnOpcode` (applications leave opcode 200 to
the library): without either the statements are false. As nothing but its place
connects an answer with its request, the invariant says that there is a numbering of the messages on
their way (`Order`, `Counts`): the answers on their way to the client and then the
requests on theirs to the relay have, one by one, the numbers of the callbacks that
wait, each answer has a value that its request's key had since the call, and each request still on
its way is for a variable whose present value counts. `AnswersHold` and `DeparturesHold` follow.

`WriteQueue_proofs`, for every set of threads, any room and any number of
messages. `TypeCorrect` needs, besides the types, that the flush loop has a
message before it and a thread in `send()` one in its hands. `CloseIsLastHolds`
has no hypothesis on who sends: its invariant `CloseInv` numbers the messages
(the CLOSE frame's number is one no message had before) and ties `shut` to the
frame's being the last on the wire. `FifoRefinement` assumes `OneThread`, as the
run does; with two threads it is false (section 6). Its
invariant says that while the owner has a message in its hands the queue is
empty, and that a write to be repeated is always repeated with the message that
waits first: this is why a refused write never happens on an open channel.
`PollExactHolds` assumes `OneThread` too. Its invariant `PollInv` follows the poll
flag through `send()` and the loop: while the connection is usable, it is polled for room
exactly when the queue is not empty, or the owner is about to push.

`FrameParser_proofs`, for every set of streams that `IsStream` describes, of any
length and with any payloads, and every way to cut them. Its invariant
`ParserInv` consists of types, `PlaceInv` (what is spilled, or still waited for,
ends where a frame begins; what was written lies before what is to be parsed)
and `StackInv` (below the top of `opStack` there are only data messages, and a
control frame on top of it has at most 125 bytes left, parts in
`fragmentBuffer` included). `opStack` keeps to its two bits because line 112
refuses a second message inside a message unless its opcode is at least 2, and
then by `opStack == 1`; `spillLength` keeps to its four bits, and `spill` to
its 13 bytes, because a header that is there in full is never spilled.
`TypeCorrect`, `SyncHolds` and `UnmaskHolds` follow. That the frames begin where
the one before ends is the only thing assumed of the peer.

`StreamRefinement` proves `ImplementsFrameStream`. The abstract variables are
read off the parser's: `taken` is the number of frames that end at or before `src`;
`fragments` is `fragmentBuffer` without the part of the current frame's payload that
waits at its end, if a message is unfinished; its opcode is at the bottom of
`opStack`. `WholeFrame` and `RestOfFrame` are `Take`, `RefuseFrame` is `Refuse`, all
other steps stutter. The invariant `MessageInv` goes with `ParserInv`:

* between two frames (`BetweenInv`) `src` is where frame `taken + 1` begins, and
  `opStack`, `lastFin` and `fragmentBuffer` are determined by the frames so far:
  0 and not -1 in `opStack` if a message is unfinished, and its bytes, nothing else, in the buffer;
* inside a frame (`WithinInv`) that frame is legal, the buffer is the message so far
  followed by the first `came` bytes of the payload, `mask` is the frame's, rotated
  so that it fits the byte that comes next, and for a control frame
  `controlTipLength` says how much of the buffer is its own.

The lemmas under it are of three kinds. `MoreBytes` and `MaskRotated`: parts of any lengths
unmasked one after the other with a mask rotated in between are the payload unmasked
at once. `PlaceOrder` and `TakenAfter`: frames begin in their order, so that a
place in the stream determines the frames before it. `LegalIs`: what `consume` and
`consumeMessage` refuse are the frames that are not legal. Only this last one needs
the theorem's hypothesis `UnnestedStreams`, which keeps to the streams without the two
kinds of frame that the parser takes and should refuse (section 6): inside an unfinished message,
a frame with opcode 1 or 2 is refused for itself, or is a text frame right behind a
fragment. `MCFrameParser` has it as an assumption, so that TLC evaluates it for the streams of the
run. Without it the statement is false.

## 6. Where code and comments, or code and intention, differ

1. **`gc_lock_exclusion`** (`relay.cpp:252-253, 262-263`). Read and write of
   `gc_State` are apart, so a handler can enter while the collector claims the
   lock; `~Session` then runs without the exclusion its comment demands.
2. **`threads_join`** (`relay.cpp:659-670`). Two first packets for one new
   channel: the second `insert` fails and `end()` is dereferenced.
3. **`threads_retire`** (`relay.cpp:326-327, 685-688`). A session that two
   threads disconnect is queued twice and deleted twice.

More stand as exceptions in what is checked, or as hazards: userId 0 (section 5), and the
disconnect event of a kicked session, which names userId 0 because the id is
cleared first (`relay.cpp:468-470, 683`); `RosterSound` excludes the ids taken
that way by name. `tmpName`, which `~Session` uses to erase a channel's variables, is a
reference into the entry just erased and not the copy its comment speaks of
(`relay.cpp:235-238`): `FreeGarbage` lets the variables go or stay.
`WebSocket::send` is called thread safe (`WebSocket.cpp:23`), but no build compiles
its lock: with a second member of `Thread`, `WriteQueue` reaches a refused write of a
connection that works, whose message is dropped, and `ImplementsFifo` fails. A plain HTTP request leaves a response that
the relay never answers, and its socket no deadline any more (`Group.cpp:58`).
Two streams of frames that RFC 6455 forbids are taken by the parser: a binary
frame inside an unfinished message, and a data frame after a control frame
there. In `relay.js`, the cases that `RelayClient` leaves out (section 2).
`relay.module.js` cannot send requests at all: it declares `#bSendTo` and calls
`this.bSendTo`.

## 7. What is not modelled

The base64 codec and `rand64p` (pure functions on fixed sizes; only their
results matter here); message lengths and the arithmetic on them (requests 4
and 5 and `MessageSizeValid`); in `WriteQueue`, TLS renegotiation (an
`SSL_write` that wants to read), sockets without TLS, which the relay does not
open, and what two unsynchronised pushes may do to the queue's pointers; TLS
contexts, compression, header parsing and
process start; in `EventLoop`, `startAutoPing`, `transfer`, `Group::close`, which
the relay does not call, and what another thread's `close()` does to the lists and
timers; `Room`, the Asio and libuv backends, which this program does not
use; third-party libraries. tbb's containers are atomic per operation;
`unsafe_erase` racing other operations on the same container is undefined
behaviour by tbb's contract and stays a listed hazard. `onError` is registered but
uws never calls it for an accepted socket.

The map covers a small share of the lines of the repository: about 37,000 of its
43,000 lines are the vendored headers of OpenSSL, zlib, libuv and tbb under `src/include64`
(declarations, of which the relay uses a few dozen), and there is nothing in
them to model. Of the program's own code, `relay.cpp`, `relay.js` and the parts
of `src/uws` a relay runs through are modelled.

## 8. Plan

Done, in this order: `GarbageLock`, `Relay` with `Directory`, `Roster`,
`RelayThreads`, `WriteQueue` with `FifoChannel`, `FrameParser` with
`FrameStream`, `EventLoop`, `RelayClient`, and eight proof modules. What is left:

1. **Two loops**: `EventLoop` with a second thread that closes a socket of the
   first, for the hazard at `relay.cpp:470`.
2. **One lock for both**: `RelayThreads` with the lock of `GarbageLock` instead of an
   ideal one. What it would show is known (section 6, point 1); its states are many.

## 9. Running

In this directory, `tlc -config Registry.cfg MCRoster.tla` and likewise for the
other runs (`PROJECT.json` names module and configuration of each), and
`tlapm Relay_proofs.tla`, and likewise for the other proof modules. Every run ends within
about three minutes.
