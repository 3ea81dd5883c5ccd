-------------------------------- MODULE EventLoop ------------------------------
(****************************************************************************)
(* The event loop of one worker thread and the sockets it owns              *)
(* (src/uws/Epoll.cpp: doEpoll; Epoll.h: Timer, Poll; Group.cpp and Group.h: *)
(* the two lists of sockets and forEachHttpSocket; Hub.cpp: onServerAccept; *)
(* Node.h: accept_cb; HTTPSocket.cpp: onData, onEnd; WebSocket.cpp: close,  *)
(* onEnd).                                                                  *)
(*                                                                          *)
(* A connection begins as an HttpSocket with a deadline for its request,    *)
(* becomes a WebSocket, another object, by an upgrade, and ends by onEnd:   *)
(* at once, or up to 15 seconds after close().  An object that ends is      *)
(* closed by onEnd and deleted by the next turn of the loop.                *)
(*                                                                          *)
(* Time is counted in ticks, and passes while the loop waits in epoll_wait. *)
(* A timer is known by what it is for: the socket that is closing, the      *)
(* group's list of HttpSockets, or the listen socket while accept() fails.  *)
(****************************************************************************)
EXTENDS Integers, FiniteSets, SequencesExt

CONSTANTS Object,       \* memory for sockets: an address each
          Null, Listen, HttpTimer,
          Second,       \* ticks of the timers of addHttpSocket and accept_cb
          CloseTimeout  \* ticks of the timer of close()

ASSUME EventLoopAssumption == /\ {Null, Listen, HttpTimer} \cap Object = {}
                              /\ Null # Listen /\ Null # HttpTimer /\ Listen # HttpTimer
                              /\ Second \in Nat \ {0} /\ CloseTimeout \in Nat \ {0}

VARIABLES
    kind,        \* what each object is: "free", "http", "web", "closing", "closed"
    missed,      \* missedDeadline
    outstanding, \* outstandingResponsesHead is set: a request that was no upgrade
    httpHead, webHead, next, prev, \* the lists of the group
    timers,      \* the loop's sorted timers; `in` is how long until one is due
    delay,       \* how long the loop may sleep, -1 for ever
    processing, cancelled, \* processingTimer, cancelledLastTimer
    ready,       \* readyEvents that have not been looked at
    listening,   \* the listen socket is polled, accept() is not left to a timer
    at,          \* where the loop is
    iterators,   \* the group's stack of iterators
    iterator,    \* the one of forEachHttpSocket
    visited      \* history: the sockets this pass of the deadline has come to

sockets == <<kind, missed, outstanding>>
lists == <<httpHead, webHead, next, prev>>
clock == <<timers, delay>>
pass == <<iterators, iterator, visited>>
vars == <<sockets, lists, clock, processing, cancelled, ready, listening, at, pass>>

Is(k) == {o \in Object : kind[o] = k}
Open == Is("http") \cup Is("web") \cup Is("closing")

Init == /\ kind = [o \in Object |-> "free"]
        /\ missed = [o \in Object |-> FALSE]
        /\ outstanding = [o \in Object |-> FALSE]
        /\ httpHead = Null /\ webHead = Null
        /\ next = [o \in Object |-> Null] /\ prev = [o \in Object |-> Null]
        /\ timers = <<>> /\ delay = -1
        /\ processing = Null /\ cancelled = FALSE
        /\ ready = {} /\ listening = TRUE /\ at = "reap"
        /\ iterators = <<>> /\ iterator = Null /\ visited = {}

-----------------------------------------------------------------------------
(* Timer::start and Timer::stop.                                            *)

\* How many timers are due no later: what std::upper_bound finds in a sorted vector.
UpperBound(ts, in) ==
    CHOOSE n \in 0 .. Len(ts) : \A i \in DOMAIN ts : ts[i].in <= in <=> i <= n

Inserted(ts, timer, in, repeat) ==
    InsertAt(ts, UpperBound(ts, in) + 1, [timer |-> timer, in |-> in, repeat |-> repeat])

Erased(ts, timer) == IF \E i \in DOMAIN ts : ts[i].timer = timer
                     THEN RemoveAt(ts, CHOOSE i \in DOMAIN ts : ts[i].timer = timer)
                     ELSE ts

NextDelay(ts) == IF ts = <<>> THEN -1 ELSE IF ts[1].in > 0 THEN ts[1].in ELSE 0

SetTimers(ts) == timers' = ts /\ delay' = NextDelay(ts)

Start(timer, in, repeat) == SetTimers(Inserted(timers, timer, in, repeat))

Stop(timer) == /\ SetTimers(Erased(timers, timer))
               /\ cancelled' = (cancelled \/ processing = timer)

-----------------------------------------------------------------------------
(* addHttpSocket, addWebSocket, removeHttpSocket, removeWebSocket.          *)

\* A list with o in front, and without it.  The links of a socket that is in no list
\* are read by nobody, and are Null here.
Linked(l, o) == [head |-> o,
                 next |-> [l.next EXCEPT ![o] = l.head],
                 prev |-> [p \in Object |-> IF p = l.head THEN o ELSE l.prev[p]]]

\* Fault: the successor still points back to the socket that is removed.
Unlinked_OneWay(l, o) ==
    [head |-> IF l.prev[o] = Null THEN l.next[o] ELSE l.head,
     next |-> [x \in Object |-> IF x = o THEN Null
                                ELSE IF x = l.prev[o] THEN l.next[o] ELSE l.next[x]],
     prev |-> [l.prev EXCEPT ![o] = Null]]

Unlinked(l, o) ==
    LET n == l.next[o]
        p == l.prev[o]
    IN [head |-> IF n = p THEN Null ELSE IF p = Null THEN n ELSE l.head,
        next |-> [x \in Object |-> IF x = o THEN Null ELSE IF x = p THEN n ELSE l.next[x]],
        prev |-> [x \in Object |-> IF x = o THEN Null ELSE IF x = n THEN p ELSE l.prev[x]]]

HttpList == [head |-> httpHead, next |-> next, prev |-> prev]
WebList == [head |-> webHead, next |-> next, prev |-> prev]

SetLinks(l) == next' = l.next /\ prev' = l.prev

\* An iteration that is under way goes on with the successor of what is removed.
Redirect(o) == iterators' = IF iterators = <<>> THEN <<>>
                            ELSE [iterators EXCEPT ![Len(iterators)] = next[o]]

\* The timer goes with the last HttpSocket, even out of its own callback.
RemoveHttpSocket(o) ==
    LET l == Unlinked(HttpList, o) IN
    /\ httpHead' = l.head /\ SetLinks(l) /\ UNCHANGED webHead
    /\ Redirect(o)
    /\ IF l.head = Null THEN Stop(HttpTimer) ELSE UNCHANGED <<clock, cancelled>>

RemoveWebSocket(o) ==
    LET l == Unlinked(WebList, o) IN
    /\ webHead' = l.head /\ SetLinks(l) /\ UNCHANGED httpHead
    /\ Redirect(o)

-----------------------------------------------------------------------------
(* What the callbacks of the sockets do.                                    *)

HttpEnd(o) == /\ RemoveHttpSocket(o)
              /\ kind' = [kind EXCEPT ![o] = "closed"]
              /\ missed' = [missed EXCEPT ![o] = FALSE]
              /\ outstanding' = [outstanding EXCEPT ![o] = FALSE]

\* Fault: the timer of close() is left running.
WebEnd_TimerRuns(o) ==
    /\ IF kind[o] = "closing" THEN UNCHANGED <<lists, iterators>> ELSE RemoveWebSocket(o)
    /\ kind' = [kind EXCEPT ![o] = "closed"]
    /\ UNCHANGED <<clock, cancelled, missed, outstanding>>

\* WebSocket::onEnd
WebEnd(o) ==
    /\ IF kind[o] = "closing" THEN Stop(o) /\ UNCHANGED <<lists, iterators>>
       ELSE RemoveWebSocket(o) /\ UNCHANGED <<clock, cancelled>>
    /\ kind' = [kind EXCEPT ![o] = "closed"]
    /\ UNCHANGED <<missed, outstanding>>

\* Fault: the socket is terminated, as if its own event were under way.
Close_Terminates(o) == WebEnd(o)

\* WebSocket::close
Close(o) == /\ RemoveWebSocket(o)
            /\ kind' = [kind EXCEPT ![o] = "closing"]
            /\ Start(o, CloseTimeout, 0)
            /\ UNCHANGED <<missed, outstanding, cancelled>>

\* The callback of poll p is called.
Event(p) == /\ at = "events" /\ p \in ready
            /\ ready' = ready \ {p}
            /\ UNCHANGED <<processing, iterator, visited>>

\* accept_cb goes on until accept() has no more, out of poll or of its timer.
Accept(o) ==
    /\ \/ at = "events" /\ Listen \in ready
       \/ at \in {"accept", "retry"}
    /\ at' = "accept"
    /\ kind[o] = "free" /\ kind' = [kind EXCEPT ![o] = "http"]
    /\ missed' = [missed EXCEPT ![o] = FALSE]
    /\ outstanding' = [outstanding EXCEPT ![o] = FALSE]
    /\ LET l == Linked(HttpList, o) IN httpHead' = l.head /\ SetLinks(l)
    /\ IF httpHead = Null THEN Start(HttpTimer, Second, Second) ELSE UNCHANGED clock
    /\ UNCHANGED <<webHead, processing, cancelled, ready, listening, pass>>

NoMore == /\ at = "accept"
          /\ at' = IF Listen \in ready THEN "events" ELSE "return"
          /\ ready' = ready \ {Listen}
          /\ UNCHANGED <<sockets, lists, clock, processing, cancelled, listening, pass>>

\* Nobody is there any more, or accept() fails and is tried again by a timer.
AcceptFails == /\ Event(Listen)
               /\ \/ UNCHANGED <<clock, listening>>
                  \/ listening' = FALSE /\ Start(Listen, Second, Second)
               /\ UNCHANGED <<sockets, lists, cancelled, at, iterators>>

\* A request that is complete but no upgrade; the relay never answers it.
Request(o) == /\ Event(o) /\ kind[o] = "http"
              /\ missed' = [missed EXCEPT ![o] = FALSE]
              /\ outstanding' = [outstanding EXCEPT ![o] = TRUE]
              /\ UNCHANGED <<kind, lists, clock, cancelled, listening, at, iterators>>

\* The WebSocket is a new object w; the HttpSocket is deleted at once.
Upgrade(o, w) ==
    /\ Event(o) /\ kind[o] = "http" /\ kind[w] = "free"
    /\ LET h == Unlinked(HttpList, o)
           l == Linked([h EXCEPT !.head = webHead], w)
       IN /\ httpHead' = h.head /\ webHead' = w
          /\ SetLinks(l)
          /\ IF h.head = Null THEN Stop(HttpTimer) ELSE UNCHANGED <<clock, cancelled>>
    /\ Redirect(o)
    /\ kind' = [kind EXCEPT ![o] = "free", ![w] = "web"]
    /\ missed' = [missed EXCEPT ![o] = FALSE]
    /\ outstanding' = [outstanding EXCEPT ![o] = FALSE]
    /\ UNCHANGED <<listening, at>>

\* The peer hangs up, the connection fails, or what it sent is refused.
Ends(o) == /\ Event(o)
           /\ \/ kind[o] = "http" /\ HttpEnd(o)
              \/ kind[o] \in {"web", "closing"} /\ WebEnd(o)
           /\ UNCHANGED <<listening, at>>

\* A handler of the relay closes its own socket, or one it takes the userId from.
Closes(o, p) == /\ Event(o)
                /\ kind[o] = "web" /\ kind[p] = "web"
                /\ Close(p)
                /\ UNCHANGED <<listening, at>>

\* A part of a request, a message, or the peer's answer to a CLOSE frame.
Data(o) == /\ Event(o) /\ kind[o] \in {"http", "web", "closing"}
           /\ UNCHANGED <<sockets, lists, clock, cancelled, listening, at, iterators>>

Callback == \/ \E o \in Object : Accept(o) \/ Request(o) \/ Ends(o) \/ Data(o)
            \/ \E o, p \in Object : Upgrade(o, p) \/ Closes(o, p)
            \/ NoMore \/ AcceptFails

-----------------------------------------------------------------------------
(* doEpoll.                                                                 *)

\* What was closed in the last turn is deleted.
Reap == /\ at = "reap" /\ at' = "wait"
        /\ kind' = [o \in Object |-> IF kind[o] = "closed" THEN "free" ELSE kind[o]]
        /\ UNCHANGED <<missed, outstanding, lists, clock, processing, cancelled,
                       ready, listening, pass>>

\* A timer that is past due stays so; how long it is does not matter.
Later(ticks) == [i \in DOMAIN timers |->
                    [timers[i] EXCEPT !.in = IF @ - ticks < -1 THEN -1 ELSE @ - ticks]]

\* epoll_wait returns with what is ready, or with nothing after `delay`.
Wait(ticks) == /\ at = "wait" /\ at' = "events"
               /\ ready' \in SUBSET (Open \cup {p \in {Listen} : listening})
               /\ ready' = {} => delay >= 0 /\ ticks >= delay
               /\ timers' = Later(ticks)
               /\ UNCHANGED <<sockets, lists, delay, processing, cancelled, listening, pass>>

EventsDone == /\ at = "events" /\ ready = {}
              /\ at' = "timers"
              /\ UNCHANGED <<sockets, lists, clock, processing, cancelled,
                             ready, listening, pass>>

Due == timers # <<>> /\ timers[1].in < 0

\* No timer is due, at once ("timers") or any more ("more").
NoneDue == /\ at \in {"timers", "more"} /\ ~Due
           /\ delay' = IF at = "timers" /\ timers # <<>> THEN NextDelay(timers) ELSE delay
           /\ at' = "reap"
           /\ UNCHANGED <<sockets, lists, timers, processing, cancelled,
                          ready, listening, pass>>

Process == /\ at \in {"timers", "more"} /\ Due
           /\ processing' = timers[1].timer
           /\ UNCHANGED ready

\* The callback of startTimeout: cancelTimeout, then onEnd.
CloseTimer == /\ Process
              /\ timers[1].timer \in Object
              /\ LET o == timers[1].timer IN
                 /\ SetTimers(Erased(timers, o))
                 /\ cancelled' = TRUE
                 /\ kind' = [kind EXCEPT ![o] = "closed"]
              /\ at' = "return"
              /\ UNCHANGED <<missed, outstanding, lists, listening, pass>>

\* The callback of addHttpSocket's timer: forEachHttpSocket.
DeadlineTimer == /\ Process
                 /\ timers[1].timer = HttpTimer
                 /\ cancelled' = FALSE
                 /\ iterators' = Append(iterators, httpHead)
                 /\ iterator' = httpHead
                 /\ visited' = {}
                 /\ at' = "pass"
                 /\ UNCHANGED <<sockets, lists, clock, listening>>

\* The callback of accept_cb's timer: accept() fails again, or it has a connection and the
\* listen socket is polled from now on.
AcceptTimer == /\ Process
               /\ timers[1].timer = Listen
               /\ \/ /\ at' = "return" /\ cancelled' = FALSE
                     /\ UNCHANGED <<clock, listening>>
                  \/ /\ \E o \in Object : kind[o] = "free"
                     /\ at' = "retry" /\ cancelled' = TRUE
                     /\ SetTimers(Erased(timers, Listen))
                     /\ listening' = TRUE
               /\ UNCHANGED <<sockets, lists, pass>>

\* Fault: the iterator, moved on by the removal, is moved on once more.
Advance_Twice(o) == LET top == iterators'[Len(iterators')] IN
                    iterator' = IF top = Null THEN Null ELSE next[top]

\* The loop looks at the top of the stack again after the callback.
Advance(o) == LET top == iterators'[Len(iterators')] IN
              iterator' = IF top = o THEN next'[o] ELSE top

Missed(o) == /\ missed[o]
             /\ HttpEnd(o)
             /\ Advance(o)

\* Fault: the deadline is not remembered until the next pass.
Spare_Forgets(o) == /\ ~missed[o]
                    /\ iterator' = next[o]
                    /\ iterators' = [iterators EXCEPT ![Len(iterators)] = next[o]]
                    /\ UNCHANGED <<sockets, lists, clock, cancelled>>

Spare(o) == /\ ~missed[o]
            /\ missed' = [missed EXCEPT ![o] = ~outstanding[o]]
            /\ iterator' = next[o]
            /\ iterators' = [iterators EXCEPT ![Len(iterators)] = next[o]]
            /\ UNCHANGED <<kind, outstanding, lists, clock, cancelled>>

Visit == /\ at = "pass" /\ iterator # Null
         /\ (Missed(iterator) \/ Spare(iterator))
         /\ visited' = visited \cup {iterator}
         /\ UNCHANGED <<at, processing, ready, listening>>

PassDone == /\ at = "pass" /\ iterator = Null
            /\ iterators' = SubSeq(iterators, 1, Len(iterators) - 1)
            /\ visited' = {}
            /\ at' = "return"
            /\ UNCHANGED <<sockets, lists, clock, processing, cancelled,
                           ready, listening, iterator>>

\* A timer that was not stopped by its callback is erased, and started again if it
\* repeats.  The loop takes it to be the first one still.  Nothing reads processingTimer
\* and cancelledLastTimer until the next callback of a timer sets them.
Return == /\ at = "return" /\ at' = "more"
          /\ IF cancelled THEN UNCHANGED clock
             ELSE LET t == timers[1] IN
                  IF t.repeat = 0 THEN timers' = Tail(timers) /\ UNCHANGED delay
                  ELSE SetTimers(Inserted(Tail(timers), processing, t.repeat, t.repeat))
          /\ processing' = Null /\ cancelled' = FALSE
          /\ UNCHANGED <<sockets, lists, ready, listening, pass>>

MaxTicks == IF Second > CloseTimeout THEN Second ELSE CloseTimeout

Turn == \/ Reap \/ EventsDone \/ NoneDue \/ CloseTimer \/ DeadlineTimer \/ AcceptTimer
        \/ Visit \/ PassDone \/ Return

Next == Turn \/ Callback \/ \E ticks \in 0 .. MaxTicks : Wait(ticks)

Spec == Init /\ [][Next]_vars

\* The loop runs on, and time does: not every wait is over within the same tick.
FairSpec == Spec /\ WF_vars(Next) /\ SF_vars(\E ticks \in 1 .. MaxTicks : Wait(ticks))

-----------------------------------------------------------------------------
(* Properties.                                                              *)

\* The sockets that a walk along `next` comes to: those in every set that holds the
\* first one, and with a socket the one behind it.
Walk(S, head) == /\ head \in Object => head \in S
                 /\ \A o \in S : next[o] \in Object => next[o] \in S

Reach(head) == {o \in Object : \A S \in SUBSET Object : Walk(S, head) => o \in S}

\* Each list of the group holds the sockets of its kind and no other, linked both ways.
IsList(head, k) ==
    /\ Reach(head) = Is(k)
    /\ head # Null => prev[head] = Null
    /\ \A o \in Is(k) : next[o] # Null => prev[next[o]] = o

ListsExact == IsList(httpHead, "http") /\ IsList(webHead, "web")

\* The timers that should run: one for each closing socket, one for all HttpSockets.
Wanted == Is("closing") \cup {t \in {HttpTimer} : httpHead # Null}
                        \cup {t \in {Listen} : ~listening}

\* Whatever callbacks start and stop, out of a timer of their own or not, just these
\* timers run, each once, the earliest first, and the loop does not sleep past it.
TimersExact == /\ {timers[i].timer : i \in DOMAIN timers} = Wanted
               /\ Len(timers) = Cardinality(Wanted)
               /\ \A i, j \in DOMAIN timers : i < j => timers[i].in <= timers[j].in
               /\ at = "wait" => delay = NextDelay(timers)

\* No event is handed to a socket that onEnd has closed, or to memory that is free.
NoStaleEvent == \A o \in ready : o # Listen => kind[o] \in {"http", "web", "closing"}

\* The pass of the deadline comes to every HttpSocket once, those it ends included, and
\* only during the pass is there an iterator for a removal to move on.
PassExact == IF at = "pass" THEN /\ Reach(iterator) = Is("http") \ visited
                                 /\ iterators = <<iterator>>
             ELSE iterators = <<>>

\* A connection that makes no request, and one that is closing, do not stay, whatever
\* else the peer sends or leaves out.
SocketsEnd == \A o \in Object :
    /\ kind[o] = "http" /\ ~outstanding[o] ~> kind[o] # "http" \/ outstanding[o]
    /\ kind[o] = "closing" ~> kind[o] # "closing"

=============================================================================
