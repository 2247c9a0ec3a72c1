------------------------------ MODULE Dispatcher ------------------------------
(***************************************************************************)
(* The coroutines of the node: System::Dispatcher on Linux, with Event,    *)
(* Context, ContextGroup, Timer, TcpListener and TcpConnection.  One       *)
(* context runs at a time; it gives way only in dispatch() and yield().    *)
(* Each operator takes the state of the dispatcher and returns the next    *)
(* one.  A state k is a record:                                            *)
(*   current   the context that runs, None while the thread is in          *)
(*             epoll_wait;                                                 *)
(*   resuming  the queue firstResumingContext .. lastResumingContext;      *)
(*   queued    the contexts with inExecutionQueue;                         *)
(*   flag      the contexts with interrupted;                              *)
(*   hook      the interruptProcedure of each context;                     *)
(*   thrown    the contexts whose operation was interrupted;               *)
(*   event     for each Event its state and its waiters;                   *)
(*   io        for each descriptor its ContextPair and what epoll watches; *)
(*   fired     the timers that have expired and were not read;             *)
(*   group     a ContextGroup: its contexts and its waiters;               *)
(*   remote    remoteSpawningProcedures;                                   *)
(*   lost      an epoll event met no context.                              *)
(***************************************************************************)
EXTENDS Naturals, Sequences, SequencesExt

None == <<"none", 0>>
NoHook == [kind |-> "none", on |-> None]
Hook(kind, x) == [kind |-> kind, on |-> x]

initial(contexts, events, descriptors) ==
    [current |-> None, resuming |-> <<>>, queued |-> {}, flag |-> {},
     hook |-> [c \in contexts |-> NoHook], thrown |-> {},
     event |-> [e \in events |-> [state |-> FALSE, waiters |-> <<>>]],
     io |-> [s \in descriptors |-> [armed |-> {}, in |-> None, out |-> None]],
     fired |-> {}, group |-> [contexts |-> <<>>, waiters |-> <<>>], remote |-> <<>>,
     lost |-> FALSE]
-------------------------------------------------------------------------------
pushContext(k, c) ==
    IF c \in k.queued THEN k
    ELSE [k EXCEPT !.resuming = Append(@, c), !.queued = @ \cup {c}]

dispatch(k) ==
    IF k.resuming = <<>> THEN [k EXCEPT !.current = None]
    ELSE [k EXCEPT !.current = Head(k.resuming), !.resuming = Tail(@),
                   !.queued = @ \ {Head(k.resuming)}]

Unhooked(k, c) == [k EXCEPT !.hook[c] = NoHook]
Throwing(k, c) == [k EXCEPT !.thrown = @ \cup {c}]

\* The procedure that each kind of wait leaves behind.  A timer that has
\* expired is read, and the interruption is forgotten.
interruptProcedure(k, c) ==
    LET x == k.hook[c].on
        disarmed == [k EXCEPT !.io[x].armed = {}]
    IN  CASE k.hook[c].kind = "event" ->
               pushContext(Throwing([k EXCEPT !.event[x].waiters = Remove(@, c)], c), c)
          [] k.hook[c].kind = "timer" /\ x \in k.fired ->
               pushContext([disarmed EXCEPT !.fired = @ \ {x}], c)
          [] OTHER -> pushContext(Throwing(disarmed, c), c)

interrupt(k, c) ==
    CASE c \in k.flag -> k
      [] k.hook[c] = NoHook -> [k EXCEPT !.flag = @ \cup {c}]
      [] OTHER -> Unhooked(interruptProcedure(k, c), c)

\* interrupted(): the flag is read and cleared.
interrupted(k) == k.current \in k.flag
Consumed(k) == [k EXCEPT !.flag = @ \ {k.current}]

\* An operation that was interrupted throws once.
Threw(k) == k.current \in k.thrown
Caught(k) == [k EXCEPT !.thrown = @ \ {k.current}]
-------------------------------------------------------------------------------
(* Event and Context *)

Resume(k, c) == pushContext(Unhooked(k, c), c)

set(k, e) ==
    IF k.event[e].state THEN k
    ELSE FoldLeft(Resume, [k EXCEPT !.event[e] = [state |-> TRUE, waiters |-> <<>>]],
                  k.event[e].waiters)

clear(k, e) == [k EXCEPT !.event[e].state = FALSE]

\* Event::wait on an event that is not set.
waitEvent(k, e) ==
    dispatch([k EXCEPT !.event[e].waiters = Append(@, k.current),
                       !.hook[k.current] = Hook("event", e)])
-------------------------------------------------------------------------------
(* ContextGroup *)

spawn(k, c) == pushContext([k EXCEPT !.group.contexts = Append(@, c)], c)

interruptGroup(k) == FoldLeft(interrupt, k, k.group.contexts)

waitGroup(k) ==
    IF k.group.contexts = <<>> THEN k
    ELSE dispatch([k EXCEPT !.group.waiters = Append(@, k.current)])

\* The end of contextProcedure: the last context of the group moves the
\* waiters behind the resuming contexts.
leaveGroup(k) ==
    LET left == Remove(k.group.contexts, k.current) IN
    dispatch(IF left # <<>> THEN [k EXCEPT !.group.contexts = left]
             ELSE [k EXCEPT !.group = [contexts |-> <<>>, waiters |-> <<>>],
                            !.resuming = @ \o k.group.waiters])
-------------------------------------------------------------------------------
(* Timer, TcpListener, TcpConnection: way is "in" or "out". *)

Other(way) == IF way = "in" THEN "out" ELSE "in"

\* The operation registers and gives way; epoll watches for a pending
\* operation in the other direction too.
blockOn(k, s, way, kind) ==
    dispatch([k EXCEPT
        !.io[s] = [@ EXCEPT ![way] = k.current,
                            !.armed = IF k.io[s][Other(way)] = None THEN {way}
                                      ELSE {way, Other(way)}],
        !.hook[k.current] = Hook(kind, s)])

\* It is resumed.  Only an operation that was not interrupted arms the
\* descriptor again for the other direction.
Rearmed(k, s, way) ==
    [k EXCEPT !.io[s] = [@ EXCEPT ![way] = None,
                                  !.armed = IF k.io[s][Other(way)] = None THEN @
                                            ELSE {Other(way)}]]
resumed(k, s, way) ==
    IF Threw(k) THEN [Unhooked(k, k.current) EXCEPT !.io[s][way] = None]
    ELSE Rearmed(Unhooked(k, k.current), s, way)

\* What epoll reports: the descriptor is disarmed (EPOLLONESHOT), and a writer
\* goes before a reader.
Found(k, s, ready) == LET way == IF "out" \in k.io[s].armed \cap ready THEN "out" ELSE "in"
                      IN  k.io[s][way]
Disarmed(k, s) == [k EXCEPT !.io[s].armed = {}, !.fired = @ \ {s}]

\* dispatch(): the context found runs at once.
wakeNow(k, s, ready) ==
    IF Found(k, s, ready) = None THEN [Disarmed(k, s) EXCEPT !.lost = TRUE]
    ELSE [Disarmed(k, s) EXCEPT !.current = Found(k, s, ready)]

\* yield(): the context found is queued, and can no longer be interrupted in
\* its operation.
wakeLater(k, s, ready) ==
    IF Found(k, s, ready) = None THEN [Disarmed(k, s) EXCEPT !.lost = TRUE]
    ELSE Resume(Disarmed(k, s), Found(k, s, ready))

\* remoteSpawn from another thread, and the event that brings the procedures
\* into the thread of the dispatcher.
remoteSpawn(k, c) == [k EXCEPT !.remote = Append(@, c)]
spawnRemote(k) == FoldLeft(pushContext, [k EXCEPT !.remote = <<>>], k.remote)

\* The end of yield(): the running context goes behind the ones found.
yielded(k) == IF k.resuming = <<>> THEN k ELSE dispatch(pushContext(k, k.current))
===============================================================================
