-------------------------- MODULE NodeServerContexts --------------------------
(***************************************************************************)
(* The contexts of NodeServer over one dispatcher: run() and the loops it  *)
(* spawns, and for each incoming connection the connection handler, its    *)
(* inner context and the write handler.  The peers, the clock and the      *)
(* thread that sends the stop signal are the environment.                  *)
(***************************************************************************)
EXTENDS Dispatcher, FiniteSets, FiniteSetsExt

CONSTANTS Connections,  \* the connections that may come in
          MaxCommands,  \* commands a peer sends on one connection
          MaxMessages,  \* P2P_CONNECTION_MAX_WRITE_BUFFER_SIZE, in messages
          Loops,        \* which of the loops of run() are present
          MaxBlocks     \* blocks a command may bring

VARIABLES
    k,            \* the dispatcher
    pc,           \* where each context is
    m_stop,
    m_connections,
    ctx,          \* P2pConnectionContext of each connection
    net           \* the sockets as the kernel sees them

vars == <<k, pc, m_stop, m_connections, ctx, net>>

Main == <<"run", 0>>
Stopper == <<"stopper", 0>>
Outer(c) == <<"connectionHandler", c>>
Inner(c) == <<"inner", c>>
Writer(c) == <<"writeHandler", c>>
Loop(name) == <<name, 0>>
Contexts == {Main, Stopper} \cup {Loop(name) : name \in Loops}
              \cup UNION {{Outer(c), Inner(c), Writer(c)} : c \in Connections}

StopEvent == <<"m_stopEvent", 0>>
QueueEvent(c) == <<"queueEvent", c>>
InnerReady(c) == <<"ready of inner", c>>
WriterReady(c) == <<"ready of writeContext", c>>
Events == {StopEvent} \cup UNION {{QueueEvent(c), InnerReady(c), WriterReady(c)} : c \in Connections}

Listener == <<"m_listener", 0>>
Socket(c) == <<"connection", c>>
TimerOf(name) == <<name, 0>>
Timers == {TimerOf(name) : name \in Loops \ {"acceptLoop"}}
Descriptors == {Listener} \cup Timers \cup {Socket(c) : c \in Connections}

\* What epoll finds on a descriptor.
Ready(s) ==
    CASE s = Listener -> IF net.pending # {} THEN {"in"} ELSE {}
      [] s \in Timers -> IF s \in k.fired THEN {"in"} ELSE {}
      [] OTHER -> LET c == s[2] IN
                  (IF net.incoming[c] > 0 \/ c \in net.closed THEN {"in"} ELSE {})
                    \cup (IF c \notin net.full \/ c \in net.closed THEN {"out"} ELSE {})
Reported(s) == k.io[s].armed \cap Ready(s)

Init ==
    /\ k = [initial(Contexts, Events, Descriptors) EXCEPT !.current = Main]
    /\ pc = [x \in Contexts |-> "start"]
    /\ m_stop = FALSE
    /\ m_connections = {}
    /\ ctx = [c \in Connections |->
                [context |-> FALSE, stopped |-> FALSE, peerId |-> FALSE,
                 writeQueue |-> 0, msgs |-> 0, writing |-> FALSE, blocks |-> 0]]
    /\ net = [pending |-> {}, seen |-> {}, closed |-> {}, full |-> {},
              incoming |-> [c \in Connections |-> 0], received |-> [c \in Connections |-> 0]]

Running(x, label) == k.current = x /\ pc[x] = label
Goto(label) == pc' = [pc EXCEPT ![k.current] = label]
-------------------------------------------------------------------------------
(* P2pConnectionContext.  State is passed as a pair of the dispatcher and  *)
(* ctx, since a message may be pushed to several connections in one step.  *)

\* Variant: the context is not interrupted.
interruptConnectionQueueOnly(w, c) ==
    [kk |-> set(w.kk, QueueEvent(c)), cc |-> [w.cc EXCEPT ![c].stopped = TRUE]]

interruptConnection(w, c) ==
    [kk |-> interrupt(set(w.kk, QueueEvent(c)), Inner(c)),
     cc |-> [w.cc EXCEPT ![c].stopped = TRUE]]

pushMessage(w, c) ==
    IF w.cc[c].writeQueue >= MaxMessages THEN interruptConnection(w, c)
    ELSE [kk |-> set(w.kk, QueueEvent(c)), cc |-> [w.cc EXCEPT ![c].writeQueue = @ + 1]]

Whole == [kk |-> k, cc |-> ctx]
ToAll(w, cs) == FoldLeft(pushMessage, w, SetToSeq(cs))
InterruptAll(w, cs) == FoldLeft(interruptConnection, w, SetToSeq(cs))
-------------------------------------------------------------------------------
(* run() *)

\* The loops are spawned; run() waits for the stop event.
run ==
    /\ Running(Main, "start")
    /\ k' = waitEvent(FoldLeft(spawn, k, SelectSeq(
                <<Loop("acceptLoop"), Loop("timedSyncLoop"), Loop("timeoutLoop")>>,
                LAMBDA x : x \in Contexts)), StopEvent)
    /\ Goto("waiting for stop")
    /\ UNCHANGED <<m_stop, m_connections, ctx, net>>

\* The stop event is set: the group is interrupted and awaited.
runStops ==
    /\ Running(Main, "waiting for stop")
    /\ k' = waitGroup(interruptGroup(k))
    /\ Goto("waiting for group")
    /\ UNCHANGED <<m_stop, m_connections, ctx, net>>

runReturns ==
    /\ Running(Main, "waiting for group")
    /\ k' = [k EXCEPT !.current = None]
    /\ Goto("done")
    /\ UNCHANGED <<m_stop, m_connections, ctx, net>>

\* The procedure of sendStopSignal, in the dispatcher's thread.
stopSignalled ==
    /\ Running(Stopper, "start")
    /\ k' = dispatch(set(k, StopEvent))
    /\ Goto("done")
    /\ UNCHANGED <<m_stop, m_connections, ctx, net>>
-------------------------------------------------------------------------------
(* The loops *)

Finish(kk) == k' = leaveGroup(kk) /\ Goto("done")

acceptStart ==
    /\ Running(Loop("acceptLoop"), "start")
    /\ IF m_stop \/ interrupted(k) THEN Finish(k)
       ELSE k' = blockOn(k, Listener, "in", "accept") /\ Goto("accepting")
    /\ UNCHANGED <<m_stop, m_connections, ctx, net>>

acceptReturns ==
    /\ Running(Loop("acceptLoop"), "accepting")
    /\ IF Threw(k)
       THEN Finish(Caught(resumed(k, Listener, "in"))) /\ UNCHANGED <<m_connections, net>>
       ELSE \E c \in net.pending :
              /\ net' = [net EXCEPT !.pending = @ \ {c}]
              /\ m_connections' = m_connections \cup {c}
              /\ k' = spawn(resumed(k, Listener, "in"), Outer(c))
              /\ Goto("start")
    /\ UNCHANGED <<m_stop, ctx>>

\* Timer::sleep at the head of timeoutLoop and of timedSyncLoop; only the
\* first looks at m_stop.
sleepStart(name) ==
    /\ Running(Loop(name), "start")
    /\ IF interrupted(k) \/ (name = "timeoutLoop" /\ m_stop) THEN Finish(Consumed(k))
       ELSE /\ k' = blockOn([k EXCEPT !.fired = @ \ {TimerOf(name)}], TimerOf(name), "in", "timer")
            /\ Goto("sleeping")
    /\ UNCHANGED <<m_stop, m_connections, ctx, net>>

\* The body of the loop: any connection with a write in progress may have
\* been in it for too long.
sleepReturns(name) ==
    LET kk == Caught(resumed(k, TimerOf(name), "in")) IN
    /\ Running(Loop(name), "sleeping")
    /\ IF Threw(k) THEN Finish(kk) /\ UNCHANGED ctx
       ELSE \E late \in SUBSET {c \in m_connections : ctx[c].writing} :
              LET w == IF name = "timeoutLoop" THEN InterruptAll([Whole EXCEPT !.kk = kk], late)
                       ELSE ToAll([Whole EXCEPT !.kk = kk],
                                  {c \in m_connections : ctx[c].peerId})
              IN  k' = w.kk /\ ctx' = w.cc /\ Goto("start")
    /\ UNCHANGED <<m_stop, m_connections, net>>
-------------------------------------------------------------------------------
(* connectionHandler and its inner context *)


\* Context::wait for the context x: an interruption of the waiter is passed on
\* to x, and the wait goes on.  After is where the waiter goes when x is ready.
Join(kk, x, ready, after) ==
    LET passed == IF Threw(kk) \/ interrupted(kk)
                  THEN interrupt(Consumed(Caught(kk)), x) ELSE kk
    IN  IF kk.event[ready].state THEN k' = passed /\ Goto(after)
        ELSE k' = waitEvent(passed, ready) /\ UNCHANGED pc

handlerStart(c) ==
    /\ Running(Outer(c), "start")
    /\ k' = pushContext(k, Inner(c))
    /\ ctx' = [ctx EXCEPT ![c].context = TRUE]
    /\ Goto("joining")
    /\ UNCHANGED <<m_stop, m_connections, net>>

handlerJoins(c) ==
    /\ Running(Outer(c), "joining")
    /\ Join(k, Inner(c), InnerReady(c), "ready")
    /\ UNCHANGED <<m_stop, m_connections, ctx, net>>

handlerEnds(c) ==
    /\ Running(Outer(c), "ready")
    /\ Finish(k)
    /\ UNCHANGED <<m_stop, m_connections, ctx, net>>

innerStart(c) ==
    /\ Running(Inner(c), "start")
    /\ k' = pushContext(k, Writer(c))
    /\ Goto("reading")
    /\ UNCHANGED <<m_stop, m_connections, ctx, net>>

\* recv: a command, the end of the stream, or nothing yet.
Receive(c, kk) ==
    IF net.incoming[c] > 0
    THEN k' = kk /\ net' = [net EXCEPT !.incoming[c] = @ - 1] /\ Goto("handling")
    ELSE k' = kk /\ UNCHANGED net /\ Goto("ending")

readCommand(c) ==
    /\ Running(Inner(c), "reading")
    /\ CASE interrupted(k) -> k' = Consumed(k) /\ Goto("ending") /\ UNCHANGED net
         [] ~interrupted(k) /\ "in" \in Ready(Socket(c)) -> Receive(c, k)
         [] OTHER -> k' = blockOn(k, Socket(c), "in", "read") /\ Goto("receiving") /\ UNCHANGED net
    /\ UNCHANGED <<m_stop, m_connections, ctx>>

readReturns(c) ==
    LET kk == resumed(k, Socket(c), "in") IN
    /\ Running(Inner(c), "receiving")
    /\ IF Threw(k) THEN k' = Caught(kk) /\ Goto("ending") /\ UNCHANGED net
       ELSE Receive(c, kk)
    /\ UNCHANGED <<m_stop, m_connections, ctx>>

\* handleCommand.  The first command is the handshake; it is answered.  Later
\* ones may be answered, relayed to the other peers, close the connection, or
\* process blocks.
reply(c) ==
    /\ Running(Inner(c), "handling")
    /\ LET w == pushMessage([Whole EXCEPT !.cc[c].peerId = TRUE], c) IN k' = w.kk /\ ctx' = w.cc
    /\ Goto("reading") \/ Goto("ending")
    /\ UNCHANGED <<m_stop, m_connections, net>>

relay_notify_to_all(c) ==
    /\ Running(Inner(c), "handling")
    /\ ctx[c].peerId
    /\ LET w == ToAll(Whole, {d \in m_connections \ {c} : ctx[d].peerId})
       IN  k' = w.kk /\ ctx' = w.cc
    /\ Goto("reading")
    /\ UNCHANGED <<m_stop, m_connections, net>>

shutdown(c) ==
    /\ Running(Inner(c), "handling")
    /\ Goto("ending")
    /\ UNCHANGED <<k, m_stop, m_connections, ctx, net>>

\* processObjects adds block after block and yields after each one, until the
\* stop signal has reached the payload handler.
processObjects(c) ==
    /\ Running(Inner(c), "handling")
    /\ ctx[c].peerId
    /\ IF k.event[StopEvent].state THEN Goto("reading") /\ UNCHANGED ctx
       ELSE /\ \E n \in 1 .. MaxBlocks : ctx' = [ctx EXCEPT ![c].blocks = n]
            /\ Goto("yielding")
    /\ UNCHANGED <<k, m_stop, m_connections, net>>

\* yield() takes the events one by one until there is none.
yieldPolls(c) ==
    /\ Running(Inner(c), "yielding")
    /\ \/ \E s \in Descriptors : Reported(s) # {} /\ k' = wakeLater(k, s, Ready(s))
       \/ k.remote # <<>> /\ k' = spawnRemote(k)
    /\ UNCHANGED <<pc, m_stop, m_connections, ctx, net>>

yieldEnds(c) ==
    /\ Running(Inner(c), "yielding")
    /\ k.remote = <<>>
    /\ \A s \in Descriptors : Reported(s) = {}
    /\ k' = yielded(k)
    /\ Goto("yielded")
    /\ UNCHANGED <<m_stop, m_connections, ctx, net>>


nextBlock(c) ==
    /\ Running(Inner(c), "yielded")
    /\ IF ctx[c].blocks > 1 /\ ~k.event[StopEvent].state
       THEN Goto("yielding") /\ ctx' = [ctx EXCEPT ![c].blocks = @ - 1]
       ELSE Goto("reading") /\ ctx' = [ctx EXCEPT ![c].blocks = 0]
    /\ UNCHANGED <<k, m_stop, m_connections, net>>

\* The connection and its writer are interrupted, and the writer is awaited.
innerEnds(c) ==
    /\ Running(Inner(c), "ending")
    /\ LET w == interruptConnection(Whole, c)
       IN  k' = interrupt(w.kk, Writer(c)) /\ ctx' = w.cc
    /\ Goto("joining")
    /\ UNCHANGED <<m_stop, m_connections, net>>

\* Variant: the writer is not awaited.
innerLeavesWriter(c) ==
    /\ Running(Inner(c), "joining")
    /\ k' = Consumed(Caught(k)) /\ Goto("ready")
    /\ UNCHANGED <<m_stop, m_connections, ctx, net>>

innerJoins(c) ==
    /\ Running(Inner(c), "joining")
    /\ Join(k, Writer(c), WriterReady(c), "ready")
    /\ UNCHANGED <<m_stop, m_connections, ctx, net>>

\* The connection is erased; its socket is closed with it.
eraseConnection(c) ==
    /\ Running(Inner(c), "ready")
    /\ m_connections' = m_connections \ {c}
    /\ k' = dispatch(set([k EXCEPT !.io[Socket(c)].armed = {}], InnerReady(c)))
    /\ Goto("done")
    /\ UNCHANGED <<m_stop, ctx, net>>
-------------------------------------------------------------------------------
(* writeHandler *)

WriterEnds(kk, c) == k' = dispatch(set(kk, WriterReady(c))) /\ Goto("done")

\* popBuffer, from the test of its loop on.  While the queue is empty and the
\* connection is not stopped it waits, even when the event is set.
PopLoop(kk, c) ==
    IF ctx[c].writeQueue = 0 /\ ~ctx[c].stopped
    THEN /\ ctx' = [ctx EXCEPT ![c].writing = FALSE]
         /\ CASE Threw(kk) \/ interrupted(kk) -> WriterEnds(Consumed(Caught(kk)), c)
              [] kk.event[QueueEvent(c)].state /\ ~interrupted(kk) -> k' = kk /\ Goto("popping")
              [] OTHER -> k' = waitEvent(kk, QueueEvent(c)) /\ Goto("popping")
    ELSE IF Threw(kk) THEN WriterEnds(Caught(kk), c) /\ UNCHANGED ctx
    ELSE /\ ctx' = [ctx EXCEPT ![c] = [@ EXCEPT !.msgs = ctx[c].writeQueue, !.writeQueue = 0,
                                               !.writing = TRUE]]
         /\ IF ctx[c].writeQueue = 0 THEN WriterEnds(clear(kk, QueueEvent(c)), c)
            ELSE k' = clear(kk, QueueEvent(c)) /\ Goto("sending")

popBuffer(c) ==
    /\ Running(Writer(c), "start") \/ Running(Writer(c), "popping")
    /\ PopLoop(k, c)
    /\ UNCHANGED <<m_stop, m_connections, net>>

\* send: the kernel takes the message, after which its buffer may be full, or
\* the peer is gone and the connection is interrupted.
Send(kk, c) ==
    IF c \in net.closed
    THEN LET w == interruptConnection([Whole EXCEPT !.kk = kk], c)
         IN  WriterEnds(w.kk, c) /\ ctx' = w.cc /\ UNCHANGED net
    ELSE /\ k' = kk
         /\ ctx' = [ctx EXCEPT ![c].msgs = @ - 1]
         /\ net' \in {net, [net EXCEPT !.full = @ \cup {c}]}
         /\ Goto(IF ctx[c].msgs = 1 THEN "start" ELSE "sending")

sendMessage(c) ==
    /\ Running(Writer(c), "sending")
    /\ CASE interrupted(k) -> WriterEnds(Consumed(k), c) /\ UNCHANGED <<ctx, net>>
         [] ~interrupted(k) /\ "out" \in Ready(Socket(c)) -> Send(k, c)
         [] OTHER -> /\ k' = blockOn(k, Socket(c), "out", "write")
                     /\ Goto("blocked") /\ UNCHANGED <<ctx, net>>
    /\ UNCHANGED <<m_stop, m_connections>>

writeReturns(c) ==
    LET kk == resumed(k, Socket(c), "out") IN
    /\ Running(Writer(c), "blocked")
    /\ IF Threw(k) THEN WriterEnds(Caught(kk), c) /\ UNCHANGED <<ctx, net>>
       ELSE Send(kk, c)
    /\ UNCHANGED <<m_stop, m_connections>>
-------------------------------------------------------------------------------
(* epoll_wait in dispatch(), and the environment *)

epollWakes(s) ==
    /\ k.current = None /\ pc[Main] # "done"
    /\ Reported(s) # {}
    /\ k' = wakeNow(k, s, Ready(s))
    /\ UNCHANGED <<pc, m_stop, m_connections, ctx, net>>

epollSpawns ==
    /\ k.current = None /\ pc[Main] # "done"
    /\ k.remote # <<>>
    /\ k' = dispatch(spawnRemote(k))
    /\ UNCHANGED <<pc, m_stop, m_connections, ctx, net>>

sendStopSignal ==
    /\ ~m_stop
    /\ m_stop' = TRUE
    /\ k' = remoteSpawn(k, Stopper)
    /\ UNCHANGED <<pc, m_connections, ctx, net>>

timerExpires(s) ==
    /\ k.io[s].armed # {} /\ s \notin k.fired
    /\ k' = [k EXCEPT !.fired = @ \cup {s}]
    /\ UNCHANGED <<pc, m_stop, m_connections, ctx, net>>

Peer(c) ==
    /\ \/ c \notin net.seen /\ net' = [net EXCEPT !.pending = @ \cup {c}, !.seen = @ \cup {c}]
       \/ /\ c \in net.seen \ net.closed /\ net.received[c] < MaxCommands
          /\ net' = [net EXCEPT !.incoming[c] = @ + 1, !.received[c] = @ + 1]
       \/ c \in net.seen \ net.closed /\ net' = [net EXCEPT !.closed = @ \cup {c}]
       \/ c \in net.full /\ net' = [net EXCEPT !.full = @ \ {c}]
    /\ UNCHANGED <<k, pc, m_stop, m_connections, ctx>>

Step ==
    \/ run \/ runStops \/ runReturns \/ stopSignalled
    \/ acceptStart \/ acceptReturns
    \/ \E name \in Loops \ {"acceptLoop"} : sleepStart(name) \/ sleepReturns(name)
    \/ \E c \in Connections :
         \/ handlerStart(c) \/ handlerJoins(c) \/ handlerEnds(c)
         \/ innerStart(c) \/ readCommand(c) \/ readReturns(c)
         \/ reply(c) \/ relay_notify_to_all(c) \/ shutdown(c)
         \/ processObjects(c) \/ yieldPolls(c) \/ yieldEnds(c) \/ nextBlock(c)
         \/ innerEnds(c) \/ innerJoins(c) \/ eraseConnection(c)
         \/ popBuffer(c) \/ sendMessage(c) \/ writeReturns(c)

Environment ==
    \/ sendStopSignal
    \/ \E s \in Timers : timerExpires(s)
    \/ \E c \in Connections : Peer(c)

Next == Step \/ epollSpawns \/ (\E s \in Descriptors : epollWakes(s)) \/ Environment

\* The running context goes on; epoll serves its ready list in turn; a timer
\* that is set expires.
Fairness ==
    /\ WF_vars(Step)
    /\ SF_vars(epollSpawns)
    /\ \A s \in Descriptors : SF_vars(epollWakes(s))
    /\ \A s \in Timers : WF_vars(timerExpires(s))

Spec == Init /\ [][Next]_vars /\ Fairness
-------------------------------------------------------------------------------
\* A context waits in one place.  A context that runs or is in the queue of
\* resuming contexts is there once, has not ended, and is in the list of waiters
\* of no event and of no group: inExecutionQueue and the interrupt procedures
\* (Event::wait, TcpConnection::read, ContextGroup::wait) keep it so, whoever
\* wakes or interrupts it first.
OneAtATime ==
    /\ \A i, j \in 1 .. Len(k.resuming) : k.resuming[i] = k.resuming[j] => i = j
    /\ \A x \in (Range(k.resuming) \cup {k.current}) \ {None} :
         /\ pc[x] # "done"
         /\ \A e \in Events : ~Contains(k.event[e].waiters, x)
         /\ ~Contains(k.group.waiters, x)

\* Nothing uses a connection after m_connections.erase: when its inner context
\* has ended, the write handler has ended too, no operation of its socket is
\* pending or watched, and nobody waits for its queueEvent (the asserts of
\* ~TcpConnection and ~Event).  interrupt() finds the context of the connection
\* (its assert(context != nullptr)).  And popBuffer cannot spin: queueEvent is
\* set only with a message in the queue or after a stop.
ErasedIsQuiet ==
    \A c \in Connections :
        /\ ctx[c].stopped => ctx[c].context
        /\ pc[Inner(c)] = "done" =>
             /\ c \notin m_connections
             /\ pc[Writer(c)] = "done"
             /\ k.io[Socket(c)] = [armed |-> {}, in |-> None, out |-> None]
             /\ k.event[QueueEvent(c)].waiters = <<>>
        /\ k.event[QueueEvent(c)].state => ctx[c].writeQueue > 0 \/ ctx[c].stopped

\* Every event epoll reports meets the context that waits for it (dispatch()'s
\* assert(context != nullptr)); a descriptor armed for nobody would be taken for
\* the remote spawn event.  A resumed write arms the socket again for a read that
\* was interrupted in the meantime, so this rests on what the contexts do next:
\* on processObjects leaving at the stop signal before it yields again.
EventsFindContexts == ~k.lost

\* A connection that was interrupted, by a full write queue, a write that lasts
\* too long or a failed send, is erased, whatever its peer does.
InterruptedConnectionEnds ==
    \A c \in Connections : ctx[c].stopped ~> c \notin m_connections

Returned == pc[Main] = "done"

\* run() returns after sendStopSignal.
StopReturns == m_stop ~> Returned
===============================================================================
