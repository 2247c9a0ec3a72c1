---- MODULE BlockingQueue ----
(***************************************************************************)
(* BlockingQueue<T> of lib/Common/BlockingQueue.h with the threads that    *)
(* use it.  Every operation runs under m_mutex, so one action is one       *)
(* critical section: from taking the mutex to releasing it, either by      *)
(* returning or by waiting on a condition variable.  A condition variable  *)
(* is the set of the threads that wait on it; a notified thread leaves the *)
(* set and evaluates its loop condition again when it gets the mutex.      *)
(***************************************************************************)
EXTENDS Naturals, Sequences, FiniteSets

CONSTANTS
    MaxSize,    \* m_maxSize
    Items,      \* the values that are pushed
    Producers,  \* threads that push
    Consumers,  \* threads that pop until pop returns false
    Closers,    \* threads that call close
    Waiting,    \* the closers that call close(true)
    Work        \* the items each producer pushes, in order

ASSUME ThreadAssumption ==
    /\ MaxSize \in Nat \ {0}
    /\ Consumers # {}
    /\ Producers \cap Consumers = {}
    /\ Closers \cap (Producers \cup Consumers) = {}
    /\ Waiting \subseteq Closers
    /\ Work \in [Producers -> Seq(Items)]

VARIABLES
    queue,      \* m_queue
    closed,     \* m_closed
    popped,     \* what pop has handed out, in order
    refused,    \* the items for which push returned false
    todo,       \* what is left of each producer's work
    pc,         \* "run", "closing" (in the loop of close(true)) or "done"
    haveData,   \* m_haveData: the threads waiting in pop
    haveSpace   \* m_haveSpace: the threads waiting in push or in close(true)

Threads == Producers \cup Consumers \cup Closers
vars == <<queue, closed, popped, refused, todo, pc, haveData, haveSpace>>

\* One type invariant: the two condition variables keep the two kinds of
\* waiters apart (BlockingQueue's m_haveData and m_haveSpace).
TypeOK ==
    /\ queue \in Seq(Items) /\ popped \in Seq(Items)
    /\ closed \in BOOLEAN
    /\ refused \subseteq Items
    /\ todo \in [Producers -> Seq(Items)]
    /\ pc \in [Threads -> {"run", "closing", "done"}]
    /\ haveData \subseteq Consumers
    /\ haveSpace \subseteq Producers \cup Closers

Init ==
    /\ queue = <<>> /\ popped = <<>>
    /\ closed = FALSE
    /\ refused = {}
    /\ todo = Work
    /\ pc = [t \in Threads |-> "run"]
    /\ haveData = {} /\ haveSpace = {}

Awake(t) == t \notin haveData \cup haveSpace

\* condition_variable::notify_one on the waiters `cv`: the sets that may be
\* left.
NotifyOne(cv) == IF cv = {} THEN {{}} ELSE {cv \ {t} : t \in cv}

\* push returns; its caller goes on with its next item.
Return(p) ==
    /\ todo' = [todo EXCEPT ![p] = Tail(@)]
    /\ UNCHANGED <<closed, popped, pc>>

\* BlockingQueue::push: the loop, the early return, the rest.
PushWait(p) ==
    /\ ~closed /\ Len(queue) >= MaxSize
    /\ haveSpace' = haveSpace \cup {p}
    /\ UNCHANGED <<queue, closed, popped, refused, todo, pc, haveData>>

PushRefused(p) ==
    /\ closed
    /\ refused' = refused \cup {Head(todo[p])}
    /\ Return(p)
    /\ UNCHANGED <<queue, haveData, haveSpace>>

PushDoneOver(p) ==
    /\ ~closed /\ Len(queue) <= MaxSize
    /\ queue' = Append(queue, Head(todo[p]))
    /\ haveData' \in NotifyOne(haveData)
    /\ Return(p)
    /\ UNCHANGED <<refused, haveSpace>>

PushDone(p) ==
    /\ ~closed /\ Len(queue) < MaxSize
    /\ queue' = Append(queue, Head(todo[p]))
    /\ haveData' \in NotifyOne(haveData)
    /\ Return(p)
    /\ UNCHANGED <<refused, haveSpace>>

push(p) ==
    /\ todo[p] # <<>> /\ Awake(p)
    /\ PushWait(p) \/ PushRefused(p) \/ PushDone(p)

\* The producer's thread function ends.
ProducerEnds(p) ==
    /\ todo[p] = <<>> /\ pc[p] = "run"
    /\ pc' = [pc EXCEPT ![p] = "done"]
    /\ UNCHANGED <<queue, closed, popped, refused, todo, haveData, haveSpace>>

\* BlockingQueue::pop: the loop, the end of a closed queue, the rest.
PopWait(c) ==
    /\ queue = <<>> /\ ~closed
    /\ haveData' = haveData \cup {c}
    /\ UNCHANGED <<queue, closed, popped, refused, todo, pc, haveSpace>>

PopEnd(c) ==
    /\ queue = <<>> /\ closed
    /\ pc' = [pc EXCEPT ![c] = "done"]
    /\ UNCHANGED <<queue, closed, popped, refused, todo, haveData, haveSpace>>

SpaceAfterPop == IF closed /\ Len(queue) = 1 THEN {{}} ELSE NotifyOne(haveSpace)

PopDone ==
    /\ queue # <<>>
    /\ popped' = Append(popped, Head(queue))
    /\ queue' = Tail(queue)
    /\ haveSpace' \in SpaceAfterPop
    /\ UNCHANGED <<closed, refused, todo, pc, haveData>>

pop(c) ==
    /\ pc[c] = "run" /\ Awake(c)
    /\ PopWait(c) \/ PopEnd(c) \/ PopDone

\* BlockingQueue::close: the call, and the loop of close(true).
close(k) ==
    /\ pc[k] = "run"
    /\ closed' = TRUE
    /\ haveData' = {} /\ haveSpace' = {}
    /\ pc' = [pc EXCEPT ![k] = IF k \in Waiting THEN "closing" ELSE "done"]
    /\ UNCHANGED <<queue, popped, refused, todo>>

CloseWaits(k) ==
    /\ queue # <<>>
    /\ haveSpace' = haveSpace \cup {k}
    /\ UNCHANGED pc

CloseReturns(k) ==
    /\ queue = <<>>
    /\ pc' = [pc EXCEPT ![k] = "done"]
    /\ UNCHANGED haveSpace

closeWait(k) ==
    /\ pc[k] = "closing" /\ Awake(k)
    /\ CloseWaits(k) \/ CloseReturns(k)
    /\ UNCHANGED <<queue, closed, popped, refused, todo, haveData>>

\* A wait may also end without a notification.
SpuriousWake(t) ==
    /\ ~Awake(t)
    /\ haveData' = haveData \ {t}
    /\ haveSpace' = haveSpace \ {t}
    /\ UNCHANGED <<queue, closed, popped, refused, todo, pc>>

Step(t) ==
    \/ t \in Producers /\ (push(t) \/ ProducerEnds(t))
    \/ t \in Consumers /\ pop(t)
    \/ t \in Closers /\ (close(t) \/ closeWait(t))

Finished == \A t \in Threads : pc[t] = "done"
Terminated == Finished /\ UNCHANGED vars

Next == (\E t \in Threads : Step(t) \/ SpuriousWake(t)) \/ Terminated

\* A thread that does not sleep gets the mutex in the end.  Spurious wake-ups
\* are possible, not promised.
Fairness == \A t \in Threads : WF_vars(Step(t))

Spec == Init /\ [][Next]_vars /\ Fairness

-----------------------------------------------------------------------------
\* BlockingQueue implements the queue its users rely on, whatever the
\* interleaving of push, pop, close and the wake-ups: order, bound, no item
\* lost or handed out twice, nothing accepted after close.
Abstract == INSTANCE ClosableQueue
ImplementsQueue == Abstract!QueueSpec

\* close(true) returns only once everything that was in the queue has been
\* taken out, and nothing enters a closed queue afterwards.
CloseWaitsForTheQueue ==
    \A k \in Waiting : pc[k] = "done" => queue = <<>>

\* No wake-up is lost (push and pop notify one thread of the right condition
\* variable): all consumers sleep only on an empty open queue, and all the
\* producers that are not done sleep only on a full open one.
NoLostWakeup ==
    /\ Consumers \subseteq haveData => queue = <<>> /\ ~closed
    /\ LET busy == {p \in Producers : todo[p] # <<>>}
       IN  busy # {} /\ busy \subseteq haveSpace => Len(queue) = MaxSize /\ ~closed

\* "all threads should unblock and finish" (tests/UnitTests/BlockingQueue.cpp,
\* Close): every thread that uses the queue ends, close(true) included.
EveryoneFinishes == <>Finished
====
