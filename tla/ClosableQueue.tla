---- MODULE ClosableQueue ----
(***************************************************************************)
(* What BlockingQueue (lib/Common/BlockingQueue.h) promises to the threads *)
(* that share it: a first-in first-out queue of at most MaxSize items that *)
(* can be closed for good.  A push succeeds while the queue is open and is *)
(* refused once it is closed; a pop takes the oldest item, and reports the *)
(* end only when the queue is closed and empty.  Nothing here says how a   *)
(* thread waits: that is what the detailed module adds.                    *)
(***************************************************************************)
EXTENDS Naturals, Sequences, FiniteSets

CONSTANTS
    MaxSize,    \* m_maxSize
    Items       \* the values that may be pushed

VARIABLES
    queue,      \* m_queue
    closed,     \* m_closed
    popped,     \* what pop has handed out, in order
    refused     \* the items for which push returned false

qvars == <<queue, closed, popped, refused>>

QueueInit ==
    /\ queue = <<>>
    /\ closed = FALSE
    /\ popped = <<>>
    /\ refused = {}

\* push returned true.
Enqueue(v) ==
    /\ ~closed
    /\ Len(queue) < MaxSize
    /\ queue' = Append(queue, v)
    /\ UNCHANGED <<closed, popped, refused>>

\* push returned false.
Refuse(v) ==
    /\ closed
    /\ refused' = refused \cup {v}
    /\ UNCHANGED <<queue, closed, popped>>

\* pop returned true.
Dequeue ==
    /\ queue # <<>>
    /\ popped' = Append(popped, Head(queue))
    /\ queue' = Tail(queue)
    /\ UNCHANGED <<closed, refused>>

CloseQueue ==
    /\ closed' = TRUE
    /\ UNCHANGED <<queue, popped, refused>>

QueueNext ==
    \/ \E v \in Items : Enqueue(v) \/ Refuse(v)
    \/ Dequeue
    \/ CloseQueue

QueueSpec == QueueInit /\ [][QueueNext]_qvars
====
