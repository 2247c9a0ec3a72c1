---- MODULE NewBlocks ----
(***************************************************************************)
(* TransfersConsumer::onNewBlocks (lib/Transfers/TransfersConsumer.cpp): a *)
(* wallet scans the blocks its node sent.  One thread pushes transactions  *)
(* into a BlockingQueue of twice as many places as there are workers, the  *)
(* workers look for the wallet's outputs (asking the node for their global *)
(* indices), the calling thread joins the workers, sorts what they found   *)
(* and hands it to the subscriptions.  The queue is the one ClosableQueue  *)
(* describes: a push blocks while it is full, a pop while it is empty and  *)
(* open.                                                                   *)
(***************************************************************************)
EXTENDS Naturals, Sequences, FiniteSets, SequencesExt

CONSTANTS
    Workers,    \* hardware_concurrency() threads
    Batch,      \* the blocks: a sequence of [present, recent, txs]
    NoKey,      \* transactions whose public key is NULL_PUBLIC_KEY
    Mine,       \* transactions with outputs of the subscriptions
    StartHeight,
    MaxFaults   \* bound on the node's failures

VARIABLES
    block, index,   \* the pushing thread's place in the batch
    pushing,        \* "block", "tx", "close" or "done"
    queue, closed,  \* inputQueue
    stopProcessing,
    worker,         \* [Workers -> "test", "pop", "work", "done"]
    item,           \* what each worker took
    error,          \* [Workers -> BOOLEAN], the workers' result
    preprocessed,   \* preprocessedTransactions, in the order of their arrival
    main,           \* "join", "scope" (waits for pushingThread), "returned"
    result,         \* what onNewBlocks returns
    delivered,      \* what the subscriptions got, in order
    advanced,       \* advanceHeight was called
    faults

pusher == <<block, index, pushing>>
pool == <<worker, item, error>>
outcome == <<main, result, delivered, advanced>>
vars == <<pusher, queue, closed, stopProcessing, pool, preprocessed, outcome, faults>>

Capacity == 2 * Cardinality(Workers)
Entry(i, j) == [height |-> StartHeight + i - 1, index |-> j - 1, tx |-> Batch[i].txs[j]]

Init ==
    /\ block = 1 /\ index = 1 /\ pushing = "block"
    /\ queue = <<>> /\ closed = FALSE
    /\ stopProcessing = FALSE
    /\ worker = [w \in Workers |-> "test"]
    /\ item = [w \in Workers |-> <<>>]
    /\ error = [w \in Workers |-> FALSE]
    /\ preprocessed = <<>>
    /\ main = "join" /\ result = FALSE /\ delivered = <<>> /\ advanced = FALSE
    /\ faults = 0

\* The pushing thread: the test of the loop over the blocks; a block without
\* data, or older than the start of the synchronisation, is skipped.
Scanned(i) == Batch[i].present /\ Batch[i].recent

SkipBlockForgotten == block' = block
SkipBlock == block' = block + 1

PushBlock ==
    /\ pushing = "block"
    /\ IF block > Len(Batch) \/ stopProcessing
       THEN pushing' = "close" /\ UNCHANGED <<block, index>>
       ELSE IF Scanned(block)
            THEN pushing' = "tx" /\ index' = 1 /\ UNCHANGED block
            ELSE SkipBlock /\ UNCHANGED <<pushing, index>>
    /\ UNCHANGED <<queue, closed, stopProcessing, pool, preprocessed, outcome, faults>>

HasSpace == Len(queue) < Capacity

\* ... and the loop over its transactions, with inputQueue.push.
PushTx ==
    /\ pushing = "tx"
    /\ \/ /\ index > Len(Batch[block].txs)
          /\ pushing' = "block" /\ block' = block + 1
          /\ UNCHANGED <<index, queue>>
       \/ /\ index <= Len(Batch[block].txs)
          /\ \/ /\ Batch[block].txs[index] \in NoKey
                /\ UNCHANGED queue
             \/ /\ Batch[block].txs[index] \notin NoKey
                /\ HasSpace
                /\ queue' = Append(queue, Entry(block, index))
          /\ index' = index + 1
          /\ UNCHANGED <<pushing, block>>
    /\ UNCHANGED <<closed, stopProcessing, pool, preprocessed, outcome, faults>>

PushClose ==
    /\ pushing = "close"
    /\ closed' = TRUE /\ pushing' = "done"
    /\ UNCHANGED <<block, index, queue, stopProcessing, pool, preprocessed, outcome, faults>>

\* processingFunction: while (!stopProcessing && inputQueue.pop(item)).
WorkerTest(w) ==
    /\ worker[w] = "test"
    /\ worker' = [worker EXCEPT ![w] = IF stopProcessing THEN "done" ELSE "pop"]
    /\ UNCHANGED <<pusher, queue, closed, stopProcessing, item, error, preprocessed, outcome, faults>>

TakeFirst == queue' = Tail(queue)

WorkerPop(w) ==
    /\ worker[w] = "pop"
    /\ \/ /\ queue # <<>>
          /\ item' = [item EXCEPT ![w] = Head(queue)]
          /\ TakeFirst
          /\ worker' = [worker EXCEPT ![w] = "work"]
       \/ /\ queue = <<>> /\ closed
          /\ worker' = [worker EXCEPT ![w] = "done"]
          /\ UNCHANGED <<item, queue>>
    /\ UNCHANGED <<pusher, closed, stopProcessing, error, preprocessed, outcome, faults>>

\* preprocessOutputs succeeds and the result is stored under the mutex.
WorkerDone(w) ==
    /\ worker[w] = "work"
    /\ preprocessed' = Append(preprocessed, item[w])
    /\ worker' = [worker EXCEPT ![w] = "test"]
    /\ UNCHANGED <<pusher, queue, closed, stopProcessing, item, error, outcome, faults>>

\* getGlobalIndices fails: the worker stops everyone and ends; or it throws,
\* and only this worker ends.
WorkerFails(w) ==
    /\ worker[w] = "work" /\ item[w].tx \in Mine
    /\ faults < MaxFaults /\ faults' = faults + 1
    /\ error' = [error EXCEPT ![w] = TRUE]
    /\ worker' = [worker EXCEPT ![w] = "done"]
    /\ stopProcessing' \in {TRUE, stopProcessing}
    /\ UNCHANGED <<pusher, queue, closed, item, preprocessed, outcome>>

\* The calling thread: all futures are ready; sort and deliver, or report.
Before(a, b) == a.height < b.height \/ (a.height = b.height /\ a.index < b.index)
Arrived(s) == s
InChainOrder(s) == SortSeq(s, Before)

FoundError == \E w \in Workers : error[w]

Join ==
    /\ main = "join"
    /\ \A w \in Workers : worker[w] = "done"
    /\ main' = "scope"
    /\ result' = ~FoundError
    /\ IF FoundError
       THEN UNCHANGED <<delivered, advanced>>
       ELSE delivered' = InChainOrder(preprocessed) /\ advanced' = TRUE
    /\ UNCHANGED <<pusher, queue, closed, stopProcessing, pool, preprocessed, faults>>

\* The destructor of pushingThread waits for the thread.
LeaveScope ==
    /\ main = "scope" /\ pushing = "done"
    /\ main' = "returned"
    /\ UNCHANGED <<pusher, queue, closed, stopProcessing, pool, preprocessed, result, delivered, advanced, faults>>

Pusher == PushBlock \/ PushTx \/ PushClose
Worker(w) == WorkerTest(w) \/ WorkerPop(w) \/ WorkerDone(w) \/ WorkerFails(w)
Main == Join \/ LeaveScope

Returned == main = "returned" /\ UNCHANGED vars
Next == Pusher \/ (\E w \in Workers : Worker(w)) \/ Main \/ Returned

\* Every thread that can run does; the node answers every request.
Fairness == WF_vars(Pusher) /\ WF_vars(Main) /\ \A w \in Workers : WF_vars(Worker(w))
Spec == Init /\ [][Next]_vars /\ Fairness

-----------------------------------------------------------------------------
\* What a scan has to find: the transactions of the scanned blocks that have a
\* key, in chain order.
Expected ==
    LET entries(i) == [j \in 1..Len(Batch[i].txs) |-> Entry(i, j)]
        kept(i) == IF Scanned(i) THEN SelectSeq(entries(i), LAMBDA e : e.tx \notin NoKey) ELSE <<>>
    IN  FlattenSeq([i \in 1..Len(Batch) |-> kept(i)])

\* Every transaction is in one place only: in the queue, with one worker, or
\* among the results (inputQueue.pop hands an item to one worker).
TakenOnce ==
    LET held == {w \in Workers : worker[w] = "work"}
        all == queue \o preprocessed \o SetToSeq({<<w, item[w]>> : w \in held})
        entry(k) == IF k <= Len(queue) + Len(preprocessed) THEN all[k] ELSE all[k][2]
    IN  /\ Len(queue) <= Capacity
        /\ \A k, l \in DOMAIN all : k # l => entry(k) # entry(l)

\* Whatever the schedule of the workers, a scan that reports success has
\* handed every transaction to the subscriptions, once, by height and by place
\* in the block; one that reports failure has handed none
\* (TransfersConsumer::onNewBlocks).
AllOrNothing ==
    main = "returned" => delivered = (IF result THEN Expected ELSE <<>>) /\ advanced = result

\* onNewBlocks returns: tests/UnitTests/TestTransfersConsumer.cpp,
\* onNewBlocks_getTransactionOutsGlobalIndicesError, expects false when the
\* node fails.
OnNewBlocksReturns == <>(main = "returned")
====
