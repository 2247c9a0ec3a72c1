---- MODULE BlockchainSynchronizer ----
(***************************************************************************)
(* lib/Transfers/BlockchainSynchronizer.cpp and SynchronizationState.cpp:  *)
(* the thread that keeps the consumers of a wallet in step with a node.    *)
(* Four parties act: the working thread, the user of the synchronizer      *)
(* (start, stop, unconfirmed transactions), a second user that asks for a  *)
(* consumer's state, and the node, whose chain and pool change and whose   *)
(* notifications arrive late.  The node (INode) is external: it answers a  *)
(* query from the chain and the pool it has at that moment, or fails.      *)
(***************************************************************************)
EXTENDS Naturals, Sequences, FiniteSets, SequencesExt

CONSTANTS
    Consumers,      \* the order of m_consumers: a sequence
    Genesis, NoBlock,
    Chains,         \* the chains the node may be on, each from Genesis
    Txs,            \* transactions of the node's pool
    LocalTxs,       \* transactions of addUnconfirmedTransaction
    Batch,          \* blocks the node sends at once
    Dense,          \* entries of a short history before it thins out (10)
    MaxNode,        \* bound on the node's changes
    MaxNodeErrors, MaxConsumerErrors,   \* bounds on failures
    MaxCalls,       \* bound on the user's calls
    MaxReads        \* bound on getConsumerState

VARIABLES
    chain, pool, behind,    \* the node: main chain, pool, "knows of higher blocks"
    due, inflight,          \* changes to announce; announcements on their way
    attached,               \* the synchronizer observes the node
    current, future,        \* m_currentState, m_futureState
    worker,                 \* where the working thread is
    last,                   \* it is in the call after its loop
    response,               \* what the node answered
    lastBlockId,
    known, fed,             \* per consumer: its SynchronizationState, and the
                            \* blocks the consumer itself was given
    poolTxs,                \* per consumer: getKnownPoolTxIds
    removeTasks, addTasks, promise,
    completed,              \* the last synchronizationCompleted
    stateLock, consumersLock,
    user, reader,
    nodeSteps, nodeErrors, consumerErrors, calls, reads

node == <<chain, pool, behind, due>>
consumers == <<known, fed, poolTxs>>
tasks == <<removeTasks, addTasks, promise>>
locks == <<stateLock, consumersLock>>
users == <<user, reader, calls, reads>>
failures == <<nodeErrors, consumerErrors>>
vars == <<node, inflight, attached, current, future, worker, last, response, lastBlockId,
          consumers, tasks, completed, locks, users, nodeSteps, failures>>

Ids == 1..Len(Consumers)
States == <<"idle", "poolSync", "blockchainSync", "deleteOldTxs", "stopped">>
Rank(s) == CHOOSE i \in 1..5 : States[i] = s
Nobody == "nobody"
\* A request (the history) and the answers to it, in one record.
NoResponse == [history |-> {}, start |-> 0, blocks |-> <<>>, new |-> {}, deleted |-> {}]

Init ==
    /\ chain \in Chains /\ pool = {} /\ behind = FALSE /\ due = {} /\ inflight = {}
    /\ attached = FALSE
    /\ current = "stopped" /\ future = "stopped"
    /\ worker = "off" /\ last = FALSE
    /\ response = NoResponse
    /\ lastBlockId = NoBlock   \* 32 uninitialized bytes: the hash of no block
    /\ known = [i \in Ids |-> <<Genesis>>] /\ fed = known
    /\ poolTxs = [i \in Ids |-> {}]
    /\ removeTasks = <<>> /\ addTasks = <<>> /\ promise = [t \in LocalTxs |-> "none"]
    /\ completed = "none"
    /\ stateLock = Nobody /\ consumersLock = Nobody
    /\ user = "free" /\ reader = "free"
    /\ nodeSteps = 0 /\ nodeErrors = 0 /\ consumerErrors = 0 /\ calls = 0 /\ reads = 0

-----------------------------------------------------------------------------
\* SynchronizationState.

\* getShortHistory: the heights it lists, from the top; dense at first, then
\* with doubling gaps, and always the genesis block.
Offset[i \in Nat] ==
    IF i = 0 THEN 1 ELSE IF i <= Dense THEN Offset[i - 1] + 1 ELSE Offset[i - 1] + 2 ^ (i - Dense)

getShortHistory(blocks, localHeight) ==
    LET sz == IF Len(blocks) <= localHeight + 1 THEN Len(blocks) ELSE localHeight + 1
        offsets == {Offset[i] : i \in 0..sz} \cap 1..(sz - 1)
    IN  {sz - o + 1 : o \in offsets} \cup {1}


\* checkInterval for a consumer with chain `mine` and blocks from `start` on
\* (heights count from 0).
FirstDifference(mine, start, blocks) ==
    LET end == IF Len(mine) <= start + Len(blocks) THEN Len(mine) ELSE start + Len(blocks)
        differ == {h \in start..(end - 1) : mine[h + 1] # blocks[h - start + 1]}
    IN  IF differ = {} THEN Len(mine) ELSE CHOOSE h \in differ : \A g \in differ : h <= g


-----------------------------------------------------------------------------
\* m_stateMutex guards the two states.  setFutureState raises, never lowers.
StateFree == stateLock = Nobody
Raise(s) == IF Rank(s) > Rank(future) THEN s ELSE future
setFutureState(s) == future' = Raise(s)
\* setFutureStateIf(idle, ... != stopped), after every failure.
IdleUnlessStopped == IF future = "stopped" THEN "stopped" ELSE "idle"

\* The node: its chain or pool changes, then it tells whom it saw attached.
Announce(e) == due' = due \cup {e}

NodeChanges ==
    /\ nodeSteps < MaxNode /\ nodeSteps' = nodeSteps + 1
    /\ \/ \E c \in Chains \ {chain}, b \in BOOLEAN :
              chain' = c /\ behind' = b /\ Announce("blockchainSync") /\ UNCHANGED pool
       \/ \E p \in (SUBSET Txs) \ {pool} :
              pool' = p /\ Announce("poolSync") /\ UNCHANGED <<chain, behind>>
       \/ behind' = ~behind /\ Announce("blockchainSync") /\ UNCHANGED <<chain, pool>>
    /\ UNCHANGED <<inflight, attached, current, future, worker, last, response, lastBlockId,
                   consumers, tasks, completed, locks, users, failures>>

NodeNotifies(e) ==
    /\ e \in due /\ due' = due \ {e}
    /\ inflight' = IF attached THEN inflight \cup {e} ELSE inflight
    /\ UNCHANGED <<chain, pool, behind, attached, current, future, worker, last, response,
                   lastBlockId, consumers, tasks, completed, locks, users, nodeSteps, failures>>

\* localBlockchainUpdated, lastKnownBlockHeightUpdated, poolChanged.
Deliver(e) ==
    /\ e \in inflight /\ inflight' = inflight \ {e}
    /\ StateFree /\ setFutureState(e)
    /\ UNCHANGED <<node, attached, current, worker, last, response, lastBlockId,
                   consumers, tasks, completed, locks, users, nodeSteps, failures>>

-----------------------------------------------------------------------------
\* The user.
start ==
    /\ user = "free" /\ calls < MaxCalls /\ calls' = calls + 1
    /\ StateFree
    /\ current = "stopped" /\ future = "stopped"
    /\ future' = "deleteOldTxs"
    /\ worker' = "loop" /\ last' = FALSE
    /\ UNCHANGED <<node, inflight, attached, current, response, lastBlockId, consumers, tasks,
                   completed, locks, user, reader, reads, nodeSteps, failures>>

stop ==
    /\ user = "free" /\ calls < MaxCalls /\ calls' = calls + 1
    /\ StateFree /\ worker # "off"
    /\ setFutureState("stopped")
    /\ user' = "joining"
    /\ UNCHANGED <<node, inflight, attached, current, worker, last, response, lastBlockId,
                   consumers, tasks, completed, locks, reader, reads, nodeSteps, failures>>

Joined ==
    /\ user = "joining" /\ worker = "ended"
    /\ user' = "free" /\ worker' = "off"
    /\ UNCHANGED <<node, inflight, attached, current, future, last, response, lastBlockId,
                   consumers, tasks, completed, locks, reader, calls, reads, nodeSteps, failures>>

Running == current # "stopped" /\ future # "stopped"

addUnconfirmedTransaction(t) ==
    /\ user = "free" /\ calls < MaxCalls /\ calls' = calls + 1
    /\ StateFree /\ Running /\ promise[t] = "none"
    /\ addTasks' = Append(addTasks, t)
    /\ promise' = [promise EXCEPT ![t] = "waiting"]
    /\ UNCHANGED <<node, inflight, attached, current, future, worker, last, response, lastBlockId,
                   consumers, removeTasks, completed, locks, user, reader, reads, nodeSteps, failures>>

removeUnconfirmedTransaction(t) ==
    /\ user = "free" /\ calls < MaxCalls /\ calls' = calls + 1
    /\ StateFree /\ Running /\ promise[t] \in {"ok", "error"}
    /\ removeTasks' = Append(removeTasks, t)
    /\ promise' = [promise EXCEPT ![t] = "waiting"]
    /\ UNCHANGED <<node, inflight, attached, current, future, worker, last, response, lastBlockId,
                   consumers, addTasks, completed, locks, user, reader, reads, nodeSteps, failures>>

\* getConsumerState: m_consumersMutex first, then m_stateMutex for the checks
\* (it throws unless both states are stopped).
ReaderLocks ==
    /\ reader = "free" /\ reads < MaxReads /\ reads' = reads + 1
    /\ consumersLock = Nobody /\ consumersLock' = "reader"
    /\ reader' = "locked"
    /\ UNCHANGED <<node, inflight, attached, current, future, worker, last, response, lastBlockId,
                   consumers, tasks, completed, stateLock, user, calls, nodeSteps, failures>>

ReaderReturns ==
    /\ reader = "locked" /\ StateFree
    /\ consumersLock' = Nobody /\ reader' = "free"
    /\ UNCHANGED <<node, inflight, attached, current, future, worker, last, response, lastBlockId,
                   consumers, tasks, completed, stateLock, user, calls, reads, nodeSteps, failures>>

-----------------------------------------------------------------------------
\* The working thread.  workingProcedure: the loop's check.
Loop ==
    /\ worker = "loop" /\ StateFree
    /\ worker' = "actualize" /\ last' = (future = "stopped")
    /\ UNCHANGED <<node, inflight, attached, current, future, response, lastBlockId, consumers,
                   tasks, completed, locks, users, nodeSteps, failures>>

\* actualizeFutureState takes m_stateMutex and holds it until it dispatches.
Actualize ==
    /\ worker = "actualize" /\ StateFree
    /\ stateLock' = "worker" /\ worker' = "tasks"
    /\ attached' = \/ current = "stopped" /\ future = "deleteOldTxs"
                   \/ attached /\ ~(future = "stopped" /\ current # "stopped")
    /\ UNCHANGED <<node, inflight, current, future, last, response, lastBlockId, consumers,
                   tasks, completed, consumersLock, users, nodeSteps, failures>>

doRemoveUnconfirmedTransaction ==
    /\ worker = "tasks" /\ removeTasks # <<>> /\ consumersLock = Nobody
    /\ removeTasks' = Tail(removeTasks)
    /\ promise' = [promise EXCEPT ![Head(removeTasks)] = "none"]
    /\ UNCHANGED <<node, inflight, attached, current, future, worker, last, response, lastBlockId,
                   consumers, addTasks, completed, locks, users, nodeSteps, failures>>

\* A consumer may refuse the transaction; the earlier ones then drop it again.
doAddUnconfirmedTransaction ==
    /\ worker = "tasks" /\ removeTasks = <<>> /\ addTasks # <<>> /\ consumersLock = Nobody
    /\ addTasks' = Tail(addTasks)
    /\ \/ promise' = [promise EXCEPT ![Head(addTasks)] = "ok"] /\ UNCHANGED failures
       \/ /\ consumerErrors < MaxConsumerErrors /\ consumerErrors' = consumerErrors + 1
          /\ promise' = [promise EXCEPT ![Head(addTasks)] = "error"]
          /\ UNCHANGED nodeErrors
    /\ UNCHANGED <<node, inflight, attached, current, future, worker, last, response, lastBlockId,
                   consumers, removeTasks, completed, locks, users, nodeSteps>>

\* The state to be in, the default successor, and where the thread goes.
Successor(s) == CASE s = "deleteOldTxs" -> "blockchainSync"
                  [] s = "blockchainSync" -> "poolSync"
                  [] s = "poolSync" -> "idle"
                  [] OTHER -> s

\* Leaving tasks for the next round loses them when the next round is none.
DispatchEarly ==
    /\ worker = "tasks"
    /\ stateLock' = Nobody
    /\ current' = future /\ future' = Successor(future)
    /\ worker' = IF future # "stopped" THEN future ELSE IF last THEN "ended" ELSE "loop"
    /\ UNCHANGED <<node, inflight, attached, last, response, lastBlockId, consumers, tasks,
                   completed, consumersLock, users, nodeSteps, failures>>

Dispatch ==
    /\ worker = "tasks" /\ removeTasks = <<>> /\ addTasks = <<>>
    /\ stateLock' = Nobody
    /\ current' = future /\ future' = Successor(future)
    /\ worker' = IF future # "stopped" THEN future ELSE IF last THEN "ended" ELSE "loop"
    /\ UNCHANGED <<node, inflight, attached, last, response, lastBlockId, consumers, tasks,
                   completed, consumersLock, users, nodeSteps, failures>>

\* Waking up for new events only.
IdleWakesForEvents ==
    /\ worker = "idle" /\ StateFree
    /\ future \notin {"idle", "stopped"} \/ removeTasks # <<>> \/ addTasks # <<>>
    /\ worker' = "loop"
    /\ UNCHANGED <<node, inflight, attached, current, future, last, response, lastBlockId,
                   consumers, tasks, completed, locks, users, nodeSteps, failures>>

\* State::idle waits on m_hasWork.
IdleWakes ==
    /\ worker = "idle" /\ StateFree
    /\ future # "idle" \/ removeTasks # <<>> \/ addTasks # <<>>
    /\ worker' = "loop"
    /\ UNCHANGED <<node, inflight, attached, current, future, last, response, lastBlockId,
                   consumers, tasks, completed, locks, users, nodeSteps, failures>>

NodeFails == nodeErrors < MaxNodeErrors /\ nodeErrors' = nodeErrors + 1 /\ UNCHANGED consumerErrors
ConsumerFails ==
    consumerErrors < MaxConsumerErrors /\ consumerErrors' = consumerErrors + 1 /\ UNCHANGED nodeErrors

\* A query that failed: idle unless stopped, and the observers are told.
QueryFailed ==
    /\ NodeFails
    /\ future' = IdleUnlessStopped /\ completed' = "error" /\ worker' = "loop"
    /\ response' = NoResponse

PoolUnion == UNION {poolTxs[i] : i \in Ids}
PoolIntersection == {t \in PoolUnion : \A i \in Ids : t \in poolTxs[i]}

\* onPoolUpdated of the first n consumers, which add and then delete; the one
\* after them may fail with some of the new transactions added.
PoolUpdated(new, deleted, n) ==
    [i \in Ids |-> IF i <= n THEN (poolTxs[i] \cup new) \ deleted ELSE poolTxs[i]]
PoolUpdatedPartly(new, deleted, n, added) ==
    [PoolUpdated(new, deleted, n) EXCEPT ![n + 1] = @ \cup added]

\* removeOutdatedTransactions; a failure of the node or of a consumer retries.
removeOutdatedTransactions ==
    /\ worker = "deleteOldTxs" /\ consumersLock = Nobody
    /\ LET deleted == PoolUnion \ pool IN
       \/ /\ poolTxs' = PoolUpdated({}, deleted, Len(Consumers))
          /\ worker' = "loop" /\ UNCHANGED <<completed, failures>>
       \/ /\ NodeFails
          /\ worker' = "retry" /\ completed' = "error" /\ UNCHANGED poolTxs
       \/ /\ ConsumerFails
          /\ \E n \in 0..(Len(Consumers) - 1) : poolTxs' = PoolUpdated({}, deleted, n)
          /\ worker' = "retry" /\ completed' = "error"
    /\ UNCHANGED <<node, inflight, attached, current, future, last, response, lastBlockId,
                   known, fed, tasks, locks, users, nodeSteps>>

\* wait_for: five seconds, or until stopped.
Retry ==
    /\ worker = "retry" /\ StateFree
    /\ future' = IF future = "stopped" THEN "stopped" ELSE "deleteOldTxs"
    /\ worker' = "loop"
    /\ UNCHANGED <<node, inflight, attached, current, last, response, lastBlockId, consumers,
                   tasks, completed, locks, users, nodeSteps, failures>>

-----------------------------------------------------------------------------
\* startBlockchainSync.  getCommonHistory: the short history of the first of
\* the shortest consumers.
Shortest == CHOOSE i \in Ids : /\ \A j \in Ids : Len(known[i]) <= Len(known[j])
                               /\ \A j \in 1..(i - 1) : Len(known[i]) < Len(known[j])

getCommonHistory ==
    /\ worker = "blockchainSync" /\ consumersLock = Nobody
    /\ response' = [NoResponse EXCEPT !.history =
            {known[Shortest][p] : p \in getShortHistory(known[Shortest], Len(chain) - 1)}]
    /\ worker' = "query"
    /\ UNCHANGED <<node, inflight, attached, current, future, last, lastBlockId, consumers,
                   tasks, completed, locks, users, nodeSteps, failures>>

\* INode::queryBlocks: from the highest block of the history that is on the
\* node's chain at the time it answers.
queryBlocks ==
    /\ worker = "query"
    /\ \/ LET top == CHOOSE p \in 1..Len(chain) :
                          /\ chain[p] \in response.history
                          /\ \A q \in (p + 1)..Len(chain) : chain[q] \notin response.history
              end == IF Len(chain) < top + Batch THEN Len(chain) ELSE top + Batch - 1
          IN  /\ response' = [NoResponse EXCEPT !.start = top - 1, !.blocks = SubSeq(chain, top, end)]
              /\ worker' = "process"
              /\ UNCHANGED <<future, completed, failures>>
       \/ QueryFailed
    /\ UNCHANGED <<node, inflight, attached, current, last, lastBlockId, consumers, tasks, locks,
                   users, nodeSteps>>

\* updateConsumers, in the order of m_consumers; consumer `failed` (0: none)
\* refuses its blocks after it was detached, and those after it are not asked.
Detached(i) == SubSeq(known[i], 1, FirstDifference(known[i], response.start, response.blocks))
Extended(i) == Detached(i) \o SubSeq(response.blocks, Len(Detached(i)) - response.start + 1,
                                     Len(response.blocks))
HasNewBlocks(i) == Extended(i) # known[i]

Handed(i, failed) == CASE failed = 0 \/ i < failed -> Extended(i)
                       [] i = failed -> Detached(i)
                       [] OTHER -> known[i]

\* Recording the blocks although the consumer refused them.
updateConsumersAnyway(failed) ==
    /\ known' = [i \in Ids |-> IF i = failed THEN Extended(i) ELSE Handed(i, failed)]
    /\ fed' = [i \in Ids |-> IF failed = 0 THEN Extended(i) ELSE Handed(i, failed)]

updateConsumers(failed) ==
    /\ known' = [i \in Ids |-> Handed(i, failed)]
    \* the consumer's own copy: onBlockchainDetach, onNewBlocks
    /\ fed' = [i \in Ids |->
                 CASE failed # 0 /\ i > failed -> fed[i]
                   [] i = failed -> SubSeq(fed[i], 1, Len(Detached(i)))
                   [] OTHER -> SubSeq(fed[i], 1, Len(Detached(i)))
                               \o SubSeq(response.blocks, Len(Detached(i)) - response.start + 1,
                                         Len(response.blocks))]

processBlocks ==
    /\ worker = "process" /\ future # "stopped" /\ consumersLock = Nobody /\ StateFree
    /\ lastBlockId' = Last(response.blocks)
    /\ \/ /\ updateConsumers(0)
          /\ future' = IF behind \/ \E i \in Ids : HasNewBlocks(i) THEN Raise("blockchainSync")
                                                                 ELSE future
          /\ UNCHANGED <<completed, failures>>
       \/ /\ ConsumerFails
          /\ \E i \in Ids : HasNewBlocks(i) /\ updateConsumers(i)
          /\ future' = IdleUnlessStopped /\ completed' = "error"
    /\ worker' = "after" /\ response' = NoResponse
    /\ UNCHANGED <<node, inflight, attached, current, last, poolTxs, tasks, locks, users,
                   nodeSteps>>

\* The checks of stop before and after ("Sic!").
Interrupted ==
    /\ worker = "process" /\ future = "stopped" /\ StateFree
    /\ completed' = "interrupted" /\ worker' = "loop" /\ response' = NoResponse
    /\ UNCHANGED <<node, inflight, attached, current, future, last, lastBlockId,
                   consumers, tasks, locks, users, nodeSteps, failures>>

AfterBlocks ==
    /\ worker = "after" /\ StateFree
    /\ completed' = IF future = "stopped" THEN "interrupted" ELSE completed
    /\ worker' = "loop"
    /\ UNCHANGED <<node, inflight, attached, current, future, last, response, lastBlockId,
                   consumers, tasks, locks, users, nodeSteps, failures>>

-----------------------------------------------------------------------------
\* startPoolSync.  Stage 1 asks with the union of what the consumers know.
\* getPoolSymmetricDifference answers with the node's pool and tail.
Outdated == lastBlockId # Last(chain)

\* Taking the pool's answer without looking at the tail.
PoolAnswerUnchecked(asked, deleted) ==
    /\ response' = [NoResponse EXCEPT !.new = pool \ asked, !.deleted = deleted]
    /\ worker' = IF worker = "poolSync" /\ PoolUnion # PoolIntersection
                 THEN "stage2" ELSE "poolTxs"
    /\ UNCHANGED <<completed, future, failures>>

PoolAnswer(asked, deleted) ==
    \/ QueryFailed
    \/ /\ Outdated
       /\ setFutureState("blockchainSync") /\ worker' = "loop" /\ response' = NoResponse
       /\ UNCHANGED <<completed, failures>>
    \/ /\ ~Outdated
       /\ response' = [NoResponse EXCEPT !.new = pool \ asked, !.deleted = deleted]
       /\ worker' = IF worker = "poolSync" /\ PoolUnion # PoolIntersection
                    THEN "stage2" ELSE "poolTxs"
       /\ UNCHANGED <<completed, future, failures>>

startPoolSync ==
    /\ worker = "poolSync" /\ consumersLock = Nobody /\ StateFree
    /\ PoolAnswer(PoolUnion, PoolUnion \ pool)
    /\ UNCHANGED <<node, inflight, attached, current, last, lastBlockId, consumers, tasks, locks,
                   users, nodeSteps>>

\* Stage 1's new transactions are missing at the consumers that lack part of
\* the union.
startPoolSync2Reuse ==
    /\ worker = "stage2" /\ StateFree
    /\ worker' = "poolTxs"
    /\ UNCHANGED <<node, inflight, attached, current, future, last, response, lastBlockId,
                   consumers, tasks, completed, locks, users, nodeSteps, failures>>

\* Stage 2, when the consumers know different transactions: new ones against
\* the intersection, deleted ones from stage 1.
startPoolSync2 ==
    /\ worker = "stage2" /\ StateFree
    /\ PoolAnswer(PoolIntersection, response.deleted)
    /\ UNCHANGED <<node, inflight, attached, current, last, lastBlockId, consumers, tasks, locks,
                   users, nodeSteps>>

\* processPoolTxs: all consumers; or a stop seen after n of them; or the next
\* consumer fails.  An error here does not change the future state.
processPoolTxs ==
    /\ worker = "poolTxs" /\ consumersLock = Nobody /\ StateFree
    /\ worker' = "loop" /\ response' = NoResponse
    /\ \/ /\ future # "stopped"
          /\ poolTxs' = PoolUpdated(response.new, response.deleted, Len(Consumers))
          /\ completed' = "ok" /\ UNCHANGED failures
       \/ /\ future = "stopped"
          /\ \E n \in 0..(Len(Consumers) - 1) :
                poolTxs' = PoolUpdated(response.new, response.deleted, n)
          /\ completed' = "interrupted" /\ UNCHANGED failures
       \/ /\ ConsumerFails
          /\ \E n \in 0..(Len(Consumers) - 1), added \in SUBSET response.new :
                poolTxs' = PoolUpdatedPartly(response.new, response.deleted, n, added)
          /\ completed' = "error"
    /\ UNCHANGED <<node, inflight, attached, current, future, last, lastBlockId, known, fed, tasks,
                   locks, users, nodeSteps>>

-----------------------------------------------------------------------------
Worker ==
    \/ Loop \/ Actualize \/ doRemoveUnconfirmedTransaction \/ doAddUnconfirmedTransaction
    \/ Dispatch \/ IdleWakes \/ removeOutdatedTransactions \/ Retry
    \/ getCommonHistory \/ queryBlocks \/ processBlocks \/ Interrupted \/ AfterBlocks
    \/ startPoolSync \/ startPoolSync2 \/ processPoolTxs

Events == {"blockchainSync", "poolSync"}

Next ==
    \/ Worker
    \/ NodeChanges \/ (\E e \in Events : NodeNotifies(e) \/ Deliver(e))
    \/ start \/ stop \/ Joined
    \/ \E t \in LocalTxs : addUnconfirmedTransaction(t) \/ removeUnconfirmedTransaction(t)
    \/ ReaderLocks \/ ReaderReturns

\* The working thread runs, the node delivers what it announced, and a call
\* that waits goes on when it can.
Fairness ==
    /\ WF_vars(Worker) /\ WF_vars(Joined) /\ WF_vars(ReaderReturns)
    /\ \A e \in Events : WF_vars(NodeNotifies(e)) /\ WF_vars(Deliver(e))

Spec == Init /\ [][Next]_vars /\ Fairness

-----------------------------------------------------------------------------

\* The chain of a consumer is always part of one chain the node was on: no
\* sequence of reorganisations, batches and refused blocks mixes two branches.
NoMixedBranches == \A i \in Ids : \E c \in Chains : IsPrefix(known[i], c)

\* The assertions of checkInterval, detach and addBlocks: an answer starts
\* inside the chain of every consumer, not only of the one whose history was
\* sent, and never at a hole.
IntervalsConnect ==
    worker = "process" => \A i \in Ids : /\ response.start < Len(known[i])
                                         /\ known[i] # <<>>

\* Every accepted task is answered before the thread ends, so that nobody waits
\* on the future of a dead synchronizer.
NoTaskLeftBehind ==
    worker \in {"off", "ended"} =>
        addTasks = <<>> /\ removeTasks = <<>> /\ \A t \in LocalTxs : promise[t] # "waiting"

\* synchronizationCompleted without error is sent only when every consumer has
\* the block the pool's answer was checked against (as long as no consumer
\* refuses blocks: lastBlockId is set even then).
Holds(b) == \A i \in Ids : b \in Range(known[i])
SuccessMeansProcessed ==
    [][worker = "poolTxs" /\ worker' # worker /\ completed' = "ok" => Holds(lastBlockId)]_vars

\* stop() returns, whatever the thread was waiting for.
StopReturns == user = "joining" ~> user = "free"

\* Without failures a synchronizer that keeps running ends up with every
\* consumer on the node's chain and with the node's pool, although events are
\* coalesced into one future state.
Synchronised == \A i \in Ids : IsPrefix(chain, known[i]) /\ poolTxs[i] = pool
EventuallySynchronised ==
    <>[](worker # "off" /\ future # "stopped" /\ ~behind) => <>[]Synchronised

====
