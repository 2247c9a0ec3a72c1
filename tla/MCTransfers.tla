------------------------------ MODULE MCTransfers ------------------------------
(***************************************************************************)
(* How a wallet takes in blocks, from the synchronizer to the container of *)
(* its outputs.  A behaviour is one of eight scenarios: the queue of the   *)
(* scanning threads (queue, with the constants of the configuration), a    *)
(* scan of one batch (scan), an account through reorganisations (reorg)    *)
(* and failed batches (errors); the synchronizer through reorganisations   *)
(* with failures of the node and of a consumer (chain), with a reader and  *)
(* pool transactions (pool), events without failures (events) and tasks of *)
(* the wallet (tasks).  The variables of the other components keep the     *)
(* value "unused".                                                         *)
(*                                                                         *)
(* The transactions: A receives a1; D receives d1 with the key image of    *)
(* a1; B spends a1 and receives b1; L, sent by the wallet, spends b1; E    *)
(* only receives.  Blocks are named for their chain and height.            *)
(***************************************************************************)
EXTENDS BlockingQueue

VARIABLES scenario, block, index, pushing, stopProcessing, worker, item, error, preprocessed,
          main, result, delivered, advanced, faults,
          node, c, known, poolTxs, lastBlock, asserted, dead, steps, sent, errors, restarts,
          chain, pool, behind, due, inflight, attached, current, future, last, response,
          lastBlockId, fed, removeTasks, addTasks, promise, completed, stateLock, consumersLock,
          user, reader, nodeSteps, nodeErrors, consumerErrors, calls, reads

WorkOfTwo == [p \in Producers |-> IF p = "p1" THEN <<"a", "b">> ELSE <<"c">>]
--------------------------------------------------------------------------------
Block(has, new, t) == [present |-> has, recent |-> new, txs |-> t]

\* The node may fail twice; the batch fits in the queue.
Scan == INSTANCE NewBlocks
        WITH Workers <- {"w1", "w2"}, NoKey <- {"t2"}, Mine <- {"t1", "t5"}, StartHeight <- 3,
             MaxFaults <- 2,
             Batch <- <<Block(TRUE, TRUE, <<"t1", "t2">>), Block(TRUE, FALSE, <<"t3">>),
                        Block(TRUE, TRUE, <<"t4", "t5", "t6">>)>>
--------------------------------------------------------------------------------
Outs == [A |-> {"a1"}, D |-> {"d1"}, B |-> {"b1"}, L |-> {"l1"}, E |-> {"e1"}]
Image == [a1 |-> "k1", d1 |-> "k1", b1 |-> "k2", l1 |-> "k3", e1 |-> "k5"]
Amount == [a1 |-> 1, d1 |-> 2, b1 |-> 1, l1 |-> 1, e1 |-> 1]
Spend(k) == {[image |-> k, amount |-> 1]}
Ins == [A |-> {}, D |-> {}, B |-> Spend("k1"), L |-> Spend("k2"), E |-> {}]
UNCONFIRMED == 99
TxsIn == [g |-> <<>>, x1 |-> <<"A">>, x2 |-> <<"D">>, x3 |-> <<"B">>, x4 |-> <<"L">>,
          y2 |-> <<"B">>, z1 |-> <<>>, z2 |-> <<"A">>, z3 |-> <<"D", "B">>]

N(blocks, txs) == [chain |-> blocks, pool |-> txs]
\* Pools whose transactions spend what the chain has.
Reorganising == { N(<<"g", "x1">>, {"B", "D"}), N(<<"g", "x1", "x2", "x3">>, {"L"}),
                  N(<<"g", "x1", "x2", "x3", "x4">>, {}), N(<<"g", "x1", "y2">>, {"D", "L"}),
                  N(<<"g", "z1">>, {"A", "D"}), N(<<"g", "z1", "z2", "z3">>, {}) }
\* Pools that spend nothing.
Receiving == { N(<<"g", "x1">>, {"D"}), N(<<"g", "x1", "x2", "x3">>, {}),
               N(<<"g", "x1", "y2">>, {"D", "E"}), N(<<"g", "z1", "z2", "z3">>, {"E"}) }

Reorg == INSTANCE TransfersConsumer
         WITH Nodes <- Reorganising, Local <- {"L"}, Batch <- 2, MaxSteps <- 4, MaxLocal <- 2,
              MaxErrors <- 0, MaxRestarts <- 1
Failing == INSTANCE TransfersConsumer
           WITH Nodes <- Receiving, Local <- {"L"}, Batch <- 2, MaxSteps <- 4, MaxLocal <- 2,
                MaxErrors <- 1, MaxRestarts <- 1
Lossy == INSTANCE TransfersConsumer
         WITH Nodes <- Reorganising, Local <- {}, Batch <- 2, MaxSteps <- 2, MaxLocal <- 0,
              MaxErrors <- 1, MaxRestarts <- 0
--------------------------------------------------------------------------------
\* Two consumers; a main chain of four blocks with a branch at height 1 and one
\* at height 2, so that a batch of two blocks ends inside, at and beyond a fork,
\* and a history of Dense = 2 thins out.
Watchers == <<"wallet", "watch">>
Genesis == "g"
NoBlock == "none"
Dense == 2
MainAndBranches == { <<"g", "a", "b", "c">>, <<"g", "a", "x">>, <<"g", "y", "z", "w", "v">> }
ShortChains == { <<"g", "a">>, <<"g", "y", "z">> }

Chain == INSTANCE BlockchainSynchronizer
         WITH Consumers <- Watchers, Batch <- 2, Chains <- MainAndBranches, Txs <- {},
              LocalTxs <- {}, MaxNode <- 2, MaxNodeErrors <- 1, MaxConsumerErrors <- 1,
              MaxCalls <- 2, MaxReads <- 0
Pool == INSTANCE BlockchainSynchronizer
        WITH Consumers <- Watchers, Batch <- 2, Chains <- ShortChains, Txs <- {"t1"},
             LocalTxs <- {}, MaxNode <- 2, MaxNodeErrors <- 1, MaxConsumerErrors <- 0,
             MaxCalls <- 2, MaxReads <- 1
Events == INSTANCE BlockchainSynchronizer
          WITH Consumers <- Watchers, Batch <- 2, Chains <- ShortChains, Txs <- {"t1"},
               LocalTxs <- {}, MaxNode <- 2, MaxNodeErrors <- 0, MaxConsumerErrors <- 0,
               MaxCalls <- 3, MaxReads <- 0
Tasks == INSTANCE BlockchainSynchronizer
         WITH Consumers <- Watchers, Batch <- 2, Chains <- {<<"g">>}, Txs <- {},
              LocalTxs <- {"l1", "l2"}, MaxNode <- 0, MaxNodeErrors <- 0, MaxConsumerErrors <- 1,
              MaxCalls <- 5, MaxReads <- 0
--------------------------------------------------------------------------------
Unused(x) == x = "unused"

QueueUnused == /\ Unused(popped) /\ Unused(refused) /\ Unused(todo) /\ Unused(pc)
               /\ Unused(haveData) /\ Unused(haveSpace)
ScanUnused == /\ Unused(block) /\ Unused(index) /\ Unused(pushing) /\ Unused(stopProcessing)
              /\ Unused(item) /\ Unused(error) /\ Unused(preprocessed)
              /\ Unused(main) /\ Unused(result) /\ Unused(delivered) /\ Unused(advanced)
              /\ Unused(faults)
ConsumerUnused == /\ Unused(node) /\ Unused(c) /\ Unused(lastBlock)
                  /\ Unused(asserted) /\ Unused(dead) /\ Unused(steps)
                  /\ Unused(sent) /\ Unused(errors) /\ Unused(restarts)
SyncUnused == /\ Unused(chain) /\ Unused(pool) /\ Unused(behind) /\ Unused(due)
              /\ Unused(inflight) /\ Unused(attached) /\ Unused(current) /\ Unused(future)
              /\ Unused(last) /\ Unused(response) /\ Unused(lastBlockId) /\ Unused(fed)
              /\ Unused(removeTasks) /\ Unused(addTasks) /\ Unused(promise) /\ Unused(completed)
              /\ Unused(stateLock) /\ Unused(consumersLock) /\ Unused(user) /\ Unused(reader)
              /\ Unused(nodeSteps) /\ Unused(nodeErrors) /\ Unused(consumerErrors)
              /\ Unused(calls) /\ Unused(reads)
LinesUnused == Unused(queue) /\ Unused(closed)
RecordUnused == Unused(known) /\ Unused(poolTxs)

queueVars == <<popped, refused, todo, pc, haveData, haveSpace>>
scanVars == <<block, index, pushing, stopProcessing, item, error, preprocessed, main,
              result, delivered, advanced, faults>>
consumerVars == <<node, c, lastBlock, asserted, dead, steps, sent, errors, restarts>>
syncVars == <<chain, pool, behind, due, inflight, attached, current, future, last, response,
              lastBlockId, fed, removeTasks, addTasks, promise, completed, stateLock,
              consumersLock, user, reader, nodeSteps, nodeErrors, consumerErrors, calls, reads>>
allVars == <<scenario, vars, scanVars, consumerVars, syncVars, worker, known, poolTxs>>

\* What a component starts from and leaves alone of the others.
NoQueue == QueueUnused /\ LinesUnused
OnlyQueue == ScanUnused /\ ConsumerUnused /\ SyncUnused /\ Unused(worker) /\ RecordUnused
OnlyScan == QueueUnused /\ ConsumerUnused /\ SyncUnused /\ RecordUnused
OnlyConsumer == NoQueue /\ ScanUnused /\ SyncUnused /\ Unused(worker)
OnlySync == NoQueue /\ ScanUnused /\ ConsumerUnused

InQueue == scenario = "queue" /\ UNCHANGED <<scenario, scanVars, consumerVars, syncVars, worker,
                                            known, poolTxs>>
InScan == scenario = "scan" /\ UNCHANGED <<scenario, queueVars, consumerVars, syncVars, known,
                                          poolTxs>>
InConsumer == UNCHANGED <<scenario, vars, scanVars, syncVars, worker>>
InSync == UNCHANGED <<scenario, vars, scanVars, consumerVars>>

MCInit == \/ scenario = "queue" /\ Init /\ OnlyQueue
          \/ scenario = "scan" /\ Scan!Init /\ OnlyScan
          \/ scenario = "reorg" /\ Reorg!Init /\ OnlyConsumer
          \/ scenario = "errors" /\ Failing!Init /\ OnlyConsumer
          \/ scenario = "chain" /\ Chain!Init /\ OnlySync
          \/ scenario = "pool" /\ Pool!Init /\ OnlySync
          \/ scenario = "events" /\ Events!Init /\ OnlySync
          \/ scenario = "tasks" /\ Tasks!Init /\ OnlySync

MCNext == \/ InQueue /\ Next
          \/ InScan /\ Scan!Next
          \/ scenario = "reorg" /\ Reorg!Next /\ InConsumer
          \/ scenario = "errors" /\ Failing!Next /\ InConsumer
          \/ scenario = "chain" /\ Chain!Next /\ InSync
          \/ scenario = "pool" /\ Pool!Next /\ InSync
          \/ scenario = "events" /\ Events!Next /\ InSync
          \/ scenario = "tasks" /\ Tasks!Next /\ InSync

\* The fair actions of BlockingQueue and NewBlocks, and of the synchronizer in
\* the scenarios that have a liveness property.
QueueThread(t) == InQueue /\ Step(t)
ScanPusher == InScan /\ Scan!Pusher
ScanMain == InScan /\ Scan!Main
ScanWorker(w) == InScan /\ Scan!Worker(w)
SyncWorker == InSync /\ \/ scenario = "chain" /\ Chain!Worker
                        \/ scenario = "events" /\ Events!Worker
SyncJoined == InSync /\ \/ scenario = "chain" /\ Chain!Joined
                        \/ scenario = "events" /\ Events!Joined
Announced(e) == InSync /\ scenario = "events" /\ Events!NodeNotifies(e)
Delivered(e) == InSync /\ scenario = "events" /\ Events!Deliver(e)

MCSpec == /\ MCInit /\ [][MCNext]_allVars
          /\ \A t \in Threads : WF_allVars(QueueThread(t))
          /\ WF_allVars(ScanPusher) /\ WF_allVars(ScanMain)
          /\ \A w \in {"w1", "w2"} : WF_allVars(ScanWorker(w))
          /\ WF_allVars(SyncWorker) /\ WF_allVars(SyncJoined)
          /\ \A e \in Events!Events : WF_allVars(Announced(e)) /\ WF_allVars(Delivered(e))

LossySpec == /\ scenario = "lossy" /\ Lossy!Init /\ OnlyConsumer
             /\ [][Lossy!Next /\ InConsumer]_allVars
--------------------------------------------------------------------------------
(* The properties of the components, each in its own scenario. *)

\* BlockingQueue implements ClosableQueue, and close(true) returns only once
\* the queue is empty.
QueueImplements ==
    /\ scenario = "queue" => Abstract!QueueInit
    /\ [][scenario = "queue" => Abstract!QueueNext \/ UNCHANGED Abstract!qvars]_allVars
    /\ [](scenario = "queue" => CloseWaitsForTheQueue)

\* A scan takes every transaction once, and delivers everything in the order
\* of the chain, or nothing.
ScanAllOrNothing == scenario = "scan" => Scan!TakenOnce /\ Scan!AllOrNothing



\* No money is lost or made: the outputs of the recorded chain are available or
\* spent, each once, every output kept belongs to a recorded transaction, and
\* the balance counts a key image at most once, and not once it is spent.
CollectionsAddUp ==
    /\ scenario \in {"reorg", "errors", "lossy"} => Reorg!CollectionsAddUp
    /\ scenario = "reorg" => Reorg!NoOrphans /\ Reorg!VisibleIsCurrent

\* The scenarios of the synchronizer.
Synchronizing == scenario \in {"chain", "pool", "events", "tasks"}


\* Success is reported only when every consumer has the block.
SuccessMeansProcessed ==
    [][/\ scenario \in {"pool", "events"}
       /\ worker = "poolTxs" /\ worker' # worker /\ completed' = "ok"
       => Chain!Holds(lastBlockId)]_allVars

\* Every accepted task is answered before the thread ends.
NoTaskLeftBehind == scenario = "tasks" => Tasks!NoTaskLeftBehind

\* stop() returns, whatever the thread was waiting for: no join lasts for ever.
StopReturns == []<>(scenario = "chain" => user # "joining")

\* Without failures a synchronizer that keeps running ends up on the node's
\* chain and with the node's pool.
EventuallySynchronised ==
    <>[](scenario = "events" /\ worker # "off" /\ future # "stopped" /\ ~behind)
        => <>[](scenario = "events" => Events!Synchronised)
================================================================================
