---------------------------- MODULE InProcessNode ----------------------------
(***************************************************************************)
(* lib/InProcessNode/InProcessNode.cpp: a wallet's view of the node in its *)
(* own process.  Requests are posted to ioService, whose handlers one      *)
(* thread runs.  Some handlers take the mutex again to look at the state   *)
(* (getNewBlocks, relayTransaction, ...); others ask the core at once      *)
(* (queryBlocks, getBlocks, ...).  The core reports its changes on the     *)
(* thread that made them, to the observers it had when it began to.        *)
(*                                                                         *)
(* What the core answers is left out: a handler answers, with what it got  *)
(* or with an error.                                                       *)
(***************************************************************************)
EXTENDS Naturals, Sequences

CONSTANTS
    Locking, Plain,  \* requests, by what their handlers do
    MaxSteps,        \* bound on the changes of the core's chain
    MaxInits         \* bound on calls of init

VARIABLES
    state, mutex,
    queue,           \* handlers that wait in ioService
    ioStopped,       \* ioService.stop() was called
    worker,          \* the handler that workerThread runs
    header,          \* lastLocalBlockHeaderInfo
    registered,      \* this is an observer of the core
    height,          \* the core's chain
    report,          \* the core's thread: reports a change
    answers,         \* what became of each request, and in which session
    user,            \* the thread that calls init and shutdown
    sessions

vars == <<state, mutex, queue, ioStopped, worker, header, registered, height, report, answers,
          user, sessions>>

All == Locking \cup Plain

Init ==
    /\ state = "not" /\ mutex = "free" /\ queue = <<>> /\ ioStopped = FALSE /\ worker = "none"
    /\ header = 0 /\ registered = FALSE /\ height = 1 /\ report = "none"
    /\ answers = [r \in All |-> "none"] /\ user = "idle" /\ sessions = 0

-----------------------------------------------------------------------------
\* init registers, then reads the last block, with the mutex held throughout.
init ==
    /\ user = "idle" /\ mutex = "free" /\ state = "not"
    /\ sessions < MaxInits /\ sessions' = sessions + 1
    /\ registered' = TRUE /\ mutex' = "user" /\ user' = "init"
    /\ UNCHANGED <<state, queue, ioStopped, worker, header, height, report, answers>>

\* Mutant: the last block is not read again; a report will bring it.
initializedWaits ==
    /\ user = "init" /\ worker' = "idle" /\ state' = "initialized"
    /\ mutex' = "free" /\ user' = "idle"
    /\ UNCHANGED <<queue, ioStopped, header, registered, height, report, answers, sessions>>

\* The second half, with updateLastLocalBlockHeaderInfo.
initialized ==
    /\ user = "init" /\ header' = height /\ worker' = "idle" /\ state' = "initialized"
    /\ mutex' = "free" /\ user' = "idle"
    /\ UNCHANGED <<queue, ioStopped, registered, height, report, answers, sessions>>

request(r) ==
    /\ answers[r] = "none" /\ mutex = "free"
    /\ IF state = "initialized"
       THEN answers' = [answers EXCEPT ![r] = "posted"] /\ queue' = Append(queue, r)
       ELSE answers' = [answers EXCEPT ![r] = "refused"] /\ UNCHANGED queue
    /\ UNCHANGED <<state, mutex, ioStopped, worker, header, registered, height, report, user,
                   sessions>>

\* doShutdown holds the mutex until the thread has ended.  Handlers that did not
\* start stay in ioService, and run if init is called again.
doShutdown ==
    /\ user = "idle" /\ mutex = "free" /\ state = "initialized"
    /\ registered' = FALSE /\ header' = 0 /\ state' = "not" /\ ioStopped' = TRUE
    /\ mutex' = "user" /\ user' = "joining"
    /\ UNCHANGED <<queue, worker, height, report, answers, sessions>>

shutdownReturns ==
    /\ user = "joining" /\ worker = "ended"
    /\ worker' = "none" /\ ioStopped' = FALSE /\ mutex' = "free" /\ user' = "idle"
    /\ UNCHANGED <<state, queue, header, registered, height, report, answers, sessions>>

-----------------------------------------------------------------------------
\* workerFunc: ioService.run() takes the next handler, or returns.
run ==
    /\ worker = "idle"
    /\ IF ioStopped THEN worker' = "ended" /\ UNCHANGED queue
       ELSE /\ queue # <<>> /\ worker' = Head(queue) /\ queue' = Tail(queue)
    /\ UNCHANGED <<state, mutex, ioStopped, header, registered, height, report, answers, user,
                   sessions>>

Answered(what) ==
    /\ answers' = [answers EXCEPT ![worker] = what] /\ worker' = "idle"
    /\ UNCHANGED <<state, mutex, queue, ioStopped, header, registered, height, report, user,
                   sessions>>

\* doGetNewBlocks, doGetTransactionOutsGlobalIndices, doGetRandomOutsByAmounts,
\* doRelayTransaction: the node may have been shut down meanwhile.
lockingHandler ==
    /\ worker \in Locking /\ mutex = "free"
    /\ Answered(IF state = "initialized" THEN "answered" ELSE "NOT_INITIALIZED")

\* doQueryBlocksLite, getPoolSymmetricDifferenceAsync and the rest ask the core.
plainHandler == worker \in Plain /\ Answered("answered")

handler == lockingHandler \/ plainHandler

\* The core's chain changes; whoever is an observer by then is told.
coreChanges ==
    /\ report = "none" /\ height <= MaxSteps /\ height' = height + 1
    /\ report' = IF registered THEN "blockchainUpdated" ELSE "none"
    /\ UNCHANGED <<state, mutex, queue, ioStopped, worker, header, registered, answers, user,
                   sessions>>

\* blockchainUpdated does not look at the state.
blockchainUpdated ==
    /\ report = "blockchainUpdated" /\ mutex = "free"
    /\ header' = height /\ report' = "none"
    /\ UNCHANGED <<state, mutex, queue, ioStopped, worker, registered, height, answers, user,
                   sessions>>

Next ==
    \/ init \/ initialized \/ doShutdown \/ shutdownReturns \/ run \/ handler
    \/ coreChanges \/ blockchainUpdated \/ \E r \in All : request(r)

Fairness == WF_vars(initialized) /\ WF_vars(shutdownReturns) /\ WF_vars(run) /\ WF_vars(handler)

Spec == Init /\ [][Next]_vars /\ Fairness

-----------------------------------------------------------------------------
\* A thread that asks for the last block gets the core's, unless a change is
\* being reported: none is missed around init.
HeaderIsCurrent == state = "initialized" /\ report = "none" => header = height

\* doShutdown joins a thread that waits for the mutex doShutdown holds.
Stuck == user = "joining" /\ worker \in Locking

\* No handler runs when shutdown has returned.
QuietAfterShutdown == state = "not" /\ mutex = "free" => worker = "none"
=============================================================================
