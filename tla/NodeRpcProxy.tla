----------------------------- MODULE NodeRpcProxy -----------------------------
(***************************************************************************)
(* lib/NodeRpcProxy/NodeRpcProxy.cpp: a wallet's view of a node in another *)
(* process.  The wallet's threads call init, shutdown and the requests,    *)
(* all of which hold m_mutex.  One thread of the proxy's own runs the      *)
(* contexts of a dispatcher: one that polls the node, one per request.     *)
(* The contexts take turns, so a context that waits for m_mutex stops all  *)
(* the others; they share one connection, and wait for it in turns.        *)
(*                                                                         *)
(* A block is its hash; what /getinfo says (heights, peers, fee) and the   *)
(* state of the connection are passed on to observers and left out here.   *)
(***************************************************************************)
EXTENDS Naturals, Sequences, FiniteSets

CONSTANTS
    Requests,     \* calls of relayTransaction, getNewBlocks, queryBlocks, ...
    NodeStates,   \* states of the node: [tail, pool]
    MaxSteps,     \* bound on the changes of the node
    MaxErrors,    \* bound on failed commands
    MaxInits      \* bound on calls of init

VARIABLES
    m_state, m_mutex, m_stop,
    thread,       \* m_workerThread
    spawned,      \* procedures given to the dispatcher by remoteSpawn
    m_httpEvent,  \* the context that uses the connection
    poll,         \* where the polling context is, and the block it was told
    tail,         \* lastLocalBlockHeaderInfo
    m_knownTxs,
    calls,        \* what became of each request
    user,         \* the thread that calls init and shutdown
    node, told,   \* the node, and what the observers were last told
    steps, errors, inits

counters == <<steps, errors, inits>>
vars == <<m_state, m_mutex, m_stop, thread, spawned, m_httpEvent, poll, tail, m_knownTxs,
          calls, user, node, told, counters>>

NotRunning == [at |-> "none", tail |-> "none"]

Init ==
    /\ m_state = "not" /\ m_mutex = "free" /\ m_stop = FALSE
    /\ thread = "none" /\ spawned = <<>> /\ m_httpEvent = "free" /\ poll = NotRunning
    /\ tail = "none" /\ m_knownTxs = {} /\ calls = [r \in Requests |-> "none"]
    /\ user = "idle" /\ node \in NodeStates /\ told = [tail |-> "none", pool |-> {}]
    /\ steps = 0 /\ errors = 0 /\ inits = 0

NodeChanges ==
    /\ steps < MaxSteps /\ steps' = steps + 1
    /\ node' \in NodeStates \ {node}
    /\ UNCHANGED <<m_state, m_mutex, m_stop, thread, spawned, m_httpEvent, poll, tail,
                   m_knownTxs, calls, user, told, errors, inits>>

-----------------------------------------------------------------------------
(***************************************************************************)
(* The wallet's threads.                                                   *)
(***************************************************************************)
init ==
    /\ user = "idle" /\ m_mutex = "free" /\ m_state = "not"
    /\ inits < MaxInits /\ inits' = inits + 1
    /\ m_state' = "initializing" /\ m_stop' = FALSE /\ tail' = "none" /\ m_knownTxs' = {}
    /\ thread' = "starting" /\ told' = [tail |-> "none", pool |-> {}]
    /\ UNCHANGED <<m_mutex, spawned, m_httpEvent, poll, calls, user, node, steps, errors>>

\* A request: refused, or left to the dispatcher (scheduleRequest).
request(r) ==
    /\ calls[r] = "none" /\ m_mutex = "free"
    /\ IF m_state = "initialized"
       THEN calls' = [calls EXCEPT ![r] = "spawned"] /\ spawned' = Append(spawned, r)
       ELSE calls' = [calls EXCEPT ![r] = "refused"] /\ UNCHANGED spawned
    /\ UNCHANGED <<m_state, m_mutex, m_stop, thread, m_httpEvent, poll, tail, m_knownTxs, user,
                   node, told, counters>>

\* Mutant: the thread is not waited for.
shutdownDetaches ==
    /\ user = "idle" /\ m_mutex = "free" /\ m_state = "initialized"
    /\ spawned' = Append(spawned, "stop") /\ m_state' = "not"
    /\ UNCHANGED <<m_mutex, m_stop, thread, m_httpEvent, poll, tail, m_knownTxs, calls, user,
                   node, told, counters>>

\* While the thread starts, the condition variable gives the mutex back.
shutdown ==
    /\ user = "idle" /\ m_mutex = "free" /\ m_state = "initialized"
    /\ spawned' = Append(spawned, "stop") /\ m_mutex' = "shutdown" /\ user' = "joining"
    /\ UNCHANGED <<m_state, m_stop, thread, m_httpEvent, poll, tail, m_knownTxs, calls, node,
                   told, counters>>

shutdownReturns ==
    /\ user = "joining" /\ thread = "ended"
    /\ user' = "idle" /\ thread' = "none" /\ m_state' = "not" /\ m_mutex' = "free"
    /\ UNCHANGED <<m_stop, spawned, m_httpEvent, poll, tail, m_knownTxs, calls, node, told,
                   counters>>

-----------------------------------------------------------------------------
(***************************************************************************)
(* The proxy's thread.                                                     *)
(***************************************************************************)
Blocked == poll.at \in {"header", "height"}
Runs == thread = "running" /\ ~Blocked

workerThread ==
    /\ thread = "starting" /\ m_mutex = "free"
    /\ m_state' = "initialized" /\ thread' = "running"
    /\ poll' = [NotRunning EXCEPT !.at = "getlastblockheader"]
    /\ UNCHANGED <<m_mutex, m_stop, spawned, m_httpEvent, tail, m_knownTxs, calls, user, node,
                   told, counters>>

\* The dispatcher starts what was spawned; a request that finds m_stop set is
\* answered at once.
runSpawned ==
    /\ Runs /\ spawned # <<>> /\ spawned' = Tail(spawned)
    /\ LET p == Head(spawned) IN
       /\ m_stop' = (m_stop \/ p = "stop")
       /\ calls' = IF p = "stop" THEN calls
                   ELSE [calls EXCEPT ![p] = IF m_stop THEN "canceled" ELSE "waiting"]
    /\ UNCHANGED <<m_state, m_mutex, thread, m_httpEvent, poll, tail, m_knownTxs, user, node,
                   told, counters>>

\* EventLock: a context takes the connection and sends its command.
Commands == {"getlastblockheader", "getinfo", "get_pool_changes_lite"}
Wants(x) == IF x = "poll" THEN poll.at \in Commands ELSE calls[x] = "waiting"

EventLock(x) ==
    /\ Runs /\ m_httpEvent = "free" /\ Wants(x) /\ m_httpEvent' = x
    /\ UNCHANGED <<m_state, m_mutex, m_stop, thread, spawned, poll, tail, m_knownTxs, calls,
                   user, node, told, counters>>

\* Mutant: a command that fails keeps the connection.
requestAnsweredKeepsLock(r, ok) ==
    /\ Runs /\ m_httpEvent = r /\ m_httpEvent' = IF ok THEN "free" ELSE r
    /\ calls[r] = "waiting"
    /\ ok \/ errors < MaxErrors
    /\ errors' = IF ok THEN errors ELSE errors + 1
    /\ calls' = [calls EXCEPT ![r] = IF m_stop THEN "canceled" ELSE IF ok THEN "ok" ELSE "failed"]
    /\ UNCHANGED <<m_state, m_mutex, m_stop, thread, spawned, poll, tail, m_knownTxs, user, node,
                   told, steps, inits>>

\* The answer to a request, or the failure of its command.
requestAnswered(r, ok) ==
    /\ Runs /\ m_httpEvent = r /\ m_httpEvent' = "free"
    /\ ok \/ errors < MaxErrors
    /\ errors' = IF ok THEN errors ELSE errors + 1
    /\ calls' = [calls EXCEPT ![r] = IF m_stop THEN "canceled" ELSE IF ok THEN "ok" ELSE "failed"]
    /\ UNCHANGED <<m_state, m_mutex, m_stop, thread, spawned, poll, tail, m_knownTxs, user, node,
                   told, steps, inits>>

\* jsonRpcCommand, jsonCommand, binaryCommand of the poll fail: the next command
\* is tried all the same.
commandFails ==
    /\ Runs /\ m_httpEvent = "poll" /\ m_httpEvent' = "free"
    /\ errors < MaxErrors /\ errors' = errors + 1
    /\ poll' = [poll EXCEPT !.at = CASE @ = "getlastblockheader" -> "getinfo"
                                     [] @ = "getinfo" -> "get_pool_changes_lite"
                                     [] OTHER -> "sleep"]
    /\ UNCHANGED <<m_state, m_mutex, m_stop, thread, spawned, tail, m_knownTxs, calls, user, node,
                   told, steps, inits>>

\* updateBlockchainStatus: the two answers, and what is done with m_mutex held.
blockchainAnswer ==
    /\ Runs /\ m_httpEvent = "poll" /\ m_httpEvent' = "free"
    /\ \/ poll.at = "getlastblockheader" /\ poll' = [at |-> "header", tail |-> node.tail]
       \/ poll.at = "getinfo" /\ poll' = [poll EXCEPT !.at = "height"]
    /\ UNCHANGED <<m_state, m_mutex, m_stop, thread, spawned, tail, m_knownTxs, calls, user, node,
                   told, counters>>

updateBlockchainStatus ==
    /\ Blocked /\ m_mutex = "free"
    /\ IF poll.at = "header"
       THEN /\ tail' = poll.tail
            /\ told' = [told EXCEPT !.tail = IF tail # poll.tail THEN poll.tail ELSE @]
            /\ poll' = [at |-> "getinfo", tail |-> "none"]
       ELSE poll' = [poll EXCEPT !.at = "get_pool_changes_lite"] /\ UNCHANGED <<tail, told>>
    /\ UNCHANGED <<m_state, m_mutex, m_stop, thread, spawned, m_httpEvent, m_knownTxs, calls, user,
                   node, counters>>

\* Mutant: what left the node's pool is not forgotten, nor reported.
updatePoolStateAdds(pool) ==
    /\ m_knownTxs' = m_knownTxs \cup pool
    /\ told' = [told EXCEPT !.pool = IF pool \subseteq m_knownTxs THEN @ ELSE m_knownTxs \cup pool]

\* updatePoolState with what is new and what is gone, and poolChanged if either
\* is not empty.
updatePoolState(pool) ==
    /\ m_knownTxs' = pool
    /\ told' = [told EXCEPT !.pool = IF pool # m_knownTxs THEN pool ELSE @]

\* updatePoolStatus, and the loop of updateNodeStatus, which starts again when
\* the node has another last block and does not look at m_stop.
updatePoolStatus ==
    /\ Runs /\ m_httpEvent = "poll" /\ m_httpEvent' = "free" /\ poll.at = "get_pool_changes_lite"
    /\ IF tail # node.tail
       THEN /\ poll' = [poll EXCEPT !.at = "getlastblockheader"]
            /\ UNCHANGED <<m_knownTxs, told>>
       ELSE /\ poll' = [poll EXCEPT !.at = "sleep"]
            /\ updatePoolState(node.pool)
    /\ UNCHANGED <<m_state, m_mutex, m_stop, thread, spawned, tail, calls, user, node, counters>>

\* The pause between two polls ends, and with m_stop the context.
pullTimer ==
    /\ Runs /\ poll.at = "sleep"
    /\ poll' = [poll EXCEPT !.at = IF m_stop THEN "done" ELSE "getlastblockheader"]
    /\ UNCHANGED <<m_state, m_mutex, m_stop, thread, spawned, m_httpEvent, tail, m_knownTxs, calls,
                   user, node, told, counters>>

\* contextGroup.wait() is over; the last remote spawns run, and find m_stop set.
threadEnds ==
    /\ Runs /\ poll.at = "done" /\ \A r \in Requests : calls[r] # "waiting"
    /\ calls' = [r \in Requests |-> IF calls[r] = "spawned" THEN "canceled" ELSE calls[r]]
    /\ spawned' = <<>> /\ thread' = "ended" /\ poll' = NotRunning
    /\ UNCHANGED <<m_state, m_mutex, m_stop, m_httpEvent, tail, m_knownTxs, user, node, told,
                   counters>>

-----------------------------------------------------------------------------
Polling ==
    \/ workerThread \/ EventLock("poll") \/ blockchainAnswer \/ updateBlockchainStatus
    \/ updatePoolStatus \/ pullTimer \/ threadEnds

Next ==
    \/ NodeChanges \/ init \/ shutdown \/ shutdownReturns \/ Polling \/ commandFails \/ runSpawned
    \/ \E r \in Requests : \/ request(r) \/ EventLock(r)
                            \/ \E ok \in BOOLEAN : requestAnswered(r, ok)

\* The dispatcher serves every context, every command is answered or fails, and
\* join returns.  What is spawned starts when the poll waits for the node, and a
\* request gets the connection when the poll sleeps: both are enabled again and
\* again, not always (SF).
Fairness ==
    /\ WF_vars(Polling) /\ SF_vars(runSpawned) /\ WF_vars(shutdownReturns)
    /\ \A r \in Requests : WF_vars(requestAnswered(r, TRUE)) /\ SF_vars(EventLock(r))

Spec == Init /\ [][Next]_vars /\ Fairness

-----------------------------------------------------------------------------
\* Nothing of the proxy's is left when shutdown has returned: no thread, no
\* procedure that was spawned, no request without an answer.
SilentAfterShutdown ==
    m_state = "not" =>
        /\ thread = "none" /\ spawned = <<>> /\ m_httpEvent = "free"
        /\ \A r \in Requests : calls[r] \notin {"spawned", "waiting"}

\* shutdown holds m_mutex while it joins the thread, and updateBlockchainStatus
\* waits for m_mutex.
Stuck == Blocked /\ m_mutex = "shutdown"
Pending == \E r \in Requests : calls[r] \in {"spawned", "waiting"}

\* As long as it runs, the proxy tells its observers of the node's last block
\* and of its pool.
Informed == told = node
=============================================================================
