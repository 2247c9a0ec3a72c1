------------------------------- MODULE MCNode -------------------------------
(***************************************************************************)
(* What stands around the core and the wallet, one part per behaviour: the *)
(* proxy of a node in another process ("proxy"), the node in the same      *)
(* process ("inprocess"), the miner ("miner"), the file of a wallet        *)
(* ("vector" alone, "container" as a wallet uses it), and what the core    *)
(* keeps beside its chain, with upgrades that are voted for ("votes") and  *)
(* at a fixed height ("fixed").                                            *)
(***************************************************************************)
EXTENDS Naturals, Sequences

VARIABLES scenario, user,
          m_state, m_mutex, m_stop, thread, spawned, m_httpEvent, poll, tail, m_knownTxs, calls,
          node, told, steps, errors, inits,
          state, mutex, queue, ioStopped, worker, header, registered, height, report, answers,
          sessions,
          stopFlag, m_threads, threadsLock, m_template, changed, m_pausers_count, top, at, draft,
          work, overtaken, callCount, failures,
          files, mapped, op, renameErrors, crashes, wallets, m_password, covered, task,
          chain, alternatives, m_paymentIdIndex, m_timestampIndex, m_generatedTransactionsIndex,
          m_orphanBlocksIndex, m_votingCompleteHeight, asserted, indicesFile, restarts

proxyVars == <<m_state, m_mutex, m_stop, thread, spawned, m_httpEvent, poll, tail, m_knownTxs,
               calls, node, told, steps, errors, inits>>
processVars == <<state, mutex, queue, ioStopped, worker, header, registered, height, report,
                 answers, sessions>>
minerVars == <<stopFlag, m_threads, threadsLock, m_template, changed, m_pausers_count, top, at,
               draft, work, overtaken, callCount, failures>>
fileVars == <<files, mapped, op, renameErrors, crashes, wallets, m_password, covered, task>>
chainVars == <<chain, alternatives, m_paymentIdIndex, m_timestampIndex,
               m_generatedTransactionsIndex, m_orphanBlocksIndex, m_votingCompleteHeight,
               asserted, indicesFile, restarts>>
vars == <<scenario, user, proxyVars, processVars, minerVars, fileVars, chainVars>>

Unused(x) == x = "unused"
UnusedProxy ==
    /\ Unused(m_state) /\ Unused(m_mutex) /\ Unused(m_stop) /\ Unused(thread) /\ Unused(spawned)
    /\ Unused(m_httpEvent) /\ Unused(poll) /\ Unused(tail) /\ Unused(m_knownTxs)
    /\ Unused(calls) /\ Unused(node) /\ Unused(told) /\ Unused(steps) /\ Unused(errors)
    /\ Unused(inits)
UnusedProcess ==
    /\ Unused(state) /\ Unused(mutex) /\ Unused(queue) /\ Unused(ioStopped) /\ Unused(worker)
    /\ Unused(header) /\ Unused(registered) /\ Unused(height) /\ Unused(report)
    /\ Unused(answers) /\ Unused(sessions)
UnusedMiner ==
    /\ Unused(stopFlag) /\ Unused(m_threads) /\ Unused(threadsLock) /\ Unused(m_template)
    /\ Unused(changed) /\ Unused(m_pausers_count) /\ Unused(top) /\ Unused(at) /\ Unused(draft)
    /\ Unused(work) /\ Unused(overtaken) /\ Unused(callCount) /\ Unused(failures)
UnusedWallet == Unused(wallets) /\ Unused(m_password) /\ Unused(covered) /\ Unused(task)
UnusedFile ==
    /\ Unused(files) /\ Unused(mapped) /\ Unused(op) /\ Unused(renameErrors) /\ Unused(crashes)
    /\ UnusedWallet
UnusedChain ==
    /\ Unused(chain) /\ Unused(alternatives) /\ Unused(m_paymentIdIndex)
    /\ Unused(m_timestampIndex) /\ Unused(m_generatedTransactionsIndex)
    /\ Unused(m_orphanBlocksIndex) /\ Unused(m_votingCompleteHeight) /\ Unused(asserted)
    /\ Unused(indicesFile) /\ Unused(restarts)

-----------------------------------------------------------------------------
\* Two calls at a time; the node gets a block and loses a transaction, or the
\* reverse.
Proxy == INSTANCE NodeRpcProxy
    WITH Requests <- {"r1", "r2"},
         NodeStates <- {[tail |-> "b1", pool |-> {}], [tail |-> "b1", pool |-> {"t1"}],
                        [tail |-> "b2", pool |-> {}]},
         MaxSteps <- 2, MaxErrors <- 1, MaxInits <- 2

Process == INSTANCE InProcessNode
    WITH Locking <- {"r1", "r2"}, Plain <- {"r3"}, MaxSteps <- 3, MaxInits <- 2

Mining == INSTANCE Miner
    WITH m_stop <- stopFlag, Workers <- {"w1", "w2"}, MaxTail <- 2, MaxCalls <- 2, MaxErrors <- 1

File == INSTANCE WalletContainer
    WITH errors <- renameErrors, Keys <- {"k1", "k2"}, Passwords <- {"p1", "p2"}, MaxSize <- 2,
         Capacity <- 1, MaxErrors <- 2, MaxCrashes <- 1

\* Two branches of five and six blocks from a1, one of which votes for the
\* upgrade; a block of the next version on either; and one of the old version.
Genesis == "g"
Blocks == {"a1", "a2", "a3", "a4", "a5", "b2", "b3", "b4", "b5", "c4", "c5", "c6"}
Parent == [a1 |-> "g", a2 |-> "a1", a3 |-> "a2", a4 |-> "a3", a5 |-> "a4", b2 |-> "a1",
           b3 |-> "b2", b4 |-> "b3", b5 |-> "b4", c4 |-> "b3", c5 |-> "c4", c6 |-> "c5"]
Height == [g |-> 0, a1 |-> 1, a2 |-> 2, a3 |-> 3, a4 |-> 4, a5 |-> 5, b2 |-> 2, b3 |-> 3,
           b4 |-> 4, b5 |-> 5, c4 |-> 4, c5 |-> 5, c6 |-> 6]
Timestamp == [b \in Blocks \cup {Genesis} |-> Height[b] \div 2]
Major == [b \in Blocks \cup {Genesis} |-> IF b \in {"a5", "b5", "c6"} THEN 2 ELSE 1]
Minor == [b \in Blocks \cup {Genesis} |-> IF b \in {"a2", "a3", "b2", "c4", "c5"} THEN 1 ELSE 0]
Payments == [b \in Blocks \cup {Genesis} |->
                IF b \in {"a2", "b3"} THEN << <<"p", "t1">>, <<"p", "t2">> >> ELSE <<>>]
TxCount == [b \in Blocks \cup {Genesis} |-> IF b \in {"a2", "b3"} THEN 2 ELSE 0]
TargetVersion == 2
UpgradeVotingWindow == 2
UpgradeVotingThreshold == 100
UpgradeWindow == 1
UNDEF_HEIGHT == 99
MaxRestarts == 2

Votes == INSTANCE BlockchainIndices WITH FixedHeight <- UNDEF_HEIGHT
Fixed == INSTANCE BlockchainIndices WITH FixedHeight <- 4

-----------------------------------------------------------------------------
Init ==
    \/ scenario = "proxy" /\ Proxy!Init
       /\ UnusedProcess /\ UnusedMiner /\ UnusedFile /\ UnusedChain
    \/ scenario = "inprocess" /\ Process!Init
       /\ UnusedProxy /\ UnusedMiner /\ UnusedFile /\ UnusedChain
    \/ /\ Unused(user) /\ UnusedProxy /\ UnusedProcess
       /\ \/ scenario = "miner" /\ Mining!MinerInit /\ UnusedFile /\ UnusedChain
          \/ scenario = "vector" /\ File!VectorInit /\ UnusedWallet /\ UnusedMiner /\ UnusedChain
          \/ scenario = "container" /\ File!ContainerInit /\ UnusedMiner /\ UnusedChain
          \/ scenario = "votes" /\ Votes!ChainInit /\ UnusedMiner /\ UnusedFile
          \/ scenario = "fixed" /\ Fixed!ChainInit /\ UnusedMiner /\ UnusedFile

InProxy ==
    scenario = "proxy" /\ UNCHANGED <<scenario, processVars, minerVars, fileVars, chainVars>>
InProcess ==
    scenario = "inprocess" /\ UNCHANGED <<scenario, proxyVars, minerVars, fileVars, chainVars>>
InMiner ==
    scenario = "miner" /\ UNCHANGED <<scenario, user, proxyVars, processVars, fileVars, chainVars>>
InFile == UNCHANGED <<scenario, user, proxyVars, processVars, minerVars, chainVars>>
InChain == UNCHANGED <<scenario, user, proxyVars, processVars, minerVars, fileVars>>

Next ==
    \/ InProxy /\ Proxy!Next
    \/ InProcess /\ Process!Next
    \/ InMiner /\ Mining!MinerNext
    \/ scenario = "vector" /\ File!VectorNext /\ UNCHANGED <<wallets, m_password, covered, task>>
       /\ InFile
    \/ scenario = "container" /\ File!ContainerNext /\ InFile
    \/ scenario = "votes" /\ Votes!ChainNext /\ InChain
    \/ scenario = "fixed" /\ Fixed!ChainNext /\ InChain

Fairness ==
    /\ WF_vars(InProxy /\ Proxy!Polling) /\ SF_vars(InProxy /\ Proxy!runSpawned)
    /\ WF_vars(InProxy /\ Proxy!shutdownReturns)
    /\ \A r \in {"r1", "r2"} : /\ WF_vars(InProxy /\ Proxy!requestAnswered(r, TRUE))
                               /\ SF_vars(InProxy /\ Proxy!EventLock(r))
    /\ WF_vars(InProcess /\ Process!initialized) /\ WF_vars(InProcess /\ Process!shutdownReturns)
    /\ WF_vars(InProcess /\ Process!run) /\ WF_vars(InProcess /\ Process!handler)
    /\ WF_vars(InMiner /\ Mining!on_idle)
    /\ \A a \in {"dispatcher", "console"} : WF_vars(InMiner /\ Mining!Continues(a))
    /\ \A w \in {"w1", "w2"} : WF_vars(InMiner /\ Mining!worker_thread(w))

Spec == Init /\ [][Next]_vars /\ Fairness

-----------------------------------------------------------------------------
\* shutdown leaves nothing behind that could still call back: NodeRpcProxy::shutdown
\* and InProcessNode::doShutdown join their threads.  And a thread that asks
\* InProcessNode for the last block gets the core's: no change is missed around
\* init and shutdown (init, blockchainUpdated).  The miner's threads are all joined
\* by the next start or stop, a hash is compared with the difficulty of its own
\* template, and pauses are undone (miner::start, worker_thread, pause, resume).
NodeSound ==
    /\ scenario = "proxy" => Proxy!SilentAfterShutdown
    /\ scenario = "inprocess" => Process!QuietAfterShutdown /\ Process!HeaderIsCurrent
    /\ scenario = "miner" => Mining!WorkersSound

\* A wallet loses no address, whenever its process dies: FileMappedVector's
\* operations are atomic ("It is slow but atomic operation"), and between two calls the
\* wallet has the addresses and the password of its file, and knows or scans
\* for the transactions of each (WalletGreen's load, addWallet, deleteAddress).
StorageSound ==
    /\ scenario \in {"vector", "container"} => File!OperationsAtomic
    /\ scenario = "container" => File!ContainerMatchesFile


\* Every request that was accepted is answered, and shutdown and stop return,
\* unless the thread waits for the mutex that shutdown holds (NodeRpcProxy::shutdown,
\* InProcessNode::doShutdown), or a start overtook the stop (miner::start); what
\* InProcessNode has not begun when it is shut down waits for the next init.
CallsReturn ==
    []<>CASE scenario = "proxy" -> Proxy!Stuck \/ (~Proxy!Pending /\ user # "joining")
          [] scenario = "inprocess" ->
               \/ Process!Stuck
               \/ user # "joining" /\ (state = "not" \/ (queue = <<>> /\ worker = "idle"))
          [] scenario = "miner" -> Mining!Overtaken \/ Mining!Returned
          [] OTHER -> TRUE

\* What follows the chain catches up with it.  Once initialized, the proxy
\* tells its observers of the node's last block and pool, whatever commands fail
\* (updateNodeStatus); while it mines, every worker gets to the template behind
\* the last block, whatever templates came in the wrong order (on_idle).
CatchesUp ==
    /\ <>[](scenario = "proxy" => user # "idle" \/ m_state # "initialized" \/ Proxy!Informed)
    /\ <>[](scenario = "miner" => stopFlag \/ Mining!Overtaken \/ Mining!MinesForTop)
=============================================================================
