----------------------------- MODULE Blockchain -----------------------------
(***************************************************************************)
(* The block store of a node (lib/CryptoNoteCore/Blockchain.cpp): the main *)
(* chain, the indexes derived from it, the alternative chains and the      *)
(* reorganisation, together with the part of the transaction pool they     *)
(* move transactions to and from, and what survives a restart.             *)
(*                                                                         *)
(* addNewBlock holds both the pool lock and m_blockchain_lock for the      *)
(* whole operation, so no other operation interleaves with it.  A push is  *)
(* one step.  A reorganisation is one step per block popped or pushed:     *)
(* m_blocks is a file that every pop and push rewrites, and the process    *)
(* may die between two of them.                                            *)
(*                                                                         *)
(* A block stands for its hash.  Its miner transaction is named by the     *)
(* block itself.  Every transaction has one key output, all of one amount, *)
(* so that m_outputs is one sequence.                                      *)
(***************************************************************************)
EXTENDS Checkpoints, SequencesExt

CONSTANTS
  Blocks,                \* every block the node may ever receive
  Genesis,               \* m_currency.genesisBlock()
  Ancestry,              \* Ancestry[b]: the blocks from Genesis to b that
                         \* the previousBlockHash fields spell
  CumulativeDifficulty,  \* of the chain that ends in a block
  Txs,                   \* transactions other than miner transactions
  BlockTxs,              \* BlockTxs[b]: transactionHashes of b
  KeyImagesOf,           \* KeyImagesOf[t]: key images of the inputs of t
  Refs,                  \* Refs[t]: blocks whose outputs the rings of t use
  TxSize,                \* TxSize[t]: blob size of t
  MinerTxSize,           \* blob size of a miner transaction
  MaxBlockSize,          \* m_currency.maxBlockCumulativeSize
  BadHeader,             \* blocks whose version, timestamp or miner
                         \* transaction prevalidation fails
  WeakProofOfWork,       \* blocks whose hash misses the difficulty
  BadReward,             \* blocks that fail validate_miner_transaction
  Improbable,            \* heads of chains that fail the Poisson check
  PoissonCheckTrigger,   \* POISSON_CHECK_TRIGGER
  StaticCheckpoints,     \* the checkpoints of the release
  DnsCheckpoints,        \* the checkpoints that DNS records may announce
  MaxRestarts            \* bound on the number of times the process stops

VARIABLES
  m_blocks,              \* the main chain: a file, it survives a crash
  m_transactionMap,      \* transaction -> TransactionIndex
  m_spent_keys,          \* key images spent by the main chain
  m_outputs,             \* the outputs, in the order of their global index
  m_alternative_chains,  \* blocks known off the main chain
  m_points,              \* the checkpoints in force
  pool,                  \* ids of the transactions of the pool
  sw,                    \* the reorganisation in progress
  disk,                  \* the cache file and the pool file
  running,               \* the process is up
  restarts

index == <<m_transactionMap, m_spent_keys, m_outputs>>
memory == <<index, m_alternative_chains, m_points, pool, sw>>
vars == <<m_blocks, memory, disk, running, restarts>>

-----------------------------------------------------------------------------
Height(b) == Len(Ancestry[b]) - 1

previousBlockHash(b) == Ancestry[b][Len(Ancestry[b]) - 1]

TxsOf(b) == Range(BlockTxs[b])

KeysOf(b) == UNION {KeyImagesOf[t] : t \in TxsOf(b)}

ASSUME BlockchainAssumption ==
  /\ Genesis \in Blocks
  /\ Blocks \cap Txs = {}
  /\ Ancestry \in [Blocks -> Seq(Blocks) \ {<<>>}]
  /\ \A b \in Blocks :
       /\ Ancestry[b][1] = Genesis
       /\ Last(Ancestry[b]) = b
       /\ \A i \in 1 .. Len(Ancestry[b]) :
            Ancestry[Ancestry[b][i]] = SubSeq(Ancestry[b], 1, i)
  /\ CumulativeDifficulty \in [Blocks -> Nat]
  /\ BlockTxs \in [Blocks -> Seq(Txs)]
  /\ BlockTxs[Genesis] = <<>>
  /\ DOMAIN KeyImagesOf = Txs
  /\ \A t \in Txs : KeyImagesOf[t] # {}
  /\ DOMAIN StaticCheckpoints \subseteq Nat
  /\ DOMAIN DnsCheckpoints \subseteq Nat
  /\ PoissonCheckTrigger \in Nat
  /\ MaxRestarts \in Nat

(***************************************************************************)
(* get_next_difficulty never yields zero for an accepted block.            *)
(***************************************************************************)
ASSUME DifficultyAssumption ==
  \A b \in Blocks \ {Genesis} :
    CumulativeDifficulty[previousBlockHash(b)] < CumulativeDifficulty[b]

-----------------------------------------------------------------------------
(***************************************************************************)
(* What a block contributes to the indexes.  A TransactionIndex is the     *)
(* height of a block and a position in it; position 0 is the miner         *)
(* transaction.                                                            *)
(***************************************************************************)
TransactionIndexes(b) ==
  [i \in 1 .. (1 + Len(BlockTxs[b])) |->
     [block |-> Height(b), transaction |-> i - 1]]

IndexOf(b) ==
  [x \in {b} \cup TxsOf(b) |->
     [block |-> Height(b),
      transaction |-> IF x = b THEN 0
                      ELSE CHOOSE i \in DOMAIN BlockTxs[b] : BlockTxs[b][i] = x]]

(***************************************************************************)
(* popTransaction removes an output only when it is the last one: on a     *)
(* mismatch it logs "Blockchain consistency broken" and goes on.           *)
(***************************************************************************)
PopOutputs(outputs, b) ==
  FoldRight(LAMBDA i, outs : IF outs # <<>> /\ Last(outs) = i
                             THEN Front(outs) ELSE outs,
            TransactionIndexes(b), outputs)

(***************************************************************************)
(* rebuildCache: the indexes of a chain, computed from nothing.            *)
(***************************************************************************)
RebuiltMap(chain) ==
  [x \in UNION {{b} \cup TxsOf(b) : b \in Range(chain)} |->
     IndexOf(CHOOSE b \in Range(chain) : x \in {b} \cup TxsOf(b))[x]]

RebuiltSpentKeys(chain) == UNION {KeysOf(b) : b \in Range(chain)}

RebuiltOutputs(chain) ==
  FlattenSeq([i \in DOMAIN chain |-> TransactionIndexes(chain[i])])

NotSwitching ==
  [pc |-> "idle", alt |-> <<>>, next |-> 1, old |-> <<>>, discard |-> FALSE]

NoCache == [saved |-> FALSE, tail |-> Genesis, map |-> <<>>,
            spent |-> {}, outputs |-> <<>>]

Init ==
  /\ m_blocks = <<Genesis>>
  /\ m_transactionMap = IndexOf(Genesis)
  /\ m_spent_keys = {}
  /\ m_outputs = TransactionIndexes(Genesis)
  /\ m_alternative_chains = {}
  /\ m_points = StaticCheckpoints
  /\ pool = {}
  /\ sw = NotSwitching
  /\ disk = [cache |-> NoCache, pool |-> {}]
  /\ running = TRUE
  /\ restarts = 0

-----------------------------------------------------------------------------
(***************************************************************************)
(* Queries.                                                                *)
(***************************************************************************)
getTailId == Last(m_blocks)

haveBlock(b) == b \in Range(m_blocks) \/ b \in m_alternative_chains

isInCheckpointZone == is_in_checkpoint_zone(m_points, Len(m_blocks))

\* Mutant: spent key images are not looked up.
checkTransactionInputsRingsOnly(t) ==
  isInCheckpointZone \/ Refs[t] \subseteq Range(m_blocks)

(***************************************************************************)
(* In the checkpoint zone the rings are not looked at.                     *)
(***************************************************************************)
checkTransactionInputs(t) ==
  /\ KeyImagesOf[t] \cap m_spent_keys = {}
  /\ isInCheckpointZone \/ Refs[t] \subseteq Range(m_blocks)

CumulativeSize(b, known) ==
  MinerTxSize + MapThenSumSet(LAMBDA t : TxSize[t], TxsOf(b) \cap known)

checkCumulativeBlockSize(b, known) == CumulativeSize(b, known) <= MaxBlockSize

Idle == running /\ sw.pc = "idle"

-----------------------------------------------------------------------------
(***************************************************************************)
(* pushBlock.                                                              *)
(*                                                                         *)
(* loadTransactions takes the transactions of the block out of the pool,   *)
(* one after the other, up to the first one that is not there.             *)
(***************************************************************************)
Loadable(b) ==
  {i \in DOMAIN BlockTxs[b] :
     \A j \in 1 .. i : /\ BlockTxs[b][j] \in pool
                       /\ \A k \in 1 .. (j - 1) : BlockTxs[b][k] # BlockTxs[b][j]}

Loaded(b) == Loadable(b) = DOMAIN BlockTxs[b]

\* Mutant: the proof of work is checked where a checkpoint should be.
HeaderAcceptedOnProofOfWork(b) ==
  /\ b \notin Range(m_blocks)
  /\ b \notin BadHeader
  /\ previousBlockHash(b) = getTailId
  /\ b \notin WeakProofOfWork

HeaderAccepted(b) ==
  /\ b \notin Range(m_blocks)
  /\ b \notin BadHeader
  /\ previousBlockHash(b) = getTailId
  /\ IF isInCheckpointZone THEN check_block(m_points, Len(m_blocks), b)
                           ELSE b \notin WeakProofOfWork

(***************************************************************************)
(* The inputs of a transaction are checked after the earlier transactions  *)
(* of the block have marked their key images.                              *)
(***************************************************************************)
InputsAccepted(b) ==
  \A i \in DOMAIN BlockTxs[b] :
    /\ checkTransactionInputs(BlockTxs[b][i])
    /\ \A j \in 1 .. (i - 1) :
         KeyImagesOf[BlockTxs[b][i]] \cap KeyImagesOf[BlockTxs[b][j]] = {}

(***************************************************************************)
(* pushTransaction for the miner transaction and the others.  The result   *)
(* of pushTransaction is ignored; the map keeps an entry that it has.      *)
(***************************************************************************)
PushTransactions(b) ==
  /\ m_transactionMap' = Insert(m_transactionMap, IndexOf(b))
  /\ m_spent_keys' = m_spent_keys \cup KeysOf(b)
  /\ m_outputs' = m_outputs \o (IF b \in DOMAIN m_transactionMap
                                THEN Tail(TransactionIndexes(b))
                                ELSE TransactionIndexes(b))

(***************************************************************************)
(* What popTransactions leaves after pushTransaction, in a block that is   *)
(* given up: the map loses the entry of the miner transaction, and an      *)
(* output goes with it if the entry was there already.                     *)
(***************************************************************************)
UndoTransactions(b) ==
  /\ m_transactionMap' = Restrict(m_transactionMap, DOMAIN m_transactionMap \ {b})
  /\ m_outputs' = IF /\ b \in DOMAIN m_transactionMap
                     /\ m_outputs # <<>>
                     /\ Last(m_outputs) = m_transactionMap[b]
                  THEN Front(m_outputs) ELSE m_outputs
  /\ UNCHANGED m_spent_keys

(***************************************************************************)
(* saveTransactions puts transactions back into the pool: add_tx does not  *)
(* refuse what comes from a block, except what the pool already has.       *)
(***************************************************************************)
saveTransactions(ts) == pool' = pool \cup ts

PushAccepted(b) ==
  /\ Loaded(b)
  /\ HeaderAccepted(b)
  /\ InputsAccepted(b)
  /\ checkCumulativeBlockSize(b, TxsOf(b))
  /\ b \notin BadReward
  /\ PushTransactions(b)
  /\ m_blocks' = Append(m_blocks, b)
  /\ pool' = pool \ TxsOf(b)

PushNotLoaded(b) ==
  /\ ~ Loaded(b)
  /\ saveTransactions({BlockTxs[b][i] : i \in Loadable(b)})
  /\ UNCHANGED <<m_blocks, index>>

PushBadHeader(b) ==
  /\ Loaded(b)
  /\ ~ HeaderAccepted(b)
  /\ saveTransactions(TxsOf(b))
  /\ UNCHANGED <<m_blocks, index>>

PushUndone(b) ==
  /\ Loaded(b)
  /\ HeaderAccepted(b)
  /\ \/ ~ InputsAccepted(b)
     \/ checkCumulativeBlockSize(b, TxsOf(b)) /\ b \in BadReward
  /\ UndoTransactions(b)
  /\ saveTransactions(TxsOf(b))
  /\ UNCHANGED m_blocks

(***************************************************************************)
(* The size is checked last and its failure returns at once: what          *)
(* pushTransaction did is not undone.                                      *)
(***************************************************************************)
PushOversize(b) ==
  /\ Loaded(b)
  /\ HeaderAccepted(b)
  /\ InputsAccepted(b)
  /\ ~ checkCumulativeBlockSize(b, TxsOf(b))
  /\ PushTransactions(b)
  /\ saveTransactions(TxsOf(b))
  /\ UNCHANGED m_blocks

PushRejected(b) ==
  PushNotLoaded(b) \/ PushBadHeader(b) \/ PushUndone(b) \/ PushOversize(b)

\* Mutant: the key images stay spent.
popBlockKeepsSpent ==
  LET b == getTailId
  IN  /\ m_blocks' = Front(m_blocks)
      /\ m_transactionMap' =
           Restrict(m_transactionMap, DOMAIN m_transactionMap \ ({b} \cup TxsOf(b)))
      /\ m_outputs' = PopOutputs(m_outputs, b)
      /\ saveTransactions(TxsOf(b))
      /\ UNCHANGED m_spent_keys


(***************************************************************************)
(* popBlock: the transactions go back to the pool, where add_tx refuses    *)
(* the ones that are in it already; removeLastBlock takes the block off.   *)
(***************************************************************************)
popBlock ==
  LET b == getTailId
  IN  /\ m_blocks' = Front(m_blocks)
      /\ m_transactionMap' =
           Restrict(m_transactionMap, DOMAIN m_transactionMap \ ({b} \cup TxsOf(b)))
      /\ m_spent_keys' = m_spent_keys \ KeysOf(b)
      /\ m_outputs' = PopOutputs(m_outputs, b)
      /\ saveTransactions(TxsOf(b))

(***************************************************************************)
(* addNewBlock, for a block that refers to the tail of the main chain.     *)
(***************************************************************************)
AddToMainChain(b) ==
  /\ Idle
  /\ ~ haveBlock(b)
  /\ previousBlockHash(b) = getTailId
  /\ PushAccepted(b) \/ PushRejected(b)
  /\ UNCHANGED <<m_alternative_chains, m_points, sw, disk, running, restarts>>

-----------------------------------------------------------------------------
(***************************************************************************)
(* handle_alternative_block.                                               *)
(*                                                                         *)
(* The alternative subchain that ends in b: the walk from b back through   *)
(* the blocks of alts.                                                     *)
(***************************************************************************)
AltChain(alts, b) ==
  LET chain == Ancestry[b]
      root == Max({0} \cup {i \in DOMAIN chain : chain[i] \notin alts})
  IN  SubSeq(chain, root + 1, Len(chain))

(***************************************************************************)
(* getBlockCumulativeSize counts only the transactions the node knows.     *)
(***************************************************************************)
KnownTxs == DOMAIN m_transactionMap \cup pool

(***************************************************************************)
(* The subchain below a new alternative block starts on the main chain.    *)
(***************************************************************************)
ConnectsToMainChain(front) ==
  /\ Height(front) < Len(m_blocks)
  /\ m_blocks[Height(front)] = previousBlockHash(front)

AlternativeAccepted(b, points) ==
  LET prev == previousBlockHash(b)
  IN  /\ is_alternative_block_allowed(points, Len(m_blocks), Height(b))
      /\ b \notin BadHeader
      /\ checkCumulativeBlockSize(b, KnownTxs)
      /\ IF prev \in m_alternative_chains
         THEN ConnectsToMainChain(Head(AltChain(m_alternative_chains, prev)))
         ELSE prev \in Range(m_blocks)
      /\ check_block(points, Height(b), b)
      /\ b \notin WeakProofOfWork
      /\ b \notin m_alternative_chains

\* Mutant: a chain of equal difficulty replaces the main chain.
WantsSwitchOnTie(b, points) ==
  \/ Height(b) \in DOMAIN points
  \/ CumulativeDifficulty[getTailId] <= CumulativeDifficulty[b]

(***************************************************************************)
(* A stored block makes the node reorganise when it is a checkpoint or     *)
(* when its chain is heavier than the main chain ...                       *)
(***************************************************************************)
WantsSwitch(b, points) ==
  \/ Height(b) \in DOMAIN points
  \/ CumulativeDifficulty[getTailId] < CumulativeDifficulty[b]

(***************************************************************************)
(* ... and switch_to_alternative_blockchain does not refuse the chain at   *)
(* once: for starting past the main chain, for improbable timestamps, or   *)
(* for lacking a transaction of the blocks it would replace.               *)
(***************************************************************************)
SwitchAccepted(chain) ==
  LET split_height == Height(Head(chain))
  IN  /\ split_height < Len(m_blocks)
      /\ ~ (Len(chain) >= PoissonCheckTrigger /\ Last(chain) \in Improbable)
      /\ \A i \in (split_height + 1) .. Len(m_blocks) :
           TxsOf(m_blocks[i]) \subseteq UNION {TxsOf(c) : c \in Range(chain)}

StoreAlternative(b, points) ==
  LET chain == AltChain(m_alternative_chains \cup {b}, b)
  IN  /\ m_alternative_chains' = m_alternative_chains \cup {b}
      /\ sw' = IF WantsSwitch(b, points) /\ SwitchAccepted(chain)
               THEN [pc |-> "disconnect", alt |-> chain, next |-> 1,
                     old |-> <<>>, discard |-> Height(b) \in DOMAIN points]
               ELSE sw

(***************************************************************************)
(* addNewBlock, for any other block.  The DNS checkpoints are fetched      *)
(* first, whatever becomes of the block.                                   *)
(***************************************************************************)
AddAlternative(b) ==
  /\ Idle
  /\ ~ haveBlock(b)
  /\ previousBlockHash(b) # getTailId
  /\ \E records \in SUBSET DOMAIN DnsCheckpoints :
       LET points == WithCheckpoints(m_points, Restrict(DnsCheckpoints, records))
       IN  /\ m_points' = points
           /\ \/ AlternativeAccepted(b, points) /\ StoreAlternative(b, points)
              \/ /\ ~ AlternativeAccepted(b, points)
                 /\ UNCHANGED <<m_alternative_chains, sw>>
  /\ UNCHANGED <<m_blocks, index, pool, disk, running, restarts>>

-----------------------------------------------------------------------------
(***************************************************************************)
(* switch_to_alternative_blockchain, one block at a time.  sw.alt is       *)
(* alt_chain, sw.old is disconnected_chain, sw.next the position of the    *)
(* loop that sw.pc names.                                                  *)
(***************************************************************************)
SplitHeight == Height(Head(sw.alt))

Switching(pc) == running /\ sw.pc = pc

AfterPop(here, next) == IF Len(m_blocks) = SplitHeight + 1 THEN next ELSE here

DisconnectBlock ==
  /\ Switching("disconnect")
  /\ popBlock
  /\ sw' = [sw EXCEPT !.old = <<getTailId>> \o @, !.pc = AfterPop(@, "connect")]
  /\ UNCHANGED <<m_alternative_chains, m_points, disk, running, restarts>>

ConnectBlock ==
  /\ Switching("connect")
  /\ PushAccepted(sw.alt[sw.next])
  /\ sw' = IF sw.next < Len(sw.alt)
           THEN [sw EXCEPT !.next = @ + 1]
           ELSE [sw EXCEPT !.next = 1,
                           !.pc = IF sw.discard THEN "finish" ELSE "readd"]
  /\ UNCHANGED <<m_alternative_chains, m_points, disk, running, restarts>>

ConnectFails ==
  /\ Switching("connect")
  /\ PushRejected(sw.alt[sw.next])
  /\ sw' = [sw EXCEPT !.pc = IF Len(m_blocks) > SplitHeight THEN "rollback"
                                                            ELSE "restore"]
  /\ UNCHANGED <<m_alternative_chains, m_points, disk, running, restarts>>

(***************************************************************************)
(* rollback_blockchain_switching: pop what was connected, push what was    *)
(* disconnected; then the block that failed and the ones after it are      *)
(* forgotten, whether the old chain came back or not.                      *)
(***************************************************************************)
RollbackBlock ==
  /\ Switching("rollback")
  /\ popBlock
  /\ sw' = [sw EXCEPT !.pc = AfterPop(@, "restore")]
  /\ UNCHANGED <<m_alternative_chains, m_points, disk, running, restarts>>

ForgetFailedChain ==
  /\ m_alternative_chains' =
       m_alternative_chains \ {sw.alt[i] : i \in sw.next .. Len(sw.alt)}
  /\ sw' = NotSwitching

BlockToRestore == sw.old[Len(m_blocks) - SplitHeight + 1]

RestoreBlock ==
  /\ Switching("restore")
  /\ PushAccepted(BlockToRestore)
  /\ IF Len(m_blocks) + 1 = SplitHeight + Len(sw.old)
     THEN ForgetFailedChain
     ELSE UNCHANGED <<m_alternative_chains, sw>>
  /\ UNCHANGED <<m_points, disk, running, restarts>>

RestorePanics ==
  /\ Switching("restore")
  /\ PushRejected(BlockToRestore)
  /\ ForgetFailedChain
  /\ UNCHANGED <<m_points, disk, running, restarts>>

\* Mutant: the loop does not end at a block that is refused.
ReaddBlockRetries ==
  LET b == sw.old[sw.next]
  IN  /\ Switching("readd")
      /\ AlternativeAccepted(b, m_points)
      /\ ~ WantsSwitch(b, m_points)
      /\ m_alternative_chains' = m_alternative_chains \cup {b}
      /\ sw' = IF sw.next = Len(sw.old)
               THEN [sw EXCEPT !.pc = "finish"]
               ELSE [sw EXCEPT !.next = @ + 1]
      /\ UNCHANGED <<m_blocks, index, m_points, pool, disk, running, restarts>>

(***************************************************************************)
(* The blocks of the old chain go through handle_alternative_block again;  *)
(* the loop ends early at the first one that is refused.  The DNS answer   *)
(* does not change within one operation.                                   *)
(***************************************************************************)
ReaddBlock ==
  LET b == sw.old[sw.next]
  IN  /\ Switching("readd")
      /\ IF AlternativeAccepted(b, m_points)
         THEN /\ ~ WantsSwitch(b, m_points)
              /\ m_alternative_chains' = m_alternative_chains \cup {b}
              /\ sw' = IF sw.next = Len(sw.old)
                       THEN [sw EXCEPT !.pc = "finish"]
                       ELSE [sw EXCEPT !.next = @ + 1]
         ELSE /\ sw' = [sw EXCEPT !.pc = "finish"]
              /\ UNCHANGED m_alternative_chains
      /\ UNCHANGED <<m_blocks, index, m_points, pool, disk, running, restarts>>

FinishSwitch ==
  /\ Switching("finish")
  /\ m_alternative_chains' = m_alternative_chains \ Range(sw.alt)
  /\ sw' = NotSwitching
  /\ UNCHANGED <<m_blocks, index, m_points, pool, disk, running, restarts>>

-----------------------------------------------------------------------------
(***************************************************************************)
(* core::add_new_tx holds both locks.  A transaction from the network must *)
(* be valid and must not conflict with the pool; one that came with a      *)
(* block is kept in any case.                                              *)
(***************************************************************************)
haveSpentInputs(t) == \E u \in pool : KeyImagesOf[t] \cap KeyImagesOf[u] # {}

add_new_tx(t, keptByBlock) ==
  /\ Idle
  /\ t \notin DOMAIN m_transactionMap
  /\ t \notin pool
  /\ keptByBlock \/ (~ haveSpentInputs(t) /\ checkTransactionInputs(t))
  /\ pool' = pool \cup {t}
  /\ UNCHANGED <<m_blocks, index, m_alternative_chains, m_points, sw>>
  /\ UNCHANGED <<disk, running, restarts>>

(***************************************************************************)
(* The expiry of a transaction of the pool.                                *)
(***************************************************************************)
ExpireTransaction(t) ==
  /\ Idle
  /\ t \in pool
  /\ pool' = pool \ {t}
  /\ UNCHANGED <<m_blocks, index, m_alternative_chains, m_points, sw>>
  /\ UNCHANGED <<disk, running, restarts>>

-----------------------------------------------------------------------------
(***************************************************************************)
(* Restart.  deinit writes the pool file and the cache of the indexes,     *)
(* labelled with the hash of the tail; a crash writes nothing.             *)
(***************************************************************************)
LoseMemory ==
  /\ running' = FALSE
  /\ restarts' = restarts + 1
  /\ m_transactionMap' = <<>>
  /\ m_spent_keys' = {}
  /\ m_outputs' = <<>>
  /\ m_alternative_chains' = {}
  /\ m_points' = StaticCheckpoints
  /\ pool' = {}
  /\ sw' = NotSwitching
  /\ UNCHANGED m_blocks

deinit ==
  /\ Idle
  /\ restarts < MaxRestarts
  /\ disk' = [cache |-> [saved |-> TRUE, tail |-> getTailId,
                         map |-> m_transactionMap, spent |-> m_spent_keys,
                         outputs |-> m_outputs],
              pool |-> pool]
  /\ LoseMemory

Crash ==
  /\ running
  /\ restarts < MaxRestarts
  /\ LoseMemory
  /\ UNCHANGED disk

\* Mutant: the label of the cache is not compared with the tail.
CacheUsableUnlabelled == disk.cache.saved

(***************************************************************************)
(* init: the indexes come from the cache if its label is the tail of       *)
(* m_blocks, else from rebuildCache.  rollbackBlockchainTo then removes    *)
(* blocks without returning their transactions: down to the last           *)
(* checkpoint that holds if a checkpoint fails, and further if the         *)
(* --rollback option says so.  The DNS answer at start-up may hold         *)
(* checkpoints that the chain was not built under.                         *)
(***************************************************************************)
CacheUsable == disk.cache.saved /\ disk.cache.tail = getTailId

HighestKept(points) ==
  IF FailedCheckpoints(points, m_blocks) = {} THEN Len(m_blocks)
  ELSE LastValidCheckpoint(points, m_blocks) + 1

init ==
  /\ ~ running
  /\ \E records \in SUBSET DOMAIN DnsCheckpoints :
     LET points == WithCheckpoints(StaticCheckpoints, Restrict(DnsCheckpoints, records))
     IN \E size \in 1 .. HighestKept(points) :
       LET gone == SubSeq(m_blocks, size + 1, Len(m_blocks))
           lost == UNION {{b} \cup TxsOf(b) : b \in Range(gone)}
           map == IF CacheUsable THEN disk.cache.map ELSE RebuiltMap(m_blocks)
           spent == IF CacheUsable THEN disk.cache.spent ELSE RebuiltSpentKeys(m_blocks)
           outputs == IF CacheUsable THEN disk.cache.outputs ELSE RebuiltOutputs(m_blocks)
       IN  /\ m_points' = points
           /\ m_blocks' = SubSeq(m_blocks, 1, size)
           /\ m_transactionMap' = Restrict(map, DOMAIN map \ lost)
           /\ m_spent_keys' = spent \ UNION {KeysOf(b) : b \in Range(gone)}
           /\ m_outputs' = FoldRight(LAMBDA b, outs : PopOutputs(outs, b), gone, outputs)
  /\ running' = TRUE
  /\ pool' = disk.pool
  /\ UNCHANGED <<m_alternative_chains, sw, disk, restarts>>

-----------------------------------------------------------------------------
SwitchStep ==
  \/ DisconnectBlock
  \/ ConnectBlock
  \/ ConnectFails
  \/ RollbackBlock
  \/ RestoreBlock
  \/ RestorePanics
  \/ ReaddBlock
  \/ FinishSwitch

Next ==
  \/ \E b \in Blocks \ {Genesis} : AddToMainChain(b) \/ AddAlternative(b)
  \/ SwitchStep
  \/ \E t \in Txs : ExpireTransaction(t) \/ \E k \in BOOLEAN : add_new_tx(t, k)
  \/ deinit
  \/ Crash
  \/ init

(***************************************************************************)
(* A reorganisation runs to its end on the thread that started it.         *)
(***************************************************************************)
Spec == Init /\ [][Next]_vars /\ WF_vars(SwitchStep)

-----------------------------------------------------------------------------
PhasesOfSwitch ==
  {"idle", "disconnect", "connect", "rollback", "restore", "readd", "finish"}

Switches ==
  [pc : PhasesOfSwitch, alt : Seq(Blocks), next : Nat \ {0},
   old : Seq(Blocks \ {Genesis}), discard : BOOLEAN]

(***************************************************************************)
(* Type invariant.                                                         *)
(***************************************************************************)
TypeOK ==
  /\ m_blocks \in Seq(Blocks) /\ m_blocks # <<>>
  /\ DOMAIN m_transactionMap \subseteq Blocks \cup Txs
  /\ m_spent_keys \subseteq UNION {KeyImagesOf[t] : t \in Txs}
  /\ m_alternative_chains \subseteq Blocks \ {Genesis}
  /\ DOMAIN m_points \subseteq Nat
  /\ pool \subseteq Txs
  /\ sw \in Switches
  /\ disk.cache.saved \in BOOLEAN
  /\ disk.cache.tail \in Blocks
  /\ DOMAIN disk.cache.map \subseteq Blocks \cup Txs
  /\ disk.cache.spent \subseteq UNION {KeyImagesOf[t] : t \in Txs}
  /\ disk.pool \subseteq Txs
  /\ running \in BOOLEAN
  /\ restarts \in 0 .. MaxRestarts

(***************************************************************************)
(* No key image is spent twice by the main chain, at any moment: not in    *)
(* the middle of a reorganisation, not after a crash.  pushBlock relies on *)
(* m_spent_keys for it.                                                    *)
(***************************************************************************)
NoDoubleSpend ==
  \A i, j \in DOMAIN m_blocks :
    \A t \in TxsOf(m_blocks[i]), u \in TxsOf(m_blocks[j]) :
      KeyImagesOf[t] \cap KeyImagesOf[u] # {} => i = j /\ t = u

(***************************************************************************)
(* Every transaction of the main chain is in m_transactionMap and every    *)
(* key image it spends is in m_spent_keys: the `at` of popTransaction      *)
(* finds its entry, and pushBlock sees every spent key image.  Holds after *)
(* rejected blocks of every kind, in a reorganisation and after a restart. *)
(***************************************************************************)
IndexCoversChain ==
  running =>
    \A b \in Range(m_blocks) :
      /\ {b} \cup TxsOf(b) \subseteq DOMAIN m_transactionMap
      /\ KeysOf(b) \subseteq m_spent_keys

(***************************************************************************)
(* As long as no block is over the size limit, the indexes that pushBlock  *)
(* and popBlock update one block at a time are the ones rebuildCache       *)
(* computes from the chain, in the middle of a reorganisation too.         *)
(***************************************************************************)
IndexMatchesChain ==
  running =>
    /\ m_transactionMap = RebuiltMap(m_blocks)
    /\ m_spent_keys = RebuiltSpentKeys(m_blocks)
    /\ m_outputs = RebuiltOutputs(m_blocks)

(***************************************************************************)
(* The comment of core::add_new_tx: the locks close the possibility of     *)
(* adding a transaction to the pool that is already in the blockchain.     *)
(* Pops put transactions back and pushes take them out in step.            *)
(***************************************************************************)
PoolDisjointFromChain == \A b \in Range(m_blocks) : TxsOf(b) \cap pool = {}

(***************************************************************************)
(* rollback_blockchain_switching does not panic: each disconnected block   *)
(* is accepted again, with its transactions back in the pool and its       *)
(* inputs unspent, unless a checkpoint that DNS announced forbids it.      *)
(***************************************************************************)
RestoreSucceeds ==
  Switching("restore") =>
    LET b == BlockToRestore
    IN  check_block(m_points, Len(m_blocks), b) =>
          /\ Loaded(b) /\ HeaderAccepted(b) /\ InputsAccepted(b)
          /\ checkCumulativeBlockSize(b, TxsOf(b)) /\ b \notin BadReward

(***************************************************************************)
(* Re-adding the disconnected blocks as alternative blocks never starts a  *)
(* second reorganisation inside the first.                                 *)
(***************************************************************************)
ReaddNeverReorganises ==
  Switching("readd") =>
    LET b == sw.old[sw.next]
    IN  AlternativeAccepted(b, m_points) => ~ WantsSwitch(b, m_points)

(***************************************************************************)
(* Under the checkpoint zone a push, also one of a reorganisation or of    *)
(* its rollback, never puts another block where a checkpoint is.           *)
(***************************************************************************)
PushRespectsCheckpoints ==
  [][Len(m_blocks') > Len(m_blocks) =>
       check_block(m_points, Len(m_blocks), Last(m_blocks'))]_vars

(***************************************************************************)
(* A reorganisation ends: the pool and the chain are not locked for ever.  *)
(***************************************************************************)
SwitchTerminates == sw.pc # "idle" ~> sw.pc = "idle"

-----------------------------------------------------------------------------
(***************************************************************************)
(* The parts of the inductive invariant behind TypeOK, NoDoubleSpend and   *)
(* IndexCoversChain: the main chain is linked; the loops of the            *)
(* reorganisation stay within their bounds; a cache holds what the chain   *)
(* that ends in its label contributes.                                     *)
(***************************************************************************)
Linked == m_blocks = Ancestry[getTailId]

SwitchOK ==
  sw.pc # "idle" =>
    /\ sw.alt # <<>>
    /\ SplitHeight > 0
    /\ sw.pc = "disconnect" => Len(m_blocks) > SplitHeight
    /\ sw.pc \in {"connect", "rollback", "restore", "readd"} => sw.old # <<>>
    /\ sw.pc \in {"disconnect", "connect"} => sw.next <= Len(sw.alt)
    /\ sw.pc = "connect" => Len(m_blocks) >= SplitHeight
    /\ sw.pc = "rollback" => Len(m_blocks) > SplitHeight
    /\ sw.pc = "restore" => /\ Len(m_blocks) >= SplitHeight
                            /\ Len(m_blocks) < SplitHeight + Len(sw.old)
    /\ sw.pc = "readd" => sw.next <= Len(sw.old)

CacheCoversChain ==
  disk.cache.saved =>
    \A b \in Range(Ancestry[disk.cache.tail]) :
      /\ {b} \cup TxsOf(b) \subseteq DOMAIN disk.cache.map
      /\ KeysOf(b) \subseteq disk.cache.spent

StoppedIsIdle == ~ running => sw.pc = "idle"

IInv ==
  /\ TypeOK
  /\ Linked
  /\ SwitchOK
  /\ StoppedIsIdle
  /\ NoDoubleSpend
  /\ IndexCoversChain
  /\ CacheCoversChain

-----------------------------------------------------------------------------
(***************************************************************************)
(* The assertion of doBuildSparseChain, which buildSparseChain evaluates   *)
(* for any block that haveBlock knows: the walk down an alternative chain  *)
(* ends in a block of the main chain.  A reorganisation may leave blocks   *)
(* that stand on forgotten ones.                                           *)
(***************************************************************************)
AlternativesReachMainChain ==
  Idle =>
    \A b \in m_alternative_chains :
      previousBlockHash(Head(AltChain(m_alternative_chains, b))) \in Range(m_blocks)

-----------------------------------------------------------------------------
(***************************************************************************)
(* The block store implements Ledger.  Until its last block is connected,  *)
(* a reorganisation has not happened: the chain of the node is the one     *)
(* that a failure would restore.                                           *)
(***************************************************************************)
LedgerChain ==
  CASE sw.pc = "disconnect" -> m_blocks \o sw.old
    [] sw.pc \in {"connect", "rollback", "restore"} ->
         SubSeq(m_blocks, 1, SplitHeight) \o sw.old
    [] OTHER -> m_blocks

Conflict(b, c) == KeysOf(b) \cap KeysOf(c) # {}

MayPrevail(b) ==
  LET points == WithCheckpoints(StaticCheckpoints, DnsCheckpoints)
  IN  Height(b) \in DOMAIN points /\ points[Height(b)] = b

L == INSTANCE Ledger WITH chain <- LedgerChain, MayStop <- MaxRestarts > 0

(***************************************************************************)
(* The node shows one chain that grows by valid blocks and is replaced as  *)
(* a whole, by a heavier one: a reorganisation that fails leaves exactly   *)
(* the chain that was there before.                                        *)
(***************************************************************************)
ImplementsLedger == L!Spec
=============================================================================
