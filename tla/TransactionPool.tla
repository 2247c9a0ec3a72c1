-------------------------- MODULE TransactionPool --------------------------
(***************************************************************************)
(* The transaction pool (lib/CryptoNoteCore/TransactionPool.cpp) beside a  *)
(* main chain that grows and is reorganised.                               *)
(*                                                                         *)
(* Every operation holds m_transactions_lock, and those that also look at  *)
(* the chain hold m_blockchain_lock, so each is one step.  A               *)
(* reorganisation holds both locks to its end: while target is set, only   *)
(* the chain moves.                                                        *)
(*                                                                         *)
(* The clock advances in ticks longer than the minute that on_idle waits   *)
(* between two scans.                                                      *)
(***************************************************************************)
EXTENDS Integers, FiniteSets, SequencesExt

CONSTANTS
  Blocks,                \* every block that the node may receive
  Genesis,
  Ancestry,              \* Ancestry[b]: the blocks from Genesis to b
  CumulativeDifficulty,  \* of the chain that ends in a block
  Unsound,               \* blocks that pushBlock refuses for themselves
  Txs,                   \* transactions
  BlockTxs,              \* BlockTxs[b]: transactionHashes of b
  KeyImagesOf,           \* key images of the inputs of a transaction
  OutputsOf,             \* multisignature outputs it spends
  Refs,                  \* blocks whose outputs its rings use
  Fee,
  TxSize,
  Ttl,                   \* the time to live field of extra, 0 if none
  IllFormed,             \* transactions with bad input types or amounts
  NoBlock,               \* NULL_HASH
  MempoolTxLiveTime,
  MempoolTxFromAltBlockLiveTime,
  ForgetTime,            \* numberOfPeriodsToForgetTxDeletedFromPool live times
  BlockFutureTimeLimit,
  MaxTxSize,             \* what checkTransactionSize allows
  FusionTxMaxSize,
  MedianSize,            \* median_size of a block template
  MaxTotalSize,          \* max_total_size of a block template
  MaxTime,               \* bound on the clock
  MaxRestarts            \* bound on the number of stops

VARIABLES
  m_transactions,        \* id -> TransactionDetails
  m_spent_key_images,    \* key image -> ids
  m_spentOutputs,
  m_recentlyDeletedTransactions,  \* id -> time of the deletion
  m_ttlIndex,            \* ids with a time to live
  m_validated_transactions,
  bl,                    \* transactionHashes of the last block template
  m_blocks,              \* the main chain
  target,                \* head a reorganisation leads to, or NoBlock
  old,                   \* tail of the chain that the reorganisation left
  file,                  \* the pool file
  now,
  running,
  restarts

poolVars == <<m_transactions, m_spent_key_images, m_spentOutputs,
              m_recentlyDeletedTransactions, m_ttlIndex, m_validated_transactions>>
chainVars == <<m_blocks, target, old>>
vars == <<poolVars, bl, chainVars, file, now, running, restarts>>

ASSUME PoolAssumption ==
  /\ Genesis \in Blocks /\ NoBlock \notin Blocks
  /\ Ancestry \in [Blocks -> Seq(Blocks) \ {<<>>}]
  /\ \A b \in Blocks : Ancestry[b][1] = Genesis
  /\ CumulativeDifficulty \in [Blocks -> Nat]
  /\ BlockTxs \in [Blocks -> Seq(Txs)]
  /\ DOMAIN KeyImagesOf = Txs /\ DOMAIN OutputsOf = Txs
  /\ \A t \in Txs : KeyImagesOf[t] \cup OutputsOf[t] # {}
  /\ Fee \in [Txs -> Nat] /\ TxSize \in [Txs -> Nat \ {0}] /\ Ttl \in [Txs -> Nat]
  /\ MaxTime \in Nat /\ MaxRestarts \in Nat

Pool == DOMAIN m_transactions

TxsOf(b) == Range(BlockTxs[b])

Mined(chain) == UNION {TxsOf(b) : b \in Range(chain)}

EmptyInfo == [height |-> 0, id |-> NoBlock]

-----------------------------------------------------------------------------
(***************************************************************************)
(* The validator: Blockchain::checkTransactionInputs on the whole, off the *)
(* checkpoint zone.                                                        *)
(***************************************************************************)
InputsValid(chain, t) ==
  /\ Refs[t] \subseteq Range(chain)
  /\ \A u \in Mined(chain) : /\ KeyImagesOf[t] \cap KeyImagesOf[u] = {}
                             /\ OutputsOf[t] \cap OutputsOf[u] = {}

InfoAt(chain, i) == [height |-> i - 1, id |-> chain[i]]

\* The highest block that the rings of t use, the first one if none.
MaxUsedBlock(chain, t) ==
  InfoAt(chain, Max({1} \cup {i \in DOMAIN chain : chain[i] \in Refs[t]}))

(***************************************************************************)
(* The overload with the results of earlier checks.  The look-up of the    *)
(* block at lastFailed.height is not guarded in the second case: past the  *)
(* end it yields what memory holds, perhaps the block popped there.        *)
(***************************************************************************)
LooksUpLastFailed(info) ==
  /\ info.maxUsedBlock.id # NoBlock
  /\ info.maxUsedBlock.height < Len(m_blocks)
  /\ m_blocks[info.maxUsedBlock.height + 1] # info.maxUsedBlock.id

FailedHere(info, leftover) ==
  LET failed == info.lastFailedBlock
  IN  IF failed.height < Len(m_blocks)
      THEN m_blocks[failed.height + 1] = failed.id ELSE leftover

RefusedByCache(info, leftover) ==
  IF info.maxUsedBlock.id = NoBlock
  THEN FailedHere(info, FALSE)
  ELSE \/ info.maxUsedBlock.height >= Len(m_blocks)
       \/ LooksUpLastFailed(info) /\ FailedHere(info, leftover)

is_transaction_ready_to_go(t, leftover) ==
  ~ RefusedByCache(m_transactions[t], leftover) /\ InputsValid(m_blocks, t)

(***************************************************************************)
(* What the check writes back.  A check that fails leaves the height where *)
(* it stopped and the identifier as it was.                                *)
(***************************************************************************)
CheckedInfo(t, leftover, height) ==
  LET info == m_transactions[t]
  IN  CASE RefusedByCache(info, leftover) -> info
        [] is_transaction_ready_to_go(t, leftover) ->
             [info EXCEPT !.maxUsedBlock = MaxUsedBlock(m_blocks, t)]
        [] OTHER ->
             [info EXCEPT !.maxUsedBlock.height = height,
                          !.lastFailedBlock = InfoAt(m_blocks, Len(m_blocks))]

-----------------------------------------------------------------------------
(***************************************************************************)
(* The indexes of inputs, as functions of a set S of transactions that     *)
(* comes or goes.  Multisignature outputs are entered for transactions     *)
(* that no block brought.                                                  *)
(***************************************************************************)
addTransactionInputs(images, S) ==
  [k \in DOMAIN images \cup UNION {KeyImagesOf[t] : t \in S} |->
     (IF k \in DOMAIN images THEN images[k] ELSE {})
     \cup {t \in S : k \in KeyImagesOf[t]}]

\* Mutant: the entry of a key image goes with the first transaction.
removeTransactionInputsErases(images, S) ==
  Restrict(images, DOMAIN images \ UNION {KeyImagesOf[t] : t \in S})

removeTransactionInputs(images, S) ==
  LET left == [k \in DOMAIN images |-> images[k] \ {t \in S : k \in KeyImagesOf[t]}]
  IN  Restrict(left, {k \in DOMAIN images : left[k] # {}})

OutputsTaken(trans, S) ==
  UNION {OutputsOf[t] : t \in {u \in S : ~ trans[u].keptByBlock}}

\* Mutant: multisignature outputs are not looked up.
haveSpentInputsKeyImagesOnly(t) ==
  KeyImagesOf[t] \cap DOMAIN m_spent_key_images # {}

haveSpentInputs(t) ==
  \/ KeyImagesOf[t] \cap DOMAIN m_spent_key_images # {}
  \/ OutputsOf[t] \cap m_spentOutputs # {}

WithTtl(S) == {t \in S : Ttl[t] # 0}

Details(chain, t, kept) ==
  [keptByBlock |-> kept, receiveTime |-> now,
   maxUsedBlock |-> IF InputsValid(chain, t) THEN MaxUsedBlock(chain, t) ELSE EmptyInfo,
   lastFailedBlock |-> EmptyInfo]

-----------------------------------------------------------------------------
(***************************************************************************)
(* add_tx, for a transaction that the network sends.                       *)
(***************************************************************************)
TtlAccepted(t) ==
  Ttl[t] # 0 => /\ Ttl[t] > now
                /\ Ttl[t] - now <= MempoolTxLiveTime + BlockFutureTimeLimit
                /\ Fee[t] = 0

\* Mutant: deletions are not looked up.
add_txForgetsDeletions(t) ==
  /\ t \notin IllFormed
  /\ TtlAccepted(t)
  /\ ~ haveSpentInputs(t)
  /\ InputsValid(m_blocks, t)
  /\ TxSize[t] <= MaxTxSize
  /\ m_transactions' = [u \in Pool \cup {t} |->
                          IF u = t THEN Details(m_blocks, t, FALSE) ELSE m_transactions[u]]
  /\ m_spent_key_images' = addTransactionInputs(m_spent_key_images, {t})
  /\ m_spentOutputs' = m_spentOutputs \cup OutputsOf[t]
  /\ m_ttlIndex' = m_ttlIndex \cup WithTtl({t})
  /\ UNCHANGED <<m_recentlyDeletedTransactions, m_validated_transactions>>

add_tx(t) ==
  /\ t \notin IllFormed
  /\ TtlAccepted(t)
  /\ ~ haveSpentInputs(t)
  /\ InputsValid(m_blocks, t)
  /\ TxSize[t] <= MaxTxSize
  /\ t \notin DOMAIN m_recentlyDeletedTransactions
  /\ m_transactions' = [u \in Pool \cup {t} |->
                          IF u = t THEN Details(m_blocks, t, FALSE) ELSE m_transactions[u]]
  /\ m_spent_key_images' = addTransactionInputs(m_spent_key_images, {t})
  /\ m_spentOutputs' = m_spentOutputs \cup OutputsOf[t]
  /\ m_ttlIndex' = m_ttlIndex \cup WithTtl({t})
  /\ UNCHANGED <<m_recentlyDeletedTransactions, m_validated_transactions>>

\* Mutant: multisignature outputs are entered for every transaction.
KeepByBlockMarksOutputs(chain, S) ==
  /\ m_transactions' = [u \in Pool \cup S |->
                          IF u \in Pool THEN m_transactions[u] ELSE Details(chain, u, TRUE)]
  /\ m_spent_key_images' = addTransactionInputs(m_spent_key_images, S \ Pool)
  /\ m_spentOutputs' = m_spentOutputs \cup UNION {OutputsOf[t] : t \in S}
  /\ m_ttlIndex' = m_ttlIndex \cup WithTtl(S)
  /\ UNCHANGED <<m_recentlyDeletedTransactions, m_validated_transactions>>

(***************************************************************************)
(* add_tx with keptByBlock, for transactions S that are not in the pool:   *)
(* none is refused.  The inputs are checked against chain.                 *)
(***************************************************************************)
KeepByBlock(chain, S) ==
  /\ m_transactions' = [u \in Pool \cup S |->
                          IF u \in Pool THEN m_transactions[u] ELSE Details(chain, u, TRUE)]
  /\ m_spent_key_images' = addTransactionInputs(m_spent_key_images, S \ Pool)
  /\ m_ttlIndex' = m_ttlIndex \cup WithTtl(S)
  /\ UNCHANGED <<m_spentOutputs, m_recentlyDeletedTransactions, m_validated_transactions>>

(***************************************************************************)
(* take_tx, for transactions S of the pool.                                *)
(***************************************************************************)
take_tx(S) ==
  /\ m_transactions' = Restrict(m_transactions, Pool \ S)
  /\ m_spent_key_images' = removeTransactionInputs(m_spent_key_images, S)
  /\ m_spentOutputs' = m_spentOutputs \ OutputsTaken(m_transactions, S)
  /\ m_ttlIndex' = m_ttlIndex \ S
  /\ m_validated_transactions' = m_validated_transactions \ S
  /\ UNCHANGED m_recentlyDeletedTransactions

(***************************************************************************)
(* take_tx of S, and add_tx with keptByBlock of all of them again: what a  *)
(* refused block does to the transactions it loaded.                       *)
(***************************************************************************)
TakeAndKeep(S) ==
  /\ m_transactions' = [t \in Pool |-> IF t \in S THEN Details(m_blocks, t, TRUE)
                                       ELSE m_transactions[t]]
  /\ m_spent_key_images' =
       addTransactionInputs(removeTransactionInputs(m_spent_key_images, S), S)
  /\ m_spentOutputs' = m_spentOutputs \ OutputsTaken(m_transactions, S)
  /\ m_validated_transactions' = m_validated_transactions \ S
  /\ UNCHANGED <<m_ttlIndex, m_recentlyDeletedTransactions>>

Idle == running /\ target = NoBlock

AddNewTx(t) ==
  /\ Idle
  /\ t \notin Mined(m_blocks) \cup Pool
  /\ add_tx(t)
  /\ bl' = <<>>
  /\ UNCHANGED <<chainVars, file, now, running, restarts>>

AddTxOfBlock(t) ==
  /\ Idle
  /\ t \notin Mined(m_blocks) \cup Pool \cup IllFormed
  /\ KeepByBlock(m_blocks, {t})
  /\ bl' = <<>>
  /\ UNCHANGED <<chainVars, file, now, running, restarts>>

-----------------------------------------------------------------------------
(***************************************************************************)
(* The chain.  loadTransactions takes the transactions of a block from the *)
(* pool, in their order, up to the first one that is missing.              *)
(***************************************************************************)
LoadedTxs(b) ==
  {BlockTxs[b][i] : i \in {j \in DOMAIN BlockTxs[b] :
     \A n \in 1 .. j : /\ BlockTxs[b][n] \in Pool
                       /\ \A m \in 1 .. (n - 1) : BlockTxs[b][m] # BlockTxs[b][n]}}

Accepted(b) ==
  /\ b \notin Unsound
  /\ IsInjective(BlockTxs[b]) /\ TxsOf(b) \subseteq Pool
  /\ \A t \in TxsOf(b) :
       /\ InputsValid(m_blocks, t)
       /\ \A u \in TxsOf(b) \ {t} : /\ KeyImagesOf[t] \cap KeyImagesOf[u] = {}
                                    /\ OutputsOf[t] \cap OutputsOf[u] = {}

ConnectBlock(b) ==
  /\ Accepted(b)
  /\ take_tx(TxsOf(b))
  /\ m_blocks' = Append(m_blocks, b)

RefuseBlock(b) ==
  /\ ~ Accepted(b)
  /\ TakeAndKeep(LoadedTxs(b))
  /\ UNCHANGED m_blocks

\* The transactions go back before the block does: their inputs are spent.
popBlock ==
  /\ KeepByBlock(m_blocks, TxsOf(Last(m_blocks)))
  /\ m_blocks' = Front(m_blocks)

Extends(b) == Ancestry[b] = Append(m_blocks, b)

AddNewBlock(b) ==
  /\ Idle
  /\ Extends(b)
  /\ ConnectBlock(b) \/ RefuseBlock(b)
  /\ bl' = <<>>
  /\ UNCHANGED <<target, old, file, now, running, restarts>>

StartSwitch(b) ==
  /\ Idle
  /\ ~ IsPrefix(m_blocks, Ancestry[b])
  /\ CumulativeDifficulty[b] > CumulativeDifficulty[Last(m_blocks)]
  /\ target' = b
  /\ old' = Last(m_blocks)
  /\ bl' = <<>>
  /\ UNCHANGED <<poolVars, m_blocks, file, now, running, restarts>>

(***************************************************************************)
(* switch_to_alternative_blockchain and its rollback: pop down to the      *)
(* common block, push up to target; a refusal turns back to the old chain, *)
(* a refusal on the way back is the end.                                   *)
(***************************************************************************)
SwitchStep ==
  /\ running
  /\ target # NoBlock
  /\ \/ /\ ~ IsPrefix(m_blocks, Ancestry[target])
        /\ popBlock
        /\ target' = target
     \/ /\ IsStrictPrefix(m_blocks, Ancestry[target])
        /\ ConnectBlock(Ancestry[target][Len(m_blocks) + 1])
        /\ target' = IF m_blocks' = Ancestry[target] THEN NoBlock ELSE target
     \/ /\ IsStrictPrefix(m_blocks, Ancestry[target])
        /\ RefuseBlock(Ancestry[target][Len(m_blocks) + 1])
        /\ target' = IF target = old THEN NoBlock ELSE old
  /\ old' = IF target' = NoBlock THEN NoBlock ELSE old
  /\ UNCHANGED <<bl, file, now, running, restarts>>

-----------------------------------------------------------------------------
(***************************************************************************)
(* fill_block_template.  The fee index is ordered by fee per byte, then    *)
(* small before large, then old before new; the order of equals is that of *)
(* insertion, which a restart changes.                                     *)
(***************************************************************************)
Precedes(t, u) ==
  LET price(x, y) == Fee[x] * TxSize[y]
  IN  \/ price(t, u) > price(u, t)
      \/ /\ price(t, u) = price(u, t)
         /\ \/ TxSize[t] < TxSize[u]
            \/ /\ TxSize[t] = TxSize[u]
               /\ m_transactions[t].receiveTime < m_transactions[u].receiveTime

FeeOrders ==
  {s \in SetToSeqs(Pool) : \A i, j \in DOMAIN s : i < j => ~ Precedes(s[j], s[i])}

EmptyTemplate == [txs |-> <<>>, size |-> 0, checked |-> {}]


canAdd(template, t) ==
  \A u \in Range(template.txs) : /\ KeyImagesOf[t] \cap KeyImagesOf[u] = {}
                                 /\ OutputsOf[t] \cap OutputsOf[u] = {}

addTransaction(template, t, limit, ready) ==
  CASE t \in m_ttlIndex \/ limit < template.size + TxSize[t] -> template
    [] ready /\ canAdd(template, t) ->
         [txs |-> Append(template.txs, t), size |-> template.size + TxSize[t],
          checked |-> template.checked \cup {t}]
    [] OTHER -> [template EXCEPT !.checked = @ \cup {t}]

\* Transactions without a fee, from the last one, up to the fusion limit.
FusionPass(order, leftover) ==
  FoldLeft(LAMBDA template, t :
             addTransaction(template, t, FusionTxMaxSize,
                            is_transaction_ready_to_go(t, leftover)),
           EmptyTemplate,
           Reverse(SelectSeq(order, LAMBDA t : Fee[t] = 0)))

FeePass(order, leftover) ==
  FoldLeft(LAMBDA template, t :
             addTransaction(template, t,
                            IF Fee[t] = 0 THEN MedianSize ELSE MaxTotalSize,
                            \/ t \in m_validated_transactions
                            \/ is_transaction_ready_to_go(t, leftover)),
           [FusionPass(order, leftover) EXCEPT !.checked = {}],
           order)

FillBlockTemplate ==
  /\ Idle
  /\ \E order \in FeeOrders, leftover \in BOOLEAN, height \in 0 .. Len(m_blocks) - 1 :
       LET template == FeePass(order, leftover)
           fresh == (template.checked \cap Pool) \ m_validated_transactions
       IN  /\ bl' = template.txs
           /\ m_validated_transactions' = m_validated_transactions \cup
                {t \in fresh : is_transaction_ready_to_go(t, leftover)}
           /\ m_transactions' = [t \in Pool |->
                IF t \in fresh THEN CheckedInfo(t, leftover, height)
                               ELSE m_transactions[t]]
  /\ UNCHANGED <<m_spent_key_images, m_spentOutputs, m_recentlyDeletedTransactions,
                 m_ttlIndex, chainVars, file, now, running, restarts>>

(***************************************************************************)
(* get_difference: the ready transactions enter the cache; the details     *)
(* that the check writes go to a copy.                                     *)
(***************************************************************************)
GetDifference ==
  /\ Idle
  /\ \E leftover \in BOOLEAN :
       m_validated_transactions' = m_validated_transactions \cup
         {t \in Pool : is_transaction_ready_to_go(t, leftover)}
  /\ bl' = <<>>
  /\ UNCHANGED <<m_transactions, m_spent_key_images, m_spentOutputs,
                 m_recentlyDeletedTransactions, m_ttlIndex, chainVars, file, now,
                 running, restarts>>

-----------------------------------------------------------------------------
(***************************************************************************)
(* removeExpiredTransactions, on the state that the arguments are.  A      *)
(* deletion that is remembered already keeps its time.                     *)
(***************************************************************************)
Expired(trans, ttls) ==
  {t \in DOMAIN trans :
     \/ now - trans[t].receiveTime > (IF trans[t].keptByBlock
                                      THEN MempoolTxFromAltBlockLiveTime
                                      ELSE MempoolTxLiveTime)
     \/ t \in ttls /\ Ttl[t] <= now}

Remembered(deleted) == {t \in DOMAIN deleted : now - deleted[t] <= ForgetTime}

removeExpiredTransactions(trans, images, outputs, deleted, ttls) ==
  LET gone == Expired(trans, ttls)
  IN  /\ m_transactions' = Restrict(trans, DOMAIN trans \ gone)
      /\ m_spent_key_images' = removeTransactionInputs(images, gone)
      /\ m_spentOutputs' = outputs \ OutputsTaken(trans, gone)
      /\ m_recentlyDeletedTransactions' =
           [t \in Remembered(deleted) \cup gone |->
              IF t \in Remembered(deleted) THEN deleted[t] ELSE now]
      /\ m_ttlIndex' = ttls \ gone
      /\ m_validated_transactions' = m_validated_transactions \ gone

OnIdle ==
  /\ Idle
  /\ removeExpiredTransactions(m_transactions, m_spent_key_images, m_spentOutputs,
                               m_recentlyDeletedTransactions, m_ttlIndex)
  /\ bl' = <<>>
  /\ UNCHANGED <<chainVars, file, now, running, restarts>>

Tick ==
  /\ now < MaxTime
  /\ now' = now + 1
  /\ bl' = <<>>
  /\ UNCHANGED <<poolVars, chainVars, file, running, restarts>>

-----------------------------------------------------------------------------
(***************************************************************************)
(* deinit, init, and the death of the process.  The pool file is written   *)
(* in place: a process that dies in deinit leaves one that does not load.  *)
(***************************************************************************)
NoFile == [kind |-> "none", transactions |-> <<>>, images |-> <<>>,
           outputs |-> {}, deleted |-> <<>>]

TornFile == [NoFile EXCEPT !.kind = "torn"]

PoolFile == [kind |-> "whole", transactions |-> m_transactions,
             images |-> m_spent_key_images, outputs |-> m_spentOutputs,
             deleted |-> m_recentlyDeletedTransactions]

LoseMemory ==
  /\ restarts < MaxRestarts
  /\ m_transactions' = <<>>
  /\ m_spent_key_images' = <<>>
  /\ m_spentOutputs' = {}
  /\ m_recentlyDeletedTransactions' = <<>>
  /\ m_ttlIndex' = {}
  /\ m_validated_transactions' = {}
  /\ bl' = <<>>
  /\ target' = NoBlock
  /\ old' = NoBlock
  /\ running' = FALSE
  /\ restarts' = restarts + 1
  /\ UNCHANGED <<m_blocks, now>>

deinit ==
  /\ Idle
  /\ file' \in {PoolFile, TornFile}
  /\ LoseMemory

Crash ==
  /\ running
  /\ LoseMemory
  /\ UNCHANGED file

init ==
  /\ ~ running
  /\ running' = TRUE
  /\ IF file.kind = "none" THEN UNCHANGED poolVars
     ELSE removeExpiredTransactions(file.transactions, file.images, file.outputs,
                                    file.deleted, WithTtl(DOMAIN file.transactions))
  /\ UNCHANGED <<bl, chainVars, file, now, restarts>>

Init ==
  /\ m_transactions = <<>>
  /\ m_spent_key_images = <<>>
  /\ m_spentOutputs = {}
  /\ m_recentlyDeletedTransactions = <<>>
  /\ m_ttlIndex = {}
  /\ m_validated_transactions = {}
  /\ bl = <<>>
  /\ m_blocks = <<Genesis>>
  /\ target = NoBlock
  /\ old = NoBlock
  /\ file = NoFile
  /\ now = 0
  /\ running = TRUE
  /\ restarts = 0

Next ==
  \/ \E t \in Txs : AddNewTx(t) \/ AddTxOfBlock(t)
  \/ \E b \in Blocks : AddNewBlock(b) \/ StartSwitch(b)
  \/ SwitchStep
  \/ FillBlockTemplate
  \/ GetDifference
  \/ Tick
  \/ OnIdle
  \/ deinit
  \/ Crash
  \/ init

Spec == Init /\ [][Next]_vars

-----------------------------------------------------------------------------
(***************************************************************************)
(* Properties.                                                             *)
(***************************************************************************)
Infos == [height : Nat, id : Blocks \cup {NoBlock}]

TransactionDetails == [keptByBlock : BOOLEAN, receiveTime : 0 .. MaxTime,
                       maxUsedBlock : Infos, lastFailedBlock : Infos]

PartialOn(S, R, f) == DOMAIN f \subseteq S /\ \A x \in DOMAIN f : f[x] \in R

(***************************************************************************)
(* Types of the variables, in memory and in the file.                      *)
(***************************************************************************)
TypeOK ==
  /\ PartialOn(Txs, TransactionDetails, m_transactions)
  /\ PartialOn(Txs, 0 .. MaxTime, m_recentlyDeletedTransactions)
  /\ m_ttlIndex \subseteq Pool
  /\ m_validated_transactions \subseteq Pool
  /\ m_blocks \in Seq(Blocks) \ {<<>>}
  /\ target \in Blocks \cup {NoBlock}
  /\ old \in Blocks \cup {NoBlock}
  /\ PartialOn(Txs, TransactionDetails, file.transactions)
  /\ PartialOn(Txs, 0 .. MaxTime, file.deleted)
  /\ now \in 0 .. MaxTime
  /\ running \in BOOLEAN
  /\ restarts \in 0 .. MaxRestarts

(***************************************************************************)
(* The index of key images is that of the transactions of the pool:        *)
(* whatever blocks took, gave back or refused, whatever expired or was     *)
(* loaded, every key image leads to exactly its transactions.  It is why   *)
(* the error returns of removeTransactionInputs and addTransactionInputs   *)
(* ("should not fail") are never taken.                                    *)
(***************************************************************************)
ImagesOf(S) ==
  [k \in UNION {KeyImagesOf[t] : t \in S} |-> {t \in S : k \in KeyImagesOf[t]}]

KeyImageIndexExact == m_spent_key_images = ImagesOf(Pool)

(***************************************************************************)
(* m_spentOutputs holds the outputs of the transactions that no block      *)
(* brought: the assertions on it hold.                                     *)
(***************************************************************************)
SpentOutputsExact == m_spentOutputs = OutputsTaken(m_transactions, Pool)

(***************************************************************************)
(* Two transactions of the network that spend the same thing are never in  *)
(* the pool together: only blocks bring a conflict in.                     *)
(***************************************************************************)
Conflict(t, u) ==
  \/ KeyImagesOf[t] \cap KeyImagesOf[u] # {}
  \/ OutputsOf[t] \cap OutputsOf[u] # {}

ConflictsOnlyByBlocks ==
  \A t, u \in Pool :
    t # u /\ Conflict(t, u) =>
      m_transactions[t].keptByBlock \/ m_transactions[u].keptByBlock

(***************************************************************************)
(* A transaction that expired does not come back from the network while    *)
(* its deletion is remembered, restarts included.                          *)
(***************************************************************************)
DeletedComesBackByBlock ==
  \A t \in Pool \cap DOMAIN m_recentlyDeletedTransactions :
    m_transactions[t].keptByBlock

(***************************************************************************)
(* A block template spends nothing twice and names no transaction twice,   *)
(* although conflicting transactions may be in the pool and transactions   *)
(* without a fee are looked at in both passes.                             *)
(***************************************************************************)
TemplateSpendsOnce ==
  \A i, j \in DOMAIN bl : i # j => ~ Conflict(bl[i], bl[j])

(***************************************************************************)
(* A block template holds no transaction of the main chain, although the   *)
(* cache of validated transactions is never cleared and a crash may put    *)
(* mined transactions back into the pool.                                  *)
(***************************************************************************)
TemplateNotMined == Range(bl) \cap Mined(m_blocks) = {}

(***************************************************************************)
(* A transaction with a time to live is a message, not for mining: no      *)
(* template holds one, also after the index was built again from the file. *)
(***************************************************************************)
TemplateWithoutTtl == WithTtl(Range(bl)) = {}

(***************************************************************************)
(* A template stays within its limits, and what pays no fee within the     *)
(* larger of the fusion limit and the median.                              *)
(***************************************************************************)
SizeOf(S) == MapThenSumSet(LAMBDA t : TxSize[t], S)

TemplateFits ==
  /\ SizeOf(Range(bl)) <= Max({FusionTxMaxSize, MedianSize, MaxTotalSize})
  /\ SizeOf({t \in Range(bl) : Fee[t] = 0}) <= Max({FusionTxMaxSize, MedianSize})

=============================================================================
