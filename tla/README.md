# A TLA+ verification project for the Qwertycoin node

The project models the consensus-critical part of the node kept in this
repository: the block store (`lib/CryptoNoteCore/Blockchain.cpp`) with its
checkpoints, its reorganisations and what it keeps across a restart, and the
transaction pool (`lib/CryptoNoteCore/TransactionPool.cpp`) beside a chain that
grows and is reorganised. TLC checks the modules on small instances; TLAPS
proves the central safety properties for every block tree, every set of
transactions, every checkpoint table and every number of restarts.

Paths below are relative to `src/`; `Blockchain.cpp` and the like are in
`lib/CryptoNoteCore/`.

## 1. Inventory of the system

| part | state | operations that change it | interacts with |
|---|---|---|---|
| Blockchain | `m_blocks` (a pair of files), `m_blockIndex`, `m_transactionMap`, `m_spent_keys`, `m_outputs`, `m_multisignatureOutputs`, `m_alternative_chains`, the cache file | `addNewBlock` (`pushBlock`, `handle_alternative_block`, `switch_to_alternative_blockchain`, `rollback_blockchain_switching`, `popBlock`), `init`, `deinit`, `rollbackBlockchainTo` | pool, checkpoints, upgrade detectors, message queues |
| Checkpoints | `m_points` | `add_checkpoint`, `load_checkpoints_from_dns` | Blockchain, Daemon |
| Transaction pool | `m_transactions`, `m_spent_key_images`, `m_spentOutputs`, `m_recentlyDeletedTransactions`, `m_ttlIndex`, `m_validated_transactions`, the pool file | `add_tx`, `take_tx`, `fill_block_template`, `get_difference`, `on_idle`, `init`, `deinit` | Blockchain (as validator), Core, Miner |
| Core | start time, observers | `handle_incoming_tx`, `handle_incoming_block`, `add_new_tx`, `get_block_template` | everything in the daemon |
| Upgrade detector | `m_votingCompleteHeight` | `init`, `blockPushed`, `blockPopped` | Blockchain |
| Block index | hash/height bimap | `push`, `pop`, sparse chains | Blockchain, protocol handler |
| SwappedVector | items file, index file, cache of items | `push_back`, `pop_back`, `clear`, `open` | Blockchain |
| Message queue | blocking queue, stop flag | `push`, `front`, `pop`, `stop` | Blockchain, RPC |
| Miner | template, template number, threads | `start`, `stop`, `set_block_template`, `worker_thread` | Core |
| Currency, Difficulty | none | reward, penalty and difficulty arithmetic | Blockchain |
| Protocol handler | per-connection state, observed height, peers | handlers of `NOTIFY_*`, `on_idle` | Core, P2P |
| P2P node | connections, tasks | hand-shake, timed sync, connect, accept | protocol handler, peer lists |
| Peer lists | white and grey lists | `append_with_peer_*`, `merge_peerlist`, trimming | P2P node |
| Blockchain synchronizer | current and future state, consumers | `start`, `stop`, `addConsumer`, `actualizeFutureState` | node, transfers |
| Transfers | available, unconfirmed and spent outputs | `addTransaction`, `markTransactionConfirmed`, `detach` | synchronizer, wallets |
| Wallets | containers, transactions, key file | open, save, send, transaction callbacks | transfers, node |
| Coroutine system | contexts, event and group queues | `spawn`, `wait`, `interrupt`, `set` | P2P, RPC, HTTP |
| RPC, explorer, payment gate | caches of answers | requests | Core, wallets |

The behaviours that are hard here:

* a reorganisation is a long loop over a chain that lives in a file; a block
  may be refused in the middle of it, and the process may die in the middle of
  it;
* four indexes (transactions, spent key images, outputs, multisignature
  outputs) are updated one block at a time and have to stay those of the chain;
* they are cached in a file that belongs to one tail only;
* transactions move between pool and chain in both directions, and a refused
  block puts them back through another door than the one they came in by;
* checkpoints arrive from DNS while the chain they contradict is already there;
* the pool remembers the results of checks against chains that no longer exist;
* wallets and peers run the same races over callbacks and coroutines (later
  work).

`PROJECT.json` lists each of these at the line where it bites.

## 2. Modules

| module | models | extends |
|---|---|---|
| `Checkpoints` | the table and its queries, DNS update, start-up check | |
| `Blockchain` | block store, reorganisation, cache file, start-up | `Checkpoints` |
| `Ledger` | abstract: one chain that grows or is replaced as a whole | |
| `MCBlockchain` | instances for TLC | `Blockchain` |
| `BlockchainLemmas`, `BlockchainProofs` | TLAPS proofs | `Blockchain` |
| `TransactionPool` | the pool beside a chain that moves | |
| `MCTransactionPool` | instances for TLC | `TransactionPool` |
| `TransactionPoolProofs` | TLAPS proofs | `TransactionPool` |

### Blockchain

*State.* `m_blocks` is the main chain as a sequence of blocks; the block at
height `h` is `m_blocks[h + 1]`. `m_transactionMap`, `m_spent_keys` and
`m_outputs` are the indexes of the code. `m_alternative_chains` is a set of
blocks: the parents are in `Ancestry`. `sw` holds the local variables of
`switch_to_alternative_blockchain` (`alt_chain`, `disconnected_chain`, loop
position, the loop it is in). `disk` is what `deinit` writes.

*Blocks and transactions* are model values. What the code computes from their
contents is a constant: `Ancestry` (the chain that `previousBlockHash` spells),
`CumulativeDifficulty`, `BlockTxs`, `KeyImagesOf`, `Refs`, `TxSize`, and the
sets of blocks that fail a check which depends on the block alone
(`BadHeader`, `WeakProofOfWork`, `BadReward`, `Improbable`). A transaction has
one key output and all amounts are equal, so `m_outputs` is one sequence.

| action | code |
|---|---|
| `AddToMainChain` | `addNewBlock` with the tail as parent; `PushAccepted`, `PushNotLoaded`, `PushBadHeader`, `PushUndone`, `PushOversize` are the ways out of `pushBlock` |
| `AddAlternative` | `handle_alternative_block`, the DNS update at its head included |
| `DisconnectBlock`, `ConnectBlock`, `ConnectFails`, `ReaddBlock`, `FinishSwitch` | the loops of `switch_to_alternative_blockchain` |
| `RollbackBlock`, `RestoreBlock`, `RestorePanics` | `rollback_blockchain_switching` |
| `add_new_tx`, `ExpireTransaction` | `core::add_new_tx`; expiry in the pool |
| `deinit`, `Crash`, `init` | clean stop, death of the process, start with cache or rebuild, roll back to the last valid checkpoint or to `--rollback` |

*Atomicity.* `addNewBlock` takes the pool lock and `m_blockchain_lock` and keeps
both to its end, and so does `core::add_new_tx`; other threads see nothing in
between. A push that stands alone is one step. A reorganisation is one step per
block, because a crash between two blocks is visible afterwards in `m_blocks`.

*Abstractions.* The DNS answer does not change within one operation: re-adding the
old chain asks again, and the model gives the same answer. A push or a pop of
`m_blocks` is atomic. `ReaddBlock` is guarded by the absence of a nested switch;
`ReaddNeverReorganises` shows that the guard removes nothing. Heights are
subtracted modulo `WordSize`.

### TransactionPool

*State.* `m_transactions` maps the ids in the pool to their details: origin
(`keptByBlock`), time of arrival and the two cached results of the validator
(`maxUsedBlock`, `lastFailedBlock`). The other variables carry the names of the
code. `bl` is the last block template (emptied by every other step, so that
template properties speak of a template at the moment it is made). `target` and
`old` describe a reorganisation in progress, `file` the pool file.

| action | code |
|---|---|
| `AddNewTx`, `AddTxOfBlock` | `core::add_new_tx` with `add_tx`, for a transaction of the network and for one kept by a block |
| `AddNewBlock` | `pushBlock` at the tail: `ConnectBlock` takes the transactions, `RefuseBlock` takes them and gives them back as kept by block |
| `StartSwitch`, `SwitchStep` | a reorganisation and its rollback, block by block |
| `FillBlockTemplate` | `fill_block_template`, both passes, limits, cache, what the check writes into the details |
| `GetDifference` | `get_difference`: it fills the same cache |
| `OnIdle`, `Tick` | `on_idle` with `removeExpiredTransactions`; the clock |
| `deinit`, `Crash`, `init` | the pool file written in place, death of the process, load with expiry and the index of times to live built again |

*Abstractions.* The validator is off the checkpoint zone. `TakeAndKeep`,
`KeepByBlock` and `take_tx` treat the transactions of a block as a set, as they
are independent of each other. A check that fails leaves a height between 0 and
the tail in `maxUsedBlock` (it depends on the ring where it stopped). A look-up
past the end of the chain yields an arbitrary answer (`leftover`). The order of
equal entries of the fee index is arbitrary. The clock does not step back, and a
tick is longer than the minute between two scans. The roll back of the chain at
start-up is in `Blockchain`, not here. Answers to callers (relay flags, ids that
are new or deleted) are left out.

### Ledger

`Ledger` is what the rest of the node relies on: one chain, which grows by a
block or is replaced as a whole by a heavier one or by one with a checkpoint,
and in which no key image is spent twice; after a stop, a prefix of it or of the
chain that was about to replace it. `Blockchain!ImplementsLedger` maps a
reorganisation that has not connected its last block to the chain it would
restore.

## 3. What the runs check

Run one with `tlc -workers 2 -config <cfg> <module>`. Deadlock is not an error
in any of them: the finite set of blocks, transactions and ticks runs out.

| run | instance | shows |
|---|---|---|
| `reorg` | a tree of ten blocks, four branches; t1 and t3 share a key image, c2 has a bad reward | reorganisations, rejected blocks and failed switches: `IndexMatchesChain`, `NoDoubleSpend`, `PoolDisjointFromChain`, `RestoreSucceeds`, `SwitchTerminates`, `ImplementsLedger` |
| `restart` | six blocks, two stops, an oversize block, a checkpoint that DNS announces | `IndexCoversChain`, `NoDoubleSpend`, `ImplementsLedger` with clean stops and crashes at every point of a switch, and a stale cache file |
| `checkpoints` | the ten blocks, DNS checkpoints on two heights; the rings of c3 use an output of another branch | `RestoreSucceeds`, `ReaddNeverReorganises`, `PushRespectsCheckpoints` |
| `pool_chain` | five blocks, the heavier branch the shorter one; four transactions, two pairs in conflict (a key image, a multisignature output) | `KeyImageIndexExact`, `SpentOutputsExact`, `ConflictsOnlyByBlocks`, `TemplateSpendsOnce`, `TemplateNotMined`, `TemplateFits` |
| `pool_expiry` | two transactions in conflict, one a message with a time to live; clock up to 4; two stops | `KeyImageIndexExact`, `TemplateNotMined`, `TemplateWithoutTtl`, `DeletedComesBackByBlock` |
| `sparse`, `young`, `pool_stale`, `pool_lookup`, `pool_refused`, `pool_dated` | | the code disagrees with an assertion, comment, log or test: section 6 |

*Why the bounds are enough.* The block tree has switches in both directions, a
switch that fails after it has connected a block, a branch that carries the
transactions of the main chain (a switch is refused otherwise), one that
conflicts with itself, and a block whose rings need another branch
(refused off the checkpoint zone, accepted in it). Two stops
let a cache file of the first one meet, at the second start, a chain that has
changed since. The unlock window is 2 so
that "too deep" happens in a chain of four blocks. In the pool, the live times
keep the order they have in the code (14 h for a transaction of the network, 24 h
for one of a block, seven live times until a deletion is forgotten), and four
ticks are enough to expire, return with a block, expire again and be forgotten.
The limits of the template (fusion 1, median 2, total 3) each cut something off.
`RestoreSucceeds` and `PoolDisjointFromChain` are checked without restarts: a
pool file from before a crash may name transactions that the chain has by then.

*Fairness.* Only `SwitchStep` is weakly fair: a reorganisation runs on the thread
that called `addNewBlock`, with both locks held, and nothing in it waits for
another thread. Nothing is assumed about the arrival of blocks, transactions,
ticks or restarts.

## 4. What is proved

For every value of the constants that meets the assumptions of the module
(`CheckpointsAssumption`, `BlockchainAssumption`, `PoolAssumption`: the blocks
form a tree under the genesis block, the tables of constants have their types).
`DifficultyAssumption` is evaluated by TLC and is not used by a proof.

| theorem | states |
|---|---|
| `BlockchainProofs!TypeCorrect` | `TypeOK` |
| `BlockchainProofs!DoubleSpendNever` | `NoDoubleSpend`, in the middle of a reorganisation and after a crash |
| `BlockchainProofs!IndexNeverMisses` | `IndexCoversChain` |
| `BlockchainProofs!CheckpointsRespected` | `PushRespectsCheckpoints` |
| `TransactionPoolProofs!KeyImageIndexAlwaysExact` | `KeyImageIndexExact` |
| `TransactionPoolProofs!SpentOutputsAlwaysExact` | `SpentOutputsExact` |
| `TransactionPoolProofs!OnlyBlocksBringConflicts` | `ConflictsOnlyByBlocks` |
| `TransactionPoolProofs!OnlyBlocksBringBackDeleted` | `DeletedComesBackByBlock` |

*Block store.* No double spend is not inductive: `pushBlock` looks at
`m_spent_keys`, so the induction needs that the set covers the chain
(`IndexCoversChain`). A pop takes the key images of a block out of the set, and
this uncovers no other block only because no two blocks of the chain share one:
each of the two properties needs the other. After a restart the set comes from
the cache file, hence `CacheCoversChain`: the file covers the chain of its
label, and as the label is a hash, a chain with that tail *is* that chain
(`Linked`). The loops of the reorganisation index `alt_chain` and
`disconnected_chain` and pop blocks; `SwitchOK` keeps them within bounds and the
genesis block in place. `IInv` is the conjunction. `BlockchainLemmas` has what a
push and a pop do to the chain part; `BlockchainProofs` has one lemma per action,
then `InitIInv`, `NextIInv` and the theorems.

*Pool.* The four properties are proved together as `Consistent`, once for the
memory and once for the pool file, because `init` makes the memory out of the
file. `RemoveOutputs` needs `Separate` (two transactions that no block brought
share no output), or taking one transaction would take an output that another
one still spends; `Separate` in turn needs both indexes to be exact, as
`haveSpentInputs` looks only at them. The block template takes part only by what
the check writes into the details (`CheckKeepsOrigin`).

## 5. What is model-checked only

* `SwitchTerminates`: liveness.
* `ImplementsLedger`, `RestoreSucceeds`, `ReaddNeverReorganises`,
  `PoolDisjointFromChain`: in reach of a proof, planned.
* `IndexMatchesChain`: `m_outputs` is undone by a fold over the transactions of
  a block, and `RebuiltOutputs` is a concatenation; what they compute needs
  induction over data.
* `TemplateSpendsOnce`, `TemplateFits`, `TemplateNotMined`,
  `TemplateWithoutTtl`: the template is a fold over the fee index, for the same
  reason.

## 6. Where the code disagrees with what it says

| run | the code | what it says |
|---|---|---|
| `sparse` | a switch whose re-add loop ends early leaves alternative blocks without a parent | `doBuildSparseChain` asserts that the walk ends on the main chain |
| `young` | the depth test subtracts unsigned heights and wraps on a chain shorter than the unlock window | log "too deep reorganization"; a disabled unit test allows the block |
| `pool_stale` | the cache of validated transactions is never emptied, as nothing calls `on_blockchain_inc` and `on_blockchain_dec`; a template may hold a transaction that can no longer be mined | the log lines of the two functions |
| `pool_lookup` | the cached check asks for the block at `lastFailed.height` after a reorganisation to a lower chain | `getBlockIdByHeight` asserts that the height is in range |
| `pool_refused` | a transaction that failed once is refused while the block of the failure is on the chain, although it has become valid | comment: "broken for this height" |
| `pool_dated` | a second deletion keeps the time of the first | the unit test counts from the deletion |

`PROJECT.json` quotes the lines.

## 7. Not modelled, and the plan

Left out of the modelled parts: multisignature outputs, payment-id and timestamp
indexes and the block size median of the block store; observers, the payment-id
and timestamp indexes and the printing of the pool. They do not feed back into
what is modelled, except the median, which is a constant of the instances.

Out of scope: signatures and hashes (opaque), formats and serialization, RPC and
HTTP formatting, command lines, word tables, logging.

Planned, in this order:

1. `UpgradeDetector`: the voting window under pushes and pops, against its
   definition over the chain; then composed with the block store.
2. `BlockIndex`: sparse chains and `findSupplement` as operators, checked
   against a reference; two nodes with `Protocol` (the synchronisation states of
   `CryptoNoteProtocolHandler`), with lost connections and blocks that arrive
   twice.
3. `SwappedVector`: the order of the writes of its two files, and a crash
   between two of them, as the detailed specification under `m_blocks`.
4. `PeerLists`: white and grey lists under merge, promotion and trimming.
5. `Synchronizer` and `Transfers` of the wallets: futures against stops, detach
   against confirm.
6. `Event`, `ContextGroup` and `MessageQueue`: waiters against interruption and
   stop, with liveness; `Miner` with its template number.
7. Difficulty and reward arithmetic as operators with word widths.
8. Proofs: the refinement of `Ledger`, `RestoreSucceeds`,
   `PoolDisjointFromChain`, type correctness of `TransactionPool`, and the
   invariants of the new modules.
