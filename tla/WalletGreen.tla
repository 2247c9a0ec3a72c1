----------------------------- MODULE WalletGreen -----------------------------
(***************************************************************************)
(* lib/Wallet/WalletGreen.cpp, driven by lib/PaymentGate/WalletService.cpp *)
(* and fed by one TransfersContainer per address: the life of a            *)
(* transaction (sent, delayed, committed, rolled back, seen in a block),   *)
(* the cached balances, the jobs that unlock money, the wallet file.       *)
(*                                                                         *)
(* Two threads.  The synchronizer's thread changes the containers and      *)
(* hands a callback to the dispatcher for everything it did (remoteSpawn). *)
(* The dispatcher's thread runs the callbacks in order, each under         *)
(* m_readyEvent, and the one operation the service has in progress, which  *)
(* keeps m_readyEvent while it waits for the synchronizer or the node.     *)
(***************************************************************************)
EXTENDS WalletTransfers, Functions

CONSTANTS
    Addresses,      \* every address the wallet may ever have
    Initially,      \* those it has at first
    OutsAt,         \* address -> transaction -> outputs
    Ins,            \* transaction -> set of [image, amount]
    Image, Amount,  \* of an output
    UNCONFIRMED,    \* WALLET_UNCONFIRMED_TRANSACTION_HEIGHT
    Destinations,   \* outgoing transaction -> address -> amount, change included
    Source,         \* outgoing transaction -> [address, output] it spends
    AllIn, AllOut,  \* transaction -> totalAmountIn, totalAmountOut
    SoftLock,       \* m_transactionSoftLockTime
    Limits,         \* scenario -> what may happen in it, and how often
    MaxCallbacks

VARIABLES
    scenario,       \* never changes
    wallet,         \* the members of WalletGreen
    sync,           \* the synchronizer: chain, containers, m_poolTxs
    callbacks,      \* spawned on the dispatcher, not run yet
    operation,      \* the operation in progress
    node,           \* the daemon: its pool, what it has seen
    file,           \* the wallet file: keys, cache
    transactionIdIndex,  \* of WalletService
    missed,         \* the effect of a callback was lost: it threw, or was late for the file
    counters

walletVars == <<wallet, sync, callbacks, operation, node, file, transactionIdIndex, missed, counters>>

\* The transactions of others and of the wallet, what the service is asked to
\* do, and the bounds.
Incoming == Limits[scenario].incoming
Outgoing == Limits[scenario].outgoing
Operations == Limits[scenario].operations
MaxOperations == Limits[scenario].count
MaxHeight == Limits[scenario].height
MaxForks == Limits[scenario].forks
MaxDrops == Limits[scenario].drops
MaxRestarts == Limits[scenario].restarts

C(a) == INSTANCE TransfersContainer WITH Outs <- OutsAt[a]

Genesis == [id |-> <<0, 0>>, tx |-> "none"]
Idle == [kind |-> "none"]
Height(s) == Len(s.chain) - 1

With(f, x, y) == [z \in DOMAIN f \cup {x} |-> IF z = x THEN y ELSE f[z]]
Without(f, S) == [z \in DOMAIN f \ S |-> f[z]]

\* ITransfersContainer::balance, unlocked and locked.
Value(S) == MapThenSumSet(LAMBDA o : Amount[o], S)
UnlockedOutputs(c) ==
    {o \in DOMAIN c.available \cap c.visible : c.height >= c.available[o].height + SoftLock}
Unlocked(c) == Value(UnlockedOutputs(c))
Locked(c) == Value(((DOMAIN c.available \cup c.unconfirmed) \cap c.visible) \ UnlockedOutputs(c))

\* getTransactionInformation: what a transaction took from and gave to one.
AmountsIn(a, c, t) ==
    [input |-> -Value({o \in DOMAIN c.spent : c.spent[o].by = t}),
     output |-> Value((DOMAIN c.available \cup DOMAIN c.spent \cup c.unconfirmed) \cap OutsAt[a][t])]

------------------------------------------------------------------------------
(* The members of WalletGreen, and the private operations on them. *)

NoBalance == [actual |-> 0, pending |-> 0]
TotalOf(wallets, which) == MapThenSumSet(LAMBDA a : wallets[a][which], DOMAIN wallets)

Ids(w) == DOMAIN w.transactions
HasHash(w, t) == \E i \in Ids(w) : w.transactions[i].hash = t
getTransactionId(w, t) == CHOOSE i \in Ids(w) : w.transactions[i].hash = t


updateBalance(w, s, a) ==
    IF a \notin DOMAIN w.wallets THEN w
    ELSE LET new == [actual |-> Unlocked(s.box[a]), pending |-> Locked(s.box[a])]
         IN  [w EXCEPT !.wallets[a] = new,
                       !.actual = @ + new.actual - w.wallets[a].actual,
                       !.pending = @ + new.pending - w.wallets[a].pending]

updateBalances(w, s, S) ==
    LET order == SetToSeq(S)
        after[i \in 0..Len(order)] ==
            IF i = 0 THEN w ELSE updateBalance(after[i - 1], s, order[i])
    IN  after[Len(order)]

pushEvent(w, id) == [w EXCEPT !.events = Append(@, id)]

\* insertOutgoingTransactionAndPushEvent, and pushBackOutgoingTransfers.
insertOutgoing(w, t) ==
    LET id == Len(w.transactions) + 1
        new == [hash |-> t, state |-> "CREATED", height |-> UNCONFIRMED, total |-> 0]
    IN  pushEvent([w EXCEPT !.transactions = Append(@, new),
                            !.transfers = pushBackOutgoingTransfers(@, id, Destinations[t])], id)

updateTransactionState(w, id, state) == [w EXCEPT !.transactions[id].state = state]

\* updateWalletTransactionInfo: a transaction that was sent, or is in a block,
\* has succeeded, whatever happened to it before.
updateWalletTransactionInfo(tx, info, total) ==
    LET wasSent == tx.state \notin {"CREATED", "FAILED"}
    IN  [tx EXCEPT !.height = info.height, !.total = total,
                   !.state = IF wasSent \/ info.height # UNCONFIRMED THEN "SUCCEEDED" ELSE @]

------------------------------------------------------------------------------
(* The callbacks. *)

blocksAdded(w, ids) ==
    LET new == SelectSeq(ids, LAMBDA b : b \notin Range(w.blockchain))
    IN  [w EXCEPT !.blockchain = @ \o new]

blocksRollback(w, index) ==
    [w EXCEPT !.blockchain = SubSeq(@, 1, Min({index, Len(@)}))]

\* The jobs that are due, and the balances they are about.
unlockBalances(w, s, height) ==
    LET due == {j \in w.jobs : j.height <= height}
    IN  [updateBalances(w, s, {j.address : j \in due}) EXCEPT !.jobs = @ \ due]

insertUnlockTransactionJobs(w, info) ==
    [w EXCEPT !.jobs = @ \cup {[height |-> info.height + SoftLock, address |-> a, hash |-> info.tx] :
                                   a \in DOMAIN info.amounts}]

deleteUnlockTransactionJob(jobs, t) == {j \in jobs : j.hash # t}

\* transactionUpdated.  A container whose address was deleted in the meantime
\* makes getWalletRecord throw, with half of the transfers updated.
transactionUpdated(w, s, info) ==
    LET total == MapThenSumSet(LAMBDA a : info.amounts[a].input + info.amounts[a].output,
                               DOMAIN info.amounts)
        new == [hash |-> info.tx, state |-> "SUCCEEDED", height |-> info.height, total |-> total]
        isNew == ~HasHash(w, info.tx)
        id == IF isNew THEN Len(w.transactions) + 1 ELSE getTransactionId(w, info.tx)
        confirmed == info.height # UNCONFIRMED
        recorded ==
            [w EXCEPT !.transactions = IF isNew THEN Append(@, new)
                         ELSE [@ EXCEPT ![id] = updateWalletTransactionInfo(@, info, total)],
                      !.uncommitted = IF confirmed THEN Without(@, {id}) ELSE @]
        balanced == updateBalances(recorded, s, DOMAIN info.amounts)
        locked == IF confirmed THEN insertUnlockTransactionJobs(balanced, info) ELSE balanced
        listed == [locked EXCEPT !.transfers =
                      updateTransactionTransfers(@, id, info.amounts, -AllIn[info.tx], AllOut[info.tx])]
    IN  IF DOMAIN info.amounts \subseteq DOMAIN w.wallets
        THEN IF isNew THEN pushEvent(listed, id) ELSE listed
        ELSE [locked EXCEPT !.transfers = updateTransfersUntil(@, id, info.amounts, DOMAIN w.wallets)]

\* transactionDeleted.
transactionDeleted(w, s, a, t) ==
    IF ~HasHash(w, t) THEN w
    ELSE LET id == getTransactionId(w, t)
             cancelled == IF w.transactions[id].state \in {"CREATED", "SUCCEEDED"}
                          THEN "CANCELLED" ELSE w.transactions[id].state
         IN  [updateBalance(w, s, a) EXCEPT
                 !.jobs = deleteUnlockTransactionJob(@, t),
                 !.transactions[id].state = cancelled,
                 !.transactions[id].height = UNCONFIRMED]

\* getWalletRecord of a container that is not there any more.
Throws(e) == e.kind = "updated" /\ ~(DOMAIN e.amounts \subseteq DOMAIN wallet.wallets)

\* The head of the queue runs once no operation holds m_readyEvent.
RunCallback ==
    /\ callbacks # <<>> /\ operation = Idle
    /\ LET e == Head(callbacks) IN
         wallet' = CASE e.kind = "blocks"   -> blocksAdded(wallet, e.ids)
                     [] e.kind = "rollback" -> blocksRollback(wallet, e.index)
                     [] e.kind = "progress" -> unlockBalances(wallet, sync, e.count - 1)
                     [] e.kind = "updated"  -> transactionUpdated(wallet, sync, e)
                     [] e.kind = "deleted"  -> transactionDeleted(wallet, sync, e.address, e.tx)
    /\ missed' = (missed \/ Throws(Head(callbacks)))
    /\ callbacks' = Tail(callbacks)
    /\ UNCHANGED <<sync, operation, node, file, transactionIdIndex, counters>>

------------------------------------------------------------------------------
(* The synchronizer's thread. *)

Holds(s, a, t) == t \in C(a)!Recorded(s.box[a])
IsUnconfirmed(s, a, t) == Holds(s, a, t) /\ C(a)!Entry(s.box[a], t).height = UNCONFIRMED

\* processOutputs, for one subscription: confirmed, added, or as it was.
processOutputs(s, a, t, height) ==
    IF ~Holds(s, a, t) THEN C(a)!addTransaction(s.box[a], t, height, 1).c
    ELSE IF IsUnconfirmed(s, a, t) /\ height # UNCONFIRMED
    THEN C(a)!markTransactionConfirmed(s.box[a], t, height, 1)
    ELSE s.box[a]

Refused(s, t, height) ==
    \E a \in DOMAIN s.box : /\ ~Holds(s, a, t)
                            /\ C(a)!addTransaction(s.box[a], t, height, 1).result = "throws"

\* processTransaction over all subscriptions: the containers after it, and the
\* one notification, with the amounts as they are now.
processTransaction(s, t, height) ==
    [s EXCEPT !.box = [a \in DOMAIN @ |-> processOutputs(s, a, t, height)]]

Updated(s, r, t) ==
    {a \in DOMAIN s.box : Holds(r, a, t) /\ (Holds(s, a, t) =>
                            IsUnconfirmed(s, a, t) /\ ~IsUnconfirmed(r, a, t))}

onTransactionUpdated(s, r, t, height) ==
    IF Updated(s, r, t) = {} THEN <<>>
    ELSE <<[kind |-> "updated", tx |-> t, height |-> height,
            amounts |-> [a \in {b \in DOMAIN r.box : Holds(r, b, t)} |->
                            AmountsIn(a, r.box[a], t)]]>>

\* One onTransactionDeleted for every container that lost a transaction.
onTransactionDeleted(s, r) ==
    LET gone == {p \in (DOMAIN s.box) \X (Incoming \cup Outgoing) :
                    Holds(s, p[1], p[2]) /\ ~Holds(r, p[1], p[2])}
        order == SetToSeq(gone)
    IN  [i \in DOMAIN order |-> [kind |-> "deleted", address |-> order[i][1], tx |-> order[i][2]]]

Room == Len(callbacks) < MaxCallbacks

\* onNewBlocks for one block: the wallet hears of the block, then of what is in it.
NewBlock(t) ==
    LET s == sync
        height == Len(s.chain)
        r == IF t = "none" THEN s ELSE processTransaction(s, t, height)
        block == [id |-> <<height, counters.forks>>, tx |-> t]
    IN  /\ ~s.advancing /\ DOMAIN s.box # {} /\ height <= MaxHeight /\ Room
        /\ t # "none" => /\ t \in Incoming \cup node.relayed
                         /\ t \notin {s.chain[i].tx : i \in DOMAIN s.chain}
                         /\ ~Refused(s, t, height)
        /\ sync' = [r EXCEPT !.chain = Append(@, block), !.advancing = TRUE]
        /\ callbacks' = Append(callbacks, [kind |-> "blocks", ids |-> <<block.id>>])
                            \o onTransactionUpdated(s, r, t, height)
        /\ node' = [node EXCEPT !.pool = @ \ {t}]
        /\ UNCHANGED <<wallet, operation, file, transactionIdIndex, missed, counters>>

\* The end of onNewBlocks: advanceHeight, and the progress is reported.
AdvanceHeight ==
    /\ sync.advancing
    /\ sync' = [sync EXCEPT
          !.advancing = FALSE,
          !.box = [a \in DOMAIN @ |-> C(a)!advanceHeight(@[a], Height(sync))]]
    /\ callbacks' = Append(callbacks, [kind |-> "progress", count |-> Len(sync.chain)])
    /\ UNCHANGED <<wallet, operation, node, file, transactionIdIndex, missed, counters>>

\* onBlockchainDetach: the last blocks are of another branch.  Their
\* transactions are in the pool again.
Detach(height) ==
    LET back == {sync.chain[i].tx : i \in height + 1..Len(sync.chain)} \ {"none"}
        r == [sync EXCEPT !.box = [a \in DOMAIN @ |-> C(a)!detach(@[a], height)],
                          !.chain = SubSeq(@, 1, height)]
    IN  /\ ~sync.advancing /\ counters.forks < MaxForks /\ Room
        /\ height < Len(sync.chain)
        /\ sync' = r
        /\ callbacks' = Append(callbacks, [kind |-> "rollback", index |-> height])
                            \o onTransactionDeleted(sync, r)
        /\ node' = [node EXCEPT !.pool = @ \cup (back \cap Outgoing)]
        /\ counters' = [counters EXCEPT !.forks = @ + 1]
        /\ UNCHANGED <<wallet, operation, file, transactionIdIndex, missed>>

\* onPoolUpdated: what is new in the node's pool, then what left it.
PoolUpdate ==
    LET added == node.pool \ sync.poolTxs
        deleted == sync.poolTxs \ node.pool
        t == CHOOSE x \in added : TRUE
        r == IF added = {} THEN sync ELSE processTransaction(sync, t, UNCONFIRMED)
        d == [r EXCEPT !.box = [a \in DOMAIN @ |->
                 C(a)!deleteUnconfirmedTransaction(@[a], CHOOSE x \in deleted : TRUE)]]
        e == IF deleted = {} THEN r ELSE d
    IN  /\ ~sync.advancing /\ DOMAIN sync.box # {} /\ Room
        /\ node.pool # sync.poolTxs /\ Cardinality(added) <= 1 /\ Cardinality(deleted) <= 1
        /\ added # {} => ~Refused(sync, t, UNCONFIRMED)
        /\ sync' = [e EXCEPT !.poolTxs = node.pool]
        /\ callbacks' = callbacks
              \o (IF added = {} THEN <<>> ELSE onTransactionUpdated(sync, r, t, UNCONFIRMED))
              \o onTransactionDeleted(r, e)
        /\ UNCHANGED <<wallet, operation, node, file, transactionIdIndex, missed, counters>>

\* The node forgets a transaction of its pool.
Drop(t) ==
    /\ t \in node.pool /\ counters.drops < MaxDrops
    /\ node' = [node EXCEPT !.pool = @ \ {t}]
    /\ counters' = [counters EXCEPT !.drops = @ + 1]
    /\ UNCHANGED <<wallet, sync, callbacks, operation, file, transactionIdIndex, missed>>

------------------------------------------------------------------------------
(* Sending, and delayed transactions.  Each waits for the synchronizer's     *)
(* thread or for the node, and keeps m_readyEvent.                           *)

Ready(kind) ==
    operation = Idle /\ kind \in Operations /\ counters.operations < MaxOperations

Counted == counters' = [counters EXCEPT !.operations = @ + 1]

\* Unlocked outputs of the wallet's addresses.
selectTransfers(t) ==
    /\ Source[t].address \in DOMAIN wallet.wallets
    /\ Source[t].output \in UnlockedOutputs(sync.box[Source[t].address])

\* The outputs are there, and addresses of the wallet are not deleted ones.
prepareTransaction(t) ==
    /\ selectTransfers(t)
    /\ \A a \in DOMAIN Destinations[t] : a \in Addresses => a \in DOMAIN wallet.wallets

\* validateSaveAndSendTransaction, as far as the transaction is in the list.
validateSaveAndSendTransaction(t, kind) ==
    /\ t \notin counters.made
    /\ counters' = [counters EXCEPT !.operations = @ + 1, !.made = @ \cup {t}]
    /\ wallet' = insertOutgoing(wallet, t)
    /\ operation' = [kind |-> kind, step |-> "adding", id |-> Len(wallet.transactions) + 1, tx |-> t]
    /\ UNCHANGED <<sync, callbacks, node, file, transactionIdIndex, missed>>

doTransfer(t) ==
    Ready("transfer") /\ prepareTransaction(t) /\ validateSaveAndSendTransaction(t, "transfer")

makeTransaction(t) ==
    Ready("make") /\ prepareTransaction(t) /\ validateSaveAndSendTransaction(t, "make")

Fail(id) == updateTransactionState(wallet, id, "FAILED")

\* addUnconfirmedTransaction runs in the synchronizer's thread and may find the
\* output spent in the meantime.
AddUnconfirmed ==
    LET t == operation.tx
        r == processTransaction(sync, t, UNCONFIRMED)
    IN  /\ operation.kind \in {"transfer", "make"} /\ operation.step = "adding"
        /\ ~sync.advancing /\ Room
        /\ \/ /\ Refused(sync, t, UNCONFIRMED)
              /\ wallet' = Fail(operation.id)
              /\ operation' = Idle
              /\ UNCHANGED <<sync, callbacks>>
           \/ /\ ~Refused(sync, t, UNCONFIRMED)
              /\ sync' = r
              /\ callbacks' = callbacks \o onTransactionUpdated(sync, r, t, UNCONFIRMED)
              /\ \/ /\ operation.kind = "make"
                    /\ wallet' = [wallet EXCEPT !.uncommitted =
                                    IF operation.id \in DOMAIN @ THEN @ ELSE With(@, operation.id, t)]
                    /\ operation' = Idle
                 \/ /\ operation.kind = "transfer"
                    /\ operation' = [operation EXCEPT !.step = "relaying"]
                    /\ UNCHANGED wallet
        /\ UNCHANGED <<node, file, transactionIdIndex, missed, counters>>

\* relayTransaction reached the node.
Accepted(t) == node' = [node EXCEPT !.pool = @ \cup {t}, !.relayed = @ \cup {t}]

\* The answer to relayTransaction: accepted, refused, or accepted and lost on
\* the way.  A transfer that was not accepted is taken back, a delayed one
\* stays as it is.
AnswerYes ==
    /\ operation.kind \in {"transfer", "commit"} /\ operation.step = "relaying"
    /\ Accepted(operation.tx)
    /\ wallet' = [updateTransactionState(wallet, operation.id, "SUCCEEDED") EXCEPT
                    !.uncommitted = IF operation.kind = "commit" THEN Without(@, {operation.id}) ELSE @]
    /\ operation' = Idle
    /\ UNCHANGED <<sync, callbacks, file, transactionIdIndex, missed, counters>>

AnswerNo ==
    /\ operation.kind \in {"transfer", "commit"} /\ operation.step = "relaying"
    /\ \/ UNCHANGED node
       \/ "lost" \in Operations /\ Accepted(operation.tx)
    /\ operation' = IF operation.kind = "transfer" THEN [operation EXCEPT !.step = "removing"] ELSE Idle
    /\ UNCHANGED <<wallet, sync, callbacks, file, transactionIdIndex, missed, counters>>

\* removeUnconfirmedTransaction, in the synchronizer's thread.
RemoveUnconfirmed ==
    LET r == [sync EXCEPT !.box = [a \in DOMAIN @ |->
                 C(a)!deleteUnconfirmedTransaction(@[a], operation.tx)]]
    IN  /\ operation.kind \in {"transfer", "rollback"} /\ operation.step = "removing"
        /\ ~sync.advancing /\ Room
        /\ sync' = r
        /\ callbacks' = callbacks \o onTransactionDeleted(sync, r)
        /\ wallet' = IF operation.kind = "transfer" THEN Fail(operation.id)
                     ELSE [wallet EXCEPT !.uncommitted = Without(@, {operation.id})]
        /\ operation' = Idle
        /\ UNCHANGED <<node, file, transactionIdIndex, missed, counters>>

\* sendDelayedTransaction and deleteDelayedTransaction of the service look up
\* the id of the hash; commitTransaction and rollbackUncommitedTransaction go
\* by the id alone.
Delayed(id) ==
    /\ id \in Ids(wallet) \cap DOMAIN wallet.uncommitted
    /\ wallet.transactions[id].state = "CREATED"

UseDelayed(hash, kind) ==
    /\ Ready(kind) /\ Counted
    /\ hash \in DOMAIN transactionIdIndex
    /\ LET id == transactionIdIndex[hash] IN
         /\ Delayed(id)
         /\ operation' = [kind |-> kind, step |-> IF kind = "commit" THEN "relaying" ELSE "removing",
                          id |-> id, tx |-> wallet.uncommitted[id], asked |-> hash]
    /\ UNCHANGED <<wallet, sync, callbacks, node, file, transactionIdIndex, missed>>

\* The service's refresh: a new transaction enters the index, unless its hash
\* is there.
Refresh ==
    /\ wallet.events # <<>>
    /\ LET id == Head(wallet.events)
           hash == wallet.transactions[id].hash
       IN  transactionIdIndex' = IF hash \in DOMAIN transactionIdIndex THEN transactionIdIndex
                                 ELSE With(transactionIdIndex, hash, id)
    /\ wallet' = [wallet EXCEPT !.events = Tail(@)]
    /\ UNCHANGED <<sync, callbacks, operation, node, file, missed, counters>>

------------------------------------------------------------------------------
(* Addresses.  The synchronizer is stopped; callbacks stay where they are.   *)

\* deleteTransfersForAddress over all transactions that have transfers: one
\* without a transfer of another address of the wallet is deleted.
deleteTransfers(w, a) ==
    LET others == DOMAIN w.wallets \ {a}
        listed == {id \in Ids(w) : getTransactionTransfersRange(w.transfers, id) # <<>>}
        dead == {id \in listed : ~TransfersLeft(w.transfers, id, others)}
        order == SetToSortSeq(listed, <)
        after[i \in 0..Len(order)] ==
            IF i = 0 THEN w.transfers ELSE deleteTransfersForAddress(after[i - 1], order[i], a)
    IN  [w EXCEPT
            !.transfers = after[Len(order)],
            !.transactions = [id \in DOMAIN @ |->
                LET less == [@[id] EXCEPT !.total = @ - DeletedAmount(w.transfers, id, a)]
                IN  IF id \in dead
                    THEN [less EXCEPT !.state = "DELETED", !.height = UNCONFIRMED] ELSE less],
            !.uncommitted = Without(@, dead)]

NoConsumer(s) == [s EXCEPT !.chain = <<Genesis>>, !.poolTxs = {}]

deleteContainerFromUnlockTransactionJobs(jobs, a) == {j \in jobs : j.address # a}

deleteAddress(a) ==
    /\ Ready("delete") /\ Counted /\ ~sync.advancing
    /\ a \in DOMAIN wallet.wallets
    /\ LET others == DOMAIN wallet.wallets \ {a}
           w == [deleteTransfers(wallet, a) EXCEPT
                    !.actual = @ - wallet.wallets[a].actual,
                    !.pending = @ - wallet.wallets[a].pending,
                    !.jobs = deleteContainerFromUnlockTransactionJobs(@, a),
                    !.wallets = Without(@, {a})]
           s == [sync EXCEPT !.box = Without(@, {a})]
       IN  /\ wallet' = IF others = {} THEN [w EXCEPT !.blockchain = <<Genesis.id>>] ELSE w
           /\ sync' = IF others = {} THEN NoConsumer(s) ELSE s
    /\ file' = [file EXCEPT !.keys = @ \ {a}]
    /\ UNCHANGED <<callbacks, operation, node, transactionIdIndex, missed>>

\* addWallet: the first one takes the blocks the synchronizer knows.
addWallet(w, a) ==
    LET known == [i \in DOMAIN sync.chain |-> sync.chain[i].id]
        added == [w EXCEPT !.wallets = With(@, a, NoBalance)]
    IN  IF DOMAIN w.wallets = {} THEN blocksAdded(added, known) ELSE added

\* createAddress for a new key: nothing in the chain so far is for it.
createAddress(a) ==
    /\ Ready("create") /\ Counted /\ ~sync.advancing
    /\ a \notin Initially /\ a \notin DOMAIN wallet.wallets
    /\ wallet' = addWallet(wallet, a)
    /\ sync' = [sync EXCEPT !.box = With(@, a, C(a)!Empty)]
    /\ file' = [file EXCEPT !.keys = @ \cup {a}]
    /\ UNCHANGED <<callbacks, operation, node, transactionIdIndex, missed>>

------------------------------------------------------------------------------
(* The wallet file: keys, written as they change, and a cache.               *)

\* filterOutTransactions: what is left is numbered anew.
filterOutTransactions(w) ==
    LET kept == SetToSortSeq({i \in Ids(w) : w.transactions[i].state # "DELETED"}, <)
        new(i) == CHOOSE k \in DOMAIN kept : kept[k] = i
        some == SelectSeq(w.transfers, LAMBDA e : e.tx \in Range(kept))
    IN  [w EXCEPT !.transactions = [k \in DOMAIN kept |-> @[kept[k]]],
                  !.transfers = [j \in DOMAIN some |-> [some[j] EXCEPT !.tx = new(@)]]]

\* SAVE_ALL: everything but what callbacks are still to do.
saveWalletCache(w, s, late) ==
    [wallet |-> [filterOutTransactions(w) EXCEPT !.blockchain = <<>>, !.events = <<>>],
     box |-> s.box, chain |-> s.chain, late |-> late]

Save ==
    /\ Ready("save") /\ Counted /\ ~sync.advancing
    /\ file' = [file EXCEPT !.cache = <<saveWalletCache(wallet, sync, callbacks # <<>> \/ missed)>>]
    /\ UNCHANGED <<wallet, sync, callbacks, operation, node, transactionIdIndex, missed>>

\* clearCaches(false, true): the chain is to be read again.
clearCaches(w) ==
    [w EXCEPT !.wallets = [a \in DOMAIN @ |-> NoBalance],
              !.transactions = [i \in DOMAIN @ |->
                                   [@[i] EXCEPT !.state = "CANCELLED", !.height = UNCONFIRMED]],
              !.uncommitted = <<>>, !.jobs = {}, !.actual = 0, !.pending = 0]

deleteOrphanTransactions(w, S) ==
    LET order == SetToSeq(S)
        after[i \in 0..Len(order)] ==
            IF i = 0 THEN w ELSE deleteTransfers(after[i - 1], order[i])
    IN  after[Len(order)]

EmptyWallet(keys) ==
    [wallets |-> [a \in keys |-> NoBalance], actual |-> 0, pending |-> 0, transactions |-> <<>>,
     transfers |-> <<>>, uncommitted |-> <<>>, jobs |-> {}, blockchain |-> <<>>, events |-> <<>>]

EmptySync(keys) ==
    [chain |-> <<Genesis>>, box |-> [a \in keys |-> C(a)!Empty], poolTxs |-> {}, advancing |-> FALSE]

\* WalletSerializerV2: balances, containers and jobs of the keys that are
\* still there.
loadKeyListAndBalances(cache, keys) ==
    LET both == keys \cap DOMAIN cache.wallet.wallets
        wallets == [a \in keys |-> IF a \in both THEN cache.wallet.wallets[a] ELSE NoBalance]
    IN  [cache.wallet EXCEPT !.wallets = wallets,
                             !.actual = TotalOf(wallets, "actual"),
                             !.pending = TotalOf(wallets, "pending")]

loadUnlockTransactionsJobs(w, keys) == [w EXCEPT !.jobs = {j \in @ : j.address \in keys}]

loadTransfersSynchronizer(cache, keys) ==
    LET both == keys \cap DOMAIN cache.wallet.wallets
    IN  [EmptySync(keys) EXCEPT
            !.box = [a \in keys |-> IF a \in both THEN C(a)!repair(cache.box[a]) ELSE @[a]],
            !.chain = IF keys = {} THEN @ ELSE cache.chain]

loadWalletCache(cache, keys) ==
    [w |-> loadUnlockTransactionsJobs(loadKeyListAndBalances(cache, keys), keys),
     s |-> loadTransfersSynchronizer(cache, keys)]

\* What is unconfirmed and not delayed is taken for the node's pool.
initTransactionPool(w, s) ==
    {t \in Incoming \cup Outgoing : \E a \in DOMAIN s.box : IsUnconfirmed(s, a, t)}
        \ Range(w.uncommitted)

\* The service numbers what it finds.
loadTransactionIdIndex(w) ==
    [t \in {w.transactions[i].hash : i \in Ids(w)} |-> getTransactionId(w, t)]

\* The process ends, at any time, and load reads the file; initBlockchain takes
\* the blocks of the synchronizer.
Restart ==
    LET keys == file.keys
        cached == file.cache # <<>>
        cache == file.cache[1]
        found == loadWalletCache(cache, keys)
        added == keys \ DOMAIN cache.wallet.wallets
        deleted == DOMAIN cache.wallet.wallets \ keys
        cleared == IF added = {} THEN found ELSE [w |-> clearCaches(found.w), s |-> EmptySync(keys)]
        w == IF cached THEN deleteOrphanTransactions(cleared.w, deleted) ELSE EmptyWallet(keys)
        s == IF cached THEN cleared.s ELSE EmptySync(keys)
        known == IF keys = {} THEN <<Genesis.id>> ELSE [i \in DOMAIN s.chain |-> s.chain[i].id]
    IN  /\ "restart" \in Operations /\ counters.restarts < MaxRestarts
        /\ wallet' = [w EXCEPT !.blockchain = known]
        /\ sync' = [s EXCEPT !.poolTxs = initTransactionPool(w, s)]
        /\ missed' = (cached /\ added = {} /\ cache.late)
        /\ file' = IF cached /\ (added # {} \/ deleted # {})
                   THEN [file EXCEPT !.cache = <<saveWalletCache(w, s, missed')>>] ELSE file
        /\ callbacks' = <<>> /\ operation' = Idle
        /\ transactionIdIndex' = loadTransactionIdIndex(w)
        /\ counters' = [counters EXCEPT !.restarts = @ + 1]
        /\ UNCHANGED node

------------------------------------------------------------------------------
Init ==
    /\ scenario \in DOMAIN Limits
    /\ wallet = [EmptyWallet(Initially) EXCEPT !.blockchain = <<Genesis.id>>]
    /\ sync = EmptySync(Initially)
    /\ callbacks = <<>> /\ operation = Idle
    /\ node = [pool |-> {}, relayed |-> {}]
    /\ file = [keys |-> Initially, cache |-> <<>>]
    /\ transactionIdIndex = <<>> /\ missed = FALSE
    /\ counters = [operations |-> 0, forks |-> 0, drops |-> 0, restarts |-> 0, made |-> {}]

Next ==
    \/ RunCallback \/ AdvanceHeight \/ PoolUpdate \/ Refresh
    \/ \E t \in Incoming \cup Outgoing \cup {"none"} : NewBlock(t)
    \/ \E h \in 1..MaxHeight : Detach(h)
    \/ \E t \in Outgoing : Drop(t)
    \/ \E t \in Outgoing : doTransfer(t) \/ makeTransaction(t)
    \/ AddUnconfirmed \/ AnswerYes \/ AnswerNo \/ RemoveUnconfirmed
    \/ \E t \in Outgoing, kind \in {"commit", "rollback"} : UseDelayed(t, kind)
    \/ \E a \in Addresses : deleteAddress(a) \/ createAddress(a)
    \/ Save \/ Restart

Spec == Init /\ [][Next /\ UNCHANGED scenario]_<<scenario, walletVars>>

------------------------------------------------------------------------------
\* Nothing is on its way to the wallet, and nothing was lost on the way.
Settled == callbacks = <<>> /\ operation = Idle /\ ~sync.advancing /\ ~missed



\* A delayed transaction is kept under its own id, so that committing or
\* deleting it by its hash reaches that transaction and no other.
DelayedIsNamed ==
    /\ \A id \in DOMAIN wallet.uncommitted :
          id \in Ids(wallet) /\ wallet.transactions[id].hash = wallet.uncommitted[id]
    /\ operation.kind \in {"commit", "rollback"} => operation.tx = operation.asked

\* "assert(m_uncommitedTransactions.count(transactionId) == 0)": a new
\* transaction's id is not the id of a delayed one.
NewIdIsFree ==
    operation.kind = "make" => operation.id \notin DOMAIN wallet.uncommitted
==============================================================================
