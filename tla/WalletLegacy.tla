----------------------------- MODULE WalletLegacy -----------------------------
(***************************************************************************)
(* lib/WalletLegacy: WalletLegacy.cpp with its WalletTransactionSender,    *)
(* WalletUserTransactionsCache and WalletUnconfirmedTransactions, over one *)
(* TransfersContainer.  Outputs of a transaction that was sent are         *)
(* remembered as used until the container has seen the transaction itself. *)
(*                                                                         *)
(* Three kinds of threads meet at m_cacheMutex: the user's, the node's     *)
(* (which answers requests) and the synchronizer's, which changes the      *)
(* container and then calls the observers, one after the other.            *)
(***************************************************************************)
EXTENDS Integers, Sequences, FiniteSets, SequencesExt, FiniteSetsExt

CONSTANTS
    Outs, Ins, Image, Amount, UNCONFIRMED,  \* as in TransfersContainer
    SpendableAge,   \* m_transactionSpendableAge
    PaymentIds,     \* transaction -> payment id, for those that have one
    Limits          \* scenario -> what may happen in it, and how often

VARIABLES
    scenario,       \* never changes
    m_state, m_isStopping,
    cache,          \* m_transactionsCache
    box,            \* m_transferDetails
    chain, poolTxs, \* the blocks and pool transactions the consumer has seen
    notify,         \* what the synchronizer's thread still has to tell
    requests,       \* to the node, not answered
    call,           \* the user's call in progress
    node,           \* its pool, what it accepted
    file,
    failed,         \* assertions that failed
    counters

legacyVars == <<m_state, m_isStopping, cache, box, chain, poolTxs, notify, requests,
                call, node, file, failed, counters>>

\* The transactions of others and of the user, what the user does, and the
\* bounds (requests: to the node, at a time).
Incoming == Limits[scenario].incoming
Outgoing == Limits[scenario].outgoing
Calls == Limits[scenario].operations
MaxCalls == Limits[scenario].count
MaxRequests == Limits[scenario].requests
MaxHeight == Limits[scenario].height
MaxForks == Limits[scenario].forks
MaxDrops == Limits[scenario].drops

C == INSTANCE TransfersContainer

Txs == Incoming \cup Outgoing
With(f, x, y) == [z \in DOMAIN f \cup {x} |-> IF z = x THEN y ELSE f[z]]
Without(f, S) == [z \in DOMAIN f \ S |-> f[z]]
Value(S) == MapThenSumSet(LAMBDA o : Amount[o], S)

-------------------------------------------------------------------------------
(* WalletUnconfirmedTransactions: m_unconfirmedTxs and m_usedOutputs.        *)

\* erase: the outputs are free again.
erase(c, hash) ==
    IF hash \notin DOMAIN c.unconfirmed THEN c
    ELSE [c EXCEPT !.used = @ \ c.unconfirmed[hash].used, !.unconfirmed = Without(@, {hash})]

add(c, t, id, outputs) ==
    [c EXCEPT !.unconfirmed = With(@, t, [id |-> id, used |-> outputs, old |-> FALSE]),
              !.used = @ \cup outputs]

countUnconfirmedOutsAmount(c) ==
    MapThenSumSet(LAMBDA t : Value(c.unconfirmed[t].used), DOMAIN c.unconfirmed)

-------------------------------------------------------------------------------
(* WalletUserTransactionsCache.                                              *)

EmptyCache == [transactions |-> <<>>, transfers |-> <<>>, unconfirmed |-> <<>>, used |-> {},
               payments |-> <<>>, consolidate |-> "none", previous |-> "none"]

Ids(c) == DOMAIN c.transactions
HasHash(c, t) == \E i \in Ids(c) : c.transactions[i].hash = t
findTransactionByHash(c, t) == Min({i \in Ids(c) : c.transactions[i].hash = t})

\* addNewTransaction with messages inserts the transfers twice and keeps the
\* second place; dust and fusion transactions insert them once.
addNewTransaction(c, t, messages) ==
    LET list == IF messages THEN c.transfers \o <<t, t>> ELSE Append(c.transfers, t)
        new == [hash |-> "none", state |-> "Sending", height |-> UNCONFIRMED,
                first |-> Len(list), count |-> 1]
    IN  [c EXCEPT !.transfers = list, !.transactions = Append(@, new)]

updateTransaction(c, id, t, outputs) ==
    add([c EXCEPT !.transactions[id].hash = t], t, id, outputs)

\* updateTransactionSendingState: "ok", "cancelled" or "error".
updateTransactionSendingState(c, id, result) ==
    IF result = "ok" THEN [c EXCEPT !.transactions[id].state = "Active"]
    ELSE erase([c EXCEPT !.transactions[id].state = IF result = "cancelled" THEN "Cancelled" ELSE "Failed"],
               c.transactions[id].hash)


\* onTransactionUpdated: by the unconfirmed transaction's id, by the hash, or new.
onTransactionUpdated(c, t, height) ==
    LET own == t \in DOMAIN c.unconfirmed
        id == IF own THEN c.unconfirmed[t].id ELSE findTransactionByHash(c, t)
        new == [hash |-> t, state |-> "Active", height |-> height, first |-> 0, count |-> 0]
    IN  IF own \/ HasHash(c, t)
        THEN [erase(c, t) EXCEPT !.transactions[id].height = height,
                                 !.transactions[id].state = "Active"]
        ELSE [c EXCEPT !.transactions = Append(@, new)]

resetConsolidateHeight(c) == [c EXCEPT !.consolidate = c.previous, !.previous = "none"]

\* The index is a list of pairs; one of its entries goes.
popFromPaymentsIndex(payments, t, id) ==
    LET found == {i \in DOMAIN payments : t \in DOMAIN PaymentIds
                                            /\ payments[i] = [payment |-> PaymentIds[t], id |-> id]}
    IN  IF found = {} THEN payments ELSE RemoveAt(payments, Min(found))

onTransactionDeleted(c, t) ==
    LET e == erase(c, t)
        id == IF t \in DOMAIN c.unconfirmed THEN c.unconfirmed[t].id ELSE findTransactionByHash(c, t)
        d == [e EXCEPT !.transactions[id].height = UNCONFIRMED,
                       !.transactions[id].state = "Deleted",
                       !.payments = popFromPaymentsIndex(@, t, id)]
        f == IF t \in DOMAIN c.unconfirmed \/ HasHash(c, t) THEN d ELSE e
    IN  IF c.consolidate = t THEN resetConsolidateHeight(f) ELSE f

\* The assertions of onTransactionDeleted: the transaction is in the list, and
\* is not waiting for the container any more.
DeletionFails(c, t) ==
    IF t \in DOMAIN c.unconfirmed THEN {"deleted unconfirmed"}
    ELSE IF ~HasHash(c, t) THEN {"deleted unknown"} ELSE {}

\* deleteOutdatedTransactions: those older than mempoolTxLiveTime.
deleteOutdatedTransactions(c) ==
    LET gone == {t \in DOMAIN c.unconfirmed : c.unconfirmed[t].old}
        ids == {c.unconfirmed[t].id : t \in gone}
        d == [c EXCEPT !.used = @ \ UNION {c.unconfirmed[t].used : t \in gone},
                       !.unconfirmed = Without(@, gone),
                       !.transactions = [i \in DOMAIN @ |->
                           IF i \in ids THEN [@[i] EXCEPT !.state = "Deleted"] ELSE @[i]]]
    IN  IF \E i \in ids : c.transactions[i].hash = c.consolidate THEN resetConsolidateHeight(d) ELSE d

\* getGoodItems: failed and cancelled transactions are not saved, and the
\* transfers move up.
getGoodItems(c) ==
    LET good == SetToSortSeq({i \in Ids(c) : c.transactions[i].state \notin {"Cancelled", "Failed"}}, <)
        own(i) == SubSeq(c.transfers, c.transactions[i].first,
                         c.transactions[i].first + c.transactions[i].count - 1)
        listed[k \in 0..Len(good)] ==
            IF k = 0 THEN <<>> ELSE listed[k - 1] \o (IF c.transactions[good[k]].first = 0 THEN <<>> ELSE own(good[k]))
    IN  [c EXCEPT !.transfers = listed[Len(good)],
                  !.transactions = [k \in DOMAIN good |->
                      LET tx == c.transactions[good[k]]
                      IN  IF tx.first = 0 THEN tx
                          ELSE [tx EXCEPT !.first = Len(listed[k]) - tx.count + 1]]]

\* rebuildPaymentsIndex adds to what is there.
canInsertTransactionToIndex(tx) ==
    tx.state = "Active" /\ tx.height # UNCONFIRMED /\ tx.hash \in Incoming /\ tx.hash \in DOMAIN PaymentIds
rebuildPaymentsIndex(c) ==
    LET order == SetToSortSeq({i \in Ids(c) : canInsertTransactionToIndex(c.transactions[i])}, <)
    IN  [c EXCEPT !.payments = @ \o [k \in DOMAIN order |->
            [payment |-> PaymentIds[c.transactions[order[k]].hash], id |-> order[k]]]]

\* serialize, reading: the ids of unconfirmed transactions are set anew.
\* Variant: they stay as they were saved.
loadDetailsKeepsIds(c) == rebuildPaymentsIndex(deleteOutdatedTransactions(c))

\* collectUsedOutputs follows the map.
loadDetails(c) ==
    LET found(t) == {i \in Ids(c) : c.transactions[i].hash = t /\ c.transactions[i].height = UNCONFIRMED}
        renamed == [c EXCEPT !.unconfirmed = [t \in DOMAIN @ |->
                       IF found(t) = {} THEN @[t] ELSE [@[t] EXCEPT !.id = Max(found(t))]],
                             !.used = UNION {c.unconfirmed[t].used : t \in DOMAIN c.unconfirmed}]
    IN  rebuildPaymentsIndex(deleteOutdatedTransactions(renamed))

\* reset leaves the payments and the consolidation.
reset(c) == [c EXCEPT !.transactions = <<>>, !.transfers = <<>>, !.unconfirmed = <<>>, !.used = {}]

-------------------------------------------------------------------------------
(* WalletTransactionSender.  A request is [id, tx, step].                    *)

Idle == [kind |-> "none", step |-> "none"]
Initialised == m_state \notin {"NOT_INITIALIZED", "LOADING"}
\* m_sender has been told to stop.
Stopping == call.step = "waiting"
Count == counters' = [counters EXCEPT !.calls = @ + 1]
Spent(t) == {o \in DOMAIN Image : \E in \in Ins[t] : in.image = Image[o]}

UnlockedOutputs ==
    {o \in DOMAIN box.available \cap box.visible : box.height >= box.available[o].height - 1 + SpendableAge}

\* doSendTransaction: what the cache and the requests become.
Abort(c, id, result) == [c |-> updateTransactionSendingState(c, id, result), next |-> {}]
doSendTransaction(c, r) ==
    {[c |-> updateTransaction(c, r.id, r.tx, Spent(r.tx)), next |-> {[r EXCEPT !.step = "relay"]}],
     Abort(c, r.id, "error")}

\* makeSendRequest, and makeSendDustRequest (without messages), under
\* m_cacheMutex: the outputs of t are unlocked and not used.  The address of a
\* message is looked at when the transaction is already in the list.
makeSendRequest(t, mixIn, messages) ==
    /\ "send" \in Calls /\ Initialised /\ call.kind \in {"none", "save"}
    /\ counters.calls < MaxCalls /\ Cardinality(requests) < MaxRequests
    /\ t \notin counters.sent /\ Spent(t) \subseteq UnlockedOutputs \ cache.used
    /\ counters' = [counters EXCEPT !.calls = @ + 1, !.sent = @ \cup {t}]
    /\ LET c == addNewTransaction(cache, t, messages)
           r == [id |-> Len(c.transactions), tx |-> t, step |-> "outs"]
       IN  \/ messages /\ cache' = c /\ UNCHANGED requests
           \/ mixIn /\ cache' = c /\ requests' = requests \cup {r}
           \/ ~mixIn /\ \E x \in doSendTransaction(c, r) : cache' = x.c /\ requests' = requests \cup x.next
    /\ UNCHANGED <<m_state, m_isStopping, box, chain, poolTxs, notify, call, node, file, failed>>

\* sendTransactionRandomOutsByAmount: the node answered, or gave too few.
sendTransactionRandomOutsByAmount(r) ==
    /\ r \in requests /\ r.step = "outs"
    /\ \E x \in IF Stopping THEN {Abort(cache, r.id, "cancelled")} ELSE doSendTransaction(cache, r) :
          cache' = x.c /\ requests' = (requests \ {r}) \cup x.next
    /\ UNCHANGED <<m_state, m_isStopping, box, chain, poolTxs, notify, call, node, file, failed, counters>>

\* The node takes a transaction; its answer, or an error, comes later.
Accept(r) ==
    /\ r \in requests /\ r.step = "relay"
    /\ node' = [node EXCEPT !.pool = @ \cup {r.tx}, !.relayed = @ \cup {r.tx}]
    /\ requests' = (requests \ {r}) \cup {[r EXCEPT !.step = "accepted"]}
    /\ UNCHANGED <<m_state, m_isStopping, cache, box, chain, poolTxs, notify, call, file, failed, counters>>

relayTransactionCallback(r) ==
    /\ r \in requests /\ r.step \in {"relay", "accepted"}
    /\ \E result \in (IF r.step = "relay" THEN {"error"} ELSE {"ok"})
                       \cup (IF "lost" \in Calls THEN {"error"} ELSE {}) :
          cache' = IF Stopping THEN cache ELSE updateTransactionSendingState(cache, r.id, result)
    /\ requests' = requests \ {r}
    /\ UNCHANGED <<m_state, m_isStopping, box, chain, poolTxs, notify, call, node, file, failed, counters>>

-------------------------------------------------------------------------------
(* The synchronizer's thread.                                                *)

Quiet == Initialised /\ notify = <<>>
Unconfirmed(c, t) == t \in C!Recorded(c) /\ C!Entry(c, t).height = UNCONFIRMED

\* One transaction in a block or in the pool, and what is told of it.
Process(c, t, height) ==
    IF t \notin C!Recorded(c) THEN C!addTransaction(c, t, height, 1)
    ELSE [result |-> "ok",
          c |-> IF Unconfirmed(c, t) /\ height # UNCONFIRMED
                THEN C!markTransactionConfirmed(c, t, height, 1) ELSE c]
Told(c, d, t) == IF c = d THEN <<>> ELSE <<[kind |-> "updated", tx |-> t]>>
Lost(c, d) ==
    LET gone == SetToSeq(C!Recorded(c) \ C!Recorded(d))
    IN  [i \in DOMAIN gone |-> [kind |-> "deleted", tx |-> gone[i]]]

NewBlock(t) ==
    LET height == Len(chain)
        r == IF t = "none" THEN [result |-> "ok", c |-> box] ELSE Process(box, t, height)
    IN  /\ Quiet /\ height <= MaxHeight
        /\ t # "none" => t \in (Incoming \cup node.relayed) \ Range(chain)
        /\ r.result = "ok"
        /\ box' = r.c
        /\ chain' = Append(chain, t)
        /\ notify' = Told(box, r.c, t) \o <<[kind |-> "advance"]>>
        /\ node' = [node EXCEPT !.pool = @ \ {t}]
        /\ UNCHANGED <<m_state, m_isStopping, cache, poolTxs, requests, call, file, failed, counters>>

Detach(height) ==
    LET d == C!detach(box, height)
        back == Range(SubSeq(chain, height + 1, Len(chain))) \cap Outgoing
    IN  /\ Quiet /\ counters.forks < MaxForks /\ height < Len(chain)
        /\ box' = d /\ chain' = SubSeq(chain, 1, height)
        /\ notify' = Lost(box, d)
        /\ node' = [node EXCEPT !.pool = @ \cup back]
        /\ counters' = [counters EXCEPT !.forks = @ + 1]
        /\ UNCHANGED <<m_state, m_isStopping, cache, poolTxs, requests, call, file, failed>>

PoolUpdate ==
    LET added == node.pool \ poolTxs
        gone == poolTxs \ node.pool
        t == CHOOSE x \in added : TRUE
        r == IF added = {} THEN [result |-> "ok", c |-> box] ELSE Process(box, t, UNCONFIRMED)
        d == IF gone = {} THEN r.c ELSE C!deleteUnconfirmedTransaction(r.c, CHOOSE x \in gone : TRUE)
    IN  /\ Quiet /\ node.pool # poolTxs /\ Cardinality(added) <= 1 /\ Cardinality(gone) <= 1
        /\ r.result = "ok"
        /\ box' = d /\ poolTxs' = node.pool
        /\ notify' = (IF added = {} THEN <<>> ELSE Told(box, r.c, t)) \o Lost(r.c, d)
        /\ UNCHANGED <<m_state, m_isStopping, cache, chain, requests, call, node, file, failed, counters>>

\* The next observer call: onTransactionUpdated, onTransactionDeleted, or the
\* end of the blocks, advanceHeight and synchronizationProgressUpdated.
Notify ==
    /\ notify # <<>> /\ notify' = Tail(notify)
    /\ LET e == Head(notify) IN
       \/ /\ e.kind = "updated"
          /\ cache' = onTransactionUpdated(cache, e.tx, C!Entry(box, e.tx).height)
          /\ UNCHANGED <<box, failed>>
       \/ /\ e.kind = "deleted"
          /\ cache' = onTransactionDeleted(cache, e.tx)
          /\ failed' = failed \cup DeletionFails(cache, e.tx)
          /\ UNCHANGED box
       \/ /\ e.kind = "advance"
          /\ box' = C!advanceHeight(box, Len(chain) - 1)
          /\ cache' = deleteOutdatedTransactions(cache)
          /\ UNCHANGED failed
    /\ UNCHANGED <<m_state, m_isStopping, chain, poolTxs, requests, call, node, file, counters>>

Drop(t) ==
    /\ t \in node.pool /\ counters.drops < MaxDrops
    /\ node' = [node EXCEPT !.pool = @ \ {t}]
    /\ counters' = [counters EXCEPT !.drops = @ + 1]
    /\ UNCHANGED <<m_state, m_isStopping, cache, box, chain, poolTxs, notify, requests, call, file, failed>>

\* mempoolTxLiveTime passes since a transaction was sent.
Age(t) ==
    /\ "age" \in Calls /\ t \in DOMAIN cache.unconfirmed
    /\ cache' = [cache EXCEPT !.unconfirmed[t].old = TRUE]
    /\ UNCHANGED <<m_state, m_isStopping, box, chain, poolTxs, notify, requests, call, node, file, failed, counters>>

-------------------------------------------------------------------------------
(* Saving, shutting down and loading.                                        *)

May(kind) == kind \in Calls /\ call.kind = "none" /\ counters.calls < MaxCalls

\* The transaction that consolidates has just been sent.
setConsolidateHeight(t) ==
    /\ May("consolidate") /\ Count /\ Initialised /\ t \in DOMAIN cache.unconfirmed
    /\ cache' = [cache EXCEPT !.previous = cache.consolidate, !.consolidate = t]
    /\ UNCHANGED <<m_state, m_isStopping, box, chain, poolTxs, notify, requests, call, node, file, failed>>

\* save, rescan (with everything) and purge (with nothing but the keys).
\* A save during a shutdown ends with OPERATION_CANCELLED.
save(kind) ==
    /\ May(kind) /\ Count
    /\ ~m_isStopping /\ m_state = "INITIALIZED"
    /\ m_state' = "SAVING"
    /\ call' = [kind |-> kind, step |-> "saving"]
    /\ UNCHANGED <<m_isStopping, cache, box, chain, poolTxs, notify, requests, node, file, failed>>

\* doSave, in a thread of its own: the synchronizer is stopped meanwhile.
doSave ==
    LET content == [cache |-> IF call.kind = "purge" THEN <<>> ELSE <<getGoodItems(cache)>>,
                    box |-> box, chain |-> chain, consolidate |-> cache.consolidate,
                    previous |-> cache.previous]
    IN  /\ call.step = "saving" /\ notify = <<>>
        /\ file' = IF call.kind = "save" THEN [file EXCEPT !.disk = <<content>>]
                   ELSE [file EXCEPT !.stream = <<content>>]
        /\ m_state' = "INITIALIZED"
        /\ call' = IF call.kind = "save" THEN Idle ELSE [call EXCEPT !.step = "saved"]
        /\ UNCHANGED <<m_isStopping, cache, box, chain, poolTxs, notify, requests, node, failed, counters>>

\* shutdown: m_isStopping is set before the state is looked at.
shutdown ==
    /\ \/ "shutdown" \in Calls /\ call.kind \in {"none", "save"} /\ counters.calls < MaxCalls /\ Count
       \/ call.step = "saved" /\ UNCHANGED counters
    /\ ~m_isStopping /\ Initialised
    /\ m_isStopping' = TRUE
    /\ call' = IF m_state # "INITIALIZED" THEN call
               ELSE [kind |-> IF call.step = "saved" THEN call.kind ELSE "shutdown", step |-> "waiting"]
    /\ UNCHANGED <<m_state, cache, box, chain, poolTxs, notify, requests, node, file, failed>>

shutdownReturns ==
    /\ call.step = "waiting" /\ notify = <<>> /\ requests = {}
    /\ m_isStopping' = FALSE /\ m_state' = "NOT_INITIALIZED"
    /\ cache' = reset(cache) /\ box' = C!Empty /\ chain' = <<"none">> /\ poolTxs' = {}
    /\ call' = IF call.kind = "shutdown" THEN Idle ELSE [call EXCEPT !.step = "loading"]
    /\ UNCHANGED <<notify, requests, node, file, failed, counters>>

\* initAndLoad and doLoad.  The pool transactions of the consumer are not
\* taken from the container.  The order of deserialize: details first.
Load(c, content) ==
    /\ cache' = [(IF content.cache = <<>> THEN c
                  ELSE loadDetails([content.cache[1] EXCEPT !.payments = c.payments,
                                        !.consolidate = c.consolidate, !.previous = c.previous]))
                 EXCEPT !.consolidate = content.consolidate, !.previous = content.previous]
    /\ box' = IF content.cache = <<>> THEN C!Empty ELSE C!repair(content.box)
    /\ chain' = IF content.cache = <<>> THEN <<"none">> ELSE content.chain
    /\ poolTxs' = {}
    /\ m_state' = "INITIALIZED"

initAndLoad ==
    /\ m_state = "NOT_INITIALIZED"
    /\ \/ call.step = "loading" /\ Load(cache, file.stream[1]) /\ UNCHANGED counters
       \/ May("load") /\ Count /\ file.disk # <<>> /\ Load(cache, file.disk[1])
    /\ call' = Idle
    /\ UNCHANGED <<m_isStopping, notify, requests, node, file, failed>>

\* The process ends; the next one starts with the file.
Crash ==
    /\ May("crash") /\ Count /\ file.disk # <<>>
    /\ m_state' = "NOT_INITIALIZED" /\ m_isStopping' = FALSE
    /\ cache' = EmptyCache /\ box' = C!Empty /\ chain' = <<"none">> /\ poolTxs' = {}
    /\ notify' = <<>> /\ requests' = {} /\ call' = [kind |-> "none", step |-> "none"]
    /\ UNCHANGED <<node, file, failed>>

-------------------------------------------------------------------------------
Init ==
    /\ scenario \in DOMAIN Limits
    /\ m_state = "INITIALIZED" /\ m_isStopping = FALSE
    /\ cache = EmptyCache /\ box = C!Empty /\ chain = <<"none">> /\ poolTxs = {}
    /\ notify = <<>> /\ requests = {} /\ call = Idle
    /\ node = [pool |-> {}, relayed |-> {}]
    /\ file = [disk |-> <<>>, stream |-> <<>>]
    /\ failed = {}
    /\ counters = [calls |-> 0, sent |-> {}, forks |-> 0, drops |-> 0]

Next ==
    \/ \E t \in Outgoing, mixIn, messages \in BOOLEAN : makeSendRequest(t, mixIn, messages)
    \/ \E r \in requests : sendTransactionRandomOutsByAmount(r) \/ Accept(r) \/ relayTransactionCallback(r)
    \/ \E t \in Txs \cup {"none"} : NewBlock(t)
    \/ \E h \in 1..MaxHeight : Detach(h)
    \/ PoolUpdate \/ Notify
    \/ \E t \in Outgoing : Drop(t) \/ Age(t) \/ setConsolidateHeight(t)
    \/ \E kind \in {"save", "rescan", "purge"} : save(kind)
    \/ doSave \/ shutdown \/ shutdownReturns \/ initAndLoad \/ Crash

Spec == Init /\ [][Next /\ UNCHANGED scenario]_<<scenario, legacyVars>>

-------------------------------------------------------------------------------
\* The balance the user sees, as an integer: the code's is modulo 2^64.
actualBalance == Value(UnlockedOutputs) - countUnconfirmedOutsAmount(cache)



\* An unconfirmed transaction is kept with its own id in the list.
UnconfirmedIsNamed ==
    \A t \in DOMAIN cache.unconfirmed :
        cache.unconfirmed[t].id \in Ids(cache) /\ cache.transactions[cache.unconfirmed[t].id].hash = t

\* "assert(false)", twice, in onTransactionDeleted: the container never loses a
\* transaction the list does not have, or that still waits for the container.
DeletedIsKnown == failed = {}
===============================================================================
