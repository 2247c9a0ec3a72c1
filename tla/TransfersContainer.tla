---- MODULE TransfersContainer ----
(***************************************************************************)
(* lib/Transfers/TransfersContainer.cpp: the outputs of one account, in    *)
(* three collections (unconfirmed, available, spent), and the transactions *)
(* they belong to.  A container is a record; every operation of the class  *)
(* is an operator from containers to containers, so that a caller can      *)
(* compose them and see how far a sequence got when one throws.            *)
(*                                                                         *)
(* Key outputs only: two outputs may share a key image (the same one-time  *)
(* key used twice), of which the network lets only one be spent.           *)
(***************************************************************************)
EXTENDS Naturals, Sequences, FiniteSets, SequencesExt, Functions

CONSTANTS
    Outs,       \* transaction -> its outputs that belong to the account
    Ins,        \* transaction -> set of [image, amount]
    Image,      \* output -> key image
    Amount,     \* output -> amount
    UNCONFIRMED \* WALLET_LEGACY_UNCONFIRMED_TRANSACTION_HEIGHT, above any height

Txs == DOMAIN Outs
Outputs == DOMAIN Image
Owner(o) == CHOOSE t \in Txs : o \in Outs[t]

\* m_transactions in the order of its block-height index; m_unconfirmedTransfers;
\* m_availableTransfers with block height and place in the block;
\* m_spentTransfers, which remember their spender; which of them are visible.
Empty == [txs |-> <<>>, unconfirmed |-> {}, available |-> <<>>, spent |-> <<>>,
          visible |-> {}, height |-> 0]

Recorded(c) == {c.txs[i].tx : i \in DOMAIN c.txs}
Entry(c, t) == CHOOSE e \in Range(c.txs) : e.tx = t
Confirmed(c) == {e \in Range(c.txs) : e.height # UNCONFIRMED}

\* An ordered, non-unique index: a new element goes behind its equals.
Insert(txs, e) ==
    SelectSeq(txs, LAMBDA x : x.height <= e.height) \o <<e>>
        \o SelectSeq(txs, LAMBDA x : x.height > e.height)
Erase(txs, t) == SelectSeq(txs, LAMBDA x : x.tx # t)

With(f, S, val) == [o \in DOMAIN f \cup S |-> IF o \in S THEN val ELSE f[o]]
Without(f, S) == [o \in DOMAIN f \ S |-> f[o]]

-----------------------------------------------------------------------------
\* updateTransfersVisibility for the key images K: the spent output hides all
\* others, else the earliest available one, else a single unconfirmed one.
Of(S, k) == {o \in S : Image[o] = k}
Earlier(p, q) == p.height < q.height \/ (p.height = q.height /\ p.index < q.index)
Earliest(c, S) ==
    CHOOSE o \in S : \A p \in S : ~Earlier(c.available[p], c.available[o])

VisibleFor(c, k) ==
    LET S == Of(DOMAIN c.spent, k)
        A == Of(DOMAIN c.available, k)
        U == Of(c.unconfirmed, k)
    IN  IF S # {} THEN S
        ELSE IF A # {} THEN {Earliest(c, A)}
        ELSE IF Cardinality(U) = 1 THEN U ELSE {}

\* Showing without hiding the others.
updateTransfersVisibilityShow(c, K) ==
    [c EXCEPT !.visible = @ \cup UNION {VisibleFor(c, k) : k \in K}]

updateTransfersVisibility(c, K) ==
    [c EXCEPT !.visible = {o \in @ : Image[o] \notin K} \cup UNION {VisibleFor(c, k) : k \in K}]

Images(S) == {Image[o] : o \in S}

\* Dropping what was spent together with the spender.
deleteTransactionTransfersSpent(c, t) ==
    LET gone == {o \in DOMAIN c.spent : c.spent[o].by = t}
        unconf == {o \in c.unconfirmed : Owner(o) = t}
        own == {o \in DOMAIN c.available : Owner(o) = t}
    IN  updateTransfersVisibility(
            [c EXCEPT !.spent = Without(@, gone),
                      !.unconfirmed = @ \ unconf,
                      !.available = Without(@, own)],
            Images(gone \cup unconf \cup own))

\* deleteTransactionTransfers: what the transaction spent becomes available
\* again; its own outputs go, unless a later transaction spent them.
deleteTransactionTransfers(c, t) ==
    LET back == {o \in DOMAIN c.spent : c.spent[o].by = t}
        unconf == {o \in c.unconfirmed : Owner(o) = t}
        restored == [o \in DOMAIN c.available \cup back |->
                        IF o \in back THEN c.spent[o].at ELSE c.available[o]]
        own == {o \in DOMAIN restored : Owner(o) = t}
    IN  updateTransfersVisibility(
            [c EXCEPT !.spent = Without(@, back),
                      !.unconfirmed = @ \ unconf,
                      !.available = Without(restored, own)],
            Images(back \cup unconf \cup own))

-----------------------------------------------------------------------------
\* addTransactionOutputs: a confirmed output that is already known throws.
OutputsRefused(c, t, height) ==
    height # UNCONFIRMED /\ Outs[t] \cap (DOMAIN c.available \cup DOMAIN c.spent) # {}

addTransactionOutputs(c, t, height, index) ==
    updateTransfersVisibility(
        IF height = UNCONFIRMED
        THEN [c EXCEPT !.unconfirmed = @ \cup Outs[t]]
        ELSE [c EXCEPT !.available = With(@, Outs[t], [height |-> height, index |-> index])],
        Images(Outs[t]))

\* addTransactionInputs: an input is not ours, spends the earliest available
\* output of its image and amount, or throws.
Available(c, in) == Of(DOMAIN c.available, in.image)
Spendable(c, in) == {o \in Available(c, in) : Amount[o] = in.amount}

InputRefused(c, in) ==
    \/ Of(DOMAIN c.spent, in.image) # {}
    \/ Available(c, in) = {} /\ Of(c.unconfirmed, in.image) # {}
    \/ Available(c, in) # {} /\ Spendable(c, in) = {}

addTransactionInputs(c, t, height) ==
    LET own == {in \in Ins[t] : Available(c, in) # {}}
        spends == {Earliest(c, Spendable(c, in)) : in \in own}
        moved == [o \in spends |-> [at |-> c.available[o], by |-> t, byHeight |-> height]]
    IN  updateTransfersVisibility(
            [c EXCEPT !.spent = [o \in DOMAIN @ \cup spends |->
                                    IF o \in spends THEN moved[o] ELSE @[o]],
                      !.available = Without(@, spends)],
            Images(spends))

\* addTransaction.  A throw undoes what this transaction had done so far.
Throws(c, t) == [result |-> "throws",
                 c |-> IF t \in Recorded(c) THEN c ELSE deleteTransactionTransfers(c, t)]

addTransaction(c, t, height, index) ==
    IF height < c.height \/ t \in Recorded(c) \/ OutputsRefused(c, t, height)
    THEN Throws(c, t)
    ELSE LET d == addTransactionOutputs(c, t, height, index)
             e == addTransactionInputs(d, t, height)
             added == Outs[t] # {} \/ DOMAIN e.spent # DOMAIN d.spent
             f == IF added THEN [e EXCEPT !.txs = Insert(@, [tx |-> t, height |-> height])] ELSE e
         IN  IF \E in \in Ins[t] : InputRefused(d, in) THEN Throws(d, t)
             ELSE [result |-> "ok",
                   c |-> IF height # UNCONFIRMED THEN [f EXCEPT !.height = height] ELSE f]

\* deleteUnconfirmedTransaction: nothing happens to a confirmed one.
deleteUnconfirmedTransaction(c, t) ==
    IF t \in Recorded(c) /\ Entry(c, t).height = UNCONFIRMED
    THEN LET d == deleteTransactionTransfers(c, t) IN [d EXCEPT !.txs = Erase(@, t)]
    ELSE c


\* markTransactionConfirmed.
markTransactionConfirmed(c, t, height, index) ==
    LET own == {o \in c.unconfirmed : Owner(o) = t}
        spends == {o \in DOMAIN c.spent : c.spent[o].by = t}
    IN  updateTransfersVisibility(
            [c EXCEPT !.txs = Insert(Erase(@, t), [tx |-> t, height |-> height]),
                      !.unconfirmed = @ \ own,
                      !.available = With(@, own, [height |-> height, index |-> index]),
                      !.spent = [o \in DOMAIN @ |->
                          IF o \in spends THEN [@[o] EXCEPT !.byHeight = height] ELSE @[o]]],
            Images(own))

\* detach, from the end of the block-height index: unconfirmed transactions go
\* when they spend an output that goes, confirmed ones from the height on.
DoDelete(c, e, height) ==
    IF e.height = UNCONFIRMED
    THEN \E o \in DOMAIN c.spent : c.spent[o].by = e.tx /\ c.spent[o].at.height >= height
    ELSE e.height >= height

detach(c, height) ==
    LET n == Len(c.txs)
        after[i \in 0..n] ==
            IF i = 0 THEN c
            ELSE LET p == after[i - 1]
                     e == c.txs[n + 1 - i]
                     d == deleteTransactionTransfers(p, e.tx)
                 IN  IF DoDelete(p, e, height) THEN [d EXCEPT !.txs = Erase(@, e.tx)] ELSE p
    IN  [after[n] EXCEPT !.height = IF height = 0 THEN 0 ELSE height - 1]

advanceHeight(c, height) == IF c.height <= height THEN [c EXCEPT !.height = height] ELSE c

-----------------------------------------------------------------------------
\* save writes m_transactions in hash order, so load may order transactions of
\* one height in any way; then repair removes orphans.
Reordered(c) ==
    {[c EXCEPT !.txs = [i \in DOMAIN c.txs |-> c.txs[p[i]]]] : p \in
        {q \in [DOMAIN c.txs -> DOMAIN c.txs] :
            /\ IsInjective(q)
            /\ \A i, j \in DOMAIN c.txs : i < j => c.txs[q[i]].height <= c.txs[q[j]].height}}

repair(c) ==
    LET back == {o \in DOMAIN c.spent : c.spent[o].by \notin Recorded(c)}
        restored == [o \in DOMAIN c.available \cup back |->
                        IF o \in back THEN c.spent[o].at ELSE c.available[o]]
        orphans == {o \in DOMAIN restored : Owner(o) \notin Recorded(c)}
        unconf == {o \in c.unconfirmed : Owner(o) \notin Recorded(c)}
    IN  updateTransfersVisibility(
            [c EXCEPT !.spent = Without(@, back), !.unconfirmed = @ \ unconf,
                      !.available = Without(restored, orphans)],
            Images(back \cup orphans \cup unconf))
====
