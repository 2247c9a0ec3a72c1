---- MODULE TransfersConsumer ----
(***************************************************************************)
(* lib/Transfers/TransfersConsumer.cpp with one subscription: how the      *)
(* answers of a node (blocks of a chain that is reorganised, transactions  *)
(* of its pool) and the wallet's own unconfirmed transactions change a     *)
(* TransfersContainer.  The caller (BlockchainSynchronizer) is here only   *)
(* by what it passes on: the blocks above the common prefix in batches,    *)
(* the pool once the chain is up to date, and everything again on restart. *)
(***************************************************************************)
EXTENDS TransfersContainer

CONSTANTS
    Nodes,      \* states of the node: [chain, pool]
    TxsIn,      \* block -> the account's transactions in it, in order
    Local,      \* transactions the wallet sends itself
    Batch,
    MaxSteps,   \* bound on the node's changes
    MaxLocal,   \* bound on the wallet's own transactions
    MaxErrors,  \* bound on failed queries for global indices
    MaxRestarts

VARIABLES
    node,
    c,          \* the container
    known,      \* the synchronizer's record of the consumer's chain
    poolTxs,    \* m_poolTxs
    lastBlock,  \* the synchronizer's lastBlockId
    asserted,   \* an assertion of processOutputs failed
    dead,       \* an exception left the working thread
    steps, sent, errors, restarts

counters == <<steps, sent, errors, restarts>>
vars == <<node, c, known, poolTxs, lastBlock, asserted, dead, counters>>

Init ==
    /\ node \in Nodes
    /\ c = Empty /\ known = <<node.chain[1]>> /\ poolTxs = {} /\ lastBlock = "none"
    /\ asserted = FALSE /\ dead = FALSE
    /\ steps = 0 /\ sent = 0 /\ errors = 0 /\ restarts = 0

NodeChanges ==
    /\ ~dead /\ steps < MaxSteps /\ steps' = steps + 1
    /\ node' \in Nodes \ {node}
    /\ UNCHANGED <<c, known, poolTxs, lastBlock, asserted, dead, sent, errors, restarts>>

-----------------------------------------------------------------------------
\* processTransaction and processOutputs: confirm a known transaction, or add
\* an unknown one; a known one must otherwise be at the height it is given.
processTransaction(s, item) ==
    IF item.tx \in Recorded(s.c)
    THEN IF Entry(s.c, item.tx).height = UNCONFIRMED /\ item.height # UNCONFIRMED
         THEN [s EXCEPT !.c = markTransactionConfirmed(@, item.tx, item.height, item.index)]
         ELSE [s EXCEPT !.asserted = @ \/ Entry(s.c, item.tx).height # item.height]
    ELSE LET r == addTransaction(s.c, item.tx, item.height, item.index)
         IN  [s EXCEPT !.c = r.c, !.thrown = (r.result = "throws")]

\* In order, until one throws.
processAll(container, items) ==
    LET after[i \in 0..Len(items)] ==
            IF i = 0 THEN [c |-> container, thrown |-> FALSE, asserted |-> asserted]
            ELSE IF after[i - 1].thrown THEN after[i - 1]
            ELSE processTransaction(after[i - 1], items[i])
    IN  after[Len(items)]

\* The transactions of blocks that start at a height, as onNewBlocks sorts them.
BatchItems(blocks, start) ==
    LET at(p) == [i \in DOMAIN TxsIn[blocks[p]] |->
                     [tx |-> TxsIn[blocks[p]][i], height |-> start + p - 1, index |-> i]]
        upTo[p \in 0..Len(blocks)] == IF p = 0 THEN <<>> ELSE upTo[p - 1] \o at(p)
    IN  upTo[Len(blocks)]

Common == CHOOSE n \in 0..Len(known) :
    /\ n <= Len(node.chain) /\ \A p \in 1..n : known[p] = node.chain[p]
    /\ n < Len(known) /\ n < Len(node.chain) => known[n + 1] # node.chain[n + 1]

NewBlocks == SubSeq(node.chain, Common + 1,
                    IF Common + Batch <= Len(node.chain) THEN Common + Batch ELSE Len(node.chain))
AfterDetach == IF Common < Len(known) THEN detach(c, Common) ELSE c

\* updateConsumers: onBlockchainDetach and onNewBlocks.  An exception of the
\* container leaves what was added so far, and the record without the blocks.
onNewBlocks ==
    /\ ~dead /\ NewBlocks # <<>>
    /\ LET r == processAll(AfterDetach, BatchItems(NewBlocks, Common)) IN
       /\ asserted' = r.asserted
       /\ c' = IF r.thrown THEN r.c ELSE advanceHeight(r.c, Common + Len(NewBlocks) - 1)
       /\ known' = SubSeq(known, 1, Common) \o (IF r.thrown THEN <<>> ELSE NewBlocks)
       /\ lastBlock' = IF r.thrown THEN lastBlock ELSE Last(NewBlocks)
    /\ UNCHANGED <<node, poolTxs, dead, counters>>

\* A worker could not get global indices: every subscription detaches.
onNewBlocksFails ==
    /\ ~dead /\ NewBlocks # <<>> /\ errors < MaxErrors /\ errors' = errors + 1
    /\ c' = detach(AfterDetach, Common)
    /\ known' = SubSeq(known, 1, Common)
    /\ lastBlock' = Last(NewBlocks)
    /\ UNCHANGED <<node, poolTxs, asserted, dead, steps, sent, restarts>>

\* onPoolUpdated, called when the last block is the node's: new transactions in
\* the node's order, then the deleted ones.
DeleteAll(container, S) ==
    LET order == SetToSeq(S)
        after[i \in 0..Len(order)] ==
            IF i = 0 THEN container ELSE deleteUnconfirmedTransaction(after[i - 1], order[i])
    IN  after[Len(order)]

onPoolUpdated ==
    /\ ~dead /\ lastBlock = Last(node.chain)
    /\ \E order \in SetToSeqs(node.pool \ poolTxs) :
         LET items == [i \in DOMAIN order |-> [tx |-> order[i], height |-> UNCONFIRMED, index |-> 0]]
             r == processAll(c, items)
         IN  /\ asserted' = r.asserted
             /\ dead' = r.thrown
             /\ c' = IF r.thrown THEN r.c ELSE DeleteAll(r.c, poolTxs \ node.pool)
    /\ poolTxs' = node.pool
    /\ UNCHANGED <<node, known, lastBlock, counters>>

-----------------------------------------------------------------------------
\* The wallet's own transaction, built from available outputs, before it is
\* relayed.
addUnconfirmedTransaction(t) ==
    /\ ~dead /\ sent < MaxLocal /\ sent' = sent + 1
    /\ t \notin Recorded(c) /\ \A in \in Ins[t] : Spendable(c, in) # {}
    /\ c' = processAll(c, <<[tx |-> t, height |-> UNCONFIRMED, index |-> 0]>>).c
    /\ UNCHANGED <<node, known, poolTxs, lastBlock, asserted, dead, steps, errors, restarts>>

removeUnconfirmedTransaction(t) ==
    /\ ~dead /\ t \in Recorded(c)
    /\ c' = deleteUnconfirmedTransaction(c, t)
    /\ UNCHANGED <<node, known, poolTxs, lastBlock, asserted, dead, counters>>

\* The wallet is saved, loaded and started: initTransactionPool takes the
\* unconfirmed transactions for pool transactions, and those the node does not
\* have are deleted (removeOutdatedTransactions).
Restart ==
    /\ ~dead /\ restarts < MaxRestarts /\ restarts' = restarts + 1
    /\ \E d \in Reordered(c) :
         LET e == repair(d)
             unconf == {t \in Recorded(e) : Entry(e, t).height = UNCONFIRMED}
         IN  /\ c' = DeleteAll(e, unconf \ node.pool)
             /\ poolTxs' = unconf \cap node.pool
    /\ lastBlock' = "none"
    /\ UNCHANGED <<node, known, asserted, dead, steps, sent, errors>>

Next ==
    \/ NodeChanges \/ onNewBlocks \/ onNewBlocksFails \/ onPoolUpdated \/ Restart
    \/ \E t \in Local : addUnconfirmedTransaction(t) \/ removeUnconfirmedTransaction(t)

Spec == Init /\ [][Next]_vars

-----------------------------------------------------------------------------

\* No money is lost or made: every output of a recorded transaction is in
\* exactly one collection, and an output is spent exactly while a recorded
\* transaction has its key image among the inputs (removing a spender gives
\* back what it spent).
CollectionsAddUp ==
    /\ DOMAIN c.available \cup DOMAIN c.spent = UNION {Outs[e.tx] : e \in Confirmed(c)}
    /\ DOMAIN c.available \cap DOMAIN c.spent = {}
    /\ c.unconfirmed = UNION {Outs[t] : t \in Recorded(c) \ {e.tx : e \in Confirmed(c)}}
    /\ \A k \in Images(DOMAIN c.available \cup DOMAIN c.spent) :
         Cardinality(Of(DOMAIN c.spent, k)) =
             Cardinality({t \in Recorded(c) : \E in \in Ins[t] : in.image = k})

\* The balance counts a key image at most once, and not at all once it is
\* spent: what is visible is what updateTransfersVisibility would compute now.
VisibleIsCurrent ==
    /\ c.visible = UNION {VisibleFor(c, k) : k \in Images(Outputs)}
    /\ \A k \in Images(Outputs) : Cardinality(Of(c.visible, k)) <= 1

\* Every output kept belongs to a recorded transaction, and every spent one has
\* a recorded spender: repair() has nothing to do.
NoOrphans == repair(c) = c

\* "assert(subscribtionTxInfo.blockHeight == blockInfo.height)": a transaction
\* is never offered again at another height without a detach in between.
HeightsAgree == ~asserted

\* No exception leaves onPoolUpdated (the working thread has no handler for it).
ThreadSurvives == ~dead
====
