--------------------------- MODULE WalletTransfers ---------------------------
(***************************************************************************)
(* lib/Wallet/WalletGreen.cpp, m_transfers: for every transaction of the   *)
(* wallet, who paid (negative amounts) and who was paid (positive ones).   *)
(* One vector, ordered by transaction; the transfers nobody could be named *)
(* for have the address "".  Every operation of the class on one           *)
(* transaction is an operator on that transaction's stretch of the vector. *)
(***************************************************************************)
EXTENDS Integers, Sequences, FiniteSets, SequencesExt, FiniteSetsExt

Transfer(id, a, n) == [tx |-> id, address |-> a, amount |-> n]

\* getTransactionTransfersRange, and what is before and behind the range.
getTransactionTransfersRange(list, id) == SelectSeq(list, LAMBDA e : e.tx = id)
Replaced(list, id, part) ==
    SelectSeq(list, LAMBDA e : e.tx < id) \o part \o SelectSeq(list, LAMBDA e : e.tx > id)

IsOutput(e) == e.amount > 0
Matching(part, a, output) ==
    {i \in DOMAIN part : part[i].address = a /\ IsOutput(part[i]) = output}

\* Of the inputs or of the outputs, those of one address.
Total(part, S) == MapThenSumSet(LAMBDA i : part[i].amount, S)
Known(part, a, output) == Total(part, Matching(part, a, output))

\* getKnownTransfersMap, summed up: everything that has an address.
KnownToAll(part, output) ==
    Total(part, {i \in DOMAIN part : part[i].address # "" /\ IsOutput(part[i]) = output})

\* eraseTransfers: what is at the positions goes.
eraseTransfers(part, S) ==
    LET kept == SetToSortSeq(DOMAIN part \ S, <) IN [i \in DOMAIN kept |-> part[kept[i]]]

eraseTransfersByAddress(part, a, output) == eraseTransfers(part, Matching(part, a, output))

eraseForeignTransfers(part, mine, output) ==
    eraseTransfers(part, {i \in DOMAIN part : part[i].address \notin mine
                                                /\ IsOutput(part[i]) = output})


adjustTransfer(part, id, a, n) ==
    LET found == Matching(part, a, n > 0)
    IN  IF found = {} THEN Append(part, Transfer(id, a, n))
        ELSE eraseTransfers([part EXCEPT ![Min(found)].amount = n], found \ {Min(found)})

updateAddressTransfers(part, id, a, known, target) ==
    IF known = target THEN part
    ELSE IF known = 0 THEN Append(part, Transfer(id, a, target))
    ELSE IF target = 0 THEN eraseTransfersByAddress(part, a, known > 0)
    ELSE adjustTransfer(part, id, a, target)

Abs(n) == IF n < 0 THEN -n ELSE n

\* What is not known of the transaction goes to the address "".
updateUnknownTransfers(part, id, mine, known, my, total, output) ==
    IF Abs(known) > Abs(total)
    THEN LET own == eraseForeignTransfers(part, mine, output)
         IN  IF total = my THEN eraseTransfersByAddress(own, "", output)
             ELSE adjustTransfer(own, id, "", total - my)
    ELSE IF known = total THEN eraseTransfersByAddress(part, "", output)
    ELSE adjustTransfer(part, id, "", total - known)

\* What the wallet's own address paid and was paid, from what was known at first.
namedAddress(part, start, id, a, amounts) ==
    updateAddressTransfers(
        updateAddressTransfers(part, id, a, Known(start, a, FALSE), amounts.input),
        id, a, Known(start, a, TRUE), amounts.output)

\* updateTransactionTransfers, for the addresses of amounts in an order.
updateTransactionTransfers(list, id, amounts, allIn, allOut) ==
    LET start == getTransactionTransfersRange(list, id)
        order == SetToSeq(DOMAIN amounts)
        named[i \in 0..Len(order)] ==
            IF i = 0 THEN start ELSE namedAddress(named[i - 1], start, id, order[i], amounts[order[i]])
        all == named[Len(order)]
        myIn == MapThenSumSet(LAMBDA a : amounts[a].input, DOMAIN amounts)
        myOut == MapThenSumSet(LAMBDA a : amounts[a].output, DOMAIN amounts)
        paying == {a \in DOMAIN amounts : amounts[a].input # 0}
        paid == {a \in DOMAIN amounts : amounts[a].output # 0}
        ins == updateUnknownTransfers(all, id, paying, KnownToAll(all, FALSE), myIn, allIn, FALSE)
    IN  Replaced(list, id,
            updateUnknownTransfers(ins, id, paid, KnownToAll(all, TRUE), myOut, allOut, TRUE))

\* The same, when it throws at the first address the wallet does not have.
updateTransfersUntil(list, id, amounts, mine) ==
    LET order == SetToSeq(DOMAIN amounts)
        missing == Min({i \in DOMAIN order : order[i] \notin mine})
        start == getTransactionTransfersRange(list, id)
        named[i \in 0..missing - 1] ==
            IF i = 0 THEN start ELSE namedAddress(named[i - 1], start, id, order[i], amounts[order[i]])
    IN  Replaced(list, id, named[missing - 1])

\* pushBackOutgoingTransfers: a new transaction is the last one.
pushBackOutgoingTransfers(list, id, destinations) ==
    LET order == SetToSeq(DOMAIN destinations)
    IN  list \o [i \in DOMAIN order |-> Transfer(id, order[i], destinations[order[i]])]

\* deleteTransfersForAddress, for one transaction: what the address paid is
\* joined to what nobody could be named for, what it was paid keeps its name.
deleteTransfersForAddress(list, id, a) ==
    LET part == getTransactionTransfersRange(list, id)
        gone == Known(part, a, FALSE)
        unknown == Known(part, "", FALSE)
        unnamed == [i \in DOMAIN part |-> IF i \in Matching(part, a, FALSE)
                                          THEN [part[i] EXCEPT !.address = ""] ELSE part[i]]
    IN  IF gone = 0 THEN list
        ELSE Replaced(list, id, adjustTransfer(unnamed, id, "", gone + unknown))

\* What it takes off totalAmount, and whether another address is left.
DeletedAmount(list, id, a) ==
    LET part == getTransactionTransfersRange(list, id)
    IN  Known(part, a, FALSE) + Known(part, a, TRUE)
TransfersLeft(list, id, mine) == \E e \in Range(list) : e.tx = id /\ e.address \in mine
==============================================================================
