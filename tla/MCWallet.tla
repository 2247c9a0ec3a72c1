-------------------------------- MODULE MCWallet --------------------------------
(***************************************************************************)
(* The wallet over its synchronizer, the daemon and its file.  A behaviour *)
(* is one of five scenarios: delayed transactions and lost answers over a  *)
(* chain that is reorganised (delayed), transactions the daemon forgets    *)
(* (forgetful), addresses deleted and created (addresses), the file        *)
(* (saved), and deletions that reach the file (renumbered).                *)
(*                                                                         *)
(* The transactions: i1 pays two outputs to A, i2 pays B.  o1 and o2 spend *)
(* the same output of A, o3 the other one; o1 pays B, the others pay X,    *)
(* who is not of this wallet.  The rest goes back to A, 1 is the fee.      *)
(***************************************************************************)
EXTENDS Naturals

VARIABLES scenario, wallet, sync, callbacks, operation, node, file, transactionIdIndex, missed,
          counters, m_state, m_isStopping, cache, box, chain, poolTxs, notify, requests, call, failed

greenVars == <<wallet, sync, callbacks, operation, transactionIdIndex, missed>>
legacyVars == <<m_state, m_isStopping, cache, box, chain, poolTxs, notify, requests, call, failed>>
walletVars == <<greenVars, legacyVars, node, file, counters>>

Unused(x) == x = "unused"
UnusedGreen ==
    /\ Unused(wallet) /\ Unused(sync) /\ Unused(callbacks) /\ Unused(operation)
    /\ Unused(transactionIdIndex) /\ Unused(missed)
UnusedLegacy ==
    /\ Unused(m_state) /\ Unused(m_isStopping) /\ Unused(cache) /\ Unused(box) /\ Unused(chain)
    /\ Unused(poolTxs) /\ Unused(notify) /\ Unused(requests) /\ Unused(call) /\ Unused(failed)
--------------------------------------------------------------------------------
Txs == {"i1", "i2", "o1", "o2", "o3"}
None == [t \in Txs |-> {}]
OutsAt == [A |-> [None EXCEPT !.i1 = {"a1", "a2"}, !.o1 = {"a3"}, !.o2 = {"a4"}, !.o3 = {"a5"}],
           B |-> [None EXCEPT !.i2 = {"b1"}, !.o1 = {"b2"}],
           C |-> None]
Amount == [a1 |-> 3, a2 |-> 3, a3 |-> 1, a4 |-> 1, a5 |-> 1, b1 |-> 1, b2 |-> 1]
Image == [o \in DOMAIN Amount |-> o]
Spend(o) == {[image |-> o, amount |-> 3]}
Ins == [i1 |-> {}, i2 |-> {}, o1 |-> Spend("a1"), o2 |-> Spend("a1"), o3 |-> Spend("a2")]
AllIn == [i1 |-> 7, i2 |-> 0, o1 |-> 3, o2 |-> 3, o3 |-> 3]
AllOut == [i1 |-> 6, i2 |-> 1, o1 |-> 2, o2 |-> 2, o3 |-> 2]
Destinations == [o1 |-> [A |-> 1, B |-> 1], o2 |-> [A |-> 1, X |-> 1], o3 |-> [A |-> 1, X |-> 1]]
FromA(o) == [address |-> "A", output |-> o]
Source == [o1 |-> FromA("a1"), o2 |-> FromA("a1"), o3 |-> FromA("a2")]
UNCONFIRMED == 99
SoftLock == 1
MaxCallbacks == 2
Addresses == {"A", "B", "C"}
Initially == {"A", "B"}

Limits == [
    delayed |-> [incoming |-> {"i1"}, outgoing |-> {"o1", "o2"}, count |-> 2,
                 operations |-> {"transfer", "make", "commit", "rollback", "lost"},
                 height |-> 3, forks |-> 1, drops |-> 0, restarts |-> 0],
    forgetful |-> [incoming |-> {"i1"}, outgoing |-> {"o1", "o2"}, count |-> 3,
                   operations |-> {"transfer", "make", "commit", "rollback", "lost"},
                   height |-> 3, forks |-> 0, drops |-> 1, restarts |-> 0],
    addresses |-> [incoming |-> {"i1", "i2"}, outgoing |-> {"o1"}, count |-> 2,
                   operations |-> {"transfer", "delete", "create"},
                   height |-> 2, forks |-> 1, drops |-> 0, restarts |-> 0],
    saved |-> [incoming |-> {"i1"}, outgoing |-> {"o1", "o2"}, count |-> 3,
               operations |-> {"make", "commit", "create", "save", "restart"},
               height |-> 3, forks |-> 0, drops |-> 0, restarts |-> 1],
    renumbered |-> [incoming |-> {"i1", "i2"}, outgoing |-> {"o1", "o3"}, count |-> 4,
                    operations |-> {"make", "delete", "save", "restart"},
                    height |-> 3, forks |-> 0, drops |-> 0, restarts |-> 1],
    resend |-> [incoming |-> {"i1"}, outgoing |-> {"o1", "o2"}, count |-> 4,
                operations |-> {"send", "save", "shutdown", "load", "crash"},
                requests |-> 1, height |-> 2, forks |-> 0, drops |-> 0],
    rescan |-> [incoming |-> {"i1"}, outgoing |-> {"o1", "o3"}, count |-> 3,
                operations |-> {"send", "rescan", "purge"},
                requests |-> 1, height |-> 2, forks |-> 0, drops |-> 0],
    aged |-> [incoming |-> {"i1"}, outgoing |-> {"o1", "o3"}, count |-> 3,
              operations |-> {"send", "lost", "age", "consolidate"},
              requests |-> 1, height |-> 2, forks |-> 0, drops |-> 1],
    forked |-> [incoming |-> {"i1"}, outgoing |-> {"o1", "o3"}, count |-> 2,
                operations |-> {"send"},
                requests |-> 2, height |-> 2, forks |-> 1, drops |-> 0]]

\* The legacy wallet has the account of A.
PaymentIds == [i1 |-> "p"]

Green == INSTANCE WalletGreen
Legacy == INSTANCE WalletLegacy WITH Outs <- OutsAt["A"], SpendableAge <- SoftLock
--------------------------------------------------------------------------------
OfGreen == {"delayed", "forgetful", "addresses", "saved"}
OfLegacy == {"resend", "rescan", "aged", "forked"}

MCInit ==
    \/ scenario \in OfGreen /\ Green!Init /\ UnusedLegacy
    \/ scenario \in OfLegacy /\ Legacy!Init /\ UnusedGreen

MCNext ==
    /\ \/ scenario \in OfGreen /\ Green!Next /\ UNCHANGED legacyVars
       \/ scenario \in OfLegacy /\ Legacy!Next /\ UNCHANGED greenVars
    /\ UNCHANGED scenario

MCSpec == MCInit /\ [][MCNext]_<<scenario, walletVars>>

RenumberedSpec ==
    /\ scenario = "renumbered" /\ Green!Init /\ UnusedLegacy
    /\ [][Green!Next /\ UNCHANGED <<scenario, legacyVars>>]_<<scenario, walletVars>>
--------------------------------------------------------------------------------



\* "assert(m_uncommitedTransactions.count(transactionId) == 0)".
NewIdIsFree == Green!NewIdIsFree
================================================================================
