------------------------------- MODULE Ledger -------------------------------
(***************************************************************************)
(* What the block store promises: the node has one chain; it grows by a    *)
(* block at a time; it is replaced, in one step, only by a chain that is   *)
(* heavier or that holds a checkpoint; whenever it is seen, it is a linked *)
(* chain from the genesis block in which no key image is spent twice.      *)
(* When the process stops, the chain that is found again is a prefix of    *)
(* the one the node had or of the one that was about to replace it.        *)
(***************************************************************************)
EXTENDS Integers, Sequences

CONSTANTS
  Blocks,
  Genesis,
  Ancestry,              \* Ancestry[b]: the chain from Genesis to b
  CumulativeDifficulty,
  Conflict(_, _),        \* two blocks of a chain may not be in conflict
  MayPrevail(_),         \* a checkpoint makes the chain of a block prevail
  MayStop                \* the process may stop

VARIABLE chain

Tip == chain[Len(chain)]

Valid(c) ==
  \E b \in Blocks :
    /\ c = Ancestry[b]
    /\ \A i, j \in 1 .. Len(c) : i < j => ~ Conflict(c[i], c[j])

Prevails(b) ==
  CumulativeDifficulty[Tip] < CumulativeDifficulty[b] \/ MayPrevail(b)

Init == chain = <<Genesis>>

Extend ==
  \E b \in Blocks :
    /\ chain' = Append(chain, b)
    /\ Valid(chain')

Reorganise ==
  \E b \in Blocks :
    /\ Prevails(b)
    /\ chain' = Ancestry[b]
    /\ Valid(chain')

Restart ==
  /\ MayStop
  /\ \E b \in Blocks : \E n \in 1 .. Len(Ancestry[b]) :
       /\ b = Tip \/ Prevails(b)
       /\ chain' = SubSeq(Ancestry[b], 1, n)
       /\ Valid(chain')

Next == Extend \/ Reorganise \/ Restart

Spec == Init /\ [][Next]_chain
=============================================================================
