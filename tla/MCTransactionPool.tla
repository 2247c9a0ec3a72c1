------------------------- MODULE MCTransactionPool -------------------------
(***************************************************************************)
(* Instances of TransactionPool for TLC.  c1 is heavier than a2, so that a *)
(* reorganisation may lead to a shorter chain:                             *)
(*                                                                         *)
(*     g --- a1 --- a2 --- a3                                              *)
(*      \                                                                  *)
(*       c1                                                                *)
(***************************************************************************)
EXTENDS TransactionPool

CONSTANTS g, a1, a2, a3, b1, c1, t1, t2, t3, t4, k1, k2, k3, o1

MCBlocks == {g, a1, a2, a3, c1}

MCAncestry ==
  (g :> <<g>>) @@ (a1 :> <<g, a1>>) @@ (a2 :> <<g, a1, a2>>)
  @@ (a3 :> <<g, a1, a2, a3>>) @@ (c1 :> <<g, c1>>)

MCDifficulty == (g :> 1) @@ (a1 :> 2) @@ (a2 :> 3) @@ (a3 :> 5) @@ (c1 :> 4)

MCTxs == {t1, t2, t3, t4}

MCBlockTxs == (g :> <<>>) @@ (a1 :> <<>>) @@ (a2 :> <<t2>>) @@ (a3 :> <<t4>>) @@ (c1 :> <<t3>>)

(***************************************************************************)
(* t1 and t2 spend the same key image, t3 and t4 the same multisignature   *)
(* output; t1 uses an output of a1, t4 one of a2.                          *)
(***************************************************************************)
MCKeyImagesOf == (t1 :> {k1}) @@ (t2 :> {k1, k2}) @@ (t3 :> {k3}) @@ (t4 :> {})
MCOutputsOf == (t1 :> {}) @@ (t2 :> {}) @@ (t3 :> {o1}) @@ (t4 :> {o1})
MCRefs == (t1 :> {a1}) @@ (t2 :> {}) @@ (t3 :> {}) @@ (t4 :> {a2})
MCFee == (t1 :> 2) @@ (t2 :> 0) @@ (t3 :> 0) @@ (t4 :> 1)
MCSize == (t1 :> 1) @@ (t2 :> 2) @@ (t3 :> 1) @@ (t4 :> 1)
NoTtl == [t \in MCTxs |-> 0]

-----------------------------------------------------------------------------
(***************************************************************************)
(* For expiry and restarts: b1 takes t1; t2 is a message that lives until  *)
(* time 2 and spends what t1 spends.                                       *)
(***************************************************************************)
FewBlocks == {g, b1}
FewTxs == {t1, t2}

-----------------------------------------------------------------------------
(***************************************************************************)
(* A behaviour is one of two scenarios: conflicting transactions, blocks   *)
(* and reorganisations (chain); expiry, clean stops and crashes (expiry).  *)
(***************************************************************************)
VARIABLE scenario

Chain == INSTANCE TransactionPool WITH MaxRestarts <- 0

Expiry == INSTANCE TransactionPool
          WITH Blocks <- FewBlocks, Txs <- FewTxs,
               Ancestry <- (g :> <<g>>) @@ (b1 :> <<g, b1>>),
               CumulativeDifficulty <- (g :> 1) @@ (b1 :> 2),
               BlockTxs <- (g :> <<>>) @@ (b1 :> <<t1>>),
               Refs <- [t \in FewTxs |-> {}], TxSize <- [t \in FewTxs |-> 1],
               Ttl <- (t1 :> 0) @@ (t2 :> 2),
               MempoolTxLiveTime <- 0, MempoolTxFromAltBlockLiveTime <- 1, ForgetTime <- 2,
               FusionTxMaxSize <- 2, MedianSize <- 3, MaxTotalSize <- 4, MaxTime <- 4

MCInit == \/ scenario = "chain" /\ Chain!Init
          \/ scenario = "expiry" /\ Expiry!Init

MCNext == /\ \/ scenario = "chain" /\ Chain!Next
             \/ scenario = "expiry" /\ Expiry!Next
          /\ UNCHANGED scenario

MCSpec == MCInit /\ [][MCNext]_<<vars, scenario>>


-----------------------------------------------------------------------------
(***************************************************************************)
(* The properties that depend on the constants of the scenario.  The       *)
(* others are checked in both, as they stand.                              *)
(***************************************************************************)

=============================================================================
