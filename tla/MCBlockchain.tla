---------------------------- MODULE MCBlockchain ----------------------------
(***************************************************************************)
(* Instances of Blockchain for TLC.  The block tree of the instances:      *)
(*                                                                         *)
(*            d2                                                           *)
(*           /                                                             *)
(*     g --- a1 --- a2 --- a3                                              *)
(*      \                                                                  *)
(*       b1 --- b2 --- b3                                                  *)
(*         \      \                                                        *)
(*          c2     c3                                                      *)
(***************************************************************************)
EXTENDS Blockchain

CONSTANTS g, a1, a2, a3, b1, b2, b3, c2, c3, d2, t1, t2, t3, t4, k1, k2, k3, k4

ParentOf == (a1 :> g) @@ (a2 :> a1) @@ (a3 :> a2) @@ (b1 :> g) @@ (b2 :> b1)
            @@ (b3 :> b2) @@ (c2 :> b1) @@ (c3 :> b2) @@ (d2 :> a1)

MCBlocks == {g} \cup DOMAIN ParentOf

MCAncestry ==
  LET chain[b \in MCBlocks] ==
        IF b = g THEN <<g>> ELSE Append(chain[ParentOf[b]], b)
  IN  chain

MCDifficulty ==
  (g :> 1) @@ (a1 :> 4) @@ (a2 :> 5) @@ (a3 :> 7) @@ (b1 :> 2) @@ (b2 :> 5)
  @@ (b3 :> 8) @@ (c2 :> 6) @@ (c3 :> 8) @@ (d2 :> 6)

(***************************************************************************)
(* t3 spends the key image of t1: b3 cannot follow b1.                     *)
(***************************************************************************)
MCTxs == {t1, t2, t3, t4}

MCBlockTxs ==
  (g :> <<>>) @@ (a1 :> <<t1>>) @@ (a2 :> <<t2>>) @@ (a3 :> <<>>)
  @@ (b1 :> <<t1>>) @@ (b2 :> <<t2>>) @@ (b3 :> <<t3>>) @@ (c2 :> <<t2>>)
  @@ (c3 :> <<t4>>) @@ (d2 :> <<t2>>)

MCKeyImagesOf == (t1 :> {k1}) @@ (t2 :> {k2}) @@ (t3 :> {k1, k3})
                 @@ (t4 :> {k4})

\* The rings of t4, a transaction of c3, use an output of the block below c3,
\* or one of another branch.
RefsBelow == [t \in MCTxs |-> IF t = t4 THEN {b2} ELSE {}]
RefsAcross == [t \in MCTxs |-> IF t = t4 THEN {a1} ELSE {}]

UnitSizes == [t \in MCTxs |-> 1]

OversizeT4 == [UnitSizes EXCEPT ![t4] = 5]

NoCheckpoints == [h \in {} |-> g]

\* DNS may announce b2, which puts a2 and d2 in the wrong, and c3.
LateCheckpoints == (2 :> b2) @@ (3 :> c3)

\* b1 becomes a checkpoint after a1 may have been accepted.
NewCheckpoint == (1 :> b1)

-----------------------------------------------------------------------------
(***************************************************************************)
(* A smaller tree, for restarts: a1 is reorganised away, b3 conflicts with *)
(* b1, c3 is over the size limit.                                          *)
(***************************************************************************)
SmallBlocks == {g, a1, b1, b2, b3, c3}
SmallAncestry == Restrict(MCAncestry, SmallBlocks)
SmallDifficulty == Restrict(MCDifficulty, SmallBlocks)
SmallBlockTxs == Restrict(MCBlockTxs, SmallBlocks)

-----------------------------------------------------------------------------
(***************************************************************************)
(* A behaviour is one of three scenarios: reorganisations, of which the    *)
(* one to c2 fails (reorg); crashes and restarts (restart); checkpoints    *)
(* that arrive late (announced).                                           *)
(***************************************************************************)
VARIABLE scenario

Reorg == INSTANCE Blockchain WITH MaxRestarts <- 0

Restarts == INSTANCE Blockchain
            WITH Blocks <- SmallBlocks, Ancestry <- SmallAncestry,
                 CumulativeDifficulty <- SmallDifficulty, BlockTxs <- SmallBlockTxs,
                 TxSize <- OversizeT4, MaxBlockSize <- 2, BadReward <- {},
                 DnsCheckpoints <- NewCheckpoint

Announced == INSTANCE Blockchain
             WITH Refs <- RefsAcross, BadHeader <- {d2}, WeakProofOfWork <- {a3},
                  BadReward <- {}, Improbable <- {c2}, PoissonCheckTrigger <- 2,
                  DnsCheckpoints <- LateCheckpoints, MaxRestarts <- 0

MCInit == \/ scenario = "reorg" /\ Reorg!Init
          \/ scenario = "restart" /\ Restarts!Init
          \/ scenario = "announced" /\ Announced!Init

MCNext == /\ \/ scenario = "reorg" /\ Reorg!Next
             \/ scenario = "restart" /\ Restarts!Next
             \/ scenario = "announced" /\ Announced!Next
          /\ UNCHANGED scenario

MCSwitchStep == scenario = "reorg" /\ Reorg!SwitchStep /\ UNCHANGED scenario

MCSpec == MCInit /\ [][MCNext]_<<vars, scenario>> /\ WF_<<vars, scenario>>(MCSwitchStep)

ReorgSpec == /\ scenario = "reorg" /\ Reorg!Init
             /\ [][Reorg!Next /\ UNCHANGED scenario]_<<vars, scenario>>

-----------------------------------------------------------------------------
(***************************************************************************)
(* NoDoubleSpend, IndexCoversChain and PushRespectsCheckpoints are checked *)
(* in every scenario, as they stand.  The others depend on the     *)
(* constants of the scenario, or are not meant for all of them.            *)
(***************************************************************************)

\* IndexMatchesChain: while no block is over the size limit, the indexes that
\* pushBlock and popBlock keep are the ones rebuildCache computes; and
\* PoolDisjointFromChain: pops and pushes move transactions between the chain
\* and the pool in step.
ReorgStateMatchesChain ==
  scenario = "reorg" => Reorg!IndexMatchesChain /\ Reorg!PoolDisjointFromChain


\* SwitchTerminates: a reorganisation ends.
ReorgSwitchTerminates ==
  (scenario = "reorg" /\ sw.pc # "idle") ~> (scenario = "reorg" /\ sw.pc = "idle")

\* ImplementsLedger: the chain that the node shows grows, is replaced as a
\* whole, and survives a restart as Ledger says.
ReorgImplementsLedger ==
  /\ scenario = "reorg" => Reorg!L!Init
  /\ scenario = "restart" => Restarts!L!Init
  /\ [][/\ scenario = "reorg" => Reorg!L!Next \/ UNCHANGED Reorg!LedgerChain
        /\ scenario = "restart" => Restarts!L!Next \/ UNCHANGED Restarts!LedgerChain]_vars
=============================================================================
