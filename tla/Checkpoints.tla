---------------------------- MODULE Checkpoints ----------------------------
(***************************************************************************)
(* The queries of class Checkpoints (lib/CryptoNoteCore/Checkpoints.cpp).  *)
(* m_points, a std::map from heights to block hashes, is a function whose  *)
(* domain is a set of heights; every query takes it as its first argument. *)
(***************************************************************************)
EXTENDS Integers, FiniteSets, Sequences

CONSTANTS
  UnlockWindow,  \* CRYPTONOTE_MINED_MONEY_UNLOCK_WINDOW
  WordSize       \* number of values of the unsigned type the heights are
                 \* subtracted in (size_t); every height is below it

ASSUME CheckpointsAssumption ==
  /\ UnlockWindow \in Nat
  /\ WordSize \in Nat \ {0}
  /\ UnlockWindow < WordSize

(***************************************************************************)
(* Subtraction of unsigned words: it wraps below zero.                     *)
(***************************************************************************)
UnsignedSub(a, b) == (a - b) % WordSize

is_in_checkpoint_zone(points, height) ==
  \E c \in DOMAIN points : height <= c

check_block(points, height, block) ==
  height \in DOMAIN points => points[height] = block

(***************************************************************************)
(* The depth test of is_alternative_block_allowed: the height of a block   *)
(* is compared with the height of the chain less the unlock window.        *)
(***************************************************************************)
TooDeep(points, blockchain_height, block_height) ==
  /\ block_height < UnsignedSub(blockchain_height, UnlockWindow)
  /\ ~ is_in_checkpoint_zone(points, block_height)

is_alternative_block_allowed(points, blockchain_height, block_height) ==
  /\ block_height # 0
  /\ ~ TooDeep(points, blockchain_height, block_height)
  /\ \A c \in DOMAIN points : c <= blockchain_height => c < block_height

(***************************************************************************)
(* Insertion of entries into a std::map: a key that is there keeps its     *)
(* value.                                                                  *)
(***************************************************************************)
Insert(map, entries) ==
  [x \in DOMAIN map \cup DOMAIN entries |->
     IF x \in DOMAIN map THEN map[x] ELSE entries[x]]

(***************************************************************************)
(* load_checkpoints_from_dns: every record is added by add_checkpoint      *)
(* unless its height already has a checkpoint.                             *)
(***************************************************************************)
WithCheckpoints(points, records) == Insert(points, records)

(***************************************************************************)
(* Blockchain::checkCheckpoints scans the checkpoints in the order of      *)
(* their heights and stops at the first one that the chain contradicts     *)
(* (or does not reach); the last one it passed is where init rolls back.   *)
(* The block at height h is chain[h + 1].                                  *)
(***************************************************************************)
FailedCheckpoints(points, chain) ==
  {c \in DOMAIN points : c < Len(chain) /\ points[c] # chain[c + 1]}

LastValidCheckpoint(points, chain) ==
  LET failed == FailedCheckpoints(points, chain)
      passed == {c \in DOMAIN points : c < Len(chain) /\ \A f \in failed : c < f}
  IN  IF passed = {} THEN 0
      ELSE CHOOSE c \in passed : \A d \in passed : d <= c
=============================================================================
