---------------------------- MODULE UpgradeDetector ----------------------------
(***************************************************************************)
(* lib/CryptoNoteCore/UpgradeDetector.h: from which height on blocks have  *)
(* the target version.  The currency fixes the height, or the blocks vote  *)
(* by their minor version.  m_votingCompleteHeight follows the pushes and  *)
(* pops of the chain, and is found anew when the process starts.  A chain  *)
(* is a sequence of [major, minor], height 0 first.                        *)
(***************************************************************************)
EXTENDS Naturals, Sequences, FiniteSets, FiniteSetsExt

CONSTANTS
    TargetVersion,
    FixedHeight,            \* m_currency.upgradeHeight(m_targetVersion)
    UpgradeVotingWindow, UpgradeVotingThreshold, UpgradeWindow,
    UNDEF_HEIGHT            \* above any height

At(chain, height) == chain[height + 1]
Top(chain) == Len(chain) - 1

calculateUpgradeHeight(height) == height + UpgradeWindow
maxUpgradeDistance == 7 * UpgradeWindow

upgradeHeight(vote) ==
    IF FixedHeight # UNDEF_HEIGHT THEN FixedHeight
    ELSE IF vote = UNDEF_HEIGHT THEN UNDEF_HEIGHT ELSE calculateUpgradeHeight(vote)

getNumberOfVotes(chain, height) ==
    IF height < UpgradeVotingWindow - 1 THEN 0
    ELSE Cardinality({i \in height + 1 - UpgradeVotingWindow..height :
                          /\ At(chain, i).major = TargetVersion - 1 /\ At(chain, i).minor = 1})

isVotingComplete(chain, height) ==
    UpgradeVotingThreshold * UpgradeVotingWindow <= getNumberOfVotes(chain, height) * 100

\* Mutant: the last complete vote counts, not the first.
findVotingCompleteHeightLate(chain, probable) ==
    LET found == {i \in 0..probable : isVotingComplete(chain, i)}
    IN  IF found = {} THEN UNDEF_HEIGHT ELSE Max(found)

findVotingCompleteHeight(chain, probable) ==
    LET start == IF probable > maxUpgradeDistance THEN probable - maxUpgradeDistance ELSE 0
        found == {i \in start..probable : isVotingComplete(chain, i)}
    IN  IF found = {} THEN UNDEF_HEIGHT ELSE Min(found)

\* init: the height, and whether the chain agrees with it.
init(chain) ==
    LET tail == At(chain, Top(chain)).major
        first == Min({i \in 0..Top(chain) : At(chain, i).major >= TargetVersion})
        vote == IF tail = TargetVersion - 1 THEN findVotingCompleteHeight(chain, Top(chain))
                ELSE IF TargetVersion <= tail THEN findVotingCompleteHeight(chain, first)
                ELSE UNDEF_HEIGHT
    IN  IF FixedHeight = UNDEF_HEIGHT
        THEN [vote |-> vote, ok |-> TargetVersion <= tail => vote # UNDEF_HEIGHT]
        ELSE [vote |-> UNDEF_HEIGHT,
              ok |-> IF Len(chain) <= FixedHeight + 1 THEN tail < TargetVersion
                     ELSE /\ At(chain, FixedHeight).major = TargetVersion - 1
                          /\ At(chain, FixedHeight + 1).major = TargetVersion]

\* What blockPushed asserts of the chain with the new block.
PushedAsserts(vote, chain) ==
    LET tail == At(chain, Top(chain)).major
    IN  IF FixedHeight # UNDEF_HEIGHT
        THEN IF Len(chain) <= FixedHeight + 1 THEN tail <= TargetVersion - 1
             ELSE tail >= TargetVersion
        ELSE vote # UNDEF_HEIGHT =>
             /\ Len(chain) > vote
             /\ tail = IF Len(chain) <= upgradeHeight(vote) + 1 THEN TargetVersion - 1
                       ELSE TargetVersion

blockPushed(vote, chain) ==
    IF FixedHeight # UNDEF_HEIGHT \/ vote # UNDEF_HEIGHT THEN vote
    ELSE IF isVotingComplete(chain, Top(chain)) THEN Top(chain) ELSE UNDEF_HEIGHT


blockPopped(vote, chain) == IF vote = Len(chain) THEN UNDEF_HEIGHT ELSE vote

\* Blockchain::getBlockMajorVersionForHeight, with one upgrade.
getBlockMajorVersionForHeight(vote, height) ==
    IF height > upgradeHeight(vote) THEN TargetVersion ELSE TargetVersion - 1
===============================================================================
