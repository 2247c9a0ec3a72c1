---- MODULE MCDiff ----
EXTENDS Difficulty
MCStart == [i \in 1..7 |-> [timestamp |-> 1000 + 10 * i, cumulative |-> 100 * i]]
MCGaps == {-6, 3, 10, 45}
Spec == DifficultyInit /\ [][DifficultyNext]_difficultyVars
====
