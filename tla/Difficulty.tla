------------------------------ MODULE Difficulty ------------------------------
(***************************************************************************)
(* The difficulty of the next block, twice: getDifficultyForNextBlock for  *)
(* the main chain, get_next_difficulty_for_alternative_chain for a branch  *)
(* that is partly in m_blocks and partly in m_alternative_chains, each     *)
(* with its own way to collect the blocks that Currency::nextDifficulty    *)
(* and the check of the time look at.  A switch puts the blocks that       *)
(* passed the second through the first.                                    *)
(*                                                                         *)
(* There is one branch.  Proof of work is what a block was made for: it is *)
(* not a part of the model.  Floating point is exact.                      *)
(***************************************************************************)
EXTENDS Integers, Sequences, SequencesExt, FiniteSetsExt

CONSTANTS
    DEFAULT_DIFFICULTY, DIFFICULTY_TARGET, UPGRADE_HEIGHT_V1,
    BLOCKS_COUNT,            \* difficultyBlocksCountByBlockVersion
    CLIF_THRESHOLD,
    TIME_CHECK_WINDOW,       \* timestampCheckWindow
    Periods,                 \* time_window for an hour, a day, ...
    MIN_HEIGHT,              \* min_height of the statistics
    Start,                   \* the chain to start with: [timestamp, cumulative]
    Gaps,                    \* times of new blocks, from the block before
    MaxLength, MaxBranch, MaxDepth    \* bounds

VARIABLES
    m_blocks,    \* [timestamp, cumulative]; a block at height h is m_blocks[h + 1]
    branch,      \* the blocks of m_alternative_chains, from the main chain on
    split        \* the height of the first

difficultyVars == <<m_blocks, branch, split>>

SeqSum(s) == FoldSeq(LAMBDA a, b : a + b, 0, s)
AdjacentDifference(s) == [i \in 1..Len(s) - 1 |-> s[i + 1] - s[i]]
Rising(s) == \A i \in 1..Len(s) - 1 : s[i] < s[i + 1]
Falls(s) == \E i \in 1..Len(s) - 1 : s[i] > s[i + 1]

-----------------------------------------------------------------------------
\* meanValue and stddevValue, both times n: n * mean = Sum, and the square of
\* n * stddev is n * SquareSum (the deviations are cut to integers).
Magnitude(n) == IF n < 0 THEN -n ELSE n
SquareSum(s, sum) ==
    SeqSum([i \in DOMAIN s |-> (Magnitude(Len(s) * s[i] - sum) \div Len(s)) ^ 2])

\* At most one standard deviation from the mean; no lower border under 1.
Inlier(st, n, sum, squares) ==
    /\ IF sum * sum > n * squares
       THEN n * st >= sum \/ (sum - n * st) ^ 2 <= n * squares
       ELSE st >= 1
    /\ n * st <= sum \/ (n * st - sum) ^ 2 <= n * squares

Inliers(times, sum, squares) == SelectSeq(times, LAMBDA st : Inlier(st, Len(times), sum, squares))
Outliers(times, sum, squares) == SelectSeq(times, LAMBDA st : ~Inlier(st, Len(times), sum, squares))

\* mean(a) >= mean(b), false when a is empty.
MeanAtLeast(a, b) == a # <<>> /\ SeqSum(a) * Len(b) >= SeqSum(b) * Len(a)

\* prev * min(1.01, coef) or prev * max(0.99, coef), for coef = target / mean, + 1.
Corrected(prev, n, sum) ==
    IF sum < n * DIFFICULTY_TARGET
    THEN IF 100 * n * DIFFICULTY_TARGET >= 101 * sum THEN (prev * 101) \div 100 + 1
         ELSE (prev * n * DIFFICULTY_TARGET) \div sum + 1
    ELSE IF 100 * n * DIFFICULTY_TARGET <= 99 * sum THEN (prev * 99) \div 100 + 1
         ELSE (prev * n * DIFFICULTY_TARGET) \div sum + 1

CorrectedBy(prev, times) == Corrected(prev, Len(times), SeqSum(times))

\* With outliers: by how much the window took longer or shorter than it should.
Adjusted(prev, windowTime, windowTarget, valid, invalid) ==
    IF 100 * windowTime < 97 * windowTarget THEN (prev * 102) \div 100 + 1
    ELSE IF 100 * windowTime > 103 * windowTarget THEN (prev * 98) \div 100 + 1
    ELSE CorrectedBy(prev, IF MeanAtLeast(valid, invalid) THEN valid ELSE invalid)

NextOf(prev, times, sum, squares) ==
    IF Outliers(times, sum, squares) = <<>> THEN prev
    ELSE Adjusted(prev, sum, DIFFICULTY_TARGET * Len(times),
                  Inliers(times, sum, squares), Outliers(times, sum, squares))

EPoW(prev, times) ==
    Max({NextOf(prev, times, SeqSum(times), SquareSum(times, SeqSum(times))), DEFAULT_DIFFICULTY})

-----------------------------------------------------------------------------
Throws == -1    \* a block was asked for that m_blocks does not have

\* getClifDifficulty: half of the last, or the least mean of a period (0: none),
\* and half of that for every further target that passed.
Least(half, means) == Min({half} \cup {m \in means : m > 0})
getClifDifficulty(last, solveTime, means) ==
    IF last <= DEFAULT_DIFFICULTY THEN last
    ELSE IF Throws \in means THEN Throws
    ELSE Max({DEFAULT_DIFFICULTY,
              Least(last \div 2, means)
                  \div (2 ^ ((solveTime - CLIF_THRESHOLD) \div DIFFICULTY_TARGET))})

LastDifficulty(cumulatives) ==
    IF Len(cumulatives) < 2 THEN 1 ELSE Last(cumulatives) - cumulatives[Len(cumulatives) - 1]

nextDifficulty(times, cumulatives, h, nextBlockTime, means) ==
    IF times = <<>> THEN DEFAULT_DIFFICULTY
    ELSE IF nextBlockTime > Last(times) + CLIF_THRESHOLD
    THEN getClifDifficulty(LastDifficulty(cumulatives), nextBlockTime - Last(times), means)
    ELSE IF \/ h < UPGRADE_HEIGHT_V1 + Len(times) - 1
            \/ Falls(times) \/ ~Rising(cumulatives) \/ Len(times) = 1
    THEN DEFAULT_DIFFICULTY
    ELSE EPoW(LastDifficulty(cumulatives), AdjacentDifference(times))

Times(blocks) == [i \in DOMAIN blocks |-> blocks[i].timestamp]
Cumulatives(blocks) == [i \in DOMAIN blocks |-> blocks[i].cumulative]

\* The last n, without the genesis block.
Window(blocks, n) == SubSeq(blocks, Max({2, Len(blocks) - n + 1}), Len(blocks))

\* The mean difficulty of the blocks from height top down, until one is as old as
\* stop or the statistics begin.
MeanDown(blocks, top, stop) ==
    LET low == Max({MIN_HEIGHT} \cup {h \in MIN_HEIGHT + 1..top : blocks[h].timestamp < stop})
    IN  IF low >= top THEN 0
        ELSE (blocks[top + 1].cumulative - blocks[low + 1].cumulative) \div (top - low)

Stat(blocks, period) ==
    IF blocks[MIN_HEIGHT + 1].timestamp >= Last(blocks).timestamp - period THEN 0
    ELSE MeanDown(blocks, Len(blocks) - 1, Last(blocks).timestamp - period)

getDifficultyForNextBlock(blocks, t) ==
    nextDifficulty(Times(Window(blocks, BLOCKS_COUNT)), Cumulatives(Window(blocks, BLOCKS_COUNT)),
                   Len(blocks), t, {Stat(blocks, p) : p \in Periods})

-----------------------------------------------------------------------------
\* What is looked at for a block at height h behind alt_chain, a part of a branch.
Collected(alt_chain, h) ==
    LET stop == h - Len(alt_chain)
    IN  IF Len(alt_chain) < BLOCKS_COUNT
        THEN Window(SubSeq(m_blocks, 1, stop), BLOCKS_COUNT - Len(alt_chain)) \o alt_chain
        ELSE SubSeq(alt_chain, Len(alt_chain) - BLOCKS_COUNT + 1, Len(alt_chain))

\* The statistics: down the branch, and when its first block is not too old, on
\* down the main chain, from a height that was counted from the new block's.
AltPairs(alt_chain, h, stop) ==
    Max({n \in 0..Len(alt_chain) - 1 :
           /\ n <= Max({0, h - MIN_HEIGHT})
           /\ \A i \in 1..n : alt_chain[Len(alt_chain) - i].timestamp >= stop})

MainLow(top, stop) ==
    Max({MIN_HEIGHT} \cup {h \in MIN_HEIGHT + 1..top : m_blocks[h].timestamp < stop})

MeanOf(sum, n) == IF n = 0 THEN 0 ELSE sum \div n

\* sum, n: of the branch.
OnMainChain(sum, n, top, low) ==
    IF low >= top THEN MeanOf(sum, n)
    ELSE IF top = Len(m_blocks) THEN Throws
    ELSE (sum + m_blocks[top + 1].cumulative - m_blocks[low + 1].cumulative) \div (n + top - low)

GoOnBelow(sum, n, top, stop) ==
    IF top > Len(m_blocks) THEN Throws ELSE OnMainChain(sum, n, top, MainLow(top, stop))

AltMean(alt_chain, h, stop, pairs) ==
    IF alt_chain = <<>> THEN GoOnBelow(0, 0, h, stop)
    ELSE LET sum == Last(alt_chain).cumulative - alt_chain[Len(alt_chain) - pairs].cumulative
         IN  IF Head(alt_chain).timestamp < stop THEN MeanOf(sum, pairs)
             ELSE GoOnBelow(sum, pairs, h - pairs, stop)

AltStat(alt_chain, h, last, period) ==
    IF m_blocks[MIN_HEIGHT + 1].timestamp >= last - period THEN 0
    ELSE AltMean(alt_chain, h, last - period,
                 IF alt_chain = <<>> THEN 0 ELSE AltPairs(alt_chain, h, last - period))

AltDifficulty(blocks, alt_chain, h, t) ==
    nextDifficulty(Times(blocks), Cumulatives(blocks), Len(m_blocks), t,
                   {AltStat(alt_chain, h, Last(blocks).timestamp, p) : p \in Periods})

get_next_difficulty_for_alternative_chain(alt_chain, h, t) ==
    AltDifficulty(Collected(alt_chain, h), alt_chain, h, t)
-----------------------------------------------------------------------------
\* Common::medianValue, cut to an integer.
medianValue(s) ==
    LET v == SortSeq(s, <)
        n == Len(v) \div 2
    IN  IF Len(v) % 2 = 1 THEN v[n + 1] ELSE (v[n] + v[n + 1]) \div 2

check_block_timestamp(times, t) == Len(times) >= TIME_CHECK_WINDOW => t >= medianValue(times)

check_block_timestamp_main(blocks, t) ==
    check_block_timestamp(
        SubSeq(Times(blocks), Max({1, Len(blocks) - TIME_CHECK_WINDOW + 1}), Len(blocks)), t)

\* complete_timestamps_vector: what a branch lacks, from the block before it down,
\* and not to the genesis block.
complete_timestamps_vector(times, top) ==
    IF Len(times) >= TIME_CHECK_WINDOW THEN times
    ELSE LET from == Max({1, top - (TIME_CHECK_WINDOW - Len(times)) + 1})
         IN  times \o SubSeq(Times(m_blocks), from + 1, top + 1)

AlternativeTimeGood(alt_chain, h, t) ==
    check_block_timestamp(complete_timestamps_vector(Times(alt_chain), h - Len(alt_chain) - 1), t)

\* Behind which blocks the block of a branch would be on a main chain.
AsMain(first, alt_chain) == SubSeq(m_blocks, 1, first) \o alt_chain

\* pushBlock, as far as it concerns times and difficulties.
pushBlock(blocks, t) ==
    Append(blocks, [timestamp |-> t,
                    cumulative |-> Last(blocks).cumulative + getDifficultyForNextBlock(blocks, t)])

blockPushed == \E gap \in Gaps :
    LET t == Last(m_blocks).timestamp + gap
    IN  /\ Len(m_blocks) < MaxLength
        /\ check_block_timestamp_main(m_blocks, t)
        /\ m_blocks' = pushBlock(m_blocks, t) /\ UNCHANGED <<branch, split>>

\* switch_to_alternative_blockchain, when every block's time passes: the blocks
\* are pushed anew.  When one does not, the branch is dropped.
Repushed(blocks, alt_chain) ==
    LET pushed[i \in 0..Len(alt_chain)] ==
            IF i = 0 THEN blocks ELSE pushBlock(pushed[i - 1], alt_chain[i].timestamp)
    IN  pushed[Len(alt_chain)]

switch_to_alternative_blockchain(first, alt_chain) ==
    /\ m_blocks' =
         IF \A i \in DOMAIN alt_chain :
              check_block_timestamp_main(AsMain(first, SubSeq(alt_chain, 1, i - 1)),
                                         alt_chain[i].timestamp)
         THEN Repushed(SubSeq(m_blocks, 1, first), alt_chain) ELSE m_blocks
    /\ branch' = <<>> /\ split' = 0

AlternativeAdded(first, alt_chain) ==
    IF Last(m_blocks).cumulative < Last(alt_chain).cumulative
    THEN switch_to_alternative_blockchain(first, alt_chain)
    ELSE branch' = alt_chain /\ split' = first /\ UNCHANGED m_blocks

\* A block at height first + Len(branch), behind the branch (or its first).
AlternativeBlock(first, t, difficulty) ==
    /\ difficulty # Throws
    /\ AlternativeAdded(first,
           Append(branch, [timestamp |-> t,
                           cumulative |-> Last(AsMain(first, branch)).cumulative + difficulty]))

handle_alternative_block == \E gap \in Gaps, first \in Len(m_blocks) - MaxDepth..Len(m_blocks) - 1 :
    LET t == Last(AsMain(first, branch)).timestamp + gap
    IN  /\ branch # <<>> => first = split
        /\ Len(branch) < MaxBranch
        /\ AlternativeTimeGood(branch, first + Len(branch), t)
        /\ AlternativeBlock(first, t,
               get_next_difficulty_for_alternative_chain(branch, first + Len(branch), t))

DifficultyInit == m_blocks = Start /\ branch = <<>> /\ split = 0
DifficultyNext == blockPushed \/ handle_alternative_block

-----------------------------------------------------------------------------
\* A block of a branch has the difficulty, and passes the check of its time, that
\* it has and passes on the main chain: what handle_alternative_block lets in, a
\* switch does not refuse.  (Not so when it comes later than CLIF_THRESHOLD, and
\* for the time when the branch is longer than the window.)
BranchAgrees ==
    \A i \in DOMAIN branch :
        LET before == AsMain(split, SubSeq(branch, 1, i - 1))
            t == branch[i].timestamp
        IN  /\ t <= Last(before).timestamp + CLIF_THRESHOLD =>
                 branch[i].cumulative - Last(before).cumulative = getDifficultyForNextBlock(before, t)
            /\ i <= TIME_CHECK_WINDOW + 1 => check_block_timestamp_main(before, t)

\* From one block to the next the difficulty changes by two percent and one; it
\* falls to the default after a time that goes back, and after a long pause it
\* falls to half or less.  It is never under the default.
ChangesSlowly ==
    \A i \in Len(Start) + 1..Len(m_blocks) :
        LET d == m_blocks[i].cumulative - m_blocks[i - 1].cumulative
            prev == m_blocks[i - 1].cumulative - m_blocks[i - 2].cumulative
            before == SubSeq(m_blocks, 1, i - 1)
        IN  /\ d >= DEFAULT_DIFFICULTY
            /\ IF m_blocks[i].timestamp > m_blocks[i - 1].timestamp + CLIF_THRESHOLD
               THEN d <= Max({prev \div 2, DEFAULT_DIFFICULTY})
               ELSE \/ Falls(Times(Window(before, BLOCKS_COUNT))) /\ d = DEFAULT_DIFFICULTY
                    \/ d \in (98 * prev) \div 100..(102 * prev) \div 100 + 1
===============================================================================
