------------------------------- MODULE Emission -------------------------------
(***************************************************************************)
(* How a node makes money: Core::get_block_template with                   *)
(* Currency::constructMinerTx on one side, what Blockchain::pushBlock      *)
(* demands of a miner transaction on the other.  Both compute the reward   *)
(* from the size of the block, the sizes and times before it and the coins *)
(* made so far, the first before the miner transaction (a part of that     *)
(* size) exists.                                                           *)
(*                                                                         *)
(* Amounts are integers, floating point is exact.  An output is its        *)
(* amount, a transaction set of the pool its size and fee, padding a       *)
(* length.  Sizes count bytes as the serialization does, counters included.*)
(***************************************************************************)
EXTENDS Integers, Sequences, SequencesExt, FiniteSetsExt

CONSTANTS
    DIFFICULTY_TARGET, UPGRADE_HEIGHT_V1,
    START_BLOCK_REWARD, MIN_BLOCK_REWARD, REWARD_HALVING_INTERVAL, TAIL_EMISSION_REWARD,
    MONEY_SUPPLY,
    GOVERNANCE_PERCENT_FEE, GOVERNANCE_HEIGHT_START, GOVERNANCE_HEIGHT_END,
    FULL_REWARD_ZONE, REWARD_BLOCKS_WINDOW, TIMESTAMP_CHECK_WINDOW, FUTURE_TIME_LIMIT,
    MAX_BLOCK_SIZE, GROWTH_NUMERATOR, GROWTH_DENOMINATOR, RESERVED_SIZE,
    MaxOuts,      \* outputs of a miner transaction, 14
    Fixed,        \* its size without outputs and extra
    OutputSize,   \* of an output without its amount
    ExtraSizes,   \* of extra: the key, and a nonce that the caller chooses
    Offers,       \* what the pool can offer: [size, fee]
    Blocks,       \* of other nodes: [size, fee]
    Lags,         \* their times, from the clock
    Clock,        \* the times
    MaxLength     \* bound on the chain

VARIABLES
    m_blocks,     \* [timestamp, size, coins, minted, fee]
    m_current_block_cumul_sz_limit,
    now,
    draft,        \* get_block_template after it released the lock
    template      \* what get_block_template returned, until it is asked again

emissionVars == <<m_blocks, m_current_block_cumul_sz_limit, now, draft, template>>

height == Len(m_blocks)            \* of the next block; the first is at height 0
LastBlock == Last(m_blocks)
NoDraft == [none |-> TRUE]

-----------------------------------------------------------------------------
\* Common::medianValue, cut to an integer.
medianValue(s) ==
    LET v == SortSeq(s, <)
        n == Len(v) \div 2
    IN  IF v = <<>> THEN 0
        ELSE IF Len(v) % 2 = 1 THEN v[n + 1] ELSE (v[n] + v[n + 1]) \div 2

LastN(s, n) == SubSeq(s, Max({1, Len(s) - n + 1}), Len(s))
Sizes(blocks) == [i \in DOMAIN blocks |-> blocks[i].size]
Times(blocks) == [i \in DOMAIN blocks |-> blocks[i].timestamp]

get_last_n_blocks_sizes(blocks) == LastN(Sizes(blocks), REWARD_BLOCKS_WINDOW)

\* update_next_cumulative_size_limit
CumulativeSizeLimit(blocks) ==
    2 * Max({medianValue(get_last_n_blocks_sizes(blocks)), FULL_REWARD_ZONE})

maxBlockCumulativeSize(h) == MAX_BLOCK_SIZE + (h * GROWTH_NUMERATOR) \div GROWTH_DENOMINATOR

-----------------------------------------------------------------------------
getBaseReward(coins, h) ==
    Min({Max({START_BLOCK_REWARD \div (2 ^ (h \div REWARD_HALVING_INTERVAL)), MIN_BLOCK_REWARD}),
         \* an unsigned difference
         IF coins <= MONEY_SUPPLY THEN MONEY_SUPPLY - coins ELSE START_BLOCK_REWARD})

\* The fourth root of t / DIFFICULTY_TARGET, of an amount.
Rooted(amount, t) ==
    Max({r \in amount..2 * amount : r ^ 4 * DIFFICULTY_TARGET <= amount ^ 4 * t})

\* The reward follows the time since the block before; a time before that one
\* is a very long time, as the difference is unsigned.
Consistent(amount, h, t) ==
    IF h <= UPGRADE_HEIGHT_V1 \/ t = DIFFICULTY_TARGET THEN amount
    ELSE IF t < 0 \/ t >= 16 * DIFFICULTY_TARGET THEN 2 * amount
    ELSE IF t < DIFFICULTY_TARGET THEN (amount * t) \div DIFFICULTY_TARGET
    ELSE Rooted(amount, t)

Refused == [ok |-> FALSE]

getPenalizedAmount(amount, median, size) ==
    IF size <= median THEN amount
    ELSE ((amount * (2 * median - size) * size) \div median) \div median

\* baseReward, after the tail emission.
baseReward(coins, based) ==
    IF coins + TAIL_EMISSION_REWARD >= MONEY_SUPPLY \/ based < TAIL_EMISSION_REWARD
    THEN TAIL_EMISSION_REWARD ELSE based

PenalizedReward(base, median, size, fee) ==
    IF size > 2 * median THEN Refused
    ELSE [ok |-> TRUE,
          reward |-> getPenalizedAmount(base, median, size) + getPenalizedAmount(fee, median, size),
          emissionChange |-> getPenalizedAmount(base, median, size)
                                 - (fee - getPenalizedAmount(fee, median, size))]

getBlockReward(medianSize, size, coins, fee, h, target) ==
    PenalizedReward(baseReward(coins, Consistent(getBaseReward(coins, h), h, target)),
                    Max({medianSize, FULL_REWARD_ZONE}), size, fee)

isGovernanceEnabled(h) == h \in GOVERNANCE_HEIGHT_START..GOVERNANCE_HEIGHT_END
getGovernanceReward(amount) ==
    (amount * Max({1, Min({50, GOVERNANCE_PERCENT_FEE})})) \div 100

\* decompose_amount_into_digits, without a threshold for dust.
decompose(amount) ==
    SelectSeq([i \in 1..9 |-> ((amount \div 10 ^ (i - 1)) % 10) * 10 ^ (i - 1)], LAMBDA c : c # 0)

\* The last two are joined while there are too many.
Joined(amounts) ==
    IF Len(amounts) <= MaxOuts THEN amounts
    ELSE SubSeq(amounts, 1, MaxOuts - 1)
            \o <<FoldSeq(LAMBDA a, b : a + b, 0, SubSeq(amounts, MaxOuts, Len(amounts)))>>

SumOf(outs) == FoldSeq(LAMBDA a, b : a + b, 0, outs)

\* The outputs, the governance's last.
WithGovernance(coins, reward, government) ==
    Append(Joined(decompose(IF coins # 0 THEN reward - government ELSE reward)), government)

Outputs(h, coins, reward) ==
    IF isGovernanceEnabled(h) THEN WithGovernance(coins, reward, getGovernanceReward(reward))
    ELSE Joined(decompose(reward))

MinerTx(reward, outs) ==
    IF SumOf(outs) # reward THEN Refused ELSE [ok |-> TRUE, outs |-> outs]
Rewarded(h, coins, r) ==
    IF r.ok THEN MinerTx(r.reward, Outputs(h, coins, r.reward)) ELSE Refused

constructMinerTx(h, median, coins, size, fee, target) ==
    Rewarded(h, coins, getBlockReward(median, size, coins, fee, h, target))

Varint(n) == IF n < 128 THEN 1 ELSE IF n < 16384 THEN 2 ELSE 3
getObjectBinarySize(outs, extra) ==
    Fixed + FoldSeq(LAMBDA a, b : Varint(a) + OutputSize + b, 0, outs) + Varint(extra) + extra

-----------------------------------------------------------------------------
(***************************************************************************)
(* get_block_template.  A try takes a size for the block: the miner        *)
(* transaction made for it is larger (try again with what it needs),       *)
(* smaller (pad it), or of that size.                                      *)
(***************************************************************************)
Again(size) == [at |-> "again", cumulative |-> size]
Done(outs, extra) == [at |-> "done", outs |-> outs, extra |-> extra]
Failed == [at |-> "failed"]

\* It is smaller by delta, that is added to extra; extra's counter may grow.
Pad(cumulative, txsSize, outs, padded, delta) ==
    CASE txsSize + getObjectBinarySize(outs, padded) = cumulative -> Done(outs, padded)
      [] txsSize + getObjectBinarySize(outs, padded) # cumulative + 1 -> Failed
      [] OTHER -> IF txsSize + getObjectBinarySize(outs, padded - 1) = cumulative
                  THEN Done(outs, padded - 1) ELSE Again(cumulative + delta - 1)

Compare(cumulative, txsSize, extra, outs, size) ==
    IF txsSize + size > cumulative THEN Again(txsSize + size)
    ELSE Pad(cumulative, txsSize, outs, extra + (cumulative - txsSize - size),
             cumulative - txsSize - size)

WithMinerTx(cumulative, txsSize, extra, m) ==
    IF m.ok THEN Compare(cumulative, txsSize, extra, m.outs, getObjectBinarySize(m.outs, extra))
    ELSE Failed

\* (fee, target: what else the reward depends on)
Try(d, txs, target, s) ==
    IF s.at # "again" THEN s
    ELSE WithMinerTx(s.cumulative, txs.size, d.extra,
             constructMinerTx(d.height, d.median, d.coins, s.cumulative, txs.fee, target))

FirstSize(txsSize, extra, m) ==
    IF m.ok THEN Again(txsSize + getObjectBinarySize(m.outs, extra)) ELSE Failed

Tries(d, txs, target) ==
    LET after[n \in 0..10] ==
            IF n = 0
            THEN FirstSize(txs.size, d.extra,
                     constructMinerTx(d.height, d.median, d.coins, txs.size, txs.fee, target))
            ELSE Try(d, txs, target, after[n - 1])
    IN  after[10]

\* What it reads with the block chain locked.
get_block_template(extra) ==
    LET median == medianValue(LastN(Times(m_blocks), TIMESTAMP_CHECK_WINDOW))
    IN  /\ draft = NoDraft
        /\ draft' = [height |-> height, extra |-> extra, parent |-> LastBlock,
                     timestamp |-> IF height >= TIMESTAMP_CHECK_WINDOW THEN Max({now, median}) ELSE now,
                     median |-> m_current_block_cumul_sz_limit \div 2,
                     coins |-> LastBlock.coins]
        /\ template' = NoDraft
        /\ UNCHANGED <<m_blocks, m_current_block_cumul_sz_limit, now>>

\* fill_block_template takes no more than this.
Fits(txs) ==
    txs.size <= Min({(125 * draft.median) \div 100, maxBlockCumulativeSize(draft.height)})
                    - RESERVED_SIZE

\* The rest.  The block before is looked up by its hash; when it left the chain,
\* its height is taken to be 0.
previousTimestamp ==
    IF draft.height <= Len(m_blocks) /\ m_blocks[draft.height] = draft.parent
    THEN draft.parent.timestamp ELSE m_blocks[1].timestamp

Filled(txs, r) ==
    IF r.at # "done" THEN NoDraft
    ELSE [parent |-> draft.parent, timestamp |-> draft.timestamp, fee |-> txs.fee,
          outs |-> r.outs, size |-> txs.size + getObjectBinarySize(r.outs, r.extra)]

templateFilled(txs) ==
    /\ draft # NoDraft /\ Fits(txs) /\ draft' = NoDraft
    /\ template' =
         IF draft.height <= UPGRADE_HEIGHT_V1 THEN Filled(txs, Tries(draft, txs, DIFFICULTY_TARGET))
         ELSE IF previousTimestamp > draft.timestamp THEN NoDraft
         ELSE Filled(txs, Tries(draft, txs, draft.timestamp - previousTimestamp))
    /\ UNCHANGED <<m_blocks, m_current_block_cumul_sz_limit, now>>

-----------------------------------------------------------------------------
\* check_block_timestamp_main and check_block_timestamp
check_block_timestamp(blocks, t) ==
    /\ t <= now + FUTURE_TIME_LIMIT
    /\ Len(blocks) >= TIMESTAMP_CHECK_WINDOW =>
         t >= medianValue(LastN(Times(blocks), TIMESTAMP_CHECK_WINDOW))

blockTarget(blocks, t) ==
    IF Len(blocks) > UPGRADE_HEIGHT_V1 THEN t - Last(blocks).timestamp ELSE DIFFICULTY_TARGET

\* The reward a block is to have behind these.
RewardOf(blocks, b) ==
    getBlockReward(medianValue(get_last_n_blocks_sizes(blocks)), b.size, Last(blocks).coins,
                   b.fee, Len(blocks), blockTarget(blocks, b.timestamp))

\* validateGovernmentFee: the governance's output is the last one.
validateGovernmentFee(outs) == Last(outs) = getGovernanceReward(SumOf(outs))

Owed(outs, r) == r.ok /\ SumOf(outs) = r.reward
validate_miner_transaction(blocks, b) ==
    /\ isGovernanceEnabled(Len(blocks)) => validateGovernmentFee(b.outs)
    /\ Owed(b.outs, RewardOf(blocks, b))

Accepted(blocks, b) ==
    /\ check_block_timestamp(blocks, b.timestamp)
    /\ b.size <= maxBlockCumulativeSize(Len(blocks))
    /\ validate_miner_transaction(blocks, b)

pushBlock(blocks, b) ==
    Append(blocks, [timestamp |-> b.timestamp, size |-> b.size, fee |-> b.fee,
                    minted |-> SumOf(b.outs),
                    coins |-> Last(blocks).coins + RewardOf(blocks, b).emissionChange])

\* The chain after the last of the blocks was pushed.
Extended(blocks) ==
    /\ m_blocks' = blocks
    /\ m_current_block_cumul_sz_limit' = CumulativeSizeLimit(blocks)
    /\ UNCHANGED <<now, draft, template>>

\* A block of another node behind some blocks of the chain.
WithOutputs(t, offer, m) ==
    [timestamp |-> t, size |-> offer.size, fee |-> offer.fee, outs |-> IF m.ok THEN m.outs ELSE <<0>>]
Foreign(blocks, t, offer) ==
    WithOutputs(t, offer,
        constructMinerTx(Len(blocks), medianValue(get_last_n_blocks_sizes(blocks)),
                         Last(blocks).coins, offer.size, offer.fee, blockTarget(blocks, t)))

\* handle_incoming_block, at the end of the chain or by a switch that replaces the
\* last block by two; handle_block_found; and --rollback at the start of the
\* program, which leaves the limit for the size alone.
Follow(blocks, b) == Accepted(blocks, b) /\ Extended(pushBlock(blocks, b))
FollowTwice(blocks, b, t, offer) ==
    /\ Accepted(blocks, b) /\ pushBlock(blocks, b) # m_blocks
    /\ Follow(pushBlock(blocks, b), Foreign(pushBlock(blocks, b), t, offer))

blockReceived == \E t \in Lags, offer \in Blocks :
    height < MaxLength /\ Follow(m_blocks, Foreign(m_blocks, now + t, offer))

switch_to_alternative_blockchain == \E t \in Lags, offer, next \in Blocks :
    /\ height \in 2..MaxLength - 1
    /\ FollowTwice(Front(m_blocks), Foreign(Front(m_blocks), now + t, offer), now + t, next)

blockFound ==
    /\ height < MaxLength /\ template # NoDraft /\ template.parent = LastBlock
    /\ Follow(m_blocks, template)

rollbackBlockchainTo ==
    /\ height > 1
    /\ m_blocks' = Front(m_blocks) /\ draft' = NoDraft /\ template' = NoDraft
    /\ UNCHANGED <<m_current_block_cumul_sz_limit, now>>

Tick == \E t \in Clock :
    /\ t > now /\ now' = t
    /\ UNCHANGED <<m_blocks, m_current_block_cumul_sz_limit, draft, template>>

EmissionInit ==
    LET genesis == [timestamp |-> 0, size |-> Fixed + OutputSize + 1, fee |-> 0,
                    minted |-> START_BLOCK_REWARD, coins |-> START_BLOCK_REWARD]
    IN  /\ m_blocks = <<genesis>>
        /\ m_current_block_cumul_sz_limit = CumulativeSizeLimit(<<genesis>>)
        /\ now = 0 /\ draft = NoDraft /\ template = NoDraft

EmissionNext ==
    \/ \E extra \in ExtraSizes : get_block_template(extra)
    \/ \E txs \in Offers : templateFilled(txs)
    \/ blockReceived \/ switch_to_alternative_blockchain \/ blockFound \/ rollbackBlockchainTo \/ Tick

-----------------------------------------------------------------------------
\* A template that get_block_template hands out is one that pushBlock accepts as
\* long as its parent is the last block: the reward computed before the size of
\* the block was known, for the half of a limit that was stored when the parent
\* arrived, is the reward of the finished block, and its time is still good.
\* (After a rollback the limit is that of a longer chain, until a block comes.)
TemplateValid ==
    (template # NoDraft /\ template.parent = LastBlock
     /\ m_current_block_cumul_sz_limit = CumulativeSizeLimit(m_blocks))
        => Accepted(m_blocks, template)

\* already_generated_coins is what the miner transactions made less the fees they
\* collected, and it passes the money supply by tail emission only.
CoinsConserved ==
    /\ LastBlock.coins = FoldSeq(LAMBDA b, n : b.minted - b.fee + n, 0, m_blocks)
    /\ \A i \in 2..height :
         m_blocks[i - 1].coins + TAIL_EMISSION_REWARD >= MONEY_SUPPLY
             => m_blocks[i].minted <= TAIL_EMISSION_REWARD + m_blocks[i].fee
===============================================================================
