--------------------------- MODULE BlockchainIndices ---------------------------
(***************************************************************************)
(* What Blockchain keeps beside the chain and changes with every pushed    *)
(* and popped block (lib/CryptoNoteCore/BlockchainIndices.cpp, and the     *)
(* detector of UpgradeDetector.tla): the indices by payment id, by         *)
(* timestamp, the number of transactions up to a height, and the orphans.  *)
(* A file keeps them; it counts when its tail is the tail of the chain.    *)
(*                                                                         *)
(* The chain itself is here as in Blockchain.tla, with whole operations: a *)
(* block is pushed, the chain switches, or a switch fails and is undone.   *)
(***************************************************************************)
EXTENDS UpgradeDetector, SequencesExt, Bags

CONSTANTS
    Genesis, Blocks,      \* Blocks without Genesis
    Parent, Height, Timestamp, Major, Minor,
    Payments,             \* block -> sequence of <<payment id, transaction>>
    TxCount,              \* block -> transactions without the miner's
    MaxRestarts

VARIABLES
    chain, alternatives,
    m_paymentIdIndex, m_timestampIndex, m_generatedTransactionsIndex, m_orphanBlocksIndex,
    m_votingCompleteHeight,
    asserted,             \* an assertion of blockPushed failed
    indicesFile, restarts

indices == <<m_paymentIdIndex, m_timestampIndex, m_generatedTransactionsIndex>>
chainVars == <<chain, alternatives, indices, m_orphanBlocksIndex, m_votingCompleteHeight,
               asserted, indicesFile, restarts>>

Versions(c) == [i \in DOMAIN c |-> [major |-> Major[c[i]], minor |-> Minor[c[i]]]]
One(x) == SetToBag({x})

-----------------------------------------------------------------------------
(***************************************************************************)
(* The indices: add and remove.                                            *)
(***************************************************************************)
NoIndices == [chain |-> <<>>, payments |-> EmptyBag, times |-> EmptyBag,
              generated |-> <<>>, lastGenerated |-> 0, vote |-> UNDEF_HEIGHT, asserts |-> TRUE]

PaymentIdIndexAdd(bag, b) == FoldLeft(LAMBDA acc, p : acc (+) One(p), bag, Payments[b])
PaymentIdIndexRemove(bag, b) == FoldLeft(LAMBDA acc, p : acc (-) One(p), bag, Payments[b])

\* TimestampBlocksIndex
TimestampAdd(bag, b) == bag (+) One(<<Timestamp[b], b>>)
TimestampRemove(bag, b) == bag (-) One(<<Timestamp[b], b>>)

\* GeneratedTransactionsIndex: a block counts only directly behind the others.
GeneratedAdd(s, b, height) ==
    LET n == s.lastGenerated + TxCount[b] + 1
    IN  IF Len(s.generated) # height THEN s
        ELSE [s EXCEPT !.generated = Append(@, n), !.lastGenerated = n]

\* Mutant: the count goes on from the block that was removed.
GeneratedRemoveKeepsCount(s, height) ==
    IF height # Len(s.generated) - 1 THEN s ELSE [s EXCEPT !.generated = Front(@)]

GeneratedRemove(s, height) ==
    IF height # Len(s.generated) - 1 THEN s
    ELSE LET left == Front(s.generated)
         IN  [s EXCEPT !.generated = left, !.lastGenerated = IF height = 0 THEN 0 ELSE Last(left)]

\* pushBlock and popBlock, as far as they concern what is kept here.
pushBlock(s, b) ==
    LET t == GeneratedAdd(s, b, Len(s.chain))
        c == Append(s.chain, b)
    IN  [t EXCEPT !.chain = c,
                  !.payments = PaymentIdIndexAdd(@, b),
                  !.times = TimestampAdd(@, b),
                  !.vote = blockPushed(@, Versions(c)),
                  !.asserts = @ /\ PushedAsserts(s.vote, Versions(c))]

popBlock(s) ==
    LET b == Last(s.chain)
        t == GeneratedRemove(s, Len(s.chain) - 1)
    IN  [t EXCEPT !.chain = Front(@),
                  !.payments = PaymentIdIndexRemove(@, b),
                  !.times = TimestampRemove(@, b),
                  !.vote = blockPopped(@, Versions(Front(s.chain)))]

pushAll(s, list) == FoldLeft(pushBlock, s, list)
popTo(s, length) == FoldLeft(LAMBDA acc, i : popBlock(acc), s, SubSeq(s.chain, length + 1, Len(s.chain)))

-----------------------------------------------------------------------------
Current == [chain |-> chain, payments |-> m_paymentIdIndex, times |-> m_timestampIndex,
            generated |-> m_generatedTransactionsIndex.index,
            lastGenerated |-> m_generatedTransactionsIndex.last,
            vote |-> m_votingCompleteHeight, asserts |-> TRUE]

Kept(s) ==
    /\ asserted' = (asserted \/ ~s.asserts)
    /\ chain' = s.chain /\ m_paymentIdIndex' = s.payments /\ m_timestampIndex' = s.times
    /\ m_generatedTransactionsIndex' = [index |-> s.generated, last |-> s.lastGenerated]
    /\ m_votingCompleteHeight' = s.vote

\* The first block is pushed when there is no chain.
ChainInit ==
    LET s == pushBlock(NoIndices, Genesis) IN
    /\ chain = s.chain /\ m_paymentIdIndex = s.payments /\ m_timestampIndex = s.times
    /\ m_generatedTransactionsIndex = [index |-> s.generated, last |-> s.lastGenerated]
    /\ m_votingCompleteHeight = s.vote
    /\ alternatives = {} /\ m_orphanBlocksIndex = EmptyBag
    /\ indicesFile = [tail |-> "none"] /\ restarts = 0 /\ asserted = FALSE

\* A block has the version of its height.
VersionFits(s, b) == Major[b] = getBlockMajorVersionForHeight(s.vote, Len(s.chain))

addNewBlock(b) ==
    /\ Parent[b] = Last(chain) /\ b \notin alternatives /\ VersionFits(Current, b)
    /\ Kept(pushBlock(Current, b))
    /\ UNCHANGED <<alternatives, m_orphanBlocksIndex, indicesFile, restarts>>

\* The alternative chain that ends in a block, from where it leaves the main one.
AltPaths(alts, b) ==
    {p \in SeqOf(alts, Cardinality(alts)) :
        /\ p # <<>> /\ Last(p) = b /\ Parent[p[1]] \in Range(chain)
        /\ \A i \in 2..Len(p) : Parent[p[i]] = p[i - 1]}

OrphansRemove(bag, S) == FoldSet(LAMBDA b, acc : acc (-) One(<<Height[b], b>>), bag, S)
OrphansAdd(bag, S) == FoldSet(LAMBDA b, acc : acc (+) One(<<Height[b], b>>), bag, S)

\* checkBlockVersion of an alternative block asks the detector of the main chain.
Allowed(b, vote) == Major[b] = getBlockMajorVersionForHeight(vote, Height[b])

\* The blocks that left the main chain become alternatives, up to the first that
\* is refused.
ReAdded(old, vote) ==
    {old[i] : i \in {n \in DOMAIN old : \A j \in 1..n : Allowed(old[j], vote)}}

\* Mutant: the blocks of the new chain stay in the index of orphans.
OrphansAfterSwitch(bag, path, back) == OrphansAdd(bag, back)

OrphansSwitched(bag, path, back) == OrphansAdd(OrphansRemove(bag, path), back)

\* switch_to_alternative_blockchain.  The path is connected block by block; if
\* one is refused, the old chain comes back and the rest of the path is dropped.
switch_to_alternative_blockchain(path, alts, bag) ==
    LET length == CHOOSE n \in DOMAIN chain : chain[n] = Parent[path[1]]
        old == SubSeq(chain, length + 1, Len(chain))
        base == popTo(Current, length)
        after(n) == pushAll(base, SubSeq(path, 1, n))
        refused == {i \in DOMAIN path : ~VersionFits(after(i - 1), path[i])}
        back == ReAdded(old, after(Len(path)).vote)
        dropped == {path[i] : i \in Min(refused)..Len(path)}
    IN  IF refused = {}
        THEN /\ Kept(after(Len(path)))
             /\ alternatives' = (alts \ Range(path)) \cup back
             /\ m_orphanBlocksIndex' = OrphansSwitched(bag, Range(path), back)
        ELSE /\ Kept(pushAll(popTo(after(Min(refused) - 1), length), old))
             /\ alternatives' = alts \ dropped
             /\ m_orphanBlocksIndex' = OrphansRemove(bag, dropped)

\* A block beside the main chain is kept; when its chain is the longer one, the
\* main chain switches.
handle_alternative_block(b) ==
    /\ b \notin Range(chain) \cup alternatives
    /\ Parent[b] \in alternatives \cup Range(Front(chain))
    /\ Allowed(b, m_votingCompleteHeight)
    /\ LET alts == alternatives \cup {b}
           bag == OrphansAdd(m_orphanBlocksIndex, {b})
           paths == AltPaths(alts, b)
       IN  /\ paths # {}
           /\ IF Height[b] >= Len(chain)
              THEN switch_to_alternative_blockchain(CHOOSE p \in paths : TRUE, alts, bag)
              ELSE /\ alternatives' = alts /\ m_orphanBlocksIndex' = bag
                   /\ UNCHANGED <<chain, indices, m_votingCompleteHeight, asserted>>
    /\ UNCHANGED <<indicesFile, restarts>>

-----------------------------------------------------------------------------
\* deinit writes the file, a crash does not.  The next process takes the file
\* if its tail is right, else it rebuilds; then it may roll the chain back to a
\* checkpoint, and the detector looks at what is left.  Alternatives are lost.
File == [tail |-> Last(chain), state |-> [Current EXCEPT !.vote = UNDEF_HEIGHT]]

\* Mutant: the file is taken whatever its tail.
loadBlockchainIndicesAlways(file) ==
    IF file.tail # "none" THEN [file.state EXCEPT !.chain = chain]
    ELSE [pushAll(NoIndices, chain) EXCEPT !.vote = UNDEF_HEIGHT]

loadBlockchainIndices(file) ==
    IF file.tail = Last(chain) THEN file.state
    ELSE [pushAll(NoIndices, chain) EXCEPT !.vote = UNDEF_HEIGHT]

restart(stored, length) ==
    LET file == IF stored THEN File ELSE indicesFile
        s == popTo(loadBlockchainIndices(file), length)
    IN  /\ restarts < MaxRestarts /\ restarts' = restarts + 1
        /\ length \in DOMAIN chain
        /\ indicesFile' = file
        /\ Kept([s EXCEPT !.vote = init(Versions(s.chain)).vote, !.asserts = TRUE])
        /\ alternatives' = {} /\ m_orphanBlocksIndex' = EmptyBag

ChainNext ==
    \/ \E b \in Blocks : addNewBlock(b) \/ handle_alternative_block(b)
    \/ \E stored \in BOOLEAN, length \in 1..Cardinality(Blocks) + 1 : restart(stored, length)

-----------------------------------------------------------------------------
===============================================================================
