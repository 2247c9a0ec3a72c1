-------------------------- MODULE BlockchainLemmas --------------------------
(***************************************************************************)
(* Proofs about Blockchain: for every block tree, every set of             *)
(* transactions and every checkpoint table.                                *)
(***************************************************************************)
EXTENDS Blockchain, SequenceTheorems, WellFoundedInduction, TLAPS

(***************************************************************************)
(* A non-empty set of natural numbers up to n has a greatest element.      *)
(***************************************************************************)
LEMMA GreatestExists ==
  ASSUME NEW n \in Nat, NEW S \in SUBSET (0 .. n), S # {}
  PROVE  \E x \in S : \A y \in S : y <= x
<1> DEFINE R == OpToRel(<, Nat)
           T == {n - x : x \in S}
<1>1. IsWellFoundedOn(R, Nat)
  BY NatLessThanWellFounded, Zenon
<1>2. T \subseteq Nat
  BY SMT
<1>3. T # {}
  <2>1. PICK s \in S : TRUE
    BY Zenon
  <2>2. n - s \in T
    OBVIOUS
  <2>3. QED
    BY <2>2
<1>4. PICK x \in T : \A y \in T : ~ (<<y, x>> \in R)
  BY <1>1, <1>2, <1>3, WFMin, Zenon
<1>5. \A y \in T : x <= y
  <2>1. \A y \in Nat : y < x => <<y, x>> \in R
    BY <1>2 DEF OpToRel
  <2> HIDE DEF R, T
  <2>2. \A y \in T : ~ (y < x)
    BY <1>2, <1>4, <2>1, Zenon
  <2>3. QED
    BY <1>2, <2>2
<1>6. PICK z \in S : x = n - z
  OBVIOUS
<1>7. \A y \in S : n - z <= n - y
  BY <1>5, <1>6
<1>8. QED
  BY <1>7

-----------------------------------------------------------------------------
(***************************************************************************)
(* The block tree.                                                         *)
(***************************************************************************)
LEMMA AncestryType ==
  ASSUME NEW b \in Blocks
  PROVE  /\ Ancestry[b] \in Seq(Blocks)
         /\ Len(Ancestry[b]) \in Nat \ {0}
         /\ DOMAIN Ancestry[b] = 1 .. Len(Ancestry[b])
         /\ Ancestry[b][1] = Genesis
         /\ Ancestry[b][Len(Ancestry[b])] = b
BY BlockchainAssumption, EmptySeq, LenProperties DEF Last

(***************************************************************************)
(* Each prefix of a chain is the chain of its last block.                  *)
(***************************************************************************)
LEMMA AncestryPrefix ==
  ASSUME NEW b \in Blocks, NEW i \in 1 .. Len(Ancestry[b])
  PROVE  /\ Ancestry[b][i] \in Blocks
         /\ Ancestry[Ancestry[b][i]] = SubSeq(Ancestry[b], 1, i)
         /\ Len(Ancestry[Ancestry[b][i]]) = i
<1>1. Ancestry[b] \in Seq(Blocks) /\ Len(Ancestry[b]) \in Nat
  BY AncestryType
<1>2. \A j \in 1 .. i : Ancestry[b][j] \in Blocks
  BY <1>1, ElementOfSeq
<1>3. Ancestry[Ancestry[b][i]] = SubSeq(Ancestry[b], 1, i)
  BY BlockchainAssumption
<1>4. Len(SubSeq(Ancestry[b], 1, i)) = i
  BY <1>1, <1>2, SubSeqProperties
<1>5. QED
  BY <1>1, <1>2, <1>3, <1>4, SMTT(30)

(***************************************************************************)
(* Only the chain of the genesis block has length one.                     *)
(***************************************************************************)
LEMMA GenesisIsAlone ==
  ASSUME NEW b \in Blocks
  PROVE  b = Genesis <=> Len(Ancestry[b]) = 1
<1>1. Genesis \in Blocks
  BY BlockchainAssumption
<1>2. Len(Ancestry[Genesis]) = 1
  <2>1. 1 \in 1 .. Len(Ancestry[Genesis]) /\ Ancestry[Genesis][1] = Genesis
    BY <1>1, AncestryType
  <2>2. Len(Ancestry[Ancestry[Genesis][1]]) = 1
    BY <1>1, <2>1, AncestryPrefix, Zenon
  <2>3. QED
    BY <2>1, <2>2
<1>3. QED
  BY <1>2, AncestryType

(***************************************************************************)
(* A block put on the end of the chain of its parent gives its own chain.  *)
(***************************************************************************)
LEMMA AncestryExtend ==
  ASSUME NEW b \in Blocks, b # Genesis
  PROVE  /\ previousBlockHash(b) \in Blocks
         /\ Ancestry[b] = Append(Ancestry[previousBlockHash(b)], b)
<1> DEFINE c == Ancestry[b]
           n == Len(c)
<1>1. c \in Seq(Blocks) /\ n \in Nat \ {0} /\ c[n] = b
  BY AncestryType
<1>2. n # 1
  BY GenesisIsAlone
<1> HIDE DEF c, n
<1>3. n - 1 \in 1 .. n
  BY <1>1, <1>2
<1>4. /\ previousBlockHash(b) \in Blocks
      /\ Ancestry[previousBlockHash(b)] = SubSeq(c, 1, n - 1)
  BY <1>3, AncestryPrefix DEF previousBlockHash, c, n
<1>5. SubSeq(c, 1, n) = SubSeq(c, 1, n - 1) \o <<c[n]>>
  <2>1. 1 \in 1 .. Len(c) /\ n \in 1 .. Len(c)
    BY <1>1 DEF n
  <2>2. QED
    BY <1>1, <2>1, SubSeqRecursiveSecond, SMTT(30)
<1>6. c = SubSeq(c, 1, n)
  BY <1>1, SubSeqFull DEF n
<1>7. Ancestry[previousBlockHash(b)] \in Seq(Blocks)
  BY <1>4, AncestryType, Zenon
<1>8. QED
  BY <1>1, <1>4, <1>5, <1>6, <1>7, AppendIsConcat DEF c

(***************************************************************************)
(* The alternative subchain of handle_alternative_block is not empty and   *)
(* leaves at least the genesis block in place.                             *)
(***************************************************************************)
LEMMA AltChainType ==
  ASSUME NEW alts \in SUBSET (Blocks \ {Genesis}), NEW b \in alts
  PROVE  /\ AltChain(alts, b) \in Seq(Blocks)
         /\ AltChain(alts, b) # <<>>
         /\ Height(Head(AltChain(alts, b))) \in Nat \ {0}
<1> DEFINE c == Ancestry[b]
           n == Len(c)
           S == {0} \cup {i \in DOMAIN c : c[i] \notin alts}
           root == Max(S)
<1>1. /\ b \in Blocks /\ c \in Seq(Blocks) /\ n \in Nat \ {0}
      /\ DOMAIN c = 1 .. n /\ c[1] = Genesis /\ c[n] = b
  BY AncestryType
<1>2. S \in SUBSET (0 .. n) /\ S # {} /\ 1 \in S /\ n \notin S
  BY <1>1
<1>3. AltChain(alts, b) = SubSeq(c, root + 1, n)
  BY DEF AltChain
<1> HIDE DEF n, S
<1>4. root \in S /\ \A y \in S : root >= y
  <2>1. \E x \in S : \A y \in S : x >= y
    BY <1>1, <1>2, GreatestExists, Zenon
  <2>2. QED
    BY <2>1 DEF Max
<1> HIDE DEF c, root
<1>5. root \in 1 .. (n - 1)
  BY <1>1, <1>2, <1>4
<1>6. \A i \in (root + 1) .. n : c[i] \in Blocks
  BY <1>1, <1>5, ElementOfSeq DEF n
<1>7. /\ SubSeq(c, root + 1, n) \in Seq(Blocks)
      /\ Len(SubSeq(c, root + 1, n)) = n - root
  BY <1>1, <1>5, <1>6, SubSeqProperties, SMTT(30)
<1>8. SubSeq(c, root + 1, n) # <<>>
  BY <1>1, <1>5, <1>7, SMTT(30)
<1>9. Head(SubSeq(c, root + 1, n)) = c[root + 1]
  <2>1. root + 1 \in 1 .. Len(c) /\ n \in (root + 1) .. Len(c)
    BY <1>1, <1>5 DEF n
  <2>2. QED
    BY <1>1, <2>1, HeadTailOfSubSeq, SMTT(30)
<1>10. Height(c[root + 1]) = root
  <2>1. root + 1 \in 1 .. Len(Ancestry[b])
    BY <1>1, <1>5 DEF n, c
  <2>2. Len(Ancestry[c[root + 1]]) = root + 1
    BY <1>1, <2>1, AncestryPrefix DEF c
  <2>3. QED
    BY <1>5, <2>2 DEF Height
<1>11. QED
  BY <1>3, <1>5, <1>7, <1>8, <1>9, <1>10

-----------------------------------------------------------------------------
(***************************************************************************)
(* Transactions and key images of a block.                                 *)
(***************************************************************************)
LEMMA TxsOfType ==
  ASSUME NEW b \in Blocks
  PROVE  /\ BlockTxs[b] \in Seq(Txs)
         /\ DOMAIN BlockTxs[b] = 1 .. Len(BlockTxs[b])
         /\ Len(BlockTxs[b]) \in Nat
         /\ TxsOf(b) \subseteq Txs
         /\ \A t \in TxsOf(b) : \E i \in DOMAIN BlockTxs[b] : t = BlockTxs[b][i]
         /\ \A i \in DOMAIN BlockTxs[b] : BlockTxs[b][i] \in TxsOf(b)
<1>1. BlockTxs[b] \in Seq(Txs)
  BY BlockchainAssumption
<1>2. QED
  BY <1>1, LenProperties, ElementOfSeq, SMTT(30) DEF TxsOf, Range

LEMMA KeysOfType ==
  ASSUME NEW b \in Blocks
  PROVE  /\ KeysOf(b) \subseteq UNION {KeyImagesOf[t] : t \in Txs}
         /\ \A t \in TxsOf(b) : KeyImagesOf[t] \subseteq KeysOf(b)
         /\ \A k \in KeysOf(b) : \E t \in TxsOf(b) : k \in KeyImagesOf[t]
BY TxsOfType DEF KeysOf

-----------------------------------------------------------------------------
(***************************************************************************)
(* The part of the invariant that pushBlock and popBlock maintain.         *)
(***************************************************************************)
Covers ==
  \A b \in Range(m_blocks) :
    /\ {b} \cup TxsOf(b) \subseteq DOMAIN m_transactionMap
    /\ KeysOf(b) \subseteq m_spent_keys

ChainOK ==
  /\ m_blocks \in Seq(Blocks) /\ m_blocks # <<>>
  /\ DOMAIN m_transactionMap \subseteq Blocks \cup Txs
  /\ m_spent_keys \subseteq UNION {KeyImagesOf[t] : t \in Txs}
  /\ pool \subseteq Txs
  /\ Linked
  /\ NoDoubleSpend
  /\ Covers

(***************************************************************************)
(* The indexes after pushTransaction cover what they covered, and b.       *)
(***************************************************************************)
LEMMA PushTransactionsGrows ==
  ASSUME NEW b \in Blocks, PushTransactions(b),
         DOMAIN m_transactionMap \subseteq Blocks \cup Txs,
         m_spent_keys \subseteq UNION {KeyImagesOf[t] : t \in Txs}
  PROVE  /\ DOMAIN m_transactionMap' = DOMAIN m_transactionMap \cup {b} \cup TxsOf(b)
         /\ DOMAIN m_transactionMap' \subseteq Blocks \cup Txs
         /\ m_spent_keys' = m_spent_keys \cup KeysOf(b)
         /\ m_spent_keys' \subseteq UNION {KeyImagesOf[t] : t \in Txs}
<1>1. DOMAIN m_transactionMap' = DOMAIN m_transactionMap \cup {b} \cup TxsOf(b)
  BY DEF PushTransactions, IndexOf, Insert
<1>2. DOMAIN m_transactionMap' \subseteq Blocks \cup Txs
  BY <1>1, TxsOfType, SMTT(30)
<1>3. m_spent_keys' = m_spent_keys \cup KeysOf(b)
  BY DEF PushTransactions
<1>4. m_spent_keys' \subseteq UNION {KeyImagesOf[t] : t \in Txs}
  BY <1>3, KeysOfType, SMTT(30)
<1>5. QED
  BY <1>1, <1>2, <1>3, <1>4, SMTT(30)

(***************************************************************************)
(* pushBlock puts a block on the chain only with its key images unspent    *)
(* and distinct.                                                           *)
(***************************************************************************)
LEMMA PushAcceptedKeepsChainOK ==
  ASSUME ChainOK, NEW b \in Blocks, PushAccepted(b)
  PROVE  /\ ChainOK'
         /\ Len(m_blocks') = Len(m_blocks) + 1
<1> DEFINE n == Len(m_blocks)
<1>1. /\ m_blocks \in Seq(Blocks) /\ n \in Nat \ {0} /\ DOMAIN m_blocks = 1 .. n
      /\ m_blocks = Ancestry[m_blocks[n]] /\ m_blocks[n] \in Blocks
  BY EmptySeq, LenProperties, ElementOfSeq, SMTT(30) DEF ChainOK, Linked, getTailId, Last
<1>2. m_blocks' = Append(m_blocks, b) /\ PushTransactions(b) /\ pool' = pool \ TxsOf(b)
  BY DEF PushAccepted
<1>3. /\ m_blocks' \in Seq(Blocks) /\ m_blocks' # <<>>
      /\ Len(m_blocks') = n + 1 /\ DOMAIN m_blocks' = 1 .. (n + 1)
      /\ \A i \in 1 .. n : m_blocks'[i] = m_blocks[i]
      /\ m_blocks'[n + 1] = b
  BY <1>1, <1>2, AppendProperties, LenProperties, SMTT(30)
<1>4. /\ DOMAIN m_transactionMap' = DOMAIN m_transactionMap \cup {b} \cup TxsOf(b)
      /\ DOMAIN m_transactionMap' \subseteq Blocks \cup Txs
      /\ m_spent_keys' = m_spent_keys \cup KeysOf(b)
      /\ m_spent_keys' \subseteq UNION {KeyImagesOf[t] : t \in Txs}
  BY <1>2, PushTransactionsGrows, Zenon DEF ChainOK
<1>5. Linked'
  <2>1. b # Genesis
    <3>1. m_blocks[1] = Genesis
      BY <1>1, AncestryType
    <3>2. b \notin Range(m_blocks)
      BY DEF PushAccepted, HeaderAccepted
    <3>3. QED
      BY <1>1, <3>1, <3>2 DEF Range
  <2>2. previousBlockHash(b) = m_blocks[n]
    BY DEF PushAccepted, HeaderAccepted, getTailId, Last
  <2>3. Ancestry[b] = Append(m_blocks, b)
    BY <1>1, <2>1, <2>2, AncestryExtend, SMTT(30)
  <2>4. QED
    BY <1>2, <1>3, <2>3 DEF Linked, getTailId, Last
<1>6. NoDoubleSpend'
  <2> SUFFICES ASSUME NEW i \in 1 .. (n + 1), NEW j \in 1 .. (n + 1),
                      NEW t \in TxsOf(m_blocks'[i]), NEW u \in TxsOf(m_blocks'[j]),
                      KeyImagesOf[t] \cap KeyImagesOf[u] # {}
               PROVE  i = j /\ t = u
    BY <1>3 DEF NoDoubleSpend
  <2>1. InputsAccepted(b)
    BY DEF PushAccepted
  <2>2. \A x \in TxsOf(b) : KeyImagesOf[x] \cap m_spent_keys = {}
    BY <2>1, TxsOfType DEF InputsAccepted, checkTransactionInputs
  <2>3. \A m \in 1 .. n : \A x \in TxsOf(m_blocks[m]) : KeyImagesOf[x] \subseteq m_spent_keys
    <3> SUFFICES ASSUME NEW m \in 1 .. n, NEW x \in TxsOf(m_blocks[m])
                 PROVE  KeyImagesOf[x] \subseteq m_spent_keys
      OBVIOUS
    <3>1. m_blocks[m] \in Range(m_blocks) /\ m_blocks[m] \in Blocks
      BY <1>1, ElementOfSeq, SMTT(30) DEF Range
    <3>2. KeysOf(m_blocks[m]) \subseteq m_spent_keys
      BY <3>1 DEF ChainOK, Covers
    <3>3. QED
      BY <3>1, <3>2, KeysOfType, SMTT(30)
  <2>4. CASE i \in 1 .. n /\ j \in 1 .. n
    BY <1>1, <1>3, <2>4, SMTT(30) DEF ChainOK, NoDoubleSpend
  <2>5. CASE i \in 1 .. n /\ j = n + 1
    BY <1>3, <2>2, <2>3, <2>5, SMTT(30)
  <2>6. CASE i = n + 1 /\ j \in 1 .. n
    BY <1>3, <2>2, <2>3, <2>6, SMTT(30)
  <2>7. CASE i = n + 1 /\ j = n + 1
    <3>1. PICK x, y \in DOMAIN BlockTxs[b] : t = BlockTxs[b][x] /\ u = BlockTxs[b][y]
      BY <1>3, <2>7, TxsOfType, SMTT(30)
    <3>2. x \in Nat \ {0} /\ y \in Nat \ {0}
      BY TxsOfType
    <3>3. \A v, w \in DOMAIN BlockTxs[b] :
            v < w => KeyImagesOf[BlockTxs[b][w]] \cap KeyImagesOf[BlockTxs[b][v]] = {}
      <4> SUFFICES ASSUME NEW v \in DOMAIN BlockTxs[b], NEW w \in DOMAIN BlockTxs[b], v < w
                   PROVE  KeyImagesOf[BlockTxs[b][w]] \cap KeyImagesOf[BlockTxs[b][v]] = {}
        OBVIOUS
      <4>1. v \in Nat \ {0} /\ w \in Nat \ {0}
        BY TxsOfType, SMTT(30)
      <4>2. v \in 1 .. (w - 1)
        BY <4>1
      <4>3. QED
        BY <2>1, <4>2, SMTT(30) DEF InputsAccepted
    <3>4. ~ (x < y) /\ ~ (y < x)
      BY <3>1, <3>3, Zenon
    <3>5. QED
      BY <2>7, <3>1, <3>2, <3>4, SMTT(30)
  <2>8. QED
    BY <1>1, <2>4, <2>5, <2>6, <2>7, SMTT(30)
<1>7. Covers'
  <2> SUFFICES ASSUME NEW c \in Range(m_blocks')
               PROVE  /\ {c} \cup TxsOf(c) \subseteq DOMAIN m_transactionMap'
                      /\ KeysOf(c) \subseteq m_spent_keys'
    BY DEF Covers
  <2>1. c \in Range(m_blocks) \/ c = b
    BY <1>1, <1>3 DEF Range
  <2>2. QED
    BY <1>4, <2>1 DEF ChainOK, Covers
<1>8. pool' \subseteq Txs
  BY <1>2 DEF ChainOK
<1>9. QED
  BY <1>3, <1>4, <1>5, <1>6, <1>7, <1>8, SMTT(30) DEF ChainOK

(***************************************************************************)
(* A block that is refused leaves the chain alone, and the indexes still   *)
(* cover the chain, also where they keep or lose more than they should.    *)
(***************************************************************************)
LEMMA PushRejectedKeepsChainOK ==
  ASSUME ChainOK, NEW b \in Blocks, PushRejected(b)
  PROVE  ChainOK' /\ m_blocks' = m_blocks
<1>1. m_blocks' = m_blocks
  BY DEF PushRejected, PushNotLoaded, PushBadHeader, PushUndone, PushOversize
<1>2. pool' \subseteq Txs
  <2>1. {BlockTxs[b][i] : i \in Loadable(b)} \subseteq Txs
    BY TxsOfType DEF Loadable
  <2>2. TxsOf(b) \subseteq Txs
    BY TxsOfType
  <2>3. QED
    BY <2>1, <2>2, SMTT(30) DEF ChainOK, PushRejected, PushNotLoaded, PushBadHeader, PushUndone,
                      PushOversize, saveTransactions
<1>3. /\ DOMAIN m_transactionMap' \subseteq Blocks \cup Txs
      /\ m_spent_keys' \subseteq UNION {KeyImagesOf[t] : t \in Txs}
      /\ DOMAIN m_transactionMap \ {b} \subseteq DOMAIN m_transactionMap'
      /\ b \in Range(m_blocks) => DOMAIN m_transactionMap \subseteq DOMAIN m_transactionMap'
      /\ m_spent_keys \subseteq m_spent_keys'
  <2>1. CASE PushNotLoaded(b) \/ PushBadHeader(b)
    BY <2>1 DEF ChainOK, PushNotLoaded, PushBadHeader, index
  <2>2. CASE PushUndone(b)
    <3>1. b \notin Range(m_blocks)
      BY <2>2 DEF PushUndone, HeaderAccepted
    <3>2. DOMAIN m_transactionMap' = DOMAIN m_transactionMap \ {b}
      BY <2>2 DEF PushUndone, UndoTransactions, Restrict
    <3>3. m_spent_keys' = m_spent_keys
      BY <2>2 DEF PushUndone, UndoTransactions
    <3>4. QED
      BY <3>1, <3>2, <3>3, SMTT(30) DEF ChainOK
  <2>3. CASE PushOversize(b)
    <3>1. PushTransactions(b)
      BY <2>3 DEF PushOversize
    <3>2. QED
      BY <3>1, PushTransactionsGrows, Zenon DEF ChainOK
  <2>4. QED
    BY <2>1, <2>2, <2>3, SMTT(30) DEF PushRejected
<1>4. Covers'
  <2> SUFFICES ASSUME NEW c \in Range(m_blocks)
               PROVE  /\ {c} \cup TxsOf(c) \subseteq DOMAIN m_transactionMap'
                      /\ KeysOf(c) \subseteq m_spent_keys'
    BY <1>1 DEF Covers
  <2>1. c \in Blocks
    BY ElementOfSeq, LenProperties, SMTT(30) DEF ChainOK, Range
  <2>2. {c} \cup TxsOf(c) \subseteq DOMAIN m_transactionMap /\ KeysOf(c) \subseteq m_spent_keys
    BY DEF ChainOK, Covers
  <2>3. b \notin TxsOf(c)
    BY <2>1, TxsOfType, BlockchainAssumption, SMTT(30)
  <2>4. QED
    BY <1>3, <2>2, <2>3
<1>5. Linked' /\ NoDoubleSpend'
  BY <1>1 DEF ChainOK, Linked, getTailId, NoDoubleSpend
<1>6. QED
  BY <1>1, <1>2, <1>3, <1>4, <1>5, SMTT(30) DEF ChainOK

(***************************************************************************)
(* popBlock removes what the tail contributed and nothing else: no block   *)
(* below it has a transaction or a key image in common with it.            *)
(***************************************************************************)
LEMMA PopKeepsChainOK ==
  ASSUME ChainOK, Len(m_blocks) > 1, popBlock
  PROVE  /\ ChainOK'
         /\ Len(m_blocks') = Len(m_blocks) - 1
         /\ getTailId \in Blocks \ {Genesis}
<1> DEFINE n == Len(m_blocks)
           b == m_blocks[n]
<1>1. /\ m_blocks \in Seq(Blocks) /\ n \in Nat /\ n > 1 /\ DOMAIN m_blocks = 1 .. n
      /\ m_blocks = Ancestry[b] /\ b \in Blocks /\ getTailId = b
      /\ \A i \in 1 .. n : m_blocks[i] \in Blocks
  BY LenProperties, ElementOfSeq, SMTT(30) DEF ChainOK, Linked, getTailId, Last
<1>2. m_blocks' = SubSeq(m_blocks, 1, n - 1)
  BY DEF popBlock, Front
<1>3. /\ m_blocks' \in Seq(Blocks) /\ m_blocks' # <<>>
      /\ Len(m_blocks') = n - 1 /\ DOMAIN m_blocks' = 1 .. (n - 1)
      /\ \A i \in 1 .. (n - 1) : m_blocks'[i] = m_blocks[i]
  <2>1. \A i \in 1 .. (n - 1) : m_blocks[i] \in Blocks
    BY <1>1
  <2>2. /\ m_blocks' \in Seq(Blocks) /\ Len(m_blocks') = n - 1
        /\ \A i \in 1 .. (n - 1) : m_blocks'[i] = m_blocks[i]
    BY <1>1, <1>2, <2>1, SubSeqProperties, SMTT(30)
  <2>3. QED
    BY <1>1, <2>2, LenProperties, EmptySeq, SMTT(30)
<1>4. Linked'
  <2>1. n - 1 \in 1 .. Len(Ancestry[b])
    BY <1>1
  <2>2. Ancestry[m_blocks[n - 1]] = SubSeq(m_blocks, 1, n - 1)
    BY <1>1, <2>1, AncestryPrefix, Zenon
  <2>3. m_blocks'[n - 1] = m_blocks[n - 1]
    BY <1>1, <1>3
  <2>4. QED
    BY <1>2, <1>3, <2>2, <2>3, SMTT(30) DEF Linked, getTailId, Last
<1>5. NoDoubleSpend'
  <2> SUFFICES ASSUME NEW i \in 1 .. (n - 1), NEW j \in 1 .. (n - 1),
                      NEW t \in TxsOf(m_blocks'[i]), NEW u \in TxsOf(m_blocks'[j]),
                      KeyImagesOf[t] \cap KeyImagesOf[u] # {}
               PROVE  i = j /\ t = u
    BY <1>3 DEF NoDoubleSpend
  <2>1. m_blocks'[i] = m_blocks[i] /\ m_blocks'[j] = m_blocks[j] /\ i \in 1 .. n /\ j \in 1 .. n
    BY <1>1, <1>3, SMTT(30)
  <2>2. QED
    BY <1>1, <2>1 DEF ChainOK, NoDoubleSpend
<1>6. Covers'
  <2> SUFFICES ASSUME NEW i \in 1 .. (n - 1)
               PROVE  /\ {m_blocks[i]} \cup TxsOf(m_blocks[i]) \subseteq DOMAIN m_transactionMap'
                      /\ KeysOf(m_blocks[i]) \subseteq m_spent_keys'
    BY <1>3 DEF Covers, Range
  <2> DEFINE c == m_blocks[i]
  <2>1. i \in 1 .. n /\ n \in 1 .. n /\ i # n /\ c \in Blocks
    <3>1. n \in Nat /\ n > 1
      BY <1>1
    <3> HIDE DEF n
    <3>2. i \in 1 .. n /\ n \in 1 .. n /\ i # n
      BY <3>1, SMTT(30)
    <3>3. QED
      BY <1>1, <3>2
  <2>2. {c} \cup TxsOf(c) \subseteq DOMAIN m_transactionMap /\ KeysOf(c) \subseteq m_spent_keys
    BY <1>1, <2>1, Zenon DEF ChainOK, Covers, Range
  <2>3. c # b
    <3>1. Len(Ancestry[c]) = i
      BY <1>1, <2>1, AncestryPrefix, Zenon
    <3>2. QED
      BY <1>1, <2>1, <3>1, Zenon
  <2>4. \A t \in TxsOf(c), u \in TxsOf(b) : KeyImagesOf[t] \cap KeyImagesOf[u] = {}
    BY <1>1, <2>1, Zenon DEF ChainOK, NoDoubleSpend
  <2>5. KeysOf(c) \cap KeysOf(b) = {}
    BY <1>1, <2>1, <2>4, KeysOfType, Zenon
  <2>6. TxsOf(c) \cap TxsOf(b) = {}
    <3>1. \A t \in TxsOf(c) : KeyImagesOf[t] # {}
      BY <2>1, TxsOfType, BlockchainAssumption, Zenon
    <3>2. QED
      BY <2>4, <3>1, SMTT(30)
  <2>7. c \notin TxsOf(b) /\ b \notin TxsOf(c)
    BY <1>1, <2>1, TxsOfType, BlockchainAssumption, Zenon
  <2>8. DOMAIN m_transactionMap' = DOMAIN m_transactionMap \ ({b} \cup TxsOf(b))
    BY <1>1, SMTT(30) DEF popBlock, Restrict
  <2>9. m_spent_keys' = m_spent_keys \ KeysOf(b)
    BY <1>1 DEF popBlock
  <2>10. QED
    BY <2>2, <2>3, <2>5, <2>6, <2>7, <2>8, <2>9, SMTT(30)
<1>7. /\ DOMAIN m_transactionMap' \subseteq Blocks \cup Txs
      /\ m_spent_keys' \subseteq UNION {KeyImagesOf[t] : t \in Txs}
      /\ pool' \subseteq Txs
  <2>1. DOMAIN m_transactionMap' \subseteq DOMAIN m_transactionMap
    BY DEF popBlock, Restrict
  <2>2. m_spent_keys' \subseteq m_spent_keys
    BY DEF popBlock
  <2>3. pool' = pool \cup TxsOf(b)
    BY <1>1 DEF popBlock, saveTransactions
  <2>4. TxsOf(b) \subseteq Txs
    BY <1>1, TxsOfType
  <2>5. QED
    BY <2>1, <2>2, <2>3, <2>4, SMTT(30) DEF ChainOK
<1>8. b # Genesis
  <2>1. Len(Ancestry[b]) = n
    BY <1>1
  <2> HIDE DEF b, n
  <2>2. QED
    BY <1>1, <2>1, GenesisIsAlone, SMTT(30)
<1>9. ChainOK'
  BY <1>3, <1>4, <1>5, <1>6, <1>7, SMTT(30) DEF ChainOK
<1>10. QED
  BY <1>1, <1>3, <1>8, <1>9, SMTT(30)
=============================================================================
