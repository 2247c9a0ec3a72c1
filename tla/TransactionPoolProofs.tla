----------------------- MODULE TransactionPoolProofs -----------------------
(***************************************************************************)
(* The indexes of the pool are exact, for every set of transactions, every *)
(* block tree, every expiry time and every number of restarts.             *)
(***************************************************************************)
EXTENDS TransactionPool, SequenceTheorems, TLAPS

(***************************************************************************)
(* What is true of the pool in memory and of the pool in the file.         *)
(***************************************************************************)
Separate(trans) ==
  \A t, u \in DOMAIN trans :
    t # u /\ Conflict(t, u) => trans[t].keptByBlock \/ trans[u].keptByBlock

Consistent(trans, images, outputs, deleted) ==
  /\ \A t \in DOMAIN trans : "keptByBlock" \in DOMAIN trans[t]
  /\ images = ImagesOf(DOMAIN trans)
  /\ outputs = OutputsTaken(trans, DOMAIN trans)
  /\ Separate(trans)
  /\ \A t \in DOMAIN trans \cap DOMAIN deleted : trans[t].keptByBlock

PoolOK == Consistent(m_transactions, m_spent_key_images, m_spentOutputs,
                     m_recentlyDeletedTransactions)

FileOK == Consistent(file.transactions, file.images, file.outputs, file.deleted)

ChainOK ==
  /\ m_blocks \in Seq(Blocks) /\ m_blocks # <<>> /\ m_blocks[1] = Genesis
  /\ target \in Blocks \cup {NoBlock}
  /\ target # NoBlock => old \in Blocks

IInv == PoolOK /\ FileOK /\ ChainOK

-----------------------------------------------------------------------------
(***************************************************************************)
(* The index of key images follows the transactions that come and go.      *)
(***************************************************************************)
LEMMA AddImages ==
  ASSUME NEW T, NEW S
  PROVE  addTransactionInputs(ImagesOf(T), S) = ImagesOf(T \cup S)
BY DEF addTransactionInputs, ImagesOf

LEMMA RemoveImages ==
  ASSUME NEW T, NEW S
  PROVE  removeTransactionInputs(ImagesOf(T), S) = ImagesOf(T \ S)
<1> DEFINE left == [k \in DOMAIN ImagesOf(T) |->
                      ImagesOf(T)[k] \ {t \in S : k \in KeyImagesOf[t]}]
           K == {k \in DOMAIN ImagesOf(T) : left[k] # {}}
<1>1. \A k \in DOMAIN ImagesOf(T) : left[k] = {t \in T \ S : k \in KeyImagesOf[t]}
  BY DEF ImagesOf
<1>2. K = UNION {KeyImagesOf[t] : t \in T \ S}
  <2>1. DOMAIN ImagesOf(T) = UNION {KeyImagesOf[t] : t \in T}
    BY DEF ImagesOf
  <2> HIDE DEF left
  <2>2. \A k \in K : \E t \in T \ S : k \in KeyImagesOf[t]
    BY <1>1
  <2>3. \A t \in T \ S : \A k \in KeyImagesOf[t] : k \in K
    BY <1>1, <2>1
  <2> HIDE DEF K
  <2>4. QED
    BY <2>2, <2>3
<1>3. removeTransactionInputs(ImagesOf(T), S) = [k \in K |-> left[k]]
  BY DEF removeTransactionInputs, Restrict
<1>4. K \subseteq DOMAIN ImagesOf(T)
  OBVIOUS
<1> HIDE DEF left, K
<1>5. QED
  BY <1>1, <1>2, <1>3, <1>4, Zenon DEF ImagesOf

(***************************************************************************)
(* Taking S out of the set of outputs leaves those of the others: no two   *)
(* transactions that no block brought share one.                           *)
(***************************************************************************)
LEMMA RemoveOutputs ==
  ASSUME NEW trans, Separate(trans), NEW S, S \subseteq DOMAIN trans
  PROVE  OutputsTaken(trans, DOMAIN trans) \ OutputsTaken(trans, S)
           = OutputsTaken(trans, DOMAIN trans \ S)
BY DEF OutputsTaken, Separate, Conflict

LEMMA RestrictOutputs ==
  ASSUME NEW trans, NEW S
  PROVE  OutputsTaken(Restrict(trans, S), S) = OutputsTaken(trans, S)
BY Zenon DEF OutputsTaken, Restrict

(***************************************************************************)
(* Transactions leave: take_tx and removeExpiredTransactions.              *)
(***************************************************************************)
LEMMA RemovalKeepsConsistent ==
  ASSUME NEW trans, NEW images, NEW outputs, NEW deleted, NEW deleted2, NEW S,
         Consistent(trans, images, outputs, deleted),
         S \subseteq DOMAIN trans,
         DOMAIN deleted2 \subseteq DOMAIN deleted \cup S
  PROVE  Consistent(Restrict(trans, DOMAIN trans \ S),
                    removeTransactionInputs(images, S),
                    outputs \ OutputsTaken(trans, S), deleted2)
<1> DEFINE rest == Restrict(trans, DOMAIN trans \ S)
<1>1. /\ DOMAIN rest = DOMAIN trans \ S
      /\ \A t \in DOMAIN rest : rest[t] = trans[t]
  BY DEF Restrict
<1>2. removeTransactionInputs(images, S) = ImagesOf(DOMAIN rest)
  BY <1>1, RemoveImages DEF Consistent
<1>3. outputs \ OutputsTaken(trans, S) = OutputsTaken(rest, DOMAIN rest)
  BY <1>1, RemoveOutputs, RestrictOutputs DEF Consistent
<1> HIDE DEF rest
<1>4. Separate(rest)
  BY <1>1 DEF Consistent, Separate
<1>5. QED
  BY <1>1, <1>2, <1>3, <1>4, Zenon DEF Consistent, rest

(***************************************************************************)
(* Transactions S enter, those of them that were there already stay.       *)
(***************************************************************************)
LEMMA KeepByBlockKeepsPoolOK ==
  ASSUME PoolOK, NEW chain, NEW S, KeepByBlock(chain, S)
  PROVE  PoolOK'
<1>1. /\ DOMAIN m_transactions' = Pool \cup S
      /\ \A t \in Pool : m_transactions'[t] = m_transactions[t]
      /\ \A t \in S \ Pool : /\ "keptByBlock" \in DOMAIN m_transactions'[t]
                             /\ m_transactions'[t].keptByBlock
  BY DEF KeepByBlock, Details
<1>2. m_spent_key_images' = ImagesOf(DOMAIN m_transactions')
  <2>1. Pool \cup (S \ Pool) = Pool \cup S
    OBVIOUS
  <2>2. QED
    BY <1>1, <2>1, AddImages DEF KeepByBlock, PoolOK, Consistent, Pool
<1>3. m_spentOutputs' = OutputsTaken(m_transactions', DOMAIN m_transactions')
  <2>1. OutputsTaken(m_transactions', DOMAIN m_transactions')
          = OutputsTaken(m_transactions, Pool)
    BY <1>1 DEF OutputsTaken
  <2>2. QED
    BY <2>1 DEF KeepByBlock, PoolOK, Consistent, Pool
<1>4. Separate(m_transactions')
  BY <1>1 DEF Separate, PoolOK, Consistent, Pool
<1>5. QED
  BY <1>1, <1>2, <1>3, <1>4, Zenon DEF PoolOK, Consistent, KeepByBlock, Pool

LEMMA TakeAndKeepKeepsPoolOK ==
  ASSUME PoolOK, NEW S, S \subseteq Pool, TakeAndKeep(S)
  PROVE  PoolOK'
<1>1. /\ DOMAIN m_transactions' = Pool
      /\ \A t \in Pool \ S : m_transactions'[t] = m_transactions[t]
      /\ \A t \in S : /\ "keptByBlock" \in DOMAIN m_transactions'[t]
                      /\ m_transactions'[t].keptByBlock
  BY DEF TakeAndKeep, Details
<1>2. m_spent_key_images' = ImagesOf(DOMAIN m_transactions')
  <2>1. (Pool \ S) \cup S = Pool
    OBVIOUS
  <2>2. m_spent_key_images = ImagesOf(Pool)
    BY DEF PoolOK, Consistent, Pool
  <2>3. removeTransactionInputs(m_spent_key_images, S) = ImagesOf(Pool \ S)
    BY <2>2, RemoveImages
  <2>4. QED
    BY <1>1, <2>1, <2>3, AddImages DEF TakeAndKeep
<1>3. m_spentOutputs' = OutputsTaken(m_transactions', DOMAIN m_transactions')
  <2>1. OutputsTaken(m_transactions', DOMAIN m_transactions')
          = OutputsTaken(m_transactions, Pool \ S)
    BY <1>1 DEF OutputsTaken
  <2>2. QED
    BY <2>1, RemoveOutputs, Zenon DEF TakeAndKeep, PoolOK, Consistent, Pool
<1>4. Separate(m_transactions')
  BY <1>1 DEF Separate, PoolOK, Consistent, Pool
<1>5. QED
  BY <1>1, <1>2, <1>3, <1>4, Zenon DEF PoolOK, Consistent, TakeAndKeep, Pool

LEMMA TakeKeepsPoolOK ==
  ASSUME PoolOK, NEW S, S \subseteq Pool, take_tx(S)
  PROVE  PoolOK'
BY RemovalKeepsConsistent DEF PoolOK, take_tx, Pool

-----------------------------------------------------------------------------
LEMMA AddKeepsPoolOK ==
  ASSUME PoolOK, NEW t, t \notin Pool, add_tx(t)
  PROVE  PoolOK'
<1>1. /\ DOMAIN m_transactions' = Pool \cup {t}
      /\ \A u \in Pool : m_transactions'[u] = m_transactions[u]
      /\ "keptByBlock" \in DOMAIN m_transactions'[t]
      /\ m_transactions'[t].keptByBlock = FALSE
  BY DEF add_tx, Details
<1>2. m_spent_key_images' = ImagesOf(DOMAIN m_transactions')
  BY <1>1, AddImages DEF add_tx, PoolOK, Consistent, Pool
<1>3. m_spentOutputs' = OutputsTaken(m_transactions', DOMAIN m_transactions')
  <2>1. OutputsTaken(m_transactions', DOMAIN m_transactions')
          = OutputsTaken(m_transactions, Pool) \cup OutputsOf[t]
    BY <1>1 DEF OutputsTaken
  <2>2. QED
    BY <2>1, Zenon DEF add_tx, PoolOK, Consistent, Pool
<1>4. \A u \in Pool : Conflict(t, u) => m_transactions[u].keptByBlock
  <2>1. \A u \in Pool : KeyImagesOf[u] \subseteq DOMAIN m_spent_key_images
    BY DEF PoolOK, Consistent, ImagesOf, Pool
  <2>2. \A u \in Pool : ~ m_transactions[u].keptByBlock => OutputsOf[u] \subseteq m_spentOutputs
    BY DEF PoolOK, Consistent, OutputsTaken, Pool
  <2>3. ~ haveSpentInputs(t)
    BY DEF add_tx
  <2>4. QED
    BY <2>1, <2>2, <2>3 DEF haveSpentInputs, Conflict
<1>5. Separate(m_transactions')
  <2>1. \A u, v : Conflict(u, v) <=> Conflict(v, u)
    BY DEF Conflict
  <2>2. QED
    BY <1>1, <1>4, <2>1 DEF Separate, PoolOK, Consistent, Pool
<1>6. t \notin DOMAIN m_recentlyDeletedTransactions'
  BY DEF add_tx
<1>7. QED
  BY <1>1, <1>2, <1>3, <1>5, <1>6, Zenon DEF PoolOK, Consistent, add_tx, Pool

LEMMA ExpiryKeepsPoolOK ==
  ASSUME NEW trans, NEW images, NEW outputs, NEW deleted, NEW ttls,
         Consistent(trans, images, outputs, deleted),
         removeExpiredTransactions(trans, images, outputs, deleted, ttls)
  PROVE  PoolOK'
<1> DEFINE gone == Expired(trans, ttls)
<1>1. gone \subseteq DOMAIN trans
  BY DEF Expired
<1>2. DOMAIN m_recentlyDeletedTransactions' \subseteq DOMAIN deleted \cup gone
  BY DEF removeExpiredTransactions, Remembered
<1>3. /\ m_transactions' = Restrict(trans, DOMAIN trans \ gone)
      /\ m_spent_key_images' = removeTransactionInputs(images, gone)
      /\ m_spentOutputs' = outputs \ OutputsTaken(trans, gone)
  BY DEF removeExpiredTransactions
<1> HIDE DEF gone
<1>4. QED
  BY <1>1, <1>2, <1>3, RemovalKeepsConsistent DEF PoolOK

LEMMA EmptyIsConsistent == Consistent(<<>>, <<>>, {}, <<>>)
<1>1. DOMAIN <<>> = {}
  OBVIOUS
<1>2. ImagesOf({}) = <<>>
  BY DEF ImagesOf
<1>3. OutputsTaken(<<>>, {}) = {}
  BY DEF OutputsTaken
<1>4. QED
  BY <1>1, <1>2, <1>3 DEF Consistent, Separate

(***************************************************************************)
(* The check of a transaction leaves its origin alone.                     *)
(***************************************************************************)
LEMMA CheckKeepsOrigin ==
  ASSUME NEW t, NEW leftover, NEW height, "keptByBlock" \in DOMAIN m_transactions[t]
  PROVE  /\ "keptByBlock" \in DOMAIN CheckedInfo(t, leftover, height)
         /\ CheckedInfo(t, leftover, height).keptByBlock = m_transactions[t].keptByBlock
BY DEF CheckedInfo, is_transaction_ready_to_go

LEMMA SameOriginKeepsPoolOK ==
  ASSUME PoolOK, DOMAIN m_transactions' = Pool,
         \A t \in Pool : /\ "keptByBlock" \in DOMAIN m_transactions'[t]
                         /\ m_transactions'[t].keptByBlock = m_transactions[t].keptByBlock,
         UNCHANGED <<m_spent_key_images, m_spentOutputs, m_recentlyDeletedTransactions>>
  PROVE  PoolOK'
<1>1. OutputsTaken(m_transactions', Pool) = OutputsTaken(m_transactions, Pool)
  BY DEF OutputsTaken
<1>2. Separate(m_transactions')
  BY DEF Separate, PoolOK, Consistent, Pool
<1>3. QED
  BY <1>1, <1>2 DEF PoolOK, Consistent, Pool

-----------------------------------------------------------------------------
(***************************************************************************)
(* The chain.  Blocks that the pool hands transactions to are blocks.      *)
(***************************************************************************)
LEMMA AncestryType ==
  ASSUME NEW b \in Blocks
  PROVE  /\ Ancestry[b] \in Seq(Blocks) /\ Ancestry[b] # <<>>
         /\ Len(Ancestry[b]) \in Nat \ {0}
         /\ Ancestry[b][1] = Genesis
BY PoolAssumption, EmptySeq, LenProperties

LEMMA LoadedAreInPool ==
  ASSUME NEW b \in Blocks
  PROVE  LoadedTxs(b) \subseteq Pool
<1>1. DOMAIN BlockTxs[b] \subseteq Nat \ {0}
  <2>1. BlockTxs[b] \in Seq(Txs)
    BY PoolAssumption
  <2>2. QED
    BY <2>1, LenProperties
<1>2. \A j \in Nat \ {0} : j \in 1 .. j
  OBVIOUS
<1>3. QED
  BY <1>1, <1>2 DEF LoadedTxs

LEMMA ConnectKeepsPoolOK ==
  ASSUME PoolOK, NEW b, ConnectBlock(b)
  PROVE  PoolOK'
BY TakeKeepsPoolOK DEF ConnectBlock, Accepted

LEMMA RefuseKeepsPoolOK ==
  ASSUME PoolOK, NEW b \in Blocks, RefuseBlock(b)
  PROVE  PoolOK'
BY LoadedAreInPool, TakeAndKeepKeepsPoolOK DEF RefuseBlock

LEMMA ConnectKeepsChain ==
  ASSUME ChainOK, NEW b \in Blocks, ConnectBlock(b)
  PROVE  m_blocks' \in Seq(Blocks) /\ m_blocks' # <<>> /\ m_blocks'[1] = Genesis
<1>1. /\ m_blocks \in Seq(Blocks) /\ m_blocks # <<>> /\ m_blocks[1] = Genesis
      /\ m_blocks' = Append(m_blocks, b)
  BY DEF ChainOK, ConnectBlock
<1>2. QED
  BY <1>1

LEMMA LastInBlocks ==
  ASSUME ChainOK
  PROVE  Last(m_blocks) \in Blocks
BY DEF ChainOK, Last

(***************************************************************************)
(* A chain that leaves the one to target has more than the first block.    *)
(***************************************************************************)
LEMMA PopKeepsChain ==
  ASSUME ChainOK, target \in Blocks, ~ IsPrefix(m_blocks, Ancestry[target]),
         m_blocks' = Front(m_blocks)
  PROVE  m_blocks' \in Seq(Blocks) /\ m_blocks' # <<>> /\ m_blocks'[1] = Genesis
<1> DEFINE c == Ancestry[target]
           n == Len(m_blocks)
<1>1. /\ c \in Seq(Blocks) /\ c # <<>> /\ c[1] = Genesis /\ Len(c) \in Nat \ {0}
      /\ m_blocks \in Seq(Blocks) /\ m_blocks[1] = Genesis /\ n \in Nat \ {0}
  BY AncestryType, EmptySeq, LenProperties DEF ChainOK
<1> HIDE DEF c
<1>2. n # 1
  <2>1. SUFFICES ASSUME n = 1 PROVE IsPrefix(m_blocks, c)
    BY DEF c
  <2>2. \A s \in Seq(Blocks) : Len(s) \in Nat \ {0} => SubSeq(s, 1, 1) = <<s[1]>>
    <3>1. TAKE s \in Seq(Blocks)
    <3>2. HAVE Len(s) \in Nat \ {0}
    <3>3. s[1] \in Blocks
      BY <3>2, ElementOfSeq
    <3>4. /\ SubSeq(s, 1, 1) \in Seq(Blocks) /\ Len(SubSeq(s, 1, 1)) = 1
          /\ SubSeq(s, 1, 1)[1] = s[1]
      BY <3>2, <3>3, SubSeqProperties, SMTT(30)
    <3>5. <<s[1]>> \in Seq(Blocks) /\ Len(<<s[1]>>) = 1 /\ <<s[1]>>[1] = s[1]
      BY <3>3
    <3> DEFINE p == SubSeq(s, 1, 1)
               q == <<s[1]>>
    <3> HIDE DEF p, q
    <3>6. p \in Seq(Blocks) /\ q \in Seq(Blocks) /\ Len(p) = 1 /\ Len(q) = 1 /\ p[1] = q[1]
      BY <3>4, <3>5 DEF p, q
    <3>7. \A i \in 1 .. Len(p) : p[i] = q[i]
      BY <3>6
    <3>8. p = q
      BY <3>6, <3>7, SeqEqual, SMTT(30)
    <3>9. QED
      BY <3>8 DEF p, q
  <2>3. QED
    BY <1>1, <2>1, <2>2 DEF IsPrefix
<1>3. m_blocks' = SubSeq(m_blocks, 1, n - 1)
  BY DEF Front
<1>4. \A i \in 1 .. (n - 1) : m_blocks[i] \in Blocks
  BY <1>1, ElementOfSeq, SMTT(30)
<1> HIDE DEF n
<1>5. /\ m_blocks' \in Seq(Blocks) /\ Len(m_blocks') = n - 1
      /\ \A i \in 1 .. (n - 1) : m_blocks'[i] = m_blocks[i]
  BY <1>1, <1>2, <1>3, <1>4, SubSeqProperties, SMTT(30)
<1>6. QED
  BY <1>1, <1>2, <1>5, EmptySeq, SMTT(30)

LEMMA NextOnTheWay ==
  ASSUME ChainOK, target \in Blocks, IsStrictPrefix(m_blocks, Ancestry[target])
  PROVE  Ancestry[target][Len(m_blocks) + 1] \in Blocks
<1> DEFINE c == Ancestry[target]
           n == Len(m_blocks)
<1>1. /\ c \in Seq(Blocks) /\ Len(c) \in Nat
      /\ m_blocks \in Seq(Blocks) /\ n \in Nat
  BY AncestryType, LenProperties DEF ChainOK
<1>2. n <= Len(c) /\ SubSeq(m_blocks, 1, n) = SubSeq(c, 1, n) /\ m_blocks # c
  BY DEF IsStrictPrefix, IsPrefix
<1> HIDE DEF c
<1>3. n # Len(c)
  BY <1>1, <1>2, SMTT(30)
<1>4. QED
  BY <1>1, <1>2, <1>3, SMTT(30) DEF c

LEMMA SwitchKeepsIInv ==
  ASSUME IInv, SwitchStep
  PROVE  PoolOK' /\ ChainOK'
<1>1. PoolOK /\ ChainOK /\ target \in Blocks /\ old \in Blocks
  BY DEF IInv, ChainOK, SwitchStep
<1> DEFINE b == Ancestry[target][Len(m_blocks) + 1]
<1>2. /\ target' \in {target, old, NoBlock}
      /\ target' # NoBlock => old' = old
  BY DEF SwitchStep
<1>3. CASE ~ IsPrefix(m_blocks, Ancestry[target]) /\ popBlock
  BY <1>1, <1>2, <1>3, PopKeepsChain, KeepByBlockKeepsPoolOK, SMTT(30) DEF popBlock, ChainOK
<1>4. CASE IsStrictPrefix(m_blocks, Ancestry[target]) /\ ConnectBlock(b)
  BY <1>1, <1>2, <1>4, NextOnTheWay, ConnectKeepsChain, ConnectKeepsPoolOK, SMTT(30) DEF ChainOK
<1>5. CASE IsStrictPrefix(m_blocks, Ancestry[target]) /\ RefuseBlock(b)
  <2>1. m_blocks' = m_blocks
    BY <1>5 DEF RefuseBlock
  <2>2. PoolOK'
    BY <1>1, <1>5, NextOnTheWay, RefuseKeepsPoolOK, SMTT(30)
  <2>3. QED
    BY <1>1, <1>2, <2>1, <2>2, SMTT(30) DEF ChainOK
<1>6. QED
  BY <1>3, <1>4, <1>5, SMTT(30) DEF SwitchStep

LEMMA FillKeepsPoolOK ==
  ASSUME PoolOK, FillBlockTemplate
  PROVE  PoolOK'
<1>1. PICK order, leftover, height :
        LET fresh == (FeePass(order, leftover).checked \cap Pool) \ m_validated_transactions
        IN  m_transactions' = [t \in Pool |->
              IF t \in fresh THEN CheckedInfo(t, leftover, height) ELSE m_transactions[t]]
  BY SMTT(30) DEF FillBlockTemplate
<1>2. \A t \in Pool : "keptByBlock" \in DOMAIN m_transactions[t]
  BY DEF PoolOK, Consistent, Pool
<1>3. DOMAIN m_transactions' = Pool
  BY <1>1
<1>4. \A t \in Pool : m_transactions'[t] \in {CheckedInfo(t, leftover, height), m_transactions[t]}
  BY <1>1
<1>5. \A t \in Pool : /\ "keptByBlock" \in DOMAIN m_transactions'[t]
                      /\ m_transactions'[t].keptByBlock = m_transactions[t].keptByBlock
  BY <1>2, <1>4, CheckKeepsOrigin, SMTT(30)
<1>6. UNCHANGED <<m_spent_key_images, m_spentOutputs, m_recentlyDeletedTransactions>>
  BY DEF FillBlockTemplate
<1>7. QED
  BY <1>3, <1>5, <1>6, SameOriginKeepsPoolOK, SMTT(30)

-----------------------------------------------------------------------------
LEMMA InitIInv == Init => IInv
<1> SUFFICES ASSUME Init PROVE IInv
  OBVIOUS
<1>1. PoolOK
  BY EmptyIsConsistent DEF Init, PoolOK
<1>2. FileOK
  BY EmptyIsConsistent DEF Init, FileOK, NoFile
<1>3. ChainOK
  BY PoolAssumption DEF Init, ChainOK
<1>4. QED
  BY <1>1, <1>2, <1>3, SMTT(30) DEF IInv

(***************************************************************************)
(* A stop empties the memory, and what deinit writes is the pool itself or *)
(* a file without transactions.                                            *)
(***************************************************************************)
LEMMA StopKeepsIInv ==
  ASSUME IInv, deinit \/ Crash
  PROVE  IInv'
<1>1. LoseMemory
  BY DEF deinit, Crash
<1>2. PoolOK'
  BY <1>1, EmptyIsConsistent, SMTT(30) DEF LoseMemory, PoolOK
<1>3. ChainOK'
  BY <1>1 DEF IInv, LoseMemory, ChainOK
<1>4. FileOK'
  <2>1. CASE file' = file
    BY <2>1 DEF IInv, FileOK
  <2>2. CASE file' = PoolFile
    BY <2>2 DEF IInv, PoolOK, FileOK, PoolFile
  <2>3. CASE file' = TornFile
    BY <2>3, EmptyIsConsistent, SMTT(30) DEF FileOK, TornFile, NoFile
  <2>4. QED
    BY <2>1, <2>2, <2>3, SMTT(30) DEF deinit, Crash
<1>5. QED
  BY <1>2, <1>3, <1>4, SMTT(30) DEF IInv

LEMMA NextIInv ==
  ASSUME IInv, [Next]_vars
  PROVE  IInv'
<1> USE DEF IInv
<1>1. ASSUME NEW t \in Txs, AddNewTx(t) PROVE IInv'
  BY <1>1, AddKeepsPoolOK, SMTT(30) DEF AddNewTx, FileOK, ChainOK, chainVars
<1>2. ASSUME NEW t \in Txs, AddTxOfBlock(t) PROVE IInv'
  BY <1>2, KeepByBlockKeepsPoolOK DEF AddTxOfBlock, FileOK, ChainOK, chainVars
<1>3. ASSUME NEW b \in Blocks, AddNewBlock(b) PROVE IInv'
  <2>1. FileOK' /\ UNCHANGED <<target, old>>
    BY <1>3 DEF AddNewBlock, FileOK
  <2>2. CASE ConnectBlock(b)
    BY <2>1, <2>2, ConnectKeepsPoolOK, ConnectKeepsChain, SMTT(30) DEF ChainOK
  <2>3. CASE RefuseBlock(b)
    <3>1. m_blocks' = m_blocks
      BY <2>3 DEF RefuseBlock
    <3>2. QED
      BY <2>1, <2>3, <3>1, RefuseKeepsPoolOK, SMTT(30) DEF ChainOK
  <2>4. QED
    BY <1>3, <2>2, <2>3, SMTT(30) DEF AddNewBlock
<1>4. ASSUME NEW b \in Blocks, StartSwitch(b) PROVE IInv'
  BY <1>4, LastInBlocks DEF StartSwitch, poolVars, PoolOK, FileOK, ChainOK
<1>5. ASSUME SwitchStep PROVE IInv'
  <2>1. FileOK'
    BY <1>5 DEF SwitchStep, FileOK
  <2>2. QED
    BY <1>5, <2>1, SwitchKeepsIInv, SMTT(30)
<1>6. ASSUME FillBlockTemplate PROVE IInv'
  <2>1. FileOK' /\ ChainOK'
    BY <1>6 DEF FillBlockTemplate, FileOK, ChainOK, chainVars
  <2>2. QED
    BY <1>6, <2>1, FillKeepsPoolOK, SMTT(30)
<1>7. ASSUME GetDifference PROVE IInv'
  BY <1>7 DEF GetDifference, PoolOK, FileOK, ChainOK, chainVars
<1>8. ASSUME Tick PROVE IInv'
  BY <1>8 DEF Tick, poolVars, PoolOK, FileOK, ChainOK, chainVars
<1>9. ASSUME OnIdle PROVE IInv'
  <2>1. FileOK' /\ ChainOK'
    BY <1>9 DEF OnIdle, FileOK, ChainOK, chainVars
  <2>2. PoolOK'
    BY <1>9, ExpiryKeepsPoolOK, SMTT(30) DEF OnIdle, PoolOK
  <2>3. QED
    BY <2>1, <2>2, SMTT(30)
<1>10. ASSUME init PROVE IInv'
  <2>1. FileOK' /\ ChainOK'
    BY <1>10 DEF init, FileOK, ChainOK, chainVars
  <2>2. CASE file.kind = "none"
    BY <1>10, <2>1, <2>2, SMTT(30) DEF init, poolVars, PoolOK
  <2>3. CASE file.kind # "none"
    <3>1. PoolOK'
      BY <1>10, <2>3, ExpiryKeepsPoolOK, SMTT(30) DEF init, FileOK
    <3>2. QED
      BY <2>1, <3>1
  <2>4. QED
    BY <2>2, <2>3, SMTT(30)
<1>11. CASE UNCHANGED vars
  BY <1>11 DEF vars, poolVars, chainVars, PoolOK, FileOK, ChainOK
<1>12. QED
  BY <1>1, <1>2, <1>3, <1>4, <1>5, <1>6, <1>7, <1>8, <1>9, <1>10, <1>11, StopKeepsIInv, SMTT(30)
  DEF Next

THEOREM Invariance == Spec => []IInv
BY InitIInv, NextIInv, PTL DEF Spec

(***************************************************************************)
(* The index of key images is that of the transactions of the pool: the    *)
(* error returns of addTransactionInputs and removeTransactionInputs are   *)
(* never taken.                                                            *)
(***************************************************************************)
THEOREM KeyImageIndexAlwaysExact == Spec => []KeyImageIndexExact
<1>1. IInv => KeyImageIndexExact
  BY SMTT(30) DEF IInv, PoolOK, Consistent, KeyImageIndexExact, Pool
<1>2. QED
  BY <1>1, Invariance, PTL

(***************************************************************************)
(* m_spentOutputs holds the outputs of the transactions that no block      *)
(* brought: the assertions on its insertions and erasures hold.            *)
(***************************************************************************)
THEOREM SpentOutputsAlwaysExact == Spec => []SpentOutputsExact
<1>1. IInv => SpentOutputsExact
  BY SMTT(30) DEF IInv, PoolOK, Consistent, SpentOutputsExact, Pool
<1>2. QED
  BY <1>1, Invariance, PTL

(***************************************************************************)
(* Of two transactions of the pool that spend the same thing, a block      *)
(* brought at least one.                                                   *)
(***************************************************************************)
THEOREM OnlyBlocksBringConflicts == Spec => []ConflictsOnlyByBlocks
<1>1. IInv => ConflictsOnlyByBlocks
  BY SMTT(30) DEF IInv, PoolOK, Consistent, Separate, ConflictsOnlyByBlocks, Pool
<1>2. QED
  BY <1>1, Invariance, PTL

(***************************************************************************)
(* While a deletion is remembered, only a block brings the transaction     *)
(* back, restarts included.                                                *)
(***************************************************************************)
THEOREM OnlyBlocksBringBackDeleted == Spec => []DeletedComesBackByBlock
<1>1. IInv => DeletedComesBackByBlock
  BY DEF IInv, PoolOK, Consistent, DeletedComesBackByBlock, Pool
<1>2. QED
  BY <1>1, Invariance, PTL
=============================================================================
