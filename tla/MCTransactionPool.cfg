SPECIFICATION MCSpec
CONSTANTS
  g = g
  a1 = a1
  a2 = a2
  a3 = a3
  b1 = b1
  c1 = c1
  t1 = t1
  t2 = t2
  t3 = t3
  t4 = t4
  k1 = k1
  k2 = k2
  k3 = k3
  o1 = o1
  NoBlock = NoBlock
  Blocks <- MCBlocks
  Genesis = g
  Ancestry <- MCAncestry
  CumulativeDifficulty <- MCDifficulty
  Unsound = {}
  Txs <- MCTxs
  BlockTxs <- MCBlockTxs
  KeyImagesOf <- MCKeyImagesOf
  OutputsOf <- MCOutputsOf
  Refs <- MCRefs
  Fee <- MCFee
  TxSize <- MCSize
  Ttl <- NoTtl
  IllFormed = {}
  MempoolTxLiveTime = 1
  MempoolTxFromAltBlockLiveTime = 2
  ForgetTime = 4
  BlockFutureTimeLimit = 1
  MaxTxSize = 3
  FusionTxMaxSize = 1
  MedianSize = 2
  MaxTotalSize = 3
  MaxTime = 0
  MaxRestarts = 2
INVARIANTS
    KeyImageIndexExact
    SpentOutputsExact
    ConflictsOnlyByBlocks
    DeletedComesBackByBlock
    
CHECK_DEADLOCK FALSE
