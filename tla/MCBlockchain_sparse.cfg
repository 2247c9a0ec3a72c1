SPECIFICATION ReorgSpec
CONSTANTS
  g = g
  a1 = a1
  a2 = a2
  a3 = a3
  b1 = b1
  b2 = b2
  b3 = b3
  c2 = c2
  c3 = c3
  d2 = d2
  t1 = t1
  t2 = t2
  t3 = t3
  t4 = t4
  k1 = k1
  k2 = k2
  k3 = k3
  k4 = k4
  Blocks <- MCBlocks
  Genesis = g
  Ancestry <- MCAncestry
  CumulativeDifficulty <- MCDifficulty
  Txs <- MCTxs
  BlockTxs <- MCBlockTxs
  KeyImagesOf <- MCKeyImagesOf
  Refs <- RefsBelow
  TxSize <- UnitSizes
  MinerTxSize = 1
  MaxBlockSize = 9
  BadHeader = {}
  WeakProofOfWork = {}
  BadReward = {c2}
  Improbable = {}
  PoissonCheckTrigger = 9
  StaticCheckpoints <- NoCheckpoints
  DnsCheckpoints <- NoCheckpoints
  MaxRestarts = 2
  UnlockWindow = 2
  WordSize = 64
INVARIANT
  AlternativesReachMainChain
CHECK_DEADLOCK FALSE
