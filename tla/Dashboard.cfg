SPECIFICATION FairSpec
CONSTANTS
  d1 = d1  d2 = d2  e1 = e1  e2 = e2  c1 = c1  c2 = c2  s1 = s1  s2 = s2
  LaneIds = {0, 1}
  Points = {d1, d2, e1, e2}
  Infinity = Infinity
  NoKey = NoKey
  BATCH_TX_COUNT = 3
  DeployedKey = "vk"
  DeployedHeads <- MCHeads
  Options <- MCOptions
  DefaultBatchSize = 3
  DefaultLaneCount = 2
  Uint64s = 1000
  MaxTransactions = 2
CHECK_DEADLOCK FALSE
INVARIANTS CompletedMeansCertified ShownIsCertified ProofTotalIsSubmitted MergedBundleVerifies LatestReceiptsShown
PROPERTIES PhaseAdvances OutcomeShown
