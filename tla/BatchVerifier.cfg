SPECIFICATION Spec
CONSTANTS
  LaneIds = {0, 1}
  Points <- MCPoints
  Infinity = Infinity
  NoKey = NoKey
  BATCH_TX_COUNT = 2
  Prime = 3
  Callers = {"deployer", "other"}
  Admin = "deployer"
  Keys <- MCKeys
  Inits <- MCInits
  Submissions <- MCSubmissions
  Transitions <- MCTransitions
  MaxEvents = 5
CHECK_DEADLOCK FALSE
INVARIANTS LaneIsChain CertifiedIsProved TotalPreserved
