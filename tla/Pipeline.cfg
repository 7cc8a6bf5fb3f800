SPECIFICATION FairSpec
CONSTANTS
  ProofSeed = "seed"
  LaneIds = 2
  FloatBelow <- MCFloatBelow
  Setups <- MCSetups
INVARIANTS SubmittedWhole NothingLostWhileRunning PassExactly
PROPERTIES ImplementsRun RunReturns
