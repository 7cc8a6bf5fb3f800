SPECIFICATION Spec
CONSTANTS
  ProofSeed = "seed"
  LaneIds = 2
  FloatBelow <- MCFloatBelow
  Setups <- RoomySetup
INVARIANT HappyPathPasses
