SPECIFICATION FairSpec
CONSTANTS
  Stream <- MCStream
  Byte = 2
  Lanes = 2
  Capacity = 1
  Setups <- MCSetups
  MaxBlocks = 2
CHECK_DEADLOCK FALSE
INVARIANTS CertifiedWhole OkMeansSubmitted EachTxOnce
PROPERTY SealedIsCertified
