SPECIFICATION FairSpec
CONSTANTS
  d1 = d1  d2 = d2  v1 = v1  c1 = c1  c2 = c2  s1 = s1  s2 = s2
  LaneIds = {0, 1}
  Points = {d1, d2}
  Infinity = Infinity
  NoKey = NoKey
  BATCH_TX_COUNT = 3
  Senders = {s1, s2}
  Scenarios <- Operators
  MaxFaults = 1
CHECK_DEADLOCK FALSE
INVARIANTS BundleCertifiedOnce ReportIsCertified
PROPERTIES EveryCommandEnds Resumes
