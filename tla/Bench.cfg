SPECIFICATION Spec
CONSTANTS
  FloatBelow = {}
  Configs <- MCConfigs
  Byte = 16
  Cuts = {0, 5, 17}
  MaxCommands = 3
  MaxClock = 1
CHECK_DEADLOCK FALSE
INVARIANTS DatasetFitsRun ManifestFindsBlocks PrintedIsWritten
