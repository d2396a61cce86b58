SPECIFICATION Spec
CHECK_DEADLOCK FALSE
CONSTANTS
  Depth = 3
  Nodes = {n1, n2}
  MaxBlocks = 3
  MaxBoots = 2
  MinFinalize = 1
INVARIANTS
  TypeOK
  ProofsVerify
  FinalizedLeavesPruned
  TreesConverge
  SnapshotMatchesEth1Data
PROPERTY RefinesDepositLog
