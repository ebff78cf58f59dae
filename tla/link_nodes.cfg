SPECIFICATION Spec
CONSTANTS
  Nodes = {1, 2}
  Types = {"item"}
  Base <- MCBase
  Wrap = 8
  Garbage = {1}
  BootGuids = {1}
  MaxDraws = 2
  MaxFaults = 1
INVARIANTS DistinctAcrossNodes NumberingInv
CHECK_DEADLOCK FALSE
