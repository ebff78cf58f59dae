SPECIFICATION Spec
CONSTANTS
  Nodes = {1}
  Types = {"item"}
  Base <- MCBase
  Wrap = 8
  Garbage = {1}
  BootGuids = {1}
  MaxDraws = 2
  MaxFaults = 1
INVARIANT LastGuidIsLastUsed
CHECK_DEADLOCK FALSE
