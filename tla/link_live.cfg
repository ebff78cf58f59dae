SPECIFICATION FairSpec
CONSTANTS
  Nodes = {1}
  Types = {"item", "mail", "corpse"}
  Base <- MCBase
  Wrap = 5
  Garbage = {0, 3}
  BootGuids = {1}
  MaxDraws = 2
  MaxFaults = 2
INVARIANTS TypeOK NeverBehind EnterInitialised NoEnterWithoutLink
PROPERTY EventuallyEnterable
CHECK_DEADLOCK FALSE
