SPECIFICATION FairSpec
CONSTANTS
  Sessions = {s1, s2}
  Accounts = {a}
  Account <- Twice
  Players = {s1, s2}
  Threads = 2
  PlayerLimit = 1
  DynEnabled = FALSE
  DynMax = 2
  Word = 16
  MaxCloses = 2
  MaxKicks = 1
  MaxMoves = 1
  MaxWipes = 1
  None = None
  s1 = s1
  s2 = s2
  s3 = s3
  a = a
  b = b
INVARIANTS TypeOK RefsExact CounterExact
PROPERTIES ClosedIsFreed KickedIsRemoved
CHECK_DEADLOCK FALSE
