SPECIFICATION Spec
CONSTANTS
  Sessions = {s1, s2, s3}
  Accounts = {a, b}
  Account <- Pair
  Players = {s1, s2, s3}
  Threads = 2
  PlayerLimit = 1
  DynEnabled = TRUE
  DynMax = 2
  Word = 16
  MaxCloses = 1
  MaxKicks = 0
  MaxMoves = 1
  MaxWipes = 0
  None = None
  s1 = s1
  s2 = s2
  s3 = s3
  a = a
  b = b
SYMMETRY PairSwaps
INVARIANTS WithinLimit NoDangling
CHECK_DEADLOCK FALSE
