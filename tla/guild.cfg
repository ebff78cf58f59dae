SPECIFICATION Spec
CONSTANTS
    Char = {1, 2, 3, 4, 5}
    Guild = {1, 2}
    Broken = {4}
    New = {5}
    Grants <- Given
    MinRanks = 3
    MaxRanks = 4
    MaxRankId = 4
    Tables <- Left
    Garbage <- Junk
    MaxCalls = 5
    MaxCrashes = 1
INVARIANTS TypeOK LedByMember MembershipAgrees Durable
PROPERTY RestartRepairs
CHECK_DEADLOCK FALSE
