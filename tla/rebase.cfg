SPECIFICATION FairSpec
CONSTANTS
    Tables = {"item_instance", "character_inventory", "petition"}
    Items = {i1, i2}
    None = None
    i1 = i1
    i2 = i2
    MaxGuid = 2
    ChunkRows = 2
    Long = {"petition"}
    Lead = 3
    Grace = 1
    Interval = 5
    MaxLag = 1
    MaxDrift = 2
    MaxLate = 2
    MaxWrites = 3
    MaxCrashes = 1
INVARIANTS TypeOK HaltedWhileRebasing NothingLost Intact
PROPERTY Reopens
