SPECIFICATION FairSpec
CONSTANTS
    Nodes = {1, 2}
    Backup = 2
    Primary = 0
    MaxConns = 2
    Timeout = 1
    MaxTime = 0
    Limit <- Routing
PROPERTY FailoverToBackup
