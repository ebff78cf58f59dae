SPECIFICATION Spec
CONSTANTS
    Nodes = {1, 2}
    Backup = 2
    Primary = 0
    MaxConns = 3
    Timeout = 1
    MaxTime = 1
    Limit <- Moving
INVARIANTS TypeOK OneConnection RightNode
