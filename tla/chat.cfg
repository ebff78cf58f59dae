SPECIFICATION Spec
CONSTANTS
    Guid = {1, 2}
    Password = {"secret"}
    Session = {1, 2, 3}
    Char <- Chars
    Team <- Sides
    GM = {2}
    Name = {"World"}
    World = {"World"}
    TwoSide = FALSE
    Modes = {"moderator"}
    MaxPlayers = 3
    MaxChannels = 4
    Resident = {1,2}
    MaxCalls = 6
    Settings <- Configurations
    Stored <- Table
INVARIANTS TypeOK OneOwnerEach OwnersModerate BannedStayOut NoDanglingChannel MembersReachable
CHECK_DEADLOCK FALSE
