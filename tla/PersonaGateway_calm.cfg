SPECIFICATION Spec
CONSTANTS
    c1 = c1
    c2 = c2
    Channel <- MCChannel
    Policies <- MCPolicies
    MaxBeats = 1
    CastRooms <- MCChannel
    HopBudget = 1
    EarlyArchive = FALSE
    MaxFrames = 2
    MaxSessions = 2
    MaxConns = 2
INVARIANTS TypeOK OneTurn RoomsApart
PROPERTIES SessionKept
