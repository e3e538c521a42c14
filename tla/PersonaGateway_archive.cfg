SPECIFICATION Spec
CONSTANTS
    c1 = c1
    c2 = c2
    Channel <- MCChannel
    Policies <- MCPolicies
    MaxBeats = 1
    CastRooms <- OneRoom
    HopBudget = 1
    EarlyArchive = TRUE
    MaxFrames = 3
    MaxSessions = 2
    MaxConns = 2
INVARIANTS OneTurn
