SPECIFICATION FairSpec
CONSTANTS
    c1 = c1
    c2 = c2
    Channel <- OneRoom
    Policies <- Mentioned
    CastRooms <- OneRoom
    HopBudget = 1
    EarlyArchive = FALSE
    MaxFrames = 3
    MaxSessions = 2
    MaxBeats = 1
    MaxConns = 2
INVARIANTS HopChain
PROPERTIES Quiesces BeatsDelivered
