SPECIFICATION FairServicesSpec
CONSTANTS
    \* Workspace
    RowEdits = 1
    Events = 2
    Settlements = 1
    \* Politeness
    f1 = f1
    f2 = f2
    Fetch = {f1, f2}
    Gap <- MixedGap
    Ttl = 2
    ErrTtl = 1
    Timeout = 1
    EndOfTime = 5
    \* JudgeGate
    Reply = {r1, r2, r3}
    GateRaises = 1
    \* Council
    Panel = {p1, p2, p3}
    Synthesizer = {z1}
    MaxRevisions = 1
    MaxFired = 2
    \* WorkItem
    LastStage = 2
    Parked = {1}
    Loops = {2}
    MaxHops = 1
    MaxRuns = 2
    Interventions = 3
    \* Consult
    Ask = {a1, a2}
    ToolAsk = {a2}
    MaxCalls = 2
    \* Materializer
    Drain = {d1, d2}
    Writes = 2
    Target = {t1}
    PassLimit = 2
    Mishaps = 1
    \* Exporter
    Finish = {i1, i2}
    BatchLimit = 1
    Horizon = 2
    \* Drops
    Text = {note}
    Binary = {scan}
    Bodies = 2
    Saves = 3
    Troubles = 2
    \* BridgeSessions
    Caller = {c1, c2}
    Server = {s1, s2}
    MaxSessions = 3
    \* ModelCalls
    CallsPerAnswer = 2
    MaxQuestions = 2
    MaxAnswers = 2
    Fresh = 3
    MaxLevers = 1
    \* BatchDispatch
    MaxChats = 2
    MaxBatches = 4
    Unsendable = {2}
    Cap = 1
    SubmitLimit = 2
    OverloadLimit = 1
    OtherLimit = 1
    MaxCrashes = 1
INVARIANTS TypesOK LandedKept ResumedWhole WholeCouncilHeard OutputsOwn OwnAnswer WrittenOnce NothingSkipped OpenIsCached CallsWhole RequestsPaired
PROPERTIES Converges Settles Spaced PermitRecent GateLifts ClosedStays ItemRests FilesLand
CHECK_DEADLOCK FALSE
