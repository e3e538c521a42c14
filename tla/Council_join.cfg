SPECIFICATION CouncilSpec
CONSTANTS
    Panel = {p1, p2, p3}
    Synthesizer = {z1}
    MaxRevisions = 1
    MaxFired = 2
INVARIANTS SynthesisFires
CHECK_DEADLOCK FALSE
