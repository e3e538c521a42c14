SPECIFICATION WorkspaceSpec
CONSTANTS
    RowEdits = 1
    Events = 2
    Settlements = 1
INVARIANTS NeverSilentClobber
