SPECIFICATION Spec
CONSTANTS
    MaxChats = 3
    MaxBatches = 2
    Unsendable = {3}
    Cap = 2
    SubmitLimit = 2
    OverloadLimit = 2
    OtherLimit = 1
    MaxCrashes = 1
INVARIANTS TypeOK NoRowStranded AnsweredByItsBatch CapKept
PROPERTIES ImplementsService
