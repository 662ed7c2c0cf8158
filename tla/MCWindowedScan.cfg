SPECIFICATION Spec
CONSTANTS
    Window = 4
    Overlap = 2
    Budget = 9
    DefaultBudget = 12
    SigLen = 3
    MaxLen = 12
    NumLogs = 2
    Logs <- AllLogs
INVARIANTS
    NoneMissed
    CompleteIsTruthful
    BytesAreExact
    FailsClosed
