\* Handlers run to completion; an admin retries a failed delete; the summary
\* is read at any time.
SPECIFICATION RetrySpec
CONSTANTS
    r1 = r1
    r2 = r2
    d1 = d1
    d2 = d2
    s1 = s1
    s2 = s2
    v1 = v1
    op1 = op1
    op2 = op2
    f1 = f1
    f2 = f2
    None = None
    Requests = {r1, r2}
    Deleters = {d1}
    Scorers = {}
    Viewers = {v1}
    Operators = {op1, op2}
    Files = {f1}
    IRQs = {0}
    Uploads <- SameFile
    Local = TRUE
    Scanning = TRUE
    MaxFaults = 1
INVARIANTS
    ListedHasArchive
    RowsShowTheirScore
    KeptIsListed
    ListedArchiveIsWhole
PROPERTIES
    CheckedIsListedScored
    RetriedDeleteFinishes
CHECK_DEADLOCK FALSE
