\* Every kind of unacceptable upload next to a sound one, two delete handlers,
\* one score handler, object storage, one failure or crash anywhere.
SPECIFICATION Spec
CONSTANTS
    r1 = r1
    r2 = r2
    d1 = d1
    d2 = d2
    s1 = s1
    s2 = s2
    v1 = v1
    op1 = op1
    op2 = op2
    f1 = f1
    f2 = f2
    None = None
    Requests = {r1, r2}
    Deleters = {d1, d2}
    Scorers = {s1}
    Viewers = {}
    Operators = {op1, op2}
    Files = {f1}
    IRQs = {0}
    Uploads <- EachDefect
    Local = FALSE
    Scanning = TRUE
    MaxFaults = 1
SYMMETRY RequestsAlike
INVARIANTS
    OnlyVettedIsKept
    NoStrandedArchive
    NoOrphanRecord
    ManualNeedsAutomatic
PROPERTIES
    ScoresOnlyGrow
CHECK_DEADLOCK FALSE
