\* Two concurrent callers, two ids, two failures, crashes or
\* power cuts anywhere.
SPECIFICATION Spec
CONSTANTS
    p1 = p1
    p2 = p2
    i1 = i1
    i2 = i2
    a = a
    None = None
    Torn = Torn
    Procs = {p1, p2}
    Ids = {i1, i2}
    Values = {a}
    MaxFaults = 2
SYMMETRY Alike
INVARIANTS
    TypeOK
    AckedSurvives
PROPERTIES
    ImplementsDurableMap
