\* The tool, run any number of times beside one portal handler at a time; two
\* submissions under one filename or two, a manual score, one failure.
SPECIFICATION FairSpec
CONSTANTS
    i1 = i1
    i2 = i2
    f1 = f1
    f2 = f2
    h1 = h1
    Tool = Tool
    None = None
    Ids = {i1, i2}
    Files = {f1, f2}
    Names <- SharedOrNot
    IRQs = {0}
    Handlers = {h1}
    MaxEdits = 1
    MaxFaults = 1
INVARIANTS
    SettledManualSurvives
    QuietRunCorrects
    FromOwnArchive
PROPERTIES
    RerunsCorrect
CHECK_DEADLOCK FALSE
