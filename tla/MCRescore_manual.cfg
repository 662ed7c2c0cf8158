\* A manual score entered while the tool runs.
SPECIFICATION Spec
CONSTANTS
    i1 = i1
    i2 = i2
    f1 = f1
    f2 = f2
    h1 = h1
    Tool = Tool
    None = None
    Ids = {i1, i2}
    Files = {f1, f2}
    Names <- SharedOrNot
    IRQs = {0}
    Handlers = {h1}
    MaxEdits = 1
    MaxFaults = 0
PROPERTIES
    ManualUntouched
CHECK_DEADLOCK FALSE
