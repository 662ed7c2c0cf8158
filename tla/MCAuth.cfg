SPECIFICATION Spec
CONSTANTS
    Operators = {a, b}
    Nonces = {n1, n2, n3}
    Admins = {a}
    Handlers = {h1, h2}
    NonceTTL = 1
    SessionTTL = 1
    AdminSessionTTL = 0
    MaxTime = 2
    MaxRestarts = 1
    Configured = {"admin"}
    None = None
SYMMETRY Symmetry
INVARIANTS
    SessionsAreProved
    NonceBuysOneSession
    AccessIsEarned
CHECK_DEADLOCK FALSE
