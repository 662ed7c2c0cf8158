\* Two submissions of one page, the first possibly still being worked on when
\* the second is sent, two polls under way at once, expiry of rows and tokens.
SPECIFICATION PageSpec
CONSTANTS
    s1 = s1
    s2 = s2
    p1 = p1
    p2 = p2
    None = None
    User = User
    Submissions = {s1, s2}
    Operators = {User}
    OperatorOf <- AllTheirs
    Polls = {p1, p2}
    Size = 1
    TTL = 0
    MaxClock = 1
SYMMETRY Alike
INVARIANTS
    RowIsNewestsOwn
    NewestIsShown
    PanelIsOwn
    PollsWhileAlive
CHECK_DEADLOCK FALSE
