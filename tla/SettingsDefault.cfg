SPECIFICATION Spec
CONSTANTS
    NProviders = 2
    Seeds = 1
    Caps = {10, 20}
    DefaultCap = 10
    Memo = 2
    Admins = {1, 2}
    MaxOps = 2
INVARIANT DefaultAlwaysAnswers
CHECK_DEADLOCK FALSE
