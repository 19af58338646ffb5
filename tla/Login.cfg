SPECIFICATION Spec
CONSTANTS
    Slots = {c1, c2}
    Threads = {t1, t2}
    PerClient = 2
    Global = 2
    Lock = 2
    MaxTracked = 1
    Slow = 1
    MaxTime = 7
    MaxGuesses = 5
SYMMETRY Symmetry
INVARIANTS
    TypeOK
    GuessesBounded
PROPERTY RefusedForCause
CHECK_DEADLOCK FALSE
