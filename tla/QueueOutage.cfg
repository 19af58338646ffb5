\* No poisonous message at all: the app is only unreachable.
SPECIFICATION Spec
CONSTANTS
    NMessages = 2
    MaxItems = 2
    MaxAttempts = 3
    Poison = {}
    MaxFaults = 0
INVARIANT DeadMeansRejected
CHECK_DEADLOCK FALSE
