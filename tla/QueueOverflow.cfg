\* The disk works and nothing crashes: one overflow while a flush awaits its send.
SPECIFICATION Spec
CONSTANTS
    NMessages = 3
    MaxItems = 2
    MaxAttempts = 3
    Poison = {}
    MaxFaults = 0
INVARIANT EveryMessageAccounted
CHECK_DEADLOCK FALSE
