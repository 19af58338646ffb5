SPECIFICATION Spec
CONSTANTS
    Sent <- MCSent
    Groups = {"g", "h"}
    Aging = {"g"}
    Days = 1
    Gap = 1
    MaxMessages = 2
    PerTick = 2
    Lists = {}
    MaxTime = 2
    MaxAdmin = 2
    MaxFaults = 0
INVARIANT OptOutErases
CHECK_DEADLOCK FALSE
