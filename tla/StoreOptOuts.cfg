SPECIFICATION Spec
CONSTANTS
    Sent <- MCMembers
    Groups = {"g"}
    Aging = {}
    Days = 1
    Gap = 1
    MaxMessages = 4
    PerTick = 3
    Lists = {{}, {"bob"}, {"ann", "bob"}}
    MaxTime = 0
    MaxAdmin = 3
    MaxFaults = 1
INVARIANT OptOutErasesTheRest
CHECK_DEADLOCK FALSE
