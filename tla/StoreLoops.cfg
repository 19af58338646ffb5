SPECIFICATION FairSpec
CONSTANTS
    Sent <- MCTwo
    Groups = {"g", "h"}
    Aging = {"g"}
    Days = 1
    Gap = 1
    MaxMessages = 2
    PerTick = 3
    Lists = {}
    MaxTime = 3
    MaxAdmin = 0
    MaxFaults = 1
PROPERTIES BecomesSearchable AgesOut
CHECK_DEADLOCK FALSE
