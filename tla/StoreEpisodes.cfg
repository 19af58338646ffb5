SPECIFICATION Spec
CONSTANTS
    Sent <- MCTalk
    Groups = {"g"}
    Aging = {}
    Days = 1
    Gap = 1
    MaxMessages = 2
    PerTick = 3
    Lists = {}
    MaxTime = 5
    MaxAdmin = 0
    MaxFaults = 1
INVARIANTS ChunksAreEpisodes
PROPERTIES NoFragments
CHECK_DEADLOCK FALSE
