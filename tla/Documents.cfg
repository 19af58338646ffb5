SPECIFICATION FairSpec
CONSTANTS
    Files <- MCFiles
    Names <- MCNames
    Groups = {"g"}
    Sharing = {"g"}
    Batch = 2
    MaxPages = 2
    MaxOps = 3
    MaxFaults = 1
INVARIANTS Searchable CitesItsName Rereadable
PROPERTIES KeepsLibrary Settles
CHECK_DEADLOCK FALSE
