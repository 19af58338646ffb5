SPECIFICATION FairSpec
CONSTANTS
    People = {"ann"}
    Groups = {"wa", "tg"}
    Listed = {"wa"}
    Shared = "shared"
    NoGroup = "no group"
    NoOne = "no one"
    Threads = {"t1"}
    Forms <- MCForms
    Candidates = 2
    MaxFlight = 2

PROPERTIES LeaversCannotKeepAsking
