SPECIFICATION FairSpec
CONSTANTS
    Configs = {"a", "b"}
    Off = "off"
    Instances = {1, 2, 3}
    None = 0
    MaxChanges = 2
    MaxFaults = 1
INVARIANTS NoStray
PROPERTIES ChangesHands Converges AppSees PairsAgain
CHECK_DEADLOCK FALSE
