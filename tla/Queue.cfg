SPECIFICATION FairSpec
CONSTANTS
    NMessages = 3
    MaxItems = 2
    MaxAttempts = 2
    Poison = {2}
    MaxFaults = 2
INVARIANTS TypeOK Durable
PROPERTIES Delivers NoOvertaking QueueDrains
CHECK_DEADLOCK FALSE
