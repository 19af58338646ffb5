SPECIFICATION Spec
CONSTANTS
    Configs = {"a", "b"}
    Off = "off"
    Instances = {1, 2, 3}
    None = 0
    MaxChanges = 2
    MaxFaults = 0
INVARIANT ForgetsStopped
CHECK_DEADLOCK FALSE
