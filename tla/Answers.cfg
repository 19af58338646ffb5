SPECIFICATION FairSpec
CONSTANTS
    Threads = {"t1"}
    Members = {"ann"}
    Panel = "panel"
    Texts = {"yes"}
    SlowDown = "slow down"
    Unsaid = "unsaid"
    NoOne = "no one"
    Cap = 1
    PerTick = 2
    MaxFacts = 3
    MaxChunks = 2
    MaxAsks = 2
    MaxFound = 1
    MaxEvents = 1
INVARIANTS TypeOK HistoryEnds CorrectionStands SpendBounded Accounted OptedOutForgotten ChatForgotten
PROPERTIES ChunksAreExtracted
CHECK_DEADLOCK FALSE
