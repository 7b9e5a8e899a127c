CONSTANTS
    Proc = {"worker", "api"}
    Worker = {"worker"}
    Symbol = {"infy"}
    LastDay = 3
    Window = 2
    MaxRev = 2
    MaxFaults = 1
    Client = {"c1"}
    MaxEvents = 3
    MaxAsks = 1
    Earlier <- MCEarlier
    Asks <- MCAsks
    Ranges <- MCRanges
    Batches <- MCBatches
SPECIFICATION Spec
CHECK_DEADLOCK FALSE
INVARIANTS AnsweredStaysCached FinishedIsAccounted StreamEndsWithTheJob
PROPERTIES CacheAnswersWhole StreamsAndJobsEnd
