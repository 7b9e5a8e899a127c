CONSTANTS
    LastDate = 2
    MaxEvents = 2
    Ingest = {"i1", "i2"}
SPECIFICATION UniverseSpec
CHECK_DEADLOCK FALSE
INVARIANT RebuildIsExact
