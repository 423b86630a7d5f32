SPECIFICATION FairSpec
CONSTANTS
    Ingesters = {i1}
    Runs = {"a", "b"}
    Samples = {1, 2, 3, 4}
    RunOf <- MCRunOf
    BufCap = 2
    BatchMax = 2
    IdleLimit = 2
    Redis = TRUE
    Faults = {"db", "redis", "stop"}
INVARIANTS BuffersBounded SamplesAccountedFor
PROPERTIES TpsOfOneTick BufferedSampleLands IdleRunsForgotten
CHECK_DEADLOCK FALSE
