SPECIFICATION FairSpec
CONSTANTS
    Uploads = {u1, u2}
    Sources = {s1, s2}
    RunIds = {k1}
    BuildSlots = 1
    Faults = {"db", "docker", "exit", "crash", "redeliver"}
    Resets = TRUE
INVARIANTS SlotsMatchBuilders DeployedIsKept
PROPERTIES StatusMovesForward JobsEnd EngineReclaimed
CHECK_DEADLOCK FALSE
