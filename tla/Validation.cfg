SPECIFICATION FairSpec
CONSTANTS
    Runs = {"r1"}
    Bots = {1}
    Profiles = {"bots", "replay"}
    BotOrders <- MCBotOrders
    PerBot = 2
    Lines = 5
    Timeouts = 1
    Pending = 1
    File <- MCFile
    Offset = 10
    Styles = {"reference", "deaf", "keeps"}
    Faults = {"timeout", "expire", "stop"}
INVARIANTS DocumentedFills CorrectEngineScoresFull FullScoreMeansInOrder BrokenEngineCaught RefusedOnlyIfReused
PROPERTIES ValidationEnds
CHECK_DEADLOCK FALSE
