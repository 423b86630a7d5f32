SPECIFICATION FairSpec
CONSTANTS
    Runs = {"r1"}
    Bots = {1}
    Profiles = {"bots", "replay"}
    BotOrders <- MCBotOrders
    PerBot = 2
    Lines = 4
    Timeouts = 1
    Pending = 1
    File <- MCFile
    Offset = 10
    Styles = {"worst first"}
    Faults = {"timeout", "expire", "stop"}
INVARIANTS WrongPriorityCaught
CHECK_DEADLOCK FALSE
