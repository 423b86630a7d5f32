SPECIFICATION FairSpec
CONSTANTS
    ChanCap = 2
    Finals = {3, 5}
    MaxMessages = 5
INVARIANTS StreamIsWhole PromptClientKept
PROPERTIES BrokerNeverBlocked GoroutinesEnd FinalArrives
CHECK_DEADLOCK FALSE
