SPECIFICATION FairSpec
CONSTANTS
    RunIds = {k1, k2}
    Teams = {t1, t2}
    Ingesters = {i1}
    Aggregates <- MCAggregates
    ScoreOf <- MCScoreOf
    NoAggregate = NoAggregate
    Faults = {"db", "redis", "flush", "crash"}
    Resets = FALSE
INVARIANTS ServedBoardIsBest ScoresAccountedFor
 
CHECK_DEADLOCK FALSE
