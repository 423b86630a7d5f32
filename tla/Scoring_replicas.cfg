SPECIFICATION Spec
CONSTANTS
    RunIds = {k1, k2}
    Teams = {t1}
    Ingesters = {i1, i2}
    Aggregates <- MCTwoAggregates
    ScoreOf <- MCTwoScoreOf
    NoAggregate = NoAggregate
    Faults = {"db", "crash"}
    Resets = TRUE
SYMMETRY ScoringSymmetry
INVARIANT BaselineSound
PROPERTIES ResultsOnlyImprove
CHECK_DEADLOCK FALSE
