------------------------------- MODULE MCScoring -------------------------------
(***************************************************************************)
(* Instances of Scoring for TLC.  Aggregates are numbers: 1 and 2 are two  *)
(* different measurements with the same score, 3 has a better one.         *)
(***************************************************************************)
EXTENDS Scoring, TLC

MCAggregates == 1 .. 3

MCScoreOf == [a \in MCAggregates |-> IF a = 3 THEN 20 ELSE 10]

MCTwoAggregates == {1, 3}

MCTwoScoreOf == [a \in MCTwoAggregates |-> IF a = 3 THEN 20 ELSE 10]

ScoringSymmetry ==
    Permutations(RunIds) \cup Permutations(Teams) \cup Permutations(Ingesters)

=============================================================================
