SPECIFICATION FairSpec
CONSTANTS
    Replicas = {r1, r2}
    Runs = {a}
    BotCounts = {2}
    Profiles = {"sustained", "replay"}
    DefaultBots = 3
    MaxCopies = 2
    Duplicated = {r1}
    MaxIncrs = 1
INVARIANTS TypeOK UniqueReplicaIndex AtMostOneSummary OneFleetPerReplica CancelHonoured BotIdsDisjoint
PROPERTIES IndexZeroSummarises
