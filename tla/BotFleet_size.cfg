SPECIFICATION Spec
CONSTANTS
    Replicas = {r1}
    Runs = {a, b}
    BotCounts = {1, 2}
    Profiles = {"sustained"}
    DefaultBots = 3
    MaxCopies = 1
    Duplicated = {r1}
    MaxIncrs = 1
INVARIANT FleetSizeAsCommanded
