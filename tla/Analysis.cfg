SPECIFICATION FairSpec
CONSTANTS
    Paths <- MCPaths
    Above <- MCAbove
    Dockerfile = "Dockerfile"
    Entries <- MCEntries
    MaxFiles = 3
    FileCap = 2
    MaxBytes = 3
    Agents = {"security", "performance", "correctness"}
    WalkOrder <- MCWalkOrder
    SourceCap = 2
    BodyCap = 2
    Wrapping = 1
    Answers <- MCAnswers
    Weight <- MCWeight
    Faults = {"db", "analyzer"}
INVARIANTS DiskBounded ReportHonest
PROPERTIES AnalysisEnds
CHECK_DEADLOCK FALSE
