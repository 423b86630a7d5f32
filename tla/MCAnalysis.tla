------------------------------ MODULE MCAnalysis ------------------------------
(***************************************************************************)
(* Instances of Analysis for TLC.  Files count up to 2 bytes, a tree up   *)
(* to 3, a request's source up to 2: archives reach and exceed every       *)
(* limit, and the walk stops before the second of two source files.        *)
(***************************************************************************)
EXTENDS Analysis

MCPaths == {"Dockerfile", "src", "src/a.go", "z.go"}

MCAbove == [p \in MCPaths |-> IF p = "src/a.go" THEN {"src"} ELSE {}]

MCEntry(p, k, n) == [path |-> p, kind |-> k, size |-> n, safe |-> TRUE]

MCEntries ==
    {MCEntry("Dockerfile", "file", 0), MCEntry("Dockerfile", "file", 2),
     MCEntry("Dockerfile", "dir", 0),
     MCEntry("src", "dir", 0), MCEntry("src", "file", 3), MCEntry("src", "link", 1),
     MCEntry("src/a.go", "file", 1), MCEntry("src/a.go", "file", 3),
     MCEntry("z.go", "file", 1), MCEntry("z.go", "file", 3),
     [path |-> "src", kind |-> "file", size |-> 1, safe |-> FALSE]}

MCWalkOrder == <<"src/a.go", "z.go">>

MCWeight == [critical |-> 25, high |-> 15, medium |-> 8, low |-> 3, info |-> 1,
             other |-> 0]

MCAnswers == {<<>>, <<"critical", "critical">>, <<"other">>}

=============================================================================
