--------------------------- MODULE Analysis_proofs ---------------------------
(***************************************************************************)
(* Proofs about Analysis: what an archive leaves on disk is bounded, and a *)
(* stored report says what every agent found, for any archive, any set of  *)
(* agents and any faults.                                                  *)
(*                                                                         *)
(* The inductive invariant is AnalysisInv.  The set Paths may be infinite: *)
(* what is finite are the files of the tree, which is why ExtractionInv    *)
(* says so before it speaks of their number and their bytes.               *)
(***************************************************************************)
EXTENDS Analysis, DataLemmas

USE AboveAssumption, DockerfileAssumption, LimitsAssumption

Trees == [Paths -> {Absent, Directory} \cup 0 .. FileCap]

\* The types of the extraction's variables.
TreeOK ==
    /\ step \in {"start", "extract", "saved", "refused", "dead"}
    /\ tree \in Trees
    /\ files \in 0 .. MaxFiles /\ bytes \in 0 .. MaxBytes + FileCap

-----------------------------------------------------------------------------
(* The bytes and the number of the files in a tree.                        *)

LEMMA UseIsTotal == DiskUse = Total(tree, Files(tree))
  BY DEF DiskUse, Total

\* Making directories where no file is in the way leaves the files alone.
LEMMA Directories ==
    ASSUME tree \in Trees, NEW ps \in SUBSET Paths, CanMkdirAll(ps)
    PROVE  /\ MkdirAll(ps) \in Trees
           /\ Files(MkdirAll(ps)) = Files(tree)
           /\ \A p \in Files(tree) : MkdirAll(ps)[p] = tree[p]
  BY DEF Trees, CanMkdirAll, MkdirAll, Files, Absent, Directory

\* A file that is written replaces what was there under its path.
LEMMA OneFile ==
    ASSUME tree \in Trees, IsFiniteSet(Files(tree)), NEW p \in Paths, NEW n \in 0 .. FileCap,
           NEW t \in Trees, t[p] = n, Files(t) = Files(tree) \cup {p},
           \A q \in Files(tree) \ {p} : t[q] = tree[q]
    PROVE  /\ IsFiniteSet(Files(t))
           /\ Cardinality(Files(t)) <= Cardinality(Files(tree)) + 1
           /\ Total(t, Files(t)) <= Total(tree, Files(tree)) + n
  <1> DEFINE old == Files(tree)
             new == Files(t)
  <1>1. \A q \in old : tree[q] \in Nat
    BY DEF Files, Trees, Absent, Directory
  <1>2. \A q \in new : t[q] \in Nat
    BY DEF Files, Trees, Absent, Directory
  <1>3. IsFiniteSet(new) /\ Cardinality(new) <= Cardinality(old) + 1
    <2> HIDE DEF old, new
    <2>1. /\ IsFiniteSet(old \cup {p}) /\ Cardinality(old) \in Nat
          /\ Cardinality(old \cup {p}) = IF p \in old THEN Cardinality(old) ELSE Cardinality(old) + 1
      BY FS_AddElement, FS_CardinalityType DEF old
    <2> QED  BY <2>1 DEF old, new
  <1>4. new = old \cup {p} /\ new \ {p} = old \ {p} /\ p \in new
    OBVIOUS
  <1>5. \A q \in old \ {p} : t[q] = tree[q]
    OBVIOUS
  <1>6. t[p] = n /\ n \in Nat /\ IsFiniteSet(old)
    OBVIOUS
  <1> HIDE DEF old, new
  <1>7. IsFiniteSet(old \ {p})
    BY <1>6, FS_Subset
  <1>8. Total(t, new) = n + Total(t, old \ {p})
    BY <1>2, <1>3, <1>4, <1>6, TotalParts
  <1>9. Total(t, old \ {p}) = Total(tree, old \ {p})
    BY <1>1, <1>5, <1>7, TotalSame
  <1>10. Total(tree, old) \in Nat /\ Total(tree, old \ {p}) \in Nat
    BY <1>1, <1>6, <1>7, TotalParts
  <1>11. Total(tree, old \ {p}) <= Total(tree, old)
    <2>1. CASE p \in old
      <3>1. Total(tree, old) = tree[p] + Total(tree, old \ {p}) /\ tree[p] \in Nat
        BY <1>1, <1>6, <2>1, TotalParts
      <3> QED  BY <3>1, <1>10
    <2>2. CASE p \notin old
      <3>1. old \ {p} = old
        BY <2>2
      <3> QED  BY <3>1, <1>10
    <2> QED  BY <2>1, <2>2
  <1>12. Total(t, new) <= Total(tree, old) + n
    BY <1>6, <1>8, <1>9, <1>10, <1>11
  <1> QED  BY <1>3, <1>12 DEF old, new

LEMMA NoFiles ==
    /\ EmptyTree \in Trees /\ Files(EmptyTree) = {}
    /\ IsFiniteSet({}) /\ Cardinality({}) = 0 /\ \A t : Total(t, {}) = 0
  <1>1. EmptyTree \in Trees /\ Files(EmptyTree) = {}
    BY DEF EmptyTree, Trees, Files, Absent
  <1>2. IsFiniteSet({}) /\ Cardinality({}) = 0
    BY FS_EmptySet
  <1>3. \A t : Total(t, {}) = 0
    BY <1>2, TotalParts
  <1> QED  BY <1>1, <1>2, <1>3

-----------------------------------------------------------------------------
(* The extraction keeps its counters and its limits.                       *)

LEMMA ExtractionInit == InitExtraction => TreeOK /\ ExtractionInv
  <1> SUFFICES ASSUME InitExtraction PROVE TreeOK /\ ExtractionInv
    OBVIOUS
  <1>1. Files(tree) = {} /\ tree \in Trees /\ IsFiniteSet(Files(tree))
        /\ Cardinality(Files(tree)) = 0 /\ Total(tree, Files(tree)) = 0
    BY NoFiles DEF InitExtraction
  <1>2. DiskUse = 0
    BY <1>1, UseIsTotal
  <1> QED  BY <1>1, <1>2 DEF InitExtraction, TreeOK, ExtractionInv, DiskBounded

LEMMA UseNext == DiskUse' = Total(tree', Files(tree'))
  <1>1. (DiskUse = Total(tree, Files(tree)))'
    BY UseIsTotal, PTL
  <1> QED  BY <1>1

LEMMA Refusal ==
    ASSUME Refuse
    PROVE  TreeOK' /\ ExtractionInv'
  <1>1. /\ tree' = EmptyTree /\ step' = "refused" /\ files' = 0 /\ bytes' = 0
    BY DEF Refuse, Return
  <1>2. /\ tree' \in Trees /\ Files(tree') = {} /\ IsFiniteSet(Files(tree'))
        /\ Cardinality(Files(tree')) = 0 /\ Total(tree', Files(tree')) = 0
    BY <1>1, NoFiles
  <1>3. DiskUse' = 0
    BY <1>2, UseNext
  <1> QED  BY <1>1, <1>2, <1>3 DEF TreeOK, ExtractionInv, DiskBounded, EmptyTree

\* SaveSource returns and the tree stays.
LEMMA Kept ==
    ASSUME TreeOK, ExtractionInv, step = "extract", UNCHANGED tree,
           step' \in {"saved", "dead"}, step' = "saved" => bytes <= MaxBytes,
           files' = 0, bytes' = 0
    PROVE  TreeOK' /\ ExtractionInv'
  <1>1. Total(tree, Files(tree)) \in Nat
    BY TotalParts DEF TreeOK, ExtractionInv, Files, Trees, Absent, Directory
  <1>2. DiskUse' = Total(tree, Files(tree)) /\ Files(tree)' = Files(tree)
    BY UseNext
  <1>3. Total(tree, Files(tree)) <= bytes /\ Cardinality(Files(tree)) <= files
    BY UseIsTotal DEF ExtractionInv
  <1>4. Cardinality(Files(tree)) \in Nat /\ IsFiniteSet(Files(tree))
    BY FS_CardinalityType DEF ExtractionInv
  <1> QED  BY <1>1, <1>2, <1>3, <1>4 DEF TreeOK, ExtractionInv, DiskBounded

LEMMA ExtractionStep ==
    ASSUME TreeOK, ExtractionInv, SaveSource
    PROVE  TreeOK' /\ ExtractionInv'
  <1>1. Total(tree, Files(tree)) \in Nat
    BY TotalParts DEF TreeOK, ExtractionInv, Files, Trees, Absent, Directory
  <1>2. Cardinality(Files(tree)) \in Nat
    BY FS_CardinalityType DEF ExtractionInv
  <1>3. CASE Open
    <2>1. DiskUse' = DiskUse
      BY <1>3, UseIsTotal, UseNext DEF Open
    <2> QED  BY <1>3, <2>1 DEF Open, TreeOK, ExtractionInv, DiskBounded
  <1>4. ASSUME NEW e \in Entries, ExtractDir(e)
        PROVE  TreeOK' /\ ExtractionInv'
    <2> DEFINE ps == Above[e.path] \cup {e.path}
    <2>1. ps \in SUBSET Paths
      BY EntriesAssumption
    <2>2. CASE CanMkdirAll(ps)
      <3>1. tree' = MkdirAll(ps) /\ UNCHANGED <<step, format, files, bytes>> /\ step = "extract"
        BY <1>4, <2>2 DEF ExtractDir, Reading
      <3>2. /\ tree' \in Trees /\ Files(tree') = Files(tree)
            /\ \A p \in Files(tree) : tree'[p] = tree[p]
        <4> HIDE DEF ps
        <4> QED  BY <2>1, <2>2, <3>1, Directories DEF TreeOK
      <3>3. Total(tree', Files(tree')) = Total(tree, Files(tree))
        <4>1. \A p \in Files(tree) : tree[p] \in Nat /\ tree'[p] = tree[p]
          BY <3>2 DEF Files, TreeOK, Trees, Absent, Directory
        <4>2. Total(tree', Files(tree)) = Total(tree, Files(tree))
          BY <4>1, TotalSame DEF ExtractionInv
        <4> QED  BY <3>2, <4>2
      <3>4. DiskUse' = DiskUse
        BY <3>3, UseNext, UseIsTotal
      <3> QED  BY <3>1, <3>2, <3>4 DEF TreeOK, ExtractionInv, DiskBounded
    <2>3. CASE ~ CanMkdirAll(ps)
      <3>1. Refuse
        BY <1>4, <2>3 DEF ExtractDir
      <3> QED  BY <3>1, Refusal
    <2> QED  BY <2>2, <2>3
  <1>5. ASSUME NEW e \in Entries, ExtractFile(e)
        PROVE  TreeOK' /\ ExtractionInv'
    <2>1. PICK w : w = Min({e.size, FileCap})
      OBVIOUS
    <2>2. /\ e.path \in Paths /\ Above[e.path] \in SUBSET Paths /\ e.size \in Nat
      BY EntriesAssumption
    <2>3. w \in 0 .. FileCap
      <3>1. {e.size, FileCap} \in SUBSET Nat /\ {e.size, FileCap} # {}
        BY <2>2
      <3>2. w \in {e.size, FileCap} /\ w <= FileCap
        BY <2>1, <3>1, LeastElement
      <3> QED  BY <2>2, <3>2
    <2>4. CASE files < MaxFiles /\ CanMkdirAll(Above[e.path]) /\ tree[e.path] # Directory
      <3>1. /\ tree' = [MkdirAll(Above[e.path]) EXCEPT ![e.path] = w]
            /\ files' = files + 1 /\ bytes' = bytes + w
            /\ UNCHANGED <<step, format>> /\ step = "extract" /\ bytes <= MaxBytes
        BY <1>5, <2>1, <2>4 DEF ExtractFile, Reading, Counted
      <3>2. PICK m : m = MkdirAll(Above[e.path])
        OBVIOUS
      <3>3. /\ m \in Trees /\ Files(m) = Files(tree)
            /\ \A p \in Files(tree) : m[p] = tree[p]
        BY <2>2, <2>4, <3>2, Directories DEF TreeOK
      <3>4. tree' = [m EXCEPT ![e.path] = w]
        BY <3>1, <3>2
      <3>5. /\ tree' \in Trees /\ tree'[e.path] = w
            /\ Files(tree') = Files(tree) \cup {e.path}
            /\ \A q \in Files(tree) \ {e.path} : tree'[q] = tree[q]
        BY <2>2, <2>3, <3>3, <3>4 DEF Trees, Files
      <3>6. /\ IsFiniteSet(Files(tree'))
            /\ Cardinality(Files(tree')) <= Cardinality(Files(tree)) + 1
            /\ Total(tree', Files(tree')) <= Total(tree, Files(tree)) + w
        BY <2>2, <2>3, <3>5, OneFile DEF TreeOK, ExtractionInv
      <3>7. /\ Total(tree', Files(tree')) \in Nat /\ Cardinality(Files(tree')) \in Nat
        <4>1. \A p \in Files(tree') : tree'[p] \in Nat
          BY <3>5 DEF Files, Trees, Absent, Directory
        <4> QED  BY <3>6, <4>1, TotalParts, FS_CardinalityType
      <3>8. Total(tree, Files(tree)) <= bytes /\ Cardinality(Files(tree)) <= files
        BY <3>1, UseIsTotal DEF ExtractionInv
      <3>9. DiskUse' <= bytes' /\ Cardinality(Files(tree')) <= files' /\ DiskUse' \in Nat
        BY <1>1, <1>2, <2>3, <3>1, <3>6, <3>7, <3>8, UseNext DEF TreeOK
      <3>10. files' \in 0 .. MaxFiles /\ bytes' \in 0 .. MaxBytes + FileCap
        BY <2>3, <2>4, <3>1 DEF TreeOK
      <3> QED  BY <3>1, <3>5, <3>6, <3>7, <3>9, <3>10 DEF TreeOK, ExtractionInv, DiskBounded
    <2>5. CASE ~ (files < MaxFiles /\ CanMkdirAll(Above[e.path]) /\ tree[e.path] # Directory)
      <3>1. Refuse
        BY <1>5, <2>5 DEF ExtractFile
      <3> QED  BY <3>1, Refusal
    <2> QED  BY <2>4, <2>5
  <1>6. CASE OverTotal \/ Broken
    BY <1>6, Refusal DEF OverTotal, Broken
  <1>7. CASE EndOfArchive
    <2>1. CASE tree[Dockerfile] = Absent
      BY <1>7, <2>1, Refusal DEF EndOfArchive
    <2>2. CASE tree[Dockerfile] # Absent
      BY <1>7, <2>2, Kept DEF EndOfArchive, Return, Reading
    <2> QED  BY <2>1, <2>2
  <1>8. CASE Crash
    BY <1>8, Kept DEF Crash, Return
  <1> QED  BY <1>3, <1>4, <1>5, <1>6, <1>7, <1>8 DEF SaveSource

-----------------------------------------------------------------------------
(* Walking the tree and adding up a report.                                *)

\* The source in a request is within the walk's limit.
LEMMA WalkWithinCap ==
    ASSUME TreeOK, ExtractionInv
    PROVE  Prefix(Fitting) \in 0 .. SourceCap
  <1> DEFINE t == [i \in 1 .. Len(WalkOrder) |-> tree[WalkOrder[i]]]
             S == {n \in 0 .. Len(WalkOrder) : Prefix(n) <= SourceCap}
  <1>1. Len(WalkOrder) \in Nat
    BY WalkOrderAssumption, LenProperties
  <1>2. ASSUME NEW n \in 0 .. Len(WalkOrder)
        PROVE  /\ IsFiniteSet(Walked(n)) /\ Prefix(n) \in Nat
               /\ Walked(n) = {} => Prefix(n) = 0
    <2>1. PICK u : u = [i \in Walked(n) |-> tree[WalkOrder[i]]]
      OBVIOUS
    <2>2. IsFiniteSet(Walked(n))
      <3>1. IsFiniteSet(1 .. n) /\ Walked(n) \in SUBSET (1 .. n)
        BY <1>1, FS_Interval DEF Walked
      <3> QED  BY <3>1, FS_Subset
    <2>3. \A i \in Walked(n) : u[i] \in Nat /\ u[i] = tree[WalkOrder[i]]
      BY <2>1 DEF Walked, Files, TreeOK, Trees, Absent, Directory
    <2>4. Prefix(n) = Total([i \in Walked(n) |-> tree[WalkOrder[i]]], Walked(n))
      BY DEF Prefix, Total, MapThenSumSet, MapThenFoldSet
    <2> QED  BY <2>1, <2>2, <2>3, <2>4, TotalParts
  <1>3. 0 \in S
    <2>1. Walked(0) = {}
      BY DEF Walked
    <2>2. 0 \in 0 .. Len(WalkOrder)
      BY <1>1
    <2>3. Prefix(0) = 0
      BY <1>2, <2>1, <2>2
    <2> QED  BY <2>2, <2>3, CapsAssumption
  <1>4. Fitting \in S
    <2>1. Fitting = Max(S)
      BY DEF Fitting
    <2>2. S \in SUBSET (0 .. Len(WalkOrder)) /\ S # {}
      BY <1>3
    <2> HIDE DEF S
    <2> QED  BY <1>1, <2>1, <2>2, GreatestElement
  <1>5. Fitting \in 0 .. Len(WalkOrder) /\ Prefix(Fitting) <= SourceCap
    BY <1>4
  <1> QED  BY <1>2, <1>5, CapsAssumption

\* What a caller carries in each of its states.
LEMMA CallerStates ==
    ASSUME NEW x \in CallerState
    PROVE  /\ x.pc = "call" => x.tries \in 0 .. Tries - 1
           /\ x.pc = "sleep" => x.tries \in 1 .. Tries
           /\ x.pc \in {"ok", "error"} => x \in Listed
           /\ x.pc = "ok" => x.findings \in Answers
  BY DEF CallerState, Idle, Calling, Sleeping, Found, Failed, Listed

LEMMA WeightsAdd ==
    ASSUME NEW x \in Listed
    PROVE  WeightOf(x) \in Nat
  <1>1. Weight["info"] \in Nat
    BY WeightAssumption
  <1>2. ASSUME NEW a \in Answers, x = Found(a)
        PROVE  WeightOf(x) \in Nat
    <2>1. a \in Seq(DOMAIN Weight) /\ x.pc = "ok" /\ x.findings = a
      BY <1>2, AnswersAssumption DEF Found
    <2>2. /\ Len(a) \in Nat /\ DOMAIN a = 1 .. Len(a)
          /\ \A i \in DOMAIN a : a[i] \in DOMAIN Weight
      BY <2>1, LenProperties, ElementOfSeq
    <2>3. PICK u : u = [i \in DOMAIN a |-> Weight[a[i]]]
      OBVIOUS
    <2>4. \A i \in DOMAIN a : u[i] \in Nat
      BY <2>2, <2>3, WeightAssumption
    <2>5. IsFiniteSet(DOMAIN a)
      BY <2>2, FS_Interval
    <2>6. WeightOf(x) = Total([i \in DOMAIN a |-> Weight[a[i]]], DOMAIN a)
      <3>1. WeightOf(x) = MapThenSumSet(LAMBDA i : Weight[a[i]], DOMAIN a)
        BY <2>1 DEF WeightOf
      <3>2. MapThenSumSet(LAMBDA i : Weight[a[i]], DOMAIN a)
              = Total([i \in DOMAIN a |-> Weight[a[i]]], DOMAIN a)
        BY DEF Total, MapThenSumSet, MapThenFoldSet
      <3> QED  BY <3>1, <3>2
    <2> QED  BY <2>3, <2>4, <2>5, <2>6, TotalParts
  <1>3. ASSUME NEW w, x = Failed(w)
        PROVE  WeightOf(x) \in Nat
    BY <1>1, <1>3 DEF WeightOf, Failed
  <1> QED  BY <1>2, <1>3 DEF Listed

\* A synthesis of agents that have all returned is a report.
LEMMA SynthesisIsReport ==
    ASSUME caller \in [Callers -> CallerState], \A a \in Agents : Done(a)
    PROVE  Synthesis \in Report
  <1>1. \A a \in Agents : caller[a] \in Listed
    BY CallerStates DEF Done, Callers
  <1>2. PICK u : u = [a \in Agents |-> WeightOf(caller[a])]
    OBVIOUS
  <1>3. \A a \in Agents : u[a] \in Nat
    BY <1>1, <1>2, WeightsAdd
  <1>4. MapThenSumSet(LAMBDA a : WeightOf(caller[a]), Agents)
          = Total([a \in Agents |-> WeightOf(caller[a])], Agents)
    BY DEF Total, MapThenSumSet, MapThenFoldSet
  <1>5. PICK n \in Nat : n = MapThenSumSet(LAMBDA a : WeightOf(caller[a]), Agents)
    BY <1>2, <1>3, <1>4, AgentsAssumption, TotalParts
  <1>6. Capped(n) \in 0 .. 100
    <2>1. {n, 100} \in SUBSET Nat /\ {n, 100} # {}
      OBVIOUS
    <2>2. Min({n, 100}) \in {n, 100} /\ Min({n, 100}) <= 100
      BY <2>1, LeastElement
    <2> QED  BY <2>2 DEF Capped
  <1>7. Synthesis = [risk |-> Capped(n), findings |-> [a \in Agents |-> caller[a]],
                     summarised |-> caller[Synthesizer].pc = "ok"]
    BY <1>5 DEF Synthesis, Collected
  <1>8. [a \in Agents |-> caller[a]] \in [Agents -> Listed]
    BY <1>1
  <1>9. (caller[Synthesizer].pc = "ok") \in BOOLEAN
    OBVIOUS
  <1> HIDE DEF Capped
  <1> QED  BY <1>6, <1>7, <1>8, <1>9 DEF Report

-----------------------------------------------------------------------------
(* The analysis.                                                           *)

\* The types of the other variables.
AskOK ==
    /\ row \in BOOLEAN
    /\ report \in Report \cup {NoReport}
    /\ ask \in {"none", "lookup", "walk", "wait", "store", "over"}
    /\ source \in 0 .. SourceCap
    /\ server \in {"none", "received", "agents", "synth", "refused", "answered", "over"}
    /\ caller \in [Callers -> CallerState]
    /\ gone \in BOOLEAN /\ expired \in BOOLEAN

LEMMA TypeParts == TypeOK <=> TreeOK /\ AskOK
  BY DEF TypeOK, TreeOK, AskOK, Trees

LEMMA InvParts == AnalysisInv <=> TreeOK /\ ExtractionInv /\ AskOK /\ AnswerInv
  BY TypeParts DEF AnalysisInv

LEMMA AnalysisInit == Init => AnalysisInv
  <1> SUFFICES ASSUME Init PROVE AnalysisInv
    OBVIOUS
  <1>1. TreeOK /\ ExtractionInv
    BY ExtractionInit DEF Init
  <1>2. Idle \in CallerState /\ Idle # Failed("cancelled")
    BY DEF CallerState, Idle, Failed
  <1>3. AskOK
    <2>1. caller \in [Callers -> CallerState]
      BY <1>2 DEF Init
    <2>2. source \in 0 .. SourceCap
      BY CapsAssumption DEF Init
    <2> QED  BY <2>1, <2>2 DEF Init, AskOK
  <1>4. AnswerInv
    BY <1>2 DEF Init, AnswerInv
  <1> QED  BY <1>1, <1>3, <1>4, InvParts

\* The handlers leave the tree alone.
LEMMA TreeKept ==
    ASSUME TreeOK, ExtractionInv, UNCHANGED extracting
    PROVE  TreeOK' /\ ExtractionInv'
  <1>1. DiskUse' = DiskUse
    BY UseIsTotal, UseNext DEF extracting
  <1> QED  BY <1>1 DEF extracting, TreeOK, ExtractionInv, DiskBounded

LEMMA AnswersKept ==
    ASSUME AskOK, AnswerInv, UNCHANGED <<asking, serving>>
    PROVE  AskOK' /\ AnswerInv'
  BY DEF asking, serving, AskOK, AnswerInv, Done

\* Where a caller may go next.
LEMMA CallerMoves ==
    /\ \A n \in 0 .. Tries - 1 : Calling(n) \in CallerState /\ Calling(n) # Failed("cancelled")
    /\ \A n \in 1 .. Tries : Sleeping(n) \in CallerState /\ Sleeping(n) # Failed("cancelled")
    /\ \A a \in Answers : Found(a) \in CallerState /\ Found(a) # Failed("cancelled")
    /\ Failed("api") \in CallerState /\ Failed("api") # Failed("cancelled")
    /\ Failed("cancelled") \in CallerState
    /\ Idle \in CallerState /\ Idle # Failed("cancelled")
  BY DEF CallerState, Idle, Calling, Sleeping, Found, Failed

\* One caller that was at work takes its next step.
LEMMA CallerStep ==
    ASSUME AskOK, AnswerInv, NEW c \in Callers, ~ Done(c), NEW x \in CallerState,
           x = Failed("cancelled") => gone,
           caller' = [caller EXCEPT ![c] = x],
           UNCHANGED <<row, report, ask, source, server, gone, expired>>
    PROVE  AskOK' /\ AnswerInv'
  <1>1. AskOK'
    BY DEF AskOK
  <1>2. \A d \in Callers : caller'[d] = IF d = c THEN x ELSE caller[d]
    BY DEF AskOK
  <1>3. \A a \in Agents : Done(a) => caller'[a] = caller[a]
    BY <1>2 DEF Callers
  <1>4. \A a \in Agents : Done(a) => Done(a)'
    BY <1>3 DEF Done
  <1>5. \A d \in Callers : caller'[d] = Failed("cancelled") => gone'
    BY <1>2 DEF AnswerInv
  <1> QED  BY <1>1, <1>3, <1>4, <1>5 DEF AnswerInv

LEMMA GatewayStep ==
    ASSUME AnalysisInv, Gateway \/ GiveUp \/ GatewayCrash \/ ResetPlatform
    PROVE  AskOK' /\ AnswerInv'
  <1> USE DEF AskOK, AnswerInv, Done, serving
  <1>1. AskOK /\ AnswerInv
    BY InvParts
  <1>2. CASE Trigger
    BY <1>1, <1>2 DEF Trigger
  <1>3. CASE LookUp
    BY <1>1, <1>3 DEF LookUp
  <1>4. CASE Post
    <2>1. Prefix(Fitting) \in 0 .. SourceCap
      BY WalkWithinCap, InvParts
    <2>2. source' \in 0 .. SourceCap
      BY <1>1, <1>4, <2>1 DEF Post
    <2> QED  BY <1>1, <1>4, <2>2 DEF Post
  <1>5. CASE TakeAnswer
    BY <1>1, <1>5 DEF TakeAnswer
  <1>6. CASE Store
    <2>1. CASE report' = Synthesis
      <3>1. \A a \in Agents : Done(a)
        BY <1>1, <1>6 DEF Store
      <3>2. Synthesis \in Report
        <4> USE <1>1, <3>1
        <4> QED  BY SynthesisIsReport DEF AskOK
      <3>3. \A a \in Agents : Synthesis.findings[a] = caller[a]
        BY DEF Synthesis, Collected
      <3>4. ~gone /\ server = "over"
        BY <1>1, <1>6 DEF Store
      <3> QED  BY <1>1, <1>6, <2>1, <3>1, <3>2, <3>3, <3>4 DEF Store
    <2>2. CASE UNCHANGED report
      BY <1>1, <1>6, <2>2 DEF Store
    <2> QED  BY <1>6, <2>1, <2>2 DEF Store
  <1>7. CASE GiveUp
    BY <1>1, <1>7 DEF GiveUp
  <1>8. CASE GatewayCrash
    BY <1>1, <1>8 DEF GatewayCrash
  <1>9. CASE ResetPlatform
    BY <1>1, <1>9 DEF ResetPlatform
  <1> QED  BY <1>2, <1>3, <1>4, <1>5, <1>6, <1>7, <1>8, <1>9 DEF Gateway

LEMMA AnalyzerStep ==
    ASSUME AskOK, AnswerInv, Analyzer \/ Expire \/ AnalyzerCrash
    PROVE  AskOK' /\ AnswerInv'
  <1> USE DEF AskOK, AnswerInv, asking
  <1>1. 0 \in 0 .. Tries - 1
    BY DEF Tries
  <1>2. CASE Decode
    <2>1. CASE server' = "refused" /\ UNCHANGED caller
      BY <1>2, <2>1 DEF Decode, Done
    <2>2. CASE /\ server' = "agents"
               /\ caller' = [c \in Callers |-> IF c \in Agents THEN Calling(0) ELSE Idle]
      <3>1. caller' \in [Callers -> CallerState]
        BY <1>1, <2>2, CallerMoves
      <3>2. \A c \in Callers : caller'[c] # Failed("cancelled")
        BY <1>1, <2>2, CallerMoves
      <3>3. report = NoReport /\ ask # "store"
        BY <1>2 DEF Decode
      <3> QED  BY <1>2, <2>2, <3>1, <3>2, <3>3 DEF Decode
    <2> QED  BY <1>2, <2>1, <2>2 DEF Decode
  <1>3. CASE Join
    <2>1. caller' = [caller EXCEPT ![Synthesizer] = Calling(0)]
      BY <1>3 DEF Join
    <2>2. /\ caller' \in [Callers -> CallerState]
          /\ \A a \in Agents : caller'[a] = caller[a]
          /\ \A c \in Callers : caller'[c] = Failed("cancelled") => caller[c] = Failed("cancelled")
      BY <1>1, <2>1, CallerMoves, AgentsAssumption DEF Callers
    <2>3. \A a \in Agents : Done(a)'
      BY <1>3, <2>2 DEF Join, Done
    <2> QED  BY <1>3, <2>2, <2>3 DEF Join
  <1>4. CASE Answer
    BY <1>4 DEF Answer, Done
  <1>5. CASE Unheard
    BY <1>5 DEF Unheard, Done
  <1>6. CASE Expire
    BY <1>6 DEF Expire, AfterGateway, Done
  <1>7. CASE AnalyzerCrash
    <2>1. caller' \in [Callers -> CallerState] /\ \A c \in Callers : caller'[c] # Failed("cancelled")
      BY <1>7, CallerMoves DEF AnalyzerCrash
    <2>2. report = NoReport /\ ask # "store"
      BY <1>7 DEF AnalyzerCrash
    <2> QED  BY <1>7, <2>1, <2>2 DEF AnalyzerCrash
  <1> QED  BY <1>2, <1>3, <1>4, <1>5, <1>6, <1>7 DEF Analyzer

LEMMA GenerateStep ==
    ASSUME AskOK, AnswerInv, NEW c \in Callers, Generate(c) \/ Wake(c)
    PROVE  AskOK' /\ AnswerInv'
  <1>1. UNCHANGED <<row, report, ask, source, server, gone, expired>>
    BY DEF Generate, Wake, asking
  <1>2. caller[c] \in CallerState
    BY DEF AskOK
  <1>3. ~ Done(c)
    BY DEF Generate, Wake, Done
  <1>4. \A n : n \in 0 .. Tries - 1 <=> n + 1 \in 1 .. Tries /\ n \in Nat
    BY DEF Tries
  <1>5. CASE Generate(c)
    <2>1. caller[c].tries + 1 \in 1 .. Tries
      BY <1>2, <1>5, CallerStates DEF Generate, Tries
    <2>2. PICK x : /\ caller' = [caller EXCEPT ![c] = x]
                   /\ \/ \E a \in Answers : x = Found(a)
                      \/ x = Failed("api")
                      \/ x = Sleeping(caller[c].tries + 1)
                      \/ x = Failed("cancelled") /\ Cancelled
      BY <1>5 DEF Generate
    <2>3. x \in CallerState /\ (x = Failed("cancelled") => gone)
      BY <2>1, <2>2, CallerMoves DEF Cancelled, AnswerInv
    <2> QED  BY <1>1, <1>3, <2>2, <2>3, CallerStep
  <1>6. CASE Wake(c)
    <2>1. caller[c].tries \in 1 .. Tries
      BY <1>2, <1>6, CallerStates DEF Wake
    <2>2. PICK x : /\ caller' = [caller EXCEPT ![c] = x]
                   /\ x = IF caller[c].tries < Tries THEN Calling(caller[c].tries) ELSE Failed("api")
      BY <1>6 DEF Wake
    <2>3. caller[c].tries < Tries => caller[c].tries \in 0 .. Tries - 1
      BY <2>1 DEF Tries
    <2>4. x \in CallerState /\ x # Failed("cancelled")
      BY <2>2, <2>3, CallerMoves
    <2> QED  BY <1>1, <1>3, <2>2, <2>4, CallerStep
  <1> QED  BY <1>5, <1>6

LEMMA AnalysisStep == AnalysisInv /\ [Next]_vars => AnalysisInv'
  <1> SUFFICES ASSUME AnalysisInv, [Next]_vars PROVE AnalysisInv'
    OBVIOUS
  <1>1. TreeOK /\ ExtractionInv /\ AskOK /\ AnswerInv
    BY InvParts
  <1>2. AnalysisInv' <=> TreeOK' /\ ExtractionInv' /\ AskOK' /\ AnswerInv'
    <2>1. (AnalysisInv <=> TreeOK /\ ExtractionInv /\ AskOK /\ AnswerInv)'
      BY InvParts, PTL
    <2> QED  BY <2>1
  <1>3. CASE SaveSource /\ UNCHANGED <<asking, serving>>
    BY <1>1, <1>2, <1>3, ExtractionStep, AnswersKept
  <1>4. CASE Gateway \/ GiveUp \/ GatewayCrash \/ ResetPlatform
    <2>1. UNCHANGED extracting
      BY <1>4 DEF Gateway, Trigger, LookUp, Post, TakeAnswer, Store, GiveUp, GatewayCrash,
                  ResetPlatform
    <2> QED  BY <1>1, <1>2, <1>4, <2>1, GatewayStep, TreeKept
  <1>5. CASE Analyzer \/ Expire \/ AnalyzerCrash
    <2>1. UNCHANGED extracting
      BY <1>5 DEF Analyzer, Decode, Join, Answer, Unheard, Expire, AnalyzerCrash
    <2> QED  BY <1>1, <1>2, <1>5, <2>1, AnalyzerStep, TreeKept
  <1>6. ASSUME NEW c \in Callers, Generate(c) \/ Wake(c) PROVE AnalysisInv'
    <2>1. UNCHANGED extracting
      BY <1>6 DEF Generate, Wake
    <2> QED  BY <1>1, <1>2, <1>6, <2>1, GenerateStep, TreeKept
  <1>7. CASE UNCHANGED vars
    <2>1. UNCHANGED extracting /\ UNCHANGED <<asking, serving>>
      BY <1>7 DEF vars
    <2> QED  BY <1>1, <1>2, <2>1, TreeKept, AnswersKept
  <1> QED  BY <1>3, <1>4, <1>5, <1>6, <1>7 DEF Next

\* The inductive invariant of both, from the lemmas above.
THEOREM AnalysisInvHolds == Spec => []AnalysisInv
  BY AnalysisInit, AnalysisStep, PTL DEF Spec

\* Whatever an archive claims, repeats or overwrites, SaveSource never leaves
\* more on disk than the total limit and one capped file, nor more files than
\* allowed, and a refused upload leaves nothing.  For any entries and limits.
THEOREM ArchiveBounded == Spec => []DiskBounded
  <1>1. AnalysisInv => DiskBounded
    BY DEF AnalysisInv, ExtractionInv
  <1> QED  BY <1>1, AnalysisInvHolds, PTL

\* A stored report lists what every agent found, or its error, and no agent
\* that the gateway's own giving up cut short.  For any set of agents.
THEOREM ReportsHonest == Spec => []ReportHonest
  <1>1. AnalysisInv => ReportHonest
    BY DEF AnalysisInv, AnswerInv, ReportHonest, NoSilentAgent, NothingCutShortIsStored, Callers
  <1> QED  BY <1>1, AnalysisInvHolds, PTL

=============================================================================
