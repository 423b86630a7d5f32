--------------------------- MODULE Submissions_proofs ---------------------------
(***************************************************************************)
(* Proofs about Submissions, for any number of uploads, sources, runs and  *)
(* build slots, and any faults.  The uploads need not be finite: only      *)
(* those inside docker build are counted.                                  *)
(***************************************************************************)
EXTENDS Submissions, FiniteSetTheorems, TLAPS

Builders == {u \in Uploads : job[u].pc = "build"}

\* The inductive invariant: what LifeInv says, of finitely many builders.
IndInv == LifeInv /\ IsFiniteSet(Builders)

\* What StatusMovesForward says of one step.
Forward ==
    \A u \in Uploads :
        \/ StatusRank[rows'[u].status] >= StatusRank[rows[u].status]
        \/ rows'[u].status = "uploaded" /\ accepted' # accepted
        \/ rows'[u] = NoRow

AfterRun == {"cleaned", "ended", "taken", "missed"}

LEMMA RecordsApart ==
    /\ \A r \in Row : r # NoRow /\ r.status \in Status
    /\ NoRow.status = "none"
    /\ \A r \in Run : r # NoRun /\ r.pc # "idle"
    /\ NoRun.pc = "idle"
  BY DEF Row, NoRow, Run, NoRun, Status

\* A job that goes on keeps its context, and the other jobs stay where they are.
LEMMA JobMoved ==
    ASSUME TypeOK, NEW u \in Uploads, NEW pc \in JobPC, Goto(u, pc)
    PROVE  /\ job' \in [Uploads -> Job]
           /\ job'[u].pc = pc /\ job'[u].ctxDone = job[u].ctxDone
           /\ \A x \in Uploads \ {u} : job'[x] = job[x]
  <1> DEFINE q == [job[u] EXCEPT !.pc = pc]
  <1>1. job[u] \in Job /\ job \in [Uploads -> Job]
    BY DEF TypeOK
  <1>2. q \in Job /\ q.pc = pc /\ q.ctxDone = job[u].ctxDone
    BY <1>1 DEF Job
  <1>3. job' = [job EXCEPT ![u] = q]
    BY DEF Goto
  <1> HIDE DEF q
  <1> QED  BY <1>1, <1>2, <1>3

\* What UpdateSubmissionStatus can make of the table.
LEMMA StatusWritten ==
    ASSUME TypeOK, NEW u \in Uploads, NEW status \in Status,
           NEW tag \in BOOLEAN, NEW endpoint \in BOOLEAN,
           UpdateSubmissionStatus(u, status, tag, endpoint)
    PROVE  /\ rows' \in [Uploads -> Row \cup {NoRow}]
           /\ \A x \in Uploads \ {u} : rows'[x] = rows[x]
           /\ \/ rows'[u] = rows[u]
              \/ /\ rows[u] # NoRow /\ rows'[u] # NoRow
                 /\ rows'[u].status = status
                 /\ tag => rows'[u].tag
                 /\ endpoint => rows'[u].endpoint
  <1>1. CASE rows' = rows
    BY <1>1 DEF TypeOK
  <1>2. CASE rows[u] = NoRow
    BY <1>1, <1>2 DEF UpdateSubmissionStatus, Written
  <1>3. CASE rows[u] # NoRow /\ rows' # rows
    <2> DEFINE t == rows[u].tag \/ tag
               e == rows[u].endpoint \/ endpoint
               p == [rows[u] EXCEPT !.status = status]
               q == [p EXCEPT !.tag = t]
               r == [q EXCEPT !.endpoint = e]
    <2>1. rows[u] \in Row
      BY <1>3 DEF TypeOK
    <2>2. p \in Row /\ p.status = status /\ p.tag = rows[u].tag
          /\ p.endpoint = rows[u].endpoint
      BY <2>1 DEF Row
    <2>3. rows' = [rows EXCEPT ![u] = r]
      BY <1>3, <2>2 DEF UpdateSubmissionStatus, Written
    <2>4. t \in BOOLEAN /\ e \in BOOLEAN /\ (tag => t) /\ (endpoint => e)
      BY <2>1 DEF Row
    <2> HIDE DEF p, t, e
    <2>5. q \in Row /\ q.status = status /\ q.tag = t
      BY <2>2, <2>4 DEF Row
    <2> HIDE DEF q
    <2>6. r \in Row /\ r.status = status /\ r.tag = t /\ r.endpoint = e
      BY <2>4, <2>5 DEF Row
    <2> HIDE DEF r
    <2> QED  BY <1>3, <2>3, <2>4, <2>6, RecordsApart DEF TypeOK
  <1> QED  BY <1>1, <1>2, <1>3

\* UpdateSubmissionCorrectness leaves all but the correctness alone.
LEMMA ScoreWritten ==
    ASSUME TypeOK, NEW u \in Uploads, UpdateSubmissionCorrectness(u)
    PROVE  /\ rows' \in [Uploads -> Row \cup {NoRow}]
           /\ \A x \in Uploads \ {u} : rows'[x] = rows[x]
           /\ rows'[u].status = rows[u].status
           /\ rows'[u].tag = rows[u].tag /\ rows'[u].endpoint = rows[u].endpoint
           /\ (rows'[u] = NoRow) = (rows[u] = NoRow)
  <1>1. CASE rows' = rows
    BY <1>1 DEF TypeOK
  <1>2. CASE rows[u] = NoRow
    BY <1>1, <1>2 DEF UpdateSubmissionCorrectness, Written
  <1>3. CASE rows[u] # NoRow /\ rows' # rows
    <2> DEFINE q == [rows[u] EXCEPT !.score = TRUE]
    <2>1. rows[u] \in Row
      BY <1>3 DEF TypeOK
    <2>2. q \in Row /\ q.status = rows[u].status /\ q.tag = rows[u].tag
          /\ q.endpoint = rows[u].endpoint
      BY <2>1 DEF Row
    <2>3. rows' = [rows EXCEPT ![u] = q]
      BY <1>3 DEF UpdateSubmissionCorrectness, Written
    <2> HIDE DEF q
    <2> QED  BY <1>3, <2>2, <2>3, RecordsApart DEF TypeOK
  <1> QED  BY <1>1, <1>2, <1>3

\* InsertSubmission writes the new row, or takes a row of the same source back
\* to where it began.
LEMMA RowInserted ==
    ASSUME TypeOK, NEW u \in Uploads, NEW src \in Sources
    PROVE  /\ Inserted(u, src) \in [Uploads -> Row \cup {NoRow}]
           /\ \A x \in Uploads :
                 \/ Inserted(u, src)[x] = rows[x]
                 \/ /\ Inserted(u, src)[x] \in Row
                    /\ Inserted(u, src)[x].status = "uploaded"
                    /\ x = u \/ rows[x] # NoRow
  <1> DEFINE clash == {x \in Uploads : rows[x] # NoRow /\ rows[x].src = src}
             new == [src |-> src, status |-> "uploaded", tag |-> FALSE,
                     endpoint |-> FALSE, score |-> FALSE]
  <1>1. new \in Row /\ new.status = "uploaded"
    BY DEF Row, Status
  <1>2. CASE clash = {}
    <2>1. Inserted(u, src) = [rows EXCEPT ![u] = new]
      BY <1>2 DEF Inserted
    <2> HIDE DEF new
    <2> QED  BY <1>1, <2>1 DEF TypeOK
  <1>3. CASE clash # {}
    <2>1. Inserted(u, src) = [x \in Uploads |-> IF x \in clash THEN OnConflict(rows[x])
                                                ELSE rows[x]]
      BY <1>3 DEF Inserted
    <2>2. ASSUME NEW x \in clash
          PROVE  OnConflict(rows[x]) \in Row /\ OnConflict(rows[x]).status = "uploaded"
      <3> DEFINE p == [rows[x] EXCEPT !.status = "uploaded"]
                 q == [p EXCEPT !.tag = FALSE]
                 r == [q EXCEPT !.endpoint = FALSE]
      <3>1. rows[x] \in Row
        BY DEF TypeOK
      <3>2. p \in Row /\ p.status = "uploaded"
        BY <3>1 DEF Row, Status
      <3>3. OnConflict(rows[x]) = r
        BY <3>1 DEF OnConflict
      <3> HIDE DEF p
      <3>4. q \in Row /\ q.status = "uploaded"
        BY <3>2 DEF Row
      <3> HIDE DEF q
      <3>5. r \in Row /\ r.status = "uploaded"
        BY <3>4 DEF Row
      <3> QED  BY <3>3, <3>5
    <2>3. \A x \in clash : rows[x] # NoRow /\ x \in Uploads
      OBVIOUS
    <2> HIDE DEF clash
    <2> QED  BY <2>1, <2>2, <2>3 DEF TypeOK
  <1> QED  BY <1>2, <1>3

\* A run that moves on drives the same submission.
LEMMA RunMoved ==
    ASSUME TypeOK, NEW k \in RunIds, runs[k] # NoRun,
           NEW pc \in {"refused", "active", "ended", "taken", "cleaned", "missed"},
           runs' = [runs EXCEPT ![k].pc = pc]
    PROVE  /\ runs' \in [RunIds -> Run \cup {NoRun}]
           /\ runs'[k] # NoRun /\ runs'[k].sub = runs[k].sub /\ runs'[k].pc = pc
           /\ \A x \in RunIds \ {k} : runs'[x] = runs[x]
  <1> DEFINE q == [runs[k] EXCEPT !.pc = pc]
  <1>1. runs[k] \in Run
    BY DEF TypeOK
  <1>2. q \in Run /\ q.sub = runs[k].sub /\ q.pc = pc
    BY <1>1 DEF Run
  <1>3. runs' = [runs EXCEPT ![k] = q]
    OBVIOUS
  <1> HIDE DEF q
  <1> QED  BY <1>2, <1>3, RecordsApart DEF TypeOK

\* Once a run of an upload has ended, one has: no step forgets it.
LEMMA RanKept ==
    ASSUME \A k \in RunIds : runs[k] # NoRun /\ runs[k].pc \in AfterRun =>
              /\ runs'[k] # NoRun /\ runs'[k].sub = runs[k].sub
              /\ runs'[k].pc \in AfterRun
    PROVE  \A u \in Uploads : Ran(u) => Ran(u)'
  BY DEF Ran, AfterRun

\* The ranks of the statuses, and how far each stage of a job lets a row get.
LEMMA Ranks ==
    /\ StatusRank["none"] = 0 /\ StatusRank["uploaded"] = 1
    /\ StatusRank["building"] = 2 /\ StatusRank["built"] = 3
    /\ StatusRank["deployed"] = 4 /\ StatusRank["failed"] = 5
    /\ Ceiling("none") = 0 /\ Ceiling("save") = 1
    /\ Ceiling("queued") = 2 /\ Ceiling("build") = 2
    /\ Ceiling("run") = 3 /\ Ceiling("health") = 3 /\ Ceiling("announce") = 3
    /\ Ceiling("validate") = 5 /\ Ceiling("over") = 5
    /\ \A r \in Row \cup {NoRow} : StatusRank[r.status] \in 0 .. 5
  <1>1. /\ StatusRank["none"] = 0 /\ StatusRank["uploaded"] = 1
        /\ StatusRank["building"] = 2 /\ StatusRank["built"] = 3
        /\ StatusRank["deployed"] = 4 /\ StatusRank["failed"] = 5
    BY DEF StatusRank
  <1>2. /\ Ceiling("none") = 0 /\ Ceiling("save") = 1
        /\ Ceiling("queued") = 2 /\ Ceiling("build") = 2
        /\ Ceiling("run") = 3 /\ Ceiling("health") = 3 /\ Ceiling("announce") = 3
        /\ Ceiling("validate") = 5 /\ Ceiling("over") = 5
    BY DEF Ceiling
  <1>3. \A r \in Row \cup {NoRow} : StatusRank[r.status] \in 0 .. 5
    BY <1>1 DEF Row, NoRow, Status
  <1> QED  BY <1>1, <1>2, <1>3

-----------------------------------------------------------------------------
(* The inductive invariant.                                                *)

\* Steps that neither move a job nor write a row nor stop a container.
LEMMA UploadKept ==
    ASSUME NEW u \in Uploads, UploadInv(u), rows'[u] = rows[u],
           job'[u].pc = job[u].pc,
           Kept(u) => Kept(u)',
           accepted \subseteq accepted'
    PROVE  UploadInv(u)'
  BY DEF UploadInv

\* A step of one job of u that leaves the other uploads and the runs alone and
\* keeps the tokens of buildSem.
LEMMA JobStep ==
    ASSUME IndInv, NEW u \in Uploads, NEW pc \in JobPC, Goto(u, pc),
           rows' \in [Uploads -> Row \cup {NoRow}],
           \A x \in Uploads \ {u} : rows'[x] = rows[x],
           container' \in [Uploads -> Container],
           \A x \in Uploads \ {u} : container'[x] = container[x],
           accepted' = accepted, runs' = runs,
           slots' \in 0 .. BuildSlots,
           slots' = (slots - (IF job[u].pc = "build" THEN 1 ELSE 0))
                        + (IF pc = "build" THEN 1 ELSE 0),
           StatusRank[rows'[u].status] >= StatusRank[rows[u].status],
           UploadInv(u)'
    PROVE  IndInv' /\ Forward
  <1>1. TypeOK
    BY DEF IndInv, LifeInv, SlotsMatchBuilders
  <1>2. /\ job' \in [Uploads -> Job] /\ job'[u].pc = pc
        /\ \A x \in Uploads \ {u} : job'[x] = job[x]
    BY <1>1, JobMoved
  <1>3. TypeOK'
    BY <1>1, <1>2 DEF TypeOK
  <1>4. ASSUME NEW x \in Uploads PROVE UploadInv(x)'
    <2>1. Ran(x) => Ran(x)'
      BY DEF Ran
    <2>2. CASE x # u
      <3>1. UploadInv(x) /\ (Kept(x) => Kept(x)')
        BY <2>1, <2>2 DEF IndInv, LifeInv, Kept
      <3> QED  BY <1>2, <2>2, <3>1, UploadKept
    <2> QED  BY <2>2
  <1>5. IsFiniteSet(Builders) /\ slots = Cardinality(Builders)
    BY DEF IndInv, LifeInv, SlotsMatchBuilders, Builders
  <1>6. Cardinality(Builders) \in Nat
    BY <1>5, FS_CardinalityType
  <1>7. Builders' = IF pc = "build" THEN Builders \cup {u} ELSE Builders \ {u}
    BY <1>2 DEF Builders
  <1>8. (u \in Builders) = (job[u].pc = "build")
    BY DEF Builders
  <1>9. IsFiniteSet(Builders)' /\ slots' = Cardinality(Builders)'
    <2>1. CASE pc = "build"
      BY <1>5, <1>6, <1>7, <1>8, <2>1, FS_AddElement
    <2>2. CASE pc # "build"
      BY <1>5, <1>6, <1>7, <1>8, <2>2, FS_RemoveElement
    <2> QED  BY <2>1, <2>2
  <1>10. Forward
    BY <1>1, Ranks DEF Forward, TypeOK
  <1> QED  BY <1>3, <1>4, <1>9, <1>10 DEF IndInv, LifeInv, SlotsMatchBuilders, Builders

\* A step of the runs: the jobs, the tokens and the rows stay.
LEMMA RunStep ==
    ASSUME IndInv, runs' \in [RunIds -> Run \cup {NoRun}],
           \A k \in RunIds : runs[k] # NoRun /\ runs[k].pc \in AfterRun =>
              /\ runs'[k] # NoRun /\ runs'[k].sub = runs[k].sub
              /\ runs'[k].pc \in AfterRun,
           container' \in [Uploads -> Container],
           \A u \in Uploads :
              \/ container'[u] = container[u]
              \/ container'[u] = "stopped" /\ Ran(u)',
           UNCHANGED <<rows, job, accepted, slots>>
    PROVE  IndInv' /\ Forward
  <1>1. \A u \in Uploads : Kept(u) => Kept(u)'
    BY RanKept DEF Kept
  <1>2. \A u \in Uploads : UploadInv(u)'
    BY <1>1, UploadKept DEF IndInv, LifeInv
  <1>3. Forward
    BY Ranks DEF IndInv, LifeInv, SlotsMatchBuilders, TypeOK, Forward
  <1> QED  BY <1>2, <1>3 DEF IndInv, LifeInv, SlotsMatchBuilders, TypeOK, Builders

LEMMA InitStep == Init => IndInv
  <1> SUFFICES ASSUME Init PROVE IndInv
    OBVIOUS
  <1>1. TypeOK
    BY BuildSlotsAssumption DEF Init, TypeOK, Job, JobPC, Container
  <1>2. Builders = {}
    BY DEF Init, Builders
  <1>3. IsFiniteSet(Builders) /\ slots = Cardinality(Builders)
    BY <1>2, FS_EmptySet DEF Init
  <1>4. \A u \in Uploads : UploadInv(u)
    BY DEF Init, UploadInv, NoRow, StatusRank, Ceiling
  <1> QED  BY <1>1, <1>3, <1>4 DEF IndInv, LifeInv, SlotsMatchBuilders, Builders

\* An upload may take rows of the same source back: their jobs have all begun.
LEMMA CreateStep ==
    ASSUME IndInv, NEW u \in Uploads, NEW src \in Sources, CreateSubmission(u, src)
    PROVE  IndInv' /\ Forward
  <1>1. TypeOK /\ \A x \in Uploads : UploadInv(x)
    BY DEF IndInv, LifeInv, SlotsMatchBuilders
  <1>2. /\ job' \in [Uploads -> Job] /\ job'[u].pc = "save"
        /\ \A x \in Uploads \ {u} : job'[x] = job[x]
    BY <1>1, JobMoved DEF CreateSubmission, JobPC
  <1>3. /\ rows' \in [Uploads -> Row \cup {NoRow}]
        /\ \A x \in Uploads :
              \/ rows'[x] = rows[x]
              \/ /\ rows'[x].status = "uploaded"
                 /\ x = u \/ rows[x] # NoRow
    BY <1>1, RowInserted DEF CreateSubmission
  <1>4. /\ accepted' = accepted \cup {u} /\ u \notin accepted
        /\ UNCHANGED <<slots, container, runs>>
    BY DEF CreateSubmission
  <1>5. rows[u] = NoRow
    BY <1>1, <1>4 DEF UploadInv
  <1>6. job[u].pc = "none"
    BY <1>1, <1>4 DEF UploadInv
  <1>7. Builders' = Builders
    BY <1>2, <1>6 DEF Builders
  <1>8. ASSUME NEW x \in Uploads PROVE UploadInv(x)'
    <2>1. Ran(x) => Ran(x)'
      BY <1>4 DEF Ran
    <2>2. CASE rows'[x] = rows[x] /\ x # u
      <3>1. job'[x].pc = job[x].pc /\ (Kept(x) => Kept(x)')
        BY <1>2, <1>4, <2>1, <2>2 DEF Kept
      <3> QED  BY <1>1, <1>4, <2>2, <3>1, UploadKept
    <2>3. CASE rows'[x] = rows[x] /\ x = u
      BY <1>2, <1>4, <1>5, <2>3, Ranks DEF UploadInv, NoRow
    <2>4. CASE rows'[x].status = "uploaded" /\ x = u
      BY <1>2, <1>4, <2>4, Ranks DEF UploadInv
    <2>5. CASE rows'[x].status = "uploaded" /\ x # u /\ rows[x] # NoRow
      <3>1. job'[x] = job[x] /\ job[x].pc \in JobPC \ {"none"}
        BY <1>1, <1>2, <2>5 DEF UploadInv, TypeOK, Job
      <3> QED  BY <1>1, <1>4, <2>1, <2>5, <3>1, Ranks DEF UploadInv, JobPC, Kept
    <2> QED  BY <1>3, <2>2, <2>3, <2>4, <2>5
  <1>9. Forward
    BY <1>1, <1>3, <1>4, Ranks DEF Forward, TypeOK
  <1> QED
    BY <1>1, <1>2, <1>3, <1>4, <1>7, <1>8, <1>9
    DEF IndInv, LifeInv, SlotsMatchBuilders, TypeOK, Builders

\* A step of buildAndDeploy that records a status.  The status it writes is no
\* further back than the job has let the row get, and no further on than it
\* will from now on.
LEMMA WriteStep ==
    ASSUME IndInv, NEW u \in Uploads, NEW pc \in JobPC \ {"none"}, Goto(u, pc),
           NEW status \in Status, NEW tag \in BOOLEAN, NEW endpoint \in BOOLEAN,
           UpdateSubmissionStatus(u, status, tag, endpoint),
           job[u].pc # "none",
           Ceiling(job[u].pc) <= StatusRank[status],
           StatusRank[status] <= Ceiling(pc),
           status = "deployed" => tag /\ endpoint /\ Kept(u)',
           pc \in {"health", "announce"} => Kept(u)',
           (Kept(u) => Kept(u)') \/ Ceiling(job[u].pc) <= 3,
           container' \in [Uploads -> Container],
           \A x \in Uploads \ {u} : container'[x] = container[x],
           accepted' = accepted, runs' = runs,
           slots' \in 0 .. BuildSlots,
           slots' = (slots - (IF job[u].pc = "build" THEN 1 ELSE 0))
                        + (IF pc = "build" THEN 1 ELSE 0)
    PROVE  IndInv' /\ Forward
  <1>1. TypeOK /\ UploadInv(u)
    BY DEF IndInv, LifeInv, SlotsMatchBuilders
  <1>2. job'[u].pc = pc
    BY <1>1, JobMoved
  <1>3. /\ rows' \in [Uploads -> Row \cup {NoRow}]
        /\ \A x \in Uploads \ {u} : rows'[x] = rows[x]
        /\ \/ rows'[u] = rows[u]
           \/ /\ rows[u] # NoRow
              /\ rows'[u].status = status
              /\ tag => rows'[u].tag
              /\ endpoint => rows'[u].endpoint
    BY <1>1, StatusWritten
  <1>4. /\ StatusRank[rows[u].status] \in 0 .. 5
        /\ StatusRank[rows[u].status] <= Ceiling(job[u].pc)
        /\ Ceiling(job[u].pc) \in 0 .. 5
        /\ Ceiling(pc) \in 0 .. 5 /\ StatusRank[status] \in 0 .. 5
    BY <1>1, Ranks DEF TypeOK, UploadInv, Job, JobPC, Status
  <1>6. UploadInv(u)'
    <2>1. CASE rows'[u] = rows[u]
      <3>1. Kept(u) /\ rows[u].status = "deployed" => Kept(u)'
        BY <1>4, Ranks
      <3> QED  BY <1>1, <1>2, <1>4, <2>1, <3>1, Ranks DEF UploadInv
    <2>2. CASE /\ rows[u] # NoRow
               /\ rows'[u].status = status
               /\ tag => rows'[u].tag
               /\ endpoint => rows'[u].endpoint
      BY <1>1, <1>2, <2>2 DEF UploadInv
    <2> QED  BY <1>3, <2>1, <2>2
  <1>7. StatusRank[rows'[u].status] >= StatusRank[rows[u].status]
    BY <1>3, <1>4
  <1> QED  BY <1>3, <1>6, <1>7, JobStep

LEMMA SaveStep ==
    ASSUME IndInv, NEW u \in Uploads, SaveSource(u)
    PROVE  IndInv' /\ Forward
  <1>1. /\ job[u].pc = "save"
        /\ UNCHANGED <<accepted, slots, container, runs>>
        /\ Kept(u) => Kept(u)'
    BY DEF SaveSource, Kept, Ran
  <1>2. /\ container' \in [Uploads -> Container]
        /\ slots' \in 0 .. BuildSlots /\ slots' = slots - 0 + 0
    BY <1>1, BuildSlotsAssumption DEF IndInv, LifeInv, SlotsMatchBuilders, TypeOK
  <1>3. CASE UpdateSubmissionStatus(u, "building", FALSE, FALSE) /\ Goto(u, "queued")
    <2>1. /\ "queued" \in JobPC \ {"none"} /\ "building" \in Status
          /\ Ceiling(job[u].pc) <= StatusRank["building"]
          /\ StatusRank["building"] <= Ceiling("queued")
      BY <1>1, Ranks DEF JobPC, Status
    <2> QED  BY <1>1, <1>2, <1>3, <2>1, WriteStep
  <1>4. CASE UpdateSubmissionStatus(u, "failed", FALSE, FALSE) /\ Goto(u, "over")
    <2>1. /\ "over" \in JobPC \ {"none"} /\ "failed" \in Status
          /\ Ceiling(job[u].pc) <= StatusRank["failed"]
          /\ StatusRank["failed"] <= Ceiling("over")
      BY <1>1, Ranks DEF JobPC, Status
    <2> QED  BY <1>1, <1>2, <1>4, <2>1, WriteStep
  <1> QED  BY <1>3, <1>4 DEF SaveSource

LEMMA AcquireStep ==
    ASSUME IndInv, NEW u \in Uploads, AcquireBuildSem(u)
    PROVE  IndInv' /\ Forward
  <1>1. TypeOK /\ UploadInv(u)
    BY DEF IndInv, LifeInv, SlotsMatchBuilders
  <1>2. /\ job[u].pc = "queued" /\ Goto(u, "build")
        /\ slots' = slots + 1 /\ slots < BuildSlots
        /\ UNCHANGED <<rows, accepted, container, runs>>
    BY DEF AcquireBuildSem, SlotFree
  <1>3. job'[u].pc = "build"
    BY <1>1, <1>2, JobMoved DEF JobPC
  <1>4. Ran(u)' = Ran(u)
    BY <1>2 DEF Ran
  <1>5. UploadInv(u)'
    BY <1>1, <1>2, <1>3, <1>4, Ranks DEF UploadInv
  <1>6. slots' \in 0 .. BuildSlots
    BY <1>1, <1>2, BuildSlotsAssumption DEF TypeOK
  <1>7. StatusRank[rows[u].status] \in 0 .. 5
    BY <1>1, Ranks DEF TypeOK
  <1> QED
    BY <1>1, <1>2, <1>5, <1>6, <1>7, JobStep DEF TypeOK, JobPC

LEMMA BuildStep ==
    ASSUME IndInv, NEW u \in Uploads, Build(u)
    PROVE  IndInv' /\ Forward
  <1>1. /\ job[u].pc = "build" /\ slots' = slots - 1
        /\ UNCHANGED <<accepted, container, runs>>
        /\ Kept(u) => Kept(u)'
    BY DEF Build, Release, GiveUp, Kept, Ran
  <1>2. /\ container' \in [Uploads -> Container]
        /\ slots' \in 0 .. BuildSlots /\ slots' = slots - 1 + 0
    <2>1. TypeOK /\ slots = Cardinality(Builders) /\ IsFiniteSet(Builders)
      BY DEF IndInv, LifeInv, SlotsMatchBuilders, Builders
    <2>2. u \in Builders
      BY <1>1 DEF Builders
    <2>3. slots # 0
      BY <2>1, <2>2, FS_EmptySet
    <2> QED  BY <1>1, <2>1, <2>3, BuildSlotsAssumption DEF TypeOK
  <1>3. CASE UpdateSubmissionStatus(u, "built", TRUE, FALSE) /\ Goto(u, "run")
    <2>1. /\ "run" \in JobPC \ {"none"} /\ "built" \in Status
          /\ Ceiling(job[u].pc) <= StatusRank["built"]
          /\ StatusRank["built"] <= Ceiling("run")
      BY <1>1, Ranks DEF JobPC, Status
    <2> QED  BY <1>1, <1>2, <1>3, <2>1, WriteStep
  <1>4. CASE UpdateSubmissionStatus(u, "failed", FALSE, FALSE) /\ Goto(u, "over")
    <2>1. /\ "over" \in JobPC \ {"none"} /\ "failed" \in Status
          /\ Ceiling(job[u].pc) <= StatusRank["failed"]
          /\ StatusRank["failed"] <= Ceiling("over")
      BY <1>1, Ranks DEF JobPC, Status
    <2> QED  BY <1>1, <1>2, <1>4, <2>1, WriteStep
  <1> QED  BY <1>3, <1>4 DEF Build, GiveUp

LEMMA StartStep ==
    ASSUME IndInv, NEW u \in Uploads, StartContainer(u)
    PROVE  IndInv' /\ Forward
  <1>1. TypeOK /\ UploadInv(u)
    BY DEF IndInv, LifeInv, SlotsMatchBuilders
  <1>2. /\ job[u].pc = "run" /\ UNCHANGED <<accepted, slots, runs>>
        /\ container' = container \/ container' = [container EXCEPT ![u] = "running"]
    BY DEF StartContainer
  <1>3. /\ container' \in [Uploads -> Container]
        /\ container'[u] = container[u] \/ container'[u] = "running"
        /\ \A x \in Uploads \ {u} : container'[x] = container[x]
        /\ slots' \in 0 .. BuildSlots /\ slots' = slots - 0 + 0
    BY <1>1, <1>2, BuildSlotsAssumption DEF TypeOK, Container
  <1>4. "health" \in JobPC \ {"none"} /\ "over" \in JobPC \ {"none"}
        /\ "failed" \in Status
        /\ Ceiling(job[u].pc) <= 3 /\ Ceiling(job[u].pc) <= StatusRank["failed"]
        /\ StatusRank["failed"] <= Ceiling("over")
    BY <1>2, Ranks DEF JobPC, Status
  <1>5. CASE /\ container' = [container EXCEPT ![u] = "running"]
             /\ Goto(u, "health") /\ UNCHANGED rows
    <2>1. Kept(u)' /\ rows'[u] = rows[u]
          /\ rows' \in [Uploads -> Row \cup {NoRow}]
      BY <1>1, <1>5 DEF TypeOK, Kept
    <2>2. job'[u].pc = "health"
      BY <1>1, <1>4, <1>5, JobMoved
    <2>3. UploadInv(u)'
      BY <1>1, <1>2, <2>1, <2>2, Ranks DEF UploadInv
    <2>4. StatusRank[rows'[u].status] >= StatusRank[rows[u].status]
      BY <1>1, <2>1, Ranks DEF TypeOK
    <2> QED  BY <1>2, <1>3, <1>4, <1>5, <2>1, <2>3, <2>4, JobStep
  <1>6. CASE UpdateSubmissionStatus(u, "failed", TRUE, FALSE) /\ Goto(u, "over")
    BY <1>2, <1>3, <1>4, <1>6, WriteStep
  <1> QED  BY <1>5, <1>6 DEF StartContainer

LEMMA HealthStep ==
    ASSUME IndInv, NEW u \in Uploads, WaitHealthy(u)
    PROVE  IndInv' /\ Forward
  <1>1. TypeOK /\ UploadInv(u)
    BY DEF IndInv, LifeInv, SlotsMatchBuilders
  <1>2. job[u].pc = "health" /\ UNCHANGED <<accepted, slots, runs>>
    BY DEF WaitHealthy
  <1>3. slots' \in 0 .. BuildSlots /\ slots' = slots - 0 + 0
    BY <1>1, <1>2, BuildSlotsAssumption DEF TypeOK
  <1>4. "announce" \in JobPC \ {"none"} /\ "over" \in JobPC \ {"none"}
        /\ "failed" \in Status
        /\ Ceiling(job[u].pc) <= 3 /\ Ceiling(job[u].pc) <= StatusRank["failed"]
        /\ StatusRank["failed"] <= Ceiling("over")
    BY <1>2, Ranks DEF JobPC, Status
  <1>5. CASE Goto(u, "announce") /\ UNCHANGED <<rows, container>>
    <2>1. job'[u].pc = "announce"
      BY <1>1, <1>4, <1>5, JobMoved
    <2>2. Kept(u)' = Kept(u)
      BY <1>2, <1>5 DEF Ran, Kept
    <2>3. UploadInv(u)'
      BY <1>1, <1>2, <1>5, <2>1, <2>2, Ranks DEF UploadInv
    <2>4. StatusRank[rows'[u].status] >= StatusRank[rows[u].status]
      BY <1>1, <1>5, Ranks DEF TypeOK
    <2> QED  BY <1>1, <1>2, <1>3, <1>4, <1>5, <2>3, <2>4, JobStep DEF TypeOK
  <1>6. CASE Unhealthy(u)
    <2>1. /\ container' \in [Uploads -> Container]
          /\ \A x \in Uploads \ {u} : container'[x] = container[x]
      BY <1>1, <1>6 DEF TypeOK, Container, Unhealthy, Stop, Stopped
    <2> QED  BY <1>2, <1>3, <1>4, <1>6, <2>1, WriteStep DEF Unhealthy
  <1> QED  BY <1>5, <1>6 DEF WaitHealthy

LEMMA AnnounceStep ==
    ASSUME IndInv, NEW u \in Uploads, Announce(u)
    PROVE  IndInv' /\ Forward
  <1>1. TypeOK /\ UploadInv(u)
    BY DEF IndInv, LifeInv, SlotsMatchBuilders
  <1>2. /\ job[u].pc = "announce" /\ UNCHANGED <<accepted, slots, container, runs>>
        /\ UpdateSubmissionStatus(u, "deployed", TRUE, TRUE) /\ Goto(u, "validate")
    BY DEF Announce
  <1>3. /\ container' \in [Uploads -> Container]
        /\ slots' \in 0 .. BuildSlots /\ slots' = slots - 0 + 0
    BY <1>1, <1>2, BuildSlotsAssumption DEF TypeOK
  <1>4. /\ "validate" \in JobPC \ {"none"} /\ "deployed" \in Status
        /\ Ceiling(job[u].pc) <= StatusRank["deployed"]
        /\ StatusRank["deployed"] <= Ceiling("validate")
    BY <1>2, Ranks DEF JobPC, Status
  <1>5. Kept(u)'
    BY <1>1, <1>2 DEF UploadInv, Kept, Ran
  <1> QED  BY <1>2, <1>3, <1>4, <1>5, WriteStep

LEMMA ValidateStep ==
    ASSUME IndInv, NEW u \in Uploads, Validate(u)
    PROVE  IndInv' /\ Forward
  <1>1. TypeOK /\ UploadInv(u)
    BY DEF IndInv, LifeInv, SlotsMatchBuilders
  <1>2. /\ job[u].pc = "validate" /\ UNCHANGED <<accepted, slots, container, runs>>
        /\ UpdateSubmissionCorrectness(u) /\ Goto(u, "over")
    BY DEF Validate
  <1>3. /\ container' \in [Uploads -> Container]
        /\ slots' \in 0 .. BuildSlots /\ slots' = slots - 0 + 0
    BY <1>1, <1>2, BuildSlotsAssumption DEF TypeOK
  <1>4. "over" \in JobPC
    BY DEF JobPC
  <1>5. job'[u].pc = "over" /\ Kept(u)' = Kept(u)
    BY <1>1, <1>2, <1>4, JobMoved DEF Ran, Kept
  <1>6. /\ rows' \in [Uploads -> Row \cup {NoRow}]
        /\ \A x \in Uploads \ {u} : rows'[x] = rows[x]
        /\ rows'[u].status = rows[u].status
        /\ rows'[u].tag = rows[u].tag /\ rows'[u].endpoint = rows[u].endpoint
        /\ (rows'[u] = NoRow) = (rows[u] = NoRow)
    BY <1>1, <1>2, ScoreWritten
  <1>7. StatusRank[rows[u].status] \in 0 .. 5
    BY <1>1, Ranks DEF TypeOK
  <1>8. UploadInv(u)'
    BY <1>1, <1>2, <1>5, <1>6, <1>7, Ranks DEF UploadInv
  <1> QED  BY <1>2, <1>3, <1>4, <1>6, <1>7, <1>8, JobStep

LEMMA ExpireStep ==
    ASSUME IndInv, NEW u \in Uploads, ContextExpires(u)
    PROVE  IndInv' /\ Forward
  <1>1. TypeOK /\ \A x \in Uploads : UploadInv(x)
    BY DEF IndInv, LifeInv, SlotsMatchBuilders
  <1>2. UNCHANGED <<rows, accepted, slots, container, runs>>
    BY DEF ContextExpires
  <1>3. job' \in [Uploads -> Job] /\ \A x \in Uploads : job'[x].pc = job[x].pc
    <2> DEFINE q == [job[u] EXCEPT !.ctxDone = TRUE]
    <2>1. job[u] \in Job /\ job \in [Uploads -> Job]
      BY <1>1 DEF TypeOK
    <2>2. q \in Job /\ q.pc = job[u].pc
      BY <2>1 DEF Job
    <2>3. job' = [job EXCEPT ![u] = q]
      BY DEF ContextExpires
    <2> HIDE DEF q
    <2> QED  BY <2>1, <2>2, <2>3
  <1>4. \A x \in Uploads : UploadInv(x)'
    <2>1. \A x \in Uploads : Kept(x) => Kept(x)'
      BY <1>2 DEF Ran, Kept
    <2> QED  BY <1>1, <1>2, <1>3, <2>1, UploadKept
  <1>5. Builders' = Builders
    BY <1>3 DEF Builders
  <1>6. Forward
    BY <1>1, <1>2, Ranks DEF Forward, TypeOK
  <1> QED
    BY <1>1, <1>2, <1>3, <1>4, <1>5, <1>6
    DEF IndInv, LifeInv, SlotsMatchBuilders, TypeOK, Builders

\* startRun, the bot fleet, the summary listener: Cleanup alone stops a
\* container, of a submission whose run has then ended.
LEMMA RunSteps ==
    ASSUME IndInv, NEW k \in RunIds,
           \/ \E u \in Uploads : CheckSubmission(k, u)
           \/ InsertRun(k) \/ EndRun(k) \/ Listener(k) \/ Redeliver(k)
    PROVE  IndInv' /\ Forward
  <1>1. TypeOK
    BY DEF IndInv, LifeInv, SlotsMatchBuilders
  <1>2. CASE \E u \in Uploads : CheckSubmission(k, u)
    <2>1. PICK u \in Uploads : CheckSubmission(k, u)
      BY <1>2
    <2> DEFINE q == [sub |-> u, row |-> FALSE, pc |-> "checked"]
    <2>2. q \in Run
      BY DEF Run
    <2>3. runs' = [runs EXCEPT ![k] = q] /\ runs[k] = NoRun
      BY <2>1 DEF CheckSubmission
    <2> HIDE DEF q
    <2> QED  BY <1>1, <2>1, <2>2, <2>3, RunStep DEF CheckSubmission, TypeOK
  <1>3. ASSUME runs[k] # NoRun,
               NEW pc \in {"refused", "active", "ended", "taken", "cleaned", "missed"},
               NEW r \in Run, r.sub = runs[k].sub, r.pc = pc,
               runs' = [runs EXCEPT ![k] = r],
               runs[k].pc \in AfterRun => pc \in AfterRun
        PROVE  /\ runs' \in [RunIds -> Run \cup {NoRun}]
               /\ \A x \in RunIds : runs[x] # NoRun /\ runs[x].pc \in AfterRun =>
                     /\ runs'[x] # NoRun /\ runs'[x].sub = runs[x].sub
                     /\ runs'[x].pc \in AfterRun
    BY <1>1, <1>3, RecordsApart DEF TypeOK
  <1>4. CASE InsertRun(k)
    <2> DEFINE p == [runs[k] EXCEPT !.pc = "active"]
               q == [p EXCEPT !.row = TRUE]
               r == [runs[k] EXCEPT !.pc = "refused"]
    <2>1. runs[k] \in Run /\ runs[k] # NoRun /\ runs[k].pc = "checked"
      BY <1>1, <1>4 DEF InsertRun, TypeOK, NoRun
    <2>2. p \in Run /\ p.sub = runs[k].sub /\ p.pc = "active"
      BY <2>1 DEF Run
    <2>3. r \in Run /\ r.sub = runs[k].sub /\ r.pc = "refused"
      BY <2>1 DEF Run
    <2>4. runs' = [runs EXCEPT ![k] = r] \/ runs' = [runs EXCEPT ![k] = q]
      BY <1>4, <2>1 DEF InsertRun
    <2> HIDE DEF p, r
    <2>5. q \in Run /\ q.sub = runs[k].sub /\ q.pc = "active"
      BY <2>2 DEF Run
    <2> HIDE DEF q
    <2>6. runs[k].pc \notin AfterRun
      BY <2>1 DEF AfterRun
    <2> QED  BY <1>1, <1>3, <1>4, <2>1, <2>3, <2>4, <2>5, <2>6, RunStep DEF InsertRun, TypeOK
  <1>5. ASSUME NEW pc \in {"ended", "taken", "cleaned", "missed"},
               runs[k] # NoRun, runs' = [runs EXCEPT ![k].pc = pc]
        PROVE  /\ runs' \in [RunIds -> Run \cup {NoRun}]
               /\ \A x \in RunIds : runs[x] # NoRun /\ runs[x].pc \in AfterRun =>
                     /\ runs'[x] # NoRun /\ runs'[x].sub = runs[x].sub
                     /\ runs'[x].pc \in AfterRun
    BY <1>1, <1>5, RunMoved DEF AfterRun
  <1>6. CASE EndRun(k)
    BY <1>1, <1>5, <1>6, RunStep DEF EndRun, NoRun, TypeOK
  <1>7. CASE TakeSummary(k)
    BY <1>1, <1>5, <1>7, RunStep DEF TakeSummary, NoRun, TypeOK
  <1>8. CASE Redeliver(k)
    BY <1>1, <1>5, <1>8, RunStep DEF Redeliver, NoRun, TypeOK
  <1>9. CASE Cleanup(k)
    <2>1. runs[k] # NoRun /\ runs[k] \in Run
      BY <1>1, <1>9 DEF Cleanup, NoRun, TypeOK
    <2>2. PICK pc \in {"cleaned", "missed"} : runs' = [runs EXCEPT ![k].pc = pc]
      BY <1>9 DEF Cleanup
    <2>3. /\ container' \in [Uploads -> Container]
          /\ \A u \in Uploads :
                \/ container'[u] = container[u]
                \/ container'[u] = "stopped" /\ u = runs[k].sub
      <3>1. runs[k].sub \in Uploads /\ container \in [Uploads -> Container]
        BY <1>1, <2>1 DEF Run, TypeOK
      <3>2. CASE container' = container
        BY <3>1, <3>2
      <3>3. CASE container' = Stopped(runs[k].sub)
        BY <3>1, <3>3 DEF Stopped, Container
      <3> QED  BY <1>9, <3>2, <3>3 DEF Cleanup
    <2>4. UNCHANGED <<rows, job, accepted, slots>>
      BY <1>9 DEF Cleanup
    <2>5. /\ runs' \in [RunIds -> Run \cup {NoRun}]
          /\ \A x \in RunIds : runs[x] # NoRun /\ runs[x].pc \in AfterRun =>
                /\ runs'[x] # NoRun /\ runs'[x].sub = runs[x].sub
                /\ runs'[x].pc \in AfterRun
      BY <1>5, <2>1, <2>2
    <2>6. ASSUME NEW u \in Uploads, u = runs[k].sub PROVE Ran(u)'
      BY <1>1, <2>1, <2>2, <2>6, RunMoved DEF Ran
    <2>7. \A u \in Uploads :
             \/ container'[u] = container[u]
             \/ container'[u] = "stopped" /\ Ran(u)'
      BY <2>3, <2>6
    <2> QED  BY <2>3, <2>4, <2>5, <2>7, RunStep
  <1> QED  BY <1>2, <1>4, <1>6, <1>7, <1>8, <1>9 DEF Listener

LEMMA ResetStep ==
    ASSUME IndInv, ResetPlatform
    PROVE  IndInv' /\ Forward
  <1>1. TypeOK /\ \A x \in Uploads : UploadInv(x)
    BY DEF IndInv, LifeInv, SlotsMatchBuilders
  <1>2. /\ rows' = [u \in Uploads |-> NoRow]
        /\ runs' = [k \in RunIds |-> IF runs[k] = NoRun THEN NoRun
                                     ELSE [runs[k] EXCEPT !.row = FALSE]]
        /\ UNCHANGED <<job, accepted, slots, container>>
    BY DEF ResetPlatform
  <1>3. \A k \in RunIds :
           \/ runs[k] = NoRun /\ runs'[k] = NoRun
           \/ /\ runs'[k] \in Run /\ runs'[k] # NoRun
              /\ runs'[k].sub = runs[k].sub /\ runs'[k].pc = runs[k].pc
    <2> SUFFICES ASSUME NEW k \in RunIds, runs[k] # NoRun
                 PROVE  /\ runs'[k] \in Run /\ runs'[k] # NoRun
                        /\ runs'[k].sub = runs[k].sub /\ runs'[k].pc = runs[k].pc
      BY <1>2
    <2>1. runs[k] \in Run /\ runs'[k] = [runs[k] EXCEPT !.row = FALSE]
      BY <1>1, <1>2 DEF TypeOK
    <2> QED  BY <2>1, RecordsApart DEF Run
  <1>4. runs' \in [RunIds -> Run \cup {NoRun}]
    <2>1. runs' = [k \in RunIds |-> runs'[k]]
      BY <1>2
    <2> QED  BY <1>3, <2>1
  <1>5. \A u \in Uploads : Kept(u) => Kept(u)'
    BY <1>2, <1>3, RanKept DEF Kept
  <1>6. \A u \in Uploads : UploadInv(u)'
    <2> SUFFICES ASSUME NEW u \in Uploads PROVE UploadInv(u)'
      OBVIOUS
    <2>1. rows'[u] = NoRow /\ NoRow.status = "none" /\ Ceiling(job[u].pc) \in 0 .. 5
      BY <1>1, <1>2, Ranks DEF TypeOK, Job, JobPC, NoRow
    <2> QED  BY <1>1, <1>2, <1>5, <2>1, Ranks DEF UploadInv
  <1>7. Forward
    BY <1>2 DEF Forward
  <1> QED
    BY <1>1, <1>2, <1>4, <1>6, <1>7
    DEF IndInv, LifeInv, SlotsMatchBuilders, TypeOK, Builders

\* The process dies with every job and every token; what it leaves behind is
\* what the next process finds.
LEMMA CrashStep ==
    ASSUME IndInv, Crash
    PROVE  IndInv' /\ Forward
  <1>1. TypeOK /\ \A x \in Uploads : UploadInv(x)
    BY DEF IndInv, LifeInv, SlotsMatchBuilders
  <1>2. UNCHANGED <<rows, accepted, container>> /\ slots' = 0
    BY DEF Crash
  <1>3. /\ job' \in [Uploads -> Job]
        /\ \A u \in Uploads :
              \/ job'[u] = job[u] /\ job[u].pc \in {"none", "over"}
              \/ job[u].pc # "none" /\ job'[u].pc = "over"
    BY <1>1 DEF Crash, Working, TypeOK, Job, JobPC
  <1>4. \A k \in RunIds :
           \/ runs'[k] = runs[k]
           \/ /\ runs'[k] \in Run /\ runs'[k] # NoRun
              /\ runs'[k].sub = runs[k].sub /\ runs[k].pc = "taken"
              /\ runs'[k].pc = "missed"
           \/ /\ runs'[k] \in Run /\ runs'[k] # NoRun
              /\ runs[k].pc = "checked"
    <2> SUFFICES ASSUME NEW k \in RunIds, runs[k].pc \in {"taken", "checked"}
                 PROVE  \/ /\ runs'[k] \in Run /\ runs'[k] # NoRun
                           /\ runs'[k].sub = runs[k].sub /\ runs[k].pc = "taken"
                           /\ runs'[k].pc = "missed"
                        \/ /\ runs'[k] \in Run /\ runs'[k] # NoRun
                           /\ runs[k].pc = "checked"
      BY DEF Crash
    <2>1. runs[k] \in Run
      BY <1>1 DEF TypeOK, NoRun
    <2>2. CASE runs[k].pc = "taken"
      <3>1. runs'[k] = [runs[k] EXCEPT !.pc = "missed"]
        BY <2>2 DEF Crash
      <3> QED  BY <2>1, <2>2, <3>1, RecordsApart DEF Run
    <2>3. CASE runs[k].pc = "checked"
      <3>1. runs'[k] = [runs[k] EXCEPT !.pc = "refused"]
        BY <2>3 DEF Crash
      <3> QED  BY <2>1, <2>3, <3>1, RecordsApart DEF Run
    <2> QED  BY <2>2, <2>3
  <1>5. runs' \in [RunIds -> Run \cup {NoRun}]
    <2>1. runs' = [k \in RunIds |-> runs'[k]]
      BY DEF Crash
    <2> QED  BY <1>1, <1>4, <2>1 DEF TypeOK
  <1>6. \A u \in Uploads : Kept(u) => Kept(u)'
    BY <1>2, <1>4, RanKept DEF AfterRun, Kept
  <1>7. \A u \in Uploads : UploadInv(u)'
    <2> SUFFICES ASSUME NEW u \in Uploads PROVE UploadInv(u)'
      OBVIOUS
    <2>1. StatusRank[rows[u].status] \in 0 .. 5
      BY <1>1, Ranks DEF TypeOK
    <2> QED  BY <1>1, <1>2, <1>3, <1>6, <2>1, Ranks DEF UploadInv
  <1>8. Builders' = {} /\ slots' \in 0 .. BuildSlots
    BY <1>2, <1>3, BuildSlotsAssumption DEF Builders
  <1>9. IsFiniteSet(Builders)' /\ slots' = Cardinality(Builders)'
    BY <1>2, <1>8, FS_EmptySet
  <1>10. Forward
    BY <1>1, <1>2, Ranks DEF Forward, TypeOK
  <1> QED
    BY <1>1, <1>2, <1>3, <1>5, <1>7, <1>8, <1>9, <1>10
    DEF IndInv, LifeInv, SlotsMatchBuilders, TypeOK, Builders

\* An engine that ends by itself was not stopped by the gateway.
LEMMA ExitStep ==
    ASSUME IndInv, NEW u \in Uploads, ContainerExits(u)
    PROVE  IndInv' /\ Forward
  <1>1. TypeOK /\ \A x \in Uploads : UploadInv(x)
    BY DEF IndInv, LifeInv, SlotsMatchBuilders
  <1>2. /\ UNCHANGED <<rows, job, accepted, slots, runs>>
        /\ container' = [container EXCEPT ![u] = "exited"]
    BY DEF ContainerExits
  <1>3. container' \in [Uploads -> Container]
    BY <1>1, <1>2 DEF TypeOK, Container
  <1>4. \A x \in Uploads : Kept(x) => Kept(x)'
    BY <1>1, <1>2 DEF Ran, Kept, TypeOK
  <1>5. \A x \in Uploads : UploadInv(x)'
    BY <1>1, <1>2, <1>4, UploadKept
  <1>6. Forward
    BY <1>1, <1>2, Ranks DEF Forward, TypeOK
  <1> QED
    BY <1>1, <1>2, <1>3, <1>5, <1>6
    DEF IndInv, LifeInv, SlotsMatchBuilders, TypeOK, Builders

LEMMA NextStep ==
    ASSUME IndInv, [Next]_vars
    PROVE  IndInv' /\ (Forward \/ UNCHANGED vars)
  <1>1. CASE UNCHANGED vars
    <2>1. \A u \in Uploads : UploadInv(u)'
      BY <1>1, UploadKept DEF IndInv, LifeInv, vars, Ran, Kept
    <2> QED
      BY <1>1, <2>1 DEF IndInv, LifeInv, SlotsMatchBuilders, TypeOK, Builders, vars
  <1>2. ASSUME NEW u \in Uploads, Deploy(u)
        PROVE  IndInv' /\ Forward
    BY <1>2, SaveStep, AcquireStep, BuildStep, StartStep, HealthStep, AnnounceStep,
       ValidateStep DEF Deploy
  <1> QED
    BY <1>1, <1>2, CreateStep, ExpireStep, ExitStep, RunSteps, ResetStep, CrashStep DEF Next

-----------------------------------------------------------------------------

LEMMA LifeInvariant == Spec => []IndInv
  <1>1. Init => IndInv
    BY InitStep
  <1>2. IndInv /\ [Next]_vars => IndInv'
    BY NextStep
  <1> QED  BY <1>1, <1>2, PTL DEF Spec

\* The tokens in buildSem are the jobs inside docker build, in every state: no
\* error path of buildAndDeploy and no crash leaks one.
THEOREM SlotsCounted == Spec => []SlotsMatchBuilders
  <1>1. IndInv => SlotsMatchBuilders
    BY DEF IndInv, LifeInv
  <1> QED  BY <1>1, LifeInvariant, PTL

\* A row that says "deployed" has the image, the endpoint and the container of
\* its own job, which the gateway has not stopped before a run of it ended:
\* whatever uploads of the same source, resets, faults and crashes come in
\* between, and whether or not the engine has exited.
THEOREM EngineKept == Spec => []DeployedIsKept
  <1>1. IndInv => DeployedIsKept
    BY DEF IndInv, LifeInv, UploadInv, DeployedIsKept
  <1> QED  BY <1>1, LifeInvariant, PTL

\* A row's status never goes back but for a new upload or a reset.
THEOREM StatusForward == Spec => StatusMovesForward
  <1>1. IndInv /\ [Next]_vars =>
          [\A u \in Uploads :
              \/ StatusRank[rows'[u].status] >= StatusRank[rows[u].status]
              \/ rows'[u].status = "uploaded" /\ accepted' # accepted
              \/ rows'[u] = NoRow]_vars
    BY NextStep DEF Forward
  <1> QED  BY <1>1, LifeInvariant, PTL DEF Spec, StatusMovesForward
================================================================================
