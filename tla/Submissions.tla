------------------------------ MODULE Submissions ------------------------------
(***************************************************************************)
(* The submission life cycle of the gateway: upload, build, deploy,        *)
(* validate (internal/api/handlers.go, internal/store/store.go,            *)
(* internal/sandbox/sandbox.go), the check startRun makes of a submission, *)
(* the summary listener that removes the engine's container after a run    *)
(* (cmd/main.go), and the judge's reset of the platform.                   *)
(*                                                                         *)
(*   rows        upload id -> its row of the table submissions, or NoRow   *)
(*   job         upload id -> the goroutine buildAndDeploy of that upload: *)
(*               where it is and whether its five-minute context has ended *)
(*   accepted    the upload ids answered with 202                          *)
(*   slots       tokens in the channel buildSem                            *)
(*   container   upload id -> the container its job started: running,      *)
(*               exited by itself, or stopped and removed by the gateway   *)
(*   runs        run id -> the submission the run drives, whether its row  *)
(*               is in the table runs, and how far it has got              *)
(***************************************************************************)
EXTENDS Integers, FiniteSets

CONSTANTS
    Uploads,      \* submission ids handed out by newID
    Sources,      \* (team_id, hash) pairs
    RunIds,       \* run ids handed out by newID
    BuildSlots,   \* capacity of buildSem
    Faults,       \* what may go wrong outside the gateway's own code
    Resets        \* does the judge reset the platform?

ASSUME BuildSlotsAssumption == BuildSlots \in Nat \ {0}
ASSUME FaultsAssumption ==
    Faults \subseteq {"db", "docker", "exit", "crash", "redeliver"}
ASSUME ResetsAssumption == Resets \in BOOLEAN

VARIABLES rows, job, accepted, slots, container, runs

vars == <<rows, job, accepted, slots, container, runs>>

-----------------------------------------------------------------------------

Status == {"uploaded", "building", "built", "deployed", "failed"}

\* image_tag and endpoint are '' or the ones the upload's own job produced;
\* correctness is NULL or the oracle's result.
Row == [src : Sources, status : Status, tag : BOOLEAN, endpoint : BOOLEAN,
        score : BOOLEAN]
NoRow == [status |-> "none"]

JobPC == {"none", "save", "queued", "build", "run", "health", "announce",
          "validate", "over"}
Job == [pc : JobPC, ctxDone : BOOLEAN]

Container == {"none", "running", "exited", "stopped"}

\* Checked: startRun has read the submission.  Ended: the summary is on the
\* stream.  Taken: the listener holds it, acknowledged.  Missed: a failure
\* outside the gateway's code, or its death, cost the clean-up.
Run == [sub : Uploads, row : BOOLEAN,
        pc : {"checked", "refused", "active", "ended", "taken", "cleaned", "missed"}]
NoRun == [pc |-> "idle"]

\* The goroutine is executing buildAndDeploy.
Working(u) == job[u].pc \notin {"none", "over"}

TypeOK ==
    /\ rows \in [Uploads -> Row \cup {NoRow}]
    /\ job \in [Uploads -> Job]
    /\ accepted \subseteq Uploads
    /\ slots \in 0 .. BuildSlots
    /\ container \in [Uploads -> Container]
    /\ runs \in [RunIds -> Run \cup {NoRun}]

Init ==
    /\ rows = [u \in Uploads |-> NoRow]
    /\ job = [u \in Uploads |-> [pc |-> "none", ctxDone |-> FALSE]]
    /\ accepted = {}
    /\ slots = 0
    /\ container = [u \in Uploads |-> "none"]
    /\ runs = [k \in RunIds |-> NoRun]

-----------------------------------------------------------------------------
(* store.go                                                                *)

\* ON CONFLICT (team_id, hash) DO UPDATE SET status, image_tag, endpoint: the
\* row that is there keeps its id and its correctness.
OnConflict(row) ==
    [row EXCEPT !.status = "uploaded", !.tag = FALSE, !.endpoint = FALSE]

\* InsertSubmission.
Inserted(u, src) ==
    LET clash == {x \in Uploads : rows[x] # NoRow /\ rows[x].src = src}
    IN  IF clash = {}
        THEN [rows EXCEPT ![u] = [src |-> src, status |-> "uploaded",
                                  tag |-> FALSE, endpoint |-> FALSE,
                                  score |-> FALSE]]
        ELSE [x \in Uploads |-> IF x \in clash THEN OnConflict(rows[x])
                                ELSE rows[x]]

\* A statement on the row of u, sent under the job's context.  Every caller
\* ignores its error: the write is lost when the context has ended or the
\* database is away.
Written(u, row) ==
    \/ /\ ~job[u].ctxDone
       /\ rows' = IF rows[u] = NoRow THEN rows ELSE [rows EXCEPT ![u] = row]
    \/ /\ job[u].ctxDone \/ "db" \in Faults
       /\ rows' = rows

\* UpdateSubmissionStatus: an empty tag or endpoint leaves the old one.
UpdateSubmissionStatus(u, status, tag, endpoint) ==
    Written(u, IF rows[u] = NoRow THEN NoRow
               ELSE [rows[u] EXCEPT !.status = status,
                                    !.tag = @ \/ tag,
                                    !.endpoint = @ \/ endpoint])

UpdateSubmissionCorrectness(u) ==
    Written(u, IF rows[u] = NoRow THEN NoRow
               ELSE [rows[u] EXCEPT !.score = TRUE])

-----------------------------------------------------------------------------
(* sandbox.go, as far as containers go.                                    *)

\* Fault: the container is left running.
NothingStopped(u) == container

\* Stop: docker stop, then docker rm --force, which also removes a container
\* that has exited.
Stopped(u) == [container EXCEPT ![u] = IF @ = "none" THEN @ ELSE "stopped"]

\* Its callers ignore the error.
Stop(u) ==
    \/ container' = Stopped(u)
    \/ "docker" \in Faults /\ container' = container

-----------------------------------------------------------------------------
(* handlers.go: createSubmission and buildAndDeploy                        *)

Goto(u, pc) == job' = [job EXCEPT ![u].pc = pc]

\* Insert, spawn the goroutine, answer 202 with the new id.
CreateSubmission(u, src) ==
    /\ u \notin accepted
    /\ rows' = Inserted(u, src)
    /\ accepted' = accepted \cup {u}
    /\ Goto(u, "save")
    /\ UNCHANGED <<slots, container, runs>>

SaveSource(u) ==
    /\ job[u].pc = "save"
    /\ \/ /\ UpdateSubmissionStatus(u, "building", FALSE, FALSE)
          /\ Goto(u, "queued")
       \/ /\ UpdateSubmissionStatus(u, "failed", FALSE, FALSE)
          /\ Goto(u, "over")
    /\ UNCHANGED <<accepted, slots, container, runs>>

\* A send on buildSem does not block.
SlotFree == slots < BuildSlots

\* buildSem <- struct{}{}: waits for a token, whatever became of the context.
AcquireBuildSem(u) ==
    /\ job[u].pc = "queued"
    /\ SlotFree
    /\ slots' = slots + 1
    /\ Goto(u, "build")
    /\ UNCHANGED <<rows, accepted, container, runs>>

\* Fault: the token is kept when the build fails.
ReleaseOnSuccess(ok) == slots' = IF ok THEN slots - 1 ELSE slots

\* <-buildSem follows Build whether or not it failed.
Release(ok) == slots' = slots - 1

\* Fault: the handler goes on after a failed build.
CarryOn(u) ==
    /\ UpdateSubmissionStatus(u, "failed", FALSE, FALSE)
    /\ Goto(u, "run")

\* A failed build is recorded and ends the job.
GiveUp(u) ==
    /\ UpdateSubmissionStatus(u, "failed", FALSE, FALSE)
    /\ Goto(u, "over")

\* docker build runs under the context: it cannot succeed once that has ended.
Build(u) ==
    /\ job[u].pc = "build"
    /\ \/ /\ ~job[u].ctxDone
          /\ Release(TRUE)
          /\ UpdateSubmissionStatus(u, "built", TRUE, FALSE)
          /\ Goto(u, "run")
       \/ /\ Release(FALSE)
          /\ GiveUp(u)
    /\ UNCHANGED <<accepted, container, runs>>

\* docker run --detach.  When the client is killed with the context, or loses
\* the daemon, the container may have been started all the same.
StartContainer(u) ==
    /\ job[u].pc = "run"
    /\ \/ /\ ~job[u].ctxDone
          /\ container' = [container EXCEPT ![u] = "running"]
          /\ Goto(u, "health")
          /\ UNCHANGED rows
       \/ /\ \/ UNCHANGED container
             \/ /\ job[u].ctxDone \/ "docker" \in Faults
                /\ container' = [container EXCEPT ![u] = "running"]
          /\ UpdateSubmissionStatus(u, "failed", TRUE, FALSE)
          /\ Goto(u, "over")
    /\ UNCHANGED <<accepted, slots, runs>>

\* Fault: an engine that is not healthy is stopped, but Run does not fail.
UnhealthyAccepted(u) ==
    /\ Stop(u)
    /\ Goto(u, "announce")
    /\ UNCHANGED rows

\* The container exits, is not healthy in 30 s, or the context ends: Stop,
\* under a context of its own, and Run fails.
Unhealthy(u) ==
    /\ Stop(u)
    /\ UpdateSubmissionStatus(u, "failed", TRUE, FALSE)
    /\ Goto(u, "over")

\* docker inspect is asked until it finds the container running and healthy.
WaitHealthy(u) ==
    /\ job[u].pc = "health"
    /\ \/ /\ ~job[u].ctxDone
          /\ container[u] = "running"
          /\ Goto(u, "announce")
          /\ UNCHANGED <<rows, container>>
       \/ Unhealthy(u)
    /\ UNCHANGED <<accepted, slots, runs>>

\* The engine ends by itself, or is killed at its memory limit.  It is run
\* with --restart no, and after waitHealthy nobody watches it.
ContainerExits(u) ==
    /\ "exit" \in Faults
    /\ container[u] = "running"
    /\ container' = [container EXCEPT ![u] = "exited"]
    /\ UNCHANGED <<rows, job, accepted, slots, runs>>

\* The row says "deployed" before the oracle has looked at the engine.
Announce(u) ==
    /\ job[u].pc = "announce"
    /\ UpdateSubmissionStatus(u, "deployed", TRUE, TRUE)
    /\ Goto(u, "validate")
    /\ UNCHANGED <<accepted, slots, container, runs>>

Validate(u) ==
    /\ job[u].pc = "validate"
    /\ UpdateSubmissionCorrectness(u)
    /\ Goto(u, "over")
    /\ UNCHANGED <<accepted, slots, container, runs>>

\* context.WithTimeout(5*time.Minute) expires.
ContextExpires(u) ==
    /\ Working(u)
    /\ ~job[u].ctxDone
    /\ job' = [job EXCEPT ![u].ctxDone = TRUE]
    /\ UNCHANGED <<rows, accepted, slots, container, runs>>

-----------------------------------------------------------------------------
(* Runs, as far as they touch submissions.                                 *)

\* startRun: GetSubmission finds the row, and its status is "deployed".
CheckSubmission(k, u) ==
    /\ runs[k] = NoRun
    /\ rows[u] # NoRow
    /\ rows[u].status = "deployed"
    /\ runs' = [runs EXCEPT ![k] = [sub |-> u, row |-> FALSE, pc |-> "checked"]]
    /\ UNCHANGED <<rows, job, accepted, slots, container>>

\* InsertRun, then the start command: what was read of the submission may be
\* stale by now.  The foreign key refuses a submission that is gone.
InsertRun(k) ==
    /\ runs[k].pc = "checked"
    /\ runs' = [runs EXCEPT ![k] =
                   IF rows[runs[k].sub] = NoRow
                   THEN [@ EXCEPT !.pc = "refused"]
                   ELSE [@ EXCEPT !.pc = "active", !.row = TRUE]]
    /\ UNCHANGED <<rows, job, accepted, slots, container>>

\* The bot fleet publishes the run's summary (module BotFleet).
EndRun(k) ==
    /\ runs[k].pc = "active"
    /\ runs' = [runs EXCEPT ![k].pc = "ended"]
    /\ UNCHANGED <<rows, job, accepted, slots, container>>

\* The durable summary listener acknowledges first ...
TakeSummary(k) ==
    /\ runs[k].pc = "ended"
    /\ runs' = [runs EXCEPT ![k].pc = "taken"]
    /\ UNCHANGED <<rows, job, accepted, slots, container>>

\* The container's name can be read off the row's endpoint.
Named(u) == rows[u] # NoRow /\ rows[u].endpoint

\* ... then looks the container up through the run and the submission, and
\* stops it.  A missing row or an empty endpoint stops nothing, and so does a
\* query or a docker command that fails; the submission row is not touched.
Cleanup(k) ==
    /\ runs[k].pc = "taken"
    /\ \/ /\ container' = IF runs[k].row /\ Named(runs[k].sub)
                           THEN Stopped(runs[k].sub) ELSE container
          /\ runs' = [runs EXCEPT ![k].pc = "cleaned"]
       \/ /\ Faults \cap {"db", "docker"} # {}
          /\ runs' = [runs EXCEPT ![k].pc = "missed"]
          /\ UNCHANGED container
    /\ UNCHANGED <<rows, job, accepted, slots>>

\* The acknowledgement was lost: the stream delivers the summary again.
Redeliver(k) ==
    /\ "redeliver" \in Faults
    /\ runs[k].pc \in {"cleaned", "missed"}
    /\ runs' = [runs EXCEPT ![k].pc = "ended"]
    /\ UNCHANGED <<rows, job, accepted, slots, container>>

-----------------------------------------------------------------------------

\* resetPlatform: TRUNCATE runs, submissions.  Jobs and containers go on.
ResetPlatform ==
    /\ Resets
    /\ \E u \in Uploads : rows[u] # NoRow
    /\ rows' = [u \in Uploads |-> NoRow]
    /\ runs' = [k \in RunIds |-> IF runs[k] = NoRun THEN NoRun
                                 ELSE [runs[k] EXCEPT !.row = FALSE]]
    /\ UNCHANGED <<job, accepted, slots, container>>

\* The process dies: the goroutines and the semaphore go with it, rows and
\* containers stay.  An acknowledged summary is not delivered again.
Crash ==
    /\ "crash" \in Faults
    /\ \/ \E u \in Uploads : Working(u)
       \/ \E k \in RunIds : runs[k].pc \in {"checked", "taken"}
    /\ job' = [u \in Uploads |-> IF Working(u) THEN [pc |-> "over", ctxDone |-> TRUE]
                                 ELSE job[u]]
    /\ slots' = 0
    /\ runs' = [k \in RunIds |->
                  CASE runs[k].pc = "taken" -> [runs[k] EXCEPT !.pc = "missed"]
                    [] runs[k].pc = "checked" -> [runs[k] EXCEPT !.pc = "refused"]
                    [] OTHER -> runs[k]]
    /\ UNCHANGED <<rows, accepted, container>>

-----------------------------------------------------------------------------

Deploy(u) ==
    \/ SaveSource(u)
    \/ AcquireBuildSem(u)
    \/ Build(u)
    \/ StartContainer(u)
    \/ WaitHealthy(u)
    \/ Announce(u)
    \/ Validate(u)

Listener(k) == TakeSummary(k) \/ Cleanup(k)

Next ==
    \/ \E u \in Uploads, src \in Sources : CreateSubmission(u, src)
    \/ \E u \in Uploads : Deploy(u) \/ ContextExpires(u) \/ ContainerExits(u)
    \/ \E k \in RunIds, u \in Uploads : CheckSubmission(k, u)
    \/ \E k \in RunIds : InsertRun(k) \/ EndRun(k) \/ Listener(k) \/ Redeliver(k)
    \/ ResetPlatform
    \/ Crash

Spec == Init /\ [][Next]_vars

\* Goroutines run; senders blocked on buildSem are served in turn, so a job
\* that finds a free token again and again takes one; deadlines pass; the
\* stream delivers what is not acknowledged.
FairSpec ==
    /\ Spec
    /\ \A u \in Uploads : /\ WF_vars(Deploy(u))
                          /\ SF_vars(AcquireBuildSem(u))
                          /\ WF_vars(ContextExpires(u))
    /\ \A k \in RunIds : WF_vars(InsertRun(k) \/ EndRun(k)) /\ WF_vars(Listener(k))

-----------------------------------------------------------------------------
(* Properties.                                                             *)

\* The tokens in buildSem are exactly the jobs inside docker build: no path
\* through buildAndDeploy, and no crash, keeps or invents one.  Stated with
\* the types of the variables.
SlotsMatchBuilders ==
    /\ TypeOK
    /\ slots = Cardinality({u \in Uploads : job[u].pc = "build"})

\* A run of the submission has come to its end.
Ran(u) ==
    \E k \in RunIds : /\ runs[k] # NoRun /\ runs[k].sub = u
                      /\ runs[k].pc \in {"cleaned", "ended", "taken", "missed"}

\* The job of u started a container, and the gateway has left it alone but for
\* the clean-up after a run; that it exits by itself is another matter.
Kept(u) == container[u] # "none" /\ (container[u] = "stopped" => Ran(u))

\* A row that says "deployed" stands for an engine its own job built, started
\* and found healthy: it has an image and an endpoint, even when a second
\* upload of the same source rewrites it under a running job, and whatever
\* fails, expires or is delivered twice, the gateway stops the container only
\* after a run of that submission.
DeployedIsKept ==
    \A u \in Uploads :
        rows[u].status = "deployed" =>
            rows[u].tag /\ rows[u].endpoint /\ Kept(u)

StatusRank == [none |-> 0, uploaded |-> 1, building |-> 2, built |-> 3,
               deployed |-> 4, failed |-> 5]

\* How far the row may have got when the job is at pc.
Ceiling(pc) ==
    CASE pc = "none" -> 0
      [] pc = "save" -> 1
      [] pc \in {"queued", "build"} -> 2
      [] pc \in {"run", "health", "announce"} -> 3
      [] OTHER -> 5

\* The row of an upload never runs ahead of its job, whatever other uploads of
\* the same source and resets do to it, and the job has a container from the
\* moment it waits for it.  With the next definition, the invariant that
\* carries the proofs of DeployedIsKept and StatusMovesForward.
UploadInv(u) ==
    /\ u \notin accepted => job[u].pc = "none"
    /\ job[u].pc = "none" => rows[u] = NoRow
    /\ StatusRank[rows[u].status] <= Ceiling(job[u].pc)
    /\ job[u].pc \in {"health", "announce"} => Kept(u)
    /\ rows[u].status = "deployed" =>
          rows[u].tag /\ rows[u].endpoint /\ Kept(u)

LifeInv == SlotsMatchBuilders /\ \A u \in Uploads : UploadInv(u)

\* A row moves forward through uploaded, building, built, deployed or failed;
\* only a new upload of the same source or a reset takes it back.
StatusMovesForward ==
    [][\A u \in Uploads :
          \/ StatusRank[rows'[u].status] >= StatusRank[rows[u].status]
          \/ rows'[u].status = "uploaded" /\ accepted' # accepted
          \/ rows'[u] = NoRow]_vars

\* Every job comes to an end, however many uploads compete for buildSem.
JobsEnd == \A u \in Uploads : Working(u) ~> ~Working(u)

\* Once a run's summary is on the stream, the engine it drove is stopped: only
\* a row that no longer names it, a failing query or docker command, or the
\* gateway's death between acknowledging and stopping saves it.
EngineReclaimed ==
    \A k \in RunIds, u \in Uploads :
        (runs[k].pc = "ended" /\ runs[k].sub = u)
            ~> \/ container[u] = "stopped"
               \/ ~Named(u) \/ runs[k].pc = "missed"
               \/ runs[k] # NoRun /\ ~runs[k].row

\* After a "Submission OOM" the answer is to be "Run rejected", and "rerun
\* submission X" is to work (BLUEPRINT.md): a run that startRun accepts finds the
\* submission's engine running, neither ended by itself nor taken away by the
\* clean-up after an earlier run.
AcceptedRunHasEngine ==
    [][\A k \in RunIds :
          runs[k] = NoRun /\ runs'[k] # NoRun
              => container[runs'[k].sub] = "running"]_vars

=============================================================================
