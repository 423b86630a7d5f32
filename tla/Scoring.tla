-------------------------------- MODULE Scoring --------------------------------
(***************************************************************************)
(* From a run's summary to the leaderboard: finalizeRun of the telemetry   *)
(* ingester (services/telemetry/cmd/main.go), the handlers of the gateway  *)
(* that read or change what it wrote (startRun's InsertRun, setBaseline,   *)
(* getLeaderboard, resetPlatform), and the two copies of a team's best     *)
(* score, the table runs and the Redis keys leaderboard:scores and         *)
(* leaderboard:metrics.                                                    *)
(*                                                                         *)
(* What finalizeRun aggregates from the telemetry rows is abstract: one of *)
(* Aggregates, with the composite score ScoreOf gives it.                  *)
(*                                                                         *)
(*   runs       run id -> its row of the table runs, or NoRow              *)
(*   summary    run id -> is its summary still to come                     *)
(*   inbox      ingester -> the summaries its callback has not handled     *)
(*   fin        ingester -> the finalizeRun its callback is executing      *)
(*   scores     member -> its score in the sorted set, or NoScore          *)
(*   metrics    member -> its entry in the hash, or NoAggregate            *)
(*   promoting  the setBaseline requests between their two statements      *)
(*   intact     history: Redis has lost nothing and refused nothing so far *)
(*   unwritten  history: run id -> the aggregate of a finalisation whose   *)
(*              UPDATE failed, or NoAggregate                              *)
(*   cut        history: the runs whose finalisation a statement of the    *)
(*              database failed, or a crash cut short                      *)
(***************************************************************************)
EXTENDS Integers, Sequences, Functions

CONSTANTS
    RunIds, Teams,
    Ingesters,     \* telemetry processes
    Aggregates,    \* what the percentile query may return
    ScoreOf,       \* the composite score of each aggregate
    NoAggregate,   \* SQL NULL, a missing hash field
    Faults,        \* what may go wrong around the ingester
    Resets         \* does the judge reset the platform?

ASSUME ScoreOfAssumption == ScoreOf \in [Aggregates -> Nat]
ASSUME NoAggregateAssumption == NoAggregate \notin Aggregates
ASSUME FaultsAssumption == Faults \subseteq {"db", "redis", "flush", "crash"}
ASSUME ResetsAssumption == Resets \in BOOLEAN
ASSUME MembersAssumption == Teams \cap RunIds = {}

VARIABLES runs, summary, inbox, fin, scores, metrics, promoting, intact, unwritten,
          cut

vars ==
    <<runs, summary, inbox, fin, scores, metrics, promoting, intact, unwritten, cut>>

-----------------------------------------------------------------------------

\* leaderboard members: teams and, by the fallback, run ids.
Members == Teams \cup RunIds

NoScore == -1

\* score and metrics are written together, so one value stands for both.
Row == [team : Teams, status : {"running", "finished"},
        result : Aggregates \cup {NoAggregate}, baseline : BOOLEAN]
NoRow == [status |-> "none"]

Fin == [pc : {"aggregate", "update", "resolve", "zadd", "hset"}, run : RunIds,
        result : Aggregates \cup {NoAggregate}, member : Members]
Idle == [pc |-> "idle"]

TypeOK ==
    /\ runs \in [RunIds -> Row \cup {NoRow}]
    /\ summary \in [RunIds -> {"none", "due", "sent"}]
    /\ inbox \in [Ingesters -> Seq(RunIds)]
    /\ fin \in [Ingesters -> Fin \cup {Idle}]
    /\ scores \in [Members -> Nat \cup {NoScore}]
    /\ metrics \in [Members -> Aggregates \cup {NoAggregate}]
    /\ promoting \subseteq RunIds \X Teams
    /\ intact \in BOOLEAN
    /\ unwritten \in [RunIds -> Aggregates \cup {NoAggregate}]
    /\ cut \subseteq RunIds

Init ==
    /\ runs = [k \in RunIds |-> NoRow]
    /\ summary = [k \in RunIds |-> "none"]
    /\ inbox = [i \in Ingesters |-> <<>>]
    /\ fin = [i \in Ingesters |-> Idle]
    /\ scores = [m \in Members |-> NoScore]
    /\ metrics = [m \in Members |-> NoAggregate]
    /\ promoting = {}
    /\ intact = TRUE
    /\ unwritten = [k \in RunIds |-> NoAggregate]
    /\ cut = {}

-----------------------------------------------------------------------------
(* The gateway and the bot fleet.                                          *)

\* startRun inserts the row as "running"; the fleet is told to start.
InsertRun(k, t) ==
    /\ runs[k] = NoRow /\ summary[k] = "none"
    /\ runs' = [runs EXCEPT ![k] = [team |-> t, status |-> "running",
                                    result |-> NoAggregate, baseline |-> FALSE]]
    /\ summary' = [summary EXCEPT ![k] = "due"]
    /\ UNCHANGED <<inbox, fin, scores, metrics, promoting, intact, unwritten, cut>>

\* Replica 0 publishes the summary, once (module BotFleet).  Every ingester
\* has a plain subscription of its own and receives it.
PublishSummary(k) ==
    /\ summary[k] = "due"
    /\ summary' = [summary EXCEPT ![k] = "sent"]
    /\ inbox' = [i \in Ingesters |-> Append(inbox[i], k)]
    /\ UNCHANGED <<runs, fin, scores, metrics, promoting, intact, unwritten, cut>>

\* setBaseline's early return: "run not finished".
MayPromote(k) == runs[k].status = "finished"

\* setBaseline reads the run ...
CheckBaseline(k) ==
    /\ runs[k] # NoRow
    /\ MayPromote(k)
    /\ promoting' = promoting \cup {<<k, runs[k].team>>}
    /\ UNCHANGED <<runs, summary, inbox, fin, scores, metrics, intact, unwritten, cut>>

\* Fault: the statement sets the flag of the run and clears no other.
FlagOnly(k, t) ==
    [x \in RunIds |-> IF x = k /\ runs[x] # NoRow
                      THEN [runs[x] EXCEPT !.baseline = TRUE] ELSE runs[x]]

\* UPDATE runs SET is_baseline = (id = k) WHERE team_id = t.
Flagged(k, t) ==
    [x \in RunIds |-> IF runs[x] # NoRow /\ runs[x].team = t
                      THEN [runs[x] EXCEPT !.baseline = (x = k)] ELSE runs[x]]

\* ... and then writes the flags of all the team's runs in one statement.
SetBaseline(k, t) ==
    /\ <<k, t>> \in promoting
    /\ promoting' = promoting \ {<<k, t>>}
    /\ runs' = Flagged(k, t)
    /\ UNCHANGED <<summary, inbox, fin, scores, metrics, intact, unwritten, cut>>

\* TRUNCATE runs, submissions, analysis_reports; Redis is left as it is.
ResetPlatform ==
    /\ Resets
    /\ \E k \in RunIds : runs[k] # NoRow
    /\ runs' = [k \in RunIds |-> NoRow]
    /\ UNCHANGED <<summary, inbox, fin, scores, metrics, promoting, intact, unwritten, cut>>

-----------------------------------------------------------------------------
(* finalizeRun, executed by the summary callback: one at a time.           *)

Advance(i, f) == fin' = [fin EXCEPT ![i] = f]

CutShort(ks) == cut' = cut \cup ks

Receive(i) ==
    /\ fin[i] = Idle
    /\ inbox[i] # <<>>
    /\ Advance(i, [pc |-> "aggregate", run |-> Head(inbox[i]),
                   result |-> NoAggregate, member |-> Head(inbox[i])])
    /\ inbox' = [inbox EXCEPT ![i] = Tail(@)]
    /\ UNCHANGED <<runs, summary, scores, metrics, promoting, intact, unwritten, cut>>

\* The percentile query; an error ends the finalisation.
Aggregate(i) ==
    /\ fin[i].pc = "aggregate"
    /\ \/ /\ \E a \in Aggregates :
                Advance(i, [fin[i] EXCEPT !.pc = "update", !.result = a])
          /\ UNCHANGED cut
       \/ "db" \in Faults /\ Advance(i, Idle) /\ CutShort({fin[i].run})
    /\ UNCHANGED <<runs, summary, inbox, scores, metrics, promoting, intact, unwritten>>


\* UPDATE runs SET status='finished', score, metrics WHERE id = k.
Finished(k, a) ==
    IF runs[k] = NoRow THEN runs
    ELSE [runs EXCEPT ![k].status = "finished", ![k].result = a]

\* An error is logged and the finalisation goes on.
UpdateRun(i) ==
    /\ fin[i].pc = "update"
    /\ \/ /\ runs' = Finished(fin[i].run, fin[i].result)
          /\ UNCHANGED <<unwritten, cut>>
       \/ /\ "db" \in Faults
          /\ unwritten' = [unwritten EXCEPT ![fin[i].run] = fin[i].result]
          /\ UNCHANGED runs
          /\ CutShort({fin[i].run})
    /\ Advance(i, [fin[i] EXCEPT !.pc = "resolve"])
    /\ UNCHANGED <<summary, inbox, scores, metrics, promoting, intact>>

\* SELECT team_id; when that fails the run id stands in for the team.
ResolveTeam(i) ==
    /\ fin[i].pc = "resolve"
    /\ \E m \in Members :
          /\ \/ runs[fin[i].run] # NoRow /\ m = runs[fin[i].run].team /\ UNCHANGED cut
             \/ /\ runs[fin[i].run] = NoRow \/ "db" \in Faults
                /\ m = fin[i].run /\ CutShort({m})
          /\ Advance(i, [fin[i] EXCEPT !.pc = "zadd", !.member = m])
    /\ UNCHANGED <<runs, summary, inbox, scores, metrics, promoting, intact, unwritten>>

\* Fault: ZADD without GT.
ZAdd(m, s) == [scores EXCEPT ![m] = s]

\* Fault: ZINCRBY, the scores of a team's runs are added up.
ZIncrBy(m, s) == [scores EXCEPT ![m] = IF @ = NoScore THEN s ELSE @ + s]

\* ZADD GT: the score of a member is only ever raised.
ZAddGT(m, s) == [scores EXCEPT ![m] = IF s > @ THEN s ELSE @]

\* Skipped when there is no Redis; its error is only logged.
AddScore(i) ==
    /\ fin[i].pc = "zadd"
    /\ \/ /\ scores' = ZAddGT(fin[i].member, ScoreOf[fin[i].result])
          /\ UNCHANGED intact
       \/ /\ "redis" \in Faults
          /\ scores' = scores /\ intact' = FALSE
    /\ Advance(i, [fin[i] EXCEPT !.pc = "hset"])
    /\ UNCHANGED <<runs, summary, inbox, metrics, promoting, unwritten, cut>>

\* HSET, whatever ZADD GT decided.  The final snapshot follows.
StoreMetrics(i) ==
    /\ fin[i].pc = "hset"
    /\ \/ metrics' = [metrics EXCEPT ![fin[i].member] = fin[i].result]
       \/ "redis" \in Faults /\ metrics' = metrics
    /\ Advance(i, Idle)
    /\ UNCHANGED <<runs, summary, inbox, scores, promoting, intact, unwritten, cut>>

\* The process dies: its finalisation and its undelivered summaries with it.
Crash(i) ==
    /\ "crash" \in Faults
    /\ fin[i] # Idle \/ inbox[i] # <<>>
    /\ Advance(i, Idle)
    /\ inbox' = [inbox EXCEPT ![i] = <<>>]
    /\ CutShort(Range(inbox[i]) \cup (IF fin[i] = Idle THEN {} ELSE {fin[i].run}))
    /\ UNCHANGED <<runs, summary, scores, metrics, promoting, intact, unwritten>>

\* Redis loses its keys.
FlushRedis ==
    /\ "flush" \in Faults
    /\ \E m \in Members : scores[m] # NoScore \/ metrics[m] # NoAggregate
    /\ scores' = [m \in Members |-> NoScore]
    /\ metrics' = [m \in Members |-> NoAggregate]
    /\ intact' = FALSE
    /\ UNCHANGED <<runs, summary, inbox, fin, promoting, unwritten, cut>>

-----------------------------------------------------------------------------

Finalize(i) ==
    \/ Receive(i)
    \/ Aggregate(i)
    \/ UpdateRun(i)
    \/ ResolveTeam(i)
    \/ AddScore(i)
    \/ StoreMetrics(i)

Next ==
    \/ \E k \in RunIds, t \in Teams : InsertRun(k, t) \/ SetBaseline(k, t)
    \/ \E k \in RunIds : PublishSummary(k) \/ CheckBaseline(k)
    \/ \E i \in Ingesters : Finalize(i) \/ Crash(i)
    \/ ResetPlatform
    \/ FlushRedis

Spec == Init /\ [][Next]_vars

\* The callback goroutine of every ingester keeps running.
FairSpec == Spec /\ \A i \in Ingesters : WF_vars(Finalize(i))

-----------------------------------------------------------------------------
(* What the leaderboard handler answers.                                   *)

ScoresOf(t) ==
    {ScoreOf[runs[k].result] : k \in {x \in RunIds : /\ runs[x].status = "finished"
                                                      /\ runs[x].team = t}}

\* store.Leaderboard: the best finished run of the team; a team without one
\* is listed with 0.
FromPostgres(t) ==
    IF ScoresOf(t) = {} THEN 0
    ELSE CHOOSE s \in ScoresOf(t) : \A x \in ScoresOf(t) : x <= s

\* The fast path is taken as soon as the sorted set has a member.
Cached == \E m \in Members : scores[m] # NoScore

\* getLeaderboard's score for a team; a team the sorted set does not hold is
\* not listed, which the page shows like 0.
Served(t) ==
    IF Cached THEN IF scores[t] = NoScore THEN 0 ELSE scores[t]
    ELSE FromPostgres(t)

\* No finalisation is under way.
Settled == \A i \in Ingesters : fin[i] = Idle

-----------------------------------------------------------------------------
(* Properties.                                                             *)

\* A score the team's runs did not reach in the table because their UPDATE
\* failed.
UnwrittenOf(t) ==
    {ScoreOf[unwritten[k]] : k \in {x \in RunIds : /\ unwritten[x] # NoAggregate
                                                    /\ runs[x] # NoRow
                                                    /\ runs[x].team = t}}

\* Postgres is written before Redis: whatever Redis loses or refuses, wherever
\* the ingester dies, and at every statement of finalizeRun, a team's entry
\* shows the score of one of its own finished runs, or of a run of its own
\* whose UPDATE has failed: the error that finalizeRun logs and passes over is
\* the only way apart for the two stores.
ScoresAccountedFor ==
    \A t \in Teams :
        scores[t] # NoScore => scores[t] \in ScoresOf(t) \cup UnwrittenOf(t)

\* The runs of a team that are in the table.
RunsOf(t) == {k \in RunIds : runs[k] # NoRow /\ runs[k].team = t}

\* Between finalisations, and as long as Redis has lost and refused nothing,
\* the score served of a team is the one the table runs gives, by either path
\* ("The leaderboard is always derivable from the durable runs table"), unless
\* the finalisation of one of its own runs was cut short: what the database or
\* a crash does to one team's run never shows with another team.
ServedBoardIsBest ==
    Settled /\ intact =>
        \A t \in Teams : RunsOf(t) \cap cut = {} => Served(t) = FromPostgres(t)

\* A team has at most one regression baseline, and that is a finished run with
\* a result to compare with, although setBaseline reads and writes in two
\* statements, requests for different runs overlap, and runs are finalised
\* and deleted meanwhile.  Stated with the types of the variables.
BaselineSound ==
    /\ TypeOK
    /\ \A k \in RunIds :
          runs[k] # NoRow /\ runs[k].baseline =>
             /\ runs[k].status = "finished" /\ runs[k].result # NoAggregate
             /\ \A j \in RunIds : runs[j] # NoRow /\ runs[j].team = runs[k].team
                                   /\ runs[j].baseline => j = k

\* What setBaseline read is still so when it writes, unless the run is gone:
\* a run id is used once, and nothing takes a finished run back.
RowsInv ==
    /\ BaselineSound
    /\ \A i \in Ingesters :
          fin[i].pc \in {"update", "resolve", "zadd", "hset"} =>
             fin[i].result \in Aggregates
    /\ \A k \in RunIds : runs[k] # NoRow =>
          /\ summary[k] # "none"
          /\ runs[k].status = "finished" => runs[k].result \in Aggregates
    /\ \A p \in promoting :
          /\ summary[p[1]] # "none"
          /\ runs[p[1]] # NoRow =>
                runs[p[1]].status = "finished" /\ runs[p[1]].team = p[2]

\* UpdateRun has not come to the run yet.
Pending(k) == runs[k].status = "running" /\ unwritten[k] = NoAggregate

\* UpdateRun has written the run's row, or failed to.
Recorded(k, a) ==
    /\ runs[k] # NoRow
    /\ \/ runs[k].status = "finished" /\ runs[k].result = a
       \/ unwritten[k] = a

\* Where each run's one finalisation stands, and what it has written.  True of
\* one ingester that is not reset.
FinalizingInv ==
    /\ \A k \in RunIds : /\ k \notin cut => unwritten[k] = NoAggregate
                         /\ summary[k] = "none" => unwritten[k] = NoAggregate
                         /\ summary[k] = "due" => Pending(k)
    /\ \A i \in Ingesters :
          /\ IsInjective(inbox[i])
          /\ \A k \in Range(inbox[i]) : summary[k] = "sent" /\ Pending(k)
          /\ fin[i] # Idle =>
                /\ summary[fin[i].run] = "sent" /\ fin[i].run \notin Range(inbox[i])
                /\ fin[i].pc \in {"aggregate", "update"} => Pending(fin[i].run)
                /\ fin[i].pc \in {"resolve", "zadd", "hset"} =>
                      Recorded(fin[i].run, fin[i].result)
                /\ fin[i].pc \in {"zadd", "hset"} =>
                      \/ fin[i].member = runs[fin[i].run].team
                      \/ fin[i].run \in cut /\ fin[i].member = fin[i].run

\* The invariant that carries the proof of ScoresAccountedFor.
DerivableInv == FinalizingInv /\ ScoresAccountedFor

\* The score of every finished run that was not cut short has reached its
\* team's entry, or is about to.
ScoresArrive ==
    intact => \A k \in RunIds \ cut : runs[k].status = "finished" =>
        \/ scores[runs[k].team] >= ScoreOf[runs[k].result]
        \/ \E i \in Ingesters : /\ fin[i].pc \in {"resolve", "zadd"}
                              /\ fin[i].run = k

\* A finished run never runs again, and a team's score never falls unless
\* Redis loses it.
ResultsOnlyImprove ==
    [][/\ \A k \in RunIds : runs[k].status = "finished" =>
                               runs'[k].status \in {"finished", "none"}
       /\ \A m \in Members : scores'[m] >= scores[m] \/ scores'[m] = NoScore]_vars


=============================================================================
