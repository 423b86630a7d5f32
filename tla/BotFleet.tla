------------------------------- MODULE BotFleet -------------------------------
(***************************************************************************)
(* The bot fleet: services/botfleet/cmd/main.go, and the two gateway       *)
(* handlers whose control messages drive it.                               *)
(*                                                                         *)
(* Every replica holds a core NATS subscription on runs.*.control, so it   *)
(* receives each command at most once per connection, in the order the     *)
(* gateway published it, and not at all while it is away.  On "start" a    *)
(* replica registers a CancelFunc under the run id and spawns a goroutine  *)
(* that claims a replica index with a Redis INCR, reads the fleet size,    *)
(* drives its bots until the run's context ends and, when its index is 0,  *)
(* publishes the run's summary.                                            *)
(*                                                                         *)
(*   cmd          run -> the start command the gateway published for it    *)
(*   cancels      the runs a cancel command was published for              *)
(*   inbox        replica -> the control messages not yet handled, in order*)
(*   phase        replica -> is the process up, shutting down, or gone     *)
(*   bots         replica -> the variable `bots` of main, one per process  *)
(*   supervisors  replica -> run -> the goroutine whose CancelFunc is      *)
(*                registered, or NoFleet                                   *)
(*   fleet        goroutine -> its program counter, replica index, number  *)
(*                of bots and whether its context has ended                *)
(*   counter      run -> the Redis key run:<id>:replica_index              *)
(*   summaries    run -> how many summaries were published                 *)
(*   cancelSeen   replica -> the runs whose cancel this process handled    *)
(*                (history, read by the properties only)                   *)
(***************************************************************************)
EXTENDS Integers, Sequences, FiniteSets

CONSTANTS
    Replicas,      \* botfleet processes
    Runs,          \* run ids
    BotCounts,     \* values of botsPerFleet, already clamped by startRun
    Profiles,      \* traffic profiles a run may be started with
    DefaultBots,   \* BOTS_PER_INSTANCE
    MaxCopies,     \* bound: copies of one start command a replica may receive
    Duplicated,    \* bound: the replicas that may receive more than one copy
    MaxIncrs       \* bound: INCRs one claim may execute, client retries included

ASSUME BotCountsAssumption == BotCounts \subseteq Nat \ {0}
ASSUME ProfilesAssumption == Profiles \subseteq STRING
ASSUME DefaultBotsAssumption == DefaultBots \in Nat
ASSUME DuplicatedAssumption == Duplicated \subseteq Replicas
ASSUME BoundsAssumption == MaxCopies \in Nat \ {0} /\ MaxIncrs \in Nat \ {0}

VARIABLES cmd, cancels, inbox, phase, bots, supervisors, fleet, counter,
          summaries, cancelSeen

vars == <<cmd, cancels, inbox, phase, bots, supervisors, fleet, counter,
          summaries, cancelSeen>>

-----------------------------------------------------------------------------

Copies == 1 .. MaxCopies

\* A goroutine is named by the delivery that spawned it: replica, run, copy.
Fleets == Replicas \X Runs \X Copies
RepOf(g) == g[1]
RunOf(g) == g[2]

NoFleet == <<>>

\* startCmd; of the profiles only "replay" changes what runFleet does.
Command == [bots : BotCounts, profile : Profiles]
NoCmd == [bots |-> 0, profile |-> "none"]

Message == [type : {"start", "cancel"}, run : Runs, copy : Copies]

FleetState ==
    [pc : {"free", "claiming", "claimed", "running", "exiting", "done", "dead"},
     idx : Nat, bots : Nat, ctxDone : BOOLEAN]

FreeFleet == [pc |-> "free", idx |-> 0, bots |-> 0, ctxDone |-> FALSE]

\* The goroutine exists; it holds a claimed index and may still publish.
Live(g) == fleet[g].pc \in {"claiming", "claimed", "running", "exiting"}
Active(g) == fleet[g].pc \in {"claimed", "running"}

Pending(r, type, run) ==
    \E i \in 1 .. Len(inbox[r]) : inbox[r][i].type = type /\ inbox[r][i].run = run

\* Nothing on any replica can still act for the run.
Quiet(run) ==
    /\ \A g \in Fleets : RunOf(g) = run => ~Live(g)
    /\ \A r \in Replicas : ~Pending(r, "start", run)

TypeOK ==
    /\ cmd \in [Runs -> Command \cup {NoCmd}]
    /\ cancels \subseteq Runs
    /\ inbox \in [Replicas -> Seq(Message)]
    /\ phase \in [Replicas -> {"up", "stopping", "down"}]
    /\ bots \in [Replicas -> Nat]
    /\ supervisors \in [Replicas -> [Runs -> Fleets \cup {NoFleet}]]
    /\ fleet \in [Fleets -> FleetState]
    /\ counter \in [Runs -> Nat]
    /\ summaries \in [Runs -> Nat]
    /\ cancelSeen \in [Replicas -> SUBSET Runs]

Init ==
    /\ cmd = [run \in Runs |-> NoCmd]
    /\ cancels = {}
    /\ inbox = [r \in Replicas |-> <<>>]
    /\ phase = [r \in Replicas |-> "up"]
    /\ bots = [r \in Replicas |-> DefaultBots]
    /\ supervisors = [r \in Replicas |-> [run \in Runs |-> NoFleet]]
    /\ fleet = [g \in Fleets |-> FreeFleet]
    /\ counter = [run \in Runs |-> 0]
    /\ summaries = [run \in Runs |-> 0]
    /\ cancelSeen = [r \in Replicas |-> {}]

-----------------------------------------------------------------------------
(* The bus (external) and the gateway handlers that publish on it.         *)

\* n copies of a command, numbered.
CopiesOf(type, run, n) ==
    [i \in 1 .. n |-> [type |-> type, run |-> run, copy |-> i]]

\* A core subscription drops what it cannot deliver: each replica that is
\* running gets some number of copies, possibly none; the others get nothing.
Deliver(type, run, max) ==
    \E n \in [Replicas -> 0 .. max] :
        /\ \A r \in Replicas \ Duplicated : n[r] <= 1
        /\ inbox' = [r \in Replicas |->
                       IF phase[r] = "down" THEN inbox[r]
                       ELSE inbox[r] \o CopiesOf(type, run, n[r])]

\* startRun: the run id is fresh, so a start is published once per run.
PublishStart(run) ==
    /\ cmd[run] = NoCmd
    /\ \E c \in Command : cmd' = [cmd EXCEPT ![run] = c]
    /\ Deliver("start", run, MaxCopies)
    /\ UNCHANGED <<cancels, phase, bots, supervisors, fleet, counter,
                   summaries, cancelSeen>>

\* cancelRun: publishes without looking at the run.  The id is known to the
\* caller once startRun has replied.  One cancel per run is enough here.
PublishCancel(run) ==
    /\ cmd[run] # NoCmd
    /\ run \notin cancels
    /\ cancels' = cancels \cup {run}
    /\ Deliver("cancel", run, 1)
    /\ UNCHANGED <<cmd, phase, bots, supervisors, fleet, counter, summaries,
                   cancelSeen>>

-----------------------------------------------------------------------------
(* The subscription callback of one replica, one message at a time.        *)

\* The shared variable `bots` is overwritten before the map is consulted.
TakeBots(r, run) ==
    bots' = [bots EXCEPT ![r] = IF cmd[run].bots > 0 THEN cmd[run].bots ELSE @]

\* Fault: the check of the map is missing.
NeverRegistered(r, run) == FALSE

\* supervisors[c.RunID] exists: this run is already running on this replica.
Registered(r, run) == supervisors[r][run] # NoFleet

HandleStart(r) ==
    /\ phase[r] # "down"
    /\ inbox[r] # <<>>
    /\ Head(inbox[r]).type = "start"
    /\ LET m == Head(inbox[r])
           g == <<r, m.run, m.copy>>
       IN  /\ TakeBots(r, m.run)
           /\ IF Registered(r, m.run)
              THEN UNCHANGED <<supervisors, fleet>>
              ELSE /\ supervisors' = [supervisors EXCEPT ![r][m.run] = g]
                   /\ fleet' = [fleet EXCEPT
                                  ![g] = [FreeFleet EXCEPT !.pc = "claiming"]]
    /\ inbox' = [inbox EXCEPT ![r] = Tail(@)]
    /\ UNCHANGED <<cmd, cancels, phase, counter, summaries, cancelSeen>>

\* Fault: a cancel that arrives before the bots are launched is ignored.
CancelOnceLaunched(r, run) ==
    IF Registered(r, run) /\ fleet[supervisors[r][run]].pc = "running"
    THEN [fleet EXCEPT ![supervisors[r][run]].ctxDone = TRUE]
    ELSE fleet

\* Calling the registered CancelFunc, if there is one, ends that context.
CallCancelFunc(r, run) ==
    IF Registered(r, run)
    THEN [fleet EXCEPT ![supervisors[r][run]].ctxDone = TRUE]
    ELSE fleet

HandleCancel(r) ==
    /\ phase[r] # "down"
    /\ inbox[r] # <<>>
    /\ Head(inbox[r]).type = "cancel"
    /\ LET run == Head(inbox[r]).run
       IN  /\ fleet' = CallCancelFunc(r, run)
           /\ cancelSeen' = [cancelSeen EXCEPT ![r] = @ \cup {run}]
    /\ inbox' = [inbox EXCEPT ![r] = Tail(@)]
    /\ UNCHANGED <<cmd, cancels, phase, bots, supervisors, counter, summaries>>

-----------------------------------------------------------------------------
(* The goroutine of one run on one replica.                                *)

\* Fault: the key is read and not advanced.
ClaimedByRead(g, k) ==
    /\ fleet' = [fleet EXCEPT ![g].pc = "claimed",
                              ![g].idx = counter[RunOf(g)]]
    /\ UNCHANGED counter

\* Fault: the index is taken one too low.
ClaimedOffByOne(g, k) ==
    /\ counter' = [counter EXCEPT ![RunOf(g)] = @ + k]
    /\ fleet' = [fleet EXCEPT ![g].pc = "claimed",
                              ![g].idx = counter[RunOf(g)] + k - 2]

\* The two effects of a successful INCR by k: the key and the replica index.
Claimed(g, k) ==
    /\ counter' = [counter EXCEPT ![RunOf(g)] = @ + k]
    /\ fleet' = [fleet EXCEPT ![g].pc = "claimed",
                              ![g].idx = counter[RunOf(g)] + k - 1]

\* rdb.Incr: atomic in Redis; the client may send it again after a lost
\* reply, so a claim can advance the key by more than one.
Claim(g) ==
    /\ fleet[g].pc = "claiming"
    /\ ~fleet[g].ctxDone
    /\ \E k \in 1 .. MaxIncrs : Claimed(g, k)
    /\ UNCHANGED <<cmd, cancels, inbox, phase, bots, supervisors, summaries,
                   cancelSeen>>

\* rdb.Incr fails: the context ended or Redis is away.  The increment may
\* have happened all the same.
ClaimError(g) ==
    /\ fleet[g].pc = "claiming"
    /\ \E k \in 0 .. MaxIncrs :
          counter' = [counter EXCEPT ![RunOf(g)] = @ + k]
    /\ fleet' = [fleet EXCEPT ![g].pc = "exiting"]
    /\ UNCHANGED <<cmd, cancels, inbox, phase, bots, supervisors, summaries,
                   cancelSeen>>

\* The call of runFleet evaluates its arguments: `bots` is read here, long
\* after the callback that set it returned.
Launch(g) ==
    /\ fleet[g].pc = "claimed"
    /\ fleet' = [fleet EXCEPT ![g].pc = "running", ![g].bots = bots[RepOf(g)]]
    /\ UNCHANGED <<cmd, cancels, inbox, phase, bots, supervisors, counter,
                   summaries, cancelSeen>>

\* context.WithTimeout(durationSec) expires.
Timeout(g) ==
    /\ Live(g)
    /\ ~fleet[g].ctxDone
    /\ fleet' = [fleet EXCEPT ![g].ctxDone = TRUE]
    /\ UNCHANGED <<cmd, cancels, inbox, phase, bots, supervisors, counter,
                   summaries, cancelSeen>>

\* Fault: every replica publishes a summary.
SummaryFromAll(g) == [summaries EXCEPT ![RunOf(g)] = @ + 1]

\* Fault: the publication is given up when the context has ended.
SummaryUnlessEnded(g) ==
    IF fleet[g].idx = 0 /\ ~fleet[g].ctxDone
    THEN [summaries EXCEPT ![RunOf(g)] = @ + 1]
    ELSE summaries

\* The end of runFleet publishes the summary only from replica index 0.
SummaryAfter(g) ==
    IF fleet[g].idx = 0
    THEN [summaries EXCEPT ![RunOf(g)] = @ + 1]
    ELSE summaries

\* The bots run until the context ends; a replay that cannot open its file
\* ends at once, and only index 0 streams it.
Finish(g) ==
    /\ fleet[g].pc = "running"
    /\ \/ fleet[g].ctxDone
       \/ cmd[RunOf(g)].profile = "replay" /\ fleet[g].idx = 0
    /\ fleet' = [fleet EXCEPT ![g].pc = "exiting"]
    /\ summaries' = SummaryAfter(g)
    /\ UNCHANGED <<cmd, cancels, inbox, phase, bots, supervisors, counter,
                   cancelSeen>>

\* The deferred delete(supervisors, c.RunID).  Of the goroutine nothing is
\* left; the number of bots it drove stays on record for the properties.
Unregister(g) ==
    /\ fleet[g].pc = "exiting"
    /\ fleet' = [fleet EXCEPT ![g] = [FreeFleet EXCEPT !.pc = "done",
                                                       !.bots = fleet[g].bots]]
    /\ supervisors' = [supervisors EXCEPT ![RepOf(g)][RunOf(g)] = NoFleet]
    /\ UNCHANGED <<cmd, cancels, inbox, phase, bots, counter, summaries,
                   cancelSeen>>

-----------------------------------------------------------------------------
(* The process, and the Redis key's one-hour expiry.                       *)

\* SIGTERM: cancel every registered run, then sleep 500 ms before exiting.
Shutdown(r) ==
    /\ phase[r] = "up"
    /\ phase' = [phase EXCEPT ![r] = "stopping"]
    /\ fleet' = [g \in Fleets |->
                   IF \E run \in Runs : supervisors[r][run] = g
                   THEN [fleet[g] EXCEPT !.ctxDone = TRUE]
                   ELSE fleet[g]]
    /\ UNCHANGED <<cmd, cancels, inbox, bots, supervisors, counter, summaries,
                   cancelSeen>>

\* The process ends, after a shutdown or by a crash: its memory is gone.
Exit(r) ==
    /\ phase[r] # "down"
    /\ phase' = [phase EXCEPT ![r] = "down"]
    /\ inbox' = [inbox EXCEPT ![r] = <<>>]
    /\ supervisors' = [supervisors EXCEPT ![r] = [run \in Runs |-> NoFleet]]
    /\ fleet' = [g \in Fleets |->
                   IF RepOf(g) = r /\ Live(g)
                   THEN [FreeFleet EXCEPT !.pc = "dead"]
                   ELSE fleet[g]]
    /\ cancelSeen' = [cancelSeen EXCEPT ![r] = {}]
    /\ UNCHANGED <<cmd, cancels, bots, counter, summaries>>

\* restart: unless-stopped.
Restart(r) ==
    /\ phase[r] = "down"
    /\ phase' = [phase EXCEPT ![r] = "up"]
    /\ bots' = [bots EXCEPT ![r] = DefaultBots]
    /\ UNCHANGED <<cmd, cancels, inbox, supervisors, fleet, counter, summaries,
                   cancelSeen>>

\* Each claim renews the expiry and a run lasts at most five minutes, so the
\* key outlives everything that could act for the run.
ExpireKey(run) ==
    /\ counter[run] > 0
    /\ Quiet(run)
    /\ counter' = [counter EXCEPT ![run] = 0]
    /\ UNCHANGED <<cmd, cancels, inbox, phase, bots, supervisors, fleet,
                   summaries, cancelSeen>>

-----------------------------------------------------------------------------

Gateway == \E run \in Runs : PublishStart(run) \/ PublishCancel(run)

Callback(r) == HandleStart(r) \/ HandleCancel(r)

Step(g) ==
    \/ Claim(g)
    \/ ClaimError(g)
    \/ Launch(g)
    \/ Timeout(g)
    \/ Finish(g)
    \/ Unregister(g)

\* What the goroutine itself does, one statement after the other.
Goroutine(g) == Claim(g) \/ ClaimError(g) \/ Launch(g) \/ Finish(g) \/ Unregister(g)

Process(r) == Shutdown(r) \/ Exit(r) \/ Restart(r)

Next ==
    \/ Gateway
    \/ \E r \in Replicas : Callback(r) \/ Process(r)
    \/ \E g \in Fleets : Step(g)
    \/ \E run \in Runs : ExpireKey(run)

Spec == Init /\ [][Next]_vars

\* The Go scheduler runs every ready goroutine and callback, and timers fire.
\* Nothing makes users publish, processes die or keys expire.
FairSpec ==
    /\ Spec
    /\ \A r \in Replicas : WF_vars(Callback(r))
    /\ \A g \in Fleets :
          /\ WF_vars(Goroutine(g))
          /\ WF_vars(Timeout(g))

-----------------------------------------------------------------------------
(* Properties.                                                             *)

\* Fault: the replica index is left out of the bot id.
UnshardedBotIds(g) == {i : i \in 0 .. fleet[g].bots - 1}

\* botID := replicaIdx*bots + localBotIdx, for localBotIdx in 0 .. bots-1.
BotIds(g) == {fleet[g].idx * fleet[g].bots + i : i \in 0 .. fleet[g].bots - 1}

\* The INCR on run:<id>:replica_index gives every fleet that is at work on a
\* run an index of its own, whatever replicas crash, restart, receive a start
\* twice or see an INCR fail half way.
UniqueReplicaIndex ==
    \A g, h \in Fleets :
        /\ g # h /\ RunOf(g) = RunOf(h)
        /\ Active(g) /\ Active(h)
        => fleet[g].idx # fleet[h].idx

\* A run is summarised at most once, although every replica runs the same
\* code, starts may be delivered twice and the index key expires.
AtMostOneSummary == \A run \in Runs : summaries[run] <= 1

\* A replica never drives the same run from two goroutines: the supervisors
\* map is checked and set under one lock and cleared only when the goroutine
\* is about to end.
OneFleetPerReplica ==
    \A g, h \in Fleets :
        /\ Live(g) /\ Live(h)
        /\ RepOf(g) = RepOf(h) /\ RunOf(g) = RunOf(h)
        => g = h

\* A run nobody started has left no trace.
NothingBeforeStart ==
    \A run \in Runs : cmd[run] = NoCmd =>
        /\ counter[run] = 0 /\ summaries[run] = 0
        /\ Quiet(run)

\* Every index in use was handed out by the key's present life.
IndexBelowCounter ==
    \A g \in Fleets : Active(g) => fleet[g].idx < counter[RunOf(g)]

\* After the summary nobody holds index 0, and nobody can get it again: the
\* key is still there, or there is nobody left to ask.
SummaryConsumesZero ==
    \A run \in Runs : summaries[run] > 0 =>
        /\ \A g \in Fleets : RunOf(g) = run /\ Active(g) => fleet[g].idx # 0
        /\ counter[run] > 0 \/ Quiet(run)

\* The invariant that carries the proof of the two properties above.
SummaryInv ==
    /\ UniqueReplicaIndex
    /\ AtMostOneSummary
    /\ NothingBeforeStart
    /\ IndexBelowCounter
    /\ SummaryConsumesZero

\* What is registered is a live goroutine of that replica and run.
RegisteredIsLive ==
    \A r \in Replicas, run \in Runs :
        Registered(r, run) =>
            /\ RepOf(supervisors[r][run]) = r /\ RunOf(supervisors[r][run]) = run
            /\ Live(supervisors[r][run])

\* What is live is registered under its own replica and run.
LiveIsRegistered ==
    \A g \in Fleets : Live(g) => supervisors[RepOf(g)][RunOf(g)] = g

\* The supervisors map and the goroutines agree.
SupervisorsInv == RegisteredIsLive /\ LiveIsRegistered

\* Once a replica has handled a cancel, no goroutine of it goes on working
\* for that run with a live context: the CancelFunc is registered in the
\* callback, before the goroutine exists, so no cancel slips in between.
CancelHonoured ==
    \A g \in Fleets :
        Live(g) /\ RunOf(g) \in cancelSeen[RepOf(g)] => fleet[g].ctxDone

\* A start of a run is never behind a cancel of that run, neither in an inbox
\* nor in what the replica has already handled, and only a run that was
\* started is cancelled.
NoStartAfterCancel ==
    \A r \in Replicas :
        /\ \A i, j \in 1 .. Len(inbox[r]) :
              /\ inbox[r][i].type = "cancel" /\ inbox[r][j].type = "start"
              /\ inbox[r][i].run = inbox[r][j].run
              => j < i
        /\ \A run \in Runs :
              /\ run \in cancelSeen[r] => ~Pending(r, "start", run)
              /\ run \in cancelSeen[r] \/ Pending(r, "cancel", run) => cmd[run] # NoCmd

\* The invariant that carries the proof of CancelHonoured.
CancelInv == CancelHonoured /\ NoStartAfterCancel

\* The variable `bots` has the value the start command of a run asked for as
\* long as the run is on; a process that is down has no goroutines.  True when
\* there is one run, or one size for all of them.
SizeInv ==
    \A g \in Fleets : Live(g) =>
        /\ phase[RepOf(g)] # "down"
        /\ bots[RepOf(g)] = cmd[RunOf(g)].bots
        /\ fleet[g].pc = "running" => fleet[g].bots = cmd[RunOf(g)].bots

\* Replicas at work on the same run drive disjoint sets of bots, hence
\* distinct seeds and distinct client ids.
BotIdsDisjoint ==
    \A g, h \in Fleets :
        /\ g # h /\ RunOf(g) = RunOf(h)
        /\ fleet[g].pc = "running" /\ fleet[h].pc = "running"
        => BotIds(g) \cap BotIds(h) = {}

\* A fleet works for its run with the number of bots that run's start command
\* asked for (bot.go: "the entire run is byte-for-byte reproducible").
FleetSizeAsCommanded ==
    \A g \in Fleets :
        fleet[g].pc = "running" => fleet[g].bots = cmd[RunOf(g)].bots

\* The fleet that claimed index 0 publishes the summary unless its process
\* dies: neither a cancel, a timeout nor another run can swallow it.
IndexZeroSummarises ==
    \A g \in Fleets :
        (Active(g) /\ fleet[g].idx = 0)
            ~> (summaries[RunOf(g)] > 0 \/ fleet[g].pc = "dead")

=============================================================================
