---------------------------- MODULE BotFleet_proofs ----------------------------
(***************************************************************************)
(* Proofs about BotFleet, for any number of replicas, runs, bots, copies   *)
(* of a start command and INCR retries.                                    *)
(***************************************************************************)
EXTENDS BotFleet, SequenceTheorems, TLAPS

\* The components of a goroutine's name have their types.
LEMMA FleetName ==
    ASSUME NEW g \in Fleets
    PROVE  RepOf(g) \in Replicas /\ RunOf(g) \in Runs
  BY DEF Fleets, RepOf, RunOf

\* Ending a goroutine's context, or the goroutine itself, keeps its type.
LEMMA FleetFields ==
    ASSUME NEW s \in FleetState
    PROVE  /\ [s EXCEPT !.ctxDone = TRUE] \in FleetState
           /\ [s EXCEPT !.pc = "exiting"] \in FleetState
  BY DEF FleetState

\* Delivering copies of a command keeps every inbox a sequence of messages.
LEMMA DeliverType ==
    ASSUME TypeOK, NEW type \in {"start", "cancel"}, NEW run \in Runs,
           NEW max \in 0 .. MaxCopies, Deliver(type, run, max)
    PROVE  inbox' \in [Replicas -> Seq(Message)]
  <1>1. PICK n \in [Replicas -> 0 .. max] :
          inbox' = [r \in Replicas |->
                      IF phase[r] = "down" THEN inbox[r]
                      ELSE inbox[r] \o CopiesOf(type, run, n[r])]
    BY DEF Deliver
  <1>2. ASSUME NEW r \in Replicas
        PROVE  CopiesOf(type, run, n[r]) \in Seq(Message)
    <2>1. n[r] \in Nat /\ 1 .. n[r] \subseteq Copies
      BY BoundsAssumption DEF Copies
    <2>2. CopiesOf(type, run, n[r]) \in [1 .. n[r] -> Message]
      BY <2>1 DEF CopiesOf, Message
    <2> QED  BY <2>1, <2>2, SeqDef
  <1>3. ASSUME NEW r \in Replicas
        PROVE  inbox[r] \in Seq(Message)
    BY DEF TypeOK
  <1> QED  BY <1>1, <1>2, <1>3

\* The message at the head of an inbox names a goroutine of that replica.
LEMMA HeadMessage ==
    ASSUME TypeOK, NEW r \in Replicas, inbox[r] # <<>>
    PROVE  /\ Head(inbox[r]) \in Message
           /\ Tail(inbox[r]) \in Seq(Message)
           /\ Head(inbox[r]).run \in Runs
           /\ <<r, Head(inbox[r]).run, Head(inbox[r]).copy>> \in Fleets
  <1>1. inbox[r] \in Seq(Message)  BY DEF TypeOK
  <1>2. Head(inbox[r]) \in Message /\ Tail(inbox[r]) \in Seq(Message)
    BY <1>1
  <1> QED  BY <1>2 DEF Message, Fleets

-----------------------------------------------------------------------------

\* TypeOK is inductive: every action of the fleet, the bus and the gateway
\* keeps the state well typed, in particular every claimed index a natural.
LEMMA TypeOKStep == TypeOK /\ [Next]_vars => TypeOK'
  <1> SUFFICES ASSUME TypeOK, [Next]_vars
               PROVE  TypeOK'
    OBVIOUS
  <1> USE BotCountsAssumption, DefaultBotsAssumption, BoundsAssumption
  <1>1. ASSUME NEW run \in Runs, PublishStart(run)
        PROVE  TypeOK'
    <2>1. inbox' \in [Replicas -> Seq(Message)]
      BY <1>1, DeliverType DEF PublishStart
    <2>2. cmd' \in [Runs -> Command \cup {NoCmd}]
      BY <1>1 DEF PublishStart, TypeOK
    <2> QED  BY <1>1, <2>1, <2>2 DEF PublishStart, TypeOK
  <1>2. ASSUME NEW run \in Runs, PublishCancel(run)
        PROVE  TypeOK'
    <2>1. inbox' \in [Replicas -> Seq(Message)]
      BY <1>2, DeliverType DEF PublishCancel
    <2> QED  BY <1>2, <2>1 DEF PublishCancel, TypeOK
  <1>3. ASSUME NEW r \in Replicas, HandleStart(r)
        PROVE  TypeOK'
    <2> DEFINE m == Head(inbox[r])
               g == <<r, m.run, m.copy>>
    <2>1. m.run \in Runs /\ g \in Fleets /\ Tail(inbox[r]) \in Seq(Message)
      BY <1>3, HeadMessage DEF HandleStart
    <2>2. inbox' \in [Replicas -> Seq(Message)]
      BY <1>3, <2>1 DEF HandleStart, TypeOK
    <2>3. bots' \in [Replicas -> Nat]
      <3>1. cmd[m.run].bots \in Nat
        <4>1. cmd[m.run] \in Command \cup {NoCmd}
          BY <2>1 DEF TypeOK
        <4>2. ASSUME NEW c \in Command \cup {NoCmd}
              PROVE  c.bots \in Nat
          <5>1. CASE c \in Command
            <6>1. c.bots \in BotCounts  BY <5>1 DEF Command
            <6> QED  BY <6>1
          <5>2. CASE c = NoCmd  BY <5>2 DEF NoCmd
          <5> QED  BY <5>1, <5>2
        <4> QED  BY <4>1, <4>2
      <3> QED  BY <1>3, <3>1 DEF HandleStart, TakeBots, TypeOK
    <2>4. /\ supervisors' \in [Replicas -> [Runs -> Fleets \cup {NoFleet}]]
          /\ fleet' \in [Fleets -> FleetState]
      <3>1. [FreeFleet EXCEPT !.pc = "claiming"] \in FleetState
        BY DEF FreeFleet, FleetState
      <3>2. CASE Registered(r, m.run)
        BY <1>3, <3>2 DEF HandleStart, TypeOK
      <3>3. CASE ~Registered(r, m.run)
        <4>1. /\ supervisors' = [supervisors EXCEPT ![r][m.run] = g]
              /\ fleet' = [fleet EXCEPT
                              ![g] = [FreeFleet EXCEPT !.pc = "claiming"]]
          BY <1>3, <3>3 DEF HandleStart
        <4> HIDE DEF m, g
        <4>2. fleet' \in [Fleets -> FleetState]
          BY <4>1, <3>1, <2>1 DEF TypeOK
        <4>3. supervisors' \in [Replicas -> [Runs -> Fleets \cup {NoFleet}]]
          BY <4>1, <2>1 DEF TypeOK
        <4> QED  BY <4>2, <4>3
      <3> QED  BY <3>2, <3>3
    <2> QED  BY <1>3, <2>2, <2>3, <2>4 DEF HandleStart, TypeOK
  <1>4. ASSUME NEW r \in Replicas, HandleCancel(r)
        PROVE  TypeOK'
    <2>1. Head(inbox[r]).run \in Runs /\ Tail(inbox[r]) \in Seq(Message)
      BY <1>4, HeadMessage DEF HandleCancel
    <2>2. fleet' \in [Fleets -> FleetState]
      <3> DEFINE run == Head(inbox[r]).run
      <3>1. fleet' = CallCancelFunc(r, run)  BY <1>4 DEF HandleCancel
      <3>2. run \in Runs  BY <2>1
      <3> HIDE DEF run
      <3>3. CASE Registered(r, run)
        <4> DEFINE g == supervisors[r][run]
        <4>1. g \in Fleets
          BY <3>2, <3>3 DEF Registered, TypeOK
        <4>2. fleet' = [fleet EXCEPT ![g].ctxDone = TRUE]
          BY <3>1, <3>3 DEF CallCancelFunc
        <4> HIDE DEF g
        <4>3. [fleet[g] EXCEPT !.ctxDone = TRUE] \in FleetState
          BY <4>1, FleetFields DEF TypeOK
        <4> QED  BY <4>1, <4>2, <4>3 DEF TypeOK
      <3>4. CASE ~Registered(r, run)
        BY <3>1, <3>4 DEF CallCancelFunc, TypeOK
      <3> QED  BY <3>3, <3>4
    <2> QED  BY <1>4, <2>1, <2>2 DEF HandleCancel, TypeOK
  <1>5. ASSUME NEW g \in Fleets, Claim(g)
        PROVE  TypeOK'
    <2>1. PICK k \in 1 .. MaxIncrs : Claimed(g, k)
      BY <1>5 DEF Claim
    <2>2. counter[RunOf(g)] \in Nat /\ counter[RunOf(g)] + k - 1 \in Nat
      BY FleetName DEF TypeOK
    <2>3. fleet' \in [Fleets -> FleetState]
      <3> DEFINE i == counter[RunOf(g)] + k - 1
      <3>1. fleet' = [fleet EXCEPT ![g] = [fleet[g] EXCEPT !.pc = "claimed",
                                                          !.idx = i]]
        BY <2>1 DEF Claimed, TypeOK
      <3>2. i \in Nat  BY <2>2
      <3> HIDE DEF i
      <3>3. fleet[g] \in FleetState  BY DEF TypeOK
      <3>4. [fleet[g] EXCEPT !.pc = "claimed", !.idx = i] \in FleetState
        BY <3>2, <3>3 DEF FleetState
      <3> QED  BY <3>1, <3>4 DEF TypeOK
    <2>4. counter' \in [Runs -> Nat]
      <3>1. counter[RunOf(g)] + k \in Nat  BY <2>2
      <3> QED  BY <2>1, <3>1 DEF Claimed, TypeOK
    <2> QED  BY <1>5, <2>3, <2>4 DEF Claim, TypeOK
  <1>6. ASSUME NEW g \in Fleets, ClaimError(g)
        PROVE  TypeOK'
    <2>1. counter' \in [Runs -> Nat]
      BY <1>6, FleetName DEF ClaimError, TypeOK
    <2>2. fleet' \in [Fleets -> FleetState]
      <3>1. fleet' = [fleet EXCEPT ![g].pc = "exiting"]
        BY <1>6 DEF ClaimError
      <3>2. [fleet[g] EXCEPT !.pc = "exiting"] \in FleetState
        BY FleetFields DEF TypeOK
      <3> QED  BY <3>1, <3>2 DEF TypeOK
    <2> QED  BY <1>6, <2>1, <2>2 DEF ClaimError, TypeOK
  <1>7. ASSUME NEW g \in Fleets, Launch(g)
        PROVE  TypeOK'
    <2>1. fleet' \in [Fleets -> FleetState]
      <3>1. bots[RepOf(g)] \in Nat  BY FleetName DEF TypeOK
      <3>2. fleet[g] \in FleetState  BY DEF TypeOK
      <3>3. [fleet[g] EXCEPT !.pc = "running", !.bots = bots[RepOf(g)]]
              \in FleetState
        BY <3>1, <3>2 DEF FleetState
      <3>4. fleet' = [fleet EXCEPT ![g] =
                        [fleet[g] EXCEPT !.pc = "running",
                                         !.bots = bots[RepOf(g)]]]
        BY <1>7 DEF Launch, TypeOK
      <3> QED  BY <3>3, <3>4 DEF TypeOK
    <2> QED  BY <1>7, <2>1 DEF Launch, TypeOK
  <1>8. ASSUME NEW g \in Fleets, Timeout(g)
        PROVE  TypeOK'
    <2>1. fleet' \in [Fleets -> FleetState]
      <3>1. fleet' = [fleet EXCEPT ![g].ctxDone = TRUE]
        BY <1>8 DEF Timeout
      <3>2. [fleet[g] EXCEPT !.ctxDone = TRUE] \in FleetState
        BY FleetFields DEF TypeOK
      <3> QED  BY <3>1, <3>2 DEF TypeOK
    <2> QED  BY <1>8, <2>1 DEF Timeout, TypeOK
  <1>9. ASSUME NEW g \in Fleets, Finish(g)
        PROVE  TypeOK'
    <2>1. fleet' \in [Fleets -> FleetState]
      BY <1>9 DEF Finish, TypeOK, FleetState
    <2>2. summaries' \in [Runs -> Nat]
      BY <1>9, FleetName DEF Finish, SummaryAfter, TypeOK
    <2> QED  BY <1>9, <2>1, <2>2 DEF Finish, TypeOK
  <1>10. ASSUME NEW g \in Fleets, Unregister(g)
         PROVE  TypeOK'
    <2>1. fleet' \in [Fleets -> FleetState]
      BY <1>10 DEF Unregister, TypeOK, FleetState, FreeFleet
    <2>2. supervisors' \in [Replicas -> [Runs -> Fleets \cup {NoFleet}]]
      BY <1>10, FleetName DEF Unregister, TypeOK
    <2> QED  BY <1>10, <2>1, <2>2 DEF Unregister, TypeOK
  <1>11. ASSUME NEW r \in Replicas, Shutdown(r)
         PROVE  TypeOK'
    <2>1. fleet' \in [Fleets -> FleetState]
      <3>1. ASSUME NEW g \in Fleets
            PROVE  /\ fleet[g] \in FleetState
                   /\ [fleet[g] EXCEPT !.ctxDone = TRUE] \in FleetState
        BY DEF TypeOK, FleetState
      <3> QED  BY <1>11, <3>1 DEF Shutdown
    <2> QED  BY <1>11, <2>1 DEF Shutdown, TypeOK
  <1>12. ASSUME NEW r \in Replicas, Exit(r)
         PROVE  TypeOK'
    <2>1. fleet' \in [Fleets -> FleetState]
      BY <1>12 DEF Exit, TypeOK, FleetState, FreeFleet
    <2>2. inbox' \in [Replicas -> Seq(Message)]
      BY <1>12 DEF Exit, TypeOK
    <2> QED  BY <1>12, <2>1, <2>2 DEF Exit, TypeOK
  <1>13. ASSUME NEW r \in Replicas, Restart(r)
         PROVE  TypeOK'
    BY <1>13 DEF Restart, TypeOK
  <1>14. ASSUME NEW run \in Runs, ExpireKey(run)
         PROVE  TypeOK'
    BY <1>14 DEF ExpireKey, TypeOK
  <1>15. CASE UNCHANGED vars
    BY <1>15 DEF vars, TypeOK
  <1> QED
    BY <1>1, <1>2, <1>3, <1>4, <1>5, <1>6, <1>7, <1>8, <1>9, <1>10, <1>11,
       <1>12, <1>13, <1>14, <1>15
    DEF Next, Gateway, Callback, Process, Step

\* The fleet's state is always well typed.
THEOREM TypeCorrect == Spec => []TypeOK
  <1>1. Init => TypeOK
    BY DefaultBotsAssumption
    DEF Init, TypeOK, FreeFleet, FleetState
  <1> QED  BY <1>1, TypeOKStep, PTL DEF Spec

-----------------------------------------------------------------------------
(* The summary is published at most once.                                  *)

\* Steps that neither claim, publish, spawn nor expire: they may only take
\* goroutines, messages and free indices away.
LEMMA SummaryFrame ==
    ASSUME TypeOK, TypeOK', SummaryInv, cmd' = cmd, summaries' = summaries,
           \A g \in Fleets : Live(g)' => Live(g),
           \A g \in Fleets :
              Active(g)' => Active(g) /\ fleet'[g].idx = fleet[g].idx,
           \A r \in Replicas, run \in Runs :
              Pending(r, "start", run)' => Pending(r, "start", run),
           \A run \in Runs :
              \/ counter'[run] = counter[run]
              \/ counter'[run] > counter[run] /\ cmd[run] # NoCmd
    PROVE  SummaryInv'
  <1>1. ASSUME NEW run \in Runs, Quiet(run)
        PROVE  Quiet(run)'
    BY <1>1 DEF Quiet
  <1>2. \A run \in Runs : /\ counter[run] \in Nat /\ counter'[run] \in Nat
                          /\ counter[run] <= counter'[run]
    <2>1. \A run \in Runs : counter[run] \in Nat /\ counter'[run] \in Nat
      BY DEF TypeOK
    <2> QED  BY <2>1
  <1>3. \A g \in Fleets : fleet[g].idx \in Nat /\ fleet'[g].idx \in Nat
    BY DEF TypeOK, FleetState
  <1>4. UniqueReplicaIndex'
    BY DEF SummaryInv, UniqueReplicaIndex
  <1>5. AtMostOneSummary'
    BY DEF SummaryInv, AtMostOneSummary
  <1>6. NothingBeforeStart'
    BY <1>1 DEF SummaryInv, NothingBeforeStart
  <1>7. IndexBelowCounter'
    BY <1>2, <1>3, FleetName DEF SummaryInv, IndexBelowCounter
  <1>8. SummaryConsumesZero'
    BY <1>1, <1>2 DEF SummaryInv, SummaryConsumesZero
  <1> QED  BY <1>4, <1>5, <1>6, <1>7, <1>8 DEF SummaryInv

\* What the tail of an inbox holds, the inbox holds.
LEMMA TailPending ==
    ASSUME TypeOK, NEW r \in Replicas, inbox[r] # <<>>,
           inbox' = [inbox EXCEPT ![r] = Tail(@)]
    PROVE  \A q \in Replicas, run \in Runs :
              Pending(q, "start", run)' => Pending(q, "start", run)
  <1> SUFFICES ASSUME NEW q \in Replicas, NEW run \in Runs,
                      Pending(q, "start", run)'
               PROVE  Pending(q, "start", run)
    OBVIOUS
  <1>1. CASE q # r
    BY <1>1 DEF Pending, TypeOK
  <1>2. CASE q = r
    <2>1. inbox[r] \in Seq(Message)  BY DEF TypeOK
    <2>2. inbox'[r] = Tail(inbox[r])  BY DEF TypeOK
    <2>3. PICK i \in 1 .. Len(Tail(inbox[r])) :
             Tail(inbox[r])[i].type = "start" /\ Tail(inbox[r])[i].run = run
      BY <1>2, <2>2 DEF Pending
    <2>4. i + 1 \in 1 .. Len(inbox[r]) /\ inbox[r][i + 1] = Tail(inbox[r])[i]
      BY <2>1, <2>3
    <2> QED  BY <1>2, <2>3, <2>4 DEF Pending
  <1> QED  BY <1>1, <1>2

\* Publishing a command adds only messages of that type and run.
LEMMA DeliverPending ==
    ASSUME TypeOK, NEW type \in {"start", "cancel"}, NEW run \in Runs,
           NEW max \in 0 .. MaxCopies, Deliver(type, run, max),
           NEW r \in Replicas, NEW other \in Runs,
           type # "start" \/ other # run,
           Pending(r, "start", other)'
    PROVE  Pending(r, "start", other)
  <1>1. PICK n \in [Replicas -> 0 .. max] :
          inbox' = [q \in Replicas |->
                      IF phase[q] = "down" THEN inbox[q]
                      ELSE inbox[q] \o CopiesOf(type, run, n[q])]
    BY DEF Deliver
  <1> DEFINE c == CopiesOf(type, run, n[r])
  <1>2. n[r] \in Nat /\ 1 .. n[r] \subseteq Copies
    BY BoundsAssumption DEF Copies
  <1>3. c \in [1 .. n[r] -> Message]
    BY <1>2 DEF CopiesOf, Message
  <1>4. c \in Seq(Message) /\ Len(c) = n[r]
    BY <1>2, <1>3, SeqDef DEF CopiesOf
  <1>5. \A i \in 1 .. Len(c) : c[i].type = type /\ c[i].run = run
    BY <1>4 DEF CopiesOf
  <1>6. CASE phase[r] = "down"
    BY <1>1, <1>6 DEF Pending
  <1>7. CASE phase[r] # "down"
    <2>1. inbox'[r] = inbox[r] \o c  BY <1>1, <1>7
    <2>2. inbox[r] \in Seq(Message)  BY DEF TypeOK
    <2> HIDE DEF c
    <2>3. PICK i \in 1 .. Len(inbox[r] \o c) :
            (inbox[r] \o c)[i].type = "start" /\ (inbox[r] \o c)[i].run = other
      BY <2>1 DEF Pending
    <2>4. /\ Len(inbox[r]) \in Nat /\ Len(c) \in Nat
          /\ Len(inbox[r] \o c) = Len(inbox[r]) + Len(c)
      BY <1>4, <2>2, LenProperties, ConcatProperties
    <2>5. CASE i <= Len(inbox[r])
      <3>1. (inbox[r] \o c)[i] = inbox[r][i]
        BY <1>4, <2>2, <2>3, <2>4, <2>5
      <3> QED  BY <2>3, <2>4, <2>5, <3>1 DEF Pending
    <2>6. CASE i > Len(inbox[r])
      <3>1. /\ i - Len(inbox[r]) \in 1 .. Len(c)
            /\ (inbox[r] \o c)[i] = c[i - Len(inbox[r])]
        BY <1>4, <2>2, <2>3, <2>4, <2>6
      <3> QED  BY <1>5, <2>3, <3>1
    <2> QED  BY <2>4, <2>5, <2>6, <2>3
  <1> QED  BY <1>6, <1>7

\* SummaryInv is inductive relative to the type invariant.
LEMMA SummaryStep == TypeOK /\ TypeOK' /\ SummaryInv /\ [Next]_vars => SummaryInv'
  <1> SUFFICES ASSUME TypeOK, TypeOK', SummaryInv, [Next]_vars
               PROVE  SummaryInv'
    OBVIOUS
  <1> USE BoundsAssumption
  <1>0. /\ \A g \in Fleets : fleet[g].idx \in Nat /\ fleet'[g].idx \in Nat
        /\ \A run \in Runs : /\ counter[run] \in Nat /\ counter'[run] \in Nat
                             /\ summaries[run] \in Nat
    BY DEF TypeOK, FleetState
  <1>1. ASSUME NEW run \in Runs, PublishStart(run)
        PROVE  SummaryInv'
    <2>1. /\ counter' = counter /\ summaries' = summaries /\ fleet' = fleet
          /\ Deliver("start", run, MaxCopies)
          /\ cmd[run] = NoCmd
      BY <1>1 DEF PublishStart
    <2>2. \A other \in Runs \ {run} : Quiet(other) => Quiet(other)'
      BY <2>1, DeliverPending DEF Quiet, Live
    <2>3. \A other \in Runs \ {run} : cmd'[other] = cmd[other]
      BY <1>1 DEF PublishStart, TypeOK
    <2>4. cmd'[run] # NoCmd
      <3>1. PICK c \in Command : cmd' = [cmd EXCEPT ![run] = c]
        BY <1>1 DEF PublishStart
      <3>2. c.bots \in BotCounts  BY DEF Command
      <3>3. c.bots # NoCmd.bots
        BY <3>2, BotCountsAssumption DEF NoCmd
      <3> QED  BY <3>1, <3>3 DEF TypeOK
    <2>5. summaries[run] = 0
      BY <2>1 DEF SummaryInv, NothingBeforeStart
    <2>6. UniqueReplicaIndex' /\ AtMostOneSummary' /\ IndexBelowCounter'
      BY <2>1 DEF SummaryInv, UniqueReplicaIndex, AtMostOneSummary,
                  IndexBelowCounter, Active
    <2>7. NothingBeforeStart'
      BY <2>1, <2>2, <2>3, <2>4 DEF SummaryInv, NothingBeforeStart
    <2>8. SummaryConsumesZero'
      BY <2>1, <2>2, <2>5 DEF SummaryInv, SummaryConsumesZero, Active
    <2> QED  BY <2>6, <2>7, <2>8 DEF SummaryInv
  <1>2. ASSUME NEW run \in Runs, PublishCancel(run)
        PROVE  SummaryInv'
    <2>1. /\ cmd' = cmd /\ counter' = counter /\ summaries' = summaries
          /\ fleet' = fleet /\ Deliver("cancel", run, 1)
      BY <1>2 DEF PublishCancel
    <2>2. \A r \in Replicas, other \in Runs :
             Pending(r, "start", other)' => Pending(r, "start", other)
      BY <2>1, DeliverPending
    <2> QED  BY <2>1, <2>2, SummaryFrame DEF Live, Active
  <1>3. ASSUME NEW r \in Replicas, HandleStart(r)
        PROVE  SummaryInv'
    <2> DEFINE m == Head(inbox[r])
               g == <<r, m.run, m.copy>>
    <2>1. /\ cmd' = cmd /\ counter' = counter /\ summaries' = summaries
          /\ inbox[r] # <<>> /\ inbox' = [inbox EXCEPT ![r] = Tail(@)]
          /\ m.type = "start"
      BY <1>3 DEF HandleStart
    <2>2. m.run \in Runs /\ g \in Fleets
      BY <2>1, HeadMessage
    <2>3. \A q \in Replicas, run \in Runs :
             Pending(q, "start", run)' => Pending(q, "start", run)
      BY <2>1, TailPending
    <2>4. CASE Registered(r, m.run)
      <3>1. fleet' = fleet  BY <1>3, <2>4 DEF HandleStart
      <3> QED  BY <2>1, <2>3, <3>1, SummaryFrame DEF Live, Active
    <2>5. CASE ~Registered(r, m.run)
      <3>1. fleet' = [fleet EXCEPT ![g] = [FreeFleet EXCEPT !.pc = "claiming"]]
        BY <1>3, <2>5 DEF HandleStart
      <3>2. Pending(r, "start", m.run)
        <4>1. inbox[r] \in Seq(Message)  BY DEF TypeOK
        <4>2. 1 \in 1 .. Len(inbox[r]) /\ inbox[r][1] = m
          BY <2>1, <4>1
        <4> QED  BY <2>1, <4>2 DEF Pending
      <3>3. ~Quiet(m.run)
        BY <3>2 DEF Quiet
      <3>4. fleet'[g].pc = "claiming"
        BY <2>2, <3>1 DEF TypeOK, FreeFleet
      <3>5. \A h \in Fleets \ {g} : fleet'[h] = fleet[h]
        BY <3>1 DEF TypeOK
      <3>6. RunOf(g) = m.run  BY DEF RunOf
      <3> HIDE DEF m, g
      <3>7. \A h \in Fleets : Active(h)' => Active(h) /\ fleet'[h].idx = fleet[h].idx
        BY <3>4, <3>5 DEF Active
      <3>8. \A run \in Runs : Quiet(run) => Quiet(run)'
        <4>1. \A h \in Fleets : RunOf(h) # m.run => (Live(h)' => Live(h))
          BY <3>5, <3>6 DEF Live
        <4> QED  BY <2>3, <3>3, <4>1 DEF Quiet
      <3>9. UniqueReplicaIndex'
        BY <3>7 DEF SummaryInv, UniqueReplicaIndex
      <3>10. AtMostOneSummary'
        BY <2>1 DEF SummaryInv, AtMostOneSummary
      <3>11. NothingBeforeStart'
        BY <2>1, <3>8 DEF SummaryInv, NothingBeforeStart
      <3>12. IndexBelowCounter'
        BY <2>1, <3>7 DEF SummaryInv, IndexBelowCounter
      <3>13. SummaryConsumesZero'
        BY <2>1, <3>7, <3>8 DEF SummaryInv, SummaryConsumesZero
      <3> QED  BY <3>9, <3>10, <3>11, <3>12, <3>13 DEF SummaryInv
    <2> QED  BY <2>4, <2>5
  <1>4. ASSUME NEW r \in Replicas, HandleCancel(r)
        PROVE  SummaryInv'
    <2>1. /\ cmd' = cmd /\ counter' = counter /\ summaries' = summaries
          /\ inbox[r] # <<>> /\ inbox' = [inbox EXCEPT ![r] = Tail(@)]
          /\ fleet' = CallCancelFunc(r, Head(inbox[r]).run)
      BY <1>4 DEF HandleCancel
    <2>2. \A q \in Replicas, run \in Runs :
             Pending(q, "start", run)' => Pending(q, "start", run)
      BY <2>1, TailPending
    <2>3. \A g \in Fleets : fleet'[g].pc = fleet[g].pc /\ fleet'[g].idx = fleet[g].idx
      <3> TAKE g \in Fleets
      <3> DEFINE s == supervisors[r][Head(inbox[r]).run]
      <3>1. \/ fleet' = fleet
            \/ fleet' = [fleet EXCEPT ![s].ctxDone = TRUE]
        BY <2>1 DEF CallCancelFunc
      <3> HIDE DEF s
      <3>2. fleet[g] \in FleetState  BY DEF TypeOK
      <3>3. \/ fleet'[g] = fleet[g]
            \/ fleet'[g] = [fleet[g] EXCEPT !.ctxDone = TRUE]
        BY <3>1 DEF TypeOK
      <3> QED  BY <3>2, <3>3 DEF FleetState
    <2> QED  BY <2>1, <2>2, <2>3, SummaryFrame DEF Live, Active
  <1>5. ASSUME NEW g \in Fleets, Claim(g)
        PROVE  SummaryInv'
    <2>1. PICK k \in 1 .. MaxIncrs : Claimed(g, k)
      BY <1>5 DEF Claim
    <2> DEFINE run == RunOf(g)
    <2>2. run \in Runs  BY FleetName
    <2>3. /\ cmd' = cmd /\ summaries' = summaries /\ inbox' = inbox
          /\ fleet[g].pc = "claiming"
      BY <1>5 DEF Claim
    <2>4. /\ counter'[run] = counter[run] + k
          /\ \A other \in Runs \ {run} : counter'[other] = counter[other]
          /\ fleet'[g].pc = "claimed"
          /\ fleet'[g].idx = counter[run] + k - 1
          /\ \A h \in Fleets \ {g} : fleet'[h] = fleet[h]
      BY <2>1, <2>2 DEF Claimed, TypeOK, FleetState
    <2>5. ~Quiet(run) /\ cmd[run] # NoCmd
      <3>1. Live(g)  BY <2>3 DEF Live
      <3> QED  BY <3>1, <2>2 DEF Quiet, SummaryInv, NothingBeforeStart
    <2>6. \A h \in Fleets : h # g /\ RunOf(h) = run /\ Active(h)
             => fleet[h].idx < counter[run]
      BY DEF SummaryInv, IndexBelowCounter
    <2>7. \A h \in Fleets \ {g} : Active(h)' <=> Active(h)
      BY <2>4 DEF Active
    <2>8. \A other \in Runs \ {run} : Quiet(other) => Quiet(other)'
      BY <2>3, <2>4 DEF Quiet, Live, Pending
    <2> HIDE DEF run
    <2>9. UniqueReplicaIndex'
      <3> SUFFICES ASSUME NEW a \in Fleets, NEW b \in Fleets, a # b,
                          RunOf(a) = RunOf(b), Active(a)', Active(b)'
                   PROVE  fleet'[a].idx # fleet'[b].idx
        BY DEF UniqueReplicaIndex
      <3>1. CASE a = g
        BY <3>1, <1>0, <2>2, <2>4, <2>6, <2>7 DEF run
      <3>2. CASE b = g
        BY <3>2, <1>0, <2>2, <2>4, <2>6, <2>7 DEF run
      <3>3. CASE a # g /\ b # g
        BY <3>3, <2>4, <2>7 DEF SummaryInv, UniqueReplicaIndex
      <3> QED  BY <3>1, <3>2, <3>3
    <2>10. AtMostOneSummary'
      BY <2>3 DEF SummaryInv, AtMostOneSummary
    <2>11. NothingBeforeStart'
      BY <2>2, <2>3, <2>4, <2>5, <2>8 DEF SummaryInv, NothingBeforeStart
    <2>12. IndexBelowCounter'
      <3> SUFFICES ASSUME NEW h \in Fleets, Active(h)'
                   PROVE  fleet'[h].idx < counter'[RunOf(h)]
        BY DEF IndexBelowCounter
      <3>1. CASE h = g
        BY <3>1, <1>0, <2>2, <2>4 DEF run
      <3>2. CASE h # g
        <4>1. fleet[h].idx < counter[RunOf(h)] /\ fleet'[h] = fleet[h]
          BY <3>2, <2>4, <2>7 DEF SummaryInv, IndexBelowCounter
        <4> QED  BY <4>1, <1>0, <2>2, <2>4, FleetName
      <3> QED  BY <3>1, <3>2
    <2>13. SummaryConsumesZero'
      <3> SUFFICES ASSUME NEW x \in Runs, summaries[x] > 0
                   PROVE  /\ \A h \in Fleets :
                               RunOf(h) = x /\ Active(h)' => fleet'[h].idx # 0
                          /\ counter'[x] > 0 \/ Quiet(x)'
        BY <2>3 DEF SummaryConsumesZero
      <3>1. CASE x = run
        <4>1. counter[run] > 0
          BY <3>1, <2>5 DEF SummaryInv, SummaryConsumesZero
        <4>2. counter'[run] > 0 /\ fleet'[g].idx # 0
          BY <4>1, <1>0, <2>2, <2>4
        <4> QED
          BY <3>1, <4>2, <2>4, <2>7 DEF SummaryInv, SummaryConsumesZero
      <3>2. CASE x # run
        <4>1. \A h \in Fleets : RunOf(h) = x => h # g
          BY <3>2 DEF run
        <4> QED
          BY <3>2, <4>1, <2>4, <2>7, <2>8 DEF SummaryInv, SummaryConsumesZero
      <3> QED  BY <3>1, <3>2
    <2> QED  BY <2>9, <2>10, <2>11, <2>12, <2>13 DEF SummaryInv
  <1>6. ASSUME NEW g \in Fleets, ClaimError(g)
        PROVE  SummaryInv'
    <2>1. /\ cmd' = cmd /\ summaries' = summaries /\ inbox' = inbox
          /\ fleet' = [fleet EXCEPT ![g].pc = "exiting"]
          /\ fleet[g].pc = "claiming"
      BY <1>6 DEF ClaimError
    <2>2. cmd[RunOf(g)] # NoCmd
      BY <2>1, FleetName DEF SummaryInv, NothingBeforeStart, Quiet, Live
    <2>3. \A run \in Runs : \/ counter'[run] = counter[run]
                            \/ counter'[run] > counter[run] /\ cmd[run] # NoCmd
      <3>1. PICK k \in 0 .. MaxIncrs :
               counter' = [counter EXCEPT ![RunOf(g)] = @ + k]
        BY <1>6 DEF ClaimError
      <3> QED  BY <3>1, <2>2, <1>0, FleetName DEF TypeOK
    <2>4. \A h \in Fleets : /\ Live(h)' => Live(h)
                            /\ Active(h)' => fleet'[h] = fleet[h]
      BY <2>1 DEF TypeOK, FleetState, Live, Active
    <2> QED  BY <2>1, <2>3, <2>4, SummaryFrame DEF Active, Pending
  <1>7. ASSUME NEW g \in Fleets, Launch(g)
        PROVE  SummaryInv'
    <2>1. /\ cmd' = cmd /\ summaries' = summaries /\ inbox' = inbox
          /\ counter' = counter /\ fleet[g].pc = "claimed"
          /\ fleet' = [fleet EXCEPT ![g].pc = "running",
                                    ![g].bots = bots[RepOf(g)]]
      BY <1>7 DEF Launch
    <2>2. \A h \in Fleets : /\ Live(h)' => Live(h)
                            /\ Active(h)' => Active(h)
                            /\ fleet'[h].idx = fleet[h].idx
      BY <2>1 DEF TypeOK, FleetState, Live, Active
    <2> QED  BY <2>1, <2>2, SummaryFrame DEF Pending
  <1>8. ASSUME NEW g \in Fleets, Timeout(g)
        PROVE  SummaryInv'
    <2>1. /\ cmd' = cmd /\ summaries' = summaries /\ inbox' = inbox
          /\ counter' = counter
          /\ fleet' = [fleet EXCEPT ![g].ctxDone = TRUE]
      BY <1>8 DEF Timeout
    <2>2. \A h \in Fleets : fleet'[h].pc = fleet[h].pc /\ fleet'[h].idx = fleet[h].idx
      BY <2>1 DEF TypeOK, FleetState
    <2> QED  BY <2>1, <2>2, SummaryFrame DEF Pending, Live, Active
  <1>9. ASSUME NEW g \in Fleets, Finish(g)
        PROVE  SummaryInv'
    <2> DEFINE run == RunOf(g)
    <2>1. /\ cmd' = cmd /\ inbox' = inbox /\ counter' = counter
          /\ fleet[g].pc = "running"
          /\ fleet' = [fleet EXCEPT ![g].pc = "exiting"]
          /\ summaries' = SummaryAfter(g)
      BY <1>9 DEF Finish
    <2>2. /\ \A h \in Fleets : Live(h)' => Live(h)
          /\ \A h \in Fleets : Active(h)' => Active(h) /\ h # g
                                            /\ fleet'[h].idx = fleet[h].idx
      BY <2>1 DEF TypeOK, FleetState, Live, Active
    <2>3. CASE fleet[g].idx # 0
      <3>1. summaries' = summaries  BY <2>1, <2>3 DEF SummaryAfter
      <3> QED  BY <2>1, <2>2, <3>1, SummaryFrame DEF Pending
    <2>4. CASE fleet[g].idx = 0
      <3>1. run \in Runs  BY FleetName
      <3>2. /\ summaries'[run] = summaries[run] + 1
            /\ \A x \in Runs \ {run} : summaries'[x] = summaries[x]
        BY <2>1, <2>4, <3>1 DEF SummaryAfter, TypeOK
      <3>3. Active(g) /\ Live(g)  BY <2>1 DEF Active, Live
      <3>4. summaries[run] = 0
        BY <2>4, <3>1, <3>3, <1>0 DEF SummaryInv, SummaryConsumesZero
      <3>5. counter[run] > 0
        BY <2>4, <3>3 DEF SummaryInv, IndexBelowCounter
      <3>6. ~Quiet(run)  BY <3>3 DEF Quiet
      <3>7. \A x \in Runs : Quiet(x) => Quiet(x)'
        BY <2>1, <2>2 DEF Quiet, Pending
      <3>8. \A h \in Fleets : h # g /\ RunOf(h) = run /\ Active(h) => fleet[h].idx # 0
        BY <2>4, <3>3 DEF SummaryInv, UniqueReplicaIndex
      <3> HIDE DEF run
      <3>9. UniqueReplicaIndex'
        BY <2>2 DEF SummaryInv, UniqueReplicaIndex
      <3>10. AtMostOneSummary'
        BY <3>1, <3>2, <3>4 DEF SummaryInv, AtMostOneSummary
      <3>11. NothingBeforeStart'
        BY <2>1, <3>1, <3>2, <3>6, <3>7 DEF SummaryInv, NothingBeforeStart
      <3>12. IndexBelowCounter'
        BY <2>1, <2>2 DEF SummaryInv, IndexBelowCounter
      <3>13. SummaryConsumesZero'
        BY <2>1, <2>2, <3>1, <3>2, <3>5, <3>7, <3>8
        DEF SummaryInv, SummaryConsumesZero
      <3> QED  BY <3>9, <3>10, <3>11, <3>12, <3>13 DEF SummaryInv
    <2> QED  BY <2>3, <2>4
  <1>10. ASSUME NEW g \in Fleets, Unregister(g)
         PROVE  SummaryInv'
    <2>1. /\ cmd' = cmd /\ summaries' = summaries /\ inbox' = inbox
          /\ counter' = counter
          /\ fleet' = [fleet EXCEPT ![g] = [FreeFleet EXCEPT !.pc = "done",
                                                !.bots = fleet[g].bots]]
      BY <1>10 DEF Unregister
    <2>2. \A h \in Fleets : /\ Live(h)' => Live(h)
                            /\ Active(h)' => fleet'[h] = fleet[h]
      BY <2>1 DEF TypeOK, FreeFleet, Live, Active
    <2> QED  BY <2>1, <2>2, SummaryFrame DEF Pending, Active
  <1>11. ASSUME NEW r \in Replicas, Shutdown(r)
         PROVE  SummaryInv'
    <2>1. cmd' = cmd /\ summaries' = summaries /\ inbox' = inbox /\ counter' = counter
      BY <1>11 DEF Shutdown
    <2>2. \A h \in Fleets : fleet'[h].pc = fleet[h].pc /\ fleet'[h].idx = fleet[h].idx
      <3> TAKE h \in Fleets
      <3>1. fleet[h] \in FleetState  BY DEF TypeOK
      <3>2. \/ fleet'[h] = fleet[h]
            \/ fleet'[h] = [fleet[h] EXCEPT !.ctxDone = TRUE]
        BY <1>11 DEF Shutdown
      <3> QED  BY <3>1, <3>2 DEF FleetState
    <2> QED  BY <2>1, <2>2, SummaryFrame DEF Pending, Live, Active
  <1>12. ASSUME NEW r \in Replicas, Exit(r)
         PROVE  SummaryInv'
    <2>1. /\ cmd' = cmd /\ summaries' = summaries /\ counter' = counter
          /\ inbox' = [inbox EXCEPT ![r] = <<>>]
      BY <1>12 DEF Exit
    <2>2. \A h \in Fleets : fleet'[h] = fleet[h] \/ fleet'[h].pc = "dead"
      BY <1>12 DEF Exit, FreeFleet
    <2>3. \A q \in Replicas, run \in Runs :
             Pending(q, "start", run)' => Pending(q, "start", run)
      BY <2>1 DEF Pending, TypeOK
    <2> QED  BY <2>1, <2>2, <2>3, SummaryFrame DEF Live, Active
  <1>13. ASSUME NEW r \in Replicas, Restart(r)
         PROVE  SummaryInv'
    <2>1. /\ cmd' = cmd /\ summaries' = summaries /\ counter' = counter
          /\ inbox' = inbox /\ fleet' = fleet
      BY <1>13 DEF Restart
    <2> QED  BY <2>1, SummaryFrame DEF Pending, Live, Active
  <1>14. ASSUME NEW run \in Runs, ExpireKey(run)
         PROVE  SummaryInv'
    <2>1. /\ cmd' = cmd /\ summaries' = summaries /\ inbox' = inbox
          /\ fleet' = fleet /\ Quiet(run)
          /\ counter' = [counter EXCEPT ![run] = 0]
      BY <1>14 DEF ExpireKey
    <2>2. /\ counter'[run] = 0
          /\ \A x \in Runs \ {run} : counter'[x] = counter[x]
      BY <2>1 DEF TypeOK
    <2>3. \A x \in Runs : Quiet(x) => Quiet(x)'
      BY <2>1 DEF Quiet, Live, Pending
    <2>4. \A g \in Fleets : Active(g)' => Active(g) /\ RunOf(g) # run
      BY <2>1 DEF Quiet, Live, Active
    <2>5. UniqueReplicaIndex'
      BY <2>1, <2>4 DEF SummaryInv, UniqueReplicaIndex
    <2>6. AtMostOneSummary'
      BY <2>1 DEF SummaryInv, AtMostOneSummary
    <2>7. NothingBeforeStart'
      BY <2>1, <2>2, <2>3 DEF SummaryInv, NothingBeforeStart
    <2>8. IndexBelowCounter'
      BY <2>1, <2>2, <2>4, FleetName DEF SummaryInv, IndexBelowCounter
    <2>9. SummaryConsumesZero'
      BY <2>1, <2>2, <2>3, <2>4 DEF SummaryInv, SummaryConsumesZero
    <2> QED  BY <2>5, <2>6, <2>7, <2>8, <2>9 DEF SummaryInv
  <1>15. CASE UNCHANGED vars
    <2>1. /\ cmd' = cmd /\ summaries' = summaries /\ counter' = counter
          /\ inbox' = inbox /\ fleet' = fleet
      BY <1>15 DEF vars
    <2> QED  BY <2>1, SummaryFrame DEF Pending, Live, Active
  <1> QED
    BY <1>1, <1>2, <1>3, <1>4, <1>5, <1>6, <1>7, <1>8, <1>9, <1>10, <1>11,
       <1>12, <1>13, <1>14, <1>15
    DEF Next, Gateway, Callback, Process, Step

\* SummaryInv holds throughout.
LEMMA SummaryInvariant == Spec => []SummaryInv
  <1>1. Init => SummaryInv
    <2> SUFFICES ASSUME Init PROVE SummaryInv
      OBVIOUS
    <2>1. \A g \in Fleets : ~Live(g) /\ ~Active(g)
      BY DEF Init, FreeFleet, Live, Active
    <2>2. \A run \in Runs : Quiet(run)
      BY <2>1 DEF Init, Quiet, Pending
    <2> QED
      BY <2>1, <2>2 DEF Init, SummaryInv, UniqueReplicaIndex, AtMostOneSummary,
         NothingBeforeStart, IndexBelowCounter, SummaryConsumesZero
  <1> QED  BY <1>1, SummaryStep, TypeCorrect, PTL DEF Spec

\* However many replicas there are and however they fail, a run's summary is
\* published at most once.
THEOREM SummaryOnce == Spec => []AtMostOneSummary
  <1>1. SummaryInv => AtMostOneSummary  BY DEF SummaryInv
  <1> QED  BY <1>1, SummaryInvariant, PTL

\* Fleets at work on the same run hold different replica indices.
THEOREM IndicesUnique == Spec => []UniqueReplicaIndex
  <1>1. SummaryInv => UniqueReplicaIndex  BY DEF SummaryInv
  <1> QED  BY <1>1, SummaryInvariant, PTL

-----------------------------------------------------------------------------
(* The supervisors map and the goroutines agree.                           *)

\* Steps that leave the map alone and keep every goroutine as live as it was.
LEMMA SupervisorsFrame ==
    ASSUME SupervisorsInv, TypeOK, supervisors' = supervisors,
           \A g \in Fleets : Live(g)' <=> Live(g)
    PROVE  SupervisorsInv'
  <1>1. ASSUME NEW r \in Replicas, NEW run \in Runs, Registered(r, run)
        PROVE  supervisors[r][run] \in Fleets
    BY <1>1 DEF Registered, TypeOK
  <1>2. RegisteredIsLive'
    BY <1>1 DEF SupervisorsInv, RegisteredIsLive, Registered
  <1>3. LiveIsRegistered'
    BY DEF SupervisorsInv, LiveIsRegistered
  <1> QED  BY <1>2, <1>3 DEF SupervisorsInv

\* SupervisorsInv is inductive relative to TypeOK.
LEMMA SupervisorsStep == TypeOK /\ SupervisorsInv /\ [Next]_vars => SupervisorsInv'
  <1> SUFFICES ASSUME TypeOK, SupervisorsInv, [Next]_vars
               PROVE  SupervisorsInv'
    OBVIOUS
  <1>0. fleet \in [Fleets -> FleetState]  BY DEF TypeOK
  <1>1. ASSUME NEW run \in Runs, PublishStart(run) \/ PublishCancel(run) \/ ExpireKey(run)
        PROVE  SupervisorsInv'
    <2>1. supervisors' = supervisors /\ fleet' = fleet
      BY <1>1 DEF PublishStart, PublishCancel, ExpireKey
    <2> QED  BY <2>1, SupervisorsFrame DEF Live
  <1>2. ASSUME NEW r \in Replicas, HandleStart(r)
        PROVE  SupervisorsInv'
    <2>1. PICK k \in Runs, n \in Fleets :
            k = Head(inbox[r]).run /\ n = <<r, k, Head(inbox[r]).copy>>
      BY <1>2, HeadMessage DEF HandleStart
    <2>2. CASE Registered(r, k)
      <3>1. supervisors' = supervisors /\ fleet' = fleet
        BY <1>2, <2>1, <2>2 DEF HandleStart
      <3> QED  BY <3>1, SupervisorsFrame DEF Live
    <2>3. CASE ~Registered(r, k)
      <3>1. /\ supervisors' = [supervisors EXCEPT ![r][k] = n]
            /\ fleet' = [fleet EXCEPT ![n] = [FreeFleet EXCEPT !.pc = "claiming"]]
        BY <1>2, <2>1, <2>3 DEF HandleStart
      <3>2. RepOf(n) = r /\ RunOf(n) = k  BY <2>1 DEF RepOf, RunOf
      <3>3. supervisors'[r][k] = n
        BY <3>1, <2>1 DEF TypeOK
      <3>4. ASSUME NEW q \in Replicas, NEW run \in Runs, q # r \/ run # k
            PROVE  supervisors'[q][run] = supervisors[q][run]
        BY <3>1, <3>4, <2>1 DEF TypeOK
      <3>5. Live(n)'
        BY <3>1, <2>1, <1>0 DEF Live, FreeFleet
      <3>6. ASSUME NEW h \in Fleets, h # n
            PROVE  Live(h)' <=> Live(h)
        BY <3>1, <3>6, <2>1, <1>0 DEF Live
      <3>7. RegisteredIsLive'
        <4> SUFFICES ASSUME NEW q \in Replicas, NEW run \in Runs, Registered(q, run)'
                     PROVE  /\ RepOf(supervisors'[q][run]) = q
                            /\ RunOf(supervisors'[q][run]) = run
                            /\ Live(supervisors[q][run])'
          BY DEF RegisteredIsLive
        <4>1. CASE q = r /\ run = k
          BY <4>1, <3>2, <3>3, <3>5
        <4>2. CASE q # r \/ run # k
          <5>1. supervisors'[q][run] = supervisors[q][run] /\ Registered(q, run)
            BY <4>2, <3>4 DEF Registered
          <5>2. /\ RepOf(supervisors[q][run]) = q /\ RunOf(supervisors[q][run]) = run
                /\ Live(supervisors[q][run]) /\ supervisors[q][run] \in Fleets
            BY <5>1 DEF SupervisorsInv, RegisteredIsLive, Registered, TypeOK
          <5>3. supervisors[q][run] # n
            BY <5>2, <4>2, <3>2
          <5>4. Live(supervisors[q][run])'
            BY <5>1, <5>2, <5>3, <3>6 DEF Live
          <5> QED  BY <5>1, <5>2, <5>4
        <4> QED  BY <4>1, <4>2
      <3>8. LiveIsRegistered'
        <4> SUFFICES ASSUME NEW h \in Fleets, Live(h)'
                     PROVE  supervisors'[RepOf(h)][RunOf(h)] = h
          BY DEF LiveIsRegistered
        <4>1. CASE h = n  BY <4>1, <3>2, <3>3
        <4>2. CASE h # n
          <5>1. supervisors[RepOf(h)][RunOf(h)] = h
            BY <4>2, <3>6 DEF SupervisorsInv, LiveIsRegistered
          <5>2. RepOf(h) # r \/ RunOf(h) # k
            <6>1. h # NoFleet  BY DEF Fleets, NoFleet
            <6> QED  BY <5>1, <6>1, <2>3 DEF Registered
          <5> QED  BY <5>1, <5>2, <3>4, FleetName
        <4> QED  BY <4>1, <4>2
      <3> QED  BY <3>7, <3>8 DEF SupervisorsInv
    <2> QED  BY <2>2, <2>3
  <1>3. ASSUME NEW r \in Replicas, HandleCancel(r)
        PROVE  SupervisorsInv'
    <2>1. supervisors' = supervisors /\ fleet' = CallCancelFunc(r, Head(inbox[r]).run)
      BY <1>3 DEF HandleCancel
    <2>2. \A g \in Fleets : fleet'[g].pc = fleet[g].pc
      BY <2>1, <1>0 DEF CallCancelFunc, FleetState
    <2> QED  BY <2>1, <2>2, SupervisorsFrame DEF Live
  <1>4. ASSUME NEW g \in Fleets,
               Claim(g) \/ ClaimError(g) \/ Launch(g) \/ Timeout(g) \/ Finish(g)
        PROVE  SupervisorsInv'
    <2>1. supervisors' = supervisors
      BY <1>4 DEF Claim, ClaimError, Launch, Timeout, Finish
    <2>2. \A h \in Fleets : h # g => fleet'[h] = fleet[h]
      BY <1>4, <1>0 DEF Claim, Claimed, ClaimError, Launch, Timeout, Finish
    <2>3. Live(g) /\ Live(g)'
      BY <1>4, <1>0 DEF Claim, Claimed, ClaimError, Launch, Timeout, Finish, Live,
                        FleetState
    <2>4. \A h \in Fleets : Live(h)' <=> Live(h)
      BY <2>2, <2>3 DEF Live
    <2> QED  BY <2>1, <2>4, SupervisorsFrame
  <1>5. ASSUME NEW g \in Fleets, Unregister(g)
        PROVE  SupervisorsInv'
    <2>1. /\ supervisors' = [supervisors EXCEPT ![RepOf(g)][RunOf(g)] = NoFleet]
          /\ fleet' = [fleet EXCEPT ![g] = [FreeFleet EXCEPT !.pc = "done",
                                                 !.bots = fleet[g].bots]]
          /\ Live(g)
      BY <1>5 DEF Unregister, Live
    <2>2. supervisors[RepOf(g)][RunOf(g)] = g
      BY <2>1 DEF SupervisorsInv, LiveIsRegistered
    <2>3. RepOf(g) \in Replicas /\ RunOf(g) \in Runs  BY FleetName
    <2>4. ASSUME NEW q \in Replicas, NEW run \in Runs, q # RepOf(g) \/ run # RunOf(g)
          PROVE  supervisors'[q][run] = supervisors[q][run]
      BY <2>1, <2>3, <2>4 DEF TypeOK
    <2>5. supervisors'[RepOf(g)][RunOf(g)] = NoFleet
      BY <2>1, <2>3 DEF TypeOK
    <2>6. ~Live(g)'
      BY <2>1, <1>0 DEF Live, FreeFleet
    <2>7. ASSUME NEW h \in Fleets, h # g
          PROVE  Live(h)' <=> Live(h)
      BY <2>1, <2>7, <1>0 DEF Live
    <2>8. RegisteredIsLive'
      <3> SUFFICES ASSUME NEW q \in Replicas, NEW run \in Runs, Registered(q, run)'
                   PROVE  /\ RepOf(supervisors'[q][run]) = q
                          /\ RunOf(supervisors'[q][run]) = run
                          /\ Live(supervisors[q][run])'
        BY DEF RegisteredIsLive
      <3>1. q # RepOf(g) \/ run # RunOf(g)
        BY <2>5 DEF Registered
      <3>2. supervisors'[q][run] = supervisors[q][run] /\ Registered(q, run)
        BY <3>1, <2>4 DEF Registered
      <3>3. /\ RepOf(supervisors[q][run]) = q /\ RunOf(supervisors[q][run]) = run
            /\ Live(supervisors[q][run]) /\ supervisors[q][run] \in Fleets
        BY <3>2 DEF SupervisorsInv, RegisteredIsLive, Registered, TypeOK
      <3>4. supervisors[q][run] # g
        BY <3>1, <3>3
      <3>5. Live(supervisors[q][run])'
        BY <3>2, <3>3, <3>4, <2>7 DEF Live
      <3> QED  BY <3>2, <3>3, <3>5
    <2>9. LiveIsRegistered'
      <3> SUFFICES ASSUME NEW h \in Fleets, Live(h)'
                   PROVE  supervisors'[RepOf(h)][RunOf(h)] = h
        BY DEF LiveIsRegistered
      <3>1. h # g /\ supervisors[RepOf(h)][RunOf(h)] = h
        BY <2>6, <2>7 DEF SupervisorsInv, LiveIsRegistered
      <3> QED  BY <3>1, <2>2, <2>4, FleetName
    <2> QED  BY <2>8, <2>9 DEF SupervisorsInv
  <1>6. ASSUME NEW r \in Replicas, Shutdown(r)
        PROVE  SupervisorsInv'
    <2>1. supervisors' = supervisors
      BY <1>6 DEF Shutdown
    <2>2. \A g \in Fleets : fleet'[g].pc = fleet[g].pc
      BY <1>6, <1>0 DEF Shutdown, FleetState
    <2> QED  BY <2>1, <2>2, SupervisorsFrame DEF Live
  <1>7. ASSUME NEW r \in Replicas, Exit(r)
        PROVE  SupervisorsInv'
    <2>1. /\ supervisors' = [supervisors EXCEPT ![r] = [run \in Runs |-> NoFleet]]
          /\ \A g \in Fleets : /\ RepOf(g) = r => ~Live(g)'
                               /\ RepOf(g) # r => (Live(g)' <=> Live(g))
      BY <1>7, <1>0 DEF Exit, Live, FreeFleet
    <2>2. RegisteredIsLive'
      <3> SUFFICES ASSUME NEW q \in Replicas, NEW run \in Runs, Registered(q, run)'
                   PROVE  /\ RepOf(supervisors'[q][run]) = q
                          /\ RunOf(supervisors'[q][run]) = run
                          /\ Live(supervisors[q][run])'
        BY DEF RegisteredIsLive
      <3>1. q # r /\ supervisors'[q][run] = supervisors[q][run] /\ Registered(q, run)
        BY <2>1 DEF Registered, TypeOK
      <3>2. /\ RepOf(supervisors[q][run]) = q /\ RunOf(supervisors[q][run]) = run
            /\ Live(supervisors[q][run]) /\ supervisors[q][run] \in Fleets
        BY <3>1 DEF SupervisorsInv, RegisteredIsLive, Registered, TypeOK
      <3>3. Live(supervisors[q][run])'
        BY <3>1, <3>2, <2>1 DEF Live
      <3> QED  BY <3>1, <3>2, <3>3
    <2>3. LiveIsRegistered'
      <3> SUFFICES ASSUME NEW h \in Fleets, Live(h)'
                   PROVE  supervisors'[RepOf(h)][RunOf(h)] = h
        BY DEF LiveIsRegistered
      <3>1. RepOf(h) # r /\ supervisors[RepOf(h)][RunOf(h)] = h
        BY <2>1 DEF SupervisorsInv, LiveIsRegistered
      <3> QED  BY <3>1, <2>1, FleetName DEF TypeOK
    <2> QED  BY <2>2, <2>3 DEF SupervisorsInv
  <1>8. ASSUME NEW r \in Replicas, Restart(r)
        PROVE  SupervisorsInv'
    <2>1. supervisors' = supervisors /\ fleet' = fleet
      BY <1>8 DEF Restart
    <2> QED  BY <2>1, SupervisorsFrame DEF Live
  <1>9. CASE UNCHANGED vars
    <2>1. supervisors' = supervisors /\ fleet' = fleet
      BY <1>9 DEF vars
    <2> QED  BY <2>1, SupervisorsFrame DEF Live
  <1> QED
    BY <1>1, <1>2, <1>3, <1>4, <1>5, <1>6, <1>7, <1>8, <1>9
    DEF Next, Gateway, Callback, Process, Step

\* No replica ever drives one run from two goroutines, whatever is delivered
\* twice, cancelled, finished or restarted in between.
THEOREM OneFleet == Spec => []OneFleetPerReplica
  <1>1. Init => SupervisorsInv
    BY DEF Init, SupervisorsInv, RegisteredIsLive, LiveIsRegistered, Registered,
           Live, FreeFleet
  <1>2. SupervisorsInv => OneFleetPerReplica
    BY DEF SupervisorsInv, LiveIsRegistered, OneFleetPerReplica
  <1> QED  BY <1>1, <1>2, SupervisorsStep, TypeCorrect, PTL DEF Spec

-----------------------------------------------------------------------------
(* A cancel that was handled is obeyed.                                    *)

\* Publishing keeps what an inbox holds in its place and appends only
\* messages of that type and run.
LEMMA DeliverAppends ==
    ASSUME TypeOK, NEW type \in {"start", "cancel"}, NEW run \in Runs,
           NEW max \in 0 .. MaxCopies, Deliver(type, run, max),
           NEW r \in Replicas, NEW i \in 1 .. Len(inbox'[r])
    PROVE  \/ i \in 1 .. Len(inbox[r]) /\ inbox'[r][i] = inbox[r][i]
           \/ /\ i > Len(inbox[r])
              /\ inbox'[r][i].type = type /\ inbox'[r][i].run = run
  <1>1. PICK n \in [Replicas -> 0 .. max] :
          inbox' = [q \in Replicas |->
                      IF phase[q] = "down" THEN inbox[q]
                      ELSE inbox[q] \o CopiesOf(type, run, n[q])]
    BY DEF Deliver
  <1> DEFINE c == CopiesOf(type, run, n[r])
  <1>2. n[r] \in Nat /\ 1 .. n[r] \subseteq Copies
    BY BoundsAssumption DEF Copies
  <1>3. c \in [1 .. n[r] -> Message]
    BY <1>2 DEF CopiesOf, Message
  <1>4. c \in Seq(Message) /\ Len(c) = n[r]
    BY <1>2, <1>3, SeqDef DEF CopiesOf
  <1>5. \A k \in 1 .. Len(c) : c[k].type = type /\ c[k].run = run
    BY <1>4 DEF CopiesOf
  <1>6. CASE phase[r] = "down"
    BY <1>1, <1>6
  <1>7. CASE phase[r] # "down"
    <2>1. inbox'[r] = inbox[r] \o c  BY <1>1, <1>7
    <2>2. inbox[r] \in Seq(Message)  BY DEF TypeOK
    <2> HIDE DEF c
    <2>3. /\ Len(inbox[r]) \in Nat /\ Len(c) \in Nat
          /\ Len(inbox[r] \o c) = Len(inbox[r]) + Len(c)
      BY <1>4, <2>2, LenProperties, ConcatProperties
    <2>4. CASE i <= Len(inbox[r])
      BY <1>4, <2>1, <2>2, <2>3, <2>4
    <2>5. CASE i > Len(inbox[r])
      <3>1. /\ i - Len(inbox[r]) \in 1 .. Len(c)
            /\ (inbox[r] \o c)[i] = c[i - Len(inbox[r])]
        BY <1>4, <2>1, <2>2, <2>3, <2>5
      <3> QED  BY <1>5, <2>1, <2>5, <3>1
    <2> QED  BY <2>3, <2>4, <2>5
  <1> QED  BY <1>6, <1>7

\* Handling the message at the head of an inbox keeps the order of the others.
\* When it is a cancel, no start of its run is left behind it.
LEMMA TailNoStart ==
    ASSUME TypeOK, NoStartAfterCancel, cmd' = cmd,
           NEW r \in Replicas, inbox[r] # <<>>,
           inbox' = [inbox EXCEPT ![r] = Tail(@)],
           \/ cancelSeen' = cancelSeen
           \/ /\ Head(inbox[r]).type = "cancel"
              /\ cancelSeen' = [cancelSeen EXCEPT ![r] = @ \cup {Head(inbox[r]).run}]
    PROVE  NoStartAfterCancel'
  <1>1. \A q \in Replicas : inbox[q] \in Seq(Message) /\ Len(inbox[q]) \in Nat
    BY LenProperties DEF TypeOK
  <1>2. ASSUME NEW i \in 1 .. Len(inbox'[r])
        PROVE  i + 1 \in 1 .. Len(inbox[r]) /\ inbox'[r][i] = inbox[r][i + 1]
    BY <1>1 DEF TypeOK
  <1>3. \A q \in Replicas \ {r} : inbox'[q] = inbox[q] /\ cancelSeen'[q] = cancelSeen[q]
    BY DEF TypeOK
  <1>4. 1 \in 1 .. Len(inbox[r]) /\ inbox[r][1] = Head(inbox[r])
    BY <1>1
  <1>5. ASSUME NEW x \in Runs, NEW type \in {"start", "cancel"}, Pending(r, type, x)'
        PROVE  Pending(r, type, x)
    BY <1>2, <1>5 DEF Pending
  <1>6. ASSUME NEW x \in Runs, x \in cancelSeen'[r]
        PROVE  /\ ~Pending(r, "start", x)'
               /\ cmd[x] # NoCmd
    <2>1. CASE x \in cancelSeen[r]
      BY <2>1, <1>5 DEF NoStartAfterCancel
    <2>2. CASE x \notin cancelSeen[r]
      <3>1. Head(inbox[r]).type = "cancel" /\ x = Head(inbox[r]).run
        BY <1>6, <2>2 DEF TypeOK
      <3>2. \A j \in 1 .. Len(inbox[r]) :
               inbox[r][j].type = "start" /\ inbox[r][j].run = x => j < 1
        BY <3>1, <1>4 DEF NoStartAfterCancel
      <3>3. ~Pending(r, "start", x)
        BY <3>2, <1>1 DEF Pending
      <3>4. Pending(r, "cancel", x)
        BY <3>1, <1>4 DEF Pending
      <3> QED  BY <3>3, <3>4, <1>5 DEF NoStartAfterCancel
    <2> QED  BY <2>1, <2>2
  <1>7. ASSUME NEW i \in 1 .. Len(inbox'[r]), NEW j \in 1 .. Len(inbox'[r]),
               inbox'[r][i].type = "cancel", inbox'[r][j].type = "start",
               inbox'[r][i].run = inbox'[r][j].run
        PROVE  j < i
    <2>1. j + 1 < i + 1
      BY <1>2, <1>7 DEF NoStartAfterCancel
    <2> QED  BY <2>1
  <1> SUFFICES ASSUME NEW q \in Replicas
               PROVE  /\ \A i, j \in 1 .. Len(inbox'[q]) :
                            /\ inbox'[q][i].type = "cancel"
                            /\ inbox'[q][j].type = "start"
                            /\ inbox'[q][i].run = inbox'[q][j].run
                            => j < i
                      /\ \A x \in Runs :
                            /\ x \in cancelSeen'[q] => ~Pending(q, "start", x)'
                            /\ x \in cancelSeen'[q] \/ Pending(q, "cancel", x)'
                                  => cmd[x] # NoCmd
    BY DEF NoStartAfterCancel
  <1>8. CASE q = r
    BY <1>8, <1>5, <1>6, <1>7 DEF NoStartAfterCancel
  <1>9. CASE q # r
    BY <1>9, <1>3 DEF NoStartAfterCancel, Pending
  <1> QED  BY <1>8, <1>9

\* Steps that leave inboxes, commands and handled cancels alone, and let no
\* goroutine without an ended context appear.
LEMMA CancelFrame ==
    ASSUME CancelInv, inbox' = inbox, cancelSeen' = cancelSeen, cmd' = cmd,
           \A g \in Fleets :
              Live(g)' => Live(g) /\ (fleet[g].ctxDone => fleet'[g].ctxDone)
    PROVE  CancelInv'
  <1>1. CancelHonoured'
    BY DEF CancelInv, CancelHonoured
  <1>2. NoStartAfterCancel'
    BY DEF CancelInv, NoStartAfterCancel, Pending
  <1> QED  BY <1>1, <1>2 DEF CancelInv

\* CancelInv is inductive relative to TypeOK and SupervisorsInv.
LEMMA CancelStep ==
    TypeOK /\ SupervisorsInv /\ CancelInv /\ [Next]_vars => CancelInv'
  <1> SUFFICES ASSUME TypeOK, SupervisorsInv, CancelInv, [Next]_vars
               PROVE  CancelInv'
    OBVIOUS
  <1>0. /\ fleet \in [Fleets -> FleetState]
        /\ \A r \in Replicas : inbox[r] \in Seq(Message) /\ Len(inbox[r]) \in Nat
    BY LenProperties DEF TypeOK
  <1>1. ASSUME NEW run \in Runs, PublishStart(run)
        PROVE  CancelInv'
    <2>1. /\ Deliver("start", run, MaxCopies) /\ cmd[run] = NoCmd
          /\ fleet' = fleet /\ cancelSeen' = cancelSeen
          /\ \A x \in Runs : cmd[x] # NoCmd => cmd'[x] # NoCmd
      <3>1. PICK c \in Command : cmd' = [cmd EXCEPT ![run] = c]
        BY <1>1 DEF PublishStart
      <3> QED  BY <1>1, <3>1 DEF PublishStart, TypeOK
    <2>2. ASSUME NEW r \in Replicas, NEW i \in 1 .. Len(inbox'[r])
          PROVE  \/ i \in 1 .. Len(inbox[r]) /\ inbox'[r][i] = inbox[r][i]
                 \/ inbox'[r][i].type = "start" /\ inbox'[r][i].run = run
      BY <2>1, DeliverAppends, BoundsAssumption
    <2>3. ASSUME NEW r \in Replicas, NEW x \in Runs
          PROVE  /\ Pending(r, "cancel", x)' => Pending(r, "cancel", x)
                 /\ x # run /\ Pending(r, "start", x)' => Pending(r, "start", x)
      BY <2>2 DEF Pending
    <2>4. \A r \in Replicas : run \notin cancelSeen[r] /\ ~Pending(r, "cancel", run)
      BY <2>1 DEF CancelInv, NoStartAfterCancel
    <2>5. CancelHonoured'
      BY <2>1 DEF CancelInv, CancelHonoured, Live
    <2>6. NoStartAfterCancel'
      <3> SUFFICES ASSUME NEW r \in Replicas
                   PROVE  /\ \A i, j \in 1 .. Len(inbox'[r]) :
                                /\ inbox'[r][i].type = "cancel"
                                /\ inbox'[r][j].type = "start"
                                /\ inbox'[r][i].run = inbox'[r][j].run
                                => j < i
                          /\ \A x \in Runs :
                                /\ x \in cancelSeen[r] => ~Pending(r, "start", x)'
                                /\ x \in cancelSeen[r] \/ Pending(r, "cancel", x)'
                                      => cmd'[x] # NoCmd
        BY <2>1 DEF NoStartAfterCancel
      <3>1. ASSUME NEW i \in 1 .. Len(inbox'[r]), NEW j \in 1 .. Len(inbox'[r]),
                   inbox'[r][i].type = "cancel", inbox'[r][j].type = "start",
                   inbox'[r][i].run = inbox'[r][j].run
            PROVE  j < i
        <4>1. i \in 1 .. Len(inbox[r]) /\ inbox'[r][i] = inbox[r][i]
          BY <2>2, <3>1
        <4>2. inbox[r][i].run # run
          BY <4>1, <3>1, <2>4 DEF Pending
        <4>3. j \in 1 .. Len(inbox[r]) /\ inbox'[r][j] = inbox[r][j]
          BY <2>2, <3>1, <4>1, <4>2
        <4> QED  BY <3>1, <4>1, <4>3 DEF CancelInv, NoStartAfterCancel
      <3>2. ASSUME NEW x \in Runs
            PROVE  /\ x \in cancelSeen[r] => ~Pending(r, "start", x)'
                   /\ x \in cancelSeen[r] \/ Pending(r, "cancel", x)' => cmd'[x] # NoCmd
        BY <2>1, <2>3, <2>4 DEF CancelInv, NoStartAfterCancel
      <3> QED  BY <3>1, <3>2
    <2> QED  BY <2>5, <2>6 DEF CancelInv
  <1>2. ASSUME NEW run \in Runs, PublishCancel(run)
        PROVE  CancelInv'
    <2>1. /\ Deliver("cancel", run, 1) /\ cmd[run] # NoCmd /\ cmd' = cmd
          /\ fleet' = fleet /\ cancelSeen' = cancelSeen
      BY <1>2 DEF PublishCancel
    <2>2. ASSUME NEW r \in Replicas, NEW i \in 1 .. Len(inbox'[r])
          PROVE  \/ i \in 1 .. Len(inbox[r]) /\ inbox'[r][i] = inbox[r][i]
                 \/ /\ i > Len(inbox[r])
                    /\ inbox'[r][i].type = "cancel" /\ inbox'[r][i].run = run
      BY <2>1, DeliverAppends, BoundsAssumption
    <2>3. ASSUME NEW r \in Replicas, NEW x \in Runs
          PROVE  /\ Pending(r, "start", x)' => Pending(r, "start", x)
                 /\ x # run /\ Pending(r, "cancel", x)' => Pending(r, "cancel", x)
      BY <2>2 DEF Pending
    <2>4. CancelHonoured'
      BY <2>1 DEF CancelInv, CancelHonoured, Live
    <2>5. NoStartAfterCancel'
      <3> SUFFICES ASSUME NEW r \in Replicas
                   PROVE  /\ \A i, j \in 1 .. Len(inbox'[r]) :
                                /\ inbox'[r][i].type = "cancel"
                                /\ inbox'[r][j].type = "start"
                                /\ inbox'[r][i].run = inbox'[r][j].run
                                => j < i
                          /\ \A x \in Runs :
                                /\ x \in cancelSeen[r] => ~Pending(r, "start", x)'
                                /\ x \in cancelSeen[r] \/ Pending(r, "cancel", x)'
                                      => cmd[x] # NoCmd
        BY <2>1 DEF NoStartAfterCancel
      <3>1. ASSUME NEW i \in 1 .. Len(inbox'[r]), NEW j \in 1 .. Len(inbox'[r]),
                   inbox'[r][i].type = "cancel", inbox'[r][j].type = "start",
                   inbox'[r][i].run = inbox'[r][j].run
            PROVE  j < i
        <4>1. j \in 1 .. Len(inbox[r]) /\ inbox'[r][j] = inbox[r][j]
          BY <2>2, <3>1
        <4>2. CASE i > Len(inbox[r])
          BY <4>1, <4>2, <1>0
        <4>3. CASE i \in 1 .. Len(inbox[r]) /\ inbox'[r][i] = inbox[r][i]
          BY <3>1, <4>1, <4>3 DEF CancelInv, NoStartAfterCancel
        <4> QED  BY <2>2, <4>2, <4>3
      <3>2. ASSUME NEW x \in Runs
            PROVE  /\ x \in cancelSeen[r] => ~Pending(r, "start", x)'
                   /\ x \in cancelSeen[r] \/ Pending(r, "cancel", x)' => cmd[x] # NoCmd
        BY <2>1, <2>3 DEF CancelInv, NoStartAfterCancel
      <3> QED  BY <3>1, <3>2
    <2> QED  BY <2>4, <2>5 DEF CancelInv
  <1>3. ASSUME NEW r \in Replicas, HandleStart(r)
        PROVE  CancelInv'
    <2>1. PICK k \in Runs, n \in Fleets :
            k = Head(inbox[r]).run /\ n = <<r, k, Head(inbox[r]).copy>>
      BY <1>3, HeadMessage DEF HandleStart
    <2>2. /\ cmd' = cmd /\ cancelSeen' = cancelSeen /\ inbox[r] # <<>>
          /\ inbox' = [inbox EXCEPT ![r] = Tail(@)]
          /\ Head(inbox[r]).type = "start"
      BY <1>3 DEF HandleStart
    <2>3. NoStartAfterCancel'
      BY <2>2, TailNoStart DEF CancelInv
    <2>4. CancelHonoured'
      <3>1. CASE Registered(r, k)
        <4>1. fleet' = fleet  BY <1>3, <2>1, <3>1 DEF HandleStart
        <4> QED  BY <4>1, <2>2 DEF CancelInv, CancelHonoured, Live
      <3>2. CASE ~Registered(r, k)
        <4>1. fleet' = [fleet EXCEPT ![n] = [FreeFleet EXCEPT !.pc = "claiming"]]
          BY <1>3, <2>1, <3>2 DEF HandleStart
        <4>2. Pending(r, "start", k)
          <5>1. 1 \in 1 .. Len(inbox[r]) /\ inbox[r][1] = Head(inbox[r])
            BY <2>2, <1>0
          <5> QED  BY <5>1, <2>1, <2>2 DEF Pending
        <4>3. k \notin cancelSeen[r]
          BY <4>2, <2>1 DEF CancelInv, NoStartAfterCancel
        <4>4. RepOf(n) = r /\ RunOf(n) = k  BY <2>1 DEF RepOf, RunOf
        <4>5. \A g \in Fleets \ {n} : fleet'[g] = fleet[g]
          BY <4>1, <1>0
        <4> QED  BY <4>3, <4>4, <4>5, <2>2 DEF CancelInv, CancelHonoured, Live
      <3> QED  BY <3>1, <3>2
    <2> QED  BY <2>3, <2>4 DEF CancelInv
  <1>4. ASSUME NEW r \in Replicas, HandleCancel(r)
        PROVE  CancelInv'
    <2>1. PICK k \in Runs : k = Head(inbox[r]).run
      BY <1>4, HeadMessage DEF HandleCancel
    <2>2. /\ cmd' = cmd /\ inbox[r] # <<>>
          /\ inbox' = [inbox EXCEPT ![r] = Tail(@)]
          /\ cancelSeen' = [cancelSeen EXCEPT ![r] = @ \cup {k}]
          /\ fleet' = CallCancelFunc(r, k)
          /\ Head(inbox[r]).type = "cancel"
      BY <1>4, <2>1 DEF HandleCancel
    <2>3. NoStartAfterCancel'
      BY <2>1, <2>2, TailNoStart DEF CancelInv
    <2>4. ASSUME NEW g \in Fleets, Live(g)'
          PROVE  /\ Live(g)
                 /\ fleet[g].ctxDone => fleet'[g].ctxDone
                 /\ RepOf(g) = r /\ RunOf(g) = k => fleet'[g].ctxDone
      <3> DEFINE s == supervisors[r][k]
      <3>1. \/ ~Registered(r, k) /\ fleet' = fleet
            \/ Registered(r, k) /\ fleet' = [fleet EXCEPT ![s].ctxDone = TRUE]
        BY <2>2 DEF CallCancelFunc
      <3>2. fleet[g] \in FleetState
        BY <1>0
      <3>2a. g # NoFleet
        BY DEF Fleets, NoFleet
      <3> HIDE DEF s
      <3>3. /\ fleet'[g].pc = fleet[g].pc
            /\ fleet[g].ctxDone => fleet'[g].ctxDone
            /\ g = s /\ Registered(r, k) => fleet'[g].ctxDone
        BY <3>1, <3>2, <1>0 DEF FleetState
      <3>4. Live(g)  BY <2>4, <3>3 DEF Live
      <3>5. RepOf(g) = r /\ RunOf(g) = k => s = g /\ Registered(r, k)
        BY <3>2a, <3>4 DEF SupervisorsInv, LiveIsRegistered, Registered, s
      <3> QED  BY <3>3, <3>4, <3>5
    <2>5. CancelHonoured'
      <3> SUFFICES ASSUME NEW g \in Fleets, Live(g)', RunOf(g) \in cancelSeen'[RepOf(g)]
                   PROVE  fleet'[g].ctxDone
        BY DEF CancelHonoured
      <3>1. \/ RunOf(g) \in cancelSeen[RepOf(g)]
            \/ RepOf(g) = r /\ RunOf(g) = k
        BY <2>2, FleetName DEF TypeOK
      <3> QED  BY <2>4, <3>1 DEF CancelInv, CancelHonoured
    <2> QED  BY <2>3, <2>5 DEF CancelInv
  <1>5. ASSUME NEW g \in Fleets, Step(g)
        PROVE  CancelInv'
    <2>1. inbox' = inbox /\ cancelSeen' = cancelSeen /\ cmd' = cmd
      BY <1>5 DEF Step, Claim, ClaimError, Launch, Timeout, Finish, Unregister
    <2>2. \A h \in Fleets \ {g} : fleet'[h] = fleet[h]
      BY <1>5, <1>0 DEF Step, Claim, Claimed, ClaimError, Launch, Timeout, Finish,
                        Unregister
    <2>3. Live(g)' => Live(g) /\ (fleet[g].ctxDone => fleet'[g].ctxDone)
      <3>1. CASE Claim(g) \/ Launch(g) \/ Timeout(g) \/ ClaimError(g) \/ Finish(g)
        BY <3>1, <1>0 DEF Claim, Claimed, ClaimError, Launch, Timeout, Finish, Live,
                          FleetState
      <3>2. CASE Unregister(g)
        BY <3>2, <1>0 DEF Unregister, Live, FreeFleet
      <3> QED  BY <1>5, <3>1, <3>2 DEF Step
    <2> QED  BY <2>1, <2>2, <2>3, CancelFrame DEF Live
  <1>6. ASSUME NEW r \in Replicas, Shutdown(r)
        PROVE  CancelInv'
    <2>1. inbox' = inbox /\ cancelSeen' = cancelSeen /\ cmd' = cmd
      BY <1>6 DEF Shutdown
    <2>2. ASSUME NEW g \in Fleets
          PROVE  /\ fleet'[g].pc = fleet[g].pc
                 /\ fleet[g].ctxDone => fleet'[g].ctxDone
      BY <1>6, <1>0 DEF Shutdown, FleetState
    <2> QED  BY <2>1, <2>2, CancelFrame DEF Live
  <1>7. ASSUME NEW r \in Replicas, Exit(r)
        PROVE  CancelInv'
    <2>1. /\ cmd' = cmd
          /\ inbox' = [inbox EXCEPT ![r] = <<>>]
          /\ cancelSeen' = [cancelSeen EXCEPT ![r] = {}]
      BY <1>7 DEF Exit
    <2>2. \A g \in Fleets : Live(g)' => fleet'[g] = fleet[g] /\ RepOf(g) # r
      BY <1>7 DEF Exit, FreeFleet, Live
    <2>3. CancelHonoured'
      BY <2>1, <2>2, FleetName DEF CancelInv, CancelHonoured, Live, TypeOK
    <2>4. NoStartAfterCancel'
      <3> SUFFICES ASSUME NEW q \in Replicas
                   PROVE  /\ \A i, j \in 1 .. Len(inbox'[q]) :
                                /\ inbox'[q][i].type = "cancel"
                                /\ inbox'[q][j].type = "start"
                                /\ inbox'[q][i].run = inbox'[q][j].run
                                => j < i
                          /\ \A x \in Runs :
                                /\ x \in cancelSeen'[q] => ~Pending(q, "start", x)'
                                /\ x \in cancelSeen'[q] \/ Pending(q, "cancel", x)'
                                      => cmd'[x] # NoCmd
        BY DEF NoStartAfterCancel
      <3>1. CASE q = r
        BY <3>1, <2>1 DEF TypeOK, Pending
      <3>2. CASE q # r
        <4>1. inbox'[q] = inbox[q] /\ cancelSeen'[q] = cancelSeen[q]
          BY <3>2, <2>1 DEF TypeOK
        <4> QED  BY <4>1, <2>1 DEF CancelInv, NoStartAfterCancel, Pending
      <3> QED  BY <3>1, <3>2
    <2> QED  BY <2>3, <2>4 DEF CancelInv
  <1>8. ASSUME NEW r \in Replicas, Restart(r)
        PROVE  CancelInv'
    <2>1. inbox' = inbox /\ cancelSeen' = cancelSeen /\ cmd' = cmd /\ fleet' = fleet
      BY <1>8 DEF Restart
    <2> QED  BY <2>1, CancelFrame DEF Live
  <1>9. ASSUME NEW run \in Runs, ExpireKey(run)
        PROVE  CancelInv'
    <2>1. inbox' = inbox /\ cancelSeen' = cancelSeen /\ cmd' = cmd /\ fleet' = fleet
      BY <1>9 DEF ExpireKey
    <2> QED  BY <2>1, CancelFrame DEF Live
  <1>10. CASE UNCHANGED vars
    <2>1. inbox' = inbox /\ cancelSeen' = cancelSeen /\ cmd' = cmd /\ fleet' = fleet
      BY <1>10 DEF vars
    <2> QED  BY <2>1, CancelFrame DEF Live
  <1> QED
    BY <1>1, <1>2, <1>3, <1>4, <1>5, <1>6, <1>7, <1>8, <1>9, <1>10
    DEF Next, Gateway, Callback, Process

\* SupervisorsInv holds throughout.
LEMMA SupervisorsInvariant == Spec => []SupervisorsInv
  <1>1. Init => SupervisorsInv
    BY DEF Init, SupervisorsInv, RegisteredIsLive, LiveIsRegistered, Registered,
           Live, FreeFleet
  <1> QED  BY <1>1, SupervisorsStep, TypeCorrect, PTL DEF Spec

\* A replica that has handled a run's cancel has no goroutine left that works
\* for the run with a live context, whatever was delivered before or restarts.
THEOREM CancelObeyed == Spec => []CancelHonoured
  <1>1. Init => CancelInv
    BY DEF Init, CancelInv, CancelHonoured, NoStartAfterCancel, Live, FreeFleet,
           Pending
  <1>2. CancelInv => CancelHonoured  BY DEF CancelInv
  <1> QED  BY <1>1, <1>2, CancelStep, TypeCorrect, SupervisorsInvariant, PTL DEF Spec

-----------------------------------------------------------------------------
(* Bots that share a run have distinct ids.                                *)

\* Blocks of n consecutive numbers at different multiples of n are disjoint.
LEMMA DisjointBlocks ==
    ASSUME NEW n \in Nat, NEW a \in Nat, NEW b \in Nat, a # b
    PROVE  {a * n + i : i \in 0 .. n - 1} \cap {b * n + i : i \in 0 .. n - 1} = {}
  <1>1. ASSUME NEW x \in Nat, NEW y \in Nat, x < y, NEW i \in 0 .. n - 1, NEW j \in 0 .. n - 1
        PROVE  x * n + i < y * n + j
    <2>1. PICK d \in Nat : y = x + 1 + d
      <3>1. y - x - 1 \in Nat /\ y = x + 1 + (y - x - 1)  BY <1>1
      <3> QED  BY <3>1
    <2>2. y * n = x * n + n + d * n  BY <2>1
    <2>3. x * n \in Nat /\ d * n \in Nat  OBVIOUS
    <2> QED  BY <2>2, <2>3
  <1>2. ASSUME NEW i \in 0 .. n - 1, NEW j \in 0 .. n - 1
        PROVE  a * n + i # b * n + j
    <2>1. a * n + i \in Nat /\ b * n + j \in Nat  OBVIOUS
    <2>2. CASE a < b
      <3>1. a * n + i < b * n + j  BY <2>2, <1>1
      <3> QED  BY <2>1, <3>1
    <2>3. CASE b < a
      <3>1. b * n + j < a * n + i  BY <2>3, <1>1
      <3> QED  BY <2>1, <3>1
    <2> QED  BY <2>2, <2>3
  <1> QED  BY <1>2

\* Distinct indices and one fleet size per run give disjoint ids.
LEMMA IdsFromSizes ==
    TypeOK /\ UniqueReplicaIndex /\ FleetSizeAsCommanded => BotIdsDisjoint
  <1> SUFFICES ASSUME TypeOK, UniqueReplicaIndex, FleetSizeAsCommanded,
                      NEW g \in Fleets, NEW h \in Fleets, g # h, RunOf(g) = RunOf(h),
                      fleet[g].pc = "running", fleet[h].pc = "running"
               PROVE  BotIds(g) \cap BotIds(h) = {}
    BY DEF BotIdsDisjoint
  <1>1. fleet[g].idx # fleet[h].idx
    BY DEF UniqueReplicaIndex, Active
  <1>2. fleet[g].bots = fleet[h].bots
    BY DEF FleetSizeAsCommanded
  <1>3. /\ fleet[g].idx \in Nat /\ fleet[h].idx \in Nat /\ fleet[g].bots \in Nat
    BY DEF TypeOK, FleetState
  <1> DEFINE n == fleet[g].bots
             a == fleet[g].idx
             b == fleet[h].idx
  <1>4. BotIds(g) = {a * n + i : i \in 0 .. n - 1}
    BY DEF BotIds
  <1>5. BotIds(h) = {b * n + i : i \in 0 .. n - 1}
    BY <1>2 DEF BotIds
  <1>6. n \in Nat /\ a \in Nat /\ b \in Nat /\ a # b
    BY <1>1, <1>3
  <1> HIDE DEF n, a, b
  <1>7. {a * n + i : i \in 0 .. n - 1} \cap {b * n + i : i \in 0 .. n - 1} = {}
    BY <1>6, DisjointBlocks
  <1> QED  BY <1>4, <1>5, <1>7

\* What a step does to the parts of the state SizeInv reads, when it does not
\* handle a start: commands of runs with live goroutines stay, no goroutine
\* appears, and one that starts to run takes the process's `bots`.
LEMMA SizeFrame ==
    ASSUME SizeInv, phase' = phase, bots' = bots,
           \A g \in Fleets : Live(g)' =>
              /\ Live(g) /\ cmd'[RunOf(g)] = cmd[RunOf(g)]
              /\ fleet'[g].pc = "running" =>
                    fleet[g].pc = "running" /\ fleet'[g].bots = fleet[g].bots
    PROVE  SizeInv'
  BY DEF SizeInv

\* With one run, or one size for all of them, SizeInv is inductive: the only
\* start that can change `bots` while a run has a goroutine asks for its size.
LEMMA SizeStep ==
    ASSUME (\A x, y \in Runs : x = y) \/ (\A m, n \in BotCounts : m = n)
    PROVE  TypeOK /\ SummaryInv /\ SizeInv /\ [Next]_vars => SizeInv'
  <1> SUFFICES ASSUME TypeOK, SummaryInv, SizeInv, [Next]_vars
               PROVE  SizeInv'
    OBVIOUS
  <1>0. fleet \in [Fleets -> FleetState]
    BY DEF TypeOK
  <1>1. ASSUME NEW run \in Runs, PublishStart(run)
        PROVE  SizeInv'
    <2>1. /\ cmd[run] = NoCmd /\ fleet' = fleet /\ phase' = phase /\ bots' = bots
      BY <1>1 DEF PublishStart
    <2>2. \A x \in Runs \ {run} : cmd'[x] = cmd[x]
      BY <1>1 DEF PublishStart, TypeOK
    <2>3. \A g \in Fleets : RunOf(g) = run => ~Live(g)
      BY <2>1 DEF SummaryInv, NothingBeforeStart, Quiet
    <2> QED  BY <2>1, <2>2, <2>3, SizeFrame, FleetName DEF Live
  <1>2. ASSUME NEW run \in Runs, PublishCancel(run)
        PROVE  SizeInv'
    BY <1>2, SizeFrame DEF PublishCancel, Live
  <1>3. ASSUME NEW r \in Replicas, HandleStart(r)
        PROVE  SizeInv'
    <2> DEFINE k == Head(inbox[r]).run
               s == <<r, k, Head(inbox[r]).copy>>
    <2>1. /\ k \in Runs /\ s \in Fleets /\ phase[r] # "down"
          /\ cmd' = cmd /\ phase' = phase /\ TakeBots(r, k)
          /\ \/ fleet' = fleet
             \/ fleet' = [fleet EXCEPT ![s] = [FreeFleet EXCEPT !.pc = "claiming"]]
      BY <1>3, HeadMessage DEF HandleStart
    <2>2. cmd[k] # NoCmd
      <3>1. /\ inbox[r] \in Seq(Message) /\ Len(inbox[r]) \in Nat /\ inbox[r] # <<>>
            /\ inbox[r][1] = Head(inbox[r]) /\ 1 \in 1 .. Len(inbox[r])
        BY <1>3, LenProperties DEF HandleStart, TypeOK
      <3>2. Pending(r, "start", k)
        BY <1>3, <3>1 DEF HandleStart, Pending
      <3> QED  BY <2>1, <3>2 DEF SummaryInv, NothingBeforeStart, Quiet
    <2>3. bots' = [bots EXCEPT ![r] = cmd[k].bots]
      <3>1. cmd[k] \in Command
        BY <2>1, <2>2 DEF TypeOK
      <3>2. cmd[k].bots \in Nat \ {0}
        <4>1. cmd[k].bots \in BotCounts  BY <3>1 DEF Command
        <4> QED  BY <4>1, BotCountsAssumption
      <3>3. cmd[k].bots > 0
        BY <3>2
      <3> QED  BY <2>1, <3>3 DEF TakeBots
    <2> HIDE DEF k, s
    <2> SUFFICES ASSUME NEW g \in Fleets, Live(g)'
                 PROVE  /\ phase[RepOf(g)] # "down"
                        /\ bots'[RepOf(g)] = cmd[RunOf(g)].bots
                        /\ fleet'[g].pc = "running" =>
                              fleet'[g].bots = cmd[RunOf(g)].bots
      BY <2>1 DEF SizeInv
    <2>4. \/ fleet'[g] = fleet[g] /\ Live(g)
          \/ RepOf(g) = r /\ RunOf(g) = k /\ fleet'[g].pc = "claiming"
      BY <1>0, <2>1 DEF Live, FreeFleet, RepOf, RunOf, s
    <2>5. cmd[RunOf(g)].bots = cmd[k].bots /\ RepOf(g) \in Replicas
      <3>1. RunOf(g) \in Runs /\ RepOf(g) \in Replicas
        BY FleetName
      <3>2. CASE RunOf(g) = k
        BY <3>1, <3>2
      <3>3. CASE RunOf(g) # k
        <4>1. Live(g)  BY <2>4, <3>3
        <4>2. cmd[RunOf(g)] # NoCmd
          BY <4>1, <3>1 DEF SummaryInv, NothingBeforeStart, Quiet
        <4>3. cmd[RunOf(g)] \in Command /\ cmd[k] \in Command
          BY <2>1, <2>2, <3>1, <4>2 DEF TypeOK
        <4>4. cmd[RunOf(g)].bots \in BotCounts /\ cmd[k].bots \in BotCounts
          BY <4>3 DEF Command
        <4>5. \A m, n \in BotCounts : m = n
          BY <2>1, <3>1, <3>3
        <4> QED  BY <3>1, <4>4, <4>5
      <3> QED  BY <3>2, <3>3
    <2>6. bots'[RepOf(g)] = IF RepOf(g) = r THEN cmd[k].bots ELSE bots[RepOf(g)]
      BY <2>3, <2>5 DEF TypeOK
    <2> QED  BY <2>1, <2>4, <2>5, <2>6 DEF SizeInv
  <1>4. ASSUME NEW r \in Replicas, HandleCancel(r)
        PROVE  SizeInv'
    <2>1. cmd' = cmd /\ phase' = phase /\ bots' = bots
      BY <1>4 DEF HandleCancel
    <2>2. \A g \in Fleets : fleet'[g].pc = fleet[g].pc /\ fleet'[g].bots = fleet[g].bots
      BY <1>4, <1>0 DEF HandleCancel, CallCancelFunc, FleetState
    <2> QED  BY <2>1, <2>2, SizeFrame DEF Live
  <1>5. ASSUME NEW g \in Fleets, Step(g), ~Launch(g)
        PROVE  SizeInv'
    <2>1. cmd' = cmd /\ phase' = phase /\ bots' = bots
      BY <1>5 DEF Step, Claim, ClaimError, Timeout, Finish, Unregister
    <2>2. \A h \in Fleets \ {g} : fleet'[h] = fleet[h]
      BY <1>5, <1>0 DEF Step, Claim, Claimed, ClaimError, Timeout, Finish, Unregister
    <2>3. Live(g)' => /\ Live(g)
                      /\ fleet'[g].pc = "running" =>
                            fleet[g].pc = "running" /\ fleet'[g].bots = fleet[g].bots
      <3>1. CASE Claim(g) \/ Timeout(g) \/ ClaimError(g) \/ Finish(g)
        BY <3>1, <1>0 DEF Claim, Claimed, ClaimError, Timeout, Finish, Live, FleetState
      <3>2. CASE Unregister(g)
        BY <3>2, <1>0 DEF Unregister, Live, FreeFleet
      <3> QED  BY <1>5, <3>1, <3>2 DEF Step
    <2> QED  BY <2>1, <2>2, <2>3, SizeFrame DEF Live
  <1>6. ASSUME NEW g \in Fleets, Launch(g)
        PROVE  SizeInv'
    <2>1. /\ cmd' = cmd /\ phase' = phase /\ bots' = bots
          /\ fleet[g].pc = "claimed"
          /\ fleet'[g].pc = "running" /\ fleet'[g].bots = bots[RepOf(g)]
          /\ \A h \in Fleets \ {g} : fleet'[h] = fleet[h]
      BY <1>6, <1>0 DEF Launch, FleetState
    <2> QED  BY <2>1 DEF SizeInv, Live
  <1>7. ASSUME NEW r \in Replicas, Shutdown(r)
        PROVE  SizeInv'
    <2>1. cmd' = cmd /\ phase' = [phase EXCEPT ![r] = "stopping"] /\ bots' = bots
      BY <1>7 DEF Shutdown
    <2>2. \A g \in Fleets : fleet'[g].pc = fleet[g].pc /\ fleet'[g].bots = fleet[g].bots
      BY <1>7, <1>0 DEF Shutdown, FleetState
    <2> QED  BY <2>1, <2>2, FleetName DEF SizeInv, Live, TypeOK
  <1>8. ASSUME NEW r \in Replicas, Exit(r)
        PROVE  SizeInv'
    <2>1. cmd' = cmd /\ phase' = [phase EXCEPT ![r] = "down"] /\ bots' = bots
      BY <1>8 DEF Exit
    <2>2. \A g \in Fleets : Live(g)' => fleet'[g] = fleet[g] /\ RepOf(g) # r
      BY <1>8 DEF Exit, FreeFleet, Live
    <2> QED  BY <2>1, <2>2, FleetName DEF SizeInv, Live, TypeOK
  <1>9. ASSUME NEW r \in Replicas, Restart(r)
        PROVE  SizeInv'
    <2>1. /\ cmd' = cmd /\ fleet' = fleet /\ phase[r] = "down"
          /\ phase' = [phase EXCEPT ![r] = "up"]
          /\ bots' = [bots EXCEPT ![r] = DefaultBots]
      BY <1>9 DEF Restart
    <2>2. \A g \in Fleets : Live(g) => RepOf(g) # r
      BY <2>1 DEF SizeInv
    <2> QED  BY <2>1, <2>2, FleetName DEF SizeInv, Live, TypeOK
  <1>10. ASSUME NEW run \in Runs, ExpireKey(run)
        PROVE  SizeInv'
    BY <1>10, SizeFrame DEF ExpireKey, Live
  <1>11. CASE UNCHANGED vars
    BY <1>11, SizeFrame DEF vars, Live
  <1> QED
    BY <1>1, <1>2, <1>3, <1>4, <1>5, <1>6, <1>7, <1>8, <1>9, <1>10, <1>11
    DEF Next, Gateway, Callback, Process

\* Wherever every fleet has the size its run was started with, replicas of a
\* run have disjoint bot ids, whatever indices INCR retries have skipped.
THEOREM IdsDisjointWhenSized == Spec => [](FleetSizeAsCommanded => BotIdsDisjoint)
  <1>1. TypeOK /\ SummaryInv => (FleetSizeAsCommanded => BotIdsDisjoint)
    BY IdsFromSizes DEF SummaryInv
  <1> QED  BY <1>1, TypeCorrect, SummaryInvariant, PTL

\* When there is one run, or every run asks for the same number of bots, each
\* replica works with the commanded size and the replicas of a run have
\* disjoint bot ids, through crashes, restarts, repeated starts and INCR retries.
THEOREM IdsDisjointOneSize ==
    ASSUME (\A x, y \in Runs : x = y) \/ (\A m, n \in BotCounts : m = n)
    PROVE  Spec => [](FleetSizeAsCommanded /\ BotIdsDisjoint)
  <1>1. Init => SizeInv
    BY DEF Init, SizeInv, Live, FreeFleet
  <1>2. TypeOK /\ SummaryInv /\ SizeInv /\ [Next]_vars => SizeInv'
    BY SizeStep
  <1>3. SizeInv => FleetSizeAsCommanded
    BY DEF SizeInv, FleetSizeAsCommanded, Live
  <1>4. TypeOK /\ SummaryInv /\ SizeInv => FleetSizeAsCommanded /\ BotIdsDisjoint
    BY <1>3, IdsFromSizes DEF SummaryInv
  <1> QED  BY <1>1, <1>2, <1>4, TypeCorrect, SummaryInvariant, PTL DEF Spec

=============================================================================
