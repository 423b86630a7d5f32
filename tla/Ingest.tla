-------------------------------- MODULE Ingest --------------------------------
(***************************************************************************)
(* The telemetry ingester's hot path (services/telemetry/cmd/main.go): the *)
(* NATS callback that buffers samples, the flusher goroutine that batches  *)
(* them into the table telemetry, and the live counters it keeps per run.  *)
(*                                                                         *)
(*   sent     the samples the bots have published                          *)
(*   net      ingester -> the samples on their way to its subscription     *)
(*   buf      ingester -> the buffered channel                             *)
(*   batch    ingester -> the flusher's batch                              *)
(*   table    sample -> how many rows of the table telemetry it has        *)
(*   aggs     ingester -> run -> the runAgg of a run, or NoAgg             *)
(*   up       ingester -> has the flusher not returned                     *)
(*   dropped  ingester -> the samples refused by a full buffer, the ones   *)
(*            the network lost included (history)                          *)
(*   failed   ingester -> the samples of the batches that could not be     *)
(*            inserted (history)                                           *)
(*   fresh    ingester -> run -> the samples the flusher took since its    *)
(*            last live tick (history)                                     *)
(*   live     ingester -> run -> the last snapshot of it that Redis took,  *)
(*            or NoSnapshot (history)                                      *)
(***************************************************************************)
EXTENDS Integers, Sequences, FiniteSets, Functions

CONSTANTS
    Ingesters,    \* telemetry processes
    Runs,
    Samples,      \* one per order a bot sends
    RunOf,        \* the run a sample belongs to
    BufCap,       \* capacity of the channel buf
    BatchMax,     \* batchMax
    IdleLimit,    \* live ticks without orders after which a run is forgotten
    Redis,        \* is there a Redis client?
    Faults        \* a bulk insert ("db") or a publish to Redis ("redis") may
                  \* fail; "stop": SIGTERM

ASSUME RunOfAssumption == RunOf \in [Samples -> Runs]
ASSUME CapacityAssumption ==
    BufCap \in Nat \ {0} /\ BatchMax \in Nat \ {0} /\ IdleLimit \in Nat \ {0}
ASSUME RedisAssumption == Redis \in BOOLEAN
ASSUME FaultsAssumption == Faults \subseteq {"db", "redis", "stop"}

VARIABLES sent, net, buf, batch, table, aggs, up, dropped, failed, fresh, live

vars ==
    <<sent, net, buf, batch, table, aggs, up, dropped, failed, fresh, live>>

-----------------------------------------------------------------------------

\* orders and lastOrders of runAgg; errors and sumLatency only feed averages.
Agg == [orders : Nat, last : Nat, idle : 0 .. IdleLimit - 1]
NewAgg == [orders |-> 0, last |-> 0, idle |-> 0]
NoAgg == [idle |-> -1]

\* The metrics message: orders is the run's total, tps its orders of one tick.
Snapshot == [orders : Nat, tps : Nat]
NoSnapshot == [orders |-> -1]

TypeOK ==
    /\ sent \subseteq Samples
    /\ net \in [Ingesters -> SUBSET Samples]
    /\ buf \in [Ingesters -> Seq(Samples)]
    /\ batch \in [Ingesters -> Seq(Samples)]
    /\ table \in [Samples -> Nat]
    /\ aggs \in [Ingesters -> [Runs -> Agg \cup {NoAgg}]]
    /\ up \in [Ingesters -> BOOLEAN]
    /\ dropped \in [Ingesters -> SUBSET Samples]
    /\ failed \in [Ingesters -> SUBSET Samples]
    /\ fresh \in [Ingesters -> [Runs -> Nat]]
    /\ live \in [Ingesters -> [Runs -> Snapshot \cup {NoSnapshot}]]

Init ==
    /\ sent = {}
    /\ net = [i \in Ingesters |-> {}]
    /\ buf = [i \in Ingesters |-> <<>>]
    /\ batch = [i \in Ingesters |-> <<>>]
    /\ table = [s \in Samples |-> 0]
    /\ aggs = [i \in Ingesters |-> [r \in Runs |-> NoAgg]]
    /\ up = [i \in Ingesters |-> TRUE]
    /\ dropped = [i \in Ingesters |-> {}]
    /\ failed = [i \in Ingesters |-> {}]
    /\ fresh = [i \in Ingesters |-> [r \in Runs |-> 0]]
    /\ live = [i \in Ingesters |-> [r \in Runs |-> NoSnapshot]]

-----------------------------------------------------------------------------

\* A bot publishes the sample of one order; every ingester has a plain
\* subscription of its own, which may lose it.
Publish(s) ==
    /\ s \notin sent
    /\ sent' = sent \cup {s}
    /\ \E lost \in SUBSET Ingesters :
          /\ net' = [i \in Ingesters |-> IF i \in lost THEN net[i] ELSE net[i] \cup {s}]
          /\ dropped' = [i \in Ingesters |-> IF i \in lost THEN dropped[i] \cup {s}
                                             ELSE dropped[i]]
    /\ UNCHANGED <<buf, batch, table, aggs, up, failed, fresh, live>>

\* A send on the buffered channel would not block.
Room(i) == Len(buf[i]) < BufCap

\* The subscription callback: buffer the sample or, when full, drop it.
Receive(i, s) ==
    /\ s \in net[i]
    /\ net' = [net EXCEPT ![i] = @ \ {s}]
    /\ IF Room(i)
       THEN /\ buf' = [buf EXCEPT ![i] = Append(@, s)]
            /\ UNCHANGED dropped
       ELSE /\ dropped' = [dropped EXCEPT ![i] = @ \cup {s}]
            /\ UNCHANGED buf
    /\ UNCHANGED <<sent, batch, table, aggs, up, failed, fresh, live>>

-----------------------------------------------------------------------------
(* The flusher goroutine.                                                  *)

\* Fault: the copy source starts at its first row before Next is called.
LandedAfterFirst(rows) ==
    [s \in Samples |->
        table[s] + Cardinality({n \in 2 .. Len(rows) : rows[n] = s})]

\* CopyFrom is one statement: all the rows or none.
Landed(rows) ==
    [s \in Samples |->
        table[s] + Cardinality({n \in 1 .. Len(rows) : rows[n] = s})]

\* batch = batch[:0], whether or not the insert failed.
BatchReset(i, rows) == batch' = [batch EXCEPT ![i] = <<>>]

\* bulk insert failed: the number of rows is logged.
InsertFailed(i, rows) ==
    /\ failed' = [failed EXCEPT ![i] = @ \cup Range(rows)]
    /\ UNCHANGED table

\* flush(): an error is logged and the rows are gone.
Flush(i, rows, mayFail) ==
    /\ \/ table' = Landed(rows) /\ UNCHANGED failed
       \/ mayFail /\ InsertFailed(i, rows)
    /\ BatchReset(i, rows)

\* Fault: the batch is flushed when it exceeds batchMax.
BeyondMax(n) == n > BatchMax

\* len(batch) >= batchMax.
Full(n) == n >= BatchMax

\* case s := <-in: batch the sample and count it; flush a full batch.
Take(i) ==
    /\ up[i]
    /\ buf[i] # <<>>
    /\ LET s == Head(buf[i])
           r == RunOf[s]
           a == IF aggs[i][r] = NoAgg THEN NewAgg ELSE aggs[i][r]
       IN  /\ aggs' = [aggs EXCEPT ![i][r] = [a EXCEPT !.orders = @ + 1]]
           /\ fresh' = [fresh EXCEPT ![i][r] = @ + 1]
           /\ IF Full(Len(batch[i]) + 1)
              THEN Flush(i, Append(batch[i], s), "db" \in Faults)
              ELSE /\ batch' = [batch EXCEPT ![i] = Append(@, s)]
                   /\ UNCHANGED <<table, failed>>
    /\ buf' = [buf EXCEPT ![i] = Tail(@)]
    /\ UNCHANGED <<sent, net, up, dropped, live>>

\* Fault: the ticker is never read.
NoTick(i) == FALSE

\* case <-tick.C, and there is something to flush.
TickDue(i) == up[i] /\ batch[i] # <<>>

Tick(i) ==
    /\ TickDue(i)
    /\ Flush(i, batch[i], "db" \in Faults)
    /\ UNCHANGED <<sent, net, buf, aggs, up, dropped, fresh, live>>

\* Fault: lastOrders is brought up to date only when the publish succeeded.
ReportedIfSent(a, ok) ==
    [a EXCEPT !.last = IF ok THEN a.orders ELSE @, !.idle = 0]

\* A run with new orders: lastOrders is brought up to date before the publish,
\* whose failure is only logged.
Reported(a, ok) == [a EXCEPT !.last = a.orders, !.idle = 0]

\* Fault: idle ticks are not counted.
NeverIdle(a) == a

\* A run without new orders is forgotten after IdleLimit such ticks.
Idled(a) == IF a.idle + 1 >= IdleLimit THEN NoAgg ELSE [a EXCEPT !.idle = @ + 1]

\* orders - lastOrders of the run.
New(i, r) ==
    IF aggs[i][r] = NoAgg THEN 0 ELSE aggs[i][r].orders - aggs[i][r].last

\* case <-live.C: publishLive goes through all the runs and publishes those
\* with new orders; without a Redis client it returns at once.
LiveTick(i) ==
    /\ up[i] /\ Redis
    /\ \E r \in Runs : aggs[i][r] # NoAgg
    /\ \E lost \in SUBSET {r \in Runs : New(i, r) > 0} :
          /\ lost # {} => "redis" \in Faults
          /\ aggs' = [aggs EXCEPT ![i] = [r \in Runs |->
                         CASE aggs[i][r] = NoAgg -> NoAgg
                           [] aggs[i][r] # NoAgg /\ New(i, r) > 0 ->
                                 Reported(aggs[i][r], r \notin lost)
                           [] OTHER -> Idled(aggs[i][r])]]
          /\ live' = [live EXCEPT ![i] = [r \in Runs |->
                         IF New(i, r) > 0 /\ r \notin lost
                         THEN [orders |-> aggs[i][r].orders, tps |-> New(i, r)]
                         ELSE @[r]]]
    /\ fresh' = [fresh EXCEPT ![i] = [r \in Runs |-> 0]]
    /\ UNCHANGED <<sent, net, buf, batch, table, up, dropped, failed>>

\* case <-ctx.Done(): the last flush runs under the context that has just
\* been cancelled, so no connection can be acquired for it.
Stop(i) ==
    /\ "stop" \in Faults
    /\ up[i]
    /\ up' = [up EXCEPT ![i] = FALSE]
    /\ InsertFailed(i, batch[i])
    /\ BatchReset(i, batch[i])
    /\ UNCHANGED <<sent, net, buf, aggs, dropped, fresh, live>>

-----------------------------------------------------------------------------

Flusher(i) == Take(i) \/ Tick(i) \/ LiveTick(i) \/ Stop(i)

Next ==
    \/ \E s \in Samples : Publish(s)
    \/ \E i \in Ingesters, s \in Samples : Receive(i, s)
    \/ \E i \in Ingesters : Flusher(i)

Spec == Init /\ [][Next]_vars

\* Callbacks run and tickers fire; the flusher's select chooses at random
\* among the ready cases, so none of them is passed over for ever.
FairSpec ==
    /\ Spec
    /\ \A i \in Ingesters :
          /\ \A s \in Samples : WF_vars(Receive(i, s))
          /\ SF_vars(Take(i))
          /\ SF_vars(Tick(i))
          /\ SF_vars(LiveTick(i))

-----------------------------------------------------------------------------
(* Properties.                                                             *)

\* Memory is bounded between any two steps: the buffer by its capacity, the
\* batch by one less than batchMax.  Stated with the types of the variables.
BuffersBounded ==
    /\ TypeOK
    /\ \A i \in Ingesters : Len(buf[i]) <= BufCap /\ Len(batch[i]) < BatchMax

\* The rate a viewer sees is that of one tick: the tps of a snapshot that gets
\* through counts the orders taken since the tick before it, also when earlier
\* publishes failed (the orders of those ticks are in the total alone), and
\* also when the run had been forgotten in between.
TpsOfOneTick ==
    [][\A i \in Ingesters, r \in Runs :
          live'[i][r] # live[i][r] => live'[i][r].tps = fresh[i][r]]_vars

\* orders - lastOrders is what came since the last tick; a run that has been
\* forgotten, or not seen yet, has nothing new.
NewIsFresh ==
    \A i \in Ingesters, r \in Runs :
        /\ New(i, r) = fresh[i][r]
        /\ aggs[i][r] # NoAgg => aggs[i][r].last <= aggs[i][r].orders

\* The invariant that carries the proofs of the two properties above.
CountInv == BuffersBounded /\ NewIsFresh

\* A sample the buffer accepted is inserted, or reported as failed, without
\* waiting for more traffic, by the 250 ms tick if not by a full batch; only a
\* shutdown leaves samples behind in the buffer.
BufferedSampleLands ==
    \A i \in Ingesters, s \in Samples :
        s \in Range(buf[i]) ~>
            table[s] > 0 \/ s \in failed[i] \/ ~up[i]

\* The counters of a run are dropped when it has gone quiet ("Runs that go
\* idle for 15 consecutive ticks are dropped to bound memory").
IdleRunsForgotten ==
    \A i \in Ingesters, r \in Runs :
        aggs[i][r] # NoAgg ~> aggs[i][r] = NoAgg \/ ~up[i]

\* No sample disappears unnoticed and none counts twice: one that was not
\* dropped for want of room is in the buffer, in the batch, in a batch whose
\* failure was logged, or in the table telemetry, where it has one row ("bots
\* write one row per order").  True of one ingester: each has a subscription
\* of its own.
SamplesAccountedFor ==
    \A i \in Ingesters : \A s \in sent :
        /\ \/ s \in net[i] \cup dropped[i]
           \/ s \in Range(buf[i]) \cup Range(batch[i])
           \/ s \in failed[i]
           \/ table[s] > 0
        /\ table[s] <= 1

\* A sample is in one place at a time and has no row before it leaves the last
\* of them: the callback moves it, the flusher moves it on, nothing copies it.
PlacesApart ==
    \A i \in Ingesters :
        /\ IsInjective(buf[i]) /\ IsInjective(batch[i])
        /\ Range(buf[i]) \cap Range(batch[i]) = {}
        /\ net[i] \cap (Range(buf[i]) \cup Range(batch[i])) = {}
        /\ \A s \in net[i] \cup Range(buf[i]) \cup Range(batch[i]) :
              s \in sent /\ table[s] = 0
        /\ \A s \in Samples \ sent : table[s] = 0

\* The invariant that carries the proof of SamplesAccountedFor.
PlacesInv == PlacesApart /\ SamplesAccountedFor

=============================================================================
