----------------------------- MODULE Ingest_proofs -----------------------------
(***************************************************************************)
(* Proofs about Ingest, for any number of ingesters, runs and samples, any *)
(* capacity of the buffer and the batch, with and without faults.          *)
(***************************************************************************)
EXTENDS Ingest, DataLemmas

\* A counter in use is not mistaken for one that is not there.
LEMMA AggApart == NoAgg \notin Agg
  BY DEF NoAgg, Agg

\* CopyFrom writes a number of rows for every sample.
LEMMA LandedType ==
    ASSUME table \in [Samples -> Nat], NEW rows \in Seq(Samples)
    PROVE  Landed(rows) \in [Samples -> Nat]
  <1>1. ASSUME NEW s \in Samples
        PROVE  Cardinality({n \in 1 .. Len(rows) : rows[n] = s}) \in Nat
    <2>1. IsFiniteSet(1 .. Len(rows))
      BY FS_Interval, LenProperties
    <2>2. IsFiniteSet({n \in 1 .. Len(rows) : rows[n] = s})
      BY <2>1, FS_Subset
    <2> QED  BY <2>2, FS_CardinalityType
  <1> QED  BY <1>1 DEF Landed

\* CopyFrom writes one row for every sample of a batch without repetitions.
LEMMA LandedOnce ==
    ASSUME table \in [Samples -> Nat], NEW rows \in Seq(Samples), IsInjective(rows),
           NEW s \in Samples
    PROVE  Landed(rows)[s] = IF s \in Range(rows) THEN table[s] + 1 ELSE table[s]
  <1> DEFINE P == {n \in 1 .. Len(rows) : rows[n] = s}
  <1>1. DOMAIN rows = 1 .. Len(rows)
    BY LenProperties
  <1>2. CASE s \in Range(rows)
    <2>1. PICK n \in 1 .. Len(rows) : rows[n] = s
      BY <1>1, <1>2 DEF Range
    <2>2. P = {n}
      BY <1>1, <2>1 DEF IsInjective
    <2>3. Cardinality(P) = 1
      BY <2>2, FS_Singleton
    <2> QED  BY <1>2, <2>3 DEF Landed
  <1>3. CASE s \notin Range(rows)
    <2>1. P = {}
      BY <1>1, <1>3 DEF Range
    <2>2. Cardinality(P) = 0
      BY <2>1, FS_EmptySet
    <2>3. table[s] + 0 = table[s]
      OBVIOUS
    <2> QED  BY <1>3, <2>2, <2>3 DEF Landed
  <1> QED  BY <1>2, <1>3

\* A flush keeps the types, and empties the batch whatever became of it.
LEMMA FlushType ==
    ASSUME TypeOK, NEW i \in Ingesters, NEW rows \in Seq(Samples),
           NEW mayFail, Flush(i, rows, mayFail)
    PROVE  /\ table' \in [Samples -> Nat]
           /\ failed' \in [Ingesters -> SUBSET Samples]
           /\ batch' = [batch EXCEPT ![i] = <<>>]
  <1>1. Range(rows) \subseteq Samples
    BY RangeOfSeq
  <1>2. \/ table' = Landed(rows) /\ failed' = failed
        \/ table' = table /\ failed' = [failed EXCEPT ![i] = @ \cup Range(rows)]
    BY DEF Flush, InsertFailed
  <1>3. table' \in [Samples -> Nat]
    BY <1>2, LandedType DEF TypeOK
  <1>4. failed' \in [Ingesters -> SUBSET Samples]
    BY <1>1, <1>2 DEF TypeOK
  <1> QED  BY <1>3, <1>4 DEF Flush, BatchReset

-----------------------------------------------------------------------------
(* The buffer and the batch are bounded, and a rate is that of one tick.   *)

\* Reporting a run brings its counters level and keeps them counters.
LEMMA ReportedLevel ==
    ASSUME NEW a \in Agg, NEW ok
    PROVE  Reported(a, ok) \in Agg /\ Reported(a, ok).last = Reported(a, ok).orders
  <1> DEFINE c == [a EXCEPT !.last = a.orders]
  <1>1. c \in Agg /\ c.last = c.orders
    BY DEF Agg
  <1>2. Reported(a, ok) = [c EXCEPT !.idle = 0]
    BY DEF Reported
  <1> HIDE DEF c
  <1> QED  BY <1>1, <1>2, CapacityAssumption DEF Agg

\* CountInv is inductive.
LEMMA CountStep == CountInv /\ [Next]_vars => CountInv'
  <1> SUFFICES ASSUME CountInv, [Next]_vars
               PROVE  CountInv'
    OBVIOUS
  <1> USE CapacityAssumption, RunOfAssumption
  <1>0. /\ TypeOK /\ NewIsFresh
        /\ \A i \in Ingesters : Len(buf[i]) <= BufCap /\ Len(batch[i]) < BatchMax
        /\ \A i \in Ingesters : buf[i] \in Seq(Samples) /\ batch[i] \in Seq(Samples)
        /\ \A i \in Ingesters : Len(buf[i]) \in Nat /\ Len(batch[i]) \in Nat
    BY LenProperties DEF CountInv, BuffersBounded, TypeOK
  <1>1. ASSUME NEW s \in Samples, Publish(s)
        PROVE  CountInv'
    <2>1. PICK lost \in SUBSET Ingesters :
            /\ net' = [i \in Ingesters |-> IF i \in lost THEN net[i] ELSE net[i] \cup {s}]
            /\ dropped' = [i \in Ingesters |-> IF i \in lost THEN dropped[i] \cup {s}
                                               ELSE dropped[i]]
      BY <1>1 DEF Publish
    <2>2. /\ sent' \subseteq Samples
          /\ net' \in [Ingesters -> SUBSET Samples]
          /\ dropped' \in [Ingesters -> SUBSET Samples]
      BY <1>0, <1>1, <2>1 DEF Publish, TypeOK
    <2> QED
      BY <1>0, <1>1, <2>2
      DEF Publish, CountInv, BuffersBounded, NewIsFresh, New, TypeOK
  <1>2. ASSUME NEW i \in Ingesters, NEW s \in Samples, Receive(i, s)
        PROVE  CountInv'
    <2>1. /\ sent' = sent /\ batch' = batch /\ table' = table /\ aggs' = aggs
          /\ up' = up /\ failed' = failed /\ fresh' = fresh /\ live' = live
      BY <1>2 DEF Receive
    <2>2. /\ buf' \in [Ingesters -> Seq(Samples)]
          /\ \A j \in Ingesters : Len(buf'[j]) <= BufCap
      <3>1. CASE Room(i)
        <4>1. /\ Append(buf[i], s) \in Seq(Samples)
              /\ Len(Append(buf[i], s)) <= BufCap
          BY <1>0, <3>1, AppendProperties DEF Room
        <4>2. buf' = [buf EXCEPT ![i] = Append(buf[i], s)]
          BY <1>2, <3>1 DEF Receive
        <4> QED  BY <1>0, <4>1, <4>2 DEF TypeOK
      <3>2. CASE ~Room(i)
        BY <1>0, <1>2, <3>2 DEF Receive, TypeOK
      <3> QED  BY <3>1, <3>2
    <2>3. /\ net' \in [Ingesters -> SUBSET Samples]
          /\ dropped' \in [Ingesters -> SUBSET Samples]
      <3>1. /\ net' = [net EXCEPT ![i] = @ \ {s}]
            /\ dropped' = dropped \/ dropped' = [dropped EXCEPT ![i] = @ \cup {s}]
        BY <1>2 DEF Receive
      <3>2. net \in [Ingesters -> SUBSET Samples] /\ dropped \in [Ingesters -> SUBSET Samples]
        BY <1>0 DEF TypeOK
      <3>3. net' \in [Ingesters -> SUBSET Samples]
        BY <3>1, <3>2
      <3>4. dropped' \in [Ingesters -> SUBSET Samples]
        BY <3>1, <3>2
      <3> QED  BY <3>3, <3>4
    <2> QED
      BY <1>0, <2>1, <2>2, <2>3
      DEF CountInv, BuffersBounded, NewIsFresh, New, TypeOK
  <1>3. ASSUME NEW i \in Ingesters, Take(i)
        PROVE  CountInv'
    <2> DEFINE s == Head(buf[i])
               r == RunOf[s]
               a == IF aggs[i][r] = NoAgg THEN NewAgg ELSE aggs[i][r]
               b == [a EXCEPT !.orders = @ + 1]
    <2>1. /\ sent' = sent /\ net' = net /\ up' = up /\ dropped' = dropped
          /\ live' = live
          /\ aggs' = [aggs EXCEPT ![i][r] = b]
          /\ fresh' = [fresh EXCEPT ![i][r] = @ + 1]
          /\ buf' = [buf EXCEPT ![i] = Tail(@)]
          /\ buf[i] # <<>>
      BY <1>3 DEF Take
    <2>2. s \in Samples /\ r \in Runs /\ Tail(buf[i]) \in Seq(Samples)
          /\ Len(Tail(buf[i])) <= BufCap
      BY <1>0, <2>1, HeadTailProperties
    <2>3. /\ a \in Agg /\ a.last <= a.orders
          /\ a.orders - a.last = New(i, r)
      <3>1. CASE aggs[i][r] = NoAgg
        BY <3>1 DEF NewAgg, Agg, New
      <3>2. CASE aggs[i][r] # NoAgg
        BY <1>0, <2>2, <3>2 DEF TypeOK, NewIsFresh, New
      <3> QED  BY <3>1, <3>2
    <2>4. /\ buf' \in [Ingesters -> Seq(Samples)]
          /\ \A j \in Ingesters : Len(buf'[j]) <= BufCap
      BY <1>0, <2>1, <2>2 DEF TypeOK
    <2>5. /\ batch' \in [Ingesters -> Seq(Samples)]
          /\ \A j \in Ingesters : Len(batch'[j]) < BatchMax
          /\ table' \in [Samples -> Nat]
          /\ failed' \in [Ingesters -> SUBSET Samples]
      <3> DEFINE rows == Append(batch[i], s)
      <3>1. rows \in Seq(Samples) /\ Len(rows) = Len(batch[i]) + 1
        BY <1>0, <2>2, AppendProperties
      <3>2. CASE Full(Len(batch[i]) + 1)
        <4>1. Flush(i, rows, "db" \in Faults)
          BY <1>3, <3>2 DEF Take
        <4>2. /\ table' \in [Samples -> Nat]
              /\ failed' \in [Ingesters -> SUBSET Samples]
              /\ batch' = [batch EXCEPT ![i] = <<>>]
          BY <1>0, <3>1, <4>1, FlushType
        <4>3. <<>> \in Seq(Samples) /\ Len(<<>>) = 0
          BY EmptySeq
        <4> QED  BY <1>0, <4>2, <4>3 DEF TypeOK
      <3>3. CASE ~Full(Len(batch[i]) + 1)
        <4>1. /\ batch' = [batch EXCEPT ![i] = rows]
              /\ table' = table /\ failed' = failed
          BY <1>3, <3>3 DEF Take
        <4>2. Len(rows) < BatchMax
          BY <1>0, <3>1, <3>3 DEF Full
        <4> HIDE DEF rows
        <4> QED  BY <1>0, <3>1, <4>1, <4>2 DEF TypeOK
      <3> QED  BY <3>2, <3>3
    <2> HIDE DEF a, r
    <2>6. /\ b \in Agg /\ b # NoAgg /\ b.last = a.last /\ b.orders = a.orders + 1
          /\ a.orders \in Nat /\ a.last \in Nat
      BY <2>3, AggApart DEF Agg
    <2> HIDE DEF b
    <2>7. /\ aggs' \in [Ingesters -> [Runs -> Agg \cup {NoAgg}]]
          /\ fresh' \in [Ingesters -> [Runs -> Nat]]
      <3>1. [aggs[i] EXCEPT ![r] = b] \in [Runs -> Agg \cup {NoAgg}]
        BY <1>0, <2>6 DEF TypeOK
      <3>2. [fresh[i] EXCEPT ![r] = @ + 1] \in [Runs -> Nat]
        BY <1>0, <2>2 DEF TypeOK
      <3> QED  BY <1>0, <2>1, <3>1, <3>2 DEF TypeOK
    <2>8. /\ aggs'[i][r] = b /\ fresh'[i][r] = fresh[i][r] + 1
          /\ \A j \in Ingesters, x \in Runs : j # i \/ x # r =>
                aggs'[j][x] = aggs[j][x] /\ fresh'[j][x] = fresh[j][x]
      BY <1>0, <2>1, <2>2 DEF TypeOK
    <2>9. NewIsFresh'
      <3>1. a.orders - a.last = fresh[i][r]
        BY <1>0, <2>2, <2>3 DEF NewIsFresh
      <3>2. b.orders - b.last = fresh'[i][r] /\ b.last <= b.orders
        BY <2>3, <2>6, <2>8, <3>1
      <3>3. ASSUME NEW j \in Ingesters, NEW x \in Runs
            PROVE  /\ New(j, x)' = fresh'[j][x]
                   /\ aggs'[j][x] # NoAgg => aggs'[j][x].last <= aggs'[j][x].orders
        <4>1. CASE j = i /\ x = r
          BY <2>6, <2>8, <3>2, <4>1 DEF New
        <4>2. CASE j # i \/ x # r
          BY <1>0, <2>8, <4>2 DEF New, NewIsFresh
        <4> QED  BY <4>1, <4>2
      <3> QED  BY <3>3 DEF NewIsFresh
    <2> QED
      BY <1>0, <2>1, <2>4, <2>5, <2>7, <2>9 DEF CountInv, BuffersBounded, TypeOK
  <1>4. ASSUME NEW i \in Ingesters, Tick(i)
        PROVE  CountInv'
    <2>1. /\ table' \in [Samples -> Nat]
          /\ failed' \in [Ingesters -> SUBSET Samples]
          /\ batch' = [batch EXCEPT ![i] = <<>>]
      BY <1>0, <1>4, FlushType DEF Tick
    <2>2. <<>> \in Seq(Samples) /\ Len(<<>>) = 0
      BY EmptySeq
    <2> QED
      BY <1>0, <1>4, <2>1, <2>2
      DEF Tick, CountInv, BuffersBounded, NewIsFresh, New, TypeOK
  <1>5. ASSUME NEW i \in Ingesters, LiveTick(i)
        PROVE  CountInv'
    <2>1. PICK lost \in SUBSET {r \in Runs : New(i, r) > 0} :
            /\ aggs' = [aggs EXCEPT ![i] = [r \in Runs |->
                          CASE aggs[i][r] = NoAgg -> NoAgg
                            [] aggs[i][r] # NoAgg /\ New(i, r) > 0 ->
                                  Reported(aggs[i][r], r \notin lost)
                            [] OTHER -> Idled(aggs[i][r])]]
            /\ live' = [live EXCEPT ![i] = [r \in Runs |->
                          IF New(i, r) > 0 /\ r \notin lost
                          THEN [orders |-> aggs[i][r].orders, tps |-> New(i, r)]
                          ELSE @[r]]]
      BY <1>5 DEF LiveTick
    <2>2. /\ fresh' = [fresh EXCEPT ![i] = [r \in Runs |-> 0]]
          /\ UNCHANGED <<sent, net, buf, batch, table, up, dropped, failed>>
      BY <1>5 DEF LiveTick
    <2> DEFINE next(r) == CASE aggs[i][r] = NoAgg -> NoAgg
                            [] aggs[i][r] # NoAgg /\ New(i, r) > 0 ->
                                  Reported(aggs[i][r], r \notin lost)
                            [] OTHER -> Idled(aggs[i][r])
               shown(r) == IF New(i, r) > 0 /\ r \notin lost
                           THEN [orders |-> aggs[i][r].orders, tps |-> New(i, r)]
                           ELSE live[i][r]
    <2>3. ASSUME NEW r \in Runs
          PROVE  /\ next(r) \in Agg \cup {NoAgg}
                 /\ next(r) # NoAgg => next(r).last = next(r).orders
      <3>1. CASE aggs[i][r] = NoAgg
        BY <3>1
      <3>2. CASE aggs[i][r] # NoAgg /\ New(i, r) > 0
        <4>1. aggs[i][r] \in Agg
          BY <1>0, <3>2 DEF TypeOK
        <4>2. next(r) = Reported(aggs[i][r], r \notin lost)
          BY <3>2
        <4> QED  BY <4>1, <4>2, ReportedLevel
      <3>3. CASE aggs[i][r] # NoAgg /\ ~(New(i, r) > 0)
        <4>1. aggs[i][r] \in Agg /\ aggs[i][r].last = aggs[i][r].orders
          BY <1>0, <3>3 DEF TypeOK, NewIsFresh, New, Agg
        <4>2. next(r) = Idled(aggs[i][r])
          BY <3>3
        <4>3. Idled(aggs[i][r]) \in Agg \cup {NoAgg}
          BY <4>1 DEF Idled, Agg
        <4>4. Idled(aggs[i][r]) # NoAgg =>
                Idled(aggs[i][r]).last = Idled(aggs[i][r]).orders
          BY <4>1 DEF Idled, Agg
        <4> QED  BY <4>2, <4>3, <4>4
      <3> QED  BY <3>1, <3>2, <3>3
    <2>4. ASSUME NEW r \in Runs
          PROVE  shown(r) \in Snapshot \cup {NoSnapshot}
      <3>1. CASE New(i, r) > 0 /\ r \notin lost
        <4>1. aggs[i][r] \in Agg /\ New(i, r) \in Nat
          BY <1>0, <3>1 DEF TypeOK, NewIsFresh, New
        <4> QED  BY <3>1, <4>1 DEF Snapshot, Agg
      <3>2. CASE ~(New(i, r) > 0 /\ r \notin lost)
        BY <1>0, <3>2 DEF TypeOK
      <3> QED  BY <3>1, <3>2
    <2>5. /\ aggs' = [aggs EXCEPT ![i] = [r \in Runs |-> next(r)]]
          /\ live' = [live EXCEPT ![i] = [r \in Runs |-> shown(r)]]
      BY <2>1
    <2> HIDE DEF next, shown
    <2>6. /\ aggs' \in [Ingesters -> [Runs -> Agg \cup {NoAgg}]]
          /\ live' \in [Ingesters -> [Runs -> Snapshot \cup {NoSnapshot}]]
          /\ fresh' \in [Ingesters -> [Runs -> Nat]]
      BY <1>0, <2>2, <2>3, <2>4, <2>5 DEF TypeOK
    <2>7. /\ \A r \in Runs : aggs'[i][r] = next(r) /\ fresh'[i][r] = 0
          /\ \A j \in Ingesters \ {i} : aggs'[j] = aggs[j] /\ fresh'[j] = fresh[j]
      BY <1>0, <2>2, <2>5 DEF TypeOK
    <2>8. NewIsFresh'
      <3>1. ASSUME NEW r \in Runs
            PROVE  /\ New(i, r)' = 0
                   /\ aggs'[i][r] # NoAgg => aggs'[i][r].last <= aggs'[i][r].orders
        BY <2>3, <2>7 DEF New, Agg
      <3> QED  BY <1>0, <2>7, <3>1 DEF NewIsFresh, New
    <2> QED
      BY <1>0, <2>2, <2>6, <2>8 DEF CountInv, BuffersBounded, TypeOK
  <1>6. ASSUME NEW i \in Ingesters, Stop(i)
        PROVE  CountInv'
    <2>1. /\ Range(batch[i]) \subseteq Samples
          /\ <<>> \in Seq(Samples) /\ Len(<<>>) = 0
      BY <1>0, RangeOfSeq, EmptySeq
    <2> QED
      BY <1>0, <1>6, <2>1
      DEF Stop, InsertFailed, BatchReset, CountInv, BuffersBounded,
          NewIsFresh, New, TypeOK
  <1>7. CASE UNCHANGED vars
    BY <1>0, <1>7
    DEF vars, CountInv, BuffersBounded, NewIsFresh, New, TypeOK
  <1> QED
    BY <1>1, <1>2, <1>3, <1>4, <1>5, <1>6, <1>7 DEF Next, Flusher

\* CountInv holds throughout.
LEMMA CountInvariant == Spec => []CountInv
  <1>1. Init => CountInv
    BY EmptySeq, CapacityAssumption
    DEF Init, CountInv, BuffersBounded, NewIsFresh, New, TypeOK
  <1> QED  BY <1>1, CountStep, PTL DEF Spec

\* The buffered channel and the batch never hold more than their limits,
\* whatever arrives, fails or is delayed.
THEOREM MemoryBounded == Spec => []BuffersBounded
  <1>1. CountInv => BuffersBounded  BY DEF CountInv
  <1> QED  BY <1>1, CountInvariant, PTL

\* The rate of a snapshot that Redis takes is that of the orders since the last
\* tick, whatever became of the snapshots before it: a failed publish does not
\* make a later rate too large, and a run that comes back does not either.
THEOREM RateOfOneTick == Spec => TpsOfOneTick
  <1>1. ASSUME CountInv, [Next]_vars
        PROVE  [\A i \in Ingesters, r \in Runs :
                   live'[i][r] # live[i][r] => live'[i][r].tps = fresh[i][r]]_vars
    <2>1. ASSUME NEW i \in Ingesters, LiveTick(i), NEW j \in Ingesters, NEW r \in Runs,
                 live'[j][r] # live[j][r]
          PROVE  live'[j][r].tps = fresh[j][r]
      <3>1. New(j, r) = fresh[j][r] /\ live \in [Ingesters -> [Runs -> Snapshot \cup {NoSnapshot}]]
        BY <1>1 DEF CountInv, NewIsFresh, BuffersBounded, TypeOK
      <3>2. PICK lost : live' = [live EXCEPT ![i] = [x \in Runs |->
                                   IF New(i, x) > 0 /\ x \notin lost
                                   THEN [orders |-> aggs[i][x].orders, tps |-> New(i, x)]
                                   ELSE @[x]]]
        BY <2>1 DEF LiveTick
      <3>3. j = i /\ live'[j][r] = [orders |-> aggs[i][r].orders, tps |-> New(i, r)]
        BY <2>1, <3>1, <3>2
      <3> QED  BY <3>1, <3>3
    <2>2. CASE ~ \E i \in Ingesters : LiveTick(i)
      <3>1. live' = live
        BY <1>1, <2>2 DEF Next, Flusher, Publish, Receive, Take, Tick, Stop, vars
      <3> QED  BY <3>1
    <2> QED  BY <2>1, <2>2
  <1> QED  BY <1>1, CountInvariant, PTL DEF Spec, TpsOfOneTick

-----------------------------------------------------------------------------
(* No sample is lost unnoticed or counted twice.                           *)

\* A flush of rows that have none yet gives each of them one, or logs them all.
LEMMA FlushPlaces ==
    ASSUME TypeOK, NEW i \in Ingesters, NEW rows \in Seq(Samples), IsInjective(rows),
           \A s \in Range(rows) : table[s] = 0,
           NEW mayFail, Flush(i, rows, mayFail)
    PROVE  /\ batch'[i] = <<>>
           /\ \A s \in Samples \ Range(rows) : table'[s] = table[s]
           /\ \/ failed' = failed /\ \A s \in Range(rows) : table'[s] = 1
              \/ table' = table /\ failed'[i] = failed[i] \cup Range(rows)
  <1>1. Range(rows) \subseteq Samples /\ table \in [Samples -> Nat]
    BY RangeOfSeq DEF TypeOK
  <1>2. batch'[i] = <<>>
    BY FlushType DEF TypeOK
  <1>3. CASE table' = Landed(rows) /\ failed' = failed
    <2>1. \A s \in Samples : table'[s] = IF s \in Range(rows) THEN table[s] + 1 ELSE table[s]
      BY <1>1, <1>3, LandedOnce
    <2>2. \A s \in Range(rows) : table'[s] = 1
      BY <1>1, <2>1
    <2>3. \A s \in Samples \ Range(rows) : table'[s] = table[s]
      BY <1>1, <2>1
    <2> QED  BY <1>2, <1>3, <2>2, <2>3
  <1>4. CASE table' = table /\ failed' = [failed EXCEPT ![i] = @ \cup Range(rows)]
    BY <1>2, <1>4 DEF TypeOK
  <1> QED  BY <1>3, <1>4 DEF Flush, InsertFailed

\* PlacesInv of one ingester, in terms of what it holds: N is on its way to
\* it, B and C are in its buffer and its batch, D was dropped, F has failed.
LEMMA PlacesOfOne ==
    ASSUME NEW i \in Ingesters, \A x \in Ingesters : x = i
    PROVE  PlacesInv <=>
             LET N == net[i]
                 B == Range(buf[i])
                 C == Range(batch[i])
             IN  /\ IsInjective(buf[i]) /\ IsInjective(batch[i])
                 /\ B \cap C = {} /\ N \cap (B \cup C) = {}
                 /\ \A s \in N \cup B \cup C : s \in sent /\ table[s] = 0
                 /\ \A s \in Samples \ sent : table[s] = 0
                 /\ \A s \in sent :
                       /\ \/ s \in N \cup B \cup C \cup dropped[i] \cup failed[i]
                          \/ table[s] > 0
                       /\ table[s] <= 1
  BY DEF PlacesInv, PlacesApart, SamplesAccountedFor

\* With one ingester, PlacesInv is inductive relative to the types.
LEMMA PlacesStep ==
    ASSUME \A x, y \in Ingesters : x = y
    PROVE  CountInv /\ PlacesInv /\ [Next]_vars => PlacesInv'
  <1> SUFFICES ASSUME CountInv, PlacesInv, [Next]_vars, NEW i \in Ingesters
               PROVE  PlacesInv'
    BY DEF PlacesInv, PlacesApart, SamplesAccountedFor
  <1> DEFINE N == net[i]
             B == Range(buf[i])
             C == Range(batch[i])
             D == dropped[i]
             F == failed[i]
  <1>0. /\ TypeOK
        /\ sent \subseteq Samples /\ N \subseteq Samples
        /\ buf[i] \in Seq(Samples) /\ batch[i] \in Seq(Samples)
        /\ B \subseteq Samples /\ C \subseteq Samples
        /\ table \in [Samples -> Nat]
        /\ \A x \in Ingesters : x = i
    BY RangeOfSeq DEF CountInv, BuffersBounded, TypeOK
  <1>a. /\ IsInjective(buf[i]) /\ IsInjective(batch[i])
        /\ B \cap C = {} /\ N \cap (B \cup C) = {}
        /\ \A s \in N \cup B \cup C : s \in sent /\ table[s] = 0
        /\ \A s \in Samples \ sent : table[s] = 0
        /\ \A s \in sent :
              /\ s \in N \cup B \cup C \cup D \cup F \/ table[s] > 0
              /\ table[s] <= 1
    BY <1>0, PlacesOfOne
  <1> DEFINE Kept ==
               /\ IsInjective(buf'[i]) /\ IsInjective(batch'[i])
               /\ B' \cap C' = {} /\ N' \cap (B' \cup C') = {}
               /\ \A s \in N' \cup B' \cup C' : s \in sent' /\ table'[s] = 0
               /\ \A s \in Samples \ sent' : table'[s] = 0
               /\ \A s \in sent' :
                     /\ s \in N' \cup B' \cup C' \cup D' \cup F' \/ table'[s] > 0
                     /\ table'[s] <= 1
  <1> SUFFICES Kept
    BY <1>0, PlacesOfOne DEF PlacesInv, PlacesApart, SamplesAccountedFor
  <1>1. ASSUME NEW s \in Samples, Publish(s)
        PROVE  Kept
    <2>1. PICK lost \in SUBSET Ingesters :
            /\ net' = [x \in Ingesters |-> IF x \in lost THEN net[x] ELSE net[x] \cup {s}]
            /\ dropped' = [x \in Ingesters |-> IF x \in lost THEN dropped[x] \cup {s}
                                               ELSE dropped[x]]
      BY <1>1 DEF Publish
    <2>2. /\ buf' = buf /\ batch' = batch /\ table' = table /\ failed' = failed
          /\ s \notin sent /\ sent' = sent \cup {s}
          /\ N' = N \/ N' = N \cup {s}
          /\ D' = D \/ D' = D \cup {s}
          /\ s \in N' \cup D'
      BY <1>1, <2>1 DEF Publish
    <2>3. s \notin N \cup B \cup C /\ table[s] = 0
      BY <1>a, <2>2
    <2> QED  BY <1>a, <2>2, <2>3
  <1>2. ASSUME NEW s \in Samples, Receive(i, s)
        PROVE  Kept
    <2>1. /\ batch' = batch /\ table' = table /\ failed' = failed /\ sent' = sent
          /\ s \in N /\ N' = N \ {s}
      BY <1>0, <1>2 DEF Receive, TypeOK
    <2>2. CASE Room(i)
      <3>1. buf'[i] = Append(buf[i], s) /\ D' = D
        BY <1>0, <1>2, <2>2 DEF Receive, TypeOK
      <3>2. s \notin B /\ s \notin C
        BY <1>a, <2>1
      <3>3. B' = B \cup {s} /\ IsInjective(buf'[i])
        BY <1>0, <1>a, <3>1, <3>2, AppendRange
      <3> QED  BY <1>a, <2>1, <3>1, <3>2, <3>3
    <2>3. CASE ~Room(i)
      <3>1. buf' = buf /\ D' = D \cup {s}
        BY <1>0, <1>2, <2>3 DEF Receive, TypeOK
      <3> QED  BY <1>a, <2>1, <3>1
    <2> QED  BY <2>2, <2>3
  <1>3. CASE Take(i)
    <2> DEFINE s == Head(buf[i])
               rows == Append(batch[i], s)
    <2>1. /\ buf[i] # <<>> /\ sent' = sent /\ N' = N /\ D' = D
          /\ buf'[i] = Tail(buf[i])
      BY <1>0, <1>3 DEF Take, TypeOK
    <2>2. /\ s \in Samples /\ s \in B /\ s \notin N /\ s \notin C
          /\ table[s] = 0 /\ s \in sent
          /\ B' = B \ {s} /\ IsInjective(buf'[i])
      BY <1>0, <1>a, <2>1, TailRange
    <2>3. /\ rows \in Seq(Samples) /\ Range(rows) = C \cup {s} /\ IsInjective(rows)
      BY <1>0, <1>a, <2>2, AppendRange, AppendProperties
    <2>4. CASE Full(Len(batch[i]) + 1)
      <3>1. Flush(i, rows, "db" \in Faults)
        BY <1>3, <2>4 DEF Take
      <3> HIDE DEF s, rows
      <3>2. \A x \in Range(rows) : table[x] = 0
        BY <1>a, <2>2, <2>3
      <3>3. /\ batch'[i] = <<>>
            /\ \A x \in Samples \ Range(rows) : table'[x] = table[x]
            /\ \/ failed' = failed /\ \A x \in Range(rows) : table'[x] = 1
               \/ table' = table /\ F' = F \cup Range(rows)
        BY <1>0, <2>3, <3>1, <3>2, FlushPlaces
      <3>4. C' = {} /\ IsInjective(batch'[i])
        BY <3>3, EmptyRange
      <3> QED  BY <1>0, <1>a, <2>1, <2>2, <2>3, <3>3, <3>4
    <2>5. CASE ~Full(Len(batch[i]) + 1)
      <3>1. batch'[i] = rows /\ table' = table /\ failed' = failed
        BY <1>0, <1>3, <2>5 DEF Take, TypeOK
      <3> HIDE DEF s, rows
      <3> QED  BY <1>0, <1>a, <2>1, <2>2, <2>3, <3>1
    <2> QED  BY <2>4, <2>5
  <1>4. CASE Tick(i)
    <2>1. /\ sent' = sent /\ N' = N /\ D' = D /\ buf' = buf
          /\ Flush(i, batch[i], "db" \in Faults)
      BY <1>4 DEF Tick
    <2>2. \A s \in C : table[s] = 0
      BY <1>a
    <2>3. /\ batch'[i] = <<>>
          /\ \A s \in Samples \ C : table'[s] = table[s]
          /\ \/ failed' = failed /\ \A s \in C : table'[s] = 1
             \/ table' = table /\ F' = F \cup C
      BY <1>0, <1>a, <2>1, <2>2, FlushPlaces
    <2>4. C' = {} /\ IsInjective(batch'[i])
      BY <2>3, EmptyRange
    <2> QED  BY <1>0, <1>a, <2>1, <2>3, <2>4
  <1>5. CASE LiveTick(i)
    BY <1>a, <1>5 DEF LiveTick
  <1>6. CASE Stop(i)
    <2>1. /\ sent' = sent /\ N' = N /\ D' = D /\ buf' = buf /\ table' = table
          /\ batch'[i] = <<>> /\ F' = F \cup C
      BY <1>0, <1>6 DEF Stop, InsertFailed, BatchReset, TypeOK
    <2>2. C' = {} /\ IsInjective(batch'[i])
      BY <2>1, EmptyRange
    <2> QED  BY <1>a, <2>1, <2>2
  <1>7. CASE UNCHANGED vars
    BY <1>a, <1>7 DEF vars
  <1> QED
    BY <1>0, <1>1, <1>2, <1>3, <1>4, <1>5, <1>6, <1>7 DEF Next, Flusher

\* With one ingester, a sample that was not dropped for want of room is in the
\* buffer, in the batch, in a batch logged as failed or in the table, where it
\* has one row: through full buffers, failed inserts and a shutdown.
THEOREM EverySampleAccountedFor ==
    ASSUME \A x, y \in Ingesters : x = y
    PROVE  Spec => []SamplesAccountedFor
  <1>1. Init => PlacesInv
    BY EmptyRange DEF Init, PlacesInv, PlacesApart, SamplesAccountedFor
  <1>2. CountInv /\ PlacesInv /\ [Next]_vars => PlacesInv'
    BY PlacesStep
  <1>3. PlacesInv => SamplesAccountedFor
    BY DEF PlacesInv
  <1> QED  BY <1>1, <1>2, <1>3, CountInvariant, PTL DEF Spec

================================================================================
