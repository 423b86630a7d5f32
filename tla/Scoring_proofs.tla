----------------------------- MODULE Scoring_proofs -----------------------------
(***************************************************************************)
(* Proofs about Scoring, for any number of runs, teams, ingesters and      *)
(* measurements.                                                           *)
(***************************************************************************)
EXTENDS Scoring, DataLemmas

\* A row and a finalisation are told from their absence by one field.
LEMMA RecordsApart ==
    /\ \A r \in Row : r # NoRow /\ r.status \in {"running", "finished"}
    /\ NoRow.status = "none"
    /\ \A f \in Fin : f # Idle /\ f.pc # "idle"
    /\ Idle.pc = "idle"
  BY DEF Row, NoRow, Fin, Idle

\* The first UPDATE of finalizeRun writes one row's status and result.
LEMMA FinishedRow ==
    ASSUME TypeOK, NEW k \in RunIds, NEW a \in Aggregates
    PROVE  /\ Finished(k, a) \in [RunIds -> Row \cup {NoRow}]
           /\ \A x \in RunIds : x # k \/ runs[k] = NoRow => Finished(k, a)[x] = runs[x]
           /\ runs[k] # NoRow =>
                 /\ Finished(k, a)[k] # NoRow
                 /\ Finished(k, a)[k].status = "finished"
                 /\ Finished(k, a)[k].result = a
                 /\ Finished(k, a)[k].team = runs[k].team
                 /\ Finished(k, a)[k].baseline = runs[k].baseline
  <1>1. CASE runs[k] = NoRow
    BY <1>1 DEF Finished, TypeOK
  <1>2. CASE runs[k] # NoRow
    <2> DEFINE p == [runs[k] EXCEPT !.status = "finished"]
               q == [p EXCEPT !.result = a]
    <2>1. runs[k] \in Row
      BY <1>2 DEF TypeOK
    <2>2. p \in Row /\ p.status = "finished" /\ p.team = runs[k].team
          /\ p.baseline = runs[k].baseline
      BY <2>1 DEF Row
    <2>3. Finished(k, a) = [runs EXCEPT ![k] = q]
      BY <1>2 DEF Finished, TypeOK
    <2> HIDE DEF p
    <2>4. q \in Row /\ q.status = "finished" /\ q.result = a /\ q.team = runs[k].team
          /\ q.baseline = runs[k].baseline
      BY <2>2 DEF Row
    <2> HIDE DEF q
    <2> QED  BY <1>2, <2>3, <2>4, RecordsApart DEF TypeOK
  <1> QED  BY <1>1, <1>2

\* The UPDATE of setBaseline writes the flag of all rows of the team.
LEMMA FlaggedRow ==
    ASSUME TypeOK, NEW k \in RunIds, NEW t \in Teams
    PROVE  /\ Flagged(k, t) \in [RunIds -> Row \cup {NoRow}]
           /\ \A x \in RunIds :
                 /\ runs[x] = NoRow => Flagged(k, t)[x] = NoRow
                 /\ runs[x] # NoRow =>
                       /\ Flagged(k, t)[x] # NoRow
                       /\ Flagged(k, t)[x].status = runs[x].status
                       /\ Flagged(k, t)[x].result = runs[x].result
                       /\ Flagged(k, t)[x].team = runs[x].team
                       /\ Flagged(k, t)[x].baseline =
                             IF runs[x].team = t THEN x = k ELSE runs[x].baseline
  <1> DEFINE q == Flagged(k, t)
  <1>1. ASSUME NEW x \in RunIds, runs[x] # NoRow
        PROVE  /\ q[x] \in Row
               /\ q[x].status = runs[x].status /\ q[x].result = runs[x].result
               /\ q[x].team = runs[x].team
               /\ q[x].baseline = IF runs[x].team = t THEN x = k ELSE runs[x].baseline
    <2>1. runs[x] \in Row
      BY <1>1 DEF TypeOK
    <2>2. q[x] = IF runs[x].team = t THEN [runs[x] EXCEPT !.baseline = (x = k)]
                 ELSE runs[x]
      BY <1>1 DEF Flagged
    <2> HIDE DEF q
    <2>3. CASE runs[x].team = t
      <3> DEFINE v == (x = k)
      <3>1. v \in BOOLEAN  OBVIOUS
      <3>2. q[x] = [runs[x] EXCEPT !.baseline = v]
        BY <2>2, <2>3
      <3> HIDE DEF v
      <3>3. /\ q[x] \in Row /\ q[x].status = runs[x].status
            /\ q[x].result = runs[x].result /\ q[x].team = runs[x].team
            /\ q[x].baseline = v
        BY <2>1, <3>1, <3>2 DEF Row
      <3> QED  BY <2>3, <3>3 DEF v
    <2>4. CASE runs[x].team # t
      BY <2>1, <2>2, <2>4
    <2> QED  BY <2>3, <2>4
  <1>2. ASSUME NEW x \in RunIds, runs[x] = NoRow
        PROVE  q[x] = NoRow
    BY <1>2 DEF Flagged
  <1>3. q = [x \in RunIds |-> q[x]]
    BY DEF Flagged
  <1> HIDE DEF q
  <1>4. q \in [RunIds -> Row \cup {NoRow}]
    BY <1>1, <1>2, <1>3
  <1> QED  BY <1>1, <1>2, <1>4, RecordsApart DEF q

\* What a step of a finalisation that learns nothing makes of its record.
LEMMA FinMoved ==
    ASSUME NEW f \in Fin, NEW pc \in {"resolve", "hset"},
           NEW q, q = [f EXCEPT !.pc = pc]
    PROVE  /\ q \in Fin /\ q.pc = pc /\ q.run = f.run
           /\ q.result = f.result /\ q.member = f.member
  BY DEF Fin

-----------------------------------------------------------------------------
(* The table runs: types, baselines, and what setBaseline read.            *)

\* A step that leaves the rows and the requests alone, forgets no summary and
\* gives no result to a finalisation that is not one of Aggregates.
LEMMA RowsFrame ==
    ASSUME RowsInv, TypeOK', runs' = runs, promoting' = promoting,
           \A k \in RunIds : summary[k] # "none" => summary'[k] # "none",
           \A i \in Ingesters :
              fin'[i].pc \in {"update", "resolve", "zadd", "hset"} =>
                 fin'[i].result \in Aggregates
    PROVE  RowsInv'
  <1>1. BaselineSound'
    BY DEF RowsInv, BaselineSound
  <1>2. \A p \in promoting : p[1] \in RunIds
    BY DEF RowsInv, BaselineSound, TypeOK
  <1> QED  BY <1>1, <1>2 DEF RowsInv

\* A step of one finalisation that changes nothing else of RowsInv.
LEMMA FinFrame ==
    ASSUME RowsInv, runs' = runs, summary' = summary, promoting' = promoting,
           NEW i \in Ingesters, NEW f \in Fin \cup {Idle}, Advance(i, f),
           f # Idle /\ f.pc # "aggregate" => f.result \in Aggregates,
           inbox' \in [Ingesters -> Seq(RunIds)],
           scores' \in [Members -> Nat \cup {NoScore}],
           metrics' \in [Members -> Aggregates \cup {NoAggregate}],
           intact' \in BOOLEAN,
           unwritten' \in [RunIds -> Aggregates \cup {NoAggregate}],
           cut' \subseteq RunIds
    PROVE  RowsInv'
  <1>1. /\ TypeOK
        /\ fin' = [fin EXCEPT ![i] = f]
        /\ fin \in [Ingesters -> Fin \cup {Idle}]
        /\ \A j \in Ingesters : fin[j].pc \in {"update", "resolve", "zadd", "hset"} =>
              fin[j].result \in Aggregates
    BY DEF Advance, RowsInv, BaselineSound, TypeOK
  <1>2. TypeOK'
    BY <1>1 DEF TypeOK
  <1>3. ASSUME NEW j \in Ingesters, fin'[j].pc \in {"update", "resolve", "zadd", "hset"}
        PROVE  fin'[j].result \in Aggregates
    <2>1. CASE j = i
      <3>1. fin'[j] = f /\ f # Idle  BY <1>1, <1>3, <2>1, RecordsApart
      <3> QED  BY <1>3, <3>1
    <2>2. CASE j # i
      BY <1>1, <1>3, <2>2
    <2> QED  BY <2>1, <2>2
  <1> QED  BY <1>2, <1>3, RowsFrame

\* A finalisation that is past its query has what the query returned.
LEMMA FinResult ==
    ASSUME RowsInv, NEW i \in Ingesters,
           fin[i].pc \in {"aggregate", "update", "resolve", "zadd", "hset"}
    PROVE  /\ fin[i] \in Fin
           /\ fin[i].run \in RunIds /\ fin[i].member \in Members
           /\ fin[i].pc # "aggregate" =>
                 fin[i].result \in Aggregates /\ ScoreOf[fin[i].result] \in Nat
  <1>1. fin[i] \in Fin
    BY RecordsApart DEF RowsInv, BaselineSound, TypeOK
  <1>2. fin[i].run \in RunIds /\ fin[i].member \in Members
    BY <1>1 DEF Fin
  <1> QED  BY <1>1, <1>2, ScoreOfAssumption DEF RowsInv

\* RowsInv is inductive.
LEMMA RowsStep == RowsInv /\ [Next]_vars => RowsInv'
  <1> SUFFICES ASSUME RowsInv, [Next]_vars
               PROVE  RowsInv'
    OBVIOUS
  <1>0. /\ TypeOK
        /\ \A k \in RunIds : runs[k] # NoRow => runs[k] \in Row
        /\ fin \in [Ingesters -> Fin \cup {Idle}]
    BY DEF RowsInv, BaselineSound, TypeOK
  <1>0a. \A k \in RunIds :
           runs[k] # NoRow /\ runs[k].baseline =>
              /\ runs[k].status = "finished" /\ runs[k].result # NoAggregate
              /\ \A j \in RunIds : runs[j] # NoRow /\ runs[j].team = runs[k].team
                                    /\ runs[j].baseline => j = k
    BY DEF RowsInv, BaselineSound
  <1>1. ASSUME NEW k \in RunIds, NEW t \in Teams, InsertRun(k, t)
        PROVE  RowsInv'
    <2> DEFINE r == [team |-> t, status |-> "running",
                     result |-> NoAggregate, baseline |-> FALSE]
    <2>1. /\ runs[k] = NoRow /\ summary[k] = "none"
          /\ runs' = [runs EXCEPT ![k] = r]
          /\ summary' = [summary EXCEPT ![k] = "due"]
          /\ UNCHANGED <<inbox, fin, scores, metrics, promoting, intact, unwritten, cut>>
      BY <1>1 DEF InsertRun
    <2>2. r \in Row /\ r.status = "running" /\ ~r.baseline
      BY DEF Row
    <2> HIDE DEF r
    <2>3. TypeOK'
      BY <1>0, <2>1, <2>2 DEF TypeOK
    <2>4. /\ runs'[k] = r /\ \A x \in RunIds \ {k} : runs'[x] = runs[x]
          /\ summary'[k] # "none"
          /\ \A x \in RunIds : summary[x] # "none" => x # k /\ summary'[x] # "none"
      BY <1>0, <2>1 DEF TypeOK
    <2>5. BaselineSound'
      BY <2>2, <2>3, <2>4 DEF RowsInv, BaselineSound
    <2>6. ASSUME NEW p \in promoting
          PROVE  /\ summary'[p[1]] # "none"
                 /\ runs'[p[1]] # NoRow =>
                       runs'[p[1]].status = "finished" /\ runs'[p[1]].team = p[2]
      <3>1. p[1] \in RunIds /\ summary[p[1]] # "none"
        BY <1>0 DEF TypeOK, RowsInv
      <3> QED  BY <2>4, <3>1 DEF RowsInv
    <2>7. ASSUME NEW x \in RunIds, runs'[x] # NoRow
          PROVE  /\ summary'[x] # "none"
                 /\ runs'[x].status = "finished" => runs'[x].result \in Aggregates
      BY <2>2, <2>4, <2>7 DEF RowsInv
    <2> QED  BY <2>1, <2>5, <2>6, <2>7 DEF RowsInv
  <1>2. ASSUME NEW k \in RunIds, PublishSummary(k)
        PROVE  RowsInv'
    <2>1. /\ summary' = [summary EXCEPT ![k] = "sent"]
          /\ inbox' = [i \in Ingesters |-> Append(inbox[i], k)]
          /\ UNCHANGED <<runs, fin, scores, metrics, promoting, intact, unwritten, cut>>
      BY <1>2 DEF PublishSummary
    <2>2. inbox' \in [Ingesters -> Seq(RunIds)]
      <3>1. \A i \in Ingesters : Append(inbox[i], k) \in Seq(RunIds)
        BY <1>0, AppendProperties DEF TypeOK
      <3> QED  BY <2>1, <3>1
    <2>3. TypeOK'
      BY <1>0, <2>1, <2>2 DEF TypeOK
    <2>4. \A x \in RunIds : summary[x] # "none" => summary'[x] # "none"
      BY <1>0, <2>1 DEF TypeOK
    <2>5. \A i \in Ingesters :
             fin'[i].pc \in {"update", "resolve", "zadd", "hset"} =>
                fin'[i].result \in Aggregates
      BY <2>1 DEF RowsInv
    <2> QED  BY <2>1, <2>3, <2>4, <2>5, RowsFrame
  <1>3. ASSUME NEW k \in RunIds, CheckBaseline(k)
        PROVE  RowsInv'
    <2>1. /\ runs[k] # NoRow /\ runs[k].status = "finished"
          /\ promoting' = promoting \cup {<<k, runs[k].team>>}
          /\ UNCHANGED <<runs, summary, inbox, fin, scores, metrics, intact, unwritten, cut>>
      BY <1>3 DEF CheckBaseline, MayPromote
    <2>2. runs[k].team \in Teams /\ summary[k] # "none"
      <3>1. runs[k] \in Row  BY <1>0, <2>1
      <3> QED  BY <2>1, <3>1 DEF Row, RowsInv
    <2>3. TypeOK'
      BY <1>0, <2>1, <2>2 DEF TypeOK
    <2> QED  BY <2>1, <2>2, <2>3 DEF RowsInv, BaselineSound
  <1>4. ASSUME NEW k \in RunIds, NEW t \in Teams, SetBaseline(k, t)
        PROVE  RowsInv'
    <2>1. /\ <<k, t>> \in promoting /\ promoting' = promoting \ {<<k, t>>}
          /\ runs' = Flagged(k, t)
          /\ UNCHANGED <<summary, inbox, fin, scores, metrics, intact, unwritten, cut>>
      BY <1>4 DEF SetBaseline
    <2>2. /\ runs' \in [RunIds -> Row \cup {NoRow}]
          /\ \A x \in RunIds :
                /\ runs[x] = NoRow => runs'[x] = NoRow
                /\ runs[x] # NoRow =>
                      /\ runs'[x] # NoRow
                      /\ runs'[x].status = runs[x].status
                      /\ runs'[x].result = runs[x].result
                      /\ runs'[x].team = runs[x].team
                      /\ runs'[x].baseline = IF runs[x].team = t THEN x = k
                                             ELSE runs[x].baseline
      BY <1>0, <2>1, FlaggedRow
    <2>3. TypeOK'
      BY <1>0, <2>1, <2>2 DEF TypeOK
    <2>4. runs[k] # NoRow => runs[k].status = "finished" /\ runs[k].result \in Aggregates
      BY <2>1 DEF RowsInv
    <2>5. ASSUME NEW x \in RunIds, runs'[x] # NoRow, runs'[x].baseline
          PROVE  /\ runs'[x].status = "finished" /\ runs'[x].result # NoAggregate
                 /\ \A j \in RunIds : runs'[j] # NoRow /\ runs'[j].team = runs'[x].team /\ runs'[j].baseline
                                       => j = x
      <3>1. CASE runs[x].team = t
        <4>1. x = k  BY <2>2, <2>5, <3>1
        <4>2. runs'[x].status = "finished" /\ runs'[x].result # NoAggregate
          BY <2>2, <2>4, <2>5, <4>1, NoAggregateAssumption
        <4>3. runs'[x].team = t
          BY <2>2, <2>5, <3>1
        <4>4. ASSUME NEW j \in RunIds, runs'[j] # NoRow, runs'[j].team = t,
                     runs'[j].baseline
              PROVE  j = k
          BY <2>2, <4>4
        <4> QED  BY <4>1, <4>2, <4>3, <4>4
      <3>2. CASE runs[x].team # t
        <4>1. runs[x] # NoRow /\ runs[x].baseline
          BY <2>2, <2>5, <3>2
        <4>2. /\ runs[x].status = "finished" /\ runs[x].result # NoAggregate
              /\ \A j \in RunIds : runs[j] # NoRow /\ runs[j].team = runs[x].team /\ runs[j].baseline
                                       => j = x
          BY <1>0a, <4>1
        <4> QED  BY <2>2, <2>5, <3>2, <4>1, <4>2
      <3> QED  BY <3>1, <3>2
    <2>6. BaselineSound'
      BY <2>3, <2>5 DEF BaselineSound
    <2>7. ASSUME NEW x \in RunIds, runs'[x] # NoRow
          PROVE  /\ summary'[x] # "none"
                 /\ runs'[x].status = "finished" => runs'[x].result \in Aggregates
      BY <2>1, <2>2, <2>7 DEF RowsInv
    <2>8. ASSUME NEW p \in promoting'
          PROVE  /\ summary'[p[1]] # "none"
                 /\ runs'[p[1]] # NoRow =>
                       runs'[p[1]].status = "finished" /\ runs'[p[1]].team = p[2]
      <3>1. p \in promoting /\ p[1] \in RunIds
        BY <1>0, <2>1 DEF TypeOK
      <3> QED  BY <2>1, <2>2, <3>1 DEF RowsInv
    <2> QED  BY <2>1, <2>6, <2>7, <2>8 DEF RowsInv
  <1>5. ASSUME NEW i \in Ingesters, Receive(i)
        PROVE  RowsInv'
    <2> DEFINE f == [pc |-> "aggregate", run |-> Head(inbox[i]),
                     result |-> NoAggregate, member |-> Head(inbox[i])]
    <2>1. /\ inbox[i] \in Seq(RunIds) /\ inbox[i] # <<>>
          /\ Advance(i, f) /\ inbox' = [inbox EXCEPT ![i] = Tail(@)]
          /\ UNCHANGED <<runs, summary, scores, metrics, promoting, intact, unwritten, cut>>
      BY <1>0, <1>5 DEF Receive, TypeOK
    <2>2. Head(inbox[i]) \in RunIds /\ Tail(inbox[i]) \in Seq(RunIds)
      BY <2>1, HeadTailProperties
    <2>3. f \in Fin /\ f.pc = "aggregate"
      BY <2>2 DEF Fin, Members
    <2>4. inbox' \in [Ingesters -> Seq(RunIds)]
      BY <1>0, <2>1, <2>2 DEF TypeOK
    <2> HIDE DEF f
    <2> QED  BY <1>0, <2>1, <2>3, <2>4, FinFrame DEF TypeOK
  <1>6. ASSUME NEW i \in Ingesters, Aggregate(i)
        PROVE  RowsInv'
    <2>1. /\ fin[i].pc = "aggregate"
          /\ UNCHANGED <<runs, summary, inbox, scores, metrics, promoting, intact, unwritten>>
          /\ \/ \E a \in Aggregates :
                   Advance(i, [fin[i] EXCEPT !.pc = "update", !.result = a])
             \/ Advance(i, Idle)
          /\ cut' = cut \/ cut' = cut \cup {fin[i].run}
      BY <1>6 DEF Aggregate, CutShort
    <2>2. fin[i] \in Fin /\ cut' \subseteq RunIds
      BY <1>0, <2>1, FinResult DEF TypeOK
    <2>3. CASE Advance(i, Idle)
      BY <1>0, <2>1, <2>2, <2>3, FinFrame DEF TypeOK
    <2>4. ASSUME NEW a \in Aggregates,
                 Advance(i, [fin[i] EXCEPT !.pc = "update", !.result = a])
          PROVE  RowsInv'
      <3> DEFINE p == [fin[i] EXCEPT !.pc = "update"]
                 f == [p EXCEPT !.result = a]
      <3>1. p = [fin[i] EXCEPT !.pc = "update"] /\ Advance(i, f)
        BY <2>4
      <3>0. f = [p EXCEPT !.result = a]
        OBVIOUS
      <3> HIDE DEF p, f
      <3>2. p \in Fin
        BY <2>2, <3>1 DEF Fin
      <3>3. f \in Fin /\ f.result = a
        BY <3>0, <3>2 DEF Fin
      <3> QED  BY <1>0, <2>1, <2>2, <3>1, <3>3, FinFrame DEF TypeOK
    <2> QED  BY <2>1, <2>3, <2>4
  <1>7. ASSUME NEW i \in Ingesters, UpdateRun(i)
        PROVE  RowsInv'
    <2> DEFINE k == fin[i].run
               a == fin[i].result
               f == [fin[i] EXCEPT !.pc = "resolve"]
    <2>1. /\ fin[i].pc = "update"
          /\ runs' = Finished(k, a) \/ runs' = runs
          /\ fin' = [fin EXCEPT ![i] = f]
          /\ unwritten' = unwritten \/ unwritten' = [unwritten EXCEPT ![k] = a]
          /\ cut' = cut \/ cut' = cut \cup {k}
          /\ UNCHANGED <<summary, inbox, scores, metrics, promoting, intact>>
      BY <1>7 DEF UpdateRun, Advance, CutShort
    <2>2. /\ fin[i] \in Fin /\ k \in RunIds /\ a \in Aggregates
          /\ unwritten' \in [RunIds -> Aggregates \cup {NoAggregate}]
          /\ cut' \subseteq RunIds
      BY <1>0, <2>1, FinResult DEF TypeOK
    <2>3. f \in Fin /\ f.result = a
      BY <2>2, FinMoved
    <2>4. CASE runs' = runs
      <3> HIDE DEF f
      <3> QED  BY <1>0, <2>1, <2>2, <2>3, <2>4, FinFrame DEF Advance, TypeOK
    <2>5. CASE runs' = Finished(k, a)
      <3> HIDE DEF f, k, a
      <3>1. /\ runs' \in [RunIds -> Row \cup {NoRow}]
            /\ \A x \in RunIds : x # k \/ runs[k] = NoRow => runs'[x] = runs[x]
            /\ runs[k] # NoRow =>
                  /\ runs'[k] # NoRow
                  /\ runs'[k].status = "finished" /\ runs'[k].result = a
                  /\ runs'[k].team = runs[k].team
                  /\ runs'[k].baseline = runs[k].baseline
        BY <1>0, <2>2, <2>5, FinishedRow
      <3>2. TypeOK'
        BY <1>0, <2>1, <2>2, <2>3, <3>1 DEF TypeOK
      <3>3. BaselineSound'
        <4> SUFFICES ASSUME NEW x \in RunIds, runs'[x] # NoRow, runs'[x].baseline
                     PROVE  /\ runs'[x].status = "finished"
                            /\ runs'[x].result # NoAggregate
                            /\ \A j \in RunIds : runs'[j] # NoRow /\ runs'[j].team = runs'[x].team /\ runs'[j].baseline
                                       => j = x
          BY <3>2 DEF BaselineSound
        <4>1. \A j \in RunIds :
                 /\ runs'[j] # NoRow <=> runs[j] # NoRow
                 /\ runs[j] # NoRow => runs'[j].team = runs[j].team
                                       /\ runs'[j].baseline = runs[j].baseline
          BY <3>1
        <4>2. /\ runs[x] # NoRow /\ runs[x].baseline
              /\ runs[x].status = "finished" /\ runs[x].result # NoAggregate
              /\ \A j \in RunIds : runs[j] # NoRow /\ runs[j].team = runs[x].team /\ runs[j].baseline
                                       => j = x
          BY <1>0a, <4>1
        <4>3. runs'[x].status = "finished" /\ runs'[x].result # NoAggregate
          BY <2>2, <3>1, <4>2, NoAggregateAssumption
        <4> QED  BY <4>1, <4>2, <4>3
      <3>4. ASSUME NEW x \in RunIds, runs'[x] # NoRow
            PROVE  /\ summary'[x] # "none"
                   /\ runs'[x].status = "finished" => runs'[x].result \in Aggregates
        BY <2>1, <2>2, <3>1, <3>4 DEF RowsInv
      <3>5. ASSUME NEW p \in promoting'
            PROVE  /\ summary'[p[1]] # "none"
                   /\ runs'[p[1]] # NoRow =>
                         runs'[p[1]].status = "finished" /\ runs'[p[1]].team = p[2]
        <4>1. p \in promoting /\ p[1] \in RunIds
          BY <1>0, <2>1 DEF TypeOK
        <4> QED  BY <2>1, <3>1, <4>1 DEF RowsInv
      <3>6. \A j \in Ingesters :
               fin'[j].pc \in {"update", "resolve", "zadd", "hset"} =>
                  fin'[j].result \in Aggregates
        <4>1. fin'[i] = f /\ \A j \in Ingesters \ {i} : fin'[j] = fin[j]
          BY <1>0, <2>1
        <4> QED  BY <2>2, <2>3, <4>1 DEF RowsInv
      <3> QED  BY <3>3, <3>4, <3>5, <3>6 DEF RowsInv
    <2> QED  BY <2>1, <2>4, <2>5
  <1>8. ASSUME NEW i \in Ingesters, ResolveTeam(i)
        PROVE  RowsInv'
    <2>1. PICK m \in Members : Advance(i, [fin[i] EXCEPT !.pc = "zadd", !.member = m])
      BY <1>8 DEF ResolveTeam
    <2> DEFINE p == [fin[i] EXCEPT !.pc = "zadd"]
               f == [p EXCEPT !.member = m]
    <2>2. fin[i] \in Fin /\ fin[i].result \in Aggregates /\ cut' \subseteq RunIds
      BY <1>0, <1>8, FinResult DEF ResolveTeam, CutShort, TypeOK
    <2>3. p = [fin[i] EXCEPT !.pc = "zadd"] /\ Advance(i, f)
      BY <2>1
    <2>0. f = [p EXCEPT !.member = m]
      OBVIOUS
    <2> HIDE DEF p, f
    <2>4. p \in Fin /\ p.result = fin[i].result
      BY <2>2, <2>3 DEF Fin
    <2>5. f \in Fin /\ f.result = fin[i].result
      BY <2>0, <2>4 DEF Fin
    <2> QED  BY <1>0, <1>8, <2>2, <2>3, <2>5, FinFrame DEF ResolveTeam, TypeOK
  <1>9. ASSUME NEW i \in Ingesters, AddScore(i)
        PROVE  RowsInv'
    <2> DEFINE f == [fin[i] EXCEPT !.pc = "hset"]
               s == ScoreOf[fin[i].result]
    <2>1. /\ fin[i] \in Fin /\ fin[i].result \in Aggregates
          /\ fin[i].member \in Members /\ s \in Nat
      BY <1>9, FinResult DEF AddScore
    <2>2. f \in Fin /\ f.result = fin[i].result /\ Advance(i, f)
      BY <1>9, <2>1, FinMoved DEF AddScore
    <2>3. scores' \in [Members -> Nat \cup {NoScore}] /\ intact' \in BOOLEAN
      <3>1. \/ scores' = [scores EXCEPT ![fin[i].member] = IF s > @ THEN s ELSE @]
            \/ scores' = scores
        BY <1>9 DEF AddScore, ZAddGT
      <3>2. intact' = intact \/ intact' = FALSE
        BY <1>9 DEF AddScore
      <3> HIDE DEF s
      <3>3. scores' \in [Members -> Nat \cup {NoScore}]
        BY <1>0, <2>1, <3>1 DEF TypeOK
      <3> QED  BY <1>0, <3>2, <3>3 DEF TypeOK
    <2> HIDE DEF f, s
    <2> QED  BY <1>0, <1>9, <2>1, <2>2, <2>3, FinFrame DEF AddScore, TypeOK
  <1>10. ASSUME NEW i \in Ingesters, StoreMetrics(i)
         PROVE  RowsInv'
    <2>1. /\ fin[i].result \in Aggregates /\ fin[i].member \in Members
      BY <1>10, FinResult DEF StoreMetrics
    <2>2. metrics' \in [Members -> Aggregates \cup {NoAggregate}]
      BY <1>0, <1>10, <2>1 DEF StoreMetrics, TypeOK
    <2> QED  BY <1>0, <1>10, <2>2, FinFrame DEF StoreMetrics, TypeOK
  <1>11. ASSUME NEW i \in Ingesters, Crash(i)
         PROVE  RowsInv'
    <2>1. inbox' \in [Ingesters -> Seq(RunIds)]
      <3>1. <<>> \in Seq(RunIds)  BY EmptySeq
      <3> QED  BY <1>0, <1>11, <3>1 DEF Crash, TypeOK
    <2>2. cut' \subseteq RunIds
      <3>1. Range(inbox[i]) \subseteq RunIds
        BY <1>0, RangeOfSeq DEF TypeOK
      <3>2. fin[i] # Idle => fin[i].run \in RunIds
        BY <1>0 DEF Fin
      <3> QED  BY <1>0, <1>11, <3>1, <3>2 DEF Crash, CutShort, TypeOK
    <2> QED  BY <1>0, <1>11, <2>1, <2>2, FinFrame DEF Crash, TypeOK
  <1>12. CASE ResetPlatform
    <2>1. /\ \A k \in RunIds : runs'[k] = NoRow
          /\ UNCHANGED <<summary, inbox, fin, scores, metrics, promoting, intact, unwritten, cut>>
      BY <1>12 DEF ResetPlatform
    <2>2. TypeOK'
      BY <1>0, <1>12 DEF ResetPlatform, TypeOK
    <2>3. \A p \in promoting : p[1] \in RunIds
      BY <1>0 DEF TypeOK
    <2> QED  BY <2>1, <2>2, <2>3 DEF RowsInv, BaselineSound
  <1>13. CASE FlushRedis
    <2>1. /\ UNCHANGED <<runs, summary, inbox, fin, promoting, unwritten, cut>>
          /\ scores' \in [Members -> Nat \cup {NoScore}]
          /\ metrics' \in [Members -> Aggregates \cup {NoAggregate}]
          /\ intact' \in BOOLEAN
      BY <1>13 DEF FlushRedis
    <2>2. TypeOK'
      BY <1>0, <2>1 DEF TypeOK
    <2>3. \A i \in Ingesters :
             fin'[i].pc \in {"update", "resolve", "zadd", "hset"} =>
                fin'[i].result \in Aggregates
      BY <2>1 DEF RowsInv
    <2> QED  BY <2>1, <2>2, <2>3, RowsFrame
  <1>14. CASE UNCHANGED vars
    BY <1>14 DEF vars, RowsInv, BaselineSound, TypeOK
  <1> QED
    BY <1>1, <1>2, <1>3, <1>4, <1>5, <1>6, <1>7, <1>8, <1>9, <1>10, <1>11, <1>12,
       <1>13, <1>14
    DEF Next, Finalize

\* RowsInv holds throughout.
LEMMA RowsInvariant == Spec => []RowsInv
  <1>1. Init => TypeOK
    BY EmptySeq DEF Init, TypeOK, NoScore
  <1>2. Init => RowsInv
    BY <1>1, RecordsApart DEF Init, RowsInv, BaselineSound
  <1> QED  BY <1>2, RowsStep, PTL DEF Spec

\* A team has at most one baseline, a finished run with a result, however the
\* two statements of overlapping setBaseline requests, finalisations on any
\* number of ingesters, crashes and resets interleave.
THEOREM BaselinesSound == Spec => []BaselineSound
  <1>1. RowsInv => BaselineSound  BY DEF RowsInv
  <1> QED  BY <1>1, RowsInvariant, PTL

\* A finished run never runs again and a team's score never falls unless Redis
\* loses it, with any number of ingesters and whatever fails.
THEOREM OnlyImprovements == Spec => ResultsOnlyImprove
  <1> DEFINE Improves ==
        /\ \A k \in RunIds : runs[k].status = "finished" =>
                                runs'[k].status \in {"finished", "none"}
        /\ \A m \in Members : scores'[m] >= scores[m] \/ scores'[m] = NoScore
  <1>1. RowsInv /\ [Next]_vars => [Improves]_vars
    <2> SUFFICES ASSUME RowsInv, Next
                 PROVE  Improves
      OBVIOUS
    <2>0. /\ TypeOK
          /\ \A m \in Members : scores[m] \in Int
          /\ \A k \in RunIds : runs[k] # NoRow => runs[k] \in Row
      BY DEF RowsInv, BaselineSound, TypeOK, NoScore
    <2>1. CASE scores' = scores /\ runs' = runs
      BY <2>0, <2>1
    <2>2. ASSUME NEW k \in RunIds, NEW t \in Teams, InsertRun(k, t)
          PROVE  Improves
      BY <2>0, <2>2, RecordsApart DEF InsertRun, TypeOK
    <2>3. ASSUME NEW k \in RunIds, NEW t \in Teams, SetBaseline(k, t)
          PROVE  Improves
      BY <2>0, <2>3, FlaggedRow, RecordsApart DEF SetBaseline
    <2>4. ASSUME NEW i \in Ingesters, UpdateRun(i)
          PROVE  Improves
      <3>1. fin[i].run \in RunIds /\ fin[i].result \in Aggregates
        BY <2>4, FinResult DEF UpdateRun
      <3>2. scores' = scores /\ (runs' = Finished(fin[i].run, fin[i].result) \/ runs' = runs)
        BY <2>4 DEF UpdateRun
      <3> QED  BY <2>0, <3>1, <3>2, FinishedRow, RecordsApart
    <2>5. ASSUME NEW i \in Ingesters, AddScore(i)
          PROVE  Improves
      <3> DEFINE s == ScoreOf[fin[i].result]
      <3>1. fin[i].member \in Members /\ s \in Nat
        BY <2>5, FinResult DEF AddScore
      <3>2. /\ runs' = runs
            /\ \/ scores' = [scores EXCEPT ![fin[i].member] = IF s > @ THEN s ELSE @]
               \/ scores' = scores
        BY <2>5 DEF AddScore, ZAddGT
      <3> HIDE DEF s
      <3>3. fin[i].member \in DOMAIN scores /\ scores[fin[i].member] \in Int
        BY <2>0, <3>1 DEF TypeOK
      <3>4. ASSUME NEW m \in Members
            PROVE  scores'[m] >= scores[m]
        <4>1. scores[m] \in Int /\ DOMAIN scores = Members
          BY <2>0 DEF TypeOK
        <4>2. CASE scores' = scores
          BY <4>1, <4>2
        <4>3. CASE scores' = [scores EXCEPT ![fin[i].member] = IF s > @ THEN s ELSE @]
                   /\ m = fin[i].member
          <5>1. scores'[m] = IF s > scores[m] THEN s ELSE scores[m]
            BY <4>1, <4>3
          <5> QED  BY <3>1, <4>1, <5>1
        <4>4. CASE scores' = [scores EXCEPT ![fin[i].member] = IF s > @ THEN s ELSE @]
                   /\ m # fin[i].member
          BY <4>1, <4>4
        <4> QED  BY <3>2, <4>2, <4>3, <4>4
      <3>5. \A m \in Members : scores'[m] >= scores[m]
        BY <3>4
      <3>6. runs' = runs
        BY <3>2
      <3> QED  BY <3>5, <3>6
    <2>6. CASE ResetPlatform
      BY <2>0, <2>6, RecordsApart DEF ResetPlatform
    <2>7. CASE FlushRedis
      BY <2>0, <2>7 DEF FlushRedis
    <2> QED
      BY <2>1, <2>2, <2>3, <2>4, <2>5, <2>6, <2>7
      DEF Next, Finalize, PublishSummary, CheckBaseline, Receive, Aggregate, ResolveTeam,
          StoreMetrics, Crash
  <1> QED  BY <1>1, RowsInvariant, PTL DEF Spec, ResultsOnlyImprove

-----------------------------------------------------------------------------
(* The leaderboard and the table runs.                                     *)

\* The scores a team has earned stay earned while its finished runs stay.
LEMMA ScoresGrow ==
    ASSUME \A k \in RunIds :
              /\ runs[k].status = "finished" =>
                    runs'[k].status = "finished" /\ runs'[k].result = runs[k].result
              /\ runs[k] # NoRow => runs'[k] # NoRow /\ runs'[k].team = runs[k].team
              /\ unwritten[k] # NoAggregate => unwritten'[k] = unwritten[k],
           NEW t \in Teams
    PROVE  /\ ScoresOf(t) \subseteq ScoresOf(t)'
           /\ UnwrittenOf(t) \subseteq UnwrittenOf(t)'
  <1>1. \A k \in RunIds : runs[k].status = "finished" => runs[k] # NoRow
    BY RecordsApart
  <1>2. ScoresOf(t) \subseteq ScoresOf(t)'
    BY <1>1 DEF ScoresOf
  <1>3. UnwrittenOf(t) \subseteq UnwrittenOf(t)'
    BY DEF UnwrittenOf
  <1> QED  BY <1>2, <1>3

\* What FinalizingInv says of the finalisation under way.
LEMMA FinKnown ==
    ASSUME RowsInv, FinalizingInv, NEW i \in Ingesters,
           fin[i].pc \in {"aggregate", "update", "resolve", "zadd", "hset"}
    PROVE  /\ fin[i] \in Fin /\ fin[i] # Idle
           /\ summary[fin[i].run] = "sent" /\ fin[i].run \notin Range(inbox[i])
           /\ fin[i].pc \in {"aggregate", "update"} => Pending(fin[i].run)
           /\ fin[i].pc \in {"resolve", "zadd", "hset"} =>
                 Recorded(fin[i].run, fin[i].result)
           /\ fin[i].pc \in {"zadd", "hset"} =>
                 \/ fin[i].member = runs[fin[i].run].team
                 \/ fin[i].run \in cut /\ fin[i].member = fin[i].run
  BY FinResult, RecordsApart DEF FinalizingInv

\* FinalizingInv is kept by a step that leaves the status, result and team of
\* every row and the summaries alone, and moves one finalisation to a record
\* that agrees with its row.
LEMMA FinalizingFrame ==
    ASSUME FinalizingInv, RowsInv, summary' = summary,
           unwritten' = unwritten, cut \subseteq cut',
           \A k \in RunIds : /\ runs'[k].status = runs[k].status
                             /\ runs[k] # NoRow =>
                                   /\ runs'[k] # NoRow
                                   /\ runs'[k].result = runs[k].result
                                   /\ runs'[k].team = runs[k].team,
           \A j \in Ingesters : inbox'[j] = inbox[j] \/ inbox'[j] = <<>>,
           \A j \in Ingesters :
              \/ fin'[j] = fin[j] \/ fin'[j] = Idle
              \/ /\ fin[j].pc \in {"aggregate", "update", "resolve", "zadd", "hset"}
                 /\ fin'[j].run = fin[j].run
                 /\ fin'[j].pc \in {"aggregate", "update"} =>
                       fin[j].pc \in {"aggregate", "update"}
                 /\ fin'[j].pc \in {"resolve", "zadd", "hset"} =>
                       /\ fin[j].pc \in {"resolve", "zadd", "hset"}
                       /\ fin'[j].result = fin[j].result
                 /\ fin'[j].pc \in {"zadd", "hset"} =>
                       \/ fin'[j].member = runs[fin[j].run].team
                       \/ fin[j].run \in cut' /\ fin'[j].member = fin[j].run
    PROVE  FinalizingInv'
  <1>1. ASSUME NEW k \in RunIds
        PROVE  /\ k \notin cut' => unwritten'[k] = NoAggregate
               /\ summary'[k] = "none" => unwritten'[k] = NoAggregate
               /\ summary'[k] = "due" => Pending(k)'
               /\ Pending(k) => Pending(k)'
    BY DEF FinalizingInv, Pending
  <1>2. ASSUME NEW j \in Ingesters
        PROVE  /\ IsInjective(inbox'[j]) /\ Range(inbox'[j]) \subseteq Range(inbox[j])
               /\ Range(inbox[j]) \subseteq RunIds
               /\ \A k \in Range(inbox'[j]) : summary'[k] = "sent" /\ Pending(k)'
    <2>1. Range(inbox[j]) \subseteq RunIds
      BY RangeOfSeq DEF RowsInv, BaselineSound, TypeOK
    <2>2. IsInjective(inbox'[j]) /\ Range(inbox'[j]) \subseteq Range(inbox[j])
      BY EmptyRange DEF FinalizingInv
    <2>3. \A k \in Range(inbox[j]) : summary[k] = "sent" /\ Pending(k)
      BY DEF FinalizingInv
    <2> QED  BY <1>1, <2>1, <2>2, <2>3
  <1>3. ASSUME NEW j \in Ingesters, fin'[j] # Idle
        PROVE  /\ summary'[fin'[j].run] = "sent" /\ fin'[j].run \notin Range(inbox'[j])
               /\ (fin[j].pc \in {"aggregate", "update"} => Pending(fin[j].run))'
               /\ (fin[j].pc \in {"resolve", "zadd", "hset"} =>
                     Recorded(fin[j].run, fin[j].result))'
               /\ fin'[j].pc \in {"zadd", "hset"} =>
                     \/ fin'[j].member = runs'[fin'[j].run].team
                     \/ fin'[j].run \in cut' /\ fin'[j].member = fin'[j].run
    <2>1. fin[j] # Idle /\ fin'[j].run = fin[j].run
      BY <1>3, RecordsApart
    <2>2. fin[j].pc \in {"aggregate", "update", "resolve", "zadd", "hset"}
      <3>1. fin[j] \in Fin  BY <2>1 DEF RowsInv, BaselineSound, TypeOK
      <3> QED  BY <3>1 DEF Fin
    <2>3. fin[j].run \in RunIds
      BY <2>2, FinResult
    <2>a. PICK k \in RunIds : k = fin[j].run
      BY <2>3
    <2>4. /\ summary[k] = "sent" /\ k \notin Range(inbox[j])
          /\ fin[j].pc \in {"aggregate", "update"} => Pending(k)
          /\ fin[j].pc \in {"resolve", "zadd", "hset"} => Recorded(k, fin[j].result)
          /\ fin[j].pc \in {"zadd", "hset"} =>
                \/ fin[j].member = runs[k].team
                \/ k \in cut /\ fin[j].member = k
      BY <2>2, <2>a, FinKnown
    <2>5. /\ Pending(k) => Pending(k)'
          /\ \A a : Recorded(k, a) =>
                /\ runs'[k] # NoRow
                /\ \/ runs'[k].status = "finished" /\ runs'[k].result = a
                   \/ unwritten'[k] = a
          /\ runs[k].status # "none" => runs'[k].team = runs[k].team
      BY <1>1, RecordsApart DEF Recorded
    <2>6. summary'[k] = "sent" /\ k \notin Range(inbox'[j])
      BY <1>2, <2>4
    <2>7. /\ fin'[j].pc \in {"aggregate", "update"} => fin[j].pc \in {"aggregate", "update"}
          /\ fin'[j].pc \in {"resolve", "zadd", "hset"} =>
                /\ fin[j].pc \in {"resolve", "zadd", "hset"}
                /\ fin'[j].result = fin[j].result
          /\ fin'[j].pc \in {"zadd", "hset"} =>
                \/ fin'[j].member = runs[k].team
                \/ k \in cut' /\ fin'[j].member = k
      BY <1>3, <2>4, <2>a
    <2>8. fin[j].pc \in {"resolve", "zadd", "hset"} => runs'[k].team = runs[k].team
      BY <2>4 DEF Recorded
    <2>9. (fin[j].pc \in {"aggregate", "update"} => Pending(fin[j].run))'
      BY <2>1, <2>4, <2>5, <2>7, <2>a DEF Pending
    <2>10. (fin[j].pc \in {"resolve", "zadd", "hset"} =>
              Recorded(fin[j].run, fin[j].result))'
      BY <2>1, <2>4, <2>5, <2>7, <2>a DEF Recorded
    <2> QED  BY <2>1, <2>6, <2>7, <2>8, <2>9, <2>10, <2>a
  <1> QED  BY <1>1, <1>2, <1>3 DEF FinalizingInv

\* With one ingester that is not reset, FinalizingInv is inductive relative to
\* RowsInv.
LEMMA FinalizingStep ==
    ASSUME \A x, y \in Ingesters : x = y, Resets = FALSE
    PROVE  RowsInv /\ FinalizingInv /\ [Next]_vars => FinalizingInv'
  <1> SUFFICES ASSUME RowsInv, FinalizingInv, [Next]_vars
               PROVE  FinalizingInv'
    OBVIOUS
  <1>0. /\ TypeOK
        /\ fin \in [Ingesters -> Fin \cup {Idle}]
        /\ \A i \in Ingesters : inbox[i] \in Seq(RunIds) /\ Range(inbox[i]) \subseteq RunIds
        /\ \A i \in Ingesters : fin[i] # Idle =>
              fin[i].pc \in {"aggregate", "update", "resolve", "zadd", "hset"}
    <2>1. TypeOK  BY DEF RowsInv, BaselineSound
    <2> QED  BY <2>1, RangeOfSeq, RecordsApart DEF TypeOK, Fin
  <1>1. ASSUME NEW k \in RunIds, NEW t \in Teams, InsertRun(k, t)
        PROVE  FinalizingInv'
    <2>1. /\ summary[k] = "none" /\ summary' = [summary EXCEPT ![k] = "due"]
          /\ inbox' = inbox /\ fin' = fin
          /\ runs'[k].status = "running" /\ \A x \in RunIds \ {k} : runs'[x] = runs[x]
          /\ unwritten' = unwritten /\ cut' = cut
      BY <1>0, <1>1 DEF InsertRun, TypeOK
    <2>2. \A x \in RunIds \ {k} : summary'[x] = summary[x]
      BY <1>0, <2>1 DEF TypeOK
    <2>3. \A i \in Ingesters : k \notin Range(inbox[i]) /\ (fin[i] # Idle => fin[i].run # k)
      BY <2>1 DEF FinalizingInv
    <2>4. \A i \in Ingesters : fin[i] # Idle => fin[i].run \in RunIds \ {k}
      BY <1>0, <2>3, FinResult
    <2>5. \A i \in Ingesters : Range(inbox[i]) \subseteq RunIds \ {k}
      BY <1>0, <2>3
    <2>6. unwritten[k] = NoAggregate
      BY <2>1 DEF FinalizingInv
    <2>7. \A x \in RunIds : Pending(x) \/ x = k => Pending(x)'
      BY <2>1, <2>6 DEF Pending
    <2>8. \A x \in RunIds \ {k} : \A a : Recorded(x, a) => Recorded(x, a)'
      BY <2>1 DEF Recorded
    <2>9. \A x \in RunIds : /\ x \notin cut' => unwritten'[x] = NoAggregate
                            /\ summary'[x] = "none" => unwritten'[x] = NoAggregate
                            /\ summary'[x] = "due" => Pending(x)'
      BY <2>1, <2>2, <2>7 DEF FinalizingInv
    <2>10. ASSUME NEW i \in Ingesters
           PROVE  /\ IsInjective(inbox[i])
                  /\ \A x \in Range(inbox[i]) : summary'[x] = "sent" /\ Pending(x)'
      BY <2>2, <2>5, <2>7 DEF FinalizingInv
    <2>11. ASSUME NEW i \in Ingesters, fin[i] # Idle
           PROVE  /\ summary'[fin[i].run] = "sent" /\ fin[i].run \notin Range(inbox[i])
                  /\ fin[i].pc \in {"aggregate", "update"} => Pending(fin[i].run)'
                  /\ fin[i].pc \in {"resolve", "zadd", "hset"} =>
                        Recorded(fin[i].run, fin[i].result)'
                  /\ fin[i].pc \in {"zadd", "hset"} =>
                        \/ fin[i].member = runs'[fin[i].run].team
                        \/ fin[i].run \in cut' /\ fin[i].member = fin[i].run
      BY <1>0, <2>1, <2>2, <2>4, <2>7, <2>8, <2>11 DEF FinalizingInv
    <2> QED  BY <2>1, <2>9, <2>10, <2>11 DEF FinalizingInv
  <1>2. ASSUME NEW k \in RunIds, PublishSummary(k)
        PROVE  FinalizingInv'
    <2>1. /\ summary[k] = "due" /\ summary' = [summary EXCEPT ![k] = "sent"]
          /\ \A i \in Ingesters : inbox'[i] = Append(inbox[i], k)
          /\ fin' = fin /\ runs' = runs /\ unwritten' = unwritten /\ cut' = cut
      BY <1>0, <1>2 DEF PublishSummary, TypeOK
    <2>2. /\ summary'[k] = "sent" /\ Pending(k)
          /\ \A x \in RunIds \ {k} : summary'[x] = summary[x]
      BY <1>0, <2>1 DEF TypeOK, FinalizingInv
    <2>3. \A i \in Ingesters : k \notin Range(inbox[i]) /\ (fin[i] # Idle => fin[i].run # k)
      BY <2>1 DEF FinalizingInv
    <2>4. \A i \in Ingesters : fin[i] # Idle => fin[i].run \in RunIds \ {k}
      BY <1>0, <2>3, FinResult
    <2>5. ASSUME NEW i \in Ingesters
          PROVE  /\ Range(inbox'[i]) = Range(inbox[i]) \cup {k}
                 /\ IsInjective(inbox'[i])
      <3>1. /\ inbox[i] \in Seq(RunIds) /\ k \notin Range(inbox[i])
            /\ inbox'[i] = Append(inbox[i], k)
        BY <1>0, <2>1, <2>3
      <3>2. IsInjective(inbox[i])
        BY DEF FinalizingInv
      <3>3. /\ Range(Append(inbox[i], k)) = Range(inbox[i]) \cup {k}
            /\ IsInjective(Append(inbox[i], k))
        BY <3>1, <3>2, AppendRange
      <3> QED  BY <3>1, <3>3
    <2>6. ASSUME NEW i \in Ingesters, NEW x \in Range(inbox'[i])
          PROVE  summary'[x] = "sent" /\ Pending(x)'
      <3>1. CASE x = k
        BY <2>1, <2>2, <3>1 DEF Pending
      <3>2. CASE x # k
        <4>1. x \in Range(inbox[i])  BY <2>5, <3>2
        <4>2. x \in RunIds \ {k}  BY <1>0, <3>2, <4>1
        <4> QED  BY <2>1, <2>2, <4>1, <4>2 DEF FinalizingInv, Pending
      <3> QED  BY <3>1, <3>2
    <2>7. ASSUME NEW x \in RunIds
          PROVE  /\ x \notin cut' => unwritten'[x] = NoAggregate
                 /\ summary'[x] = "none" => unwritten'[x] = NoAggregate
                 /\ summary'[x] = "due" => Pending(x)'
      BY <2>1, <2>2 DEF FinalizingInv, Pending
    <2>8. ASSUME NEW i \in Ingesters, fin[i] # Idle
          PROVE  summary'[fin[i].run] = "sent" /\ fin[i].run \notin Range(inbox'[i])
      BY <2>2, <2>4, <2>5, <2>8 DEF FinalizingInv
    <2> QED  BY <2>1, <2>5, <2>6, <2>7, <2>8 DEF FinalizingInv, Pending, Recorded
  <1>3. ASSUME NEW k \in RunIds, CheckBaseline(k)
        PROVE  FinalizingInv'
    BY <1>3, FinalizingFrame DEF CheckBaseline
  <1>4. ASSUME NEW k \in RunIds, NEW t \in Teams, SetBaseline(k, t)
        PROVE  FinalizingInv'
    <2>1. \A x \in RunIds : /\ runs'[x].status = runs[x].status
                            /\ runs[x] # NoRow =>
                                  /\ runs'[x] # NoRow
                                  /\ runs'[x].result = runs[x].result
                                  /\ runs'[x].team = runs[x].team
      BY <1>0, <1>4, FlaggedRow, RecordsApart DEF SetBaseline
    <2> QED  BY <1>4, <2>1, FinalizingFrame DEF SetBaseline
  <1>5. ASSUME NEW i \in Ingesters, Receive(i)
        PROVE  FinalizingInv'
    <2> DEFINE k == Head(inbox[i])
    <2>1. /\ inbox[i] # <<>> /\ inbox'[i] = Tail(inbox[i])
          /\ fin'[i].pc = "aggregate" /\ fin'[i].run = k
          /\ UNCHANGED <<runs, summary, unwritten, cut>>
          /\ \A j \in Ingesters : j = i
      BY <1>0, <1>5 DEF Receive, Advance, TypeOK
    <2>2. /\ k \in Range(inbox[i]) /\ k \notin Range(inbox'[i])
          /\ Range(inbox'[i]) \subseteq Range(inbox[i]) /\ IsInjective(inbox'[i])
      BY <1>0, <2>1, TailRange DEF FinalizingInv
    <2>3. summary[k] = "sent" /\ Pending(k)
      BY <2>2 DEF FinalizingInv
    <2> HIDE DEF k
    <2> QED  BY <2>1, <2>2, <2>3 DEF FinalizingInv, Pending
  <1>6. ASSUME NEW i \in Ingesters, Aggregate(i)
        PROVE  FinalizingInv'
    <2>1. /\ fin[i].pc = "aggregate" /\ fin[i] \in Fin
          /\ UNCHANGED <<runs, summary, inbox, unwritten>> /\ cut \subseteq cut'
      BY <1>6, FinResult DEF Aggregate, CutShort
    <2>2. \/ \E a \in Aggregates :
                fin' = [fin EXCEPT ![i] = [fin[i] EXCEPT !.pc = "update", !.result = a]]
          \/ fin' = [fin EXCEPT ![i] = Idle]
      BY <1>6 DEF Aggregate, Advance
    <2>3. CASE fin' = [fin EXCEPT ![i] = Idle]
      BY <1>0, <2>1, <2>3, FinalizingFrame
    <2>4. ASSUME NEW a \in Aggregates,
                 fin' = [fin EXCEPT ![i] = [fin[i] EXCEPT !.pc = "update", !.result = a]]
          PROVE  FinalizingInv'
      <3>1. fin'[i].pc = "update" /\ fin'[i].run = fin[i].run
        BY <1>0, <2>1, <2>4 DEF Fin
      <3>2. \A j \in Ingesters \ {i} : fin'[j] = fin[j]
        BY <1>0, <2>4
      <3> QED  BY <2>1, <3>1, <3>2, FinalizingFrame
    <2> QED  BY <2>2, <2>3, <2>4
  <1>7. ASSUME NEW i \in Ingesters, UpdateRun(i)
        PROVE  FinalizingInv'
    <2> DEFINE k == fin[i].run
               a == fin[i].result
    <2>1. /\ fin[i].pc = "update"
          /\ \/ runs' = Finished(k, a) /\ unwritten' = unwritten
             \/ /\ k \in cut' /\ runs' = runs
                /\ unwritten' = [unwritten EXCEPT ![k] = a]
          /\ cut \subseteq cut'
          /\ fin' = [fin EXCEPT ![i] = [fin[i] EXCEPT !.pc = "resolve"]]
          /\ UNCHANGED <<summary, inbox>>
          /\ \A j \in Ingesters : j = i
      BY <1>7 DEF UpdateRun, Advance, CutShort
    <2>2. /\ fin[i] \in Fin /\ k \in RunIds /\ a \in Aggregates
          /\ summary[k] = "sent" /\ k \notin Range(inbox[i])
          /\ Pending(k)
      BY <2>1, FinResult, FinKnown
    <2>3. fin'[i].pc = "resolve" /\ fin'[i].run = k /\ fin'[i].result = a
      BY <1>0, <2>1, <2>2, FinMoved
    <2> HIDE DEF k, a
    <2>4. /\ \/ runs'[k].status = "finished" /\ runs'[k].result = a
             \/ unwritten'[k] = a
          /\ runs'[k] # NoRow
          /\ \A x \in RunIds \ {k} : runs'[x] = runs[x] /\ unwritten'[x] = unwritten[x]
          /\ k \notin cut' => unwritten' = unwritten
      <3>1. CASE runs' = Finished(k, a) /\ unwritten' = unwritten
        BY <1>0, <2>2, <3>1, FinishedRow, RecordsApart DEF Pending
      <3>2. CASE /\ k \in cut' /\ runs' = runs
                 /\ unwritten' = [unwritten EXCEPT ![k] = a]
        BY <1>0, <2>2, <3>2, RecordsApart DEF TypeOK, Pending
      <3> QED  BY <2>1, <3>1, <3>2
    <2>5. ASSUME NEW x \in RunIds
          PROVE  /\ x \notin cut' => unwritten'[x] = NoAggregate
                 /\ summary'[x] = "none" => unwritten'[x] = NoAggregate
                 /\ summary'[x] = "due" => Pending(x)'
      BY <2>1, <2>2, <2>4 DEF FinalizingInv, Pending
    <2>6. /\ IsInjective(inbox'[i])
          /\ \A x \in Range(inbox'[i]) : summary'[x] = "sent" /\ Pending(x)'
      BY <1>0, <2>1, <2>2, <2>4 DEF FinalizingInv, Pending
    <2>7. Recorded(fin[i].run, fin[i].result)'
      BY <2>3, <2>4 DEF Recorded
    <2> QED  BY <2>1, <2>2, <2>3, <2>5, <2>6, <2>7 DEF FinalizingInv
  <1>8. ASSUME NEW i \in Ingesters, ResolveTeam(i)
        PROVE  FinalizingInv'
    <2>1. /\ fin[i].pc = "resolve" /\ UNCHANGED <<runs, summary, inbox, unwritten>>
          /\ fin[i] \in Fin /\ runs[fin[i].run] # NoRow /\ cut \subseteq cut'
      BY <1>8, FinResult, FinKnown, RecordsApart DEF ResolveTeam, Recorded, CutShort
    <2>2. PICK m \in Members :
            /\ \/ m = runs[fin[i].run].team
               \/ fin[i].run \in cut' /\ m = fin[i].run
            /\ fin' = [fin EXCEPT ![i] = [fin[i] EXCEPT !.pc = "zadd", !.member = m]]
      BY <1>8, <2>1 DEF ResolveTeam, Advance, CutShort
    <2>3. /\ fin'[i].pc = "zadd" /\ fin'[i].run = fin[i].run /\ fin'[i].member = m
          /\ fin'[i].result = fin[i].result
      BY <1>0, <2>1, <2>2 DEF Fin
    <2>4. \A j \in Ingesters \ {i} : fin'[j] = fin[j]
      BY <1>0, <2>2
    <2> QED  BY <2>1, <2>2, <2>3, <2>4, FinalizingFrame
  <1>9. ASSUME NEW i \in Ingesters, AddScore(i)
        PROVE  FinalizingInv'
    <2>1. /\ fin[i].pc = "zadd" /\ fin[i] \in Fin
          /\ UNCHANGED <<runs, summary, inbox, unwritten, cut>>
          /\ fin' = [fin EXCEPT ![i] = [fin[i] EXCEPT !.pc = "hset"]]
          /\ \/ fin[i].member = runs[fin[i].run].team
             \/ fin[i].run \in cut /\ fin[i].member = fin[i].run
      BY <1>9, FinResult, FinKnown DEF AddScore, Advance
    <2>2. /\ fin'[i].pc = "hset" /\ fin'[i].run = fin[i].run
          /\ fin'[i].member = fin[i].member /\ fin'[i].result = fin[i].result
      BY <1>0, <2>1, FinMoved
    <2>3. \A j \in Ingesters \ {i} : fin'[j] = fin[j]
      BY <1>0, <2>1
    <2> QED  BY <2>1, <2>2, <2>3, FinalizingFrame
  <1>10. ASSUME NEW i \in Ingesters, StoreMetrics(i) \/ Crash(i)
         PROVE  FinalizingInv'
    <2>1. /\ UNCHANGED <<runs, summary, unwritten>> /\ fin' = [fin EXCEPT ![i] = Idle]
          /\ inbox' = inbox \/ inbox' = [inbox EXCEPT ![i] = <<>>]
          /\ cut \subseteq cut'
      BY <1>10 DEF StoreMetrics, Crash, Advance, CutShort
    <2>2. \A j \in Ingesters : fin'[j] = fin[j] \/ fin'[j] = Idle
      BY <1>0, <2>1
    <2>3. \A j \in Ingesters : inbox'[j] = inbox[j] \/ inbox'[j] = <<>>
      BY <1>0, <2>1 DEF TypeOK
    <2> QED  BY <2>1, <2>2, <2>3, FinalizingFrame
  <1>11. CASE FlushRedis
    BY <1>11, FinalizingFrame DEF FlushRedis
  <1>12. CASE UNCHANGED vars
    BY <1>12, FinalizingFrame DEF vars
  <1> QED
    BY <1>1, <1>2, <1>3, <1>4, <1>5, <1>6, <1>7, <1>8, <1>9, <1>10, <1>11, <1>12
    DEF Next, Finalize, ResetPlatform

\* Nothing but a reset takes a run's team away, or what its finalisation has
\* recorded.
LEMMA FinishedKept ==
    ASSUME \A x, y \in Ingesters : x = y, Resets = FALSE,
           RowsInv, FinalizingInv, [Next]_vars
    PROVE  \A k \in RunIds :
              /\ runs[k].status = "finished" =>
                    runs'[k].status = "finished" /\ runs'[k].result = runs[k].result
              /\ runs[k] # NoRow => runs'[k] # NoRow /\ runs'[k].team = runs[k].team
              /\ unwritten[k] # NoAggregate => unwritten'[k] = unwritten[k]
  <1>0. TypeOK
    BY DEF RowsInv, BaselineSound
  <1> DEFINE Kept == \A k \in RunIds :
              /\ runs[k].status = "finished" =>
                    runs'[k].status = "finished" /\ runs'[k].result = runs[k].result
              /\ runs[k] # NoRow => runs'[k] # NoRow /\ runs'[k].team = runs[k].team
              /\ unwritten[k] # NoAggregate => unwritten'[k] = unwritten[k]
  <1>1. CASE runs' = runs /\ unwritten' = unwritten
    BY <1>1
  <1>2. ASSUME NEW k \in RunIds, NEW t \in Teams, InsertRun(k, t)
        PROVE  Kept
    BY <1>0, <1>2, RecordsApart DEF InsertRun, TypeOK
  <1>3. ASSUME NEW k \in RunIds, NEW t \in Teams, SetBaseline(k, t)
        PROVE  Kept
    BY <1>0, <1>3, FlaggedRow, RecordsApart DEF SetBaseline
  <1>4. ASSUME NEW i \in Ingesters, UpdateRun(i)
        PROVE  Kept
    <2>1. /\ fin[i].run \in RunIds /\ fin[i].result \in Aggregates
          /\ runs[fin[i].run].status = "running" /\ unwritten[fin[i].run] = NoAggregate
      BY <1>4, FinResult, FinKnown DEF UpdateRun, Pending
    <2>2. CASE runs' = Finished(fin[i].run, fin[i].result) /\ unwritten' = unwritten
      BY <1>0, <2>1, <2>2, FinishedRow, RecordsApart
    <2>3. CASE /\ runs' = runs
               /\ unwritten' = [unwritten EXCEPT ![fin[i].run] = fin[i].result]
      BY <1>0, <2>1, <2>3 DEF TypeOK
    <2> QED  BY <1>4, <2>2, <2>3 DEF UpdateRun
  <1> QED
    BY <1>1, <1>2, <1>3, <1>4
    DEF Next, vars, Finalize, PublishSummary, CheckBaseline, Receive, Aggregate,
        ResolveTeam, AddScore, StoreMetrics, Crash, ResetPlatform, FlushRedis

\* ScoresAccountedFor is inductive relative to what is known of the
\* finalisation.
LEMMA BoardStep ==
    ASSUME \A x, y \in Ingesters : x = y, Resets = FALSE
    PROVE  RowsInv /\ DerivableInv /\ [Next]_vars => ScoresAccountedFor'
  <1> SUFFICES ASSUME RowsInv, FinalizingInv, ScoresAccountedFor, [Next]_vars,
                      NEW t \in Teams, scores'[t] # NoScore
               PROVE  scores'[t] \in ScoresOf(t)' \cup UnwrittenOf(t)'
    BY DEF DerivableInv, ScoresAccountedFor
  <1>1. /\ ScoresOf(t) \subseteq ScoresOf(t)'
        /\ UnwrittenOf(t) \subseteq UnwrittenOf(t)'
    BY FinishedKept, ScoresGrow
  <1>2. t \in Members /\ scores \in [Members -> Nat \cup {NoScore}]
    BY DEF Members, RowsInv, BaselineSound, TypeOK
  <1>3. CASE scores' = scores
    BY <1>1, <1>3 DEF ScoresAccountedFor
  <1>4. ASSUME NEW i \in Ingesters, AddScore(i)
        PROVE  scores'[t] \in ScoresOf(t)' \cup UnwrittenOf(t)'
    <2> DEFINE k == fin[i].run
               s == ScoreOf[fin[i].result]
    <2>1. /\ k \in RunIds /\ fin[i].result \in Aggregates
          /\ Recorded(k, fin[i].result)
          /\ fin[i].member = runs[k].team \/ fin[i].member = k
      BY <1>4, FinResult, FinKnown DEF AddScore
    <2>2. fin[i].member = t => s \in ScoresOf(t) \cup UnwrittenOf(t)
      <3>1. ASSUME fin[i].member = t
            PROVE  runs[k].team = t
        BY <2>1, <3>1, MembersAssumption
      <3>2. CASE runs[k].status = "finished" /\ runs[k].result = fin[i].result
        BY <2>1, <3>1, <3>2 DEF ScoresOf
      <3>3. CASE unwritten[k] = fin[i].result
        BY <2>1, <3>1, <3>3, NoAggregateAssumption DEF UnwrittenOf, Recorded
      <3> QED  BY <2>1, <3>2, <3>3 DEF Recorded
    <2>3. \/ scores' = [scores EXCEPT ![fin[i].member] = IF s > @ THEN s ELSE @]
          \/ scores' = scores
      BY <1>4 DEF AddScore, ZAddGT
    <2> HIDE DEF s
    <2>4. scores'[t] = scores[t] \/ (fin[i].member = t /\ scores'[t] = s)
      BY <1>2, <2>3
    <2> QED  BY <1>1, <2>2, <2>4 DEF ScoresAccountedFor
  <1>5. CASE FlushRedis
    BY <1>2, <1>5 DEF FlushRedis
  <1> QED
    BY <1>3, <1>4, <1>5
    DEF Next, vars, Finalize, InsertRun, SetBaseline, PublishSummary, CheckBaseline,
        Receive, Aggregate, UpdateRun, ResolveTeam, StoreMetrics, Crash, ResetPlatform

\* DerivableInv holds throughout.
LEMMA DerivableInvariant ==
    ASSUME \A x, y \in Ingesters : x = y, Resets = FALSE
    PROVE  Spec => []DerivableInv
  <1>1. Init => DerivableInv
    BY EmptyRange, RecordsApart
    DEF Init, DerivableInv, FinalizingInv, ScoresAccountedFor, Members
  <1>2. RowsInv /\ DerivableInv /\ [Next]_vars => DerivableInv'
    BY FinalizingStep, BoardStep DEF DerivableInv
  <1> QED  BY <1>1, <1>2, RowsInvariant, PTL DEF Spec

\* With one ingester and no reset, a team's entry in Redis shows the score of
\* one of its finished runs, or of a run of its own whose UPDATE failed: at
\* every statement of finalizeRun, whatever the database or Redis refuse,
\* whatever Redis loses and wherever the ingester crashes.
THEOREM EveryScoreAccountedFor ==
    ASSUME \A x, y \in Ingesters : x = y, Resets = FALSE
    PROVE  Spec => []ScoresAccountedFor
  <1>1. DerivableInv => ScoresAccountedFor  BY DEF DerivableInv
  <1> QED  BY <1>1, DerivableInvariant, PTL

-----------------------------------------------------------------------------
(* The board that is served.                                               *)

\* ScoresArrive is inductive relative to what is known of the finalisation.
LEMMA ArriveStep ==
    ASSUME \A x, y \in Ingesters : x = y, Resets = FALSE
    PROVE  RowsInv /\ FinalizingInv /\ ScoresArrive /\ [Next]_vars => ScoresArrive'
  <1> SUFFICES ASSUME RowsInv, FinalizingInv, ScoresArrive, [Next]_vars,
                      intact', NEW k \in RunIds \ cut', runs'[k].status = "finished"
               PROVE  \/ scores'[runs'[k].team] >= ScoreOf[runs'[k].result]
                      \/ \E i \in Ingesters : /\ fin'[i].pc \in {"resolve", "zadd"}
                                              /\ fin'[i].run = k
    BY DEF ScoresArrive
  <1>0. /\ TypeOK /\ fin \in [Ingesters -> Fin \cup {Idle}]
        /\ scores \in [Members -> Nat \cup {NoScore}]
        /\ \A m \in Members : scores[m] \in Int
    BY DEF RowsInv, BaselineSound, TypeOK, NoScore
  <1>1. intact /\ ~FlushRedis /\ k \in RunIds /\ k \notin cut
    <2>1. (intact' = intact \/ intact' = FALSE) /\ cut \subseteq cut'
      BY DEF Next, vars, Finalize, InsertRun, SetBaseline, PublishSummary, CheckBaseline,
             Receive, Aggregate, UpdateRun, ResolveTeam, AddScore, StoreMetrics, Crash,
             ResetPlatform, FlushRedis, CutShort
    <2> QED  BY <2>1 DEF FlushRedis
  <1> DEFINE t == runs[k].team
             s == ScoreOf[runs[k].result]
  <1>2. CASE runs[k].status # "finished"
    <2>1. PICK i \in Ingesters : UpdateRun(i)
      <3>1. runs' # runs
        BY <1>2
      <3>2. ASSUME NEW x \in RunIds, NEW y \in Teams, InsertRun(x, y)
            PROVE  FALSE
        BY <1>0, <1>2, <3>2 DEF InsertRun, TypeOK
      <3>3. ASSUME NEW x \in RunIds, NEW y \in Teams, SetBaseline(x, y)
            PROVE  FALSE
        BY <1>0, <1>2, <3>3, FlaggedRow, RecordsApart DEF SetBaseline
      <3> QED
        BY <3>1, <3>2, <3>3
        DEF Next, vars, Finalize, PublishSummary, CheckBaseline, Receive, Aggregate,
            ResolveTeam, AddScore, StoreMetrics, Crash, ResetPlatform, FlushRedis
    <2>2. /\ fin[i].run \in RunIds /\ fin[i].result \in Aggregates /\ fin[i] \in Fin
          /\ runs' = Finished(fin[i].run, fin[i].result) \/ runs' = runs
          /\ fin' = [fin EXCEPT ![i] = [fin[i] EXCEPT !.pc = "resolve"]]
      BY <2>1, FinResult DEF UpdateRun, Advance
    <2>3. fin[i].run = k
      BY <1>0, <1>2, <2>2, FinishedRow
    <2>4. fin'[i].pc = "resolve" /\ fin'[i].run = k
      BY <1>0, <2>2, <2>3, FinMoved
    <2> QED  BY <2>4
  <1>3. CASE runs[k].status = "finished"
    <2>1. /\ runs'[k].team = t /\ runs'[k].result = runs[k].result
          /\ t \in Members /\ runs[k].result \in Aggregates /\ s \in Nat
      <3>1. runs[k] \in Row  BY <1>0, <1>3, RecordsApart DEF TypeOK
      <3>2. t \in Members  BY <3>1 DEF Row, Members
      <3>3. runs[k].result \in Aggregates
        BY <1>3, <3>1, RecordsApart DEF RowsInv
      <3> QED  BY <1>1, <1>3, <3>2, <3>3, FinishedKept, RecordsApart, ScoreOfAssumption
    <2> HIDE DEF t, s
    <2>2. scores[t] >= s => scores'[t] >= s
      <3>1. CASE scores' = scores
        BY <3>1
      <3>2. ASSUME NEW i \in Ingesters, AddScore(i)
            PROVE  scores'[t] >= scores[t]
        <4> DEFINE a == ScoreOf[fin[i].result]
        <4>1. /\ a \in Nat /\ fin[i].member \in Members
              /\ \/ scores' = [scores EXCEPT ![fin[i].member] = IF a > @ THEN a ELSE @]
                 \/ scores' = scores
          BY <3>2, FinResult DEF AddScore, ZAddGT
        <4> HIDE DEF a
        <4> QED  BY <1>0, <2>1, <4>1
      <3>3. ASSUME NEW i \in Ingesters, AddScore(i), scores[t] >= s
            PROVE  scores'[t] >= s
        <4>1. scores'[t] \in Int
          <5>1. /\ ScoreOf[fin[i].result] \in Int /\ fin[i].member \in Members
            BY <3>3, FinResult DEF AddScore
          <5> QED  BY <1>0, <2>1, <3>3, <5>1 DEF AddScore, ZAddGT
        <4> QED  BY <1>0, <2>1, <3>2, <3>3, <4>1
      <3> QED
        BY <1>1, <3>1, <3>3
        DEF Next, vars, Finalize, InsertRun, SetBaseline, PublishSummary, CheckBaseline,
            Receive, Aggregate, UpdateRun, ResolveTeam, StoreMetrics, Crash, ResetPlatform
    <2>3. CASE scores[t] >= s
      BY <2>1, <2>2, <2>3 DEF s
    <2>4. ASSUME NEW i \in Ingesters, fin[i].pc \in {"resolve", "zadd"}, fin[i].run = k
          PROVE  \/ scores'[t] >= s
                 \/ fin'[i].pc \in {"resolve", "zadd"} /\ fin'[i].run = k
      <3>0. unwritten[k] = NoAggregate
        BY <1>1 DEF FinalizingInv
      <3>1. /\ fin[i] \in Fin /\ runs[k].result = fin[i].result
            /\ fin[i].pc = "zadd" => fin[i].member = t
        BY <1>1, <2>4, <3>0, FinKnown, FinResult, NoAggregateAssumption DEF t, Recorded
      <3>2. CASE fin' = fin
        BY <2>4, <3>2
      <3>3. CASE ResolveTeam(i)
        <4>1. PICK m \in Members :
                fin' = [fin EXCEPT ![i] = [fin[i] EXCEPT !.pc = "zadd", !.member = m]]
          BY <3>3 DEF ResolveTeam, Advance
        <4> QED  BY <1>0, <2>4, <3>1, <4>1 DEF Fin
      <3>4. CASE AddScore(i)
        <4>1. fin[i].member = t
          BY <3>1, <3>4 DEF AddScore
        <4>2. scores' = [scores EXCEPT ![t] = IF s > @ THEN s ELSE @]
          BY <3>1, <3>4, <4>1 DEF AddScore, ZAddGT, s
        <4> QED  BY <1>0, <2>1, <4>2
      <3>5. \A j \in Ingesters : j = i /\ ~Crash(j)
        BY <2>4, RecordsApart DEF Crash, CutShort
      <3>6. ~Receive(i) /\ ~Aggregate(i) /\ ~UpdateRun(i) /\ ~StoreMetrics(i)
        BY <2>4, RecordsApart DEF Receive, Aggregate, UpdateRun, StoreMetrics
      <3> QED
        BY <3>2, <3>3, <3>4, <3>5, <3>6
        DEF Next, vars, Finalize, InsertRun, SetBaseline, PublishSummary, CheckBaseline,
            ResetPlatform, FlushRedis
    <2> QED
      BY <1>1, <1>3, <2>1, <2>3, <2>4 DEF ScoresArrive, t, s
  <1> QED  BY <1>2, <1>3

\* Once every score has arrived, both paths of the handler give the same.
LEMMA BestIsServed == RowsInv /\ DerivableInv /\ ScoresArrive => ServedBoardIsBest
  <1> SUFFICES ASSUME RowsInv, DerivableInv, ScoresArrive, Settled, intact,
                      NEW t \in Teams, RunsOf(t) \cap cut = {}, Cached
               PROVE  Served(t) = FromPostgres(t)
    BY DEF ServedBoardIsBest, Served
  <1>0. scores[t] # NoScore => scores[t] \in ScoresOf(t)
    <2>1. UnwrittenOf(t) = {}
      BY DEF DerivableInv, FinalizingInv, UnwrittenOf, RunsOf
    <2> QED  BY <2>1 DEF DerivableInv, ScoresAccountedFor
  <1>1. t \in Members /\ scores[t] \in Nat \cup {NoScore}
    BY DEF RowsInv, BaselineSound, TypeOK, Members
  <1>2. ASSUME NEW x \in ScoresOf(t)
        PROVE  x \in Nat /\ x <= scores[t]
    <2>1. PICK k \in RunIds : /\ runs[k].status = "finished" /\ runs[k].team = t
                              /\ x = ScoreOf[runs[k].result]
      BY <1>2 DEF ScoresOf
    <2>2. runs[k].result \in Aggregates
      BY <2>1, RecordsApart DEF RowsInv
    <2>3. scores[t] >= x
      BY <2>1, RecordsApart DEF ScoresArrive, Settled, RunsOf
    <2> QED  BY <1>1, <2>1, <2>2, <2>3, ScoreOfAssumption DEF NoScore
  <1>3. CASE scores[t] = NoScore
    <2>1. ScoresOf(t) = {}
      BY <1>2, <1>3 DEF NoScore
    <2> QED  BY <1>3, <2>1 DEF Served, FromPostgres
  <1>4. CASE scores[t] # NoScore
    <2> DEFINE Best(s) == \A x \in ScoresOf(t) : x <= s
               c == CHOOSE s \in ScoresOf(t) : Best(s)
    <2>1. scores[t] \in ScoresOf(t) /\ Best(scores[t])
      BY <1>0, <1>2, <1>4
    <2>2. c \in ScoresOf(t) /\ Best(c)
      BY <2>1
    <2>3. c <= scores[t] /\ scores[t] <= c /\ c \in Nat /\ scores[t] \in Nat
      BY <1>2, <2>1, <2>2
    <2>4. c = scores[t]
      BY <2>3
    <2>5. FromPostgres(t) = c
      BY <2>1 DEF FromPostgres
    <2> QED  BY <1>4, <2>4, <2>5 DEF Served
  <1> QED  BY <1>3, <1>4

\* With one ingester and no reset, the board served between finalisations is the
\* best finished run of every team, by either path, until Redis loses or refuses
\* something: a team is excused only when a statement on one of its own runs
\* failed, or the ingester died with it.
THEOREM ServedIsBest ==
    ASSUME \A x, y \in Ingesters : x = y, Resets = FALSE
    PROVE  Spec => []ServedBoardIsBest
  <1>1. Init => ScoresArrive
    BY RecordsApart DEF Init, ScoresArrive
  <1>2. RowsInv /\ DerivableInv /\ ScoresArrive /\ [Next]_vars => ScoresArrive'
    BY ArriveStep DEF DerivableInv
  <1>3. Spec => []DerivableInv
    BY DerivableInvariant
  <1> QED  BY <1>1, <1>2, <1>3, BestIsServed, RowsInvariant, PTL DEF Spec

================================================================================
