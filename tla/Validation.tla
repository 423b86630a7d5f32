------------------------------ MODULE Validation ------------------------------
(***************************************************************************)
(* Everything that posts orders to one deployed engine: the correctness    *)
(* oracle (validator.go), the synthetic bots (bot.go) and the market-data  *)
(* replay (replay.go).  The row says "deployed" before the oracle runs, so *)
(* runs may start while its ten orders are under way.                      *)
(*                                                                         *)
(* Each sender works alone: it sends an order, waits for the answer or for *)
(* its timeout, and goes on.  An order whose sender gave up may be lost or *)
(* may still reach the engine, behind orders sent after it.  The engine is *)
(* the developer's: it executes whole orders in some order, as the         *)
(* contract OracleBook says, or deviates in one way (Style).               *)
(*                                                                         *)
(* A sender is <<run, client>>; the oracle is OracleSender.  sent counts   *)
(* the orders of a sender: it is the oracle's position in the scenario,    *)
(* the bot's nextOID and, for the replay, its pass and line in the file.   *)
(*                                                                         *)
(* VInit, VNext, VSpec and VTypeOK are this module's, so that its proofs   *)
(* can stand beside those about Engine.                                    *)
(***************************************************************************)
EXTENDS ReferenceBook, FiniteSets

CONSTANTS
  Runs, Bots,    \* runs on this engine and the bot ids of each
  Profiles,      \* "bots", "replay": what a run may send
  BotOrders,     \* orders a bot draws: [side, type, px, qty, back]
  PerBot,        \* bound on the orders of a bot
  Lines,         \* bound on the lines a replay stream reads
  Timeouts,      \* bound on the oracle's orders that time out one by one
  Pending,       \* bound on the orders in flight when a bot sends
  File,          \* the replay file: [etype, oid, size, px, dir]
  Offset,        \* added to the file's ids on every further pass
  Styles,        \* ways the engine may behave
  Faults         \* "timeout", "expire" (the deadline), "stop" (the container)

\* The file is a trading day: its new orders have a size and cost a cent at
\* least.  Nothing is said of their ids: the replay does not look at them.
TradingDay ==
  /\ File # <<>> /\ Offset \in Nat \ {0}
  /\ File \in Seq([etype : Int, oid : Int, size : Int, px : Int, dir : Int])
  /\ \A k \in DOMAIN File : File[k].etype = 1 => File[k].size > 0 /\ File[k].px >= 100

\* What the bots draw from, and the bounds.
SoundDraws ==
  /\ PerBot \in Nat /\ Lines \in Nat
  /\ \A t \in BotOrders : /\ t.type \in {"limit", "market", "cancel"}
                          /\ t.side \in Sides /\ t.back \in Int
                          /\ t.px \in Nat \ {0} /\ t.qty \in Nat \ {0}

ASSUME FileAssumption == TradingDay
ASSUME BotsAssumption == SoundDraws

VARIABLES
  style,     \* how this developer's engine behaves
  engine,    \* [up, book, seen]
  inflight,  \* requests not executed yet: [from, nth, order]
  sender,    \* [pc, sent] of every sender
  profile,   \* [Runs -> "none", a profile or "over"]
  oracle,    \* [cases, expired]
  refused,   \* <<sender, client, id>>: turned down as a duplicate
  trace,     \* while nobody else traded: the scenario orders as executed
  foreign    \* did the engine execute a bot's order during the validation?

vvars == <<style, engine, inflight, sender, profile, oracle, refused, trace, foreign>>

ReplayClient == 9000
OracleSender == <<"oracle", 0>>
Senders == {OracleSender} \cup (Runs \X (Bots \cup {ReplayClient}))

Scenario ==
  LET O(i, c, s, t, p, q) == [client |-> c, id |-> i, side |-> s, type |-> t,
                              px |-> p, qty |-> q, target |-> 0]
  IN  << O(1, 1, "sell", "limit", 10000, 10),
         O(2, 1, "sell", "limit", 10010, 5),
         O(3, 2, "buy", "limit", 9990, 4),
         O(4, 2, "buy", "limit", 10000, 6),
         O(5, 3, "buy", "limit", 10005, 8),
         O(6, 3, "buy", "market", 0, 3),
         [O(7, 1, "", "cancel", 0, 0) EXCEPT !.target = 2],
         O(8, 4, "buy", "limit", 10010, 5),
         O(9, 4, "sell", "limit", 10005, 2),
         O(10, 5, "sell", "market", 0, 100) >>

\* What the oracle's own book fills of each order of the scenario; Expected
\* is that book and the fills after the first n of them.
Turn(acc, o) ==
  LET x == Apply(acc.book, o)
  IN  [book |-> x.book, fills |-> Append(acc.fills, x.filled)]

Expected(n) ==
  FoldLeft(Turn, [book |-> EmptyBook, fills |-> <<>>], SubSeq(Scenario, 1, n))

ExpectedFills == Expected(Len(Scenario)).fills

-----------------------------------------------------------------------------
(* The engine under test *)

\* The developer's engine.  Apart from the reference: one that never fills,
\* one that ignores cancels, and one that takes the worst price within the
\* limit first.
Outcome(b, o) ==
  LET worst == Fill(o, Reverse(b[Opposite(o.side)]))
  IN  CASE style = "deaf" -> [book |-> b, filled |-> 0]
        [] style = "keeps" /\ o.type = "cancel" -> [book |-> b, filled |-> 0]
        [] style = "worst first" /\ o.type # "cancel" /\ worst.rem = 0 ->
             [book |-> [b EXCEPT ![Opposite(o.side)] = Reverse(worst.left)],
              filled |-> o.qty]
        [] OTHER -> Apply(b, o)

\* seenIDs: every id a client used, cancels apart.
Key(o) == <<o.client, o.id>>
SeenBefore(o) == o.type # "cancel" /\ Key(o) \in engine.seen

-----------------------------------------------------------------------------
(* What the senders send *)

\* nextOID.Add(1): the ids of a bot's orders count from 1, whatever became of
\* the earlier ones.
NextId(s) == sender[s].sent + 1

BotOrder(s, t) ==
  [client |-> s[2], id |-> NextId(s), side |-> t.side, type |-> t.type,
   px |-> t.px, qty |-> t.qty, target |-> NextId(s) - t.back]

Line(n) == File[((n - 1) % Len(File)) + 1]

\* Fault: every pass sends the ids of the file.
UnshiftedId(n) == Line(n).oid

\* Every pass over the file shifts its ids: "keep ids unique across passes".
ReplayId(n) == Line(n).oid + Offset * ((n - 1) \div Len(File))

\* Only new orders and cancels of the file are sent; prices are $*10000.
Replayed(n) == Line(n).etype \in {1, 2, 3}

ReplayOrder(n) ==
  [client |-> ReplayClient, id |-> ReplayId(n),
   side   |-> IF Line(n).etype = 1 THEN IF Line(n).dir = 1 THEN "buy" ELSE "sell" ELSE "",
   type   |-> IF Line(n).etype = 1 THEN "limit" ELSE "cancel",
   px     |-> Line(n).px \div 100, qty |-> Line(n).size, target |-> ReplayId(n)]

\* What s may send next.
Offers(s) ==
  LET n == sender[s].sent + 1
  IN  IF s = OracleSender
      THEN {Scenario[k] : k \in {n} \cap DOMAIN Scenario}
      ELSE IF s[2] = ReplayClient
      THEN {ReplayOrder(k) : k \in {m \in {n} \cap 1 .. Lines :
                                     Replayed(m) /\ profile[s[1]] = "replay"}}
      ELSE {BotOrder(s, t) : t \in {u \in BotOrders :
                                     n <= PerBot /\ profile[s[1]] = "bots"}}

Cases == oracle.cases
Passed == Cardinality({k \in DOMAIN Cases : Cases[k].pass})
Validated == sender[OracleSender].pc = "done"

-----------------------------------------------------------------------------
VInit ==
  /\ style \in Styles
  /\ engine = [up |-> TRUE, book |-> EmptyBook, seen |-> {}]
  /\ inflight = {}
  /\ sender = [s \in Senders |-> [pc |-> "idle", sent |-> 0]]
  /\ profile = [r \in Runs |-> "none"]
  /\ oracle = [cases |-> <<>>, expired |-> FALSE]
  /\ refused = {}
  /\ trace = <<>>
  /\ foreign = FALSE

\* A run is started on the deployed submission.
StartRun(r, p) ==
  /\ profile[r] = "none"
  /\ profile' = [profile EXCEPT ![r] = p]
  /\ UNCHANGED <<style, engine, inflight, sender, oracle, refused, trace, foreign>>

\* The run's duration is over: its senders send nothing more.  A replay whose
\* file cannot be opened ends before that.
EndRun(r) ==
  /\ profile[r] \in Profiles
  /\ profile' = [profile EXCEPT ![r] = "over"]
  /\ UNCHANGED <<style, engine, inflight, sender, oracle, refused, trace, foreign>>

\* After the summary of a run the gateway stops the container.
StopEngine ==
  /\ "stop" \in Faults /\ engine.up
  /\ \E r \in Runs : /\ profile[r] = "over"
                     /\ \A s \in Senders : s[1] = r => sender[s].pc # "wait"
  /\ engine' = [engine EXCEPT !.up = FALSE]
  /\ inflight' = {}
  /\ UNCHANGED <<style, sender, profile, oracle, refused, trace, foreign>>

Send(s, o) ==
  /\ sender[s].pc = "idle"
  /\ o \in Offers(s)
  /\ engine.up /\ (s = OracleSender => ~oracle.expired)
  /\ s # OracleSender => Cardinality(inflight) < Pending
  /\ inflight' = inflight \cup {[from |-> s, nth |-> NextId(s), order |-> o]}
  /\ sender' = [sender EXCEPT ![s] = [pc |-> "wait", sent |-> @.sent + 1]]
  /\ UNCHANGED <<style, engine, profile, oracle, refused, trace, foreign>>

\* Fault: an order that was not answered counts as one that filled nothing.
SilenceIsZero(n, filled, ok) ==
  [expected |-> ExpectedFills[n], reachable |-> ok, pass |-> filled = ExpectedFills[n]]

\* Fault: a case passes when the engine answered.
AnyAnswer(n, filled, ok) == [expected |-> ExpectedFills[n], reachable |-> ok, pass |-> ok]

\* Fault: the fill is compared with that expected of the order before.
CaseBehind(n, filled, ok) ==
  [expected |-> ExpectedFills[n], reachable |-> ok,
   pass |-> ok /\ filled = ExpectedFills[Max({1, n - 1})]]

\* A case passes when the engine answered and reported the fill of the
\* oracle's own book.
Case(n, filled, ok) ==
  [expected |-> ExpectedFills[n], reachable |-> ok,
   pass |-> ok /\ filled = ExpectedFills[n]]


\* The result of submit ends one turn of the oracle's loop; of a bot's order
\* only a telemetry sample is left.
Judged(s, filled, ok) ==
  oracle' = IF s = OracleSender
            THEN [oracle EXCEPT !.cases = Append(@, Case(Len(@) + 1, filled, ok))]
            ELSE oracle

Idles(s) == [sender EXCEPT ![s] = [pc |-> "idle", sent |-> @.sent]]

\* The container is gone or the deployment's context has ended: the request
\* fails at once.  The order counts as sent.
Unreachable(s, o) ==
  /\ sender[s].pc = "idle"
  /\ o \in Offers(s)
  /\ ~engine.up \/ (s = OracleSender /\ oracle.expired)
  /\ sender' = [sender EXCEPT ![s].sent = @ + 1]
  /\ Judged(s, 0, FALSE)
  /\ UNCHANGED <<style, engine, inflight, profile, refused, trace, foreign>>

\* An event of the file that the replay does not send.
SkipLine(s) ==
  /\ sender[s].pc = "idle" /\ s[2] = ReplayClient
  /\ profile[s[1]] = "replay"
  /\ sender[s].sent < Lines /\ ~Replayed(sender[s].sent + 1)
  /\ sender' = [sender EXCEPT ![s].sent = @ + 1]
  /\ UNCHANGED <<style, engine, inflight, profile, oracle, refused, trace, foreign>>

\* The engine goroutine executes one of the orders that arrived and answers
\* its sender, if that one still waits on this request.
Execute(r) ==
  LET o == r.order
      waits == sender[r.from].pc = "wait" /\ sender[r.from].sent = r.nth
      x == IF SeenBefore(o) THEN [book |-> engine.book, filled |-> 0]
           ELSE Outcome(engine.book, o)
  IN  /\ r \in inflight /\ engine.up
      /\ inflight' = inflight \ {r}
      /\ engine' = [engine EXCEPT !.book = x.book,
                      !.seen = IF o.type = "cancel" THEN @ ELSE @ \cup {Key(o)}]
      /\ refused' = IF SeenBefore(o) THEN refused \cup {<<r.from, o.client, o.id>>}
                    ELSE refused
      /\ foreign' = (foreign \/ (r.from # OracleSender /\ ~Validated))
      /\ trace' = IF foreign' THEN <<>>
                  ELSE IF r.from = OracleSender THEN Append(trace, o.id) ELSE trace
      /\ IF waits
         THEN /\ sender' = Idles(r.from)
              /\ Judged(r.from, x.filled, TRUE)
         ELSE UNCHANGED <<sender, oracle>>
      /\ UNCHANGED <<style, profile>>

\* Fault: the oracle's request has neither a timeout nor a context.
OverdueIfRefused(s) == ~engine.up \/ (s # OracleSender /\ "timeout" \in Faults)

\* The client's timeout (3 s for the oracle, 500 ms for bots), the end of the
\* deployment's context, or a container that went away.
Overdue(s) ==
  \/ ~engine.up
  \/ s = OracleSender /\ oracle.expired
  \/ /\ "timeout" \in Faults
     /\ s = OracleSender => Len(SelectSeq(Cases, LAMBDA c : ~c.reachable)) < Timeouts

\* The order of a sender that gave up stays in flight: it may be executed
\* later, or never, when it was lost on its way.
GiveUp(s) ==
  /\ sender[s].pc = "wait" /\ Overdue(s)
  /\ sender' = Idles(s)
  /\ Judged(s, 0, FALSE)
  /\ UNCHANGED <<style, engine, inflight, profile, refused, trace, foreign>>

\* The five minutes of buildAndDeploy are over.
Expire ==
  /\ "expire" \in Faults /\ ~oracle.expired /\ ~Validated
  /\ oracle' = [oracle EXCEPT !.expired = TRUE]
  /\ UNCHANGED <<style, engine, inflight, sender, profile, refused, trace, foreign>>

\* The loop over the scenario is through: Validate returns its result.
Report ==
  /\ sender[OracleSender].pc = "idle"
  /\ sender[OracleSender].sent = Len(Scenario)
  /\ sender' = [sender EXCEPT ![OracleSender].pc = "done"]
  /\ UNCHANGED <<style, engine, inflight, profile, oracle, refused, trace, foreign>>

Attempt(s) == \E o \in Offers(s) : Send(s, o) \/ Unreachable(s, o)

VNext ==
  \/ \E r \in Runs : (\E p \in Profiles : StartRun(r, p)) \/ EndRun(r)
  \/ \E s \in Senders : Attempt(s) \/ SkipLine(s) \/ GiveUp(s)
  \/ \E r \in inflight : Execute(r)
  \/ StopEngine \/ Expire \/ Report

VSpec == VInit /\ [][VNext]_vvars

\* The oracle's loop runs on, its HTTP client's timeout fires and so does the
\* deadline of its context; the engine owes nothing.
FairSpec == VSpec /\ WF_vvars(Attempt(OracleSender)) /\ WF_vvars(Report)
                  /\ WF_vvars(GiveUp(OracleSender)) /\ WF_vvars(Expire)

-----------------------------------------------------------------------------
(* Properties *)

VTypeOK ==
  /\ \A s \in Sides : \A k \in DOMAIN engine.book[s] : engine.book[s][k].qty \in Nat \ {0}
  /\ \A r \in inflight : r.from \in Senders /\ sender[r.from].sent > 0
  /\ \A s \in Senders : /\ sender[s].pc \in {"idle", "wait", "done"}
                        /\ sender[s].sent \in 0 .. Max({Len(Scenario), PerBot, Lines})
  /\ Len(Cases) <= Len(Scenario)

\* The fills the comment on scenario and TestOracleScenarioFills write down; with
\* the types of the variables.
Documented == <<0, 0, 0, 6, 4, 3, 0, 0, 2, 11>>
DocumentedFills == VTypeOK /\ \A k \in DOMAIN Cases : Cases[k].expected = Documented[k]

\* An engine that does what the reference book does scores 100 ("A perfectly
\* correct engine must score 100") as long as every order of the oracle was
\* answered and nobody else traded meanwhile.
Undisturbed == ~foreign /\ \A k \in DOMAIN Cases : Cases[k].reachable
CorrectEngineScoresFull ==
  Validated /\ style = "reference" /\ Undisturbed => Passed = Len(Scenario)

\* The other way round: with no other orders about, a full score means the
\* engine executed the whole scenario in its order; a lost or late order
\* never goes unnoticed.
FullScoreMeansInOrder ==
  Validated /\ ~foreign /\ Passed = Len(Scenario) => trace = [k \in 1 .. 10 |-> k]

\* An engine that ignores cancels loses points; one that never fills gets at
\* most half, whatever is lost or disturbed (TestValidate_BrokenEngineCaught).
BrokenEngineCaught ==
  /\ Validated /\ style = "deaf" => Passed <= 5
  /\ Validated /\ style = "keeps" /\ ~foreign => Passed < Len(Scenario)

\* The <<client, id>> pairs s has sent so far.
Sent(s) ==
  IF s = OracleSender
  THEN {Key(Scenario[n]) : n \in 1 .. sender[s].sent}
  ELSE {<<s[2], IF s[2] = ReplayClient THEN ReplayId(n) ELSE n>> : n \in 1 .. sender[s].sent}

\* Two new orders of the file come under the id, each on some pass: the passes
\* move ids up by multiples of Offset, whatever ids the file has.
Clash(id) ==
  \E j, k \in DOMAIN File :
     /\ j # k /\ File[j].etype = 1 /\ File[k].etype = 1
     /\ \A x \in {File[j].oid, File[k].oid} : x <= id /\ x % Offset = id % Offset

\* Another sender than that of the order used its client and id.
ReusedByAnother(x) == \E s \in Senders \ {x[1]} : <<x[2], x[3]>> \in Sent(s)

\* Seen from one sender its ids are fresh: the engine turns an order down as a
\* duplicate only when another run on the same engine, or the oracle, used
\* the same client and id before, or when it comes from a replay whose file
\* has two new orders that the passes bring under this one id.
RefusedOnlyIfReused ==
  \A x \in refused : ReusedByAnother(x) \/ (x[1][2] = ReplayClient /\ Clash(x[3]))

-----------------------------------------------------------------------------
(* The invariants that carry the proofs *)

\* Where the oracle stands in its loop: one case per order it is done with.
LoopInv ==
  LET o == sender[OracleSender]
      n == Len(Cases)
  IN  /\ \A r \in inflight :
           r = [from |-> r.from, nth |-> r.nth, order |-> r.order] /\ r.from \in Senders
      /\ DOMAIN sender = Senders
      /\ \A s \in Senders :
           sender[s] = [pc |-> sender[s].pc, sent |-> sender[s].sent] /\ sender[s].sent \in Nat
      /\ oracle = [cases |-> Cases, expired |-> oracle.expired]
      /\ engine = [up |-> engine.up, book |-> engine.book, seen |-> engine.seen]
      /\ Cases \in Seq([expected : {ExpectedFills[k] : k \in DOMAIN Scenario},
                        reachable : BOOLEAN, pass : BOOLEAN])
      /\ o.pc \in {"idle", "wait", "done"} /\ n <= Len(Scenario)
      /\ o.pc = "wait" => n < Len(Scenario) /\ o.sent = n + 1
      /\ o.pc # "wait" => o.sent = n
      /\ o.pc = "done" => n = Len(Scenario)
      /\ \A k \in 1 .. n : /\ Cases[k].expected = ExpectedFills[k]
                           /\ Cases[k].pass => Cases[k].reachable
                           /\ Cases[k].pass /\ style = "deaf" => ExpectedFills[k] = 0

\* While the oracle is alone and answered, the engine has executed the orders
\* up to the one under way, in their order.  One that ignores cancels answers
\* the eighth order with the fill of the one the seventh should have removed.
AloneInv ==
  Undisturbed =>
    LET n == Len(Cases)
    IN  /\ \A r \in inflight :
             r.from = OracleSender =>
               /\ sender[OracleSender].pc = "wait"
               /\ r.nth = sender[OracleSender].sent /\ r.order = Scenario[r.nth]
        /\ trace = [k \in 1 .. n |-> k]
        /\ ~Validated => engine.seen \subseteq {Key(Scenario[k]) : k \in 1 .. n}
        /\ style = "reference" =>
             /\ \A k \in 1 .. n : Cases[k].pass
             /\ ~Validated => engine.book = Expected(n).book
        /\ style = "keeps" =>
             /\ n <= 7 /\ ~Validated => engine.book = Expected(Min({n, 6})).book
             /\ n >= 8 => ~Cases[8].pass

\* The <<client, id>> pairs of the orders s sent, cancels of the file apart.
Used(s) ==
  IF s = OracleSender THEN Sent(s)
  ELSE {<<s[2], IF s[2] = ReplayClient THEN ReplayId(n) ELSE n>> :
          n \in {m \in 1 .. sender[s].sent : s[2] = ReplayClient => Line(m).etype = 1}}

\* What the engine has seen was sent; a sender's new orders in flight differ,
\* and one the engine would turn down was sent by another as well, unless the
\* file has its id twice.
New(r) == r.order.type # "cancel"
Clashes(s, x) == s[2] = ReplayClient /\ Clash(x[2])
FreshInv ==
  /\ engine.seen \subseteq UNION {Used(s) : s \in Senders}
  /\ \A r \in inflight : New(r) => Key(r.order) \in Used(r.from)
  /\ \A q, r \in inflight :
       New(q) /\ New(r) /\ q.from = r.from /\ Key(q.order) = Key(r.order) =>
         q = r \/ Clashes(r.from, Key(r.order))
  /\ \A r \in inflight : New(r) /\ Key(r.order) \in engine.seen =>
       \/ \E s \in Senders \ {r.from} : Key(r.order) \in Used(s)
       \/ Clashes(r.from, Key(r.order))
  /\ \A x \in refused : \/ \E s \in Senders \ {x[1]} : <<x[2], x[3]>> \in Used(s)
                        \/ Clashes(x[1], <<x[2], x[3]>>)

\* An order that a book can take.
WellFormed(o) ==
  /\ o.type \in {"limit", "market", "cancel"} /\ o.id \in Int
  /\ o.type # "cancel" => o.side \in Sides /\ o.qty \in Nat \ {0}
  /\ o.type = "limit" => o.px \in Nat \ {0}

-----------------------------------------------------------------------------
\* A time-limited validation ends, whatever the engine does with its orders.
ValidationEnds == <>Validated

\* "a submission that gets price-time priority ... wrong will disagree with the
\* oracle and lose points".
WrongPriorityCaught ==
  Validated /\ style = "worst first" /\ Undisturbed => Passed < Len(Scenario)
=============================================================================
