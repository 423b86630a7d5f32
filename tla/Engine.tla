-------------------------------- MODULE Engine --------------------------------
(***************************************************************************)
(* The sample matching engine (src/examples/sample-engine-go/main.go): one *)
(* goroutine that takes orders off a channel and runs each through         *)
(* validation, cancel, pre-trade checks, the matching loop and the resting *)
(* decision.  Every iteration of the matching loop is a step; nothing else *)
(* writes the book between the steps of one order.                         *)
(*                                                                         *)
(* levels is book.bids / book.asks: per side a sequence of price levels,   *)
(* best first, each a FIFO of resting orders.  idx is the engine's map     *)
(* from order id to location, keyed by the id ALONE; seen is seenIDs,      *)
(* keyed by client and id.  Self-trade prevention is left out: stpPolicy   *)
(* is "none" and nothing sets it, so stpDecision always says fill.         *)
(***************************************************************************)
EXTENDS BookSides, Integers, Sequences, SequencesExt, FiniteSetsExt, Functions

CONSTANTS Orders,      \* the requests that may arrive
          MaxOrders    \* bound on how many do

ASSUME OrdersAssumption ==
  Orders \subseteq [client : Int, id : Int, side : STRING, type : STRING,
                   px : Int, qty : Int, target : Int]
ASSUME MaxOrdersAssumption == MaxOrders \in Nat

VARIABLES
  levels,   \* [buy, sell]: sequences of [px, orders]
  idx,      \* order id -> [side, px, client]
  seen,     \* <<client, id>> pairs
  taker,    \* the order being matched, or Idle
  ack,      \* the last answer: request, status, filled quantity
  count     \* bound: orders taken so far

vars == <<levels, idx, seen, taker, ack, count>>

Idle == [busy |-> FALSE]
NoAck == [order |-> <<>>, status |-> "none", filled |-> 0]

-----------------------------------------------------------------------------
(* The order book *)

\* The book as the oracle keeps it: the levels of a side laid end to end.
FlatSide(side) ==
  LET Lay(acc, l) == acc \o [k \in DOMAIN l.orders |->
                       [id |-> l.orders[k].id, px |-> l.px, qty |-> l.orders[k].qty]]
  IN  FoldLeft(Lay, <<>>, levels[side])
Flat == [s \in Sides |-> FlatSide(s)]

\* Where orders rest: <<level, position in it>>.
Places(ls) == UNION {{k} \X DOMAIN ls[k].orders : k \in DOMAIN ls}
At(ls, p) == ls[p[1]].orders[p[2]]

Better(side, p, q) == IF side = "buy" THEN p > q ELSE p < q

\* sort.Search: the first level that is not better than px, or past the end.
Search(ls, side, px) ==
  Min({i \in 1 .. Len(ls) + 1 : i <= Len(ls) => ~Better(side, ls[i].px, px)})

\* Fault: a new order goes to the front of its level.
InsertedFirst(side, px, ord) ==
  LET ls == levels[side]
      i == Search(ls, side, px)
  IN  IF i <= Len(ls) /\ ls[i].px = px
      THEN [ls EXCEPT ![i].orders = <<ord>> \o @]
      ELSE InsertAt(ls, i, [px |-> px, orders |-> <<ord>>])

\* insertResting: at the end of its level, or in a new level before the
\* first worse one.
Inserted(side, px, ord) ==
  LET ls == levels[side]
      i == Search(ls, side, px)
  IN  IF i <= Len(ls) /\ ls[i].px = px
      THEN [ls EXCEPT ![i].orders = Append(@, ord)]
      ELSE InsertAt(ls, i, [px |-> px, orders |-> <<ord>>])

\* removeOrder: the first order of that id in the level of that price, and
\* the level with it when it was the only one.
Removed(side, px, id) ==
  LET ls == levels[side]
      Named(o) == o.id = id
      at == {i \in DOMAIN ls : ls[i].px = px /\ SelectInSeq(ls[i].orders, Named) # 0}
  IN  IF at = {} THEN ls
      ELSE LET i == Min(at)
           IN  IF Len(ls[i].orders) = 1 THEN RemoveAt(ls, i)
               ELSE [ls EXCEPT ![i].orders = RemoveAt(@, SelectInSeq(@, Named))]

\* Fault: an exhausted order stays in the index.
StillIndexed(id) == idx

\* delete(e.idx, id)
Unindexed(id) == Restrict(idx, DOMAIN idx \ {id})

\* e.idx[req.ID] = ...
Indexed(id, loc) == [i \in DOMAIN idx \cup {id} |-> IF i = id THEN loc ELSE idx[i]]

-----------------------------------------------------------------------------
(* Checks before a trade *)

\* "cancel" and "modify" skip the checks of the first block of submit.
Exempt(o) == o.type \in {"cancel", "modify"}

Duplicate(o) == o.id # 0 /\ <<o.client, o.id>> \in seen

Malformed(o) ==
  /\ ~Exempt(o)
  /\ \/ o.side \notin Sides
     \/ o.qty <= 0
     \/ o.type # "market" /\ o.px <= 0

\* Does the order's price reach a level?  A market order's always does, and
\* so does that of an order whose side the checks did not look at.
Reaches(o, px) ==
  \/ o.type = "market"
  \/ /\ o.side = "buy" => px <= o.px
     /\ o.side = "sell" => px >= o.px

\* Fault: touching the best price is not taken to cross.
CrossesInside(o) ==
  LET ls == levels[Opposite(o.side)]
  IN  ls # <<>> /\ IF o.side = "buy" THEN ls[1].px < o.px ELSE ls[1].px > o.px

WouldCross(o) ==
  LET ls == levels[Opposite(o.side)]
  IN  ls # <<>> /\ IF o.side = "buy" THEN ls[1].px <= o.px ELSE ls[1].px >= o.px

\* What rests at some places, and the places in levels that o reaches.
Quantity(ls, ps) == MapThenSumSet(LAMBDA p : At(ls, p).qty, ps)
Offered(o, ls) == {p \in Places(ls) : Reaches(o, ls[p[1]].px)}

\* Fault: levels beyond the order's price are counted in.
FokAnyPrice(o) ==
  LET ls == levels[Opposite(o.side)] IN  Quantity(ls, Places(ls)) >= o.qty

\* fokFillable: the quantity of the levels within the price covers the order.
FokFillable(o) ==
  LET ls == levels[Opposite(o.side)] IN  Quantity(ls, Offered(o, ls)) >= o.qty

Refused(o) ==
  \/ o.type = "postonly" /\ WouldCross(o)
  \/ o.type = "fok" /\ ~FokFillable(o)

Recorded(o) == IF Exempt(o) \/ o.id = 0 THEN seen ELSE seen \cup {<<o.client, o.id>>}

-----------------------------------------------------------------------------
(* submit, up to the matching loop *)

Init ==
  /\ levels = [s \in Sides |-> <<>>]
  /\ idx = <<>>
  /\ seen = {}
  /\ taker = Idle
  /\ ack = NoAck
  /\ count = 0

\* The engine goroutine takes the next order off the jobs channel.
Takes(o) == ~taker.busy /\ count < MaxOrders /\ count' = count + 1

Answered(o, status, filled) ==
  ack' = [order |-> o, status |-> status, filled |-> filled]

Reject(o) ==
  /\ Takes(o)
  /\ Malformed(o) \/ (~Exempt(o) /\ Duplicate(o))
  /\ Answered(o, "rejected", 0)
  /\ UNCHANGED <<levels, idx, seen, taker>>

CancelMiss(o) ==
  /\ Takes(o) /\ o.type = "cancel" /\ o.target \notin DOMAIN idx
  /\ Answered(o, "cancel-miss", 0)
  /\ UNCHANGED <<levels, idx, seen, taker>>

\* The location comes from idx; whose order it is plays no part.
CancelHit(o) ==
  /\ Takes(o) /\ o.type = "cancel" /\ o.target \in DOMAIN idx
  /\ LET loc == idx[o.target]
     IN  levels' = [levels EXCEPT ![loc.side] = Removed(loc.side, loc.px, o.target)]
  /\ idx' = Unindexed(o.target)
  /\ Answered(o, "cancelled", 0)
  /\ UNCHANGED <<seen, taker>>

Sound(o) == o.type # "cancel" /\ ~Malformed(o) /\ (Exempt(o) \/ ~Duplicate(o))

\* A postonly that would cross or a fok that cannot fill; its id is used up.
Turned(o) ==
  /\ Takes(o) /\ Sound(o) /\ Refused(o)
  /\ seen' = Recorded(o)
  /\ Answered(o, "rejected", 0)
  /\ UNCHANGED <<levels, idx, taker>>

Start(o) ==
  /\ Takes(o) /\ Sound(o) /\ ~Refused(o)
  /\ seen' = Recorded(o)
  /\ taker' = [busy |-> TRUE, order |-> o, rem |-> o.qty,
             before |-> [book |-> Flat, seen |-> seen]]
  /\ UNCHANGED <<levels, idx, ack>>

-----------------------------------------------------------------------------
(* match, one maker at a time *)

Makers == Opposite(taker.order.side)
BestEmpty == levels[Makers] # <<>> /\ levels[Makers][1].orders = <<>>

Matchable ==
  /\ taker.busy /\ taker.order.type # "postonly"
  /\ taker.rem > 0
  /\ levels[Makers] # <<>>
  /\ Reaches(taker.order, levels[Makers][1].px)

\* matched: the smaller of what is wanted and what is there.
Given(m) == Min({taker.rem, m.qty})

\* The first order of the best level gives what it can; an exhausted one
\* leaves the level and the index.
FillMaker ==
  /\ Matchable /\ ~BestEmpty
  /\ LET m == levels[Makers][1].orders[1]
         q == Given(m)
     IN  /\ taker' = [taker EXCEPT !.rem = @ - q]
         /\ IF q = m.qty
            THEN /\ levels' = [levels EXCEPT ![Makers][1].orders = Tail(@)]
                 /\ idx' = Unindexed(m.id)
            ELSE /\ levels' = [levels EXCEPT ![Makers][1].orders[1].qty = @ - q]
                 /\ UNCHANGED idx
  /\ UNCHANGED <<seen, ack, count>>

\* The inner loop ends with the level used up: the best level is dropped.
DropLevel ==
  /\ taker.busy /\ BestEmpty
  /\ levels' = [levels EXCEPT ![Makers] = Tail(@)]
  /\ UNCHANGED <<idx, seen, taker, ack, count>>

\* The switch after the loop: limit and postonly residuals rest, all others
\* are dropped; a type the switch does not know is "rejected" after trading.
Rests(o) == o.type \in {"limit", "postonly"}
Known(o) == Rests(o) \/ o.type \in {"market", "ioc", "fok"}

StatusOf(o, filled, rem) ==
  CASE ~Known(o) -> "rejected"
    [] o.type = "fok" -> "filled"
    [] Known(o) /\ o.type # "fok" /\ rem = 0 /\ filled > 0 -> "filled"
    [] Known(o) /\ o.type # "fok" /\ rem > 0 /\ filled > 0 -> "partial"
    [] OTHER -> IF Rests(o) THEN "accepted" ELSE "unfilled"

Finish ==
  /\ taker.busy /\ ~Matchable /\ ~BestEmpty
  /\ LET o == taker.order
         filled == o.qty - taker.rem
         ord == [id |-> o.id, client |-> o.client, qty |-> taker.rem]
     IN  /\ IF Rests(o) /\ taker.rem > 0
            THEN /\ levels' = [levels EXCEPT ![o.side] = Inserted(o.side, o.px, ord)]
                 /\ idx' = Indexed(o.id, [side |-> o.side, px |-> o.px, client |-> o.client])
            ELSE UNCHANGED <<levels, idx>>
         /\ Answered(o, StatusOf(o, filled, taker.rem), IF Known(o) THEN filled ELSE 0)
  /\ taker' = Idle
  /\ UNCHANGED <<seen, count>>

Receive(o) == Reject(o) \/ CancelMiss(o) \/ CancelHit(o) \/ Turned(o) \/ Start(o)
Match == FillMaker \/ DropLevel \/ Finish

Next == (\E o \in Orders : Receive(o)) \/ Match

Spec == Init /\ [][Next]_vars

-----------------------------------------------------------------------------
(* Properties *)

\* Quantities stay positive, locations and ids are those of requests.
TypeOK ==
  /\ \A s \in Sides : \A k \in DOMAIN levels[s] :
       /\ levels[s][k].px \in Nat \ {0}
       /\ \A j \in DOMAIN levels[s][k].orders : levels[s][k].orders[j].qty \in Nat \ {0}
  /\ \A i \in DOMAIN idx : idx[i].side \in Sides /\ idx[i].px \in Nat \ {0}
  /\ seen \subseteq {<<o.client, o.id>> : o \in Orders}
  /\ taker.busy => taker.order \in Orders /\ taker.rem <= taker.order.qty
  /\ count \in 0 .. MaxOrders

\* Between two orders the book is in price order without holes and is not
\* crossed: every level has a resting order, prices fall away from the best,
\* and the best bid is below the best ask, whatever mix of order types came.
\* Stated with the types of the variables.
BookSound ==
  /\ TypeOK
  /\ ~taker.busy =>
    /\ \A s \in Sides : \A k \in DOMAIN levels[s] :
         /\ levels[s][k].orders # <<>>
         /\ k > 1 => Better(s, levels[s][k-1].px, levels[s][k].px)
    /\ levels["buy"] # <<>> /\ levels["sell"] # <<>>
         => levels["buy"][1].px < levels["sell"][1].px

Rest(s, px, i) ==
  \E p \in Places(levels[s]) : levels[s][p[1]].px = px /\ At(levels[s], p).id = i

\* An index entry always leads to a resting order of that id, also in the
\* middle of a match and also when clients use the same ids: "cancelled" is
\* never answered for an order that is not there.
IndexNeverDangles == \A i \in DOMAIN idx : Rest(idx[i].side, idx[i].px, i)

SharedId(i) == i = 0 \/ \E k, l \in seen : k[2] = i /\ l[2] = i /\ k # l

\* A resting order that no cancel can reach shares its id with an order of
\* another client (idx is keyed by the id alone), or has the id 0.
OnlySharedIdsOrphaned ==
  \A s \in Sides : \A p \in Places(levels[s]) :
    At(levels[s], p).id \in DOMAIN idx \/ SharedId(At(levels[s], p).id)

\* The index and the book agree: an entry leads to a resting order, and only
\* an order with a shared id has no entry.
IndexSound == IndexNeverDangles /\ OnlySharedIdsOrphaned

\* The invariants that carry the proofs of BookSound and IndexSound.
Level == [px : Nat \ {0}, orders : Seq([id : Int, client : Int, qty : Nat \ {0}])]

\* In the middle of a match the best level of the makers may be used up, and
\* nothing else is out of place.
BookInv ==
  /\ levels \in [Sides -> Seq(Level)]
  /\ \A s \in Sides : \A j, k \in DOMAIN levels[s] :
       j < k => Better(s, levels[s][j].px, levels[s][k].px)
  /\ \A s \in Sides : \A k \in DOMAIN levels[s] :
       levels[s][k].orders = <<>> => taker.busy /\ s = Makers /\ k = 1
  /\ \A j \in DOMAIN levels["buy"], k \in DOMAIN levels["sell"] :
       levels["buy"][j].px < levels["sell"][k].px

\* No resting order of the client has the id.
Unused(client, id) ==
  \A s \in Sides : \A p \in Places(levels[s]) :
    At(levels[s], p).id # id \/ At(levels[s], p).client # client

\* An order that may come to rest has been checked, and nothing that rests
\* came from the same client under the same id; a postonly still does not cross.
TakerInv ==
  taker.busy =>
    LET o == taker.order
    IN  /\ taker \in [busy : {TRUE}, order : Orders, rem : Int, before : {taker.before}]
        /\ taker.rem <= o.qty
        /\ Rests(o) =>
             /\ o.side \in Sides /\ o.px \in Nat \ {0}
             /\ o.id # 0 => <<o.client, o.id>> \in seen /\ Unused(o.client, o.id)
        /\ o.type = "postonly" /\ levels[Makers] # <<>> =>
             ~Reaches(o, levels[Makers][1].px)

\* What rests was accepted ...
Accepted ==
  \A s \in Sides : \A p \in Places(levels[s]) :
    At(levels[s], p).id = 0
      \/ <<At(levels[s], p).client, At(levels[s], p).id>> \in seen

\* ... once per client and id: two resting orders of one id are of two clients.
IdsApart ==
  \A s, t \in Sides : \A p \in Places(levels[s]), q \in Places(levels[t]) :
    <<s, p>> # <<t, q>> /\ At(levels[s], p).id = At(levels[t], q).id =>
      At(levels[s], p).id = 0 \/ At(levels[s], p).client # At(levels[t], q).client

IndexInv ==
  /\ idx \in [DOMAIN idx -> [side : Sides, px : Nat \ {0}, client : Int]]
  /\ IndexNeverDangles /\ OnlySharedIdsOrphaned
  /\ Accepted /\ IdsApart

EngineInv ==
  /\ BookInv /\ TakerInv /\ IndexInv
  /\ seen \subseteq {<<o.client, o.id>> : o \in Orders}
  /\ count \in 0 .. MaxOrders

\* A fok order that passed the feasibility check is filled to the last lot,
\* and one that did not trades nothing: the check and the loop agree.
FokAllOrNothing ==
  ack.status # "none" /\ ack.order.type = "fok" =>
    ack.filled = IF ack.status = "filled" THEN ack.order.qty ELSE 0

\* Why: while a fok order trades, what it still wants is there at prices it
\* reaches.
FokInv ==
  /\ taker.busy /\ taker.order.type = "fok" =>
       /\ taker.order.side \in Sides
       /\ taker.rem \in Nat
       /\ taker.rem <= Quantity(levels[Makers], Offered(taker.order, levels[Makers]))
  /\ FokAllOrNothing

\* The reference book seen through the engine's: orders laid end to end, an
\* order under way not yet begun.
Oracle == INSTANCE OracleBook WITH
  book <- IF taker.busy THEN taker.before.book ELSE Flat,
  seen <- IF taker.busy THEN taker.before.seen ELSE seen,
  last <- ack.order,
  filled <- ack.filled

\* The engine implements the reference book: the loop over levels and makers,
\* the index and the resting switch add up to one step of the oracle per
\* order, with the fill quantity the oracle expects and the same queue left.
RefinesOracle == Oracle!Spec

\* An order of any type as the limit or market order it trades like, and q of it.
TradesLike(o, q) ==
  [o EXCEPT !.side = IF o.side \in Sides THEN o.side ELSE "sell",
            !.type = IF o.type = "market" \/ o.side \notin Sides THEN "market" ELSE "limit",
            !.qty = q]

\* Why: in the middle of a match the rest of the order would do to the rest of
\* the makers what the oracle does with the whole order and all of them, and
\* so would any smaller part of it.
MatchInv ==
  taker.busy =>
    LET o == taker.order
        b == taker.before
    IN  /\ o.type # "cancel"
        /\ ~Exempt(o) => /\ o.side \in Sides /\ o.qty > 0
                         /\ o.type # "market" => o.px > 0
                         /\ o.id # 0 => <<o.client, o.id>> \notin b.seen
        /\ seen = IF Exempt(o) \/ o.id = 0 THEN b.seen
                  ELSE b.seen \cup {<<o.client, o.id>>}
        /\ o.qty < 0 \/ o.type = "postonly" => taker.rem = o.qty
        /\ taker.rem = o.qty => b.book = Flat
        /\ b.book = [s \in Sides |-> b.book[s]]
        /\ b.book[Opposite(Makers)] = Flat[Opposite(Makers)]
        /\ o.qty >= 0 => taker.rem >= 0
        /\ \A z \in 0 .. taker.rem :
             Oracle!Fill(TradesLike(o, o.qty - z), b.book[Makers])
               = Oracle!Fill(TradesLike(o, taker.rem - z), Flat[Makers])

=============================================================================
