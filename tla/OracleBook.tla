------------------------------ MODULE OracleBook ------------------------------
(***************************************************************************)
(* What an engine under test promises, taken from the reference book that  *)
(* the correctness oracle keeps: limit, market and cancel orders, each     *)
(* executed at once and exactly as ReferenceBook says.                     *)
(*                                                                         *)
(* Order ids are only unique within a client.  The oracle's scenario uses  *)
(* each id once; the bots all count from 1, so a cancel that names an id   *)
(* several orders carry is left open here.                                 *)
(***************************************************************************)
EXTENDS ReferenceBook

CONSTANTS Orders    \* the requests [client, id, side, type, px, qty, target]

VARIABLES
  book,    \* the resting orders of each side
  seen,    \* the <<client, id>> pairs already accepted for execution
  last,    \* the request answered last
  filled   \* and the quantity it filled

vars == <<book, seen, last, filled>>

Plain == {"limit", "market", "cancel"}

Shared(i) == i = 0 \/ \E k, l \in seen : k[2] = i /\ l[2] = i /\ k # l

Refusable(o) ==
  /\ o.type # "cancel"
  /\ \/ o.side \notin Sides
     \/ o.qty <= 0
     \/ o.type # "market" /\ o.px <= 0
     \/ o.id # 0 /\ <<o.client, o.id>> \in seen
     \/ o.type \notin Plain

Init == /\ book = EmptyBook
        /\ seen = {}
        /\ last = <<>>
        /\ filled = 0

\* Anything but a sound limit, market or cancel order may be turned down.
Refuse(o) ==
  /\ last' = o /\ filled' = 0
  /\ Refusable(o)
  /\ seen' \in {seen, seen \cup {<<o.client, o.id>>}}
  /\ UNCHANGED book

\* A limit or market order does exactly what the reference book does.
Execute(o) ==
  /\ last' = o
  /\ o.type \in {"limit", "market"} /\ ~Refusable(o)
  /\ book' = Traded(book, o).book
  /\ filled' = Traded(book, o).filled
  /\ seen' = IF o.id = 0 THEN seen ELSE seen \cup {<<o.client, o.id>>}

\* A cancel removes the order it names; a shared id names any of its orders.
Cancel(o) ==
  /\ last' = o /\ filled' = 0
  /\ o.type = "cancel"
  /\ \/ ~Shared(o.target) /\ book' = Without(book, o.target)
     \/ Shared(o.target) /\ book' = book
     \/ /\ Shared(o.target)
        /\ \E s \in Sides : \E k \in DOMAIN book[s] :
             /\ book[s][k].id = o.target
             /\ book' = [book EXCEPT ![s] = RemoveAt(@, k)]
  /\ UNCHANGED seen

\* The oracle knows no other type: such an order may do no more than a limit
\* or market order of some part of its quantity would.
Extra(o) ==
  /\ last' = o
  /\ o.type \notin Plain
  /\ \E s \in Sides, t \in {"limit", "market"}, q \in 1 .. o.qty :
       LET x == Traded(book, [o EXCEPT !.side = s, !.type = t, !.qty = q])
       IN  /\ o.side \in Sides => s = o.side
           /\ book' = x.book
           /\ filled' \in {0, x.filled}
  /\ seen' \in {seen, seen \cup {<<o.client, o.id>>}}

Next == \E o \in Orders : Refuse(o) \/ Execute(o) \/ Cancel(o) \/ Extra(o)

Spec == Init /\ [][Next]_vars
=============================================================================
