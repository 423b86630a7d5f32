----------------------------- MODULE ReferenceBook -----------------------------
(***************************************************************************)
(* The reference order book of the correctness oracle (validator.go, type  *)
(* book) as functions of a book and an order.  A book is, per side, the    *)
(* sequence of resting orders, best price first and equal prices in order  *)
(* of arrival (the oracle sorts by price, then by its seq counter).        *)
(***************************************************************************)
EXTENDS BookSides, Integers, Sequences, SequencesExt, FiniteSetsExt

EmptyBook == [s \in Sides |-> <<>>]

\* Fault: a limit order does not trade at its own price.
InsideLimit(o, m) ==
  o.type = "limit" => IF o.side = "buy" THEN m.px < o.px ELSE m.px > o.px

\* A limit order stops at the first maker its price does not reach.
WithinLimit(o, m) ==
  o.type = "limit" => IF o.side = "buy" THEN m.px <= o.px ELSE m.px >= o.px

\* The taker loop: makers from the best on, each giving what it can.
Fill(o, makers) ==
  LET Take(acc, m) ==
        LET q == IF WithinLimit(o, m) THEN Min({acc.rem, m.qty}) ELSE 0
        IN  [rem  |-> acc.rem - q,
             left |-> IF q = m.qty THEN acc.left
                      ELSE Append(acc.left, [m EXCEPT !.qty = @ - q])]
  IN  FoldLeft(Take, [rem |-> o.qty, left |-> <<>>], makers)

Worse(side, p, q) == IF side = "buy" THEN p < q ELSE p > q

\* The residual rests behind every order at least as good as it.
Rested(side, makers, r) ==
  InsertAt(makers, Min({k \in 1 .. Len(makers) + 1 :
                          k <= Len(makers) => Worse(side, makers[k].px, r.px)}), r)

Traded(b, o) ==
  LET f == Fill(o, b[Opposite(o.side)])
      r == [id |-> o.id, px |-> o.px, qty |-> f.rem]
  IN  [book   |-> [b EXCEPT ![Opposite(o.side)] = f.left,
                            ![o.side] = IF o.type = "limit" /\ f.rem > 0
                                        THEN Rested(o.side, @, r) ELSE @],
       filled |-> o.qty - f.rem]

\* The order of that id leaves the side it is on.
Without(b, i) == [s \in Sides |-> RemoveFirstMatch(b[s], LAMBDA m : m.id = i)]

Apply(b, o) == IF o.type = "cancel"
               THEN [book |-> Without(b, o.target), filled |-> 0]
               ELSE Traded(b, o)
=============================================================================
