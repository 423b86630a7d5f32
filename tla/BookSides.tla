------------------------------ MODULE BookSides ------------------------------
(***************************************************************************)
(* The two sides of an order book.                                         *)
(***************************************************************************)
Sides == {"buy", "sell"}
Opposite(side) == IF side = "buy" THEN "sell" ELSE "buy"
=============================================================================
