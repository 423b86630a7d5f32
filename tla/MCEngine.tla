------------------------------- MODULE MCEngine -------------------------------
(***************************************************************************)
(* Instances of Engine for TLC: requests of two clients that both number   *)
(* their orders from 1, as the bots do, and the malformed ones.            *)
(***************************************************************************)
EXTENDS Engine

Request(c, i, s, t, p, q) ==
  [client |-> c, id |-> i, side |-> s, type |-> t, px |-> p, qty |-> q, target |-> 0]

MCTraders ==
  {Request(c, 1, s, "limit", p, q) : c \in {1, 2}, s \in Sides, p \in {1, 2}, q \in {1, 2}}
    \cup {Request(1, 2, s, "limit", p, 1) : s \in Sides, p \in {1, 3}}
    \cup {Request(1, 3, s, t, 2, 2) : s \in Sides, t \in {"ioc", "fok", "postonly"}}
    \cup {Request(2, 3, s, "market", 0, 2) : s \in Sides}

MCCancels == {[Request(2, 4, "buy", "cancel", 0, 0) EXCEPT !.target = i] : i \in {1, 2}}

\* Id 0, a bad side, price and quantity, and two types the engine does not know.
MCOdd == {Request(1, 0, "buy", "limit", 1, 1), Request(1, 5, "none", "limit", 1, 1),
          Request(1, 5, "sell", "limit", 0, 1), Request(1, 5, "buy", "market", 0, 0),
          Request(1, 5, "sell", "stop", 1, 1), Request(1, 5, "none", "modify", 1, 2)}

MCOrders == MCTraders \cup MCCancels \cup MCOdd
=============================================================================
