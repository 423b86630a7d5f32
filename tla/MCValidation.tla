----------------------------- MODULE MCValidation -----------------------------
(***************************************************************************)
(* Instances of Validation for TLC.                                        *)
(***************************************************************************)
EXTENDS Validation

\* Orders of a bot inside the spread of the scenario and a cancel.
MCBotOrders ==
  {[side |-> "sell", type |-> "limit", px |-> 10000, qty |-> 1, back |-> 1],
   [side |-> "buy", type |-> "cancel", px |-> 10000, qty |-> 1, back |-> 1]}

\* New orders, an execution (which the replay skips) and a deletion.  The ids of
\* the two new orders are the offset apart, as those of a real file may be: on
\* the second pass the first comes under the id of the other.
MCFile ==
  << [etype |-> 1, oid |-> 2, size |-> 1, px |-> 1000500, dir |-> -1],
     [etype |-> 4, oid |-> 2, size |-> 1, px |-> 1000500, dir |-> -1],
     [etype |-> 3, oid |-> 2, size |-> 1, px |-> 1000500, dir |-> -1],
     [etype |-> 1, oid |-> 12, size |-> 1, px |-> 1000500, dir |-> -1] >>

=============================================================================
