------------------------------- MODULE MCIngest -------------------------------
(***************************************************************************)
(* Instances of Ingest for TLC: samples are numbers, sample 4 belongs to a *)
(* second run.                                                             *)
(***************************************************************************)
EXTENDS Ingest

MCRunOf == [s \in Samples |-> IF s = 4 THEN "b" ELSE "a"]

=============================================================================
