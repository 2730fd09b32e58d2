-------------------------- MODULE MCResultsCaches --------------------------
(* Instances of ResultsCaches for TLC. *)
EXTENDS ResultsCaches

CONSTANTS w1, w2, free, r1, r2, h1, event

MCHeatOf == [r \in {r1, r2} |-> h1]

=============================================================================
