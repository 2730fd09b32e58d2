--------------------------- MODULE MCRaceSequence ---------------------------
(* Small instances of RaceSequence for TLC.                                *)
EXTENDS RaceSequence, TLC

CONSTANTS c1, c2, d1, h1

OneClient == {c1}
TwoClients == {c1, c2}
OneDelayed == {d1}
OneHeat == {h1}

ClientSymmetry == Permutations(TwoClients)
=============================================================================
