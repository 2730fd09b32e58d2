----------------------------- MODULE MCCluster ------------------------------
(* A small instance of Cluster for TLC: two gates, one of which is reached *)
(* over a connection, and has a server, that fail.                         *)
EXTENDS Cluster

TwoAtTheSecond == (0 :> 1) @@ (1 :> 2)
=============================================================================
