---------------------------- MODULE PassChannel ----------------------------
(***************************************************************************)
(* What the pass records of a secondary timer can rely on between its      *)
(* server and the primary's: a record may be lost, and may arrive more     *)
(* than once, but never before an earlier one of the same timer, and only  *)
(* if it was sent.                                                         *)
(***************************************************************************)
EXTENDS Naturals

CONSTANT Secondaries

VARIABLES
  passes,   \* passes[s]: records made by s so far, numbered from 1
  last      \* last[s]: the latest record of s that has arrived

vars == <<passes, last>>

Init == passes = [s \in Secondaries |-> 0] /\ last = [s \in Secondaries |-> 0]

Put(s) == passes' = [passes EXCEPT ![s] = @ + 1] /\ UNCHANGED last

Deliver(s) ==
  \E n \in last[s]..passes[s] : last' = [last EXCEPT ![s] = n] /\ UNCHANGED passes

Next == \E s \in Secondaries : Put(s) \/ Deliver(s)

Spec == Init /\ [][Next]_vars
=============================================================================
