-------------------------- MODULE MCNodeInterface ---------------------------
(* Small instances of NodeInterface for TLC.                               *)
EXTENDS NodeInterface

\* One node that passes the gate, in two ways; a second one, on the same processor, hears
\* nothing.
Silent(n) == [t \in 1..n |-> 1]
TwoCourses == {0 :> c @@ 1 :> Silent(4) : c \in {<<3, 1, 3, 1>>, <<2, 3, 3, 1>>}}
DisableOrLower == {<<"freq", 1111>>, <<"enter", 2>>}
\* Nodes that hear nothing.
NoCourse == {[i \in Nodes |-> Silent(MaxTime)]}
\* The levels of a lowered node.
LowerBoth == <<[reg |-> "enter", value |-> 2], [reg |-> "exit", value |-> 1]>>
=============================================================================
