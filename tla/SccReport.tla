------------------------------ MODULE SccReport ------------------------------
(***************************************************************************)
(* What W3 promises, without saying how: the cyclic components of the      *)
(* netlist's combinational graph are reported one at a time, each once,    *)
(* none before the cyclic components it leads to, until all are reported.  *)
(***************************************************************************)
EXTENDS NetReach, Naturals, Sequences

VARIABLES edges, cyc

Reported == {cyc[i] : i \in 1 .. Len(cyc)}

Downstream(C) ==
  {D \in CyclicComponents(edges) \ {C} :
     \E u \in C, v \in D : Reaches(edges, u, v)}

Init == edges \in Graphs /\ cyc = <<>>

Report(C) ==
  /\ C \in CyclicComponents(edges) \ Reported
  /\ Downstream(C) \subseteq Reported
  /\ cyc' = Append(cyc, C)
  /\ UNCHANGED edges

Next == \E C \in CyclicComponents(edges) : Report(C)

Spec == Init /\ [][Next]_<<edges, cyc>> /\ WF_<<edges, cyc>>(Next)
=============================================================================
