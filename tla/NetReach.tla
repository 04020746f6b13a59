------------------------------ MODULE NetReach ------------------------------
(***************************************************************************)
(* Reachability in the combinational graph of a netlist, and the strongly  *)
(* connected components the W3 obligation is about.  This is the reference *)
(* definition the algorithm of tools/netgraph.py is compared with: it says *)
(* nothing about how components are found.                                 *)
(*                                                                         *)
(* A graph is a function from the nets that have an entry to the nets they *)
(* combinationally drive, as the code's `edges` dictionary; a net without  *)
(* an entry drives nothing (`edges.get(v, ())`).                           *)
(***************************************************************************)
CONSTANT Nets

Graphs == UNION {[K -> SUBSET Nets] : K \in SUBSET Nets}

(* edges.get(v, ()): the nets v combinationally drives.                    *)
Succ(g, v) == IF v \in DOMAIN g THEN g[v] ELSE {}

(* S contains everything its members drive.                                *)
Closed(g, S) == \A u \in S : Succ(g, u) \subseteq S

(* v lies in every successor-closed set that contains u: there is a path,  *)
(* possibly empty, from u to v.                                            *)
Reaches(g, u, v) == \A S \in SUBSET Nets : u \in S /\ Closed(g, S) => v \in S

MutuallyReach(g, u, v) == Reaches(g, u, v) /\ Reaches(g, v, u)

Component(g, v) == {u \in Nets : MutuallyReach(g, v, u)}

(* The component of v carries a cycle: it has two nets, or one that drives *)
(* itself.                                                                 *)
OnCycle(g, v) == v \in Succ(g, v) \/ \E u \in Component(g, v) : u # v

CyclicComponents(g) == {Component(g, v) : v \in {u \in Nets : OnCycle(g, u)}}
=============================================================================
