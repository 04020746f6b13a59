----------------------------- MODULE DeviceTree -----------------------------
(***************************************************************************)
(* tools/check-l7.py, the memmap obligation: the regions of the device     *)
(* tree are collected node by node into a dictionary, and checked against  *)
(* each other and against the bases of the register maps.                  *)
(***************************************************************************)
EXTENDS Integers, Sequences, FiniteSets

CONSTANTS NodeNames,  \* names of nodes, the part before the @
          Bases,      \* addresses regions start at
          Sizes,      \* their sizes
          MapBases,   \* base addresses a register map may have
          MAX_NODES   \* how many nodes the tree may have

VARIABLES nodes,      \* the nodes with a two-cell reg, in file order
          regions,    \* name -> region, the dictionary
          regmaps,    \* the base addresses of the register maps
          memmap      \* "none" or the verdict
vars == <<nodes, regions, regmaps, memmap>>

Region == [base : Bases, size : Sizes]
Node == [name : NodeNames, region : Region]

Init ==
  /\ nodes = <<>> /\ regions = [n \in {} |-> 0]
  /\ regmaps \in SUBSET MapBases
  /\ memmap = "none"

(* A node takes the place of an earlier one of its name.                   *)
ParseNode(node) ==
  /\ memmap = "none" /\ Len(nodes) < MAX_NODES
  /\ nodes' = Append(nodes, node)
  /\ regions' = [n \in DOMAIN regions \cup {node.name} |->
                   IF n = node.name THEN node.region ELSE regions[n]]
  /\ UNCHANGED <<regmaps, memmap>>

Inside(addr, r) == r.base <= addr /\ addr < r.base + r.size

(* The dictionary in the order of the bases, then of the ends and names;   *)
(* two spans are compared when no other lies between them in that order.   *)
Precedes(m, n) ==
  \/ regions[m].base < regions[n].base
  \/ regions[m].base = regions[n].base /\ regions[m].size < regions[n].size

Neighbours(order) == {<<order[k], order[k + 1]>> : k \in 1 .. Len(order) - 1}

SortedNames ==
  {order \in [1 .. Cardinality(DOMAIN regions) -> DOMAIN regions] :
     /\ \A n \in DOMAIN regions : \E k \in DOMAIN order : order[k] = n
     /\ \A j, k \in DOMAIN order : j < k => ~Precedes(order[k], order[j])}

(* A mutant of Overlaps: only spans that start together are taken to.      *)
OverlapsAtBase(order) ==
  {p \in Neighbours(order) : regions[p[1]].base = regions[p[2]].base}

Overlaps(order) ==
  {p \in Neighbours(order) : regions[p[1]].base + regions[p[1]].size > regions[p[2]].base}

Mismatched == {b \in regmaps : \A n \in DOMAIN regions : ~Inside(b, regions[n])}

Compare ==
  /\ memmap = "none"
  /\ \E order \in SortedNames :
       memmap' = IF DOMAIN regions = {} \/ Mismatched # {} \/ Overlaps(order) # {}
                 THEN "FAIL" ELSE "PASS"
  /\ UNCHANGED <<nodes, regions, regmaps>>

Next == (\E node \in Node : ParseNode(node)) \/ Compare
-----------------------------------------------------------------------------
(* In a tree whose nodes have distinct names the map passes exactly when   *)
(* no address is in two nodes and every register map starts in one: the    *)
(* comparison of neighbours misses no overlap.  Nodes that share a name    *)
(* are one region to the obligation, the last of them.                     *)
DistinctNames == \A j, k \in DOMAIN nodes : j # k => nodes[j].name # nodes[k].name

Disjoint(r, s) == r.base + r.size <= s.base \/ s.base + s.size <= r.base

MemmapPassIsDisjoint ==
  memmap # "none" /\ DistinctNames =>
    (memmap = "PASS" <=>
       /\ nodes # <<>>
       /\ \A j, k \in DOMAIN nodes : j # k => Disjoint(nodes[j].region, nodes[k].region)
       /\ \A b \in regmaps : \E k \in DOMAIN nodes : Inside(b, nodes[k].region))
=============================================================================
