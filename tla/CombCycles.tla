----------------------------- MODULE CombCycles -----------------------------
(***************************************************************************)
(* The W3 check of tools/netgraph.py (run, "combinational cycles"): an     *)
(* iterative version of Tarjan's algorithm over the graph `edges`, whose   *)
(* result `cyc` is the list of combinational cycles the netlist is         *)
(* reported to have.                                                       *)
(*                                                                         *)
(* The order in which roots are taken (the dictionary's insertion order)   *)
(* and the order in which a net's successors are taken (Python's set       *)
(* order, which varies from run to run) are left open: any order is a      *)
(* behaviour.  A frame of `work` holds a net and the successors its        *)
(* iterator has yet to yield.                                              *)
(***************************************************************************)
EXTENDS NetReach, Integers, Sequences

VARIABLES edges,    \* the combinational graph, fixed during the search
          todo,     \* the roots of list(edges) not taken yet
          work,     \* the explicit recursion stack of (net, iterator) frames
          idx,      \* discovery number of a net, Unseen when it has no entry
          low,      \* low-link of a net, Unseen when it has no entry
          counter,  \* the next discovery number
          stk,      \* the stack of nets whose component is still open
          on,       \* the set mirror of stk
          cyc       \* the components reported as combinational cycles

vars == <<edges, todo, work, idx, low, counter, stk, on, cyc>>

Unseen == -1

Numbered(w) == idx[w] # Unseen
Top == work[Len(work)]
Rest(s) == SubSeq(s, 1, Len(s) - 1)
Lesser(a, b) == IF a < b THEN a ELSE b
Frame(w) == [net |-> w, rest |-> Succ(edges, w)]

(* The top frame's iterator yields w.                                      *)
Advanced(w) == Append(Rest(work), [Top EXCEPT !.rest = @ \ {w}])

TypeOK ==
  /\ edges \in Graphs
  /\ todo \subseteq DOMAIN edges
  /\ work \in Seq([net : Nets, rest : SUBSET Nets])
  /\ idx \in [Nets -> Nat \cup {Unseen}]
  /\ low \in [Nets -> Nat \cup {Unseen}]
  /\ counter \in Nat
  /\ stk \in Seq(Nets)
  /\ on \subseteq Nets
  /\ cyc \in Seq(SUBSET Nets)

Init ==
  /\ edges \in Graphs
  /\ todo = DOMAIN edges
  /\ work = <<>>
  /\ idx = [w \in Nets |-> Unseen]
  /\ low = [w \in Nets |-> Unseen]
  /\ counter = 0
  /\ stk = <<>>
  /\ on = {}
  /\ cyc = <<>>

(* Number w and open its component.                                        *)
Discover(w) ==
  /\ idx' = [idx EXCEPT ![w] = counter]
  /\ low' = [low EXCEPT ![w] = counter]
  /\ counter' = counter + 1
  /\ stk' = Append(stk, w)
  /\ on' = on \cup {w}

(* The outer loop meets a root some earlier search already numbered.       *)
SkipRoot(r) ==
  /\ work = <<>>
  /\ r \in todo
  /\ Numbered(r)
  /\ todo' = todo \ {r}
  /\ UNCHANGED <<edges, work, idx, low, counter, stk, on, cyc>>

StartRoot(r) ==
  /\ work = <<>>
  /\ r \in todo
  /\ ~Numbered(r)
  /\ todo' = todo \ {r}
  /\ work' = <<Frame(r)>>
  /\ Discover(r)
  /\ UNCHANGED <<edges, cyc>>

(* The inner loop meets an unnumbered successor and descends into it.      *)
Descend(w) ==
  /\ work # <<>>
  /\ w \in Top.rest
  /\ ~Numbered(w)
  /\ work' = Append(Advanced(w), Frame(w))
  /\ Discover(w)
  /\ UNCHANGED <<edges, todo, cyc>>

(* A mutant of Look: every numbered successor lowers the low-link, also    *)
(* one whose component is closed (no test of `on`).                        *)
LookAnywhere(w) ==
  /\ work # <<>> /\ w \in Top.rest /\ Numbered(w)
  /\ work' = Advanced(w)
  /\ low' = [low EXCEPT ![Top.net] = Lesser(@, idx[w])]
  /\ UNCHANGED <<edges, todo, idx, counter, stk, on, cyc>>

(* Another: the iterator of the frame starts anew each time round.         *)
LookAgain(w) ==
  /\ work # <<>> /\ w \in Top.rest /\ Numbered(w)
  /\ low' = IF w \in on THEN [low EXCEPT ![Top.net] = Lesser(@, idx[w])] ELSE low
  /\ UNCHANGED <<edges, todo, work, idx, counter, stk, on, cyc>>

(* It meets a numbered one: only a net whose component is open counts.     *)
Look(w) ==
  /\ work # <<>>
  /\ w \in Top.rest
  /\ Numbered(w)
  /\ work' = Advanced(w)
  /\ low' = IF w \in on
            THEN [low EXCEPT ![Top.net] = Lesser(@, idx[w])]
            ELSE low
  /\ UNCHANGED <<edges, todo, idx, counter, stk, on, cyc>>

(* A mutant of Retreat: the low-link does not flow to the parent frame.    *)
RetreatAlone ==
  /\ work # <<>> /\ Top.rest = {}
  /\ work' = Rest(work)
  /\ low' = low

(* The frame is exhausted: work.pop(), and the low-link flows to the       *)
(* parent frame if there is one.                                           *)
Retreat ==
  /\ work # <<>>
  /\ Top.rest = {}
  /\ work' = Rest(work)
  /\ low' = IF Len(work) > 1
            THEN LET parent == work[Len(work) - 1].net
                 IN  [low EXCEPT ![parent] = Lesser(@, low[Top.net])]
            ELSE low

(* Afterwards v = Top.net closes no component: its low-link lies below it. *)
FinishOpen ==
  /\ Retreat
  /\ low[Top.net] # idx[Top.net]
  /\ UNCHANGED <<edges, todo, idx, counter, stk, on, cyc>>

(* The nets stk.pop() yields down to and including the one at position k.  *)
Popped(k) == {stk[j] : j \in k .. Len(stk)}

(* A mutant of CloseComponent: a net that drives itself is no cycle.       *)
CloseComponentOfTwo ==
  /\ Retreat
  /\ low[Top.net] = idx[Top.net]
  /\ \E k \in 1 .. Len(stk) :
       /\ stk[k] = Top.net
       /\ \A j \in k + 1 .. Len(stk) : stk[j] # Top.net
       /\ stk' = SubSeq(stk, 1, k - 1)
       /\ on' = on \ Popped(k)
       /\ cyc' = IF k < Len(stk) THEN Append(cyc, Popped(k)) ELSE cyc
  /\ UNCHANGED <<edges, todo, idx, counter>>

(* Or it is the root of one, which is popped as a whole and reported when  *)
(* it has more than one net or a net that drives itself.                   *)
CloseComponent ==
  /\ Retreat
  /\ low[Top.net] = idx[Top.net]
  /\ \E k \in 1 .. Len(stk) :
       /\ stk[k] = Top.net
       /\ \A j \in k + 1 .. Len(stk) : stk[j] # Top.net
       /\ stk' = SubSeq(stk, 1, k - 1)
       /\ on' = on \ Popped(k)
       /\ cyc' = IF k < Len(stk) \/ Top.net \in Succ(edges, Top.net)
                 THEN Append(cyc, Popped(k))
                 ELSE cyc
  /\ UNCHANGED <<edges, todo, idx, counter>>

Next ==
  \/ \E w \in Nets : SkipRoot(w) \/ StartRoot(w) \/ Descend(w) \/ Look(w)
  \/ FinishOpen
  \/ CloseComponent

Spec == Init /\ [][Next]_vars

(* The search is one sequential loop that nothing interrupts.              *)
FairSpec == Spec /\ WF_vars(Next)

Done == todo = {} /\ work = <<>>
-----------------------------------------------------------------------------
(* A net is open while it is on the stack, and closed once it has been     *)
(* popped with its component.                                              *)
ClosedNets == {w \in Nets : Numbered(w) /\ w \notin on}

OnPath(v) == \E i \in 1 .. Len(work) : work[i].net = v

(* The two stacks agree: `on` mirrors stk, stk is in discovery order, and  *)
(* the nets of the recursion stack lie on stk in the order of their        *)
(* frames, so that popping a component never pops a live frame's net.      *)
StackDiscipline ==
  /\ \A i \in 1 .. Len(work) : work[i].rest \subseteq Succ(edges, work[i].net)
  /\ on = {stk[j] : j \in 1 .. Len(stk)}
  /\ \A i, j \in 1 .. Len(stk) : i < j => idx[stk[i]] < idx[stk[j]]
  /\ \A i \in 1 .. Len(work) : work[i].net \in on
  /\ \A i, j \in 1 .. Len(work) : i < j => idx[work[i].net] < idx[work[j].net]
  /\ work # <<>> => stk # <<>> /\ stk[1] = work[1].net
  /\ work = <<>> => stk = <<>>

(* A component is popped only when nothing in it can lead back to an open  *)
(* net: every successor of a closed net is closed.                         *)
ClosedSealed == Closed(edges, ClosedNets)

(* What low-links mean: an open net leads to the open net its low-link     *)
(* numbers, which lies strictly below it once its frame is gone.           *)
LowLinks ==
  \A v \in on :
    /\ low[v] <= idx[v]
    /\ \E u \in on : idx[u] = low[v] /\ Reaches(edges, v, u)
    /\ ~OnPath(v) => low[v] < idx[v]

(* Everything `cyc` reports is a whole strongly connected component with a *)
(* cycle, and none is reported twice - at every moment of the search.      *)
ReportSound ==
  /\ \A i \in 1 .. Len(cyc) : cyc[i] \in CyclicComponents(edges)
  /\ \A i, j \in 1 .. Len(cyc) : i # j => cyc[i] # cyc[j]

(* The verdict of W3: when the search ends, `cyc` lists every cyclic       *)
(* component of the graph, so an empty list means the graph is acyclic.    *)
ReportComplete ==
  Done => CyclicComponents(edges) = {cyc[i] : i \in 1 .. Len(cyc)}

(* The search ends on every graph, whatever the iteration orders.          *)
Termination == <>Done
-----------------------------------------------------------------------------
(***************************************************************************)
(* The inductive invariant behind the two report properties.               *)
(***************************************************************************)

(* Discovery numbers are distinct and below the counter, and only open     *)
(* nets that were numbered are on the stack.                               *)
Numbering ==
  /\ \A w \in Nets : idx[w] < counter
  /\ \A w \in Nets : Numbered(w) => low[w] # Unseen
  /\ \A v, w \in Nets : Numbered(v) /\ idx[v] = idx[w] => v = w
  /\ \A w \in on : Numbered(w)
  /\ \A r \in DOMAIN edges : r \in todo \/ Numbered(r)

(* The successors of u that its iterator, if it has one, has yielded.      *)
Yielded(u) ==
  {w \in Succ(edges, u) :
     \A i \in 1 .. Len(work) : work[i].net = u => w \notin work[i].rest}

(* Frame i owns the open nets discovered since its own net and before the  *)
(* net of the next frame.                                                  *)
Owns(i, x) ==
  /\ idx[work[i].net] <= idx[x]
  /\ i < Len(work) => idx[x] < idx[work[i + 1].net]

(* Every open net has an owner, the two reach each other as far as the     *)
(* search knows, and no edge explored from it leads below the owner's      *)
(* low-link.                                                               *)
Ownership ==
  /\ \A x \in on : \E i \in 1 .. Len(work) : Owns(i, x)
  /\ \A i \in 1 .. Len(work) : \A x \in on :
       idx[work[i].net] <= idx[x] => Reaches(edges, work[i].net, x)
  /\ \A i \in 1 .. Len(work) : \A x \in on :
       Owns(i, x) => /\ Reaches(edges, x, work[i].net)
                     /\ \A y \in Yielded(x) \cap on : low[work[i].net] <= idx[y]

(* What an iterator has yielded has been numbered.                         *)
YieldedNumbered == \A u \in Nets : Numbered(u) => \A w \in Yielded(u) : Numbered(w)

(* The report lists the cyclic components of the closed nets, each once.   *)
ReportedClosed ==
  /\ {cyc[i] : i \in 1 .. Len(cyc)}
       = {Component(edges, u) : u \in {w \in ClosedNets : OnCycle(edges, w)}}
  /\ \A i, j \in 1 .. Len(cyc) : i # j => cyc[i] # cyc[j]

IInv ==
  /\ TypeOK
  /\ Numbering
  /\ StackDiscipline
  /\ YieldedNumbered
  /\ ClosedSealed
  /\ LowLinks
  /\ Ownership
  /\ ReportedClosed

(* The abstract report, over the same graph and the same list: the search  *)
(* of netgraph.py implements it.                                           *)
Abstract == INSTANCE SccReport
AbstractSpec == Abstract!Spec
=============================================================================
