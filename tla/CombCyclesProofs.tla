-------------------------- MODULE CombCyclesProofs --------------------------
(***************************************************************************)
(* For every set of nets and every graph over it: what the W3 search of    *)
(* tools/netgraph.py reports is exactly the cyclic components.             *)
(*                                                                         *)
(* The proof rests on the inductive invariant IInv of CombCycles.  Section *)
(* 1 holds the facts about reachability, section 2 the facts about the two *)
(* stacks, section 3 shows that each action preserves IInv, section 4      *)
(* draws the conclusions.                                                  *)
(***************************************************************************)
EXTENDS CombCycles, TLAPS, SequenceTheorems

-----------------------------------------------------------------------------
(* 1. Reachability.                                                        *)

(* A graph only leads to nets.                                             *)
LEMMA SuccInNets ==
  ASSUME NEW g \in Graphs, NEW v
  PROVE  Succ(g, v) \subseteq Nets
BY DEF Succ, Graphs

LEMMA EntriesAreNets ==
  ASSUME NEW g \in Graphs
  PROVE  DOMAIN g \subseteq Nets
BY DEF Graphs

LEMMA ReachRefl ==
  ASSUME NEW g, NEW u
  PROVE  Reaches(g, u, u)
BY DEF Reaches

LEMMA ReachTrans ==
  ASSUME NEW g, NEW u, NEW v, NEW w, Reaches(g, u, v), Reaches(g, v, w)
  PROVE  Reaches(g, u, w)
BY DEF Reaches

LEMMA ReachEdge ==
  ASSUME NEW g, NEW u, NEW v, v \in Succ(g, u)
  PROVE  Reaches(g, u, v)
BY DEF Reaches, Closed

(* Nothing outside a closed set is reachable from within it.               *)
LEMMA ReachStays ==
  ASSUME NEW g, NEW S \in SUBSET Nets, Closed(g, S),
         NEW u \in S, NEW v, Reaches(g, u, v)
  PROVE  v \in S
BY DEF Reaches

(* Components are the classes of an equivalence.                           *)
LEMMA ComponentClass ==
  ASSUME NEW g, NEW u \in Nets, NEW v \in Nets, MutuallyReach(g, u, v)
  PROVE  Component(g, u) = Component(g, v)
<1>1. ASSUME NEW x \in Nets PROVE MutuallyReach(g, u, x) <=> MutuallyReach(g, v, x)
  BY ReachTrans DEF MutuallyReach
<1>2. QED BY <1>1 DEF Component

LEMMA InOwnComponent ==
  ASSUME NEW g, NEW u \in Nets
  PROVE  u \in Component(g, u)
BY ReachRefl DEF Component, MutuallyReach

(* Whether a net is on a cycle depends on its component alone.             *)
LEMMA OnCycleClass ==
  ASSUME NEW g, NEW u \in Nets, NEW v \in Nets, MutuallyReach(g, u, v), OnCycle(g, u)
  PROVE  OnCycle(g, v)
<1>1. CASE u = v
  BY <1>1
<1>2. CASE u # v
  <2>1. u \in Component(g, v)
    BY DEF Component, MutuallyReach
  <2>2. QED BY <1>2, <2>1 DEF OnCycle
<1>3. QED BY <1>1, <1>2

(* A net without an entry in the graph is on no cycle.                     *)
LEMMA NoEntryNoCycle ==
  ASSUME NEW g, NEW u \in Nets, u \notin DOMAIN g
  PROVE  ~OnCycle(g, u)
<1>1. Succ(g, u) = {}
  BY DEF Succ
<1>2. Closed(g, {u})
  BY <1>1 DEF Closed
<1>3. ASSUME NEW w, Reaches(g, u, w) PROVE w = u
  <2>1. w \in {u}
    BY <1>2, <1>3, ReachStays
  <2>2. QED BY <2>1
<1>4. QED BY <1>1, <1>3 DEF OnCycle, Component, MutuallyReach
-----------------------------------------------------------------------------
(* 2. The two stacks.                                                      *)

LEMMA RestProperties ==
  ASSUME NEW S, NEW s \in Seq(S), s # <<>>
  PROVE  /\ Rest(s) \in Seq(S)
         /\ Len(Rest(s)) = Len(s) - 1
         /\ \A i \in 1 .. Len(s) - 1 : Rest(s)[i] = s[i]
<1> DEFINE n == Len(s) - 1
<1>1. n \in Nat
  BY LenProperties, EmptySeq
<1>2. \A i \in 1 .. n : s[i] \in S
  BY <1>1, ElementOfSeq
<1> HIDE DEF n
<1>3. /\ SubSeq(s, 1, n) \in Seq(S)
      /\ Len(SubSeq(s, 1, n)) = IF 1 <= n THEN n - 1 + 1 ELSE 0
      /\ \A i \in 1 .. n - 1 + 1 : SubSeq(s, 1, n)[i] = s[1 + i - 1]
  BY <1>1, <1>2, SubSeqProperties
<1>4. Rest(s) = SubSeq(s, 1, n)
  BY DEF Rest, n
<1>5. /\ Len(SubSeq(s, 1, n)) = n
      /\ \A i \in 1 .. n : SubSeq(s, 1, n)[i] = s[i]
  BY <1>1, <1>3
<1>6. QED BY <1>3, <1>4, <1>5 DEF n

FrameSet == [net : Nets, rest : SUBSET Nets]

(* Yielding w changes nothing but the rest of a frame.                     *)
LEMMA FrameAdvance ==
  ASSUME NEW f \in FrameSet, NEW w \in Nets
  PROVE  /\ [f EXCEPT !.rest = @ \ {w}] = [net |-> f.net, rest |-> f.rest \ {w}]
         /\ [f EXCEPT !.rest = @ \ {w}] \in FrameSet
BY DEF FrameSet

(* Yielding w changes nothing but the rest of the top frame.               *)
LEMMA AdvancedProperties ==
  ASSUME TypeOK, work # <<>>, NEW w \in Nets
  PROVE  /\ Len(work) \in Nat /\ Len(work) > 0
         /\ Top \in FrameSet
         /\ Advanced(w) \in Seq(FrameSet)
         /\ Len(Advanced(w)) = Len(work)
         /\ \A i \in 1 .. Len(work) - 1 : Advanced(w)[i] = work[i]
         /\ Advanced(w)[Len(work)] = [net |-> Top.net, rest |-> Top.rest \ {w}]
<1>1. work \in Seq(FrameSet)
  BY DEF TypeOK, FrameSet
<1>2. Len(work) \in Nat /\ Len(work) > 0
  BY <1>1, LenProperties, EmptySeq
<1>3. Top \in FrameSet
  BY <1>1, <1>2, ElementOfSeq DEF Top
<1>4. /\ [Top EXCEPT !.rest = @ \ {w}] = [net |-> Top.net, rest |-> Top.rest \ {w}]
      /\ [Top EXCEPT !.rest = @ \ {w}] \in FrameSet
  BY <1>3, FrameAdvance
<1>6. /\ Rest(work) \in Seq(FrameSet)
      /\ Len(Rest(work)) = Len(work) - 1
      /\ \A i \in 1 .. Len(work) - 1 : Rest(work)[i] = work[i]
  BY <1>1, <1>2, EmptySeq, RestProperties
<1>7. QED BY <1>2, <1>3, <1>4, <1>6, AppendProperties DEF Advanced

(* What the frames hold.                                                   *)
LEMMA FramesTyped ==
  ASSUME TypeOK
  PROVE  /\ Len(work) \in Nat
         /\ work # <<>> <=> Len(work) > 0
         /\ work \in Seq(FrameSet)
         /\ \A i \in 1 .. Len(work) : work[i].net \in Nets /\ work[i].rest \in SUBSET Nets
         /\ work # <<>> => Top = work[Len(work)] /\ Top \in FrameSet
<1>1. work \in Seq(FrameSet)
  BY DEF TypeOK, FrameSet
<1>2. Len(work) \in Nat /\ (work # <<>> <=> Len(work) > 0)
  BY <1>1, LenProperties, EmptySeq
<1>3. \A i \in 1 .. Len(work) : work[i] \in FrameSet
  BY <1>1, ElementOfSeq
<1>4. QED BY <1>1, <1>2, <1>3 DEF FrameSet, Top

LEMMA FrameTyped ==
  ASSUME TypeOK, NEW w \in Nets
  PROVE  Frame(w) \in FrameSet
BY SuccInNets DEF TypeOK, Frame, FrameSet

(* A net is discovered: it gets the next number and goes on the stack.     *)
LEMMA DiscoverShape ==
  ASSUME TypeOK, NEW w \in Nets, Discover(w)
  PROVE  /\ idx' \in [Nets -> Nat \cup {Unseen}]
         /\ low' \in [Nets -> Nat \cup {Unseen}]
         /\ \A x \in Nets : idx'[x] = IF x = w THEN counter ELSE idx[x]
         /\ \A x \in Nets : low'[x] = IF x = w THEN counter ELSE low[x]
         /\ counter' = counter + 1
         /\ stk' \in Seq(Nets)
         /\ Len(stk) \in Nat
         /\ Len(stk') = Len(stk) + 1
         /\ \A j \in 1 .. Len(stk) : stk'[j] = stk[j]
         /\ stk'[Len(stk) + 1] = w
         /\ on' = on \cup {w}
<1>1. stk \in Seq(Nets) /\ stk' = Append(stk, w)
  BY DEF TypeOK, Discover
<1>2. /\ stk' \in Seq(Nets)
      /\ Len(stk) \in Nat
      /\ Len(stk') = Len(stk) + 1
      /\ \A j \in 1 .. Len(stk) : stk'[j] = stk[j]
      /\ stk'[Len(stk) + 1] = w
  BY <1>1, AppendProperties, LenProperties
<1>3. QED BY <1>2 DEF TypeOK, Discover

LEMMA StartShape ==
  ASSUME TypeOK, NEW r \in Nets, StartRoot(r)
  PROVE  /\ work' \in Seq(FrameSet)
         /\ Len(work) = 0
         /\ Len(work') = 1
         /\ work'[1] = Frame(r)
<1>1. work' = <<Frame(r)>>
  BY DEF StartRoot
<1>2. Frame(r) \in FrameSet
  BY FrameTyped
<1>3. work = <<>>
  BY DEF StartRoot
<1>4. QED BY <1>1, <1>2, <1>3

LEMMA DescendShape ==
  ASSUME TypeOK, NEW w \in Nets, Descend(w)
  PROVE  /\ work' \in Seq(FrameSet)
         /\ Len(work') = Len(work) + 1
         /\ \A i \in 1 .. Len(work) - 1 : work'[i] = work[i]
         /\ work'[Len(work)] = [net |-> Top.net, rest |-> Top.rest \ {w}]
         /\ work'[Len(work) + 1] = Frame(w)
<1>1. work # <<>> /\ work' = Append(Advanced(w), Frame(w))
  BY DEF Descend
<1>2. Frame(w) \in FrameSet
  BY FrameTyped
<1> HIDE DEF Frame
<1>3. QED BY <1>1, <1>2, AdvancedProperties, AppendProperties

LEMMA LookShape ==
  ASSUME TypeOK, NEW w \in Nets, Look(w)
  PROVE  /\ work' \in Seq(FrameSet)
         /\ Len(work') = Len(work)
         /\ \A i \in 1 .. Len(work) - 1 : work'[i] = work[i]
         /\ work'[Len(work)] = [net |-> Top.net, rest |-> Top.rest \ {w}]
         /\ low' \in [Nets -> Nat \cup {Unseen}]
         /\ \A x \in Nets :
              low'[x] = IF x = Top.net /\ w \in on THEN Lesser(low[x], idx[w]) ELSE low[x]
<1>1. work # <<>> /\ work' = Advanced(w)
  BY DEF Look
<1>2. Top.net \in Nets
  BY <1>1, FramesTyped DEF FrameSet
<1>3. Lesser(low[Top.net], idx[w]) \in Nat \cup {Unseen}
  BY <1>2 DEF TypeOK, Lesser
<1>4. /\ low' \in [Nets -> Nat \cup {Unseen}]
      /\ \A x \in Nets :
           low'[x] = IF x = Top.net /\ w \in on THEN Lesser(low[x], idx[w]) ELSE low[x]
  BY <1>2, <1>3 DEF TypeOK, Look
<1>5. QED BY <1>1, <1>4, AdvancedProperties

LEMMA RetreatShape ==
  ASSUME TypeOK, Retreat
  PROVE  /\ work' \in Seq(FrameSet)
         /\ Len(work) > 0
         /\ Len(work') = Len(work) - 1
         /\ \A i \in 1 .. Len(work) - 1 : work'[i] = work[i]
         /\ Top.rest = {}
         /\ low' \in [Nets -> Nat \cup {Unseen}]
         /\ \A x \in Nets :
              low'[x] = IF Len(work) > 1 /\ x = work[Len(work) - 1].net
                        THEN Lesser(low[x], low[Top.net]) ELSE low[x]
<1>1. work # <<>> /\ work' = Rest(work) /\ Top.rest = {}
  BY DEF Retreat
<1>2. work \in Seq(FrameSet) /\ Len(work) \in Nat /\ Len(work) > 0 /\ Top.net \in Nets
  BY <1>1, FramesTyped DEF FrameSet
<1>3. CASE Len(work) > 1
  <2>1. work[Len(work) - 1].net \in Nets
    BY <1>2, <1>3, FramesTyped
  <2>2. Lesser(low[work[Len(work) - 1].net], low[Top.net]) \in Nat \cup {Unseen}
    BY <1>2, <2>1 DEF TypeOK, Lesser
  <2>3. low' = [low EXCEPT ![work[Len(work) - 1].net]
                  = Lesser(low[work[Len(work) - 1].net], low[Top.net])]
    BY <1>3 DEF Retreat
  <2>4. QED BY <1>1, <1>2, <1>3, <2>1, <2>2, <2>3, RestProperties DEF TypeOK
<1>4. CASE ~(Len(work) > 1)
  <2>1. low' = low
    BY <1>4 DEF Retreat
  <2>2. QED BY <1>1, <1>2, <1>4, <2>1, RestProperties DEF TypeOK
<1>5. QED BY <1>3, <1>4

(* The component that is popped: the part of the stack from position k up. *)
LEMMA CloseShape ==
  ASSUME TypeOK, CloseComponent
  PROVE  \E k \in 1 .. Len(stk) :
           /\ stk[k] = Top.net
           /\ stk' \in Seq(Nets)
           /\ Len(stk') = k - 1
           /\ \A j \in 1 .. k - 1 : stk'[j] = stk[j]
           /\ Popped(k) \subseteq Nets
           /\ on' = on \ Popped(k)
           /\ cyc' = IF k < Len(stk) \/ Top.net \in Succ(edges, Top.net)
                     THEN Append(cyc, Popped(k))
                     ELSE cyc
<1>1. PICK k \in 1 .. Len(stk) :
        /\ stk[k] = Top.net
        /\ stk' = SubSeq(stk, 1, k - 1)
        /\ on' = on \ Popped(k)
        /\ cyc' = IF k < Len(stk) \/ Top.net \in Succ(edges, Top.net)
                  THEN Append(cyc, Popped(k))
                  ELSE cyc
  BY DEF CloseComponent
<1>2. stk \in Seq(Nets) /\ Len(stk) \in Nat /\ k \in Nat /\ k >= 1 /\ k <= Len(stk)
  BY <1>1, LenProperties DEF TypeOK
<1>3. \A j \in 1 .. Len(stk) : stk[j] \in Nets
  BY <1>2, ElementOfSeq
<1> DEFINE m == k - 1
<1>4. m \in Nat /\ \A j \in 1 .. m : stk[j] \in Nets
  BY <1>2, <1>3
<1> HIDE DEF m
<1>5. /\ SubSeq(stk, 1, m) \in Seq(Nets)
      /\ Len(SubSeq(stk, 1, m)) = IF 1 <= m THEN m - 1 + 1 ELSE 0
      /\ \A j \in 1 .. m - 1 + 1 : SubSeq(stk, 1, m)[j] = stk[1 + j - 1]
  BY <1>4, SubSeqProperties
<1>6. stk' = SubSeq(stk, 1, m)
  BY <1>1 DEF m
<1>7. /\ Len(SubSeq(stk, 1, m)) = m
      /\ \A j \in 1 .. m : SubSeq(stk, 1, m)[j] = stk[j]
  BY <1>4, <1>5
<1>8. Popped(k) \subseteq Nets
  BY <1>2, <1>3 DEF Popped
<1>9. /\ stk' \in Seq(Nets)
      /\ Len(stk') = k - 1
      /\ \A j \in 1 .. k - 1 : stk'[j] = stk[j]
  BY <1>5, <1>6, <1>7 DEF m
<1>10. QED BY <1>1, <1>8, <1>9
-----------------------------------------------------------------------------
(* 3. Every step preserves the invariant.                                  *)

(* Types.                                                                  *)
LEMMA TypeStep ==
  ASSUME TypeOK, [Next]_vars
  PROVE  TypeOK'
<1> USE DEF FrameSet
<1>1. ASSUME NEW r \in Nets, SkipRoot(r) PROVE TypeOK'
  BY <1>1 DEF SkipRoot, TypeOK
<1>2. ASSUME NEW r \in Nets, StartRoot(r) PROVE TypeOK'
  BY <1>2, StartShape, DiscoverShape DEF StartRoot, TypeOK
<1>3. ASSUME NEW w \in Nets, Descend(w) PROVE TypeOK'
  <2>1. Discover(w) /\ UNCHANGED <<edges, todo, cyc>>
    BY <1>3 DEF Descend
  <2>2. work' \in Seq([net : Nets, rest : SUBSET Nets])
    BY <1>3, DescendShape
  <2>3. /\ idx' \in [Nets -> Nat \cup {Unseen}]
        /\ low' \in [Nets -> Nat \cup {Unseen}]
        /\ counter' = counter + 1
        /\ stk' \in Seq(Nets)
        /\ on' = on \cup {w}
    BY <2>1, DiscoverShape
  <2>4. QED BY <2>1, <2>2, <2>3 DEF TypeOK
<1>4. ASSUME NEW w \in Nets, Look(w) PROVE TypeOK'
  BY <1>4, LookShape DEF Look, TypeOK
<1>5. ASSUME FinishOpen PROVE TypeOK'
  BY <1>5, RetreatShape DEF FinishOpen, TypeOK
<1>6. ASSUME CloseComponent PROVE TypeOK'
  <2>1. PICK k \in 1 .. Len(stk) :
          /\ stk' \in Seq(Nets)
          /\ Popped(k) \subseteq Nets
          /\ on' = on \ Popped(k)
          /\ cyc' = Append(cyc, Popped(k)) \/ cyc' = cyc
    BY <1>6, CloseShape
  <2>2. cyc' \in Seq(SUBSET Nets)
    <3>1. cyc \in Seq(SUBSET Nets) /\ Popped(k) \in SUBSET Nets
      BY <2>1 DEF TypeOK
    <3>2. Append(cyc, Popped(k)) \in Seq(SUBSET Nets)
      BY <3>1, AppendProperties
    <3>3. QED BY <2>1, <3>1, <3>2
  <2>3. Retreat /\ UNCHANGED <<edges, todo, idx, counter>>
    BY <1>6 DEF CloseComponent
  <2>4. QED BY <2>1, <2>2, <2>3, RetreatShape DEF TypeOK
<1>7. CASE UNCHANGED vars
  BY <1>7 DEF vars, TypeOK
<1>8. QED BY <1>1, <1>2, <1>3, <1>4, <1>5, <1>6, <1>7 DEF Next

(* The invariant's parts as facts to cite.                                 *)
LEMMA OpenNets ==
  ASSUME IInv
  PROVE  /\ TypeOK
         /\ on \subseteq Nets
         /\ counter \in Nat
         /\ \A x \in Nets : idx[x] \in Nat \cup {Unseen} /\ idx[x] < counter
         /\ \A x \in on : idx[x] \in Nat /\ low[x] \in Nat
         /\ \A i \in 1 .. Len(work) : work[i].net \in on /\ work[i].net \in Nets
BY FramesTyped DEF IInv, TypeOK, Numbering, StackDiscipline, Numbered, Unseen

(* Descending into w: a new frame on a new net, on top of both stacks.     *)
LEMMA DescendInv ==
  ASSUME IInv, NEW w \in Nets, Descend(w)
  PROVE  IInv'
<1>0. /\ Len(work) \in Nat /\ Len(work) > 0
      /\ Top = work[Len(work)] /\ Top.net \in Nets /\ Top.net \in on
      /\ w \in Top.rest /\ w \in Succ(edges, Top.net)
      /\ ~Numbered(w) /\ w \notin on
  <2>1. TypeOK /\ StackDiscipline /\ Numbering
    BY DEF IInv
  <2>2. work # <<>> /\ w \in Top.rest /\ ~Numbered(w)
    BY DEF Descend
  <2>3. Len(work) \in Nat /\ Len(work) > 0 /\ Top = work[Len(work)] /\ Top.net \in Nets
    BY <2>1, <2>2, FramesTyped
  <2>4. Top.net \in on /\ Top.rest \subseteq Succ(edges, Top.net)
    BY <2>1, <2>3 DEF StackDiscipline
  <2>5. w \notin on
    BY <2>1, <2>2 DEF Numbering
  <2>6. QED BY <2>2, <2>3, <2>4, <2>5
<1>1. PICK n \in Nat, v \in Nets :
        /\ n = Len(work) /\ n > 0
        /\ v = Top.net /\ v = work[n].net /\ v \in on /\ v # w
        /\ w \in Top.rest /\ Top.rest = work[n].rest /\ w \in Succ(edges, v)
        /\ ~Numbered(w) /\ w \notin on
        /\ TypeOK
        /\ UNCHANGED <<edges, todo, cyc>>
  BY <1>0 DEF IInv, Descend
<1>2. /\ Len(work') = n + 1
      /\ \A i \in 1 .. n - 1 : work'[i] = work[i]
      /\ work'[n] = [net |-> v, rest |-> Top.rest \ {w}]
      /\ work'[n + 1] = [net |-> w, rest |-> Succ(edges, w)]
  BY <1>1, DescendShape DEF Frame
<1>3. /\ \A x \in Nets : idx'[x] = IF x = w THEN counter ELSE idx[x]
      /\ \A x \in Nets : low'[x] = IF x = w THEN counter ELSE low[x]
      /\ counter' = counter + 1
      /\ Len(stk) \in Nat
      /\ Len(stk') = Len(stk) + 1
      /\ \A j \in 1 .. Len(stk) : stk'[j] = stk[j]
      /\ stk'[Len(stk) + 1] = w
      /\ on' = on \cup {w}
  <2>1. Discover(w)
    BY DEF Descend
  <2>2. QED BY <1>1, <2>1, DiscoverShape
<1>4. TypeOK'
  BY <1>1, TypeStep DEF Next
<1>5. /\ on \subseteq Nets
      /\ counter \in Nat
      /\ \A x \in Nets : idx[x] \in Nat \cup {Unseen} /\ idx[x] < counter
      /\ \A x \in on : idx[x] \in Nat /\ low[x] \in Nat /\ idx'[x] = idx[x] /\ low'[x] = low[x]
      /\ idx'[w] = counter /\ low'[w] = counter
      /\ \A i \in 1 .. n : work[i].net \in on /\ work[i].net \in Nets
      /\ \A i \in 1 .. n : work'[i].net = work[i].net
      /\ work'[n + 1].net = w
  <2>1. \A i \in 1 .. n : work'[i].net = work[i].net
    BY <1>1, <1>2
  <2>2. QED BY <1>1, <1>2, <1>3, <2>1, OpenNets
<1>6. Numbering'
  <2>1. /\ \A x \in Nets : idx'[x] < counter'
        /\ \A x \in Nets : idx'[x] # Unseen => low'[x] # Unseen
        /\ \A x, y \in Nets : idx'[x] # Unseen /\ idx'[x] = idx'[y] => x = y
        /\ \A x \in on' : idx'[x] # Unseen
    <3>1. /\ \A x \in Nets : idx[x] # Unseen => low[x] # Unseen
          /\ \A x, y \in Nets : idx[x] # Unseen /\ idx[x] = idx[y] => x = y
          /\ \A x \in on : idx[x] # Unseen
      BY DEF IInv, Numbering, Numbered
    <3>2. counter \in Nat /\ counter' = counter + 1 /\ counter # Unseen
      BY <1>3, <1>5 DEF Unseen
    <3>3. \A x \in Nets : idx[x] \in Nat \cup {Unseen} /\ idx[x] < counter
      BY <1>5
    <3>4. \A x \in Nets : idx'[x] < counter'
      BY <1>3, <3>2, <3>3 DEF Unseen
    <3>5. \A x \in Nets : idx'[x] # Unseen => low'[x] # Unseen
      BY <1>3, <3>1, <3>2
    <3>6. \A x, y \in Nets : idx'[x] # Unseen /\ idx'[x] = idx'[y] => x = y
      <4>1. \A x \in Nets : idx[x] # counter
        BY <3>2, <3>3 DEF Unseen
      <4>2. QED BY <1>3, <3>1, <4>1
    <3>7. \A x \in on' : idx'[x] # Unseen
      BY <1>3, <1>5, <3>1, <3>2
    <3>8. QED BY <3>4, <3>5, <3>6, <3>7
  <2>2. ASSUME NEW r \in DOMAIN edges' PROVE r \in todo' \/ idx'[r] # Unseen
    <3>1. r \in Nets /\ r \in DOMAIN edges
      BY <1>1, EntriesAreNets DEF TypeOK
    <3>2. r \in todo \/ idx[r] # Unseen
      BY <3>1 DEF IInv, Numbering, Numbered
    <3>3. QED BY <1>1, <1>3, <1>5, <3>1, <3>2 DEF Unseen
  <2>3. QED BY <2>1, <2>2 DEF Numbering, Numbered
<1>7. StackDiscipline'
  <2>1. ASSUME NEW i \in 1 .. Len(work')
        PROVE  work'[i].rest \subseteq Succ(edges', work'[i].net)
    <3>1. \A k \in 1 .. n : work[k].rest \subseteq Succ(edges, work[k].net)
      BY <1>1 DEF IInv, StackDiscipline
    <3>2. i \in 1 .. n + 1 /\ edges' = edges
      BY <1>1, <1>2
    <3>3. CASE i \in 1 .. n - 1
      BY <1>1, <1>2, <3>1, <3>2, <3>3
    <3>4. CASE i = n
      BY <1>1, <1>2, <3>1, <3>2, <3>4
    <3>5. CASE i = n + 1
      BY <1>1, <1>2, <3>2, <3>5
    <3>6. QED BY <1>1, <3>2, <3>3, <3>4, <3>5
  <2>2. on' = {stk'[j] : j \in 1 .. Len(stk')}
    <3>1. on = {stk[j] : j \in 1 .. Len(stk)}
      BY DEF IInv, StackDiscipline
    <3>2. ASSUME NEW x \in on' PROVE \E j \in 1 .. Len(stk') : x = stk'[j]
      BY <1>3, <3>1
    <3>3. ASSUME NEW j \in 1 .. Len(stk') PROVE stk'[j] \in on'
      BY <1>3, <3>1
    <3>4. QED BY <3>2, <3>3
  <2>3. \A j \in 1 .. Len(stk) : stk[j] \in on
    BY DEF IInv, StackDiscipline
  <2>4. \A i, j \in 1 .. Len(stk') : i < j => idx'[stk'[i]] < idx'[stk'[j]]
    <3>1. \A j \in 1 .. Len(stk) : idx'[stk'[j]] = idx[stk[j]] /\ idx[stk[j]] < counter
      BY <1>3, <1>5, <2>3
    <3>2. \A i, j \in 1 .. Len(stk) : i < j => idx[stk[i]] < idx[stk[j]]
      BY DEF IInv, StackDiscipline
    <3>3. idx'[stk'[Len(stk) + 1]] = counter
      BY <1>3, <1>5
    <3>4. SUFFICES ASSUME NEW i \in 1 .. Len(stk'), NEW j \in 1 .. Len(stk'), i < j
                   PROVE  idx'[stk'[i]] < idx'[stk'[j]]
      OBVIOUS
    <3>5. Len(stk') = Len(stk) + 1 /\ Len(stk) \in Nat
      BY <1>3
    <3>6. i \in 1 .. Len(stk) /\ (j \in 1 .. Len(stk) \/ j = Len(stk) + 1)
      BY <3>4, <3>5
    <3>7. CASE j \in 1 .. Len(stk)
      BY <3>1, <3>2, <3>4, <3>6, <3>7
    <3>8. CASE j = Len(stk) + 1
      BY <3>1, <3>3, <3>6, <3>8
    <3>9. QED BY <3>6, <3>7, <3>8
  <2>5. \A i \in 1 .. Len(work') : work'[i].net \in on'
    BY <1>1, <1>2, <1>3, <1>5
  <2>6. \A i, j \in 1 .. Len(work') : i < j => idx'[work'[i].net] < idx'[work'[j].net]
    <3>1. \A i, j \in 1 .. n : i < j => idx[work[i].net] < idx[work[j].net]
      BY <1>1 DEF IInv, StackDiscipline
    <3>2. \A i \in 1 .. n : idx'[work'[i].net] = idx[work[i].net] /\ idx[work[i].net] < counter
      BY <1>5
    <3>3. idx'[work'[n + 1].net] = counter
      BY <1>5
    <3>4. SUFFICES ASSUME NEW i \in 1 .. Len(work'), NEW j \in 1 .. Len(work'), i < j
                   PROVE  idx'[work'[i].net] < idx'[work'[j].net]
      OBVIOUS
    <3>5. i \in 1 .. n /\ (j \in 1 .. n \/ j = n + 1)
      BY <1>1, <1>2, <3>4
    <3>6. CASE j \in 1 .. n
      BY <3>1, <3>2, <3>4, <3>5, <3>6
    <3>7. CASE j = n + 1
      BY <3>2, <3>3, <3>5, <3>7
    <3>8. QED BY <3>5, <3>6, <3>7
  <2>7. work' # <<>> /\ stk' # <<>> /\ stk'[1] = work'[1].net
    <3>1. stk # <<>> /\ stk[1] = work[1].net
      BY <1>1, EmptySeq DEF IInv, StackDiscipline
    <3>2. Len(stk) > 0
      BY <3>1, <1>1, EmptySeq DEF TypeOK
    <3>3. QED BY <1>1, <1>2, <1>3, <1>5, <3>1, <3>2
  <2>8. QED BY <2>1, <2>2, <2>4, <2>5, <2>6, <2>7 DEF StackDiscipline
<1>8. ASSUME NEW u \in Nets
      PROVE  /\ u # w => Yielded(u)' \subseteq Yielded(u) \cup (IF u = v THEN {w} ELSE {})
             /\ Yielded(w)' = {}
  <2>1. ASSUME u # w, NEW y \in Yielded(u)', ~(u = v /\ y = w) PROVE y \in Yielded(u)
    <3>1. y \in Succ(edges, u)
      BY <1>1, <2>1 DEF Yielded
    <3>2. ASSUME NEW i \in 1 .. n, work[i].net = u PROVE y \notin work[i].rest
      BY <1>1, <1>2, <1>5, <2>1, <3>2 DEF Yielded
    <3>3. QED BY <1>1, <3>1, <3>2 DEF Yielded
  <2>2. Yielded(w)' = {}
    BY <1>1, <1>2 DEF Yielded
  <2>3. QED BY <2>1, <2>2
<1>9. YieldedNumbered'
  <2>1. ASSUME NEW u \in Nets, Numbered(u)', NEW y \in Yielded(u)' PROVE Numbered(y)'
    <3>1. CASE u = w
      BY <1>8, <2>1, <3>1
    <3>2. CASE y = w
      BY <1>5, <3>2 DEF Numbered, Unseen
    <3>3. CASE u # w /\ y # w
      <4>1. y \in Yielded(u) /\ Numbered(u)
        BY <1>3, <1>8, <2>1, <3>3 DEF Numbered
      <4>2. y \in Nets /\ Numbered(y)
        BY <1>1, <4>1, SuccInNets DEF IInv, TypeOK, YieldedNumbered, Yielded
      <4>3. QED BY <1>3, <3>3, <4>2 DEF Numbered
    <3>4. QED BY <3>1, <3>2, <3>3
  <2>2. QED BY <2>1 DEF YieldedNumbered
<1>10. ClosedNets' = ClosedNets
  BY <1>1, <1>3, <1>5 DEF ClosedNets, Numbered, Unseen
<1>11. ClosedSealed'
  BY <1>1, <1>10 DEF IInv, ClosedSealed, Closed
<1>12. \A x \in on' : x # w => x \in on
  BY <1>3
<1>13. LowLinks'
  <2>1. ASSUME NEW x \in on', x # w
        PROVE  /\ low'[x] <= idx'[x]
               /\ \E u \in on' : idx'[u] = low'[x] /\ Reaches(edges', x, u)
               /\ ~OnPath(x)' => low'[x] < idx'[x]
    <3>1. x \in on
      BY <1>12, <2>1
    <3>2. OnPath(x) => OnPath(x)'
      BY <1>1, <1>2, <1>5 DEF OnPath
    <3>3. QED BY <1>1, <1>3, <1>5, <3>1, <3>2 DEF IInv, LowLinks
  <2>2. OnPath(w)'
    BY <1>1, <1>2, <1>5 DEF OnPath
  <2>3. QED BY <1>1, <1>3, <1>5, <2>1, <2>2, ReachRefl DEF LowLinks
<1>14. ASSUME NEW i \in 1 .. n, NEW x \in on PROVE Owns(i, x)' <=> Owns(i, x)
  <2>1. idx'[x] = idx[x] /\ idx[x] \in Nat /\ idx[x] < counter
    BY <1>5
  <2>2. idx'[work'[i].net] = idx[work[i].net]
    BY <1>5
  <2>3. CASE i = n
    BY <1>1, <1>2, <1>5, <2>1, <2>2, <2>3 DEF Owns
  <2>4. CASE i < n
    <3>1. i + 1 \in 1 .. n /\ idx'[work'[i + 1].net] = idx[work[i + 1].net]
      BY <1>1, <1>5, <2>4
    <3>2. QED BY <1>1, <1>2, <2>1, <2>2, <2>4, <3>1 DEF Owns
  <2>5. QED BY <1>1, <2>3, <2>4
<1>15. ASSUME NEW x \in on' PROVE Owns(n + 1, x)' <=> x = w
  BY <1>1, <1>2, <1>3, <1>5, <1>12 DEF Owns
<1>16. ASSUME NEW i \in 1 .. n PROVE ~Owns(i, w)'
  BY <1>1, <1>2, <1>5 DEF Owns
<1>17. Ownership'
  <2>1. ASSUME NEW x \in on' PROVE \E i \in 1 .. n + 1 : Owns(i, x)'
    <3>1. CASE x = w
      BY <1>1, <1>15, <3>1
    <3>2. CASE x # w
      <4>1. x \in on
        BY <1>12, <3>2
      <4>2. PICK i \in 1 .. n : Owns(i, x)
        BY <1>1, <4>1 DEF IInv, Ownership
      <4>3. i \in 1 .. n + 1
        BY <1>1
      <4>4. QED BY <1>14, <4>1, <4>2, <4>3
    <3>3. QED BY <3>1, <3>2
  <2>2. ASSUME NEW i \in 1 .. n + 1, NEW x \in on', idx'[work'[i].net] <= idx'[x]
        PROVE  Reaches(edges', work'[i].net, x)
    <3>1. CASE i = n + 1
      <4>1. x = w
        BY <1>5, <1>12, <2>2, <3>1
      <4>2. QED BY <1>5, <3>1, <4>1, ReachRefl
    <3>2. CASE i \in 1 .. n /\ x # w
      <4>1. x \in on /\ idx[work[i].net] <= idx[x]
        BY <1>5, <1>12, <2>2, <3>2
      <4>2. QED BY <1>1, <1>5, <3>2, <4>1 DEF IInv, Ownership
    <3>3. CASE i \in 1 .. n /\ x = w
      <4>1. idx[work[i].net] <= idx[v]
        <5>1. \A k, j \in 1 .. Len(work) : k < j => idx[work[k].net] < idx[work[j].net]
          BY DEF IInv, StackDiscipline
        <5>2. i = n \/ idx[work[i].net] < idx[work[n].net]
          BY <1>1, <3>3, <5>1
        <5>3. QED BY <1>1, <1>5, <3>3, <5>2
      <4>2. Reaches(edges, work[i].net, v)
        BY <1>1, <3>3, <4>1 DEF IInv, Ownership
      <4>3. Reaches(edges, work[i].net, w)
        BY <1>1, <4>2, ReachEdge, ReachTrans
      <4>4. QED BY <1>1, <1>5, <3>3, <4>3
    <3>4. QED BY <1>1, <3>1, <3>2, <3>3
  <2>3. ASSUME NEW i \in 1 .. n + 1, NEW x \in on', Owns(i, x)'
        PROVE  /\ Reaches(edges', x, work'[i].net)
               /\ \A y \in Yielded(x)' \cap on' : low'[work'[i].net] <= idx'[y]
    <3>1. CASE x = w
      <4>1. i = n + 1
        BY <1>1, <1>16, <2>3, <3>1
      <4>2. QED BY <1>1, <1>5, <1>8, <3>1, <4>1, ReachRefl
    <3>2. CASE x # w
      <4>1. x \in on /\ x \in Nets /\ i \in 1 .. n /\ Owns(i, x)
        BY <1>1, <1>5, <1>12, <1>14, <1>15, <2>3, <3>2
      <4>2. /\ Reaches(edges, x, work[i].net)
            /\ \A y \in Yielded(x) \cap on : low[work[i].net] <= idx[y]
        BY <1>1, <4>1 DEF IInv, Ownership
      <4>3. ASSUME NEW y \in Yielded(x)', y \in on' PROVE low'[work'[i].net] <= idx'[y]
        <5>1. CASE y = w
          <6>1. low[work[i].net] <= idx[work[i].net]
            BY <1>5, <4>1 DEF IInv, LowLinks
          <6>2. QED BY <1>5, <4>1, <5>1, <6>1
        <5>2. CASE y # w
          <6>1. y \in on /\ y \in Yielded(x)
            BY <1>8, <1>12, <3>2, <4>1, <4>3, <5>2
          <6>2. QED BY <1>5, <4>1, <4>2, <6>1
        <5>3. QED BY <5>1, <5>2
      <4>4. QED BY <1>1, <1>5, <4>1, <4>2, <4>3
    <3>3. QED BY <3>1, <3>2
  <2>4. QED BY <1>2, <2>1, <2>2, <2>3 DEF Ownership
<1>18. ReportedClosed'
  BY <1>1, <1>10 DEF IInv, ReportedClosed
<1>19. QED BY <1>4, <1>6, <1>7, <1>9, <1>11, <1>13, <1>17, <1>18 DEF IInv

(* Between two roots nothing is open.                                      *)
LEMMA NothingOpen ==
  ASSUME IInv, work = <<>>
  PROVE  Len(work) = 0 /\ stk = <<>> /\ Len(stk) = 0 /\ on = {}
<1>1. stk = <<>> /\ on = {stk[j] : j \in 1 .. Len(stk)}
  BY DEF IInv, StackDiscipline
<1>2. Len(stk) = 0 /\ Len(work) = 0
  BY <1>1
<1>3. QED BY <1>1, <1>2

(* Taking a root: the first frame and the first net of both stacks.        *)
LEMMA StartInv ==
  ASSUME IInv, NEW r \in Nets, StartRoot(r)
  PROVE  IInv'
<1>1. /\ TypeOK
      /\ work = <<>> /\ Len(work) = 0 /\ Len(stk) = 0 /\ on = {}
      /\ ~Numbered(r)
      /\ todo' = todo \ {r}
      /\ UNCHANGED <<edges, cyc>>
  BY NothingOpen DEF IInv, StartRoot
<1>2. /\ Len(work') = 1
      /\ work'[1] = [net |-> r, rest |-> Succ(edges, r)]
      /\ work'[1].net = r
  BY <1>1, StartShape DEF Frame
<1>3. /\ \A x \in Nets : idx'[x] = IF x = r THEN counter ELSE idx[x]
      /\ \A x \in Nets : low'[x] = IF x = r THEN counter ELSE low[x]
      /\ counter' = counter + 1
      /\ Len(stk') = 1
      /\ stk'[1] = r
      /\ on' = {r}
  <2>1. Discover(r)
    BY DEF StartRoot
  <2>2. QED BY <1>1, <2>1, DiscoverShape
<1>4. TypeOK'
  BY <1>1, TypeStep DEF Next
<1>5. /\ counter \in Nat
      /\ \A x \in Nets : idx[x] \in Nat \cup {Unseen} /\ idx[x] < counter
      /\ idx'[r] = counter /\ low'[r] = counter
  BY <1>1, <1>3, OpenNets
<1>6. Numbering'
  <2>1. /\ \A x \in Nets : idx'[x] < counter'
        /\ \A x \in Nets : idx'[x] # Unseen => low'[x] # Unseen
        /\ \A x, y \in Nets : idx'[x] # Unseen /\ idx'[x] = idx'[y] => x = y
        /\ \A x \in on' : idx'[x] # Unseen
    BY <1>3, <1>5 DEF IInv, Numbering, Numbered, Unseen
  <2>2. ASSUME NEW q \in DOMAIN edges' PROVE q \in todo' \/ idx'[q] # Unseen
    <3>1. q \in Nets /\ q \in DOMAIN edges
      BY <1>1, EntriesAreNets DEF TypeOK
    <3>2. q \in todo \/ idx[q] # Unseen
      BY <3>1 DEF IInv, Numbering, Numbered
    <3>3. QED BY <1>1, <1>3, <1>5, <3>1, <3>2 DEF Unseen
  <2>3. QED BY <2>1, <2>2 DEF Numbering, Numbered
<1>7. StackDiscipline'
  <2>1. work' # <<>> /\ stk' # <<>>
    BY <1>2, <1>3
  <2>2. on' = {stk'[j] : j \in 1 .. Len(stk')}
    BY <1>3
  <2>3. /\ \A i \in 1 .. Len(work') : work'[i].rest \subseteq Succ(edges', work'[i].net)
        /\ \A i \in 1 .. Len(work') : work'[i].net \in on'
    BY <1>1, <1>2, <1>3
  <2>4. QED BY <1>2, <1>3, <2>1, <2>2, <2>3 DEF StackDiscipline
<1>8. ASSUME NEW u \in Nets
      PROVE  IF u = r THEN Yielded(u)' = {} ELSE Yielded(u)' \subseteq Yielded(u)
  BY <1>1, <1>2 DEF Yielded
<1>9. YieldedNumbered'
  <2>1. ASSUME NEW u \in Nets, Numbered(u)', NEW y \in Yielded(u)' PROVE Numbered(y)'
    <3>1. u # r /\ y \in Yielded(u) /\ Numbered(u)
      BY <1>3, <1>8, <2>1 DEF Numbered
    <3>2. y \in Nets /\ Numbered(y)
      BY <1>1, <3>1, SuccInNets DEF IInv, TypeOK, YieldedNumbered, Yielded
    <3>3. QED BY <1>3, <1>5, <3>2 DEF Numbered, Unseen
  <2>2. QED BY <2>1 DEF YieldedNumbered
<1>10. ClosedNets' = ClosedNets
  BY <1>1, <1>3, <1>5 DEF ClosedNets, Numbered, Unseen
<1>11. ClosedSealed'
  BY <1>1, <1>10 DEF IInv, ClosedSealed, Closed
<1>12. LowLinks'
  BY <1>2, <1>3, <1>5, ReachRefl DEF LowLinks, OnPath
<1>13. Ownership'
  <2>1. Owns(1, r)'
    BY <1>2, <1>5 DEF Owns
  <2>2. Yielded(r)' = {}
    BY <1>8
  <2>3. QED BY <1>2, <1>3, <2>1, <2>2, ReachRefl DEF Ownership
<1>14. ReportedClosed'
  BY <1>1, <1>10 DEF IInv, ReportedClosed
<1>15. QED BY <1>4, <1>6, <1>7, <1>9, <1>11, <1>12, <1>13, <1>14 DEF IInv

(* A root that is already numbered is only struck off the list.            *)
LEMMA SkipInv ==
  ASSUME IInv, NEW r \in Nets, SkipRoot(r)
  PROVE  IInv'
<1>1. /\ UNCHANGED <<edges, work, idx, low, counter, stk, on, cyc>>
      /\ todo' = todo \ {r}
      /\ Numbered(r)
  BY DEF SkipRoot
<1>2. TypeOK'
  BY TypeStep DEF IInv, Next
<1>3. Numbering'
  BY <1>1 DEF IInv, Numbering, Numbered
<1>4. /\ \A u : Yielded(u)' = Yielded(u)
      /\ \A i, x : Owns(i, x)' <=> Owns(i, x)
      /\ \A x : OnPath(x)' <=> OnPath(x)
      /\ ClosedNets' = ClosedNets
  BY <1>1 DEF Yielded, Owns, OnPath, ClosedNets, Numbered
<1>5. StackDiscipline'
  BY <1>1 DEF IInv, StackDiscipline
<1>6. YieldedNumbered' /\ ClosedSealed'
  BY <1>1, <1>4 DEF IInv, YieldedNumbered, ClosedSealed, Closed, Numbered
<1>7. LowLinks'
  BY <1>1, <1>4 DEF IInv, LowLinks
<1>8. Ownership'
  BY <1>1, <1>4 DEF IInv, Ownership
<1>9. ReportedClosed'
  BY <1>1, <1>4 DEF IInv, ReportedClosed
<1>10. QED BY <1>2, <1>3, <1>5, <1>6, <1>7, <1>8, <1>9 DEF IInv

(* What the invariant says of the top frame.                               *)
LEMMA TopFrame ==
  ASSUME IInv, work # <<>>
  PROVE  /\ Len(work) \in Nat /\ Len(work) > 0
         /\ Top = work[Len(work)] /\ Top.net \in Nets /\ Top.net \in on
         /\ Top.rest \subseteq Succ(edges, Top.net)
BY FramesTyped DEF IInv, StackDiscipline

(* Frames are in discovery order.                                          *)
LEMMA FrameOrder ==
  ASSUME IInv, NEW i \in 1 .. Len(work), NEW j \in 1 .. Len(work), i <= j
  PROVE  /\ idx[work[i].net] <= idx[work[j].net]
         /\ i < j => idx[work[i].net] < idx[work[j].net]
<1>1. \A a, b \in 1 .. Len(work) : a < b => idx[work[a].net] < idx[work[b].net]
  BY DEF IInv, StackDiscipline
<1>2. idx[work[i].net] \in Nat /\ idx[work[j].net] \in Nat
  BY OpenNets
<1>3. CASE i = j
  BY <1>2, <1>3
<1>4. CASE i < j
  BY <1>1, <1>2, <1>4
<1>5. Len(work) \in Nat
  BY FramesTyped DEF IInv
<1>6. QED BY <1>3, <1>4, <1>5

(* Looking at a numbered successor: only the top net's low-link moves.     *)
LEMMA LookInv ==
  ASSUME IInv, NEW w \in Nets, Look(w)
  PROVE  IInv'
<1>1. PICK n \in Nat, v \in Nets :
        /\ n = Len(work) /\ n > 0
        /\ v = Top.net /\ v = work[n].net /\ v \in on
        /\ Top.rest = work[n].rest /\ w \in Succ(edges, v)
        /\ Numbered(w)
        /\ TypeOK
        /\ UNCHANGED <<edges, todo, idx, counter, stk, on, cyc>>
  BY TopFrame DEF IInv, Look
<1>2. /\ Len(work') = n
      /\ \A i \in 1 .. n - 1 : work'[i] = work[i]
      /\ work'[n] = [net |-> v, rest |-> Top.rest \ {w}]
  BY <1>1, LookShape
<1>3. \A x \in Nets :
        low'[x] = IF x = v /\ w \in on THEN Lesser(low[x], idx[w]) ELSE low[x]
  <2>1. Top.net = v /\ TypeOK /\ Look(w)
    BY <1>1
  <2>2. QED BY <2>1, LookShape
<1>4. TypeOK'
  BY <1>1, TypeStep DEF Next
<1>5. /\ \A x \in on : x \in Nets /\ idx[x] \in Nat /\ low[x] \in Nat
      /\ \A i \in 1 .. n : work[i].net \in on /\ work[i].net \in Nets
      /\ \A i \in 1 .. n : work'[i].net = work[i].net
  <2>1. \A i \in 1 .. n : work'[i].net = work[i].net
    BY <1>1, <1>2
  <2>2. QED BY <1>1, <2>1, OpenNets
<1>6. /\ \A x \in on : low'[x] <= low[x]
      /\ \A x \in on : x # v => low'[x] = low[x]
      /\ w \in on => low'[v] <= idx[w]
      /\ low'[v] = low[v] \/ (w \in on /\ low'[v] = idx[w])
  BY <1>1, <1>3, <1>5 DEF Lesser
<1>7. Numbering'
  <2>1. \A x \in Nets : low[x] # Unseen => low'[x] # Unseen
    BY <1>3, <1>5 DEF Lesser, Unseen
  <2>2. QED BY <1>1, <2>1 DEF IInv, Numbering, Numbered
<1>8. \A x \in Nets : OnPath(x)' <=> OnPath(x)
  BY <1>1, <1>2, <1>5 DEF OnPath
<1>9. StackDiscipline'
  <2>1. \A i \in 1 .. n : work'[i].rest \subseteq work[i].rest
    BY <1>1, <1>2
  <2>2. \A i \in 1 .. n : work[i].rest \subseteq Succ(edges, work[i].net)
    BY <1>1 DEF IInv, StackDiscipline
  <2>3. \A i \in 1 .. n : work'[i].rest \subseteq Succ(edges', work'[i].net)
    BY <1>1, <1>5, <2>1, <2>2
  <2>4. \A i, j \in 1 .. n : i < j => idx[work'[i].net] < idx[work'[j].net]
    BY <1>1, <1>5, FrameOrder
  <2>5. work # <<>> /\ work' # <<>> /\ stk # <<>> /\ stk[1] = work'[1].net
    BY <1>1, <1>2, <1>5, EmptySeq DEF IInv, StackDiscipline
  <2>6. /\ on' = {stk'[j] : j \in 1 .. Len(stk')}
        /\ \A i, j \in 1 .. Len(stk') : i < j => idx'[stk'[i]] < idx'[stk'[j]]
    BY <1>1 DEF IInv, StackDiscipline
  <2>7. \A i \in 1 .. n : work'[i].net \in on'
    BY <1>1, <1>5
  <2>8. Len(work') = n /\ idx' = idx /\ stk' = stk
    BY <1>1, <1>2
  <2>9. QED BY <2>3, <2>4, <2>5, <2>6, <2>7, <2>8 DEF StackDiscipline
<1>10. ASSUME NEW u \in Nets
       PROVE  Yielded(u)' \subseteq Yielded(u) \cup (IF u = v THEN {w} ELSE {})
  <2>1. ASSUME NEW y \in Yielded(u)', ~(u = v /\ y = w) PROVE y \in Yielded(u)
    <3>1. y \in Succ(edges, u)
      BY <1>1 DEF Yielded
    <3>2. ASSUME NEW i \in 1 .. n, work[i].net = u PROVE y \notin work[i].rest
      BY <1>1, <1>2, <1>5, <2>1, <3>2 DEF Yielded
    <3>3. QED BY <1>1, <3>1, <3>2 DEF Yielded
  <2>2. QED BY <2>1
<1>11. YieldedNumbered'
  <2>1. ASSUME NEW u \in Nets, Numbered(u)', NEW y \in Yielded(u)' PROVE Numbered(y)'
    BY <1>1, <1>10, <2>1 DEF IInv, YieldedNumbered, Numbered
  <2>2. QED BY <2>1 DEF YieldedNumbered
<1>12. ClosedNets' = ClosedNets
  BY <1>1 DEF ClosedNets, Numbered
<1>13. ClosedSealed' /\ ReportedClosed'
  BY <1>1, <1>12 DEF IInv, ClosedSealed, Closed, ReportedClosed
<1>14. LowLinks'
  <2>1. ASSUME NEW x \in on
        PROVE  /\ low'[x] <= idx[x]
               /\ \E u \in on : idx[u] = low'[x] /\ Reaches(edges, x, u)
               /\ ~OnPath(x)' => low'[x] < idx[x]
    <3>1. low[x] <= idx[x] /\ (~OnPath(x) => low[x] < idx[x])
      BY DEF IInv, LowLinks
    <3>2. PICK u \in on : idx[u] = low[x] /\ Reaches(edges, x, u)
      BY DEF IInv, LowLinks
    <3>3. OnPath(v)
      BY <1>1 DEF OnPath
    <3>4. CASE low'[x] = low[x]
      BY <1>5, <1>8, <3>1, <3>2, <3>4
    <3>5. CASE x = v /\ w \in on /\ low'[v] = idx[w]
      <4>1. Reaches(edges, v, w)
        BY <1>1, ReachEdge
      <4>2. low'[x] <= idx[x]
        BY <1>5, <1>6, <3>1, <3>5
      <4>3. QED BY <1>5, <1>8, <3>3, <3>5, <4>1, <4>2
    <3>6. QED BY <1>6, <3>4, <3>5
  <2>2. QED BY <1>1, <2>1 DEF LowLinks
<1>15. ASSUME NEW i \in 1 .. n, NEW x \in on PROVE Owns(i, x)' <=> Owns(i, x)
  <2>1. i < n => i + 1 \in 1 .. n
    OBVIOUS
  <2>2. QED BY <1>1, <1>2, <1>5, <2>1 DEF Owns
<1>16. Ownership'
  <2>1. ASSUME NEW x \in on PROVE \E i \in 1 .. n : Owns(i, x)'
    BY <1>1, <1>15 DEF IInv, Ownership
  <2>2. ASSUME NEW i \in 1 .. n, NEW x \in on, idx[work[i].net] <= idx[x]
        PROVE  Reaches(edges, work[i].net, x)
    BY <1>1, <2>2 DEF IInv, Ownership
  <2>3. ASSUME NEW i \in 1 .. n, NEW x \in on, Owns(i, x)'
        PROVE  /\ Reaches(edges, x, work[i].net)
               /\ \A y \in Yielded(x)' \cap on : low'[work[i].net] <= idx[y]
    <3>1. /\ Owns(i, x)
          /\ Reaches(edges, x, work[i].net)
          /\ \A y \in Yielded(x) \cap on : low[work[i].net] <= idx[y]
      BY <1>1, <1>15, <2>3 DEF IInv, Ownership
    <3>2. ASSUME NEW y \in Yielded(x)', y \in on PROVE low'[work[i].net] <= idx[y]
      <4>1. CASE y \in Yielded(x)
        <5>1. low[work[i].net] <= idx[y]
          BY <3>1, <3>2, <4>1
        <5>2. low'[work[i].net] <= low[work[i].net]
          BY <1>5, <1>6
        <5>3. low'[work[i].net] \in Nat
          BY <1>1, <1>5, <1>6
        <5>4. QED BY <1>5, <3>2, <5>1, <5>2, <5>3
      <4>2. CASE x = v /\ y = w
        <5>1. ASSUME i < n PROVE FALSE
          <6>1. idx[v] < idx[work[i + 1].net]
            BY <1>1, <3>1, <4>2, <5>1 DEF Owns
          <6>2. idx[work[i + 1].net] <= idx[work[n].net]
            BY <1>1, <5>1, FrameOrder
          <6>3. work[i + 1].net \in on
            BY <1>5, <5>1
          <6>4. QED BY <1>1, <1>5, <6>1, <6>2, <6>3
        <5>2. i = n
          BY <5>1
        <5>3. QED BY <1>1, <1>6, <3>2, <4>2, <5>2
      <4>3. QED BY <1>5, <1>10, <3>2, <4>1, <4>2
    <3>3. QED BY <3>1, <3>2
  <2>4. QED BY <1>1, <1>2, <1>5, <2>1, <2>2, <2>3 DEF Ownership
<1>17. QED BY <1>4, <1>7, <1>9, <1>11, <1>13, <1>14, <1>16 DEF IInv

(* Popping the top frame: what holds whichever way the net is finished.    *)
LEMMA RetreatFacts ==
  ASSUME IInv, Retreat
  PROVE  /\ Len(work) \in Nat /\ Len(work) > 0 /\ Len(work') = Len(work) - 1
         /\ Top = work[Len(work)] /\ Top.net \in on /\ Top.net \in Nets
         /\ \A i \in 1 .. Len(work) - 1 : work'[i] = work[i]
         /\ \A u : Succ(edges', u) = Succ(edges, u) => Yielded(u)' \subseteq Yielded(u)
         /\ \A u : OnPath(u) => OnPath(u)' \/ u = Top.net
<1>1. /\ Len(work) \in Nat /\ Len(work) > 0 /\ Len(work') = Len(work) - 1
      /\ Top = work[Len(work)] /\ Top.net \in on /\ Top.net \in Nets
      /\ \A i \in 1 .. Len(work) - 1 : work'[i] = work[i]
      /\ Top.rest = {}
  BY RetreatShape, TopFrame DEF IInv, Retreat
<1>2. ASSUME NEW u, Succ(edges', u) = Succ(edges, u), NEW y \in Yielded(u)'
      PROVE  y \in Yielded(u)
  <2>1. y \in Succ(edges, u)
    BY <1>2 DEF Yielded
  <2>2. ASSUME NEW i \in 1 .. Len(work), work[i].net = u PROVE y \notin work[i].rest
    <3>1. CASE i = Len(work)
      BY <1>1, <3>1
    <3>2. CASE i # Len(work)
      <4>1. i \in 1 .. Len(work') /\ work'[i] = work[i]
        BY <1>1, <3>2
      <4>2. QED BY <1>2, <2>2, <4>1 DEF Yielded
    <3>3. QED BY <3>1, <3>2
  <2>3. QED BY <2>1, <2>2 DEF Yielded
<1>3. ASSUME NEW u, OnPath(u), u # Top.net PROVE OnPath(u)'
  <2>1. PICK i \in 1 .. Len(work) : work[i].net = u
    BY <1>3 DEF OnPath
  <2>2. i \in 1 .. Len(work') /\ work'[i] = work[i]
    BY <1>1, <1>3, <2>1
  <2>3. QED BY <2>1, <2>2 DEF OnPath
<1>4. QED BY <1>1, <1>2, <1>3

(* Retreating from a net whose component stays open.                       *)
LEMMA FinishOpenInv ==
  ASSUME IInv, FinishOpen
  PROVE  IInv'
<1>0. /\ Retreat /\ low[Top.net] # idx[Top.net]
      /\ UNCHANGED <<edges, todo, idx, counter, stk, on, cyc>>
  BY DEF FinishOpen
<1>1. PICK n \in Nat, v \in Nets :
        /\ n = Len(work) /\ n > 0 /\ Len(work') = n - 1
        /\ v = Top.net /\ v = work[n].net /\ v \in on
        /\ low[v] # idx[v]
        /\ TypeOK
  BY <1>0, RetreatFacts DEF IInv
<1>2. /\ \A i \in 1 .. n - 1 : work'[i] = work[i]
      /\ \A u \in Nets : Yielded(u)' \subseteq Yielded(u)
      /\ \A u \in Nets : OnPath(u) => OnPath(u)' \/ u = v
  BY <1>0, <1>1, RetreatFacts
<1>3. TypeOK'
  BY <1>1, TypeStep DEF Next
<1>4. /\ \A x \in on : x \in Nets /\ idx[x] \in Nat /\ low[x] \in Nat
      /\ \A i \in 1 .. n : work[i].net \in on /\ work[i].net \in Nets
  BY <1>1, OpenNets
<1>5. low[v] < idx[v]
  BY <1>1, <1>4 DEF IInv, LowLinks
<1>6. PICK u \in on : idx[u] = low[v] /\ Reaches(edges, v, u)
  BY <1>1 DEF IInv, LowLinks
\* The low-link of the first frame's net cannot lie below it.
<1>7. n > 1
  <2>1. ASSUME n = 1 PROVE FALSE
    <3>1. /\ stk # <<>> /\ stk[1] = v
          /\ on = {stk[j] : j \in 1 .. Len(stk)}
          /\ \A i, j \in 1 .. Len(stk) : i < j => idx[stk[i]] < idx[stk[j]]
      BY <1>1, <2>1, EmptySeq DEF IInv, StackDiscipline
    <3>2. PICK j \in 1 .. Len(stk) : u = stk[j]
      BY <3>1
    <3>3. Len(stk) \in Nat
      BY <1>1, LenProperties DEF TypeOK
    <3>4. j = 1 \/ idx[stk[1]] < idx[stk[j]]
      BY <3>1, <3>2, <3>3
    <3>5. QED BY <1>1, <1>4, <1>5, <1>6, <3>1, <3>2, <3>4
  <2>2. QED BY <1>1, <2>1
<1>8. PICK p \in Nets : p = work[n - 1].net /\ p \in on /\ idx[p] < idx[v] /\ p # v
  <2>1. n - 1 \in 1 .. Len(work) /\ n \in 1 .. Len(work) /\ n - 1 < n /\ n - 1 <= n
    BY <1>1, <1>7
  <2>2. idx[work[n - 1].net] < idx[work[n].net]
    BY <2>1, FrameOrder
  <2>3. QED BY <1>1, <1>4, <2>1, <2>2
<1>9. /\ \A x \in Nets : low'[x] = IF x = p THEN Lesser(low[x], low[v]) ELSE low[x]
      /\ \A x \in on : low'[x] <= low[x] /\ (x # p => low'[x] = low[x])
      /\ low'[p] <= low[v]
      /\ low'[p] = low[p] \/ low'[p] = low[v]
      /\ \A x \in on : low'[x] \in Nat
  <2>1. \A x \in Nets : low'[x] = IF x = p THEN Lesser(low[x], low[v]) ELSE low[x]
    BY <1>0, <1>1, <1>7, <1>8, RetreatShape
  <2>2. v \in on /\ p \in on /\ \A x \in on : x \in Nets /\ low[x] \in Nat
    BY <1>1, <1>4, <1>8
  <2>3. \A x \in on : x # p => low'[x] = low[x]
    BY <2>1, <2>2
  <2>4. low'[p] = IF low[p] < low[v] THEN low[p] ELSE low[v]
    BY <2>1, <2>2 DEF Lesser
  <2>5. low[p] \in Nat /\ low[v] \in Nat
    BY <2>2
  <2>6. /\ low'[p] <= low[v] /\ low'[p] <= low[p] /\ low'[p] \in Nat
        /\ low'[p] = low[p] \/ low'[p] = low[v]
    BY <2>4, <2>5
  <2>7. \A x \in on : low'[x] <= low[x] /\ low'[x] \in Nat
    BY <2>2, <2>3, <2>6
  <2>8. QED BY <2>1, <2>3, <2>6, <2>7
<1>10. Numbering'
  <2>1. \A x \in Nets : low[x] # Unseen => low'[x] # Unseen
    BY <1>1, <1>4, <1>9 DEF Lesser, Unseen
  <2>2. QED BY <1>0, <2>1 DEF IInv, Numbering, Numbered
<1>11. StackDiscipline'
  <2>1. /\ \A i \in 1 .. n - 1 : work'[i].net \in on
        /\ \A i \in 1 .. n - 1 : work'[i].rest \subseteq Succ(edges, work'[i].net)
        /\ \A i, j \in 1 .. n - 1 : i < j => idx[work'[i].net] < idx[work'[j].net]
    <3>1. \A i \in 1 .. n - 1 : i \in 1 .. Len(work) /\ work'[i] = work[i]
      BY <1>1, <1>2
    <3>2. \A i \in 1 .. Len(work) : work[i].rest \subseteq Succ(edges, work[i].net)
      BY DEF IInv, StackDiscipline
    <3>3. \A i, j \in 1 .. n - 1 : i < j => idx[work[i].net] < idx[work[j].net]
      <4>1. \A i, j \in 1 .. Len(work) : i < j => idx[work[i].net] < idx[work[j].net]
        BY DEF IInv, StackDiscipline
      <4>2. QED BY <3>1, <4>1
    <3>4. \A i \in 1 .. n - 1 : work'[i].net \in on
      BY <1>4, <3>1, <1>1
    <3>5. \A i \in 1 .. n - 1 : work'[i].rest \subseteq Succ(edges, work'[i].net)
      BY <3>1, <3>2
    <3>6. \A i, j \in 1 .. n - 1 : i < j => idx[work'[i].net] < idx[work'[j].net]
      BY <3>1, <3>3
    <3>7. QED BY <3>4, <3>5, <3>6
  <2>2. work # <<>> /\ work' # <<>> /\ stk # <<>> /\ stk[1] = work'[1].net
    <3>1. work # <<>> /\ work' # <<>>
      BY <1>1, <1>7, EmptySeq
    <3>2. work'[1] = work[1]
      BY <1>1, <1>2, <1>7
    <3>3. QED BY <3>1, <3>2 DEF IInv, StackDiscipline
  <2>3. QED BY <1>0, <1>1, <2>1, <2>2 DEF IInv, StackDiscipline
<1>12. YieldedNumbered'
  BY <1>0, <1>2 DEF IInv, YieldedNumbered, Numbered
<1>13. ClosedNets' = ClosedNets
  BY <1>0 DEF ClosedNets, Numbered
<1>14. ClosedSealed' /\ ReportedClosed'
  BY <1>0, <1>13 DEF IInv, ClosedSealed, Closed, ReportedClosed
\* The parent leads to v, hence to the net v's low-link numbers.
<1>15. Reaches(edges, p, v)
  <2>1. n - 1 \in 1 .. Len(work) /\ idx[work[n - 1].net] <= idx[v]
    BY <1>1, <1>4, <1>7, <1>8
  <2>2. QED BY <1>1, <1>8, <2>1 DEF IInv, Ownership
<1>16. LowLinks'
  <2>1. ASSUME NEW x \in on
        PROVE  /\ low'[x] <= idx[x]
               /\ \E y \in on : idx[y] = low'[x] /\ Reaches(edges, x, y)
               /\ ~OnPath(x)' => low'[x] < idx[x]
    <3>1. low[x] <= idx[x] /\ (~OnPath(x) => low[x] < idx[x])
      BY DEF IInv, LowLinks
    <3>2. PICK y \in on : idx[y] = low[x] /\ Reaches(edges, x, y)
      BY DEF IInv, LowLinks
    <3>3. low'[x] <= idx[x]
      BY <1>4, <1>9, <3>1
    <3>4. \E z \in on : idx[z] = low'[x] /\ Reaches(edges, x, z)
      <4>1. CASE low'[x] = low[x]
        BY <3>2, <4>1
      <4>2. CASE x = p /\ low'[p] = low[v]
        BY <1>6, <1>15, <4>2, ReachTrans
      <4>3. QED BY <1>9, <4>1, <4>2
    <3>5. ASSUME ~OnPath(x)' PROVE low'[x] < idx[x]
      <4>1. CASE x = v
        BY <1>5, <1>8, <1>9, <4>1
      <4>2. CASE x # v
        <5>1. low[x] < idx[x]
          BY <1>2, <1>4, <3>1, <3>5, <4>2
        <5>2. QED BY <1>4, <1>9, <5>1
      <4>3. QED BY <4>1, <4>2
    <3>6. QED BY <3>3, <3>4, <3>5
  <2>2. QED BY <1>0, <2>1 DEF LowLinks
\* The parent takes over what v owned.
<1>17. ASSUME NEW i \in 1 .. n - 1, NEW x \in on
       PROVE  Owns(i, x)' <=> Owns(i, x) \/ (i = n - 1 /\ Owns(n, x))
  <2>1. work'[i] = work[i] /\ idx' = idx
    BY <1>0, <1>2
  <2>2. CASE i < n - 1
    <3>1. i + 1 \in 1 .. n - 1 /\ work'[i + 1] = work[i + 1]
      BY <1>2, <2>2
    <3>2. QED BY <1>1, <2>1, <2>2, <3>1 DEF Owns
  <2>3. CASE i = n - 1
    BY <1>1, <1>4, <1>8, <2>1, <2>3 DEF Owns
  <2>4. QED BY <1>1, <2>2, <2>3
<1>18. Ownership'
  <2>1. ASSUME NEW x \in on PROVE \E i \in 1 .. n - 1 : Owns(i, x)'
    <3>1. PICK i \in 1 .. n : Owns(i, x)
      BY <1>1 DEF IInv, Ownership
    <3>2. CASE i = n
      <4>1. n - 1 \in 1 .. n - 1
        BY <1>7
      <4>2. QED BY <1>17, <3>1, <3>2, <4>1
    <3>3. CASE i # n
      <4>1. i \in 1 .. n - 1
        BY <3>1, <3>3
      <4>2. QED BY <1>17, <3>1, <4>1
    <3>4. QED BY <3>2, <3>3
  <2>2. ASSUME NEW i \in 1 .. n - 1, NEW x \in on, idx[work'[i].net] <= idx[x]
        PROVE  Reaches(edges, work'[i].net, x)
    <3>1. i \in 1 .. Len(work) /\ work'[i] = work[i]
      BY <1>1, <1>2
    <3>2. QED BY <2>2, <3>1 DEF IInv, Ownership
  <2>3. ASSUME NEW i \in 1 .. n - 1, NEW x \in on, Owns(i, x)'
        PROVE  /\ Reaches(edges, x, work'[i].net)
               /\ \A y \in Yielded(x)' \cap on : low'[work'[i].net] <= idx[y]
    <3>1. i \in 1 .. Len(work) /\ n \in 1 .. Len(work) /\ work'[i] = work[i]
      BY <1>1, <1>2
    <3>2. work[i].net \in on /\ low'[work[i].net] <= low[work[i].net]
      BY <1>4, <1>9
    <3>3. CASE Owns(i, x)
      <4>1. /\ Reaches(edges, x, work[i].net)
            /\ \A y \in Yielded(x) \cap on : low[work[i].net] <= idx[y]
        BY <3>1, <3>3 DEF IInv, Ownership
      <4>2. ASSUME NEW y \in Yielded(x)', y \in on PROVE low'[work[i].net] <= idx[y]
        <5>1. y \in Yielded(x)
          BY <1>2, <1>4, <4>2
        <5>2. low[work[i].net] <= idx[y]
          BY <4>1, <4>2, <5>1
        <5>3. QED BY <1>4, <1>9, <3>2, <4>2, <5>2
      <4>3. QED BY <3>1, <4>1, <4>2
    <3>4. CASE i = n - 1 /\ Owns(n, x)
      <4>1. /\ Reaches(edges, x, v)
            /\ \A y \in Yielded(x) \cap on : low[v] <= idx[y]
        BY <1>1, <3>1, <3>4 DEF IInv, Ownership
      <4>2. ASSUME NEW y \in Yielded(x)', y \in on PROVE low'[p] <= idx[y]
        <5>1. y \in Yielded(x)
          BY <1>2, <1>4, <4>2
        <5>2. low[v] <= idx[y]
          BY <4>1, <4>2, <5>1
        <5>3. QED BY <1>1, <1>4, <1>8, <1>9, <4>2, <5>2
      <4>3. PICK j \in 1 .. n : Owns(j, u)
        BY <1>1, <1>6 DEF IInv, Ownership
      <4>4. j \in 1 .. n - 1
        <5>1. ASSUME j = n PROVE FALSE
          BY <1>1, <1>4, <1>5, <1>6, <4>3, <5>1 DEF Owns
        <5>2. QED BY <4>3, <5>1
      <4>5. Reaches(edges, u, work[j].net)
        BY <1>1, <1>6, <4>3 DEF IInv, Ownership
      <4>6. idx[work[j].net] <= idx[p]
        <5>1. j \in 1 .. Len(work) /\ n - 1 \in 1 .. Len(work) /\ j <= n - 1
          BY <1>1, <1>7, <4>4
        <5>2. QED BY <1>8, <5>1, FrameOrder
      <4>7. Reaches(edges, work[j].net, p)
        BY <1>1, <1>8, <4>3, <4>6 DEF IInv, Ownership
      <4>8. Reaches(edges, x, p)
        BY <1>6, <4>1, <4>5, <4>7, ReachTrans
      <4>9. QED BY <1>8, <3>1, <3>4, <4>2, <4>8
    <3>5. QED BY <1>17, <2>3, <3>3, <3>4
  <2>4. QED BY <1>0, <1>1, <2>1, <2>2, <2>3 DEF Ownership
<1>19. QED BY <1>3, <1>10, <1>11, <1>12, <1>14, <1>16, <1>18 DEF IInv

(* The component is popped as a whole: it is what v reaches and what       *)
(* reaches v.                                                              *)
LEMMA CloseComponentInv ==
  ASSUME IInv, CloseComponent
  PROVE  IInv'
<1>0. Retreat /\ UNCHANGED <<edges, todo, idx, counter>>
  BY DEF CloseComponent
<1>1. PICK n \in Nat, v \in Nets :
        /\ n = Len(work) /\ n > 0 /\ Len(work') = n - 1
        /\ v = Top.net /\ v = work[n].net /\ v \in on
        /\ low[v] = idx[v]
        /\ Top.rest = work[n].rest /\ Top.rest = {}
        /\ TypeOK
  BY <1>0, RetreatFacts DEF IInv, CloseComponent, Retreat
<1>2. /\ \A i \in 1 .. n - 1 : i \in 1 .. Len(work) /\ work'[i] = work[i]
      /\ \A u \in Nets : Yielded(u)' \subseteq Yielded(u)
      /\ \A u \in Nets : OnPath(u) => OnPath(u)' \/ u = v
  BY <1>0, <1>1, RetreatFacts
<1>3. TypeOK'
  BY <1>1, TypeStep DEF Next
<1>4. /\ \A x \in on : x \in Nets /\ idx[x] \in Nat /\ low[x] \in Nat
      /\ \A i \in 1 .. n : work[i].net \in on /\ work[i].net \in Nets
  BY <1>1, OpenNets
<1>5. PICK C \in SUBSET Nets :
        /\ C = {x \in on : idx[v] <= idx[x]}
        /\ on' = on \ C
        /\ cyc' = IF C # {v} \/ v \in Succ(edges, v) THEN Append(cyc, C) ELSE cyc
        /\ \A i, j \in 1 .. Len(stk') : i < j => idx[stk'[i]] < idx[stk'[j]]
        /\ on' = {stk'[j] : j \in 1 .. Len(stk')}
        /\ n > 1 => stk' # <<>> /\ stk'[1] = stk[1]
        /\ n = 1 => stk' = <<>>
  <2>1. PICK k \in 1 .. Len(stk) :
          /\ stk[k] = v
          /\ stk' \in Seq(Nets)
          /\ Len(stk') = k - 1
          /\ \A j \in 1 .. k - 1 : stk'[j] = stk[j]
          /\ Popped(k) \subseteq Nets
          /\ on' = on \ Popped(k)
          /\ cyc' = IF k < Len(stk) \/ v \in Succ(edges, v)
                    THEN Append(cyc, Popped(k)) ELSE cyc
    BY <1>1, CloseShape
  <2>2. /\ on = {stk[j] : j \in 1 .. Len(stk)}
        /\ \A i, j \in 1 .. Len(stk) : i < j => idx[stk[i]] < idx[stk[j]]
        /\ stk[1] = work[1].net
        /\ Len(stk) \in Nat /\ k >= 1 /\ k <= Len(stk) /\ k \in Nat
        /\ \A j \in 1 .. Len(stk) : stk[j] \in on
    <3>1. work # <<>>
      BY <1>1, EmptySeq
    <3>2. /\ on = {stk[j] : j \in 1 .. Len(stk)}
          /\ \A i, j \in 1 .. Len(stk) : i < j => idx[stk[i]] < idx[stk[j]]
          /\ stk[1] = work[1].net
      BY <3>1 DEF IInv, StackDiscipline
    <3>3. Len(stk) \in Nat
      BY LenProperties DEF IInv, TypeOK
    <3>4. k >= 1 /\ k <= Len(stk) /\ k \in Nat
      BY <2>1, <3>3
    <3>5. \A j \in 1 .. Len(stk) : stk[j] \in on
      BY <3>2
    <3>6. QED BY <3>2, <3>3, <3>4, <3>5
  <2>3. /\ idx[v] \in Nat
        /\ \A j \in 1 .. Len(stk) : stk[j] \in on /\ idx[stk[j]] \in Nat
        /\ \A j \in 1 .. k - 1 : j \in 1 .. Len(stk) /\ idx[stk[j]] < idx[v]
        /\ \A j \in k + 1 .. Len(stk) : j \in 1 .. Len(stk) /\ idx[v] < idx[stk[j]]
    <3>1. /\ idx[v] \in Nat
          /\ \A j \in 1 .. Len(stk) : stk[j] \in on /\ idx[stk[j]] \in Nat
      BY <1>1, <1>4, <2>2
    <3>2. ASSUME NEW j \in 1 .. k - 1 PROVE j \in 1 .. Len(stk) /\ idx[stk[j]] < idx[v]
      <4>1. j \in 1 .. Len(stk) /\ j < k
        BY <2>2
      <4>2. QED BY <2>1, <2>2, <4>1
    <3>3. ASSUME NEW j \in k + 1 .. Len(stk)
          PROVE  j \in 1 .. Len(stk) /\ idx[v] < idx[stk[j]]
      <4>1. j \in 1 .. Len(stk) /\ k < j
        BY <2>2
      <4>2. QED BY <2>1, <2>2, <4>1
    <3>4. QED BY <3>1, <3>2, <3>3
  <2>4. \A j \in 1 .. Len(stk) : j \in 1 .. k - 1 \/ j = k \/ j \in k + 1 .. Len(stk)
    BY <2>2
  <2>5. Popped(k) = {x \in on : idx[v] <= idx[x]}
    <3>1. ASSUME NEW j \in k .. Len(stk) PROVE stk[j] \in on /\ idx[v] <= idx[stk[j]]
      <4>1. j \in 1 .. Len(stk) /\ (j = k \/ j \in k + 1 .. Len(stk))
        BY <2>2
      <4>2. CASE j = k
        BY <2>1, <2>3, <4>1, <4>2
      <4>3. CASE j \in k + 1 .. Len(stk)
        BY <2>3, <4>1, <4>3
      <4>4. QED BY <4>1, <4>2, <4>3
    <3>2. ASSUME NEW x \in on, idx[v] <= idx[x] PROVE \E j \in k .. Len(stk) : x = stk[j]
      <4>1. PICK j \in 1 .. Len(stk) : x = stk[j]
        BY <2>2
      <4>2. j \notin 1 .. k - 1
        <5>1. idx[x] \in Nat
          BY <2>3, <4>1
        <5>2. ~(idx[x] < idx[v])
          BY <2>3, <3>2, <5>1
        <5>3. QED BY <2>3, <4>1, <5>2
      <4>3. j \in k .. Len(stk)
        BY <2>2, <4>1, <4>2
      <4>4. QED BY <4>1, <4>3
    <3>3. QED BY <3>1, <3>2 DEF Popped
  <2>6. Popped(k) # {v} <=> k < Len(stk)
    <3>1. v \in Popped(k)
      BY <2>1, <2>2 DEF Popped
    <3>2. ASSUME k < Len(stk) PROVE Popped(k) # {v}
      <4>1. k + 1 \in k + 1 .. Len(stk) /\ k + 1 \in k .. Len(stk)
        BY <2>2, <3>2
      <4>2. stk[k + 1] \in Popped(k)
        BY <4>1 DEF Popped
      <4>3. idx[v] < idx[stk[k + 1]]
        BY <2>3, <4>1
      <4>4. stk[k + 1] # v
        BY <2>3, <4>3
      <4>5. QED BY <4>2, <4>4
    <3>3. ASSUME ~(k < Len(stk)) PROVE Popped(k) = {v}
      <4>1. k = Len(stk)
        BY <2>2, <3>3
      <4>2. \A j \in k .. Len(stk) : stk[j] = v
        BY <2>1, <2>2, <4>1
      <4>3. Popped(k) \subseteq {v}
        BY <4>2 DEF Popped
      <4>4. QED BY <3>1, <4>3
    <3>4. QED BY <3>2, <3>3
  <2>7. \A j \in 1 .. Len(stk') : j \in 1 .. k - 1 /\ j \in 1 .. Len(stk) /\ stk'[j] = stk[j]
    <3>1. ASSUME NEW j \in 1 .. Len(stk') PROVE j \in 1 .. k - 1 /\ j \in 1 .. Len(stk)
      BY <2>1, <2>2
    <3>2. QED BY <2>1, <3>1
  <2>8. \A i, j \in 1 .. Len(stk') : i < j => idx[stk'[i]] < idx[stk'[j]]
    BY <2>2, <2>7
  <2>9. on' = {stk'[j] : j \in 1 .. Len(stk')}
    <3>1. ASSUME NEW x \in on' PROVE \E j \in 1 .. Len(stk') : x = stk'[j]
      <4>1. PICK j \in 1 .. Len(stk) : x = stk[j]
        BY <2>1, <2>2
      <4>2. j \notin k .. Len(stk)
        BY <2>1, <4>1 DEF Popped
      <4>3. j \in 1 .. Len(stk')
        BY <2>1, <2>2, <4>1, <4>2
      <4>4. QED BY <2>7, <4>1, <4>3
    <3>2. ASSUME NEW j \in 1 .. Len(stk') PROVE stk'[j] \in on'
      <4>1. j \in 1 .. k - 1 /\ stk'[j] = stk[j] /\ j \in 1 .. Len(stk)
        BY <2>7
      <4>2. idx[stk[j]] < idx[v] /\ stk[j] \in on /\ idx[stk[j]] \in Nat
        BY <2>3, <4>1
      <4>3. ~(idx[v] <= idx[stk[j]])
        BY <2>3, <4>2
      <4>4. stk[j] \notin Popped(k)
        BY <2>5, <4>3
      <4>5. QED BY <2>1, <4>1, <4>2, <4>4
    <3>3. QED BY <3>1, <3>2
  <2>10. n > 1 => stk' # <<>> /\ stk'[1] = stk[1]
    <3>1. ASSUME n > 1 PROVE k # 1
      <4>1. 1 \in 1 .. Len(work) /\ n \in 1 .. Len(work) /\ 1 < n /\ 1 <= n
        BY <1>1, <3>1
      <4>2. idx[work[1].net] < idx[work[n].net]
        BY <4>1, FrameOrder
      <4>3. stk[1] # v
        BY <1>1, <2>2, <2>3, <4>2
      <4>4. QED BY <2>1, <4>3
    <3>2. ASSUME n > 1 PROVE stk' # <<>> /\ stk'[1] = stk[1]
      <4>1. Len(stk') > 0 /\ 1 \in 1 .. k - 1
        BY <2>1, <2>2, <3>1, <3>2
      <4>2. QED BY <2>1, <4>1, EmptySeq
    <3>3. QED BY <3>2
  <2>11. n = 1 => stk' = <<>>
    <3>1. ASSUME n = 1 PROVE k = 1
      <4>1. stk[1] = v
        BY <1>1, <2>2, <3>1
      <4>2. 1 \notin 1 .. k - 1
        <5>1. ~(idx[stk[1]] < idx[v])
          BY <2>3, <4>1
        <5>2. QED BY <2>3, <5>1
      <4>3. QED BY <2>2, <4>2
    <3>2. QED BY <2>1, <3>1, EmptySeq
  <2>12. QED BY <2>1, <2>5, <2>6, <2>8, <2>9, <2>10, <2>11
<1>6. /\ v \in C
      /\ \A x \in on' : x \in on /\ idx[x] < idx[v]
      /\ \A x \in on : idx[x] < idx[v] => x \in on'
      /\ \A x \in C : x \in on
  BY <1>1, <1>4, <1>5
\* The low-link of the closed net is no news for its parent.
<1>7. low' = low
  <2>1. CASE n > 1
    <3>1. n - 1 \in 1 .. Len(work) /\ n \in 1 .. Len(work) /\ n - 1 < n /\ n - 1 <= n
      BY <1>1, <2>1
    <3>2. idx[work[n - 1].net] < idx[work[n].net]
      BY <3>1, FrameOrder
    <3>3. low[work[n - 1].net] <= idx[work[n - 1].net]
      BY <1>1, <1>4, <3>1 DEF IInv, LowLinks
    <3>4. Lesser(low[work[n - 1].net], low[v]) = low[work[n - 1].net]
      BY <1>1, <1>4, <3>1, <3>2, <3>3 DEF Lesser
    <3>5. low' = [low EXCEPT ![work[n - 1].net] = Lesser(low[work[n - 1].net], low[v])]
      BY <1>0, <1>1, <2>1 DEF Retreat
    <3>6. QED BY <1>1, <3>4, <3>5 DEF TypeOK
  <2>2. CASE ~(n > 1)
    BY <1>0, <1>1, <2>2 DEF Retreat
  <2>3. QED BY <2>1, <2>2
<1>8. Numbering'
  BY <1>0, <1>6, <1>7 DEF IInv, Numbering, Numbered
<1>9. \A i \in 1 .. n - 1 : idx[work[i].net] < idx[v] /\ work[i].net \in on'
  <2>1. ASSUME NEW i \in 1 .. n - 1 PROVE idx[work[i].net] < idx[v]
    <3>1. i \in 1 .. Len(work) /\ n \in 1 .. Len(work) /\ i < n /\ i <= n
      BY <1>1
    <3>2. QED BY <1>1, <3>1, FrameOrder
  <2>2. QED BY <1>1, <1>4, <1>6, <2>1
<1>10. StackDiscipline'
  <2>1. \A i, j \in 1 .. Len(work) : i < j => idx[work[i].net] < idx[work[j].net]
    BY DEF IInv, StackDiscipline
  <2>2. \A i, j \in 1 .. n - 1 : i < j => idx[work'[i].net] < idx[work'[j].net]
    BY <1>2, <2>1
  <2>3. \A i \in 1 .. Len(work) : work[i].rest \subseteq Succ(edges, work[i].net)
    BY DEF IInv, StackDiscipline
  <2>4. \A i \in 1 .. n - 1 : work'[i].rest \subseteq Succ(edges, work'[i].net)
    BY <1>2, <2>3
  <2>5. \A i \in 1 .. n - 1 : work'[i].net \in on'
    BY <1>2, <1>9
  <2>6. CASE n > 1
    <3>1. work # <<>> /\ work' # <<>> /\ stk[1] = work[1].net /\ work'[1] = work[1]
      BY <1>1, <1>2, <2>6, EmptySeq DEF IInv, StackDiscipline
    <3>2. QED BY <1>0, <1>1, <1>5, <2>2, <2>4, <2>5, <2>6, <3>1 DEF StackDiscipline
  <2>7. CASE n = 1
    <3>1. work' = <<>>
      BY <1>1, <1>3, <2>7, EmptySeq DEF TypeOK
    <3>2. QED BY <1>0, <1>1, <1>5, <2>2, <2>4, <2>5, <2>7, <3>1 DEF StackDiscipline
  <2>8. QED BY <1>1, <2>6, <2>7
<1>11. YieldedNumbered'
  BY <1>0, <1>2 DEF IInv, YieldedNumbered, Numbered
\* v owns its component: the two reach each other.
<1>12. ASSUME NEW x \in C PROVE x \in Nets /\ MutuallyReach(edges, v, x)
  <2>1. x \in on /\ idx[work[n].net] <= idx[x] /\ n \in 1 .. Len(work)
    BY <1>1, <1>5
  <2>2. Owns(n, x)
    BY <1>1, <2>1 DEF Owns
  <2>3. QED BY <1>1, <1>4, <2>1, <2>2 DEF IInv, Ownership, MutuallyReach
\* Nothing leads from it to a net that stays open.
<1>13. ClosedNets' = ClosedNets \cup C
  BY <1>0, <1>1, <1>5, <1>6 DEF IInv, Numbering, ClosedNets, Numbered
<1>14. Closed(edges, ClosedNets \cup C)
  <2>1. ASSUME NEW x \in C, NEW y \in Succ(edges, x) PROVE y \in ClosedNets \cup C
    <3>1. y \in Nets /\ x \in Nets /\ x \in on
      BY <1>1, <1>6, <1>12, SuccInNets DEF TypeOK
    <3>2. y \in Yielded(x)
      <4>1. ASSUME NEW i \in 1 .. Len(work), work[i].net = x PROVE y \notin work[i].rest
        <5>1. i \notin 1 .. n - 1
          <6>1. idx[v] \in Nat /\ idx[x] \in Nat /\ idx[v] <= idx[x]
            BY <1>1, <1>4, <1>5, <3>1
          <6>2. ~(idx[x] < idx[v])
            BY <6>1
          <6>3. QED BY <1>9, <4>1, <6>2
        <5>2. i = n
          BY <1>1, <5>1
        <5>3. QED BY <1>1, <5>2
      <4>2. QED BY <4>1 DEF Yielded
    <3>3. Numbered(y)
      BY <3>1, <3>2 DEF IInv, YieldedNumbered, Numbering
    <3>4. CASE y \in on
      <4>1. x \in on /\ idx[work[n].net] <= idx[x] /\ n \in 1 .. Len(work)
        BY <1>1, <1>5
      <4>2. Owns(n, x)
        BY <1>1, <4>1 DEF Owns
      <4>3. low[v] <= idx[y]
        BY <1>1, <3>2, <3>4, <4>1, <4>2 DEF IInv, Ownership
      <4>4. QED BY <1>1, <1>5, <3>4, <4>3
    <3>5. CASE y \notin on
      BY <3>1, <3>3, <3>5 DEF ClosedNets
    <3>6. QED BY <3>4, <3>5
  <2>2. ASSUME NEW x \in ClosedNets, NEW y \in Succ(edges, x) PROVE y \in ClosedNets
    BY <2>2 DEF IInv, ClosedSealed, Closed
  <2>3. QED BY <2>1, <2>2 DEF Closed
<1>15. ClosedSealed'
  BY <1>0, <1>13, <1>14 DEF ClosedSealed
<1>16. C = Component(edges, v)
  <2>1. ASSUME NEW x \in Component(edges, v) PROVE x \in C
    <3>1. x \in Nets /\ Reaches(edges, v, x) /\ Reaches(edges, x, v)
      BY DEF Component, MutuallyReach
    <3>2. ClosedNets \cup C \in SUBSET Nets /\ v \in ClosedNets \cup C
      BY <1>6 DEF ClosedNets
    <3>3. x \in ClosedNets \cup C
      BY <1>14, <3>1, <3>2, ReachStays
    <3>4. ASSUME x \in ClosedNets PROVE FALSE
      <4>1. ClosedNets \in SUBSET Nets /\ Closed(edges, ClosedNets)
        BY DEF ClosedNets, IInv, ClosedSealed
      <4>2. v \in ClosedNets
        BY <3>1, <3>4, <4>1, ReachStays
      <4>3. QED BY <1>1, <4>2 DEF ClosedNets
    <3>5. QED BY <3>3, <3>4
  <2>2. QED BY <1>12, <2>1 DEF Component
<1>17. C # {v} \/ v \in Succ(edges, v) <=> OnCycle(edges, v)
  BY <1>6, <1>16 DEF OnCycle
<1>18. LowLinks'
  <2>1. ASSUME NEW x \in on'
        PROVE  /\ low[x] <= idx[x]
               /\ \E u \in on' : idx[u] = low[x] /\ Reaches(edges, x, u)
               /\ ~OnPath(x)' => low[x] < idx[x]
    <3>1. x \in on /\ x # v /\ idx[x] < idx[v] /\ x \in Nets
      BY <1>1, <1>4, <1>6
    <3>2. low[x] <= idx[x] /\ (~OnPath(x) => low[x] < idx[x])
      BY <3>1 DEF IInv, LowLinks
    <3>3. PICK u \in on : idx[u] = low[x] /\ Reaches(edges, x, u)
      BY <3>1 DEF IInv, LowLinks
    <3>4. u \in on'
      BY <1>1, <1>4, <1>6, <3>1, <3>2, <3>3
    <3>5. QED BY <1>2, <3>1, <3>2, <3>3, <3>4
  <2>2. QED BY <1>0, <1>7, <2>1 DEF LowLinks
<1>19. ASSUME NEW i \in 1 .. n - 1, NEW x \in on'
       PROVE  Owns(i, x)' <=> Owns(i, x)
  <2>1. work'[i] = work[i] /\ idx' = idx /\ i \in 1 .. Len(work)
    BY <1>0, <1>2
  <2>2. CASE i < n - 1
    <3>1. i + 1 \in 1 .. n - 1 /\ work'[i + 1] = work[i + 1]
      BY <1>2, <2>2
    <3>2. QED BY <1>1, <2>1, <2>2, <3>1 DEF Owns
  <2>3. CASE i = n - 1
    BY <1>1, <1>6, <2>1, <2>3 DEF Owns
  <2>4. QED BY <1>1, <2>2, <2>3
<1>20. Ownership'
  <2>1. ASSUME NEW x \in on' PROVE \E i \in 1 .. n - 1 : Owns(i, x)'
    <3>1. PICK i \in 1 .. n : Owns(i, x)
      BY <1>1, <1>6 DEF IInv, Ownership
    <3>2. i # n
      BY <1>1, <1>4, <1>6, <3>1 DEF Owns
    <3>3. i \in 1 .. n - 1
      BY <3>1, <3>2
    <3>4. QED BY <1>19, <3>1, <3>3
  <2>2. ASSUME NEW i \in 1 .. n - 1, NEW x \in on', idx[work'[i].net] <= idx[x]
        PROVE  Reaches(edges, work'[i].net, x)
    <3>1. i \in 1 .. Len(work) /\ work'[i] = work[i]
      BY <1>1, <1>2
    <3>2. QED BY <1>6, <2>2, <3>1 DEF IInv, Ownership
  <2>3. ASSUME NEW i \in 1 .. n - 1, NEW x \in on', Owns(i, x)'
        PROVE  /\ Reaches(edges, x, work'[i].net)
               /\ \A y \in Yielded(x)' \cap on' : low[work'[i].net] <= idx[y]
    <3>1. i \in 1 .. Len(work) /\ work'[i] = work[i] /\ Owns(i, x) /\ x \in on /\ x \in Nets
      BY <1>1, <1>2, <1>4, <1>6, <1>19, <2>3
    <3>2. /\ Reaches(edges, x, work[i].net)
          /\ \A y \in Yielded(x) \cap on : low[work[i].net] <= idx[y]
      BY <3>1 DEF IInv, Ownership
    <3>3. QED BY <1>2, <1>6, <3>1, <3>2
  <2>4. QED BY <1>0, <1>1, <1>7, <2>1, <2>2, <2>3 DEF Ownership
<1>21. ReportedClosed'
  <2>1. \A x \in C : Component(edges, x) = C
    BY <1>12, <1>16, ComponentClass
  <2>2. \A x \in C : OnCycle(edges, x) <=> OnCycle(edges, v)
    BY <1>12, OnCycleClass DEF MutuallyReach
  <2>3. \A i \in 1 .. Len(cyc) : cyc[i] # C
    <3>1. ASSUME NEW i \in 1 .. Len(cyc), cyc[i] = C PROVE FALSE
      <4>1. PICK u \in ClosedNets : cyc[i] = Component(edges, u)
        BY DEF IInv, ReportedClosed
      <4>2. v \in Component(edges, u)
        BY <1>6, <3>1, <4>1
      <4>3. ClosedNets \in SUBSET Nets /\ Closed(edges, ClosedNets)
        BY DEF ClosedNets, IInv, ClosedSealed
      <4>4. Reaches(edges, u, v)
        BY <4>2 DEF Component, MutuallyReach
      <4>5. v \in ClosedNets
        BY <4>3, <4>4, ReachStays
      <4>6. QED BY <1>1, <4>5 DEF ClosedNets
    <3>2. QED BY <3>1
  <2>4. /\ {cyc[i] : i \in 1 .. Len(cyc)}
             = {Component(edges, u) : u \in {w \in ClosedNets : OnCycle(edges, w)}}
        /\ \A i, j \in 1 .. Len(cyc) : i # j => cyc[i] # cyc[j]
        /\ cyc \in Seq(SUBSET Nets) /\ Len(cyc) \in Nat
    BY <1>1, LenProperties DEF IInv, ReportedClosed, TypeOK
  <2>5. CASE OnCycle(edges, v)
    <3>1. cyc' = Append(cyc, C)
      BY <1>5, <1>17, <2>5
    <3>2. /\ Len(cyc') = Len(cyc) + 1
          /\ \A i \in 1 .. Len(cyc) : cyc'[i] = cyc[i]
          /\ cyc'[Len(cyc) + 1] = C
      BY <2>4, <3>1, AppendProperties
    <3>3. {cyc'[i] : i \in 1 .. Len(cyc')} = {cyc[i] : i \in 1 .. Len(cyc)} \cup {C}
      <4>1. ASSUME NEW i \in 1 .. Len(cyc')
            PROVE  cyc'[i] \in {cyc[j] : j \in 1 .. Len(cyc)} \cup {C}
        BY <2>4, <3>2
      <4>2. ASSUME NEW i \in 1 .. Len(cyc) PROVE \E j \in 1 .. Len(cyc') : cyc[i] = cyc'[j]
        BY <2>4, <3>2
      <4>3. \E j \in 1 .. Len(cyc') : C = cyc'[j]
        BY <2>4, <3>2
      <4>4. QED BY <4>1, <4>2, <4>3
    <3>4. {Component(edges, u) : u \in {w \in ClosedNets \cup C : OnCycle(edges, w)}}
            = {Component(edges, u) : u \in {w \in ClosedNets : OnCycle(edges, w)}} \cup {C}
      BY <1>6, <2>1, <2>2, <2>5
    <3>5. ASSUME NEW i \in 1 .. Len(cyc'), NEW j \in 1 .. Len(cyc'), i # j
          PROVE  cyc'[i] # cyc'[j]
      <4>1. /\ i \in 1 .. Len(cyc) \/ i = Len(cyc) + 1
            /\ j \in 1 .. Len(cyc) \/ j = Len(cyc) + 1
        BY <2>4, <3>2
      <4>2. CASE i \in 1 .. Len(cyc) /\ j \in 1 .. Len(cyc)
        BY <2>4, <3>2, <3>5, <4>2
      <4>3. CASE i \in 1 .. Len(cyc) /\ j = Len(cyc) + 1
        BY <2>3, <3>2, <4>3
      <4>4. CASE i = Len(cyc) + 1 /\ j \in 1 .. Len(cyc)
        BY <2>3, <3>2, <4>4
      <4>5. QED BY <3>5, <4>1, <4>2, <4>3, <4>4
    <3>6. {cyc'[i] : i \in 1 .. Len(cyc')}
            = {Component(edges, u) : u \in {w \in ClosedNets' : OnCycle(edges, w)}}
      BY <1>13, <2>4, <3>3, <3>4
    <3>7. edges' = edges
      BY <1>0
    <3>8. QED BY <3>5, <3>6, <3>7 DEF ReportedClosed
  <2>6. CASE ~OnCycle(edges, v)
    <3>1. cyc' = cyc
      BY <1>5, <1>17, <2>6
    <3>2. {w \in ClosedNets \cup C : OnCycle(edges, w)}
            = {w \in ClosedNets : OnCycle(edges, w)}
      BY <2>2, <2>6
    <3>3. QED BY <1>0, <1>13, <2>4, <3>1, <3>2 DEF ReportedClosed
  <2>7. QED BY <2>5, <2>6
<1>22. QED BY <1>3, <1>8, <1>10, <1>11, <1>15, <1>18, <1>20, <1>21 DEF IInv

LEMMA StutterInv ==
  ASSUME IInv, UNCHANGED vars
  PROVE  IInv'
<1>1. UNCHANGED <<edges, todo, work, idx, low, counter, stk, on, cyc>>
  BY DEF vars
<1>2. TypeOK'
  BY TypeStep DEF IInv
<1>3. Numbering'
  BY <1>1 DEF IInv, Numbering, Numbered
<1>4. StackDiscipline'
  BY <1>1 DEF IInv, StackDiscipline
<1>5. YieldedNumbered' /\ ClosedSealed'
  BY <1>1 DEF IInv, YieldedNumbered, Yielded, Numbered, ClosedSealed, ClosedNets
<1>6. LowLinks'
  BY <1>1 DEF IInv, LowLinks, OnPath
<1>7. Ownership'
  BY <1>1 DEF IInv, Ownership, Owns, Yielded
<1>8. ReportedClosed'
  BY <1>1 DEF IInv, ReportedClosed, ClosedNets, Numbered
<1>9. QED BY <1>2, <1>3, <1>4, <1>5, <1>6, <1>7, <1>8 DEF IInv

LEMMA InvStep ==
  ASSUME IInv, [Next]_vars
  PROVE  IInv'
<1>1. ASSUME NEW w \in Nets, SkipRoot(w) PROVE IInv'
  BY <1>1, SkipInv
<1>2. ASSUME NEW w \in Nets, StartRoot(w) PROVE IInv'
  BY <1>2, StartInv
<1>3. ASSUME NEW w \in Nets, Descend(w) PROVE IInv'
  BY <1>3, DescendInv
<1>4. ASSUME NEW w \in Nets, Look(w) PROVE IInv'
  BY <1>4, LookInv
<1>5. CASE FinishOpen
  BY <1>5, FinishOpenInv
<1>6. CASE CloseComponent
  BY <1>6, CloseComponentInv
<1>7. CASE UNCHANGED vars
  BY <1>7, StutterInv
<1>8. QED BY <1>1, <1>2, <1>3, <1>4, <1>5, <1>6, <1>7 DEF Next

LEMMA InitInv ==
  ASSUME Init
  PROVE  IInv
<1>1. on = {} /\ Len(work) = 0 /\ Len(stk) = 0 /\ Len(cyc) = 0
  BY EmptySeq DEF Init
<1>2. \A w \in Nets : idx[w] = Unseen
  BY DEF Init
<1>3. TypeOK
  BY EmptySeq DEF Init, TypeOK
<1>4. Numbering
  BY <1>1, <1>2, <1>3, EntriesAreNets DEF Init, Numbering, Numbered, Unseen
<1>5. StackDiscipline
  BY <1>1 DEF Init, StackDiscipline
<1>6. YieldedNumbered
  BY <1>2 DEF YieldedNumbered, Numbered
<1>7. ClosedNets = {}
  BY <1>2 DEF ClosedNets, Numbered
<1>8. ClosedSealed
  BY <1>7 DEF ClosedSealed, Closed
<1>9. LowLinks /\ Ownership
  BY <1>1 DEF LowLinks, Ownership
<1>10. ReportedClosed
  BY <1>1, <1>7 DEF ReportedClosed
<1>11. QED BY <1>3, <1>4, <1>5, <1>6, <1>8, <1>9, <1>10 DEF IInv
-----------------------------------------------------------------------------
(* 4. What the search reports.                                             *)

(* The search keeps its data well typed and its invariant, whatever the    *)
(* order in which roots and successors are taken (netgraph.py 121-154).    *)
THEOREM Invariance == Spec => []IInv
<1>1. Init => IInv
  BY InitInv
<1>2. IInv /\ [Next]_vars => IInv'
  BY InvStep
<1>3. QED BY <1>1, <1>2, PTL DEF Spec

(* Every entry of `cyc` is a whole cyclic component, reported once: W3     *)
(* never blames a netlist for a cycle it does not have.                    *)
THEOREM Soundness == Spec => []ReportSound
<1>1. ASSUME IInv PROVE ReportSound
  <2>1. ClosedNets \subseteq Nets
    BY DEF ClosedNets
  <2>2. \A i \in 1 .. Len(cyc) :
          cyc[i] \in {Component(edges, u) : u \in {w \in ClosedNets : OnCycle(edges, w)}}
    BY <1>1 DEF IInv, ReportedClosed
  <2>3. \A i \in 1 .. Len(cyc) : cyc[i] \in CyclicComponents(edges)
    BY <2>1, <2>2 DEF CyclicComponents
  <2>4. QED BY <1>1, <2>3 DEF IInv, ReportedClosed, ReportSound
<1>2. QED BY <1>1, Invariance, PTL

(* When the search ends the list is complete: an empty list, the PASS of   *)
(* W3, means that the graph has no cycle at all.                           *)
THEOREM Completeness == Spec => []ReportComplete
<1>1. ASSUME IInv, Done PROVE CyclicComponents(edges) = {cyc[i] : i \in 1 .. Len(cyc)}
  <2>1. on = {}
    BY <1>1, NothingOpen DEF Done
  <2>2. \A r \in DOMAIN edges : Numbered(r)
    BY <1>1 DEF IInv, Numbering, Done
  <2>3. ASSUME NEW u \in Nets, OnCycle(edges, u) PROVE u \in ClosedNets
    <3>1. u \in DOMAIN edges
      BY <2>3, NoEntryNoCycle
    <3>2. QED BY <2>1, <2>2, <3>1 DEF ClosedNets
  <2>4. ClosedNets \subseteq Nets
    BY DEF ClosedNets
  <2>5. {w \in ClosedNets : OnCycle(edges, w)} = {w \in Nets : OnCycle(edges, w)}
    BY <2>3, <2>4
  <2>6. QED BY <1>1, <2>5 DEF IInv, ReportedClosed, CyclicComponents
<1>2. IInv => ReportComplete
  BY <1>1 DEF ReportComplete
<1>3. QED BY <1>2, Invariance, PTL

-----------------------------------------------------------------------------
(* 5. The search implements the abstract report.                           *)


(* Both modules speak of the same graphs.                                  *)
LEMMA SameGraphs ==
  /\ Abstract!Graphs = Graphs
  /\ \A g, u, v : Abstract!Reaches(g, u, v) <=> Reaches(g, u, v)
  /\ \A g : Abstract!CyclicComponents(g) = CyclicComponents(g)
<1>1. Abstract!Graphs = Graphs
  BY DEF Abstract!Graphs, Graphs
<1>2. \A g, u : Abstract!Succ(g, u) = Succ(g, u)
  BY DEF Abstract!Succ, Succ
<1>3. \A g, S : Abstract!Closed(g, S) <=> Closed(g, S)
  BY <1>2 DEF Abstract!Closed, Closed
<1>4. \A g, u, v : Abstract!Reaches(g, u, v) <=> Reaches(g, u, v)
  BY <1>3 DEF Abstract!Reaches, Reaches
<1>5. \A g, u : Abstract!Component(g, u) = Component(g, u)
  BY <1>4 DEF Abstract!Component, Component, Abstract!MutuallyReach, MutuallyReach
<1>6. \A g, u : Abstract!OnCycle(g, u) <=> OnCycle(g, u)
  BY <1>2, <1>5 DEF Abstract!OnCycle, OnCycle
<1>7. \A g : Abstract!CyclicComponents(g) = CyclicComponents(g)
  BY <1>5, <1>6 DEF Abstract!CyclicComponents, CyclicComponents
<1>8. QED BY <1>1, <1>4, <1>7

(* The list grows by one component at a time.                              *)
LEMMA ListStep ==
  ASSUME IInv, [Next]_vars
  PROVE  /\ edges' = edges
         /\ cyc' = cyc \/ \E C \in SUBSET Nets : cyc' = Append(cyc, C)
<1>1. CASE CloseComponent
  <2>1. PICK k \in 1 .. Len(stk) :
          cyc' = IF k < Len(stk) \/ Top.net \in Succ(edges, Top.net)
                 THEN Append(cyc, Popped(k)) ELSE cyc
    BY <1>1 DEF CloseComponent
  <2>2. Popped(k) \subseteq Nets
    <3>1. stk \in Seq(Nets) /\ Len(stk) \in Nat
      BY LenProperties DEF IInv, TypeOK
    <3>2. \A j \in k .. Len(stk) : j \in 1 .. Len(stk)
      BY <3>1
    <3>3. QED BY <3>1, <3>2, ElementOfSeq DEF Popped
  <2>3. QED BY <1>1, <2>1, <2>2 DEF CloseComponent
<1>2. CASE ~CloseComponent
  BY <1>2 DEF Next, vars, SkipRoot, StartRoot, Descend, Look, FinishOpen
<1>3. QED BY <1>1, <1>2

(* Each component is reported once, after the cyclic components it leads   *)
(* to: a step of the search is a report of the abstract specification or   *)
(* leaves the list alone.                                                  *)
LEMMA ReportStep ==
  ASSUME IInv, [Next]_vars
  PROVE  [Abstract!Next]_<<edges, cyc>>
<1>1. IInv' /\ edges' = edges
  BY InvStep, ListStep
<1>2. ASSUME NEW C \in SUBSET Nets, cyc' = Append(cyc, C) PROVE Abstract!Report(C)
  <2>1. cyc \in Seq(SUBSET Nets) /\ Len(cyc) \in Nat
    BY LenProperties DEF IInv, TypeOK
  <2>2. /\ Len(cyc') = Len(cyc) + 1
        /\ \A i \in 1 .. Len(cyc) : cyc'[i] = cyc[i]
        /\ cyc'[Len(cyc) + 1] = C
    BY <1>2, <2>1, AppendProperties
  <2>3. Len(cyc) + 1 \in 1 .. Len(cyc')
    BY <2>1, <2>2
  <2>4. /\ {cyc'[i] : i \in 1 .. Len(cyc')}
             = {Component(edges, u) : u \in {w \in ClosedNets' : OnCycle(edges, w)}}
        /\ \A i, j \in 1 .. Len(cyc') : i # j => cyc'[i] # cyc'[j]
    BY <1>1 DEF IInv, ReportedClosed
  <2>5. ClosedNets' \in SUBSET Nets /\ Closed(edges, ClosedNets')
    BY <1>1 DEF IInv, ClosedSealed, ClosedNets
  <2>6. PICK c \in ClosedNets' : C = Component(edges, c) /\ OnCycle(edges, c)
    BY <2>2, <2>3, <2>4
  <2>7. C \in CyclicComponents(edges)
    BY <2>5, <2>6 DEF CyclicComponents
  <2>8. \A i \in 1 .. Len(cyc) : cyc[i] # C
    <3>1. ASSUME NEW i \in 1 .. Len(cyc) PROVE cyc[i] # C
      <4>1. i \in 1 .. Len(cyc') /\ i # Len(cyc) + 1
        BY <2>1, <2>2
      <4>2. cyc'[i] # cyc'[Len(cyc) + 1]
        BY <2>3, <2>4, <4>1
      <4>3. QED BY <2>2, <4>2
    <3>2. QED BY <3>1
  <2>9. ASSUME NEW D \in CyclicComponents(edges), D # C,
               NEW u \in C, NEW w \in D, Reaches(edges, u, w)
        PROVE  D \in {cyc[i] : i \in 1 .. Len(cyc)}
    <3>1. PICK d \in Nets : D = Component(edges, d) /\ OnCycle(edges, d)
      BY DEF CyclicComponents
    <3>2. Reaches(edges, c, u) /\ Reaches(edges, w, d)
      BY <2>6, <3>1 DEF Component, MutuallyReach
    <3>3. Reaches(edges, c, d)
      BY <2>9, <3>2, ReachTrans
    <3>4. d \in ClosedNets'
      BY <2>5, <2>6, <3>3, ReachStays
    <3>5. PICK i \in 1 .. Len(cyc') : cyc'[i] = D
      BY <2>4, <3>1, <3>4
    <3>6. i # Len(cyc) + 1
      BY <2>2, <2>9, <3>5
    <3>7. i \in 1 .. Len(cyc)
      BY <2>1, <2>2, <3>6
    <3>8. QED BY <2>2, <3>5, <3>7
  <2>10. QED
    BY <1>1, <1>2, <2>7, <2>8, <2>9, SameGraphs
    DEF Abstract!Report, Abstract!Reported, Abstract!Downstream
<1>3. ASSUME NEW C \in SUBSET Nets, cyc' = Append(cyc, C) PROVE Abstract!Next
  <2>1. Abstract!Report(C)
    BY <1>2, <1>3
  <2>2. C \in CyclicComponents(edges)
    BY <2>1, SameGraphs DEF Abstract!Report
  <2>3. QED BY <2>1, <2>2, SameGraphs DEF Abstract!Next
<1>4. QED BY <1>1, <1>3, ListStep

(* Without its fairness, the abstract report is implemented by the search: *)
(* no order of roots and successors makes netgraph.py list a component     *)
(* early, twice or wrongly.                                                *)
THEOREM Refinement == Spec => Abstract!Init /\ [][Abstract!Next]_<<edges, cyc>>
<1>1. Init => Abstract!Init
  BY SameGraphs DEF Init, Abstract!Init
<1>2. IInv /\ [Next]_vars => [Abstract!Next]_<<edges, cyc>>
  BY ReportStep
<1>3. QED BY <1>1, <1>2, Invariance, PTL DEF Spec
=============================================================================
