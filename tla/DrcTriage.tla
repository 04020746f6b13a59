----------------------------- MODULE DrcTriage ------------------------------
(***************************************************************************)
(* tools/check-l1.py, drc-triage: the violations of the design rules are   *)
(* told apart by where they begin, within a macro or not.                  *)
(***************************************************************************)
EXTENDS Integers, Sequences, SequencesExt, FiniteSets

CONSTANTS MACRO_BOXES,  \* rectangles [x0, y0, x1, y1]
          PAD,          \* 5 um
          Xs, Ys,       \* coordinates
          MAX_ITEMS     \* how many items the database may have

(* An item has a value with points, or one without.                        *)
Points == [x : Xs, y : Ys]
Items == {<<>>} \cup {<<p, q>> : p, q \in Points}

VARIABLES items,            \* the items read
          inside, outside,  \* how many of them were counted as which
          triage            \* "none" or the verdict
vars == <<items, inside, outside, triage>>

Init == items = <<>> /\ inside = 0 /\ outside = 0 /\ triage = "none"

(* A mutant of Inside: the margin is left out where a box ends.            *)
InsideUnpadded(p) ==
  \E b \in MACRO_BOXES :
    /\ b.x0 + PAD <= p.x /\ p.x <= b.x1
    /\ b.y0 + PAD <= p.y /\ p.y <= b.y1

Inside(p) ==
  \E b \in MACRO_BOXES :
    /\ b.x0 + PAD <= p.x /\ p.x <= b.x1 - PAD
    /\ b.y0 + PAD <= p.y /\ p.y <= b.y1 - PAD

(* The first point decides; an item without any is not counted.            *)
Read(item) ==
  /\ triage = "none" /\ Len(items) < MAX_ITEMS
  /\ items' = Append(items, item)
  /\ inside' = IF item # <<>> /\ Inside(item[1]) THEN inside + 1 ELSE inside
  /\ outside' = IF item # <<>> /\ ~Inside(item[1]) THEN outside + 1 ELSE outside
  /\ UNCHANGED triage

Conclude ==
  /\ triage = "none"
  /\ triage' = IF outside > 0 THEN "FINDING" ELSE "PASS"
  /\ UNCHANGED <<items, inside, outside>>

Next == (\E item \in Items : Read(item)) \/ Conclude
-----------------------------------------------------------------------------
Abs(n) == IF n < 0 THEN -n ELSE n
Small(item) ==
  \A k \in DOMAIN item : Abs(item[k].x - item[1].x) <= PAD /\ Abs(item[k].y - item[1].y) <= PAD

InMacro(item) ==
  \E b \in MACRO_BOXES : \A k \in DOMAIN item :
    /\ b.x0 <= item[k].x /\ item[k].x <= b.x1
    /\ b.y0 <= item[k].y /\ item[k].y <= b.y1

(* When no item is larger than the margin, a pass means that every one     *)
(* with points lies in a macro, and a finding that one of them leaves a    *)
(* macro or comes near its edge.  Larger ones may begin in a macro and     *)
(* end in the logic of the flow.                                           *)
TriageIsByPlace ==
  LET located == {items[k] : k \in {j \in DOMAIN items : items[j] # <<>>}}
      deep == {i \in located : Small(i) /\ \E b \in MACRO_BOXES : \A k \in DOMAIN i :
                 /\ b.x0 + PAD <= i[k].x /\ i[k].x <= b.x1 - PAD
                 /\ b.y0 + PAD <= i[k].y /\ i[k].y <= b.y1 - PAD}
  IN  (\A i \in located : Small(i)) =>
        /\ triage = "PASS" => \A i \in located : InMacro(i)
        /\ triage = "FINDING" => located # deep
=============================================================================
