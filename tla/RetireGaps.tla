----------------------------- MODULE RetireGaps -----------------------------
(***************************************************************************)
(* tools/sim/tb_core.v, the measure of the gaps between two retirements.   *)
(* One step is one rising edge of clk after reset; whether the write-back  *)
(* stage fires at it is the core's business.                               *)
(***************************************************************************)
EXTENDS Integers, FiniteSets

CONSTANTS MAX_CYCLES,   \* length of the run
          Last          \* the histogram's last bucket: 63

VARIABLES retired, gap, gap_max, gap_sum, gap_hist,
          cycles, fired   \* the edges there have been, those that retired
vars == <<retired, gap, gap_max, gap_sum, gap_hist, cycles, fired>>

Init ==
  /\ retired = 0 /\ gap = 0 /\ gap_max = 0 /\ gap_sum = 0
  /\ gap_hist = [k \in 0 .. Last |-> 0]
  /\ cycles = 0 /\ fired = {}
-----------------------------------------------------------------------------
(* A gap too long for the histogram is counted in its last bucket.         *)
Bucket(g) == IF g > Last THEN Last ELSE g

(* A mutant of Record: the edges before the first retirement are a gap.    *)
RecordFirst ==
  /\ gap_sum' = gap_sum + gap
  /\ gap_max' = IF gap > gap_max THEN gap ELSE gap_max
  /\ gap_hist' = [gap_hist EXCEPT ![Bucket(gap)] = @ + 1]

Record ==
  IF retired = 0
  THEN UNCHANGED <<gap_max, gap_sum, gap_hist>>
  ELSE /\ gap_sum' = gap_sum + gap
       /\ gap_max' = IF gap > gap_max THEN gap ELSE gap_max
       /\ gap_hist' = [gap_hist EXCEPT ![Bucket(gap)] = @ + 1]

Retire ==
  /\ retired' = retired + 1 /\ gap' = 0
  /\ Record
  /\ fired' = fired \cup {cycles'}

Wait ==
  /\ gap' = IF retired > 0 THEN gap + 1 ELSE gap
  /\ UNCHANGED <<retired, gap_max, gap_sum, gap_hist, fired>>

Next == cycles < MAX_CYCLES /\ cycles' = cycles + 1 /\ (Retire \/ Wait)

Spec == Init /\ [][Next]_vars
-----------------------------------------------------------------------------
(* The gaps of a run, from the edges that retired: the distance between    *)
(* neighbours, less the edge that retired.                                 *)
Gaps == {g \in fired \X fired : /\ g[1] < g[2]
                                /\ \A e \in fired : e <= g[1] \/ g[2] <= e}
Length(g) == g[2] - g[1] - 1
InBucket(k) == {g \in Gaps : Bucket(Length(g)) = k}

(* What the bench prints is the distribution of the run's gaps: each       *)
(* bucket counts those of its length, the last one all that are longer,    *)
(* GAP MAX is the longest of them.                                         *)
MeasuresGaps ==
  /\ \A k \in 0 .. Last : gap_hist[k] = Cardinality(InBucket(k))
  /\ \A g \in Gaps : Length(g) <= gap_max
  /\ gap_max > 0 => \E g \in Gaps : Length(g) = gap_max
=============================================================================
