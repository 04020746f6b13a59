---------------------------- MODULE MCTestBench ----------------------------
(* TLC instances of tb_core.v: the memory and the monitors with a core     *)
(* that holds its requests on both buses, and with one that does on the    *)
(* fetch bus alone; and the measure of the retirement gaps, which shares   *)
(* no signal with them but the clock.  A behaviour is one of either.       *)
EXTENDS TestBench, FiniteSets

CONSTANTS GapCycles,   \* length of the run that is measured
          Last         \* the histogram's last bucket

ASSUME GapParameters == GapCycles \in Nat /\ Last \in Nat

VARIABLES part,     \* "bench" or "gaps"
          retired, gap, gap_max, gap_sum, gap_hist, edges, fired

Measure == INSTANCE RetireGaps WITH MAX_CYCLES <- GapCycles, cycles <- edges

measure == <<retired, gap, gap_max, gap_sum, gap_hist, edges, fired>>

BothOrFetch == {{"i", "d"}, {"i"}}

BenchInit ==
  /\ Init /\ Measure!Init
  /\ part \in {"bench", "gaps"}
  /\ part = "gaps" => held = {"i", "d"}

BenchStep == part = "bench" /\ Edge /\ UNCHANGED <<part, measure>>
MeasureStep == part = "gaps" /\ Measure!Next /\ UNCHANGED <<part, vars>>

BenchSpec == BenchInit /\ [][BenchStep \/ MeasureStep]_<<part, vars, measure>>

(* The histogram and GAP MAX that the bench prints are those of the gaps   *)
(* between the retirements of the run.                                     *)
MeasuresGaps == Measure!MeasuresGaps
=============================================================================
