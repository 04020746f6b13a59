------------------------------ MODULE MCSuite -------------------------------
(***************************************************************************)
(* One TLC instance of the suite and of two of its checks that have state  *)
(* of their own, the retry around the co-simulation and the scan for       *)
(* initial blocks: every behaviour is one of the three, named by turn.     *)
(***************************************************************************)
EXTENDS Scoreboard

(* Two layers, a check before and after a stub.                            *)
TwoLayers == <<7, 6>>
Mixed == [l \in {7, 6} |-> IF l = 7 THEN <<"check", "TODO", "check">> ELSE <<"check", "EXTERN">>]

CONSTANTS RETRIES, Boot, Commits,       \* of the retry
          Guards, Others, MAX_LINES     \* of the scan

ASSUME RetryParameters ==
  RETRIES \in Nat \ {0} /\ Boot \in Nat /\ Commits \subseteq Nat
ASSUME ScanParameters ==
  /\ Guards \cap Others = {} /\ "SYNTHESIS" \notin Others
  /\ MAX_LINES \in Nat

VARIABLES turn,
  presence, runs, outcome,
  stack, total, bad, machinery, verdict, defined, compiled, exposed, misread, lines

Cosim == INSTANCE CosimRetry WITH verdict <- outcome
Scan == INSTANCE InitScan WITH active <- compiled

cosim == <<presence, runs, outcome>>
scan == <<stack, total, bad, machinery, verdict, defined, compiled, exposed, misread, lines>>

(* The inputs of those that stay idle are fixed.                           *)
SuiteInit ==
  /\ turn \in {"suite", "cosim", "scan"}
  /\ Init /\ Cosim!Init /\ Scan!Init
  /\ turn # "suite" => md /\ ~list_only /\ tty
  /\ turn # "cosim" => presence
  /\ turn # "scan" => ~machinery /\ defined = {}

SuiteStep == turn = "suite" /\ Next /\ UNCHANGED <<turn, cosim, scan>>
CosimStep == turn = "cosim" /\ Cosim!Next /\ UNCHANGED <<turn, vars, scan>>
ScanStep == turn = "scan" /\ Scan!Next /\ UNCHANGED <<turn, vars, cosim>>

SuiteSpec == SuiteInit /\ [][SuiteStep \/ CosimStep \/ ScanStep]_<<turn, vars, cosim, scan>>
-----------------------------------------------------------------------------
(* The co-simulation passes and fails for a cause: a divergence after boot *)
(* is never retried into a pass, and a lost boot race alone fails nothing. *)
CosimIsJudgedFairly == Cosim!DivergenceIsFinal /\ Cosim!FailsForCause

(* A simulation guard hides what it is believed to hide, and a file that   *)
(* shows synthesis an initial block passes only by naming a guard.         *)
InitialsAreHidden == Scan!GuardsHide /\ Scan!PassIsForgiven
=============================================================================
