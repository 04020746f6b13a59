--------------------------- MODULE TimingReports ----------------------------
(***************************************************************************)
(* tools/check-l2.py, nine-corner and domain-violations: the verdicts on   *)
(* the reports of the static timing analysis, which the flow writes corner *)
(* by corner.  The flow may stop at any moment, and nothing keeps the      *)
(* check from running while it goes on.                                    *)
(***************************************************************************)
EXTENDS Naturals, Sequences, SequencesExt, FiniteSets

CONSTANTS Corners

(* What a report says: nothing yet, no last number, or a worst slack.      *)
Slacks == {"negative", "zero", "positive"}
Reports == {"absent", "blank"} \cup Slacks

VARIABLES hold, setup,  \* ws.min.rpt and ws.max.rpt of every corner
          limits,       \* checks.rpt as it was read: whether it was there,
                        \* had the header of the limits section, and violations
          corners,      \* the corners listed and not read yet, and all listed
          fails,        \* those found to fail
          nine, domain  \* the two verdicts
vars == <<hold, setup, limits, corners, fails, nine, domain>>

Init ==
  /\ hold = [c \in Corners |-> "absent"] /\ setup = [c \in Corners |-> "absent"]
  /\ limits = [there |-> FALSE, headed |-> FALSE, violations |-> FALSE]
  /\ corners = [queue |-> {}, all |-> {}]
  /\ fails = {}
  /\ nine = "none" /\ domain = "none"

(* The flow writes a report in two steps, the first leaves it blank.       *)
Opened(report, c) == report[c] = "absent" /\ report' = [report EXCEPT ![c] = "blank"]
Filled(report, c) == report[c] = "blank" /\ \E s \in Slacks : report' = [report EXCEPT ![c] = s]

WriteHold(c) ==
  /\ Opened(hold, c) \/ Filled(hold, c)
  /\ UNCHANGED <<setup, limits, corners, fails, nine, domain>>

WriteSetup(c) ==
  /\ hold[c] \in Slacks
  /\ Opened(setup, c) \/ Filled(setup, c)
  /\ UNCHANGED <<hold, limits, corners, fails, nine, domain>>

(* The corners whose hold report is there; without any the verdict is a    *)
(* finding.                                                                *)
List ==
  /\ nine = "none"
  /\ LET found == {c \in Corners : hold[c] # "absent"}
     IN  /\ corners' = [queue |-> found, all |-> found]
         /\ nine' = IF found = {} THEN "FINDING" ELSE "reading"
  /\ UNCHANGED <<hold, setup, limits, fails, domain>>

(* A mutant of Fails: a corner fails when both slacks do.                  *)
FailsBoth(c) == hold[c] # "positive" /\ setup[c] # "positive"

Fails(c) == hold[c] # "positive" \/ setup[c] # "positive"

(* A report that is missing, empty or without a number raises an exception *)
(* here, which the layer reports as a failure.                             *)
ReadCorner(c) ==
  /\ nine = "reading" /\ c \in corners.queue
  /\ IF {hold[c], setup[c]} \subseteq Slacks
     THEN /\ fails' = IF Fails(c) THEN fails \cup {c} ELSE fails
          /\ nine' = nine
     ELSE nine' = "FAIL" /\ fails' = fails
  /\ corners' = [corners EXCEPT !.queue = @ \ {c}]
  /\ UNCHANGED <<hold, setup, limits, domain>>

Conclude ==
  /\ nine = "reading" /\ corners.queue = {}
  /\ nine' = IF fails # {} THEN "FINDING" ELSE "PASS"
  /\ UNCHANGED <<hold, setup, limits, corners, fails, domain>>

(* The violations are counted from the header on; without one nothing is   *)
(* looked at but the last character of the report.                         *)
CheckDomain ==
  /\ domain = "none" /\ nine \in {"PASS", "FAIL", "FINDING"}
  /\ limits' \in [there : BOOLEAN, headed : BOOLEAN, violations : BOOLEAN]
  /\ domain' = IF ~limits'.there \/ (limits'.headed /\ limits'.violations)
               THEN "FINDING" ELSE "PASS"
  /\ UNCHANGED <<hold, setup, corners, fails, nine>>

Next ==
  \/ \E c \in Corners : WriteHold(c) \/ WriteSetup(c) \/ ReadCorner(c)
  \/ List
  \/ Conclude
  \/ CheckDomain
-----------------------------------------------------------------------------
(* Both passes together mean closed timing: no corner whose report had     *)
(* been begun when the check listed them has a slack that is not positive, *)
(* wherever the flow was or stopped, and a report with the section of the  *)
(* limits shows no violation in it.  And a corner is called failing only   *)
(* for a slack that has.                                                   *)
PassesAreClosure ==
  /\ nine = "PASS" => \A c \in corners.all : hold[c] = "positive" /\ setup[c] = "positive"
  /\ nine = "PASS" => corners.all # {}
  /\ domain = "PASS" => limits.there /\ (limits.headed => ~limits.violations)
  /\ fails # {} => \E c \in corners.all : ~({hold[c], setup[c]} \subseteq {"positive", "blank", "absent"})
=============================================================================
