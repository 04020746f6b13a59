----------------------------- MODULE ModeAudit ------------------------------
(***************************************************************************)
(* tools/sdc-audit.py and tools/sdc-elaborate.tcl: a constraint file, which*)
(* is a program, is run once in every mode with the variable of the mode   *)
(* forced, and the pins it ties in the modes are compared.  The file is    *)
(* written line by line; of the three variables of the mode there is one.  *)
(***************************************************************************)
EXTENDS Integers, Sequences, FiniteSets

CONSTANTS MODES,     \* the modes, each the value of the variable
          Pins,
          MAX_LINES  \* how many lines the file may have

(* `set io_4_mode value`, indented or not, and set_case_analysis of a      *)
(* value on a collection of pins, reached when the variable is in when.    *)
SetLines == [kind : {"set"}, value : MODES, indented : BOOLEAN]
CaseLines == [kind : {"case"}, value : {0, 1}, target : (SUBSET Pins) \ {{}},
              when : (SUBSET MODES) \ {{}}]

VARIABLES sdc,       \* the lines
          per_mode,  \* mode -> the case analysis it logs, for the modes run
          stage      \* "writing", "running", "aborted" or "report"
vars == <<sdc, per_mode, stage>>

Init == sdc = <<>> /\ per_mode = [m \in {} |-> <<>>] /\ stage = "writing"

Write(line) ==
  /\ stage = "writing" /\ Len(sdc) < MAX_LINES
  /\ sdc' = Append(sdc, line)
  /\ UNCHANGED <<per_mode, stage>>

Main ==
  /\ stage = "writing" /\ stage' = "running"
  /\ UNCHANGED <<sdc, per_mode>>

(* The first line that begins with the assignment has its value replaced.  *)
Forced(m) ==
  LET settings == {k \in DOMAIN sdc : sdc[k].kind = "set" /\ ~sdc[k].indented}
  IN  [k \in DOMAIN sdc |->
         IF k \in settings /\ \A j \in settings : k <= j
         THEN [sdc[k] EXCEPT !.value = m] ELSE sdc[k]]

(* The variable before line k, when a line before has set it.              *)
Latest(script, k) ==
  {script[j].value : j \in {i \in 1 .. k - 1 :
     /\ script[i].kind = "set"
     /\ \A h \in i + 1 .. k - 1 : script[h].kind # "set"}}

(* A branch on a variable without a value is an error of the interpreter.  *)
Stops(script) ==
  \E k \in DOMAIN script :
    script[k].kind = "case" /\ script[k].when # MODES /\ Latest(script, k) = {}

(* The log of a run: the lines that are reached, each at its number.       *)
Reached(script) ==
  {k \in DOMAIN script :
     /\ script[k].kind = "case"
     /\ script[k].when = MODES \/ Latest(script, k) \subseteq script[k].when}
Logged(script) == [k \in Reached(script) |-> script[k]]

(* The run of one mode; when it fails the audit ends without a report.     *)
Elaborate(m) ==
  /\ stage = "running" /\ m \notin DOMAIN per_mode
  /\ IF Stops(Forced(m))
     THEN stage' = "aborted" /\ UNCHANGED per_mode
     ELSE /\ per_mode' = [n \in DOMAIN per_mode \cup {m} |->
                            IF n = m THEN Logged(Forced(m)) ELSE per_mode[n]]
          /\ UNCHANGED stage
  /\ UNCHANGED sdc

Finish ==
  /\ stage = "running" /\ DOMAIN per_mode = MODES
  /\ stage' = "report"
  /\ UNCHANGED <<sdc, per_mode>>

Next ==
  \/ \E line \in SetLines \cup CaseLines : Write(line)
  \/ Main
  \/ \E m \in MODES : Elaborate(m)
  \/ Finish

(* A mutant of Pinned: a target keeps the value it gets first.             *)
PinnedFirst(target, m) ==
  LET log == per_mode[m]
      first == {i \in DOMAIN log : log[i].target = target
                  /\ \A j \in DOMAIN log : j < i => log[j].target # target}
  IN  {log[i].value : i \in first}

(* What the dictionary has for a target in a mode: the last value.         *)
Pinned(target, m) ==
  LET log == per_mode[m]
      last == {i \in DOMAIN log : log[i].target = target
                 /\ \A j \in DOMAIN log : j > i => log[j].target # target}
  IN  {log[i].value : i \in last}

Targets == UNION {{per_mode[m][k].target : k \in DOMAIN per_mode[m]} : m \in MODES}
Conflicts == {t \in Targets : Cardinality(UNION {Pinned(t, m) : m \in MODES}) > 1}
Partial == {t \in Targets : \E m \in MODES : Pinned(t, m) = {}}
-----------------------------------------------------------------------------
(* A file that has the assignment once, in its first line, and names every *)
(* pin in one way.                                                         *)
Settable ==
  /\ sdc # <<>> /\ sdc[1].kind = "set" /\ ~sdc[1].indented
  /\ \A k \in 2 .. Len(sdc) : sdc[k].kind = "case"
SpelledAlike ==
  \A j, k \in 2 .. Len(sdc) :
    sdc[j].target = sdc[k].target \/ sdc[j].target \cap sdc[k].target = {}

(* What the analysis of mode m ties a pin to: the last line for it there.  *)
Tied(p, m) ==
  LET mine == {k \in 2 .. Len(sdc) : p \in sdc[k].target /\ m \in sdc[k].when}
  IN  {sdc[k].value : k \in {j \in mine : \A i \in mine : i <= j}}

(* For such a file the audit finishes, and is right of every pin: it is    *)
(* listed as tied differently exactly when two modes do, and as tied in    *)
(* some modes only exactly when one leaves it free.  A second assignment,  *)
(* or one that is indented, makes modes the same; a pin named alone and in *)
(* a collection is two pins to the audit.                                  *)
ConflictsAreReported ==
  Settable =>
    /\ stage # "aborted"
    /\ stage = "report" /\ SpelledAlike =>
         \A t \in {sdc[k].target : k \in 2 .. Len(sdc)} : \A p \in t :
           /\ t \in Conflicts <=> \E m, n \in MODES : \E v \in Tied(p, m) : Tied(p, n) = {1 - v}
           /\ t \in Partial <=> \E m \in MODES : Tied(p, m) = {}
=============================================================================
