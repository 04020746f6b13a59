------------------------------ MODULE StaRerun ------------------------------
(***************************************************************************)
(* tools/sta-rerun.sh: the timing analysis of the shipped netlist.  A run  *)
(* derives a netlist the analyser can read, unless the one there is newer  *)
(* than its source; runs the analyser (external) for every corner whose    *)
(* log is not taken for a finished one, and summarises the logs.           *)
(*                                                                         *)
(* The inputs are the source netlist and all else that the analyser reads. *)
(* They change between and during runs: downloads, bumps, another PDK.     *)
(***************************************************************************)
EXTENDS Integers, Sequences

CONSTANTS Corners,     \* in the order of the script
          MAX_CHANGES, \* bound on the changes of the inputs
          MAX_RUNS     \* bound on the runs

VARIABLES inputs,    \* [net, other], their versions
          newer,     \* $NET -nt $STANET
          stanet,    \* the derived netlist, and of which version it is
          logs,      \* corner -> its log, and the versions it was made from
          summary,   \* corner -> the log that was summarised
          pc, at,    \* what the run is doing, and at which corner it is
          force,     \* FORCE=1
          reading,   \* the versions the child process reads
          runs,      \* runs begun so far
          raced,     \* the source changed in a run, after it was looked at
          outdated,  \* corners whose log had begun before the last change
          faults     \* corners the analyser failed on in this run
vars == <<inputs, newer, stanet, logs, summary, pc, at, force, reading, runs,
          raced, outdated, faults>>

(* A file is absent (or empty), cut before it said WORST SLACK, cut after  *)
(* that and before the numbers, or whole.                                  *)
File(state, of) == [state |-> state, of |-> of]
Cs == {Corners[k] : k \in DOMAIN Corners}

Init ==
  /\ inputs = [net |-> 0, other |-> 0] /\ newer = FALSE
  /\ stanet = File("absent", 0)
  /\ logs = [c \in Cs |-> File("absent", inputs)] /\ summary = logs
  /\ pc = "idle" /\ at = 0 /\ force = FALSE /\ reading = inputs
  /\ runs = 0 /\ raced = FALSE /\ outdated = {} /\ faults = {}

Start(forced) ==
  /\ pc \in {"idle", "done"} /\ runs < MAX_RUNS
  /\ pc' = "prepare" /\ at' = 1 /\ force' = forced /\ runs' = runs + 1 /\ faults' = {}
  /\ UNCHANGED <<inputs, newer, stanet, logs, summary, reading, raced, outdated>>

(* A mutant of Derives: a derived netlist is kept for good.                *)
DerivesOnce == stanet.state = "absent"

Derives == stanet.state = "absent" \/ newer

KeepNetlist ==
  /\ pc = "prepare" /\ ~Derives
  /\ pc' = "corner"
  /\ UNCHANGED <<inputs, newer, stanet, logs, summary, at, force, reading, runs, raced, outdated, faults>>

ReadNetlist ==
  /\ pc = "prepare" /\ Derives
  /\ pc' = "derive" /\ reading' = inputs /\ raced' = FALSE
  /\ UNCHANGED <<inputs, newer, stanet, logs, summary, at, force, runs, outdated, faults>>

(* Until it is closed the file may be empty or any part.                   *)
OpenDerived ==
  /\ pc = "derive"
  /\ \E state \in {"absent", "cut"} : stanet' = File(state, reading.net)
  /\ newer' = FALSE
  /\ pc' = "write"
  /\ UNCHANGED <<inputs, logs, summary, at, force, reading, runs, raced, outdated, faults>>

WriteDerived ==
  /\ pc = "write"
  /\ stanet' = File("whole", reading.net) /\ newer' = FALSE
  /\ pc' = "corner"
  /\ UNCHANGED <<inputs, logs, summary, at, force, reading, runs, raced, outdated, faults>>

(* A mutant of Cached: any log that is there.                              *)
CachedAny(c) == logs[c].state # "absent" /\ ~force

Cached(c) == logs[c].state \in {"headed", "whole"} /\ ~force

Skip ==
  /\ pc = "corner" /\ at <= Len(Corners) /\ Cached(Corners[at])
  /\ at' = at + 1
  /\ UNCHANGED <<inputs, newer, stanet, logs, summary, pc, force, reading, runs, raced, outdated, faults>>

Begin ==
  /\ pc = "corner" /\ at <= Len(Corners) /\ ~Cached(Corners[at])
  /\ pc' = "sta"
  /\ reading' = [net |-> stanet.of, other |-> inputs.other]
  /\ logs' = [logs EXCEPT ![Corners[at]] = File("cut", reading')]
  /\ outdated' = IF raced THEN outdated ELSE outdated \ {Corners[at]}
  /\ UNCHANGED <<inputs, newer, stanet, summary, at, force, runs, raced, faults>>

StaEnds ==
  /\ pc = "sta" /\ stanet.state = "whole"
  /\ logs' = [logs EXCEPT ![Corners[at]] = File("whole", reading)]
  /\ pc' = "corner" /\ at' = at + 1
  /\ UNCHANGED <<inputs, newer, stanet, summary, force, reading, runs, raced, outdated, faults>>

(* The script goes on.  A part of a netlist is always an error.            *)
StaFails ==
  /\ pc = "sta"
  /\ \E state \in {"cut", "headed"} :
       /\ stanet.state # "whole" => state = "cut"
       /\ logs' = [logs EXCEPT ![Corners[at]] = File(state, reading)]
  /\ faults' = IF stanet.state = "whole" THEN faults \cup {Corners[at]} ELSE faults
  /\ pc' = "corner" /\ at' = at + 1
  /\ UNCHANGED <<inputs, newer, stanet, summary, force, reading, runs, raced, outdated>>

Summarise ==
  /\ pc = "corner" /\ at > Len(Corners)
  /\ summary' = logs
  /\ pc' = "done"
  /\ UNCHANGED <<inputs, newer, stanet, logs, at, force, reading, runs, raced, outdated, faults>>

(* The script and its child end; or the script alone, when the derivation  *)
(* meets an array that is not of physical cells and raises an error.       *)
Interrupt ==
  /\ pc \notin {"idle", "done"}
  /\ pc' = "idle"
  /\ IF pc = "sta"
     THEN \E state \in {"cut", "headed"} : logs' = [logs EXCEPT ![Corners[at]].state = state]
     ELSE logs' = logs
  /\ UNCHANGED <<inputs, newer, stanet, summary, at, force, reading, runs, raced, outdated, faults>>

Change(what) ==
  /\ inputs.net + inputs.other < MAX_CHANGES
  /\ inputs' = [inputs EXCEPT ![what] = @ + 1]
  /\ newer' = (newer \/ what = "net")
  /\ raced' = (raced \/ (what = "net" /\ pc \notin {"idle", "done"}))
  /\ outdated' = Cs
  /\ UNCHANGED <<stanet, logs, summary, pc, at, force, reading, runs, faults>>

Next ==
  \/ \E forced \in BOOLEAN : Start(forced)
  \/ KeepNetlist \/ ReadNetlist \/ OpenDerived \/ WriteDerived
  \/ Skip \/ Begin \/ StaEnds \/ StaFails \/ Summarise
  \/ Interrupt
  \/ \E what \in {"net", "other"} : Change(what)

Spec == Init /\ [][Next]_vars
-----------------------------------------------------------------------------
(* When a run ends, the numbers it shows for a corner were made from the   *)
(* inputs that are there, unless one has changed since the log was begun   *)
(* and the log was kept; a forced run in which nothing changes is always   *)
(* about its inputs.  And a corner without numbers is one the analyser     *)
(* failed on in this run, one whose log was cut after the heading that     *)
(* stands for a finished one, or a sign that the derived netlist is a part *)
(* that an interruption left: a log that was cut earlier is made again.    *)
SummaryHasCause ==
  pc = "done" =>
    \A c \in Cs :
      IF summary[c].state = "whole" THEN summary[c].of = inputs \/ c \in outdated
      ELSE c \in faults \/ summary[c].state = "headed" \/ stanet.state # "whole"
=============================================================================
