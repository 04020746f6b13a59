----------------------------- MODULE CosimRetry -----------------------------
(***************************************************************************)
(* tools/check-l5.py, the cosim obligation: a co-simulation that does not  *)
(* get past the boot race is tried again, one that does is believed.       *)
(* The simulator is external; a run of it is known by its exit code, the   *)
(* instructions it committed and whether one of them mismatched.           *)
(***************************************************************************)
EXTENDS Integers, Sequences, SequencesExt

CONSTANTS RETRIES,   \* the length of the loop: 4
          Boot,      \* the commits that tell a program from the boot race: 10
          Commits    \* the commit counts a run may have

VARIABLES presence,  \* whether the simulator has been built
          runs,      \* the runs so far
          verdict
vars == <<presence, runs, verdict>>

Run == [rc : {0, 1}, mism : BOOLEAN, commits : Commits]

Expired == [rc |-> -1, mism |-> FALSE, commits |-> 0]

Clean(r) == r.rc = 0 /\ ~r.mism /\ r.commits > 0
PastBoot(r) == r.commits > Boot

Init == presence \in BOOLEAN /\ runs = <<>> /\ verdict = "none"
-----------------------------------------------------------------------------
Absent ==
  /\ verdict = "none" /\ ~presence
  /\ verdict' = "FINDING"
  /\ UNCHANGED <<presence, runs>>

(* A mutant of Leaves: a divergence after boot is retried like any other.  *)
LeavesClean == runs # <<>> /\ Clean(Last(runs))

Leaves == runs # <<>> /\ (Clean(Last(runs)) \/ PastBoot(Last(runs)))

Simulate ==
  /\ verdict = "none" /\ presence
  /\ Len(runs) < RETRIES /\ ~Leaves
  /\ \E r \in Run : runs' = Append(runs, r)
  /\ UNCHANGED <<presence, verdict>>

(* A run that takes longer than 1200 s raises TimeoutExpired, which        *)
(* Layer.run reports as a FAIL.                                            *)
Expires ==
  /\ verdict = "none" /\ presence
  /\ Len(runs) < RETRIES /\ ~Leaves
  /\ verdict' = "FAIL" /\ runs' = Append(runs, Expired)
  /\ UNCHANGED presence

(* A mutant of Conclude: the loop gives up one turn early.                 *)
ConcludeEarly ==
  /\ verdict = "none" /\ presence
  /\ Leaves \/ Len(runs) >= RETRIES - 1
  /\ runs # <<>>
  /\ verdict' = IF Clean(Last(runs)) THEN "PASS" ELSE "FAIL"
  /\ UNCHANGED <<presence, runs>>

Conclude ==
  /\ verdict = "none" /\ presence
  /\ Leaves \/ Len(runs) = RETRIES
  /\ verdict' = IF Clean(Last(runs)) THEN "PASS" ELSE "FAIL"
  /\ UNCHANGED <<presence, runs>>

Next == Absent \/ Simulate \/ Expires \/ Conclude

Spec == Init /\ [][Next]_vars
-----------------------------------------------------------------------------
(* A divergence after boot is never retried into a pass: every run but the *)
(* last of a passing obligation stopped in the boot window.                *)
DivergenceIsFinal ==
  verdict = "PASS" =>
    /\ Clean(Last(runs))
    /\ \A k \in 1 .. Len(runs) - 1 : runs[k].commits <= Boot

(* A failing obligation has a cause other than the flaky boot: the last    *)
(* run expired or failed after it, or the boot race was lost every time.   *)
FailsForCause ==
  verdict = "FAIL" =>
    \/ Last(runs) = Expired
    \/ PastBoot(Last(runs)) /\ ~Clean(Last(runs))
    \/ /\ Len(runs) = RETRIES
       /\ \A k \in DOMAIN runs : ~Clean(runs[k]) /\ ~PastBoot(runs[k])
=============================================================================
