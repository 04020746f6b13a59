------------------------------ MODULE FetchData ------------------------------
(***************************************************************************)
(* tools/fetch-data.sh: the pinned design artifacts of data/.  A run walks *)
(* the script's list of files; `get` downloads a file from the pinned      *)
(* commit unless something is there already, and the two large archives    *)
(* are expanded by gunzip unless the expansion is there already.           *)
(*                                                                         *)
(* The contents of a file are the commit they come from, or Damaged when   *)
(* they are only a part of it.  curl and gunzip are external: they write a *)
(* file piece by piece, and may fail.  A run can be interrupted at any     *)
(* moment (a signal takes the script and its child), and between runs the  *)
(* maintainer may bump the pin, as the script's header says to.            *)
(***************************************************************************)
EXTENDS Integers, Sequences

CONSTANTS Commits,        \* upstream commits the script can be pinned to
          Script,         \* the files of one run, in the script's order
          Archive,        \* the files made by gunzip, each with its archive
          MaxInterrupts,  \* bound on interrupted runs
          MaxBumps        \* bound on pin bumps

VARIABLES pin,     \* the commit the script names
          disk,    \* what each file of data/ holds
          at,      \* position in Script while a run is on, 0 otherwise
          child,   \* "none", or the child process that writes the file
          status,  \* how the last run ended: "none", "ok" or "failed"
          scars    \* how often a run was interrupted, a gunzip failed, and
                   \* the pin was bumped, since data/ was created

vars == <<pin, disk, at, child, status, scars>>

Missing == "missing"
Damaged == "damaged"
Contents == Commits \cup {Missing, Damaged}

Files == {Script[i] : i \in 1 .. Len(Script)}

ASSUME ScriptIsSeq == Script \in Seq(Files)
ASSUME ArchivesAreFiles == \A f \in DOMAIN Archive : Archive[f] \in Files
ASSUME Bounds == MaxInterrupts \in Nat /\ MaxBumps \in Nat
ASSUME NotCommits == Missing \notin Commits /\ Damaged \notin Commits

Unscarred == [interrupt |-> 0, gunzip |-> 0, bump |-> 0]

Running == at # 0
File == Script[at]
Expanding == File \in DOMAIN Archive
Present(f) == disk[f] # Missing     \* [ -s "$dst" ]

TypeOK ==
  /\ pin \in Commits
  /\ disk \in [Files -> Contents]
  /\ at \in 0 .. Len(Script) + 1
  /\ child \in {"none", "curl", "gunzip"}
  /\ status \in {"none", "ok", "failed"}
  /\ scars \in [interrupt : 0 .. MaxInterrupts, gunzip : 0 .. 1, bump : 0 .. MaxBumps]
  /\ child # "none" => at \in 1 .. Len(Script)

Init ==
  /\ pin \in Commits
  /\ disk = [f \in Files |-> Missing]
  /\ at = 0
  /\ child = "none"
  /\ status = "none"
  /\ scars = Unscarred

Start ==
  /\ ~Running
  /\ at' = 1
  /\ status' = "none"
  /\ UNCHANGED <<pin, disk, child, scars>>

(* Something is there: `get` returns, `[ -s "$f" ] ||` is satisfied.       *)
Skip ==
  /\ at \in 1 .. Len(Script)
  /\ child = "none"
  /\ Present(File)
  /\ at' = at + 1
  /\ UNCHANGED <<pin, disk, child, status, scars>>

StartCurl ==
  /\ at \in 1 .. Len(Script)
  /\ child = "none"
  /\ ~Expanding
  /\ ~Present(File)
  /\ child' = "curl"
  /\ UNCHANGED <<pin, disk, at, status, scars>>

StartGunzip ==
  /\ at \in 1 .. Len(Script)
  /\ child = "none"
  /\ Expanding
  /\ ~Present(File)
  /\ child' = "gunzip"
  /\ UNCHANGED <<pin, disk, at, status, scars>>

(* The file holds a first part of what it will hold.                       *)
PartWritten ==
  /\ child # "none"
  /\ ~Present(File)
  /\ disk' = [disk EXCEPT ![File] = Damaged]
  /\ UNCHANGED <<pin, at, child, status, scars>>

(* A mutant of CurlDone: the URL names a branch, not the pinned commit.    *)
CurlDoneFloating ==
  /\ child = "curl"
  /\ \E c \in Commits : disk' = [disk EXCEPT ![File] = c]
  /\ at' = at + 1 /\ child' = "none"
  /\ UNCHANGED <<pin, status, scars>>

CurlDone ==
  /\ child = "curl"
  /\ disk' = [disk EXCEPT ![File] = pin]
  /\ at' = at + 1
  /\ child' = "none"
  /\ UNCHANGED <<pin, status, scars>>

(* Mutants of CurlFails: the partial file stays; the download is tried     *)
(* again without end.                                                      *)
CurlFailsDirty ==
  /\ child = "curl"
  /\ at' = 0 /\ child' = "none" /\ status' = "failed"
  /\ UNCHANGED <<pin, disk, scars>>

CurlRetries ==
  /\ child = "curl"
  /\ disk' = [disk EXCEPT ![File] = Missing]
  /\ child' = "none"
  /\ UNCHANGED <<pin, at, status, scars>>

(* rm -f "$dst"; return 1, and set -e ends the run.                        *)
CurlFails ==
  /\ child = "curl"
  /\ disk' = [disk EXCEPT ![File] = Missing]
  /\ at' = 0
  /\ child' = "none"
  /\ status' = "failed"
  /\ UNCHANGED <<pin, scars>>

(* A damaged archive does not expand.                                      *)
GunzipDone ==
  /\ child = "gunzip"
  /\ disk[Archive[File]] \in Commits
  /\ disk' = [disk EXCEPT ![File] = disk[Archive[File]]]
  /\ at' = at + 1
  /\ child' = "none"
  /\ UNCHANGED <<pin, status, scars>>

(* set -e ends the run; what gunzip has written stays.                     *)
GunzipFails ==
  /\ child = "gunzip"
  /\ at' = 0
  /\ child' = "none"
  /\ status' = "failed"
  /\ scars' = [scars EXCEPT !.gunzip = 1]
  /\ UNCHANGED <<pin, disk>>

Finish ==
  /\ at = Len(Script) + 1
  /\ at' = 0
  /\ status' = "ok"
  /\ UNCHANGED <<pin, disk, child, scars>>

Interrupt ==
  /\ Running
  /\ scars.interrupt < MaxInterrupts
  /\ scars' = [scars EXCEPT !.interrupt = @ + 1]
  /\ at' = 0
  /\ child' = "none"
  /\ status' = "failed"
  /\ UNCHANGED <<pin, disk>>

BumpPin(c) ==
  /\ ~Running
  /\ c # pin
  /\ scars.bump < MaxBumps
  /\ scars' = [scars EXCEPT !.bump = @ + 1]
  /\ pin' = c
  /\ status' = "none"
  /\ UNCHANGED <<disk, at, child>>

Progress ==
  \/ Skip \/ StartCurl \/ StartGunzip \/ PartWritten
  \/ CurlDone \/ CurlFails \/ GunzipDone \/ GunzipFails \/ Finish

Next ==
  \/ Start
  \/ Progress
  \/ Interrupt
  \/ \E c \in Commits : BumpPin(c)

(* A run that has begun goes on: curl is given --max-time 300, and an      *)
(* archive is finite.                                                      *)
Spec == Init /\ [][Next]_vars /\ WF_vars(Progress)
-----------------------------------------------------------------------------
BeingWritten(f) == child # "none" /\ f = File

AllPinned == \A f \in Files : disk[f] = pin

(* `get` cleans up after itself: without an interruption, a failed gunzip  *)
(* or a bump in the history of data/, however many downloads failed on the *)
(* way, no file but the one being written is anything but absent or the    *)
(* pinned one, and a run that succeeds leaves every file at the pin.       *)
UndisturbedIsPinned ==
  scars = Unscarred =>
    /\ \A f \in Files : ~BeingWritten(f) => disk[f] \in {Missing, pin}
    /\ status = "ok" => AllPinned

(* The position of the run splits the script: all files before it are      *)
(* present, and none of them is the one being written, which is no whole   *)
(* file yet; gunzip writes the expansions.                                 *)
Walk ==
  /\ child # "none" => disk[File] \notin Commits
  /\ child = "gunzip" => Expanding
  /\ \A i \in 1 .. Len(Script) :
       i < at => Present(Script[i]) /\ (child # "none" => Script[i] # File)
  /\ status = "ok" => at = 0 /\ \A f \in Files : Present(f)

IInv == TypeOK /\ Walk /\ UndisturbedIsPinned

(* Each kind of disturbance does its own harm: only a bump leaves a file   *)
(* of another commit, and only an interruption or a failed gunzip leaves a *)
(* part of a file; and a damaged archive needs an interruption.            *)
HarmHasCause ==
  /\ (\E f \in Files : disk[f] \in Commits \ {pin}) => scars.bump > 0
  /\ (\E f \in Files : disk[f] = Damaged /\ ~BeingWritten(f))
        => scars.interrupt > 0 \/ scars.gunzip > 0
  /\ (\E f \in Files \ DOMAIN Archive : disk[f] = Damaged /\ ~BeingWritten(f))
        => scars.interrupt > 0

(* Every run ends.                                                         *)
RunsEnd == Running ~> ~Running

(* The header of the script (7-10) and README 77: refs are pinned, and who *)
(* bumps the pin re-runs the script.  After that run data/ should hold the *)
(* pinned commit.                                                          *)
SuccessIsPinned == status = "ok" => AllPinned
=============================================================================
