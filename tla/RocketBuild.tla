---------------------------- MODULE RocketBuild -----------------------------
(***************************************************************************)
(* tools/build-rocket.sh and tools/run-rocket-flow.sh: Chipyard is cloned  *)
(* at a pin and elaborated, the Verilog is staged file by file, and the    *)
(* flow hardens the directory.  git, curl, make and the flow are external. *)
(***************************************************************************)
EXTENDS Naturals

CONSTANTS Versions,    \* of Chipyard that the script is pinned to
          Emitted,     \* version -> the files make elaborates for it
          Ext,         \* those that the SRAM wrappers replace, *_ext.v
          MAX_BUMPS    \* bound on changes of the pin

VARIABLES pin,
          chipyard,   \* "absent", "cut", or the commit checked out
          firtool,    \* "absent", "cut" or "whole", in the release's directory
          src,        \* the staged files, each with the version it is of
          dirs,       \* which of the directories src and macros there are
          pending,    \* the elaborated files not staged yet
          pc,
          hardened,   \* the files the flow was last run on, with the pin
                      \* and the lapses there were then
          bumps,
          lapses      \* what has happened since the staging was begun
vars == <<pin, chipyard, firtool, src, dirs, pending, pc, hardened, bumps, lapses>>

Design(v) == Emitted[v] \ Ext

Init ==
  /\ pin \in Versions
  /\ chipyard = "absent" /\ firtool = "absent"
  /\ src = {} /\ dirs = {} /\ pending = {}
  /\ pc = "idle" /\ hardened = [files |-> {}, pin |-> pin, lapses |-> {"none"}] /\ bumps = 0 /\ lapses = {}

Start ==
  /\ pc = "idle" /\ pc' = "clone"
  /\ UNCHANGED <<pin, chipyard, firtool, src, dirs, pending, hardened, bumps, lapses>>

(* The clone is at the tip of upstream, a commit of its own, until it is   *)
(* checked out; when git fails or is killed, the run ends.                 *)
Clone ==
  /\ pc = "clone" /\ chipyard = "absent"
  /\ \/ chipyard' = pin /\ pc' = "head"
     \/ chipyard' \in {"absent", "cut", "tip"} /\ pc' = "idle"
  /\ UNCHANGED <<pin, firtool, src, dirs, pending, hardened, bumps, lapses>>

KeepClone ==
  /\ pc = "clone" /\ chipyard # "absent" /\ pc' = "head"
  /\ UNCHANGED <<pin, chipyard, firtool, src, dirs, pending, hardened, bumps, lapses>>

(* A mutant of AtPin: the commit of any pin will do.                       *)
AtSomeCommit == chipyard \in Versions

AtPin == chipyard = pin

Head ==
  /\ pc = "head" /\ pc' = IF AtPin THEN "firtool" ELSE "idle"
  /\ UNCHANGED <<pin, chipyard, firtool, src, dirs, pending, hardened, bumps, lapses>>

(* What is there is not fetched again, and what fails the checksum ends    *)
(* the run.                                                                *)
Firtool ==
  /\ pc = "firtool"
  /\ firtool' \in IF firtool = "absent" THEN {"absent", "cut", "whole"} ELSE {firtool}
  /\ pc' = IF firtool' = "whole" THEN "make" ELSE "idle"
  /\ UNCHANGED <<pin, chipyard, src, dirs, pending, hardened, bumps, lapses>>

(* A mutant of Cleared: what was staged before stays.                      *)
ClearedNothing == src

(* rm -rf src; mkdir -p src                                                *)
Cleared == {}

Elaborate ==
  /\ pc = "make"
  /\ src' = Cleared /\ dirs' = dirs \cup {"src"}
  /\ pending' = {[file |-> f, of |-> chipyard] : f \in Emitted[chipyard]}
  /\ lapses' = {}
  /\ pc' = "copy"
  /\ UNCHANGED <<pin, chipyard, firtool, hardened, bumps>>

(* A cp that fails is ignored.                                             *)
Copy(f) ==
  /\ pc = "copy" /\ f \in pending
  /\ pending' = pending \ {f}
  /\ \/ /\ src' = {g \in src : g.file # f.file} \cup {f}
        /\ lapses' = lapses
     \/ /\ src' = src
        /\ lapses' = lapses \cup {"copy"}
  /\ UNCHANGED <<pin, chipyard, firtool, dirs, pc, hardened, bumps>>

RemoveExt ==
  /\ pc = "copy" /\ pending = {}
  /\ src' = {f \in src : f.file \notin Ext}
  /\ pc' = "macros"
  /\ UNCHANGED <<pin, chipyard, firtool, dirs, pending, hardened, bumps, lapses>>

(* Without the PDK's macros the run ends here.                             *)
Macros ==
  /\ pc = "macros"
  /\ dirs' = dirs \cup {"macros"}
  /\ pc' = "idle"
  /\ UNCHANGED <<pin, chipyard, firtool, src, pending, hardened, bumps, lapses>>

(* Interrupted, or a command has failed that is not ignored.               *)
Stop ==
  /\ pc # "idle" /\ pc' = "idle"
  /\ lapses' = IF pc = "copy" THEN lapses \cup {"stop"} ELSE lapses
  /\ pending' = {}
  /\ UNCHANGED <<pin, chipyard, firtool, src, dirs, hardened, bumps>>

(* run-rocket-flow.sh asks for the two directories.                        *)
Harden ==
  /\ pc = "idle" /\ dirs = {"src", "macros"}
  /\ hardened' = [files |-> src, pin |-> pin, lapses |-> lapses]
  /\ UNCHANGED <<pin, chipyard, firtool, src, dirs, pending, pc, bumps, lapses>>

BumpPin ==
  /\ bumps < MAX_BUMPS /\ bumps' = bumps + 1
  /\ pc = "idle" /\ pin' \in Versions \ {pin}
  /\ lapses' = lapses \cup {"bump"}
  /\ UNCHANGED <<chipyard, firtool, src, dirs, pending, pc, hardened>>

(* A maintainer removes a clone or a firtool that is refused.              *)
CleanUp ==
  /\ pc = "idle"
  /\ chipyard' \in {chipyard, "absent"} /\ firtool' \in {firtool, "absent"}
  /\ UNCHANGED <<pin, src, dirs, pending, pc, hardened, bumps, lapses>>

Next ==
  \/ Start \/ Clone \/ KeepClone \/ Head \/ Firtool \/ Elaborate
  \/ \E f \in pending : Copy(f)
  \/ RemoveExt \/ Macros \/ Stop \/ Harden \/ BumpPin \/ CleanUp

Spec == Init /\ [][Next]_vars
-----------------------------------------------------------------------------
(* The flow runs on the files of one elaboration, that of the pin unless   *)
(* the pin has changed since they were staged.  Files are missing only     *)
(* when a copy failed or the staging was stopped, and a memory that the    *)
(* wrappers define too is there only when it was stopped: the flow asks    *)
(* for no more than the directories.                                       *)
HardenedHasCause ==
  LET files == hardened.files
  IN  /\ \A f, g \in files : f.of = g.of
      /\ "bump" \notin hardened.lapses => \A f \in files : f.of = hardened.pin
      /\ hardened.lapses = {} => {f.file : f \in files} = Design(hardened.pin)
      /\ "stop" \notin hardened.lapses => \A f \in files : f.file \notin Ext
=============================================================================
