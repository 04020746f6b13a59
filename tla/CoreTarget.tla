----------------------------- MODULE CoreTarget -----------------------------
(***************************************************************************)
(* tools/regenerate-core.sh: the target core is generated from a clone of  *)
(* the generator's repository at a pin, after a control: the generator has *)
(* to reproduce the file that is committed next to it.  The generator is a *)
(* submodule of the repository.                                            *)
(*                                                                         *)
(* A version is a commit of upstream, whose newest the clone starts from;  *)
(* what git and sbt do is external, and may fail at any step.              *)
(***************************************************************************)
EXTENDS Integers

CONSTANTS Emits,      \* version -> what the generator of that commit emits
          Committed,  \* version -> the file committed there
          MAX_BUMPS   \* bound on changes of the pin

VARIABLES tip, pin,   \* upstream's newest commit, and PYTHONDATA
          clone,      \* $SRC: its state, its commit, its submodules' commit
          target,     \* data/mgmt/VexRiscv_target.v, and the clone it is from
          pc,
          bumps,
          lapses      \* what has happened to the clone since it was made
vars == <<tip, pin, clone, target, pc, bumps, lapses>>

Versions == DOMAIN Emits
Tree(state, of, submodules) == [state |-> state, of |-> of, submodules |-> submodules]
Absent == Tree("absent", 0, 0)

Init ==
  /\ tip = 1 /\ pin \in {0, 1}
  /\ clone = Absent /\ target = Absent
  /\ pc = "idle" /\ bumps = 0 /\ lapses = {}

Start == pc \in {"idle", "done"} /\ pc' = "start" /\ UNCHANGED <<tip, pin, clone, target, bumps, lapses>>

(* The first git clone of the script takes $SRC for the repository and     *)
(* fails; the second clones the newest commit and its submodules.          *)
Clone ==
  /\ pc = "start" /\ clone.state = "absent"
  /\ clone' = Tree("whole", tip, tip)
  /\ pc' = "checkout" /\ lapses' = {}
  /\ UNCHANGED <<tip, pin, target, bumps>>

(* git removes what it has cloned, unless it is killed.                    *)
CloneStops ==
  /\ pc = "start" /\ clone.state = "absent"
  /\ \E state \in {"absent", "cut"} : clone' = Tree(state, 0, 0)
  /\ pc' = "idle"
  /\ UNCHANGED <<tip, pin, target, bumps, lapses>>

KeepClone ==
  /\ pc = "start" /\ clone.state # "absent"
  /\ pc' = "control"
  /\ UNCHANGED <<tip, pin, clone, target, bumps, lapses>>

(* The submodules stay where they are.                                     *)
Checkout ==
  /\ pc = "checkout"
  /\ clone' = [clone EXCEPT !.of = pin]
  /\ pc' = "control"
  /\ UNCHANGED <<tip, pin, target, bumps, lapses>>

CheckoutFails ==
  /\ pc = "checkout"
  /\ lapses' = lapses \cup {"checkout"}
  /\ pc' = "control"
  /\ UNCHANGED <<tip, pin, clone, target, bumps>>

(* A mutant of ControlOK: the control is a warning.                        *)
ControlWarns == clone.state = "whole"

ControlOK == clone.state = "whole" /\ Emits[clone.submodules] = Committed[clone.of]

Control ==
  /\ pc = "control"
  /\ pc' = IF ControlOK THEN "experiment" ELSE "idle"
  /\ UNCHANGED <<tip, pin, clone, target, bumps, lapses>>

Experiment ==
  /\ pc = "experiment"
  /\ target' = Tree("cut", clone.of, clone.submodules)
  /\ pc' = "install"
  /\ UNCHANGED <<tip, pin, clone, bumps, lapses>>

Install ==
  /\ pc = "install"
  /\ target' = [target EXCEPT !.state = "whole"]
  /\ pc' = "done"
  /\ UNCHANGED <<tip, pin, clone, bumps, lapses>>

(* sbt fails, or the run is interrupted; before the checkout that is one   *)
(* that never happens, for the next run finds a clone.                     *)
Stop ==
  /\ pc \in {"checkout", "control", "experiment", "install"}
  /\ lapses' = IF pc = "checkout" THEN lapses \cup {"checkout"} ELSE lapses
  /\ pc' = "idle"
  /\ UNCHANGED <<tip, pin, clone, target, bumps>>

(* Upstream moves on; a maintainer edits the pin, or removes the clone.    *)
Upstream == tip + 1 \in Versions /\ tip' = tip + 1 /\ UNCHANGED <<pin, clone, target, pc, bumps, lapses>>

BumpPin ==
  /\ bumps < MAX_BUMPS /\ bumps' = bumps + 1
  /\ pin' \in 0 .. tip /\ pin' # pin
  /\ lapses' = lapses \cup {"bump"}
  /\ UNCHANGED <<tip, clone, target, pc>>

RemoveClone ==
  /\ pc \in {"idle", "done"} /\ clone.state # "absent"
  /\ clone' = Absent /\ pc' = "idle"
  /\ UNCHANGED <<tip, pin, target, bumps, lapses>>

Next ==
  \/ Start \/ Clone \/ CloneStops \/ KeepClone \/ Checkout \/ CheckoutFails
  \/ Control \/ Experiment \/ Install \/ Stop
  \/ Upstream \/ BumpPin \/ RemoveClone

Spec == Init /\ [][Next]_vars
-----------------------------------------------------------------------------
(* Whatever happened before, the target that is installed is from a clone  *)
(* that passed the control.  A run that ends leaves one that is whole and  *)
(* from the pin, unless a checkout failed or never happened, which the     *)
(* script does not notice, or the pin was changed under a clone.  That the *)
(* generator is newer than the pin shows only in the control, if it does.  *)
TargetHasCause ==
  /\ target.state = "whole" => Emits[target.submodules] = Committed[target.of]
  /\ pc = "done" => target.state = "whole" /\ (target.of = pin \/ lapses # {})
=============================================================================
