---------------------------- MODULE HammerSetup -----------------------------
(***************************************************************************)
(* tools/build-rocket-hammer.sh setup, the macros: a clone is checked out  *)
(* at a pin and each compressed layout of it is expanded next to itself,   *)
(* where no expansion is yet.  git and gunzip are external; git moves the  *)
(* files it keeps, and leaves the expansions, which it does not.           *)
(***************************************************************************)
EXTENDS Naturals

CONSTANTS Versions,   \* of the macros that the script is pinned to
          Macros,     \* version -> the macros there are
          MAX_BUMPS   \* bound on changes of the pin

VARIABLES pin,
          srams,      \* "absent", "cut", or the commit checked out
          raw,        \* the expansions, each with the version it is of, or cut
          writing,    \* the macro whose expansion is being written, or "none"
          pc,
          bumps,
          kills,      \* expansions that were killed
          before      \* macros expanded before the last change of the pin
vars == <<pin, srams, raw, writing, pc, bumps, kills, before>>

Expanded(m) == \E r \in raw : r.macro = m

Init ==
  /\ pin \in Versions
  /\ srams = "absent" /\ raw = {} /\ writing = "none"
  /\ pc = "idle" /\ bumps = 0 /\ kills = {} /\ before = {}

Start ==
  /\ pc \in {"idle", "complete"} /\ pc' = "clone"
  /\ UNCHANGED <<pin, srams, raw, writing, bumps, kills, before>>

(* The clone has a commit of its own until the pin is checked out.         *)
Clone ==
  /\ pc = "clone"
  /\ \/ srams # "absent" /\ srams' = srams /\ pc' = "checkout"
     \/ srams = "absent" /\ srams' = "tip" /\ pc' = "checkout"
     \/ srams = "absent" /\ srams' \in {"absent", "cut"} /\ pc' = "idle"
  /\ UNCHANGED <<pin, raw, writing, bumps, kills, before>>

(* A mutant of CheckedOut: only a clone just made is checked out.          *)
CheckedOutOnce == IF srams = "tip" THEN pin ELSE srams

CheckedOut == pin

Checkout ==
  /\ pc = "checkout" /\ srams # "cut"
  /\ srams' = CheckedOut
  /\ pc' = "expand"
  /\ UNCHANGED <<pin, raw, writing, bumps, kills, before>>

Gunzip(m) ==
  /\ pc = "expand" /\ writing = "none" /\ m \in Macros[srams] /\ ~Expanded(m)
  /\ writing' = m
  /\ raw' = raw \cup {[macro |-> m, of |-> "cut"]}
  /\ UNCHANGED <<pin, srams, pc, bumps, kills, before>>

GunzipDone ==
  /\ writing # "none"
  /\ raw' = {r \in raw : r.macro # writing} \cup {[macro |-> writing, of |-> srams]}
  /\ writing' = "none"
  /\ UNCHANGED <<pin, srams, pc, bumps, kills, before>>

Complete ==
  /\ pc = "expand" /\ writing = "none" /\ \A m \in Macros[srams] : Expanded(m)
  /\ pc' = "complete"
  /\ UNCHANGED <<pin, srams, raw, writing, bumps, kills, before>>

(* Something failed, or the run is interrupted; gunzip removes what it has *)
(* written, unless it is killed.                                           *)
Stop ==
  /\ pc \notin {"idle", "complete"} /\ pc' = "idle"
  /\ \/ raw' = {r \in raw : r.macro # writing} /\ kills' = kills
     \/ writing # "none" /\ raw' = raw /\ kills' = kills \cup {writing}
  /\ writing' = "none"
  /\ UNCHANGED <<pin, srams, bumps, before>>

BumpPin ==
  /\ pc \in {"idle", "complete"} /\ bumps < MAX_BUMPS
  /\ pin' \in Versions \ {pin} /\ bumps' = bumps + 1 /\ pc' = "idle"
  /\ before' = before \cup {r.macro : r \in raw}
  /\ UNCHANGED <<srams, raw, writing, kills>>

(* A maintainer starts afresh.                                             *)
Remove ==
  /\ pc \in {"idle", "complete"} /\ pc' = "idle"
  /\ srams' = "absent" /\ raw' = {} /\ kills' = {} /\ before' = {}
  /\ UNCHANGED <<pin, writing, bumps>>

Next ==
  \/ Start \/ Clone \/ Checkout \/ GunzipDone \/ Complete \/ Stop \/ BumpPin \/ Remove
  \/ \E m \in UNION {Macros[v] : v \in Versions} : srams \in Versions /\ Gunzip(m)

Spec == Init /\ [][Next]_vars
-----------------------------------------------------------------------------
(* After a setup that completes, every macro of the pin has a layout, and  *)
(* it is the pin's, unless it was expanded before the pin was changed or   *)
(* its expansion was killed: those are kept.                               *)
LayoutsHaveCause ==
  pc = "complete" =>
    \A m \in Macros[pin] :
      \E r \in raw : r.macro = m /\ (r.of = pin \/ m \in before \cup kills)
=============================================================================
