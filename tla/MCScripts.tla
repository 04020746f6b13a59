----------------------------- MODULE MCScripts -----------------------------
(***************************************************************************)
(* One TLC instance of the scripts that leave files which later runs, and  *)
(* other tools, take for what they are named: install-toolchain.sh, where  *)
(* riscv has its version in the names of its archive and of its tree and   *)
(* flow in neither; sta-rerun.sh; regenerate-core.sh; build-rocket.sh with *)
(* run-rocket-flow.sh; the setup of build-rocket-hammer.sh; and the book's *)
(* workflow.  Every behaviour is of one of them.                           *)
(***************************************************************************)
EXTENDS InstallToolchain

CONSTANTS Corners, MAX_CHANGES, MAX_RUNS,     \* of sta-rerun.sh
          Emits, Committed,                   \* of the generator of the core
          Tags, Emitted, Ext, Archives,       \* of Chipyard and of the macros
          Pins, Files, MAX_HEAD,              \* of the book's workflow
          MAX_BUMPS                           \* of a script's pin

(* The values TLC gives those that are functions.                          *)
RiscvFlow == <<"riscv", "flow">>
TwoCorners == <<"tt", "ss">>
EmitsLate == [v \in 0 .. 2 |-> IF v = 2 THEN "b" ELSE "a"]
CommitsEarly == [v \in 0 .. 2 |-> IF v = 0 THEN "a" ELSE "b"]
OldIsDropped == [v0 |-> {"core", "old", "mem_ext"}, v1 |-> {"core", "mem_ext"}]
OneIsReplaced == [v0 |-> {"a", "b"}, v1 |-> {"b", "c"}]

ASSUME CornersInOrder == Corners \in Seq({Corners[k] : k \in DOMAIN Corners})
ASSUME MacrosAreNamed == \A v \in Tags : "none" \notin Archives[v]
ASSUME PinsAreNoGap == Pins # {} /\ "missing" \notin Pins

VARIABLES script,
  inputs, newer, stanet, logs, summary, sta_pc, corner, force, reading, runs,
  raced, outdated, faults,
  tip, core_pin, clone, target, core_pc, core_bumps, core_lapses,
  rocket_pin, chipyard, firtool, src, dirs, pending, rocket_pc, hardened,
  rocket_bumps, rocket_lapses,
  hammer_pin, srams, raw, writing, hammer_pc, hammer_bumps, kills, before,
  head, waiting, job, cache, site

Sta == INSTANCE StaRerun WITH pc <- sta_pc, at <- corner
Core == INSTANCE CoreTarget WITH pin <- core_pin, pc <- core_pc, bumps <- core_bumps,
          lapses <- core_lapses
Rocket == INSTANCE RocketBuild WITH Versions <- Tags, pin <- rocket_pin, pc <- rocket_pc,
            bumps <- rocket_bumps, lapses <- rocket_lapses
Hammer == INSTANCE HammerSetup WITH Versions <- Tags, Macros <- Archives,
            pin <- hammer_pin, pc <- hammer_pc, bumps <- hammer_bumps
Book == INSTANCE BookPages

sta == <<inputs, newer, stanet, logs, summary, sta_pc, corner, force, reading, runs,
         raced, outdated, faults>>
core == <<tip, core_pin, clone, target, core_pc, core_bumps, core_lapses>>
rocket == <<rocket_pin, chipyard, firtool, src, dirs, pending, rocket_pc, hardened,
            rocket_bumps, rocket_lapses>>
hammer == <<hammer_pin, srams, raw, writing, hammer_pc, hammer_bumps, kills, before>>
book == <<head, waiting, job, cache, site>>

(* The inputs of those that stay idle are fixed.                           *)
ScriptsInit ==
  /\ script \in {"install", "sta", "core", "rocket", "hammer", "book"}
  /\ Init /\ Sta!Init /\ Core!Init /\ Rocket!Init /\ Hammer!Init /\ Book!Init
  /\ script # "core" => core_pin = 0
  /\ script # "rocket" => rocket_pin = CHOOSE v \in Tags : TRUE
  /\ script # "hammer" => hammer_pin = CHOOSE v \in Tags : TRUE
  /\ script # "book" => head.pin = CHOOSE p \in Pins : TRUE
  /\ script # "install" => pin = CHOOSE r \in Releases : TRUE

InstallStep == script = "install" /\ Next /\ UNCHANGED <<script, sta, core, rocket, hammer, book>>
StaStep == script = "sta" /\ Sta!Next /\ UNCHANGED <<script, vars, core, rocket, hammer, book>>
CoreStep == script = "core" /\ Core!Next /\ UNCHANGED <<script, vars, sta, rocket, hammer, book>>
RocketStep == script = "rocket" /\ Rocket!Next /\ UNCHANGED <<script, vars, sta, core, hammer, book>>
HammerStep == script = "hammer" /\ Hammer!Next /\ UNCHANGED <<script, vars, sta, core, rocket, book>>
BookStep == script = "book" /\ Book!Next /\ UNCHANGED <<script, vars, sta, core, rocket, hammer>>

ScriptsNext == InstallStep \/ StaStep \/ CoreStep \/ RocketStep \/ HammerStep \/ BookStep

ScriptsSpec == ScriptsInit /\ [][ScriptsNext]_<<script, vars, sta, core, rocket, hammer, book>>
-----------------------------------------------------------------------------
(* What the scripts derive is of the inputs and the pins there are, or has *)
(* a cause that can be named: the numbers of a timing summary, the target  *)
(* core, the Verilog that the flow hardens, the layouts of the macros, and *)
(* the page that is published.                                             *)
DerivedHasCause ==
  /\ Sta!SummaryHasCause /\ Core!TargetHasCause /\ Rocket!HardenedHasCause
  /\ Hammer!LayoutsHaveCause /\ Book!PublishedIsPinned
=============================================================================
