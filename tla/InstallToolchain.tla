-------------------------- MODULE InstallToolchain --------------------------
(***************************************************************************)
(* tools/install-toolchain.sh: the tool groups installed from an upstream  *)
(* archive (cad, riscv, mdbook, sbt, flow).  For each selected group the   *)
(* script tests whether one file of the group's tree is there; if not,     *)
(* `get` provides the archive, checked against the recorded sha256, and it *)
(* is unpacked into the tree.                                              *)
(*                                                                         *)
(* Releases stand for a version together with its recorded hash.  The      *)
(* contents of a download are the release they are, or Other when they     *)
(* hash to none (a partial download, an altered file).  A tree is made of  *)
(* Parts, one of which is the file the test looks for; each part is the    *)
(* release it was unpacked from, or absent.  curl and tar are external:    *)
(* tar unpacks the parts in an order of its own.                           *)
(***************************************************************************)
EXTENDS Integers, Sequences

CONSTANTS Releases,       \* the releases a group can be pinned to
          Script,         \* the groups, in the script's order
          NamedArchives,  \* groups whose archive's file name has the version
          NamedTrees,     \* groups whose tree's directory name has it
          Parts,          \* the parts of a tree
          MaxInterrupts,  \* bound on interrupted runs
          MaxCuts,        \* bound on unpackings that fail
          MaxBumps        \* bound on version bumps

CONSTANT Tested   \* the part whose presence means "already installed"

ASSUME TestedIsPart == Tested \in Parts
ASSUME Bounds == MaxInterrupts \in Nat /\ MaxCuts \in Nat /\ MaxBumps \in Nat

VARIABLES pin,      \* the release the script names
          dl,       \* contents of the download directory, by file
          tree,     \* the installed trees, by directory
          at,       \* position in Script while a run is on, 0 otherwise
          step,     \* what the run is doing: see Steps
          wanted,   \* the groups selected with --only
          status,   \* how the last run ended
          scars     \* disturbances so far: interrupted runs, unpackings that
                    \* failed, bumps

vars == <<pin, dl, tree, at, step, wanted, status, scars>>

Missing == "missing"
Other == "other"
Absent == "absent"
Any == "any"
Steps == {"test", "get", "curl", "verify", "unpack"}

Groups == {Script[i] : i \in 1 .. Len(Script)}
ASSUME ScriptIsSeq == Script \in Seq(Groups)

Slots == Groups \X (Releases \cup {Any})
Unscarred == [interrupt |-> 0, unpack |-> 0, bump |-> 0]

Group == Script[at]

(* $DL/<file> and $OPT/<dir> of group g.                                   *)
Archive(g) == <<g, IF g \in NamedArchives THEN pin ELSE Any>>
Tree(g) == <<g, IF g \in NamedTrees THEN pin ELSE Any>>

Running == at # 0
On(s) == at \in 1 .. Len(Script) /\ step = s

TypeOK ==
  /\ pin \in Releases
  /\ dl \in [Slots -> Releases \cup {Missing, Other}]
  /\ tree \in [Slots -> [Parts -> Releases \cup {Absent}]]
  /\ at \in 0 .. Len(Script) + 1
  /\ step \in Steps
  /\ wanted \subseteq Groups
  /\ status \in {"none", "ok", "failed"}
  /\ scars \in [interrupt : 0 .. MaxInterrupts, unpack : 0 .. MaxCuts, bump : 0 .. MaxBumps]

Init ==
  /\ pin \in Releases
  /\ dl = [s \in Slots |-> Missing]
  /\ tree = [s \in Slots |-> [p \in Parts |-> Absent]]
  /\ at = 0
  /\ step = "test"
  /\ wanted = {}
  /\ status = "none"
  /\ scars = Unscarred

Start ==
  /\ ~Running
  /\ wanted' \in (SUBSET Groups) \ {{}}
  /\ at' = 1
  /\ step' = "test"
  /\ status' = "none"
  /\ UNCHANGED <<pin, dl, tree, scars>>

Fail ==
  /\ at' = 0
  /\ status' = "failed"

(* A mutant of Skip: the test finds the tool in the tree of any release.   *)
SkipAnyRelease ==
  /\ On("test")
  /\ Group \notin wanted \/ \E s \in Slots : s[1] = Group /\ tree[s][Tested] # Absent
  /\ at' = at + 1
  /\ UNCHANGED <<pin, dl, tree, step, wanted, status, scars>>

(* want g, and [ -x <the tested file> ].                                   *)
Skip ==
  /\ On("test")
  /\ Group \notin wanted \/ tree[Tree(Group)][Tested] # Absent
  /\ at' = at + 1
  /\ UNCHANGED <<pin, dl, tree, step, wanted, status, scars>>

(* A mutant of Install: the group is unpacked whether or not it is there.  *)
InstallAlways ==
  /\ On("test")
  /\ Group \in wanted
  /\ step' = "get"
  /\ UNCHANGED <<pin, dl, tree, at, wanted, status, scars>>

Install ==
  /\ On("test")
  /\ Group \in wanted
  /\ tree[Tree(Group)][Tested] = Absent
  /\ step' = "get"
  /\ UNCHANGED <<pin, dl, tree, at, wanted, status, scars>>

(* A mutant of Cached: a file that is there is not hashed.                 *)
CachedUnverified ==
  /\ On("get")
  /\ dl[Archive(Group)] # Missing
  /\ step' = "unpack"
  /\ UNCHANGED <<pin, dl, tree, at, wanted, status, scars>>

(* The archive is cached and hashes to the recorded sha256.                *)
Cached ==
  /\ On("get")
  /\ dl[Archive(Group)] = pin
  /\ step' = "unpack"
  /\ UNCHANGED <<pin, dl, tree, at, wanted, status, scars>>

Fetch ==
  /\ On("get")
  /\ dl[Archive(Group)] # pin
  /\ step' = "curl"
  /\ UNCHANGED <<pin, dl, tree, at, wanted, status, scars>>

(* curl has overwritten the file with the first bytes of what it gets.     *)
PartFetched ==
  /\ On("curl")
  /\ dl[Archive(Group)] # Other
  /\ dl' = [dl EXCEPT ![Archive(Group)] = Other]
  /\ UNCHANGED <<pin, tree, at, step, wanted, status, scars>>

(* curl ends: with the release, or with what upstream now serves instead.  *)
Fetched ==
  /\ On("curl")
  /\ \E c \in {pin, Other} : dl' = [dl EXCEPT ![Archive(Group)] = c]
  /\ step' = "verify"
  /\ UNCHANGED <<pin, tree, at, wanted, status, scars>>

(* A mutant of CurlFails: without set -e the script goes on.               *)
CurlFailsSilently ==
  /\ On("curl")
  /\ at' = at + 1 /\ step' = "test"
  /\ UNCHANGED <<pin, dl, tree, wanted, status, scars>>

(* set -e ends the run; the file stays as curl left it.                    *)
CurlFails ==
  /\ On("curl")
  /\ Fail
  /\ UNCHANGED <<pin, dl, tree, step, wanted, scars>>

Verified ==
  /\ On("verify")
  /\ dl[Archive(Group)] = pin
  /\ step' = "unpack"
  /\ UNCHANGED <<pin, dl, tree, at, wanted, status, scars>>

(* sha256 MISMATCH: rm -f "$out"; exit 1.                                  *)
Mismatch ==
  /\ On("verify")
  /\ dl[Archive(Group)] # pin
  /\ dl' = [dl EXCEPT ![Archive(Group)] = Missing]
  /\ Fail
  /\ UNCHANGED <<pin, tree, step, wanted, scars>>

(* One more part of the archive replaces what the tree has in its place.   *)
UnpackPart(p) ==
  /\ On("unpack")
  /\ tree[Tree(Group)][p] # dl[Archive(Group)]
  /\ tree' = [tree EXCEPT ![Tree(Group)][p] = dl[Archive(Group)]]
  /\ UNCHANGED <<pin, dl, at, step, wanted, status, scars>>

Unpacked ==
  /\ On("unpack")
  /\ \A p \in Parts : tree[Tree(Group)][p] = dl[Archive(Group)]
  /\ at' = at + 1
  /\ step' = "test"
  /\ UNCHANGED <<pin, dl, tree, wanted, status, scars>>

(* A full disk: tar fails, set -e ends the run, the parts stay.            *)
UnpackFails ==
  /\ On("unpack")
  /\ scars.unpack < MaxCuts
  /\ scars' = [scars EXCEPT !.unpack = @ + 1]
  /\ Fail
  /\ UNCHANGED <<pin, dl, tree, step, wanted>>

Finish ==
  /\ at = Len(Script) + 1
  /\ at' = 0
  /\ status' = "ok"
  /\ UNCHANGED <<pin, dl, tree, step, wanted, scars>>

Interrupt ==
  /\ Running
  /\ scars.interrupt < MaxInterrupts
  /\ scars' = [scars EXCEPT !.interrupt = @ + 1]
  /\ Fail
  /\ UNCHANGED <<pin, dl, tree, step, wanted>>

Bump(r) ==
  /\ ~Running
  /\ r # pin
  /\ scars.bump < MaxBumps
  /\ scars' = [scars EXCEPT !.bump = @ + 1]
  /\ pin' = r
  /\ status' = "none"
  /\ UNCHANGED <<dl, tree, at, step, wanted>>

Next ==
  \/ Start \/ Skip \/ Install
  \/ Cached \/ Fetch \/ PartFetched \/ Fetched \/ CurlFails \/ Verified \/ Mismatch
  \/ \E p \in Parts : UnpackPart(p)
  \/ Unpacked \/ UnpackFails \/ Finish \/ Interrupt
  \/ \E r \in Releases : Bump(r)

Spec == Init /\ [][Next]_vars
-----------------------------------------------------------------------------
AtPin(g) == \A p \in Parts : tree[Tree(g)][p] = pin

(* No bit of a download that does not hash to a recorded sha256 is ever    *)
(* unpacked - whatever upstream serves, wherever a download stops, and     *)
(* whatever an earlier run left in the download directory - and every part *)
(* of a directory named after a release comes from that release.           *)
OnlyVerifiedBits ==
  /\ On("unpack") => dl[Archive(Group)] = pin
  /\ \A g \in NamedTrees \cap Groups : \A r \in Releases : \A p \in Parts :
       tree[<<g, r>>][p] \in {r, Absent}

(* Where the directory is named after the version, a run that succeeds has *)
(* installed the pinned release, even after bumps, unless an unpacking was *)
(* cut short.                                                              *)
NamedFollowsPin ==
  status = "ok" /\ scars.interrupt = 0 /\ scars.unpack = 0
    => \A g \in wanted \cap NamedTrees : AtPin(g)

(* Elsewhere that takes an undisturbed history.                            *)
UndisturbedIsPinned ==
  status = "ok" /\ scars = Unscarred => \A g \in wanted : AtPin(g)

(* An installed tree of another release is never touched again: the test   *)
(* finds its file, so no run replaces it or completes it.                  *)
OldReleaseStays ==
  [][\A s \in Slots : tree[s][Tested] \notin {Absent, pin} => tree'[s] = tree[s]]_vars
=============================================================================
