---------------------------- MODULE ScriptsProofs ----------------------------
(***************************************************************************)
(* The scripts that leave files, for every script, tree, release, corner,  *)
(* generator, macro and page: what each derives is of its inputs and of    *)
(* its pin, or has a cause that can be named.                              *)
(***************************************************************************)
EXTENDS MCScripts, SequenceTheorems, TLAPS

(* A run of the scripts is one of each of them.                            *)
LEMMA RunsInstall == ScriptsSpec => Spec
<1>1. ScriptsInit => Init
  BY DEF ScriptsInit
<1>2. [ScriptsNext]_<<script, vars, sta, core, rocket, hammer, book>> => [Next]_vars
  BY DEF ScriptsNext, InstallStep, StaStep, CoreStep, RocketStep, HammerStep, BookStep
<1>3. QED BY <1>1, <1>2, PTL DEF ScriptsSpec, Spec

LEMMA RunsSta == ScriptsSpec => Sta!Spec
<1>1. ScriptsInit => Sta!Init
  BY DEF ScriptsInit
<1>2. [ScriptsNext]_<<script, vars, sta, core, rocket, hammer, book>> => [Sta!Next]_(Sta!vars)
  BY DEF ScriptsNext, InstallStep, StaStep, CoreStep, RocketStep, HammerStep, BookStep, sta, Sta!vars
<1>3. QED BY <1>1, <1>2, PTL DEF ScriptsSpec, Sta!Spec

LEMMA RunsCore == ScriptsSpec => Core!Spec
<1>1. ScriptsInit => Core!Init
  BY DEF ScriptsInit
<1>2. [ScriptsNext]_<<script, vars, sta, core, rocket, hammer, book>> => [Core!Next]_(Core!vars)
  BY DEF ScriptsNext, InstallStep, StaStep, CoreStep, RocketStep, HammerStep, BookStep, core, Core!vars
<1>3. QED BY <1>1, <1>2, PTL DEF ScriptsSpec, Core!Spec

LEMMA RunsRocket == ScriptsSpec => Rocket!Spec
<1>1. ScriptsInit => Rocket!Init
  BY DEF ScriptsInit
<1>2. [ScriptsNext]_<<script, vars, sta, core, rocket, hammer, book>> => [Rocket!Next]_(Rocket!vars)
  BY DEF ScriptsNext, InstallStep, StaStep, CoreStep, RocketStep, HammerStep, BookStep, rocket, Rocket!vars
<1>3. QED BY <1>1, <1>2, PTL DEF ScriptsSpec, Rocket!Spec

LEMMA RunsHammer == ScriptsSpec => Hammer!Spec
<1>1. ScriptsInit => Hammer!Init
  BY DEF ScriptsInit
<1>2. [ScriptsNext]_<<script, vars, sta, core, rocket, hammer, book>> => [Hammer!Next]_(Hammer!vars)
  BY DEF ScriptsNext, InstallStep, StaStep, CoreStep, RocketStep, HammerStep, BookStep, hammer, Hammer!vars
<1>3. QED BY <1>1, <1>2, PTL DEF ScriptsSpec, Hammer!Spec

LEMMA RunsBook == ScriptsSpec => Book!Spec
<1>1. ScriptsInit => Book!Init
  BY DEF ScriptsInit
<1>2. [ScriptsNext]_<<script, vars, sta, core, rocket, hammer, book>> => [Book!Next]_(Book!vars)
  BY DEF ScriptsNext, InstallStep, StaStep, CoreStep, RocketStep, HammerStep, BookStep, book, Book!vars
<1>3. QED BY <1>1, <1>2, PTL DEF ScriptsSpec, Book!Spec
-----------------------------------------------------------------------------
(* install-toolchain.sh.                                                   *)
LEMMA ScriptFacts ==
  /\ Len(Script) \in Nat
  /\ \A i \in 1 .. Len(Script) : Script[i] \in Groups
BY ScriptIsSeq, LenProperties DEF Groups

(* The files of the group the run is at.                                   *)
LEMMA SlotFacts ==
  ASSUME TypeOK, at \in 1 .. Len(Script)
  PROVE  Group \in Groups /\ Archive(Group) \in Slots /\ Tree(Group) \in Slots
<1>1. Group \in Groups
  BY ScriptFacts DEF Group
<1>2. QED BY <1>1 DEF Archive, Tree, Slots, TypeOK

LEMMA TypeStep ==
  ASSUME TypeOK, OnlyVerifiedBits, [Next]_vars
  PROVE  TypeOK'
<1> USE ScriptFacts, Bounds
<1>1. /\ at \in 0 .. Len(Script) + 1 /\ pin \in Releases
      /\ dl \in [Slots -> Releases \cup {Missing, Other}]
      /\ tree \in [Slots -> [Parts -> Releases \cup {Absent}]]
  BY DEF TypeOK
<1>2. ASSUME NEW s, On(s)
      PROVE  /\ at \in 1 .. Len(Script) /\ at + 1 \in 0 .. Len(Script) + 1
             /\ Archive(Group) \in Slots /\ Tree(Group) \in Slots
  BY <1>1, <1>2, SlotFacts DEF On
<1>3. CASE Start
  BY <1>3 DEF Start, Running, TypeOK, Steps
<1>4. CASE Skip
  BY <1>2, <1>4 DEF Skip, TypeOK
<1>5. CASE Install \/ Cached \/ Fetch \/ Verified
  BY <1>5 DEF Install, Cached, Fetch, Verified, TypeOK, Steps
<1>6. CASE PartFetched
  <2>1. dl' \in [Slots -> Releases \cup {Missing, Other}]
    BY <1>1, <1>6 DEF PartFetched
  <2>2. QED BY <1>6, <2>1 DEF PartFetched, TypeOK
<1>7. CASE Fetched
  <2>1. dl' \in [Slots -> Releases \cup {Missing, Other}]
    BY <1>1, <1>7 DEF Fetched
  <2>2. QED BY <1>7, <2>1 DEF Fetched, TypeOK, Steps
<1>8. CASE Mismatch
  <2>1. dl' \in [Slots -> Releases \cup {Missing, Other}]
    BY <1>1, <1>8 DEF Mismatch
  <2>2. QED BY <1>8, <2>1 DEF Mismatch, Fail, TypeOK
<1>9. ASSUME NEW p \in Parts, UnpackPart(p) PROVE TypeOK'
  <2>1. dl[Archive(Group)] = pin
    BY <1>9 DEF UnpackPart, OnlyVerifiedBits
  <2>2. tree[Tree(Group)] \in [Parts -> Releases \cup {Absent}]
    BY <1>1, <1>2, <1>9 DEF UnpackPart
  <2>3. tree' = [tree EXCEPT ![Tree(Group)] = [tree[Tree(Group)] EXCEPT ![p] = pin]]
    BY <1>9, <2>1 DEF UnpackPart
  <2>4. tree' \in [Slots -> [Parts -> Releases \cup {Absent}]]
    BY <1>1, <2>2, <2>3
  <2>5. QED BY <1>9, <2>4 DEF UnpackPart, TypeOK
<1>10. CASE Unpacked
  BY <1>2, <1>10 DEF Unpacked, TypeOK, Steps
<1>11. CASE CurlFails
  BY <1>11 DEF CurlFails, Fail, TypeOK
<1>12. CASE UnpackFails
  <2>1. scars.unpack \in Nat /\ scars.unpack + 1 \in 0 .. MaxCuts
    BY <1>12 DEF UnpackFails, TypeOK
  <2>2. scars' \in [interrupt : 0 .. MaxInterrupts, unpack : 0 .. MaxCuts, bump : 0 .. MaxBumps]
    BY <1>12, <2>1 DEF UnpackFails, TypeOK
  <2>3. QED BY <1>1, <1>12, <2>2 DEF UnpackFails, Fail, TypeOK
<1>13. CASE Finish
  BY <1>13 DEF Finish, TypeOK
<1>14. CASE Interrupt
  <2>1. scars.interrupt \in Nat /\ scars.interrupt + 1 \in 0 .. MaxInterrupts
    BY <1>14 DEF Interrupt, TypeOK
  <2>2. scars' \in [interrupt : 0 .. MaxInterrupts, unpack : 0 .. MaxCuts, bump : 0 .. MaxBumps]
    BY <1>14, <2>1 DEF Interrupt, TypeOK
  <2>3. QED BY <1>1, <1>14, <2>2 DEF Interrupt, Fail, TypeOK
<1>15. ASSUME NEW r \in Releases, Bump(r) PROVE TypeOK'
  <2>1. scars.bump \in Nat /\ scars.bump + 1 \in 0 .. MaxBumps
    BY <1>15 DEF Bump, TypeOK
  <2>2. scars' \in [interrupt : 0 .. MaxInterrupts, unpack : 0 .. MaxCuts, bump : 0 .. MaxBumps]
    BY <1>15, <2>1 DEF Bump, TypeOK
  <2>3. QED BY <1>1, <1>15, <2>2 DEF Bump, TypeOK
<1>16. CASE UNCHANGED vars
  BY <1>16 DEF vars, TypeOK
<1>17. QED
  BY <1>3, <1>4, <1>5, <1>6, <1>7, <1>8, <1>9, <1>10, <1>11, <1>12, <1>13, <1>14, <1>15, <1>16
  DEF Next

(* The release a download turned out to be is checked before each          *)
(* unpacking, and does not change during it.                               *)
LEMMA VerifiedStep ==
  ASSUME TypeOK, OnlyVerifiedBits, [Next]_vars
  PROVE  OnlyVerifiedBits'
<1> DEFINE Clean == \A g \in NamedTrees \cap Groups : \A r \in Releases : \A p \in Parts :
                      tree[<<g, r>>][p] \in {r, Absent}
<1>0. Clean /\ (On("unpack") => dl[Archive(Group)] = pin)
  BY DEF OnlyVerifiedBits
<1>1. /\ dl \in [Slots -> Releases \cup {Missing, Other}]
      /\ tree \in [Slots -> [Parts -> Releases \cup {Absent}]]
  BY DEF TypeOK
<1>2. CASE Cached \/ Verified
  <2>1. dl'[Archive(Group)'] = pin'
    BY <1>2 DEF Cached, Verified, Archive, Group
  <2>2. Clean'
    BY <1>0, <1>2 DEF Cached, Verified
  <2>3. QED BY <2>1, <2>2 DEF OnlyVerifiedBits
<1>3. ASSUME NEW p \in Parts, UnpackPart(p) PROVE OnlyVerifiedBits'
  <2>1. dl[Archive(Group)] = pin /\ Tree(Group) \in Slots /\ Group \in Groups
    BY <1>0, <1>3, SlotFacts DEF UnpackPart, On
  <2>2. dl'[Archive(Group)'] = pin'
    BY <1>3, <2>1 DEF UnpackPart, Archive, Group
  <2>3. ASSUME NEW g \in NamedTrees \cap Groups, NEW r \in Releases, NEW q \in Parts
        PROVE  tree'[<<g, r>>][q] \in {r, Absent}
    <3>1. <<g, r>> \in Slots
      BY DEF Slots
    <3>2. tree[<<g, r>>] \in [Parts -> Releases \cup {Absent}]
      BY <1>1, <3>1
    <3>3. CASE <<g, r>> = Tree(Group)
      <4>1. g = Group /\ r = pin
        BY <3>3 DEF Tree
      <4>2. tree'[<<g, r>>] = [tree[<<g, r>>] EXCEPT ![p] = pin]
        BY <1>1, <1>3, <2>1, <3>1, <3>3 DEF UnpackPart
      <4>3. QED BY <1>0, <3>2, <4>1, <4>2
    <3>4. CASE <<g, r>> # Tree(Group)
      <4>1. tree'[<<g, r>>] = tree[<<g, r>>]
        BY <1>1, <1>3, <3>1, <3>4 DEF UnpackPart
      <4>2. QED BY <1>0, <4>1
    <3>5. QED BY <3>3, <3>4
  <2>4. QED BY <2>2, <2>3 DEF OnlyVerifiedBits
<1>4. CASE Start \/ Finish \/ (\E r \in Releases : Bump(r))
  <2>1. ~On("unpack")'
    BY <1>4, ScriptFacts DEF Start, Finish, Bump, Running, On, TypeOK
  <2>2. Clean'
    BY <1>0, <1>4 DEF Start, Finish, Bump
  <2>3. QED BY <2>1, <2>2 DEF OnlyVerifiedBits
<1>5. CASE Skip \/ Install \/ Fetch \/ PartFetched \/ Fetched \/ Unpacked
  <2>1. ~On("unpack")'
    BY <1>5 DEF Skip, Install, Fetch, PartFetched, Fetched, Unpacked, On
  <2>2. Clean'
    BY <1>0, <1>5 DEF Skip, Install, Fetch, PartFetched, Fetched, Unpacked
  <2>3. QED BY <2>1, <2>2 DEF OnlyVerifiedBits
<1>6. CASE CurlFails \/ Mismatch \/ UnpackFails \/ Interrupt
  <2>1. ~On("unpack")'
    BY <1>6 DEF CurlFails, Mismatch, UnpackFails, Interrupt, Fail, On
  <2>2. Clean'
    BY <1>0, <1>6 DEF CurlFails, Mismatch, UnpackFails, Interrupt
  <2>3. QED BY <2>1, <2>2 DEF OnlyVerifiedBits
<1>7. CASE UNCHANGED vars
  BY <1>7 DEF vars, OnlyVerifiedBits, On, Archive, Group
<1>8. QED BY <1>2, <1>3, <1>4, <1>5, <1>6, <1>7 DEF Next

(* Nothing but an archive that hashes to the recorded sha256 reaches the   *)
(* installed trees (install-toolchain.sh `get`, 129-143, and its callers), *)
(* and a tree named after a release only holds that release.               *)
THEOREM VerifiedOnly == Spec => [](TypeOK /\ OnlyVerifiedBits)
<1>1. Init => TypeOK /\ OnlyVerifiedBits
  <2>1. ASSUME Init PROVE TypeOK
    BY <2>1, ScriptFacts, Bounds DEF Init, TypeOK, Steps, Unscarred
  <2>2. ASSUME Init PROVE OnlyVerifiedBits
    BY <2>2 DEF Init, OnlyVerifiedBits, On, Slots
  <2>3. QED BY <2>1, <2>2
<1>2. TypeOK /\ OnlyVerifiedBits /\ [Next]_vars => TypeOK' /\ OnlyVerifiedBits'
  BY TypeStep, VerifiedStep
<1>3. QED BY <1>1, <1>2, PTL DEF Spec

-----------------------------------------------------------------------------
(* What an unpacking leaves.                                               *)

(* A run past its test is at a tree whose tested file is absent or, when   *)
(* tar has come to it, the pin's.                                          *)
TestedOpen == On(step) /\ step # "test" => tree[Tree(Group)][Tested] \in {Absent, pin}

(* An unpacking writes the pin, into the tree of its group.                *)
LEMMA UnpackFacts ==
  ASSUME TypeOK, OnlyVerifiedBits, NEW p \in Parts, UnpackPart(p)
  PROVE  /\ Tree(Group) \in Slots /\ Group \in Groups
         /\ UNCHANGED <<pin, at, step, wanted, status, scars>>
         /\ \A s \in Slots : s # Tree(Group) => tree'[s] = tree[s]
         /\ tree'[Tree(Group)][p] = pin
         /\ \A q \in Parts : q # p => tree'[Tree(Group)][q] = tree[Tree(Group)][q]
<1>1. Tree(Group) \in Slots /\ Group \in Groups /\ dl[Archive(Group)] = pin
  BY SlotFacts DEF UnpackPart, On, OnlyVerifiedBits
<1>2. tree[Tree(Group)] \in [Parts -> Releases \cup {Absent}]
  BY <1>1 DEF TypeOK
<1>3. tree' = [tree EXCEPT ![Tree(Group)] = [tree[Tree(Group)] EXCEPT ![p] = pin]]
  BY <1>1 DEF UnpackPart
<1>4. QED BY <1>1, <1>2, <1>3 DEF UnpackPart, TypeOK

LEMMA TestedStep ==
  ASSUME TypeOK, OnlyVerifiedBits, TestedOpen, [Next]_vars
  PROVE  TestedOpen'
<1>1. CASE \E p \in Parts : UnpackPart(p)
  <2>1. PICK p \in Parts : UnpackPart(p)
    BY <1>1
  <2>2. Tree(Group)' = Tree(Group) /\ (On(step) /\ step # "test")
    BY <2>1, UnpackFacts DEF Tree, Group, On, UnpackPart
  <2>3. tree'[Tree(Group)][Tested] \in {Absent, pin}
    BY <2>1, <2>2, UnpackFacts, TestedIsPart DEF TestedOpen
  <2>4. QED BY <2>1, <2>2, <2>3, UnpackFacts DEF TestedOpen
<1>2. CASE Install
  BY <1>2 DEF Install, TestedOpen, Tree, Group
<1>3. CASE Cached \/ Fetch \/ PartFetched \/ Fetched \/ Verified \/ UNCHANGED vars
  BY <1>3 DEF Cached, Fetch, PartFetched, Fetched, Verified, vars, TestedOpen, On, Tree, Group
<1>4. CASE Start \/ Skip \/ Unpacked
  BY <1>4 DEF Start, Skip, Unpacked, On, TestedOpen
<1>5. CASE CurlFails \/ Mismatch \/ UnpackFails \/ Finish \/ Interrupt
  BY <1>5, ScriptFacts DEF CurlFails, Mismatch, UnpackFails, Finish, Interrupt, Fail, On, TestedOpen
<1>6. CASE \E r \in Releases : Bump(r)
  BY <1>6, ScriptFacts DEF Bump, Running, On, TestedOpen
<1>7. QED BY <1>1, <1>2, <1>3, <1>4, <1>5, <1>6 DEF Next

(* No run touches a tree whose tested file is of a release that is not the *)
(* pin (the tests of install-toolchain.sh, one per group).                 *)
THEOREM OldStays == Spec => OldReleaseStays
<1>1. Init => TestedOpen
  BY DEF Init, TestedOpen, On
<1>2. TypeOK /\ OnlyVerifiedBits /\ TestedOpen /\ [Next]_vars => TestedOpen'
  BY TestedStep
<1>3. TypeOK /\ OnlyVerifiedBits /\ TestedOpen /\ [Next]_vars =>
        [\A s \in Slots : tree[s][Tested] \notin {Absent, pin} => tree'[s] = tree[s]]_vars
  <2>1. SUFFICES ASSUME TypeOK, OnlyVerifiedBits, TestedOpen, Next, NEW s \in Slots,
                        tree[s][Tested] \notin {Absent, pin}
                 PROVE  tree'[s] = tree[s]
    OBVIOUS
  <2>2. CASE \E p \in Parts : UnpackPart(p)
    <3>1. PICK p \in Parts : UnpackPart(p)
      BY <2>2
    <3>2. s # Tree(Group)
      BY <2>1, <3>1 DEF TestedOpen, UnpackPart, On
    <3>3. QED BY <2>1, <3>1, <3>2, UnpackFacts
  <2>3. CASE tree' = tree
    BY <2>3
  <2>4. QED
    BY <2>1, <2>2, <2>3 DEF Next, Start, Skip, Install, Cached, Fetch, PartFetched, Fetched,
       CurlFails, Verified, Mismatch, Unpacked, UnpackFails, Finish, Interrupt, Bump
<1>4. QED BY <1>1, <1>2, <1>3, VerifiedOnly, PTL DEF Spec, OldReleaseStays

(* While no unpacking was cut short, a tree named after its release is     *)
(* whole or not there, but for the one that is being unpacked.             *)
Uncut == scars.interrupt = 0 /\ scars.unpack = 0
Named == NamedTrees \cap Groups
Whole(g, r) == \A p \in Parts : tree[<<g, r>>][p] = r
Gone(g, r) == \A p \in Parts : tree[<<g, r>>][p] = Absent
Unpacking(g, r) == On("unpack") /\ <<g, r>> = Tree(Group)

(* What lies behind a run, or was wanted of a run that succeeded, is       *)
(* installed.                                                              *)
Installed ==
  /\ \A g \in Named : \A r \in Releases : Whole(g, r) \/ Gone(g, r) \/ Unpacking(g, r)
  /\ \A i \in 1 .. Len(Script) : i < at /\ Script[i] \in wanted \cap NamedTrees =>
       AtPin(Script[i])
  /\ status = "ok" => at = 0 /\ \A g \in wanted \cap NamedTrees : AtPin(g)

LEMMA AtPinIsWhole ==
  ASSUME NEW g \in NamedTrees
  PROVE  AtPin(g) <=> Whole(g, pin)
BY DEF AtPin, Whole, Tree

(* An unpacking takes nothing away from a tree that is whole.              *)
LEMMA UnpackKeeps ==
  ASSUME TypeOK, OnlyVerifiedBits, NEW q \in Parts, UnpackPart(q),
         NEW g \in Named, NEW r \in Releases
  PROVE  /\ Whole(g, r) => Whole(g, r)'
         /\ Gone(g, r) => Gone(g, r)' \/ Unpacking(g, r)'
         /\ Unpacking(g, r) => Unpacking(g, r)'
<1>1. <<g, r>> \in Slots
  BY DEF Named, Slots
<1>2. Unpacking(g, r)' <=> <<g, r>> = Tree(Group)
  BY UnpackFacts DEF Unpacking, On, UnpackPart, Tree, Group
<1>3. CASE <<g, r>> = Tree(Group)
  <2>1. r = pin
    BY <1>3 DEF Tree, Named
  <2>2. QED BY <1>2, <1>3, <2>1, UnpackFacts DEF Whole
<1>4. CASE <<g, r>> # Tree(Group)
  BY <1>1, <1>2, <1>4, UnpackFacts DEF Whole, Gone, Unpacking
<1>5. QED BY <1>3, <1>4

(* The trees stay, and none was being unpacked that is not still.          *)
LEMMA TreesStay ==
  ASSUME UNCHANGED tree, ~On("unpack"), NEW g, NEW r,
         Whole(g, r) \/ Gone(g, r) \/ Unpacking(g, r)
  PROVE  (Whole(g, r) \/ Gone(g, r))'
BY DEF Whole, Gone, Unpacking

LEMMA InstalledStep ==
  ASSUME TypeOK, OnlyVerifiedBits, Uncut => Installed, [Next]_vars, Uncut'
  PROVE  Installed'
<1> USE ScriptFacts
<1>0. ~UnpackFails /\ ~Interrupt
  BY Bounds DEF UnpackFails, Interrupt, Uncut, TypeOK
<1>1. Uncut
  <2>1. scars' = scars \/ \E r \in Releases : Bump(r)
    BY <1>0 DEF Next, vars, Start, Skip, Install, Cached, Fetch, PartFetched, Fetched,
       CurlFails, Verified, Mismatch, UnpackPart, Unpacked, Finish
  <2>2. QED BY <2>1 DEF Uncut, Bump, TypeOK
<1>2. Installed /\ at \in 0 .. Len(Script) + 1 /\ wanted \subseteq Groups /\ pin \in Releases
  BY <1>1 DEF TypeOK
<1>3. CASE \E p \in Parts : UnpackPart(p)
  <2>1. PICK p \in Parts : UnpackPart(p)
    BY <1>3
  <2>2. pin' = pin /\ at' = at /\ wanted' = wanted /\ status' = status
    BY <2>1, UnpackFacts
  <2>3. ASSUME NEW g \in wanted \cap NamedTrees, AtPin(g) PROVE AtPin(g)'
    <3>1. g \in Named
      BY <1>2 DEF Named
    <3>2. Whole(g, pin)'
      BY <1>2, <2>1, <2>2, <2>3, <3>1, AtPinIsWhole, UnpackKeeps DEF Whole
    <3>3. QED BY <2>2, <3>2 DEF AtPin, Whole, Tree
  <2>4. \A g \in Named : \A r \in Releases : (Whole(g, r) \/ Gone(g, r) \/ Unpacking(g, r))'
    BY <1>2, <2>1, UnpackKeeps DEF Installed
  <2>5. QED BY <1>2, <2>2, <2>3, <2>4 DEF Installed
<1>4. CASE Unpacked
  <2>1. at \in 1 .. Len(Script) /\ dl[Archive(Group)] = pin /\ tree' = tree /\ pin' = pin
    BY <1>4 DEF Unpacked, On, OnlyVerifiedBits
  <2>2. AtPin(Group)
    BY <1>4, <2>1 DEF Unpacked, AtPin
  <2>3. ASSUME NEW g \in Named, NEW r \in Releases PROVE (Whole(g, r) \/ Gone(g, r))'
    <3>1. CASE Unpacking(g, r)
      <4>1. g = Group /\ r = pin
        BY <3>1 DEF Unpacking, Tree, Named
      <4>2. QED BY <2>1, <2>2, <4>1, AtPinIsWhole DEF Whole, Named
    <3>2. CASE ~Unpacking(g, r)
      BY <1>2, <2>1, <3>2 DEF Installed, Whole, Gone
    <3>3. QED BY <3>1, <3>2
  <2>4. \A g : AtPin(g) => AtPin(g)'
    BY <2>1 DEF AtPin, Tree
  <2>5. at' = at + 1 /\ wanted' = wanted /\ status' = status
    BY <1>4 DEF Unpacked
  <2>6. QED BY <1>2, <2>1, <2>2, <2>3, <2>4, <2>5 DEF Installed, Group
<1>5. CASE Skip
  <2>1. at \in 1 .. Len(Script) /\ tree' = tree /\ pin' = pin /\ ~On("unpack")
    BY <1>5 DEF Skip, On
  <2>2. Group \in wanted \cap NamedTrees => AtPin(Group)
    <3>1. SUFFICES ASSUME Group \in wanted \cap NamedTrees PROVE AtPin(Group)
      OBVIOUS
    <3>2. Group \in Named /\ Tree(Group) = <<Group, pin>>
      BY <1>2, <3>1 DEF Named, Tree
    <3>3. tree[<<Group, pin>>][Tested] # Absent
      BY <1>5, <3>1, <3>2 DEF Skip
    <3>4. Whole(Group, pin)
      BY <1>2, <2>1, <3>2, <3>3, TestedIsPart DEF Installed, Gone, Unpacking
    <3>5. QED BY <3>1, <3>4, AtPinIsWhole
  <2>3. \A g : AtPin(g) => AtPin(g)'
    BY <2>1 DEF AtPin, Tree
  <2>4. \A g \in Named : \A r \in Releases : (Whole(g, r) \/ Gone(g, r))'
    BY <1>2, <2>1, TreesStay DEF Installed
  <2>5. at' = at + 1 /\ wanted' = wanted /\ status' = status
    BY <1>5 DEF Skip
  <2>6. QED BY <1>2, <2>1, <2>2, <2>3, <2>4, <2>5 DEF Installed, Group
<1>6. CASE Finish
  <2>1. at = Len(Script) + 1 /\ at' = 0 /\ UNCHANGED <<pin, tree, wanted>> /\ ~On("unpack")
    BY <1>6 DEF Finish, On
  <2>2. \A g \in wanted \cap NamedTrees : AtPin(g)
    <3>1. ASSUME NEW g \in wanted \cap NamedTrees PROVE AtPin(g)
      <4>1. PICK i \in 1 .. Len(Script) : g = Script[i]
        BY <1>2 DEF Groups
      <4>2. QED BY <1>2, <2>1, <4>1 DEF Installed
    <3>2. QED BY <3>1
  <2>3. \A g \in Named : \A r \in Releases : (Whole(g, r) \/ Gone(g, r))'
    BY <1>2, <2>1, TreesStay DEF Installed
  <2>4. \A g : AtPin(g) => AtPin(g)'
    BY <2>1 DEF AtPin, Tree
  <2>5. QED BY <2>1, <2>2, <2>3, <2>4 DEF Installed
<1>7. CASE Start \/ \E r \in Releases : Bump(r)
  <2>1. tree' = tree /\ status' = "none" /\ at' \in {0, 1} /\ ~On("unpack")
    BY <1>7 DEF Start, Bump, Running, On
  <2>2. \A g \in Named : \A r \in Releases : (Whole(g, r) \/ Gone(g, r))'
    BY <1>2, <2>1, TreesStay DEF Installed
  <2>3. QED BY <2>1, <2>2 DEF Installed
<1>8. CASE CurlFails \/ Mismatch
  <2>1. tree' = tree /\ status' = "failed" /\ at' = 0 /\ ~On("unpack")
    BY <1>8 DEF CurlFails, Mismatch, Fail, On
  <2>2. \A g \in Named : \A r \in Releases : (Whole(g, r) \/ Gone(g, r))'
    BY <1>2, <2>1, TreesStay DEF Installed
  <2>3. QED BY <2>1, <2>2 DEF Installed
<1>9. CASE Install \/ Cached \/ Fetch \/ PartFetched \/ Fetched \/ Verified
  <2>1. UNCHANGED <<tree, pin, at, wanted, status>> /\ ~On("unpack")
    BY <1>9 DEF Install, Cached, Fetch, PartFetched, Fetched, Verified, On
  <2>2. \A g \in Named : \A r \in Releases : (Whole(g, r) \/ Gone(g, r))'
    BY <1>2, <2>1, TreesStay DEF Installed
  <2>3. \A g : AtPin(g) => AtPin(g)'
    BY <2>1 DEF AtPin, Tree
  <2>4. QED BY <1>2, <2>1, <2>2, <2>3 DEF Installed
<1>10. CASE UNCHANGED vars
  BY <1>2, <1>10 DEF vars, Installed, Whole, Gone, Unpacking, On, Tree, Group, AtPin
<1>11. QED
  BY <1>0, <1>3, <1>4, <1>5, <1>6, <1>7, <1>8, <1>9, <1>10 DEF Next

(* A directory named after its release follows the pin: whatever failed to *)
(* download and however often the pin was bumped, a run that succeeds has  *)
(* installed the pinned release, if no unpacking was ever cut short.       *)
THEOREM NamedFollows == Spec => []NamedFollowsPin
<1>1. Init => (Uncut => Installed)
  BY ScriptFacts DEF Init, Installed, Named, Gone, Slots
<1>2. TypeOK /\ OnlyVerifiedBits /\ (Uncut => Installed) /\ [Next]_vars => (Uncut => Installed)'
  BY InstalledStep
<1>3. (Uncut => Installed) => NamedFollowsPin
  BY DEF Uncut, Installed, NamedFollowsPin
<1>4. QED BY <1>1, <1>2, <1>3, VerifiedOnly, PTL DEF Spec

(* While nothing at all has disturbed the scripts, every tree that the pin *)
(* names is whole or not there, but for the one being unpacked, and what a *)
(* run has passed is installed.                                            *)
Bare(g) == \A p \in Parts : tree[Tree(g)][p] = Absent

Settled ==
  /\ \A g \in Groups : AtPin(g) \/ Bare(g) \/ (On("unpack") /\ g = Group)
  /\ \A i \in 1 .. Len(Script) : i < at /\ Script[i] \in wanted => AtPin(Script[i])
  /\ status = "ok" => at = 0 /\ \A g \in wanted : AtPin(g)

Calm == scars = Unscarred

(* The trees and the pin stay, and so does what is known of the groups.    *)
LEMMA SettledAside ==
  ASSUME Settled, UNCHANGED <<tree, pin>>, ~On("unpack")
  PROVE  /\ \A g : AtPin(g) => AtPin(g)'
         /\ \A g \in Groups : (AtPin(g) \/ Bare(g))'
BY DEF Settled, AtPin, Bare, Tree

LEMMA SettledStep ==
  ASSUME TypeOK, OnlyVerifiedBits, Calm => Settled, [Next]_vars, Calm'
  PROVE  Settled'
<1> USE ScriptFacts
<1>0. ~UnpackFails /\ ~Interrupt /\ \A r \in Releases : ~Bump(r)
  BY DEF UnpackFails, Interrupt, Bump, Calm, Unscarred, TypeOK
<1>1. Calm
  BY <1>0 DEF Calm, Next, vars, Start, Skip, Install, Cached, Fetch, PartFetched, Fetched,
     CurlFails, Verified, Mismatch, UnpackPart, Unpacked, Finish
<1>2. Settled /\ at \in 0 .. Len(Script) + 1 /\ wanted \subseteq Groups
  BY <1>1 DEF TypeOK
<1>3. CASE \E p \in Parts : UnpackPart(p)
  <2>1. PICK p \in Parts : UnpackPart(p)
    BY <1>3
  <2>2. /\ UNCHANGED <<pin, at, step, wanted, status>> /\ On("unpack") /\ On("unpack")'
        /\ Group' = Group
    BY <2>1, UnpackFacts DEF UnpackPart, On, Group
  <2>3. ASSUME NEW g \in Groups
        PROVE  /\ AtPin(g) => AtPin(g)'
               /\ g # Group /\ Bare(g) => Bare(g)'
    <3>1. Tree(g)' = Tree(g) /\ Tree(g) \in Slots
      BY <2>2 DEF Tree, Slots, TypeOK
    <3>2. g # Group => Tree(g) # Tree(Group)
      BY DEF Tree
    <3>3. QED BY <2>1, <2>2, <3>1, <3>2, UnpackFacts DEF AtPin, Bare, Tree
  <2>4. QED BY <1>2, <2>2, <2>3 DEF Settled
<1>4. CASE Unpacked
  <2>1. /\ at \in 1 .. Len(Script) /\ dl[Archive(Group)] = pin /\ UNCHANGED <<tree, pin>>
        /\ at' = at + 1 /\ UNCHANGED <<wanted, status>>
    BY <1>4 DEF Unpacked, On, OnlyVerifiedBits
  <2>2. AtPin(Group)
    BY <1>4, <2>1 DEF Unpacked, AtPin
  <2>3. \A g : (AtPin(g) => AtPin(g)') /\ (Bare(g) => Bare(g)')
    BY <2>1 DEF AtPin, Bare, Tree
  <2>4. QED BY <1>2, <2>1, <2>2, <2>3 DEF Settled, Group
<1>5. CASE Skip
  <2>1. /\ at \in 1 .. Len(Script) /\ UNCHANGED <<tree, pin>> /\ ~On("unpack")
        /\ at' = at + 1 /\ UNCHANGED <<wanted, status>>
    BY <1>5 DEF Skip, On
  <2>2. Group \in wanted => AtPin(Group)
    BY <1>2, <1>5, <2>1, TestedIsPart DEF Skip, Settled, Bare, Group
  <2>3. QED BY <1>2, <2>1, <2>2, SettledAside DEF Settled, Group
<1>6. CASE Finish
  <2>1. /\ at = Len(Script) + 1 /\ at' = 0 /\ UNCHANGED <<pin, tree, wanted>> /\ ~On("unpack")
    BY <1>6 DEF Finish, On
  <2>2. \A g \in wanted : AtPin(g)
    <3>1. SUFFICES ASSUME NEW g \in wanted PROVE AtPin(g)
      OBVIOUS
    <3>2. PICK i \in 1 .. Len(Script) : g = Script[i]
      BY <1>2 DEF Groups
    <3>3. QED BY <1>2, <2>1, <3>2 DEF Settled
  <2>3. QED BY <1>2, <2>1, <2>2, SettledAside DEF Settled
<1>7. CASE Start
  <2>1. UNCHANGED <<tree, pin>> /\ status' = "none" /\ at' = 1 /\ ~On("unpack")
    BY <1>7 DEF Start, Running, On
  <2>2. QED BY <1>2, <2>1, SettledAside DEF Settled
<1>8. CASE CurlFails \/ Mismatch
  <2>1. UNCHANGED <<tree, pin>> /\ status' = "failed" /\ at' = 0 /\ ~On("unpack")
    BY <1>8 DEF CurlFails, Mismatch, Fail, On
  <2>2. QED BY <1>2, <2>1, SettledAside DEF Settled
<1>9. CASE Install \/ Cached \/ Fetch \/ PartFetched \/ Fetched \/ Verified
  <2>1. UNCHANGED <<tree, pin, at, wanted, status>> /\ ~On("unpack")
    BY <1>9 DEF Install, Cached, Fetch, PartFetched, Fetched, Verified, On
  <2>2. QED BY <1>2, <2>1, SettledAside DEF Settled
<1>10. CASE UNCHANGED vars
  BY <1>2, <1>10 DEF vars, Settled, Bare, On, Tree, Group, AtPin
<1>11. QED
  BY <1>0, <1>3, <1>4, <1>5, <1>6, <1>7, <1>8, <1>9, <1>10 DEF Next

(* Where the directory does not tell the release, a run that succeeds has  *)
(* installed the pin as long as nothing was interrupted, cut or bumped:    *)
(* failed downloads and partial selections alone leave no other tree.      *)
THEOREM Undisturbed == Spec => []UndisturbedIsPinned
<1>1. Init => (Calm => Settled)
  <2>1. SUFFICES ASSUME Init PROVE Settled
    OBVIOUS
  <2>2. \A g \in Groups : Tree(g) \in Slots
    BY <2>1 DEF Init, Tree, Slots
  <2>3. \A g \in Groups : Bare(g)
    BY <2>1, <2>2 DEF Init, Bare
  <2>4. QED BY <2>1, <2>3, ScriptFacts DEF Init, Settled
<1>2. TypeOK /\ OnlyVerifiedBits /\ (Calm => Settled) /\ [Next]_vars => (Calm => Settled)'
  BY SettledStep
<1>3. (Calm => Settled) => UndisturbedIsPinned
  BY DEF Calm, Settled, UndisturbedIsPinned
<1>4. QED BY <1>1, <1>2, <1>3, VerifiedOnly, PTL DEF Spec
-----------------------------------------------------------------------------
(* sta-rerun.sh.                                                           *)
StaInputs == [net : Int, other : Int]
StaLog == [state : {"absent", "cut", "headed", "whole"}, of : StaInputs]

StaTypes ==
  /\ inputs \in StaInputs /\ reading \in StaInputs
  /\ stanet \in [state : {"absent", "cut", "whole"}, of : Int]
  /\ logs \in [Sta!Cs -> StaLog]
  /\ corner \in Int /\ outdated \subseteq Sta!Cs
  /\ newer \in BOOLEAN /\ raced \in BOOLEAN

(* The derived netlist is of the source, unless the source changed during  *)
(* the run that derived it, or the next run will derive it again; and what *)
(* changed since the logs were begun is known for as long as it matters.   *)
StaDerived ==
  /\ raced => outdated = Sta!Cs
  /\ \/ stanet.of = inputs.net \/ raced
     \/ sta_pc \in {"idle", "done", "prepare", "derive"} /\ (newer \/ stanet.state = "absent")
  /\ sta_pc \in {"derive", "write"} => reading.net = inputs.net \/ raced

(* A log is of the inputs, or they changed after it was begun.             *)
StaLogged ==
  /\ \A c \in Sta!Cs : logs[c].of = inputs \/ c \in outdated
  /\ sta_pc = "sta" => corner \in DOMAIN Corners /\ logs[Corners[corner]].of = reading

(* A corner that lies behind the run is done, or there is a reason.        *)
Explained(c) ==
  logs[c].state \in {"whole", "headed"} \/ c \in faults \/ stanet.state # "whole"

StaTried ==
  /\ sta_pc \in {"prepare", "derive", "write"} => corner = 1
  /\ sta_pc \in {"corner", "sta"} => corner >= 1
  /\ sta_pc \in {"corner", "sta"} =>
       \A k \in DOMAIN Corners : k < corner =>
         Explained(Corners[k]) \/ (sta_pc = "sta" /\ Corners[k] = Corners[corner])

StaInv == StaTypes /\ StaDerived /\ StaLogged /\ StaTried /\ Sta!SummaryHasCause

LEMMA CornerFacts ==
  /\ DOMAIN Corners = 1 .. Len(Corners) /\ Len(Corners) \in Nat
  /\ \A k \in DOMAIN Corners : Corners[k] \in Sta!Cs
  /\ \A c \in Sta!Cs : \E k \in DOMAIN Corners : c = Corners[k]
BY CornersInOrder DEF Sta!Cs

LEMMA StaStarts == Sta!Init => StaInv
<1>1. SUFFICES ASSUME Sta!Init PROVE StaInv
  OBVIOUS
<1>2. StaTypes
  <2>1. inputs \in StaInputs /\ reading \in StaInputs
    BY <1>1 DEF Sta!Init, StaInputs
  <2>2. Sta!File("absent", inputs) \in StaLog
    BY <2>1 DEF Sta!File, StaLog
  <2>3. logs \in [Sta!Cs -> StaLog]
    BY <1>1, <2>2 DEF Sta!Init
  <2>4. stanet \in [state : {"absent", "cut", "whole"}, of : Int]
    BY <1>1 DEF Sta!Init, Sta!File
  <2>5. corner \in Int /\ outdated \subseteq Sta!Cs
    BY <1>1 DEF Sta!Init
  <2>6. newer \in BOOLEAN /\ raced \in BOOLEAN
    BY <1>1 DEF Sta!Init
  <2>7. QED BY <2>1, <2>3, <2>4, <2>5, <2>6 DEF StaTypes
<1>3. StaDerived /\ StaLogged /\ StaTried /\ Sta!SummaryHasCause
  BY <1>1 DEF Sta!Init, Sta!File, StaDerived, StaLogged, StaTried, Sta!SummaryHasCause
<1>4. QED BY <1>2, <1>3 DEF StaInv

LEMMA StaKeeps ==
  ASSUME StaInv, [Sta!Next]_(Sta!vars)
  PROVE  StaInv'
<1> USE CornerFacts DEF StaInv, StaTypes, StaDerived, StaLogged, StaTried, StaInputs, StaLog,
        Explained, Sta!SummaryHasCause
<1>1. CASE \E forced \in BOOLEAN : Sta!Start(forced)
  BY <1>1 DEF Sta!Start
<1>2. CASE Sta!KeepNetlist
  BY <1>2 DEF Sta!KeepNetlist, Sta!Derives
<1>3. CASE Sta!ReadNetlist
  BY <1>3 DEF Sta!ReadNetlist, Sta!Derives
<1>4. CASE Sta!OpenDerived
  <2>0. PICK state \in {"absent", "cut"} : stanet' = Sta!File(state, reading.net)
    BY <1>4 DEF Sta!OpenDerived
  <2>1. StaTypes'
    BY <1>4, <2>0 DEF Sta!OpenDerived, Sta!File
  <2>2. StaDerived'
    BY <1>4 DEF Sta!OpenDerived, Sta!File
  <2>3. StaLogged'
    BY <1>4 DEF Sta!OpenDerived, Sta!File
  <2>4. StaTried'
    BY <1>4 DEF Sta!OpenDerived, Sta!File
  <2>5. Sta!SummaryHasCause'
    BY <1>4 DEF Sta!OpenDerived, Sta!File
  <2>6. QED BY <2>1, <2>2, <2>3, <2>4, <2>5
<1>5. CASE Sta!WriteDerived
  <2>1. StaTypes'
    BY <1>5 DEF Sta!WriteDerived, Sta!File
  <2>2. StaDerived'
    BY <1>5 DEF Sta!WriteDerived, Sta!File
  <2>3. StaLogged'
    BY <1>5 DEF Sta!WriteDerived, Sta!File
  <2>4. StaTried'
    BY <1>5 DEF Sta!WriteDerived, Sta!File
  <2>5. Sta!SummaryHasCause'
    BY <1>5 DEF Sta!WriteDerived, Sta!File
  <2>6. QED BY <2>1, <2>2, <2>3, <2>4, <2>5
<1>6. CASE Sta!Skip
  <2>1. StaTypes' /\ StaDerived' /\ StaLogged'
    BY <1>6 DEF Sta!Skip
  <2>2. StaTried'
    BY <1>6 DEF Sta!Skip, Sta!Cached
  <2>3. Sta!SummaryHasCause'
    BY <1>6 DEF Sta!Skip
  <2>4. QED BY <2>1, <2>2, <2>3
<1>7. CASE Sta!Begin
  <2>1. StaTypes'
    BY <1>7 DEF Sta!Begin, Sta!File
  <2>2. StaDerived'
    BY <1>7 DEF Sta!Begin, Sta!File
  <2>3. StaLogged'
    <3>1. corner \in DOMAIN Corners /\ Corners[corner] \in Sta!Cs
      BY <1>7 DEF Sta!Begin
    <3>2. logs' = [logs EXCEPT ![Corners[corner]] = Sta!File("cut", reading')]
      BY <1>7 DEF Sta!Begin
    <3>3. logs'[Corners[corner]].of = reading'
      BY <3>1, <3>2 DEF Sta!File
    <3>4. ASSUME ~raced PROVE reading' = inputs
      BY <1>7, <3>4 DEF Sta!Begin
    <3>5. ASSUME NEW c \in Sta!Cs PROVE logs'[c].of = inputs' \/ c \in outdated'
      <4>1. CASE c = Corners[corner]
        BY <1>7, <3>1, <3>3, <3>4, <4>1 DEF Sta!Begin
      <4>2. CASE c # Corners[corner]
        BY <1>7, <3>2, <4>2 DEF Sta!Begin
      <4>3. QED BY <4>1, <4>2
    <3>6. QED BY <1>7, <3>1, <3>3, <3>5 DEF Sta!Begin
  <2>4. StaTried'
    BY <1>7 DEF Sta!Begin, Sta!File
  <2>5. Sta!SummaryHasCause'
    BY <1>7 DEF Sta!Begin, Sta!File
  <2>6. QED BY <2>1, <2>2, <2>3, <2>4, <2>5
<1>8. CASE Sta!StaEnds
  <2>1. StaTypes'
    <3>1. Sta!File("whole", reading) \in StaLog
      BY DEF Sta!File
    <3>2. logs' \in [Sta!Cs -> StaLog]
      BY <1>8, <3>1 DEF Sta!StaEnds
    <3>3. QED BY <1>8, <3>2 DEF Sta!StaEnds
  <2>2. StaDerived'
    BY <1>8 DEF Sta!StaEnds, Sta!File
  <2>3. StaLogged'
    BY <1>8 DEF Sta!StaEnds, Sta!File
  <2>4. StaTried'
    BY <1>8 DEF Sta!StaEnds, Sta!File
  <2>5. Sta!SummaryHasCause'
    BY <1>8 DEF Sta!StaEnds, Sta!File
  <2>6. QED BY <2>1, <2>2, <2>3, <2>4, <2>5
<1>9. CASE Sta!StaFails
  BY <1>9 DEF Sta!StaFails, Sta!File
<1>10. CASE Sta!Summarise
  BY <1>10 DEF Sta!Summarise
<1>11. CASE Sta!Interrupt
  <2>1. CASE sta_pc = "sta"
    <3>1. PICK state \in {"cut", "headed"} : logs' = [logs EXCEPT ![Corners[corner]].state = state]
      BY <1>11, <2>1 DEF Sta!Interrupt
    <3>2. Corners[corner] \in Sta!Cs
      BY <2>1
    <3>3. /\ logs' \in [Sta!Cs -> StaLog]
          /\ \A c \in Sta!Cs : logs'[c].of = logs[c].of
      <4>1. logs[Corners[corner]] \in StaLog
        BY <3>2
      <4>2. [logs[Corners[corner]] EXCEPT !.state = state] \in StaLog
        BY <4>1
      <4>3. QED BY <3>1, <3>2, <4>1, <4>2
    <3>4. QED BY <1>11, <3>3 DEF Sta!Interrupt
  <2>2. CASE sta_pc # "sta"
    BY <1>11, <2>2 DEF Sta!Interrupt
  <2>3. QED BY <2>1, <2>2
<1>12. CASE \E what \in {"net", "other"} : Sta!Change(what)
  <2>0. newer' \in BOOLEAN /\ raced' \in BOOLEAN
    BY <1>12 DEF Sta!Change
  <2>1. StaTypes'
    <3>1. CASE Sta!Change("net")
      <4>1. inputs' = [inputs EXCEPT !.net = inputs.net + 1]
        BY <3>1 DEF Sta!Change
      <4>2. inputs' \in StaInputs
        BY <4>1 DEF StaInputs
      <4>3. QED BY <2>0, <3>1, <4>2 DEF Sta!Change
    <3>2. CASE Sta!Change("other")
      <4>1. inputs' = [inputs EXCEPT !.other = inputs.other + 1]
        BY <3>2 DEF Sta!Change
      <4>2. inputs' \in StaInputs
        BY <4>1 DEF StaInputs
      <4>3. QED BY <2>0, <3>2, <4>2 DEF Sta!Change
    <3>3. QED BY <1>12, <3>1, <3>2
  <2>2. StaDerived'
    BY <1>12 DEF Sta!Change
  <2>3. StaLogged'
    BY <1>12 DEF Sta!Change
  <2>4. StaTried'
    BY <1>12 DEF Sta!Change
  <2>5. Sta!SummaryHasCause'
    BY <1>12 DEF Sta!Change
  <2>6. QED BY <2>1, <2>2, <2>3, <2>4, <2>5
<1>13. CASE UNCHANGED Sta!vars
  BY <1>13 DEF Sta!vars
<1>14. QED
  BY <1>1, <1>2, <1>3, <1>4, <1>5, <1>6, <1>7, <1>8, <1>9, <1>10, <1>11, <1>12, <1>13
  DEF Sta!Next

(* The numbers of a summary were made from the inputs there are, or those  *)
(* changed since and the log was kept; a corner without numbers has failed *)
(* in this run, or was cut after the heading of a finished log, or the     *)
(* derived netlist is a part: for every list of corners, number of changes *)
(* and number of runs.                                                     *)
THEOREM SummaryExplained == Sta!Spec => []Sta!SummaryHasCause
<1>1. StaInv => Sta!SummaryHasCause
  BY DEF StaInv
<1>2. QED BY <1>1, StaStarts, StaKeeps, PTL DEF Sta!Spec
-----------------------------------------------------------------------------
(* regenerate-core.sh.                                                     *)
CoreTree == [state : {"absent", "cut", "whole"}, of : Int, submodules : Int]

CoreTypes ==
  /\ tip \in Int /\ core_pin \in Int
  /\ clone \in CoreTree /\ target \in CoreTree
  /\ core_pc \in {"idle", "start", "checkout", "control", "experiment", "install", "done"}

Controlled(t) == Emits[t.submodules] = Committed[t.of]

(* Behind the control there is a whole clone that passed it; a clone that  *)
(* was not just made is at the pin, or there was a lapse; and what is      *)
(* being installed, or has been, is of the clone.                          *)
CoreProgress ==
  /\ core_pc = "checkout" => clone.state = "whole"
  /\ core_pc \in {"experiment", "install"} => Core!ControlOK
  /\ clone.state = "whole" /\ core_pc # "checkout" => clone.of = core_pin \/ core_lapses # {}
  /\ core_pc = "install" => target.of = clone.of /\ target.submodules = clone.submodules
  /\ core_pc = "done" => target.state = "whole" /\ (target.of = core_pin \/ core_lapses # {})
  /\ target.state = "whole" => Controlled(target)

CoreInv == CoreTypes /\ CoreProgress

LEMMA CoreStarts == Core!Init => CoreInv
  BY DEF Core!Init, CoreInv, CoreTypes, CoreProgress, CoreTree, Core!Tree, Core!Absent

LEMMA CoreKeeps ==
  ASSUME CoreInv, [Core!Next]_(Core!vars)
  PROVE  CoreInv'
<1> USE DEF CoreInv, CoreTypes, CoreProgress, CoreTree, Core!ControlOK, Controlled
<1>1. CASE Core!Start
  BY <1>1 DEF Core!Start
<1>2. CASE Core!Clone
  BY <1>2 DEF Core!Clone, Core!Tree
<1>3. CASE Core!CloneStops
  BY <1>3 DEF Core!CloneStops, Core!Tree
<1>4. CASE Core!KeepClone
  BY <1>4 DEF Core!KeepClone
<1>5. CASE Core!Checkout
  BY <1>5 DEF Core!Checkout
<1>6. CASE Core!CheckoutFails
  BY <1>6 DEF Core!CheckoutFails
<1>7. CASE Core!Control
  BY <1>7 DEF Core!Control
<1>8. CASE Core!Experiment
  BY <1>8 DEF Core!Experiment, Core!Tree
<1>9. CASE Core!Install
  BY <1>9 DEF Core!Install
<1>10. CASE Core!Stop
  BY <1>10 DEF Core!Stop
<1>11. CASE Core!Upstream
  BY <1>11 DEF Core!Upstream
<1>12. CASE Core!BumpPin
  BY <1>12 DEF Core!BumpPin
<1>13. CASE Core!RemoveClone
  BY <1>13 DEF Core!RemoveClone, Core!Absent, Core!Tree
<1>14. CASE UNCHANGED Core!vars
  BY <1>14 DEF Core!vars
<1> QED
  BY <1>1, <1>2, <1>3, <1>4, <1>5, <1>6, <1>7, <1>8, <1>9, <1>10, <1>11, <1>12, <1>13, <1>14 DEF Core!Next

(* Whatever the generators emit and wherever a clone, a checkout or sbt    *)
(* stops: the target installed is from a clone that passed the control,    *)
(* and a run that ends leaves the pin's, unless a checkout failed or never *)
(* happened or the pin was changed under a clone.                          *)
THEOREM TargetControlled == Core!Spec => []Core!TargetHasCause
<1>1. CoreInv => Core!TargetHasCause
  BY DEF CoreInv, CoreProgress, Controlled, Core!TargetHasCause
<1> QED
  BY <1>1, CoreStarts, CoreKeeps, PTL DEF Core!Spec
-----------------------------------------------------------------------------
(* build-rocket.sh and run-rocket-flow.sh.                                 *)
Staging == rocket_pc = "copy"
FileNames(files) == {f.file : f \in files}

(* From the test of its head on the clone is the pin's; what is staged is  *)
(* of one elaboration, the pin's until a bump; all of it is there, or was  *)
(* lost to a copy that failed or a staging that stopped; and the replaced  *)
(* memories are gone when a staging has come to its end.                   *)
Staged ==
  /\ rocket_pc \in {"firtool", "make", "copy"} => chipyard = rocket_pin
  /\ Staging => "bump" \notin rocket_lapses /\ \A f \in src \cup pending : f.of = rocket_pin
  /\ \A f, g \in src : f.of = g.of
  /\ "bump" \notin rocket_lapses => \A f \in src : f.of = rocket_pin
  /\ "src" \in dirs /\ rocket_lapses = {} =>
       IF Staging THEN FileNames(src) \cup FileNames(pending) = Emitted[rocket_pin]
       ELSE FileNames(src) = Rocket!Design(rocket_pin)
  /\ "stop" \notin rocket_lapses /\ ~Staging => \A f \in src : f.file \notin Ext

RocketInv == Staged /\ Rocket!HardenedHasCause

LEMMA RocketStarts == Rocket!Init => RocketInv
BY DEF Rocket!Init, RocketInv, Staged, Staging, Rocket!HardenedHasCause

(* A step that leaves the staging and what it is judged by alone.          *)
LEMMA RocketAside ==
  ASSUME RocketInv, UNCHANGED <<rocket_pin, src, dirs, pending, hardened, rocket_lapses>>,
         ~Staging, ~Staging',
         rocket_pc' \in {"firtool", "make"} => chipyard' = rocket_pin
  PROVE  RocketInv'
BY DEF RocketInv, Staged, Staging, FileNames, Rocket!Design, Rocket!HardenedHasCause

LEMMA RocketKeeps ==
  ASSUME RocketInv, [Rocket!Next]_(Rocket!vars)
  PROVE  RocketInv'
<1>0. ASSUME UNCHANGED hardened PROVE Rocket!HardenedHasCause'
  BY <1>0 DEF RocketInv, Rocket!HardenedHasCause, Rocket!Design
<1>1. CASE Rocket!Start \/ Rocket!Clone \/ Rocket!KeepClone
  BY <1>1, RocketAside DEF Rocket!Start, Rocket!Clone, Rocket!KeepClone, Staging
<1>2. CASE Rocket!Head
  BY <1>2, RocketAside DEF Rocket!Head, Rocket!AtPin, Staging
<1>3. CASE Rocket!Firtool
  BY <1>3, RocketAside DEF Rocket!Firtool, Staging, RocketInv, Staged
<1>4. CASE Rocket!Elaborate
  <2>1. chipyard = rocket_pin
    BY <1>4 DEF Rocket!Elaborate, RocketInv, Staged
  <2>2. FileNames(pending') = Emitted[rocket_pin]
    <3>1. pending' = {[file |-> f, of |-> rocket_pin] : f \in Emitted[rocket_pin]}
      BY <1>4, <2>1 DEF Rocket!Elaborate
    <3>2. ASSUME NEW x \in FileNames(pending') PROVE x \in Emitted[rocket_pin]
      BY <3>1, <3>2 DEF FileNames
    <3>3. ASSUME NEW x \in Emitted[rocket_pin] PROVE x \in FileNames(pending')
      <4>1. [file |-> x, of |-> rocket_pin] \in pending'
        BY <3>1
      <4>2. [file |-> x, of |-> rocket_pin].file = x
        OBVIOUS
      <4>3. QED BY <4>1, <4>2 DEF FileNames
    <3>4. QED BY <3>2, <3>3
  <2>3. src' = {} /\ FileNames(src') = {}
    BY <1>4 DEF Rocket!Elaborate, Rocket!Cleared, FileNames
  <2>4. Staged'
    BY <1>4, <2>1, <2>2, <2>3 DEF Rocket!Elaborate, Staged, Staging
  <2>5. QED BY <1>0, <1>4, <2>4 DEF Rocket!Elaborate, RocketInv
<1>5. ASSUME NEW f \in pending, Rocket!Copy(f) PROVE RocketInv'
  <2>1. /\ Staging /\ Staging' /\ UNCHANGED <<rocket_pin, chipyard, dirs, hardened>>
        /\ pending' = pending \ {f} /\ f.of = rocket_pin
    BY <1>5 DEF Rocket!Copy, Staging, RocketInv, Staged
  <2>2. CASE src' = {g \in src : g.file # f.file} \cup {f} /\ rocket_lapses' = rocket_lapses
    <3>1. FileNames(src') \cup FileNames(pending') = FileNames(src) \cup FileNames(pending)
      BY <2>1, <2>2 DEF FileNames
    <3>2. \A g \in src' \cup pending' : g.of = rocket_pin
      BY <2>1, <2>2 DEF RocketInv, Staged
    <3>3. Staged'
      BY <2>1, <2>2, <3>1, <3>2 DEF RocketInv, Staged, Staging
    <3>4. QED BY <1>0, <2>1, <3>3 DEF RocketInv
  <2>3. CASE src' = src /\ rocket_lapses' = rocket_lapses \cup {"copy"}
    <3>1. Staged'
      BY <2>1, <2>3 DEF RocketInv, Staged, Staging
    <3>2. QED BY <1>0, <2>1, <3>1 DEF RocketInv
  <2>4. QED BY <1>5, <2>2, <2>3 DEF Rocket!Copy
<1>6. CASE Rocket!RemoveExt
  <2>1. /\ Staging /\ ~Staging' /\ rocket_pc' = "macros" /\ pending = {}
        /\ UNCHANGED <<rocket_pin, dirs, rocket_lapses, hardened>>
        /\ src' = {f \in src : f.file \notin Ext}
    BY <1>6 DEF Rocket!RemoveExt, Staging
  <2>2. FileNames(src') = FileNames(src) \ Ext /\ FileNames(pending) = {}
    BY <2>1 DEF FileNames
  <2>3. Staged'
    BY <2>1, <2>2 DEF RocketInv, Staged, Staging, Rocket!Design
  <2>4. QED BY <1>0, <2>1, <2>3 DEF RocketInv
<1>7. CASE Rocket!Macros
  <2>1. Staged'
    BY <1>7 DEF Rocket!Macros, RocketInv, Staged, Staging, FileNames, Rocket!Design
  <2>2. QED BY <1>0, <1>7, <2>1 DEF Rocket!Macros, RocketInv
<1>8. CASE Rocket!Stop
  <2>1. Staged'
    BY <1>8 DEF Rocket!Stop, RocketInv, Staged, Staging, FileNames, Rocket!Design
  <2>2. QED BY <1>0, <1>8, <2>1 DEF Rocket!Stop, RocketInv
<1>9. CASE Rocket!Harden
  <2>1. Staged'
    BY <1>9 DEF Rocket!Harden, RocketInv, Staged, Staging, FileNames, Rocket!Design
  <2>2. Rocket!HardenedHasCause'
    BY <1>9 DEF Rocket!Harden, RocketInv, Staged, Staging, FileNames, Rocket!Design,
       Rocket!HardenedHasCause
  <2>3. QED BY <2>1, <2>2 DEF RocketInv
<1>10. CASE Rocket!BumpPin
  <2>1. Staged'
    BY <1>10 DEF Rocket!BumpPin, RocketInv, Staged, Staging
  <2>2. QED BY <1>0, <1>10, <2>1 DEF Rocket!BumpPin, RocketInv
<1>11. CASE Rocket!CleanUp
  BY <1>11, RocketAside DEF Rocket!CleanUp, Staging
<1>12. CASE UNCHANGED Rocket!vars
  <2>1. Staged'
    BY <1>12 DEF Rocket!vars, RocketInv, Staged, Staging, FileNames, Rocket!Design
  <2>2. QED BY <1>0, <1>12, <2>1 DEF Rocket!vars, RocketInv
<1>13. QED
  BY <1>1, <1>2, <1>3, <1>4, <1>5, <1>6, <1>7, <1>8, <1>9, <1>10, <1>11, <1>12 DEF Rocket!Next

(* The flow hardens the files of one elaboration, of the pin and all of    *)
(* them, unless the pin was bumped, a copy failed or a staging stopped: in *)
(* every history of runs that stop and of clones that are removed.         *)
THEOREM Hardened == Rocket!Spec => []Rocket!HardenedHasCause
<1>1. RocketInv => Rocket!HardenedHasCause
  BY DEF RocketInv
<1>2. QED BY <1>1, RocketStarts, RocketKeeps, PTL DEF Rocket!Spec
-----------------------------------------------------------------------------
(* build-rocket-hammer.sh setup.                                           *)
Gunzipping == writing # "none"

(* Each expansion is of the pin, or was there before a bump, or cut by a   *)
(* kill, or is the one under way.                                          *)
Expansions ==
  /\ hammer_pc = "expand" => srams = hammer_pin
  /\ Gunzipping => hammer_pc = "expand"
  /\ \A r \in raw : \/ r.of = hammer_pin \/ r.macro \in before \cup kills
                    \/ Gunzipping /\ r.macro = writing
  /\ hammer_pc = "complete" => \A m \in Archives[hammer_pin] : Hammer!Expanded(m)

LEMMA HammerStarts == Hammer!Init => Expansions
BY DEF Hammer!Init, Expansions, Gunzipping

LEMMA HammerKeeps ==
  ASSUME Expansions, [Hammer!Next]_(Hammer!vars)
  PROVE  Expansions'
<1> USE DEF Expansions, Gunzipping, Hammer!Expanded
<1>1. CASE Hammer!Start
  BY <1>1 DEF Hammer!Start
<1>2. CASE Hammer!Clone
  BY <1>2 DEF Hammer!Clone
<1>3. CASE Hammer!Checkout
  BY <1>3 DEF Hammer!Checkout, Hammer!CheckedOut
<1>4. ASSUME NEW m \in UNION {Archives[v] : v \in Tags}, srams \in Tags, Hammer!Gunzip(m)
      PROVE  Expansions'
  <2>1. m # "none"
    BY <1>4, MacrosAreNamed DEF Hammer!Gunzip
  <2>2. QED BY <1>4, <2>1 DEF Hammer!Gunzip
<1>5. CASE Hammer!GunzipDone
  BY <1>5 DEF Hammer!GunzipDone
<1>6. CASE Hammer!Complete
  BY <1>6 DEF Hammer!Complete
<1>7. CASE Hammer!Stop
  BY <1>7 DEF Hammer!Stop
<1>8. CASE Hammer!BumpPin
  BY <1>8 DEF Hammer!BumpPin
<1>9. CASE Hammer!Remove
  BY <1>9 DEF Hammer!Remove
<1>10. CASE UNCHANGED Hammer!vars
  BY <1>10 DEF Hammer!vars
<1>11. QED
  BY <1>1, <1>2, <1>3, <1>4, <1>5, <1>6, <1>7, <1>8, <1>9, <1>10 DEF Hammer!Next

(* After a setup that completes every macro of the pin has its layout, the *)
(* pin's but for those that were expanded before a bump or whose expansion *)
(* was killed, for every set of versions and of macros.                    *)
THEOREM LayoutsExplained == Hammer!Spec => []Hammer!LayoutsHaveCause
<1>1. Expansions => Hammer!LayoutsHaveCause
  BY DEF Expansions, Gunzipping, Hammer!Expanded, Hammer!LayoutsHaveCause
<1>2. QED BY <1>1, HammerStarts, HammerKeeps, PTL DEF Hammer!Spec
-----------------------------------------------------------------------------
(* The workflow of the book.                                               *)
BookCommit == [number : Nat, pin : Pins]
BookData == [Files -> Pins \cup {Book!Missing}]

BookTypes ==
  /\ head \in BookCommit /\ waiting \in BookCommit
  /\ job \in [commit : BookCommit, step : {"none", "restore", "fetch", "build", "save", "deploy"},
              data : BookData]
  /\ cache \subseteq [key : Pins, data : BookData]
  /\ site \in [commit : BookCommit, data : BookData]

(* An entry is of its key; a job has nothing of another pin, and, once its *)
(* page is made, everything of its own.                                    *)
BookSound ==
  /\ \A e \in cache : \A f \in Files : e.data[f] = e.key
  /\ job.step # "none" => \A f \in Files : job.data[f] \in {Book!Missing, job.commit.pin}
  /\ job.step \in {"build", "save", "deploy"} => \A f \in Files : job.data[f] = job.commit.pin
  /\ site.commit.number > 0 => \A f \in Files : site.data[f] = site.commit.pin

(* Site, job, waiting commit and head are in the order of master.          *)
BookOrdered ==
  /\ site.commit.number <= head.number
  /\ job.step # "none" => site.commit.number <= job.commit.number /\ job.commit.number <= head.number
  /\ waiting.number > 0 => site.commit.number <= waiting.number /\ waiting.number <= head.number
  /\ job.step # "none" /\ waiting.number > 0 => job.commit.number <= waiting.number

BookInv == BookTypes /\ BookSound /\ BookOrdered

LEMMA BookStarts == Book!Init => BookInv
  BY SMTT(30) DEF Book!Init, BookInv, BookTypes, BookSound, BookOrdered, BookCommit, BookData, Book!Fresh, Book!Empty, Book!Commit, Book!Missing

LEMMA BookKeeps == BookInv /\ [Book!Next]_(Book!vars) => BookInv'
<1> SUFFICES ASSUME BookInv, [Book!Next]_(Book!vars) PROVE BookInv'
  OBVIOUS
<1> USE DEF BookInv, BookTypes, BookSound, BookOrdered, BookCommit, BookData
<1>1. CASE Book!Push
  BY <1>1, SMTT(30) DEF Book!Push, Book!Commit
<1>2. CASE Book!Dispatch
  BY <1>2 DEF Book!Dispatch
<1>3. CASE Book!Begin
  BY <1>3, SMTT(30) DEF Book!Begin, Book!Fresh, Book!Empty, Book!Commit, Book!Missing
<1>4. CASE Book!Restore
  <2>1. ASSUME NEW e \in cache, e.key = Book!Key(job.commit),
               job' = [job EXCEPT !.step = "fetch", !.data = e.data]
        PROVE  BookInv'
    <3>1. e.data \in BookData /\ \A f \in Files : e.data[f] = job.commit.pin
      BY <2>1 DEF Book!Key
    <3>2. job'.commit = job.commit /\ job'.step = "fetch" /\ job'.data = e.data
      BY <2>1
    <3>3. BookTypes'
      BY <1>4, <2>1, <3>1 DEF Book!Restore
    <3>4. BookSound'
      BY <1>4, <3>1, <3>2 DEF Book!Restore
    <3>5. BookOrdered'
      BY <1>4, <3>2 DEF Book!Restore
    <3> QED
      BY <3>3, <3>4, <3>5
  <2>2. CASE job' = [job EXCEPT !.step = "fetch"]
    BY <1>4, <2>2, SMTT(30) DEF Book!Restore
  <2> QED
    BY <1>4, <2>1, <2>2 DEF Book!Restore
<1>5. CASE \E f \in Files : Book!Get(f)
  BY <1>5, SMTT(30) DEF Book!Get
<1>6. CASE Book!Check
  BY <1>6, SMTT(30) DEF Book!Check
<1>7. CASE Book!Upload
  BY <1>7, SMTT(30) DEF Book!Upload
<1>8. CASE Book!Save
  BY <1>8, SMTT(30) DEF Book!Save, Book!Key
<1>9. CASE Book!Deploy
  BY <1>9, SMTT(30) DEF Book!Deploy
<1>10. CASE Book!Fail
  BY <1>10, SMTT(30) DEF Book!Fail
<1>11. CASE Book!Evict
  BY <1>11, SMTT(30) DEF Book!Evict
<1>12. CASE UNCHANGED Book!vars
  BY <1>12 DEF Book!vars
<1> QED
  BY <1>1, <1>2, <1>3, <1>4, <1>5, <1>6, <1>7, <1>8, <1>9, <1>10, <1>11, <1>12 DEF Book!Next

(* The page that is published is about all of the data its commit pins,    *)
(* whatever was cached, evicted, pushed, replaced or failed on the way, and *)
(* the site goes forward only.                                             *)
THEOREM Published == Book!Spec => []Book!PublishedIsPinned
<1>1. BookInv => Book!PublishedIsPinned
  BY DEF BookInv, BookSound, BookOrdered, Book!PublishedIsPinned
<1> QED
  BY <1>1, BookStarts, BookKeeps, PTL DEF Book!Spec
-----------------------------------------------------------------------------
(* Everything that the scripts derive is of its inputs and pins, or has a  *)
(* cause: sta-rerun.sh, regenerate-core.sh, build-rocket.sh with the flow, *)
(* build-rocket-hammer.sh and the book's workflow together.                *)
THEOREM Derived == ScriptsSpec => []DerivedHasCause
<1>1. ScriptsSpec => [](Sta!SummaryHasCause)
  BY RunsSta, SummaryExplained
<1>2. ScriptsSpec => [](Core!TargetHasCause)
  BY RunsCore, TargetControlled
<1>3. ScriptsSpec => [](Rocket!HardenedHasCause)
  BY RunsRocket, Hardened
<1>4. ScriptsSpec => [](Hammer!LayoutsHaveCause)
  BY RunsHammer, LayoutsExplained
<1>5. ScriptsSpec => [](Book!PublishedIsPinned)
  BY RunsBook, Published
<1>6. (/\ Sta!SummaryHasCause /\ Core!TargetHasCause /\ Rocket!HardenedHasCause
       /\ Hammer!LayoutsHaveCause /\ Book!PublishedIsPinned) => DerivedHasCause
  BY DEF DerivedHasCause
<1>7. QED BY <1>1, <1>2, <1>3, <1>4, <1>5, <1>6, PTL
=============================================================================
