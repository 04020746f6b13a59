-------------------------- MODULE FetchDataProofs --------------------------
(***************************************************************************)
(* For every script, every set of archives and every number of failed      *)
(* downloads: without a disturbance, fetch-data.sh keeps data/ at the pin. *)
(***************************************************************************)
EXTENDS FetchData, TLAPS, SequenceTheorems

LEMMA ScriptFacts ==
  /\ Len(Script) \in Nat
  /\ \A i \in 1 .. Len(Script) : Script[i] \in Files
  /\ \A f \in Files : \E i \in 1 .. Len(Script) : f = Script[i]
BY ScriptIsSeq, LenProperties DEF Files

LEMMA InitInv ==
  ASSUME Init
  PROVE  IInv
<1>1. TypeOK
  BY ScriptFacts, Bounds DEF Init, TypeOK, Contents, Unscarred
<1>2. Walk
  BY ScriptFacts DEF Init, Walk
<1>3. UndisturbedIsPinned
  BY DEF Init, UndisturbedIsPinned
<1>4. QED BY <1>1, <1>2, <1>3 DEF IInv

LEMMA TypeStep ==
  ASSUME TypeOK, [Next]_vars
  PROVE  TypeOK'
<1> USE ScriptFacts, Bounds
<1>1. /\ at \in 0 .. Len(Script) + 1 /\ pin \in Commits
      /\ disk \in [Files -> Contents]
      /\ child # "none" => at \in 1 .. Len(Script) /\ at + 1 \in 0 .. Len(Script) + 1
  BY DEF TypeOK
<1>2. CASE Start
  BY <1>2 DEF Start, Running, TypeOK
<1>3. CASE Skip
  BY <1>3 DEF Skip, TypeOK
<1>4. CASE StartCurl
  BY <1>4 DEF StartCurl, TypeOK
<1>5. CASE StartGunzip
  BY <1>5 DEF StartGunzip, TypeOK
<1>6. CASE PartWritten
  BY <1>6 DEF PartWritten, TypeOK, Contents
<1>7. CASE CurlDone
  <2>1. disk' \in [Files -> Contents]
    BY <1>1, <1>7 DEF CurlDone, Contents
  <2>2. QED BY <1>1, <1>7, <2>1 DEF CurlDone, TypeOK
<1>8. CASE CurlFails
  <2>1. disk' \in [Files -> Contents]
    BY <1>1, <1>8 DEF CurlFails, Contents
  <2>2. QED BY <1>1, <1>8, <2>1 DEF CurlFails, TypeOK
<1>9. CASE GunzipDone
  <2>1. disk' \in [Files -> Contents]
    BY <1>1, <1>9 DEF GunzipDone, Contents
  <2>2. QED BY <1>1, <1>9, <2>1 DEF GunzipDone, TypeOK
<1>10. CASE GunzipFails
  <2>1. scars' \in [interrupt : 0 .. MaxInterrupts, gunzip : 0 .. 1, bump : 0 .. MaxBumps]
    BY <1>10 DEF GunzipFails, TypeOK
  <2>2. QED BY <1>1, <1>10, <2>1 DEF GunzipFails, TypeOK
<1>11. CASE Finish
  BY <1>11 DEF Finish, TypeOK
<1>12. CASE Interrupt
  <2>1. scars.interrupt \in Nat /\ scars.interrupt + 1 \in 0 .. MaxInterrupts
    BY <1>12 DEF Interrupt, TypeOK
  <2>2. scars' \in [interrupt : 0 .. MaxInterrupts, gunzip : 0 .. 1, bump : 0 .. MaxBumps]
    BY <1>12, <2>1 DEF Interrupt, TypeOK
  <2>3. QED BY <1>1, <1>12, <2>2 DEF Interrupt, TypeOK
<1>13. ASSUME NEW c \in Commits, BumpPin(c) PROVE TypeOK'
  <2>1. scars.bump \in Nat /\ scars.bump + 1 \in 0 .. MaxBumps
    BY <1>13 DEF BumpPin, TypeOK
  <2>2. scars' \in [interrupt : 0 .. MaxInterrupts, gunzip : 0 .. 1, bump : 0 .. MaxBumps]
    BY <1>13, <2>1 DEF BumpPin, TypeOK
  <2>3. QED BY <1>1, <1>13, <2>2 DEF BumpPin, Running, TypeOK
<1>14. CASE UNCHANGED vars
  BY <1>14 DEF vars, TypeOK
<1>15. QED
  BY <1>2, <1>3, <1>4, <1>5, <1>6, <1>7, <1>8, <1>9, <1>10, <1>11, <1>12, <1>13, <1>14
  DEF Next, Progress

(* The files before the run's position are and stay present.               *)
LEMMA WalkStep ==
  ASSUME TypeOK, Walk, [Next]_vars
  PROVE  Walk'
<1> USE ScriptFacts, NotCommits
<1>1. at \in 0 .. Len(Script) + 1 /\ disk \in [Files -> Contents]
  BY DEF TypeOK
<1>2. CASE Start
  BY <1>1, <1>2 DEF Start, Running, Walk, Expanding, Present, TypeOK
<1>3. CASE Skip
  BY <1>1, <1>3 DEF Skip, Walk, Expanding, File, Present
<1>4. CASE StartCurl
  BY <1>1, <1>4 DEF StartCurl, Walk, Expanding, File, Present
<1>5. CASE StartGunzip
  BY <1>1, <1>5 DEF StartGunzip, Walk, Expanding, File, Present
<1>6. CASE PartWritten
  BY <1>1, <1>6 DEF PartWritten, Walk, Expanding, File, Present, TypeOK
<1>7. CASE CurlDone
  BY <1>1, <1>7 DEF CurlDone, Walk, Expanding, File, Present, TypeOK
<1>8. CASE CurlFails
  BY <1>1, <1>8 DEF CurlFails, Walk, Expanding, File, Present
<1>9. CASE GunzipDone
  BY <1>1, <1>9 DEF GunzipDone, Walk, Expanding, File, Present, TypeOK
<1>10. CASE GunzipFails
  BY <1>1, <1>10 DEF GunzipFails, Walk, Expanding, File, Present
<1>11. CASE Finish
  BY <1>1, <1>11 DEF Finish, Walk, Expanding, File, Present, TypeOK
<1>12. CASE Interrupt
  BY <1>1, <1>12 DEF Interrupt, Walk, Expanding, File, Present
<1>13. ASSUME NEW c \in Commits, BumpPin(c) PROVE Walk'
  BY <1>1, <1>13 DEF BumpPin, Running, Walk, Expanding, File, Present
<1>14. CASE UNCHANGED vars
  BY <1>14 DEF vars, Walk, Expanding, File, Present
<1>15. QED
  BY <1>2, <1>3, <1>4, <1>5, <1>6, <1>7, <1>8, <1>9, <1>10, <1>11, <1>12, <1>13, <1>14
  DEF Next, Progress

(* What an undisturbed run writes is the pin's.                            *)
LEMMA UndisturbedStep ==
  ASSUME IInv, [Next]_vars
  PROVE  UndisturbedIsPinned'
<1> USE ScriptFacts
<1>0. TypeOK /\ TypeOK' /\ Walk /\ Walk' /\ UndisturbedIsPinned
  BY TypeStep, WalkStep DEF IInv
<1>1. SUFFICES ASSUME scars' = Unscarred
      PROVE  /\ \A f \in Files : ~BeingWritten(f)' => disk'[f] \in {Missing, pin'}
             /\ status' = "ok" => AllPinned'
  BY DEF UndisturbedIsPinned
<1>2. scars = Unscarred /\ pin' = pin
  <2>1. (scars' = scars /\ pin' = pin)
        \/ GunzipFails \/ Interrupt \/ \E c \in Commits : BumpPin(c)
    BY DEF Next, Progress, vars, Start, Skip, StartCurl, StartGunzip, PartWritten,
           CurlDone, CurlFails, GunzipDone, Finish
  <2>2. ~GunzipFails /\ ~Interrupt /\ ~(\E c \in Commits : BumpPin(c))
    BY <1>0, <1>1, Bounds DEF GunzipFails, Interrupt, BumpPin, Unscarred, TypeOK
  <2>3. QED BY <1>1, <2>1, <2>2
<1>3. ~GunzipFails /\ ~Interrupt /\ ~(\E c \in Commits : BumpPin(c))
  BY <1>0, <1>1, Bounds DEF GunzipFails, Interrupt, BumpPin, Unscarred, TypeOK
<1>4. \A f \in Files : ~BeingWritten(f) => disk[f] \in {Missing, pin}
  BY <1>0, <1>2 DEF UndisturbedIsPinned
<1>5. ASSUME NEW f \in Files, ~BeingWritten(f)' PROVE disk'[f] \in {Missing, pin}
  <2>1. CASE Start
    BY <1>0, <1>4, <1>5, <2>1 DEF Start, Running, BeingWritten, TypeOK
  <2>2. CASE Skip
    BY <1>4, <1>5, <2>2 DEF Skip, BeingWritten
  <2>3. CASE StartCurl \/ StartGunzip
    BY <1>4, <1>5, <2>3 DEF StartCurl, StartGunzip, BeingWritten
  <2>4. CASE PartWritten
    BY <1>0, <1>4, <1>5, <2>4 DEF PartWritten, BeingWritten, File, TypeOK
  <2>5. CASE CurlDone
    BY <1>0, <1>4, <1>5, <2>5 DEF CurlDone, BeingWritten, TypeOK
  <2>6. CASE CurlFails
    BY <1>0, <1>4, <1>5, <2>6 DEF CurlFails, BeingWritten, TypeOK
  <2>7. CASE GunzipDone
    <3>1. at \in 1 .. Len(Script) /\ File \in Files /\ Expanding
      BY <1>0, <2>7 DEF TypeOK, GunzipDone, File, Walk
    <3>2. Archive[File] \in Files /\ disk[Archive[File]] \in Commits
      BY <2>7, <3>1, ArchivesAreFiles DEF GunzipDone, Expanding
    <3>3. Archive[File] # File
      BY <1>0, <2>7, <3>2 DEF Walk, GunzipDone
    <3>4. disk[Archive[File]] = pin
      BY <1>4, <3>2, <3>3, NotCommits DEF BeingWritten
    <3>5. QED BY <1>0, <1>4, <1>5, <2>7, <3>4 DEF GunzipDone, BeingWritten, TypeOK
  <2>8. CASE Finish
    BY <1>0, <1>4, <1>5, <2>8 DEF Finish, BeingWritten, TypeOK
  <2>9. CASE UNCHANGED vars
    BY <1>4, <1>5, <2>9 DEF vars, BeingWritten, File
  <2>10. QED
    BY <1>3, <2>1, <2>2, <2>3, <2>4, <2>5, <2>6, <2>7, <2>8, <2>9 DEF Next, Progress
<1>6. ASSUME status' = "ok" PROVE AllPinned'
  <2>1. at' = 0 /\ child' = "none" /\ \A f \in Files : disk'[f] # Missing
    BY <1>0, <1>6 DEF Walk, TypeOK, Present
  <2>2. QED BY <1>2, <1>5, <2>1 DEF AllPinned, BeingWritten
<1>7. QED BY <1>2, <1>5, <1>6

(* The walk of the script over its files (42-106 of fetch-data.sh) keeps   *)
(* the inductive invariant: whatever lies before the run's position is     *)
(* there, and only the file a child writes is not whole.                   *)
THEOREM Invariance == Spec => []IInv
<1>1. Init => IInv
  BY InitInv
<1>2. IInv /\ [Next]_vars => IInv'
  BY TypeStep, WalkStep, UndisturbedStep DEF IInv
<1>3. QED BY <1>1, <1>2, PTL DEF Spec

(* Without an interruption, a failed gunzip or a bump in its history, a    *)
(* run of fetch-data.sh that succeeds leaves every file at the pin,        *)
(* however many downloads failed before (fetch-data.sh `get`, 24-34).      *)
THEOREM Undisturbed == Spec => []UndisturbedIsPinned
BY Invariance, PTL DEF IInv

(* Counters of disturbances do not fall; a bump alone moves the pin.       *)
LEMMA ScarsGrow ==
  ASSUME TypeOK, [Next]_vars
  PROVE  /\ scars.bump \in Nat /\ scars'.bump \in Nat /\ scars.bump =< scars'.bump
         /\ scars.interrupt \in Nat /\ scars'.interrupt \in Nat
         /\ scars.interrupt =< scars'.interrupt
         /\ scars.gunzip \in Nat /\ scars'.gunzip \in Nat /\ scars.gunzip =< scars'.gunzip
         /\ Interrupt => scars'.interrupt > 0
         /\ GunzipFails => scars'.gunzip > 0
         /\ (\E c \in Commits : BumpPin(c)) => scars'.bump > 0
         /\ (\E c \in Commits : BumpPin(c)) \/ pin' = pin
<1>1. scars \in [interrupt : 0 .. MaxInterrupts, gunzip : 0 .. 1, bump : 0 .. MaxBumps]
  BY DEF TypeOK
<1>2. CASE GunzipFails
  BY <1>1, <1>2, Bounds DEF GunzipFails, Interrupt, BumpPin
<1>3. CASE Interrupt
  BY <1>1, <1>3, Bounds DEF GunzipFails, Interrupt, BumpPin
<1>4. ASSUME NEW c \in Commits, BumpPin(c)
      PROVE  /\ scars' = [scars EXCEPT !.bump = @ + 1]
             /\ ~GunzipFails /\ ~Interrupt
  BY <1>1, <1>4, Bounds DEF GunzipFails, Interrupt, BumpPin, Running, TypeOK
<1>5. CASE scars' = scars /\ pin' = pin
  BY <1>1, <1>5, Bounds DEF GunzipFails, Interrupt, BumpPin
<1>6. (scars' = scars /\ pin' = pin)
      \/ GunzipFails \/ Interrupt \/ \E c \in Commits : BumpPin(c)
  BY DEF Next, Progress, vars, Start, Skip, StartCurl, StartGunzip, PartWritten,
         CurlDone, CurlFails, GunzipDone, Finish
<1>7. CASE \E c \in Commits : BumpPin(c)
  BY <1>1, <1>4, <1>7, Bounds
<1>8. QED BY <1>2, <1>3, <1>5, <1>6, <1>7

(* Whatever a step changes on disk is the file the child writes; a file    *)
(* becomes whole with the pinned commit or with that of its archive.       *)
LEMMA DiskStep ==
  ASSUME TypeOK, Walk, [Next]_vars, NEW f \in Files, disk'[f] # disk[f]
  PROVE  /\ BeingWritten(f)
         /\ disk'[f] = Damaged => BeingWritten(f)'
         /\ disk'[f] \in Commits =>
              \/ disk'[f] = pin
              \/ \E g \in Files : disk'[f] = disk[g] /\ disk[g] \in Commits
<1> USE NotCommits, ScriptFacts
<1>1. /\ disk \in [Files -> Contents]
      /\ child # "none" => at \in 1 .. Len(Script) /\ File \in Files
      /\ pin \in Commits
  BY DEF TypeOK, File
<1>2. PartWritten \/ CurlDone \/ CurlFails \/ GunzipDone
  BY DEF Next, Progress, vars, Start, Skip, StartCurl, StartGunzip, GunzipFails,
         Finish, Interrupt, BumpPin
<1>3. CASE PartWritten
  BY <1>1, <1>3 DEF PartWritten, BeingWritten, File, Missing, Damaged
<1>4. CASE CurlDone
  BY <1>1, <1>4 DEF CurlDone, BeingWritten
<1>5. CASE CurlFails
  BY <1>1, <1>5 DEF CurlFails, BeingWritten, Missing, Damaged
<1>6. CASE GunzipDone
  <2>1. Archive[File] \in Files
    BY <1>1, <1>6, ArchivesAreFiles DEF GunzipDone, Walk, Expanding
  <2>2. QED BY <1>1, <1>6, <2>1 DEF GunzipDone, BeingWritten
<1>7. QED BY <1>2, <1>3, <1>4, <1>5, <1>6

(* A file that a child leaves as a part is left by an interruption, or, if *)
(* it is an expansion, by a gunzip that failed.                            *)
LEMMA LeftDamaged ==
  ASSUME TypeOK, Walk, [Next]_vars, NEW f \in Files,
         BeingWritten(f), ~BeingWritten(f)', disk'[f] = Damaged
  PROVE  Interrupt \/ (GunzipFails /\ f \in DOMAIN Archive)
<1> USE NotCommits, ScriptFacts
<1>1. /\ disk \in [Files -> Contents]
      /\ child # "none" /\ f = File /\ at \in 1 .. Len(Script) /\ pin \in Commits
  BY DEF TypeOK, BeingWritten
<1>2. CASE CurlDone \/ CurlFails \/ GunzipDone
  BY <1>1, <1>2 DEF CurlDone, CurlFails, GunzipDone, Missing, Damaged
<1>3. CASE GunzipFails
  BY <1>1, <1>3 DEF GunzipFails, Walk, Expanding
<1>4. CASE PartWritten \/ UNCHANGED vars
  BY <1>1, <1>4 DEF PartWritten, vars, BeingWritten, File
<1>5. ~Start /\ ~Skip /\ ~StartCurl /\ ~StartGunzip /\ ~Finish
      /\ \A c \in Commits : ~BumpPin(c)
  BY <1>1 DEF Start, Skip, StartCurl, StartGunzip, Finish, BumpPin, Running
<1>6. QED BY <1>2, <1>3, <1>4, <1>5 DEF Next, Progress

LEMMA HarmStep ==
  ASSUME TypeOK, Walk, HarmHasCause, [Next]_vars
  PROVE  HarmHasCause'
<1> USE ScarsGrow, NotCommits
<1>0. TypeOK'
  BY TypeStep
<1>1. ASSUME NEW f \in Files, disk'[f] \in Commits \ {pin'} PROVE scars'.bump > 0
  <2>1. CASE \E c \in Commits : BumpPin(c)
    BY <2>1
  <2>2. CASE pin' = pin
    <3>1. CASE disk'[f] = disk[f]
      BY <1>1, <2>2, <3>1 DEF HarmHasCause
    <3>2. CASE disk'[f] # disk[f]
      BY <1>1, <2>2, <3>2, DiskStep DEF HarmHasCause
    <3>3. QED BY <3>1, <3>2
  <2>3. QED BY <2>1, <2>2
<1>2. ASSUME NEW f \in Files, disk'[f] = Damaged, ~BeingWritten(f)'
      PROVE  /\ scars'.interrupt > 0 \/ scars'.gunzip > 0
             /\ f \notin DOMAIN Archive => scars'.interrupt > 0
  <2>1. CASE BeingWritten(f)
    BY <1>2, <2>1, LeftDamaged
  <2>2. CASE ~BeingWritten(f)
    BY <1>2, <2>2, DiskStep DEF HarmHasCause
  <2>3. QED BY <2>1, <2>2
<1>3. QED BY <1>1, <1>2 DEF HarmHasCause

(* Over the whole history of data/, with runs of fetch-data.sh (24-106)    *)
(* interrupted, failing and bumped any number of times: a file of another  *)
(* commit means a bump, and a part of a file an interruption or a gunzip   *)
(* that failed.                                                            *)
THEOREM Harm == Spec => []HarmHasCause
<1>1. Init => HarmHasCause
  BY NotCommits DEF Init, HarmHasCause, Missing, Damaged
<1>2. IInv /\ HarmHasCause /\ [Next]_vars => HarmHasCause'
  BY HarmStep DEF IInv
<1>3. QED BY <1>1, <1>2, Invariance, PTL DEF Spec
=============================================================================
