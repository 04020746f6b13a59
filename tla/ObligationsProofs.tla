------------------------- MODULE ObligationsProofs --------------------------
(***************************************************************************)
(* The obligations, for every list of cubes, table, tree, netlist of       *)
(* interrupts, bus, set of pads, program of constraints, report, database  *)
(* of violations and layout: what passes, and what is reported, is so of   *)
(* the input they read.                                                    *)
(***************************************************************************)
EXTENDS MCObligations, FiniteSetTheorems, SequenceTheorems, WellFoundedInduction, TLAPS

(* A run of the obligations is one of each of them.                        *)
LEMMA Runs ==
  Spec => /\ Table!Init /\ [][Table!Next]_(Table!vars)
          /\ Tree!Init /\ [][Tree!Next]_(Tree!vars)
          /\ Irq!Init /\ [][Irq!Next]_(Irq!vars)
          /\ Audit!Init /\ [][Audit!Next]_(Audit!vars)
          /\ Timing!Init /\ [][Timing!Next]_(Timing!vars)
          /\ Triage!Init /\ [][Triage!Next]_(Triage!vars)
          /\ Gds!Init /\ [][Gds!Next]_(Gds!vars)
          /\ Cone!Init /\ [][Cone!Next]_(Cone!vars)
          /\ Bus!Init /\ [][Bus!Next]_(Bus!vars)
          /\ Power!Init /\ [][Power!Next]_(Power!vars)
          /\ Part!Init /\ [][Part!Next]_(Part!vars)
<1> USE DEF PartStep, TableStep, TreeStep, IrqStep, BusStep, PowerStep, AuditStep,
            TimingStep, TriageStep, GdsStep, TextStep, decoders, maps, records, signoff
<1>1. [Next]_vars => [Table!Next]_(Table!vars)
  BY DEF Next, vars, table, Table!vars
<1>2. [Next]_vars => [Tree!Next]_(Tree!vars)
  BY DEF Next, vars, tree, Tree!vars
<1>3. [Next]_vars => [Irq!Next]_(Irq!vars)
  BY DEF Next, vars, irq, Irq!vars
<1>4. [Next]_vars => [Audit!Next]_(Audit!vars)
  BY DEF Next, vars, modes, Audit!vars
<1>5. [Next]_vars => [Timing!Next]_(Timing!vars)
  BY DEF Next, vars, timing, Timing!vars
<1>6. [Next]_vars => [Triage!Next]_(Triage!vars)
  BY DEF Next, vars, drc, Triage!vars
<1>7. [Next]_vars => [Gds!Next]_(Gds!vars)
  BY DEF Next, vars, gds, Gds!vars
<1>8. [Next]_vars => [Cone!Next]_(Cone!vars)
  BY DEF Next, vars, texts, Cone!vars
<1>9. [Next]_vars => [Bus!Next]_(Bus!vars)
  BY DEF Next, vars, bus, Bus!vars
<1>10. [Next]_vars => [Power!Next]_(Power!vars)
  BY DEF Next, vars, power, Power!vars
<1>11. [Next]_vars => [Part!Next]_(Part!vars)
  BY DEF Next, vars, part, Part!vars
<1>12. Init => /\ Table!Init /\ Tree!Init /\ Irq!Init /\ Audit!Init /\ Timing!Init
               /\ Triage!Init /\ Gds!Init /\ Cone!Init /\ Bus!Init /\ Power!Init
               /\ Part!Init
  BY DEF Init
<1>13. QED BY <1>1, <1>2, <1>3, <1>4, <1>5, <1>6, <1>7, <1>8, <1>9, <1>10, <1>11, <1>12,
             PTL DEF Spec
-----------------------------------------------------------------------------
(* partition.py: what the dictionary of the official encodings holds.      *)
Given(n) ==
  \/ \E k \in Table!At("instruction", n) :
       /\ file[k].pattern = official[n]
       /\ \A j \in Table!At("instruction", n) : j <= k
  \/ /\ Table!At("instruction", n) = {}
     /\ \E k \in Table!At("pseudo", n) :
          /\ file[k].pattern = official[n]
          /\ \A j \in Table!At("pseudo", n) : k <= j
TableRead ==
  /\ file \in Seq(Table!Lines)
  /\ \A n \in Mnemonics \ DOMAIN official :
       Table!At("instruction", n) = {} /\ Table!At("pseudo", n) = {}
  /\ \A n \in DOMAIN official : Given(n)

LEMMA TableInit == Table!Init => TableRead
BY DEF Table!Init, TableRead, Table!At

LEMMA TableSteps ==
  ASSUME TableRead, [Table!Next]_(Table!vars)
  PROVE  TableRead'
<1>1. CASE UNCHANGED Table!vars
  BY <1>1 DEF TableRead, Given, Table!At, Table!vars
<1>2. ASSUME NEW line \in Table!Lines, Table!ReadLine(line)
      PROVE  TableRead'
  <2> DEFINE last == Len(file) + 1
  <2>1. /\ file \in Seq(Table!Lines) /\ file' = Append(file, line)
        /\ Len(file) \in Nat /\ DOMAIN file = 1 .. Len(file)
    BY <1>2, LenProperties DEF TableRead, Table!ReadLine
  <2>2. /\ file' \in Seq(Table!Lines)
        /\ DOMAIN file' = DOMAIN file \cup {last} /\ last \notin DOMAIN file
        /\ file'[last] = line /\ \A k \in DOMAIN file : file'[k] = file[k] /\ k < last
    BY <2>1
  <2>3. /\ line.name \in Mnemonics
        /\ line.kind \in {"instruction", "pseudo", "directive"}
    BY DEF Table!Lines
  <2>4. ASSUME NEW kind, NEW n
        PROVE  Table!At(kind, n)' = IF kind = line.kind /\ n = line.name
                                   THEN Table!At(kind, n) \cup {last} ELSE Table!At(kind, n)
    BY <2>2 DEF Table!At
  <2>5. ASSUME NEW kind, NEW n, NEW k \in Table!At(kind, n)
        PROVE  k \in DOMAIN file /\ k < last /\ file'[k] = file[k] /\ k \in Nat
    BY <2>1, <2>2 DEF Table!At
  <2>6. \A n \in (Mnemonics \ DOMAIN official)' :
          Table!At("instruction", n)' = {} /\ Table!At("pseudo", n)' = {}
    BY <1>2, <2>3, <2>4 DEF TableRead, Table!ReadLine, Table!Fills
  <2>7. ASSUME NEW n \in DOMAIN official' PROVE Given(n)'
    <3>1. CASE n # line.name
      <4>1. /\ n \in DOMAIN official /\ official'[n] = official[n]
            /\ Table!At("instruction", n)' = Table!At("instruction", n)
            /\ Table!At("pseudo", n)' = Table!At("pseudo", n)
        BY <1>2, <2>4, <2>7, <3>1 DEF Table!ReadLine
      <4>2. Given(n)
        BY <4>1 DEF TableRead
      <4>3. QED BY <2>5, <4>1, <4>2 DEF Given
    <3>2. CASE n = line.name /\ line.kind = "instruction"
      <4>1. official'[n] = line.pattern
        BY <1>2, <3>2 DEF Table!ReadLine, Table!Fills
      <4>2. last \in Table!At("instruction", n)' /\ file'[last] = line
        BY <2>2, <2>4, <3>2
      <4>3. \A j \in Table!At("instruction", n)' : j <= last
        BY <2>1, <2>4, <2>5
      <4>4. QED BY <4>1, <4>2, <4>3 DEF Given
    <3>3. CASE n = line.name /\ line.kind = "pseudo" /\ n \notin DOMAIN official
      <4>1. official'[n] = line.pattern
        BY <1>2, <3>3 DEF Table!ReadLine, Table!Fills
      <4>2. Table!At("instruction", n)' = {} /\ Table!At("pseudo", n)' = {last}
        BY <2>3, <2>4, <3>3 DEF TableRead
      <4>3. QED BY <2>1, <2>2, <4>1, <4>2 DEF Given
    <3>4. CASE n = line.name /\ n \in DOMAIN official /\ line.kind # "instruction"
      <4>1. official' = official
        BY <1>2, <2>3, <3>4 DEF Table!ReadLine, Table!Fills
      <4>2. Table!At("instruction", n)' = Table!At("instruction", n)
        BY <2>4, <3>4
      <4>3. Given(n)
        BY <3>4 DEF TableRead
      <4>4. CASE Table!At("instruction", n) = {}
        <5>1. PICK k \in Table!At("pseudo", n) :
                /\ file[k].pattern = official[n]
                /\ \A j \in Table!At("pseudo", n) : k <= j
          BY <4>3, <4>4 DEF Given
        <5>2. k \in Table!At("pseudo", n)' /\ file'[k].pattern = official'[n]
          BY <2>4, <2>5, <4>1, <5>1
        <5>3. \A j \in Table!At("pseudo", n)' : k <= j
          BY <2>1, <2>4, <2>5, <5>1
        <5>4. QED BY <4>2, <4>4, <5>2, <5>3 DEF Given
      <4>5. CASE Table!At("instruction", n) # {}
        BY <2>5, <4>1, <4>2, <4>3, <4>5 DEF Given
      <4>6. QED BY <4>4, <4>5
    <3>5. QED BY <1>2, <2>3, <2>7, <3>1, <3>2, <3>3, <3>4 DEF Table!ReadLine, Table!Fills
  <2>8. QED BY <2>2, <2>6, <2>7 DEF TableRead
<1>3. QED BY <1>1, <1>2 DEF Table!Next

(* opcodes_spec and spec_vs_opcodes: for any table and files of any length,*)
(* a validated table is validated by instructions, never by shorthands.    *)
THEOREM ByInstructions == Spec => []ValidatedByInstructions
<1>1. TableRead => ValidatedByInstructions
  BY DEF TableRead, Given, ValidatedByInstructions, Table!ValidatedByInstructions,
         Table!Validated, Table!Missing, Table!Mismatches
<1>2. QED BY <1>1, Runs, TableInit, TableSteps, PTL
-----------------------------------------------------------------------------
(* check-l2.py: what has been read of the corners.                         *)
Positive(c) == hold[c] = "positive" /\ setup[c] = "positive"
CornersRead ==
  /\ hold \in [Corners -> Timing!Reports] /\ setup \in [Corners -> Timing!Reports]
  /\ corners \in [queue : SUBSET Corners, all : SUBSET Corners]
  /\ nine = "none" => fails = {}
  /\ nine \in {"reading", "PASS"} =>
       /\ corners.all # {}
       /\ \A c \in corners.all \ corners.queue :
            {hold[c], setup[c]} \subseteq Timing!Slacks /\ (c \in fails \/ Positive(c))
  /\ nine = "PASS" => corners.queue = {} /\ fails = {}
  /\ corners.queue \subseteq corners.all
  /\ \A c \in fails : /\ c \in corners.all /\ ~Positive(c)
                      /\ {hold[c], setup[c]} \subseteq Timing!Slacks
  /\ domain = "PASS" => limits.there /\ (limits.headed => ~limits.violations)

LEMMA TimingInit == Timing!Init => CornersRead
BY DEF Timing!Init, CornersRead, Timing!Reports

(* The flow goes on with a report that says nothing yet, of any corner,    *)
(* those read included: none of those is one.                              *)
LEMMA ReportGrows ==
  ASSUME NEW before \in [Corners -> Timing!Reports], NEW grown, NEW c \in Corners,
         \/ before[c] = "absent" /\ grown = [before EXCEPT ![c] = "blank"]
         \/ before[c] = "blank" /\ \E s \in Timing!Slacks : grown = [before EXCEPT ![c] = s]
  PROVE  /\ grown \in [Corners -> Timing!Reports]
         /\ \A d \in Corners : before[d] \in Timing!Slacks => grown[d] = before[d]
BY DEF Timing!Reports, Timing!Slacks

LEMMA TimingSteps ==
  ASSUME CornersRead, [Timing!Next]_(Timing!vars)
  PROVE  CornersRead'
<1>1. CASE UNCHANGED Timing!vars
  BY <1>1 DEF CornersRead, Positive, Timing!vars
<1>2. ASSUME NEW c \in Corners, Timing!WriteHold(c) PROVE CornersRead'
  <2>1. /\ hold' \in [Corners -> Timing!Reports]
        /\ \A d \in Corners : hold[d] \in Timing!Slacks => hold'[d] = hold[d]
    BY <1>2, ReportGrows DEF Timing!WriteHold, Timing!Opened, Timing!Filled, CornersRead
  <2>2. QED BY <1>2, <2>1 DEF Timing!WriteHold, CornersRead, Positive
<1>3. ASSUME NEW c \in Corners, Timing!WriteSetup(c) PROVE CornersRead'
  <2>1. /\ setup' \in [Corners -> Timing!Reports]
        /\ \A d \in Corners : setup[d] \in Timing!Slacks => setup'[d] = setup[d]
    BY <1>3, ReportGrows DEF Timing!WriteSetup, Timing!Opened, Timing!Filled, CornersRead
  <2>2. QED BY <1>3, <2>1 DEF Timing!WriteSetup, CornersRead, Positive
<1>4. CASE Timing!List
  BY <1>4 DEF Timing!List, CornersRead, Positive
<1>5. ASSUME NEW c \in Corners, Timing!ReadCorner(c) PROVE CornersRead'
  <2>1. /\ corners'.queue = corners.queue \ {c} /\ corners'.all = corners.all
        /\ corners' \in [queue : SUBSET Corners, all : SUBSET Corners]
    BY <1>5 DEF Timing!ReadCorner, CornersRead
  <2>2. CASE {hold[c], setup[c]} \subseteq Timing!Slacks
    <3>1. /\ nine = "reading" /\ nine' = nine /\ c \in corners.queue /\ c \in corners.all
          /\ fails' = IF Positive(c) THEN fails ELSE fails \cup {c}
      BY <1>5, <2>2 DEF Timing!ReadCorner, Timing!Fails, Positive, CornersRead
    <3>2. \A d : Positive(d)' <=> Positive(d)
      BY <1>5 DEF Timing!ReadCorner, Positive
    <3>3. \A d \in corners'.all \ corners'.queue :
            {hold[d], setup[d]} \subseteq Timing!Slacks /\ (d \in fails' \/ Positive(d))
      BY <2>1, <2>2, <3>1 DEF CornersRead
    <3>4. QED BY <1>5, <2>1, <2>2, <3>1, <3>2, <3>3 DEF Timing!ReadCorner, CornersRead
  <2>3. CASE ~({hold[c], setup[c]} \subseteq Timing!Slacks)
    BY <1>5, <2>1, <2>3 DEF Timing!ReadCorner, CornersRead, Positive
  <2>4. QED BY <2>2, <2>3
<1>6. CASE Timing!Conclude
  BY <1>6 DEF Timing!Conclude, CornersRead, Positive
<1>7. CASE Timing!CheckDomain
  BY <1>7 DEF Timing!CheckDomain, CornersRead, Positive
<1>8. QED BY <1>1, <1>2, <1>3, <1>4, <1>5, <1>6, <1>7 DEF Timing!Next

LEMMA TimingEarned == CornersRead => Timing!PassesAreClosure
BY DEF CornersRead, Positive, Timing!PassesAreClosure, Timing!Slacks
-----------------------------------------------------------------------------
(* check-l1.py: what has been counted of the items.                        *)
Counted ==
  /\ items \in Seq(Triage!Items) /\ outside \in Nat
  /\ outside = 0 <=> \A k \in DOMAIN items : items[k] # <<>> => Triage!Inside(items[k][1])
  /\ triage = "PASS" => outside = 0
  /\ triage = "FINDING" => outside > 0
  /\ triage \in {"none", "PASS", "FINDING"}

LEMMA TriageInit == Triage!Init => Counted
BY DEF Triage!Init, Counted

LEMMA TriageSteps ==
  ASSUME Counted, [Triage!Next]_(Triage!vars)
  PROVE  Counted'
<1>1. CASE UNCHANGED Triage!vars
  BY <1>1 DEF Counted, Triage!vars, Triage!Inside
<1>2. ASSUME NEW item \in Triage!Items, Triage!Read(item) PROVE Counted'
  <2> DEFINE counts == item # <<>> /\ ~Triage!Inside(item[1])
  <2>1. /\ items' \in Seq(Triage!Items) /\ Len(items) \in Nat
        /\ DOMAIN items' = DOMAIN items \cup {Len(items) + 1}
        /\ items'[Len(items) + 1] = item
        /\ \A k \in DOMAIN items : items'[k] = items[k]
    BY <1>2, LenProperties DEF Triage!Read, Counted
  <2>2. /\ outside' = IF counts THEN outside + 1 ELSE outside
        /\ outside \in Nat /\ triage = "none" /\ triage' = triage
    BY <1>2 DEF Triage!Read, Counted
  <2>3. outside' \in Nat /\ (outside' = 0 <=> outside = 0 /\ ~counts)
    BY <2>2
  <2>4. (\A k \in DOMAIN items' : items'[k] # <<>> => Triage!Inside(items'[k][1])) <=>
          /\ \A k \in DOMAIN items : items[k] # <<>> => Triage!Inside(items[k][1])
          /\ ~counts
    BY <2>1
  <2>5. QED BY <2>1, <2>2, <2>3, <2>4 DEF Counted, Triage!Inside
<1>3. CASE Triage!Conclude
  BY <1>3 DEF Triage!Conclude, Counted, Triage!Inside
<1>4. QED BY <1>1, <1>2, <1>3 DEF Triage!Next

(* An item that begins within the margin and is no larger ends in the box. *)
LEMMA SmallStaysInside ==
  ASSUME NEW item \in Triage!Items, item # <<>>, Triage!Small(item), Triage!Inside(item[1])
  PROVE  Triage!InMacro(item)
<1>1. PICK b \in MACRO_BOXES :
        /\ b.x0 + PAD <= item[1].x /\ item[1].x <= b.x1 - PAD
        /\ b.y0 + PAD <= item[1].y /\ item[1].y <= b.y1 - PAD
  BY DEF Triage!Inside
<1>2. b.x0 \in Int /\ b.x1 \in Int /\ b.y0 \in Int /\ b.y1 \in Int /\ PAD \in Nat
  BY PlacesAreNumbers
<1>3. PICK p, q \in Triage!Points : item = <<p, q>>
  BY DEF Triage!Items
<1>4. p.x \in Int /\ p.y \in Int /\ q.x \in Int /\ q.y \in Int
  BY PlacesAreNumbers DEF Triage!Points
<1>5. DOMAIN item = {1, 2} /\ item[1] = p /\ item[2] = q
  BY <1>3
<1>6. /\ -PAD <= q.x - p.x /\ q.x - p.x <= PAD
      /\ -PAD <= q.y - p.y /\ q.y - p.y <= PAD
  <2>1. Triage!Abs(q.x - p.x) <= PAD /\ Triage!Abs(q.y - p.y) <= PAD
    BY <1>5 DEF Triage!Small
  <2>2. ASSUME NEW n \in Int, Triage!Abs(n) <= PAD PROVE -PAD <= n /\ n <= PAD
    BY <1>2, <2>2 DEF Triage!Abs
  <2>3. QED BY <1>4, <2>1, <2>2
<1>7. /\ b.x0 + PAD <= p.x /\ p.x <= b.x1 - PAD
      /\ b.y0 + PAD <= p.y /\ p.y <= b.y1 - PAD
  BY <1>1, <1>5
<1>8. /\ b.x0 <= p.x /\ p.x <= b.x1 /\ b.y0 <= p.y /\ p.y <= b.y1
      /\ b.x0 <= q.x /\ q.x <= b.x1 /\ b.y0 <= q.y /\ q.y <= b.y1
  <2>1. ASSUME NEW lo \in Int, NEW hi \in Int, NEW m \in Int, NEW n \in Int, NEW d \in Nat,
               lo + d <= m, m <= hi - d, -d <= n - m, n - m <= d
        PROVE  lo <= m /\ m <= hi /\ lo <= n /\ n <= hi
    BY <2>1
  <2>2. b.x0 <= p.x /\ p.x <= b.x1 /\ b.x0 <= q.x /\ q.x <= b.x1
    BY ONLY <1>2, <1>4, <1>6, <1>7, <2>1
  <2>3. b.y0 <= p.y /\ p.y <= b.y1 /\ b.y0 <= q.y /\ q.y <= b.y1
    BY ONLY <1>2, <1>4, <1>6, <1>7, <2>1
  <2>4. QED BY <2>2, <2>3
<1>9. QED BY <1>5, <1>8 DEF Triage!InMacro

LEMMA TriageEarned == Counted => Triage!TriageIsByPlace
<1> SUFFICES ASSUME Counted PROVE Triage!TriageIsByPlace
  OBVIOUS
<1>1. \A k \in DOMAIN items : items[k] \in Triage!Items
  BY DEF Counted
<1>2. ASSUME triage = "FINDING"
      PROVE  \E k \in DOMAIN items : items[k] # <<>> /\ ~Triage!Inside(items[k][1])
  BY <1>2 DEF Counted
<1>3. ASSUME NEW k \in DOMAIN items, items[k] # <<>>, NEW b \in MACRO_BOXES,
             \A j \in DOMAIN items[k] :
               /\ b.x0 + PAD <= items[k][j].x /\ items[k][j].x <= b.x1 - PAD
               /\ b.y0 + PAD <= items[k][j].y /\ items[k][j].y <= b.y1 - PAD
      PROVE  Triage!Inside(items[k][1])
  BY <1>1, <1>3 DEF Triage!Inside, Triage!Items
<1>4. ASSUME triage = "PASS", NEW k \in DOMAIN items, items[k] # <<>>, Triage!Small(items[k])
      PROVE  Triage!InMacro(items[k])
  BY <1>1, <1>4, SmallStaysInside DEF Counted
<1>5. QED BY <1>2, <1>3, <1>4 DEF Triage!TriageIsByPlace
-----------------------------------------------------------------------------
(* sdc-audit.py: the logs are those of the file that was written.          *)
Audited ==
  /\ sdc \in Seq(Audit!SetLines \cup Audit!CaseLines)
  /\ DOMAIN per_mode \subseteq MODES
  /\ audit = "writing" => DOMAIN per_mode = {}
  /\ audit = "report" => DOMAIN per_mode = MODES
  /\ \A m \in DOMAIN per_mode : per_mode[m] = Audit!Logged(Audit!Forced(m))
  /\ Audit!Settable => audit # "aborted"

LEMMA AuditInit == Audit!Init => Audited
BY DEF Audit!Init, Audited

(* A file with the assignment once, in its first line: the run of a mode   *)
(* has that mode's value there, every other line is left as it is, and     *)
(* every line is reached in the modes it is for.                           *)
LEMMA SettableIsForced ==
  ASSUME sdc \in Seq(Audit!SetLines \cup Audit!CaseLines), Audit!Settable, NEW m \in MODES
  PROVE  /\ ~Audit!Stops(Audit!Forced(m))
         /\ Audit!Reached(Audit!Forced(m)) = {k \in 2 .. Len(sdc) : m \in sdc[k].when}
         /\ \A k \in 2 .. Len(sdc) : Audit!Forced(m)[k] = sdc[k]
<1> DEFINE script == Audit!Forced(m)
<1>1. /\ Len(sdc) \in Nat /\ DOMAIN sdc = 1 .. Len(sdc) /\ 1 \in DOMAIN sdc
      /\ \A k \in DOMAIN sdc : sdc[k] \in Audit!SetLines \cup Audit!CaseLines
  BY LenProperties DEF Audit!Settable
<1>2. \A k \in DOMAIN sdc : sdc[k].kind = "set" /\ ~sdc[k].indented <=> k = 1
  BY <1>1 DEF Audit!Settable
<1>3. /\ DOMAIN script = DOMAIN sdc
      /\ script[1] = [sdc[1] EXCEPT !.value = m]
      /\ \A k \in 2 .. Len(sdc) : script[k] = sdc[k]
  BY <1>1, <1>2 DEF Audit!Forced
<1>4. script[1].kind = "set" /\ script[1].value = m
  <2>1. sdc[1] \in Audit!SetLines
    BY <1>1 DEF Audit!Settable, Audit!CaseLines
  <2>2. QED BY <1>3, <2>1 DEF Audit!SetLines
<1>5. \A k \in 2 .. Len(sdc) : /\ script[k].kind = "case"
                               /\ sdc[k].when \subseteq MODES
  <2>1. \A k \in 2 .. Len(sdc) : sdc[k] \in Audit!CaseLines
    BY <1>1 DEF Audit!Settable, Audit!SetLines
  <2>2. QED BY <1>3, <2>1 DEF Audit!Settable, Audit!CaseLines
<1>6. ASSUME NEW k \in 2 .. Len(sdc) PROVE Audit!Latest(script, k) = {m}
  <2>1. \A i \in 1 .. k - 1 : script[i].kind = "set" <=> i = 1
    BY <1>1, <1>4, <1>5
  <2>2. \A h \in 2 .. k - 1 : script[h].kind # "set"
    BY <1>1, <1>5
  <2>3. QED BY <1>1, <1>4, <2>1, <2>2 DEF Audit!Latest
<1>7. DOMAIN script = {1} \cup 2 .. Len(sdc)
  BY <1>1, <1>3
<1>8. ~Audit!Stops(script)
  <2>1. ASSUME NEW k \in DOMAIN script, script[k].kind = "case"
        PROVE  Audit!Latest(script, k) # {}
    <3>1. k \in 2 .. Len(sdc)
      BY <1>4, <1>7, <2>1
    <3>2. QED BY <1>6, <3>1
  <2>2. QED BY <2>1 DEF Audit!Stops
<1>9. ASSUME NEW k \in 2 .. Len(sdc)
      PROVE  k \in Audit!Reached(script) <=> m \in sdc[k].when
  <2>1. /\ k \in DOMAIN script /\ script[k].kind = "case" /\ script[k].when = sdc[k].when
        /\ Audit!Latest(script, k) = {m}
    BY <1>3, <1>5, <1>6, <1>7
  <2>2. QED BY <2>1 DEF Audit!Reached
<1>10. Audit!Reached(script) \subseteq 2 .. Len(sdc)
  BY <1>4, <1>7 DEF Audit!Reached
<1>11. QED BY <1>3, <1>8, <1>9, <1>10

LEMMA AuditSteps ==
  ASSUME Audited, [Audit!Next]_(Audit!vars)
  PROVE  Audited'
<1>1. ASSUME UNCHANGED sdc
      PROVE  /\ Audit!Settable' <=> Audit!Settable
             /\ \A m : (Audit!Logged(Audit!Forced(m)))' = Audit!Logged(Audit!Forced(m))
  BY <1>1 DEF Audit!Settable, Audit!Logged, Audit!Forced, Audit!Reached, Audit!Latest
<1>2. ASSUME NEW line \in Audit!SetLines \cup Audit!CaseLines, Audit!Write(line) PROVE Audited'
  BY <1>2 DEF Audit!Write, Audited
<1>3. CASE UNCHANGED Audit!vars
  BY <1>1, <1>3 DEF Audited, Audit!vars
<1>4. CASE Audit!Main \/ Audit!Finish
  BY <1>1, <1>4 DEF Audit!Main, Audit!Finish, Audited
<1>5. ASSUME NEW m \in MODES, Audit!Elaborate(m) PROVE Audited'
  <2>1. CASE Audit!Stops(Audit!Forced(m))
    <3>1. ~Audit!Settable
      BY <2>1, SettableIsForced DEF Audited
    <3>2. QED BY <1>1, <1>5, <2>1, <3>1 DEF Audit!Elaborate, Audited
  <2>2. CASE ~Audit!Stops(Audit!Forced(m))
    BY <1>1, <1>5, <2>2 DEF Audit!Elaborate, Audited
  <2>3. QED BY <2>1, <2>2
<1>6. QED BY <1>2, <1>3, <1>4, <1>5 DEF Audit!Next

(* What the dictionary has for a target is what the mode ties its pins to. *)
LEMMA PinnedIsTied ==
  ASSUME sdc \in Seq(Audit!SetLines \cup Audit!CaseLines), Audit!Settable, Audit!SpelledAlike,
         NEW m \in MODES, per_mode[m] = Audit!Logged(Audit!Forced(m)),
         NEW j \in 2 .. Len(sdc), NEW p \in sdc[j].target
  PROVE  /\ Audit!Pinned(sdc[j].target, m) = Audit!Tied(p, m)
         /\ Audit!Tied(p, m) \subseteq {0, 1}
         /\ \A v, w \in Audit!Tied(p, m) : v = w
<1> DEFINE mine == {k \in 2 .. Len(sdc) : p \in sdc[k].target /\ m \in sdc[k].when}
           last == {k \in mine : \A i \in mine : i <= k}
           t == sdc[j].target
<1>1. /\ DOMAIN per_mode[m] = {k \in 2 .. Len(sdc) : m \in sdc[k].when}
      /\ \A k \in DOMAIN per_mode[m] : per_mode[m][k] = sdc[k]
  BY SettableIsForced DEF Audit!Logged
<1>2. \A k \in 2 .. Len(sdc) : sdc[k].target = t <=> p \in sdc[k].target
  BY DEF Audit!SpelledAlike
<1>3. Len(sdc) \in Nat /\ \A k \in 2 .. Len(sdc) : k \in Int
  BY LenProperties
<1>4. {i \in DOMAIN per_mode[m] :
         /\ per_mode[m][i].target = t
         /\ \A h \in DOMAIN per_mode[m] : h > i => per_mode[m][h].target # t} = last
  BY <1>1, <1>2, <1>3
<1>5. Audit!Tied(p, m) = {sdc[k].value : k \in last}
  BY DEF Audit!Tied
<1>6. Audit!Pinned(t, m) = Audit!Tied(p, m)
  BY <1>1, <1>4, <1>5 DEF Audit!Pinned
<1>7. \A k \in 2 .. Len(sdc) : sdc[k].value \in {0, 1}
  <2>1. \A k \in 2 .. Len(sdc) : sdc[k] \in Audit!SetLines \cup Audit!CaseLines
    BY <1>3
  <2>2. QED BY <2>1 DEF Audit!Settable, Audit!SetLines, Audit!CaseLines
<1>8. \A h, k \in last : h = k
  BY <1>3
<1>9. QED BY <1>5, <1>6, <1>7, <1>8

LEMMA SameCardinality ==
  ASSUME NEW S
  PROVE  Audit!Cardinality(S) = Cardinality(S)
BY DEF Audit!Cardinality, Cardinality

LEMMA MoreThanOne ==
  ASSUME NEW S \in SUBSET {0, 1}
  PROVE  Cardinality(S) > 1 <=> S = {0, 1}
<1>1. Cardinality({0, 1}) = 2
  <2>1. {0, 1} = {0} \cup {1} /\ 1 \notin {0}
    OBVIOUS
  <2>2. IsFiniteSet({0}) /\ Cardinality({0}) = 1
    BY FS_Singleton
  <2>3. QED BY <2>1, <2>2, FS_AddElement
<1>2. Cardinality({}) = 0 /\ Cardinality({0}) = 1 /\ Cardinality({1}) = 1
  BY FS_Singleton, FS_EmptySet
<1>3. CASE S = {}
  BY <1>2, <1>3
<1>4. CASE S = {0}
  BY <1>2, <1>4
<1>5. CASE S = {1}
  BY <1>2, <1>5
<1>6. CASE S = {0, 1}
  BY <1>1, <1>6
<1>7. QED BY <1>3, <1>4, <1>5, <1>6

(* sdc-audit.py: for any pins, modes and file, when the file assigns the   *)
(* mode once, first, and names pins in one way, the audit finishes and     *)
(* lists exactly the pins that two modes tie differently or one leaves     *)
(* free.                                                                   *)
THEOREM ConflictsListed == Spec => []ConflictsAreReported
<1>1. ASSUME Audited PROVE Audit!ConflictsAreReported
  <2>1. SUFFICES ASSUME Audit!Settable, audit = "report", Audit!SpelledAlike,
                        NEW t \in {sdc[k].target : k \in 2 .. Len(sdc)}, NEW p \in t
                 PROVE  /\ t \in Audit!Conflicts <=>
                             \E m, n \in MODES : \E v \in Audit!Tied(p, m) : Audit!Tied(p, n) = {1 - v}
                        /\ t \in Audit!Partial <=> \E m \in MODES : Audit!Tied(p, m) = {}
    <3>1. Audit!Settable => audit # "aborted"
      BY <1>1 DEF Audited
    <3>2. QED BY <3>1, Zenon DEF Audit!ConflictsAreReported
  <2> DEFINE all == UNION {Audit!Pinned(t, m) : m \in MODES}
  <2>2. PICK j \in 2 .. Len(sdc) : t = sdc[j].target
    OBVIOUS
  <2>3. /\ sdc \in Seq(Audit!SetLines \cup Audit!CaseLines) /\ DOMAIN per_mode = MODES
        /\ \A m \in MODES : per_mode[m] = Audit!Logged(Audit!Forced(m))
    BY <1>1, <2>1 DEF Audited
  <2>4. \A m \in MODES : /\ Audit!Pinned(t, m) = Audit!Tied(p, m)
                         /\ Audit!Tied(p, m) \subseteq {0, 1}
                         /\ \A v, w \in Audit!Tied(p, m) : v = w
    BY <2>2, <2>1, <2>3, PinnedIsTied
  <2>5. t \in Audit!Targets
    <3>1. sdc[j] \in Audit!CaseLines
      BY <2>1, <2>3, LenProperties DEF Audit!Settable, Audit!SetLines
    <3>2. PICK m \in MODES : m \in sdc[j].when
      BY <3>1 DEF Audit!CaseLines
    <3>3. j \in DOMAIN per_mode[m] /\ per_mode[m][j] = sdc[j]
      BY <2>1, <2>3, <3>2, SettableIsForced DEF Audit!Logged
    <3>4. QED BY <2>2, <3>3 DEF Audit!Targets
  <2>6. all \subseteq {0, 1}
    BY <2>4
  <2>7. t \in Audit!Conflicts <=> all = {0, 1}
    <3>1. Cardinality(all) > 1 <=> all = {0, 1}
      BY <2>6, MoreThanOne
    <3>2. t \in Audit!Conflicts <=> Cardinality(all) > 1
      BY <2>5, SameCardinality DEF Audit!Conflicts
    <3>3. QED BY <3>1, <3>2
  <2>8. ASSUME all = {0, 1}
        PROVE  \E m, n \in MODES : \E v \in Audit!Tied(p, m) : Audit!Tied(p, n) = {1 - v}
    <3>1. PICK m \in MODES : 0 \in Audit!Tied(p, m)
      BY <2>4, <2>8
    <3>2. PICK n \in MODES : 1 \in Audit!Tied(p, n)
      BY <2>4, <2>8
    <3>3. Audit!Tied(p, n) = {1 - 0}
      BY <2>4, <3>2
    <3>4. QED BY <3>1, <3>3
  <2>9. ASSUME NEW m \in MODES, NEW n \in MODES, NEW v \in Audit!Tied(p, m),
               Audit!Tied(p, n) = {1 - v}
        PROVE  all = {0, 1}
    <3>1. v \in all /\ 1 - v \in all /\ v \in {0, 1}
      BY <2>4, <2>9
    <3>2. QED BY <2>6, <3>1
  <2>10. t \in Audit!Partial <=> \E m \in MODES : Audit!Tied(p, m) = {}
    BY <2>4, <2>5 DEF Audit!Partial
  <2>11. QED BY <2>7, <2>8, <2>9, <2>10
<1>2. QED BY <1>1, Runs, AuditInit, AuditSteps, PTL DEF ConflictsAreReported
-----------------------------------------------------------------------------
(* irqmap.py: the dictionaries hold statements, and something of each.     *)
Statements ==
  ({"sample"} \X Regs \X LineIds) \cup ({"flop"} \X Regs \X Regs)
    \cup ({"status"} \X LineIds \X Regs) \cup ({"bit"} \X LineIds \X LineIds)
Entries == [reg : Regs, line : LineIds]
Sampled ==
  /\ stage0 \in Seq(Entries)
  /\ \A j, k \in DOMAIN stage0 : stage0[j].reg = stage0[k].reg => j = k
  /\ \A k \in DOMAIN stage0 : <<"sample", stage0[k].reg, stage0[k].line>> \in rtl
  /\ \A x \in Regs, n \in LineIds :
       <<"sample", x, n>> \in rtl => \E k \in DOMAIN stage0 : stage0[k].reg = x
Fed ==
  /\ \A x \in DOMAIN stage1 : x \in Regs /\ stage1[x] \in Regs /\ <<"flop", stage1[x], x>> \in rtl
  /\ \A x, y \in Regs : <<"flop", y, x>> \in rtl => x \in DOMAIN stage1
Sinks ==
  /\ \A y \in DOMAIN sink : y \in Regs /\ sink[y] \in LineIds /\ <<"status", sink[y], y>> \in rtl
  /\ \A y \in Regs, k \in LineIds : <<"status", k, y>> \in rtl => y \in DOMAIN sink
Driven == \A i \in DOMAIN bits : <<"bit", i, bits[i]>> \in rtl
RtlRead == rtl \subseteq Statements /\ Sampled /\ Fed /\ Sinks /\ Driven

LEMMA IrqInit == Irq!Init => RtlRead
BY DEF Irq!Init, Irq!Nothing, RtlRead, Sampled, Fed, Sinks, Driven

LEMMA SampleStep ==
  ASSUME RtlRead, NEW r \in Regs, NEW n \in LineIds, Irq!Sample(r, n)
  PROVE  RtlRead'
<1> DEFINE entry == [reg |-> r, line |-> n]
           met == {k \in DOMAIN stage0 : stage0[k].reg = r}
<1>1. /\ rtl' = rtl \cup {<<"sample", r, n>>} /\ rtl' \subseteq Statements
      /\ UNCHANGED <<stage1, sink, bits>>
  BY DEF Irq!Sample, Irq!Statement, RtlRead, Statements
<1>2. Fed' /\ Sinks' /\ Driven'
  BY <1>1 DEF RtlRead, Fed, Sinks, Driven
<1>3. /\ stage0 \in Seq(Entries) /\ Len(stage0) \in Nat
      /\ DOMAIN stage0 = 1 .. Len(stage0)
      /\ \A k \in DOMAIN stage0 : /\ stage0[k] \in Entries
                                  /\ <<"sample", stage0[k].reg, stage0[k].line>> \in rtl
      /\ entry \in Entries /\ entry.reg = r /\ entry.line = n
  <2>1. stage0 \in Seq(Entries)
    BY DEF RtlRead, Sampled
  <2>2. /\ Len(stage0) \in Nat /\ DOMAIN stage0 = 1 .. Len(stage0)
        /\ \A k \in DOMAIN stage0 : stage0[k] \in Entries
    BY <2>1, LenProperties, ElementOfSeq
  <2>3. QED BY <2>1, <2>2 DEF RtlRead, Sampled, Entries
<1>4. CASE met = {}
  <2>1. stage0' = Append(stage0, entry)
    BY <1>4 DEF Irq!Sample
  <2>2. /\ stage0' \in Seq(Entries)
        /\ DOMAIN stage0' = DOMAIN stage0 \cup {Len(stage0) + 1}
        /\ stage0'[Len(stage0) + 1] = entry
        /\ \A k \in DOMAIN stage0 : stage0'[k] = stage0[k]
    BY <1>3, <2>1
  <2>3. \A j, k \in DOMAIN stage0' : stage0'[j].reg = stage0'[k].reg => j = k
    BY <1>3, <1>4, <2>2 DEF RtlRead, Sampled
  <2>4. \A k \in DOMAIN stage0' : <<"sample", stage0'[k].reg, stage0'[k].line>> \in rtl'
    BY <1>1, <1>3, <2>2
  <2>5. \A x \in Regs, l \in LineIds :
          <<"sample", x, l>> \in rtl' => \E k \in DOMAIN stage0' : stage0'[k].reg = x
    BY <1>1, <1>3, <2>2 DEF RtlRead, Sampled
  <2>6. QED BY <1>1, <1>2, <2>2, <2>3, <2>4, <2>5 DEF RtlRead, Sampled
<1>5. CASE met # {}
  <2>1. stage0' = [k \in DOMAIN stage0 |-> IF k \in met THEN entry ELSE stage0[k]]
    BY <1>5 DEF Irq!Sample
  <2>2. /\ DOMAIN stage0' = DOMAIN stage0
        /\ \A k \in DOMAIN stage0 : /\ stage0'[k] \in Entries
                                    /\ stage0'[k].reg = stage0[k].reg
    BY <1>3, <2>1
  <2>3. stage0' \in Seq(Entries)
    BY <1>3, <2>1, <2>2, IsASeq
  <2>4. \A k \in DOMAIN stage0' : <<"sample", stage0'[k].reg, stage0'[k].line>> \in rtl'
    BY <1>1, <1>3, <2>1
  <2>5. \A j, k \in DOMAIN stage0' : stage0'[j].reg = stage0'[k].reg => j = k
    BY <2>2 DEF RtlRead, Sampled
  <2>6. \A x \in Regs, l \in LineIds :
          <<"sample", x, l>> \in rtl' => \E k \in DOMAIN stage0' : stage0'[k].reg = x
    BY <1>1, <1>5, <2>2 DEF RtlRead, Sampled
  <2>7. QED BY <1>1, <1>2, <2>3, <2>4, <2>5, <2>6 DEF RtlRead, Sampled
<1>6. QED BY <1>4, <1>5

LEMMA IrqSteps ==
  ASSUME RtlRead, [Irq!Next]_(Irq!vars)
  PROVE  RtlRead'
<1>1. CASE UNCHANGED Irq!vars
  BY <1>1 DEF RtlRead, Sampled, Fed, Sinks, Driven, Irq!vars
<1>2. ASSUME NEW r \in Regs, NEW n \in LineIds, Irq!Status(n, r) PROVE RtlRead'
  <2>1. /\ rtl' = rtl \cup {<<"status", n, r>>} /\ sink' = Irq!Put(sink, r, n)
        /\ UNCHANGED <<stage0, stage1, bits>>
    BY <1>2 DEF Irq!Status, Irq!Statement
  <2>2. rtl' \subseteq Statements
    BY <2>1 DEF RtlRead, Statements
  <2>3. Sampled'
    BY <2>1 DEF RtlRead, Sampled
  <2>4. Fed' /\ Driven'
    BY <2>1 DEF RtlRead, Fed, Driven
  <2>5. Sinks'
    <3>1. /\ DOMAIN sink' = DOMAIN sink \cup {r} /\ sink'[r] = n
          /\ \A y \in DOMAIN sink : y # r => sink'[y] = sink[y]
      BY <2>1 DEF Irq!Put
    <3>2. ASSUME NEW y \in DOMAIN sink'
          PROVE  y \in Regs /\ sink'[y] \in LineIds /\ <<"status", sink'[y], y>> \in rtl'
      BY <2>1, <3>1 DEF RtlRead, Sinks
    <3>3. ASSUME NEW y \in Regs, NEW k \in LineIds, <<"status", k, y>> \in rtl'
          PROVE  y \in DOMAIN sink'
      BY <2>1, <3>1, <3>3 DEF RtlRead, Sinks
    <3>4. QED BY <3>2, <3>3 DEF Sinks
  <2>6. QED BY <2>2, <2>3, <2>4, <2>5 DEF RtlRead
<1>3. ASSUME NEW x \in Regs, NEW y \in Regs, Irq!Flop(y, x) PROVE RtlRead'
  <2>1. /\ rtl' = rtl \cup {<<"flop", y, x>>} /\ stage1' = Irq!Put(stage1, x, y)
        /\ UNCHANGED <<stage0, sink, bits>>
    BY <1>3 DEF Irq!Flop, Irq!Statement
  <2>2. rtl' \subseteq Statements
    BY <2>1 DEF RtlRead, Statements
  <2>3. Sampled'
    BY <2>1 DEF RtlRead, Sampled
  <2>4. Sinks' /\ Driven'
    BY <2>1 DEF RtlRead, Sinks, Driven
  <2>5. Fed'
    <3>1. /\ DOMAIN stage1' = DOMAIN stage1 \cup {x} /\ stage1'[x] = y
          /\ \A u \in DOMAIN stage1 : u # x => stage1'[u] = stage1[u]
      BY <2>1 DEF Irq!Put
    <3>2. ASSUME NEW u \in DOMAIN stage1'
          PROVE  u \in Regs /\ stage1'[u] \in Regs /\ <<"flop", stage1'[u], u>> \in rtl'
      BY <2>1, <3>1 DEF RtlRead, Fed
    <3>3. ASSUME NEW u \in Regs, NEW v \in Regs, <<"flop", v, u>> \in rtl'
          PROVE  u \in DOMAIN stage1'
      BY <2>1, <3>1, <3>3 DEF RtlRead, Fed
    <3>4. QED BY <3>2, <3>3 DEF Fed
  <2>6. QED BY <2>2, <2>3, <2>4, <2>5 DEF RtlRead
<1>4. ASSUME NEW i \in LineIds, NEW k \in LineIds, Irq!ArrayBit(i, k) PROVE RtlRead'
  <2>1. /\ rtl' = rtl \cup {<<"bit", i, k>>} /\ bits' = Irq!Put(bits, i, k)
        /\ UNCHANGED <<stage0, stage1, sink>>
    BY <1>4 DEF Irq!ArrayBit, Irq!Statement
  <2>2. rtl' \subseteq Statements
    BY <2>1 DEF RtlRead, Statements
  <2>3. Sampled'
    BY <2>1 DEF RtlRead, Sampled
  <2>4. Sinks' /\ Fed'
    BY <2>1 DEF RtlRead, Sinks, Fed
  <2>5. Driven'
    <3>1. /\ DOMAIN bits' = DOMAIN bits \cup {i} /\ bits'[i] = k
          /\ \A j \in DOMAIN bits : j # i => bits'[j] = bits[j]
      BY <2>1 DEF Irq!Put
    <3>2. QED BY <2>1, <3>1 DEF RtlRead, Driven
  <2>6. QED BY <2>2, <2>3, <2>4, <2>5 DEF RtlRead
<1>5. QED BY <1>1, <1>2, <1>3, <1>4, SampleStep DEF Irq!Next

(* What is found behind an entry is behind it in the RTL.                  *)
LEMMA FoundInRtl ==
  ASSUME RtlRead, ~Irq!Aborts, NEW j \in DOMAIN stage0
  PROVE  LET x == stage0[j].reg
             y == stage1[x]
         IN  /\ x \in Regs /\ y \in Regs /\ stage0[j].line \in LineIds
             /\ {<<"sample", x, stage0[j].line>>, <<"flop", y, x>>} \subseteq rtl
             /\ \A k \in Irq!Sunk(j) : k \in LineIds /\ <<"status", k, y>> \in rtl
<1>1. stage0[j] \in Entries
  BY ElementOfSeq, LenProperties DEF RtlRead, Sampled
<1>2. stage0[j].reg \in DOMAIN stage1
  BY DEF Irq!Aborts
<1>3. QED BY <1>1, <1>2 DEF RtlRead, Sampled, Entries, Fed, Sinks, Irq!Sunk

(* irqmap.py: for any RTL that drives a register once, the chains reported *)
(* go through two flops, are all there are when nothing is read twice, and *)
(* with the documented bits and numbers mean the documented lines.         *)
THEOREM ChainsReal == Spec => []ChainsAreTheRtls
<1>1. ASSUME RtlRead, ~Irq!Aborts, Irq!SingleDriver, NEW c \in Irq!Chains
      PROVE  Irq!TwoFlops(c[1], c[2])
  <2>1. PICK j \in DOMAIN stage0 : c \in {stage0[j].line} \X Irq!Sunk(j)
    BY <1>1 DEF Irq!Chains
  <2>2. c[1] = stage0[j].line /\ c[2] \in Irq!Sunk(j)
    BY <2>1
  <2>3. /\ <<"sample", stage0[j].reg, c[1]>> \in rtl
        /\ <<"flop", stage1[stage0[j].reg], stage0[j].reg>> \in rtl
        /\ <<"status", c[2], stage1[stage0[j].reg]>> \in rtl
        /\ stage0[j].reg \in Regs /\ stage1[stage0[j].reg] \in Regs
    BY <1>1, <2>2, FoundInRtl
  <2>4. QED BY <2>3 DEF Irq!TwoFlops
<1>2. ASSUME RtlRead, ~Irq!Aborts, Irq!SingleDriver, Irq!SingleReader,
             NEW n \in LineIds, NEW k \in LineIds, Irq!TwoFlops(n, k)
      PROVE  <<n, k>> \in Irq!Chains
  <2>1. PICK x \in Regs, y \in Regs :
          {<<"sample", x, n>>, <<"flop", y, x>>, <<"status", k, y>>} \subseteq rtl
    BY <1>2 DEF Irq!TwoFlops
  <2>2. ASSUME NEW m \in LineIds, <<"sample", x, m>> \in rtl PROVE m = n
    BY <1>2, <2>1, <2>2 DEF Irq!SingleDriver, Irq!Target
  <2>3. ASSUME NEW z, <<"flop", z, x>> \in rtl PROVE z = y
    BY <1>2, <2>1, <2>3 DEF Irq!SingleReader
  <2>4. ASSUME NEW l, <<"status", l, y>> \in rtl PROVE l = k
    BY <1>2, <2>1, <2>4 DEF Irq!SingleReader
  <2>5. ASSUME NEW z, <<"sample", z, n>> \in rtl PROVE z = x
    BY <1>2, <2>1, <2>5 DEF Irq!SingleReader
  <2>6. PICK j \in DOMAIN stage0 : stage0[j].reg = x
    BY <1>2, <2>1 DEF RtlRead, Sampled
  <2>7. stage0[j].line = n /\ stage1[x] = y
    BY <1>2, <2>2, <2>3, <2>6, FoundInRtl
  <2>8. Irq!Sunk(j) = {k}
    BY <1>2, <2>1, <2>4, <2>6, <2>7 DEF RtlRead, Sinks, Irq!Sunk
  <2>9. ASSUME NEW i \in DOMAIN stage0, stage0[i].line = n PROVE i = j
    <3>1. stage0[i].reg = x
      BY <1>2, <2>5, <2>9 DEF RtlRead, Sampled
    <3>2. QED BY <1>2, <2>6, <3>1 DEF RtlRead, Sampled
  <2>10. j \in Nat
    BY <1>2, LenProperties DEF RtlRead, Sampled
  <2>11. QED BY <2>7, <2>8, <2>9, <2>10 DEF Irq!Chains
<1>3. ASSUME RtlRead, ~Irq!Aborts, Irq!SingleDriver, Irq!DocsAgree,
             NEW i \in DOMAIN DocTable, <<DocTable[i], DocTable[i]>> \in Irq!Chains
      PROVE  <<"bit", i, DocTable[i]>> \in rtl /\ Irq!TwoFlops(DocTable[i], DocTable[i])
  <2>1. Irq!TwoFlops(DocTable[i], DocTable[i])
    BY <1>1, <1>3
  <2>2. QED BY <1>3, <2>1 DEF RtlRead, Driven, Irq!DocsAgree
<1>4. RtlRead => ChainsAreTheRtls
  BY <1>1, <1>2, <1>3 DEF ChainsAreTheRtls, Irq!ChainsAreTheRtls
<1>5. QED BY <1>4, Runs, IrqInit, IrqSteps, PTL
-----------------------------------------------------------------------------
(* check-l7.py: a name of the dictionary is that of a node with its region.*)
TreeRead ==
  /\ nodes \in Seq(Tree!Node) /\ regmaps \subseteq MapBases
  /\ IsFiniteSet(DOMAIN regions)
  /\ \A k \in DOMAIN nodes : nodes[k].name \in DOMAIN regions
  /\ \A n \in DOMAIN regions : \E k \in DOMAIN nodes : nodes[k] = [name |-> n, region |-> regions[n]]
Compared ==
  memmap # "none" =>
    \E order \in Tree!SortedNames :
      memmap = IF DOMAIN regions = {} \/ Tree!Mismatched # {} \/ Tree!Overlaps(order) # {}
               THEN "FAIL" ELSE "PASS"

LEMMA TreeInit == Tree!Init => TreeRead /\ Compared
BY FS_EmptySet DEF Tree!Init, TreeRead, Compared

LEMMA TreeSteps ==
  ASSUME TreeRead, Compared, [Tree!Next]_(Tree!vars)
  PROVE  TreeRead' /\ Compared'
<1>1. ASSUME UNCHANGED <<nodes, regions, regmaps>> PROVE TreeRead'
  BY <1>1 DEF TreeRead
<1>2. CASE UNCHANGED Tree!vars
  <2>1. Compared'
    BY <1>2 DEF Compared, Tree!vars, Tree!SortedNames, Tree!Precedes, Tree!Mismatched,
                Tree!Overlaps, Tree!Inside
  <2>2. QED BY <1>1, <1>2, <2>1 DEF Tree!vars
<1>3. ASSUME NEW node \in Tree!Node, Tree!ParseNode(node) PROVE TreeRead' /\ Compared'
  <2>1. Compared'
    BY <1>3 DEF Tree!ParseNode, Compared
  <2>2. /\ nodes \in Seq(Tree!Node) /\ nodes' = Append(nodes, node) /\ Len(nodes) \in Nat
        /\ DOMAIN nodes = 1 .. Len(nodes)
    BY <1>3, LenProperties DEF Tree!ParseNode, TreeRead
  <2>3. /\ nodes' \in Seq(Tree!Node) /\ DOMAIN nodes' = DOMAIN nodes \cup {Len(nodes) + 1}
        /\ nodes'[Len(nodes) + 1] = node /\ \A k \in DOMAIN nodes : nodes'[k] = nodes[k]
    BY <2>2
  <2>4. /\ DOMAIN regions' = DOMAIN regions \cup {node.name}
        /\ regions'[node.name] = node.region
        /\ \A n \in DOMAIN regions : n # node.name => regions'[n] = regions[n]
        /\ regmaps' = regmaps
    BY <1>3 DEF Tree!ParseNode
  <2>5. node = [name |-> node.name, region |-> node.region]
    BY DEF Tree!Node
  <2>6. IsFiniteSet(DOMAIN regions')
    BY <2>4, FS_AddElement DEF TreeRead
  <2>7. \A k \in DOMAIN nodes' : nodes'[k].name \in DOMAIN regions'
    BY <2>3, <2>4 DEF TreeRead
  <2>8. ASSUME NEW n \in DOMAIN regions'
        PROVE  \E k \in DOMAIN nodes' : nodes'[k] = [name |-> n, region |-> regions'[n]]
    <3>1. CASE n = node.name
      BY <2>3, <2>4, <2>5, <3>1
    <3>2. CASE n # node.name
      BY <2>3, <2>4, <3>2 DEF TreeRead
    <3>3. QED BY <3>1, <3>2
  <2>9. QED BY <2>1, <2>3, <2>4, <2>6, <2>7, <2>8 DEF TreeRead
<1>4. CASE Tree!Compare
  <2>1. UNCHANGED <<nodes, regions, regmaps>>
    BY <1>4 DEF Tree!Compare
  <2>2. PICK order \in Tree!SortedNames :
          memmap' = IF DOMAIN regions = {} \/ Tree!Mismatched # {} \/ Tree!Overlaps(order) # {}
                    THEN "FAIL" ELSE "PASS"
    BY <1>4 DEF Tree!Compare
  <2>3. /\ Tree!SortedNames' = Tree!SortedNames /\ Tree!Mismatched' = Tree!Mismatched
        /\ Tree!Overlaps(order)' = Tree!Overlaps(order)
    BY <2>1 DEF Tree!SortedNames, Tree!Precedes, Tree!Mismatched, Tree!Overlaps, Tree!Inside
  <2>4. Compared'
    BY <2>1, <2>2, <2>3 DEF Compared
  <2>5. QED BY <1>1, <2>1, <2>4
<1>5. QED BY <1>2, <1>3, <1>4 DEF Tree!Next

LEMMA RegionsAreNumbers ==
  ASSUME TreeRead, NEW n \in DOMAIN regions
  PROVE  regions[n].base \in Int /\ regions[n].size \in Nat
<1>1. PICK k \in DOMAIN nodes : nodes[k] = [name |-> n, region |-> regions[n]]
  BY DEF TreeRead
<1>2. nodes[k] \in Tree!Node
  BY ElementOfSeq, LenProperties DEF TreeRead
<1>3. regions[n] \in Tree!Region
  BY <1>1, <1>2 DEF Tree!Node
<1>4. QED BY <1>3, AddressesAreNumbers DEF Tree!Region

(* Of spans in the order of their bases, those that do not reach into the  *)
(* next reach into none: the comparison of neighbours is enough.           *)
LEMMA NeighboursAreEnough ==
  ASSUME TreeRead, NEW order \in Tree!SortedNames
  PROVE  Tree!Overlaps(order) = {} <=>
           \A m, n \in DOMAIN regions : m # n => Tree!Disjoint(regions[m], regions[n])
<1> DEFINE N == Cardinality(DOMAIN regions)
<1>1. /\ IsFiniteSet(DOMAIN regions) /\ N \in Nat
      /\ \A S : Tree!Cardinality(S) = Cardinality(S)
  BY FS_CardinalityType DEF TreeRead, Tree!Cardinality, Cardinality
<1>2. /\ order \in [1 .. N -> DOMAIN regions]
      /\ \A n \in DOMAIN regions : \E k \in 1 .. N : order[k] = n
      /\ \A j, k \in 1 .. N : j < k => ~Tree!Precedes(order[k], order[j])
  BY <1>1 DEF Tree!SortedNames
<1>3. \A j, k \in 1 .. N : order[j] = order[k] => j = k
  <2>1. IsFiniteSet(1 .. N) /\ Cardinality(1 .. N) = N
    BY <1>1, FS_Interval
  <2>2. order \in Surjection(1 .. N, DOMAIN regions)
    BY <1>2 DEF Surjection
  <2>3. order \in Injection(1 .. N, DOMAIN regions)
    BY <1>1, <2>1, <2>2, FS_SurjSameCardinalityImpliesInj
  <2>4. QED BY <2>3 DEF Injection, IsInjective
<1>4. Len(order) = N
  BY <1>1, <1>2
<1>5. \A n \in DOMAIN regions : regions[n].base \in Int /\ regions[n].size \in Nat
  BY RegionsAreNumbers
<1>6. ASSUME NEW j \in 1 .. N, NEW k \in 1 .. N, j < k
      PROVE  /\ regions[order[j]].base <= regions[order[k]].base
             /\ regions[order[j]].base = regions[order[k]].base =>
                  regions[order[j]].size <= regions[order[k]].size
  <2>1. ~Tree!Precedes(order[k], order[j]) /\ order[j] \in DOMAIN regions /\ order[k] \in DOMAIN regions
    BY <1>2, <1>6
  <2>2. QED BY <1>5, <2>1 DEF Tree!Precedes
<1>7. Tree!Overlaps(order) = {} <=>
        \A k \in 1 .. N - 1 :
          regions[order[k]].base + regions[order[k]].size <= regions[order[k + 1]].base
  <2>1. \A k \in 1 .. N - 1 : order[k] \in DOMAIN regions /\ order[k + 1] \in DOMAIN regions
    BY <1>1, <1>2
  <2>2. \A k \in 1 .. N - 1 :
          (regions[order[k]].base + regions[order[k]].size <= regions[order[k + 1]].base) <=>
            ~(regions[order[k]].base + regions[order[k]].size > regions[order[k + 1]].base)
    BY <1>5, <2>1
  <2>3. ASSUME NEW k \in 1 .. N - 1, Tree!Overlaps(order) = {}
        PROVE  ~(regions[order[k]].base + regions[order[k]].size > regions[order[k + 1]].base)
    <3>1. <<order[k], order[k + 1]>> \in Tree!Neighbours(order)
      BY <1>4, <2>3 DEF Tree!Neighbours
    <3>2. QED BY <2>3, <3>1 DEF Tree!Overlaps
  <2>4. ASSUME Tree!Overlaps(order) # {}
        PROVE  \E k \in 1 .. N - 1 :
                 regions[order[k]].base + regions[order[k]].size > regions[order[k + 1]].base
    BY <1>4, <2>4 DEF Tree!Overlaps, Tree!Neighbours
  <2>5. QED BY <2>2, <2>3, <2>4
<1>8. ASSUME Tree!Overlaps(order) = {}, NEW m \in DOMAIN regions, NEW n \in DOMAIN regions, m # n
      PROVE  Tree!Disjoint(regions[m], regions[n])
  <2>1. ASSUME NEW j \in 1 .. N, NEW k \in 1 .. N, j < k
        PROVE  regions[order[j]].base + regions[order[j]].size <= regions[order[k]].base
    <3>1. j \in 1 .. N - 1 /\ j + 1 \in 1 .. N /\ (j + 1 = k \/ j + 1 < k)
      BY <1>1, <2>1
    <3>2. regions[order[j]].base + regions[order[j]].size <= regions[order[j + 1]].base
      BY <1>7, <1>8, <3>1
    <3>3. regions[order[j + 1]].base <= regions[order[k]].base
      BY <1>2, <1>5, <1>6, <3>1
    <3>4. order[j] \in DOMAIN regions /\ order[j + 1] \in DOMAIN regions /\ order[k] \in DOMAIN regions
      BY <1>2, <3>1
    <3>5. QED BY <1>5, <3>2, <3>3, <3>4
  <2>2. PICK j \in 1 .. N, k \in 1 .. N : order[j] = m /\ order[k] = n
    BY <1>2
  <2>3. j # k /\ j \in Int /\ k \in Int
    BY <1>8, <2>2
  <2>4. j < k \/ k < j
    BY <2>3
  <2>5. QED BY <2>1, <2>2, <2>4 DEF Tree!Disjoint
<1>9. ASSUME \A m, n \in DOMAIN regions : m # n => Tree!Disjoint(regions[m], regions[n]),
             NEW k \in 1 .. N - 1
      PROVE  regions[order[k]].base + regions[order[k]].size <= regions[order[k + 1]].base
  <2>1. k \in 1 .. N /\ k + 1 \in 1 .. N /\ k < k + 1 /\ k # k + 1
    BY <1>1
  <2>2. order[k] # order[k + 1] /\ order[k] \in DOMAIN regions /\ order[k + 1] \in DOMAIN regions
    BY <1>2, <1>3, <2>1
  <2>3. Tree!Disjoint(regions[order[k]], regions[order[k + 1]])
    BY <1>9, <2>2
  <2>4. QED BY <1>5, <1>6, <2>1, <2>2, <2>3 DEF Tree!Disjoint
<1>10. QED BY <1>7, <1>8, <1>9

(* check-l7.py, memmap: for any tree of distinct names and any map bases,  *)
(* the obligation passes exactly when the nodes are disjoint and every map *)
(* starts in one.                                                          *)
THEOREM DisjointWhenPassed == Spec => []MemmapPassIsDisjoint
<1>1. ASSUME TreeRead, Compared, memmap # "none", Tree!DistinctNames
      PROVE  memmap = "PASS" <=>
               /\ nodes # <<>>
               /\ \A j, k \in DOMAIN nodes :
                    j # k => Tree!Disjoint(nodes[j].region, nodes[k].region)
               /\ \A b \in regmaps : \E k \in DOMAIN nodes : Tree!Inside(b, nodes[k].region)
  <2>1. PICK order \in Tree!SortedNames :
          memmap = IF DOMAIN regions = {} \/ Tree!Mismatched # {} \/ Tree!Overlaps(order) # {}
                   THEN "FAIL" ELSE "PASS"
    BY <1>1 DEF Compared
  <2>2. \A k \in DOMAIN nodes : /\ nodes[k].name \in DOMAIN regions
                                /\ nodes[k].region = regions[nodes[k].name]
    BY <1>1 DEF TreeRead, Tree!DistinctNames
  <2>3. \A n \in DOMAIN regions : \E k \in DOMAIN nodes :
          nodes[k].name = n /\ nodes[k].region = regions[n]
    BY <1>1 DEF TreeRead
  <2>4. DOMAIN regions = {} <=> nodes = <<>>
    <3>1. nodes = <<>> <=> DOMAIN nodes = {}
      BY <1>1, LenProperties, EmptySeq DEF TreeRead
    <3>2. QED BY <2>2, <2>3, <3>1
  <2>5. Tree!Mismatched = {} <=>
          \A b \in regmaps : \E k \in DOMAIN nodes : Tree!Inside(b, nodes[k].region)
    BY <2>2, <2>3 DEF Tree!Mismatched, Tree!Inside
  <2>6. Tree!Overlaps(order) = {} <=>
          \A j, k \in DOMAIN nodes :
            j # k => Tree!Disjoint(nodes[j].region, nodes[k].region)
    <3>1. Tree!Overlaps(order) = {} <=>
            \A m, n \in DOMAIN regions : m # n => Tree!Disjoint(regions[m], regions[n])
      BY <1>1, <2>1, NeighboursAreEnough
    <3>2. \A j, k \in DOMAIN nodes : j # k => nodes[j].name # nodes[k].name
      BY <1>1 DEF Tree!DistinctNames
    <3>3. QED BY <2>2, <2>3, <3>1, <3>2 DEF Tree!Disjoint
  <2>7. QED BY <2>1, <2>4, <2>5, <2>6
<1>2. TreeRead /\ Compared => MemmapPassIsDisjoint
  BY <1>1 DEF MemmapPassIsDisjoint, Tree!MemmapPassIsDisjoint
<1>3. QED BY <1>2, Runs, TreeInit, TreeSteps, PTL
-----------------------------------------------------------------------------
(* gdsdump.py and bbox.py: the elements whose type, and whose points, have *)
(* been read, and what the programs remember of the last one.              *)
Typing == IF at \in {"LAYER", "type"} THEN 1 .. Len(stream) - 1 ELSE DOMAIN stream
Drawn == IF at \in {"LAYER", "type", "XY"} THEN 1 .. Len(stream) - 1 ELSE DOMAIN stream
Box == [x0 : Int, y0 : Int, x1 : Int, y1 : Int]
Boundaries == {k \in DOMAIN stream : stream[k].kind = "BOUNDARY"}
NoArray == \A k \in DOMAIN stream : stream[k].kind # "AREF"
Layouts ==
  /\ stream \in Seq(Gds!Elements)
  /\ at \in {"element", "LAYER", "type", "XY", "end"}
  /\ counted \in [Layers \X Types \X Gds!KINDS -> Nat]
  /\ ext \in [Layers \X Types -> Box] /\ allb \in Box
Remembered ==
  /\ at \in {"LAYER", "type", "XY"} => stream # <<>>
  /\ at \in {"LAYER", "type"} => ~Gds!Placed(stream[Len(stream)])
  /\ at \in {"LAYER", "type", "XY"} /\ stream[Len(stream)].kind \in Gds!KINDS =>
       elem = stream[Len(stream)].kind
  /\ at \in {"type", "XY"} /\ ~Gds!Placed(stream[Len(stream)]) => cur = stream[Len(stream)].layer
  /\ at = "XY" /\ Gds!Typed(stream[Len(stream)]) => dt = stream[Len(stream)].type
  /\ elem = "BOUNDARY" /\ at \in {"element", "XY"} => cur \in Layers /\ dt \in Types
Tallied ==
  \A l \in Layers, t \in Types, k \in Gds!KINDS :
    counted[<<l, t, k>>] =
      IF k \in {"BOUNDARY", "PATH"} THEN Cardinality(Gds!On(l, t, k) \cap Typing) ELSE 0
Contains(box, points) ==
  \A p \in points : box.x0 <= p.x /\ p.x <= box.x1 /\ box.y0 <= p.y /\ p.y <= box.y1
PointsOn(l, t) == Gds!Points(Gds!On(l, t, "BOUNDARY") \cap Drawn)
AllPoints == Gds!Points(Boundaries \cap Drawn)
Boxed ==
  /\ \A l \in Layers, t \in Types : Contains(ext[<<l, t>>], PointsOn(l, t))
  /\ NoArray => /\ \A l \in Layers, t \in Types : Gds!BoxOf(ext[<<l, t>>], PointsOn(l, t))
                /\ Gds!BoxOf(allb, AllPoints)

LayoutRead == Layouts /\ Remembered /\ Tallied /\ Boxed

LEMMA ElementFacts ==
  ASSUME NEW e \in Gds!Elements
  PROVE  /\ e.xy \in Xys
         /\ e.kind \in Gds!KINDS \cup {"AREF"}
         /\ Gds!Placed(e) <=> e.kind \in {"SREF", "AREF"}
         /\ ~Gds!Placed(e) => e.layer \in Layers /\ e.type \in Types
BY DEF Gds!Elements, Gds!KINDS, Gds!Placed

LEMMA StreamFacts ==
  ASSUME Layouts
  PROVE  /\ Len(stream) \in Nat /\ DOMAIN stream = 1 .. Len(stream)
         /\ \A k \in DOMAIN stream : stream[k] \in Gds!Elements
BY LenProperties, ElementOfSeq DEF Layouts

LEMMA LeastAndGreatest ==
  ASSUME NEW S \in SUBSET Int, NEW m \in S
  PROVE  /\ (\A y \in S : m <= y) => Gds!Min(S) = m
         /\ (\A y \in S : m >= y) => Gds!Max(S) = m
<1>1. ASSUME \A y \in S : m <= y PROVE Gds!Min(S) = m
  <2>1. Gds!Min(S) \in S /\ \A y \in S : Gds!Min(S) <= y
    BY <1>1 DEF Gds!Min
  <2>2. m \in Int /\ Gds!Min(S) \in Int /\ m <= Gds!Min(S) /\ Gds!Min(S) <= m
    BY <1>1, <2>1
  <2>3. QED BY ONLY <2>2
<1>2. ASSUME \A y \in S : m >= y PROVE Gds!Max(S) = m
  <2>1. Gds!Max(S) \in S /\ \A y \in S : Gds!Max(S) >= y
    BY <1>2 DEF Gds!Max
  <2>2. m \in Int /\ Gds!Max(S) \in Int /\ m <= Gds!Max(S) /\ Gds!Max(S) <= m
    BY <1>2, <2>1
  <2>3. QED BY ONLY <2>2
<1>3. QED BY <1>1, <1>2

(* A box and points with extremes: what they extend it to.                 *)
Extremes(points) ==
  /\ \A p \in points : p.x \in Int /\ p.y \in Int
  /\ \E p \in points : \A q \in points : p.x <= q.x
  /\ \E p \in points : \A q \in points : q.x <= p.x
  /\ \E p \in points : \A q \in points : p.y <= q.y
  /\ \E p \in points : \A q \in points : q.y <= p.y

LEMMA LeastOf ==
  ASSUME NEW a \in Int, NEW S \in SUBSET Int, NEW m \in S, \A y \in S : m <= y
  PROVE  Gds!Min({a} \cup S) = IF a <= m THEN a ELSE m
<1>1. CASE a <= m
  <2>1. \A y \in {a} \cup S : a <= y
    BY <1>1
  <2>2. QED BY <1>1, <2>1, LeastAndGreatest
<1>2. CASE ~(a <= m)
  <2>1. \A y \in {a} \cup S : m <= y
    BY <1>2
  <2>2. QED BY <1>2, <2>1, LeastAndGreatest
<1>3. QED BY <1>1, <1>2

LEMMA GreatestOf ==
  ASSUME NEW a \in Int, NEW S \in SUBSET Int, NEW m \in S, \A y \in S : y <= m
  PROVE  Gds!Max({a} \cup S) = IF m <= a THEN a ELSE m
<1>1. CASE m <= a
  <2>1. \A y \in {a} \cup S : a >= y
    BY <1>1
  <2>2. QED BY <1>1, <2>1, LeastAndGreatest
<1>2. CASE ~(m <= a)
  <2>1. \A y \in {a} \cup S : m >= y
    BY <1>2
  <2>2. QED BY <1>2, <2>1, LeastAndGreatest
<1>3. QED BY <1>1, <1>2

LEMMA ExtendedSides ==
  ASSUME NEW box \in Box, NEW points, Extremes(points)
  PROVE  LET e == Gds!Extended(box, points)
         IN  /\ e \in Box
             /\ e.x0 <= box.x0 /\ e.y0 <= box.y0 /\ box.x1 <= e.x1 /\ box.y1 <= e.y1
             /\ Contains(e, points)
             /\ e.x0 = box.x0 \/ \E p \in points : p.x = e.x0
             /\ e.x1 = box.x1 \/ \E p \in points : p.x = e.x1
             /\ e.y0 = box.y0 \/ \E p \in points : p.y = e.y0
             /\ e.y1 = box.y1 \/ \E p \in points : p.y = e.y1
<1> DEFINE X == {p.x : p \in points}
           Y == {p.y : p \in points}
<1>1. X \in SUBSET Int /\ Y \in SUBSET Int
  BY DEF Extremes
<1>2. box.x0 \in Int /\ box.y0 \in Int /\ box.x1 \in Int /\ box.y1 \in Int
  BY DEF Box
<1>3. /\ \A p \in points : p.x \in X /\ p.y \in Y
      /\ \A a \in X : \E p \in points : p.x = a
      /\ \A a \in Y : \E p \in points : p.y = a
  OBVIOUS
<1>4. /\ \E m \in X : \A a \in X : m <= a
      /\ \E m \in X : \A a \in X : a <= m
      /\ \E m \in Y : \A a \in Y : m <= a
      /\ \E m \in Y : \A a \in Y : a <= m
  BY DEF Extremes
<1>5. PICK west \in X : \A a \in X : west <= a
  BY <1>4
<1>6. PICK east \in X : \A a \in X : a <= east
  BY <1>4
<1>7. PICK south \in Y : \A a \in Y : south <= a
  BY <1>4
<1>8. PICK north \in Y : \A a \in Y : a <= north
  BY <1>4
<1> HIDE DEF X, Y
<1>9. /\ Gds!Min({box.x0} \cup X) = IF box.x0 <= west THEN box.x0 ELSE west
      /\ Gds!Max({box.x1} \cup X) = IF east <= box.x1 THEN box.x1 ELSE east
      /\ Gds!Min({box.y0} \cup Y) = IF box.y0 <= south THEN box.y0 ELSE south
      /\ Gds!Max({box.y1} \cup Y) = IF north <= box.y1 THEN box.y1 ELSE north
  BY <1>1, <1>2, <1>5, <1>6, <1>7, <1>8, LeastOf, GreatestOf
<1>10. Gds!Extended(box, points) =
         [x0 |-> IF box.x0 <= west THEN box.x0 ELSE west,
          y0 |-> IF box.y0 <= south THEN box.y0 ELSE south,
          x1 |-> IF east <= box.x1 THEN box.x1 ELSE east,
          y1 |-> IF north <= box.y1 THEN box.y1 ELSE north]
  BY <1>9, Zenon DEF Gds!Extended, X, Y
<1>11. \A p \in points : /\ p.x \in Int /\ p.y \in Int
                         /\ west <= p.x /\ p.x <= east /\ south <= p.y /\ p.y <= north
  BY <1>1, <1>3, <1>5, <1>6, <1>7, <1>8
<1>12. west \in Int /\ east \in Int /\ south \in Int /\ north \in Int
  BY <1>1
<1>13. QED BY <1>2, <1>3, <1>10, <1>11, <1>12 DEF Contains, Box

LEMMA OutlineExtremes == \A xy \in Xys : Extremes(xy)
BY OutlinesHaveExtents DEF Extremes

(* An outline makes a box of what it contains one of that and the outline. *)
LEMMA ContainsGrows ==
  ASSUME NEW box \in Box, NEW P, \A p \in P : p.x \in Int /\ p.y \in Int,
         NEW xy \in Xys, Contains(box, P)
  PROVE  /\ Gds!Extended(box, xy) \in Box
         /\ Contains(Gds!Extended(box, xy), P \cup xy)
<1> DEFINE e == Gds!Extended(box, xy)
<1>1. /\ e \in Box /\ Contains(e, xy)
      /\ e.x0 <= box.x0 /\ e.y0 <= box.y0 /\ box.x1 <= e.x1 /\ box.y1 <= e.y1
  BY OutlineExtremes, ExtendedSides
<1> HIDE DEF e
<1>2. /\ e.x0 \in Int /\ e.x1 \in Int /\ e.y0 \in Int /\ e.y1 \in Int
      /\ box.x0 \in Int /\ box.x1 \in Int /\ box.y0 \in Int /\ box.y1 \in Int
  BY <1>1 DEF Box
<1>3. Contains(e, P)
  BY <1>1, <1>2 DEF Contains
<1>4. QED BY <1>1, <1>3 DEF Contains, e

LEMMA BoxGrows ==
  ASSUME NEW box \in Box, NEW P, \A p \in P : p.x \in Int /\ p.y \in Int,
         NEW xy \in Xys, Gds!BoxOf(box, P)
  PROVE  Gds!BoxOf(Gds!Extended(box, xy), P \cup xy)
<1> DEFINE e == Gds!Extended(box, xy)
<1>1. /\ e \in Box /\ Contains(e, xy)
      /\ e.x0 = box.x0 \/ \E p \in xy : p.x = e.x0
      /\ e.x1 = box.x1 \/ \E p \in xy : p.x = e.x1
      /\ e.y0 = box.y0 \/ \E p \in xy : p.y = e.y0
      /\ e.y1 = box.y1 \/ \E p \in xy : p.y = e.y1
  BY OutlineExtremes, ExtendedSides
<1>2. xy # {}
  BY OutlinesHaveExtents
<1>3. CASE P = {}
  <2>1. box.x0 = 9000 /\ box.x1 = -9000 /\ box.y0 = 9000 /\ box.y1 = -9000
    BY <1>3 DEF Gds!BoxOf, Gds!Empty, Gds!BIG
  <2>2. PICK p \in xy : /\ p.x \in Int /\ -9000 <= p.x /\ p.x <= 9000
                        /\ p.y \in Int /\ -9000 <= p.y /\ p.y <= 9000
    BY <1>2, OutlinesHaveExtents
  <2>3. e.x0 <= p.x /\ p.x <= e.x1 /\ e.y0 <= p.y /\ p.y <= e.y1
    BY <1>1 DEF Contains
  <2>4. e.x0 \in Int /\ e.x1 \in Int /\ e.y0 \in Int /\ e.y1 \in Int
    BY <1>1 DEF Box
  <2> HIDE DEF e
  <2>5. /\ e.x0 = box.x0 => p.x = e.x0
        /\ e.x1 = box.x1 => p.x = e.x1
        /\ e.y0 = box.y0 => p.y = e.y0
        /\ e.y1 = box.y1 => p.y = e.y1
    BY <2>1, <2>2, <2>3, <2>4
  <2>6. /\ \E q \in xy : q.x = e.x0
        /\ \E q \in xy : q.x = e.x1
        /\ \E q \in xy : q.y = e.y0
        /\ \E q \in xy : q.y = e.y1
    BY <1>1, <2>5
  <2>7. P \cup xy = xy /\ xy # {}
    BY <1>2, <1>3
  <2>8. Gds!BoxOf(e, xy)
    BY <1>1, <2>6, <2>7 DEF Gds!BoxOf, Contains
  <2>9. QED BY <2>7, <2>8 DEF e
<1>4. CASE P # {}
  <2>1. /\ Contains(box, P)
        /\ \E p \in P : p.x = box.x0
        /\ \E p \in P : p.x = box.x1
        /\ \E p \in P : p.y = box.y0
        /\ \E p \in P : p.y = box.y1
    BY <1>4 DEF Gds!BoxOf, Contains
  <2>2. Contains(e, P \cup xy)
    BY <2>1, ContainsGrows
  <2> HIDE DEF e
  <2>3. /\ \E p \in P \cup xy : p.x = e.x0
        /\ \E p \in P \cup xy : p.x = e.x1
        /\ \E p \in P \cup xy : p.y = e.y0
        /\ \E p \in P \cup xy : p.y = e.y1
    BY <1>1, <2>1
  <2>4. P \cup xy # {}
    BY <1>2
  <2>5. Gds!BoxOf(e, P \cup xy)
    BY <2>2, <2>3, <2>4 DEF Gds!BoxOf, Contains
  <2>6. QED BY <2>5 DEF e
<1>5. QED BY <1>3, <1>4

(* Points of elements are numbers.                                         *)
LEMMA PointsAreNumbers ==
  ASSUME Layouts, NEW ks \in SUBSET DOMAIN stream
  PROVE  \A p \in Gds!Points(ks) : p.x \in Int /\ p.y \in Int
<1>1. \A k \in ks : stream[k].xy \in Xys
  BY StreamFacts, ElementFacts
<1>2. QED BY <1>1, OutlineExtremes DEF Gds!Points, Extremes

LEMMA LayoutInit == Gds!Init => LayoutRead
<1> SUFFICES ASSUME Gds!Init PROVE LayoutRead
  OBVIOUS
<1>1. /\ Len(stream) = 0 /\ DOMAIN stream = {} /\ stream = <<>> /\ stream \in Seq(Gds!Elements)
      /\ at = "element" /\ elem = "none"
  BY DEF Gds!Init
<1>2. Gds!Empty \in Box
  BY DEF Gds!Empty, Gds!BIG, Box
<1>3. Layouts
  BY <1>1, <1>2 DEF Gds!Init, Layouts
<1>4. Remembered
  BY <1>1 DEF Remembered
<1>5. \A l, t, k : Gds!On(l, t, k) = {}
  BY <1>1 DEF Gds!On
<1>6. Tallied
  <2>1. Cardinality({}) = 0 /\ \A S : {} \cap S = {}
    BY FS_EmptySet
  <2>2. \A l \in Layers, t \in Types, k \in Gds!KINDS : counted[<<l, t, k>>] = 0
    BY DEF Gds!Init
  <2>3. QED BY <1>5, <2>1, <2>2 DEF Tallied
<1>7. Boxed
  <2>1. Gds!Points({}) = {} /\ Boundaries = {} /\ \A S : {} \cap S = {}
    BY <1>1 DEF Gds!Points, Boundaries
  <2>2. /\ \A l \in Layers, t \in Types : ext[<<l, t>>] = Gds!Empty
        /\ allb = Gds!Empty
    BY DEF Gds!Init
  <2>3. QED BY <1>5, <2>1, <2>2 DEF Boxed, PointsOn, AllPoints, Contains, Gds!BoxOf
<1>8. QED BY <1>3, <1>4, <1>6, <1>7 DEF LayoutRead

(* The stream grows by an element: its type and points are yet to be read, *)
(* or it is one that has no type.                                          *)
LEMMA StartStep ==
  ASSUME LayoutRead, NEW e \in Gds!Elements, Gds!Start(e)
  PROVE  LayoutRead'
<1> DEFINE n == Len(stream) + 1
<1>1. Layouts /\ Remembered /\ Tallied /\ Boxed
  BY DEF LayoutRead
<1>2. /\ at = "element" /\ elem' = Gds!Met(e.kind) /\ stream' = Append(stream, e)
      /\ at' = IF Gds!Placed(e) THEN "XY" ELSE "LAYER"
      /\ cur' = cur /\ dt' = dt /\ counted' = counted /\ ext' = ext /\ allb' = allb
  BY DEF Gds!Start
<1>3. /\ Len(stream) \in Nat /\ DOMAIN stream = 1 .. Len(stream) /\ stream \in Seq(Gds!Elements)
  BY <1>1, StreamFacts DEF Layouts
<1>4. /\ stream' \in Seq(Gds!Elements) /\ Len(stream') = n /\ stream' # <<>>
      /\ DOMAIN stream' = DOMAIN stream \cup {n} /\ n \notin DOMAIN stream
      /\ stream'[n] = e /\ \A k \in DOMAIN stream : stream'[k] = stream[k]
  BY <1>2, <1>3
<1>5. /\ Drawn = DOMAIN stream /\ Drawn' = DOMAIN stream /\ Typing = DOMAIN stream
      /\ Typing' = IF Gds!Placed(e) THEN DOMAIN stream \cup {n} ELSE DOMAIN stream
  BY <1>2, <1>3, <1>4 DEF Drawn, Typing
<1>6. Layouts'
  BY <1>1, <1>2, <1>4 DEF Layouts
<1>7. Remembered'
  BY <1>1, <1>2, <1>4, ElementFacts DEF Remembered, Gds!Met, Gds!KINDS, Gds!Typed, Gds!Placed
<1>8. Tallied'
  <2>1. ASSUME NEW l, NEW t, NEW k \in {"BOUNDARY", "PATH"}
        PROVE  Gds!On(l, t, k)' \cap Typing' = Gds!On(l, t, k) \cap Typing
    BY <1>4, <1>5, ElementFacts DEF Gds!On
  <2>2. ASSUME NEW l \in Layers, NEW t \in Types, NEW k \in Gds!KINDS
        PROVE  counted'[<<l, t, k>>] =
                 IF k \in {"BOUNDARY", "PATH"}
                 THEN Cardinality(Gds!On(l, t, k)' \cap Typing') ELSE 0
    <3>1. counted'[<<l, t, k>>] = counted[<<l, t, k>>]
      BY <1>2
    <3>2. CASE k \in {"BOUNDARY", "PATH"}
      <4>1. Gds!On(l, t, k)' \cap Typing' = Gds!On(l, t, k) \cap Typing
        BY <2>1, <3>2
      <4>2. QED BY <1>1, <3>1, <3>2, <4>1 DEF Tallied
    <3>3. CASE k \notin {"BOUNDARY", "PATH"}
      BY <1>1, <3>1, <3>3 DEF Tallied
    <3>4. QED BY <3>2, <3>3
  <2>3. QED BY <2>2 DEF Tallied
<1>9. \A l, t : PointsOn(l, t)' = PointsOn(l, t)
  <2>1. \A l, t : Gds!On(l, t, "BOUNDARY")' \cap Drawn' = Gds!On(l, t, "BOUNDARY") \cap Drawn
    BY <1>4, <1>5 DEF Gds!On
  <2>2. QED BY <1>4, <1>5, <2>1 DEF PointsOn, Gds!Points
<1>10. AllPoints' = AllPoints
  <2>1. Boundaries' \cap Drawn' = Boundaries \cap Drawn
    BY <1>4, <1>5 DEF Boundaries
  <2>2. QED BY <1>4, <1>5, <2>1 DEF AllPoints, Gds!Points
<1>11. NoArray' => NoArray
  BY <1>4 DEF NoArray
<1>12. Boxed'
  <2>1. \A l \in Layers, t \in Types : Contains(ext[<<l, t>>], PointsOn(l, t))'
    BY <1>1, <1>2, <1>9 DEF Boxed, Contains
  <2>2. ASSUME NoArray'
        PROVE  \A l \in Layers, t \in Types : Gds!BoxOf(ext[<<l, t>>], PointsOn(l, t))'
    <3>1. \A l \in Layers, t \in Types : Gds!BoxOf(ext[<<l, t>>], PointsOn(l, t))
      BY <1>1, <1>11, <2>2 DEF Boxed
    <3>2. QED BY <1>2, <1>9, <3>1 DEF Gds!BoxOf, Gds!Empty
  <2>3. ASSUME NoArray' PROVE Gds!BoxOf(allb, AllPoints)'
    <3>1. Gds!BoxOf(allb, AllPoints)
      BY <1>1, <1>11, <2>3 DEF Boxed
    <3>2. QED BY <1>2, <1>10, <3>1 DEF Gds!BoxOf, Gds!Empty
  <2>4. QED BY <2>1, <2>2, <2>3 DEF Boxed
<1>13. QED BY <1>6, <1>7, <1>8, <1>12 DEF LayoutRead

(* A step that reads no points leaves what is drawn.                       *)
LEMMA BoxedStays ==
  ASSUME Boxed, stream' = stream, Drawn' = Drawn, ext' = ext, allb' = allb
  PROVE  Boxed'
<1>1. \A l, t : PointsOn(l, t)' = PointsOn(l, t)
  BY DEF PointsOn, Gds!Points, Gds!On
<1>2. AllPoints' = AllPoints
  BY DEF AllPoints, Gds!Points, Boundaries
<1>3. NoArray' <=> NoArray
  BY DEF NoArray
<1>4. QED BY <1>1, <1>2, <1>3 DEF Boxed, Contains, Gds!BoxOf, Gds!Empty

LEMMA TalliedStays ==
  ASSUME Tallied, stream' = stream, Typing' = Typing, counted' = counted
  PROVE  Tallied'
<1>1. \A l, t, k : Gds!On(l, t, k)' = Gds!On(l, t, k)
  BY DEF Gds!On
<1>2. QED BY <1>1 DEF Tallied

LEMMA ReadLayerStep ==
  ASSUME LayoutRead, Gds!ReadLayer
  PROVE  LayoutRead'
<1>1. Layouts /\ Remembered /\ Tallied /\ Boxed
  BY DEF LayoutRead
<1>2. /\ at = "LAYER" /\ at' = "type" /\ cur' = stream[Len(stream)].layer
      /\ stream' = stream /\ elem' = elem /\ dt' = dt /\ counted' = counted
      /\ ext' = ext /\ allb' = allb
  BY DEF Gds!ReadLayer, Gds!Last
<1>3. Layouts' /\ Remembered'
  BY <1>1, <1>2 DEF Layouts, Remembered, Gds!Placed
<1>4. Typing' = Typing /\ Drawn' = Drawn
  BY <1>2 DEF Typing, Drawn
<1>5. QED BY <1>1, <1>2, <1>3, <1>4, BoxedStays, TalliedStays DEF LayoutRead

LEMMA StopStep ==
  ASSUME LayoutRead, Gds!Stop
  PROVE  LayoutRead'
<1>1. Layouts /\ Remembered /\ Tallied /\ Boxed
  BY DEF LayoutRead
<1>2. /\ at = "element" /\ at' = "end" /\ cur' = cur
      /\ stream' = stream /\ elem' = elem /\ dt' = dt /\ counted' = counted
      /\ ext' = ext /\ allb' = allb
  BY DEF Gds!Stop
<1>3. Layouts' /\ Remembered'
  BY <1>1, <1>2 DEF Layouts, Remembered
<1>4. Typing' = Typing /\ Drawn' = Drawn
  BY <1>2 DEF Typing, Drawn
<1>5. QED BY <1>1, <1>2, <1>3, <1>4, BoxedStays, TalliedStays DEF LayoutRead

(* The element whose type is read is counted as its own kind, on the layer *)
(* read before, when it is a boundary or a path.                           *)
LEMMA ReadTypeStep ==
  ASSUME LayoutRead, Gds!ReadType
  PROVE  LayoutRead'
<1> DEFINE n == Len(stream)
           last == stream[n]
<1>1. Layouts /\ Remembered /\ Tallied /\ Boxed
  BY DEF LayoutRead
<1>2. /\ at = "type" /\ at' = "XY" /\ stream' = stream /\ elem' = elem /\ cur' = cur
      /\ ext' = ext /\ allb' = allb
      /\ IF Gds!Typed(last)
         THEN /\ dt' = last.type
              /\ counted' = [counted EXCEPT ![<<cur, last.type, elem>>] = @ + 1]
         ELSE dt' = dt /\ counted' = counted
  BY DEF Gds!ReadType, Gds!Last
<1>3. /\ n \in Nat /\ n > 0 /\ DOMAIN stream = 1 .. n /\ n \in DOMAIN stream
      /\ last \in Gds!Elements
  <2>1. n \in Nat /\ DOMAIN stream = 1 .. n /\ stream # <<>>
    BY <1>1, <1>2, StreamFacts DEF Remembered
  <2>2. n > 0
    BY <1>1, <2>1, EmptySeq DEF Layouts
  <2>3. QED BY <1>1, <2>1, <2>2, StreamFacts
<1>4. /\ ~Gds!Placed(last) /\ cur = last.layer /\ elem = last.kind
      /\ last.kind \in Gds!KINDS /\ last.layer \in Layers /\ last.type \in Types
  BY <1>1, <1>2, <1>3, ElementFacts DEF Remembered
<1>5. counted' \in [Layers \X Types \X Gds!KINDS -> Nat]
  <2>1. CASE Gds!Typed(last)
    <3>1. /\ <<cur, last.type, elem>> \in Layers \X Types \X Gds!KINDS
          /\ counted \in [Layers \X Types \X Gds!KINDS -> Nat]
      BY <1>1, <1>4 DEF Layouts
    <3>2. counted[<<cur, last.type, elem>>] + 1 \in Nat
      BY <3>1
    <3>3. QED BY <1>2, <2>1, <3>1, <3>2
  <2>2. CASE ~Gds!Typed(last)
    BY <1>1, <1>2, <2>2 DEF Layouts
  <2>3. QED BY <2>1, <2>2
<1>6. Layouts'
  BY <1>1, <1>2, <1>5 DEF Layouts
<1>7. Remembered'
  BY <1>1, <1>2, <1>4 DEF Remembered, Gds!Typed, Gds!Placed
<1>8. Drawn' = Drawn
  BY <1>2 DEF Drawn
<1>9. /\ Typing = 1 .. n - 1 /\ Typing' = Typing \cup {n} /\ n \notin Typing
  BY <1>2, <1>3 DEF Typing
<1>10. Tallied'
  <2>1. SUFFICES ASSUME NEW l \in Layers, NEW t \in Types, NEW k \in Gds!KINDS
                 PROVE  counted'[<<l, t, k>>] =
                          IF k \in {"BOUNDARY", "PATH"}
                          THEN Cardinality(Gds!On(l, t, k)' \cap Typing') ELSE 0
    BY DEF Tallied
  <2> DEFINE before == Gds!On(l, t, k) \cap Typing
             here == k = last.kind /\ l = last.layer /\ t = last.type
  <2>2. counted[<<l, t, k>>] =
          IF k \in {"BOUNDARY", "PATH"} THEN Cardinality(before) ELSE 0
    BY <1>1 DEF Tallied
  <2>3. counted'[<<l, t, k>>] =
          IF Gds!Typed(last) /\ here THEN counted[<<l, t, k>>] + 1 ELSE counted[<<l, t, k>>]
    <3>1. /\ counted \in [Layers \X Types \X Gds!KINDS -> Nat]
          /\ <<l, t, k>> \in Layers \X Types \X Gds!KINDS
      BY <1>1 DEF Layouts
    <3>2. <<l, t, k>> = <<cur, last.type, elem>> <=> here
      BY <1>4
    <3>3. QED BY <1>2, <3>1, <3>2
  <2>4. CASE k \notin {"BOUNDARY", "PATH"}
    BY <2>2, <2>3, <2>4 DEF Gds!Typed
  <2>5. CASE k \in {"BOUNDARY", "PATH"}
    <3>1. Gds!On(l, t, k)' \cap Typing' = IF here THEN before \cup {n} ELSE before
      BY <1>2, <1>3, <1>9 DEF Gds!On
    <3>2. IsFiniteSet(before) /\ Cardinality(before) \in Nat /\ n \notin before
      <4>1. IsFiniteSet(1 .. n - 1)
        BY <1>3, FS_Interval
      <4>2. before \subseteq 1 .. n - 1
        BY <1>9
      <4>3. IsFiniteSet(before)
        BY <4>1, <4>2, FS_Subset
      <4>4. QED BY <1>9, <4>3, FS_CardinalityType
    <3>3. Cardinality(before \cup {n}) = Cardinality(before) + 1
      BY <3>2, FS_AddElement
    <3>4. here => Gds!Typed(last)
      BY <2>5 DEF Gds!Typed
    <3>5. QED BY <2>2, <2>3, <2>5, <3>1, <3>3, <3>4
  <2>6. QED BY <2>4, <2>5
<1>11. QED BY <1>1, <1>2, <1>6, <1>7, <1>8, <1>10, BoxedStays DEF LayoutRead

(* The points read extend the box of the layer remembered, which is that   *)
(* of a boundary unless they are those of an array.                        *)
LEMMA ReadXYStep ==
  ASSUME LayoutRead, Gds!ReadXY
  PROVE  LayoutRead'
<1> DEFINE n == Len(stream)
           last == stream[n]
<1>1. Layouts /\ Remembered /\ Tallied /\ Boxed
  BY DEF LayoutRead
<1>2. /\ at = "XY" /\ at' = "element" /\ stream' = stream /\ elem' = elem /\ cur' = cur
      /\ dt' = dt /\ counted' = counted
      /\ IF elem = "BOUNDARY"
         THEN /\ ext' = [ext EXCEPT ![<<cur, dt>>] = Gds!Extended(@, last.xy)]
              /\ allb' = Gds!Extended(allb, last.xy)
         ELSE ext' = ext /\ allb' = allb
  BY DEF Gds!ReadXY, Gds!Last
<1>3. /\ n \in Nat /\ n > 0 /\ DOMAIN stream = 1 .. n /\ n \in DOMAIN stream
      /\ last \in Gds!Elements
  <2>1. n \in Nat /\ DOMAIN stream = 1 .. n /\ stream # <<>>
    BY <1>1, <1>2, StreamFacts DEF Remembered
  <2>2. n > 0
    BY <1>1, <2>1, EmptySeq DEF Layouts
  <2>3. QED BY <1>1, <2>1, <2>2, StreamFacts
<1>4. /\ last.xy \in Xys /\ last.kind \in Gds!KINDS \cup {"AREF"}
      /\ last.kind \in Gds!KINDS => elem = last.kind
      /\ elem = "BOUNDARY" => cur \in Layers /\ dt \in Types
      /\ last.kind = "BOUNDARY" => cur = last.layer /\ dt = last.type
  BY <1>1, <1>2, <1>3, ElementFacts DEF Remembered, Gds!Typed, Gds!Placed
<1>5. Typing' = Typing
  BY <1>2 DEF Typing
<1>6. Drawn = 1 .. n - 1 /\ Drawn' = Drawn \cup {n} /\ n \notin Drawn /\ Drawn \subseteq DOMAIN stream
  BY <1>2, <1>3 DEF Drawn
<1>7. Remembered'
  BY <1>1, <1>2 DEF Remembered
<1>8. Tallied'
  BY <1>1, <1>2, <1>5, TalliedStays
<1>9. \A l, t :
        PointsOn(l, t)' = IF last.kind = "BOUNDARY" /\ last.layer = l /\ last.type = t
                          THEN PointsOn(l, t) \cup last.xy ELSE PointsOn(l, t)
  <2>1. ASSUME NEW l, NEW t
        PROVE  Gds!On(l, t, "BOUNDARY")' \cap Drawn' =
                 IF last.kind = "BOUNDARY" /\ last.layer = l /\ last.type = t
                 THEN (Gds!On(l, t, "BOUNDARY") \cap Drawn) \cup {n}
                 ELSE Gds!On(l, t, "BOUNDARY") \cap Drawn
    BY <1>2, <1>3, <1>6 DEF Gds!On
  <2>2. QED BY <1>2, <2>1 DEF PointsOn, Gds!Points
<1>10. AllPoints' = IF last.kind = "BOUNDARY" THEN AllPoints \cup last.xy ELSE AllPoints
  <2>1. Boundaries' \cap Drawn' = IF last.kind = "BOUNDARY"
                                  THEN (Boundaries \cap Drawn) \cup {n} ELSE Boundaries \cap Drawn
    BY <1>2, <1>3, <1>6 DEF Boundaries
  <2>2. QED BY <1>2, <2>1 DEF AllPoints, Gds!Points
<1>11. NoArray' <=> NoArray
  BY <1>2 DEF NoArray
<1>12. CASE elem # "BOUNDARY"
  <2>1. last.kind # "BOUNDARY" /\ ext' = ext /\ allb' = allb
    BY <1>2, <1>4, <1>12 DEF Gds!KINDS
  <2>2. (\A l, t : PointsOn(l, t)' = PointsOn(l, t)) /\ AllPoints' = AllPoints
    BY <1>9, <1>10, <2>1
  <2>3. Boxed'
    BY <1>1, <1>11, <2>1, <2>2 DEF Boxed, Contains, Gds!BoxOf, Gds!Empty
  <2>4. Layouts'
    BY <1>1, <1>2, <2>1 DEF Layouts
  <2>5. QED BY <1>7, <1>8, <2>3, <2>4 DEF LayoutRead
<1>13. CASE elem = "BOUNDARY"
  <2>1. /\ <<cur, dt>> \in Layers \X Types /\ ext \in [Layers \X Types -> Box] /\ allb \in Box
        /\ ext' = [ext EXCEPT ![<<cur, dt>>] = Gds!Extended(ext[<<cur, dt>>], last.xy)]
        /\ allb' = Gds!Extended(allb, last.xy)
    BY <1>1, <1>2, <1>4, <1>13 DEF Layouts
  <2>2. /\ ext[<<cur, dt>>] \in Box
        /\ \A p \in PointsOn(cur, dt) : p.x \in Int /\ p.y \in Int
        /\ \A p \in AllPoints : p.x \in Int /\ p.y \in Int
    <3>1. /\ Gds!On(cur, dt, "BOUNDARY") \cap Drawn \in SUBSET DOMAIN stream
          /\ Boundaries \cap Drawn \in SUBSET DOMAIN stream
      BY <1>6
    <3>2. QED BY <1>1, <2>1, <3>1, PointsAreNumbers DEF PointsOn, AllPoints
  <2>3. /\ Gds!Extended(ext[<<cur, dt>>], last.xy) \in Box
        /\ Contains(Gds!Extended(ext[<<cur, dt>>], last.xy), PointsOn(cur, dt) \cup last.xy)
    <3>1. Contains(ext[<<cur, dt>>], PointsOn(cur, dt))
      BY <1>1, <1>4, <1>13 DEF Boxed
    <3>2. QED BY <1>4, <2>2, <3>1, ContainsGrows
  <2>4. allb' \in Box
    BY <1>4, <2>1, OutlineExtremes, ExtendedSides
  <2>5. Layouts'
    BY <1>1, <1>2, <2>1, <2>3, <2>4 DEF Layouts
  <2>6. ASSUME NEW l \in Layers, NEW t \in Types
        PROVE  ext'[<<l, t>>] = IF l = cur /\ t = dt
                                THEN Gds!Extended(ext[<<cur, dt>>], last.xy) ELSE ext[<<l, t>>]
    BY <2>1
  <2>7. ASSUME NEW l \in Layers, NEW t \in Types
        PROVE  Contains(ext'[<<l, t>>], PointsOn(l, t)')
    <3>1. CASE l = cur /\ t = dt
      <4>1. PointsOn(l, t)' \subseteq PointsOn(cur, dt) \cup last.xy
        BY <1>9, <3>1
      <4>2. QED BY <2>3, <2>6, <3>1, <4>1 DEF Contains
    <3>2. CASE ~(l = cur /\ t = dt)
      <4>1. PointsOn(l, t)' = PointsOn(l, t)
        BY <1>4, <1>9, <3>2
      <4>2. QED BY <1>1, <2>6, <3>2, <4>1 DEF Boxed
    <3>3. QED BY <3>1, <3>2
  <2>8. ASSUME NoArray
        PROVE  /\ \A l \in Layers, t \in Types : Gds!BoxOf(ext'[<<l, t>>], PointsOn(l, t)')
               /\ Gds!BoxOf(allb', AllPoints')
    <3>1. last.kind = "BOUNDARY" /\ last.layer = cur /\ last.type = dt
      BY <1>3, <1>4, <1>13, <2>8 DEF NoArray
    <3>2. /\ \A l \in Layers, t \in Types : Gds!BoxOf(ext[<<l, t>>], PointsOn(l, t))
          /\ Gds!BoxOf(allb, AllPoints)
      BY <1>1, <2>8 DEF Boxed
    <3>3. Gds!BoxOf(allb', AllPoints')
      BY <1>4, <1>10, <2>1, <2>2, <3>1, <3>2, BoxGrows
    <3>4. ASSUME NEW l \in Layers, NEW t \in Types
          PROVE  Gds!BoxOf(ext'[<<l, t>>], PointsOn(l, t)')
      <4>1. CASE l = cur /\ t = dt
        <5>1. PointsOn(l, t)' = PointsOn(cur, dt) \cup last.xy
          BY <1>9, <3>1, <4>1
        <5>2. Gds!BoxOf(Gds!Extended(ext[<<cur, dt>>], last.xy), PointsOn(cur, dt) \cup last.xy)
          BY <1>4, <1>13, <2>2, <3>2, BoxGrows
        <5>3. QED BY <2>6, <4>1, <5>1, <5>2
      <4>2. CASE ~(l = cur /\ t = dt)
        <5>1. PointsOn(l, t)' = PointsOn(l, t)
          BY <1>9, <3>1, <4>2
        <5>2. QED BY <2>6, <3>2, <4>2, <5>1
      <4>3. QED BY <4>1, <4>2
    <3>5. QED BY <3>3, <3>4
  <2>9. Boxed'
    BY <1>11, <2>7, <2>8 DEF Boxed
  <2>10. QED BY <1>7, <1>8, <2>5, <2>9 DEF LayoutRead
<1>14. QED BY <1>12, <1>13

LEMMA LayoutSteps ==
  ASSUME LayoutRead, [Gds!Next]_(Gds!vars)
  PROVE  LayoutRead'
<1>1. CASE UNCHANGED Gds!vars
  <2>1. /\ stream' = stream /\ at' = at /\ elem' = elem /\ cur' = cur /\ dt' = dt
        /\ counted' = counted /\ ext' = ext /\ allb' = allb
    BY <1>1 DEF Gds!vars
  <2>2. Typing' = Typing /\ Drawn' = Drawn /\ Layouts' /\ Remembered'
    BY <2>1 DEF Typing, Drawn, LayoutRead, Layouts, Remembered
  <2>3. QED BY <2>1, <2>2, BoxedStays, TalliedStays DEF LayoutRead
<1>2. QED BY <1>1, StartStep, ReadLayerStep, ReadTypeStep, ReadXYStep, StopStep DEF Gds!Next

LEMMA LayoutEarned == LayoutRead => Gds!ExtentsAreBoundaries
<1> SUFFICES ASSUME LayoutRead, at = "end" PROVE
      /\ \A k \in DOMAIN counted :
           counted[k] = IF k[3] \in {"BOUNDARY", "PATH"}
                        THEN Cardinality(Gds!On(k[1], k[2], k[3])) ELSE 0
      /\ \A k \in DOMAIN ext : \A p \in Gds!Points(Gds!On(k[1], k[2], "BOUNDARY")) :
           Gds!Extended(ext[k], {p}) = ext[k]
      /\ NoArray =>
           /\ \A k \in DOMAIN ext : Gds!BoxOf(ext[k], Gds!Points(Gds!On(k[1], k[2], "BOUNDARY")))
           /\ Gds!BoxOf(allb, Gds!Points({k \in DOMAIN stream : stream[k].kind = "BOUNDARY"}))
  <2>1. \A S : Gds!Cardinality(S) = Cardinality(S)
    BY DEF Gds!Cardinality, Cardinality
  <2>2. QED BY <2>1, Zenon DEF Gds!ExtentsAreBoundaries, NoArray
<1>1. Layouts /\ Tallied /\ Boxed
  BY DEF LayoutRead
<1>2. /\ \A l, t, k : Gds!On(l, t, k) \cap Typing = Gds!On(l, t, k)
      /\ \A l, t, k : Gds!On(l, t, k) \cap Drawn = Gds!On(l, t, k)
      /\ Boundaries \cap Drawn = Boundaries
  BY DEF Typing, Drawn, Gds!On, Boundaries
<1>3. /\ \A l, t : PointsOn(l, t) = Gds!Points(Gds!On(l, t, "BOUNDARY"))
      /\ AllPoints = Gds!Points(Boundaries)
  BY <1>2 DEF PointsOn, AllPoints
<1>4. ASSUME NEW k \in DOMAIN counted
      PROVE  counted[k] = IF k[3] \in {"BOUNDARY", "PATH"}
                          THEN Cardinality(Gds!On(k[1], k[2], k[3])) ELSE 0
  <2>1. k = <<k[1], k[2], k[3]>> /\ k[1] \in Layers /\ k[2] \in Types /\ k[3] \in Gds!KINDS
    BY <1>1 DEF Layouts
  <2>2. QED BY <1>1, <1>2, <2>1 DEF Tallied
<1>5. ASSUME NEW k \in DOMAIN ext
      PROVE  k = <<k[1], k[2]>> /\ k[1] \in Layers /\ k[2] \in Types /\ ext[k] \in Box
  BY <1>1 DEF Layouts
<1>6. ASSUME NEW k \in DOMAIN ext, NEW p \in Gds!Points(Gds!On(k[1], k[2], "BOUNDARY"))
      PROVE  Gds!Extended(ext[k], {p}) = ext[k]
  <2>1. p.x \in Int /\ p.y \in Int
    <3>1. Gds!On(k[1], k[2], "BOUNDARY") \in SUBSET DOMAIN stream
      BY DEF Gds!On
    <3>2. QED BY <1>1, <1>6, <3>1, PointsAreNumbers
  <2>2. Contains(ext[k], PointsOn(k[1], k[2]))
    BY <1>1, <1>5 DEF Boxed
  <2>3. /\ ext[k].x0 <= p.x /\ p.x <= ext[k].x1 /\ ext[k].y0 <= p.y /\ p.y <= ext[k].y1
    BY <1>3, <1>6, <2>2 DEF Contains
  <2>4. ext[k] \in Box
    BY <1>5
  <2>5. Extremes({p})
    BY <2>1 DEF Extremes
  <2> DEFINE e == Gds!Extended(ext[k], {p})
  <2>6. /\ e \in Box
        /\ e.x0 <= ext[k].x0 /\ e.y0 <= ext[k].y0 /\ ext[k].x1 <= e.x1 /\ ext[k].y1 <= e.y1
        /\ e.x0 = ext[k].x0 \/ p.x = e.x0
        /\ e.x1 = ext[k].x1 \/ p.x = e.x1
        /\ e.y0 = ext[k].y0 \/ p.y = e.y0
        /\ e.y1 = ext[k].y1 \/ p.y = e.y1
    BY <2>4, <2>5, ExtendedSides
  <2> HIDE DEF e
  <2>7. /\ e.x0 \in Int /\ e.x1 \in Int /\ e.y0 \in Int /\ e.y1 \in Int
        /\ ext[k].x0 \in Int /\ ext[k].x1 \in Int /\ ext[k].y0 \in Int /\ ext[k].y1 \in Int
    BY <2>4, <2>6 DEF Box
  <2>8. e.x0 = ext[k].x0 /\ e.x1 = ext[k].x1 /\ e.y0 = ext[k].y0 /\ e.y1 = ext[k].y1
    BY <2>3, <2>6, <2>7
  <2>9. e = ext[k]
    BY <2>4, <2>6, <2>8 DEF Box
  <2>10. QED BY <2>9 DEF e
<1>7. ASSUME NoArray, NEW k \in DOMAIN ext
      PROVE  Gds!BoxOf(ext[k], Gds!Points(Gds!On(k[1], k[2], "BOUNDARY")))
  BY <1>1, <1>3, <1>5, <1>7 DEF Boxed
<1>8. ASSUME NoArray
      PROVE  Gds!BoxOf(allb, Gds!Points({k \in DOMAIN stream : stream[k].kind = "BOUNDARY"}))
  BY <1>1, <1>3, <1>8 DEF Boxed, Boundaries
<1>9. QED BY <1>4, <1>6, <1>7, <1>8
-----------------------------------------------------------------------------
(* check-l2, check-l1, gdsdump and bbox: for any corners, macros, items    *)
(* and elements, whatever order the reports are written and read in, what  *)
(* passes is closed timing and violations inside the macros, and the boxes *)
(* and counts are those of the boundaries and paths.                       *)
THEOREM Earned == Spec => []SignoffIsEarned
<1>1. CornersRead /\ Counted /\ LayoutRead => SignoffIsEarned
  BY TimingEarned, TriageEarned, LayoutEarned DEF SignoffIsEarned
<1>2. QED BY <1>1, Runs, TimingInit, TimingSteps, TriageInit, TriageSteps, LayoutInit,
             LayoutSteps, PTL
-----------------------------------------------------------------------------
(* Induction: what passes from a number to the next holds of an interval,  *)
(* and a function over an interval may be defined from place to place.     *)

(* A set of naturals that is not empty has a least member.                 *)
LEMMA LeastNatural ==
  ASSUME NEW S \in SUBSET Nat, S # {}
  PROVE  \E m \in S : \A k \in S : m <= k
<1> DEFINE R == StrictSubsetOrdering(Nat)
           T == {0 .. n : n \in S}
<1>1. T \subseteq FiniteSubsetsOf(Nat) /\ T # {}
  <2>1. \A n \in Nat : IsFiniteSet(0 .. n) /\ 0 .. n \in SUBSET Nat
    BY FS_Interval
  <2>2. QED BY <2>1 DEF FiniteSubsetsOf
<1>2. PICK x \in T : \A y \in T : ~(<<y, x>> \in R)
  <2>1. IsWellFoundedOn(R, FiniteSubsetsOf(Nat))
    BY FS_StrictSubsetOrderingWellFounded
  <2> HIDE DEF R, T
  <2>2. QED BY <1>1, <2>1, WFMin
<1>3. PICK m \in S : x = 0 .. m
  OBVIOUS
<1>4. ASSUME NEW k \in S, k < m PROVE FALSE
  <2>1. k \in Nat /\ m \in Nat
    OBVIOUS
  <2>2. 0 .. k \subseteq 0 .. m /\ m \in 0 .. m /\ m \notin 0 .. k
    BY <1>4, <2>1
  <2>3. <<0 .. k, 0 .. m>> \in R
    <3>1. 0 .. k \in SUBSET Nat /\ 0 .. m \in SUBSET Nat /\ 0 .. k # 0 .. m
      BY <2>1, <2>2
    <3>2. QED BY <2>2, <3>1 DEF StrictSubsetOrdering
  <2>4. 0 .. k \in T
    OBVIOUS
  <2>5. QED BY <1>2, <1>3, <2>3, <2>4
<1>5. QED
  <2>1. \A k \in S : k \in Nat /\ m \in Nat /\ ~(k < m)
    BY <1>4
  <2>2. QED BY <2>1

(* A property that passes from each place of a .. b to the next.           *)
LEMMA UpTo ==
  ASSUME NEW a \in Nat, NEW b \in Nat, NEW S \in SUBSET (a .. b),
         a <= b => a \in S,
         \A k \in a + 1 .. b : k - 1 \in S => k \in S
  PROVE  S = a .. b
<1> DEFINE T == (a .. b) \ S
<1>1. SUFFICES ASSUME T # {} PROVE FALSE
  OBVIOUS
<1>2. PICK m \in T : \A k \in T : m <= k
  <2>1. T \in SUBSET Nat
    OBVIOUS
  <2> HIDE DEF T
  <2>2. QED BY <1>1, <2>1, LeastNatural
<1>3. m \in a + 1 .. b /\ m - 1 \in a .. b
  OBVIOUS
<1>4. m - 1 \in S
  BY <1>2, <1>3
<1>5. QED BY <1>3, <1>4

(* What a function is at a place is given by what it is at the one before. *)
Follows(f, n, v, step) == f[0] = v /\ \A k \in 1 .. n : f[k] = step[k][f[k - 1]]

(* There is a function that starts with v and takes every step.            *)
LEMMA ByRecursion ==
  ASSUME NEW n \in Nat, NEW V, NEW v \in V, NEW step \in [1 .. n -> [V -> V]]
  PROVE  \E f \in [0 .. n -> V] : Follows(f, n, v, step)
<1> DEFINE Good(m, f) == f[0] = v /\ \A k \in 1 .. m : f[k] = step[k][f[k - 1]]
           S == {m \in 0 .. n : \E f \in [0 .. m -> V] : Good(m, f)}
<1>1. 0 \in S
  <2> DEFINE h == [k \in 0 .. 0 |-> v]
  <2>1. Good(0, h) /\ h \in [0 .. 0 -> V]
    OBVIOUS
  <2> HIDE DEF h, Good
  <2>2. \E f \in [0 .. 0 -> V] : Good(0, f)
    BY <2>1
  <2>3. QED BY <2>2
<1>2. ASSUME NEW m \in 1 .. n, m - 1 \in S PROVE m \in S
  <2>1. PICK f \in [0 .. m - 1 -> V] : Good(m - 1, f)
    BY <1>2
  <2> DEFINE g == [k \in 0 .. m |-> IF k = m THEN step[m][f[m - 1]] ELSE f[k]]
  <2>2. g \in [0 .. m -> V]
    <3>1. f[m - 1] \in V
      OBVIOUS
    <3>2. step[m][f[m - 1]] \in V
      BY <3>1
    <3>3. \A k \in 0 .. m : k # m => k \in 0 .. m - 1
      OBVIOUS
    <3>4. QED BY <3>2, <3>3
  <2>3. Good(m, g)
    <3>1. g[0] = v
      BY <2>1
    <3>2. ASSUME NEW k \in 1 .. m PROVE g[k] = step[k][g[k - 1]]
      <4>1. k - 1 \in 0 .. m /\ k - 1 # m /\ g[k - 1] = f[k - 1]
        OBVIOUS
      <4>2. CASE k = m
        <5>1. g[m] = step[m][f[m - 1]] /\ g[m - 1] = f[m - 1]
          BY <4>1, <4>2
        <5> HIDE DEF g
        <5>2. QED BY <4>2, <5>1
      <4>3. CASE k # m
        <5>1. k \in 1 .. m - 1
          BY <4>3
        <5>2. g[k] = f[k]
          BY <4>3
        <5>3. QED BY <2>1, <4>1, <5>1, <5>2
      <4>4. QED BY <4>2, <4>3
    <3>3. QED BY <3>1, <3>2
  <2> HIDE DEF g, Good
  <2>4. \E h \in [0 .. m -> V] : Good(m, h)
    BY <2>2, <2>3
  <2>5. QED BY <2>4
<1>3. S = 0 .. n
  <2> HIDE DEF S
  <2>1. S \in SUBSET (0 .. n)
    BY DEF S
  <2>2. \A m \in 0 + 1 .. n : m - 1 \in S => m \in S
    BY <1>2
  <2>3. QED BY <1>1, <2>1, <2>2, UpTo
<1>4. \E f \in [0 .. n -> V] : Good(n, f)
  <2> HIDE DEF Good
  <2>1. n \in 0 .. n
    OBVIOUS
  <2>2. \A m \in S : \E f \in [0 .. m -> V] : Good(m, f)
    OBVIOUS
  <2> HIDE DEF S
  <2>3. n \in S
    BY <1>3, <2>1
  <2>4. QED BY <2>2, <2>3, Zenon
<1>5. QED BY <1>4 DEF Follows
-----------------------------------------------------------------------------
(* check-l4.py: what Verilog reads after a token.                          *)
Modes == {"code", "line", "block"}

ReadOn(before, token) ==
  IF \/ token = "eof"
     \/ before = "line" /\ token = "newline"
     \/ before = "block" /\ token = "*/"
  THEN "code"
  ELSE IF before = "code" /\ token = "//" THEN "line"
  ELSE IF before = "code" /\ token = "/*" THEN "block" ELSE before

(* The mark at k has an end mark after it in its file.                     *)
Closed(k) == \E j \in k + 1 .. Len(cone) : cone[j] = "*/" /\ Cone!SameFile(k, j)

LEMMA TokensOfTheText ==
  ASSUME cone \in Seq(Cone!Tokens)
  PROVE  /\ Len(cone) \in Nat /\ DOMAIN cone = 1 .. Len(cone)
         /\ \A k \in 1 .. Len(cone) : cone[k] \in Cone!Tokens
BY LenProperties, ElementOfSeq

(* Both readings of the text go as their definitions say, step by step.    *)
LEMMA ReadingFollows ==
  ASSUME cone \in Seq(Cone!Tokens)
  PROVE  /\ Cone!Reading \in [0 .. Len(cone) -> Modes]
         /\ Cone!Reading[0] = "code"
         /\ \A k \in 1 .. Len(cone) : Cone!Reading[k] = ReadOn(Cone!Reading[k - 1], cone[k])
<1> DEFINE n == Len(cone)
           step == [k \in 1 .. n |-> [r \in Modes |-> ReadOn(r, cone[k])]]
           start == "code"
           next(r, k) == CASE cone[k] = "eof" -> "code"
                           [] r = "line" /\ cone[k] = "newline" -> "code"
                           [] r = "block" /\ cone[k] = "*/" -> "code"
                           [] r = "code" /\ cone[k] = "//" -> "line"
                           [] r = "code" /\ cone[k] = "/*" -> "block"
                           [] OTHER -> r
           P(r) == r = [k \in 0 .. n |-> IF k = 0 THEN "code" ELSE next(r[k - 1], k)]
<1>1. n \in Nat
  BY TokensOfTheText
<1>2. ASSUME NEW r \in Modes, NEW k \in 1 .. n PROVE next(r, k) = ReadOn(r, cone[k])
  <2>1. CASE cone[k] = "eof"
    BY <2>1 DEF ReadOn
  <2>2. CASE cone[k] = "newline"
    BY <2>2 DEF Modes, ReadOn
  <2>3. CASE cone[k] = "*/"
    BY <2>3 DEF Modes, ReadOn
  <2>4. CASE cone[k] = "//"
    BY <2>4 DEF Modes, ReadOn
  <2>5. CASE cone[k] = "/*"
    BY <2>5 DEF Modes, ReadOn
  <2>6. CASE cone[k] \notin Cone!Marks
    BY <2>6 DEF Modes, ReadOn, Cone!Marks
  <2>7. QED BY <2>1, <2>2, <2>3, <2>4, <2>5, <2>6 DEF Cone!Marks
<1>3. \E f : P(f)
  <2>1. step \in [1 .. n -> [Modes -> Modes]] /\ start \in Modes
    BY DEF Modes, ReadOn
  <2>2. PICK f \in [0 .. n -> Modes] : f[0] = start /\ \A k \in 1 .. n : f[k] = step[k][f[k - 1]]
    <3> HIDE DEF step, n, start
    <3>1. \E f \in [0 .. n -> Modes] : Follows(f, n, start, step)
      BY <1>1, <2>1, ByRecursion
    <3>2. QED BY <3>1 DEF Follows
  <2>3. \A k \in 1 .. n : k - 1 \in 0 .. n /\ f[k - 1] \in Modes
    BY <1>1
  <2>4. \A k \in 1 .. n : f[k] = next(f[k - 1], k)
    <3> HIDE DEF next
    <3>1. QED BY <1>2, <2>2, <2>3
  <2>5. f = [k \in 0 .. n |-> IF k = 0 THEN "code" ELSE next(f[k - 1], k)]
    <3> HIDE DEF next
    <3>1. QED BY <1>1, <2>2, <2>4
  <2>6. P(f)
    BY <2>5
  <2> HIDE DEF P
  <2>7. QED BY <2>6
<1>4. Cone!Reading = CHOOSE r : P(r)
  BY DEF Cone!Reading
<1>5. P(Cone!Reading)
  <2> HIDE DEF P
  <2>1. QED BY <1>3, <1>4
<1>6. /\ Cone!Reading[0] = "code" /\ DOMAIN Cone!Reading = 0 .. n
      /\ \A k \in 1 .. n : Cone!Reading[k] = next(Cone!Reading[k - 1], k)
  <2> HIDE DEF next
  <2>1. QED BY <1>1, <1>5
<1>7. \A k \in 0 .. n : Cone!Reading[k] \in Modes
  <2> DEFINE S == {k \in 0 .. n : Cone!Reading[k] \in Modes}
  <2>1. 0 \in S
    BY <1>1, <1>6 DEF Modes
  <2>2. \A k \in 0 + 1 .. n : k - 1 \in S => k \in S
    <3> HIDE DEF next
    <3>1. \A r \in Modes : \A k \in 1 .. n : next(r, k) \in Modes
      BY <1>2 DEF Modes, ReadOn
    <3>2. QED BY <1>1, <1>6, <3>1
  <2>3. S = 0 .. n
    <3> HIDE DEF S
    <3>1. S \in SUBSET (0 .. n)
      BY DEF S
    <3>2. QED BY <1>1, <2>1, <2>2, <3>1, UpTo
  <2>4. QED BY <2>3
<1>8. \A k \in 1 .. n : Cone!Reading[k] = ReadOn(Cone!Reading[k - 1], cone[k])
  <2> HIDE DEF next
  <2>1. QED BY <1>1, <1>2, <1>6, <1>7
<1>9. Cone!Reading = [k \in 0 .. n |-> Cone!Reading[k]]
  <2> HIDE DEF next
  <2>1. QED BY <1>5
<1>10. QED BY <1>6, <1>7, <1>8, <1>9

LEMMA InBlockFollows ==
  ASSUME cone \in Seq(Cone!Tokens)
  PROVE  /\ Cone!InBlock \in [0 .. Len(cone) -> BOOLEAN]
         /\ Cone!InBlock[0] = FALSE
         /\ \A k \in 1 .. Len(cone) :
              Cone!InBlock[k] <=> IF Cone!InBlock[k - 1] THEN cone[k] # "*/"
                                  ELSE cone[k] = "/*" /\ Closed(k)
<1> DEFINE n == Len(cone)
           next(b, k) == IF b THEN cone[k] # "*/" ELSE cone[k] = "/*" /\ Closed(k)
           step == [k \in 1 .. n |-> [b \in BOOLEAN |-> next(b, k)]]
           start == FALSE
           P(b) == b = [k \in 0 .. n |-> IF k = 0 THEN FALSE ELSE next(b[k - 1], k)]
<1>1. n \in Nat
  BY TokensOfTheText
<1>2. \A b, k : next(b, k) \in BOOLEAN
  OBVIOUS
<1>3. \E f : P(f)
  <2>1. step \in [1 .. n -> [BOOLEAN -> BOOLEAN]] /\ start \in BOOLEAN
    <3> HIDE DEF next, n
    <3>1. QED BY <1>2
  <2>2. PICK f \in [0 .. n -> BOOLEAN] : f[0] = start /\ \A k \in 1 .. n : f[k] = step[k][f[k - 1]]
    <3> HIDE DEF step, n, start
    <3>1. \E f \in [0 .. n -> BOOLEAN] : Follows(f, n, start, step)
      BY <1>1, <2>1, ByRecursion
    <3>2. QED BY <3>1 DEF Follows
  <2>3. \A k \in 1 .. n : k - 1 \in 0 .. n /\ f[k - 1] \in BOOLEAN
    BY <1>1
  <2>4. ASSUME NEW k \in 1 .. n PROVE f[k] = next(f[k - 1], k)
    <3> HIDE DEF next
    <3>1. step[k][f[k - 1]] = next(f[k - 1], k)
      BY <2>3
    <3>2. QED BY <2>2, <3>1
  <2>5. f = [k \in 0 .. n |-> IF k = 0 THEN FALSE ELSE next(f[k - 1], k)]
    <3> HIDE DEF next
    <3>1. QED BY <1>1, <2>2, <2>4
  <2>6. P(f)
    BY <2>5
  <2> HIDE DEF P
  <2>7. QED BY <2>6
<1>4. Cone!InBlock = CHOOSE b : P(b)
  BY DEF Cone!InBlock, Closed
<1>5. P(Cone!InBlock)
  <2> HIDE DEF P
  <2>1. QED BY <1>3, <1>4
<1>6. /\ Cone!InBlock[0] = FALSE
      /\ \A k \in 1 .. n : Cone!InBlock[k] = next(Cone!InBlock[k - 1], k)
  <2> HIDE DEF next
  <2>1. QED BY <1>1, <1>5
<1>7. Cone!InBlock \in [0 .. n -> BOOLEAN]
  <2> HIDE DEF next
  <2>1. \A k \in 0 .. n : (IF k = 0 THEN FALSE ELSE next(Cone!InBlock[k - 1], k)) \in BOOLEAN
    BY <1>2
  <2>2. QED BY <1>5, <2>1
<1>8. QED BY <1>6, <1>7

(* The text when the emitter is done: it ends with an "eof".               *)
Whole == cone \in Seq(Cone!Tokens) /\ cone # <<>> /\ cone[Len(cone)] = "eof"

Block(k) == Cone!Reading[k] = "block"

(* What opens a block in a file Verilog accepts is closed in it.           *)
LEMMA BlocksClose ==
  ASSUME Whole, Cone!Plain, NEW k \in 1 .. Len(cone), cone[k] = "/*", Block(k)
  PROVE  Closed(k)
<1> DEFINE n == Len(cone)
           R == Cone!Reading
           E == {j \in k + 1 .. n : cone[j] \in {"*/", "eof"}}
<1>1. n \in Nat /\ cone[n] = "eof" /\ k < n /\ DOMAIN cone = 1 .. n
  BY TokensOfTheText DEF Whole
<1>2. PICK j \in E : \A i \in E : j <= i
  <2>1. E \in SUBSET Nat /\ E # {}
    BY <1>1
  <2> HIDE DEF E
  <2>2. QED BY <2>1, LeastNatural
<1>3. \A i \in 1 .. n : R[i] = ReadOn(R[i - 1], cone[i])
  BY ReadingFollows DEF Whole
<1>4. k .. j - 1 = {i \in k .. j - 1 : Block(i)}
  <2> DEFINE S == {i \in k .. j - 1 : Block(i)}
  <2>1. k \in S
    BY <1>1
  <2>2. ASSUME NEW i \in k + 1 .. j - 1, i - 1 \in S PROVE i \in S
    <3>1. i \in 1 .. n /\ i \notin E /\ i \in k + 1 .. n
      BY <1>1, <1>2
    <3>2. cone[i] \notin {"*/", "eof"} /\ R[i - 1] = "block"
      BY <2>2, <3>1 DEF Block
    <3>3. R[i] = "block"
      BY <1>3, <3>1, <3>2 DEF ReadOn
    <3>4. QED BY <3>3 DEF Block
  <2>3. S = k .. j - 1
    <3>1. S \in SUBSET (k .. j - 1) /\ k \in Nat /\ j - 1 \in Nat
      BY <1>1
    <3> HIDE DEF S
    <3>2. QED BY <2>1, <2>2, <3>1, UpTo
  <2>4. QED BY <2>3
<1>5. R[j - 1] = "block"
  <2>1. j - 1 \in k .. j - 1
    BY <1>1
  <2>2. QED BY <1>4, <2>1 DEF Block
<1>6. cone[j] = "*/"
  BY <1>1, <1>2, <1>5 DEF Cone!Plain
<1>7. \A i \in k .. j - 1 : cone[i] # "eof"
  <2>1. SUFFICES ASSUME NEW i \in k .. j - 1, cone[i] = "eof" PROVE FALSE
    OBVIOUS
  <2>2. i \in k + 1 .. n /\ i < j
    BY <1>1, <2>1
  <2>3. QED BY <1>2, <2>1, <2>2
<1>8. QED BY <1>2, <1>6, <1>7 DEF Closed, Cone!SameFile

(* The first substitution takes out what Verilog reads as block comments.  *)
LEMMA BlocksAreBlocks ==
  ASSUME Whole, Cone!Plain
  PROVE  \A k \in 0 .. Len(cone) : Cone!InBlock[k] <=> Block(k)
<1> DEFINE n == Len(cone)
           R == Cone!Reading
           B == Cone!InBlock
           S == {k \in 0 .. n : B[k] <=> Block(k)}
<1>1. n \in Nat /\ DOMAIN cone = 1 .. n
  BY TokensOfTheText DEF Whole
<1>2. /\ R[0] = "code" /\ \A k \in 0 .. n : R[k] \in Modes
      /\ \A k \in 1 .. n : R[k] = ReadOn(R[k - 1], cone[k])
  BY ReadingFollows DEF Whole
<1>3. /\ B[0] = FALSE /\ \A k \in 0 .. n : B[k] \in BOOLEAN
      /\ \A k \in 1 .. n : B[k] <=> IF B[k - 1] THEN cone[k] # "*/" ELSE cone[k] = "/*" /\ Closed(k)
  BY InBlockFollows DEF Whole
<1>4. 0 \in S
  BY <1>1, <1>2, <1>3 DEF Block
<1>5. ASSUME NEW k \in 0 + 1 .. n, k - 1 \in S PROVE k \in S
  <2>1. k \in 1 .. n /\ k - 1 \in 0 .. n /\ (B[k - 1] <=> R[k - 1] = "block")
    BY <1>5 DEF Block
  <2>2. /\ R[k] = ReadOn(R[k - 1], cone[k]) /\ R[k - 1] \in Modes
        /\ B[k] <=> IF B[k - 1] THEN cone[k] # "*/" ELSE cone[k] = "/*" /\ Closed(k)
    BY <1>2, <1>3, <2>1
  <2>3. /\ cone[k] = "eof" => R[k - 1] # "block"
        /\ cone[k] = "/*" => R[k - 1] # "line"
    BY <1>1, <2>1 DEF Cone!Plain
  <2>4. CASE R[k - 1] = "block"
    BY <2>1, <2>2, <2>3, <2>4 DEF ReadOn, Block
  <2>5. CASE R[k - 1] # "block" /\ cone[k] = "/*"
    <3>1. R[k] = "block"
      BY <2>2, <2>3, <2>5 DEF ReadOn, Modes
    <3>2. Closed(k)
      BY <2>1, <2>5, <3>1, BlocksClose DEF Block
    <3>3. QED BY <2>1, <2>2, <2>5, <3>1, <3>2 DEF Block
  <2>6. CASE R[k - 1] # "block" /\ cone[k] # "/*"
    <3>1. R[k] # "block"
      BY <2>2, <2>6 DEF ReadOn
    <3>2. QED BY <2>1, <2>2, <2>6, <3>1 DEF Block
  <2>7. QED BY <2>4, <2>5, <2>6
<1>6. S = 0 .. n
  <2>1. S \in SUBSET (0 .. n)
    OBVIOUS
  <2> HIDE DEF S
  <2>2. QED BY <1>1, <1>4, <1>5, <2>1, UpTo
<1>7. QED BY <1>6

(* The second takes out, of what the first has left, the line comments.    *)
LEMMA LinesAreLines ==
  ASSUME Whole, Cone!Plain, NEW k \in Cone!WithoutBlocks
  PROVE  Cone!Commented(Cone!WithoutBlocks, k) <=> Cone!Reading[k] = "line"
<1> DEFINE n == Len(cone)
           R == Cone!Reading
           kept == Cone!WithoutBlocks
<1>1. n \in Nat /\ DOMAIN cone = 1 .. n
  BY TokensOfTheText DEF Whole
<1>2. /\ R[0] = "code" /\ \A i \in 0 .. n : R[i] \in Modes
      /\ \A i \in 1 .. n : R[i] = ReadOn(R[i - 1], cone[i])
  BY ReadingFollows DEF Whole
<1>3. kept = {i \in 1 .. n : R[i - 1] # "block" /\ R[i] # "block"}
  <2>1. \A i \in 1 .. n : i - 1 \in 0 .. n /\ i \in 0 .. n
    BY <1>1
  <2>2. QED BY <1>1, <2>1, BlocksAreBlocks DEF Cone!WithoutBlocks, Block
<1>4. ASSUME NEW j \in kept, j <= k, cone[j] = "//", Cone!LineEnds(kept) \cap j .. k = {}
      PROVE  R[k] = "line"
  <2> DEFINE S == {i \in j .. k : R[i] = "line"}
  <2>1. j \in S
    <3>1. j \in 1 .. n /\ j - 1 \in 0 .. n /\ R[j - 1] # "block"
      BY <1>1, <1>3
    <3>2. R[j] = "line"
      BY <1>2, <1>4, <3>1 DEF ReadOn, Modes
    <3>3. QED BY <1>4, <3>1, <3>2
  <2>2. ASSUME NEW i \in j + 1 .. k, i - 1 \in S PROVE i \in S
    <3>1. i \in 1 .. n /\ i \in j .. k /\ R[i - 1] = "line"
      BY <1>1, <1>3, <2>2
    <3>2. R[i] = ReadOn("line", cone[i])
      BY <1>2, <3>1
    <3>3. R[i] # "block"
      BY <3>2 DEF ReadOn
    <3>4. i \in kept
      BY <1>3, <3>1, <3>3
    <3>5. cone[i] \notin {"newline", "eof"}
      BY <1>4, <3>1, <3>4 DEF Cone!LineEnds
    <3>6. QED BY <3>1, <3>2, <3>5 DEF ReadOn
  <2>3. S = j .. k
    <3>1. S \in SUBSET (j .. k) /\ j \in Nat /\ k \in Nat
      BY <1>1, <1>3
    <3> HIDE DEF S
    <3>2. QED BY <2>1, <2>2, <3>1, UpTo
  <2>4. k \in j .. k
    BY <1>1, <1>3, <1>4
  <2>5. QED BY <2>3, <2>4
<1>5. ASSUME R[k] = "line" PROVE Cone!Commented(kept, k)
  <2> DEFINE Opened(i) == \E j \in 1 .. i :
               /\ cone[j] = "//" /\ R[j - 1] = "code"
               /\ \A h \in j .. i : R[h] = "line"
             S == {i \in 0 .. n : R[i] = "line" => Opened(i)}
  <2>1. 0 \in S
    BY <1>1, <1>2
  <2>2. ASSUME NEW i \in 0 + 1 .. n, i - 1 \in S PROVE i \in S
    <3>1. SUFFICES ASSUME R[i] = "line" PROVE Opened(i)
      BY <1>1
    <3>2. i \in 1 .. n /\ i - 1 \in 0 .. n /\ R[i] = ReadOn(R[i - 1], cone[i]) /\ R[i - 1] \in Modes
      BY <1>1, <1>2
    <3>3. CASE R[i - 1] = "line"
      <4>1. PICK j \in 1 .. i - 1 : /\ cone[j] = "//" /\ R[j - 1] = "code"
                                    /\ \A h \in j .. i - 1 : R[h] = "line"
        BY <2>2, <3>3
      <4>2. j \in 1 .. i /\ \A h \in j .. i : h = i \/ h \in j .. i - 1
        BY <3>2
      <4>3. QED BY <3>1, <4>1, <4>2
    <3>4. CASE R[i - 1] # "line"
      <4>1. R[i - 1] = "code" /\ cone[i] = "//"
        BY <3>1, <3>2, <3>4 DEF ReadOn, Modes
      <4>2. i \in 1 .. i /\ \A h \in i .. i : h = i
        BY <3>2
      <4>3. QED BY <3>1, <4>1, <4>2
    <3>5. QED BY <3>3, <3>4
  <2>3. S = 0 .. n
    <3>1. S \in SUBSET (0 .. n)
      OBVIOUS
    <3> HIDE DEF S
    <3>2. QED BY <1>1, <2>1, <2>2, <3>1, UpTo
  <2>4. PICK j \in 1 .. k : /\ cone[j] = "//" /\ R[j - 1] = "code"
                            /\ \A h \in j .. k : R[h] = "line"
    <3>1. k \in 0 .. n
      BY <1>1, <1>3
    <3> HIDE DEF Opened
    <3>2. k \in S
      BY <2>3, <3>1
    <3>3. Opened(k)
      BY <1>5, <3>2
    <3>4. QED BY <3>3 DEF Opened
  <2>5. j \in kept /\ j <= k
    <3>1. j \in 1 .. n /\ j \in j .. k
      BY <1>1, <1>3
    <3>2. R[j] = "line"
      BY <2>4, <3>1
    <3>3. QED BY <1>3, <2>4, <3>1, <3>2
  <2>6. ASSUME NEW i \in Cone!LineEnds(kept) \cap j .. k PROVE FALSE
    <3>1. i \in 1 .. n /\ cone[i] \in {"newline", "eof"} /\ R[i] = "line"
      BY <1>3, <2>4 DEF Cone!LineEnds
    <3>2. i - 1 \in 0 .. n /\ R[i] = ReadOn(R[i - 1], cone[i]) /\ R[i - 1] \in Modes
      BY <1>1, <1>2, <3>1
    <3>3. QED BY <3>1, <3>2 DEF ReadOn, Modes
  <2>7. QED BY <2>4, <2>5, <2>6 DEF Cone!Commented
<1>6. QED BY <1>4, <1>5 DEF Cone!Commented

(* What is left of an accepted file are its code and the ends of its lines.*)
LEMMA TheRestIsCode ==
  ASSUME Whole, Cone!Plain
  PROVE  /\ Cone!Stripped \subseteq 1 .. Len(cone) /\ Cone!Code \subseteq 1 .. Len(cone)
         /\ \A k \in 1 .. Len(cone) : cone[k] \notin Cone!Marks =>
              (k \in Cone!Stripped <=> k \in Cone!Code)
         /\ Cone!LineEnds(Cone!Stripped) = {k \in 1 .. Len(cone) : Cone!LineEnd(k)}
<1> DEFINE n == Len(cone)
           R == Cone!Reading
<1>1. n \in Nat /\ DOMAIN cone = 1 .. n /\ \A i \in 1 .. n : i - 1 \in 0 .. n /\ i \in 0 .. n
  BY TokensOfTheText DEF Whole
<1>2. /\ R[0] = "code" /\ \A i \in 0 .. n : R[i] \in Modes
      /\ \A i \in 1 .. n : R[i] = ReadOn(R[i - 1], cone[i])
  BY ReadingFollows DEF Whole
<1>3. Cone!WithoutBlocks = {i \in 1 .. n : R[i - 1] # "block" /\ R[i] # "block"}
  BY <1>1, BlocksAreBlocks DEF Cone!WithoutBlocks, Block
<1>4. Cone!Stripped = {i \in 1 .. n : R[i - 1] # "block" /\ R[i] = "code"}
  <2>1. Cone!Stripped = {i \in Cone!WithoutBlocks : R[i] # "line"}
    BY LinesAreLines DEF Cone!Stripped
  <2>2. \A i \in 1 .. n : R[i] = "code" <=> R[i] # "block" /\ R[i] # "line"
    BY <1>1, <1>2 DEF Modes
  <2>3. QED BY <1>3, <2>1, <2>2
<1>5. Cone!Code = {i \in 1 .. n : R[i - 1] = "code" /\ R[i] = "code"}
  BY <1>1 DEF Cone!Code
<1>6. ASSUME NEW k \in 1 .. n, cone[k] \notin Cone!Marks
      PROVE  k \in Cone!Stripped <=> k \in Cone!Code
  <2>1. R[k] = R[k - 1] /\ R[k] \in Modes
    BY <1>1, <1>2, <1>6 DEF ReadOn, Cone!Marks
  <2>2. QED BY <1>4, <1>5, <2>1
<1>7. ASSUME NEW k \in 1 .. n
      PROVE  k \in Cone!LineEnds(Cone!Stripped) <=> Cone!LineEnd(k)
  <2>1. cone[k] = "eof" => R[k - 1] # "block"
    BY <1>1 DEF Cone!Plain
  <2>2. R[k] = ReadOn(R[k - 1], cone[k])
    BY <1>2
  <2>3. cone[k] = "newline" /\ R[k] = "code" => R[k - 1] # "block"
    BY <2>2 DEF ReadOn
  <2>4. QED BY <1>4, <2>1, <2>3 DEF Cone!LineEnds, Cone!LineEnd
<1>8. Cone!LineEnds(Cone!Stripped) \subseteq 1 .. n
  BY <1>4 DEF Cone!LineEnds
<1>9. QED BY <1>4, <1>5, <1>6, <1>7, <1>8

(* The verdicts that were taken, each on the text as it was stripped.      *)
TextRead ==
  /\ cone \in Seq(Cone!Tokens)
  /\ census = "none" => xidiom = "none"
  /\ census # "none" =>
       /\ Whole
       /\ census = "PASS" <=>
            Cone!Found("dark") = {} /\ Cone!Cardinality(Cone!Found("always @*")) = 1
  /\ xidiom # "none" => (xidiom = "PASS" <=> Cone!Offenders = {})

LEMMA TextInit == Cone!Init => TextRead
BY EmptySeq DEF Cone!Init, TextRead

LEMMA TextSteps ==
  ASSUME TextRead, [Cone!Next]_(Cone!vars)
  PROVE  TextRead'
<1>1. ASSUME cone' = cone
      PROVE  /\ \A token : Cone!Found(token)' = Cone!Found(token)
             /\ Cone!Offenders' = Cone!Offenders /\ Whole' = Whole
             /\ (cone \in Seq(Cone!Tokens))' <=> cone \in Seq(Cone!Tokens)
  <2>1. Cone!InBlock' = Cone!InBlock
    BY <1>1, SMT DEF Cone!InBlock, Cone!SameFile
  <2>2. \A token : Cone!Found(token)' = Cone!Found(token)
    BY <1>1, <2>1 DEF Cone!Found, Cone!Stripped, Cone!WithoutBlocks, Cone!Commented, Cone!LineEnds
  <2>3. Cone!Offenders' = Cone!Offenders
    BY <1>1, <2>1 DEF Cone!Offenders, Cone!Found, Cone!Stripped, Cone!WithoutBlocks,
                      Cone!Commented, Cone!LineEnds
  <2>4. QED BY <1>1, <2>2, <2>3 DEF Whole
<1>2. CASE UNCHANGED Cone!vars
  <2>1. cone' = cone /\ census' = census /\ xidiom' = xidiom
    BY <1>2 DEF Cone!vars
  <2>2. QED BY <1>1, <2>1 DEF TextRead
<1>3. ASSUME NEW token \in Cone!Tokens, Cone!Emit(token) PROVE TextRead'
  <2>1. /\ cone' = Append(cone, token) /\ census' = "none" /\ xidiom' = "none"
        /\ cone \in Seq(Cone!Tokens)
    BY <1>3 DEF Cone!Emit, TextRead
  <2>2. cone' \in Seq(Cone!Tokens)
    BY <2>1, AppendProperties
  <2>3. QED BY <2>1, <2>2 DEF TextRead
<1>4. CASE Cone!Census
  <2>1. /\ cone' = cone /\ xidiom' = "none" /\ cone # <<>> /\ cone[Len(cone)] = "eof"
        /\ census' = IF /\ Cone!Found("dark") = {}
                        /\ Cone!Cardinality(Cone!Found("always @*")) = 1
                     THEN "PASS" ELSE "FAIL"
    BY <1>4 DEF Cone!Census, Cone!Last, TextRead
  <2>2. census' # "none" /\ Whole
    BY <2>1 DEF Whole, TextRead
  <2>3. QED BY <1>1, <2>1, <2>2 DEF TextRead
<1>5. CASE Cone!XIdiom
  <2>1. /\ cone' = cone /\ census' = census /\ census # "none"
        /\ xidiom' = IF Cone!Offenders = {} THEN "PASS" ELSE "FAIL"
    BY <1>5 DEF Cone!XIdiom
  <2>2. QED BY <1>1, <2>1 DEF TextRead
<1>6. QED BY <1>2, <1>3, <1>4, <1>5 DEF Cone!Next

LEMMA OnCode == ASSUME TextRead PROVE Cone!VerdictsAreOnCode
<1> SUFFICES ASSUME Cone!Plain, census # "none"
             PROVE  /\ census = "PASS" <=>
                         /\ \A k \in Cone!Code : cone[k] # "dark"
                         /\ Cone!Cardinality({k \in Cone!Code : cone[k] = "always @*"}) = 1
                    /\ xidiom # "none" =>
                         (xidiom = "PASS" <=>
                            \A k \in Cone!Code : cone[k] = "x" =>
                              \E j \in Cone!Code : cone[j] = "Memory[" /\ Cone!SameLine(j, k))
  BY DEF Cone!VerdictsAreOnCode, TextRead
<1> DEFINE n == Len(cone)
<1>1. Whole /\ n \in Nat
  BY TokensOfTheText DEF TextRead, Whole
<1>2. /\ Cone!Stripped \subseteq 1 .. n /\ Cone!Code \subseteq 1 .. n
      /\ \A k \in 1 .. n : cone[k] \notin Cone!Marks => (k \in Cone!Stripped <=> k \in Cone!Code)
      /\ Cone!LineEnds(Cone!Stripped) = {k \in 1 .. n : Cone!LineEnd(k)}
  BY <1>1, TheRestIsCode
<1>3. ASSUME NEW token \in {"dark", "always @*", "x", "Memory["}
      PROVE  Cone!Found(token) = {k \in Cone!Code : cone[k] = token}
  <2>1. token \notin Cone!Marks
    BY DEF Cone!Marks
  <2>2. QED BY <1>2, <2>1 DEF Cone!Found
<1>4. census = "PASS" <=>
        /\ \A k \in Cone!Code : cone[k] # "dark"
        /\ Cone!Cardinality({k \in Cone!Code : cone[k] = "always @*"}) = 1
  <2>1. census = "PASS" <=>
          Cone!Found("dark") = {} /\ Cone!Cardinality(Cone!Found("always @*")) = 1
    BY DEF TextRead
  <2>2. QED BY <1>3, <2>1
<1>5. ASSUME NEW j \in Cone!Found("Memory["), NEW k \in Cone!Found("x")
      PROVE  (\A i \in Cone!LineEnds(Cone!Stripped) : ~(j < i /\ i < k) /\ ~(k < i /\ i < j))
               <=> Cone!SameLine(j, k)
  <2>1. /\ j \in 1 .. n /\ k \in 1 .. n
        /\ cone[j] = "Memory[" /\ cone[k] = "x"
    BY <1>2, <1>3
  <2>2. ~Cone!LineEnd(j) /\ ~Cone!LineEnd(k)
    BY <2>1 DEF Cone!LineEnd
  <2>3. \A i \in (j .. k) \cup (k .. j) : /\ i \in 1 .. n
                                          /\ \/ i = j \/ i = k
                                             \/ j < i /\ i < k
                                             \/ k < i /\ i < j
    BY <1>1, <2>1
  <2>4. \A i \in 1 .. n : (j < i /\ i < k) \/ (k < i /\ i < j) => i \in (j .. k) \cup (k .. j)
    BY <1>1, <2>1
  <2>5. QED BY <1>2, <2>2, <2>3, <2>4 DEF Cone!SameLine
<1>6. Cone!Offenders = {} <=>
        \A k \in Cone!Code : cone[k] = "x" =>
          \E j \in Cone!Code : cone[j] = "Memory[" /\ Cone!SameLine(j, k)
  <2>1. Cone!Offenders = {k \in Cone!Found("x") :
                            ~\E j \in Cone!Found("Memory[") : Cone!SameLine(j, k)}
    BY <1>5 DEF Cone!Offenders
  <2>2. QED BY <1>3, <2>1
<1>7. QED BY <1>4, <1>6 DEF TextRead

(* check-l4.py: for texts of any length, where Verilog accepts the marks   *)
(* and no line comment has a start mark, the verdicts of the census and of *)
(* the X literals are those of the code.                                   *)
THEOREM JudgedOnCode == Spec => []VerdictsAreOnCode
<1>1. Cone!Init /\ [][Cone!Next]_(Cone!vars) => []TextRead
  BY TextInit, TextSteps, PTL
<1>2. TextRead => VerdictsAreOnCode
  BY OnCode DEF VerdictsAreOnCode
<1>3. QED BY Runs, <1>1, <1>2, PTL
-----------------------------------------------------------------------------
(* A property that passes from each natural number to the next.            *)
LEMMA EveryNatural ==
  ASSUME NEW S, 0 \in S, \A k \in Nat : k \in S => k + 1 \in S
  PROVE  \A k \in Nat : k \in S
<1> DEFINE T == Nat \ S
<1>1. SUFFICES ASSUME T # {} PROVE FALSE
  OBVIOUS
<1>2. PICK m \in T : \A k \in T : m <= k
  <2>1. T \in SUBSET Nat
    OBVIOUS
  <2> HIDE DEF T
  <2>2. QED BY <1>1, <2>1, LeastNatural
<1>3. m - 1 \in Nat /\ m - 1 \notin T /\ (m - 1) + 1 = m
  BY <1>2
<1>4. QED BY <1>3

(* A function over the naturals is given by its first value and a step.    *)
Iterates(f, v, step) == f[0] = v /\ \A k \in Nat : f[k + 1] = step[f[k]]

LEMMA ByRecursionOverNat ==
  ASSUME NEW V, NEW v \in V, NEW step \in [V -> V]
  PROVE  \E f \in [Nat -> V] : Iterates(f, v, step)
<1> DEFINE Good(n, f) == Follows(f, n, v, [k \in 1 .. n |-> step])
           Up(n) == CHOOSE f \in [0 .. n -> V] : Good(n, f)
           g == [n \in Nat |-> Up(n)[n]]
<1>1. ASSUME NEW n \in Nat PROVE Up(n) \in [0 .. n -> V] /\ Good(n, Up(n))
  <2>1. [k \in 1 .. n |-> step] \in [1 .. n -> [V -> V]]
    OBVIOUS
  <2>2. \E f \in [0 .. n -> V] : Good(n, f)
    BY <2>1, ByRecursion
  <2> HIDE DEF Good
  <2>3. QED BY <2>2
<1>2. ASSUME NEW n \in Nat PROVE \A k \in 0 .. n : Up(n)[k] = Up(n + 1)[k]
  <2> DEFINE S == {k \in 0 .. n : Up(n)[k] = Up(n + 1)[k]}
  <2>1. /\ Up(n)[0] = v /\ \A k \in 1 .. n : Up(n)[k] = step[Up(n)[k - 1]]
        /\ Up(n + 1)[0] = v /\ \A k \in 1 .. n : Up(n + 1)[k] = step[Up(n + 1)[k - 1]]
    <3>1. Good(n, Up(n)) /\ Good(n + 1, Up(n + 1))
      <4>1. n + 1 \in Nat
        OBVIOUS
      <4> HIDE DEF Good, Up
      <4>2. QED BY <1>1, <4>1
    <3> HIDE DEF Up
    <3>2. QED BY <3>1 DEF Follows
  <2> HIDE DEF Up
  <2>2. 0 \in S /\ \A k \in 0 + 1 .. n : k - 1 \in S => k \in S
    BY <2>1
  <2>3. S \in SUBSET (0 .. n)
    OBVIOUS
  <2> HIDE DEF S
  <2>4. S = 0 .. n
    BY <2>2, <2>3, UpTo
  <2>5. QED BY <2>4 DEF S
<1>3. ASSUME NEW n \in Nat PROVE g[n + 1] = step[g[n]]
  <2>1. Good(n + 1, Up(n + 1))
    BY <1>1
  <2> HIDE DEF Up
  <2>2. Up(n + 1)[n + 1] = step[Up(n + 1)[n]]
    BY <2>1 DEF Follows
  <2>3. QED BY <1>2, <2>2
<1>4. g \in [Nat -> V] /\ g[0] = v
  <2>1. \A n \in Nat : Up(n) \in [0 .. n -> V]
    BY <1>1
  <2>2. Up(0)[0] = v
    <3>1. Good(0, Up(0))
      BY <1>1
    <3> HIDE DEF Up
    <3>2. QED BY <3>1 DEF Follows
  <2> HIDE DEF Up
  <2>3. QED BY <2>1, <2>2
<1> HIDE DEF g
<1>5. Iterates(g, v, step)
  BY <1>3, <1>4 DEF Iterates
<1>6. QED BY <1>4, <1>5
-----------------------------------------------------------------------------
(* 1 << k                                                                  *)
Pow2[k \in Nat] == IF k = 0 THEN 1 ELSE 2 * Pow2[k - 1]

LEMMA OnePow2 == Bus!Pow2 = Pow2 /\ Power!Pow2 = Pow2 /\ Part!Pow2 = Pow2
BY DEF Bus!Pow2, Power!Pow2, Part!Pow2, Pow2

LEMMA Powers ==
  /\ Pow2[0] = 1
  /\ \A k \in Nat : Pow2[k] \in Nat /\ Pow2[k] > 0 /\ Pow2[k + 1] = 2 * Pow2[k]
<1> DEFINE one == 1
           step == [x \in Nat |-> 2 * x]
           Is(f) == f = [k \in Nat |-> IF k = 0 THEN 1 ELSE 2 * f[k - 1]]
<1>1. PICK f \in [Nat -> Nat] : f[0] = 1 /\ \A k \in Nat : f[k + 1] = step[f[k]]
  <2>1. step \in [Nat -> Nat] /\ one \in Nat
    OBVIOUS
  <2>2. \E f \in [Nat -> Nat] : Iterates(f, one, step)
    <3> HIDE DEF one, step
    <3>1. QED BY <2>1, ByRecursionOverNat
  <2>3. QED BY <2>2 DEF Iterates
<1>2. ASSUME NEW k \in Nat PROVE f[k] = IF k = 0 THEN 1 ELSE 2 * f[k - 1]
  <2>1. CASE k = 0
    BY <1>1, <2>1
  <2>2. CASE k # 0
    <3>1. k - 1 \in Nat /\ (k - 1) + 1 = k
      BY <2>2
    <3>2. f[(k - 1) + 1] = step[f[k - 1]] /\ f[k - 1] \in Nat
      BY <1>1, <3>1
    <3>3. QED BY <2>2, <3>1, <3>2
  <2>3. QED BY <2>1, <2>2
<1>3. Is(f)
  BY <1>2
<1>4. Is(Pow2)
  <2>1. Pow2 = CHOOSE h : Is(h)
    BY DEF Pow2
  <2> HIDE DEF Is
  <2>2. QED BY <1>3, <2>1
<1>5. Pow2[0] = 1 /\ \A k \in Nat : Pow2[k + 1] = 2 * Pow2[k]
  <2>1. \A k \in Nat : Pow2[k] = IF k = 0 THEN 1 ELSE 2 * Pow2[k - 1]
    BY <1>4
  <2>2. \A k \in Nat : k + 1 \in Nat /\ k + 1 # 0 /\ (k + 1) - 1 = k
    OBVIOUS
  <2>3. QED BY <2>1, <2>2
<1>6. \A k \in Nat : Pow2[k] \in Nat /\ Pow2[k] > 0
  <2> DEFINE S == {k \in Nat : Pow2[k] \in Nat /\ Pow2[k] > 0}
  <2>1. 0 \in S /\ \A k \in Nat : k \in S => k + 1 \in S
    BY <1>5
  <2> HIDE DEF S
  <2>2. \A k \in Nat : k \in S
    BY <2>1, EveryNatural
  <2>3. QED BY <2>2 DEF S
<1>7. QED BY <1>5, <1>6

LEMMA PowersAdd == \A j, k \in Nat : Pow2[j + k] = Pow2[j] * Pow2[k]
<1> TAKE j \in Nat
<1> DEFINE S == {k \in Nat : Pow2[j + k] = Pow2[j] * Pow2[k]}
<1>1. 0 \in S
  BY Powers
<1>2. ASSUME NEW k \in Nat, k \in S PROVE k + 1 \in S
  <2> DEFINE a == Pow2[j]
             b == Pow2[k]
  <2>1. j + k \in Nat /\ j + (k + 1) = (j + k) + 1
    OBVIOUS
  <2>2. a \in Nat /\ b \in Nat /\ Pow2[k + 1] = 2 * b /\ Pow2[j + (k + 1)] = 2 * Pow2[j + k]
    BY <2>1, Powers
  <2>3. Pow2[j + k] = a * b
    BY <1>2
  <2> HIDE DEF a, b
  <2>4. 2 * (a * b) = a * (2 * b)
    BY <2>2
  <2>5. Pow2[j + (k + 1)] = a * Pow2[k + 1]
    BY <2>2, <2>3, <2>4
  <2>6. QED BY <2>5 DEF a
<1> HIDE DEF S
<1>3. \A k \in Nat : k \in S
  BY <1>1, <1>2, EveryNatural
<1>4. QED BY <1>3 DEF S

(* A larger power is a multiple of a smaller one.                          *)
LEMMA PowersGrow ==
  ASSUME NEW j \in Nat, NEW k \in Nat
  PROVE  /\ j <= k => Pow2[k] = Pow2[k - j] * Pow2[j] /\ Pow2[j] <= Pow2[k]
         /\ j < k => Pow2[j] < Pow2[k]
<1>1. ASSUME j <= k PROVE Pow2[k] = Pow2[k - j] * Pow2[j]
  <2>1. k - j \in Nat /\ (k - j) + j = k
    BY <1>1
  <2>2. QED BY <2>1, PowersAdd
<1>2. ASSUME NEW a \in Nat, NEW b \in Nat, a > 0 PROVE b <= a * b
  BY <1>2
<1>3. ASSUME j <= k PROVE Pow2[j] <= Pow2[k]
  <2>1. k - j \in Nat
    BY <1>3
  <2>2. QED BY <1>1, <1>2, <1>3, <2>1, Powers
<1>4. ASSUME j < k PROVE Pow2[j] < Pow2[k]
  <2>1. k - j \in Nat /\ k - j - 1 \in Nat /\ (k - j - 1) + 1 = k - j
    BY <1>4
  <2> DEFINE a == Pow2[k - j - 1]
             b == Pow2[j]
  <2>2. Pow2[k] = (2 * a) * b /\ a \in Nat /\ a > 0 /\ b \in Nat /\ b > 0
    BY <1>1, <1>4, <2>1, Powers
  <2> HIDE DEF a, b
  <2>3. b < (2 * a) * b
    BY <2>2
  <2>4. QED BY <2>2, <2>3 DEF b
<1>5. QED BY <1>1, <1>3, <1>4

(* The quotient is the number of whole divisors below.                     *)
LEMMA Quotient ==
  ASSUME NEW a \in Int, NEW d \in Nat, d > 0
  PROVE  /\ a \div d \in Int /\ d * (a \div d) <= a /\ a < d * (a \div d) + d
         /\ a % d = a - d * (a \div d) /\ a % d \in 0 .. d - 1
         /\ \A q \in Int : d * q <= a /\ a < d * q + d => a \div d = q
OBVIOUS

(* Dividing twice is dividing by the product.                              *)
LEMMA QuotientTwice ==
  ASSUME NEW a \in Nat, NEW c \in Nat, NEW d \in Nat, c > 0, d > 0
  PROVE  (a \div c) \div d = a \div (c * d)
<1> DEFINE p == a \div c
           q == p \div d
<1>1. p \in Int /\ c * p <= a /\ a < c * p + c
  BY Quotient
<1> HIDE DEF p
<1>2. q \in Int /\ d * q <= p /\ p < d * q + d
  BY <1>1, Quotient
<1> HIDE DEF q
<1>3. c * d \in Nat /\ c * d > 0
  OBVIOUS
<1>4. (c * d) * q <= a
  <2>1. c * (d * q) <= c * p
    BY <1>1, <1>2
  <2>2. c * (d * q) = (c * d) * q
    BY <1>2
  <2>3. QED BY <1>1, <1>2, <1>3, <2>1, <2>2
<1>5. a < (c * d) * q + c * d
  <2>1. p + 1 <= d * q + d
    BY <1>1, <1>2
  <2>2. c * (p + 1) <= c * (d * q + d)
    BY <1>1, <1>2, <2>1
  <2>3. c * (p + 1) = c * p + c /\ c * (d * q + d) = (c * d) * q + c * d
    BY <1>1, <1>2
  <2>4. QED BY <1>1, <1>2, <1>3, <2>2, <2>3
<1>6. a \div (c * d) = q
  BY <1>2, <1>3, <1>4, <1>5, Quotient
<1>7. QED BY <1>6 DEF q, p

-----------------------------------------------------------------------------
(* memmap.py: what has been read off the bus.                              *)
BusRead ==
  /\ \A i \in DOMAIN sels : sels[i] \in Bus!Decodes
  /\ \A i, j \in DOMAIN names : names[i] = names[j] => i = j
  /\ stage \in {"banks", "maps", "mapped"} => DOMAIN sels = DOMAIN names
  /\ stage # "aborted" => \A n \in DOMAIN banks : banks[n] = n
  /\ \A region \in DOMAIN gmap : gmap[region] \in Nat

LEMMA BusInit == Bus!Init => BusRead
BY DEF Bus!Init, Bus!Nothing, BusRead

LEMMA BusSteps ==
  ASSUME BusRead, [Bus!Next]_(Bus!vars)
  PROVE  BusRead'
<1> USE DEF BusRead
<1>1. CASE UNCHANGED Bus!vars
  BY <1>1 DEF Bus!vars
<1>2. ASSUME NEW i \in Bus!Slaves, NEW d \in Bus!Decodes, Bus!ReadSelect(i, d) PROVE BusRead'
  <2>1. \A k \in DOMAIN sels' : sels'[k] \in Bus!Decodes
    BY <1>2 DEF Bus!ReadSelect, Bus!Put
  <2>2. QED BY <1>2, <2>1 DEF Bus!ReadSelect
<1>3. ASSUME NEW i \in Bus!Slaves, NEW name \in RegionNames, Bus!ReadWiring(i, name)
      PROVE  BusRead'
  <2>1. \A j, k \in DOMAIN names' : names'[j] = names'[k] => j = k
    BY <1>3 DEF Bus!ReadWiring, Bus!Put
  <2>2. QED BY <1>3, <2>1 DEF Bus!ReadWiring
<1>4. CASE Bus!Map
  BY <1>4 DEF Bus!Map
<1>5. ASSUME NEW n \in 0 .. Bus!Pow2[BankBits] - 1, NEW compared \in 0 .. Bus!Pow2[BankBits] - 1,
             Bus!ReadBank(n, compared)
      PROVE  BusRead'
  <2>1. stage' # "aborted" => \A k \in DOMAIN banks' : banks'[k] = k
    BY <1>5 DEF Bus!ReadBank, Bus!Put
  <2>2. QED BY <1>5, <2>1 DEF Bus!ReadBank
<1>6. CASE Bus!BanksDone
  BY <1>6 DEF Bus!BanksDone
<1>7. ASSUME NEW map \in MemMaps, Bus!ReadMap(map) PROVE BusRead'
  BY <1>7, BusHasBits DEF Bus!ReadMap
<1>8. CASE Bus!Compare
  BY <1>8 DEF Bus!Compare
<1>9. QED BY <1>1, <1>2, <1>3, <1>4, <1>5, <1>6, <1>7, <1>8 DEF Bus!Next

(* A select line compares the bits of the address from lo up: its slave is *)
(* selected in the window that starts with the value and zeros below.      *)
LEMMA SelectIsWindow ==
  ASSUME NEW d \in Bus!Decodes
  PROVE  /\ Bus!Window(d).base \in Nat
         /\ d.lo \in Nat /\ d.value \in Nat
         /\ Bus!Window(d).size = 4 * Pow2[d.lo]
         /\ Bus!Window(d).base = d.value * (4 * Pow2[d.lo])
         /\ Bus!Window(d).base + Bus!Window(d).size <= 4 * Pow2[AdrBits]
         /\ \A addr \in Nat : (addr \div 4) \div Pow2[d.lo] = d.value <=>
                                Bus!Contains(Bus!Window(d), addr)
<1> DEFINE lo == d.lo
           v == d.value
           P == Pow2[lo]
<1>1. /\ lo \in Nat /\ lo <= AdrBits /\ v \in Nat /\ v < Pow2[AdrBits - lo] /\ AdrBits - lo \in Nat
      /\ AdrBits \in Nat
  <2>1. PICK l \in 1 .. AdrBits - 1 : d \in [lo : {l}, value : 0 .. Pow2[AdrBits - l] - 1]
    BY OnePow2 DEF Bus!Decodes
  <2>2. AdrBits - l \in Nat /\ Pow2[AdrBits - l] \in Nat
    BY BusHasBits, Powers
  <2>3. QED BY <2>1, <2>2, BusHasBits
<1>2. /\ P \in Nat /\ P > 0 /\ Pow2[lo + 2] = 4 * P
  <2>1. lo + 1 \in Nat /\ lo + 2 = (lo + 1) + 1
    BY <1>1
  <2>2. QED BY <1>1, <2>1, Powers
<1>3. Bus!Window(d).size = 4 * P /\ Bus!Window(d).base = v * (4 * P)
  BY <1>2, OnePow2 DEF Bus!Window
<1>4. ASSUME NEW addr \in Nat
      PROVE  (addr \div 4) \div P = v <=> Bus!Contains(Bus!Window(d), addr)
  <2>1. (addr \div 4) \div P = addr \div (4 * P)
    BY <1>2, QuotientTwice
  <2> DEFINE D == 4 * P
             q == addr \div D
  <2>2. D \in Nat /\ D > 0
    BY <1>2
  <2>3. q \in Int /\ D * q <= addr /\ addr < D * q + D
        /\ (D * v <= addr /\ addr < D * v + D => q = v)
    <3>1. v \in Int /\ addr \in Int
      BY <1>1
    <3> HIDE DEF D, v
    <3>2. q \in Int /\ D * q <= addr /\ addr < D * q + D
      BY <2>2, <3>1, Quotient
    <3>3. ASSUME D * v <= addr, addr < D * v + D PROVE q = v
      BY <2>2, <3>1, <3>3, Quotient
    <3>4. QED BY <3>2, <3>3
  <2>4. Bus!Contains(Bus!Window(d), addr) <=> D * v <= addr /\ addr < D * v + D
    <3>1. v * D = D * v
      BY <1>1, <2>2
    <3>2. QED BY <1>3, <3>1 DEF Bus!Contains
  <2> HIDE DEF D, q
  <2>5. q = v <=> Bus!Contains(Bus!Window(d), addr)
    BY <2>3, <2>4
  <2>6. QED BY <2>1, <2>5 DEF q, D
<1>5. v * (4 * P) \in Nat /\ v * (4 * P) + 4 * P <= 4 * Pow2[AdrBits]
  <2> DEFINE Q == Pow2[AdrBits - lo]
  <2>1. Pow2[AdrBits] = Q * P /\ Q \in Nat
    BY <1>1, Powers, PowersGrow
  <2>2. v + 1 <= Q
    BY <1>1, <2>1
  <2> HIDE DEF Q, P, v
  <2>3. (v + 1) * P <= Q * P
    BY <1>1, <1>2, <2>1, <2>2
  <2>4. (v + 1) * P = v * P + P /\ v * (4 * P) = 4 * (v * P) /\ v * P \in Nat
    BY <1>1, <1>2
  <2>5. QED BY <1>2, <2>1, <2>3, <2>4
<1>6. QED BY <1>1, <1>3, <1>4, <1>5

Selects(i, addr) == Bus!Contains(Bus!Window(sels[i]), addr)

LEMMA WindowsOfSlaves ==
  /\ \A i \in DOMAIN sels : \E w \in Bus!Windows :
       w.name = names[i] /\ w.base = Bus!Window(sels[i]).base /\ w.size = Bus!Window(sels[i]).size
  /\ \A w \in Bus!Windows : \E i \in DOMAIN sels :
       w.name = names[i] /\ w.base = Bus!Window(sels[i]).base /\ w.size = Bus!Window(sels[i]).size
<1> DEFINE row(i) == [name |-> names[i], base |-> Bus!Window(sels[i]).base,
                      size |-> Bus!Window(sels[i]).size]
<1>1. Bus!Windows = {row(i) : i \in DOMAIN sels}
  BY DEF Bus!Windows
<1>2. \A i : /\ row(i).name = names[i] /\ row(i).base = Bus!Window(sels[i]).base
             /\ row(i).size = Bus!Window(sels[i]).size
  OBVIOUS
<1> HIDE DEF row
<1>3. QED BY <1>1, <1>2

LEMMA RowIsWindow ==
  ASSUME BusRead, DOMAIN sels = DOMAIN names, NEW i \in DOMAIN sels
  PROVE  /\ \A base, size : Bus!RowAgrees(names[i], base, size) <=>
                            Bus!Window(sels[i]).base = base /\ Bus!Window(sels[i]).size = size
         /\ Bus!BaseOK(names[i]) <=> Bus!Window(sels[i]).base = gmap[names[i]]
<1>1. \A j \in DOMAIN sels : names[j] = names[i] => j = i
  BY DEF BusRead
<1>2. ASSUME NEW base, NEW size
      PROVE  Bus!RowAgrees(names[i], base, size) <=>
                            Bus!Window(sels[i]).base = base /\ Bus!Window(sels[i]).size = size
  BY <1>1, WindowsOfSlaves DEF Bus!RowAgrees
<1>3. Bus!BaseOK(names[i]) <=> Bus!Window(sels[i]).base = gmap[names[i]]
  BY <1>1, WindowsOfSlaves DEF Bus!BaseOK
<1>4. QED BY <1>2, <1>3

(* An address is in the windows of the slaves it selects.                  *)
LEMMA SelectedAre ==
  ASSUME BusRead, NEW addr \in Nat
  PROVE  Bus!Selected(addr) = {i \in DOMAIN sels : Selects(i, addr)}
<1>1. ASSUME NEW i \in DOMAIN sels
      PROVE  (addr \div 4) \div Bus!Pow2[sels[i].lo] = sels[i].value <=> Selects(i, addr)
  <2>1. sels[i] \in Bus!Decodes
    BY DEF BusRead
  <2>2. QED BY <2>1, SelectIsWindow, OnePow2 DEF Selects
<1>2. QED BY <1>1 DEF Bus!Selected

LEMMA LocatedAre ==
  ASSUME BusRead, NEW addr \in Nat
  PROVE  Bus!Located(addr) = {names[i] : i \in Bus!Selected(addr)}
<1>1. \A w \in Bus!Windows, i \in DOMAIN sels :
        w.base = Bus!Window(sels[i]).base /\ w.size = Bus!Window(sels[i]).size =>
          (Bus!Contains(w, addr) <=> Selects(i, addr))
  BY DEF Bus!Contains, Selects
<1>2. Bus!Located(addr) \subseteq {names[i] : i \in Bus!Selected(addr)}
  <2>1. SUFFICES ASSUME NEW w \in Bus!Windows, Bus!Contains(w, addr)
                 PROVE  w.name \in {names[i] : i \in Bus!Selected(addr)}
    BY DEF Bus!Located
  <2>2. PICK i \in DOMAIN sels : w.name = names[i] /\ w.base = Bus!Window(sels[i]).base
                                 /\ w.size = Bus!Window(sels[i]).size
    BY WindowsOfSlaves
  <2>3. i \in Bus!Selected(addr)
    BY <1>1, <2>1, <2>2, SelectedAre
  <2>4. QED BY <2>2, <2>3
<1>3. ASSUME NEW i \in Bus!Selected(addr) PROVE names[i] \in Bus!Located(addr)
  <2>1. i \in DOMAIN sels /\ Selects(i, addr)
    BY SelectedAre
  <2>2. PICK w \in Bus!Windows : w.name = names[i] /\ w.base = Bus!Window(sels[i]).base
                                 /\ w.size = Bus!Window(sels[i]).size
    BY <2>1, WindowsOfSlaves
  <2>3. QED BY <1>1, <2>1, <2>2 DEF Bus!Located
<1>4. QED BY <1>2, <1>3

(* The addresses a slave answers are an interval.                          *)
LEMMA AnswersAre ==
  ASSUME BusRead, NEW i \in DOMAIN sels
  PROVE  Bus!Answers(i) = Bus!Window(sels[i]).base ..
                            Bus!Window(sels[i]).base + Bus!Window(sels[i]).size - 1
<1> DEFINE b == Bus!Window(sels[i]).base
           s == Bus!Window(sels[i]).size
<1>1. b \in Nat /\ s \in Nat /\ s > 0 /\ b + s <= 4 * Pow2[AdrBits] /\ Pow2[AdrBits] \in Nat
  <2>1. sels[i] \in Bus!Decodes
    BY DEF BusRead
  <2>2. QED BY <2>1, SelectIsWindow, Powers, BusHasBits
<1>2. \A addr \in Bus!ByteAddrs : i \in Bus!Selected(addr) <=> b <= addr /\ addr < b + s
  <2>1. Bus!ByteAddrs \subseteq Nat
    BY DEF Bus!ByteAddrs
  <2>2. QED BY <2>1, SelectedAre DEF Selects, Bus!Contains
<1> HIDE DEF b, s
<1>3. Bus!Answers(i) = {addr \in 0 .. 4 * Pow2[AdrBits] - 1 : b <= addr /\ addr < b + s}
  BY <1>2, OnePow2 DEF Bus!Answers, Bus!ByteAddrs
<1>4. {addr \in 0 .. 4 * Pow2[AdrBits] - 1 : b <= addr /\ addr < b + s} = b .. b + s - 1
  BY <1>1
<1>5. QED BY <1>3, <1>4 DEF b, s

LEMMA SameIntervals ==
  ASSUME NEW a \in Int, NEW m \in Nat, NEW b \in Int, NEW n \in Nat, m > 0, n > 0
  PROVE  a .. a + m - 1 = b .. b + n - 1 <=> a = b /\ m = n
<1>1. ASSUME a .. a + m - 1 = b .. b + n - 1 PROVE a = b /\ m = n
  <2>1. /\ a \in a .. a + m - 1 /\ a + m - 1 \in a .. a + m - 1
        /\ b \in b .. b + n - 1 /\ b + n - 1 \in b .. b + n - 1
    OBVIOUS
  <2>2. b <= a /\ a + m - 1 <= b + n - 1 /\ a <= b /\ b + n - 1 <= a + m - 1
    BY <1>1, <2>1
  <2>3. QED BY <2>2
<1>2. QED BY <1>1

(* A CSR window that holds all banks starts at a multiple of their size,   *)
(* so that the bits above the page are those of the offset.                *)
LEMMA BankOfOffset ==
  ASSUME BusRead, NEW w \in Bus!Windows, w.size >= Bus!CSR_PAGE * Bus!Pow2[BankBits],
         NEW off \in 0 .. Bus!CSR_PAGE * Bus!Pow2[BankBits] - 1
  PROVE  /\ w.base \in Nat
         /\ (((w.base + off) \div 4) \div Bus!Pow2[PageBits]) % Bus!Pow2[BankBits]
              = Bus!HeaderBank(off)
         /\ Bus!HeaderBank(off) * Bus!CSR_PAGE <= off
         /\ off < Bus!HeaderBank(off) * Bus!CSR_PAGE + Bus!CSR_PAGE
         /\ Bus!HeaderBank(off) \in Int
<1> DEFINE page == 4 * Pow2[PageBits]
           all == Pow2[BankBits]
           h == off \div page
<1>1. PICK i \in DOMAIN sels : /\ w.base = Bus!Window(sels[i]).base
                               /\ w.size = Bus!Window(sels[i]).size
  BY WindowsOfSlaves
<1> DEFINE lo == sels[i].lo
           v == sels[i].value
<1>2. /\ lo \in Nat /\ v \in Nat
      /\ w.size = 4 * Pow2[lo] /\ w.base = v * (4 * Pow2[lo]) /\ w.base \in Nat
  <2>1. sels[i] \in Bus!Decodes
    BY DEF BusRead
  <2>2. QED BY <1>1, <2>1, SelectIsWindow
<1>3. /\ PageBits \in Nat /\ BankBits \in Nat
      /\ Bus!CSR_PAGE = page /\ Bus!Pow2[BankBits] = all /\ Bus!Pow2[PageBits] = Pow2[PageBits]
      /\ Bus!HeaderBank(off) = h
  BY BusHasBits, OnePow2 DEF Bus!CSR_PAGE, Bus!HeaderBank
<1>4. /\ Pow2[PageBits] \in Nat /\ Pow2[PageBits] > 0 /\ all \in Nat /\ all > 0
      /\ page \in Nat /\ page > 0
  BY <1>3, Powers
<1>5. off \in Nat /\ off < page * all
  BY <1>3, <1>4
<1>6. PICK m \in Nat : w.base = (m * all) * page
  <2> DEFINE k == PageBits + BankBits
  <2>1. k \in Nat /\ Pow2[k] = Pow2[PageBits] * all
    BY <1>3, PowersAdd
  <2>2. page * all = 4 * Pow2[k]
    <3> DEFINE p == Pow2[PageBits]
    <3>1. p \in Nat /\ Pow2[k] = p * all
      BY <1>4, <2>1
    <3> HIDE DEF p, all, k
    <3>2. (4 * p) * all = 4 * (p * all)
      BY <1>4, <3>1
    <3>3. QED BY <3>1, <3>2 DEF p
  <2>3. k <= lo
    <3>1. ~(Pow2[lo] < Pow2[k])
      <4>1. 4 * Pow2[lo] >= 4 * Pow2[k]
        BY <1>2, <1>3, <2>2
      <4>2. Pow2[lo] \in Nat /\ Pow2[k] \in Nat
        BY <1>2, <2>1, Powers
      <4> HIDE DEF lo, k
      <4>3. QED BY <4>1, <4>2
    <3>2. lo < k => Pow2[lo] < Pow2[k]
      BY <1>2, <2>1, PowersGrow
    <3>3. QED BY <1>2, <2>1, <3>1, <3>2
  <2> DEFINE c == Pow2[lo - k]
  <2>4. c \in Nat /\ Pow2[lo] = c * Pow2[k]
    <3>1. lo - k \in Nat
      BY <1>2, <2>1, <2>3
    <3>2. Pow2[lo] = Pow2[lo - k] * Pow2[k]
      <4> HIDE DEF lo, k
      <4>1. QED BY <1>2, <2>1, <2>3, PowersGrow
    <3> HIDE DEF lo, k
    <3>3. QED BY <3>1, <3>2, Powers
  <2> HIDE DEF c, k, lo, v
  <2>5. v * (4 * Pow2[lo]) = ((v * c) * all) * page
    <3> DEFINE p == Pow2[PageBits]
    <3>1. p \in Nat /\ Pow2[lo] = c * (p * all)
      BY <1>4, <2>1, <2>4
    <3> HIDE DEF p, all
    <3>2. v * (4 * (c * (p * all))) = ((v * c) * all) * (4 * p)
      BY <1>2, <1>4, <2>4, <3>1
    <3>3. QED BY <3>1, <3>2 DEF p
  <2>6. v * c \in Nat
    BY <1>2, <2>4
  <2>7. QED BY <1>2, <2>5, <2>6
<1>7. /\ h \in Int /\ page * h <= off /\ off < page * h + page
  <2> HIDE DEF page
  <2>1. QED BY <1>4, <1>5, Quotient
<1>8. 0 <= h /\ h < all
  <2> HIDE DEF h, page, all
  <2>1. 0 <= h
    <3>1. SUFFICES ASSUME h <= -1 PROVE FALSE
      BY <1>7
    <3>2. page * h <= page * (-1)
      BY <1>4, <1>7, <3>1
    <3>3. QED BY <1>4, <1>5, <1>7, <3>2
  <2>2. h < all
    <3>1. SUFFICES ASSUME all <= h PROVE FALSE
      BY <1>4, <1>7
    <3>2. page * all <= page * h
      BY <1>4, <1>7, <3>1
    <3>3. QED BY <1>4, <1>5, <1>7, <3>2
  <2>3. QED BY <2>1, <2>2
<1>9. ((w.base + off) \div 4) \div Pow2[PageBits] = m * all + h
  <2>1. w.base + off \in Nat
    BY <1>2, <1>5
  <2>2. ((w.base + off) \div 4) \div Pow2[PageBits] = (w.base + off) \div page
    BY <1>4, <2>1, QuotientTwice
  <2> DEFINE q == m * all + h
  <2>3. q \in Int
    BY <1>4, <1>7
  <2>4. page * q <= w.base + off /\ w.base + off < page * q + page
    <3> HIDE DEF page, all, h
    <3>1. page * q = (m * all) * page + page * h
      BY <1>4, <1>7
    <3>2. QED BY <1>4, <1>5, <1>6, <1>7, <3>1
  <2> HIDE DEF page, q
  <2>5. (w.base + off) \div page = q
    BY <1>4, <2>1, <2>3, <2>4, Quotient
  <2>6. QED BY <2>2, <2>5 DEF q
<1>10. (m * all + h) % all = h
  <2> HIDE DEF all, h
  <2>1. m * all + h \in Int /\ all * m <= m * all + h /\ m * all + h < all * m + all
    BY <1>4, <1>7, <1>8
  <2>2. (m * all + h) \div all = m
    BY <1>4, <2>1, Quotient
  <2>3. (m * all + h) % all = (m * all + h) - all * m
    BY <1>4, <2>1, <2>2, Quotient
  <2>4. QED BY <1>4, <1>7, <2>3
<1>11. h * page <= off /\ off < h * page + page
  <2> HIDE DEF h, page
  <2>1. h * page = page * h
    BY <1>4, <1>7
  <2>2. QED BY <1>7, <2>1
<1>12. QED BY <1>2, <1>3, <1>7, <1>9, <1>10, <1>11

LEMMA BusEarned == BusRead => Bus!ReportIsDecode
<1> SUFFICES ASSUME BusRead PROVE Bus!ReportIsDecode
  OBVIOUS
<1> DEFINE b(i) == Bus!Window(sels[i]).base
           s(i) == Bus!Window(sels[i]).size
<1>1. ASSUME NEW i \in DOMAIN sels PROVE b(i) \in Nat /\ s(i) \in Nat /\ s(i) > 0
  <2>1. sels[i] \in Bus!Decodes
    BY DEF BusRead
  <2>2. b(i) \in Nat /\ s(i) = 4 * Pow2[sels[i].lo] /\ sels[i].lo \in Nat
    BY <2>1, SelectIsWindow
  <2>3. QED BY <2>2, Powers
<1>2. ASSUME stage = "banks"
      PROVE  /\ \A addr \in Bus!ByteAddrs : Bus!Located(addr) = {names[i] : i \in Bus!Selected(addr)}
             /\ \A i \in DOMAIN sels :
                  \E answers \in {Bus!Answers(i)} :
                    \A a \in 0 .. Bus!Pow2[AdrBits] - 1, k \in 0 .. AdrBits + 2 :
                      Bus!RowAgrees(names[i], 4 * a, Bus!Pow2[k])
                        <=> answers = 4 * a .. 4 * a + Bus!Pow2[k] - 1
  <2>1. DOMAIN sels = DOMAIN names
    BY <1>2 DEF BusRead
  <2>2. Bus!ByteAddrs \subseteq Nat
    BY DEF Bus!ByteAddrs
  <2>3. ASSUME NEW i \in DOMAIN sels, NEW a \in 0 .. Bus!Pow2[AdrBits] - 1, NEW k \in 0 .. AdrBits + 2
        PROVE  Bus!RowAgrees(names[i], 4 * a, Bus!Pow2[k])
                 <=> Bus!Answers(i) = 4 * a .. 4 * a + Bus!Pow2[k] - 1
    <3> DEFINE n == Bus!Pow2[k]
               c == 4 * a
    <3>1. n \in Nat /\ n > 0 /\ c \in Int
      BY OnePow2, Powers, BusHasBits
    <3>2. Bus!RowAgrees(names[i], c, n) <=> b(i) = c /\ s(i) = n
      BY <2>1, RowIsWindow
    <3>3. Bus!Answers(i) = b(i) .. b(i) + s(i) - 1
      BY AnswersAre
    <3>4. b(i) .. b(i) + s(i) - 1 = c .. c + n - 1 <=> b(i) = c /\ s(i) = n
      <4>1. b(i) \in Int /\ s(i) \in Nat /\ s(i) > 0
        BY <1>1
      <4> HIDE DEF b, s, n, c
      <4>2. QED BY <3>1, <4>1, SameIntervals
    <3> HIDE DEF b, s, n, c
    <3>5. Bus!RowAgrees(names[i], c, n) <=> Bus!Answers(i) = c .. c + n - 1
      BY <3>2, <3>3, <3>4
    <3>6. QED BY <3>5 DEF n, c
  <2>4. QED BY <2>2, <2>3, LocatedAre
<1>3. ASSUME stage = "mapped", NEW i \in DOMAIN sels, names[i] \in DOMAIN gmap
      PROVE  Bus!BaseOK(names[i]) <=>
              /\ i \in Bus!Selected(gmap[names[i]])
              /\ \A addr \in 0 .. gmap[names[i]] - 1 : i \notin Bus!Selected(addr)
  <2> DEFINE g == gmap[names[i]]
  <2>1. g \in Nat /\ b(i) \in Nat /\ s(i) \in Nat /\ s(i) > 0
    BY <1>1, <1>3 DEF BusRead
  <2>2. Bus!BaseOK(names[i]) <=> b(i) = g
    <3>1. DOMAIN sels = DOMAIN names
      BY <1>3 DEF BusRead
    <3>2. QED BY <3>1, RowIsWindow
  <2>3. \A addr \in Nat : i \in Bus!Selected(addr) <=> b(i) <= addr /\ addr < b(i) + s(i)
    BY SelectedAre DEF Selects, Bus!Contains
  <2> HIDE DEF g, b, s
  <2>4. b(i) = g <=> /\ i \in Bus!Selected(g)
                     /\ \A addr \in 0 .. g - 1 : i \notin Bus!Selected(addr)
    <3>1. ASSUME b(i) = g PROVE /\ i \in Bus!Selected(g)
                                /\ \A addr \in 0 .. g - 1 : i \notin Bus!Selected(addr)
      BY <2>1, <2>3, <3>1
    <3>2. ASSUME i \in Bus!Selected(g), \A addr \in 0 .. g - 1 : i \notin Bus!Selected(addr)
          PROVE  b(i) = g
      <4>1. b(i) <= g
        BY <2>1, <2>3, <3>2
      <4>2. i \in Bus!Selected(b(i))
        BY <2>1, <2>3
      <4>3. QED BY <2>1, <3>2, <4>1, <4>2
    <3>3. QED BY <3>1, <3>2
  <2>5. QED BY <2>2, <2>4 DEF g
<1>4. ASSUME stage = "mapped", NEW w \in Bus!Windows,
             w.size >= Bus!CSR_PAGE * Bus!Pow2[BankBits],
             NEW off \in 0 .. Bus!CSR_PAGE * Bus!Pow2[BankBits] - 1
      PROVE  \E bank \in {Bus!HeaderBank(off)} :
                /\ Bus!SelectedBank(w.base + off) = DOMAIN banks \cap {bank}
                /\ Bus!BankBase(w, bank) <= w.base + off
                /\ w.base + off < Bus!BankBase(w, bank) + Bus!CSR_PAGE
  <2>1. \A n \in DOMAIN banks : banks[n] = n
    BY <1>4 DEF BusRead
  <2> DEFINE h == Bus!HeaderBank(off)
  <2>2. /\ w.base \in Nat /\ h \in Int
        /\ (((w.base + off) \div 4) \div Bus!Pow2[PageBits]) % Bus!Pow2[BankBits] = h
        /\ h * Bus!CSR_PAGE <= off
        /\ off < h * Bus!CSR_PAGE + Bus!CSR_PAGE
    BY <1>4, BankOfOffset
  <2>3. Bus!CSR_PAGE \in Nat /\ off \in Int
    BY OnePow2, Powers, BusHasBits DEF Bus!CSR_PAGE
  <2> HIDE DEF h
  <2>4. Bus!SelectedBank(w.base + off) = DOMAIN banks \cap {h}
    BY <2>1, <2>2 DEF Bus!SelectedBank
  <2>5. Bus!BankBase(w, h) <= w.base + off /\ w.base + off < Bus!BankBase(w, h) + Bus!CSR_PAGE
    <3> DEFINE c == h * Bus!CSR_PAGE
    <3>1. c \in Int
      BY <2>2, <2>3
    <3> HIDE DEF c
    <3>2. w.base + c <= w.base + off /\ w.base + off < (w.base + c) + Bus!CSR_PAGE
      BY <2>2, <2>3, <3>1 DEF c
    <3>3. QED BY <3>2 DEF c, Bus!BankBase
  <2>6. QED BY <2>4, <2>5 DEF h
<1>5. QED BY <1>2, <1>3, <1>4 DEF Bus!ReportIsDecode

(* memmap.py: for any width of the bus and any select lines, wiring, banks *)
(* and map of the generator, what the report says of an address is what    *)
(* the bus does with it.                                                   *)
THEOREM Decoded == Spec => []ReportIsDecode
<1>1. Bus!Init /\ [][Bus!Next]_(Bus!vars) => []BusRead
  BY BusInit, BusSteps, PTL
<1>2. BusRead => ReportIsDecode
  BY BusEarned DEF ReportIsDecode
<1>3. QED BY Runs, <1>1, <1>2, PTL
-----------------------------------------------------------------------------
Bit(w, b) == (w \div Pow2[b]) % 2

(* The low bits of a number and the one above them.                        *)
LEMMA LastBit ==
  ASSUME NEW w \in Nat, NEW d \in Nat, d > 0
  PROVE  w % (2 * d) = (w % d) + d * ((w \div d) % 2)
<1> DEFINE q == w \div d
           r == w % d
           t == q % 2
           p == q \div 2
<1>1. q \in Int /\ r = w - d * q /\ r \in 0 .. d - 1
  BY Quotient
<1> HIDE DEF q, r
<1>2. p \in Int /\ t = q - 2 * p /\ t \in 0 .. 1
  BY <1>1
<1> HIDE DEF t, p
<1> DEFINE D == 2 * d
<1>3. D \in Nat /\ D > 0
  OBVIOUS
<1>4. w = D * p + (d * t + r) /\ d * t \in Nat
  <2>1. d * q = d * (2 * p + t)
    BY <1>1, <1>2
  <2>2. d * (2 * p + t) = (2 * d) * p + d * t
    BY <1>2
  <2>3. t = 0 \/ t = 1
    BY <1>2
  <2>4. d * t \in Nat /\ (2 * d) * p \in Int
    BY <1>2
  <2>5. d * q = (2 * d) * p + d * t /\ w = d * q + r
    BY <1>1, <2>1, <2>2
  <2> DEFINE u == (2 * d) * p
             z == d * t
  <2>6. w = u + (z + r) /\ z \in Nat
    <3>1. u \in Int /\ z \in Nat /\ d * q = u + z
      BY <2>4, <2>5
    <3> HIDE DEF u, z
    <3>2. QED BY <1>1, <2>5, <3>1
  <2>7. QED BY <2>6
<1>5. d * t + r < D /\ d * t + r >= 0
  <2>1. t = 0 \/ t = 1
    BY <1>2
  <2>2. d * t = 0 \/ d * t = d
    BY <2>1
  <2>3. QED BY <1>1, <2>2
<1>6. w \div D = p
  <2>1. D * p <= w /\ w < D * p + D
    <3> HIDE DEF D
    <3>1. QED BY <1>1, <1>2, <1>3, <1>4, <1>5
  <2> HIDE DEF D
  <2>2. QED BY <1>2, <1>3, <2>1, Quotient
<1>7. w % D = w - D * p
  <2> HIDE DEF D
  <2>1. QED BY <1>3, <1>6, Quotient
<1>8. w % D = r + d * t
  <2> HIDE DEF D
  <2>1. QED BY <1>1, <1>2, <1>3, <1>4, <1>7
<1>9. QED BY <1>8 DEF D, q, r, t

(* Numbers with the same bits are the same.                                *)
LEMMA SameBits ==
  ASSUME NEW n \in Nat, NEW w \in 0 .. Pow2[n] - 1, NEW x \in 0 .. Pow2[n] - 1,
         \A b \in 0 .. n - 1 : Bit(w, b) = Bit(x, b)
  PROVE  w = x
<1> DEFINE S == {k \in 0 .. n : w % Pow2[k] = x % Pow2[k]}
<1>1. w \in Nat /\ x \in Nat /\ Pow2[n] \in Nat /\ Pow2[n] > 0
  BY Powers
<1>2. 0 \in S
  <2>1. w % 1 = 0 /\ x % 1 = 0
    BY <1>1
  <2>2. QED BY <2>1, Powers
<1>3. ASSUME NEW k \in 0 + 1 .. n, k - 1 \in S PROVE k \in S
  <2> DEFINE d == Pow2[k - 1]
  <2>1. k - 1 \in 0 .. n - 1 /\ k - 1 \in Nat /\ (k - 1) + 1 = k
    OBVIOUS
  <2>2. d \in Nat /\ d > 0 /\ Pow2[k] = 2 * d
    BY <2>1, Powers
  <2>3. (w \div d) % 2 = (x \div d) % 2
    BY <2>1 DEF Bit
  <2>4. w % d = x % d
    BY <1>3
  <2> HIDE DEF d
  <2>5. w % (2 * d) = x % (2 * d)
    <3>1. w % (2 * d) = (w % d) + d * ((w \div d) % 2)
      BY <1>1, <2>2, LastBit
    <3>2. x % (2 * d) = (x % d) + d * ((x \div d) % 2)
      BY <1>1, <2>2, LastBit
    <3>3. QED BY <2>3, <2>4, <3>1, <3>2
  <2>6. QED BY <2>2, <2>5
<1>4. S = 0 .. n
  <2>1. S \in SUBSET (0 .. n)
    OBVIOUS
  <2> HIDE DEF S
  <2>2. QED BY <1>2, <1>3, <2>1, UpTo
<1>5. w % Pow2[n] = x % Pow2[n]
  <2>1. n \in S
    <3> HIDE DEF S
    <3>1. QED BY <1>4
  <2>2. QED BY <2>1
<1>6. \A y \in 0 .. Pow2[n] - 1 : y % Pow2[n] = y
  <2> DEFINE d == Pow2[n]
  <2> HIDE DEF d
  <2>1. \A y \in 0 .. d - 1 : y % d = y
    <3>1. SUFFICES ASSUME NEW y \in 0 .. d - 1 PROVE y % d = y
      OBVIOUS
    <3>2. d \in Nat /\ d > 0
      BY <1>1 DEF d
    <3>3. y \in Int /\ d * 0 <= y /\ y < d * 0 + d
      BY <3>2
    <3>4. y \div d = 0
      BY <3>2, <3>3, Quotient
    <3>5. QED BY <3>2, <3>4, Quotient
  <2>2. QED BY <2>1 DEF d
<1>7. QED BY <1>5, <1>6

(* A remainder has the low bits of the number.                             *)
LEMMA BitOfRemainder ==
  ASSUME NEW y \in Nat, NEW c \in Nat, NEW m \in Nat, c > 0, m > 0
  PROVE  ((y % (c * (2 * m))) \div c) % 2 = (y \div c) % 2
<1> DEFINE D == c * (2 * m)
           Q == y \div D
           v == y % D
           u == v \div c
<1>1. D \in Nat /\ D > 0
  BY DEF D
<1>2. Q \in Int /\ v = y - D * Q /\ v \in 0 .. D - 1
  <2> HIDE DEF D
  <2>1. QED BY <1>1, Quotient
<1> HIDE DEF Q, v
<1>3. u \in Int /\ c * u <= v /\ v < c * u + c
  BY <1>1, <1>2, Quotient
<1> HIDE DEF u
<1>4. y \div c = 2 * (m * Q) + u
  <2> DEFINE z == 2 * (m * Q) + u
  <2>1. z \in Int
    BY <1>2, <1>3
  <2>2. c * z = D * Q + c * u
    BY <1>2, <1>3
  <2>3. D * Q \in Int
    BY <1>1, <1>2
  <2>4. c * z <= y /\ y < c * z + c
    <3> HIDE DEF z, D
    <3>1. QED BY <1>1, <1>2, <1>3, <2>2, <2>3
  <2> HIDE DEF z
  <2>5. y \div c = z
    BY <2>1, <2>4, Quotient
  <2>6. QED BY <2>5 DEF z
<1>5. (2 * (m * Q) + u) % 2 = u % 2
  <2> DEFINE k == m * Q
  <2>1. k \in Int
    BY <1>2
  <2> HIDE DEF k
  <2>2. (2 * k + u) % 2 = u % 2
    BY <1>3, <2>1
  <2>3. QED BY <2>2 DEF k
<1>6. (v \div c) % 2 = (y \div c) % 2
  BY <1>4, <1>5 DEF u
<1>7. QED BY <1>6 DEF v, D

(* The bits of a field are those of the word, from the start of the field. *)
LEMMA BitOfField ==
  ASSUME NEW w \in Nat, NEW lo \in Nat, NEW width \in Nat, NEW b \in Nat, lo <= b, b < lo + width
  PROVE  Bit((w \div Pow2[lo]) % Pow2[width], b - lo) = Bit(w, b)
<1> DEFINE y == w \div Pow2[lo]
           c == Pow2[b - lo]
           m == Pow2[width - (b - lo) - 1]
<1>1. /\ b - lo \in Nat /\ width - (b - lo) - 1 \in Nat
      /\ (b - lo) + ((width - (b - lo) - 1) + 1) = width
      /\ lo + (b - lo) = b
  OBVIOUS
<1>2. c \in Nat /\ c > 0 /\ m \in Nat /\ m > 0 /\ Pow2[lo] \in Nat /\ Pow2[lo] > 0
  BY <1>1, Powers
<1>3. Pow2[width] = c * (2 * m)
  <2>1. Pow2[(width - (b - lo) - 1) + 1] = 2 * m /\ (width - (b - lo) - 1) + 1 \in Nat
    BY <1>1, Powers
  <2>2. QED BY <1>1, <2>1, PowersAdd
<1>4. y \in Nat
  <2> DEFINE d == Pow2[lo]
  <2> HIDE DEF d
  <2>1. d \in Nat /\ d > 0
    BY <1>2 DEF d
  <2>2. w \div d \in Int /\ d * (w \div d) <= w /\ w < d * (w \div d) + d
    BY <2>1, Quotient
  <2>3. w \div d >= 0
    <3>1. SUFFICES ASSUME w \div d <= -1 PROVE FALSE
      BY <2>2
    <3>2. d * (w \div d) <= d * (-1)
      BY <2>1, <2>2, <3>1
    <3>3. QED BY <2>1, <2>2, <3>2
  <2>4. QED BY <2>2, <2>3 DEF d
<1>5. y \div c = w \div Pow2[b]
  <2>1. Pow2[b] = Pow2[lo] * c
    BY <1>1, PowersAdd
  <2>2. QED BY <1>2, <2>1, QuotientTwice
<1> HIDE DEF y, c, m
<1>6. ((y % (c * (2 * m))) \div c) % 2 = (y \div c) % 2
  BY <1>2, <1>4, BitOfRemainder
<1>7. QED BY <1>3, <1>5, <1>6 DEF Bit, y, c

(* pads.py: what has been read of the pads.                                *)
PadsRead ==
  /\ \A m \in DOMAIN cat : cat[m] \in Power!Words
  /\ \A i \in DOMAIN pads : i \in PadNumbers /\ pads[i].word \in Power!Words
  /\ report = "instances" => \A i \in DOMAIN user : user[i] \in DOMAIN cat

LEMMA PadsInit == Power!Init => PadsRead
BY DEF Power!Init, Power!Nothing, PadsRead

LEMMA PadsSteps ==
  ASSUME PadsRead, [Power!Next]_(Power!vars)
  PROVE  PadsRead'
<1>1. CASE UNCHANGED Power!vars
  BY <1>1 DEF PadsRead, Power!vars
<1>2. ASSUME NEW m \in PadModes, NEW word \in ModeWords, Power!DefineMode(m, word) PROVE PadsRead'
  <2>1. \A k \in DOMAIN cat' : cat'[k] \in Power!Words
    BY <1>2, PadsHaveFields DEF PadsRead, Power!DefineMode, Power!Put
  <2>2. QED BY <1>2, <2>1 DEF PadsRead, Power!DefineMode
<1>3. ASSUME NEW i \in PadNumbers, NEW m \in PadModes, Power!DefineUser(i, m) PROVE PadsRead'
  BY <1>3 DEF PadsRead, Power!DefineUser
<1>4. CASE Power!Defined
  BY <1>4 DEF PadsRead, Power!Defined
<1>5. ASSUME NEW i \in PadNumbers, NEW word \in Power!Words, NEW s \in Power!Slices, Power!Add(i, word, s)
      PROVE  PadsRead'
  <2>1. \A k \in DOMAIN pads' : k \in PadNumbers /\ pads'[k].word \in Power!Words
    BY <1>5 DEF PadsRead, Power!Add, Power!Put
  <2>2. QED BY <1>5, <2>1 DEF PadsRead, Power!Add
<1>6. ASSUME NEW i \in PadNumbers, NEW s \in Power!Slices, NEW word \in Literals,
             Power!LiteralBlock(i, word, s)
      PROVE  PadsRead'
  BY <1>5, <1>6, PadsHaveFields DEF Power!LiteralBlock
<1>7. ASSUME NEW i \in PadNumbers, NEW s \in Power!Slices, NEW u \in PadNumbers,
             Power!UserBlock(i, u, s)
      PROVE  PadsRead'
  <2>1. cat[user[u]] \in Power!Words /\ Power!Add(i, cat[user[u]], s)
    BY <1>7 DEF PadsRead, Power!UserBlock, Power!Add
  <2>2. QED BY <1>5, <2>1
<1>8. ASSUME NEW i \in PadNumbers, NEW u \in PadNumbers, Power!WrongBlock(i, u) PROVE PadsRead'
  BY <1>8 DEF PadsRead, Power!WrongBlock
<1>9. CASE Power!Finish
  BY <1>9 DEF PadsRead, Power!Finish
<1>10. QED BY <1>1, <1>2, <1>3, <1>4, <1>6, <1>7, <1>8, <1>9 DEF Power!Next

(* Every field is told from the words by the place it starts at, so words  *)
(* that are listed alike have the same fields and the same bits.           *)
LEMMA DecodedOnce ==
  ASSUME NEW w \in Power!Words, NEW x \in Power!Words, Power!Decode(w) = Power!Decode(x)
  PROVE  w = x
<1> DEFINE value(y, f) == (y \div Pow2[f.lo]) % Pow2[f.width]
           entry(y, f) == [lo |-> f.lo, value |-> value(y, f)]
<1>1. /\ PadWidth \in Nat /\ w \in 0 .. Pow2[PadWidth] - 1 /\ x \in 0 .. Pow2[PadWidth] - 1
      /\ w \in Nat /\ x \in Nat
  BY PadsHaveFields, OnePow2, Powers DEF Power!Words
<1>2. \A y : Power!Decode(y) = {e \in {entry(y, f) : f \in FIELDS} : e.value # 0}
  BY OnePow2 DEF Power!Decode
<1>3. ASSUME NEW y, NEW z, Power!Decode(y) = Power!Decode(z), NEW f \in FIELDS, value(y, f) # 0
      PROVE  value(z, f) = value(y, f)
  <2>1. entry(y, f) \in Power!Decode(y)
    BY <1>2, <1>3
  <2>2. PICK g \in FIELDS : entry(y, f) = entry(z, g)
    BY <1>2, <1>3, <2>1
  <2>3. f.lo = g.lo /\ value(y, f) = value(z, g)
    <3> HIDE DEF value
    <3>1. QED BY <2>2
  <2>4. f = g
    BY <2>3, PadsHaveFields
  <2>5. QED BY <2>3, <2>4
<1>4. \A f \in FIELDS : value(w, f) = value(x, f)
  <2> HIDE DEF value, entry
  <2>1. QED BY <1>3
<1>5. ASSUME NEW b \in 0 .. PadWidth - 1 PROVE Bit(w, b) = Bit(x, b)
  <2>1. PICK f \in FIELDS : f.lo <= b /\ b < f.lo + f.width
    BY PadsHaveFields
  <2>2. f.lo \in Nat /\ f.width \in Nat /\ b \in Nat
    BY PadsHaveFields
  <2>3. Bit(value(w, f), b - f.lo) = Bit(w, b) /\ Bit(value(x, f), b - f.lo) = Bit(x, b)
    BY <1>1, <2>1, <2>2, BitOfField
  <2>4. QED BY <1>4, <2>3
<1>6. QED BY <1>1, <1>5, SameBits

(* Where no slice is miswired, each bit of a pad has its block for driver. *)
LEMMA OneDriver ==
  ASSUME PadsRead, \A i \in DOMAIN pads : Power!SliceOK(i),
         NEW i \in DOMAIN pads, NEW b \in 0 .. PadWidth - 1
  PROVE  /\ Power!Drivers(PadWidth * i + b) = {i}
         /\ Power!Driven(i, PadWidth * i + b) = (pads[i].word \div Pow2[b]) % 2
<1>1. PadWidth \in Nat /\ \A j \in DOMAIN pads : j \in Nat
  BY PadsHaveFields DEF PadsRead
<1>2. ASSUME NEW j \in DOMAIN pads
      PROVE  /\ pads[j].slice.lo = PadWidth * j
             /\ pads[j].slice.hi = PadWidth * j + PadWidth - 1
  <2>1. pads[j].slice = [hi |-> PadWidth * j + PadWidth - 1, lo |-> PadWidth * j]
    BY DEF Power!SliceOK
  <2>2. QED BY <2>1
<1>3. ASSUME NEW j \in DOMAIN pads
      PROVE  PadWidth * j <= PadWidth * i + b /\ PadWidth * i + b <= PadWidth * j + PadWidth - 1
               <=> j = i
  <2> DEFINE p == PadWidth * i
             q == PadWidth * j
  <2>1. p \in Nat /\ q \in Nat /\ i \in Nat /\ j \in Nat
    BY <1>1
  <2>2. i < j => p + PadWidth <= q
    <3>1. i < j => PadWidth * (i + 1) <= PadWidth * j
      BY <1>1, <2>1
    <3>2. PadWidth * (i + 1) = PadWidth * i + PadWidth
      BY <1>1, <2>1
    <3>3. QED BY <3>1, <3>2
  <2>3. j < i => q + PadWidth <= p
    <3>1. j < i => PadWidth * (j + 1) <= PadWidth * i
      BY <1>1, <2>1
    <3>2. PadWidth * (j + 1) = PadWidth * j + PadWidth
      BY <1>1, <2>1
    <3>3. QED BY <3>1, <3>2
  <2>4. j = i => q = p
    OBVIOUS
  <2> HIDE DEF p, q
  <2>5. q <= p + b /\ p + b <= q + PadWidth - 1 <=> j = i
    BY <1>1, <2>1, <2>2, <2>3, <2>4
  <2>6. QED BY <2>5 DEF p, q
<1>4. Power!Drivers(PadWidth * i + b) = {i}
  BY <1>2, <1>3 DEF Power!Drivers
<1>5. (PadWidth * i + b) - PadWidth * i = b
  <2>1. PadWidth * i \in Int /\ b \in Int
    BY <1>1
  <2>2. QED BY <2>1
<1>6. Power!Driven(i, PadWidth * i + b) = (pads[i].word \div Pow2[b]) % 2
  BY <1>2, <1>5, OnePow2 DEF Power!Driven
<1>7. QED BY <1>4, <1>6

LEMMA PadsEarned == PadsRead => Power!PowersUpAsReported
<1> SUFFICES ASSUME PadsRead, \A i \in DOMAIN pads : Power!SliceOK(i), NEW i \in DOMAIN pads
             PROVE  /\ Power!Loads(i, pads[i].word)
                    /\ \A m \in Power!Names(pads[i].word) : Power!Loads(i, cat[m])
                    /\ \A word \in Power!Words :
                         Power!Decode(word) = Power!Decode(pads[i].word) => word = pads[i].word
  BY DEF Power!PowersUpAsReported
<1>1. Power!Loads(i, pads[i].word)
  BY OneDriver, OnePow2 DEF Power!Loads
<1>2. \A m \in Power!Names(pads[i].word) : Power!Loads(i, cat[m])
  BY <1>1 DEF Power!Names
<1>3. pads[i].word \in Power!Words
  BY DEF PadsRead
<1>4. QED BY <1>1, <1>2, <1>3, DecodedOnce

(* pads.py: for any pads, words and fields, a pad in a report without a    *)
(* miswired slice powers up as the report says.                            *)
THEOREM PoweredUp == Spec => []PowersUpAsReported
<1>1. Power!Init /\ [][Power!Next]_(Power!vars) => []PadsRead
  BY PadsInit, PadsSteps, PTL
<1>2. PadsRead => PowersUpAsReported
  BY PadsEarned DEF PowersUpAsReported
<1>3. QED BY Runs, <1>1, <1>2, PTL
-----------------------------------------------------------------------------
(* There is a function that is given at a place by its values at the       *)
(* places of lower levels.                                                 *)
Rests(f, X, F) == \A x \in X : f[x] = F[x][f]

Levelled(X, V, lev, N, F) ==
  /\ lev \in [X -> Nat] /\ N \in Nat /\ \A x \in X : lev[x] <= N
  /\ F \in [X -> [[X -> V] -> V]]
  /\ \A x \in X : \A g, h \in [X -> V] :
       (\A y \in X : lev[y] < lev[x] => g[y] = h[y]) => F[x][g] = F[x][h]

LEMMA ByLevels ==
  ASSUME NEW X, NEW V, NEW v \in V, NEW lev, NEW N, NEW F, Levelled(X, V, lev, N, F)
  PROVE  \E f \in [X -> V] : Rests(f, X, F)
<1> USE DEF Levelled
<1> DEFINE start == [x \in X |-> v]
           step == [g \in [X -> V] |-> [x \in X |-> F[x][g]]]
<1>1. PICK s \in [Nat -> [X -> V]] : Iterates(s, start, step)
  <2>1. start \in [X -> V] /\ step \in [[X -> V] -> [X -> V]]
    OBVIOUS
  <2> HIDE DEF start, step
  <2>2. QED BY <2>1, ByRecursionOverNat
<1>2. ASSUME NEW k \in Nat PROVE s[k] \in [X -> V] /\ \A x \in X : s[k + 1][x] = F[x][s[k]]
  <2>1. s[k] \in [X -> V] /\ s[k + 1] = step[s[k]]
    BY <1>1 DEF Iterates
  <2>2. QED BY <2>1
<1> DEFINE S == {k \in Nat : \A x \in X : lev[x] < k => s[k][x] = s[k + 1][x]}
<1>3. 0 \in S
  OBVIOUS
<1>4. ASSUME NEW k \in Nat, k \in S PROVE k + 1 \in S
  <2>1. ASSUME NEW x \in X, lev[x] < k + 1 PROVE s[k + 1][x] = s[(k + 1) + 1][x]
    <3>1. \A y \in X : lev[y] < lev[x] => s[k][y] = s[k + 1][y]
      <4>1. ASSUME NEW y \in X, lev[y] < lev[x] PROVE lev[y] < k
        BY <2>1, <4>1
      <4>2. QED BY <1>4, <4>1
    <3>2. s[k] \in [X -> V] /\ s[k + 1] \in [X -> V]
      BY <1>2
    <3>3. F[x][s[k]] = F[x][s[k + 1]]
      BY <3>1, <3>2
    <3>4. QED BY <1>2, <3>3
  <2>2. QED BY <2>1
<1> HIDE DEF S
<1>5. \A k \in Nat : k \in S
  BY <1>3, <1>4, EveryNatural
<1>6. s[N + 1] \in [X -> V] /\ \A x \in X : s[N + 1][x] = F[x][s[N + 1]]
  <2>1. N + 1 \in Nat /\ N + 1 \in S
    BY <1>5
  <2>2. \A x \in X : lev[x] < N + 1
    OBVIOUS
  <2>3. \A x \in X : s[N + 1][x] = s[(N + 1) + 1][x]
    BY <2>1, <2>2 DEF S
  <2>4. QED BY <1>2, <2>1, <2>3
<1>7. Rests(s[N + 1], X, F)
  BY <1>6 DEF Rests
<1>8. QED BY <1>6, <1>7

LEMMA PartCardinality ==
  ASSUME NEW S
  PROVE  Part!Cardinality(S) = Cardinality(S)
BY DEF Part!Cardinality, Cardinality

(* What holds of the empty set, and of a set if it holds of it without one *)
(* of its members, holds of the finite sets.                               *)
LEMMA EveryFinite ==
  ASSUME NEW I, IsFiniteSet(I), NEW G, {} \in G,
         \A T \in SUBSET I : T # {} /\ (\A t \in T : T \ {t} \in G) => T \in G
  PROVE  I \in G
<1> DEFINE S == {n \in Nat : \A T \in SUBSET I : Cardinality(T) = n => T \in G}
<1>1. \A T \in SUBSET I : IsFiniteSet(T) /\ Cardinality(T) \in Nat
  BY FS_Subset, FS_CardinalityType
<1>2. 0 \in S
  BY <1>1, FS_EmptySet
<1>3. ASSUME NEW n \in Nat, n \in S PROVE n + 1 \in S
  <2>1. ASSUME NEW T \in SUBSET I, Cardinality(T) = n + 1 PROVE T \in G
    <3>1. T # {}
      <4>1. n + 1 # 0
        OBVIOUS
      <4>2. QED BY <2>1, <4>1, FS_EmptySet
    <3>2. ASSUME NEW t \in T PROVE T \ {t} \in G
      <4>1. Cardinality(T \ {t}) = n /\ T \ {t} \in SUBSET I
        BY <1>1, <2>1, FS_RemoveElement
      <4>2. QED BY <1>3, <4>1
    <3>3. QED BY <3>1, <3>2
  <2>2. QED BY <2>1
<1> HIDE DEF S
<1>4. \A n \in Nat : n \in S
  BY <1>2, <1>3, EveryNatural
<1>5. Cardinality(I) \in S /\ I \in SUBSET I
  BY <1>1, <1>4
<1>6. QED BY <1>5 DEF S

(* The sum of the sizes of sets that share nothing is the size of their    *)
(* union.                                                                  *)
LEMMA SumOfSizes ==
  ASSUME NEW I, IsFiniteSet(I), NEW X, IsFiniteSet(X), NEW words \in [I -> SUBSET X],
         \A i, j \in I : i # j => words[i] \cap words[j] = {},
         NEW f, f = [i \in I |-> Cardinality(words[i])]
  PROVE  Part!SumFunction(f) = Cardinality(UNION {words[i] : i \in I})
<1> DEFINE Of(s) == UNION {words[i] : i \in s}
           h == [s \in SUBSET I |-> Cardinality(Of(s))]
           Is(g) == g = [s \in SUBSET I |-> IF s = {} THEN 0
                                            ELSE f[CHOOSE x \in s : TRUE] + g[s \ {CHOOSE x \in s : TRUE}]]
           sum == CHOOSE g : Is(g)
<1>1. Part!SumFunction(f) = sum[I]
  <2>1. DOMAIN f = I
    OBVIOUS
  <2>2. QED BY <2>1 DEF Part!SumFunction, Part!SumFunctionOnSet, Part!FoldFunctionOnSet, Part!MapThenFoldSet
<1>2. \A s \in SUBSET I : Of(s) \in SUBSET X /\ IsFiniteSet(Of(s)) /\ Cardinality(Of(s)) \in Nat
  <2>1. \A s \in SUBSET I : Of(s) \in SUBSET X
    OBVIOUS
  <2> HIDE DEF Of
  <2>2. QED BY <2>1, FS_Subset, FS_CardinalityType
<1>3. ASSUME NEW s \in SUBSET I, s # {}, NEW x \in s
      PROVE  Cardinality(Of(s)) = f[x] + Cardinality(Of(s \ {x}))
  <2>1. Of(s) = words[x] \cup Of(s \ {x}) /\ words[x] \cap Of(s \ {x}) = {}
    OBVIOUS
  <2>2. IsFiniteSet(words[x]) /\ IsFiniteSet(Of(s \ {x}))
    BY <1>2, FS_Subset
  <2>3. Cardinality(words[x] \cap Of(s \ {x})) = 0
    BY <2>1, FS_EmptySet
  <2>4. f[x] = Cardinality(words[x]) /\ f[x] \in Nat /\ Cardinality(Of(s \ {x})) \in Nat
    BY <2>2, FS_CardinalityType
  <2> HIDE DEF Of
  <2>5. Cardinality(words[x] \cup Of(s \ {x}))
          = Cardinality(words[x]) + Cardinality(Of(s \ {x})) - Cardinality(words[x] \cap Of(s \ {x}))
    BY <2>2, FS_Union
  <2> DEFINE a == Cardinality(words[x])
             b == Cardinality(Of(s \ {x}))
  <2>6. Cardinality(Of(s)) = a + b - 0
    BY <2>1, <2>3, <2>5
  <2>7. a = f[x] /\ a \in Nat /\ b \in Nat
    BY <2>4
  <2> HIDE DEF a, b
  <2>8. a + b - 0 = a + b
    BY <2>7
  <2>9. QED BY <2>6, <2>7, <2>8 DEF b
<1>4. Is(h)
  <2>1. ASSUME NEW s \in SUBSET I
        PROVE  h[s] = IF s = {} THEN 0 ELSE f[CHOOSE x \in s : TRUE] + h[s \ {CHOOSE x \in s : TRUE}]
    <3>1. CASE s = {}
      <4>1. Of(s) = {}
        BY <3>1
      <4>2. QED BY <3>1, <4>1, FS_EmptySet
    <3>2. CASE s # {}
      <4> DEFINE x == CHOOSE x \in s : TRUE
      <4>1. x \in s
        BY <3>2
      <4> HIDE DEF x
      <4>2. h[s] = Cardinality(Of(s)) /\ h[s \ {x}] = Cardinality(Of(s \ {x}))
        OBVIOUS
      <4>3. h[s] = f[x] + h[s \ {x}]
        BY <1>3, <3>2, <4>1, <4>2
      <4>4. QED BY <3>2, <4>3 DEF x
    <3>3. QED BY <3>1, <3>2
  <2>2. h = [s \in SUBSET I |-> h[s]]
    OBVIOUS
  <2> HIDE DEF h
  <2>3. QED BY <2>1, <2>2
<1>5. Is(sum)
  <2> HIDE DEF Is
  <2>1. QED BY <1>4
<1> HIDE DEF sum
<1> DEFINE G == {s \in SUBSET I : sum[s] = Cardinality(Of(s))}
<1>6. {} \in G
  <2>1. sum[{}] = 0
    BY <1>5
  <2>2. Of({}) = {}
    OBVIOUS
  <2>3. QED BY <2>1, <2>2, FS_EmptySet
<1>7. ASSUME NEW s \in SUBSET I, s # {}, \A t \in s : s \ {t} \in G PROVE s \in G
  <2> DEFINE x == CHOOSE x \in s : TRUE
  <2>1. x \in s
    BY <1>7
  <2>2. sum[s] = f[x] + sum[s \ {x}]
    BY <1>5, <1>7
  <2> HIDE DEF x
  <2>3. sum[s \ {x}] = Cardinality(Of(s \ {x}))
    BY <1>7, <2>1
  <2>4. Cardinality(Of(s)) = f[x] + Cardinality(Of(s \ {x}))
    BY <1>3, <1>7, <2>1
  <2>5. QED BY <2>2, <2>3, <2>4
<1>8. I \in G
  <2> HIDE DEF G
  <2>1. QED BY <1>6, <1>7, EveryFinite
<1>9. QED BY <1>1, <1>8
-----------------------------------------------------------------------------
(* The diagrams of a number of variables, level by level.                  *)
Taller(n, lower) == lower \cup {Part!Mk(n - 1, lo, hi) : lo, hi \in lower}

LEMMA DiagramsByLevel ==
  /\ Part!Diagrams[0] = {Part!Zero, Part!One}
  /\ \A n \in 1 .. WordBits : Part!Diagrams[n] = Taller(n, Part!Diagrams[n - 1])
<1> DEFINE Good(m, f) == /\ f[0] = {Part!Zero, Part!One}
                         /\ \A k \in 1 .. m : f[k] = Taller(k, f[k - 1])
           Is(f) == f = [n \in 0 .. WordBits |->
                           IF n = 0 THEN {Part!Zero, Part!One} ELSE Taller(n, f[n - 1])]
           S == {m \in 0 .. WordBits : \E f : Good(m, f)}
<1>1. 0 \in S
  <2>1. Good(0, [k \in 0 .. 0 |-> {Part!Zero, Part!One}])
    OBVIOUS
  <2> HIDE DEF Good
  <2>2. \E f : Good(0, f)
    BY <2>1
  <2>3. QED BY <2>2, WordsHaveBits
<1>2. ASSUME NEW m \in 0 + 1 .. WordBits, m - 1 \in S PROVE m \in S
  <2>1. PICK f : Good(m - 1, f)
    BY <1>2
  <2> DEFINE g == [k \in 0 .. m |-> IF k = m THEN Taller(m, f[m - 1]) ELSE f[k]]
  <2>2. Good(m, g)
    <3>1. g[0] = {Part!Zero, Part!One}
      BY <2>1
    <3>2. ASSUME NEW k \in 1 .. m PROVE g[k] = Taller(k, g[k - 1])
      <4>1. k - 1 \in 0 .. m /\ k - 1 # m /\ g[k - 1] = f[k - 1]
        OBVIOUS
      <4>2. CASE k = m
        <5>1. g[m] = Taller(m, f[m - 1]) /\ g[m - 1] = f[m - 1]
          BY <4>1, <4>2
        <5> HIDE DEF g
        <5>2. QED BY <4>2, <5>1
      <4>3. CASE k # m
        <5>1. k \in 1 .. m - 1 /\ g[k] = f[k]
          BY <4>3
        <5>2. QED BY <2>1, <4>1, <5>1
      <4>4. QED BY <4>2, <4>3
    <3> HIDE DEF g
    <3>3. QED BY <3>1, <3>2
  <2> HIDE DEF g, Good
  <2>3. \E h : Good(m, h)
    BY <2>2
  <2>4. QED BY <2>3
<1>3. WordBits \in S
  <2>1. S \in SUBSET (0 .. WordBits) /\ 0 \in Nat /\ WordBits \in Nat /\ 0 <= WordBits
    BY WordsHaveBits
  <2> HIDE DEF S
  <2>2. S = 0 .. WordBits
    BY <1>1, <1>2, <2>1, UpTo
  <2>3. QED BY <2>1, <2>2
<1>4. PICK f : Good(WordBits, f)
  BY <1>3
<1>5. Is([k \in 0 .. WordBits |-> f[k]])
  <2> DEFINE g == [k \in 0 .. WordBits |-> f[k]]
  <2>1. ASSUME NEW n \in 0 .. WordBits
        PROVE  g[n] = IF n = 0 THEN {Part!Zero, Part!One} ELSE Taller(n, g[n - 1])
    <3>1. CASE n = 0
      BY <1>4, <3>1
    <3>2. CASE n # 0
      <4>1. n \in 1 .. WordBits /\ n - 1 \in 0 .. WordBits /\ g[n] = f[n] /\ g[n - 1] = f[n - 1]
        BY <3>2, WordsHaveBits
      <4> HIDE DEF g
      <4>2. QED BY <1>4, <3>2, <4>1
    <3>3. QED BY <3>1, <3>2
  <2>2. g = [n \in 0 .. WordBits |-> g[n]]
    OBVIOUS
  <2> HIDE DEF g
  <2>3. Is(g)
    BY <2>1, <2>2
  <2>4. QED BY <2>3 DEF g
<1>6. Part!Diagrams = CHOOSE h : Is(h)
  BY DEF Part!Diagrams, Taller
<1>7. Is(Part!Diagrams)
  <2> HIDE DEF Is
  <2>1. QED BY <1>5, <1>6
<1>8. \A n \in 0 .. WordBits : Part!Diagrams[n] = IF n = 0 THEN {Part!Zero, Part!One}
                                                  ELSE Taller(n, Part!Diagrams[n - 1])
  BY <1>7
<1>9. 0 \in 0 .. WordBits /\ \A n \in 1 .. WordBits : n \in 0 .. WordBits /\ n # 0
  BY WordsHaveBits
<1>10. QED BY <1>8, <1>9

(* The level of a diagram: the least number of variables it has.           *)
Level(b) == IF Part!Terminal(b) THEN 0 ELSE Part!Var(b) + 1

LEMMA Nodes ==
  /\ Part!Zero # Part!One
  /\ \A v, lo, hi : /\ ~Part!Terminal(<<v, lo, hi>>)
                    /\ Part!Var(<<v, lo, hi>>) = v
                    /\ Part!Lo(<<v, lo, hi>>) = lo
                    /\ Part!Hi(<<v, lo, hi>>) = hi
BY DEF Part!Zero, Part!One, Part!Terminal, Part!Var, Part!Lo, Part!Hi

LEMMA DiagramsGrow ==
  ASSUME NEW n \in 0 .. WordBits, NEW m \in 0 .. n
  PROVE  Part!Diagrams[m] \subseteq Part!Diagrams[n]
<1> DEFINE S == {k \in m .. n : Part!Diagrams[m] \subseteq Part!Diagrams[k]}
<1>1. m \in Nat /\ n \in Nat /\ m <= n /\ S \in SUBSET (m .. n) /\ m \in S
  BY WordsHaveBits
<1>2. ASSUME NEW k \in m + 1 .. n, k - 1 \in S PROVE k \in S
  <2>1. k \in 1 .. WordBits
    BY <1>1, WordsHaveBits
  <2>2. QED BY <1>2, <2>1, DiagramsByLevel DEF Taller
<1> HIDE DEF S
<1>3. S = m .. n
  BY <1>1, <1>2, UpTo
<1>4. QED BY <1>1, <1>3 DEF S

(* A diagram of n variables is a terminal, or tests one below n between    *)
(* two that differ, of the variables below that one.                       *)
IsNode(b, n) ==
  /\ ~Part!Terminal(b)
  /\ Part!Var(b) \in 0 .. n - 1
  /\ b = <<Part!Var(b), Part!Lo(b), Part!Hi(b)>>
  /\ Part!Lo(b) # Part!Hi(b)
  /\ Part!Lo(b) \in Part!Diagrams[Part!Var(b)]
  /\ Part!Hi(b) \in Part!Diagrams[Part!Var(b)]

LEMMA DiagramsAre ==
  ASSUME NEW n \in 0 .. WordBits, NEW b \in Part!Diagrams[n]
  PROVE  Part!Terminal(b) \/ IsNode(b, n)
<1> DEFINE S == {k \in 0 .. n : \A d \in Part!Diagrams[k] : Part!Terminal(d) \/ IsNode(d, k)}
<1>1. n \in Nat /\ S \in SUBSET (0 .. n)
  BY WordsHaveBits
<1>2. 0 \in S
  BY <1>1, DiagramsByLevel DEF Part!Terminal
<1>3. ASSUME NEW k \in 0 + 1 .. n, k - 1 \in S PROVE k \in S
  <2>1. k \in 1 .. WordBits /\ k - 1 \in 0 .. k - 1 /\ k \in Nat
    BY <1>1, WordsHaveBits
  <2>2. ASSUME NEW d \in Part!Diagrams[k] PROVE Part!Terminal(d) \/ IsNode(d, k)
    <3>1. CASE d \in Part!Diagrams[k - 1]
      <4>1. Part!Terminal(d) \/ IsNode(d, k - 1)
        BY <1>3, <3>1
      <4>2. \A v \in 0 .. (k - 1) - 1 : v \in 0 .. k - 1
        BY <2>1
      <4>3. QED BY <4>1, <4>2 DEF IsNode
    <3>2. CASE d \notin Part!Diagrams[k - 1]
      <4>1. PICK lo, hi \in Part!Diagrams[k - 1] : d = Part!Mk(k - 1, lo, hi)
        BY <2>1, <3>2, DiagramsByLevel DEF Taller
      <4>2. lo # hi /\ d = <<k - 1, lo, hi>>
        BY <3>2, <4>1 DEF Part!Mk
      <4>3. Part!Var(d) = k - 1 /\ Part!Lo(d) = lo /\ Part!Hi(d) = hi /\ ~Part!Terminal(d)
        BY <4>2, Nodes
      <4>4. QED BY <2>1, <4>1, <4>2, <4>3 DEF IsNode
    <3>3. QED BY <3>1, <3>2
  <2>3. QED BY <2>2
<1> HIDE DEF S
<1>4. S = 0 .. n
  BY <1>1, <1>2, <1>3, UpTo
<1>5. n \in S
  BY <1>1, <1>4
<1>6. QED BY <1>5 DEF S

LEMMA TerminalsAre ==
  ASSUME NEW n \in 0 .. WordBits
  PROVE  Part!Zero \in Part!Diagrams[n] /\ Part!One \in Part!Diagrams[n]
<1>1. 0 \in 0 .. n /\ Part!Zero \in Part!Diagrams[0] /\ Part!One \in Part!Diagrams[0]
  BY WordsHaveBits, DiagramsByLevel
<1>2. QED BY <1>1, DiagramsGrow

LEMMA MadeDiagram ==
  ASSUME NEW v \in 0 .. WordBits - 1, NEW lo \in Part!Diagrams[v], NEW hi \in Part!Diagrams[v]
  PROVE  Part!Mk(v, lo, hi) \in Part!Diagrams[v + 1]
<1>1. v + 1 \in 1 .. WordBits /\ (v + 1) - 1 = v
  BY WordsHaveBits
<1>2. QED BY <1>1, DiagramsByLevel DEF Taller

(* A diagram is one of the variables up to its level.                      *)
LEMMA LevelIs ==
  ASSUME NEW n \in 0 .. WordBits, NEW b \in Part!Diagrams[n]
  PROVE  /\ Level(b) \in 0 .. n
         /\ b \in Part!Diagrams[Level(b)]
         /\ b \in Part!All
<1>1. n \in Nat /\ n \in 0 .. WordBits /\ WordBits \in 0 .. WordBits
  BY WordsHaveBits
<1>2. b \in Part!All
  BY <1>1, DiagramsGrow DEF Part!All
<1>3. CASE Part!Terminal(b)
  <2>1. Level(b) = 0 /\ b \in {Part!Zero, Part!One}
    BY <1>3 DEF Level, Part!Terminal
  <2>2. QED BY <1>1, <1>2, <2>1, TerminalsAre
<1>4. CASE ~Part!Terminal(b)
  <2>1. IsNode(b, n)
    BY <1>4, DiagramsAre
  <2>2. Part!Var(b) \in 0 .. WordBits - 1 /\ Level(b) = Part!Var(b) + 1 /\ Level(b) \in 0 .. n
    BY <1>1, <1>4, <2>1, WordsHaveBits DEF IsNode, Level
  <2>3. b = Part!Mk(Part!Var(b), Part!Lo(b), Part!Hi(b))
    BY <2>1 DEF IsNode, Part!Mk
  <2>4. b \in Part!Diagrams[Part!Var(b) + 1]
    BY <2>1, <2>2, <2>3, MadeDiagram DEF IsNode
  <2>5. QED BY <1>2, <2>2, <2>4
<1>5. QED BY <1>3, <1>4

LEMMA LowerLevels ==
  ASSUME NEW b \in Part!All, ~Part!Terminal(b)
  PROVE  /\ IsNode(b, WordBits)
         /\ Level(b) = Part!Var(b) + 1 /\ Level(b) \in 0 .. WordBits
         /\ Part!Var(b) \in 0 .. WordBits - 1
         /\ Part!Lo(b) \in Part!All /\ Level(Part!Lo(b)) \in 0 .. Part!Var(b)
         /\ Part!Hi(b) \in Part!All /\ Level(Part!Hi(b)) \in 0 .. Part!Var(b)
<1>1. WordBits \in 0 .. WordBits
  BY WordsHaveBits
<1>2. IsNode(b, WordBits)
  BY <1>1, DiagramsAre DEF Part!All
<1>3. /\ Part!Var(b) \in 0 .. WordBits - 1 /\ Part!Var(b) \in 0 .. WordBits
      /\ Part!Lo(b) \in Part!Diagrams[Part!Var(b)]
      /\ Part!Hi(b) \in Part!Diagrams[Part!Var(b)]
  BY <1>2, WordsHaveBits DEF IsNode
<1>4. Level(b) = Part!Var(b) + 1 /\ Level(b) \in 0 .. WordBits
  BY <1>1, <1>3, WordsHaveBits DEF Level
<1>5. QED BY <1>2, <1>3, <1>4, LevelIs

(* A property of the terminals that passes from the diagrams of v          *)
(* variables to those that test v holds of all diagrams.                   *)
LEMMA EveryDiagram ==
  ASSUME NEW G, Part!Zero \in G, Part!One \in G,
         \A b \in Part!All :
           ~Part!Terminal(b) /\ Part!Diagrams[Part!Var(b)] \subseteq G => b \in G
  PROVE  Part!All \subseteq G
<1> DEFINE S == {n \in 0 .. WordBits : Part!Diagrams[n] \subseteq G}
<1>1. WordBits \in Nat /\ 0 \in Nat /\ 0 <= WordBits /\ S \in SUBSET (0 .. WordBits)
  BY WordsHaveBits
<1>2. 0 \in S
  BY <1>1, DiagramsByLevel
<1>3. ASSUME NEW k \in 0 + 1 .. WordBits, k - 1 \in S PROVE k \in S
  <2>1. k \in 0 .. WordBits /\ k - 1 \in 0 .. WordBits /\ k - 1 \in Nat
    BY <1>1
  <2>2. ASSUME NEW b \in Part!Diagrams[k] PROVE b \in G
    <3>1. CASE Part!Terminal(b)
      BY <3>1 DEF Part!Terminal
    <3>2. CASE ~Part!Terminal(b)
      <4>1. b \in Part!All /\ IsNode(b, k)
        BY <2>1, <3>2, LevelIs, DiagramsAre
      <4>2. Part!Var(b) \in 0 .. k - 1
        BY <4>1 DEF IsNode
      <4>3. Part!Diagrams[Part!Var(b)] \subseteq Part!Diagrams[k - 1]
        BY <2>1, <4>2, DiagramsGrow
      <4>4. QED BY <1>3, <3>2, <4>1, <4>3
    <3>3. QED BY <3>1, <3>2
  <2>3. QED BY <2>1, <2>2
<1> HIDE DEF S
<1>4. S = 0 .. WordBits
  BY <1>1, <1>2, <1>3, UpTo
<1>5. WordBits \in S
  BY <1>1, <1>4
<1>6. QED BY <1>5 DEF S, Part!All

(* The words of a diagram.                                                 *)
Branch(b, w) == IF Part!Var(b) \in w THEN Part!Hi(b) ELSE Part!Lo(b)

Sat[b \in Part!All] ==
  IF b = Part!Zero THEN {}
  ELSE IF b = Part!One THEN Part!Words
  ELSE {w \in Part!Words : w \in Sat[Branch(b, w)]}

LEMMA SatIs ==
  /\ \A b \in Part!All : Sat[b] \in SUBSET Part!Words
  /\ Part!Zero \in Part!All /\ Sat[Part!Zero] = {}
  /\ Part!One \in Part!All /\ Sat[Part!One] = Part!Words
  /\ \A b \in Part!All : ~Part!Terminal(b) =>
       \A w \in Part!Words : w \in Sat[b] <=> w \in Sat[Branch(b, w)]
<1> DEFINE V == SUBSET Part!Words
           body(b, h) == IF b = Part!Zero THEN {}
                         ELSE IF b = Part!One THEN Part!Words
                         ELSE {w \in Part!Words : w \in h[Branch(b, w)]}
           F == [b \in Part!All |-> [h \in [Part!All -> V] |-> body(b, h)]]
           lev == [b \in Part!All |-> Level(b)]
           none == {}
           Is(f) == f = [b \in Part!All |-> body(b, f)]
<1>1. WordBits \in Nat /\ none \in V
  BY WordsHaveBits
<1>2. Part!Zero \in Part!All /\ Part!One \in Part!All
  <2>1. WordBits \in 0 .. WordBits
    BY WordsHaveBits
  <2>2. QED BY <2>1, TerminalsAre DEF Part!All
<1>3. ASSUME NEW b \in Part!All
      PROVE  /\ Level(b) \in 0 .. WordBits /\ lev[b] = Level(b) /\ lev[b] \in Nat /\ lev[b] <= WordBits
             /\ ~Part!Terminal(b) => \A w : Branch(b, w) \in Part!All /\ Level(Branch(b, w)) < Level(b)
  <2>1. Level(b) \in 0 .. WordBits /\ Level(b) \in Nat
    <3>1. WordBits \in 0 .. WordBits
      BY WordsHaveBits
    <3>2. QED BY <3>1, LevelIs, <1>1 DEF Part!All
  <2>2. ASSUME ~Part!Terminal(b), NEW w
        PROVE  Branch(b, w) \in Part!All /\ Level(Branch(b, w)) < Level(b)
    BY <2>2, LowerLevels DEF Branch
  <2>3. QED BY <2>1, <2>2, WordsHaveBits
<1>4. lev \in [Part!All -> Nat] /\ \A b \in Part!All : lev[b] <= WordBits
  <2>1. \A b \in Part!All : lev[b] \in Nat /\ lev[b] <= WordBits
    BY <1>3
  <2>2. QED BY <2>1
<1>5. \A b, h : body(b, h) \in V
  OBVIOUS
<1>6. F \in [Part!All -> [[Part!All -> V] -> V]]
  <2> HIDE DEF body
  <2>1. QED BY <1>5
<1>7. ASSUME NEW b \in Part!All, NEW g \in [Part!All -> V], NEW h \in [Part!All -> V],
             \A d \in Part!All : lev[d] < lev[b] => g[d] = h[d]
      PROVE  F[b][g] = F[b][h]
  <2>1. F[b][g] = body(b, g) /\ F[b][h] = body(b, h)
    OBVIOUS
  <2>2. CASE Part!Terminal(b)
    BY <2>1, <2>2 DEF Part!Terminal
  <2>3. CASE ~Part!Terminal(b)
    <3>1. \A w : g[Branch(b, w)] = h[Branch(b, w)]
      <4>1. \A w : Branch(b, w) \in Part!All /\ lev[Branch(b, w)] < lev[b]
        BY <1>3, <2>3
      <4> HIDE DEF lev
      <4>2. QED BY <1>7, <4>1
    <3>2. QED BY <2>1, <3>1
  <2>4. QED BY <2>2, <2>3
<1>8. PICK f \in [Part!All -> V] : Rests(f, Part!All, F)
  <2> HIDE DEF V, F, lev, none
  <2>1. \A b \in Part!All : \A g, h \in [Part!All -> V] :
          (\A d \in Part!All : lev[d] < lev[b] => g[d] = h[d]) => F[b][g] = F[b][h]
    BY <1>7
  <2>2. Levelled(Part!All, V, lev, WordBits, F) /\ none \in V
    BY <1>1, <1>4, <1>6, <2>1 DEF Levelled
  <2>3. QED BY <2>2, ByLevels
<1>9. Is(f)
  <2>1. \A b \in Part!All : f[b] = F[b][f] /\ F[b][f] = body(b, f)
    BY <1>8 DEF Rests
  <2> HIDE DEF body, F
  <2>2. QED BY <2>1
<1>10. Sat = CHOOSE g : Is(g)
  BY DEF Sat
<1>11. Is(Sat)
  <2> HIDE DEF Is
  <2>1. QED BY <1>9, <1>10
<1>12. \A b \in Part!All : Sat[b] = body(b, Sat)
  <2> HIDE DEF body
  <2>1. QED BY <1>11
<1>13. \A b \in Part!All : Sat[b] \in V
  <2> HIDE DEF body, V
  <2>1. QED BY <1>5, <1>12
<1>14. Part!Zero # Part!One
  BY Nodes
<1>15. QED BY <1>2, <1>12, <1>13, <1>14 DEF Part!Terminal

(* Two words with the same bits below n.                                   *)
SameBelow(n, w, u) == \A i \in 0 .. n - 1 : i \in w <=> i \in u

(* A diagram of n variables looks at the bits below n.                     *)
LEMMA SatLocal ==
  ASSUME NEW n \in 0 .. WordBits, NEW b \in Part!Diagrams[n],
         NEW w \in Part!Words, NEW u \in Part!Words, SameBelow(n, w, u)
  PROVE  w \in Sat[b] <=> u \in Sat[b]
<1> DEFINE G == {d \in Part!All : \A x, y \in Part!Words :
                   SameBelow(Level(d), x, y) => (x \in Sat[d] <=> y \in Sat[d])}
<1>1. Part!Zero \in G /\ Part!One \in G
  BY SatIs
<1>2. ASSUME NEW d \in Part!All, ~Part!Terminal(d), Part!Diagrams[Part!Var(d)] \subseteq G
      PROVE  d \in G
  <2>1. SUFFICES ASSUME NEW x \in Part!Words, NEW y \in Part!Words, SameBelow(Level(d), x, y)
                 PROVE  x \in Sat[d] <=> y \in Sat[d]
    OBVIOUS
  <2> DEFINE v == Part!Var(d)
  <2>2. v \in 0 .. WordBits - 1 /\ Level(d) = v + 1
    BY <1>2, LowerLevels
  <2>3. v \in 0 .. (v + 1) - 1 /\ (v \in x <=> v \in y)
    BY <2>1, <2>2 DEF SameBelow
  <2>4. Branch(d, x) = Branch(d, y)
    BY <2>3 DEF Branch
  <2>5. Branch(d, x) \in G /\ Branch(d, x) \in Part!All /\ Level(Branch(d, x)) \in 0 .. v
    <3>1. Branch(d, x) \in Part!Diagrams[v]
      BY <1>2, LowerLevels DEF Branch, IsNode
    <3>2. QED BY <1>2, <3>1, LowerLevels DEF Branch
  <2>6. SameBelow(Level(Branch(d, x)), x, y)
    <3>1. \A i \in 0 .. Level(Branch(d, x)) - 1 : i \in 0 .. (v + 1) - 1
      BY <2>2, <2>5
    <3>2. QED BY <2>1, <2>2, <3>1 DEF SameBelow
  <2>7. x \in Sat[Branch(d, x)] <=> y \in Sat[Branch(d, x)]
    BY <2>5, <2>6
  <2>8. QED BY <1>2, <2>4, <2>7, SatIs
<1> HIDE DEF G
<1>3. Part!All \subseteq G
  BY <1>1, <1>2, EveryDiagram
<1>4. b \in Part!All /\ Level(b) \in 0 .. n
  BY LevelIs
<1>5. SameBelow(Level(b), w, u)
  <2>1. \A i \in 0 .. Level(b) - 1 : i \in 0 .. n - 1
    BY <1>4, WordsHaveBits
  <2>2. QED BY <2>1 DEF SameBelow
<1>6. b \in G
  BY <1>3, <1>4
<1>7. QED BY <1>5, <1>6 DEF G

(* A word that has a bit, or has not, below a higher one.                  *)
LEMMA OtherBits ==
  ASSUME NEW v \in 0 .. WordBits - 1, NEW w \in Part!Words
  PROVE  /\ w \cup {v} \in Part!Words /\ w \ {v} \in Part!Words
         /\ SameBelow(v, w \cup {v}, w) /\ SameBelow(v, w \ {v}, w)
<1>1. v \notin 0 .. v - 1 /\ v \in 0 .. WordBits - 1
  BY WordsHaveBits
<1>2. QED BY <1>1 DEF Part!Words, Part!Bits, SameBelow

(* A test of v between diagrams of lower variables.                        *)
LEMMA SatMk ==
  ASSUME NEW v \in 0 .. WordBits - 1, NEW lo \in Part!Diagrams[v], NEW hi \in Part!Diagrams[v],
         NEW w \in Part!Words
  PROVE  w \in Sat[Part!Mk(v, lo, hi)] <=> w \in Sat[IF v \in w THEN hi ELSE lo]
<1>1. CASE lo = hi
  BY <1>1 DEF Part!Mk
<1>2. CASE lo # hi
  <2> DEFINE b == <<v, lo, hi>>
  <2>1. Part!Mk(v, lo, hi) = b
    BY <1>2 DEF Part!Mk
  <2>2. /\ ~Part!Terminal(b) /\ Part!Var(b) = v /\ Part!Lo(b) = lo /\ Part!Hi(b) = hi
    BY Nodes
  <2>3. b \in Part!All
    <3>1. v + 1 \in 0 .. WordBits
      BY WordsHaveBits
    <3>2. QED BY <2>1, <3>1, MadeDiagram, LevelIs
  <2> HIDE DEF b
  <2>4. Branch(b, w) = IF v \in w THEN hi ELSE lo
    BY <2>2 DEF Branch
  <2>5. QED BY <2>1, <2>2, <2>3, <2>4, SatIs
<1>3. QED BY <1>1, <1>2

(* What a diagram is where a variable is decided.                          *)
LEMMA Cofactors ==
  ASSUME NEW v \in 0 .. WordBits - 1, NEW b \in Part!Diagrams[v + 1]
  PROVE  /\ Part!Low(b, v) \in Part!Diagrams[v] /\ Part!High(b, v) \in Part!Diagrams[v]
         /\ b = Part!Mk(v, Part!Low(b, v), Part!High(b, v))
         /\ \A w \in Part!Words :
              /\ w \in Sat[b] <=> w \in Sat[IF v \in w THEN Part!High(b, v) ELSE Part!Low(b, v)]
              /\ w \in Sat[Part!Low(b, v)] <=> w \ {v} \in Sat[b]
              /\ w \in Sat[Part!High(b, v)] <=> w \cup {v} \in Sat[b]
<1> DEFINE lo == Part!Low(b, v)
           hi == Part!High(b, v)
<1>1. v \in Nat /\ v \in 0 .. WordBits /\ v + 1 \in 0 .. WordBits
  BY WordsHaveBits
<1>2. lo \in Part!Diagrams[v] /\ hi \in Part!Diagrams[v] /\ b = Part!Mk(v, lo, hi)
  <2>1. CASE Part!Terminal(b)
    <3>1. b \in Part!Diagrams[v]
      BY <1>1, <2>1, TerminalsAre DEF Part!Terminal
    <3>2. lo = b /\ hi = b
      BY <2>1 DEF Part!Low, Part!High
    <3>3. QED BY <3>1, <3>2 DEF Part!Mk
  <2>2. CASE ~Part!Terminal(b) /\ Part!Var(b) # v
    <3>1. IsNode(b, v + 1)
      BY <1>1, <2>2, DiagramsAre
    <3>2. b \in Part!Diagrams[Level(b)] /\ Level(b) = Part!Var(b) + 1
      BY <1>1, <2>2, LevelIs DEF Level
    <3>3. Level(b) \in 0 .. v
      BY <1>1, <2>2, <3>1, <3>2 DEF IsNode
    <3>4. b \in Part!Diagrams[v]
      BY <1>1, <3>2, <3>3, DiagramsGrow
    <3>5. lo = b /\ hi = b
      BY <2>2 DEF Part!Low, Part!High
    <3>6. QED BY <3>4, <3>5 DEF Part!Mk
  <2>3. CASE ~Part!Terminal(b) /\ Part!Var(b) = v
    <3>1. IsNode(b, v + 1)
      BY <1>1, <2>3, DiagramsAre
    <3>2. lo = Part!Lo(b) /\ hi = Part!Hi(b)
      BY <2>3 DEF Part!Low, Part!High
    <3>3. QED BY <2>3, <3>1, <3>2 DEF IsNode, Part!Mk
  <2>4. QED BY <2>1, <2>2, <2>3
<1> HIDE DEF lo, hi
<1>3. ASSUME NEW w \in Part!Words PROVE w \in Sat[b] <=> w \in Sat[IF v \in w THEN hi ELSE lo]
  BY <1>2, SatMk
<1>4. ASSUME NEW w \in Part!Words
      PROVE  /\ w \in Sat[lo] <=> w \ {v} \in Sat[b]
             /\ w \in Sat[hi] <=> w \cup {v} \in Sat[b]
  <2>1. /\ w \cup {v} \in Part!Words /\ w \ {v} \in Part!Words
        /\ SameBelow(v, w \cup {v}, w) /\ SameBelow(v, w \ {v}, w)
    BY OtherBits
  <2>2. w \ {v} \in Sat[b] <=> w \ {v} \in Sat[lo]
    BY <1>3, <2>1
  <2>3. w \cup {v} \in Sat[b] <=> w \cup {v} \in Sat[hi]
    BY <1>3, <2>1
  <2>4. w \ {v} \in Sat[lo] <=> w \in Sat[lo]
    BY <1>1, <1>2, <2>1, SatLocal
  <2>5. w \cup {v} \in Sat[hi] <=> w \in Sat[hi]
    BY <1>1, <1>2, <2>1, SatLocal
  <2>6. QED BY <2>2, <2>3, <2>4, <2>5
<1>5. QED BY <1>2, <1>3, <1>4 DEF lo, hi

(* Diagrams of the same words are the same.                                *)
LEMMA SatOnce ==
  ASSUME NEW a \in Part!All, NEW b \in Part!All, Sat[a] = Sat[b]
  PROVE  a = b
<1> DEFINE S == {n \in 0 .. WordBits : \A x, y \in Part!Diagrams[n] : Sat[x] = Sat[y] => x = y}
<1>1. WordBits \in Nat /\ 0 \in Nat /\ 0 <= WordBits /\ S \in SUBSET (0 .. WordBits)
  BY WordsHaveBits
<1>2. 0 \in S
  <2>1. Sat[Part!Zero] # Sat[Part!One]
    <3>1. {} \in Part!Words
      BY DEF Part!Words
    <3>2. QED BY <3>1, SatIs
  <2>2. QED BY <1>1, <2>1, DiagramsByLevel
<1>3. ASSUME NEW k \in 0 + 1 .. WordBits, k - 1 \in S PROVE k \in S
  <2> DEFINE v == k - 1
  <2>1. v \in 0 .. WordBits - 1 /\ v + 1 = k /\ k \in 0 .. WordBits
    BY <1>1
  <2>2. ASSUME NEW x \in Part!Diagrams[k], NEW y \in Part!Diagrams[k], Sat[x] = Sat[y] PROVE x = y
    <3> DEFINE xl == Part!Low(x, v)
               xh == Part!High(x, v)
               yl == Part!Low(y, v)
               yh == Part!High(y, v)
    <3>1. /\ xl \in Part!Diagrams[v] /\ xh \in Part!Diagrams[v] /\ x = Part!Mk(v, xl, xh)
          /\ \A w \in Part!Words : w \in Sat[xl] <=> w \ {v} \in Sat[x]
          /\ \A w \in Part!Words : w \in Sat[xh] <=> w \cup {v} \in Sat[x]
      BY <2>1, Cofactors
    <3>2. /\ yl \in Part!Diagrams[v] /\ yh \in Part!Diagrams[v] /\ y = Part!Mk(v, yl, yh)
          /\ \A w \in Part!Words : w \in Sat[yl] <=> w \ {v} \in Sat[y]
          /\ \A w \in Part!Words : w \in Sat[yh] <=> w \cup {v} \in Sat[y]
      BY <2>1, Cofactors
    <3> HIDE DEF xl, xh, yl, yh
    <3>3. \A d \in Part!Diagrams[v] : Sat[d] \in SUBSET Part!Words
      <4>1. v \in 0 .. WordBits
        BY <1>1, <2>1
      <4> HIDE DEF v
      <4>2. \A d \in Part!Diagrams[v] : d \in Part!All
        BY <4>1, LevelIs
      <4>3. QED BY <4>2, SatIs
    <3>4. Sat[xl] = Sat[yl] /\ Sat[xh] = Sat[yh]
      <4>1. Sat[xl] \in SUBSET Part!Words /\ Sat[yl] \in SUBSET Part!Words
            /\ Sat[xh] \in SUBSET Part!Words /\ Sat[yh] \in SUBSET Part!Words
        BY <3>1, <3>2, <3>3
      <4>2. \A w \in Part!Words : (w \in Sat[xl] <=> w \in Sat[yl]) /\ (w \in Sat[xh] <=> w \in Sat[yh])
        BY <2>2, <3>1, <3>2
      <4>3. QED BY <4>1, <4>2
    <3>5. xl = yl /\ xh = yh
      BY <1>3, <3>1, <3>2, <3>4
    <3>6. QED BY <3>1, <3>2, <3>5
  <2>3. QED BY <2>1, <2>2
<1> HIDE DEF S
<1>4. S = 0 .. WordBits
  BY <1>1, <1>2, <1>3, UpTo
<1>5. WordBits \in S
  BY <1>1, <1>4
<1>6. QED BY <1>5 DEF S, Part!All
-----------------------------------------------------------------------------
(* A binary operation on diagrams: on some pairs it is given, elsewhere it *)
(* is a test of the higher variable between the cofactors' results.        *)
Pairs == Part!All \X Part!All
Top(p) == Part!Split(p[1], p[2])
Lows(p) == <<Part!Low(p[1], Top(p)), Part!Low(p[2], Top(p))>>
Highs(p) == <<Part!High(p[1], Top(p)), Part!High(p[2], Top(p))>>

Combines(f, given, base) ==
  \A p \in Pairs : f[p] = IF p \in given THEN base[p] ELSE Part!Mk(Top(p), f[Lows(p)], f[Highs(p)])

Combinable(given, base) ==
  /\ \A p \in Pairs : p \notin given => ~(Part!Terminal(p[1]) /\ Part!Terminal(p[2]))
  /\ \A n \in 0 .. WordBits : \A a, b \in Part!Diagrams[n] :
       <<a, b>> \in given => base[<<a, b>>] \in Part!Diagrams[n]

PairLevel(p) == IF Level(p[1]) >= Level(p[2]) THEN Level(p[1]) ELSE Level(p[2])

LEMMA PairsAre ==
  ASSUME NEW p \in Pairs
  PROVE  /\ p = <<p[1], p[2]>> /\ p[1] \in Part!All /\ p[2] \in Part!All
         /\ PairLevel(p) \in 0 .. WordBits
         /\ p[1] \in Part!Diagrams[PairLevel(p)] /\ p[2] \in Part!Diagrams[PairLevel(p)]
<1>1. p = <<p[1], p[2]>> /\ p[1] \in Part!All /\ p[2] \in Part!All
  BY DEF Pairs
<1>2. WordBits \in 0 .. WordBits
  BY WordsHaveBits
<1>3. \A b \in Part!All : Level(b) \in 0 .. WordBits /\ b \in Part!Diagrams[Level(b)]
  BY <1>2, LevelIs DEF Part!All
<1> DEFINE x == Level(p[1])
           y == Level(p[2])
<1>4. x \in 0 .. WordBits /\ y \in 0 .. WordBits /\ p[1] \in Part!Diagrams[x] /\ p[2] \in Part!Diagrams[y]
  BY <1>1, <1>3
<1>5. PairLevel(p) = IF x >= y THEN x ELSE y
  BY DEF PairLevel
<1> HIDE DEF x, y
<1>6. PairLevel(p) \in 0 .. WordBits /\ x \in 0 .. PairLevel(p) /\ y \in 0 .. PairLevel(p)
  BY <1>4, <1>5, WordsHaveBits
<1>7. QED BY <1>1, <1>4, <1>6, DiagramsGrow

LEMMA PairSplits ==
  ASSUME NEW p \in Pairs, ~(Part!Terminal(p[1]) /\ Part!Terminal(p[2]))
  PROVE  /\ Top(p) \in 0 .. WordBits - 1 /\ PairLevel(p) = Top(p) + 1
         /\ p[1] \in Part!Diagrams[Top(p) + 1] /\ p[2] \in Part!Diagrams[Top(p) + 1]
<1> DEFINE a == p[1]
           b == p[2]
<1>1. a \in Part!All /\ b \in Part!All
  BY PairsAre
<1>2. /\ Part!Terminal(a) => Level(a) = 0
      /\ Part!Terminal(b) => Level(b) = 0
      /\ ~Part!Terminal(a) => Level(a) = Part!Var(a) + 1 /\ Part!Var(a) \in 0 .. WordBits - 1
      /\ ~Part!Terminal(b) => Level(b) = Part!Var(b) + 1 /\ Part!Var(b) \in 0 .. WordBits - 1
  BY <1>1, LowerLevels DEF Level
<1>3. Top(p) = Part!Split(a, b) /\ PairLevel(p) = IF Level(a) >= Level(b) THEN Level(a) ELSE Level(b)
  BY DEF Top, PairLevel
<1> HIDE DEF a, b
<1>4. Top(p) \in 0 .. WordBits - 1 /\ PairLevel(p) = Top(p) + 1
  <2>1. CASE Part!Terminal(a)
    BY <1>2, <1>3, <2>1, WordsHaveBits DEF Part!Split, a, b
  <2>2. CASE ~Part!Terminal(a) /\ Part!Terminal(b)
    BY <1>2, <1>3, <2>2, WordsHaveBits DEF Part!Split
  <2>3. CASE ~Part!Terminal(a) /\ ~Part!Terminal(b)
    BY <1>2, <1>3, <2>3, WordsHaveBits DEF Part!Split
  <2>4. QED BY <2>1, <2>2, <2>3
<1>5. QED BY <1>4, PairsAre

LEMMA PairHalves ==
  ASSUME NEW n \in 0 .. WordBits, NEW p \in Pairs,
         p[1] \in Part!Diagrams[n], p[2] \in Part!Diagrams[n],
         ~(Part!Terminal(p[1]) /\ Part!Terminal(p[2]))
  PROVE  /\ Top(p) \in 0 .. n - 1 /\ Top(p) \in 0 .. WordBits - 1
         /\ Lows(p) \in Pairs /\ Highs(p) \in Pairs
         /\ Lows(p) = <<Lows(p)[1], Lows(p)[2]>> /\ Highs(p) = <<Highs(p)[1], Highs(p)[2]>>
         /\ Lows(p)[1] = Part!Low(p[1], Top(p)) /\ Lows(p)[2] = Part!Low(p[2], Top(p))
         /\ Highs(p)[1] = Part!High(p[1], Top(p)) /\ Highs(p)[2] = Part!High(p[2], Top(p))
         /\ Lows(p)[1] \in Part!Diagrams[Top(p)] /\ Lows(p)[2] \in Part!Diagrams[Top(p)]
         /\ Highs(p)[1] \in Part!Diagrams[Top(p)] /\ Highs(p)[2] \in Part!Diagrams[Top(p)]
<1> DEFINE v == Top(p)
<1>1. v \in 0 .. WordBits - 1 /\ v \in 0 .. WordBits /\ PairLevel(p) = v + 1
      /\ p[1] \in Part!Diagrams[v + 1] /\ p[2] \in Part!Diagrams[v + 1]
  BY PairSplits, WordsHaveBits
<1>2. v \in 0 .. n - 1
  <2>1. Level(p[1]) \in 0 .. n /\ Level(p[2]) \in 0 .. n
    BY LevelIs
  <2>2. v + 1 <= n
    BY <1>1, <2>1, WordsHaveBits DEF PairLevel
  <2>3. QED BY <1>1, <2>2, WordsHaveBits
<1>3. /\ Part!Low(p[1], v) \in Part!Diagrams[v] /\ Part!Low(p[2], v) \in Part!Diagrams[v]
      /\ Part!High(p[1], v) \in Part!Diagrams[v] /\ Part!High(p[2], v) \in Part!Diagrams[v]
  BY <1>1, Cofactors
<1>4. Part!Diagrams[v] \subseteq Part!All
  BY <1>1, LevelIs
<1>5. QED BY <1>1, <1>2, <1>3, <1>4 DEF Lows, Highs, Pairs

(* Such an operation gives diagrams of the variables it is given.          *)
LEMMA CombinedLevels ==
  ASSUME NEW f, NEW given, NEW base, Combinable(given, base),
         \A p \in Pairs :
           \/ f[p] = IF p \in given THEN base[p] ELSE Part!Mk(Top(p), f[Lows(p)], f[Highs(p)])
           \/ /\ p \notin given
              /\ Part!Mk(Top(p), f[Lows(p)], f[Highs(p)]) \notin Part!All
  PROVE  \A n \in 0 .. WordBits : \A a, b \in Part!Diagrams[n] : f[<<a, b>>] \in Part!Diagrams[n]
<1> DEFINE S == {n \in 0 .. WordBits :
                   \A p \in Pairs : PairLevel(p) <= n => f[p] \in Part!Diagrams[PairLevel(p)]}
<1>1. WordBits \in Nat /\ 0 \in Nat /\ 0 <= WordBits /\ S \in SUBSET (0 .. WordBits)
  BY WordsHaveBits
<1>2. ASSUME NEW p \in Pairs, p \in given PROVE f[p] \in Part!Diagrams[PairLevel(p)]
  BY <1>2, PairsAre DEF Combinable
<1>3. ASSUME NEW p \in Pairs, p \notin given
      PROVE  /\ ~(Part!Terminal(p[1]) /\ Part!Terminal(p[2]))
             /\ PairLevel(p) = Top(p) + 1 /\ Top(p) \in 0 .. WordBits - 1
  BY <1>3, PairSplits DEF Combinable
<1>4. 0 \in S
  <2>1. ASSUME NEW p \in Pairs, PairLevel(p) <= 0 PROVE f[p] \in Part!Diagrams[PairLevel(p)]
    <3>1. p \in given
      BY <1>3, <2>1, WordsHaveBits
    <3>2. QED BY <1>2, <3>1
  <2>2. QED BY <1>1, <2>1
<1>5. ASSUME NEW k \in 0 + 1 .. WordBits, k - 1 \in S PROVE k \in S
  <2>1. ASSUME NEW p \in Pairs, PairLevel(p) <= k, p \notin given
        PROVE  f[p] \in Part!Diagrams[PairLevel(p)]
    <3> DEFINE v == Top(p)
               n == PairLevel(p)
    <3>1. /\ n \in 0 .. WordBits /\ p[1] \in Part!Diagrams[n] /\ p[2] \in Part!Diagrams[n]
          /\ ~(Part!Terminal(p[1]) /\ Part!Terminal(p[2]))
          /\ n = v + 1 /\ v \in 0 .. WordBits - 1 /\ v \in 0 .. WordBits /\ v <= k - 1
      BY <1>3, <2>1, PairsAre, WordsHaveBits
    <3>2. /\ Lows(p) \in Pairs /\ Highs(p) \in Pairs
          /\ Lows(p)[1] \in Part!Diagrams[v] /\ Lows(p)[2] \in Part!Diagrams[v]
          /\ Highs(p)[1] \in Part!Diagrams[v] /\ Highs(p)[2] \in Part!Diagrams[v]
      BY <3>1, PairHalves
    <3> HIDE DEF v, n
    <3>3. ASSUME NEW q \in Pairs, q[1] \in Part!Diagrams[v], q[2] \in Part!Diagrams[v]
          PROVE  f[q] \in Part!Diagrams[v]
      <4>1. Level(q[1]) \in 0 .. v /\ Level(q[2]) \in 0 .. v
        BY <3>1, <3>3, LevelIs
      <4>2. PairLevel(q) \in 0 .. v
        BY <4>1 DEF PairLevel
      <4>3. PairLevel(q) <= k - 1
        BY <3>1, <4>2
      <4>4. f[q] \in Part!Diagrams[PairLevel(q)]
        BY <1>5, <4>3
      <4>5. QED BY <3>1, <4>2, <4>4, DiagramsGrow
    <3>4. f[Lows(p)] \in Part!Diagrams[v] /\ f[Highs(p)] \in Part!Diagrams[v]
      BY <3>2, <3>3
    <3>5. Part!Mk(v, f[Lows(p)], f[Highs(p)]) \in Part!Diagrams[v + 1]
      BY <3>1, <3>4, MadeDiagram
    <3>6. Part!Mk(v, f[Lows(p)], f[Highs(p)]) \in Part!All
      BY <3>1, <3>5, LevelIs
    <3>7. QED BY <2>1, <3>1, <3>5, <3>6 DEF v, n
  <2>2. QED BY <1>1, <1>2, <2>1
<1> HIDE DEF S
<1>6. S = 0 .. WordBits
  BY <1>1, <1>4, <1>5, UpTo
<1>7. \A p \in Pairs : f[p] \in Part!Diagrams[PairLevel(p)]
  <2>1. WordBits \in S
    BY <1>1, <1>6
  <2>2. \A p \in Pairs : PairLevel(p) <= WordBits
    BY PairsAre, WordsHaveBits
  <2>3. QED BY <2>1, <2>2 DEF S
<1>8. ASSUME NEW n \in 0 .. WordBits, NEW a \in Part!Diagrams[n], NEW b \in Part!Diagrams[n]
      PROVE  f[<<a, b>>] \in Part!Diagrams[n]
  <2> DEFINE p == <<a, b>>
  <2>1. /\ p \in Pairs /\ p[1] = a /\ p[2] = b
        /\ Level(a) \in 0 .. n /\ Level(b) \in 0 .. n
    BY LevelIs DEF Pairs
  <2> HIDE DEF p
  <2>2. PairLevel(p) \in 0 .. n
    BY <2>1 DEF PairLevel
  <2>3. f[p] \in Part!Diagrams[n]
    BY <1>7, <2>1, <2>2, DiagramsGrow
  <2>4. QED BY <2>3 DEF p
<1>9. QED BY <1>8

LEMMA HalvesBelow ==
  ASSUME NEW p \in Pairs, ~(Part!Terminal(p[1]) /\ Part!Terminal(p[2]))
  PROVE  /\ Lows(p) \in Pairs /\ PairLevel(Lows(p)) < PairLevel(p)
         /\ Highs(p) \in Pairs /\ PairLevel(Highs(p)) < PairLevel(p)
<1> DEFINE v == Top(p)
<1>1. /\ v \in 0 .. WordBits - 1 /\ PairLevel(p) = v + 1 /\ v + 1 \in 0 .. WordBits /\ v \in 0 .. WordBits
      /\ p[1] \in Part!Diagrams[v + 1] /\ p[2] \in Part!Diagrams[v + 1]
  BY PairSplits, WordsHaveBits
<1>2. /\ Lows(p) \in Pairs /\ Highs(p) \in Pairs
      /\ Lows(p)[1] \in Part!Diagrams[v] /\ Lows(p)[2] \in Part!Diagrams[v]
      /\ Highs(p)[1] \in Part!Diagrams[v] /\ Highs(p)[2] \in Part!Diagrams[v]
  BY <1>1, PairHalves
<1> HIDE DEF v
<1>3. /\ Level(Lows(p)[1]) \in 0 .. v /\ Level(Lows(p)[2]) \in 0 .. v
      /\ Level(Highs(p)[1]) \in 0 .. v /\ Level(Highs(p)[2]) \in 0 .. v
  BY <1>1, <1>2, LevelIs
<1>4. PairLevel(Lows(p)) \in 0 .. v /\ PairLevel(Highs(p)) \in 0 .. v
  BY <1>3 DEF PairLevel
<1>5. QED BY <1>1, <1>2, <1>4

(* There is such an operation.                                             *)
LEMMA CombinedExists ==
  ASSUME NEW given, NEW base, Combinable(given, base),
         \A p \in Pairs : p \in given => base[p] \in Part!All
  PROVE  \E f \in [Pairs -> Part!All] : Combines(f, given, base)
<1> DEFINE V == Part!All
           z == Part!Zero
           body(p, h) == IF p \in given THEN base[p] ELSE Part!Mk(Top(p), h[Lows(p)], h[Highs(p)])
           F == [p \in Pairs |-> [h \in [Pairs -> V] |-> IF body(p, h) \in V THEN body(p, h) ELSE z]]
           lev == [p \in Pairs |-> PairLevel(p)]
<1>1. WordBits \in Nat /\ z \in V
  BY WordsHaveBits, SatIs
<1>2. lev \in [Pairs -> Nat] /\ \A p \in Pairs : lev[p] <= WordBits
  <2>1. \A p \in Pairs : PairLevel(p) \in Nat /\ PairLevel(p) <= WordBits
    BY PairsAre, WordsHaveBits
  <2>2. QED BY <2>1
<1>3. F \in [Pairs -> [[Pairs -> V] -> V]]
  <2> HIDE DEF body, V, z
  <2>1. QED BY <1>1
<1>4. ASSUME NEW p \in Pairs, NEW g \in [Pairs -> V], NEW h \in [Pairs -> V],
             \A q \in Pairs : lev[q] < lev[p] => g[q] = h[q]
      PROVE  F[p][g] = F[p][h]
  <2>1. body(p, g) = body(p, h)
    <3>1. CASE p \in given
      BY <3>1
    <3>2. CASE p \notin given
      <4>1. /\ Lows(p) \in Pairs /\ PairLevel(Lows(p)) < PairLevel(p)
            /\ Highs(p) \in Pairs /\ PairLevel(Highs(p)) < PairLevel(p)
        BY <3>2, HalvesBelow DEF Combinable
      <4>2. g[Lows(p)] = h[Lows(p)] /\ g[Highs(p)] = h[Highs(p)]
        BY <1>4, <4>1
      <4>3. QED BY <3>2, <4>2
    <3>3. QED BY <3>1, <3>2
  <2> HIDE DEF body
  <2>2. QED BY <2>1
<1>5. PICK f \in [Pairs -> V] : Rests(f, Pairs, F)
  <2> HIDE DEF V, F, lev, z
  <2>1. \A p \in Pairs : \A g, h \in [Pairs -> V] :
          (\A q \in Pairs : lev[q] < lev[p] => g[q] = h[q]) => F[p][g] = F[p][h]
    BY <1>4
  <2>2. Levelled(Pairs, V, lev, WordBits, F) /\ z \in V
    BY <1>1, <1>2, <1>3, <2>1 DEF Levelled
  <2>3. QED BY <2>2, ByLevels
<1>6. ASSUME NEW p \in Pairs
      PROVE  f[p] = IF body(p, f) \in V THEN body(p, f) ELSE z
  <2> HIDE DEF body, V, z
  <2>1. f[p] = F[p][f] /\ f \in [Pairs -> V]
    BY <1>5 DEF Rests
  <2>2. QED BY <2>1
<1>7. \A p \in Pairs :
        \/ f[p] = IF p \in given THEN base[p] ELSE Part!Mk(Top(p), f[Lows(p)], f[Highs(p)])
        \/ /\ p \notin given
           /\ Part!Mk(Top(p), f[Lows(p)], f[Highs(p)]) \notin Part!All
  BY <1>6
<1>8. \A n \in 0 .. WordBits : \A a, b \in Part!Diagrams[n] : f[<<a, b>>] \in Part!Diagrams[n]
  <2> HIDE DEF V, z, body, F, lev
  <2>1. QED BY <1>7, CombinedLevels, Zenon
<1>9. ASSUME NEW p \in Pairs, p \notin given
      PROVE  Part!Mk(Top(p), f[Lows(p)], f[Highs(p)]) \in Part!All
  <2> DEFINE v == Top(p)
             l == Lows(p)
             h == Highs(p)
  <2>1. ~(Part!Terminal(p[1]) /\ Part!Terminal(p[2]))
    BY <1>9 DEF Combinable
  <2>2. /\ v \in 0 .. WordBits - 1 /\ v \in 0 .. WordBits /\ v + 1 \in 0 .. WordBits
        /\ p[1] \in Part!Diagrams[v + 1] /\ p[2] \in Part!Diagrams[v + 1]
    BY <2>1, PairSplits, WordsHaveBits
  <2>3. /\ l = <<l[1], l[2]>> /\ l[1] \in Part!Diagrams[v] /\ l[2] \in Part!Diagrams[v]
        /\ h = <<h[1], h[2]>> /\ h[1] \in Part!Diagrams[v] /\ h[2] \in Part!Diagrams[v]
    BY <2>1, <2>2, PairHalves
  <2> HIDE DEF v, l, h
  <2>4. f[l] \in Part!Diagrams[v] /\ f[h] \in Part!Diagrams[v]
    BY <1>8, <2>2, <2>3
  <2>5. Part!Mk(v, f[l], f[h]) \in Part!All
    BY <2>2, <2>4, MadeDiagram, LevelIs
  <2>6. QED BY <2>5 DEF v, l, h
<1>10. QED BY <1>5, <1>7, <1>9 DEF Combines

(* The words of its results are those of an operation on sets that is the  *)
(* same on the given pairs and also splits on the higher variable.         *)
Splits(T, given) ==
  \A p \in Pairs : p \notin given =>
    \A w \in Part!Words : w \in T[p] <=> w \in T[IF Top(p) \in w THEN Highs(p) ELSE Lows(p)]

LEMMA CombinedSat ==
  ASSUME NEW f, NEW given, NEW base, Combinable(given, base),
         Combines(f, given, base),
         NEW T \in [Pairs -> SUBSET Part!Words], Splits(T, given),
         \A p \in Pairs : p \in given => Sat[base[p]] = T[p]
  PROVE  /\ \A n \in 0 .. WordBits : \A a, b \in Part!Diagrams[n] : f[<<a, b>>] \in Part!Diagrams[n]
         /\ \A p \in Pairs : Sat[f[p]] = T[p]
<1>1. \A n \in 0 .. WordBits : \A a, b \in Part!Diagrams[n] : f[<<a, b>>] \in Part!Diagrams[n]
  <2>1. \A p \in Pairs :
          \/ f[p] = IF p \in given THEN base[p] ELSE Part!Mk(Top(p), f[Lows(p)], f[Highs(p)])
          \/ /\ p \notin given
             /\ Part!Mk(Top(p), f[Lows(p)], f[Highs(p)]) \notin Part!All
    BY DEF Combines
  <2>2. QED BY <2>1, CombinedLevels
<1> DEFINE S == {n \in 0 .. WordBits : \A p \in Pairs : PairLevel(p) <= n => Sat[f[p]] = T[p]}
<1>2. WordBits \in Nat /\ 0 \in Nat /\ 0 <= WordBits /\ S \in SUBSET (0 .. WordBits)
  BY WordsHaveBits
<1>3. ASSUME NEW p \in Pairs, p \in given PROVE Sat[f[p]] = T[p]
  BY <1>3 DEF Combines
<1>4. ASSUME NEW p \in Pairs, p \notin given
      PROVE  /\ ~(Part!Terminal(p[1]) /\ Part!Terminal(p[2]))
             /\ PairLevel(p) = Top(p) + 1 /\ Top(p) \in 0 .. WordBits - 1
  BY <1>4, PairSplits DEF Combinable
<1>5. 0 \in S
  <2>1. ASSUME NEW p \in Pairs, PairLevel(p) <= 0 PROVE Sat[f[p]] = T[p]
    <3>1. p \in given
      BY <1>4, <2>1, WordsHaveBits
    <3>2. QED BY <1>3, <3>1
  <2>2. QED BY <1>2, <2>1
<1>6. ASSUME NEW k \in 0 + 1 .. WordBits, k - 1 \in S PROVE k \in S
  <2>1. ASSUME NEW p \in Pairs, PairLevel(p) <= k, p \notin given
        PROVE  Sat[f[p]] = T[p]
    <3> DEFINE v == Top(p)
               l == Lows(p)
               h == Highs(p)
    <3>1. /\ ~(Part!Terminal(p[1]) /\ Part!Terminal(p[2]))
          /\ PairLevel(p) = v + 1 /\ v \in 0 .. WordBits - 1 /\ v \in 0 .. WordBits
          /\ v + 1 \in 0 .. WordBits /\ v <= k - 1
          /\ p[1] \in Part!Diagrams[v + 1] /\ p[2] \in Part!Diagrams[v + 1]
      BY <1>4, <2>1, PairSplits, WordsHaveBits
    <3>2. /\ l \in Pairs /\ PairLevel(l) < v + 1 /\ h \in Pairs /\ PairLevel(h) < v + 1
      BY <3>1, HalvesBelow
    <3>3. /\ l = <<l[1], l[2]>> /\ l[1] \in Part!Diagrams[v] /\ l[2] \in Part!Diagrams[v]
          /\ h = <<h[1], h[2]>> /\ h[1] \in Part!Diagrams[v] /\ h[2] \in Part!Diagrams[v]
      BY <3>1, PairHalves
    <3>4. f[p] = Part!Mk(v, f[l], f[h])
      BY <2>1 DEF Combines
    <3>5. \A w \in Part!Words : w \in T[p] <=> w \in T[IF v \in w THEN h ELSE l]
      BY <2>1 DEF Splits
    <3>6. PairLevel(l) \in 0 .. WordBits /\ PairLevel(h) \in 0 .. WordBits
      BY <3>2, PairsAre
    <3> HIDE DEF v, l, h
    <3>7. Sat[f[l]] = T[l] /\ Sat[f[h]] = T[h]
      <4>1. PairLevel(l) <= k - 1 /\ PairLevel(h) <= k - 1
        BY <1>2, <3>1, <3>2, <3>6
      <4>2. QED BY <1>6, <3>2, <4>1
    <3>8. f[l] \in Part!Diagrams[v] /\ f[h] \in Part!Diagrams[v]
      BY <1>1, <3>1, <3>3
    <3>9. \A w \in Part!Words : w \in Sat[f[p]] <=> w \in T[p]
      BY <3>1, <3>4, <3>5, <3>7, <3>8, SatMk
    <3>10. Sat[f[p]] \in SUBSET Part!Words /\ T[p] \in SUBSET Part!Words
      <4>1. f[p] \in Part!All
        BY <1>1, <2>1, PairsAre, LevelIs
      <4>2. QED BY <4>1, SatIs
    <3>11. QED BY <3>9, <3>10
  <2>2. QED BY <1>2, <1>3, <2>1
<1> HIDE DEF S
<1>7. S = 0 .. WordBits
  BY <1>2, <1>5, <1>6, UpTo
<1>8. WordBits \in S
  BY <1>2, <1>7
<1>9. \A p \in Pairs : PairLevel(p) <= WordBits
  BY PairsAre, WordsHaveBits
<1>10. QED BY <1>1, <1>8, <1>9 DEF S

Half(p, w) == IF Top(p) \in w THEN Highs(p) ELSE Lows(p)

LEMMA SatHalves ==
  ASSUME NEW p \in Pairs, ~(Part!Terminal(p[1]) /\ Part!Terminal(p[2])), NEW w \in Part!Words
  PROVE  /\ w \in Sat[p[1]] <=> w \in Sat[Half(p, w)[1]]
         /\ w \in Sat[p[2]] <=> w \in Sat[Half(p, w)[2]]
<1> DEFINE v == Top(p)
<1>1. /\ v \in 0 .. WordBits - 1 /\ v + 1 \in 0 .. WordBits
      /\ p[1] \in Part!Diagrams[v + 1] /\ p[2] \in Part!Diagrams[v + 1]
  BY PairSplits, WordsHaveBits
<1>2. /\ Lows(p)[1] = Part!Low(p[1], v) /\ Lows(p)[2] = Part!Low(p[2], v)
      /\ Highs(p)[1] = Part!High(p[1], v) /\ Highs(p)[2] = Part!High(p[2], v)
  BY <1>1, PairHalves
<1>3. Half(p, w) = IF v \in w THEN Highs(p) ELSE Lows(p)
  BY DEF Half
<1> HIDE DEF v
<1>4. /\ w \in Sat[p[1]] <=> w \in Sat[IF v \in w THEN Part!High(p[1], v) ELSE Part!Low(p[1], v)]
      /\ w \in Sat[p[2]] <=> w \in Sat[IF v \in w THEN Part!High(p[2], v) ELSE Part!Low(p[2], v)]
  <2>1. \A b \in Part!Diagrams[v + 1] :
          w \in Sat[b] <=> w \in Sat[IF v \in w THEN Part!High(b, v) ELSE Part!Low(b, v)]
    BY <1>1, Cofactors
  <2>2. QED BY <1>1, <2>1
<1>5. CASE v \in w
  BY <1>2, <1>3, <1>4, <1>5
<1>6. CASE v \notin w
  BY <1>2, <1>3, <1>4, <1>6
<1>7. QED BY <1>5, <1>6

(* The union of two diagrams' words, as or_ takes it.                      *)
OrGiven == {p \in Pairs : \/ p[1] = Part!One \/ p[2] = Part!One
                          \/ p[1] = Part!Zero \/ p[2] = Part!Zero}
OrBase == [p \in Pairs |-> IF p[1] = Part!One \/ p[2] = Part!One THEN Part!One
                           ELSE IF p[1] = Part!Zero THEN p[2] ELSE p[1]]

LEMMA OrIs ==
  /\ \A n \in 0 .. WordBits : \A a, b \in Part!Diagrams[n] : Part!Or[<<a, b>>] \in Part!Diagrams[n]
  /\ \A a, b \in Part!All : Sat[Part!Or[<<a, b>>]] = Sat[a] \cup Sat[b]
<1> DEFINE Is(f) == f = [p \in Pairs |->
              IF p[1] = Part!One \/ p[2] = Part!One THEN Part!One
              ELSE IF p[1] = Part!Zero THEN p[2]
              ELSE IF p[2] = Part!Zero THEN p[1]
              ELSE Part!Mk(Top(p), f[Lows(p)], f[Highs(p)])]
<1>1. \A p \in Pairs : p[1] \in Part!All /\ p[2] \in Part!All
  BY PairsAre
<1>2. \A p \in Pairs : OrBase[p] \in Part!All
  BY <1>1, SatIs DEF OrBase
<1>3. Combinable(OrGiven, OrBase)
  <2>1. ASSUME NEW p \in Pairs, p \notin OrGiven PROVE ~(Part!Terminal(p[1]) /\ Part!Terminal(p[2]))
    BY <2>1 DEF OrGiven, Part!Terminal
  <2>2. ASSUME NEW n \in 0 .. WordBits, NEW a \in Part!Diagrams[n], NEW b \in Part!Diagrams[n]
        PROVE  OrBase[<<a, b>>] \in Part!Diagrams[n]
    <3>1. <<a, b>> \in Pairs
      BY LevelIs DEF Pairs
    <3>2. QED BY <3>1, TerminalsAre DEF OrBase
  <2>3. QED BY <2>1, <2>2 DEF Combinable
<1>4. ASSUME NEW f
      PROVE  Is(f) <=> f = [p \in Pairs |-> f[p]] /\ Combines(f, OrGiven, OrBase)
  <2> DEFINE body(p) == IF p[1] = Part!One \/ p[2] = Part!One THEN Part!One
                        ELSE IF p[1] = Part!Zero THEN p[2]
                        ELSE IF p[2] = Part!Zero THEN p[1]
                        ELSE Part!Mk(Top(p), f[Lows(p)], f[Highs(p)])
  <2>1. \A p \in Pairs : body(p) = IF p \in OrGiven THEN OrBase[p]
                                   ELSE Part!Mk(Top(p), f[Lows(p)], f[Highs(p)])
    BY DEF OrGiven, OrBase
  <2>2. Is(f) <=> f = [p \in Pairs |-> body(p)]
    OBVIOUS
  <2> HIDE DEF body, Is
  <2>3. f = [p \in Pairs |-> body(p)] => \A p \in Pairs : f[p] = body(p)
    OBVIOUS
  <2>4. (\A p \in Pairs : f[p] = body(p)) => [p \in Pairs |-> f[p]] = [p \in Pairs |-> body(p)]
    OBVIOUS
  <2>5. Combines(f, OrGiven, OrBase) <=> \A p \in Pairs : f[p] = body(p)
    BY <2>1 DEF Combines
  <2>6. QED BY <2>2, <2>3, <2>4, <2>5, Zenon
<1>5. \E f : Is(f)
  <2> HIDE DEF Is
  <2>1. PICK f \in [Pairs -> Part!All] : Combines(f, OrGiven, OrBase)
    BY <1>2, <1>3, CombinedExists
  <2>2. f = [p \in Pairs |-> f[p]]
    OBVIOUS
  <2>3. QED BY <1>4, <2>1, <2>2
<1>6. Part!Or = CHOOSE f : Is(f)
  BY DEF Part!Or, Top, Lows, Highs, Pairs
<1>7. Is(Part!Or)
  <2> HIDE DEF Is
  <2>1. QED BY <1>5, <1>6
<1> HIDE DEF Is
<1>8. Part!Or = [p \in Pairs |-> Part!Or[p]] /\ Combines(Part!Or, OrGiven, OrBase)
  BY <1>4, <1>7
<1> DEFINE T == [p \in Pairs |-> Sat[p[1]] \cup Sat[p[2]]]
<1>9. T \in [Pairs -> SUBSET Part!Words]
  BY <1>1, SatIs
<1>10. \A p \in Pairs : p \in OrGiven => Sat[OrBase[p]] = T[p]
  <2>1. \A p \in Pairs : p \in OrGiven => Sat[OrBase[p]] = Sat[p[1]] \cup Sat[p[2]]
    BY <1>1, SatIs, Nodes DEF OrGiven, OrBase
  <2>2. QED BY <2>1
<1>11. Splits(T, OrGiven)
  <2>1. ASSUME NEW p \in Pairs, p \notin OrGiven, NEW w \in Part!Words
        PROVE  w \in T[p] <=> w \in T[Half(p, w)]
    <3>1. ~(Part!Terminal(p[1]) /\ Part!Terminal(p[2]))
      BY <1>3, <2>1 DEF Combinable
    <3>2. Half(p, w) \in Pairs
      BY <3>1, HalvesBelow DEF Half
    <3>3. w \in Sat[p[1]] \cup Sat[p[2]] <=> w \in Sat[Half(p, w)[1]] \cup Sat[Half(p, w)[2]]
      BY <3>1, SatHalves
    <3>4. QED BY <3>2, <3>3
  <2> HIDE DEF T
  <2>2. QED BY <2>1 DEF Splits, Half
<1> HIDE DEF T
<1>12. /\ \A n \in 0 .. WordBits : \A a, b \in Part!Diagrams[n] : Part!Or[<<a, b>>] \in Part!Diagrams[n]
       /\ \A p \in Pairs : Sat[Part!Or[p]] = T[p]
  BY <1>3, <1>8, <1>9, <1>10, <1>11, CombinedSat
<1>13. ASSUME NEW a \in Part!All, NEW b \in Part!All
       PROVE  Sat[Part!Or[<<a, b>>]] = Sat[a] \cup Sat[b]
  <2>1. <<a, b>> \in Pairs
    BY DEF Pairs
  <2>2. QED BY <1>12, <2>1 DEF T
<1>14. QED BY <1>12, <1>13

(* Their difference, as andnot takes it.                                   *)
AndNotGiven == {p \in Pairs : p[1] = Part!Zero \/ p[2] = Part!One \/ p[2] = Part!Zero}
AndNotBase == [p \in Pairs |-> IF p[1] = Part!Zero \/ p[2] = Part!One THEN Part!Zero ELSE p[1]]

LEMMA AndNotIs ==
  /\ \A n \in 0 .. WordBits : \A a, b \in Part!Diagrams[n] : Part!AndNot[<<a, b>>] \in Part!Diagrams[n]
  /\ \A a, b \in Part!All : Sat[Part!AndNot[<<a, b>>]] = Sat[a] \ Sat[b]
<1> DEFINE Is(f) == f = [p \in Pairs |->
              IF p[1] = Part!Zero \/ p[2] = Part!One THEN Part!Zero
              ELSE IF p[2] = Part!Zero THEN p[1]
              ELSE Part!Mk(Top(p), f[Lows(p)], f[Highs(p)])]
<1>1. \A p \in Pairs : p[1] \in Part!All /\ p[2] \in Part!All
  BY PairsAre
<1>2. \A p \in Pairs : AndNotBase[p] \in Part!All
  BY <1>1, SatIs DEF AndNotBase
<1>3. Combinable(AndNotGiven, AndNotBase)
  <2>1. ASSUME NEW p \in Pairs, p \notin AndNotGiven PROVE ~(Part!Terminal(p[1]) /\ Part!Terminal(p[2]))
    BY <2>1 DEF AndNotGiven, Part!Terminal
  <2>2. ASSUME NEW n \in 0 .. WordBits, NEW a \in Part!Diagrams[n], NEW b \in Part!Diagrams[n]
        PROVE  AndNotBase[<<a, b>>] \in Part!Diagrams[n]
    <3>1. <<a, b>> \in Pairs
      BY LevelIs DEF Pairs
    <3>2. QED BY <3>1, TerminalsAre DEF AndNotBase
  <2>3. QED BY <2>1, <2>2 DEF Combinable
<1>4. ASSUME NEW f
      PROVE  Is(f) <=> f = [p \in Pairs |-> f[p]] /\ Combines(f, AndNotGiven, AndNotBase)
  <2> DEFINE body(p) == IF p[1] = Part!Zero \/ p[2] = Part!One THEN Part!Zero
                        ELSE IF p[2] = Part!Zero THEN p[1]
                        ELSE Part!Mk(Top(p), f[Lows(p)], f[Highs(p)])
  <2>1. \A p \in Pairs : body(p) = IF p \in AndNotGiven THEN AndNotBase[p]
                                   ELSE Part!Mk(Top(p), f[Lows(p)], f[Highs(p)])
    BY DEF AndNotGiven, AndNotBase
  <2>2. Is(f) <=> f = [p \in Pairs |-> body(p)]
    OBVIOUS
  <2> HIDE DEF body, Is
  <2>3. f = [p \in Pairs |-> body(p)] => \A p \in Pairs : f[p] = body(p)
    OBVIOUS
  <2>4. (\A p \in Pairs : f[p] = body(p)) => [p \in Pairs |-> f[p]] = [p \in Pairs |-> body(p)]
    OBVIOUS
  <2>5. Combines(f, AndNotGiven, AndNotBase) <=> \A p \in Pairs : f[p] = body(p)
    BY <2>1 DEF Combines
  <2>6. QED BY <2>2, <2>3, <2>4, <2>5, Zenon
<1>5. \E f : Is(f)
  <2> HIDE DEF Is
  <2>1. PICK f \in [Pairs -> Part!All] : Combines(f, AndNotGiven, AndNotBase)
    BY <1>2, <1>3, CombinedExists
  <2>2. f = [p \in Pairs |-> f[p]]
    OBVIOUS
  <2>3. QED BY <1>4, <2>1, <2>2
<1>6. Part!AndNot = CHOOSE f : Is(f)
  BY DEF Part!AndNot, Top, Lows, Highs, Pairs
<1>7. Is(Part!AndNot)
  <2> HIDE DEF Is
  <2>1. QED BY <1>5, <1>6
<1> HIDE DEF Is
<1>8. Part!AndNot = [p \in Pairs |-> Part!AndNot[p]] /\ Combines(Part!AndNot, AndNotGiven, AndNotBase)
  BY <1>4, <1>7
<1> DEFINE T == [p \in Pairs |-> Sat[p[1]] \ Sat[p[2]]]
<1>9. T \in [Pairs -> SUBSET Part!Words]
  BY <1>1, SatIs
<1>10. \A p \in Pairs : p \in AndNotGiven => Sat[AndNotBase[p]] = T[p]
  <2>1. \A p \in Pairs : p \in AndNotGiven => Sat[AndNotBase[p]] = Sat[p[1]] \ Sat[p[2]]
    BY <1>1, SatIs, Nodes DEF AndNotGiven, AndNotBase
  <2>2. QED BY <2>1
<1>11. Splits(T, AndNotGiven)
  <2>1. ASSUME NEW p \in Pairs, p \notin AndNotGiven, NEW w \in Part!Words
        PROVE  w \in T[p] <=> w \in T[Half(p, w)]
    <3>1. ~(Part!Terminal(p[1]) /\ Part!Terminal(p[2]))
      BY <1>3, <2>1 DEF Combinable
    <3>2. Half(p, w) \in Pairs
      BY <3>1, HalvesBelow DEF Half
    <3>3. w \in Sat[p[1]] \ Sat[p[2]] <=> w \in Sat[Half(p, w)[1]] \ Sat[Half(p, w)[2]]
      BY <3>1, SatHalves
    <3>4. QED BY <3>2, <3>3
  <2> HIDE DEF T
  <2>2. QED BY <2>1 DEF Splits, Half
<1> HIDE DEF T
<1>12. /\ \A n \in 0 .. WordBits : \A a, b \in Part!Diagrams[n] : Part!AndNot[<<a, b>>] \in Part!Diagrams[n]
       /\ \A p \in Pairs : Sat[Part!AndNot[p]] = T[p]
  BY <1>3, <1>8, <1>9, <1>10, <1>11, CombinedSat
<1>13. ASSUME NEW a \in Part!All, NEW b \in Part!All
       PROVE  Sat[Part!AndNot[<<a, b>>]] = Sat[a] \ Sat[b]
  <2>1. <<a, b>> \in Pairs
    BY DEF Pairs
  <2>2. QED BY <1>12, <2>1 DEF T
<1>14. QED BY <1>12, <1>13
-----------------------------------------------------------------------------
(* A function on 0 .. N that starts with start and takes every step.       *)
LEMMA SteppingExists ==
  ASSUME NEW N \in Nat, NEW start, NEW step
  PROVE  \E f : f = [n \in 0 .. N |-> f[n]] /\ Follows(f, N, start, step)
<1> DEFINE S == {m \in 0 .. N : \E f : Follows(f, m, start, step)}
<1>1. 0 \in S
  <2>1. Follows([k \in 0 .. 0 |-> start], 0, start, step)
    BY DEF Follows
  <2>2. \E f : Follows(f, 0, start, step)
    BY <2>1
  <2>3. QED BY <2>2
<1>2. ASSUME NEW m \in 0 + 1 .. N, m - 1 \in S PROVE m \in S
  <2>1. PICK f : Follows(f, m - 1, start, step)
    BY <1>2
  <2> DEFINE g == [k \in 0 .. m |-> IF k = m THEN step[m][f[m - 1]] ELSE f[k]]
  <2>2. g[0] = start
    BY <2>1 DEF Follows
  <2>3. ASSUME NEW k \in 1 .. m PROVE g[k] = step[k][g[k - 1]]
    <3>1. k - 1 \in 0 .. m /\ k - 1 # m /\ g[k - 1] = f[k - 1]
      OBVIOUS
    <3>2. CASE k = m
      <4>1. g[m] = step[m][f[m - 1]] /\ g[m - 1] = f[m - 1]
        BY <3>1, <3>2
      <4> HIDE DEF g
      <4>2. QED BY <3>2, <4>1
    <3>3. CASE k # m
      <4>1. k \in 1 .. m - 1 /\ g[k] = f[k]
        BY <3>3
      <4>2. f[k] = step[k][f[k - 1]]
        BY <2>1, <4>1 DEF Follows
      <4>3. QED BY <3>1, <4>1, <4>2
    <3>4. QED BY <3>2, <3>3
  <2> HIDE DEF g
  <2>4. \E h : Follows(h, m, start, step)
    BY <2>2, <2>3 DEF Follows
  <2>5. QED BY <2>4
<1>3. N \in S
  <2>1. S \in SUBSET (0 .. N) /\ 0 \in Nat /\ 0 <= N
    OBVIOUS
  <2> HIDE DEF S
  <2>2. S = 0 .. N
    BY <1>1, <1>2, <2>1, UpTo
  <2>3. QED BY <2>1, <2>2
<1>4. PICK f : Follows(f, N, start, step)
  BY <1>3
<1> DEFINE g == [n \in 0 .. N |-> f[n]]
<1>5. g[0] = start /\ \A n \in 1 .. N : g[n] = step[n][g[n - 1]]
  BY <1>4 DEF Follows
<1>6. g = [n \in 0 .. N |-> g[n]]
  OBVIOUS
<1> HIDE DEF g
<1>7. Follows(g, N, start, step)
  BY <1>5 DEF Follows
<1>8. QED BY <1>6, <1>7

(* What the values of such a function have in common.                      *)
Keeps(f, N, good, start, step) ==
  /\ f[0] = start /\ start \in good[0]
  /\ \A n \in 1 .. N : f[n - 1] \in good[n - 1] => f[n] = step[n][f[n - 1]] /\ f[n] \in good[n]

LEMMA Stepping ==
  ASSUME NEW N \in Nat, NEW f, NEW good, NEW start, NEW step, Keeps(f, N, good, start, step)
  PROVE  \A n \in 0 .. N : f[n] \in good[n]
<1> DEFINE S == {n \in 0 .. N : f[n] \in good[n]}
<1>1. S \in SUBSET (0 .. N) /\ 0 \in Nat /\ 0 <= N /\ 0 \in S
  BY DEF Keeps
<1>2. ASSUME NEW k \in 0 + 1 .. N, k - 1 \in S PROVE k \in S
  BY <1>2 DEF Keeps
<1> HIDE DEF S
<1>3. S = 0 .. N
  BY <1>1, <1>2, UpTo
<1>4. QED BY <1>3 DEF S

(* The words that match a cube on the bits below n.                        *)
MatchBelow(c, n) == {w \in Part!Words : \A i \in 0 .. n - 1 : i \in c.mask => (i \in w <=> i \in c.match)}

CubeStep(c, n, d) ==
  CASE n - 1 \notin c.mask -> d
    [] n - 1 \in c.match -> Part!Mk(n - 1, Part!Zero, d)
    [] OTHER -> Part!Mk(n - 1, d, Part!Zero)

LEMMA CubeSteps ==
  ASSUME NEW c \in Part!Cubes, NEW n \in 1 .. WordBits,
         NEW d \in Part!Diagrams[n - 1], Sat[d] = MatchBelow(c, n - 1)
  PROVE  CubeStep(c, n, d) \in Part!Diagrams[n] /\ Sat[CubeStep(c, n, d)] = MatchBelow(c, n)
<1> DEFINE v == n - 1
           e == CubeStep(c, n, d)
<1>1. v \in 0 .. WordBits - 1 /\ v + 1 = n /\ v \in 0 .. n /\ n \in 0 .. WordBits /\ v \in 0 .. WordBits
  BY WordsHaveBits
<1>2. e = CASE v \notin c.mask -> d
            [] v \in c.match -> Part!Mk(v, Part!Zero, d)
            [] OTHER -> Part!Mk(v, d, Part!Zero)
  BY DEF CubeStep
<1>3. d \in Part!Diagrams[v] /\ Sat[d] = MatchBelow(c, v)
  OBVIOUS
<1>4. c.match \subseteq c.mask
  BY DEF Part!Cubes
<1>5. ASSUME NEW w \in Part!Words
      PROVE  w \in MatchBelow(c, n) <=> w \in MatchBelow(c, v) /\ (v \in c.mask => (v \in w <=> v \in c.match))
  <2>1. \A i : i \in 0 .. n - 1 <=> i \in 0 .. v - 1 \/ i = v
    BY <1>1
  <2> HIDE DEF v
  <2>2. QED BY <2>1 DEF MatchBelow
<1> HIDE DEF v, e
<1>6. Part!Zero \in Part!Diagrams[v] /\ Part!Zero \in Part!All /\ Sat[Part!Zero] = {}
  BY <1>1, TerminalsAre, SatIs
<1>7. e \in Part!Diagrams[n] /\ \A w \in Part!Words : w \in Sat[e] <=> w \in MatchBelow(c, n)
  <2>1. CASE v \notin c.mask
    <3>1. e = d
      BY <1>2, <1>4, <2>1
    <3>2. d \in Part!Diagrams[n]
      BY <1>1, <1>3, DiagramsGrow
    <3>3. QED BY <1>3, <1>5, <2>1, <3>1, <3>2
  <2>2. CASE v \in c.match
    <3>1. e = Part!Mk(v, Part!Zero, d) /\ v \in c.mask
      BY <1>2, <1>4, <2>2
    <3>2. e \in Part!Diagrams[n]
      BY <1>1, <1>3, <1>6, <3>1, MadeDiagram
    <3>3. \A w \in Part!Words : w \in Sat[e] <=> w \in Sat[IF v \in w THEN d ELSE Part!Zero]
      BY <1>1, <1>3, <1>6, <3>1, SatMk
    <3>4. QED BY <1>3, <1>5, <1>6, <2>2, <3>1, <3>2, <3>3
  <2>3. CASE v \in c.mask /\ v \notin c.match
    <3>1. e = Part!Mk(v, d, Part!Zero)
      BY <1>2, <2>3
    <3>2. e \in Part!Diagrams[n]
      BY <1>1, <1>3, <1>6, <3>1, MadeDiagram
    <3>3. \A w \in Part!Words : w \in Sat[e] <=> w \in Sat[IF v \in w THEN Part!Zero ELSE d]
      BY <1>1, <1>3, <1>6, <3>1, SatMk
    <3>4. QED BY <1>3, <1>5, <1>6, <2>3, <3>2, <3>3
  <2>4. QED BY <1>4, <2>1, <2>2, <2>3
<1>8. Sat[e] \in SUBSET Part!Words /\ MatchBelow(c, n) \in SUBSET Part!Words
  BY <1>1, <1>7, LevelIs, SatIs DEF MatchBelow
<1>9. Sat[e] = MatchBelow(c, n)
  BY <1>7, <1>8
<1>10. QED BY <1>7, <1>9 DEF e

(* The diagram of a cube holds of the words that match it.                 *)
LEMMA CubeIs ==
  ASSUME NEW c \in Part!Cubes
  PROVE  /\ Part!CubeBdd(c) \in Part!All
         /\ Sat[Part!CubeBdd(c)] = {w \in Part!Words : Part!Matches(w, c)}
<1> DEFINE W == WordBits
           good == [n \in 0 .. W |-> {d \in Part!Diagrams[n] : Sat[d] = MatchBelow(c, n)}]
           step == [n \in 1 .. W |-> [d \in Part!All |-> CubeStep(c, n, d)]]
           start == Part!One
           Is(f) == f = [n \in 0 .. W |-> IF n = 0 THEN Part!One ELSE CubeStep(c, n, f[n - 1])]
           below == CHOOSE f : Is(f)
<1>1. W \in Nat /\ 0 \in 0 .. W /\ W \in 0 .. W
  BY WordsHaveBits
<1>2. start \in good[0]
  <2>1. Part!One \in Part!Diagrams[0] /\ Sat[Part!One] = Part!Words
    BY <1>1, TerminalsAre, SatIs
  <2>2. MatchBelow(c, 0) = Part!Words
    BY DEF MatchBelow
  <2>3. QED BY <1>1, <2>1, <2>2
<1>3. ASSUME NEW n \in 1 .. W, NEW d \in good[n - 1]
      PROVE  d \in Part!All /\ CubeStep(c, n, d) \in good[n] /\ step[n][d] = CubeStep(c, n, d)
  <2>1. n - 1 \in 0 .. W /\ n \in 0 .. W
    BY <1>1
  <2>2. d \in Part!Diagrams[n - 1] /\ Sat[d] = MatchBelow(c, n - 1)
    BY <2>1
  <2>3. d \in Part!All
    BY <2>1, <2>2, LevelIs
  <2>4. QED BY <2>1, <2>2, <2>3, CubeSteps
<1> HIDE DEF good, step, start
<1>4. ASSUME NEW f, Follows(f, W, start, step)
      PROVE  Keeps(f, W, good, start, step)
  BY <1>2, <1>3, <1>4 DEF Follows, Keeps
<1>5. \E f : Is(f)
  <2>1. PICK f : f = [n \in 0 .. W |-> f[n]] /\ Follows(f, W, start, step)
    BY <1>1, SteppingExists
  <2>2. \A n \in 0 .. W : f[n] \in good[n]
    BY <1>1, <1>4, <2>1, Stepping
  <2>3. ASSUME NEW n \in 0 .. W
        PROVE  f[n] = IF n = 0 THEN Part!One ELSE CubeStep(c, n, f[n - 1])
    <3>1. CASE n = 0
      BY <2>1, <3>1 DEF Follows, start
    <3>2. CASE n # 0
      <4>1. n \in 1 .. W /\ n - 1 \in 0 .. W
        BY <1>1, <3>2
      <4>2. QED BY <1>3, <2>1, <2>2, <3>2, <4>1 DEF Follows
    <3>3. QED BY <3>1, <3>2
  <2>4. QED BY <2>1, <2>3
<1>6. Is(below)
  <2> HIDE DEF Is
  <2>1. QED BY <1>5
<1>7. Part!CubeBdd(c) = below[W]
  BY DEF Part!CubeBdd, CubeStep
<1> HIDE DEF below
<1>8. Keeps(below, W, good, start, step)
  <2>1. below[0] = start
    BY <1>1, <1>6 DEF start
  <2>2. \A n \in 1 .. W : below[n] = CubeStep(c, n, below[n - 1])
    <3>1. \A n \in 1 .. W : n \in 0 .. W /\ n # 0
      BY <1>1
    <3>2. QED BY <1>6, <3>1
  <2>3. QED BY <1>2, <1>3, <2>1, <2>2 DEF Keeps
<1>9. below[W] \in good[W]
  BY <1>1, <1>8, Stepping
<1>10. below[W] \in Part!All /\ Sat[below[W]] = MatchBelow(c, W)
  BY <1>1, <1>9 DEF good, Part!All
<1>11. MatchBelow(c, W) = {w \in Part!Words : Part!Matches(w, c)}
  BY DEF MatchBelow, Part!Matches, Part!Words, Part!Bits, Part!Cubes
<1>12. QED BY <1>7, <1>10, <1>11

MemberStep(w, n, d) ==
  IF Part!Terminal(d) \/ Part!Var(d) # n THEN d ELSE IF n \in w THEN Part!Hi(d) ELSE Part!Lo(d)

(* A word is looked up in a diagram bit by bit.                            *)
LEMMA MemberIs ==
  ASSUME NEW b \in Part!All, NEW w \in Part!Words
  PROVE  Part!Member(b, w) <=> w \in Sat[b]
<1> DEFINE W == WordBits
           good == [k \in 0 .. W |-> {d \in Part!Diagrams[W - k] : w \in Sat[d] <=> w \in Sat[b]}]
           step == [k \in 1 .. W |-> [d \in Part!All |-> MemberStep(w, W - k, d)]]
           Is(f) == f = [n \in 0 .. W |-> IF n = W THEN b ELSE MemberStep(w, n, f[n + 1])]
           left == CHOOSE f : Is(f)
<1>1. W \in Nat /\ 0 \in 0 .. W /\ W \in 0 .. W
  BY WordsHaveBits
<1>2. b \in good[0]
  BY <1>1 DEF Part!All
<1>3. ASSUME NEW k \in 1 .. W, NEW d \in good[k - 1]
      PROVE  d \in Part!All /\ MemberStep(w, W - k, d) \in good[k]
             /\ step[k][d] = MemberStep(w, W - k, d)
  <2> DEFINE v == W - k
  <2>1. k - 1 \in 0 .. W /\ k \in 0 .. W /\ v \in 0 .. W - 1 /\ W - (k - 1) = v + 1 /\ v + 1 \in 0 .. W
    BY <1>1
  <2>2. d \in Part!Diagrams[v + 1] /\ (w \in Sat[d] <=> w \in Sat[b])
    BY <2>1
  <2>3. d \in Part!All
    BY <2>1, <2>2, LevelIs
  <2>4. MemberStep(w, v, d) = IF v \in w THEN Part!High(d, v) ELSE Part!Low(d, v)
    BY DEF MemberStep, Part!High, Part!Low
  <2>5. MemberStep(w, v, d) \in Part!Diagrams[v] /\ (w \in Sat[MemberStep(w, v, d)] <=> w \in Sat[d])
    <3> HIDE DEF v
    <3>1. Part!High(d, v) \in Part!Diagrams[v] /\ Part!Low(d, v) \in Part!Diagrams[v]
      BY <2>1, <2>2, Cofactors
    <3>2. w \in Sat[d] <=> w \in Sat[IF v \in w THEN Part!High(d, v) ELSE Part!Low(d, v)]
      BY <2>1, <2>2, Cofactors
    <3>3. QED BY <2>4, <3>1, <3>2
  <2>6. QED BY <2>1, <2>2, <2>3, <2>5
<1> HIDE DEF good, step
<1>4. \E f : Is(f)
  <2>1. PICK f : f = [k \in 0 .. W |-> f[k]] /\ Follows(f, W, b, step)
    BY <1>1, SteppingExists
  <2>2. Keeps(f, W, good, b, step)
    BY <1>2, <1>3, <2>1 DEF Follows, Keeps
  <2>3. \A k \in 0 .. W : f[k] \in good[k]
    BY <1>1, <2>2, Stepping
  <2> DEFINE g == [n \in 0 .. W |-> f[W - n]]
  <2>4. ASSUME NEW n \in 0 .. W
        PROVE  g[n] = IF n = W THEN b ELSE MemberStep(w, n, g[n + 1])
    <3>1. CASE n = W
      <4>1. W - n = 0
        BY <1>1, <3>1
      <4>2. QED BY <2>1, <3>1, <4>1 DEF Follows
    <3>2. CASE n # W
      <4> DEFINE k == W - n
      <4>1. k \in 1 .. W /\ k - 1 \in 0 .. W /\ n + 1 \in 0 .. W /\ W - (n + 1) = k - 1 /\ W - k = n
        BY <1>1, <3>2
      <4>2. g[n] = f[k] /\ g[n + 1] = f[k - 1]
        BY <4>1
      <4> HIDE DEF k, g
      <4>3. f[k] = MemberStep(w, W - k, f[k - 1])
        BY <1>3, <2>1, <2>3, <4>1 DEF Follows
      <4>4. QED BY <3>2, <4>1, <4>2, <4>3
    <3>3. QED BY <3>1, <3>2
  <2>5. g = [n \in 0 .. W |-> g[n]]
    OBVIOUS
  <2> HIDE DEF g
  <2>6. g = [n \in 0 .. W |-> IF n = W THEN b ELSE MemberStep(w, n, g[n + 1])]
    BY <2>4, <2>5
  <2>7. QED BY <2>6
<1>5. Is(left)
  <2> HIDE DEF Is
  <2>1. QED BY <1>4
<1>6. Part!Member(b, w) <=> left[0] = Part!One
  BY DEF Part!Member, MemberStep
<1> HIDE DEF left
<1> DEFINE h == [k \in 0 .. W |-> left[W - k]]
<1>7. Keeps(h, W, good, b, step)
  <2>1. h[0] = b
    BY <1>1, <1>5
  <2>2. ASSUME NEW k \in 1 .. W, h[k - 1] \in good[k - 1]
        PROVE  h[k] = step[k][h[k - 1]] /\ h[k] \in good[k]
    <3> DEFINE n == W - k
    <3>1. n \in 0 .. W /\ n # W /\ k \in 0 .. W /\ k - 1 \in 0 .. W /\ W - (k - 1) = n + 1
      BY <1>1
    <3>2. h[k] = left[n] /\ h[k - 1] = left[n + 1]
      BY <3>1
    <3>3. left[n] = MemberStep(w, n, left[n + 1])
      BY <1>5, <3>1
    <3> HIDE DEF h
    <3>4. QED BY <1>3, <2>2, <3>2, <3>3
  <2> HIDE DEF h
  <2>3. QED BY <1>2, <2>1, <2>2 DEF Keeps
<1>8. h[W] = left[0]
  BY <1>1
<1> HIDE DEF h
<1>9. h[W] \in good[W]
  BY <1>1, <1>7, Stepping
<1>10. left[0] \in Part!Diagrams[0] /\ (w \in Sat[left[0]] <=> w \in Sat[b])
  <2>1. W - W = 0
    BY <1>1
  <2>2. QED BY <1>1, <1>8, <1>9, <2>1 DEF good
<1>11. left[0] \in {Part!Zero, Part!One}
  BY <1>10, DiagramsByLevel
<1>12. QED BY <1>6, <1>10, <1>11, SatIs, Nodes

(* What passes to a place from the places of lower levels holds of all.    *)
Rises(f, X, lev, good) ==
  \A x \in X : (\A y \in X : lev[y] < lev[x] => f[y] \in good[y]) => f[x] \in good[x]

LEMMA EveryLevel ==
  ASSUME NEW X, NEW N \in Nat, NEW lev \in [X -> 0 .. N], NEW f, NEW good, Rises(f, X, lev, good)
  PROVE  \A x \in X : f[x] \in good[x]
<1> DEFINE S == {k \in Nat : \A x \in X : lev[x] < k => f[x] \in good[x]}
<1>1. \A x \in X : lev[x] \in 0 .. N
  OBVIOUS
<1>2. 0 \in S
  BY <1>1
<1>3. ASSUME NEW k \in Nat, k \in S PROVE k + 1 \in S
  <2>1. ASSUME NEW x \in X, lev[x] < k + 1 PROVE f[x] \in good[x]
    <3>1. \A y \in X : lev[y] < lev[x] => lev[y] < k
      BY <1>1, <2>1
    <3>2. \A y \in X : lev[y] < lev[x] => f[y] \in good[y]
      BY <1>3, <3>1
    <3>3. QED BY <3>2 DEF Rises
  <2>2. QED BY <2>1
<1> HIDE DEF S
<1>4. \A k \in Nat : k \in S
  BY <1>2, <1>3, EveryNatural
<1>5. N + 1 \in S /\ \A x \in X : lev[x] < N + 1
  BY <1>1, <1>4
<1>6. QED BY <1>5 DEF S

(* The diagram Canonical builds, of the first bits of the words.           *)
Places == (0 .. WordBits) \X SUBSET Part!Words
Without(p) == <<p[1] - 1, {w \in p[2] : p[1] - 1 \notin w}>>
With(p) == <<p[1] - 1, {w \ {p[1] - 1} : w \in {u \in p[2] : p[1] - 1 \in u}}>>
CanonStep(p, h) ==
  IF p[2] = {} THEN Part!Zero
  ELSE IF p[1] = 0 THEN Part!One
  ELSE Part!Mk(p[1] - 1, h[Without(p)], h[With(p)])

Traces(p) == {w \in Part!Words : \E u \in p[2] : SameBelow(p[1], w, u)}
CanonGood == [p \in Places |-> {d \in Part!Diagrams[p[1]] : Sat[d] = Traces(p)}]

LEMMA PlacesAre ==
  ASSUME NEW p \in Places
  PROVE  /\ p = <<p[1], p[2]>> /\ p[1] \in 0 .. WordBits /\ p[2] \in SUBSET Part!Words
         /\ p[1] # 0 =>
              /\ p[1] - 1 \in 0 .. WordBits - 1 /\ p[1] - 1 \in 0 .. WordBits
              /\ Without(p) \in Places /\ Without(p)[1] = p[1] - 1
              /\ Without(p)[2] = {w \in p[2] : p[1] - 1 \notin w}
              /\ With(p) \in Places /\ With(p)[1] = p[1] - 1
              /\ With(p)[2] = {w \ {p[1] - 1} : w \in {u \in p[2] : p[1] - 1 \in u}}
<1>1. p = <<p[1], p[2]>> /\ p[1] \in 0 .. WordBits /\ p[2] \in SUBSET Part!Words
  BY DEF Places
<1>2. ASSUME p[1] # 0
      PROVE  /\ p[1] - 1 \in 0 .. WordBits - 1 /\ p[1] - 1 \in 0 .. WordBits
             /\ Without(p) \in Places /\ With(p) \in Places
  <2> DEFINE n == p[1]
             T == p[2]
  <2>1. n \in 1 .. WordBits /\ T \in SUBSET Part!Words
    BY <1>1, <1>2, WordsHaveBits
  <2> HIDE DEF n, T
  <2>2. n - 1 \in 0 .. WordBits - 1 /\ n - 1 \in 0 .. WordBits
    BY <2>1, WordsHaveBits
  <2>3. /\ {w \in T : n - 1 \notin w} \in SUBSET Part!Words
        /\ {w \ {n - 1} : w \in {u \in T : n - 1 \in u}} \in SUBSET Part!Words
    BY <2>1 DEF Part!Words
  <2>4. /\ <<n - 1, {w \in T : n - 1 \notin w}>> \in Places
        /\ <<n - 1, {w \ {n - 1} : w \in {u \in T : n - 1 \in u}}>> \in Places
    BY <2>2, <2>3 DEF Places
  <2>5. QED BY <2>2, <2>4 DEF Without, With, n, T
<1>3. QED BY <1>1, <1>2 DEF Without, With

LEMMA CanonSteps ==
  ASSUME NEW p \in Places, NEW h,
         p[1] # 0 => h[Without(p)] \in CanonGood[Without(p)] /\ h[With(p)] \in CanonGood[With(p)]
  PROVE  CanonStep(p, h) \in CanonGood[p] /\ CanonStep(p, h) \in Part!All
<1> DEFINE n == p[1]
           T == p[2]
           e == CanonStep(p, h)
<1>1. n \in 0 .. WordBits /\ n \in Nat /\ T \in SUBSET Part!Words
  BY PlacesAre, WordsHaveBits
<1>2. e = IF T = {} THEN Part!Zero ELSE IF n = 0 THEN Part!One
          ELSE Part!Mk(n - 1, h[Without(p)], h[With(p)])
  BY DEF CanonStep
<1>3. \A w \in Part!Words : w \in Traces(p) <=> \E u \in T : SameBelow(n, w, u)
  BY DEF Traces
<1> DEFINE Good == e \in Part!Diagrams[n] /\ \A w \in Part!Words : w \in Sat[e] <=> w \in Traces(p)
<1>4. Good
  <2>1. CASE T = {}
    <3> HIDE DEF e
    <3>1. e = Part!Zero
      BY <1>2, <2>1
    <3>2. QED BY <1>1, <1>3, <2>1, <3>1, TerminalsAre, SatIs
  <2>2. CASE T # {} /\ n = 0
    <3> HIDE DEF e
    <3>1. e = Part!One
      BY <1>2, <2>2
    <3>2. \A w, u : SameBelow(n, w, u)
      BY <2>2 DEF SameBelow
    <3>3. QED BY <1>1, <1>3, <2>2, <3>1, <3>2, TerminalsAre, SatIs
  <2>3. CASE T # {} /\ n # 0
    <3> DEFINE v == n - 1
               lo == h[Without(p)]
               hi == h[With(p)]
               T0 == Without(p)[2]
               T1 == With(p)[2]
    <3>1. /\ v \in 0 .. WordBits - 1 /\ v \in 0 .. WordBits /\ v + 1 = n
          /\ Without(p) \in Places /\ With(p) \in Places
          /\ Without(p)[1] = v /\ With(p)[1] = v
          /\ T0 = {w \in T : v \notin w}
          /\ T1 = {w \ {v} : w \in {u \in T : v \in u}}
      BY <1>1, <2>3, PlacesAre
    <3>2. lo \in CanonGood[Without(p)] /\ hi \in CanonGood[With(p)]
      BY <2>3
    <3>3. /\ lo \in Part!Diagrams[v] /\ Sat[lo] = Traces(Without(p))
          /\ hi \in Part!Diagrams[v] /\ Sat[hi] = Traces(With(p))
      BY <3>1, <3>2 DEF CanonGood
    <3>4. e = Part!Mk(v, lo, hi)
      BY <1>2, <2>3
    <3>5. /\ \A w \in Part!Words : w \in Sat[lo] <=> \E u \in T0 : SameBelow(v, w, u)
          /\ \A w \in Part!Words : w \in Sat[hi] <=> \E u \in T1 : SameBelow(v, w, u)
      BY <3>1, <3>3 DEF Traces
    <3> HIDE DEF e, lo, hi, T0, T1
    <3>6. e \in Part!Diagrams[n]
      BY <3>1, <3>3, <3>4, MadeDiagram
    <3>7. \A w, u : SameBelow(n, w, u) <=> SameBelow(v, w, u) /\ (v \in w <=> v \in u)
      <4>1. \A i : i \in 0 .. n - 1 <=> i \in 0 .. v - 1 \/ i = v
        BY <3>1
      <4> HIDE DEF v
      <4>2. QED BY <4>1 DEF SameBelow
    <3>8. \A w, u : SameBelow(v, w, u \ {v}) <=> SameBelow(v, w, u)
      <4>1. v \notin 0 .. v - 1
        BY <3>1
      <4> HIDE DEF v
      <4>2. QED BY <4>1 DEF SameBelow
    <3> HIDE DEF v
    <3>9. ASSUME NEW w \in Part!Words PROVE w \in Sat[e] <=> w \in Traces(p)
      <4>1. w \in Sat[e] <=> w \in Sat[IF v \in w THEN hi ELSE lo]
        BY <3>1, <3>3, <3>4, SatMk
      <4>2. CASE v \in w
        <5>1. (\E u \in T1 : SameBelow(v, w, u)) <=> \E u \in T : v \in u /\ SameBelow(v, w, u)
          <6>1. ASSUME NEW u \in T1, SameBelow(v, w, u)
                PROVE  \E x \in T : v \in x /\ SameBelow(v, w, x)
            <7>1. PICK x \in T : v \in x /\ u = x \ {v}
              BY <3>1
            <7>2. QED BY <3>8, <6>1, <7>1
          <6>2. ASSUME NEW u \in T, v \in u, SameBelow(v, w, u)
                PROVE  \E x \in T1 : SameBelow(v, w, x)
            <7>1. u \ {v} \in T1
              BY <3>1, <6>2
            <7>2. QED BY <3>8, <6>2, <7>1
          <6>3. QED BY <6>1, <6>2
        <5>2. w \in Sat[e] <=> \E u \in T1 : SameBelow(v, w, u)
          BY <3>5, <4>1, <4>2
        <5>3. (\E u \in T : v \in u /\ SameBelow(v, w, u)) <=> \E u \in T : SameBelow(n, w, u)
          BY <3>7, <4>2
        <5>4. QED BY <1>3, <5>1, <5>2, <5>3
      <4>3. CASE v \notin w
        <5>1. w \in Sat[e] <=> \E u \in T0 : SameBelow(v, w, u)
          BY <3>5, <4>1, <4>3
        <5>2. (\E u \in T0 : SameBelow(v, w, u)) <=> \E u \in T : SameBelow(n, w, u)
          BY <3>1, <3>7, <4>3
        <5>3. QED BY <1>3, <5>1, <5>2
      <4>4. QED BY <4>2, <4>3
    <3>10. QED BY <3>6, <3>9
  <2>4. QED BY <2>1, <2>2, <2>3
<1> HIDE DEF e, n, T
<1>5. e \in Part!All
  BY <1>1, <1>4, LevelIs
<1>6. Sat[e] = Traces(p)
  <2>1. Sat[e] \in SUBSET Part!Words /\ Traces(p) \in SUBSET Part!Words
    BY <1>5, SatIs DEF Traces
  <2>2. QED BY <1>4, <2>1
<1>7. QED BY <1>4, <1>5, <1>6 DEF CanonGood, e, n

(* Canonical gives the diagram of a set of words.                          *)
LEMMA CanonicalIs ==
  ASSUME NEW S \in SUBSET Part!Words
  PROVE  Part!Canonical(S) \in Part!All /\ Sat[Part!Canonical(S)] = S
<1> DEFINE V == Part!All
           z == Part!Zero
           lev == [p \in Places |-> p[1]]
           F == [p \in Places |-> [h \in [Places -> V] |->
                   IF CanonStep(p, h) \in V THEN CanonStep(p, h) ELSE z]]
           Is(f) == f = [p \in Places |-> CanonStep(p, f)]
           of == CHOOSE f : Is(f)
<1>1. WordBits \in Nat /\ WordBits \in 0 .. WordBits /\ z \in V
  BY WordsHaveBits, SatIs
<1>2. lev \in [Places -> 0 .. WordBits]
  BY PlacesAre
<1>3. ASSUME NEW p \in Places, p[1] # 0
      PROVE  /\ Without(p) \in Places /\ lev[Without(p)] < lev[p]
             /\ With(p) \in Places /\ lev[With(p)] < lev[p]
  <2>1. /\ Without(p) \in Places /\ Without(p)[1] = p[1] - 1
        /\ With(p) \in Places /\ With(p)[1] = p[1] - 1 /\ p[1] \in 0 .. WordBits
    BY <1>3, PlacesAre
  <2>2. QED BY <2>1, WordsHaveBits
<1>4. F \in [Places -> [[Places -> V] -> V]]
  <2> HIDE DEF V, z
  <2>1. QED BY <1>1
<1>5. ASSUME NEW p \in Places, NEW g \in [Places -> V], NEW h \in [Places -> V],
             \A q \in Places : lev[q] < lev[p] => g[q] = h[q]
      PROVE  F[p][g] = F[p][h]
  <2>1. CanonStep(p, g) = CanonStep(p, h)
    <3>1. CASE p[1] = 0
      BY <3>1 DEF CanonStep
    <3>2. CASE p[1] # 0
      <4>1. g[Without(p)] = h[Without(p)] /\ g[With(p)] = h[With(p)]
        BY <1>3, <1>5, <3>2
      <4>2. QED BY <4>1 DEF CanonStep
    <3>3. QED BY <3>1, <3>2
  <2>2. QED BY <2>1
<1>6. ASSUME NEW f, \A p \in Places :
               f[p] = IF CanonStep(p, f) \in V THEN CanonStep(p, f) ELSE z
      PROVE  \A p \in Places : f[p] = CanonStep(p, f) /\ f[p] \in CanonGood[p]
  <2> HIDE DEF V, z
  <2>1. ASSUME NEW p \in Places,
               \A q \in Places : lev[q] < lev[p] => f[q] \in CanonGood[q]
        PROVE  CanonStep(p, f) \in CanonGood[p] /\ f[p] = CanonStep(p, f)
    <3>1. p[1] # 0 => f[Without(p)] \in CanonGood[Without(p)] /\ f[With(p)] \in CanonGood[With(p)]
      <4> HIDE DEF lev
      <4>1. QED BY <1>3, <2>1
    <3>2. CanonStep(p, f) \in CanonGood[p] /\ CanonStep(p, f) \in V
      BY <3>1, CanonSteps DEF V
    <3>3. QED BY <1>6, <3>2
  <2> HIDE DEF lev
  <2>2. Rises(f, Places, lev, CanonGood)
    BY <2>1 DEF Rises
  <2>3. \A p \in Places : f[p] \in CanonGood[p]
    BY <1>1, <1>2, <2>2, EveryLevel
  <2>4. QED BY <2>1, <2>3
<1>7. \E f : Is(f)
  <2>1. PICK f \in [Places -> V] : Rests(f, Places, F)
    <3> HIDE DEF V, F, lev, z
    <3>1. \A p \in Places : \A g, h \in [Places -> V] :
            (\A q \in Places : lev[q] < lev[p] => g[q] = h[q]) => F[p][g] = F[p][h]
      BY <1>5
    <3>2. lev \in [Places -> Nat] /\ \A p \in Places : lev[p] <= WordBits
      BY <1>1, <1>2
    <3>3. Levelled(Places, V, lev, WordBits, F) /\ z \in V
      BY <1>1, <1>4, <3>1, <3>2 DEF Levelled
    <3>4. QED BY <3>3, ByLevels
  <2>2. \A p \in Places : f[p] = IF CanonStep(p, f) \in V THEN CanonStep(p, f) ELSE z
    <3> HIDE DEF V, z
    <3>1. QED BY <2>1 DEF Rests
  <2>3. \A p \in Places : f[p] = CanonStep(p, f)
    <3> HIDE DEF V, z
    <3>1. QED BY <1>6, <2>2
  <2>4. f = [p \in Places |-> CanonStep(p, f)]
    BY <2>1, <2>3
  <2>5. QED BY <2>4
<1>8. Is(of)
  <2> HIDE DEF Is
  <2>1. QED BY <1>7
<1>9. Part!Canonical(S) = of[<<WordBits, S>>]
  BY DEF Part!Canonical, Places, CanonStep, Without, With
<1> HIDE DEF of
<1>10. \A p \in Places : of[p] \in CanonGood[p]
  <2> HIDE DEF V, z
  <2>1. \A p \in Places : of[p] = CanonStep(p, of)
    BY <1>8
  <2>2. ASSUME NEW p \in Places,
               \A q \in Places : lev[q] < lev[p] => of[q] \in CanonGood[q]
        PROVE  of[p] \in CanonGood[p]
    <3>1. p[1] # 0 => of[Without(p)] \in CanonGood[Without(p)] /\ of[With(p)] \in CanonGood[With(p)]
      <4> HIDE DEF lev
      <4>1. QED BY <1>3, <2>2
    <3>2. QED BY <2>1, <3>1, CanonSteps
  <2> HIDE DEF lev
  <2>3. Rises(of, Places, lev, CanonGood)
    BY <2>2 DEF Rises
  <2>4. QED BY <1>1, <1>2, <2>3, EveryLevel
<1> DEFINE p == <<WordBits, S>>
<1>11. p \in Places /\ p[1] = WordBits /\ p[2] = S
  BY <1>1 DEF Places
<1> HIDE DEF p
<1>12. of[p] \in Part!Diagrams[WordBits] /\ Sat[of[p]] = Traces(p)
  BY <1>10, <1>11 DEF CanonGood
<1>13. Traces(p) = S
  <2>1. \A w, u \in Part!Words : SameBelow(WordBits, w, u) <=> w = u
    BY DEF SameBelow, Part!Words, Part!Bits
  <2>2. QED BY <1>11, <2>1 DEF Traces
<1>14. QED BY <1>9, <1>12, <1>13 DEF p, Part!All

(* The two unions have the words of the cubes that went into them, and the *)
(* differences are taken of what they are.                                 *)
CubesRead ==
  /\ specBdd \in Part!All /\ Sat[specBdd] = specWords
  /\ decBdd \in Part!All /\ Sat[decBdd] = decWords
  /\ phase = "compared" =>
       /\ onlySpec = Part!AndNot[<<specBdd, decBdd>>]
       /\ onlyDec = Part!AndNot[<<decBdd, specBdd>>]

LEMMA CubesInit == Part!Init => CubesRead
BY SatIs DEF Part!Init, CubesRead

LEMMA CubeAdded ==
  ASSUME NEW b \in Part!All, NEW c \in Part!Cubes
  PROVE  /\ Part!Or[<<b, Part!CubeBdd(c)>>] \in Part!All
         /\ Sat[Part!Or[<<b, Part!CubeBdd(c)>>]] = Sat[b] \cup {w \in Part!Words : Part!Matches(w, c)}
<1>1. Part!CubeBdd(c) \in Part!All /\ Sat[Part!CubeBdd(c)] = {w \in Part!Words : Part!Matches(w, c)}
  BY CubeIs
<1>2. WordBits \in 0 .. WordBits
  BY WordsHaveBits
<1>3. \A x \in Part!All : Part!Or[<<b, x>>] \in Part!All /\ Sat[Part!Or[<<b, x>>]] = Sat[b] \cup Sat[x]
  BY <1>2, OrIs DEF Part!All
<1>4. QED BY <1>1, <1>3

LEMMA CubesSteps ==
  ASSUME CubesRead, [Part!Next]_(Part!vars)
  PROVE  CubesRead'
<1>1. CASE UNCHANGED Part!vars
  BY <1>1 DEF CubesRead, Part!vars
<1>2. ASSUME NEW c \in Part!Cubes, Part!AddSpec(c) PROVE CubesRead'
  BY <1>2, CubeAdded DEF CubesRead, Part!AddSpec
<1>3. ASSUME NEW c \in Part!Cubes, Part!AddDecoder(c) PROVE CubesRead'
  BY <1>3, CubeAdded DEF CubesRead, Part!AddDecoder
<1>4. CASE Part!SpecDone
  BY <1>4 DEF CubesRead, Part!SpecDone
<1>5. CASE Part!Compare
  BY <1>5 DEF CubesRead, Part!Compare
<1>6. QED BY <1>1, <1>2, <1>3, <1>4, <1>5 DEF Part!Next

(* The differences are of the words.                                       *)
LEMMA DifferencesAre ==
  ASSUME CubesRead, phase = "compared"
  PROVE  /\ onlySpec \in Part!All /\ Sat[onlySpec] = specWords \ decWords
         /\ onlyDec \in Part!All /\ Sat[onlyDec] = decWords \ specWords
         /\ specWords \in SUBSET Part!Words /\ decWords \in SUBSET Part!Words
<1>1. WordBits \in 0 .. WordBits
  BY WordsHaveBits
<1>2. \A a, b \in Part!All : Part!AndNot[<<a, b>>] \in Part!All /\ Sat[Part!AndNot[<<a, b>>]] = Sat[a] \ Sat[b]
  BY <1>1, AndNotIs DEF Part!All
<1>3. QED BY <1>2, SatIs DEF CubesRead

LEMMA UnionsEarned == CubesRead => Part!UnionsCanonical
<1>1. ASSUME NEW b \in Part!All PROVE b = Part!Canonical(Sat[b])
  BY SatIs, CanonicalIs, SatOnce
<1>2. QED BY <1>1 DEF CubesRead, Part!UnionsCanonical

LEMMA ClassesEarned == CubesRead => Part!ClassesExact
<1> SUFFICES ASSUME CubesRead, phase = "compared"
             PROVE  /\ \A w \in Part!Words :
                         Part!Class(w) = IF w \in specWords THEN "ok"
                                         ELSE IF w \in decWords THEN "ub" ELSE "trap"
                    /\ Part!ImageCode(Part!Words \ (decWords \ specWords)) = 0
                    /\ \A w \in decWords \ specWords : Part!ImageCode({w}) = 1
  BY DEF Part!ClassesExact
<1>1. ASSUME NEW w \in Part!Words
      PROVE  Part!Class(w) = IF w \in specWords THEN "ok"
                             ELSE IF w \in decWords THEN "ub" ELSE "trap"
  <2>1. /\ Part!Member(specBdd, w) <=> w \in specWords
        /\ Part!Member(onlyDec, w) <=> w \in decWords \ specWords
    BY DifferencesAre, MemberIs DEF CubesRead
  <2>2. QED BY <2>1 DEF Part!Class
<1>2. \A w \in Part!Words : Part!Class(w) = "ub" <=> w \in decWords \ specWords
  BY <1>1
<1>3. QED BY <1>1, <1>2, DifferencesAre DEF Part!ImageCode
-----------------------------------------------------------------------------
(* A function of a finite set has finitely many values, as many if they    *)
(* all differ.                                                             *)
LEMMA ValuesOf ==
  ASSUME NEW S, IsFiniteSet(S), NEW f, NEW T, T = {f[x] : x \in S}
  PROVE  /\ IsFiniteSet(T)
         /\ (\A x, y \in S : f[x] = f[y] => x = y) => Cardinality(T) = Cardinality(S)
<1> DEFINE g == [x \in S |-> f[x]]
<1>1. g \in Surjection(S, T)
  BY DEF Surjection
<1>2. (\A x, y \in S : f[x] = f[y] => x = y) => g \in Injection(S, T)
  BY DEF Injection, IsInjective
<1> HIDE DEF g
<1>3. QED BY <1>1, <1>2, FS_Surjection

LEMMA WithoutOthers ==
  ASSUME NEW S, IsFiniteSet(S), NEW T \in SUBSET S
  PROVE  /\ IsFiniteSet(S \ T) /\ Cardinality(S \ T) \in Nat /\ Cardinality(T) \in Nat
         /\ Cardinality(S) = Cardinality(S \ T) + Cardinality(T)
<1>1. IsFiniteSet(S \ T) /\ IsFiniteSet(T)
  BY FS_Subset
<1>2. Cardinality(S \ T) \in Nat /\ Cardinality(T) \in Nat
  BY <1>1, FS_CardinalityType
<1>3. (S \ T) \cup T = S /\ (S \ T) \cap T = {}
  OBVIOUS
<1>4. Cardinality(S) = Cardinality(S \ T) + Cardinality(T) - Cardinality({})
  BY <1>1, <1>3, FS_Union
<1>5. QED BY <1>1, <1>2, <1>4, FS_EmptySet

(* The sets of the members of a finite set.                                *)
LEMMA SubsetsOf ==
  ASSUME NEW I, IsFiniteSet(I)
  PROVE  IsFiniteSet(SUBSET I) /\ Cardinality(SUBSET I) = Pow2[Cardinality(I)]
<1> DEFINE G == {T \in SUBSET I : IsFiniteSet(SUBSET T) /\ Cardinality(SUBSET T) = Pow2[Cardinality(T)]}
<1>1. {} \in G
  <2>1. SUBSET {} = {{}}
    OBVIOUS
  <2>2. IsFiniteSet(SUBSET {}) /\ Cardinality(SUBSET {}) = 1
    <3>1. IsFiniteSet({{}}) /\ Cardinality({{}}) = 1
      BY FS_Singleton
    <3>2. QED BY <2>1, <3>1, Zenon
  <2>3. Pow2[Cardinality({})] = 1
    BY FS_EmptySet, Powers
  <2>4. QED BY <2>2, <2>3
<1>2. ASSUME NEW T \in SUBSET I, T # {}, \A t \in T : T \ {t} \in G PROVE T \in G
  <2>1. PICK t \in T : TRUE
    BY <1>2
  <2> DEFINE R == T \ {t}
             f == [u \in SUBSET R |-> u \cup {t}]
             H == {f[u] : u \in SUBSET R}
  <2>2. R \in SUBSET I /\ t \notin R /\ T = R \cup {t}
        /\ IsFiniteSet(SUBSET R) /\ Cardinality(SUBSET R) = Pow2[Cardinality(R)]
    BY <1>2, <2>1
  <2>3. \A u, w \in SUBSET R : f[u] = f[w] => u = w
    BY <2>2
  <2>4. IsFiniteSet(H) /\ Cardinality(H) = Cardinality(SUBSET R)
    <3> HIDE DEF f, R
    <3>1. QED BY <2>2, <2>3, ValuesOf
  <2>5. SUBSET T = (SUBSET R) \cup H /\ (SUBSET R) \cap H = {}
    <3>1. H = {u \cup {t} : u \in SUBSET R}
      OBVIOUS
    <3> HIDE DEF R, H
    <3>2. SUBSET T \subseteq (SUBSET R) \cup H
      <4>1. ASSUME NEW x \in SUBSET T, x \notin SUBSET R PROVE x \in H
        <5>1. t \in x /\ x \ {t} \in SUBSET R /\ (x \ {t}) \cup {t} = x
          BY <2>2, <4>1
        <5>2. QED BY <3>1, <5>1
      <4>2. QED BY <4>1
    <3>3. (SUBSET R) \cup H \subseteq SUBSET T /\ (SUBSET R) \cap H = {}
      BY <2>2, <3>1
    <3>4. QED BY <3>2, <3>3
  <2> HIDE DEF f, H, R
  <2>6. IsFiniteSet(R) /\ Cardinality(R) \in Nat /\ Cardinality(T) = Cardinality(R) + 1
    BY <2>2, FS_Subset, FS_CardinalityType, FS_AddElement
  <2>7. /\ IsFiniteSet(SUBSET T)
        /\ Cardinality(SUBSET T) = Cardinality(SUBSET R) + Cardinality(H) - Cardinality({})
    <3> DEFINE all == SUBSET R
               whole == SUBSET T
    <3>1. IsFiniteSet(all) /\ IsFiniteSet(H) /\ whole = all \cup H /\ all \cap H = {}
      BY <2>2, <2>4, <2>5
    <3> HIDE DEF all, whole
    <3>2. IsFiniteSet(whole) /\ Cardinality(whole) = Cardinality(all) + Cardinality(H) - Cardinality({})
      BY <3>1, FS_Union
    <3>3. QED BY <3>2 DEF all, whole
  <2>8. Pow2[Cardinality(R)] \in Nat /\ Pow2[Cardinality(R) + 1] = 2 * Pow2[Cardinality(R)]
    BY <2>6, Powers
  <2> DEFINE p == Pow2[Cardinality(R)]
             q == Pow2[Cardinality(T)]
             s == Cardinality(SUBSET T)
  <2>9. p \in Nat /\ q = 2 * p /\ s = p + p - 0
    BY <2>2, <2>4, <2>6, <2>7, <2>8, FS_EmptySet
  <2> HIDE DEF p, q, s
  <2>10. s = q
    BY <2>9
  <2>11. QED BY <2>7, <2>10 DEF s, q
<1> HIDE DEF G
<1>3. I \in G
  BY <1>1, <1>2, EveryFinite
<1>4. QED BY <1>3 DEF G

(* A cube has a word for each choice of the bits it leaves free.           *)
Matching(c) == {w \in Part!Words : Part!Matches(w, c)}

LEMMA BitsAre ==
  /\ IsFiniteSet(Part!Bits) /\ Cardinality(Part!Bits) = WordBits
  /\ IsFiniteSet(Part!Words) /\ Cardinality(Part!Words) = Pow2[WordBits]
<1>1. IsFiniteSet(Part!Bits) /\ Cardinality(Part!Bits) = WordBits
  BY FS_Interval, WordsHaveBits DEF Part!Bits
<1>2. QED BY <1>1, SubsetsOf DEF Part!Words

LEMMA CubeSize ==
  ASSUME NEW c \in Part!Cubes
  PROVE  /\ Matching(c) \in SUBSET Part!Words
         /\ Part!Pow2[WordBits - Part!Cardinality(c.mask)] = Cardinality(Matching(c))
<1> DEFINE m == c.mask
           free == Part!Bits \ m
           f == [u \in SUBSET free |-> u \cup c.match]
<1>1. m \in SUBSET Part!Bits /\ c.match \in SUBSET m
  BY DEF Part!Cubes
<1>2. IsFiniteSet(free) /\ WordBits - Part!Cardinality(m) = Cardinality(free)
  <2>1. /\ IsFiniteSet(free) /\ Cardinality(free) \in Nat /\ Cardinality(m) \in Nat
        /\ WordBits = Cardinality(free) + Cardinality(m)
    BY <1>1, BitsAre, WithoutOthers
  <2> HIDE DEF free, m
  <2>2. WordBits - Cardinality(m) = Cardinality(free)
    BY <2>1, WordsHaveBits
  <2>3. QED BY <2>1, <2>2, PartCardinality
<1>3. \A u, w \in SUBSET free : f[u] = f[w] => u = w
  BY <1>1
<1>4. Matching(c) = {f[u] : u \in SUBSET free}
  <2>1. ASSUME NEW u \in SUBSET free PROVE u \cup c.match \in Matching(c)
    <3>1. u \cup c.match \in Part!Words /\ (u \cup c.match) \cap c.mask = c.match
      BY <1>1 DEF Part!Words
    <3>2. QED BY <3>1 DEF Matching, Part!Matches
  <2>2. ASSUME NEW w \in Matching(c) PROVE w \ m \in SUBSET free /\ w = (w \ m) \cup c.match
    BY DEF Matching, Part!Matches, Part!Words
  <2>3. {f[u] : u \in SUBSET free} = {u \cup c.match : u \in SUBSET free}
    OBVIOUS
  <2> HIDE DEF free, m, f
  <2>4. {u \cup c.match : u \in SUBSET free} \subseteq Matching(c)
    BY <2>1
  <2>5. Matching(c) \subseteq {u \cup c.match : u \in SUBSET free}
    BY <2>2
  <2>6. QED BY <2>3, <2>4, <2>5
<1> HIDE DEF f
<1>5. Cardinality(Matching(c)) = Pow2[Cardinality(free)]
  <2> HIDE DEF free
  <2>1. IsFiniteSet(SUBSET free) /\ Cardinality(SUBSET free) = Pow2[Cardinality(free)]
    BY <1>2, SubsetsOf
  <2> DEFINE all == SUBSET free
             words == Matching(c)
  <2>2. /\ IsFiniteSet(all) /\ words = {f[u] : u \in all}
        /\ \A u, w \in all : f[u] = f[w] => u = w
    BY <1>3, <1>4, <2>1
  <2> HIDE DEF all, words
  <2>3. Cardinality(words) = Cardinality(all)
    BY <2>2, ValuesOf
  <2>4. QED BY <2>1, <2>3 DEF all, words
<1>6. Part!Pow2 = Pow2
  BY OnePow2
<1>7. QED BY <1>2, <1>5, <1>6 DEF Matching

(* The cubes of the paths of a node, from those of its branches.           *)
LowCube(v, c) == [c EXCEPT !.mask = @ \cup {v}]
HighCube(v, c) == [mask |-> c.mask \cup {v}, match |-> c.match \cup {v}]
PathStep(b, h) ==
  IF b = Part!Zero THEN {}
  ELSE IF b = Part!One THEN {[mask |-> {}, match |-> {}]}
  ELSE {LowCube(Part!Var(b), c) : c \in h[Part!Lo(b)]} \cup {HighCube(Part!Var(b), c) : c \in h[Part!Hi(b)]}

LEMMA Longer ==
  ASSUME NEW v \in 0 .. WordBits - 1, NEW c \in Part!Cubes
  PROVE  /\ LowCube(v, c) \in Part!Cubes /\ HighCube(v, c) \in Part!Cubes
         /\ LowCube(v, c).mask = c.mask \cup {v} /\ HighCube(v, c).mask = c.mask \cup {v}
         /\ LowCube(v, c).match = c.match /\ HighCube(v, c).match = c.match \cup {v}
<1>1. v \in Part!Bits
  BY DEF Part!Bits
<1>2. /\ c \in [mask : SUBSET Part!Bits, match : SUBSET Part!Bits] /\ c.match \subseteq c.mask
      /\ c.mask \in SUBSET Part!Bits /\ c.match \in SUBSET Part!Bits
  BY DEF Part!Cubes
<1>3. /\ LowCube(v, c) = [mask |-> c.mask \cup {v}, match |-> c.match]
      /\ HighCube(v, c) = [mask |-> c.mask \cup {v}, match |-> c.match \cup {v}]
  BY <1>2 DEF LowCube, HighCube
<1>4. QED BY <1>1, <1>2, <1>3 DEF Part!Cubes

LEMMA PathsAre == \A b \in Part!All :
  /\ Part!AllPaths[b] = PathStep(b, Part!AllPaths)
  /\ Part!AllPaths[b] \in SUBSET Part!Cubes
<1> DEFINE V == SUBSET Part!Cubes
           F == [b \in Part!All |-> [h \in [Part!All -> V] |-> PathStep(b, h)]]
           lev == [b \in Part!All |-> Level(b)]
           none == {}
           Is(f) == f = [b \in Part!All |-> PathStep(b, f)]
<1>1. WordBits \in Nat /\ WordBits \in 0 .. WordBits /\ none \in V
  BY WordsHaveBits
<1>2. lev \in [Part!All -> Nat] /\ \A b \in Part!All : lev[b] <= WordBits
  <2>1. \A b \in Part!All : Level(b) \in Nat /\ Level(b) <= WordBits
    BY <1>1, LevelIs DEF Part!All
  <2>2. QED BY <2>1
<1>3. ASSUME NEW b \in Part!All, ~Part!Terminal(b)
      PROVE  /\ Part!Lo(b) \in Part!All /\ lev[Part!Lo(b)] < lev[b]
             /\ Part!Hi(b) \in Part!All /\ lev[Part!Hi(b)] < lev[b]
             /\ Part!Var(b) \in 0 .. WordBits - 1
  BY <1>3, LowerLevels
<1>4. ASSUME NEW b \in Part!All, NEW h \in [Part!All -> V]
      PROVE  PathStep(b, h) \in V
  <2>1. CASE Part!Terminal(b)
    BY <2>1, Nodes DEF PathStep, Part!Terminal, Part!Cubes
  <2>2. CASE ~Part!Terminal(b)
    <3>1. h[Part!Lo(b)] \in V /\ h[Part!Hi(b)] \in V
      BY <1>3, <2>2
    <3>2. /\ \A c \in h[Part!Lo(b)] : LowCube(Part!Var(b), c) \in Part!Cubes
          /\ \A c \in h[Part!Hi(b)] : HighCube(Part!Var(b), c) \in Part!Cubes
      BY <1>3, <2>2, <3>1, Longer
    <3>3. QED BY <2>2, <3>2 DEF PathStep, Part!Terminal
  <2>3. QED BY <2>1, <2>2
<1>5. F \in [Part!All -> [[Part!All -> V] -> V]]
  <2> HIDE DEF V
  <2>1. QED BY <1>4
<1>6. ASSUME NEW b \in Part!All, NEW g \in [Part!All -> V], NEW h \in [Part!All -> V],
             \A d \in Part!All : lev[d] < lev[b] => g[d] = h[d]
      PROVE  F[b][g] = F[b][h]
  <2>1. PathStep(b, g) = PathStep(b, h)
    <3>1. CASE Part!Terminal(b)
      BY <3>1 DEF PathStep, Part!Terminal
    <3>2. CASE ~Part!Terminal(b)
      <4>1. g[Part!Lo(b)] = h[Part!Lo(b)] /\ g[Part!Hi(b)] = h[Part!Hi(b)]
        <5> HIDE DEF lev
        <5>1. QED BY <1>3, <1>6, <3>2
      <4>2. QED BY <4>1 DEF PathStep
    <3>3. QED BY <3>1, <3>2
  <2>2. QED BY <2>1
<1>7. PICK f \in [Part!All -> V] : Rests(f, Part!All, F)
  <2> HIDE DEF V, F, lev, none
  <2>1. \A b \in Part!All : \A g, h \in [Part!All -> V] :
          (\A d \in Part!All : lev[d] < lev[b] => g[d] = h[d]) => F[b][g] = F[b][h]
    BY <1>6
  <2>2. Levelled(Part!All, V, lev, WordBits, F) /\ none \in V
    BY <1>1, <1>2, <1>5, <2>1 DEF Levelled
  <2>3. QED BY <2>2, ByLevels
<1>8. Is(f)
  <2>1. \A b \in Part!All : f[b] = PathStep(b, f)
    <3> HIDE DEF V
    <3>1. QED BY <1>7 DEF Rests
  <2>2. QED BY <1>7, <2>1
<1>9. Part!AllPaths = CHOOSE g : Is(g)
  BY DEF Part!AllPaths, PathStep, LowCube, HighCube
<1>10. Is(Part!AllPaths)
  <2> HIDE DEF Is
  <2>1. QED BY <1>8, <1>9
<1>11. \A b \in Part!All : Part!AllPaths[b] = PathStep(b, Part!AllPaths)
  BY <1>10
<1> DEFINE G == {b \in Part!All : Part!AllPaths[b] \in V}
<1>12. Part!Zero \in G /\ Part!One \in G
  <2>1. Part!AllPaths[Part!Zero] = {} /\ Part!AllPaths[Part!One] = {[mask |-> {}, match |-> {}]}
    BY <1>11, SatIs, Nodes DEF PathStep
  <2>2. [mask |-> {}, match |-> {}] \in Part!Cubes
    BY DEF Part!Cubes
  <2>3. QED BY <2>1, <2>2, SatIs
<1>13. ASSUME NEW b \in Part!All, ~Part!Terminal(b), Part!Diagrams[Part!Var(b)] \subseteq G
       PROVE  b \in G
  <2>1. Part!Lo(b) \in G /\ Part!Hi(b) \in G
    BY <1>13, LowerLevels DEF IsNode
  <2>2. /\ \A c \in Part!AllPaths[Part!Lo(b)] : LowCube(Part!Var(b), c) \in Part!Cubes
        /\ \A c \in Part!AllPaths[Part!Hi(b)] : HighCube(Part!Var(b), c) \in Part!Cubes
    BY <1>3, <1>13, <2>1, Longer
  <2>3. PathStep(b, Part!AllPaths) \in V
    BY <1>13, <2>2 DEF PathStep, Part!Terminal
  <2>4. QED BY <1>11, <2>3
<1>14. Part!All \subseteq G
  <2> HIDE DEF G
  <2>1. QED BY <1>12, <1>13, EveryDiagram
<1>15. QED BY <1>11, <1>14

(* The cubes listed of a diagram fix bits it tests, are finitely many, and *)
(* each of its words matches one of them and no other.                     *)
Listed(b) ==
  /\ \A c \in Part!AllPaths[b] : c \in Part!Cubes /\ c.mask \subseteq 0 .. Level(b) - 1
  /\ IsFiniteSet(Part!AllPaths[b])
  /\ \A w \in Part!Words : w \in Sat[b] <=> \E c \in Part!AllPaths[b] : Part!Matches(w, c)
  /\ \A c, d \in Part!AllPaths[b] : \A w \in Part!Words :
       Part!Matches(w, c) /\ Part!Matches(w, d) => c = d

LEMMA LongerMatches ==
  ASSUME NEW v \in 0 .. WordBits - 1, NEW c \in Part!Cubes, v \notin c.mask, NEW w \in Part!Words
  PROVE  /\ Part!Matches(w, LowCube(v, c)) <=> v \notin w /\ Part!Matches(w, c)
         /\ Part!Matches(w, HighCube(v, c)) <=> v \in w /\ Part!Matches(w, c)
<1>1. c.match \subseteq c.mask
  BY DEF Part!Cubes
<1>2. /\ LowCube(v, c).mask = c.mask \cup {v} /\ HighCube(v, c).mask = c.mask \cup {v}
      /\ LowCube(v, c).match = c.match /\ HighCube(v, c).match = c.match \cup {v}
  BY Longer
<1>3. QED BY <1>1, <1>2 DEF Part!Matches

LEMMA PathsListed == ASSUME NEW b \in Part!All PROVE Listed(b)
<1> DEFINE G == {d \in Part!All : Listed(d)}
<1>1. Part!Zero \in G
  <2>1. Part!AllPaths[Part!Zero] = {} /\ Part!Zero \in Part!All /\ Sat[Part!Zero] = {}
    BY PathsAre, SatIs DEF PathStep
  <2>2. QED BY <2>1, FS_EmptySet DEF Listed
<1>2. Part!One \in G
  <2> DEFINE c == [mask |-> {}, match |-> {}]
  <2>1. Part!AllPaths[Part!One] = {c} /\ Part!One \in Part!All /\ Sat[Part!One] = Part!Words
    BY PathsAre, SatIs, Nodes DEF PathStep
  <2>2. c \in Part!Cubes /\ c.mask = {} /\ \A w : Part!Matches(w, c)
    BY DEF Part!Cubes, Part!Matches
  <2> HIDE DEF c
  <2>3. QED BY <2>1, <2>2, FS_Singleton DEF Listed
<1>3. ASSUME NEW d \in Part!All, ~Part!Terminal(d), Part!Diagrams[Part!Var(d)] \subseteq G
      PROVE  d \in G
  <2> DEFINE v == Part!Var(d)
             lo == Part!Lo(d)
             hi == Part!Hi(d)
             L == Part!AllPaths[lo]
             H == Part!AllPaths[hi]
             P == Part!AllPaths[d]
  <2>1. /\ v \in 0 .. WordBits - 1 /\ Level(d) = v + 1
        /\ lo \in G /\ hi \in G /\ Level(lo) \in 0 .. v /\ Level(hi) \in 0 .. v
    BY <1>3, LowerLevels DEF IsNode
  <2>2. P = {LowCube(v, c) : c \in L} \cup {HighCube(v, c) : c \in H}
    BY <1>3, PathsAre DEF PathStep, Part!Terminal
  <2>3. /\ IsFiniteSet(L) /\ IsFiniteSet(H)
        /\ \A c \in L : c \in Part!Cubes /\ c.mask \subseteq 0 .. Level(lo) - 1
        /\ \A c \in H : c \in Part!Cubes /\ c.mask \subseteq 0 .. Level(hi) - 1
        /\ \A w \in Part!Words : w \in Sat[lo] <=> \E c \in L : Part!Matches(w, c)
        /\ \A w \in Part!Words : w \in Sat[hi] <=> \E c \in H : Part!Matches(w, c)
        /\ \A c, e \in L : \A w \in Part!Words : Part!Matches(w, c) /\ Part!Matches(w, e) => c = e
        /\ \A c, e \in H : \A w \in Part!Words : Part!Matches(w, c) /\ Part!Matches(w, e) => c = e
    BY <2>1 DEF Listed
  <2>4. \A w \in Part!Words : w \in Sat[d] <=> w \in Sat[IF v \in w THEN hi ELSE lo]
    BY <1>3, SatIs DEF Branch
  <2> HIDE DEF v, lo, hi, L, H, P, G
  <2>5. /\ \A c \in L : c \in Part!Cubes /\ c.mask \subseteq 0 .. v - 1 /\ v \notin c.mask
        /\ \A c \in H : c \in Part!Cubes /\ c.mask \subseteq 0 .. v - 1 /\ v \notin c.mask
    BY <2>1, <2>3
  <2>6. ASSUME NEW c \in P PROVE c \in Part!Cubes /\ c.mask \subseteq 0 .. (v + 1) - 1
    <3>1. PICK e \in L \cup H : c = LowCube(v, e) \/ c = HighCube(v, e)
      BY <2>2
    <3>2. e \in Part!Cubes /\ e.mask \subseteq 0 .. v - 1
      BY <2>5
    <3>3. c \in Part!Cubes /\ c.mask = e.mask \cup {v}
      BY <2>1, <3>1, <3>2, Longer
    <3>4. 0 .. v - 1 \subseteq 0 .. (v + 1) - 1 /\ v \in 0 .. (v + 1) - 1
      BY <2>1
    <3>5. QED BY <3>2, <3>3, <3>4
  <2>7. IsFiniteSet(P)
    <3> DEFINE f == [c \in L |-> LowCube(v, c)]
               g == [c \in H |-> HighCube(v, c)]
               fL == {LowCube(v, c) : c \in L}
               gH == {HighCube(v, c) : c \in H}
    <3>1. fL = {f[c] : c \in L} /\ gH = {g[c] : c \in H}
      OBVIOUS
    <3> HIDE DEF f, g, fL, gH
    <3>2. IsFiniteSet(fL) /\ IsFiniteSet(gH)
      BY <2>3, <3>1, ValuesOf
    <3>3. P = fL \cup gH
      BY <2>2 DEF fL, gH
    <3>4. QED BY <3>2, <3>3, FS_Union
  <2>8. ASSUME NEW w \in Part!Words
        PROVE  /\ \A c \in L : Part!Matches(w, LowCube(v, c)) <=> v \notin w /\ Part!Matches(w, c)
               /\ \A c \in H : Part!Matches(w, HighCube(v, c)) <=> v \in w /\ Part!Matches(w, c)
    BY <2>1, <2>5, LongerMatches
  <2>9. ASSUME NEW w \in Part!Words
        PROVE  w \in Sat[d] <=> \E c \in P : Part!Matches(w, c)
    <3>1. (\E c \in P : Part!Matches(w, c)) <=>
            \/ v \notin w /\ \E c \in L : Part!Matches(w, c)
            \/ v \in w /\ \E c \in H : Part!Matches(w, c)
      BY <2>2, <2>8
    <3>2. CASE v \in w
      BY <2>3, <2>4, <3>1, <3>2
    <3>3. CASE v \notin w
      BY <2>3, <2>4, <3>1, <3>3
    <3>4. QED BY <3>2, <3>3
  <2>10. ASSUME NEW c \in P, NEW e \in P, NEW w \in Part!Words,
                Part!Matches(w, c), Part!Matches(w, e)
         PROVE  c = e
    <3>1. CASE v \in w
      <4>1. PICK x \in H : c = HighCube(v, x) /\ Part!Matches(w, x)
        BY <2>2, <2>8, <2>10, <3>1
      <4>2. PICK y \in H : e = HighCube(v, y) /\ Part!Matches(w, y)
        BY <2>2, <2>8, <2>10, <3>1
      <4>3. QED BY <2>3, <4>1, <4>2
    <3>2. CASE v \notin w
      <4>1. PICK x \in L : c = LowCube(v, x) /\ Part!Matches(w, x)
        BY <2>2, <2>8, <2>10, <3>2
      <4>2. PICK y \in L : e = LowCube(v, y) /\ Part!Matches(w, y)
        BY <2>2, <2>8, <2>10, <3>2
      <4>3. QED BY <2>3, <4>1, <4>2
    <3>3. QED BY <3>1, <3>2
  <2>11. Listed(d)
    BY <2>1, <2>6, <2>7, <2>9, <2>10 DEF Listed, P
  <2>12. QED BY <2>11 DEF G
<1> HIDE DEF G
<1>4. b \in G
  BY <1>1, <1>2, <1>3, EveryDiagram
<1>5. QED BY <1>4 DEF G

(* The words of some of the cubes listed of a diagram, counted cube by     *)
(* cube.                                                                   *)
WordsOf(P) == {w \in Part!Words : \E c \in P : Part!Matches(w, c)}

LEMMA TotalIs ==
  ASSUME NEW b \in Part!All, NEW P \in SUBSET Part!AllPaths[b]
  PROVE  Part!Total(P) = Cardinality(WordsOf(P))
<1> DEFINE words == [c \in P |-> Matching(c)]
           f == [c \in P |-> Part!Pow2[WordBits - Part!Cardinality(c.mask)]]
<1>1. Listed(b)
  BY PathsListed
<1>2. IsFiniteSet(P) /\ \A c \in P : c \in Part!Cubes
  BY <1>1, FS_Subset DEF Listed
<1>3. IsFiniteSet(Part!Words)
  BY BitsAre
<1>4. words \in [P -> SUBSET Part!Words]
  BY <1>2, CubeSize
<1>5. \A c, d \in P : c # d => words[c] \cap words[d] = {}
  <2>1. ASSUME NEW c \in P, NEW d \in P, NEW w \in Matching(c) \cap Matching(d) PROVE c = d
    BY <1>1 DEF Listed, Matching
  <2>2. QED BY <2>1
<1>6. f = [c \in P |-> Cardinality(words[c])]
  BY <1>2, CubeSize
<1>7. Part!Total(P) = Part!SumFunction(f)
  BY DEF Part!Total
<1>8. UNION {words[c] : c \in P} = WordsOf(P)
  <2>1. \A c \in P : words[c] = Matching(c)
    OBVIOUS
  <2> HIDE DEF words
  <2>2. QED BY <2>1 DEF WordsOf, Matching
<1> HIDE DEF words, f
<1>9. QED BY <1>2, <1>3, <1>4, <1>5, <1>6, <1>7, <1>8, SumOfSizes

(* The totals of the families add up to the words of the diagram.          *)
LEMMA FamiliesAre ==
  ASSUME NEW b \in Part!All
  PROVE  Part!SumFunction(Part!Families(b)) = Cardinality(Sat[b])
<1> DEFINE P == Part!AllPaths[b]
           field == [c \in P |-> c.match \cap FieldBits]
           I == {field[c] : c \in P}
           Of(k) == {c \in P : field[c] = k}
           words == [k \in I |-> WordsOf(Of(k))]
           f == [k \in I |-> Part!Total(Of(k))]
<1>1. Listed(b) /\ IsFiniteSet(P)
  BY PathsListed DEF Listed
<1>2. IsFiniteSet(I)
  <2> HIDE DEF P, field
  <2>1. QED BY <1>1, ValuesOf
<1>3. IsFiniteSet(Part!Words) /\ words \in [I -> SUBSET Part!Words]
  BY BitsAre DEF WordsOf
<1>4. Part!Families(b) = f
  BY DEF Part!Families
<1>5. f = [k \in I |-> Cardinality(words[k])]
  <2>1. \A k \in I : Of(k) \in SUBSET Part!AllPaths[b]
    OBVIOUS
  <2> HIDE DEF Of, I
  <2>2. \A k \in I : Part!Total(Of(k)) = Cardinality(WordsOf(Of(k)))
    BY <2>1, TotalIs
  <2>3. QED BY <2>2
<1>6. \A j, k \in I : j # k => words[j] \cap words[k] = {}
  <2>1. ASSUME NEW j \in I, NEW k \in I, NEW w \in WordsOf(Of(j)) \cap WordsOf(Of(k)) PROVE j = k
    <3>1. PICK c \in P : field[c] = j /\ Part!Matches(w, c) /\ w \in Part!Words
      BY DEF WordsOf
    <3>2. PICK d \in P : field[d] = k /\ Part!Matches(w, d)
      BY DEF WordsOf
    <3>3. c = d
      BY <1>1, <3>1, <3>2 DEF Listed
    <3>4. QED BY <3>1, <3>2, <3>3
  <2> HIDE DEF Of, I
  <2>2. QED BY <2>1
<1>7. UNION {words[k] : k \in I} = Sat[b]
  <2>1. \A k \in I : words[k] = WordsOf(Of(k))
    OBVIOUS
  <2>2. ASSUME NEW w PROVE w \in UNION {words[k] : k \in I} <=> w \in WordsOf(P)
    <3>1. ASSUME NEW k \in I, w \in WordsOf(Of(k)) PROVE w \in WordsOf(P)
      BY <3>1 DEF WordsOf
    <3>2. ASSUME w \in WordsOf(P) PROVE \E k \in I : w \in WordsOf(Of(k))
      <4>1. PICK c \in P : Part!Matches(w, c) /\ w \in Part!Words
        BY <3>2 DEF WordsOf
      <4>2. field[c] \in I /\ c \in Of(field[c])
        OBVIOUS
      <4> HIDE DEF Of, I, field
      <4>3. w \in WordsOf(Of(field[c]))
        BY <4>1, <4>2 DEF WordsOf
      <4>4. QED BY <4>2, <4>3
    <3> HIDE DEF Of, I, words, P
    <3>3. QED BY <2>1, <3>1, <3>2
  <2>3. WordsOf(P) = Sat[b]
    BY <1>1, SatIs DEF Listed, WordsOf
  <2> HIDE DEF words, I, P
  <2>4. QED BY <2>2, <2>3
<1> HIDE DEF words, f, I
<1>8. QED BY <1>2, <1>3, <1>4, <1>5, <1>6, <1>7, SumOfSizes

(* The words of a diagram of n variables, up to the bits it does not see.  *)
Size(b, n) == Cardinality(Sat[b] \cap SUBSET (0 .. n - 1))

LEMMA SizeIs ==
  ASSUME NEW b \in Part!All, NEW n \in 0 .. WordBits
  PROVE  IsFiniteSet(Sat[b] \cap SUBSET (0 .. n - 1)) /\ Size(b, n) \in Nat
<1>1. Sat[b] \cap SUBSET (0 .. n - 1) \in SUBSET Part!Words
  BY SatIs
<1>2. QED BY <1>1, BitsAre, FS_Subset, FS_CardinalityType DEF Size

LEMMA SatSplit ==
  ASSUME NEW v \in 0 .. WordBits - 1, NEW lo \in Part!Diagrams[v], NEW hi \in Part!Diagrams[v],
         NEW b \in Part!All,
         \A w \in Part!Words : w \in Sat[b] <=> w \in Sat[IF v \in w THEN hi ELSE lo]
  PROVE  Size(b, v + 1) = Size(lo, v) + Size(hi, v)
<1> DEFINE A == Sat[lo] \cap SUBSET (0 .. v - 1)
           H == Sat[hi] \cap SUBSET (0 .. v - 1)
           f == [u \in H |-> u \cup {v}]
           B == {f[u] : u \in H}
           R == Sat[b] \cap SUBSET (0 .. (v + 1) - 1)
<1>1. v \in 0 .. WordBits /\ v + 1 \in 0 .. WordBits /\ v \in Nat
  BY WordsHaveBits
<1>2. lo \in Part!All /\ hi \in Part!All
  BY <1>1, LevelIs
<1>3. IsFiniteSet(A) /\ IsFiniteSet(H) /\ Size(lo, v) \in Nat /\ Size(hi, v) \in Nat
  BY <1>1, <1>2, SizeIs
<1>4. \A x \in 0 .. v - 1 : x # v
  BY <1>1
<1>5. \A u, w \in H : f[u] = f[w] => u = w
  <2>1. \A u \in H : f[u] = u \cup {v} /\ v \notin u
    BY <1>4
  <2> HIDE DEF f, H
  <2>2. \A u \in H : f[u] \ {v} = u
    BY <2>1
  <2>3. QED BY <2>2
<1>6. IsFiniteSet(B) /\ Cardinality(B) = Cardinality(H)
  <2> HIDE DEF f, H
  <2>1. QED BY <1>3, <1>5, ValuesOf
<1>7. R = A \cup B /\ A \cap B = {}
  <2>1. B = {u \cup {v} : u \in H}
    OBVIOUS
  <2>2. \A x : x \in 0 .. (v + 1) - 1 <=> x \in 0 .. v - 1 \/ x = v
    BY <1>1
  <2>3. \A x : x \in 0 .. (v + 1) - 1 => x \in Part!Bits
    BY <1>1, WordsHaveBits DEF Part!Bits
  <2>4. ASSUME NEW w \in R PROVE w \in A \cup B
    <3>1. w \in Part!Words /\ w \in Sat[b]
      BY <2>3 DEF Part!Words
    <3>2. CASE v \in w
      <4>1. w \in Sat[hi]
        BY <3>1, <3>2
      <4>2. w \ {v} \in Part!Words /\ SameBelow(v, w \ {v}, w)
        BY <3>1, OtherBits
      <4>3. w \ {v} \in Sat[hi]
        BY <1>1, <3>1, <4>1, <4>2, SatLocal
      <4>4. w \ {v} \in H /\ w = (w \ {v}) \cup {v}
        BY <2>2, <3>2, <4>3
      <4>5. QED BY <2>1, <4>4
    <3>3. CASE v \notin w
      BY <2>2, <3>1, <3>3
    <3>4. QED BY <3>2, <3>3
  <2>5. ASSUME NEW w \in A PROVE w \in R /\ w \notin B
    <3>1. w \in SUBSET (0 .. (v + 1) - 1) /\ v \notin w /\ w \in Part!Words
      BY <1>4, <2>2, <2>3 DEF Part!Words
    <3>2. QED BY <2>1, <3>1
  <2>6. ASSUME NEW u \in H PROVE u \cup {v} \in R
    <3>1. u \cup {v} \in SUBSET (0 .. (v + 1) - 1)
      BY <2>2
    <3>2. u \in Part!Words /\ u \cup {v} \in Part!Words
      BY <2>3, <3>1 DEF Part!Words
    <3>3. SameBelow(v, u \cup {v}, u)
      BY <3>2, OtherBits
    <3>4. u \cup {v} \in Sat[hi]
      BY <1>1, <3>2, <3>3, SatLocal
    <3>5. QED BY <3>1, <3>2, <3>4
  <2> HIDE DEF R, A, B, H
  <2>7. B \subseteq R
    BY <2>1, <2>6
  <2>8. QED BY <2>4, <2>5, <2>7
<1>8. Size(b, v + 1) = Cardinality(R) /\ Size(lo, v) = Cardinality(A) /\ Size(hi, v) = Cardinality(H)
  BY DEF Size
<1> HIDE DEF A, B, H, R, f
<1>9. Cardinality(R) = Cardinality(A) + Cardinality(B) - Cardinality({})
  BY <1>3, <1>6, <1>7, FS_Union
<1> DEFINE x == Size(lo, v)
           y == Size(hi, v)
<1>10. Size(b, v + 1) = x + y - 0 /\ x \in Nat /\ y \in Nat
  BY <1>3, <1>6, <1>8, <1>9, FS_EmptySet
<1> HIDE DEF x, y
<1>11. Size(b, v + 1) = x + y
  BY <1>10
<1>12. QED BY <1>11 DEF x, y

LEMMA SizeGrows ==
  ASSUME NEW b \in Part!All, NEW n \in Level(b) .. WordBits
  PROVE  Size(b, n) = Size(b, Level(b)) * Pow2[n - Level(b)]
<1> DEFINE l == Level(b)
           s == Size(b, l)
           S == {k \in l .. WordBits : Size(b, k) = s * Pow2[k - l]}
<1>1. l \in 0 .. WordBits /\ l \in Nat /\ WordBits \in Nat /\ l <= WordBits /\ b \in Part!Diagrams[l]
  <2>1. WordBits \in 0 .. WordBits
    BY WordsHaveBits
  <2>2. QED BY <2>1, LevelIs DEF Part!All
<1>2. s \in Nat
  BY <1>1, SizeIs
<1> HIDE DEF l, s
<1>3. S \in SUBSET (l .. WordBits) /\ l \in S
  <2>1. Pow2[l - l] = 1 /\ l \in l .. WordBits
    BY <1>1, Powers
  <2>2. s * Pow2[l - l] = s
    BY <1>2, <2>1
  <2>3. QED BY <2>1, <2>2 DEF s
<1>4. ASSUME NEW k \in l + 1 .. WordBits, k - 1 \in S PROVE k \in S
  <2> DEFINE v == k - 1
  <2>1. v \in 0 .. WordBits - 1 /\ v \in 0 .. WordBits /\ v + 1 = k /\ l \in 0 .. v /\ v - l \in Nat
        /\ (v - l) + 1 = k - l /\ k \in l .. WordBits
    BY <1>1
  <2>2. b \in Part!Diagrams[v]
    BY <1>1, <2>1, DiagramsGrow
  <2>3. Size(b, v + 1) = Size(b, v) + Size(b, v)
    <3> HIDE DEF v
    <3>1. \A w \in Part!Words : w \in Sat[b] <=> w \in Sat[IF v \in w THEN b ELSE b]
      OBVIOUS
    <3>2. QED BY <2>1, <2>2, <3>1, SatSplit
  <2>4. Size(b, v) = s * Pow2[v - l]
    BY <1>4
  <2> DEFINE p == Pow2[v - l]
             q == Pow2[k - l]
  <2>5. p \in Nat /\ q = 2 * p
    <3>1. Pow2[(v - l) + 1] = 2 * Pow2[v - l] /\ Pow2[v - l] \in Nat
      BY <2>1, Powers
    <3>2. QED BY <2>1, <3>1
  <2>6. Size(b, k) = s * p + s * p
    BY <2>1, <2>3, <2>4
  <2> HIDE DEF p, q
  <2>7. s * p + s * p = s * q
    BY <1>2, <2>5
  <2>8. QED BY <2>1, <2>6, <2>7 DEF q
<1> HIDE DEF S
<1>5. S = l .. WordBits
  BY <1>1, <1>3, <1>4, UpTo
<1>6. n \in S
  BY <1>5 DEF l
<1>7. QED BY <1>6 DEF S, l, s

(* A diagram and a number of variables that has those it tests.            *)
AllCounts == Part!All \X (0 .. WordBits)
Counts == {p \in AllCounts : Level(p[1]) <= p[2]}
LoCount(p) == <<Part!Lo(p[1]), Part!Var(p[1])>>
HiCount(p) == <<Part!Hi(p[1]), Part!Var(p[1])>>
CountStep(p, h) ==
  IF p[1] = Part!Zero THEN 0
  ELSE IF p[1] = Part!One THEN Part!Pow2[p[2]]
  ELSE (h[LoCount(p)] + h[HiCount(p)]) * Part!Free(p[2], Part!Var(p[1]))

LEMMA CountsAre ==
  ASSUME NEW p \in AllCounts
  PROVE  /\ p = <<p[1], p[2]>> /\ p[1] \in Part!All /\ p[2] \in 0 .. WordBits /\ p[2] \in Nat
         /\ ~Part!Terminal(p[1]) =>
              /\ LoCount(p) \in Counts /\ LoCount(p)[1] = Part!Lo(p[1])
              /\ HiCount(p) \in Counts /\ HiCount(p)[1] = Part!Hi(p[1])
              /\ Level(Part!Lo(p[1])) < Level(p[1]) /\ Level(Part!Hi(p[1])) < Level(p[1])
<1>1. p = <<p[1], p[2]>> /\ p[1] \in Part!All /\ p[2] \in 0 .. WordBits /\ p[2] \in Nat
  BY WordsHaveBits DEF AllCounts
<1>2. ASSUME ~Part!Terminal(p[1])
      PROVE  /\ LoCount(p) \in Counts /\ HiCount(p) \in Counts
             /\ Level(Part!Lo(p[1])) < Level(p[1]) /\ Level(Part!Hi(p[1])) < Level(p[1])
  <2> DEFINE b == p[1]
             v == Part!Var(b)
  <2>1. /\ v \in 0 .. WordBits - 1 /\ Level(b) = v + 1
        /\ Part!Lo(b) \in Part!All /\ Level(Part!Lo(b)) \in 0 .. v
        /\ Part!Hi(b) \in Part!All /\ Level(Part!Hi(b)) \in 0 .. v
    BY <1>1, <1>2, LowerLevels
  <2>2. LoCount(p) = <<Part!Lo(b), v>> /\ HiCount(p) = <<Part!Hi(b), v>>
    BY DEF LoCount, HiCount
  <2> HIDE DEF b, v
  <2>3. v \in 0 .. WordBits /\ Level(Part!Lo(b)) <= v /\ Level(Part!Hi(b)) <= v
        /\ Level(Part!Lo(b)) < Level(b) /\ Level(Part!Hi(b)) < Level(b)
    BY <2>1, WordsHaveBits
  <2>4. LoCount(p) \in Counts /\ HiCount(p) \in Counts
    BY <2>1, <2>2, <2>3 DEF Counts, AllCounts
  <2>5. QED BY <2>3, <2>4 DEF b
<1>3. QED BY <1>1, <1>2 DEF LoCount, HiCount

LEMMA CountIs == \A p \in AllCounts : Part!Count[p] = CountStep(p, Part!Count)
<1> DEFINE F == [p \in Counts |-> [h \in [Counts -> Nat] |-> CountStep(p, h)]]
           lev == [p \in Counts |-> Level(p[1])]
           Is(f) == f = [p \in AllCounts |-> CountStep(p, f)]
<1>1. WordBits \in Nat /\ WordBits \in 0 .. WordBits /\ 0 \in Nat /\ Counts \subseteq AllCounts
  BY WordsHaveBits DEF Counts
<1>2. lev \in [Counts -> Nat] /\ \A p \in Counts : lev[p] <= WordBits
  <2>1. \A p \in Counts : Level(p[1]) \in Nat /\ Level(p[1]) <= WordBits
    BY <1>1, CountsAre, LevelIs DEF Part!All
  <2>2. QED BY <2>1
<1>3. ASSUME NEW p \in Counts, NEW h \in [Counts -> Nat]
      PROVE  CountStep(p, h) \in Nat
  <2> DEFINE n == p[2]
             b == p[1]
             v == Part!Var(b)
  <2>1. n \in Nat /\ b \in Part!All /\ Level(b) <= n
    BY <1>1, CountsAre DEF Counts
  <2>2. CASE Part!Terminal(b)
    <3>1. Part!Pow2[n] \in Nat
      BY <2>1, Powers, OnePow2
    <3>2. QED BY <2>2, <3>1 DEF CountStep, Part!Terminal
  <2>3. CASE ~Part!Terminal(b)
    <3>1. h[LoCount(p)] \in Nat /\ h[HiCount(p)] \in Nat
      BY <1>1, <2>3, CountsAre
    <3>2. v \in 0 .. WordBits - 1 /\ v + 1 <= n
      BY <2>1, <2>3, LowerLevels
    <3> HIDE DEF n, v
    <3>3. n - 1 - v \in Nat
      BY <2>1, <3>2
    <3>4. Part!Free(n, v) \in Nat
      BY <3>3, Powers, OnePow2 DEF Part!Free
    <3> DEFINE x == h[LoCount(p)]
               y == h[HiCount(p)]
               z == Part!Free(n, v)
    <3>5. CountStep(p, h) = (x + y) * z
      BY <2>3 DEF CountStep, Part!Terminal, n, v
    <3>6. x \in Nat /\ y \in Nat /\ z \in Nat
      BY <3>1, <3>4
    <3> HIDE DEF x, y, z
    <3>7. QED BY <3>5, <3>6
  <2>4. QED BY <2>2, <2>3
<1>4. F \in [Counts -> [[Counts -> Nat] -> Nat]]
  BY <1>3
<1>5. ASSUME NEW p \in AllCounts, NEW g, NEW h,
             ~Part!Terminal(p[1]) => g[LoCount(p)] = h[LoCount(p)] /\ g[HiCount(p)] = h[HiCount(p)]
      PROVE  CountStep(p, g) = CountStep(p, h)
  BY <1>5 DEF CountStep, Part!Terminal
<1>6. ASSUME NEW p \in Counts, NEW g \in [Counts -> Nat], NEW h \in [Counts -> Nat],
             \A q \in Counts : lev[q] < lev[p] => g[q] = h[q]
      PROVE  F[p][g] = F[p][h]
  <2>1. p \in AllCounts
    BY <1>1
  <2>2. ~Part!Terminal(p[1]) => g[LoCount(p)] = h[LoCount(p)] /\ g[HiCount(p)] = h[HiCount(p)]
    BY <1>6, <2>1, CountsAre
  <2>3. CountStep(p, g) = CountStep(p, h)
    BY <1>5, <2>1, <2>2
  <2>4. QED BY <2>3
<1>7. PICK f \in [Counts -> Nat] : Rests(f, Counts, F)
  <2> HIDE DEF F, lev
  <2>1. \A p \in Counts : \A g, h \in [Counts -> Nat] :
          (\A q \in Counts : lev[q] < lev[p] => g[q] = h[q]) => F[p][g] = F[p][h]
    BY <1>6
  <2>2. Levelled(Counts, Nat, lev, WordBits, F)
    BY <1>1, <1>2, <1>4, <2>1 DEF Levelled
  <2>3. QED BY <1>1, <2>2, ByLevels
<1>8. \A p \in Counts : f[p] = CountStep(p, f)
  BY <1>7 DEF Rests
<1> DEFINE g == [p \in AllCounts |-> IF p \in Counts THEN f[p] ELSE CountStep(p, f)]
<1>9. ASSUME NEW p \in AllCounts PROVE g[p] = CountStep(p, g)
  <2>1. \A q \in Counts : g[q] = f[q]
    BY <1>1
  <2>2. g[p] = CountStep(p, f)
    BY <1>8
  <2> HIDE DEF g
  <2>3. ~Part!Terminal(p[1]) => g[LoCount(p)] = f[LoCount(p)] /\ g[HiCount(p)] = f[HiCount(p)]
    BY <2>1, CountsAre
  <2>4. QED BY <1>5, <2>2, <2>3
<1>10. Is(g)
  <2>1. g = [p \in AllCounts |-> g[p]]
    OBVIOUS
  <2> HIDE DEF g
  <2>2. QED BY <1>9, <2>1
<1>11. Part!Count = CHOOSE h : Is(h)
  BY DEF Part!Count, AllCounts, CountStep, LoCount, HiCount
<1>12. Is(Part!Count)
  <2> HIDE DEF Is, g
  <2>1. QED BY <1>10, <1>11
<1>13. QED BY <1>12

(* The count of a diagram is the number of its words.                      *)
LEMMA CountedWords ==
  ASSUME NEW b \in Part!All
  PROVE  Part!Count[<<b, WordBits>>] = Cardinality(Sat[b])
<1> DEFINE G == {d \in Part!All : \A n \in Level(d) .. WordBits : Part!Count[<<d, n>>] = Size(d, n)}
<1>1. WordBits \in Nat /\ WordBits \in 0 .. WordBits /\ \A d \in Part!All : Level(d) \in 0 .. WordBits
  <2>1. WordBits \in Nat /\ WordBits \in 0 .. WordBits
    BY WordsHaveBits
  <2>2. QED BY <2>1, LevelIs DEF Part!All
<1>2. ASSUME NEW d \in Part!All, NEW n \in Level(d) .. WordBits
      PROVE  /\ <<d, n>> \in AllCounts /\ n \in 0 .. WordBits
             /\ Part!Count[<<d, n>>] = CountStep(<<d, n>>, Part!Count)
  <2>1. n \in 0 .. WordBits
    BY <1>1
  <2>2. QED BY <2>1, CountIs DEF AllCounts
<1>3. Part!Zero \in G
  <2>1. Part!Zero \in Part!All /\ Sat[Part!Zero] = {}
    BY SatIs
  <2>2. ASSUME NEW n \in Level(Part!Zero) .. WordBits PROVE Part!Count[<<Part!Zero, n>>] = Size(Part!Zero, n)
    <3>1. Part!Count[<<Part!Zero, n>>] = 0
      BY <1>2, <2>1 DEF CountStep
    <3>2. Sat[Part!Zero] \cap SUBSET (0 .. n - 1) = {}
      BY <2>1
    <3>3. QED BY <3>1, <3>2, FS_EmptySet DEF Size
  <2>3. QED BY <2>1, <2>2
<1>4. Part!One \in G
  <2>1. Part!One \in Part!All /\ Sat[Part!One] = Part!Words
    BY SatIs
  <2>2. ASSUME NEW n \in Level(Part!One) .. WordBits PROVE Part!Count[<<Part!One, n>>] = Size(Part!One, n)
    <3>1. n \in 0 .. WordBits /\ Part!Count[<<Part!One, n>>] = Pow2[n]
      BY <1>2, <2>1, Nodes, OnePow2 DEF CountStep
    <3>2. Sat[Part!One] \cap SUBSET (0 .. n - 1) = SUBSET (0 .. n - 1)
      <4>1. 0 .. n - 1 \subseteq Part!Bits
        BY <1>1, <3>1 DEF Part!Bits
      <4>2. QED BY <2>1, <4>1 DEF Part!Words
    <3>3. IsFiniteSet(0 .. n - 1) /\ Cardinality(0 .. n - 1) = n
      <4>1. 0 \in Int /\ n - 1 \in Int /\ IF 0 > n - 1 THEN n = 0 ELSE n = (n - 1) - 0 + 1
        BY <3>1
      <4>2. QED BY <4>1, FS_Interval
    <3>4. Cardinality(SUBSET (0 .. n - 1)) = Pow2[n]
      BY <3>3, SubsetsOf
    <3>5. QED BY <3>1, <3>2, <3>4 DEF Size
  <2>3. QED BY <2>1, <2>2
<1>5. ASSUME NEW d \in Part!All, ~Part!Terminal(d), Part!Diagrams[Part!Var(d)] \subseteq G
      PROVE  d \in G
  <2> DEFINE v == Part!Var(d)
             lo == Part!Lo(d)
             hi == Part!Hi(d)
  <2>1. /\ v \in 0 .. WordBits - 1 /\ v \in 0 .. WordBits /\ v \in Nat /\ Level(d) = v + 1
        /\ lo \in Part!Diagrams[v] /\ hi \in Part!Diagrams[v] /\ lo \in G /\ hi \in G
        /\ Level(lo) \in 0 .. v /\ Level(hi) \in 0 .. v
    BY <1>1, <1>5, LowerLevels DEF IsNode
  <2>2. \A w \in Part!Words : w \in Sat[d] <=> w \in Sat[IF v \in w THEN hi ELSE lo]
    BY <1>5, SatIs DEF Branch
  <2>3. ASSUME NEW n \in Level(d) .. WordBits
        PROVE  Part!Count[<<d, n>>] = (Part!Count[<<lo, v>>] + Part!Count[<<hi, v>>]) * Part!Free(n, v)
    BY <1>2, <1>5 DEF CountStep, LoCount, HiCount, Part!Terminal
  <2> HIDE DEF v, lo, hi
  <2>4. Part!Count[<<lo, v>>] = Size(lo, v) /\ Part!Count[<<hi, v>>] = Size(hi, v)
    <3>1. v \in Level(lo) .. WordBits /\ v \in Level(hi) .. WordBits
      BY <1>1, <2>1
    <3>2. QED BY <2>1, <3>1
  <2>5. Size(d, v + 1) = Size(lo, v) + Size(hi, v)
    BY <2>1, <2>2, SatSplit
  <2>6. ASSUME NEW n \in Level(d) .. WordBits PROVE Part!Count[<<d, n>>] = Size(d, n)
    <3>1. Part!Free(n, v) = Pow2[n - Level(d)]
      <4>1. n - 1 - v = n - (v + 1)
        BY <1>1, <2>1
      <4>2. QED BY <2>1, <4>1, OnePow2 DEF Part!Free
    <3>2. Size(d, n) = Size(d, Level(d)) * Pow2[n - Level(d)]
      BY SizeGrows
    <3>3. QED BY <2>1, <2>3, <2>4, <2>5, <3>1, <3>2
  <2>7. QED BY <2>6
<1> HIDE DEF G
<1>6. b \in G
  BY <1>3, <1>4, <1>5, EveryDiagram
<1>7. Part!Count[<<b, WordBits>>] = Size(b, WordBits)
  BY <1>1, <1>6 DEF G
<1>8. Sat[b] \cap SUBSET (0 .. WordBits - 1) = Sat[b]
  BY SatIs DEF Part!Words, Part!Bits
<1>9. QED BY <1>7, <1>8 DEF Size

LEMMA ListsAre ==
  ASSUME NEW b \in Part!All
  PROVE  Part!Lists(b, Sat[b])
<1>1. Part!Count[<<b, WordBits>>] = Cardinality(Sat[b])
  BY CountedWords
<1>2. WordsOf(Part!AllPaths[b]) = Sat[b]
  BY PathsListed, SatIs DEF Listed, WordsOf
<1>3. Part!Total(Part!AllPaths[b]) = Cardinality(Sat[b])
  BY <1>2, TotalIs
<1>4. QED BY <1>1, <1>2, <1>3, PartCardinality DEF Part!Lists, WordsOf

LEMMA DifferencesEarned == CubesRead => Part!DifferencesExact
<1> SUFFICES ASSUME CubesRead, phase = "compared"
             PROVE  /\ Part!Lists(onlySpec, specWords \ decWords)
                    /\ Part!Lists(onlyDec, decWords \ specWords)
                    /\ Part!SumFunction(Part!Families(onlyDec)) = Part!Cardinality(decWords \ specWords)
  BY DEF Part!DifferencesExact
<1>1. /\ onlySpec \in Part!All /\ Sat[onlySpec] = specWords \ decWords
      /\ onlyDec \in Part!All /\ Sat[onlyDec] = decWords \ specWords
  BY DifferencesAre
<1>2. Part!Lists(onlySpec, Sat[onlySpec]) /\ Part!Lists(onlyDec, Sat[onlyDec])
  BY <1>1, ListsAre
<1>3. Part!SumFunction(Part!Families(onlyDec)) = Part!Cardinality(Sat[onlyDec])
  BY <1>1, FamiliesAre, PartCardinality
<1>4. QED BY <1>1, <1>2, <1>3

(* Whatever cubes the specification and the decoder list, overlapping or   *)
(* not and in whatever order: the diagrams are the canonical ones of their *)
(* words, the differences are counted, listed and totalled exactly, and    *)
(* every word of an image is put in its place.                             *)
THEOREM Partitioned == Spec => []PartitionExact
<1>1. Part!Init /\ [][Part!Next]_(Part!vars) => []CubesRead
  BY CubesInit, CubesSteps, PTL
<1>2. CubesRead => PartitionExact
  BY UnionsEarned, DifferencesEarned, ClassesEarned DEF PartitionExact
<1>3. QED BY Runs, <1>1, <1>2, PTL
=============================================================================
