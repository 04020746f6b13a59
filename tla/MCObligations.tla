--------------------------- MODULE MCObligations ----------------------------
(***************************************************************************)
(* One TLC instance of the obligations and extractors that share no state: *)
(* every behaviour is a behaviour of one of them, named by active, and     *)
(* leaves the variables of the others alone.                               *)
(***************************************************************************)
EXTENDS Integers, Sequences, FiniteSets, TLC

VARIABLES active,
  phase, specBdd, decBdd, specWords, decWords, onlySpec, onlyDec,
  file, official,
  nodes, regions, regmaps, memmap,
  rtl, stage0, stage1, sink, bits,
  sels, names, banks, gmap, stage,
  cat, user, pads, report,
  sdc, per_mode, audit,
  hold, setup, limits, corners, fails, nine, domain,
  items, inside, outside, triage,
  stream, at, elem, cur, dt, counted, ext, allb,
  cone, census, xidiom

CONSTANTS Mnemonics, Patterns, SPEC, MAX_LINES,             \* of the opcode table
          NodeNames, Bases, Sizes, MapBases, MAX_NODES,  \* of the device tree
          LineIds, Regs, DocTable, MAX_STMTS,            \* of the interrupts
          MODES, Pins, SDC_LINES,                        \* of the constraints
          Corners,                                       \* of the timing reports
          MACRO_BOXES, PAD, Xs, Ys, MAX_ITEMS,           \* of the rule violations
          Layers, Types, Xys, MAX_ELEMENTS,              \* of the layout
          MAX_TOKENS,                                    \* of the text of the cone
          WordBits, FieldBits, SpecCubes, DecoderCubes,  \* of the partition
          AdrBits, PageBits, BankBits,                   \* of the bus
          RegionNames, CsrRegion, DebugRegion, MemMaps,
          PadWidth, FIELDS, PadNumbers, PadModes,        \* of the pads
          ModeWords, Literals

(* The values TLC gives those that are functions or sets of records.       *)
AllAreI == [n \in {"jal", "slli"} |-> "I"]
OneLine == 1 :> 2
OneMacro == {[x0 |-> 1, y0 |-> 0, x1 |-> 5, y1 |-> 3]}
Point(x, y) == [x |-> x, y |-> y]
Outlines == {{Point(0, 1), Point(2, 2)}, {Point(1, 0)}, {Point(0, 3), Point(1, 1)}}

Cube(mask, match) == [mask |-> mask, match |-> match]
AllCubes == [mask : SUBSET (0 .. 2), match : SUBSET (0 .. 2)]
SixCubes == {Cube({0}, {0}), Cube({2}, {}), Cube({0, 1}, {1}),
             Cube({1, 2}, {2}), Cube(0 .. 2, {}), Cube(0 .. 2, 0 .. 2)}
ThreeMaps == {("csr" :> 0) @@ ("vexriscv_debug" :> 32),
              ("csr" :> 32) @@ ("vexriscv_debug" :> 48), "csr" :> 16}
TwoFields == {[lo |-> 0, width |-> 1], [lo |-> 1, width |-> 1]}

(* Addresses, sizes and coordinates are numbers; the outline of an element *)
(* has points that are the farthest on each side.                          *)
ASSUME AddressesAreNumbers == Bases \subseteq Int /\ Sizes \subseteq Nat /\ MapBases \subseteq Int
ASSUME PlacesAreNumbers ==
  /\ Xs \subseteq Int /\ Ys \subseteq Int /\ PAD \in Nat
  /\ MACRO_BOXES \subseteq [x0 : Int, y0 : Int, x1 : Int, y1 : Int]
ASSUME BusHasBits ==
  /\ AdrBits \in Nat /\ PageBits \in Nat /\ BankBits \in Nat
  /\ \A map \in MemMaps : \A region \in DOMAIN map : map[region] \in Nat
ASSUME WordsHaveBits == WordBits \in Nat
ASSUME OutlinesHaveExtents ==
  \A xy \in Xys :
    /\ \A p \in xy : /\ p.x \in Int /\ -9000 <= p.x /\ p.x <= 9000
                     /\ p.y \in Int /\ -9000 <= p.y /\ p.y <= 9000
    /\ \E p \in xy : \A q \in xy : p.x <= q.x
    /\ \E p \in xy : \A q \in xy : q.x <= p.x
    /\ \E p \in xy : \A q \in xy : p.y <= q.y
    /\ \E p \in xy : \A q \in xy : q.y <= p.y

Part == INSTANCE Partition WITH W <- WordBits
Table == INSTANCE OpcodeTable WITH Names <- Mnemonics
Tree == INSTANCE DeviceTree
Irq == INSTANCE IrqMap
Bus == INSTANCE BusDecode
Power == INSTANCE PadDefaults WITH Width <- PadWidth, Pads <- PadNumbers,
           MODES <- PadModes, stage <- report
Audit == INSTANCE ModeAudit WITH MAX_LINES <- SDC_LINES, stage <- audit
Triage == INSTANCE DrcTriage
Gds == INSTANCE GdsExtents
Cone == INSTANCE ConeText
Timing == INSTANCE TimingReports

(* Words have the bits of a literal, and their fields, with a name for     *)
(* every place a field starts at, are all of them.                         *)
ASSUME PadsHaveFields ==
  /\ PadNumbers \subseteq Nat /\ PadWidth \in Nat
  /\ ModeWords \subseteq Power!Words /\ Literals \subseteq Power!Words
  /\ FIELDS \subseteq [lo : Nat, width : Nat]
  /\ \A f, g \in FIELDS : f.lo = g.lo => f = g
  /\ \A b \in 0 .. PadWidth - 1 : \E f \in FIELDS : f.lo <= b /\ b < f.lo + f.width

part == <<phase, specBdd, decBdd, specWords, decWords, onlySpec, onlyDec>>
table == <<file, official>>
tree == <<nodes, regions, regmaps, memmap>>
irq == <<rtl, stage0, stage1, sink, bits>>
bus == <<sels, names, banks, gmap, stage>>
power == <<cat, user, pads, report>>
modes == <<sdc, per_mode, audit>>
timing == <<hold, setup, limits, corners, fails, nine, domain>>
drc == <<items, inside, outside, triage>>
gds == <<stream, at, elem, cur, dt, counted, ext, allb>>
texts == <<cone, census, xidiom>>
decoders == <<part, table>>
maps == <<tree, irq, bus>>
records == <<power, modes>>
signoff == <<timing, drc, gds>>
vars == <<active, decoders, maps, records, signoff, texts>>

(* Each starts in a state of its own; the inputs of those that stay idle   *)
(* are fixed, to keep the states apart that differ.                        *)
Init ==
  /\ active \in {"partition", "opcodes", "dts", "irq", "bus", "pads", "sdc",
                "timing", "drc", "gds", "text"}
  /\ Part!Init /\ Table!Init /\ Tree!Init /\ Irq!Init /\ Bus!Init
  /\ Power!Init /\ Audit!Init /\ Timing!Init /\ Triage!Init
  /\ Gds!Init /\ Cone!Init
  /\ active # "dts" => regmaps = {}

PartStep == active = "partition" /\ Part!Next /\ UNCHANGED <<active, table, maps, records, signoff, texts>>
TableStep == active = "opcodes" /\ Table!Next /\ UNCHANGED <<active, part, maps, records, signoff, texts>>
TreeStep == active = "dts" /\ Tree!Next /\ UNCHANGED <<active, irq, bus, decoders, records, signoff, texts>>
IrqStep == active = "irq" /\ Irq!Next /\ UNCHANGED <<active, tree, bus, decoders, records, signoff, texts>>
BusStep == active = "bus" /\ Bus!Next /\ UNCHANGED <<active, tree, irq, decoders, records, signoff, texts>>
PowerStep == active = "pads" /\ Power!Next /\ UNCHANGED <<active, modes, decoders, maps, signoff, texts>>
AuditStep == active = "sdc" /\ Audit!Next /\ UNCHANGED <<active, power, decoders, maps, signoff, texts>>
TimingStep == active = "timing" /\ Timing!Next /\ UNCHANGED <<active, drc, gds, decoders, maps, records, texts>>
TriageStep == active = "drc" /\ Triage!Next /\ UNCHANGED <<active, timing, gds, decoders, maps, records, texts>>
GdsStep == active = "gds" /\ Gds!Next /\ UNCHANGED <<active, timing, drc, decoders, maps, records, texts>>
TextStep == active = "text" /\ Cone!Next /\ UNCHANGED <<active, decoders, maps, records, signoff>>

Next ==
  \/ PartStep \/ TableStep \/ TreeStep \/ IrqStep \/ BusStep \/ PowerStep
  \/ AuditStep \/ TimingStep \/ TriageStep \/ GdsStep \/ TextStep

Spec == Init /\ [][Next]_vars
-----------------------------------------------------------------------------
(* Partition and imagecheck: the diagrams, their differences and the place *)
(* of every word are those of the sets of words.                           *)
PartitionExact == Part!UnionsCanonical /\ Part!DifferencesExact /\ Part!ClassesExact

(* SPEC is validated against instructions, never against shorthands.       *)
ValidatedByInstructions == Table!ValidatedByInstructions

(* A device tree of distinct names passes iff nothing overlaps and every   *)
(* register map lies in a node.                                            *)
MemmapPassIsDisjoint == Tree!MemmapPassIsDisjoint

(* The interrupt chains reported are those of the RTL.                     *)
ChainsAreTheRtls == Irq!ChainsAreTheRtls

(* The windows, pointers and banks reported are what the bus decodes.      *)
ReportIsDecode == Bus!ReportIsDecode

(* Every pad of a report without a miswired slice powers up as it says.    *)
PowersUpAsReported == Power!PowersUpAsReported

(* The audit of the constraints lists the pins that modes tie differently. *)
ConflictsAreReported == Audit!ConflictsAreReported

(* The reports of the flow pass only on closed timing, and on violations   *)
(* of the design rules that lie in the macros; and what is said of a layer *)
(* of the layout is about the shapes on it.                                *)
SignoffIsEarned ==
  Timing!PassesAreClosure /\ Triage!TriageIsByPlace /\ Gds!ExtentsAreBoundaries

(* Census and X literals are judged on the code, not on its comments.      *)
VerdictsAreOnCode == Cone!VerdictsAreOnCode
=============================================================================
