----------------------------- MODULE ClockWalks -----------------------------
(***************************************************************************)
(* The two walks from the clock pin of a sequential cell up to the source  *)
(* of its clock: trace_root of tools/clockcheck.py, over the drivers that  *)
(* synccheck.py builds, and the domain census of tools/check-l2.py, over a *)
(* driver map of its own.  L2's collapse of the clock tree and its table   *)
(* of domains rest on them, one each.                                      *)
(***************************************************************************)
EXTENDS SyncCheck

CONSTANTS CLOCK_PORTS,   \* the clock-capable ports of the design
          Declared       \* those the constraint file creates a clock on

GATES == {"dlclk", "sdlclk"}

(* A mutant of CLKCELL: the delay gates are left out.                      *)
CLKCELLWithoutDelays == {"clkbuf", "clkinv", "clkdly", "buf", "inv", "dlclk", "sdlclk"}

CLKCELL == {"clkbuf", "clkinv", "clkdly", "dlygate", "dlymetal", "dlybuf", "buf", "inv",
            "dlclk", "sdlclk"}

(* What both walks take for granted of the library besides: a clock gate   *)
(* has the clock CLK and the output GCLK.  Clocks enter by inputs.         *)
ASSUME ClockGatesOfTheLibrary ==
  \A nl \in Netlists : \A i \in DOMAIN nl :
    nl[i].cell \in GATES => /\ Pins(nl, i) \cap {"A", "CLK", "CLK_N"} = {"CLK"}
                            /\ Pins(nl, i) \cap OUT_PINS = {"GCLK"}
(* The clock pins of a cell are listed in some order.                      *)
ASSUME ClockPinsAreListed ==
  \A nl \in Netlists : \A i \in DOMAIN nl :
    /\ nl[i].clocks \in Seq(CLOCK_PINS)
    /\ {nl[i].clocks[k] : k \in DOMAIN nl[i].clocks} = Pins(nl, i) \cap CLOCK_PINS
ASSUME ClockPortsAreInputs == \A p \in CLOCK_PORTS : p \in Ports /\ Direction[p] = "input"

(* A mutant of DriverKind: a cell of several inputs passes for a buffer.   *)
DriverKindOfAny(nl, n) ==
  LET i == Driver(nl, n)
  IN  IF Driving(nl, n) = {} THEN "port/floating"
      ELSE CASE nl[i].cell = "conb"  -> "const"
             [] nl[i].cell \in GATES -> "clockgate"
             [] i \notin Comb(nl)    -> "flop-out"
             [] OTHER                -> "bufinv"

(* classify_driver, the kind of what drives a net.                         *)
DriverKind(nl, n) ==
  LET i == Driver(nl, n)
  IN  IF Driving(nl, n) = {}
      THEN IF \E r \in Readings(nl, n) : Macro(nl, r.inst) THEN "macro" ELSE "port/floating"
      ELSE CASE nl[i].cell = "conb"     -> "const"
             [] nl[i].cell \in GATES    -> "clockgate"
             [] nl[i].cell \in SEQ \ GATES -> "flop-out"
             [] Buffer(nl, i) /\ Cardinality(Ins(nl, i)) = 1 -> "bufinv"
             [] OTHER                   -> "logic"

(* Where trace_root goes on from a net: below a buffer to its input, below *)
(* a clock gate to its clock.                                              *)
Onward(nl, n) ==
  CASE DriverKind(nl, n) = "bufinv"    -> On(nl, Driver(nl, n), Ins(nl, Driver(nl, n)))
    [] DriverKind(nl, n) = "clockgate" ->
         On(nl, Driver(nl, n), Pins(nl, Driver(nl, n)) \cap {"CLK", "CLK_N"})
    [] OTHER                           -> {}

TraceUp(nl) ==
  {<<n, CHOOSE m \in Onward(nl, n) : TRUE>> : n \in {m \in Nets : Onward(nl, m) # {}}}

TraceEnd(nl, n) == WalkEnd(TraceUp(nl), n)

(* The root a sink is listed under: the kind of what drives the net where  *)
(* the walk ended, and what names it (for a macro its cell and pin only).  *)
Root(nl, n) ==
  LET end == TraceEnd(nl, n)
      kind == IF Onward(nl, end) # {} THEN "cycle" ELSE DriverKind(nl, end)
      r == CHOOSE s \in Readings(nl, end) : Macro(nl, s.inst)
  IN  [kind |-> kind, name |-> IF kind = "macro" THEN r.pin ELSE end]

(* A mutant of Exceptions: the clock gates on the way are not enumerated.  *)
ExceptionsOfLogic(nl, n) == {m \in Walk(TraceUp(nl), n) : DriverKind(nl, m) = "logic"}

(* What is enumerated beside it: the clock gates on the way, and the logic *)
(* the walk could not look through.                                        *)
Exceptions(nl, n) ==
  {m \in Walk(TraceUp(nl), n) : DriverKind(nl, m) \in {"clockgate", "logic"}}

(* survey: the clock pins of the sequential cells that are no clock gates. *)
Sinks(nl) ==
  UNION {On(nl, i, Pins(nl, i) \cap CLOCK_PINS) :
           i \in {j \in DOMAIN nl : Sequential(nl, j) /\ nl[j].cell \notin GATES}}

(* The census of check-l2: the driver map, from the output to the input of *)
(* every clock cell, where the last cell that drives a net wins, and the   *)
(* base name a walk along it ends at.                                      *)
ClockCellsAt(nl, n) ==
  {i \in DOMAIN nl : /\ nl[i].cell \in CLKCELL
                     /\ Pins(nl, i) \cap {"A", "CLK"} # {}
                     /\ n \in On(nl, i, Pins(nl, i) \cap {"X", "Y", "GCLK"})}

CensusUp(nl) ==
  LET last(n) == CHOOSE j \in ClockCellsAt(nl, n) : \A k \in ClockCellsAt(nl, n) : k <= j
  IN  {<<n, nl[last(n)].at[IF "A" \in Pins(nl, last(n)) THEN "A" ELSE "CLK"]>> :
         n \in {m \in Nets : ClockCellsAt(nl, m) # {}}}

CensusEnd(nl, n) == WalkEnd(CensusUp(nl), n)

(* The net a walk of the census begins at: of the clock pins of a          *)
(* sequential cell the first that is listed, and no other, so that what is *)
(* walked of a clock gate is its clock or its enable.                      *)
Clocked(nl) ==
  {nl[i].at[Head(nl[i].clocks)] :
     i \in {j \in DOMAIN nl : Sequential(nl, j) /\ nl[j].clocks # <<>>}}

CensusRoots(nl) == {Base[CensusEnd(nl, n)] : n \in Clocked(nl)}

(* A mutant of CensusPasses: a root that is no clock port is let pass.     *)
CensusPassesInternal(nl) == CensusRoots(nl) \cap CLOCK_PORTS \subseteq Declared

(* The verdict of the census: a finding when a root is a clock port the    *)
(* constraints do not declare, or no clock port at all.                    *)
CensusPasses(nl) == CensusRoots(nl) \subseteq CLOCK_PORTS \cap Declared
-----------------------------------------------------------------------------
(* Where a net comes from: the nets above it that nothing is above.        *)
Origins(n, edges) ==
  {m \in LeadsTo({n}, {<<e[2], e[1]>> : e \in edges}) : \A e \in edges : e[2] # m}

(* What carries a clock through a gate.                                    *)
GateEdges(nl) ==
  {<<nl[i].at["CLK"], nl[i].at["GCLK"]>> : i \in {j \in DOMAIN nl : nl[j].cell \in GATES}}

(* Where a net comes from through whatever combinational cells and the     *)
(* clock pins of gates, and where it comes from when no gate is passed.    *)
Sources(nl, n) == Origins(n, Edges(nl) \cup GateEdges(nl))
Ungated(nl, n) == Origins(n, Edges(nl))

(* The two walks, written over different driver maps and cell lists, end   *)
(* at the same net on every netlist that passed W1-W4, whatever net they   *)
(* set out from.                                                           *)
WalkersAgree ==
  phase = "build" /\ Passes(insts) =>
    \A n \in Nets : CensusEnd(insts, n) = TraceEnd(insts, n)

(* What the reports call a clock is all that reaches a clock pin: when the *)
(* census passes, a declared clock port and nothing else reaches each pin  *)
(* it walked from, through gates or not; and a sink listed under a port    *)
(* without an exception comes from that port alone, and through no gate.   *)
ReportedClocksAreSole ==
  phase = "build" /\ Passes(insts) /\ InputsUndriven(insts) =>
    /\ CensusPasses(insts) =>
         \A n \in Clocked(insts) :
           \E s \in Nets : /\ Sources(insts, n) = {s}
                           /\ Base[s] \in CLOCK_PORTS \cap Declared
    /\ \A n \in Sinks(insts) :
         Root(insts, n).kind = "port/floating" /\ Exceptions(insts, n) = {} =>
           /\ Sources(insts, n) = {Root(insts, n).name}
           /\ Ungated(insts, n) = {Root(insts, n).name}
=============================================================================
