------------------------------ MODULE Netlist ------------------------------
(***************************************************************************)
(* A gate-level netlist and the obligations W1-W4 of tools/netgraph.py,    *)
(* with the verdict tools/check-l3.py (wcheck) gives on them.              *)
(*                                                                         *)
(* A netlist is a sequence of instances in file order, each with the       *)
(* family of its cell (the part of the name the code's regular expressions *)
(* test), a function from its connected pins to nets, and its clock pins   *)
(* in the order the file lists them, which one of the programs looks at.   *)
(* A net is known by the base name under which a port would declare it.    *)
(***************************************************************************)
EXTENDS Integers, Sequences, FiniteSets

CONSTANTS Netlists,    \* the netlists considered
          Base,        \* net -> the name before its bit index
          Direction,   \* port -> "input", "output" or "inout"
          Ties         \* the literals 1'b0 and 1'b1

Nets == DOMAIN Base
Ports == DOMAIN Direction

OUT_PINS == {"X", "Y", "Q", "Q_N", "HI", "LO", "COUT", "COUT_N", "SUM", "GCLK", "Z"}
PWR_PINS == {"VPWR", "VGND", "VNB", "VPB", "KAPWR", "LOWLVPWR", "VPWRIN"}
IN_PINS == {"A", "A0", "A1", "A2", "A3", "A4", "A_N", "A1_N", "A2_N", "B", "B1", "B2",
       "B_N", "B1_N", "B2_N", "C", "C1", "C_N", "D", "D1", "D_N", "S", "S0", "S1",
       "CLK", "CLK_N", "RESET_B", "SET_B", "GATE", "GATE_N", "SLEEP", "SLEEP_B",
       "DE", "TE", "TE_B", "SCD", "SCE", "NOTIFIER", "DIODE", "CIN", "M", "H"}
MACRO_OUT == {"dout"}
MACRO_IN == {"clk", "rstb", "ce", "we", "wmask", "addr", "din"}
MACRO_PWR == {"vdd", "vss"}

MACRO == {"sram22"}
(* A mutant of SEQ: the pattern `dl` also matches the delay buffers.       *)
SEQByLetters == {"sdf", "edf", "sedf", "df", "dlx", "dlr", "dlclk", "sdlclk", "dlygate"}

SEQ == {"sdf", "edf", "sedf", "df", "dlx", "dlr", "dlclk", "sdlclk"}
PHYS == {"decap", "fill", "tapvpwrvgnd", "tap", "diode"}
TRI == {"einv", "ebuf"}

Pins(nl, i) == DOMAIN nl[i].at
Macro(nl, i) == nl[i].cell \in MACRO
Sequential(nl, i) == nl[i].cell \in SEQ
Phys(nl, i) == nl[i].cell \in PHYS

Outs(nl, i) == Pins(nl, i) \cap (IF Macro(nl, i) THEN MACRO_OUT ELSE OUT_PINS)
Ins(nl, i) == Pins(nl, i) \cap (IF Macro(nl, i) THEN MACRO_IN ELSE IN_PINS)
Power(nl, i) == Pins(nl, i) \cap (IF Macro(nl, i) THEN MACRO_PWR ELSE PWR_PINS)

(* Instances have numbers.  What the pin tables take for granted of the    *)
(* libraries: a physical-only cell drives nothing, and only such cells     *)
(* have a DIODE pin.                                                       *)
ASSUME NetlistsOfTheLibrary ==
  \A nl \in Netlists :
    /\ Len(nl) \in Nat /\ DOMAIN nl = 1 .. Len(nl)
    /\ \A i \in DOMAIN nl : Phys(nl, i) => Outs(nl, i) = {}
    /\ \A i \in DOMAIN nl : "DIODE" \in Pins(nl, i) => Phys(nl, i)

(* There is an end to the nets, and pins are connected to nets.            *)
ASSUME NetsAreFinite == IsFiniteSet(Nets)
ASSUME PinsAreOnNets ==
  \A nl \in Netlists : \A i \in DOMAIN nl : \A p \in Pins(nl, i) : nl[i].at[p] \in Nets

(* A port has one of the directions of a module header.                    *)
ASSUME DirectionsOfPorts == \A p \in Ports : Direction[p] \in {"input", "output", "inout"}

(* The nets on a set of pins of an instance.                               *)
On(nl, i, pins) == {nl[i].at[p] : p \in pins}

(* The (instance, pin) pairs at which pins of instance i connect net n.    *)
Ends(nl, n, i, pins) == {[inst |-> i, pin |-> p] : p \in {q \in pins : nl[i].at[q] = n}}

Drivers(nl, n) == UNION {Ends(nl, n, i, Outs(nl, i)) : i \in DOMAIN nl}
Readers(nl, n) == UNION {Ends(nl, n, i, Ins(nl, i)) : i \in DOMAIN nl}

(* Instances with a pin that is in no table: any of them fails the check.  *)
Unknown(nl) == {i \in DOMAIN nl : Pins(nl, i) # Outs(nl, i) \cup Ins(nl, i) \cup Power(nl, i)}

(* The combinational graph: an edge from each input to each output of a    *)
(* cell that is neither sequential nor a macro.                            *)
Comb(nl) == {i \in DOMAIN nl : ~Sequential(nl, i) /\ ~Macro(nl, i)}
Through(nl, cells) == UNION {On(nl, i, Ins(nl, i)) \X On(nl, i, Outs(nl, i)) : i \in cells}
Edges(nl) == Through(nl, Comb(nl))

(* W1: nets with several drivers that are not all tri-state.               *)
Contended(nl) ==
  {n \in Nets : \E d, e \in Drivers(nl, n) : d # e /\ nl[d.inst].cell \notin TRI}

(* W2: nets that are read, but neither driven, nor a port's, nor a tie.    *)
Floating(nl) ==
  {n \in Nets : /\ Readers(nl, n) # {}
                /\ Drivers(nl, n) = {}
                /\ Base[n] \notin Ports
                /\ n \notin Ties}

(* W3: a combinational cycle exists when some nets each feed another of    *)
(* them; that the search of CombCycles reports exactly this is proved      *)
(* there.                                                                  *)
Cyclic(nl) ==
  LET edges == Edges(nl)
  IN  \E S \in (SUBSET {e[1] : e \in edges}) \ {{}} : \A n \in S : \E m \in S : <<n, m>> \in edges

(* W4: physical-only cells with a signal pin.                              *)
NotInert(nl) ==
  {i \in DOMAIN nl : Phys(nl, i) /\ Pins(nl, i) \ (PWR_PINS \cup {"DIODE"}) # {}}

(* The verdict of wcheck.  Without an instance its percentage divides by   *)
(* zero, which the layer turns into a failure.                             *)
Passes(nl) ==
  /\ Unknown(nl) = {}
  /\ Contended(nl) = {}
  /\ Floating(nl) = {}
  /\ ~Cyclic(nl)
  /\ NotInert(nl) = {}
  /\ nl # <<>>
-----------------------------------------------------------------------------
(***************************************************************************)
(* What a netlist that passes must have: a value on every net it reads.    *)
(* The cells with state and the environment are given; everything else has *)
(* to settle from them.                                                    *)
(***************************************************************************)
Stateful == {"df", "edf", "sdf", "sedf", "dlx", "dlr", "dlclk", "sdlclk", "sram22"}

Given(nl) ==
  {n \in Nets : Base[n] \in Ports} \cup Ties
    \cup UNION {On(nl, i, Outs(nl, i)) : i \in {j \in DOMAIN nl : nl[j].cell \in Stateful}}

(* The nets that settle: those in every set that has the given ones and,   *)
(* with the inputs of all cells that drive a net, the net itself.          *)
Settled(nl) ==
  LET rest == Nets \ Given(nl)
      ready(n, S) ==
        /\ Drivers(nl, n) # {}
        /\ \A d \in Drivers(nl, n) : On(nl, d.inst, Ins(nl, d.inst)) \subseteq Given(nl) \cup S
  IN  Given(nl) \cup
        {n \in rest : \A S \in SUBSET rest : (\A m \in rest : ready(m, S) => m \in S) => n \in S}

Evaluable(nl) == {n \in Nets : Readers(nl, n) # {}} \subseteq Settled(nl)
=============================================================================
