----------------------------- MODULE SyncCheck ------------------------------
(***************************************************************************)
(* The synchroniser check of tools/synccheck.py: the fanout of one input   *)
(* is traced to the first sequential cells, and every data pin it reaches  *)
(* is judged by the two-flop predicate.                                    *)
(*                                                                         *)
(* The trace visits a net at a time and puts the captures it finds aside;  *)
(* a capture is judged by chasing each output of its flop through buffers, *)
(* a stage per step, and looking at the loads where the chases end.  The   *)
(* order among nets, captures and outputs is left open.                    *)
(***************************************************************************)
EXTENDS Netlist

VARIABLES insts,      \* the netlist
          start,      \* the net that is traced
          phase,      \* "build", "trace", "judge", "done", or "aborted"
          seen,       \* the nets the trace has met
          frontier,   \* those it has not visited yet
          hits,       \* the terminations reported
          captures,   \* data pins met and not judged yet
          flop,       \* the data pin under judgement
          outs,       \* output pins of its instance not chased yet
          chase,      \* the output pin being chased and the net it led to
          loads       \* the loads found, with the output pin that led there

vars == <<insts, start, phase, seen, frontier, hits, captures, flop, outs, chase, loads>>

DATA_PINS == {"D", "D_N", "SCD"}
CLOCK_PINS == {"CLK", "CLK_N", "GATE", "GATE_N"}
ASYNC_PINS == {"RESET_B", "SET_B"}
BUFINV == {"buf", "inv", "clkbuf", "clkinv", "dlybuf", "dlygate", "dlymetal", "clkdly"}

None == [inst |-> 0, pin |-> ""]
NoChase == [pin |-> "", net |-> ""]

(* build: physical cells are left out, every pin of a macro is a reader,   *)
(* and the last instance that drives a net is its driver.                  *)
Sky(nl, i) == ~Macro(nl, i)
OutsOf(nl, i) == IF Sky(nl, i) /\ ~Phys(nl, i) THEN Outs(nl, i) ELSE {}
InsOf(nl, i) == IF Sky(nl, i) THEN IF Phys(nl, i) THEN {} ELSE Ins(nl, i) \ {"DIODE"}
                              ELSE Pins(nl, i)
Readings(nl, n) == UNION {Ends(nl, n, i, InsOf(nl, i)) : i \in DOMAIN nl}
Driving(nl, n) == {i \in DOMAIN nl : Ends(nl, n, i, OutsOf(nl, i)) # {}}
Driver(nl, n) == CHOOSE i \in Driving(nl, n) : \A j \in Driving(nl, n) : j <= i
Unclassified(nl) == {i \in Unknown(nl) : Sky(nl, i) /\ ~Phys(nl, i)}

Buffer(nl, i) == nl[i].cell \in BUFINV \ SEQ

(* What the chase and the clock roots take for granted of the library: a   *)
(* buffer or inverter has the one input A and one output, a cell with a    *)
(* data pin one clock.                                                     *)
ASSUME ChainCellsOfTheLibrary ==
  \A nl \in Netlists : \A i \in DOMAIN nl :
    /\ nl[i].cell \in BUFINV => /\ Pins(nl, i) \cap IN_PINS \subseteq {"A"}
                                /\ \E p \in {"X", "Y"} : Pins(nl, i) \cap OUT_PINS \subseteq {p}
    /\ Sequential(nl, i) /\ Pins(nl, i) \cap DATA_PINS # {} =>
         \E c \in CLOCK_PINS : Pins(nl, i) \cap CLOCK_PINS = {c}

(* A walk from a net along pairs <<net, the net above it>>, at most one    *)
(* for a net: the net it is at after each number of steps, and the number  *)
(* after which it ends, at a net with none above it or met before.         *)
Higher(up, n) == IF \E e \in up : e[1] = n THEN (CHOOSE e \in up : e[1] = n)[2] ELSE n

Along(up, net) ==
  LET at[k \in 0 .. Cardinality(Nets)] == IF k = 0 THEN net ELSE Higher(up, at[k - 1]) IN at

Ended(up, at, k) == (\A e \in up : e[1] # at[k]) \/ \E j \in 0 .. k - 1 : at[j] = at[k]

Steps(up, net) ==
  CHOOSE k \in 0 .. Cardinality(Nets) :
    /\ Ended(up, Along(up, net), k)
    /\ \A j \in 0 .. k - 1 : ~Ended(up, Along(up, net), j)

Walk(up, net) == {Along(up, net)[k] : k \in 0 .. Steps(up, net)}

WalkEnd(up, net) == Along(up, net)[Steps(up, net)]

(* clk_root: upward through buffers and inverters.                         *)
BufferUp(nl) ==
  LET buffered == {n \in Nets : /\ Driving(nl, n) # {}
                                /\ Buffer(nl, Driver(nl, n))
                                /\ \E p \in IN_PINS : Ins(nl, Driver(nl, n)) = {p}}
  IN  {<<n, CHOOSE m \in On(nl, Driver(nl, n), Ins(nl, Driver(nl, n))) : TRUE>> : n \in buffered}

ClkRoot(nl, n) == WalkEnd(BufferUp(nl), n)

(* The clock of an instance: the root above its clock pin, if it has one.  *)
Clock(nl, i) == {ClkRoot(nl, n) : n \in On(nl, i, Pins(nl, i) \cap CLOCK_PINS)}

Hit(kind, net, r) == [kind |-> kind, net |-> net, inst |-> r.inst, pin |-> r.pin]

Init ==
  /\ insts \in Netlists
  /\ start \in {n \in Nets : Base[n] \in Ports /\ Direction[Base[n]] = "input"}
  /\ phase = "build"
  /\ seen = {start} /\ frontier = {start}
  /\ hits = {} /\ captures = {}
  /\ flop = None /\ outs = {} /\ chase = NoChase /\ loads = {}

(* An unclassified pin ends the program; a net nobody reads is reported as *)
(* unconnected and not traced.                                             *)
Build ==
  /\ phase = "build"
  /\ phase' = IF Unclassified(insts) # {} THEN "aborted"
              ELSE IF Readings(insts, start) = {} THEN "done"
              ELSE "trace"
  /\ UNCHANGED <<insts, start, seen, frontier, hits, captures, flop, outs, chase, loads>>

(* What a reader that ends the trace is reported as, captures aside.       *)
Kind(r) ==
  CASE Macro(insts, r.inst)   -> "macro entry"
    [] r.pin \in CLOCK_PINS   -> "clock/gate pin"
    [] r.pin \in ASYNC_PINS   -> "async pin"
    [] OTHER                  -> "other seq pin"

(* A mutant of Fanout: the trace goes through buffers and inverters only.  *)
FanoutOfBuffers(net) ==
  UNION {On(insts, r.inst, OutsOf(insts, r.inst)) :
           r \in {s \in Readings(insts, net) : Buffer(insts, s.inst)}}

CombReaders(net) ==
  {r \in Readings(insts, net) : Sky(insts, r.inst) /\ ~Sequential(insts, r.inst)}

Fanout(net) == UNION {On(insts, r.inst, OutsOf(insts, r.inst)) : r \in CombReaders(net)}

(* A mutant of Fresh: what was seen is visited again.                      *)
FreshOrSeen(net) == Fanout(net)

Fresh(net) == Fanout(net) \ seen

Data(net) ==
  {r \in Readings(insts, net) : Sequential(insts, r.inst) /\ r.pin \in DATA_PINS}

Visit(net) ==
  /\ phase = "trace"
  /\ net \in frontier
  /\ seen' = seen \cup Fresh(net)
  /\ frontier' = (frontier \ {net}) \cup Fresh(net)
  /\ captures' = captures \cup Data(net)
  /\ hits' = hits
       \cup {Hit(Kind(r), net, r) : r \in Readings(insts, net) \ (CombReaders(net) \cup Data(net))}
       \cup {Hit("output port", n, None) :
               n \in {m \in {net} \ {start} :
                        Base[m] \in Ports /\ Direction[Base[m]] \in {"output", "inout"}}}
  /\ UNCHANGED <<insts, start, phase, flop, outs, chase, loads>>

Judge(r) ==
  /\ phase = "trace"
  /\ r \in captures
  /\ phase' = "judge"
  /\ captures' = captures \ {r}
  /\ flop' = r
  /\ outs' = OutsOf(insts, r.inst)
  /\ loads' = {}
  /\ UNCHANGED <<insts, start, seen, frontier, hits, chase>>

StartChase(p) ==
  /\ phase = "judge"
  /\ chase = NoChase
  /\ p \in outs
  /\ outs' = outs \ {p}
  /\ chase' = [pin |-> p, net |-> insts[flop.inst].at[p]]
  /\ UNCHANGED <<insts, start, phase, seen, frontier, hits, captures, flop, loads>>

(* The one reader of the net is a buffer with one output.                  *)
Crossed(net) ==
  {r.inst : r \in {s \in Readings(insts, net) :
                     /\ Readings(insts, net) = {s}
                     /\ Buffer(insts, s.inst)
                     /\ \E p \in OUT_PINS : OutsOf(insts, s.inst) = {p}}}

CrossBuffer(i) ==
  /\ phase = "judge"
  /\ chase # NoChase
  /\ i \in Crossed(chase.net)
  /\ \E n \in On(insts, i, OutsOf(insts, i)) : chase' = [chase EXCEPT !.net = n]
  /\ UNCHANGED <<insts, start, phase, seen, frontier, hits, captures, flop, outs, loads>>

EndChase ==
  /\ phase = "judge"
  /\ chase # NoChase
  /\ Crossed(chase.net) = {}
  /\ loads' = loads \cup {[out |-> chase.pin, at |-> r] : r \in Readings(insts, chase.net)}
  /\ chase' = NoChase
  /\ UNCHANGED <<insts, start, phase, seen, frontier, hits, captures, flop, outs>>

(* A mutant of TwoStages: the clocks are not compared.                     *)
TwoStagesOfAnyClock ==
  \E l \in loads :
    loads = {l} /\ Sequential(insts, l.at.inst) /\ l.at.pin \in DATA_PINS

(* One load, a data pin of a sequential cell whose clock has the same root.*)
TwoStages ==
  \E l \in loads :
    /\ loads = {l}
    /\ Sequential(insts, l.at.inst)
    /\ l.at.pin \in DATA_PINS
    /\ Clock(insts, l.at.inst) = Clock(insts, flop.inst)

Verdict ==
  /\ phase = "judge"
  /\ outs = {}
  /\ chase = NoChase
  /\ hits' = hits \cup {Hit(IF TwoStages THEN "capture SYNC" ELSE "capture NOSYNC",
                            insts[flop.inst].at[flop.pin], flop)}
  /\ phase' = "trace"
  /\ flop' = None
  /\ loads' = {}
  /\ UNCHANGED <<insts, start, seen, frontier, captures, outs, chase>>

Finish ==
  /\ phase = "trace"
  /\ frontier = {}
  /\ captures = {}
  /\ phase' = "done"
  /\ UNCHANGED <<insts, start, seen, frontier, hits, captures, flop, outs, chase, loads>>

Next ==
  \/ Build
  \/ \E net \in frontier : Visit(net)
  \/ \E r \in captures : Judge(r)
  \/ \E p \in outs : StartChase(p)
  \/ \E i \in DOMAIN insts : CrossBuffer(i)
  \/ EndChase
  \/ Verdict
  \/ Finish

Spec == Init /\ [][Next]_vars

(* One thread that nothing interrupts.                                     *)
FairSpec == Spec /\ WF_vars(Next)
-----------------------------------------------------------------------------
(* The nets that a set of nets leads to along a relation, in any number of *)
(* steps.                                                                  *)
LeadsTo(from, edges) ==
  LET met == from \cup {e[2] : e \in edges}
  IN  {n \in met : \A S \in SUBSET met :
         from \subseteq S /\ (\A e \in edges : e[1] \in S => e[2] \in S) => n \in S}

(* The fanout of the traced input, in the combinational graph of W3.       *)
Cone == LeadsTo({start}, Edges(insts))

(* The input pins with state behind them, and the ports, that lie on it.   *)
Endpoints ==
  {r \in UNION {Readers(insts, n) : n \in Cone} : r.inst \notin Comb(insts)}

ConePorts ==
  {n \in Cone \ {start} : Base[n] \in Ports /\ Direction[Base[n]] # "input"}

(* The terminations at a pin; the others are ports.                        *)
AtPin == {h \in hits : h.inst # 0}

(* Everything the input reaches is in the report, and no sequential pin or *)
(* port that it does not reach: a termination that is missed is a crossing *)
(* nobody looks at.                                                        *)
TraceComplete ==
  phase = "done" =>
    LET reported == {[inst |-> h.inst, pin |-> h.pin] : h \in AtPin}
    IN  /\ Endpoints \subseteq reported
        /\ \A r \in reported \ Endpoints : Macro(insts, r.inst)
        /\ ConePorts = {h.net : h \in hits \ AtPin}

(* The predicate in the words of the header: the outputs of the flop, each *)
(* through a chain of single-fanout buffers at most, lead to one load in   *)
(* all, the data pin of another sequential cell in the same clock tree.    *)
(* Antenna diodes are no loads; the supply of a macro is one, and so is a  *)
(* buffer that leads nowhere.                                              *)
Loads(nl, n) ==
  {r \in Readers(nl, n) : ~Phys(nl, r.inst)}
    \cup UNION {Ends(nl, n, i, Power(nl, i)) : i \in {j \in DOMAIN nl : Macro(nl, j)}}

Buffers(nl) == {i \in DOMAIN nl : Buffer(nl, i) /\ Outs(nl, i) # {}}

Chain(nl, i) == LeadsTo(On(nl, i, Outs(nl, i)), Through(nl, Buffers(nl)))

(* The nets above a clock pin, through buffers and inverters only.         *)
Above(nl, i) ==
  LeadsTo(On(nl, i, Pins(nl, i) \cap CLOCK_PINS), {<<e[2], e[1]>> : e \in Through(nl, Buffers(nl))})

Synchroniser(nl, f) ==
  /\ \A n \in Chain(nl, f) : \A r, t \in Loads(nl, n) : r = t
  /\ \E s \in DOMAIN nl \ {f} :
       /\ Sequential(nl, s)
       /\ Above(nl, s) \cap Above(nl, f) # {}
       /\ \E p \in DATA_PINS :
            {r \in UNION {Loads(nl, n) : n \in Chain(nl, f)} : r.inst \notin Buffers(nl)}
              = {[inst |-> s, pin |-> p]}

InputsUndriven(nl) ==
  \A n \in Nets : Base[n] \in Ports /\ Direction[Base[n]] = "input" => Drivers(nl, n) = {}

(* On a netlist that passed W1-W4 and drives none of its inputs, a capture *)
(* by a flop with one data pin is reported as synchronised exactly when    *)
(* the flop heads a two-stage synchroniser.                                *)
VerdictIsDocumented ==
  phase = "done" /\ Passes(insts) /\ InputsUndriven(insts) =>
    \A h \in AtPin :
      Pins(insts, h.inst) \cap DATA_PINS = {h.pin} =>
        /\ h.kind = "capture SYNC" => Synchroniser(insts, h.inst)
        /\ h.kind = "capture NOSYNC" => ~Synchroniser(insts, h.inst)

(* The header's word for the second stage: what a synchronised flop leads  *)
(* to is the D pin of a second flop.                                       *)
SecondStageIsFlop ==
  phase = "done" /\ Passes(insts) /\ InputsUndriven(insts) =>
    \A h \in hits : h.kind = "capture SYNC" =>
      \E s \in DOMAIN insts \ {h.inst} :
        /\ insts[s].cell = "df"
        /\ \E n \in Chain(insts, h.inst) : [inst |-> s, pin |-> "D"] \in Loads(insts, n)

(* The check comes to an end on every netlist without contended nets, also *)
(* where logic or buffers form loops.                                      *)
TraceEnds == Contended(insts) = {} ~> phase \in {"done", "aborted"}

(* A net that W1-W4 pass as read gets a value: from the ports, from cells  *)
(* with state, or through combinational cells that have got theirs.        *)
PassIsEvaluable == phase = "build" /\ Passes(insts) => Evaluable(insts)
=============================================================================
