--------------------------- MODULE SyncCheckProofs --------------------------
(***************************************************************************)
(* The trace of synccheck.py misses nothing and its verdicts are those of  *)
(* its header, on every netlist and in every order of the frontier, of the *)
(* captures and of the chases; and what W1-W4 and the walks to a clock     *)
(* root establish.                                                         *)
(***************************************************************************)
EXTENDS ClockWalks, FiniteSetTheorems, WellFoundedInduction, TLAPS

(* The readers of a net at which the trace ends.                           *)
Stops(n) == Readings(insts, n) \ CombReaders(n)

Reported == {[inst |-> h.inst, pin |-> h.pin] : h \in AtPin}
ReportedPorts == {h.net : h \in hits \ AtPin}
Pending == captures \cup (IF phase = "judge" THEN {flop} ELSE {})

Outward(n) == n # start /\ Base[n] \in Ports /\ Direction[Base[n]] # "input"

(* Nothing behind the net is lost.                                         *)
Visited(n) ==
  /\ Fanout(n) \subseteq seen
  /\ Stops(n) \subseteq Reported \cup Pending
  /\ Outward(n) => n \in ReportedPorts

(* A termination is where the trace may end.                               *)
Termination(r) ==
  /\ r.inst \in DOMAIN insts
  /\ r = [inst |-> r.inst, pin |-> r.pin]
  /\ r \in Endpoints \/ Macro(insts, r.inst)

IInv ==
  /\ insts \in Netlists
  /\ start \in seen /\ frontier \subseteq seen /\ seen \subseteq Cone
  /\ \A n \in seen \ frontier : Visited(n)
  /\ \A r \in Reported \cup Pending : Termination(r)
  /\ ReportedPorts \subseteq ConePorts
  /\ phase = "build" => seen = {start} /\ captures = {}
  /\ phase = "done" => captures = {} /\ \A n \in seen : Visited(n)
-----------------------------------------------------------------------------
LEMMA InReadings ==
  ASSUME NEW n, NEW r
  PROVE  r \in Readings(insts, n) <=>
           \E i \in DOMAIN insts : \E p \in InsOf(insts, i) :
             insts[i].at[p] = n /\ r = [inst |-> i, pin |-> p]
BY DEF Readings, Ends

LEMMA InReaders ==
  ASSUME NEW n, NEW r
  PROVE  r \in Readers(insts, n) <=>
           \E i \in DOMAIN insts : \E p \in Ins(insts, i) :
             insts[i].at[p] = n /\ r = [inst |-> i, pin |-> p]
BY DEF Readers, Ends

(* The families are told apart.                                            *)
LEMMA Families ==
  ASSUME NEW i
  PROVE  /\ Macro(insts, i) => ~Sequential(insts, i) /\ ~Phys(insts, i)
         /\ Sequential(insts, i) => ~Phys(insts, i)
BY DEF Macro, Sequential, Phys, MACRO, SEQ, PHYS

(* synccheck's inputs and netgraph's.                                      *)
LEMMA SameInputs ==
  ASSUME insts \in Netlists, NEW i \in DOMAIN insts
  PROVE  /\ Macro(insts, i) => InsOf(insts, i) = Pins(insts, i) /\ Ins(insts, i) \subseteq Pins(insts, i)
         /\ Phys(insts, i) => InsOf(insts, i) = {} /\ OutsOf(insts, i) = {} /\ Outs(insts, i) = {}
         /\ ~Macro(insts, i) /\ ~Phys(insts, i) => InsOf(insts, i) = Ins(insts, i) /\ OutsOf(insts, i) = Outs(insts, i)
<1>1. Ins(insts, i) \subseteq Pins(insts, i)
  BY DEF Ins
<1>2. Macro(insts, i) => InsOf(insts, i) = Pins(insts, i)
  BY DEF InsOf, Sky
<1>3. Phys(insts, i) => InsOf(insts, i) = {} /\ OutsOf(insts, i) = {} /\ Outs(insts, i) = {}
  BY NetlistsOfTheLibrary, Families DEF InsOf, OutsOf, Sky
<1>4. ~Phys(insts, i) => "DIODE" \notin Ins(insts, i)
  BY <1>1, NetlistsOfTheLibrary
<1>5. ~Macro(insts, i) /\ ~Phys(insts, i) => InsOf(insts, i) = Ins(insts, i) /\ OutsOf(insts, i) = Outs(insts, i)
  BY <1>4 DEF InsOf, OutsOf, Sky
<1> QED
  BY <1>1, <1>2, <1>3, <1>5

(* A net and the fanout of it are an edge of the combinational graph.      *)
LEMMA EdgeIsFanout ==
  ASSUME insts \in Netlists, NEW n, NEW m
  PROVE  <<n, m>> \in Edges(insts) <=> m \in Fanout(n)
<1>1. <<n, m>> \in Edges(insts) <=>
        \E i \in Comb(insts) : n \in On(insts, i, Ins(insts, i)) /\ m \in On(insts, i, Outs(insts, i))
  BY DEF Edges, Through
<1>2. m \in Fanout(n) <=>
        \E r \in Readings(insts, n) : /\ Sky(insts, r.inst) /\ ~Sequential(insts, r.inst)
                                      /\ m \in On(insts, r.inst, OutsOf(insts, r.inst))
  BY DEF Fanout, CombReaders
<1>3. m \in Fanout(n) <=>
        \E i \in DOMAIN insts : /\ n \in On(insts, i, InsOf(insts, i))
                                /\ ~Macro(insts, i) /\ ~Sequential(insts, i)
                                /\ m \in On(insts, i, OutsOf(insts, i))
  <2>1. ASSUME NEW r \in Readings(insts, n), Sky(insts, r.inst), ~Sequential(insts, r.inst),
               m \in On(insts, r.inst, OutsOf(insts, r.inst))
        PROVE  \E i \in DOMAIN insts : /\ n \in On(insts, i, InsOf(insts, i))
                                       /\ ~Macro(insts, i) /\ ~Sequential(insts, i)
                                       /\ m \in On(insts, i, OutsOf(insts, i))
    <3>1. PICK i \in DOMAIN insts :
            \E p \in InsOf(insts, i) : insts[i].at[p] = n /\ r = [inst |-> i, pin |-> p]
      BY InReadings
    <3>2. r.inst = i /\ n \in On(insts, i, InsOf(insts, i))
      BY <3>1 DEF On
    <3> QED
      BY <2>1, <3>2 DEF Sky
  <2>2. ASSUME NEW i \in DOMAIN insts, n \in On(insts, i, InsOf(insts, i)),
               ~Macro(insts, i), ~Sequential(insts, i), m \in On(insts, i, OutsOf(insts, i))
        PROVE  m \in Fanout(n)
    <3>1. PICK p \in InsOf(insts, i) : insts[i].at[p] = n
      BY <2>2 DEF On
    <3> DEFINE r == [inst |-> i, pin |-> p]
    <3>2. r \in Readings(insts, n) /\ r.inst = i
      BY <3>1, InReadings
    <3> HIDE DEF r
    <3> QED
      BY <1>2, <2>2, <3>2 DEF Sky
  <2> QED
    BY <1>2, <2>1, <2>2
<1>4. ASSUME NEW i \in DOMAIN insts, ~Macro(insts, i)
      PROVE  n \in On(insts, i, InsOf(insts, i)) /\ m \in On(insts, i, OutsOf(insts, i))
               <=> n \in On(insts, i, Ins(insts, i)) /\ m \in On(insts, i, Outs(insts, i))
  BY <1>4, SameInputs DEF On
<1> QED
  BY <1>1, <1>3, <1>4 DEF Comb

(* Where the trace ends: at the readers with state, and at the macros.     *)
LEMMA StopsAreEnds ==
  ASSUME insts \in Netlists, NEW n, NEW r
  PROVE  /\ r \in Stops(n) => /\ r.inst \in DOMAIN insts
                              /\ r = [inst |-> r.inst, pin |-> r.pin]
                              /\ \/ r \in Readers(insts, n) /\ r.inst \notin Comb(insts)
                                 \/ Macro(insts, r.inst)
         /\ r \in Readers(insts, n) /\ r.inst \notin Comb(insts) => r \in Stops(n)
<1>1. ASSUME r \in Stops(n)
      PROVE  /\ r.inst \in DOMAIN insts
             /\ r = [inst |-> r.inst, pin |-> r.pin]
             /\ \/ r \in Readers(insts, n) /\ r.inst \notin Comb(insts)
                \/ Macro(insts, r.inst)
  <2>1. PICK i \in DOMAIN insts :
          \E p \in InsOf(insts, i) : insts[i].at[p] = n /\ r = [inst |-> i, pin |-> p]
    BY <1>1, InReadings DEF Stops
  <2>2. PICK p \in InsOf(insts, i) : insts[i].at[p] = n /\ r = [inst |-> i, pin |-> p]
    BY <2>1
  <2>3. Macro(insts, i) \/ Sequential(insts, i)
    BY <1>1, <2>2 DEF Stops, CombReaders, Sky
  <2>4. CASE Sequential(insts, i) /\ ~Macro(insts, i)
    <3>1. p \in Ins(insts, i) /\ i \notin Comb(insts)
      BY <2>2, <2>4, Families, SameInputs DEF Comb
    <3> QED
      BY <2>2, <3>1, InReaders
  <2> QED
    BY <2>2, <2>3, <2>4
<1>2. ASSUME r \in Readers(insts, n), r.inst \notin Comb(insts)
      PROVE  r \in Stops(n)
  <2>1. PICK i \in DOMAIN insts :
          \E p \in Ins(insts, i) : insts[i].at[p] = n /\ r = [inst |-> i, pin |-> p]
    BY <1>2, InReaders
  <2>2. PICK p \in Ins(insts, i) : insts[i].at[p] = n /\ r = [inst |-> i, pin |-> p]
    BY <2>1
  <2>3. Sequential(insts, i) \/ Macro(insts, i)
    BY <1>2, <2>2 DEF Comb
  <2>4. p \in InsOf(insts, i)
    BY <2>3, Families, SameInputs
  <2>5. r \in Readings(insts, n)
    BY <2>2, <2>4, InReadings
  <2> QED
    BY <2>2, <2>3, <2>5 DEF Stops, CombReaders, Sky
<1> QED
  BY <1>1, <1>2

LEMMA CapturesStop ==
  ASSUME insts \in Netlists, NEW n
  PROVE  Data(n) \subseteq Stops(n)
BY DEF Data, Stops, CombReaders

(* The cone holds the start, is closed, and is the least such set.         *)
LEMMA ConeFacts ==
  ASSUME insts \in Netlists
  PROVE  /\ start \in Cone
         /\ \A n \in Cone : Fanout(n) \subseteq Cone
         /\ \A S : start \in S /\ (\A n \in S : Fanout(n) \subseteq S) => Cone \subseteq S
<1> DEFINE met == {start} \cup {e[2] : e \in Edges(insts)}
           Closed(S) == {start} \subseteq S /\ \A e \in Edges(insts) : e[1] \in S => e[2] \in S
<1>1. Cone = {n \in met : \A S \in SUBSET met : Closed(S) => n \in S}
  BY DEF Cone, LeadsTo
<1>2. \A e \in Edges(insts) : e = <<e[1], e[2]>> /\ e[2] \in Fanout(e[1])
  <2>1. \A e \in Edges(insts) : e = <<e[1], e[2]>>
    BY DEF Edges, Through
  <2> QED
    BY <2>1, EdgeIsFanout
<1>3. start \in Cone
  BY <1>1
<1>4. ASSUME NEW n \in Cone, NEW m \in Fanout(n)
      PROVE  m \in Cone
  <2>1. <<n, m>> \in Edges(insts)
    BY EdgeIsFanout
  <2>2. m \in met
    <3>1. <<n, m>>[2] = m
      OBVIOUS
    <3> QED
      BY <2>1, <3>1
  <2>3. ASSUME NEW S \in SUBSET met, Closed(S) PROVE m \in S
    <3>1. n \in S
      BY <1>1, <2>3
    <3>2. <<n, m>>[1] \in S => <<n, m>>[2] \in S
      BY <2>1, <2>3
    <3> QED
      BY <3>1, <3>2
  <2> QED
    BY <1>1, <2>2, <2>3
<1>5. ASSUME NEW S, start \in S, \A n \in S : Fanout(n) \subseteq S
      PROVE  Cone \subseteq S
  <2>1. Closed(S \cap met)
    BY <1>2, <1>5
  <2> QED
    BY <1>1, <2>1
<1> QED
  BY <1>3, <1>4, <1>5
-----------------------------------------------------------------------------
(* What depends on the netlist and the traced net only.                    *)
LEMMA Frame ==
  ASSUME insts' = insts, start' = start
  PROVE  /\ Cone' = Cone /\ Endpoints' = Endpoints /\ ConePorts' = ConePorts
         /\ \A n : Fanout(n)' = Fanout(n) /\ Stops(n)' = Stops(n) /\ Outward(n)' = Outward(n)
         /\ \A r : Termination(r)' = Termination(r)
<1>1. Cone' = Cone
  BY DEF Cone
<1>2. Endpoints' = Endpoints /\ ConePorts' = ConePorts
  BY <1>1 DEF Endpoints, ConePorts
<1>3. \A n : Fanout(n)' = Fanout(n) /\ Stops(n)' = Stops(n) /\ Outward(n)' = Outward(n)
  BY DEF Fanout, Stops, CombReaders, Outward
<1>4. \A r : Termination(r)' = Termination(r)
  BY <1>2 DEF Termination
<1> QED
  BY <1>1, <1>2, <1>3, <1>4

(* A termination at which the trace stops is one of its report.            *)
LEMMA StopsTerminate ==
  ASSUME insts \in Netlists, NEW n \in Cone, NEW r \in Stops(n)
  PROVE  Termination(r) /\ r.inst # 0
<1>1. /\ r.inst \in DOMAIN insts /\ r = [inst |-> r.inst, pin |-> r.pin]
      /\ \/ r \in Readers(insts, n) /\ r.inst \notin Comb(insts)
         \/ Macro(insts, r.inst)
  BY StopsAreEnds
<1> QED
  BY <1>1, NetlistsOfTheLibrary DEF Termination, Endpoints

(* A step that leaves the trace, its report and what is pending alone.     *)
LEMMA Aside ==
  ASSUME IInv, UNCHANGED <<insts, start, seen, frontier, hits>>,
         Pending' = Pending, phase' \notin {"build", "done"}
  PROVE  IInv'
<1>1. Reported' = Reported /\ ReportedPorts' = ReportedPorts
  BY DEF Reported, ReportedPorts, AtPin
<1>2. \A n : Visited(n)' = Visited(n)
  BY <1>1, Frame DEF Visited
<1> QED
  BY <1>1, <1>2, Frame DEF IInv

LEMMA InitInv == Init => IInv
<1> SUFFICES ASSUME Init PROVE IInv
  OBVIOUS
<1>1. start \in Cone
  BY ConeFacts DEF Init
<1>2. Reported = {} /\ ReportedPorts = {} /\ Pending = {}
  BY DEF Init, Reported, ReportedPorts, Pending, AtPin
<1> QED
  BY <1>1, <1>2 DEF Init, IInv

LEMMA VisitStep ==
  ASSUME IInv, NEW net \in frontier, Visit(net)
  PROVE  IInv'
<1> DEFINE Here == Stops(net) \ Data(net)
           Out == {n \in {net} \ {start} : Base[n] \in Ports /\ Direction[Base[n]] \in {"output", "inout"}}
<1>1. /\ insts' = insts /\ start' = start /\ phase' = phase /\ phase = "trace"
      /\ seen' = seen \cup Fanout(net) /\ captures' = captures \cup Data(net)
      /\ frontier' = (frontier \ {net}) \cup (Fanout(net) \ seen)
  BY DEF Visit, Fresh
<1>2. hits' = hits \cup {Hit(Kind(r), net, r) : r \in Here} \cup {Hit("output port", n, None) : n \in Out}
  <2>1. Here = Readings(insts, net) \ (CombReaders(net) \cup Data(net))
    BY DEF Stops
  <2> QED
    BY <2>1 DEF Visit
<1>3. net \in Cone /\ net \in seen /\ insts \in Netlists
  BY DEF IInv
<1>4. \A r \in Stops(net) : Termination(r) /\ r.inst # 0
  BY <1>3, StopsTerminate
<1>5. Data(net) \subseteq Stops(net)
  BY <1>3, CapturesStop
<1> DEFINE AtPins == {Hit(Kind(r), net, r) : r \in Here}
           AtPorts == {Hit("output port", n, None) : n \in Out}
<1>6. /\ \A h \in AtPins : h.inst # 0
      /\ {[inst |-> h.inst, pin |-> h.pin] : h \in AtPins} = Here
  <2>1. ASSUME NEW r \in Here
        PROVE  /\ Hit(Kind(r), net, r).inst # 0
               /\ [inst |-> Hit(Kind(r), net, r).inst, pin |-> Hit(Kind(r), net, r).pin] = r
    BY <1>4 DEF Hit, Termination
  <2> HIDE DEF Here
  <2> QED
    BY <2>1
<1>7. (\A h \in AtPorts : h.inst = 0) /\ {h.net : h \in AtPorts} = Out
  <2>1. ASSUME NEW n \in Out
        PROVE  Hit("output port", n, None).inst = 0 /\ Hit("output port", n, None).net = n
    BY DEF Hit, None
  <2> HIDE DEF Out
  <2> QED
    BY <2>1
<1>8. AtPin' = AtPin \cup AtPins /\ hits' \ AtPin' = (hits \ AtPin) \cup AtPorts
  <2>1. hits' = hits \cup AtPins \cup AtPorts
    BY <1>2
  <2> HIDE DEF AtPins, AtPorts
  <2> QED
    BY <1>6, <1>7, <2>1 DEF AtPin
<1>9. Reported' = Reported \cup Here /\ ReportedPorts' = ReportedPorts \cup Out
  <2> HIDE DEF AtPins, AtPorts, Here, Out
  <2>1. Reported' = Reported \cup {[inst |-> h.inst, pin |-> h.pin] : h \in AtPins}
    BY <1>8 DEF Reported
  <2>2. ReportedPorts' = ReportedPorts \cup {h.net : h \in AtPorts}
    BY <1>8 DEF ReportedPorts
  <2> QED
    BY <1>6, <1>7, <2>1, <2>2
<1>10. Pending' = Pending \cup Data(net)
  BY <1>1 DEF Pending
<1>11. Reported' \cup Pending' = Reported \cup Pending \cup Stops(net)
  BY <1>5, <1>9, <1>10
<1>12. Out = IF Outward(net) THEN {net} ELSE {}
  BY DirectionsOfPorts DEF Outward
<1>13. ASSUME NEW n \in seen' \ frontier'
       PROVE  Visited(n)'
  <2>1. n \in seen \ frontier \/ n = net
    BY <1>1, <1>3, <1>13
  <2>2. CASE n \in seen \ frontier
    <3>1. Fanout(n) \subseteq seen /\ Stops(n) \subseteq Reported \cup Pending /\ (Outward(n) => n \in ReportedPorts)
      BY <2>2 DEF IInv, Visited
    <3>2. Fanout(n)' \subseteq seen' /\ Stops(n)' \subseteq Reported' \cup Pending'
          /\ (Outward(n)' => n \in ReportedPorts')
      BY <1>1, <1>9, <1>11, <3>1, Frame
    <3> QED
      BY <3>2 DEF Visited
  <2>3. CASE n = net
    <3>1. Fanout(net)' \subseteq seen' /\ Stops(net)' \subseteq Reported' \cup Pending'
          /\ (Outward(net)' => net \in ReportedPorts')
      BY <1>1, <1>9, <1>11, <1>12, Frame
    <3> QED
      BY <2>3, <3>1 DEF Visited
  <2> QED
    BY <2>1, <2>2, <2>3
<1>14. \A r \in Reported' \cup Pending' : Termination(r)'
  BY <1>1, <1>4, <1>11, Frame DEF IInv
<1>15. ReportedPorts' \subseteq ConePorts'
  <2>1. Out \subseteq ConePorts
    BY <1>3, <1>12 DEF Outward, ConePorts
  <2> QED
    BY <1>1, <1>9, <2>1, Frame DEF IInv
<1>16. start' \in seen' /\ frontier' \subseteq seen' /\ seen' \subseteq Cone'
  <2>1. Fanout(net) \subseteq Cone
    BY <1>3, ConeFacts
  <2> QED
    BY <1>1, <2>1, Frame DEF IInv
<1> QED
  BY <1>1, <1>3, <1>13, <1>14, <1>15, <1>16 DEF IInv

LEMMA VerdictStep ==
  ASSUME IInv, Verdict
  PROVE  IInv'
<1>1. /\ insts' = insts /\ start' = start /\ phase' = "trace" /\ phase = "judge"
      /\ seen' = seen /\ frontier' = frontier /\ captures' = captures
  BY DEF Verdict
<1>2. PICK kind, net : hits' = hits \cup {Hit(kind, net, flop)}
  BY DEF Verdict
<1>3. Termination(flop) /\ flop.inst # 0
  BY <1>1, NetlistsOfTheLibrary DEF IInv, Pending, Termination
<1>4. Reported' = Reported \cup {flop} /\ ReportedPorts' = ReportedPorts
  <2>1. Hit(kind, net, flop).inst # 0 /\ [inst |-> Hit(kind, net, flop).inst, pin |-> Hit(kind, net, flop).pin] = flop
    BY <1>3 DEF Hit, Termination
  <2>2. AtPin' = AtPin \cup {Hit(kind, net, flop)} /\ hits' \ AtPin' = hits \ AtPin
    BY <1>2, <2>1 DEF AtPin
  <2> QED
    BY <2>1, <2>2 DEF Reported, ReportedPorts
<1>5. Reported' \cup Pending' = Reported \cup Pending
  BY <1>1, <1>4 DEF Pending
<1>6. \A n : Visited(n)' = Visited(n)
  BY <1>1, <1>4, <1>5, Frame DEF Visited
<1> QED
  BY <1>1, <1>4, <1>5, <1>6, Frame DEF IInv

LEMMA NextInv ==
  ASSUME IInv, [Next]_vars
  PROVE  IInv'
<1>1. CASE Build
  <2>1. /\ UNCHANGED <<insts, start, seen, frontier, hits, captures>> /\ phase = "build"
        /\ phase' \in {"aborted", "done", "trace"} /\ (phase' = "done" => Readings(insts, start) = {})
    BY <1>1 DEF Build
  <2>2. Reported' = Reported /\ ReportedPorts' = ReportedPorts /\ Pending' = Pending
    BY <2>1 DEF Reported, ReportedPorts, AtPin, Pending
  <2>3. \A n : Visited(n)' = Visited(n)
    BY <2>1, <2>2, Frame DEF Visited
  <2>4. CASE phase' # "done"
    BY <2>1, <2>2, <2>4, Aside
  <2>5. CASE phase' = "done"
    <3>1. Fanout(start) = {} /\ Stops(start) = {} /\ ~Outward(start)
      BY <2>1, <2>5 DEF Fanout, CombReaders, Stops, Outward
    <3>2. Visited(start)
      BY <3>1 DEF Visited
    <3>3. seen = {start} /\ captures = {}
      BY <2>1 DEF IInv
    <3> QED
      BY <2>1, <2>2, <2>3, <2>5, <3>2, <3>3, Frame DEF IInv
  <2> QED
    BY <2>4, <2>5
<1>2. ASSUME NEW net \in frontier, Visit(net) PROVE IInv'
  BY <1>2, VisitStep
<1>3. ASSUME NEW r \in captures, Judge(r) PROVE IInv'
  BY <1>3, Aside DEF Judge, Pending
<1>4. ASSUME NEW p \in outs, StartChase(p) PROVE IInv'
  BY <1>4, Aside DEF StartChase, Pending
<1>5. ASSUME NEW i \in DOMAIN insts, CrossBuffer(i) PROVE IInv'
  BY <1>5, Aside DEF CrossBuffer, Pending
<1>6. CASE EndChase
  BY <1>6, Aside DEF EndChase, Pending
<1>7. CASE Verdict
  BY <1>7, VerdictStep
<1>8. CASE Finish
  <2>1. /\ UNCHANGED <<insts, start, seen, frontier, hits, captures>> /\ phase = "trace"
        /\ phase' = "done" /\ frontier = {} /\ captures = {}
    BY <1>8 DEF Finish
  <2>2. Reported' = Reported /\ ReportedPorts' = ReportedPorts /\ Pending' = Pending
    BY <2>1 DEF Reported, ReportedPorts, AtPin, Pending
  <2>3. \A n : Visited(n)' = Visited(n)
    BY <2>1, <2>2, Frame DEF Visited
  <2> QED
    BY <2>1, <2>2, <2>3, Frame DEF IInv
<1>9. CASE UNCHANGED vars
  <2>1. /\ UNCHANGED <<insts, start, seen, frontier, hits, captures, phase>>
    BY <1>9 DEF vars
  <2>2. Reported' = Reported /\ ReportedPorts' = ReportedPorts /\ Pending' = Pending
    BY <1>9 DEF vars, Reported, ReportedPorts, AtPin, Pending
  <2>3. \A n : Visited(n)' = Visited(n)
    BY <2>1, <2>2, Frame DEF Visited
  <2> QED
    BY <2>1, <2>2, <2>3, Frame DEF IInv
<1> QED
  BY <1>1, <1>2, <1>3, <1>4, <1>5, <1>6, <1>7, <1>8, <1>9 DEF Next

(* The trace keeps its inductive invariant on every netlist.               *)
THEOREM Invariance == Spec => []IInv
<1> QED
  BY InitInv, NextInv, PTL DEF Spec

(* When the trace ends, its report is all that the input reaches: what was *)
(* seen is closed under the fanout, hence the whole cone.                  *)
THEOREM Complete == Spec => []TraceComplete
<1>1. ASSUME IInv, phase = "done" PROVE TraceComplete
  <2>1. \A n \in seen : Visited(n)
    BY <1>1 DEF IInv
  <2>2. Pending = {}
    BY <1>1 DEF IInv, Pending
  <2>3. Cone = seen
    <3>1. \A n \in seen : Fanout(n) \subseteq seen
      BY <2>1 DEF Visited
    <3> QED
      BY <1>1, <3>1, ConeFacts DEF IInv
  <2>4. Endpoints \subseteq Reported
    <3>1. ASSUME NEW r \in Endpoints PROVE r \in Reported
      <4>1. PICK n \in Cone : r \in Readers(insts, n) /\ r.inst \notin Comb(insts)
        BY DEF Endpoints
      <4>2. r \in Stops(n)
        BY <1>1, <4>1, StopsAreEnds DEF IInv
      <4> QED
        BY <2>1, <2>2, <2>3, <4>2 DEF Visited
    <3> QED
      BY <3>1
  <2>5. \A r \in Reported \ Endpoints : Macro(insts, r.inst)
    BY <1>1 DEF IInv, Termination
  <2>6. ConePorts = ReportedPorts
    <3>1. ConePorts \subseteq ReportedPorts
      BY <2>1, <2>3 DEF ConePorts, Visited, Outward
    <3> QED
      BY <1>1, <3>1 DEF IInv
  <2> QED
    BY <2>4, <2>5, <2>6 DEF TraceComplete, Reported, ReportedPorts
<1>2. IInv => TraceComplete
  BY <1>1 DEF TraceComplete
<1> QED
  BY <1>2, Invariance, PTL
-----------------------------------------------------------------------------
(***************************************************************************)
(* W1-W4 against what they are for.  A net that is read and does not       *)
(* settle has, since it does not float, a driver with an input that does   *)
(* not settle either; that driver has no state, so the two nets are an     *)
(* edge of the combinational graph.  Finitely many nets cannot go on like  *)
(* that without a cycle.                                                   *)
(***************************************************************************)
LEMMA InDrivers ==
  ASSUME NEW nl, NEW n, NEW d
  PROVE  d \in Drivers(nl, n) <=>
           \E i \in DOMAIN nl : \E p \in Outs(nl, i) :
             nl[i].at[p] = n /\ d = [inst |-> i, pin |-> p]
BY DEF Drivers, Ends

(* Where every net has another above it there is a cycle: a least such set *)
(* also has another below each of its nets.                                *)
LEMMA NoWayUp ==
  ASSUME NEW nl, NEW U, IsFiniteSet(U), U # {},
         \A n \in U : \E m \in U : <<m, n>> \in Edges(nl)
  PROVE  Cyclic(nl)
<1> DEFINE Fed(S) == S # {} /\ \A n \in S : \E m \in S : <<m, n>> \in Edges(nl)
           T == {S \in SUBSET U : Fed(S)}
<1>1. T \subseteq FiniteSubsetsOf(U)
  BY FS_Subset DEF FiniteSubsetsOf
<1>2. U \in T
  OBVIOUS
<1>3. PICK S \in T : \A V \in T : <<V, S>> \notin StrictSubsetOrdering(U)
  <2> HIDE DEF T
  <2> QED
    BY <1>1, <1>2, FS_StrictSubsetOrderingWellFounded, WFMin
<1>4. ASSUME NEW n \in S
      PROVE  \E m \in S : <<n, m>> \in Edges(nl)
  <2> SUFFICES ASSUME \A m \in S : <<n, m>> \notin Edges(nl)
               PROVE  FALSE
    OBVIOUS
  <2> DEFINE V == S \ {n}
  <2>1. \A k \in S : \E m \in V : <<m, k>> \in Edges(nl)
    OBVIOUS
  <2>2. V \in T
    BY <2>1, <1>4
  <2>3. <<V, S>> \in StrictSubsetOrdering(U)
    BY <1>4, <2>2 DEF StrictSubsetOrdering
  <2> QED
    BY <1>3, <2>2, <2>3
<1>5. S \in (SUBSET {e[1] : e \in Edges(nl)}) \ {{}}
  <2>1. ASSUME NEW n \in S PROVE n \in {e[1] : e \in Edges(nl)}
    <3>1. PICK m \in S : <<n, m>> \in Edges(nl)
      BY <1>4
    <3>2. <<n, m>>[1] = n
      OBVIOUS
    <3> QED
      BY <3>1, <3>2
  <2> QED
    BY <2>1
<1> QED
  BY <1>4, <1>5 DEF Cyclic

(* What does not settle waits for something that does not settle.          *)
LEMMA WaitsFor ==
  ASSUME NEW nl, NEW n \in Nets, n \notin Settled(nl), Drivers(nl, n) # {}
  PROVE  \E d \in Drivers(nl, n) : \E m \in On(nl, d.inst, Ins(nl, d.inst)) : m \notin Settled(nl)
<1> DEFINE rest == Nets \ Given(nl)
           ready(k, S) ==
             /\ Drivers(nl, k) # {}
             /\ \A d \in Drivers(nl, k) : On(nl, d.inst, Ins(nl, d.inst)) \subseteq Given(nl) \cup S
           closed(S) == \A m \in rest : ready(m, S) => m \in S
           least == {k \in rest : \A S \in SUBSET rest : closed(S) => k \in S}
<1>1. Settled(nl) = Given(nl) \cup least
  BY DEF Settled
<1>2. n \in rest /\ n \notin least
  BY <1>1
<1>3. ready(n, least) => n \in least
  <2> SUFFICES ASSUME ready(n, least), NEW S \in SUBSET rest, closed(S)
               PROVE  n \in S
    BY <1>2
  <2>1. least \subseteq S
    BY DEF least
  <2> HIDE DEF least
  <2>2. ready(n, S)
    BY <2>1
  <2> QED
    BY <1>2, <2>2
<1> HIDE DEF least
<1>4. ~ready(n, least)
  BY <1>2, <1>3
<1> QED
  BY <1>1, <1>4

(* A net that is not given has no driver with state.                       *)
LEMMA DrivenByLogic ==
  ASSUME NEW nl, NEW n, n \notin Given(nl), NEW d \in Drivers(nl, n)
  PROVE  d.inst \in Comb(nl) /\ n \in On(nl, d.inst, Outs(nl, d.inst))
<1>1. PICK i \in DOMAIN nl : \E p \in Outs(nl, i) : nl[i].at[p] = n /\ d = [inst |-> i, pin |-> p]
  BY InDrivers
<1>2. d.inst = i /\ n \in On(nl, i, Outs(nl, i))
  BY <1>1 DEF On
<1>3. nl[i].cell \notin Stateful
  BY <1>2 DEF Given
<1> QED
  BY <1>2, <1>3 DEF Comb, Sequential, Macro, SEQ, MACRO, Stateful

(* A net on an input pin is a net, and it is read.                         *)
LEMMA InputIsRead ==
  ASSUME NEW nl \in Netlists, NEW i \in DOMAIN nl, NEW m \in On(nl, i, Ins(nl, i))
  PROVE  m \in Nets /\ Readers(nl, m) # {}
<1>1. PICK p \in Ins(nl, i) : nl[i].at[p] = m
  BY DEF On
<1>2. m \in Nets
  BY <1>1, PinsAreOnNets DEF Ins
<1>3. [inst |-> i, pin |-> p] \in Readers(nl, m)
  BY <1>1 DEF Readers, Ends
<1> QED
  BY <1>2, <1>3

(* A netlist in which nothing floats and nothing is cyclic settles.        *)
LEMMA AcyclicSettles ==
  ASSUME NEW nl \in Netlists, Floating(nl) = {}, ~Cyclic(nl)
  PROVE  Evaluable(nl)
<1> DEFINE U == {n \in Nets : Readers(nl, n) # {} /\ n \notin Settled(nl)}
<1>1. ASSUME NEW n \in U
      PROVE  \E m \in U : <<m, n>> \in Edges(nl)
  <2>1. n \notin Given(nl)
    BY DEF Settled
  <2>2. Drivers(nl, n) # {}
    BY <2>1 DEF Floating, Given
  <2>3. PICK d \in Drivers(nl, n) : \E m \in On(nl, d.inst, Ins(nl, d.inst)) : m \notin Settled(nl)
    BY <2>2, WaitsFor
  <2>4. PICK m \in On(nl, d.inst, Ins(nl, d.inst)) : m \notin Settled(nl)
    BY <2>3
  <2>5. d.inst \in Comb(nl) /\ n \in On(nl, d.inst, Outs(nl, d.inst))
    BY <2>1, DrivenByLogic
  <2>6. m \in U
    BY <2>4, <2>5, InputIsRead DEF Comb
  <2>7. <<m, n>> \in Edges(nl)
    BY <2>4, <2>5 DEF Edges, Through
  <2> QED
    BY <2>6, <2>7
<1>2. IsFiniteSet(U)
  BY NetsAreFinite, FS_Subset
<1>3. U = {}
  <2> HIDE DEF U
  <2> QED
    BY <1>1, <1>2, NoWayUp
<1> QED
  BY <1>3 DEF Evaluable

(* A netlist that W1-W4 pass has a value on every net it reads: from the   *)
(* ports and the cells with state, through logic that has all its inputs.  *)
THEOREM PassesEvaluate == Spec => []PassIsEvaluable
<1>1. IInv => PassIsEvaluable
  BY AcyclicSettles DEF IInv, PassIsEvaluable, Passes
<1> QED
  BY <1>1, Invariance, PTL
-----------------------------------------------------------------------------
(***************************************************************************)
(* Walks.  Induction over steps is by least elements; a walk ends since    *)
(* there are fewer nets than steps.                                        *)
(***************************************************************************)
LEMMA LeastNatural ==
  ASSUME NEW S \in SUBSET Nat, S # {}
  PROVE  \E m \in S : \A k \in S : m <= k
<1> DEFINE R == StrictSubsetOrdering(Nat)
           T == {0 .. n : n \in S}
<1>1. T \subseteq FiniteSubsetsOf(Nat) /\ T # {}
  <2>1. \A n \in Nat : IsFiniteSet(0 .. n) /\ 0 .. n \in SUBSET Nat
    BY FS_Interval
  <2>2. QED BY <2>1 DEF FiniteSubsetsOf
<1>2. PICK x \in T : \A y \in T : ~(<<y, x>> \in R)
  <2>1. IsWellFoundedOn(R, FiniteSubsetsOf(Nat))
    BY FS_StrictSubsetOrderingWellFounded
  <2> HIDE DEF R, T
  <2>2. QED BY <1>1, <2>1, WFMin
<1>3. PICK m \in S : x = 0 .. m
  OBVIOUS
<1>4. ASSUME NEW k \in S, k < m PROVE FALSE
  <2>1. k \in Nat /\ m \in Nat
    OBVIOUS
  <2>2. 0 .. k \subseteq 0 .. m /\ m \in 0 .. m /\ m \notin 0 .. k
    BY <1>4, <2>1
  <2>3. <<0 .. k, 0 .. m>> \in R
    <3>1. 0 .. k \in SUBSET Nat /\ 0 .. m \in SUBSET Nat /\ 0 .. k # 0 .. m
      BY <2>1, <2>2
    <3>2. QED BY <2>2, <3>1 DEF StrictSubsetOrdering
  <2>4. 0 .. k \in T
    OBVIOUS
  <2>5. QED BY <1>2, <1>3, <2>3, <2>4
<1>5. QED
  <2>1. \A k \in S : k \in Nat /\ m \in Nat /\ ~(k < m)
    BY <1>4
  <2>2. QED BY <2>1

(* A property that passes from each place of a .. b to the next.           *)
LEMMA UpTo ==
  ASSUME NEW a \in Nat, NEW b \in Nat, NEW S \in SUBSET (a .. b),
         a <= b => a \in S,
         \A k \in a + 1 .. b : k - 1 \in S => k \in S
  PROVE  S = a .. b
<1> DEFINE T == (a .. b) \ S
<1>1. SUFFICES ASSUME T # {} PROVE FALSE
  OBVIOUS
<1>2. PICK m \in T : \A k \in T : m <= k
  <2>1. T \in SUBSET Nat
    OBVIOUS
  <2> HIDE DEF T
  <2>2. QED BY <1>1, <2>1, LeastNatural
<1>3. m \in a + 1 .. b /\ m - 1 \in a .. b
  OBVIOUS
<1>4. m - 1 \in S
  BY <1>2, <1>3
<1>5. QED BY <1>3, <1>4

(* What a function is at a place is given by what it is at the one before.*)
Follows(f, n, v, step) == f[0] = v /\ \A k \in 1 .. n : f[k] = step[k][f[k - 1]]

(* There is a function that starts with v and takes every step.            *)
LEMMA ByRecursion ==
  ASSUME NEW n \in Nat, NEW V, NEW v \in V, NEW step \in [1 .. n -> [V -> V]]
  PROVE  \E f \in [0 .. n -> V] : Follows(f, n, v, step)
<1> DEFINE Good(m, f) == f[0] = v /\ \A k \in 1 .. m : f[k] = step[k][f[k - 1]]
           S == {m \in 0 .. n : \E f \in [0 .. m -> V] : Good(m, f)}
<1>1. 0 \in S
  <2> DEFINE h == [k \in 0 .. 0 |-> v]
  <2>1. Good(0, h) /\ h \in [0 .. 0 -> V]
    OBVIOUS
  <2> HIDE DEF h, Good
  <2>2. \E f \in [0 .. 0 -> V] : Good(0, f)
    BY <2>1
  <2>3. QED BY <2>2
<1>2. ASSUME NEW m \in 1 .. n, m - 1 \in S PROVE m \in S
  <2>1. PICK f \in [0 .. m - 1 -> V] : Good(m - 1, f)
    BY <1>2
  <2> DEFINE g == [k \in 0 .. m |-> IF k = m THEN step[m][f[m - 1]] ELSE f[k]]
  <2>2. g \in [0 .. m -> V]
    <3>1. f[m - 1] \in V
      OBVIOUS
    <3>2. step[m][f[m - 1]] \in V
      BY <3>1
    <3>3. \A k \in 0 .. m : k # m => k \in 0 .. m - 1
      OBVIOUS
    <3>4. QED BY <3>2, <3>3
  <2>3. Good(m, g)
    <3>1. g[0] = v
      BY <2>1
    <3>2. ASSUME NEW k \in 1 .. m PROVE g[k] = step[k][g[k - 1]]
      <4>1. k - 1 \in 0 .. m /\ k - 1 # m /\ g[k - 1] = f[k - 1]
        OBVIOUS
      <4>2. CASE k = m
        <5>1. g[m] = step[m][f[m - 1]] /\ g[m - 1] = f[m - 1]
          BY <4>1, <4>2
        <5> HIDE DEF g
        <5>2. QED BY <4>2, <5>1
      <4>3. CASE k # m
        <5>1. k \in 1 .. m - 1
          BY <4>3
        <5>2. g[k] = f[k]
          BY <4>3
        <5>3. QED BY <2>1, <4>1, <5>1, <5>2
      <4>4. QED BY <4>2, <4>3
    <3>3. QED BY <3>1, <3>2
  <2> HIDE DEF g, Good
  <2>4. \E h \in [0 .. m -> V] : Good(m, h)
    BY <2>2, <2>3
  <2>5. QED BY <2>4
<1>3. S = 0 .. n
  <2> HIDE DEF S
  <2>1. S \in SUBSET (0 .. n)
    BY DEF S
  <2>2. \A m \in 0 + 1 .. n : m - 1 \in S => m \in S
    BY <1>2
  <2>3. QED BY <1>1, <2>1, <2>2, UpTo
<1>4. \E f \in [0 .. n -> V] : Good(n, f)
  <2> HIDE DEF Good
  <2>1. n \in 0 .. n
    OBVIOUS
  <2>2. \A m \in S : \E f \in [0 .. m -> V] : Good(m, f)
    OBVIOUS
  <2> HIDE DEF S
  <2>3. n \in S
    BY <1>3, <2>1
  <2>4. QED BY <2>2, <2>3, Zenon
<1>5. QED BY <1>4 DEF Follows

(* The steps of a walk.                                                    *)
LEMMA AlongSteps ==
  ASSUME NEW up \in SUBSET (Nets \X Nets), NEW net \in Nets
  PROVE  /\ Cardinality(Nets) \in Nat
         /\ Along(up, net) \in [0 .. Cardinality(Nets) -> Nets]
         /\ Along(up, net)[0] = net
         /\ \A k \in 1 .. Cardinality(Nets) :
              Along(up, net)[k] = Higher(up, Along(up, net)[k - 1])
<1> DEFINE N == Cardinality(Nets)
           step == [k \in 1 .. N |-> [n \in Nets |-> Higher(up, n)]]
           def(f) == f = [k \in 0 .. N |-> IF k = 0 THEN net ELSE Higher(up, f[k - 1])]
<1>1. N \in Nat
  BY NetsAreFinite, FS_CardinalityType
<1>2. \A n \in Nets : Higher(up, n) \in Nets
  BY DEF Higher
<1>3. step \in [1 .. N -> [Nets -> Nets]]
  BY <1>2
<1>4. PICK f \in [0 .. N -> Nets] : Follows(f, N, net, step)
  <2> HIDE DEF step, N
  <2> QED
    BY <1>1, <1>3, ByRecursion
<1>5. f[0] = net /\ \A k \in 1 .. N : f[k] = Higher(up, f[k - 1])
  <2>1. ASSUME NEW k \in 1 .. N PROVE f[k] = Higher(up, f[k - 1])
    <3>1. k - 1 \in 0 .. N /\ f[k - 1] \in Nets
      BY <1>1
    <3>2. f[k] = step[k][f[k - 1]]
      BY <1>4 DEF Follows
    <3> QED
      BY <3>1, <3>2
  <2> QED
    BY <1>4, <2>1 DEF Follows
<1>6. def(f)
  <2>1. \A k \in 0 .. N : k # 0 => k \in 1 .. N
    BY <1>1
  <2>2. \A k \in 0 .. N : f[k] = IF k = 0 THEN net ELSE Higher(up, f[k - 1])
    BY <1>5, <2>1
  <2> QED
    BY <2>2
<1>7. def(Along(up, net))
  <2>1. Along(up, net) = CHOOSE g : def(g)
    BY DEF Along
  <2> HIDE DEF def
  <2> QED
    BY <1>6, <2>1
<1> HIDE DEF N
<1>8. \A g : def(g) => g[0] = net /\ \A k \in 1 .. N : g[k] = Higher(up, g[k - 1])
  BY <1>1
<1>9. \A g : def(g) => g \in [0 .. N -> Nets]
  <2> SUFFICES ASSUME NEW g, def(g)
               PROVE  g \in [0 .. N -> Nets]
    OBVIOUS
  <2> DEFINE S == {k \in 0 .. N : g[k] \in Nets}
  <2>1. 0 \in S
    BY <1>1, <1>8
  <2>2. \A k \in 0 + 1 .. N : k - 1 \in S => k \in S
    BY <1>1, <1>2, <1>8
  <2>3. S = 0 .. N
    <3>1. S \in SUBSET (0 .. N)
      OBVIOUS
    <3> HIDE DEF S
    <3> QED
      BY <1>1, <2>1, <2>2, <3>1, UpTo
  <2>4. \A k \in 0 .. N : g[k] \in Nets
    BY <2>3
  <2>5. g = [k \in 0 .. N |-> g[k]]
    OBVIOUS
  <2> QED
    BY <2>4, <2>5
<1> QED
  BY <1>1, <1>7, <1>8, <1>9 DEF N

(* A walk ends, and not before its end.                                    *)
LEMMA WalkStops ==
  ASSUME NEW up \in SUBSET (Nets \X Nets), NEW net \in Nets
  PROVE  /\ Steps(up, net) \in 0 .. Cardinality(Nets)
         /\ \A k \in 0 .. Steps(up, net) - 1 : ~Ended(up, Along(up, net), k)
         /\ Ended(up, Along(up, net), Steps(up, net))
<1> DEFINE N == Cardinality(Nets)
           at == Along(up, net)
           S == {k \in 0 .. N : Ended(up, at, k)}
<1>1. N \in Nat /\ at \in [0 .. N -> Nets]
  BY AlongSteps
<1>2. PICK x \in 0 .. N, y \in 0 .. N : x # y /\ at[x] = at[y]
  <2>1. IsFiniteSet(0 .. N) /\ N < Cardinality(0 .. N)
    BY <1>1, FS_Interval
  <2> HIDE DEF at
  <2> QED
    BY <1>1, <2>1, NetsAreFinite, FS_PigeonHole
<1>3. S # {}
  <2>1. x < y \/ y < x
    BY <1>1, <1>2
  <2>2. x < y => Ended(up, at, y)
    BY <1>1, <1>2 DEF Ended
  <2>3. y < x => Ended(up, at, x)
    BY <1>1, <1>2 DEF Ended
  <2> QED
    BY <2>1, <2>2, <2>3
<1>4. PICK m \in S : \A k \in S : m <= k
  <2>1. S \in SUBSET Nat
    BY <1>1
  <2> HIDE DEF S
  <2> QED
    BY <1>3, <2>1, LeastNatural
<1>5. \A j \in 0 .. m - 1 : ~Ended(up, at, j)
  BY <1>1, <1>4
<1> HIDE DEF at, N
<1>6. \E k \in 0 .. N : Ended(up, at, k) /\ \A j \in 0 .. k - 1 : ~Ended(up, at, j)
  BY <1>4, <1>5
<1> QED
  BY <1>6 DEF Steps, N, at

(* A walk that comes to a net with none above it got there by pairs.       *)
LEMMA WalkedByPairs ==
  ASSUME NEW up \in SUBSET (Nets \X Nets), NEW net \in Nets,
         NEW K, K = Steps(up, net), NEW at, at = Along(up, net)
  PROVE  /\ K \in Nat /\ at[0] = net /\ at[K] = WalkEnd(up, net)
         /\ \A k \in 0 .. K : at[k] \in Nets
         /\ \A k \in 1 .. K : <<at[k - 1], at[k]>> \in up
<1>1. /\ Cardinality(Nets) \in Nat /\ K \in 0 .. Cardinality(Nets)
      /\ at \in [0 .. Cardinality(Nets) -> Nets]
  BY AlongSteps, WalkStops
<1>2. ASSUME NEW k \in 1 .. K
      PROVE  <<at[k - 1], at[k]>> \in up
  <2>1. k - 1 \in 0 .. K - 1 /\ k \in 1 .. Cardinality(Nets)
    BY <1>1
  <2>2. ~Ended(up, at, k - 1)
    BY <2>1, WalkStops
  <2>3. \E e \in up : e[1] = at[k - 1]
    BY <2>2 DEF Ended
  <2>4. PICK e \in up : e[1] = at[k - 1] /\ Higher(up, at[k - 1]) = e[2]
    BY <2>3 DEF Higher
  <2>5. at[k] = Higher(up, at[k - 1])
    BY <2>1, AlongSteps
  <2>6. e = <<e[1], e[2]>>
    OBVIOUS
  <2> QED
    BY <2>4, <2>5, <2>6
<1>3. \A k \in 0 .. K : k \in 0 .. Cardinality(Nets)
  BY <1>1
<1>4. at[0] = net /\ at[K] = WalkEnd(up, net)
  BY AlongSteps DEF WalkEnd
<1> QED
  BY <1>1, <1>2, <1>3, <1>4

(* Reachability: the least set with the nets it starts from.               *)
LEMMA Leads ==
  ASSUME NEW from, NEW edges, NEW L, L = LeadsTo(from, edges)
  PROVE  /\ from \subseteq L
         /\ \A e \in edges : e[1] \in L => e[2] \in L
         /\ \A S : from \subseteq S /\ (\A e \in edges : e[1] \in S => e[2] \in S) => L \subseteq S
         /\ \A n \in L : n \in from \/ \E e \in edges : e[1] \in L /\ e[2] = n
<1> DEFINE met == from \cup {e[2] : e \in edges}
           closed(S) == from \subseteq S /\ \A e \in edges : e[1] \in S => e[2] \in S
           D == {n \in L : n \in from \/ \E e \in edges : e[1] \in L /\ e[2] = n}
<1>1. L = {n \in met : \A S \in SUBSET met : closed(S) => n \in S}
  BY DEF LeadsTo
<1>2. from \subseteq L
  BY <1>1
<1>3. \A e \in edges : e[1] \in L => e[2] \in L
  BY <1>1
<1>4. ASSUME NEW S, closed(S) PROVE L \subseteq S
  <2>1. closed(S \cap met)
    BY <1>4
  <2> QED
    BY <1>1, <2>1
<1>5. closed(D)
  BY <1>2, <1>3
<1>6. L \subseteq D
  <2> HIDE DEF D
  <2> QED
    BY <1>4, <1>5
<1> QED
  BY <1>2, <1>3, <1>4, <1>6

(* What is above a net along edges that lead to it.                        *)
Upward(n, edges) == LeadsTo({n}, {<<e[2], e[1]>> : e \in edges})

(* Leads, along the edges backwards.                                       *)
LEMMA BackLeads ==
  ASSUME NEW n, NEW edges, NEW L, L = Upward(n, edges)
  PROVE  /\ n \in L
         /\ \A e \in edges : e[2] \in L => e[1] \in L
         /\ \A S : n \in S /\ (\A e \in edges : e[2] \in S => e[1] \in S) => L \subseteq S
<1> DEFINE back == {<<e[2], e[1]>> : e \in edges}
<1>1. \A e \in edges : <<e[2], e[1]>> \in back /\ <<e[2], e[1]>>[1] = e[2] /\ <<e[2], e[1]>>[2] = e[1]
  OBVIOUS
<1>2. \A b \in back : \E e \in edges : b[1] = e[2] /\ b[2] = e[1]
  OBVIOUS
<1> HIDE DEF back
<1>3. /\ {n} \subseteq L
      /\ \A b \in back : b[1] \in L => b[2] \in L
      /\ \A S : {n} \subseteq S /\ (\A b \in back : b[1] \in S => b[2] \in S) => L \subseteq S
  BY Leads DEF back, Upward
<1> QED
  BY <1>1, <1>2, <1>3

(* Where every net of a walk has one edge into it, from the net above it,  *)
(* and the last has none, what is above the first is the walk, and the     *)
(* last is its only source.                                                *)
LEMMA SoleSource ==
  ASSUME NEW up \in SUBSET (Nets \X Nets), NEW edges, NEW net \in Nets,
         \A p \in up : <<p[2], p[1]>> \in edges /\ \A e \in edges : e[2] = p[1] => e[1] = p[2],
         \A e \in edges : e[2] # WalkEnd(up, net)
  PROVE  /\ Upward(net, edges) = Walk(up, net)
         /\ Origins(net, edges) = {WalkEnd(up, net)}
<1> DEFINE K == Steps(up, net)
           at == Along(up, net)
           back == {<<e[2], e[1]>> : e \in edges}
           met == {net} \cup {e[2] : e \in back}
           closed(S) == {net} \subseteq S /\ \A e \in back : e[1] \in S => e[2] \in S
           above == LeadsTo({net}, back)
           P == {at[k] : k \in 0 .. K}
<1>1. /\ K \in Nat /\ at[0] = net /\ at[K] = WalkEnd(up, net)
      /\ \A k \in 1 .. K : <<at[k - 1], at[k]>> \in up
  BY WalkedByPairs
<1>2. above = {n \in met : \A S \in SUBSET met : closed(S) => n \in S}
  BY DEF LeadsTo
<1> HIDE DEF K, at
<1>3. \A k \in 1 .. K : <<at[k], at[k - 1]>> \in edges /\ \A e \in edges : e[2] = at[k - 1] => e[1] = at[k]
  <2>1. \A k \in 1 .. K : <<at[k - 1], at[k]>>[1] = at[k - 1] /\ <<at[k - 1], at[k]>>[2] = at[k]
    OBVIOUS
  <2> QED
    BY <1>1, <2>1
<1>4. ASSUME NEW k \in 1 .. K
      PROVE  <<at[k - 1], at[k]>> \in back
  <2> DEFINE e == <<at[k], at[k - 1]>>
  <2>1. e \in edges /\ e[1] = at[k] /\ e[2] = at[k - 1]
    BY <1>3
  <2> HIDE DEF e
  <2> QED
    BY <2>1
<1>5. ASSUME NEW S, closed(S)
      PROVE  P \subseteq S
  <2> DEFINE T == {k \in 0 .. K : at[k] \in S}
  <2>1. 0 \in T
    BY <1>1, <1>5
  <2>2. ASSUME NEW k \in 0 + 1 .. K, k - 1 \in T PROVE k \in T
    <3>1. k \in 1 .. K /\ at[k - 1] \in S
      BY <1>1, <2>2
    <3>2. <<at[k - 1], at[k]>>[1] = at[k - 1] /\ <<at[k - 1], at[k]>>[2] = at[k]
      OBVIOUS
    <3>3. at[k] \in S
      BY <1>4, <1>5, <3>1, <3>2
    <3> QED
      BY <1>1, <3>1, <3>3
  <2>3. T = 0 .. K
    <3>1. T \in SUBSET (0 .. K)
      OBVIOUS
    <3> HIDE DEF T
    <3> QED
      BY <1>1, <2>1, <2>2, <3>1, UpTo
  <2> QED
    BY <2>3
<1>6. closed(met)
  OBVIOUS
<1>7. closed(P)
  <2>1. net \in P
    BY <1>1
  <2>2. ASSUME NEW e \in edges, NEW k \in 0 .. K, e[2] = at[k]
        PROVE  e[1] \in P
    <3>1. k # K
      BY <1>1, <2>2
    <3>2. k + 1 \in 1 .. K /\ k = (k + 1) - 1 /\ k + 1 \in 0 .. K
      BY <1>1, <3>1
    <3> DEFINE j == k + 1
    <3>3. e[2] = at[j - 1]
      BY <2>2, <3>2
    <3> HIDE DEF j
    <3>4. e[1] = at[j]
      BY <1>3, <3>2, <3>3 DEF j
    <3> QED
      BY <3>2, <3>4 DEF j
  <2>3. \A e \in edges : <<e[2], e[1]>>[1] = e[2] /\ <<e[2], e[1]>>[2] = e[1]
    OBVIOUS
  <2>4. \A e \in edges : e[2] \in P => e[1] \in P
    BY <2>2
  <2> HIDE DEF P
  <2> QED
    BY <2>1, <2>3, <2>4
<1>8. P \subseteq met
  BY <1>5, <1>6
<1>9. above = P
  <2> HIDE DEF P, met, closed, back
  <2> QED
    BY <1>2, <1>5, <1>7, <1>8
<1>10. ASSUME NEW k \in 0 .. K, \A e \in edges : e[2] # at[k]
       PROVE  at[k] = WalkEnd(up, net)
  <2>1. CASE k = K
    BY <1>1, <2>1
  <2>2. CASE k # K
    <3>1. k + 1 \in 1 .. K /\ k = (k + 1) - 1
      BY <1>1, <2>2
    <3>2. <<at[k + 1], at[k]>> \in edges /\ <<at[k + 1], at[k]>>[2] = at[k]
      BY <1>3, <3>1
    <3> QED
      BY <1>10, <3>2
  <2> QED
    BY <2>1, <2>2
<1>11. WalkEnd(up, net) \in P
  BY <1>1
<1>12. Origins(net, edges) = {m \in above : \A e \in edges : e[2] # m}
  BY DEF Origins
<1>13. {m \in above : \A e \in edges : e[2] # m} = {WalkEnd(up, net)}
  <2> HIDE DEF above
  <2> QED
    BY <1>9, <1>10, <1>11
<1>14. P = Walk(up, net) /\ above = Upward(net, edges)
  BY DEF Walk, Upward, K, at
<1> HIDE DEF P, above
<1> QED
  BY <1>9, <1>12, <1>13, <1>14
-----------------------------------------------------------------------------
(***************************************************************************)
(* The walks to a clock root.                                              *)
(***************************************************************************)
LEMMA AtEnds ==
  ASSUME NEW nl, NEW n, NEW i, NEW pins
  PROVE  Ends(nl, n, i, pins) # {} <=> n \in On(nl, i, pins)
BY DEF Ends, On

(* A net that is not contended and has a driver that is not tri-state has  *)
(* no other.                                                               *)
LEMMA OneDriver ==
  ASSUME NEW nl, NEW n \in Nets, n \notin Contended(nl),
         NEW i \in DOMAIN nl, nl[i].cell \notin TRI, n \in On(nl, i, Outs(nl, i)),
         NEW j \in DOMAIN nl, n \in On(nl, j, Outs(nl, j))
  PROVE  i = j
<1>1. PICK p \in Outs(nl, i) : nl[i].at[p] = n
  BY DEF On
<1>2. PICK q \in Outs(nl, j) : nl[j].at[q] = n
  BY DEF On
<1> DEFINE d == [inst |-> i, pin |-> p]
           e == [inst |-> j, pin |-> q]
<1>3. d \in Drivers(nl, n) /\ e \in Drivers(nl, n) /\ d.inst = i /\ e.inst = j
  BY <1>1, <1>2, InDrivers
<1> HIDE DEF d, e
<1>4. d = e
  BY <1>3 DEF Contended
<1> QED
  BY <1>3, <1>4

(* The drivers synccheck knows of are drivers.                             *)
LEMMA DrivingIsDriven ==
  ASSUME NEW nl, NEW n, NEW i \in Driving(nl, n)
  PROVE  i \in DOMAIN nl /\ ~Macro(nl, i) /\ ~Phys(nl, i) /\ n \in On(nl, i, Outs(nl, i))
BY AtEnds DEF Driving, OutsOf, Sky, On

(* A net that is driven has a last driver.                                 *)
LEMMA LastDriver ==
  ASSUME NEW nl \in Netlists, NEW n, Driving(nl, n) # {}
  PROVE  Driver(nl, n) \in Driving(nl, n)
<1> DEFINE D == Driving(nl, n)
           S == {k \in 0 .. Len(nl) : \A j \in D : j <= k}
<1>1. Len(nl) \in Nat /\ D \subseteq 1 .. Len(nl)
  BY NetlistsOfTheLibrary DEF Driving
<1>2. Len(nl) \in S /\ S \in SUBSET Nat
  BY <1>1
<1>3. PICK m \in S : \A k \in S : m <= k
  <2> HIDE DEF S
  <2> QED
    BY <1>2, LeastNatural
<1>4. m \in D
  <2> SUFFICES ASSUME m \notin D PROVE FALSE
    OBVIOUS
  <2>1. \A j \in D : j <= m - 1
    BY <1>1
  <2>2. m - 1 \in S
    <3>1. \E j \in D : TRUE
      OBVIOUS
    <3> QED
      BY <1>1, <2>1, <3>1
  <2> QED
    BY <1>1, <1>3, <2>2
<1>5. \E i \in D : \A j \in D : j <= i
  BY <1>4
<1> QED
  BY <1>5 DEF Driver

(* What a clock cell of the library is like: a buffer looks through A, a   *)
(* gate through CLK.                                                       *)
IsGate(nl, i) == nl[i].cell \in GATES
Eye(nl, i) == IF IsGate(nl, i) THEN "CLK" ELSE "A"

LEMMA ClockCell ==
  ASSUME NEW nl \in Netlists, NEW i \in DOMAIN nl, nl[i].cell \in CLKCELL
  PROVE  /\ ~Macro(nl, i) /\ ~Phys(nl, i) /\ nl[i].cell \notin TRI
         /\ OutsOf(nl, i) = Outs(nl, i)
         /\ Pins(nl, i) \cap {"X", "Y", "GCLK"} = Outs(nl, i)
         /\ Pins(nl, i) \cap {"A", "CLK"} = Pins(nl, i) \cap {Eye(nl, i)}
         /\ IsGate(nl, i) => /\ Sequential(nl, i) /\ Outs(nl, i) = {"GCLK"}
                             /\ Pins(nl, i) \cap {"CLK", "CLK_N"} = {"CLK"}
         /\ ~IsGate(nl, i) => /\ Buffer(nl, i) /\ ~Sequential(nl, i)
                              /\ Ins(nl, i) = Pins(nl, i) \cap {"A"}
<1>1. /\ ~Macro(nl, i) /\ ~Phys(nl, i) /\ nl[i].cell \notin TRI
  BY DEF CLKCELL, Macro, Phys, MACRO, PHYS, TRI
<1>2. OutsOf(nl, i) = Outs(nl, i)
  BY <1>1 DEF OutsOf, Sky
<1>3. Outs(nl, i) = Pins(nl, i) \cap OUT_PINS /\ Ins(nl, i) = Pins(nl, i) \cap IN_PINS
  BY <1>1 DEF Outs, Ins
<1>4. CASE IsGate(nl, i)
  <2>1. /\ Pins(nl, i) \cap {"A", "CLK", "CLK_N"} = {"CLK"}
        /\ Pins(nl, i) \cap OUT_PINS = {"GCLK"}
    BY <1>4, ClockGatesOfTheLibrary DEF IsGate
  <2>2. Sequential(nl, i)
    BY <1>4 DEF IsGate, GATES, Sequential, SEQ
  <2>3. "X" \in OUT_PINS /\ "Y" \in OUT_PINS /\ "GCLK" \in OUT_PINS
    BY DEF OUT_PINS
  <2>4. Eye(nl, i) = "CLK"
    BY <1>4 DEF Eye
  <2>5. "X" # "GCLK" /\ "Y" # "GCLK" /\ "A" # "CLK" /\ "CLK_N" # "CLK"
    OBVIOUS
  <2>6. Pins(nl, i) \cap {"X", "Y", "GCLK"} = Outs(nl, i)
    BY <1>3, <2>1, <2>3, <2>5
  <2>7. /\ Pins(nl, i) \cap {"A", "CLK"} = Pins(nl, i) \cap {"CLK"}
        /\ Pins(nl, i) \cap {"CLK", "CLK_N"} = {"CLK"}
    BY <2>1, <2>5
  <2> QED
    BY <1>1, <1>2, <1>3, <1>4, <2>1, <2>2, <2>4, <2>6, <2>7
<1>5. CASE ~IsGate(nl, i)
  <2>1. nl[i].cell \in BUFINV /\ nl[i].cell \notin SEQ
    BY <1>5 DEF IsGate, CLKCELL, BUFINV, GATES, SEQ
  <2>2. /\ Pins(nl, i) \cap IN_PINS \subseteq {"A"}
        /\ Pins(nl, i) \cap OUT_PINS \subseteq {"X", "Y"}
    BY <2>1, ChainCellsOfTheLibrary
  <2>3. Buffer(nl, i) /\ ~Sequential(nl, i)
    BY <2>1 DEF Buffer, Sequential
  <2>4. /\ "A" \in IN_PINS /\ "CLK" \in IN_PINS
        /\ "X" \in OUT_PINS /\ "Y" \in OUT_PINS /\ "GCLK" \in OUT_PINS
    BY DEF OUT_PINS, IN_PINS
  <2>5. "X" # "GCLK" /\ "Y" # "GCLK" /\ "A" # "CLK"
    OBVIOUS
  <2>6. Pins(nl, i) \cap {"X", "Y", "GCLK"} = Outs(nl, i)
    BY <1>3, <2>2, <2>4, <2>5
  <2>7. Ins(nl, i) = Pins(nl, i) \cap {"A"}
    BY <1>3, <2>2, <2>4
  <2>8. Pins(nl, i) \cap {"A", "CLK"} = Pins(nl, i) \cap {"A"}
    BY <2>2, <2>4, <2>5
  <2> QED
    BY <1>1, <1>2, <1>5, <2>3, <2>6, <2>7, <2>8 DEF Eye
<1> QED
  BY <1>4, <1>5

(* The one clock cell at a net that is not contended is what drives it.    *)
LEMMA ClockCellDrives ==
  ASSUME NEW nl \in Netlists, NEW n \in Nets, n \notin Contended(nl),
         NEW i \in ClockCellsAt(nl, n)
  PROVE  /\ i \in DOMAIN nl /\ i \in Nat /\ nl[i].cell \in CLKCELL
         /\ Eye(nl, i) \in Pins(nl, i)
         /\ n \in On(nl, i, Outs(nl, i))
         /\ ClockCellsAt(nl, n) = {i}
         /\ Driving(nl, n) = {i} /\ Driver(nl, n) = i
<1>1. \A j \in ClockCellsAt(nl, n) :
        /\ j \in DOMAIN nl /\ j \in Nat /\ nl[j].cell \in CLKCELL
        /\ Eye(nl, j) \in Pins(nl, j)
        /\ nl[j].cell \notin TRI
        /\ n \in On(nl, j, Outs(nl, j))
        /\ OutsOf(nl, j) = Outs(nl, j)
  <2> SUFFICES ASSUME NEW j \in ClockCellsAt(nl, n)
               PROVE  /\ j \in DOMAIN nl /\ j \in Nat /\ nl[j].cell \in CLKCELL
                      /\ Eye(nl, j) \in Pins(nl, j)
                      /\ nl[j].cell \notin TRI
                      /\ n \in On(nl, j, Outs(nl, j))
                      /\ OutsOf(nl, j) = Outs(nl, j)
    OBVIOUS
  <2>1. /\ j \in DOMAIN nl /\ nl[j].cell \in CLKCELL
        /\ Pins(nl, j) \cap {"A", "CLK"} # {}
        /\ n \in On(nl, j, Pins(nl, j) \cap {"X", "Y", "GCLK"})
    BY DEF ClockCellsAt
  <2>2. j \in Nat
    BY <2>1, NetlistsOfTheLibrary
  <2>3. /\ nl[j].cell \notin TRI /\ OutsOf(nl, j) = Outs(nl, j)
        /\ Pins(nl, j) \cap {"X", "Y", "GCLK"} = Outs(nl, j)
        /\ Pins(nl, j) \cap {"A", "CLK"} = Pins(nl, j) \cap {Eye(nl, j)}
    BY <2>1, ClockCell
  <2>4. Eye(nl, j) \in Pins(nl, j)
    BY <2>1, <2>3
  <2> QED
    BY <2>1, <2>2, <2>3, <2>4
<1>2. ClockCellsAt(nl, n) = {i}
  BY <1>1, OneDriver
<1>3. i \in Driving(nl, n)
  BY <1>1, AtEnds DEF Driving
<1>4. \A j \in Driving(nl, n) : j = i
  BY <1>1, DrivingIsDriven, OneDriver
<1>5. Driving(nl, n) = {i}
  BY <1>3, <1>4
<1>6. Driver(nl, n) = i
  <2>1. i <= i
    BY <1>1
  <2>2. \A k : (k \in {i} /\ \A j \in {i} : j <= k) <=> k = i
    BY <2>1
  <2> QED
    BY <1>5, <2>2 DEF Driver
<1> QED
  BY <1>1, <1>2, <1>5, <1>6

(* A net with a gate at it is told to be a gate's.                         *)
LEMMA GateKind ==
  ASSUME NEW nl \in Netlists, NEW n \in Nets, n \notin Contended(nl),
         NEW i \in ClockCellsAt(nl, n), IsGate(nl, i)
  PROVE  DriverKind(nl, n) = "clockgate"
<1>1. /\ nl[i].cell \in CLKCELL /\ Driving(nl, n) = {i} /\ Driver(nl, n) = i
  BY ClockCellDrives
<1>2. nl[i].cell # "conb" /\ nl[i].cell \in GATES /\ Driving(nl, n) # {}
  BY <1>1 DEF CLKCELL, IsGate
<1>3. nl[i].cell \notin SEQ \ GATES /\ ~Buffer(nl, i)
  BY <1>2 DEF Buffer, GATES, SEQ
<1> QED
  BY <1>1, <1>2, <1>3, Zenon DEF DriverKind

(* Where both walks go on to.                                              *)
LEMMA OnwardOfClockCell ==
  ASSUME NEW nl \in Netlists, NEW n \in Nets, n \notin Contended(nl),
         NEW i \in ClockCellsAt(nl, n)
  PROVE  Onward(nl, n) = {nl[i].at[Eye(nl, i)]}
<1>1. /\ i \in DOMAIN nl /\ nl[i].cell \in CLKCELL /\ Eye(nl, i) \in Pins(nl, i)
      /\ Driving(nl, n) = {i} /\ Driver(nl, n) = i
  BY ClockCellDrives
<1>2. nl[i].cell # "conb"
  BY <1>1 DEF CLKCELL
<1>3. Driving(nl, n) # {}
  BY <1>1
<1>4. CASE IsGate(nl, i)
  <2>1. DriverKind(nl, n) = "clockgate"
    BY <1>4, GateKind
  <2>2. Onward(nl, n) = On(nl, i, Pins(nl, i) \cap {"CLK", "CLK_N"})
    <3>1. "clockgate" # "bufinv"
      OBVIOUS
    <3> QED
      BY <1>1, <2>1, <3>1, Zenon DEF Onward
  <2>3. Pins(nl, i) \cap {"CLK", "CLK_N"} = {"CLK"} /\ Eye(nl, i) = "CLK"
    BY <1>1, <1>4, ClockCell DEF Eye
  <2> QED
    BY <2>2, <2>3 DEF On
<1>5. CASE ~IsGate(nl, i)
  <2>1. Buffer(nl, i) /\ ~Sequential(nl, i) /\ Ins(nl, i) = Pins(nl, i) \cap {"A"} /\ Eye(nl, i) = "A"
    BY <1>1, <1>5, ClockCell DEF Eye
  <2>2. Ins(nl, i) = {"A"}
    BY <1>1, <2>1
  <2>3. Cardinality(Ins(nl, i)) = 1
    BY <2>2, FS_Singleton
  <2>4. nl[i].cell \notin GATES /\ nl[i].cell \notin SEQ \ GATES
    BY <1>5, <2>1 DEF IsGate, Sequential
  <2>5. DriverKind(nl, n) = "bufinv"
    BY <1>1, <1>2, <1>3, <2>1, <2>3, <2>4, Zenon DEF DriverKind
  <2>6. Onward(nl, n) = On(nl, i, Ins(nl, i))
    BY <1>1, <2>5, Zenon DEF Onward
  <2> QED
    BY <2>1, <2>2, <2>6 DEF On
<1> QED
  BY <1>4, <1>5

(* Where there is no clock cell, there is nowhere to go on to.             *)
LEMMA OnwardOfOthers ==
  ASSUME NEW nl \in Netlists, NEW n \in Nets, ClockCellsAt(nl, n) = {}
  PROVE  Onward(nl, n) = {}
<1> DEFINE i == Driver(nl, n)
<1>1. DriverKind(nl, n) = "bufinv" =>
        Driving(nl, n) # {} /\ Buffer(nl, i) /\ Cardinality(Ins(nl, i)) = 1
  BY Zenon DEF DriverKind
<1>2. DriverKind(nl, n) = "clockgate" => Driving(nl, n) # {} /\ nl[i].cell \in GATES
  BY Zenon DEF DriverKind
<1>3. ASSUME Driving(nl, n) # {}
      PROVE  i \in DOMAIN nl /\ n \in On(nl, i, Outs(nl, i))
  BY <1>3, LastDriver, DrivingIsDriven
<1>4. DriverKind(nl, n) # "bufinv"
  <2> SUFFICES ASSUME DriverKind(nl, n) = "bufinv" PROVE FALSE
    OBVIOUS
  <2>1. nl[i].cell \in CLKCELL /\ ~IsGate(nl, i)
    BY <1>1 DEF Buffer, BUFINV, SEQ, CLKCELL, IsGate, GATES
  <2>2. Ins(nl, i) = Pins(nl, i) \cap {"A"} /\ Pins(nl, i) \cap {"X", "Y", "GCLK"} = Outs(nl, i)
    BY <1>1, <1>3, <2>1, ClockCell
  <2>3. Ins(nl, i) # {}
    BY <1>1, FS_EmptySet
  <2> QED
    BY <1>1, <1>3, <2>1, <2>2, <2>3 DEF ClockCellsAt
<1>5. DriverKind(nl, n) # "clockgate"
  <2> SUFFICES ASSUME DriverKind(nl, n) = "clockgate" PROVE FALSE
    OBVIOUS
  <2>1. nl[i].cell \in CLKCELL /\ IsGate(nl, i)
    BY <1>2 DEF CLKCELL, IsGate, GATES
  <2>2. /\ Pins(nl, i) \cap {"CLK", "CLK_N"} = {"CLK"}
        /\ Pins(nl, i) \cap {"X", "Y", "GCLK"} = Outs(nl, i)
    BY <1>2, <1>3, <2>1, ClockCell
  <2> QED
    BY <1>2, <1>3, <2>1, <2>2 DEF ClockCellsAt
<1> QED
  BY <1>4, <1>5, Zenon DEF Onward

(* A pair of the walks.                                                    *)
UpPair(nl, n, i) == <<n, nl[i].at[Eye(nl, i)]>>

LEMMA CensusPairs ==
  ASSUME NEW nl \in Netlists, Contended(nl) = {}
  PROVE  /\ \A p \in CensusUp(nl) : \E n \in Nets : \E i \in ClockCellsAt(nl, n) : p = UpPair(nl, n, i)
         /\ \A n \in Nets : \A i \in ClockCellsAt(nl, n) : UpPair(nl, n, i) \in CensusUp(nl)
<1> DEFINE last(n) == CHOOSE j \in ClockCellsAt(nl, n) : \A k \in ClockCellsAt(nl, n) : k <= j
           eye(n) == IF "A" \in Pins(nl, last(n)) THEN "A" ELSE "CLK"
           pair(n) == <<n, nl[last(n)].at[eye(n)]>>
<1>1. ASSUME NEW n \in Nets, NEW i \in ClockCellsAt(nl, n)
      PROVE  pair(n) = UpPair(nl, n, i)
  <2>1. /\ i \in DOMAIN nl /\ i \in Nat /\ nl[i].cell \in CLKCELL
        /\ Eye(nl, i) \in Pins(nl, i) /\ ClockCellsAt(nl, n) = {i}
    BY <1>1, ClockCellDrives
  <2>2. last(n) = i
    <3>1. i <= i
      BY <2>1
    <3>2. \A k : (k \in {i} /\ \A j \in {i} : j <= k) <=> k = i
      BY <3>1
    <3> QED
      BY <2>1, <3>2
  <2>3. Pins(nl, i) \cap {"A", "CLK"} = Pins(nl, i) \cap {Eye(nl, i)}
    BY <2>1, ClockCell
  <2>4. Eye(nl, i) \in {"A", "CLK"} /\ "A" # "CLK"
    BY DEF Eye
  <2>5. (IF "A" \in Pins(nl, i) THEN "A" ELSE "CLK") = Eye(nl, i)
    BY <2>1, <2>3, <2>4
  <2> HIDE DEF last
  <2> QED
    BY <2>2, <2>5 DEF UpPair
<1>2. CensusUp(nl) = {pair(n) : n \in {m \in Nets : ClockCellsAt(nl, m) # {}}}
  BY DEF CensusUp
<1> HIDE DEF pair
<1> QED
  BY <1>1, <1>2

LEMMA TracePairs ==
  ASSUME NEW nl \in Netlists, Contended(nl) = {}
  PROVE  /\ \A p \in TraceUp(nl) : \E n \in Nets : \E i \in ClockCellsAt(nl, n) : p = UpPair(nl, n, i)
         /\ \A n \in Nets : \A i \in ClockCellsAt(nl, n) : UpPair(nl, n, i) \in TraceUp(nl)
<1> DEFINE pair(n) == <<n, CHOOSE m \in Onward(nl, n) : TRUE>>
<1>1. ASSUME NEW n \in Nets, NEW i \in ClockCellsAt(nl, n)
      PROVE  pair(n) = UpPair(nl, n, i) /\ Onward(nl, n) # {}
  <2>1. Onward(nl, n) = {nl[i].at[Eye(nl, i)]}
    BY <1>1, OnwardOfClockCell
  <2> QED
    BY <2>1 DEF UpPair
<1>2. TraceUp(nl) = {pair(n) : n \in {m \in Nets : Onward(nl, m) # {}}}
  BY DEF TraceUp
<1>3. \A n \in Nets : Onward(nl, n) # {} => \E i : i \in ClockCellsAt(nl, n)
  BY OnwardOfOthers
<1> HIDE DEF pair
<1> QED
  BY <1>1, <1>2, <1>3

(* The two walks go the same ways.                                         *)
LEMMA SameWays ==
  ASSUME NEW nl \in Netlists, Contended(nl) = {}
  PROVE  CensusUp(nl) = TraceUp(nl) /\ CensusUp(nl) \in SUBSET (Nets \X Nets)
<1>1. CensusUp(nl) \subseteq TraceUp(nl)
  BY CensusPairs, TracePairs
<1>2. TraceUp(nl) \subseteq CensusUp(nl)
  BY CensusPairs, TracePairs
<1>3. ASSUME NEW n \in Nets, NEW i \in ClockCellsAt(nl, n)
      PROVE  UpPair(nl, n, i) \in Nets \X Nets
  <2>1. i \in DOMAIN nl /\ Eye(nl, i) \in Pins(nl, i)
    BY <1>3, ClockCellDrives
  <2> QED
    BY <2>1, PinsAreOnNets DEF UpPair
<1>4. CensusUp(nl) \subseteq Nets \X Nets
  BY <1>3, CensusPairs
<1> QED
  BY <1>1, <1>2, <1>4

(* The walks of the two tools end at the same net, on every netlist.       *)
THEOREM WalksAgree == Spec => []WalkersAgree
<1>1. IInv => WalkersAgree
  BY SameWays DEF IInv, WalkersAgree, Passes, CensusEnd, TraceEnd
<1> QED
  BY <1>1, Invariance, PTL

(* What carries a clock: the combinational graph, and the clock gates.     *)
Carriers(nl) == Edges(nl) \cup GateEdges(nl)

LEMMA InCarriers ==
  ASSUME NEW nl, NEW e \in Carriers(nl)
  PROVE  \/ \E i \in Comb(nl) : e[1] \in On(nl, i, Ins(nl, i)) /\ e[2] \in On(nl, i, Outs(nl, i))
         \/ \E i \in DOMAIN nl : /\ nl[i].cell \in GATES
                                 /\ e[1] = nl[i].at["CLK"] /\ e[2] = nl[i].at["GCLK"]
<1>1. CASE e \in Edges(nl)
  BY <1>1 DEF Edges, Through
<1>2. CASE e \in GateEdges(nl)
  <2>1. PICK i \in DOMAIN nl : nl[i].cell \in GATES /\ e = <<nl[i].at["CLK"], nl[i].at["GCLK"]>>
    BY <1>2 DEF GateEdges
  <2> QED
    BY <2>1
<1> QED
  BY <1>1, <1>2 DEF Carriers

LEMMA GateOut ==
  ASSUME NEW nl \in Netlists, NEW i \in DOMAIN nl, nl[i].cell \in GATES
  PROVE  /\ nl[i].cell \in CLKCELL /\ IsGate(nl, i)
         /\ nl[i].at["GCLK"] \in On(nl, i, Outs(nl, i))
<1>1. nl[i].cell \in CLKCELL /\ IsGate(nl, i)
  BY DEF GATES, CLKCELL, IsGate
<1>2. Outs(nl, i) = {"GCLK"}
  BY <1>1, ClockCell
<1> QED
  BY <1>1, <1>2 DEF On

(* Nothing carries a clock to a net that nothing drives.                   *)
LEMMA NothingCarries ==
  ASSUME NEW nl \in Netlists, NEW n, Driving(nl, n) = {}, NEW e \in Carriers(nl)
  PROVE  e[2] # n
<1>1. ASSUME NEW i \in Comb(nl), n \in On(nl, i, Outs(nl, i)) PROVE FALSE
  <2>1. i \in DOMAIN nl /\ ~Macro(nl, i) /\ ~Phys(nl, i)
    BY <1>1, NetlistsOfTheLibrary DEF Comb, On
  <2> QED
    BY <1>1, <2>1, AtEnds DEF Driving, OutsOf, Sky
<1>2. ASSUME NEW i \in DOMAIN nl, nl[i].cell \in GATES, n = nl[i].at["GCLK"] PROVE FALSE
  <2>1. nl[i].cell \in CLKCELL /\ n \in On(nl, i, Outs(nl, i))
    BY <1>2, GateOut
  <2>2. OutsOf(nl, i) = Outs(nl, i)
    BY <2>1, ClockCell
  <2> QED
    BY <2>1, <2>2, AtEnds DEF Driving
<1> QED
  BY <1>1, <1>2, InCarriers

(* What carries a clock to a net with a clock cell is that cell alone.     *)
LEMMA PairCarries ==
  ASSUME NEW nl \in Netlists, Contended(nl) = {}, NEW n \in Nets, NEW i \in ClockCellsAt(nl, n)
  PROVE  /\ <<nl[i].at[Eye(nl, i)], n>> \in Carriers(nl)
         /\ \A e \in Carriers(nl) : e[2] = n => e[1] = nl[i].at[Eye(nl, i)]
<1>1. /\ i \in DOMAIN nl /\ nl[i].cell \in CLKCELL /\ Eye(nl, i) \in Pins(nl, i)
      /\ n \in On(nl, i, Outs(nl, i)) /\ nl[i].cell \notin TRI
  BY ClockCellDrives, ClockCell
<1>2. \A j \in DOMAIN nl : n \in On(nl, j, Outs(nl, j)) => j = i
  BY <1>1, OneDriver
<1>3. CASE IsGate(nl, i)
  <2>1. Eye(nl, i) = "CLK" /\ nl[i].cell \in GATES
    BY <1>3 DEF Eye, IsGate
  <2>2. Outs(nl, i) = {"GCLK"} /\ Sequential(nl, i)
    BY <1>1, <1>3, ClockCell
  <2>3. n = nl[i].at["GCLK"]
    BY <1>1, <2>2 DEF On
  <2>4. <<nl[i].at["CLK"], n>> \in Carriers(nl)
    BY <1>1, <2>1, <2>3 DEF Carriers, GateEdges
  <2>5. ASSUME NEW e \in Carriers(nl), e[2] = n PROVE e[1] = nl[i].at["CLK"]
    <3>1. i \notin Comb(nl)
      BY <2>2 DEF Comb
    <3>2. ~\E j \in Comb(nl) : n \in On(nl, j, Outs(nl, j))
      BY <1>2, <3>1 DEF Comb
    <3>3. PICK j \in DOMAIN nl : /\ nl[j].cell \in GATES
                                 /\ e[1] = nl[j].at["CLK"] /\ e[2] = nl[j].at["GCLK"]
      BY <2>5, <3>2, InCarriers
    <3>4. j = i
      BY <1>2, <2>5, <3>3, GateOut
    <3> QED
      BY <3>3, <3>4
  <2> QED
    BY <2>1, <2>4, <2>5
<1>4. CASE ~IsGate(nl, i)
  <2>1. Eye(nl, i) = "A" /\ nl[i].cell \notin GATES
    BY <1>4 DEF Eye, IsGate
  <2>2. Ins(nl, i) = {"A"} /\ i \in Comb(nl)
    BY <1>1, <1>4, <2>1, ClockCell DEF Comb
  <2>3. On(nl, i, Ins(nl, i)) = {nl[i].at["A"]}
    BY <2>2 DEF On
  <2>4. <<nl[i].at["A"], n>> \in Carriers(nl)
    <3>1. <<nl[i].at["A"], n>> \in On(nl, i, Ins(nl, i)) \X On(nl, i, Outs(nl, i))
      BY <1>1, <2>3
    <3>2. <<nl[i].at["A"], n>> \in Through(nl, Comb(nl))
      BY <2>2, <3>1, Zenon DEF Through
    <3> QED
      BY <3>2 DEF Carriers, Edges
  <2>5. ASSUME NEW e \in Carriers(nl), e[2] = n PROVE e[1] = nl[i].at["A"]
    <3>1. ~\E j \in DOMAIN nl : nl[j].cell \in GATES /\ n = nl[j].at["GCLK"]
      BY <1>2, <2>1, GateOut
    <3>2. PICK j \in Comb(nl) : e[1] \in On(nl, j, Ins(nl, j)) /\ n \in On(nl, j, Outs(nl, j))
      BY <2>5, <3>1, InCarriers
    <3>3. j = i
      BY <1>2, <3>2 DEF Comb
    <3> QED
      BY <2>3, <3>2, <3>3
  <2> QED
    BY <2>1, <2>4, <2>5
<1> QED
  BY <1>3, <1>4

(* A walk that ends at a net without a driver has found the only source.   *)
LEMMA SourceOfWalk ==
  ASSUME NEW nl \in Netlists, Contended(nl) = {}, NEW n \in Nets,
         Driving(nl, CensusEnd(nl, n)) = {}
  PROVE  /\ Upward(n, Carriers(nl)) = Walk(CensusUp(nl), n)
         /\ Sources(nl, n) = {CensusEnd(nl, n)}
<1> DEFINE up == CensusUp(nl)
           edges == Carriers(nl)
<1>1. up \in SUBSET (Nets \X Nets)
  BY SameWays
<1>2. ASSUME NEW p \in up
      PROVE  <<p[2], p[1]>> \in edges /\ \A e \in edges : e[2] = p[1] => e[1] = p[2]
  <2>1. PICK m \in Nets : \E i \in ClockCellsAt(nl, m) : p = UpPair(nl, m, i)
    BY <1>2, CensusPairs
  <2>2. PICK i \in ClockCellsAt(nl, m) : p = UpPair(nl, m, i)
    BY <2>1
  <2>3. p[1] = m /\ p[2] = nl[i].at[Eye(nl, i)]
    BY <2>2 DEF UpPair
  <2> QED
    BY <2>3, PairCarries
<1>3. \A e \in edges : e[2] # WalkEnd(up, n)
  BY NothingCarries DEF CensusEnd
<1>4. Sources(nl, n) = Origins(n, edges)
  BY DEF Sources, Carriers
<1> HIDE DEF up, edges
<1>5. /\ Upward(n, edges) = Walk(up, n)
      /\ Origins(n, edges) = {WalkEnd(up, n)}
  BY <1>1, <1>2, <1>3, SoleSource
<1> QED
  BY <1>4, <1>5 DEF CensusEnd, up, edges

(* When no gate is on the walk, the source is the same without gates.      *)
LEMMA UngatedWalk ==
  ASSUME NEW nl \in Netlists, Contended(nl) = {}, NEW n \in Nets,
         Driving(nl, CensusEnd(nl, n)) = {},
         \A m \in Walk(CensusUp(nl), n) : \A i \in ClockCellsAt(nl, m) : ~IsGate(nl, i)
  PROVE  Ungated(nl, n) = {CensusEnd(nl, n)}
<1> DEFINE L == Upward(n, Carriers(nl))
           M == Upward(n, Edges(nl))
<1>1. L = Walk(CensusUp(nl), n) /\ Sources(nl, n) = {CensusEnd(nl, n)}
  BY SourceOfWalk
<1>2. /\ n \in L /\ \A e \in Carriers(nl) : e[2] \in L => e[1] \in L
      /\ \A S : n \in S /\ (\A e \in Carriers(nl) : e[2] \in S => e[1] \in S) => L \subseteq S
  BY BackLeads
<1>3. /\ n \in M /\ \A e \in Edges(nl) : e[2] \in M => e[1] \in M
      /\ \A S : n \in S /\ (\A e \in Edges(nl) : e[2] \in S => e[1] \in S) => M \subseteq S
  BY BackLeads
<1>4. Origins(n, Edges(nl)) = {m \in M : \A e \in Edges(nl) : e[2] # m}
  BY DEF Origins, Upward
<1>5. Origins(n, Carriers(nl)) = {m \in L : \A e \in Carriers(nl) : e[2] # m}
  BY DEF Origins, Upward
<1> HIDE DEF L, M
<1>6. Edges(nl) \subseteq Carriers(nl)
  BY DEF Carriers
<1>7. ASSUME NEW e \in Carriers(nl), e[2] \in L PROVE e \in Edges(nl)
  <2> SUFFICES ASSUME e \in GateEdges(nl) PROVE FALSE
    BY <1>7 DEF Carriers
  <2>1. PICK i \in DOMAIN nl : nl[i].cell \in GATES /\ e = <<nl[i].at["CLK"], nl[i].at["GCLK"]>>
    BY DEF GateEdges
  <2>2. e[2] = nl[i].at["GCLK"]
    BY <2>1
  <2>3. /\ Pins(nl, i) \cap {"A", "CLK", "CLK_N"} = {"CLK"}
        /\ Pins(nl, i) \cap OUT_PINS = {"GCLK"}
    BY <2>1, ClockGatesOfTheLibrary
  <2>4. "CLK" \in Pins(nl, i) /\ "GCLK" \in Pins(nl, i)
    BY <2>3
  <2>5. nl[i].cell \in CLKCELL /\ IsGate(nl, i)
    BY <2>1, GateOut
  <2>6. e[2] \in On(nl, i, Pins(nl, i) \cap {"X", "Y", "GCLK"})
    BY <2>2, <2>4 DEF On
  <2>7. i \in ClockCellsAt(nl, e[2])
    BY <2>4, <2>5, <2>6 DEF ClockCellsAt
  <2> QED
    BY <1>1, <1>7, <2>5, <2>7
<1>8. M \subseteq L
  BY <1>2, <1>3, <1>6
<1>9. L \subseteq M
  BY <1>2, <1>3, <1>7, <1>8
<1>10. Origins(n, Edges(nl)) = Origins(n, Carriers(nl))
  BY <1>4, <1>5, <1>6, <1>7, <1>8, <1>9
<1> QED
  BY <1>1, <1>10 DEF Ungated, Sources, Carriers

LEMMA EndsOnNets ==
  ASSUME NEW nl \in Netlists, Contended(nl) = {}, NEW n \in Nets
  PROVE  CensusEnd(nl, n) \in Nets /\ Walk(CensusUp(nl), n) \subseteq Nets
<1> DEFINE up == CensusUp(nl)
<1>1. up \in SUBSET (Nets \X Nets)
  BY SameWays
<1> HIDE DEF up
<1>2. WalkEnd(up, n) \in Nets /\ Walk(up, n) \subseteq Nets
  <2> DEFINE K == Steps(up, n)
  <2>1. K \in Nat /\ K \in 0 .. K
    BY <1>1, WalkedByPairs
  <2> QED
    BY <1>1, <2>1, WalkedByPairs DEF Walk
<1> QED
  BY <1>2 DEF CensusEnd, up

LEMMA ClockPinsOnNets ==
  ASSUME NEW nl \in Netlists
  PROVE  Clocked(nl) \subseteq Nets /\ Sinks(nl) \subseteq Nets
<1>1. ASSUME NEW i \in DOMAIN nl, nl[i].clocks # <<>>
      PROVE  nl[i].at[Head(nl[i].clocks)] \in Nets
  <2>1. nl[i].clocks \in Seq(CLOCK_PINS)
    BY ClockPinsAreListed
  <2>2. 1 \in DOMAIN nl[i].clocks /\ Head(nl[i].clocks) = nl[i].clocks[1]
    BY <1>1, <2>1
  <2>3. Head(nl[i].clocks) \in Pins(nl, i)
    BY <2>2, ClockPinsAreListed
  <2> QED
    BY <2>3, PinsAreOnNets
<1> QED
  BY <1>1, PinsAreOnNets DEF Clocked, Sinks, On

(* What the census and the survey report as the clock of a pin is all that *)
(* reaches it, through whatever cells, on every netlist that passes and    *)
(* drives none of its inputs, with or without clock gates; what is listed  *)
(* without an exception is behind no gate.                                 *)
THEOREM ClocksAreSole == Spec => []ReportedClocksAreSole
<1>1. ASSUME NEW nl \in Netlists, Contended(nl) = {}, InputsUndriven(nl), CensusPasses(nl),
             NEW n \in Clocked(nl)
      PROVE  \E s \in Nets : Sources(nl, n) = {s} /\ Base[s] \in CLOCK_PORTS \cap Declared
  <2> DEFINE s == CensusEnd(nl, n)
  <2>1. n \in Nets /\ s \in Nets
    BY <1>1, ClockPinsOnNets, EndsOnNets
  <2>2. Base[s] \in CLOCK_PORTS \cap Declared
    BY <1>1 DEF CensusPasses, CensusRoots
  <2>3. Drivers(nl, s) = {}
    BY <1>1, <2>1, <2>2, ClockPortsAreInputs DEF InputsUndriven
  <2>4. Driving(nl, s) = {}
    <3>1. \A i \in DOMAIN nl : Ends(nl, s, i, Outs(nl, i)) = {}
      BY <2>3 DEF Drivers
    <3>2. \A i \in Driving(nl, s) : FALSE
      BY <3>1, DrivingIsDriven, AtEnds
    <3> QED
      BY <3>2
  <2>5. Sources(nl, n) = {s}
    BY <1>1, <2>1, <2>4, SourceOfWalk
  <2> QED
    BY <2>1, <2>2, <2>5
<1>2. ASSUME NEW nl \in Netlists, Contended(nl) = {}, NEW n \in Sinks(nl),
             Root(nl, n).kind = "port/floating", Exceptions(nl, n) = {}
      PROVE  Sources(nl, n) = {Root(nl, n).name} /\ Ungated(nl, n) = {Root(nl, n).name}
  <2> DEFINE s == TraceEnd(nl, n)
             kind == IF Onward(nl, s) # {} THEN "cycle" ELSE DriverKind(nl, s)
  <2>1. n \in Nets /\ s = CensusEnd(nl, n)
    BY <1>2, ClockPinsOnNets, SameWays DEF TraceEnd, CensusEnd
  <2>2. Root(nl, n).kind = kind /\ (kind # "macro" => Root(nl, n).name = s)
    BY DEF Root
  <2>3. DriverKind(nl, s) = "port/floating"
    <3>1. "cycle" # "port/floating"
      OBVIOUS
    <3> QED
      BY <1>2, <2>2, <3>1
  <2>4. Driving(nl, s) = {}
    BY <2>3, Zenon DEF DriverKind
  <2>5. kind # "macro"
    BY <1>2, <2>2
  <2>6. Walk(TraceUp(nl), n) = Walk(CensusUp(nl), n) /\ Walk(CensusUp(nl), n) \subseteq Nets
    BY <1>2, <2>1, SameWays, EndsOnNets
  <2>7. \A m \in Walk(CensusUp(nl), n) : \A i \in ClockCellsAt(nl, m) : ~IsGate(nl, i)
    BY <1>2, <2>6, GateKind DEF Exceptions
  <2> HIDE DEF s, kind
  <2> QED
    BY <1>2, <2>1, <2>2, <2>4, <2>5, <2>7, SourceOfWalk, UngatedWalk
<1>3. IInv => ReportedClocksAreSole
  BY <1>1, <1>2 DEF IInv, ReportedClocksAreSole, Passes
<1> QED
  BY <1>3, Invariance, PTL
-----------------------------------------------------------------------------
(***************************************************************************)
(* The verdict on a capture.  The line of a net is what buffers carry from *)
(* it; the chase of an output is at a net of the line of that output, and  *)
(* has passed all of it that is not of the line of where it is.            *)
(***************************************************************************)
Carried == Through(insts, Buffers(insts))
Line(n) == LeadsTo({n}, Carried)

(* What a buffer of the library is like.                                   *)
LEMMA BufferCell ==
  ASSUME insts \in Netlists, NEW i \in Buffers(insts)
  PROVE  /\ i \in DOMAIN insts /\ ~Macro(insts, i) /\ ~Phys(insts, i) /\ ~Sequential(insts, i)
         /\ Buffer(insts, i) /\ insts[i].cell \notin TRI /\ i \in Comb(insts)
         /\ InsOf(insts, i) = Ins(insts, i) /\ OutsOf(insts, i) = Outs(insts, i)
         /\ Ins(insts, i) \subseteq {"A"}
         /\ \E p \in OUT_PINS : Outs(insts, i) = {p}
<1>1. i \in DOMAIN insts /\ Buffer(insts, i) /\ Outs(insts, i) # {}
  BY DEF Buffers
<1>2. insts[i].cell \in BUFINV /\ ~Sequential(insts, i)
  BY <1>1 DEF Buffer, Sequential
<1>3. ~Macro(insts, i) /\ ~Phys(insts, i) /\ insts[i].cell \notin TRI
  BY <1>2 DEF BUFINV, Macro, MACRO, Phys, PHYS, TRI
<1>4. Ins(insts, i) = Pins(insts, i) \cap IN_PINS /\ Outs(insts, i) = Pins(insts, i) \cap OUT_PINS
  BY <1>3 DEF Ins, Outs
<1>5. InsOf(insts, i) = Ins(insts, i) /\ OutsOf(insts, i) = Outs(insts, i)
  BY <1>1, <1>3, SameInputs
<1>6. PICK p \in {"X", "Y"} : Pins(insts, i) \cap OUT_PINS \subseteq {p}
  BY <1>1, <1>2, ChainCellsOfTheLibrary
<1>7. Outs(insts, i) = {p} /\ p \in OUT_PINS
  BY <1>1, <1>4, <1>6
<1>8. Ins(insts, i) \subseteq {"A"}
  BY <1>1, <1>2, <1>4, ChainCellsOfTheLibrary
<1> QED
  BY <1>1, <1>2, <1>3, <1>5, <1>7, <1>8 DEF Comb

(* What is carried is carried by a buffer.                                 *)
LEMMA ByBuffer ==
  ASSUME insts \in Netlists, NEW e \in Carried
  PROVE  /\ e = <<e[1], e[2]>> /\ e[1] \in Nets /\ e[2] \in Nets
         /\ \E i \in Buffers(insts) : /\ "A" \in Ins(insts, i) /\ e[1] = insts[i].at["A"]
                                      /\ e[2] \in On(insts, i, Outs(insts, i))
<1>1. PICK i \in Buffers(insts) : e \in On(insts, i, Ins(insts, i)) \X On(insts, i, Outs(insts, i))
  BY DEF Carried, Through
<1>2. e = <<e[1], e[2]>> /\ e[1] \in On(insts, i, Ins(insts, i)) /\ e[2] \in On(insts, i, Outs(insts, i))
  BY <1>1
<1>3. PICK p \in Ins(insts, i) : e[1] = insts[i].at[p]
  BY <1>2 DEF On
<1>4. p = "A"
  BY <1>3, BufferCell
<1>5. i \in DOMAIN insts /\ On(insts, i, Outs(insts, i)) \subseteq Nets
  BY BufferCell, PinsAreOnNets DEF On, Outs
<1>6. e[1] \in Nets
  BY <1>3, <1>5, PinsAreOnNets DEF Ins
<1> QED
  BY <1>2, <1>3, <1>4, <1>5, <1>6

(* No net is carried to from two.                                          *)
LEMMA CarriedOnce ==
  ASSUME insts \in Netlists, Contended(insts) = {}, NEW e \in Carried, NEW d \in Carried, e[2] = d[2]
  PROVE  e[1] = d[1]
<1>1. PICK i \in Buffers(insts) : /\ e[1] = insts[i].at["A"]
                                  /\ e[2] \in On(insts, i, Outs(insts, i))
  BY ByBuffer
<1>2. PICK j \in Buffers(insts) : /\ d[1] = insts[j].at["A"]
                                  /\ d[2] \in On(insts, j, Outs(insts, j))
  BY ByBuffer
<1>3. i = j
  BY <1>1, <1>2, BufferCell, ByBuffer, OneDriver
<1> QED
  BY <1>1, <1>2, <1>3

(* The line of an output of a cell with state: each net is driven by that  *)
(* cell or a buffer, and nothing is carried to the first.                  *)
LEMMA LineOfOutput ==
  ASSUME insts \in Netlists, Contended(insts) = {},
         NEW f \in DOMAIN insts, Sequential(insts, f), NEW p \in Outs(insts, f),
         NEW a, a = insts[f].at[p]
  PROVE  /\ a \in Nets /\ a \in On(insts, f, Outs(insts, f))
         /\ insts[f].cell \notin TRI /\ f \notin Comb(insts) /\ ~Macro(insts, f)
         /\ \A e \in Carried : e[2] # a
         /\ \A n \in Line(a) : /\ n \in Nets
                               /\ \E i \in Buffers(insts) \cup {f} : n \in On(insts, i, Outs(insts, i))
<1>1. a \in Nets /\ a \in On(insts, f, Outs(insts, f))
  BY PinsAreOnNets DEF Outs, On
<1>2. insts[f].cell \notin TRI /\ f \notin Comb(insts) /\ ~Macro(insts, f)
  BY Families DEF Sequential, SEQ, TRI, Comb
<1>3. ASSUME NEW e \in Carried, e[2] = a PROVE FALSE
  <2>1. PICK i \in Buffers(insts) : a \in On(insts, i, Outs(insts, i))
    BY <1>3, ByBuffer
  <2>2. i = f
    BY <1>1, <2>1, BufferCell, OneDriver
  <2> QED
    BY <1>2, <2>2, BufferCell
<1>4. ASSUME NEW n \in Line(a)
      PROVE  n \in Nets /\ \E i \in Buffers(insts) \cup {f} : n \in On(insts, i, Outs(insts, i))
  <2>1. n = a \/ \E e \in Carried : e[2] = n
    BY Leads DEF Line
  <2> QED
    BY <1>1, <2>1, ByBuffer
<1> QED
  BY <1>1, <1>2, <1>3, <1>4

(* What reaches a line from elsewhere comes in at its first net.           *)
LEMMA LinesApart ==
  ASSUME insts \in Netlists, Contended(insts) = {},
         NEW f \in DOMAIN insts, Sequential(insts, f),
         NEW p \in Outs(insts, f), NEW q \in Outs(insts, f),
         NEW n \in Line(insts[f].at[p]), n \in Line(insts[f].at[q])
  PROVE  p = q
<1> DEFINE a == insts[f].at[p]
           b == insts[f].at[q]
           S == {m \in Line(a) : m \notin Line(b)}
<1>1. /\ a \in Line(a) /\ \A e \in Carried : e[1] \in Line(a) => e[2] \in Line(a)
      /\ \A T : a \in T /\ (\A e \in Carried : e[1] \in T => e[2] \in T) => Line(a) \subseteq T
  BY Leads DEF Line
<1>2. /\ \A m \in Line(b) : m = b \/ \E e \in Carried : e[1] \in Line(b) /\ e[2] = m
  BY Leads DEF Line
<1>3. /\ a \in Nets /\ a \in On(insts, f, Outs(insts, f))
      /\ \A e \in Carried : e[2] # a /\ e[2] # b
  BY LineOfOutput
<1> HIDE DEF a, b
<1>4. a = b
  <2> SUFFICES ASSUME a # b PROVE FALSE
    OBVIOUS
  <2>1. a \in S
    BY <1>1, <1>2, <1>3
  <2>2. ASSUME NEW e \in Carried, e[1] \in S PROVE e[2] \in S
    <3>1. e[2] \in Line(a)
      BY <1>1, <2>2
    <3>2. ASSUME e[2] \in Line(b) PROVE FALSE
      <4>1. PICK d \in Carried : d[1] \in Line(b) /\ d[2] = e[2]
        BY <1>2, <1>3, <3>2
      <4>2. d[1] = e[1]
        BY <4>1, CarriedOnce
      <4> QED
        BY <2>2, <4>1, <4>2
    <3> QED
      BY <3>1, <3>2
  <2>3. Line(a) \subseteq S
    BY <1>1, <2>1, <2>2
  <2> QED
    BY <2>3 DEF a, b
<1> DEFINE d == [inst |-> f, pin |-> p]
           e == [inst |-> f, pin |-> q]
<1>5. d \in Drivers(insts, a) /\ e \in Drivers(insts, a) /\ insts[d.inst].cell \notin TRI
  <2>1. insts[f].at[p] = a /\ insts[f].at[q] = a
    BY <1>4 DEF a, b
  <2> QED
    BY <2>1, InDrivers, LineOfOutput
<1>6. d.pin = p /\ e.pin = q
  OBVIOUS
<1> HIDE DEF d, e
<1>7. d = e
  BY <1>3, <1>5 DEF Contended
<1> QED
  BY <1>6, <1>7

(* The cone of an input that nothing drives meets no line.                 *)
LEMMA ConeApart ==
  ASSUME insts \in Netlists, Contended(insts) = {}, start \in Nets, Drivers(insts, start) = {},
         NEW f \in DOMAIN insts, Sequential(insts, f), NEW p \in Outs(insts, f),
         NEW n \in Cone
  PROVE  n \notin Line(insts[f].at[p])
<1> DEFINE a == insts[f].at[p]
           S == {m \in Cone : m \notin Line(a)}
<1>1. /\ start \in Cone /\ \A e \in Edges(insts) : e[1] \in Cone => e[2] \in Cone
      /\ \A T : start \in T /\ (\A e \in Edges(insts) : e[1] \in T => e[2] \in T) => Cone \subseteq T
  BY Leads DEF Cone
<1>2. \A m \in Line(a) : m = a \/ \E e \in Carried : e[1] \in Line(a) /\ e[2] = m
  BY Leads DEF Line
<1>3. /\ a \in Nets /\ a \in On(insts, f, Outs(insts, f)) /\ f \notin Comb(insts)
      /\ insts[f].cell \notin TRI
      /\ \A m \in Line(a) : /\ m \in Nets
                            /\ \E i \in Buffers(insts) \cup {f} : m \in On(insts, i, Outs(insts, i))
  BY LineOfOutput
<1> HIDE DEF a
<1>4. start \in S
  <2>1. ASSUME start \in Line(a) PROVE FALSE
    <3>1. PICK i \in Buffers(insts) \cup {f} : start \in On(insts, i, Outs(insts, i))
      BY <1>3, <2>1
    <3>2. i \in DOMAIN insts
      BY <3>1, BufferCell
    <3>3. PICK q \in Outs(insts, i) : insts[i].at[q] = start
      BY <3>1 DEF On
    <3>4. [inst |-> i, pin |-> q] \in Drivers(insts, start)
      BY <3>2, <3>3 DEF Drivers, Ends
    <3> QED
      BY <3>4
  <2> QED
    BY <1>1, <2>1
<1>5. ASSUME NEW e \in Edges(insts), e[1] \in S PROVE e[2] \in S
  <2>1. e[2] \in Cone
    BY <1>1, <1>5
  <2>2. ASSUME e[2] \in Line(a) PROVE FALSE
    <3>1. PICK j \in Comb(insts) : /\ e[1] \in On(insts, j, Ins(insts, j))
                                   /\ e[2] \in On(insts, j, Outs(insts, j))
      BY DEF Edges, Through
    <3>2. j \in DOMAIN insts /\ e[2] \in Nets
      BY <1>3, <2>2, <3>1 DEF Comb
    <3>3. e[2] # a
      BY <1>3, <3>1, <3>2, OneDriver
    <3>4. PICK d \in Carried : d[1] \in Line(a) /\ d[2] = e[2]
      BY <1>2, <2>2, <3>3
    <3>5. PICK i \in Buffers(insts) : d[1] = insts[i].at["A"] /\ d[2] \in On(insts, i, Outs(insts, i))
      BY ByBuffer
    <3>6. i = j
      BY <3>1, <3>2, <3>4, <3>5, BufferCell, OneDriver
    <3>7. e[1] = insts[i].at["A"]
      BY <3>1, <3>6, BufferCell DEF On
    <3> QED
      BY <1>5, <3>4, <3>5, <3>7
  <2> QED
    BY <2>1, <2>2
<1>6. Cone \subseteq S
  BY <1>1, <1>4, <1>5
<1> QED
  BY <1>6 DEF a

(* The chain of a flop is the lines of its outputs.                        *)
LEMMA ChainIsLines ==
  ASSUME NEW f, NEW n
  PROVE  n \in Chain(insts, f) <=> \E p \in Outs(insts, f) : n \in Line(insts[f].at[p])
<1> DEFINE C == Chain(insts, f)
           from == On(insts, f, Outs(insts, f))
           U == UNION {Line(a) : a \in from}
<1>1. /\ from \subseteq C /\ \A e \in Carried : e[1] \in C => e[2] \in C
      /\ \A S : from \subseteq S /\ (\A e \in Carried : e[1] \in S => e[2] \in S) => C \subseteq S
  BY Leads DEF Chain, Carried
<1>2. \A a : /\ a \in Line(a) /\ \A e \in Carried : e[1] \in Line(a) => e[2] \in Line(a)
             /\ \A S : a \in S /\ (\A e \in Carried : e[1] \in S => e[2] \in S) => Line(a) \subseteq S
  BY Leads DEF Line
<1> HIDE DEF C, from
<1>3. C \subseteq U
  <2>1. from \subseteq U
    BY <1>2
  <2>2. \A e \in Carried : e[1] \in U => e[2] \in U
    BY <1>2
  <2> HIDE DEF U
  <2> QED
    BY <1>1, <2>1, <2>2
<1>4. \A a \in from : Line(a) \subseteq C
  BY <1>1, <1>2
<1>5. C = U
  BY <1>3, <1>4
<1> QED
  BY <1>5 DEF C, from, On

-----------------------------------------------------------------------------
(* The readers the chase counts are the loads of the header.               *)
LEMMA SameLoads ==
  ASSUME insts \in Netlists, Contended(insts) = {}, Unknown(insts) = {},
         NEW n \in Nets, NEW j \in DOMAIN insts, ~Macro(insts, j), insts[j].cell \notin TRI,
         n \in On(insts, j, Outs(insts, j))
  PROVE  Loads(insts, n) = Readings(insts, n)
<1> DEFINE Supplies(i) == Ends(insts, n, i, Power(insts, i))
<1>1. \A r : r \in Loads(insts, n) <=>
        \/ r \in Readers(insts, n) /\ ~Phys(insts, r.inst)
        \/ \E i \in DOMAIN insts : Macro(insts, i) /\ r \in Supplies(i)
  BY DEF Loads
<1>2. \A i \in DOMAIN insts : Macro(insts, i) =>
        Pins(insts, i) = Ins(insts, i) \cup Power(insts, i) \cup Outs(insts, i)
  BY DEF Unknown
<1>3. \A i \in DOMAIN insts : Macro(insts, i) => n \notin On(insts, i, Outs(insts, i))
  BY OneDriver
<1>4. ASSUME NEW r \in Readings(insts, n) PROVE r \in Loads(insts, n)
  <2>1. PICK i \in DOMAIN insts : \E p \in InsOf(insts, i) :
          insts[i].at[p] = n /\ r = [inst |-> i, pin |-> p]
    BY InReadings
  <2>2. PICK p \in InsOf(insts, i) : insts[i].at[p] = n /\ r = [inst |-> i, pin |-> p]
    BY <2>1
  <2>3. ~Phys(insts, i) /\ r.inst = i
    BY <2>2, SameInputs
  <2>4. CASE ~Macro(insts, i)
    BY <1>1, <2>2, <2>3, <2>4, SameInputs, InReaders
  <2>5. CASE Macro(insts, i)
    <3>1. p \notin Outs(insts, i)
      BY <1>3, <2>2, <2>5 DEF On
    <3>2. p \in Ins(insts, i) \/ p \in Power(insts, i)
      BY <1>2, <2>2, <2>5, <3>1, SameInputs
    <3>3. p \in Power(insts, i) => r \in Supplies(i)
      BY <2>2 DEF Ends
    <3>4. p \in Ins(insts, i) => r \in Readers(insts, n)
      BY <2>2, InReaders
    <3> HIDE DEF Supplies
    <3> QED
      BY <1>1, <2>3, <2>5, <3>2, <3>3, <3>4
  <2> QED
    BY <2>4, <2>5
<1>5. ASSUME NEW r \in Readers(insts, n), ~Phys(insts, r.inst) PROVE r \in Readings(insts, n)
  <2>1. PICK i \in DOMAIN insts : \E p \in Ins(insts, i) :
          insts[i].at[p] = n /\ r = [inst |-> i, pin |-> p]
    BY InReaders
  <2>2. PICK p \in Ins(insts, i) : insts[i].at[p] = n /\ r = [inst |-> i, pin |-> p]
    BY <2>1
  <2>3. p \in InsOf(insts, i)
    BY <1>5, <2>2, SameInputs
  <2> QED
    BY <2>2, <2>3, InReadings
<1>6. ASSUME NEW i \in DOMAIN insts, Macro(insts, i), NEW r \in Supplies(i)
      PROVE  r \in Readings(insts, n)
  <2>1. PICK p \in Power(insts, i) : insts[i].at[p] = n /\ r = [inst |-> i, pin |-> p]
    BY DEF Ends
  <2>2. p \in InsOf(insts, i)
    BY <1>6, <2>1, SameInputs DEF Power
  <2> QED
    BY <2>1, <2>2, InReadings
<1> HIDE DEF Supplies
<1>7. \A r : r \in Loads(insts, n) <=> r \in Readings(insts, n)
  BY <1>1, <1>4, <1>5, <1>6
<1> QED
  BY <1>7

(* A net that is crossed has a buffer for its only reader, and is carried  *)
(* to where the buffer leads and nowhere else.                             *)
LEMMA CrossedNet ==
  ASSUME insts \in Netlists, NEW m, NEW i \in Crossed(m)
  PROVE  /\ i \in Buffers(insts)
         /\ \E r : Readings(insts, m) = {r} /\ r.inst = i
         /\ \A n \in On(insts, i, OutsOf(insts, i)) :
              <<m, n>> \in Carried /\ \A e \in Carried : e[1] = m => e[2] = n
<1>1. PICK r \in Readings(insts, m) :
        /\ Readings(insts, m) = {r} /\ Buffer(insts, r.inst) /\ r.inst = i
        /\ \E p \in OUT_PINS : OutsOf(insts, r.inst) = {p}
  BY DEF Crossed
<1>2. PICK j \in DOMAIN insts : \E p \in InsOf(insts, j) :
        insts[j].at[p] = m /\ r = [inst |-> j, pin |-> p]
  BY InReadings
<1>3. PICK q \in InsOf(insts, j) : insts[j].at[q] = m /\ r = [inst |-> j, pin |-> q]
  BY <1>2
<1>4. i \in DOMAIN insts /\ q \in InsOf(insts, i) /\ insts[i].at[q] = m
  BY <1>1, <1>3
<1>5. i \in Buffers(insts)
  BY <1>1, <1>4 DEF Buffers, OutsOf
<1>6. q \in Ins(insts, i)
  BY <1>4, <1>5, BufferCell
<1>7. ASSUME NEW n \in On(insts, i, OutsOf(insts, i))
      PROVE  <<m, n>> \in Carried /\ \A e \in Carried : e[1] = m => e[2] = n
  <2>1. n \in On(insts, i, Outs(insts, i))
    BY <1>5, BufferCell
  <2>2. m \in On(insts, i, Ins(insts, i))
    BY <1>4, <1>6 DEF On
  <2>3. <<m, n>> \in Carried
    BY <1>5, <2>1, <2>2 DEF Carried, Through
  <2>4. ASSUME NEW e \in Carried, e[1] = m PROVE e[2] = n
    <3>1. PICK k \in Buffers(insts) : /\ "A" \in Ins(insts, k) /\ e[1] = insts[k].at["A"]
                                      /\ e[2] \in On(insts, k, Outs(insts, k))
      BY ByBuffer
    <3>2. [inst |-> k, pin |-> "A"] \in Readings(insts, m)
      BY <2>4, <3>1, BufferCell, InReadings
    <3>3. k = i
      BY <1>1, <3>2
    <3>4. PICK o : Outs(insts, i) = {o}
      BY <1>5, BufferCell
    <3> QED
      BY <2>1, <3>1, <3>3, <3>4 DEF On
  <2> QED
    BY <2>3, <2>4
<1> QED
  BY <1>1, <1>5, <1>7

(* Without such a reader a line ends.                                      *)
LEMMA LineEnds ==
  ASSUME insts \in Netlists, NEW n, \A r \in Readings(insts, n) : r.inst \notin Buffers(insts)
  PROVE  Line(n) = {n}
<1>1. ASSUME NEW e \in Carried, e[1] = n PROVE FALSE
  <2>1. PICK k \in Buffers(insts) : /\ "A" \in Ins(insts, k) /\ e[1] = insts[k].at["A"]
    BY ByBuffer
  <2>2. [inst |-> k, pin |-> "A"] \in Readings(insts, n)
    BY <1>1, <2>1, BufferCell, InReadings
  <2>3. [inst |-> k, pin |-> "A"].inst = k
    OBVIOUS
  <2> QED
    BY <2>2, <2>3
<1>2. \A S : {n} \subseteq S /\ (\A e \in Carried : e[1] \in S => e[2] \in S) => Line(n) \subseteq S
  BY Leads DEF Line
<1>3. Line(n) \subseteq {n}
  BY <1>1, <1>2
<1> QED
  BY <1>3, Leads DEF Line

(* A crossing takes the chase along the line, past one net.                *)
LEMMA LineGoesOn ==
  ASSUME insts \in Netlists, NEW m, NEW i \in Crossed(m), NEW n \in On(insts, i, OutsOf(insts, i))
  PROVE  Line(m) \subseteq {m} \cup Line(n)
<1>1. \A e \in Carried : e[1] = m => e[2] = n
  BY CrossedNet
<1>2. n \in Line(n) /\ \A e \in Carried : e[1] \in Line(n) => e[2] \in Line(n)
  BY Leads DEF Line
<1>3. \A S : {m} \subseteq S /\ (\A e \in Carried : e[1] \in S => e[2] \in S) => Line(m) \subseteq S
  BY Leads DEF Line
<1> QED
  BY <1>1, <1>2, <1>3

-----------------------------------------------------------------------------
(***************************************************************************)
(* The clock of an instance.                                               *)
(***************************************************************************)
Back == {<<e[2], e[1]>> : e \in Carried}

(* The walk to a clock root goes against what buffers carry.               *)
LEMMA BufferPairs ==
  ASSUME insts \in Netlists, Contended(insts) = {}
  PROVE  /\ BufferUp(insts) \in SUBSET (Nets \X Nets)
         /\ \A p \in BufferUp(insts) :
              <<p[2], p[1]>> \in Carried /\ \A e \in Carried : e[2] = p[1] => e[1] = p[2]
         /\ \A e \in Carried : \E p \in BufferUp(insts) : p[1] = e[2]
<1> DEFINE up == BufferUp(insts)
<1>1. ASSUME NEW p \in up
      PROVE  p = <<p[1], p[2]>> /\ p[1] \in Nets /\ p[2] \in Nets /\ <<p[2], p[1]>> \in Carried
  <2>1. PICK n \in Nets :
          /\ Driving(insts, n) # {} /\ Buffer(insts, Driver(insts, n))
          /\ \E q \in IN_PINS : Ins(insts, Driver(insts, n)) = {q}
          /\ p = <<n, CHOOSE m \in On(insts, Driver(insts, n), Ins(insts, Driver(insts, n))) : TRUE>>
    BY DEF BufferUp
  <2> DEFINE i == Driver(insts, n)
             a == insts[i].at["A"]
  <2>2. i \in DOMAIN insts /\ n \in On(insts, i, Outs(insts, i))
    BY <2>1, LastDriver, DrivingIsDriven
  <2>3. i \in Buffers(insts)
    BY <2>1, <2>2 DEF Buffers, On
  <2>4. Ins(insts, i) = {"A"}
    BY <2>1, <2>3, BufferCell
  <2>5. On(insts, i, Ins(insts, i)) = {a}
    BY <2>4 DEF On
  <2>6. p = <<n, a>>
    BY <2>1, <2>5
  <2>7. a \in Nets
    BY <2>2, <2>4, PinsAreOnNets DEF Ins
  <2>8. <<a, n>> \in Carried
    BY <2>2, <2>3, <2>5 DEF Carried, Through
  <2> HIDE DEF i, a
  <2> QED
    BY <2>6, <2>7, <2>8
<1>2. ASSUME NEW e \in Carried
      PROVE  \E p \in up : p[1] = e[2]
  <2>1. PICK i \in Buffers(insts) : /\ "A" \in Ins(insts, i)
                                    /\ e[2] \in On(insts, i, Outs(insts, i))
    BY ByBuffer
  <2>2. i \in Driving(insts, e[2])
    BY <2>1, BufferCell, AtEnds DEF Driving
  <2>3. Driver(insts, e[2]) = i
    <3>1. Driver(insts, e[2]) \in Driving(insts, e[2])
      BY <2>2, LastDriver
    <3> QED
      BY <2>1, <3>1, BufferCell, ByBuffer, DrivingIsDriven, OneDriver
  <2>4. Ins(insts, i) = {"A"} /\ "A" \in IN_PINS
    BY <2>1, BufferCell DEF IN_PINS
  <2>5. /\ e[2] \in Nets /\ Driving(insts, e[2]) # {} /\ Buffer(insts, Driver(insts, e[2]))
        /\ \E q \in IN_PINS : Ins(insts, Driver(insts, e[2])) = {q}
    BY <2>2, <2>3, <2>4, BufferCell, ByBuffer
  <2> DEFINE p == <<e[2], CHOOSE m \in On(insts, Driver(insts, e[2]), Ins(insts, Driver(insts, e[2]))) : TRUE>>
  <2>6. p \in up
    BY <2>5 DEF BufferUp
  <2>7. p[1] = e[2]
    OBVIOUS
  <2> HIDE DEF up, p
  <2> QED
    BY <2>6, <2>7
<1> HIDE DEF up
<1>3. ASSUME NEW p \in up, NEW e \in Carried, e[2] = p[1] PROVE e[1] = p[2]
  <2> DEFINE d == <<p[2], p[1]>>
  <2>1. d \in Carried /\ d[2] = p[1] /\ d[1] = p[2]
    BY <1>1
  <2> HIDE DEF d
  <2> QED
    BY <1>3, <2>1, CarriedOnce
<1>4. up \in SUBSET (Nets \X Nets)
  <2>1. ASSUME NEW p \in up PROVE p \in Nets \X Nets
    <3>1. <<p[1], p[2]>> \in Nets \X Nets
      BY <1>1
    <3> QED
      BY <1>1, <3>1
  <2> QED
    BY <2>1
<1>5. \A p \in up : <<p[2], p[1]>> \in Carried /\ \A e \in Carried : e[2] = p[1] => e[1] = p[2]
  BY <1>1, <1>3
<1> QED
  BY <1>2, <1>4, <1>5 DEF up

(* Where no logic forms a loop, a walk ends at a net no buffer drives.     *)
LEMMA RootIsSource ==
  ASSUME insts \in Netlists, Contended(insts) = {}, ~Cyclic(insts), NEW n \in Nets
  PROVE  \A e \in Carried : e[2] # ClkRoot(insts, n)
<1> DEFINE up == BufferUp(insts)
           K == Steps(up, n)
           at == Along(up, n)
<1>1. /\ up \in SUBSET (Nets \X Nets)
      /\ \A p \in up : <<p[2], p[1]>> \in Carried
      /\ \A e \in Carried : \E p \in up : p[1] = e[2]
  BY BufferPairs
<1> HIDE DEF up
<1>0. up \in SUBSET (Nets \X Nets)
  BY <1>1
<1>2. /\ K \in Nat /\ at[K] = WalkEnd(up, n)
      /\ \A k \in 0 .. K : at[k] \in Nets
      /\ \A k \in 1 .. K : <<at[k - 1], at[k]>> \in up
  BY <1>0, WalkedByPairs
<1>3. Ended(up, at, K)
  BY <1>1, WalkStops
<1> HIDE DEF K, at
<1>4. ASSUME NEW j \in 0 .. K - 1, at[j] = at[K] PROVE FALSE
  <2> DEFINE U == {at[k] : k \in j + 1 .. K}
  <2>1. \A k \in 1 .. K : <<at[k], at[k - 1]>> \in Edges(insts)
    <3>1. \A k \in 1 .. K : <<at[k - 1], at[k]>>[1] = at[k - 1] /\ <<at[k - 1], at[k]>>[2] = at[k]
      OBVIOUS
    <3>2. Carried \subseteq Edges(insts)
      BY BufferCell DEF Carried, Edges, Through
    <3> QED
      BY <1>1, <1>2, <3>1, <3>2
  <2>2. ASSUME NEW k \in j + 1 .. K
        PROVE  \E m \in U : <<m, at[k]>> \in Edges(insts)
    <3>1. CASE k # K
      <4>1. k + 1 \in 1 .. K /\ k + 1 \in j + 1 .. K /\ k = (k + 1) - 1
        BY <1>2, <3>1
      <4>2. <<at[k + 1], at[k]>> \in Edges(insts)
        BY <2>1, <4>1
      <4> QED
        BY <4>1, <4>2
    <3>2. CASE k = K
      <4>1. j + 1 \in 1 .. K /\ j + 1 \in j + 1 .. K /\ j = (j + 1) - 1
        BY <1>2
      <4>2. <<at[j + 1], at[j]>> \in Edges(insts)
        BY <2>1, <4>1
      <4> QED
        BY <1>4, <3>2, <4>1, <4>2
    <3> QED
      BY <3>1, <3>2
  <2>3. U # {} /\ IsFiniteSet(U)
    <3>1. U \subseteq Nets
      BY <1>2
    <3>2. at[K] \in U
      BY <1>2
    <3> HIDE DEF U
    <3> QED
      BY <3>1, <3>2, NetsAreFinite, FS_Subset
  <2>4. \A m \in U : \E k \in U : <<k, m>> \in Edges(insts)
    BY <2>2
  <2> HIDE DEF U
  <2> QED
    BY <2>3, <2>4, NoWayUp
<1>5. \A p \in up : p[1] # at[K]
  BY <1>3, <1>4 DEF Ended
<1> QED
  BY <1>1, <1>2, <1>5 DEF ClkRoot, up

(* A net comes from its root and from nothing else.                        *)
LEMMA RootOf ==
  ASSUME insts \in Netlists, Contended(insts) = {}, ~Cyclic(insts), NEW n \in Nets
  PROVE  /\ {m \in LeadsTo({n}, Back) : \A e \in Carried : e[2] # m} = {ClkRoot(insts, n)}
         /\ LeadsTo({n}, Back) \subseteq Nets
         /\ \A m \in LeadsTo({n}, Back) : LeadsTo({m}, Back) \subseteq LeadsTo({n}, Back)
<1>1. {m \in LeadsTo({n}, Back) : \A e \in Carried : e[2] # m} = {ClkRoot(insts, n)}
  <2>1. Origins(n, Carried) = {ClkRoot(insts, n)}
    BY BufferPairs, RootIsSource, SoleSource DEF ClkRoot
  <2> QED
    BY <2>1 DEF Origins, Back
<1>2. \A e \in Back : e[2] \in Nets
  BY ByBuffer DEF Back
<1>3. LeadsTo({n}, Back) \subseteq Nets
  BY <1>2, Leads
<1>4. ASSUME NEW m \in LeadsTo({n}, Back)
      PROVE  LeadsTo({m}, Back) \subseteq LeadsTo({n}, Back)
  <2> DEFINE S == LeadsTo({n}, Back)
  <2>1. \A e \in Back : e[1] \in S => e[2] \in S
    BY Leads
  <2>2. {m} \subseteq S
    OBVIOUS
  <2> HIDE DEF S
  <2>3. LeadsTo({m}, Back) \subseteq S
    BY <2>1, <2>2, Leads
  <2> QED
    BY <2>3 DEF S
<1> QED
  BY <1>1, <1>3, <1>4

(* Two instances have the same clock root exactly when the nets above      *)
(* their clock pins meet.                                                  *)
LEMMA SameClock ==
  ASSUME insts \in Netlists, Contended(insts) = {}, ~Cyclic(insts),
         NEW s \in DOMAIN insts, Sequential(insts, s), Pins(insts, s) \cap DATA_PINS # {},
         NEW f \in DOMAIN insts, Sequential(insts, f), Pins(insts, f) \cap DATA_PINS # {}
  PROVE  Clock(insts, s) = Clock(insts, f) <=> Above(insts, s) \cap Above(insts, f) # {}
<1>1. PICK c : Pins(insts, s) \cap CLOCK_PINS = {c}
  BY ChainCellsOfTheLibrary
<1>2. PICK d : Pins(insts, f) \cap CLOCK_PINS = {d}
  BY ChainCellsOfTheLibrary
<1> DEFINE m == insts[s].at[c]
           n == insts[f].at[d]
<1>3. m \in Nets /\ n \in Nets
  BY <1>1, <1>2, PinsAreOnNets
<1>4. On(insts, s, {c}) = {m} /\ On(insts, f, {d}) = {n}
  BY DEF On
<1> HIDE DEF m, n
<1>5. Clock(insts, s) = {ClkRoot(insts, m)} /\ Clock(insts, f) = {ClkRoot(insts, n)}
  BY <1>1, <1>2, <1>4 DEF Clock
<1>6. Above(insts, s) = LeadsTo({m}, Back) /\ Above(insts, f) = LeadsTo({n}, Back)
  BY <1>1, <1>2, <1>4 DEF Above, Back, Carried
<1>7. ASSUME NEW k, k \in Above(insts, s), k \in Above(insts, f)
      PROVE  ClkRoot(insts, m) = ClkRoot(insts, n)
  <2>1. k \in Nets
    BY <1>3, <1>6, <1>7, RootOf
  <2>2. /\ ClkRoot(insts, k) \in LeadsTo({k}, Back)
        /\ \A e \in Carried : e[2] # ClkRoot(insts, k)
    BY <2>1, RootOf
  <2>3. ClkRoot(insts, k) \in LeadsTo({m}, Back) /\ ClkRoot(insts, k) \in LeadsTo({n}, Back)
    BY <1>3, <1>6, <1>7, <2>2, RootOf
  <2>4. ClkRoot(insts, k) = ClkRoot(insts, m)
    BY <1>3, <2>2, <2>3, RootOf
  <2>5. ClkRoot(insts, k) = ClkRoot(insts, n)
    BY <1>3, <2>2, <2>3, RootOf
  <2> QED
    BY <2>4, <2>5
<1>8. ClkRoot(insts, m) \in Above(insts, s) /\ ClkRoot(insts, n) \in Above(insts, f)
  BY <1>3, <1>6, RootOf
<1> QED
  BY <1>5, <1>7, <1>8

-----------------------------------------------------------------------------
(***************************************************************************)
(* The verdict.  A chase has followed the line of its output to where it   *)
(* is, over nets with one reader each; when all of them are through, the   *)
(* loads are the readers of the nets where they ended.                     *)
(***************************************************************************)
Chased(p, e) ==
  /\ e \in Line(insts[flop.inst].at[p])
  /\ \A m \in Line(insts[flop.inst].at[p]) : m \notin Line(e) => Crossed(m) # {}

Gathered(p) ==
  \E e : /\ Chased(p, e)
         /\ Crossed(e) = {}
         /\ \A r : [out |-> p, at |-> r] \in loads <=> r \in Readings(insts, e)

(* The outputs that have been chased to an end.                            *)
Behind == OutsOf(insts, flop.inst) \ (outs \cup {chase.pin})

Judging ==
  /\ \E n \in Cone : flop \in Data(n)
  /\ outs \subseteq OutsOf(insts, flop.inst)
  /\ \A p \in Behind : Gathered(p)
  /\ \A l \in loads : l = [out |-> l.out, at |-> l.at] /\ l.out \in Behind
  /\ chase # NoChase => /\ chase = [pin |-> chase.pin, net |-> chase.net]
                        /\ chase.pin \in OutsOf(insts, flop.inst) \ outs
                        /\ Chased(chase.pin, chase.net)

Documented(h) ==
  Pins(insts, h.inst) \cap DATA_PINS = {h.pin} =>
    /\ h.kind = "capture SYNC" => Synchroniser(insts, h.inst)
    /\ h.kind = "capture NOSYNC" => ~Synchroniser(insts, h.inst)

VInv ==
  /\ start \in Nets /\ Base[start] \in Ports /\ Direction[Base[start]] = "input"
  /\ \A r \in captures : \E n \in Cone : r \in Data(n)
  /\ phase # "judge" => chase = NoChase
  /\ phase = "judge" => Judging
  /\ Passes(insts) /\ InputsUndriven(insts) => \A h \in AtPin : Documented(h)

(* The nets of a line that a chase has followed to its end.                *)
LEMMA Stretch ==
  ASSUME insts \in Netlists, NEW a, NEW e \in Line(a),
         \A m \in Line(a) : m \notin Line(e) => Crossed(m) # {},
         \A r \in Readings(insts, e) : r.inst \notin Buffers(insts),
         NEW n \in Line(a)
  PROVE  n = e \/ \E r : Readings(insts, n) = {r} /\ r.inst \in Buffers(insts)
<1>1. Line(e) = {e}
  BY LineEnds
<1>2. CASE n # e
  <2>1. PICK i : i \in Crossed(n)
    BY <1>1, <1>2
  <2> QED
    BY <2>1, CrossedNet
<1> QED
  BY <1>2

(* A data pin that is captured.                                            *)
LEMMA CapturedPin ==
  ASSUME insts \in Netlists, NEW n, NEW r \in Data(n)
  PROVE  /\ r.inst \in DOMAIN insts /\ Sequential(insts, r.inst)
         /\ r.pin \in DATA_PINS /\ r.pin \in Pins(insts, r.inst)
         /\ r = [inst |-> r.inst, pin |-> r.pin] /\ insts[r.inst].at[r.pin] = n
         /\ OutsOf(insts, r.inst) = Outs(insts, r.inst)
<1>1. r \in Readings(insts, n) /\ Sequential(insts, r.inst) /\ r.pin \in DATA_PINS
  BY DEF Data
<1>2. PICK i \in DOMAIN insts : \E p \in InsOf(insts, i) :
        insts[i].at[p] = n /\ r = [inst |-> i, pin |-> p]
  BY <1>1, InReadings
<1>3. PICK p \in InsOf(insts, i) : insts[i].at[p] = n /\ r = [inst |-> i, pin |-> p]
  BY <1>2
<1>4. r.inst = i /\ r.pin = p
  BY <1>3
<1>5. ~Macro(insts, i) /\ ~Phys(insts, i)
  BY <1>1, <1>4, Families
<1>6. p \in Ins(insts, i) /\ OutsOf(insts, i) = Outs(insts, i)
  BY <1>3, <1>5, SameInputs
<1> QED
  BY <1>1, <1>3, <1>4, <1>6 DEF Ins

(* The readers along the outputs of a flop are the loads of the header,    *)
(* and each belongs to one output.                                         *)
LEMMA LoadsOfOutput ==
  ASSUME insts \in Netlists, Contended(insts) = {}, Unknown(insts) = {},
         NEW f \in DOMAIN insts, Sequential(insts, f), NEW p \in Outs(insts, f),
         NEW n \in Line(insts[f].at[p])
  PROVE  Loads(insts, n) = Readings(insts, n)
<1>1. /\ ~Macro(insts, f) /\ insts[f].cell \notin TRI /\ n \in Nets
      /\ \E i \in Buffers(insts) \cup {f} : n \in On(insts, i, Outs(insts, i))
  BY LineOfOutput
<1> QED
  BY <1>1, BufferCell, SameLoads

(* What the chases of a flop have gathered.                                *)
LEMMA GatheredLoads ==
  ASSUME insts \in Netlists, Judging, outs = {}, chase = NoChase
  PROVE  /\ \A p \in Outs(insts, flop.inst) : Gathered(p)
         /\ \A l \in loads : l = [out |-> l.out, at |-> l.at] /\ l.out \in Outs(insts, flop.inst)
<1>1. OutsOf(insts, flop.inst) = Outs(insts, flop.inst)
  BY CapturedPin DEF Judging
<1>2. "" \notin OutsOf(insts, flop.inst)
  BY DEF OutsOf, Sky, Outs, OUT_PINS, Macro
<1>3. Behind = Outs(insts, flop.inst)
  BY <1>1, <1>2 DEF Behind, NoChase
<1> QED
  BY <1>3 DEF Judging

(* One load on the same clock is a two-stage synchroniser.                 *)
LEMMA OneLoadSuffices ==
  ASSUME insts \in Netlists, Passes(insts), start \in Nets, Drivers(insts, start) = {},
         Judging, outs = {}, chase = NoChase,
         Pins(insts, flop.inst) \cap DATA_PINS = {flop.pin}, TwoStages
  PROVE  Synchroniser(insts, flop.inst)
<1> DEFINE f == flop.inst
           T == {r \in UNION {Loads(insts, n) : n \in Chain(insts, f)} : r.inst \notin Buffers(insts)}
<1>1. Contended(insts) = {} /\ Unknown(insts) = {} /\ ~Cyclic(insts)
  BY DEF Passes
<1>2. PICK n0 \in Cone : flop \in Data(n0)
  BY DEF Judging
<1>3. /\ f \in DOMAIN insts /\ Sequential(insts, f) /\ insts[f].at[flop.pin] = n0
      /\ flop.pin \in DATA_PINS /\ flop.pin \in Pins(insts, f)
  BY <1>2, CapturedPin
<1>4. PICK l \in loads : /\ loads = {l} /\ Sequential(insts, l.at.inst) /\ l.at.pin \in DATA_PINS
                         /\ Clock(insts, l.at.inst) = Clock(insts, f)
  BY DEF TwoStages
<1> DEFINE s == l.at.inst
           q == l.at.pin
<1>5. /\ \A p \in Outs(insts, f) : Gathered(p)
      /\ l = [out |-> l.out, at |-> l.at] /\ l.out \in Outs(insts, f)
  BY GatheredLoads
<1> HIDE DEF f
<1>6. \A p \in Outs(insts, f) : \E e :
        /\ e \in Line(insts[f].at[p])
        /\ \A m \in Line(insts[f].at[p]) : m \notin Line(e) => Crossed(m) # {}
        /\ \A r : r \in Readings(insts, e) <=> p = l.out /\ r = l.at
  <2> SUFFICES ASSUME NEW p \in Outs(insts, f)
               PROVE  \E e :
                        /\ e \in Line(insts[f].at[p])
                        /\ \A m \in Line(insts[f].at[p]) : m \notin Line(e) => Crossed(m) # {}
                        /\ \A r : r \in Readings(insts, e) <=> p = l.out /\ r = l.at
    OBVIOUS
  <2>1. PICK e : /\ Chased(p, e)
                 /\ \A r : [out |-> p, at |-> r] \in loads <=> r \in Readings(insts, e)
    BY <1>5 DEF Gathered
  <2>2. \A r : [out |-> p, at |-> r] \in loads <=> p = l.out /\ r = l.at
    <3>1. \A r : [out |-> p, at |-> r] = [out |-> l.out, at |-> l.at] <=> p = l.out /\ r = l.at
      OBVIOUS
    <3> QED
      BY <1>4, <1>5, <3>1, Zenon
  <2> QED
    BY <2>1, <2>2 DEF Chased, f
<1>7. PICK e1 : /\ e1 \in Line(insts[f].at[l.out])
                /\ \A m \in Line(insts[f].at[l.out]) : m \notin Line(e1) => Crossed(m) # {}
                /\ \A r : r \in Readings(insts, e1) <=> r = l.at
  BY <1>5, <1>6
<1>8. s \in DOMAIN insts /\ q \in Pins(insts, s) /\ insts[s].at[q] = e1 /\ l.at = [inst |-> s, pin |-> q]
  <2>1. l.at \in Data(e1)
    BY <1>4, <1>7 DEF Data
  <2> QED
    BY <2>1, CapturedPin
<1>9. s \notin Buffers(insts)
  BY <1>4, BufferCell
<1>10. s # f
  <2> SUFFICES ASSUME s = f PROVE FALSE
    OBVIOUS
  <2>1. q = flop.pin
    BY <1>4, <1>8 DEF f
  <2>2. n0 = e1
    BY <1>3, <1>8, <2>1
  <2> QED
    BY <1>1, <1>2, <1>3, <1>5, <1>7, <2>2, ConeApart
<1>11. ASSUME NEW p \in Outs(insts, f), NEW n \in Line(insts[f].at[p])
       PROVE  \/ p = l.out /\ n = e1
              \/ Readings(insts, n) = {}
              \/ \E r : Readings(insts, n) = {r} /\ r.inst \in Buffers(insts)
  <2>1. PICK e : /\ e \in Line(insts[f].at[p])
                 /\ \A m \in Line(insts[f].at[p]) : m \notin Line(e) => Crossed(m) # {}
                 /\ \A r : r \in Readings(insts, e) <=> p = l.out /\ r = l.at
    BY <1>6
  <2>2. \A r \in Readings(insts, e) : r.inst \notin Buffers(insts)
    BY <1>9, <2>1
  <2>3. n = e \/ \E r : Readings(insts, n) = {r} /\ r.inst \in Buffers(insts)
    BY <2>1, <2>2, Stretch
  <2>4. CASE n = e /\ p # l.out
    BY <2>1, <2>4
  <2>5. CASE n = e /\ p = l.out
    <3>1. s \in DOMAIN insts /\ l.at \in Readings(insts, e)
      BY <1>8, <2>1, <2>5
    <3>2. PICK i \in DOMAIN insts : \E k \in InsOf(insts, i) :
            insts[i].at[k] = e /\ l.at = [inst |-> i, pin |-> k]
      BY <3>1, InReadings
    <3>3. insts[s].at[q] = e
      BY <3>2
    <3> QED
      BY <1>8, <2>5, <3>3
  <2> QED
    BY <2>3, <2>4, <2>5
<1>12. \A n \in Chain(insts, f) : \A r, t \in Loads(insts, n) : r = t
  <2> SUFFICES ASSUME NEW n \in Chain(insts, f), NEW r \in Loads(insts, n), NEW t \in Loads(insts, n)
               PROVE  r = t
    OBVIOUS
  <2>1. PICK p \in Outs(insts, f) : n \in Line(insts[f].at[p])
    BY ChainIsLines
  <2>2. r \in Readings(insts, n) /\ t \in Readings(insts, n)
    BY <1>1, <1>3, <2>1, LoadsOfOutput
  <2> QED
    BY <1>7, <1>11, <2>1, <2>2
<1>13. T = {l.at}
  <2>1. ASSUME NEW r \in T PROVE r = l.at
    <3>1. PICK n \in Chain(insts, f) : r \in Loads(insts, n)
      OBVIOUS
    <3>2. PICK p \in Outs(insts, f) : n \in Line(insts[f].at[p])
      BY ChainIsLines
    <3>3. r \in Readings(insts, n)
      BY <1>1, <1>3, <3>1, <3>2, LoadsOfOutput
    <3> QED
      BY <1>7, <1>11, <3>2, <3>3
  <2>2. l.at \in T
    <3>1. e1 \in Chain(insts, f)
      BY <1>5, <1>7, ChainIsLines
    <3>2. l.at \in Loads(insts, e1)
      BY <1>1, <1>3, <1>5, <1>7, LoadsOfOutput
    <3> QED
      BY <1>9, <3>1, <3>2
  <2> HIDE DEF T
  <2> QED
    BY <2>1, <2>2
<1>14. Above(insts, s) \cap Above(insts, f) # {}
  BY <1>1, <1>3, <1>4, <1>8, SameClock
<1>15. Synchroniser(insts, f)
  BY <1>4, <1>8, <1>10, <1>12, <1>13, <1>14 DEF Synchroniser
<1> QED
  BY <1>15 DEF f

(* And a two-stage synchroniser has one load on the same clock.            *)
LEMMA OneLoadNeeded ==
  ASSUME insts \in Netlists, Passes(insts),
         Judging, outs = {}, chase = NoChase, Synchroniser(insts, flop.inst)
  PROVE  TwoStages
<1> DEFINE f == flop.inst
<1>1. Contended(insts) = {} /\ Unknown(insts) = {} /\ ~Cyclic(insts)
  BY DEF Passes
<1>2. /\ f \in DOMAIN insts /\ Sequential(insts, f)
      /\ flop.pin \in DATA_PINS /\ flop.pin \in Pins(insts, f)
  BY CapturedPin DEF Judging
<1>3. /\ \A p \in Outs(insts, f) : Gathered(p)
      /\ \A l \in loads : l = [out |-> l.out, at |-> l.at] /\ l.out \in Outs(insts, f)
  BY GatheredLoads
<1>4. /\ \A n \in Chain(insts, f) : \A r, t \in Loads(insts, n) : r = t
      /\ \E s \in DOMAIN insts \ {f} :
           /\ Sequential(insts, s)
           /\ Above(insts, s) \cap Above(insts, f) # {}
           /\ \E p \in DATA_PINS :
                {r \in UNION {Loads(insts, n) : n \in Chain(insts, f)} : r.inst \notin Buffers(insts)}
                  = {[inst |-> s, pin |-> p]}
  BY Zenon DEF Synchroniser
<1>5. PICK s \in DOMAIN insts, q \in DATA_PINS :
        /\ Sequential(insts, s)
        /\ Above(insts, s) \cap Above(insts, f) # {}
        /\ {r \in UNION {Loads(insts, n) : n \in Chain(insts, f)} : r.inst \notin Buffers(insts)}
             = {[inst |-> s, pin |-> q]}
  BY <1>4
<1> DEFINE T == {r \in UNION {Loads(insts, n) : n \in Chain(insts, f)} : r.inst \notin Buffers(insts)}
           x == [inst |-> s, pin |-> q]
<1>6. x.inst = s /\ x.pin = q
  OBVIOUS
<1>7. T = {x}
  BY <1>5
<1> HIDE DEF f, x
<1>8. \A p \in Outs(insts, f) : \A n \in Line(insts[f].at[p]) :
        n \in Chain(insts, f) /\ Loads(insts, n) = Readings(insts, n)
  BY <1>1, <1>2, LoadsOfOutput, ChainIsLines
<1>9. ASSUME NEW p \in Outs(insts, f)
      PROVE  \E e : /\ e \in Line(insts[f].at[p])
                    /\ \A r \in Readings(insts, e) : r = x
                    /\ \A r : [out |-> p, at |-> r] \in loads <=> r \in Readings(insts, e)
                    /\ \A n \in Line(insts[f].at[p]) : x \in Readings(insts, n) => n = e
  <2>1. PICK e : /\ Chased(p, e)
                 /\ Crossed(e) = {}
                 /\ \A r : [out |-> p, at |-> r] \in loads <=> r \in Readings(insts, e)
    BY <1>3 DEF Gathered
  <2>2. /\ e \in Line(insts[f].at[p])
        /\ \A m \in Line(insts[f].at[p]) : m \notin Line(e) => Crossed(m) # {}
    BY <2>1 DEF Chased, f
  <2>3. ASSUME NEW r \in Readings(insts, e) PROVE r.inst \notin Buffers(insts)
    <3> SUFFICES ASSUME r.inst \in Buffers(insts) PROVE FALSE
      OBVIOUS
    <3>1. \A t \in Readings(insts, e) : t = r
      BY <1>4, <1>8, <2>2 DEF f
    <3>2. Readings(insts, e) = {r}
      BY <3>1
    <3>3. Buffer(insts, r.inst) /\ \E o \in OUT_PINS : OutsOf(insts, r.inst) = {o}
      BY BufferCell
    <3>4. r.inst \in Crossed(e)
      BY <3>2, <3>3 DEF Crossed
    <3> QED
      BY <2>1, <3>4
  <2>4. ASSUME NEW r \in Readings(insts, e) PROVE r = x
    <3>1. r \in T
      BY <1>8, <2>2, <2>3
    <3> HIDE DEF T
    <3> QED
      BY <1>7, <3>1
  <2>5. ASSUME NEW n \in Line(insts[f].at[p]), x \in Readings(insts, n) PROVE n = e
    <3>1. n = e \/ \E r : Readings(insts, n) = {r} /\ r.inst \in Buffers(insts)
      BY <2>2, <2>3, Stretch
    <3>2. x.inst \notin Buffers(insts)
      BY <1>7
    <3> QED
      BY <2>5, <3>1, <3>2
  <2> QED
    BY <2>1, <2>2, <2>4, <2>5
<1>10. PICK p \in Outs(insts, f) : \E n \in Line(insts[f].at[p]) : x \in Readings(insts, n)
  <2>1. x \in T
    BY <1>7
  <2>2. PICK n \in Chain(insts, f) : x \in Loads(insts, n)
    BY <2>1
  <2>3. PICK p \in Outs(insts, f) : n \in Line(insts[f].at[p])
    BY ChainIsLines
  <2> QED
    BY <1>8, <2>2, <2>3
<1>11. PICK n \in Line(insts[f].at[p]) : x \in Readings(insts, n)
  BY <1>10
<1>12. s \in DOMAIN insts /\ q \in Pins(insts, s)
  <2>1. x \in Data(n)
    BY <1>5, <1>6, <1>11 DEF Data
  <2> QED
    BY <1>6, <2>1, CapturedPin
<1> DEFINE l == [out |-> p, at |-> x]
<1>13. l \in loads
  BY <1>9, <1>11
<1>14. ASSUME NEW k \in loads PROVE k = l
  <2>1. k = [out |-> k.out, at |-> k.at] /\ k.out \in Outs(insts, f)
    BY <1>3 DEF f
  <2>2. PICK e : /\ e \in Line(insts[f].at[k.out])
                 /\ \A r \in Readings(insts, e) : r = x
                 /\ \A r : [out |-> k.out, at |-> r] \in loads <=> r \in Readings(insts, e)
    BY <1>9, <2>1
  <2>3. k.at \in Readings(insts, e)
    BY <2>1, <2>2
  <2>4. k.at = x /\ x \in Readings(insts, e)
    BY <2>2, <2>3
  <2>5. e = n
    <3>1. PICK i \in DOMAIN insts : \E o \in InsOf(insts, i) :
            insts[i].at[o] = e /\ x = [inst |-> i, pin |-> o]
      BY <2>4, InReadings
    <3>2. PICK j \in DOMAIN insts : \E o \in InsOf(insts, j) :
            insts[j].at[o] = n /\ x = [inst |-> j, pin |-> o]
      BY <1>11, InReadings
    <3>3. insts[x.inst].at[x.pin] = e
      BY <3>1
    <3>4. insts[x.inst].at[x.pin] = n
      BY <3>2
    <3> QED
      BY <3>3, <3>4
  <2>6. k.out = p
    BY <1>1, <1>2, <1>11, <2>1, <2>2, <2>5, LinesApart
  <2> QED
    BY <2>1, <2>4, <2>6
<1>15. loads = {l} /\ l.at.inst = s /\ l.at.pin = q
  BY <1>6, <1>13, <1>14
<1>16. Clock(insts, s) = Clock(insts, f)
  BY <1>1, <1>2, <1>5, <1>12, SameClock
<1> HIDE DEF l
<1>17. \E k \in loads : /\ loads = {k} /\ Sequential(insts, k.at.inst) /\ k.at.pin \in DATA_PINS
                        /\ Clock(insts, k.at.inst) = Clock(insts, f)
  BY <1>5, <1>13, <1>15, <1>16
<1> QED
  BY <1>17 DEF TwoStages, f

-----------------------------------------------------------------------------
(* What of the judgement depends on the netlist, the input and the flop.   *)
LEMMA JudgeFrame ==
  ASSUME insts' = insts, start' = start
  PROVE  /\ Cone' = Cone
         /\ \A n : /\ Line(n)' = Line(n) /\ Data(n)' = Data(n) /\ Crossed(n)' = Crossed(n)
                   /\ Readings(insts, n)' = Readings(insts, n)
         /\ \A h : Documented(h)' = Documented(h)
         /\ flop' = flop => /\ OutsOf(insts, flop.inst)' = OutsOf(insts, flop.inst)
                            /\ \A p, e : Chased(p, e)' = Chased(p, e)
<1>1. Cone' = Cone
  BY Frame
<1>2. Carried' = Carried
  BY DEF Carried
<1>3. \A n : Line(n)' = Line(n)
  BY <1>2 DEF Line
<1>4. \A n : Data(n)' = Data(n) /\ Crossed(n)' = Crossed(n) /\ Readings(insts, n)' = Readings(insts, n)
  BY DEF Data, Crossed
<1>5. \A h : Documented(h)' = Documented(h)
  BY DEF Documented
<1>6. flop' = flop => \A p, e : Chased(p, e)' = Chased(p, e)
  BY <1>3, <1>4 DEF Chased
<1>7. flop' = flop => OutsOf(insts, flop.inst)' = OutsOf(insts, flop.inst)
  OBVIOUS
<1> QED
  BY <1>1, <1>3, <1>4, <1>5, <1>6, <1>7

(* A step that judges nothing and adds no verdict.                         *)
LEMMA JudgeAside ==
  ASSUME VInv, UNCHANGED <<insts, start, chase>>,
         \A r \in captures' : \E n \in Cone : r \in Data(n),
         phase # "judge", phase' # "judge",
         \A h \in hits' : h \in hits \/ h.kind \notin {"capture SYNC", "capture NOSYNC"}
  PROVE  VInv'
<1>1. \A r \in captures' : \E n \in Cone' : r \in Data(n)'
  BY JudgeFrame
<1>2. ASSUME Passes(insts)', InputsUndriven(insts)', NEW h \in AtPin' PROVE Documented(h)'
  <2>1. h \in hits' /\ h.inst # 0
    BY <1>2 DEF AtPin
  <2>2. CASE h \in hits
    BY <1>2, <2>1, <2>2, JudgeFrame DEF VInv, AtPin
  <2>3. CASE h.kind \notin {"capture SYNC", "capture NOSYNC"}
    BY <2>3 DEF Documented
  <2> QED
    BY <2>1, <2>2, <2>3
<1> QED
  BY <1>1, <1>2 DEF VInv

(* A step of the judgement itself.                                         *)
LEMMA JudgeOn ==
  ASSUME VInv, UNCHANGED <<insts, start, captures, hits>>, phase' = "judge", Judging'
  PROVE  VInv'
<1>1. AtPin' = AtPin
  BY DEF AtPin
<1>2. \A r \in captures' : \E n \in Cone' : r \in Data(n)'
  BY JudgeFrame DEF VInv
<1>3. Passes(insts)' /\ InputsUndriven(insts)' => \A h \in AtPin' : Documented(h)'
  BY <1>1, JudgeFrame DEF VInv
<1> QED
  BY <1>2, <1>3 DEF VInv

LEMMA InitVerdicts == Init => VInv
BY DEF Init, VInv, AtPin

LEMMA VisitVerdicts ==
  ASSUME IInv, VInv, NEW net \in frontier, Visit(net)
  PROVE  VInv'
<1>1. net \in Cone
  BY DEF IInv
<1>2. \A r \in captures' : \E n \in Cone : r \in Data(n)
  BY <1>1 DEF Visit, VInv
<1>3. \A r : Kind(r) \notin {"capture SYNC", "capture NOSYNC"}
  BY DEF Kind
<1>4. ASSUME NEW h \in hits' PROVE h \in hits \/ h.kind \notin {"capture SYNC", "capture NOSYNC"}
  <2>1. \/ h \in hits
        \/ \E r : h = Hit(Kind(r), net, r)
        \/ \E n : h = Hit("output port", n, None)
    BY DEF Visit
  <2>2. \A k, n, r : Hit(k, n, r).kind = k
    BY DEF Hit
  <2>3. ASSUME NEW r, h = Hit(Kind(r), net, r) PROVE h.kind = Kind(r)
    BY <2>2, <2>3
  <2>4. ASSUME NEW n, h = Hit("output port", n, None) PROVE h.kind = "output port"
    BY <2>2, <2>4
  <2> QED
    BY <1>3, <2>1, <2>3, <2>4
<1> QED
  BY <1>2, <1>4, JudgeAside DEF Visit

LEMMA JudgeVerdicts ==
  ASSUME VInv, NEW r \in captures, Judge(r)
  PROVE  VInv'
<1>1. /\ UNCHANGED <<insts, start, hits, chase>> /\ phase' = "judge" /\ captures' = captures \ {r}
      /\ flop' = r /\ outs' = OutsOf(insts, r.inst) /\ loads' = {} /\ chase = NoChase
  BY DEF Judge, VInv
<1>2. \E n \in Cone' : flop' \in Data(n)'
  BY <1>1, JudgeFrame DEF VInv
<1>3. Behind' = {}
  BY <1>1 DEF Behind
<1>4. Judging'
  BY <1>1, <1>2, <1>3 DEF Judging
<1>5. \A k \in captures' : \E n \in Cone' : k \in Data(n)'
  BY <1>1, JudgeFrame DEF VInv
<1>6. AtPin' = AtPin
  BY <1>1 DEF AtPin
<1>7. Passes(insts)' /\ InputsUndriven(insts)' => \A h \in AtPin' : Documented(h)'
  BY <1>1, <1>6, JudgeFrame DEF VInv
<1> QED
  BY <1>1, <1>4, <1>5, <1>7 DEF VInv

(* No output pin has an empty name.                                        *)
LEMMA NamedOutputs ==
  ASSUME NEW i PROVE "" \notin OutsOf(insts, i)
BY DEF OutsOf, Sky, Outs, OUT_PINS, Macro

(* An output that has been chased stays so until the loads are cleared.    *)
LEMMA GatheredStays ==
  ASSUME insts' = insts, start' = start, flop' = flop, NEW p, Gathered(p),
         \A r : [out |-> p, at |-> r] \in loads' <=> [out |-> p, at |-> r] \in loads
  PROVE  Gathered(p)'
<1>1. PICK e : /\ Chased(p, e) /\ Crossed(e) = {}
               /\ \A r : [out |-> p, at |-> r] \in loads <=> r \in Readings(insts, e)
  BY DEF Gathered
<1>2. /\ Chased(p, e)' /\ Crossed(e)' = {}
      /\ \A r : [out |-> p, at |-> r] \in loads' <=> r \in Readings(insts, e)'
  BY <1>1, JudgeFrame
<1> QED
  BY <1>2 DEF Gathered

LEMMA StartVerdicts ==
  ASSUME VInv, NEW p \in outs, StartChase(p)
  PROVE  VInv'
<1> DEFINE a == insts[flop.inst].at[p]
<1>1. /\ UNCHANGED <<insts, start, phase, hits, captures, flop, loads>> /\ phase = "judge"
      /\ chase = NoChase /\ outs' = outs \ {p} /\ chase' = [pin |-> p, net |-> a]
  BY DEF StartChase
<1>2. Judging /\ insts' = insts /\ start' = start /\ flop' = flop /\ loads' = loads
  BY <1>1 DEF VInv
<1>3. p \in OutsOf(insts, flop.inst) /\ outs \subseteq OutsOf(insts, flop.inst)
  BY <1>2 DEF Judging
<1>4. Behind' = Behind
  <2>1. Behind = OutsOf(insts, flop.inst) \ outs
    BY <1>1, NamedOutputs DEF Behind, NoChase
  <2>2. Behind' = OutsOf(insts, flop.inst) \ ((outs \ {p}) \cup {p})
    BY <1>1 DEF Behind
  <2> QED
    BY <2>1, <2>2
<1>5. Chased(p, a)
  <2>1. a \in Line(a)
    BY Leads DEF Line
  <2> QED
    BY <2>1 DEF Chased
<1> HIDE DEF a
<1>6. \A o \in Behind' : Gathered(o)'
  BY <1>2, <1>4, GatheredStays DEF Judging
<1>7. Chased(chase.pin, chase.net)'
  BY <1>1, <1>2, <1>5, JudgeFrame
<1>8. /\ \E n \in Cone' : flop' \in Data(n)'
      /\ outs' \subseteq OutsOf(insts, flop.inst)'
      /\ \A l \in loads' : l = [out |-> l.out, at |-> l.at] /\ l.out \in Behind'
  BY <1>1, <1>2, <1>3, <1>4, JudgeFrame DEF Judging
<1>9. chase' = [pin |-> chase'.pin, net |-> chase'.net] /\ chase'.pin \in OutsOf(insts, flop.inst)' \ outs'
  BY <1>1, <1>3
<1>10. Judging'
  BY <1>6, <1>7, <1>8, <1>9 DEF Judging
<1> QED
  BY <1>1, <1>10, JudgeOn

LEMMA CrossVerdicts ==
  ASSUME IInv, VInv, NEW i \in DOMAIN insts, CrossBuffer(i)
  PROVE  VInv'
<1>1. /\ UNCHANGED <<insts, start, phase, hits, captures, flop, outs, loads>> /\ phase = "judge"
      /\ chase # NoChase /\ i \in Crossed(chase.net)
  BY DEF CrossBuffer
<1>2. PICK n \in On(insts, i, OutsOf(insts, i)) : chase' = [chase EXCEPT !.net = n]
  BY DEF CrossBuffer
<1> DEFINE a == insts[flop.inst].at[chase.pin]
           m == chase.net
<1>3. /\ Judging /\ chase = [pin |-> chase.pin, net |-> chase.net]
      /\ chase.pin \in OutsOf(insts, flop.inst) \ outs /\ Chased(chase.pin, m)
      /\ insts \in Netlists /\ insts' = insts /\ start' = start /\ flop' = flop /\ loads' = loads
  BY <1>1 DEF VInv, Judging, IInv
<1>4. chase' = [pin |-> chase.pin, net |-> n]
  BY <1>2, <1>3
<1>5. m \in Line(a) /\ \A k \in Line(a) : k \notin Line(m) => Crossed(k) # {}
  BY <1>3 DEF Chased
<1> HIDE DEF a, m
<1>6. n \in Line(a)
  <2> DEFINE e == <<m, n>>
  <2>1. e \in Carried /\ e[1] = m /\ e[2] = n
    BY <1>1, <1>3, CrossedNet DEF m
  <2> HIDE DEF e
  <2>2. \A d \in Carried : d[1] \in Line(a) => d[2] \in Line(a)
    BY Leads DEF Line
  <2> QED
    BY <1>5, <2>1, <2>2
<1>7. \A k \in Line(a) : k \notin Line(n) => Crossed(k) # {}
  <2>1. Line(m) \subseteq {m} \cup Line(n)
    BY <1>1, <1>3, LineGoesOn DEF m
  <2>2. Crossed(m) # {}
    BY <1>1 DEF m
  <2> QED
    BY <1>5, <2>1, <2>2
<1>8. Chased(chase.pin, n)
  BY <1>6, <1>7 DEF Chased, a
<1>9. Chased(chase.pin, chase.net)'
  BY <1>3, <1>4, <1>8, JudgeFrame
<1>10. Behind' = Behind
  BY <1>1, <1>4 DEF Behind
<1>11. \A o \in Behind' : Gathered(o)'
  BY <1>3, <1>10, GatheredStays DEF Judging
<1>12. /\ \E k \in Cone' : flop' \in Data(k)'
       /\ outs' \subseteq OutsOf(insts, flop.inst)'
       /\ \A l \in loads' : l = [out |-> l.out, at |-> l.at] /\ l.out \in Behind'
  BY <1>1, <1>3, <1>10, JudgeFrame DEF Judging
<1>13. chase' = [pin |-> chase'.pin, net |-> chase'.net] /\ chase'.pin \in OutsOf(insts, flop.inst)' \ outs'
  BY <1>1, <1>3, <1>4
<1>14. Judging'
  BY <1>9, <1>11, <1>12, <1>13 DEF Judging
<1> QED
  BY <1>1, <1>14, JudgeOn

LEMMA EndVerdicts ==
  ASSUME VInv, EndChase
  PROVE  VInv'
<1>0. PICK p, e : p = chase.pin /\ e = chase.net
  OBVIOUS
<1> DEFINE new == {[out |-> p, at |-> r] : r \in Readings(insts, e)}
<1>1. /\ UNCHANGED <<insts, start, phase, hits, captures, flop, outs>> /\ phase = "judge"
      /\ chase # NoChase /\ Crossed(e) = {}
      /\ loads' = loads \cup new /\ chase' = NoChase
  BY <1>0 DEF EndChase
<1>2. /\ Judging /\ p \in OutsOf(insts, flop.inst) \ outs /\ Chased(p, e)
      /\ insts' = insts /\ start' = start /\ flop' = flop
  BY <1>0, <1>1 DEF VInv, Judging
<1>3. Behind' = Behind \cup {p}
  BY <1>0, <1>1, <1>2, NamedOutputs DEF Behind, NoChase
<1>4. p \notin Behind /\ \A l \in loads : l.out # p
  BY <1>0, <1>2 DEF Behind, Judging
<1>5. \A o, r : [out |-> o, at |-> r] \in new <=> o = p /\ r \in Readings(insts, e)
  OBVIOUS
<1>6. \A o, r : [out |-> o, at |-> r].out = o
  OBVIOUS
<1>7. Gathered(p)'
  <2>1. \A r : [out |-> p, at |-> r] \notin loads
    BY <1>4, <1>6
  <2>2. \A r : [out |-> p, at |-> r] \in loads' <=> r \in Readings(insts, e)
    BY <1>1, <1>5, <2>1
  <2>3. Chased(p, e)' /\ Crossed(e)' = {} /\ Readings(insts, e)' = Readings(insts, e)
    BY <1>1, <1>2, JudgeFrame
  <2> QED
    BY <2>2, <2>3 DEF Gathered
<1>8. \A o \in Behind : Gathered(o)'
  <2> SUFFICES ASSUME NEW o \in Behind PROVE Gathered(o)'
    OBVIOUS
  <2>1. \A r : [out |-> o, at |-> r] \in loads' <=> [out |-> o, at |-> r] \in loads
    BY <1>1, <1>4, <1>5
  <2>2. Gathered(o)
    BY <1>2 DEF Judging
  <2> QED
    BY <1>2, <2>1, <2>2, GatheredStays
<1>9. \A l \in loads' : l = [out |-> l.out, at |-> l.at] /\ l.out \in Behind'
  <2>1. ASSUME NEW l \in new PROVE l = [out |-> l.out, at |-> l.at] /\ l.out = p
    OBVIOUS
  <2>2. \A l \in loads : l = [out |-> l.out, at |-> l.at] /\ l.out \in Behind
    BY <1>2 DEF Judging
  <2> HIDE DEF new
  <2> QED
    BY <1>1, <1>3, <2>1, <2>2
<1>10. /\ \E n \in Cone' : flop' \in Data(n)'
       /\ outs' \subseteq OutsOf(insts, flop.inst)'
  BY <1>1, <1>2, JudgeFrame DEF Judging
<1>11. Judging'
  BY <1>1, <1>3, <1>7, <1>8, <1>9, <1>10 DEF Judging
<1> QED
  BY <1>1, <1>11, JudgeOn

LEMMA VerdictVerdicts ==
  ASSUME IInv, VInv, Verdict
  PROVE  VInv'
<1> DEFINE h == Hit(IF TwoStages THEN "capture SYNC" ELSE "capture NOSYNC",
                    insts[flop.inst].at[flop.pin], flop)
<1>1. /\ UNCHANGED <<insts, start, captures, chase>> /\ phase = "judge" /\ phase' = "trace"
      /\ outs = {} /\ chase = NoChase /\ hits' = hits \cup {h}
  BY DEF Verdict
<1>2. Judging /\ insts \in Netlists /\ insts' = insts /\ start' = start
  BY <1>1 DEF VInv, IInv
<1>3. /\ h.inst = flop.inst /\ h.pin = flop.pin
      /\ h.kind = IF TwoStages THEN "capture SYNC" ELSE "capture NOSYNC"
  BY DEF Hit
<1> HIDE DEF h
<1>4. ASSUME Passes(insts), InputsUndriven(insts) PROVE Documented(h)
  <2>1. start \in Nets /\ Drivers(insts, start) = {}
    BY <1>4 DEF VInv, InputsUndriven
  <2>2. Pins(insts, flop.inst) \cap DATA_PINS = {flop.pin} =>
          (TwoStages <=> Synchroniser(insts, flop.inst))
    BY <1>1, <1>2, <1>4, <2>1, OneLoadSuffices, OneLoadNeeded
  <2> QED
    BY <1>3, <2>2 DEF Documented
<1>5. ASSUME Passes(insts)', InputsUndriven(insts)', NEW k \in AtPin' PROVE Documented(k)'
  <2>1. k = h \/ k \in AtPin
    BY <1>1 DEF AtPin
  <2>2. Passes(insts) /\ InputsUndriven(insts)
    BY <1>2, <1>5
  <2>3. Documented(k)
    BY <1>4, <2>1, <2>2 DEF VInv
  <2> QED
    BY <1>2, <2>3, JudgeFrame
<1>6. \A r \in captures' : \E n \in Cone' : r \in Data(n)'
  BY <1>1, JudgeFrame DEF VInv
<1> QED
  BY <1>1, <1>5, <1>6 DEF VInv

LEMMA NextVerdicts ==
  ASSUME IInv, VInv, [Next]_vars
  PROVE  VInv'
<1>1. CASE Build
  BY <1>1, JudgeAside DEF Build, VInv
<1>2. ASSUME NEW net \in frontier, Visit(net) PROVE VInv'
  BY <1>2, VisitVerdicts
<1>3. ASSUME NEW r \in captures, Judge(r) PROVE VInv'
  BY <1>3, JudgeVerdicts
<1>4. ASSUME NEW p \in outs, StartChase(p) PROVE VInv'
  BY <1>4, StartVerdicts
<1>5. ASSUME NEW i \in DOMAIN insts, CrossBuffer(i) PROVE VInv'
  BY <1>5, CrossVerdicts
<1>6. CASE EndChase
  BY <1>6, EndVerdicts
<1>7. CASE Verdict
  BY <1>7, VerdictVerdicts
<1>8. CASE Finish
  BY <1>8, JudgeAside DEF Finish, VInv
<1>9. CASE UNCHANGED vars
  <2>1. /\ UNCHANGED <<insts, start, phase, hits, captures, flop, outs, chase, loads>>
    BY <1>9 DEF vars
  <2>2. CASE phase # "judge"
    BY <2>1, <2>2, JudgeAside DEF VInv
  <2>3. CASE phase = "judge"
    <3>1. Judging /\ Behind' = Behind
      BY <2>1, <2>3 DEF VInv, Behind
    <3>2. \A o \in Behind' : Gathered(o)'
      BY <2>1, <3>1, GatheredStays DEF Judging
    <3>3. chase' # NoChase => Chased(chase.pin, chase.net)'
      BY <2>1, <3>1, JudgeFrame DEF Judging
    <3>4. Judging'
      BY <2>1, <3>1, <3>2, <3>3, JudgeFrame DEF Judging
    <3> QED
      BY <2>1, <2>3, <3>4, JudgeOn
  <2> QED
    BY <2>2, <2>3
<1> QED
  BY <1>1, <1>2, <1>3, <1>4, <1>5, <1>6, <1>7, <1>8, <1>9 DEF Next

(* Every capture is judged as the header describes it, on every netlist    *)
(* that passes and drives none of its inputs, in every order of nets,      *)
(* captures and outputs: the chases find the readers that end the lines of *)
(* the flop, and the walks to the clock roots meet when the trees do.      *)
THEOREM VerdictsDocumented == Spec => []VerdictIsDocumented
<1>1. Spec => []VInv
  <2>1. IInv /\ IInv' /\ VInv /\ [Next]_vars => VInv'
    BY NextVerdicts
  <2> QED
    BY <2>1, InitVerdicts, Invariance, PTL DEF Spec
<1>2. VInv => VerdictIsDocumented
  BY DEF VInv, VerdictIsDocumented, Documented
<1> QED
  BY <1>1, <1>2, PTL

=============================================================================
