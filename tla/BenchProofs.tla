---------------------------- MODULE BenchProofs ----------------------------
(***************************************************************************)
(* The simulation bench, for every latency, timeout, memory, length of run *)
(* and core: what the memory answers, what the monitors report, and what   *)
(* the histogram of the retirement gaps counts.                            *)
(***************************************************************************)
EXTENDS MCTestBench, FiniteSetTheorems, TLAPS

(* A composed run is one of each of its parts.                             *)
LEMMA RunsTheBench == BenchSpec => Spec
<1>1. BenchInit => Init
  BY DEF BenchInit
<1>2. [BenchStep \/ MeasureStep]_<<part, vars, measure>> => [Next]_vars
  BY DEF BenchStep, MeasureStep, Next
<1>3. QED
  BY <1>1, <1>2, PTL DEF BenchSpec, Spec

LEMMA RunsTheMeasure == BenchSpec => Measure!Spec
<1>1. BenchInit => Measure!Init
  BY DEF BenchInit
<1>2. [BenchStep \/ MeasureStep]_<<part, vars, measure>> => [Measure!Next]_(Measure!vars)
  BY DEF BenchStep, MeasureStep, measure, Measure!vars
<1>3. QED
  BY <1>1, <1>2, PTL DEF BenchSpec, Measure!Spec
-----------------------------------------------------------------------------
(* The wires.                                                              *)
LEMMA SomeWords == Words # {} /\ (CHOOSE w \in Words : TRUE) \in Words
<1>1. PICK v \in Values : TRUE
  BY Parameters
<1>2. [l \in Lanes |-> v] \in Words
  BY <1>1 DEF Words
<1>3. QED BY <1>2

LEMMA WiresAreSignals ==
  ASSUME NEW c \in BOOLEAN, NEW s \in BOOLEAN
  PROVE  /\ Wires(c, s) \in Signals
         /\ Wires(c, s).cyc = c /\ Wires(c, s).stb = s /\ ~Wires(c, s).we
         /\ [Wires(c, s) EXCEPT !.we = TRUE] \in Signals
         /\ [Wires(c, s) EXCEPT !.we = TRUE].cyc = c
         /\ [Wires(c, s) EXCEPT !.we = TRUE].stb = s
BY SomeWords, Parameters DEF Wires, Signals

LEMMA RequestsAreSignals ==
  ASSUME NEW p, NEW r \in Requests(p)
  PROVE  /\ r \in Signals
         /\ r.cyc /\ r.stb
         /\ p = "i" => ~r.we
BY SomeWords DEF Requests, Reads, Writes, Signals
-----------------------------------------------------------------------------
(* Type correctness of the bench.                                          *)
Clauses == {"G1", "G2", "G3", "G4"}

TypeOK ==
  /\ held \in Manners
  /\ sig \in [Ports -> Signals]
  /\ ack \in [Ports -> BOOLEAN] /\ busy \in [Ports -> BOOLEAN]
  /\ miso \in [Ports -> Words]
  /\ lat \in [Ports -> Nat] /\ age \in [Ports -> Nat] /\ txn \in [Ports -> Nat]
  /\ ram \in [0 .. RAM_WORDS - 1 -> Words]
  /\ viol \in [Ports -> SUBSET Clauses]
  /\ DOMAIN hold = Ports
  /\ d_wr \in Nat /\ cycles \in Nat /\ wrote \in Nat
  /\ fresh \subseteq Ports /\ breach \subseteq Ports

LEMMA Drivable ==
  ASSUME TypeOK, NEW p \in Ports, NEW s \in Drives(p)
  PROVE  /\ s \in Signals
         /\ p \in held /\ Pending(p) => s = sig[p]
         /\ p \in held /\ ~Pending(p) =>
              /\ s.stb => s.cyc
              /\ p = "i" => ~s.we
<1>1. CASE p \in held /\ Pending(p)
  BY <1>1 DEF Drives, TypeOK
<1>2. CASE p \in held /\ ~Pending(p)
  <2>1. s \in Requests(p) \cup Quiet
    BY <1>2 DEF Drives
  <2>2. QED BY <1>2, <2>1, RequestsAreSignals, WiresAreSignals DEF Quiet
<1>3. CASE p \notin held
  <2>1. s \in Requests(p) \cup Quiet \cup Unruly
    BY <1>3 DEF Drives
  <2>2. QED BY <1>3, <2>1, RequestsAreSignals, WiresAreSignals DEF Quiet, Unruly
<1>4. QED BY <1>1, <1>2, <1>3

LEMMA IndexInRam == ASSUME NEW a \in Adrs PROVE Index(a) \in 0 .. RAM_WORDS - 1
BY Parameters DEF Index

LEMMA WordsOfTheMemory ==
  ASSUME TypeOK, NEW a \in Adrs
  PROVE  Rd(a) \in Words
<1>1. Flash(a) \in Words
  BY Parameters DEF Flash, Words
<1>2. ram[Index(a)] \in Words
  BY IndexInRam DEF TypeOK
<1>3. QED BY <1>1, <1>2 DEF Rd

LEMMA StartsTyped == Init => TypeOK
<1>1. SUFFICES ASSUME Init PROVE TypeOK
  OBVIOUS
<1>2. Wires(FALSE, FALSE) \in Signals /\ Wires(FALSE, FALSE).mosi \in Words
  BY WiresAreSignals DEF Signals
<1>3. QED BY <1>1, <1>2 DEF Init, TypeOK

LEMMA StepsTyped ==
  ASSUME TypeOK, [Next]_vars
  PROVE  TypeOK'
<1>1. CASE Edge
  <2>1. \A p \in Ports : sig[p].adr \in Adrs /\ sig[p].mosi \in Words
    BY DEF TypeOK, Signals
  <2>2. held' \in Manners
    BY <1>1 DEF Edge, Core, TypeOK
  <2>3. sig' \in [Ports -> Signals]
    <3>1. \A p \in Ports : sig'[p] \in Signals
      BY <1>1, Drivable DEF Edge, Core
    <3>2. sig' = [p \in Ports |-> sig'[p]]
      BY <1>1 DEF Edge, Core
    <3>3. QED BY <3>1, <3>2
  <2>4. ack' \in [Ports -> BOOLEAN] /\ busy' \in [Ports -> BOOLEAN]
    BY <1>1 DEF Edge, Memory, Monitor, Answers, Pending, Requested
  <2>5. miso' \in [Ports -> Words]
    BY <1>1, <2>1, WordsOfTheMemory DEF Edge, Memory, TypeOK
  <2>6. lat' \in [Ports -> Nat]
    BY <1>1 DEF Edge, Memory, TypeOK
  <2>7. age' \in [Ports -> Nat] /\ txn' \in [Ports -> Nat]
    BY <1>1 DEF Edge, Monitor, TypeOK
  <2>8. ram' \in [0 .. RAM_WORDS - 1 -> Words]
    <3>1. CASE Writing
      <4>1. /\ Index(sig["d"].adr) \in 0 .. RAM_WORDS - 1
            /\ "d" \in Ports
            /\ ram[Index(sig["d"].adr)] \in Words
        BY <3>1, <2>1, IndexInRam DEF Writing, TypeOK
      <4>2. [l \in Lanes |-> IF l \in sig["d"].sel THEN sig["d"].mosi[l]
                             ELSE ram[Index(sig["d"].adr)][l]] \in Words
        BY <4>1, <2>1 DEF Words
      <4>3. QED BY <1>1, <4>1, <4>2 DEF Edge, Memory, TypeOK
    <3>2. CASE ~Writing
      BY <1>1, <3>2 DEF Edge, Memory, TypeOK
    <3>3. QED BY <3>1, <3>2
  <2>9. viol' \in [Ports -> SUBSET Clauses] /\ DOMAIN hold' = Ports
    BY <1>1 DEF Edge, Monitor, TypeOK, Clauses
  <2>10. d_wr' \in Nat /\ cycles' \in Nat /\ wrote' \in Nat
    BY <1>1 DEF Edge, Memory, Monitor, TypeOK
  <2>11. fresh' \subseteq Ports /\ breach' \subseteq Ports
    BY <1>1 DEF Edge, Core, TypeOK
  <2>12. QED
    BY <2>2, <2>3, <2>4, <2>5, <2>6, <2>7, <2>8, <2>9, <2>10, <2>11 DEF TypeOK
<1>2. CASE UNCHANGED vars
  BY <1>2 DEF vars, memory, monitor, TypeOK
<1>3. QED BY <1>1, <1>2 DEF Next

(* The variables of the bench keep their types.                            *)
THEOREM BenchTyped == BenchSpec => []TypeOK
<1>1. Spec => []TypeOK
  BY StartsTyped, StepsTyped, PTL DEF Spec
<1>2. QED
  BY <1>1, RunsTheBench, PTL
-----------------------------------------------------------------------------
(* The wait of a pending request: the monitor's age runs behind the        *)
(* memory's count, which a withdrawn strobe does not reset.                *)
Waiting ==
  \A p \in Ports :
    /\ lat[p] <= MEM_LAT
    /\ ack[p] => busy[p]
    /\ busy[p] /\ ~ack[p] => age[p] < lat[p]
    /\ busy[p] /\ ack[p] => age[p] <= MEM_LAT

LEMMA StepsWait ==
  ASSUME TypeOK, Waiting, [Next]_vars
  PROVE  Waiting'
<1>1. CASE Edge
  <2>1. SUFFICES ASSUME NEW p \in Ports
                 PROVE  /\ lat'[p] <= MEM_LAT
                        /\ ack'[p] => busy'[p]
                        /\ busy'[p] /\ ~ack'[p] => age'[p] < lat'[p]
                        /\ busy'[p] /\ ack'[p] => age'[p] <= MEM_LAT
    BY DEF Waiting
  <2>2. /\ ack'[p] = Answers(p)
        /\ lat'[p] = IF Answers(p) THEN 0 ELSE IF Pending(p) THEN lat[p] + 1
                     ELSE IF sig[p].cyc THEN lat[p] ELSE 0
        /\ busy'[p] = Pending(p)
        /\ age'[p] = IF Opens(p) THEN 0 ELSE IF Requested(p) THEN age[p] + 1 ELSE age[p]
    BY <1>1, <2>1 DEF Edge, Memory, Monitor
  <2>3. /\ MEM_LAT \in Nat /\ lat[p] \in Nat /\ age[p] \in Nat
        /\ lat[p] <= MEM_LAT
        /\ busy[p] /\ ~ack[p] => age[p] < lat[p]
    BY <2>1, Parameters DEF TypeOK, Waiting
  <2>4. CASE Pending(p)
    <3>1. ~ack[p] /\ Requested(p)
      BY <2>4 DEF Pending
    <3>2. age'[p] = 0 \/ (busy[p] /\ age'[p] = age[p] + 1)
      BY <2>2, <3>1 DEF Opens
    <3>3. CASE lat[p] >= MEM_LAT
      <4>1. Answers(p)
        BY <2>4, <3>3 DEF Answers
      <4>2. ack'[p] /\ lat'[p] = 0
        BY <2>2, <4>1
      <4>3. age'[p] <= MEM_LAT
        BY <2>3, <3>1, <3>2
      <4>4. QED BY <2>2, <2>3, <2>4, <4>2, <4>3
    <3>4. CASE ~(lat[p] >= MEM_LAT)
      <4>1. ~Answers(p)
        BY <3>4 DEF Answers
      <4>2. ~ack'[p] /\ lat'[p] = lat[p] + 1
        BY <2>2, <2>4, <4>1
      <4>3. age'[p] < lat'[p] /\ lat'[p] <= MEM_LAT
        BY <2>3, <3>1, <3>2, <3>4, <4>2
      <4>4. QED BY <4>2, <4>3
    <3>5. QED BY <3>3, <3>4
  <2>5. CASE ~Pending(p)
    <3>1. ~Answers(p) /\ ~ack'[p] /\ ~busy'[p]
      BY <2>2, <2>5 DEF Answers
    <3>2. lat'[p] <= MEM_LAT
      BY <2>2, <2>3, <2>5, <3>1
    <3>3. QED BY <3>1, <3>2
  <2>6. QED BY <2>4, <2>5
<1>2. CASE UNCHANGED vars
  BY <1>2 DEF vars, memory, monitor, Waiting
<1>3. QED BY <1>1, <1>2 DEF Next

LEMMA BenchWaits == Spec => [](TypeOK /\ Waiting)
<1>1. Init => TypeOK /\ Waiting
  <2>1. SUFFICES ASSUME Init PROVE Waiting
    BY StartsTyped
  <2>2. ASSUME NEW p \in Ports
        PROVE  lat[p] = 0 /\ ack[p] = FALSE /\ busy[p] = FALSE
    BY <2>1 DEF Init
  <2>3. 0 <= MEM_LAT
    BY Parameters
  <2>4. QED BY <2>2, <2>3 DEF Waiting
<1>2. TypeOK /\ Waiting /\ [Next]_vars => (TypeOK /\ Waiting)'
  BY StepsTyped, StepsWait
<1>3. QED BY <1>1, <1>2, PTL DEF Spec

(* A request the memory has yet to answer has not aged past the wait       *)
(* states, for any core.                                                   *)
THEOREM AnswersInTime == BenchSpec => []AnswerInTime
<1>1. TypeOK /\ Waiting => AnswerInTime
  <2>1. SUFFICES ASSUME TypeOK, Waiting, NEW p \in Ports, busy[p]
                 PROVE  age[p] <= MEM_LAT
    BY DEF AnswerInTime
  <2>2. /\ MEM_LAT \in Nat /\ lat[p] \in Nat /\ age[p] \in Nat
        /\ lat[p] <= MEM_LAT
        /\ ~ack[p] => age[p] < lat[p]
        /\ ack[p] => age[p] <= MEM_LAT
    BY <2>1, Parameters DEF TypeOK, Waiting
  <2>3. QED BY <2>2
<1>2. QED BY <1>1, BenchWaits, RunsTheBench, PTL
-----------------------------------------------------------------------------
(* A bus whose core holds its requests: the monitor's copy is the request, *)
(* which stays until the edge after its acknowledgement.                   *)
Holding ==
  \A p \in held :
    /\ busy[p] => Requested(p) /\ hold[p] = Attributes(p, sig[p])
    /\ sig[p].stb => sig[p].cyc
    /\ p = "i" => ~sig[p].we
    /\ MEM_LAT <= Timeout => viol[p] = {}

LEMMA HeldArePorts == TypeOK => held \subseteq Ports
BY Parameters DEF TypeOK

(* What an edge does on such a bus.                                        *)
LEMMA HeldEdge ==
  ASSUME TypeOK, Holding, Edge, NEW p \in held
  PROVE  /\ p \in Ports /\ held' = held
         /\ Pending(p) => sig'[p] = sig[p] /\ Requested(p)' /\ busy'[p]
         /\ ~Pending(p) => ~busy'[p] /\ ~ack'[p]
         /\ ack'[p] = Answers(p)
         /\ sig'[p].stb => sig'[p].cyc
         /\ p = "i" => ~sig'[p].we
<1>1. p \in Ports
  BY HeldArePorts
<1>2. /\ held' = held
      /\ sig'[p] \in Drives(p)
      /\ ack'[p] = Answers(p) /\ busy'[p] = Pending(p)
  BY <1>1 DEF Edge, Core, Memory, Monitor
<1>3. CASE Pending(p)
  <2>1. sig'[p] = sig[p]
    BY <1>1, <1>2, <1>3, Drivable
  <2>2. Requested(p)
    BY <1>3 DEF Pending
  <2>3. QED BY <1>1, <1>2, <1>3, <2>1, <2>2 DEF Holding, Requested
<1>4. CASE ~Pending(p)
  <2>1. ~Answers(p)
    BY <1>4 DEF Answers
  <2>2. QED BY <1>1, <1>2, <1>4, <2>1, Drivable
<1>5. QED BY <1>3, <1>4

LEMMA StepsHold ==
  ASSUME TypeOK, Waiting, Holding, [Next]_vars
  PROVE  Holding'
<1>1. CASE Edge
  <2>1. SUFFICES ASSUME NEW p \in held
                 PROVE  /\ busy'[p] => Requested(p)' /\ hold'[p] = Attributes(p, sig'[p])
                        /\ sig'[p].stb => sig'[p].cyc
                        /\ p = "i" => ~sig'[p].we
                        /\ MEM_LAT <= Timeout => viol'[p] = {}
    BY <1>1 DEF Edge, Core, Holding, Attributes
  <2>2. p \in Ports
    BY HeldArePorts
  <2>3. busy'[p] => Requested(p)' /\ hold'[p] = Attributes(p, sig'[p])
    <3>1. SUFFICES ASSUME Pending(p) PROVE Requested(p)' /\ hold'[p] = Attributes(p, sig'[p])
      BY <1>1, HeldEdge
    <3>2. sig'[p] = sig[p] /\ Requested(p)' /\ Requested(p)
      BY <1>1, <3>1, HeldEdge DEF Pending
    <3>3. hold'[p] = IF Opens(p) THEN Attributes(p, sig[p]) ELSE hold[p]
      BY <1>1, <2>2 DEF Edge, Monitor
    <3>4. ~Opens(p) => hold[p] = Attributes(p, sig[p])
      BY <3>2 DEF Opens, Holding
    <3>5. QED BY <3>2, <3>3, <3>4
  <2>4. ASSUME MEM_LAT <= Timeout PROVE viol'[p] = {}
    <3>1. viol[p] = {}
      BY <2>4 DEF Holding
    <3>2. G1(p) /\ G4(p)
      BY DEF Holding, G1, G4
    <3>3. G2(p)
      BY DEF Holding, G2
    <3>4. G3(p)
      <4>1. /\ MEM_LAT \in Nat /\ Timeout \in Nat /\ lat[p] \in Nat /\ age[p] \in Nat
            /\ lat[p] <= MEM_LAT
            /\ busy[p] /\ ~ack[p] => age[p] < lat[p]
            /\ busy[p] /\ ack[p] => age[p] <= MEM_LAT
        BY <2>2, Parameters DEF TypeOK, Waiting
      <4>2. busy[p] => age[p] <= Timeout
        BY <2>4, <4>1
      <4>3. QED BY <4>2 DEF G3
    <3>5. QED BY <1>1, <2>2, <3>1, <3>2, <3>3, <3>4 DEF Edge, Monitor
  <2>5. QED BY <1>1, <2>3, <2>4, HeldEdge
<1>2. CASE UNCHANGED vars
  BY <1>2 DEF vars, memory, monitor, Holding, Requested, Attributes
<1>3. QED BY <1>1, <1>2 DEF Next

LEMMA BenchHolds == Spec => [](TypeOK /\ Waiting /\ Holding)
<1>1. Init => Holding
  <2>1. SUFFICES ASSUME Init, NEW p \in held
                 PROVE  /\ ~busy[p]
                        /\ sig[p].stb => sig[p].cyc
                        /\ p = "i" => ~sig[p].we
                        /\ viol[p] = {}
    BY DEF Holding
  <2>2. p \in Ports /\ sig[p] = Wires(FALSE, FALSE)
    BY <2>1, Parameters DEF Init
  <2>3. QED BY <2>1, <2>2, WiresAreSignals DEF Init
<1>2. TypeOK /\ Waiting /\ Holding /\ [Next]_vars => Holding'
  BY StepsHold
<1>3. QED BY <1>1, <1>2, BenchWaits, PTL DEF Spec

(* A bus whose core holds its requests is never blamed when the timeout    *)
(* leaves room for the wait states, whatever happens on the other bus.     *)
THEOREM NeverFalselyBlamed == BenchSpec => []NoFalseAlarm
<1>1. Holding => NoFalseAlarm
  BY DEF Holding, NoFalseAlarm
<1>2. QED BY <1>1, BenchHolds, RunsTheBench, PTL
-----------------------------------------------------------------------------
(* The memory performs each write of a core that holds its requests once:  *)
(* at the edge that acknowledges it, and the next edge counts it.          *)
LEMMA StepsCount ==
  ASSUME TypeOK, Holding, WritesCounted, [Next]_vars
  PROVE  WritesCounted'
<1>1. CASE Edge
  <2>1. SUFFICES ASSUME "d" \in held
                 PROVE  wrote' = d_wr' + (IF Answered("d")' /\ sig'["d"].we THEN 1 ELSE 0)
    BY <1>1 DEF Edge, Core, WritesCounted
  <2>2. /\ "d" \in Ports /\ wrote \in Nat /\ d_wr \in Nat
        /\ wrote = d_wr + (IF Answered("d") /\ sig["d"].we THEN 1 ELSE 0)
    BY <2>1, HeldArePorts DEF TypeOK, WritesCounted
  <2>3. /\ wrote' = IF Writing THEN wrote + 1 ELSE wrote
        /\ d_wr' = IF Answered("d") /\ sig["d"].we THEN d_wr + 1 ELSE d_wr
    BY <1>1, <2>2 DEF Edge, Memory, Monitor
  <2>4. CASE Answers("d")
    <3>1. ~Answered("d") /\ Pending("d") /\ ack'["d"]
      BY <1>1, <2>1, <2>4, HeldEdge DEF Answers, Answered, Pending
    <3>2. sig'["d"] = sig["d"] /\ Requested("d")'
      BY <1>1, <2>1, <3>1, HeldEdge
    <3>3. Answered("d")'
      BY <3>1, <3>2 DEF Answered
    <3>4. Writing <=> sig["d"].we
      BY <2>2, <2>4 DEF Writing
    <3>5. QED BY <2>2, <2>3, <3>1, <3>2, <3>3, <3>4
  <2>5. CASE ~Answers("d")
    <3>1. ~Writing
      BY <2>5 DEF Writing
    <3>2. ~ack'["d"]
      BY <1>1, <2>1, <2>5, HeldEdge
    <3>3. ~Answered("d")'
      BY <3>2 DEF Answered
    <3>4. QED BY <2>2, <2>3, <3>1, <3>3
  <2>6. QED BY <2>4, <2>5
<1>2. CASE UNCHANGED vars
  BY <1>2 DEF vars, memory, monitor, WritesCounted, Answered, Requested
<1>3. QED BY <1>1, <1>2 DEF Next

(* What the memory has performed on such a bus is what the SUMMARY counts, *)
(* but for an acknowledgement the monitor has yet to sample.               *)
THEOREM EachWriteOnce == BenchSpec => []WritesCounted
<1>1. Init => WritesCounted
  <2>1. SUFFICES ASSUME Init, "d" \in held
                 PROVE  wrote = 0 /\ d_wr = 0 /\ ~ack["d"]
    BY DEF WritesCounted, Answered
  <2>2. "d" \in Ports
    BY <2>1, HeldArePorts, StartsTyped
  <2>3. QED BY <2>1, <2>2 DEF Init
<1>2. TypeOK /\ Holding /\ WritesCounted /\ [Next]_vars => WritesCounted'
  BY StepsCount
<1>3. Spec => []WritesCounted
  BY <1>1, <1>2, BenchHolds, PTL DEF Spec
<1>4. QED BY <1>3, RunsTheBench, PTL
-----------------------------------------------------------------------------
(* The word of an acknowledged read.                                       *)
LEMMA StepsRead ==
  ASSUME TypeOK, Holding, ReadsCurrent, [Next]_vars
  PROVE  ReadsCurrent'
<1>1. CASE Edge
  <2> DEFINE Overtaken(p) == /\ p = "i" /\ "d" \in Ports
                             /\ Answered("d") /\ sig["d"].we
                             /\ Index(sig["d"].adr) = Index(sig["i"].adr)
  <2>1. SUFFICES ASSUME held = Ports, NEW p \in Ports, Answered(p)', ~sig'[p].we
                 PROVE  miso'[p] = Rd(sig[p].adr)' \/ Overtaken(p)'
    BY <1>1 DEF Edge, Core, ReadsCurrent
  <2>2. Answers(p) /\ Pending(p) /\ sig'[p] = sig[p]
    BY <1>1, <2>1, HeldEdge DEF Answered, Answers
  <2>3. sig[p].adr \in Adrs
    BY DEF TypeOK, Signals
  <2>4. miso'[p] = Rd(sig[p].adr)
    <3>1. Loading(p)
      BY <2>1, <2>2 DEF Loading
    <3>2. QED BY <1>1, <3>1 DEF Edge, Memory
  <2>5. CASE ~(Writing /\ sig["d"].adr < FLASH_BASE)
    <3>1. ram' = ram
      BY <1>1, <2>5 DEF Edge, Memory
    <3>2. Rd(sig[p].adr)' = Rd(sig[p].adr)
      BY <2>2, <3>1 DEF Rd
    <3>3. QED BY <2>4, <3>2
  <2>6. CASE Writing /\ sig["d"].adr < FLASH_BASE
    <3>1. /\ "d" \in Ports /\ Answers("d") /\ sig["d"].we
          /\ p = "i"
      <4>1. "d" \in Ports /\ Answers("d") /\ sig["d"].we
        BY <2>6 DEF Writing
      <4>2. p # "d"
        BY <2>1, <2>2, <4>1
      <4>3. QED BY <4>1, <4>2, Parameters
    <3>2. /\ Answered("d")' /\ sig'["d"] = sig["d"]
      <4>1. Pending("d")
        BY <3>1 DEF Answers
      <4>2. sig'["d"] = sig["d"] /\ Requested("d")' /\ ack'["d"]
        BY <1>1, <2>1, <3>1, <4>1, HeldEdge
      <4>3. QED BY <4>2 DEF Answered
    <3>3. CASE Index(sig["d"].adr) = Index(sig["i"].adr)
      BY <2>2, <3>1, <3>2, <3>3 DEF Index
    <3>4. CASE Index(sig["d"].adr) # Index(sig["i"].adr)
      <4>1. Index(sig["i"].adr) \in DOMAIN ram
        BY <2>3, <3>1, IndexInRam DEF TypeOK
      <4>2. ram'[Index(sig["i"].adr)] = ram[Index(sig["i"].adr)]
        BY <1>1, <2>6, <3>4, <4>1 DEF Edge, Memory
      <4>3. Rd(sig[p].adr)' = Rd(sig[p].adr)
        BY <2>2, <3>1, <4>2 DEF Rd, Index
      <4>4. QED BY <2>4, <4>3
    <3>5. QED BY <3>3, <3>4
  <2>7. QED BY <2>5, <2>6
<1>2. CASE UNCHANGED vars
  BY <1>2 DEF vars, memory, monitor, ReadsCurrent, Answered, Requested, Rd
<1>3. QED BY <1>1, <1>2 DEF Next

(* An acknowledged read returns the word its address holds at that moment; *)
(* a fetch answered together with a store to it, the one from before.      *)
THEOREM CurrentReads == BenchSpec => []ReadsCurrent
<1>1. Init => ReadsCurrent
  <2>1. SUFFICES ASSUME Init, NEW p \in Ports
                 PROVE  ~Answered(p)
    BY DEF ReadsCurrent
  <2>2. QED BY <2>1 DEF Init, Answered
<1>2. TypeOK /\ Holding /\ ReadsCurrent /\ [Next]_vars => ReadsCurrent'
  BY StepsRead
<1>3. Spec => []ReadsCurrent
  BY <1>1, <1>2, BenchHolds, PTL DEF Spec
<1>4. QED BY <1>3, RunsTheBench, PTL
-----------------------------------------------------------------------------
(* Until a bus's first change, its monitor's copy is the pending request:  *)
(* the edge after the change is the one that disagrees.                    *)
Watching ==
  \A p \in Ports \ breach : p \in fresh <=> ~G2(p)

LEMMA StepsWatch ==
  ASSUME TypeOK, Watching, ChangesCaught, [Next]_vars
  PROVE  Watching' /\ ChangesCaught'
<1>1. CASE Edge
  <2>1. breach' = breach \cup fresh
    BY <1>1 DEF Edge, Core
  <2>2. Watching'
    <3>1. SUFFICES ASSUME NEW p \in Ports, p \notin breach, p \notin fresh
                   PROVE  p \in fresh' <=> ~G2(p)'
      BY <2>1 DEF Watching
    <3>2. G2(p)
      BY <3>1 DEF Watching
    <3>3. /\ busy'[p] = Pending(p)
          /\ hold'[p] = IF Opens(p) THEN Attributes(p, sig[p]) ELSE hold[p]
          /\ p \in fresh' <=> /\ Pending(p) /\ Requested(p)'
                              /\ Attributes(p, sig'[p]) # Attributes(p, sig[p])
      BY <1>1 DEF Edge, Core, Monitor
    <3>4. Pending(p) => hold'[p] = Attributes(p, sig[p])
      BY <3>2, <3>3 DEF G2, Pending, Opens
    <3>5. G2(p)' <=> (Requested(p)' /\ busy'[p] => Attributes(p, sig'[p]) = hold'[p])
      BY DEF G2, Attributes
    <3>6. QED BY <3>3, <3>4, <3>5
  <2>3. ChangesCaught'
    <3>1. SUFFICES ASSUME NEW p \in Ports
                   PROVE  p \in breach' <=> "G2" \in viol'[p]
      BY DEF ChangesCaught
    <3>2. "G2" \in viol'[p] <=> "G2" \in viol[p] \/ ~G2(p)
      BY <1>1 DEF Edge, Monitor
    <3>3. p \in breach <=> "G2" \in viol[p]
      BY DEF ChangesCaught
    <3>4. p \notin breach => (p \in fresh <=> ~G2(p))
      BY DEF Watching
    <3>5. QED BY <2>1, <3>2, <3>3, <3>4
  <2>4. QED BY <2>2, <2>3
<1>2. CASE UNCHANGED vars
  BY <1>2 DEF vars, memory, monitor, Watching, ChangesCaught, G2, Requested, Attributes
<1>3. QED BY <1>1, <1>2 DEF Next

(* G2 is complete and sound for any core: a request that changed while it  *)
(* was pending is reported at the next edge, and nothing else is.          *)
THEOREM EveryChangeCaught == BenchSpec => []ChangesCaught
<1>1. Init => Watching /\ ChangesCaught
  BY DEF Init, Watching, ChangesCaught, G2
<1>2. TypeOK /\ (Watching /\ ChangesCaught) /\ [Next]_vars => (Watching /\ ChangesCaught)'
  BY StepsWatch
<1>3. Spec => [](Watching /\ ChangesCaught)
  BY <1>1, <1>2, BenchWaits, PTL DEF Spec
<1>4. QED BY <1>3, RunsTheBench, PTL
-----------------------------------------------------------------------------
(* The retirement measure: the counter since the last retirement is the    *)
(* distance to it, so each retirement but the first closes one new gap.    *)
MeasureOK ==
  /\ retired \in Nat /\ gap \in Nat /\ gap_max \in Nat /\ gap_sum \in Nat
  /\ gap_hist \in [0 .. Last -> Nat]
  /\ edges \in Nat
  /\ fired \subseteq 1 .. edges /\ IsFiniteSet(fired)
  /\ retired = 0 <=> fired = {}
  /\ retired > 0 => edges - gap \in fired /\ \A e \in fired : e <= edges - gap

(* The instance counts with its own copy of the library's operator.        *)
LEMMA SameCount == \A S : Measure!Cardinality(S) = Cardinality(S)
BY DEF Measure!Cardinality, Cardinality

LEMMA GapsAreFinite ==
  ASSUME MeasureOK
  PROVE  IsFiniteSet(Measure!Gaps)
<1>1. IsFiniteSet(fired \X fired)
  BY FS_Product DEF MeasureOK
<1>2. QED BY <1>1, FS_Subset DEF Measure!Gaps

LEMMA GapsHaveLengths ==
  ASSUME MeasureOK, NEW g \in Measure!Gaps
  PROVE  /\ Measure!Length(g) \in Nat
         /\ Measure!Bucket(Measure!Length(g)) \in 0 .. Last
<1>1. /\ g[1] \in Nat /\ g[2] \in Nat /\ g[1] < g[2]
  <2>1. g \in fired \X fired /\ g[1] < g[2]
    BY DEF Measure!Gaps
  <2>2. g[1] \in fired /\ g[2] \in fired
    BY <2>1
  <2>3. fired \subseteq Nat
    BY DEF MeasureOK
  <2>4. QED BY <2>1, <2>2, <2>3
<1>2. QED BY <1>1, GapParameters DEF Measure!Length, Measure!Bucket

LEMMA OneMoreGap ==
  ASSUME MeasureOK, retired > 0, edges' = edges + 1, fired' = fired \cup {edges'}
  PROVE  /\ Measure!Gaps' = Measure!Gaps \cup {<<edges - gap, edges + 1>>}
         /\ <<edges - gap, edges + 1>> \notin Measure!Gaps
         /\ Measure!Length(<<edges - gap, edges + 1>>) = gap
<1> DEFINE m == edges - gap
<1>1. /\ edges \in Nat /\ gap \in Nat /\ m \in fired /\ m \in Int
      /\ \A e \in fired : e \in Int /\ e <= edges /\ e <= m
      /\ fired' = fired \cup {edges + 1}
  BY DEF MeasureOK
<1>2. Measure!Gaps' = {g \in fired' \X fired' : /\ g[1] < g[2]
                                                /\ \A e \in fired' : e <= g[1] \/ g[2] <= e}
  BY DEF Measure!Gaps
<1>3. ASSUME NEW c \in fired', NEW d \in fired'
      PROVE  <<c, d>> \in Measure!Gaps' <=>
               <<c, d>> \in Measure!Gaps \/ (c = m /\ d = edges + 1)
  <2>1. /\ <<c, d>> \in Measure!Gaps' <=> c < d /\ \A e \in fired' : e <= c \/ d <= e
        /\ <<c, d>> \in Measure!Gaps <=>
             c \in fired /\ d \in fired /\ c < d /\ \A e \in fired : e <= c \/ d <= e
    BY <1>2 DEF Measure!Gaps
  <2>2. CASE d = edges + 1
    <3>1. d \notin fired
      BY <1>1, <2>2
    <3>2. ASSUME c < d, \A e \in fired' : e <= c \/ d <= e
          PROVE  c = m
      <4>1. c \in fired /\ c <= m
        BY <1>1, <2>2, <3>2
      <4>2. m <= c \/ d <= m
        BY <1>1, <3>2
      <4>3. QED BY <1>1, <2>2, <4>1, <4>2
    <3>3. ASSUME c = m
          PROVE  c < d /\ \A e \in fired' : e <= c \/ d <= e
      BY <1>1, <2>2, <3>3
    <3>4. QED BY <2>1, <2>2, <3>1, <3>2, <3>3
  <2>3. CASE d # edges + 1
    <3>1. d \in fired /\ d <= edges /\ d \in Int
      BY <1>1, <2>3
    <3>2. c = edges + 1 => ~(c < d)
      BY <1>1, <3>1
    <3>3. c # edges + 1 => c \in fired
      BY <1>1
    <3>4. (\A e \in fired' : e <= c \/ d <= e) <=> (\A e \in fired : e <= c \/ d <= e)
      BY <1>1, <3>1
    <3>5. QED BY <2>1, <2>3, <3>1, <3>2, <3>3, <3>4
  <2>4. QED BY <2>2, <2>3
<1>4. Measure!Gaps' \subseteq fired' \X fired' /\ Measure!Gaps \subseteq fired' \X fired'
  BY <1>1, <1>2 DEF Measure!Gaps
<1>5. Measure!Gaps' = Measure!Gaps \cup {<<m, edges + 1>>}
  <2>1. m \in fired' /\ edges + 1 \in fired'
    BY <1>1
  <2>2. ASSUME NEW g \in fired' \X fired'
        PROVE  g \in Measure!Gaps' <=> g \in Measure!Gaps \/ g = <<m, edges + 1>>
    <3>1. PICK c \in fired', d \in fired' : g = <<c, d>>
      OBVIOUS
    <3>2. g = <<m, edges + 1>> <=> c = m /\ d = edges + 1
      BY <3>1
    <3>3. QED BY <1>3, <3>1, <3>2
  <2>3. QED BY <1>4, <2>1, <2>2
<1>6. <<m, edges + 1>> \notin Measure!Gaps
  BY <1>1 DEF Measure!Gaps
<1>7. Measure!Length(<<m, edges + 1>>) = gap
  BY <1>1 DEF Measure!Length
<1>8. QED BY <1>5, <1>6, <1>7

LEMMA StepsMeasureTyped ==
  ASSUME MeasureOK, [Measure!Next]_(Measure!vars)
  PROVE  MeasureOK'
<1>1. CASE Measure!Next /\ Measure!Retire
  <2>1. Measure!Bucket(gap) \in 0 .. Last
    BY GapParameters DEF Measure!Bucket, MeasureOK
  <2>2. /\ gap_max' \in Nat /\ gap_sum' \in Nat /\ gap_hist' \in [0 .. Last -> Nat]
    BY <1>1, <2>1 DEF Measure!Retire, Measure!Record, MeasureOK
  <2>3. edges' = edges + 1 /\ fired' = fired \cup {edges + 1} /\ gap' = 0 /\ retired' = retired + 1
    BY <1>1 DEF Measure!Next, Measure!Retire
  <2>4. IsFiniteSet(fired')
    BY <2>3, FS_AddElement DEF MeasureOK
  <2>5. QED BY <2>2, <2>3, <2>4 DEF MeasureOK
<1>2. CASE Measure!Next /\ Measure!Wait
  <2>1. /\ edges' = edges + 1
        /\ gap' = IF retired > 0 THEN gap + 1 ELSE gap
        /\ UNCHANGED <<retired, gap_max, gap_sum, gap_hist, fired>>
    BY <1>2 DEF Measure!Next, Measure!Wait
  <2>2. QED BY <2>1 DEF MeasureOK
<1>3. CASE UNCHANGED Measure!vars
  BY <1>3 DEF Measure!vars, MeasureOK
<1>4. QED BY <1>1, <1>2, <1>3 DEF Measure!Next

LEMMA StepsMeasure ==
  ASSUME MeasureOK, Measure!MeasuresGaps, [Measure!Next]_(Measure!vars)
  PROVE  Measure!MeasuresGaps'
<1>1. CASE Measure!Next /\ Measure!Retire /\ retired > 0
  <2> DEFINE new == <<edges - gap, edges + 1>>
  <2>1. /\ edges' = edges + 1 /\ fired' = fired \cup {edges'}
        /\ gap_max' = IF gap > gap_max THEN gap ELSE gap_max
        /\ gap_hist' = [gap_hist EXCEPT ![Measure!Bucket(gap)] = @ + 1]
    BY <1>1 DEF Measure!Next, Measure!Retire, Measure!Record, MeasureOK
  <2>2. /\ Measure!Gaps' = Measure!Gaps \cup {new}
        /\ new \notin Measure!Gaps
        /\ Measure!Length(new) = gap
    BY <1>1, <2>1, OneMoreGap
  <2>3. ASSUME NEW k \in 0 .. Last
        PROVE  gap_hist'[k] = Cardinality(Measure!InBucket(k)')
    <3>1. IsFiniteSet(Measure!InBucket(k)) /\ new \notin Measure!InBucket(k)
      BY <2>2, GapsAreFinite, FS_Subset DEF Measure!InBucket
    <3>2. gap_hist[k] = Cardinality(Measure!InBucket(k)) /\ gap_hist[k] \in Nat
      BY SameCount DEF Measure!MeasuresGaps, MeasureOK
    <3>3. Measure!InBucket(k)' = {g \in Measure!Gaps \cup {new} : Measure!Bucket(Measure!Length(g)) = k}
      BY <2>2 DEF Measure!InBucket, Measure!Bucket, Measure!Length
    <3>4. CASE Measure!Bucket(gap) = k
      <4>1. Measure!InBucket(k)' = Measure!InBucket(k) \cup {new}
        BY <2>2, <3>3, <3>4 DEF Measure!InBucket
      <4>2. Cardinality(Measure!InBucket(k)') = Cardinality(Measure!InBucket(k)) + 1
        BY <3>1, <4>1, FS_AddElement
      <4>3. gap_hist'[k] = gap_hist[k] + 1
        BY <2>1, <3>4 DEF MeasureOK
      <4>4. QED BY <3>2, <4>2, <4>3
    <3>5. CASE Measure!Bucket(gap) # k
      <4>1. Measure!InBucket(k)' = Measure!InBucket(k)
        BY <2>2, <3>3, <3>5 DEF Measure!InBucket
      <4>2. gap_hist'[k] = gap_hist[k]
        BY <2>1, <3>5 DEF MeasureOK
      <4>3. QED BY <3>2, <4>1, <4>2
    <3>6. QED BY <3>4, <3>5
  <2>4. ASSUME NEW g \in Measure!Gaps'
        PROVE  Measure!Length(g) <= gap_max'
    <3>1. gap \in Nat /\ gap_max \in Nat
      BY DEF MeasureOK
    <3>2. CASE g \in Measure!Gaps
      BY <2>1, <3>1, <3>2, GapsHaveLengths DEF Measure!MeasuresGaps
    <3>3. CASE g = new
      BY <2>1, <2>2, <3>1, <3>3
    <3>4. QED BY <2>2, <3>2, <3>3
  <2>5. ASSUME gap_max' > 0
        PROVE  \E g \in Measure!Gaps' : Measure!Length(g) = gap_max'
    <3>1. gap \in Nat /\ gap_max \in Nat
      BY DEF MeasureOK
    <3>2. CASE gap_max' = gap
      BY <2>2, <3>2
    <3>3. CASE gap_max' = gap_max
      BY <2>2, <2>5, <3>3 DEF Measure!MeasuresGaps
    <3>4. QED BY <2>1, <3>2, <3>3
  <2>6. QED
    BY <2>3, <2>4, <2>5, SameCount
    DEF Measure!MeasuresGaps, Measure!InBucket, Measure!Gaps, Measure!Length, Measure!Bucket
<1>2. CASE Measure!Next /\ Measure!Retire /\ ~(retired > 0)
  <2>1. retired = 0 /\ fired = {}
    BY <1>2 DEF MeasureOK
  <2>2. fired' = {edges'} /\ UNCHANGED <<gap_max, gap_hist>>
    BY <1>2, <2>1 DEF Measure!Retire, Measure!Record
  <2>3. edges' \in Int
    BY <1>2 DEF Measure!Next, MeasureOK
  <2>4. Measure!Gaps = {} /\ Measure!Gaps' = {}
    BY <2>1, <2>2, <2>3 DEF Measure!Gaps
  <2>5. QED BY <2>2, <2>4 DEF Measure!MeasuresGaps, Measure!InBucket, Measure!Length, Measure!Bucket
<1>3. CASE Measure!Next /\ Measure!Wait
  BY <1>3 DEF Measure!Wait, Measure!MeasuresGaps, Measure!InBucket, Measure!Gaps,
        Measure!Length, Measure!Bucket
<1>4. CASE UNCHANGED Measure!vars
  BY <1>4 DEF Measure!vars, Measure!MeasuresGaps, Measure!InBucket, Measure!Gaps,
        Measure!Length, Measure!Bucket
<1>5. QED BY <1>1, <1>2, <1>3, <1>4 DEF Measure!Next

(* The histogram and GAP MAX that the bench prints are those of the gaps   *)
(* between the retirements of the run, for every run and every histogram.  *)
THEOREM HistogramOfGaps == BenchSpec => []MeasuresGaps
<1>1. Measure!Init => MeasureOK /\ Measure!MeasuresGaps
  <2>1. SUFFICES ASSUME Measure!Init PROVE MeasureOK /\ Measure!MeasuresGaps
    OBVIOUS
  <2>2. MeasureOK
    BY <2>1, GapParameters, FS_EmptySet DEF Measure!Init, MeasureOK
  <2>3. Measure!Gaps = {}
    BY <2>1 DEF Measure!Init, Measure!Gaps
  <2>4. \A k \in 0 .. Last : Measure!InBucket(k) = {} /\ gap_hist[k] = 0
    BY <2>1, <2>3 DEF Measure!InBucket, Measure!Init
  <2>5. Measure!MeasuresGaps
    BY <2>1, <2>3, <2>4, FS_EmptySet, SameCount DEF Measure!Init, Measure!MeasuresGaps
  <2>6. QED BY <2>2, <2>5
<1>2. /\ MeasureOK /\ Measure!MeasuresGaps /\ [Measure!Next]_(Measure!vars)
         => (MeasureOK /\ Measure!MeasuresGaps)'
  BY StepsMeasureTyped, StepsMeasure
<1>3. Measure!Spec => [](MeasureOK /\ Measure!MeasuresGaps)
  BY <1>1, <1>2, PTL DEF Measure!Spec
<1>4. MeasureOK /\ Measure!MeasuresGaps => MeasuresGaps
  BY DEF MeasuresGaps
<1>5. QED BY <1>3, <1>4, RunsTheMeasure, PTL
=============================================================================
