------------------------------ MODULE TestBench ------------------------------
(***************************************************************************)
(* tools/sim/tb_core.v: the memory that answers the core's two Wishbone    *)
(* masters, and the monitors of the guarantee clauses G1-G4.  One step is  *)
(* one rising edge of clk after reset: the memory and the monitors sample  *)
(* the bus as it was before the edge, and the core drives new signals.     *)
(*                                                                         *)
(* The core is external.  A disciplined one holds a request until it is    *)
(* acknowledged; the monitors are there because the core might not be.     *)
(***************************************************************************)
EXTENDS Integers

CONSTANTS Ports,        \* the buses simulated, of {"i", "d"}
          MEM_LAT,      \* wait states before ACK
          MAX_CYCLES,   \* length of the run
          Timeout,      \* the 64 of the age tests
          FLASH_BASE,   \* first address of the flash, above the RAM's
          RAM_WORDS,    \* size of the RAM, below which addresses wrap
          Adrs,         \* the word addresses the core uses
          Lanes, Values,
          Manners       \* on which buses the core holds its requests, in a run

ASSUME Parameters ==
  /\ Ports \subseteq {"i", "d"}
  /\ MEM_LAT \in Nat /\ MAX_CYCLES \in Nat /\ Timeout \in Nat
  /\ FLASH_BASE \in Nat /\ RAM_WORDS \in Nat \ {0}
  /\ Adrs \subseteq Nat /\ Adrs # {} /\ Values # {}
  /\ Manners \subseteq SUBSET Ports

VARIABLES held,    \* the buses on which the core of this run holds its requests
          sig,     \* what the core drives on each bus
          ack, miso, lat,                  \* the memory's side of each bus
          ram,
          busy, age, hold,                 \* the monitor of each bus
          viol,    \* the clauses a VIOLATION was printed for, of each bus
          txn, d_wr, cycles,               \* the counters of the SUMMARY
          wrote,   \* how many writes the memory has performed
          fresh,   \* the buses whose request changed at the last edge
          breach   \* those whose request had changed before

memory == <<ack, miso, lat, ram, wrote>>
monitor == <<busy, age, hold, viol, txn, d_wr, cycles>>
vars == <<held, sig, memory, monitor, fresh, breach>>

Words == [Lanes -> Values]
Index(a) == a % RAM_WORDS
Flash(a) == [l \in Lanes |-> CHOOSE v \in Values : TRUE]
Rd(a) == IF a >= FLASH_BASE THEN Flash(a) ELSE ram[Index(a)]

Signals == [cyc : BOOLEAN, stb : BOOLEAN, we : BOOLEAN, adr : Adrs,
            sel : SUBSET Lanes, mosi : Words]

(* A bus with the given handshake and nothing on its other wires.          *)
Wires(cyc, stb) ==
  [cyc |-> cyc, stb |-> stb, we |-> FALSE, adr |-> CHOOSE a \in Adrs : TRUE,
   sel |-> {}, mosi |-> CHOOSE w \in Words : TRUE]

(* What a core asks for: a read, on the data bus also a write.             *)
Reads == [cyc : {TRUE}, stb : {TRUE}, we : {FALSE}, adr : Adrs, sel : {Lanes},
          mosi : {CHOOSE w \in Words : TRUE}]
Writes == [cyc : {TRUE}, stb : {TRUE}, we : {TRUE}, adr : Adrs,
           sel : (SUBSET Lanes) \ {{}}, mosi : Words]
Requests(p) == Reads \cup (IF p = "i" THEN {} ELSE Writes)

Requested(p) == sig[p].cyc /\ sig[p].stb
Pending(p) == Requested(p) /\ ~ack[p]
Answered(p) == Requested(p) /\ ack[p]

(* The attributes the monitor compares: ADR alone on the fetch bus.        *)
Attributes(p, s) ==
  IF p = "i" THEN [adr |-> s.adr] ELSE [adr |-> s.adr, we |-> s.we, sel |-> s.sel]

Init ==
  /\ held \in Manners
  /\ sig = [p \in Ports |-> Wires(FALSE, FALSE)]
  /\ ack = [p \in Ports |-> FALSE]
  /\ miso = [p \in Ports |-> Wires(FALSE, FALSE).mosi]
  /\ lat = [p \in Ports |-> 0]
  /\ ram = [k \in 0 .. RAM_WORDS - 1 |-> Wires(FALSE, FALSE).mosi]
  /\ busy = [p \in Ports |-> FALSE]
  /\ age = [p \in Ports |-> 0]
  /\ hold = [p \in Ports |-> Attributes(p, Wires(FALSE, FALSE))]
  /\ viol = [p \in Ports |-> {}]
  /\ txn = [p \in Ports |-> 0]
  /\ d_wr = 0 /\ cycles = 0 /\ wrote = 0
  /\ fresh = {} /\ breach = {}
-----------------------------------------------------------------------------
(* A mutant of Answers: one wait state too many.                           *)
AnswersLate(p) == Pending(p) /\ lat[p] > MEM_LAT

(* The memory: a pending request is answered once it has waited MEM_LAT    *)
(* edges; the wait count survives a withdrawn strobe while CYC is up.      *)
Answers(p) == Pending(p) /\ lat[p] >= MEM_LAT

(* A mutant of Writing: the word is written at every wait state.           *)
WritingAlways == "d" \in Ports /\ Pending("d") /\ sig["d"].we

Writing == "d" \in Ports /\ Answers("d") /\ sig["d"].we

(* A mutant of Loading: the word is taken when the request comes in.       *)
LoadingEarly(p) == Pending(p) /\ lat[p] = 0 /\ ~(p = "d" /\ sig[p].we)

Loading(p) == Answers(p) /\ ~(p = "d" /\ sig[p].we)

Memory ==
  /\ ack' = [p \in Ports |-> Answers(p)]
  /\ lat' = [p \in Ports |-> IF Answers(p) THEN 0
                             ELSE IF Pending(p) THEN lat[p] + 1
                             ELSE IF sig[p].cyc THEN lat[p] ELSE 0]
  /\ miso' = [p \in Ports |-> IF Loading(p) THEN Rd(sig[p].adr) ELSE miso[p]]
  /\ ram' = IF Writing /\ sig["d"].adr < FLASH_BASE
            THEN [ram EXCEPT ![Index(sig["d"].adr)] =
                    [l \in Lanes |-> IF l \in sig["d"].sel THEN sig["d"].mosi[l] ELSE @[l]]]
            ELSE ram
  /\ wrote' = IF Writing THEN wrote + 1 ELSE wrote
-----------------------------------------------------------------------------
(* The monitors.                                                           *)
G1(p) == sig[p].stb => sig[p].cyc

(* A mutant of G2: only the address is compared, as on the fetch bus.      *)
G2Address(p) == Requested(p) /\ busy[p] => sig[p].adr = hold[p].adr

G2(p) == Requested(p) /\ busy[p] => Attributes(p, sig[p]) = hold[p]

(* A mutant of G3: one cycle short.                                        *)
G3Short(p) == Requested(p) /\ busy[p] => age[p] < Timeout

G3(p) == Requested(p) /\ busy[p] => age[p] <= Timeout
G4(p) == p = "i" => ~sig[p].we

Opens(p) == Requested(p) /\ ~busy[p]

Monitor ==
  /\ viol' = [p \in Ports |-> viol[p] \cup {g \in {"G1", "G2", "G3", "G4"} :
                                             \/ g = "G1" /\ ~G1(p)
                                             \/ g = "G2" /\ ~G2(p)
                                             \/ g = "G3" /\ ~G3(p)
                                             \/ g = "G4" /\ ~G4(p)}]
  /\ hold' = [p \in Ports |-> IF Opens(p) THEN Attributes(p, sig[p]) ELSE hold[p]]
  /\ age' = [p \in Ports |-> IF Opens(p) THEN 0
                             ELSE IF Requested(p) THEN age[p] + 1 ELSE age[p]]
  /\ busy' = [p \in Ports |-> Pending(p)]
  /\ txn' = [p \in Ports |-> IF Answered(p) THEN txn[p] + 1 ELSE txn[p]]
  /\ d_wr' = IF "d" \in Ports /\ Answered("d") /\ sig["d"].we THEN d_wr + 1 ELSE d_wr
  /\ cycles' = cycles + 1
-----------------------------------------------------------------------------
(* The core: what it may drive on a bus after an edge.                     *)
Quiet == {Wires(FALSE, FALSE), Wires(TRUE, FALSE)}
Unruly == {Wires(FALSE, TRUE), Wires(TRUE, TRUE), [Wires(FALSE, FALSE) EXCEPT !.we = TRUE]}

Drives(p) ==
  IF p \in held /\ Pending(p) THEN {sig[p]}
  ELSE Requests(p) \cup Quiet \cup (IF p \in held THEN {} ELSE Unruly)

Core ==
  /\ sig' \in [Ports -> UNION {Drives(p) : p \in Ports}]
  /\ \A p \in Ports : sig'[p] \in Drives(p)
  /\ breach' = breach \cup fresh
  /\ fresh' = {p \in Ports : /\ Pending(p) /\ Requested(p)'
                              /\ Attributes(p, sig'[p]) # Attributes(p, sig[p])}
  /\ UNCHANGED held

Edge == cycles < MAX_CYCLES /\ Memory /\ Monitor /\ Core

Next == Edge

Spec == Init /\ [][Next]_vars
-----------------------------------------------------------------------------
(* A bus whose core holds its requests is never blamed, as long as the     *)
(* timeout leaves room for the wait states, whatever happens on the other. *)
NoFalseAlarm == MEM_LAT <= Timeout => \A p \in held : viol[p] = {}

(* The memory performs each write of such a core exactly once: what it has *)
(* performed is what the SUMMARY counts, but for an acknowledgement the    *)
(* monitor has yet to sample.                                              *)
WritesCounted ==
  "d" \in held =>
    wrote = d_wr + (IF Answered("d") /\ sig["d"].we THEN 1 ELSE 0)

(* The word an acknowledged read returns is the one its address holds at   *)
(* that moment; a fetch answered together with a store to the same word    *)
(* returns what was there before.                                          *)
ReadsCurrent ==
  held = Ports => \A p \in Ports :
    Answered(p) /\ ~sig[p].we =>
      \/ miso[p] = Rd(sig[p].adr)
      \/ /\ p = "i" /\ "d" \in Ports
         /\ Answered("d") /\ sig["d"].we
         /\ Index(sig["d"].adr) = Index(sig["i"].adr)

(* G2 is complete and sound for any core: a request that changed while it  *)
(* was pending is reported at the next edge, and nothing else is.          *)
ChangesCaught == \A p \in Ports : p \in breach <=> "G2" \in viol[p]

(* A request the memory has yet to answer has not aged past the wait       *)
(* states, whatever the core did before.                                   *)
AnswerInTime == \A p \in Ports : busy[p] => age[p] <= MEM_LAT
=============================================================================
