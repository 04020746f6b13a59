----------------------------- MODULE BankedSram -----------------------------
(***************************************************************************)
(* rocket_srams.v: an RW0 memory composed of sky130 1 KiB macros, one bank *)
(* of words each.  The D-cache scratchpad has 8 banks and a byte mask, the *)
(* I-cache data array 2 banks and a constant full mask; both are this      *)
(* module with other constants.                                            *)
(*                                                                         *)
(* One step is one rising edge of RW0_clk.  The macro itself is external:  *)
(* a macro that is not read in a cycle may show any word afterwards.       *)
(***************************************************************************)
EXTENDS SramPort

CONSTANTS BankWords   \* words in one macro

ASSUME BankWordsPositive == BankWords \in Nat \ {0}
ASSUME DepthInBanks == Depth % BankWords = 0

BankIds == 0 .. (Depth \div BankWords) - 1
Offsets == 0 .. BankWords - 1

VARIABLES access,  \* the access sampled at the last clock edge
          cells,   \* the contents of each macro
          dout,    \* dout0 of each macro
          bank_q   \* the registered bank index

vars == <<access, cells, dout, bank_q>>

(* RW0_addr[10:8] and RW0_addr[7:0].                                       *)
Bank(a) == a \div BankWords
Offset(a) == a % BankWords

TypeOK ==
  /\ access \in Accesses
  /\ cells \in [BankIds -> [Offsets -> Words]]
  /\ dout \in [BankIds -> Words]
  /\ bank_q \in BankIds

Init ==
  /\ access \in Idle
  /\ cells \in [BankIds -> [Offsets -> Words]]
  /\ dout \in [BankIds -> Words]
  /\ bank_q \in BankIds

(* ~csb0 of macro i.                                                       *)
Selected(i, c) == c.op # "idle" /\ Bank(c.addr) = i

(* A mutant of MacroCells: the write mask is not connected.                *)
MacroCellsUnmasked(i, c) ==
  IF Selected(i, c) /\ c.op = "write"
  THEN [cells[i] EXCEPT ![Offset(c.addr)] = c.wdata]
  ELSE cells[i]

(* The array and the output of a macro after an edge at which it saw c.    *)
MacroCells(i, c) ==
  IF Selected(i, c) /\ c.op = "write"
  THEN [cells[i] EXCEPT ![Offset(c.addr)] = Merge(@, c)]
  ELSE cells[i]

MacroDrives(i, c) == Selected(i, c) /\ c.op = "read"

(* Mutants of Posedge: the bank index is a cycle late, or the whole        *)
(* address is registered in its place.                                     *)
PosedgeLate(c) ==
  /\ access' = c
  /\ cells' = [i \in BankIds |-> MacroCells(i, c)]
  /\ dout' \in [BankIds -> Words]
  /\ \A i \in BankIds : MacroDrives(i, c) => dout'[i] = cells[i][Offset(c.addr)]
  /\ bank_q' = Bank(access.addr)

Posedge(c) ==
  /\ access' = c
  /\ cells' = [i \in BankIds |-> MacroCells(i, c)]
  /\ dout' \in [BankIds -> Words]
  /\ \A i \in BankIds : MacroDrives(i, c) => dout'[i] = cells[i][Offset(c.addr)]
  /\ bank_q' = Bank(c.addr)

Next == \E c \in Accesses : Posedge(c)

Spec == Init /\ [][Next]_vars
-----------------------------------------------------------------------------
(* assign RW0_rdata = dout[bank_q]                                         *)
Rdata == dout[bank_q]

(* The flat array the banks stand for.                                     *)
FlatMem == [a \in Addrs |-> cells[Bank(a)][Offset(a)]]

Flat == INSTANCE FlatSram WITH mem <- FlatMem, rdata <- Rdata

(* Whatever the sequence of accesses, the banked memory answers as the     *)
(* flat one: no two addresses share a cell, a write reaches one word of    *)
(* one bank and only its masked lanes, and the word read is the one at the *)
(* address presented a cycle earlier, whatever the address is by then.     *)
FlatSpec == Flat!Spec
=============================================================================
