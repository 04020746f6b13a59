-------------------------- MODULE BankedSramProofs --------------------------
(***************************************************************************)
(* For every number and size of banks, every word shape and every set of   *)
(* masks: the banked memory of rocket_srams.v implements the flat one.     *)
(***************************************************************************)
EXTENDS BankedSram, TLAPS

LEMMA Division ==
  ASSUME NEW x \in Nat, NEW m \in Nat, m > 0
  PROVE  /\ x \div m \in Nat
         /\ x % m \in 0 .. m - 1
         /\ x = m * (x \div m) + (x % m)
OBVIOUS

(* The address map: an address has one bank and one offset, both in range, *)
(* and they determine it.                                                  *)
LEMMA AddressMap ==
  ASSUME NEW a \in Addrs
  PROVE  /\ Bank(a) \in BankIds
         /\ Offset(a) \in Offsets
         /\ a = BankWords * Bank(a) + Offset(a)
<1>1. a \in Nat /\ BankWords \in Nat /\ BankWords > 0 /\ Depth \in Nat /\ a < Depth
  BY DepthPositive, BankWordsPositive DEF Addrs
<1>2. PICK q \in Nat, r \in 0 .. BankWords - 1 :
        q = a \div BankWords /\ r = a % BankWords /\ a = BankWords * q + r
  BY <1>1, Division
<1>3. PICK n \in Nat : n = Depth \div BankWords /\ Depth = BankWords * n
  <2>1. /\ Depth \div BankWords \in Nat
        /\ Depth = BankWords * (Depth \div BankWords) + (Depth % BankWords)
    BY <1>1, Division
  <2>2. Depth = BankWords * (Depth \div BankWords)
    BY <1>1, <2>1, DepthInBanks
  <2>3. QED BY <2>1, <2>2
<1>4. q < n
  <2>1. SUFFICES ASSUME n <= q PROVE FALSE
    BY <1>2, <1>3
  <2>2. BankWords * n <= BankWords * q
    BY <1>1, <1>2, <1>3, <2>1
  <2>3. QED BY <1>1, <1>2, <1>3, <2>2
<1>5. QED BY <1>1, <1>2, <1>3, <1>4 DEF Bank, Offset, BankIds, Offsets

(* No two addresses share a cell.                                          *)
LEMMA NoAliasing ==
  ASSUME NEW a \in Addrs, NEW b \in Addrs, Bank(a) = Bank(b), Offset(a) = Offset(b)
  PROVE  a = b
<1>1. a = BankWords * Bank(a) + Offset(a) /\ b = BankWords * Bank(b) + Offset(b)
  BY AddressMap
<1>2. QED BY <1>1

LEMMA AccessFields ==
  ASSUME NEW c \in Accesses
  PROVE  /\ c.addr \in Addrs
         /\ c.op \in {"idle", "read", "write"}
         /\ c.op = "write" => c.wdata \in Words /\ c.wmask \in Masks
BY DEF Accesses, Idle, Read, Write

LEMMA MergeTyped ==
  ASSUME NEW w \in Words, NEW c \in Accesses, c.op = "write"
  PROVE  Merge(w, c) \in Words
BY AccessFields DEF Merge, Words

LEMMA CellsTyped ==
  ASSUME TypeOK, NEW c \in Accesses, NEW i \in BankIds
  PROVE  MacroCells(i, c) \in [Offsets -> Words]
<1>1. c.addr \in Addrs
  BY AccessFields
<1>2. Offset(c.addr) \in Offsets
  BY <1>1, AddressMap
<1>3. cells[i] \in [Offsets -> Words]
  BY DEF TypeOK
<1>4. CASE Selected(i, c) /\ c.op = "write"
  <2>1. Merge(cells[i][Offset(c.addr)], c) \in Words
    BY <1>2, <1>3, <1>4, MergeTyped
  <2>2. QED BY <1>2, <1>3, <1>4, <2>1 DEF MacroCells
<1>5. CASE ~(Selected(i, c) /\ c.op = "write")
  BY <1>3, <1>5 DEF MacroCells
<1>6. QED BY <1>4, <1>5

LEMMA TypeStep ==
  ASSUME TypeOK, [Next]_vars
  PROVE  TypeOK'
<1>1. ASSUME NEW c \in Accesses, Posedge(c) PROVE TypeOK'
  <2>1. Bank(c.addr) \in BankIds
    BY AccessFields, AddressMap
  <2>2. cells' \in [BankIds -> [Offsets -> Words]]
    BY <1>1, CellsTyped DEF Posedge
  <2>3. QED BY <1>1, <2>1, <2>2 DEF Posedge, TypeOK
<1>2. CASE UNCHANGED vars
  BY <1>2 DEF vars, TypeOK
<1>3. QED BY <1>1, <1>2 DEF Next

(* The registered bank index always names a bank, so RW0_rdata is always   *)
(* the output of some macro (rocket_srams.v 46-47, 71).                    *)
THEOREM TypeCorrect == Spec => []TypeOK
<1>1. Init => TypeOK
  BY DEF Init, TypeOK, Accesses
<1>2. TypeOK /\ [Next]_vars => TypeOK'
  BY TypeStep
<1>3. QED BY <1>1, <1>2, PTL DEF Spec
-----------------------------------------------------------------------------
(* One clock edge of the banks is one clock edge of the flat memory.       *)
LEMMA EdgeRefines ==
  ASSUME TypeOK, NEW c \in Accesses, Posedge(c)
  PROVE  Flat!Posedge(c)
<1>1. /\ c.addr \in Addrs
      /\ Bank(c.addr) \in BankIds /\ Offset(c.addr) \in Offsets
  BY AccessFields, AddressMap
<1>2. ASSUME NEW a \in Addrs
      PROVE  cells'[Bank(a)][Offset(a)]
               = IF c.op = "write" /\ c.addr = a
                 THEN Merge(cells[Bank(a)][Offset(a)], c)
                 ELSE cells[Bank(a)][Offset(a)]
  <2>1. Bank(a) \in BankIds /\ Offset(a) \in Offsets
    BY AddressMap
  <2>2. cells'[Bank(a)] = MacroCells(Bank(a), c) /\ cells[Bank(a)] \in [Offsets -> Words]
    BY <2>1 DEF Posedge, TypeOK
  <2>3. CASE c.op = "write" /\ Bank(c.addr) = Bank(a)
    <3>1. cells'[Bank(a)] = [cells[Bank(a)] EXCEPT
                               ![Offset(c.addr)] = Merge(cells[Bank(a)][Offset(c.addr)], c)]
      BY <2>2, <2>3 DEF MacroCells, Selected
    <3>2. CASE c.addr = a
      BY <2>1, <2>2, <2>3, <3>1, <3>2
    <3>3. CASE c.addr # a
      <4>1. Offset(c.addr) # Offset(a)
        BY <1>1, <2>3, <3>3, NoAliasing
      <4>2. QED BY <2>1, <2>2, <3>1, <3>3, <4>1
    <3>4. QED BY <3>2, <3>3
  <2>4. CASE ~(c.op = "write" /\ Bank(c.addr) = Bank(a))
    <3>1. cells'[Bank(a)] = cells[Bank(a)]
      BY <2>2, <2>4 DEF MacroCells, Selected
    <3>2. ~(c.op = "write" /\ c.addr = a)
      BY <2>4
    <3>3. QED BY <3>1, <3>2
  <2>5. QED BY <2>3, <2>4
<1>3. FlatMem' = [a \in Addrs |-> IF c.op = "write" /\ c.addr = a
                                 THEN Merge(FlatMem[a], c)
                                 ELSE FlatMem[a]]
  BY <1>2 DEF FlatMem
<1>4. Rdata' \in Words
  BY <1>1 DEF Posedge, Rdata
<1>5. c.op = "read" => Rdata' = FlatMem[c.addr]
  <2>1. SUFFICES ASSUME c.op = "read" PROVE Rdata' = FlatMem[c.addr]
    OBVIOUS
  <2>2. MacroDrives(Bank(c.addr), c)
    BY <2>1 DEF MacroDrives, Selected
  <2>3. dout'[Bank(c.addr)] = cells[Bank(c.addr)][Offset(c.addr)]
    BY <1>1, <2>2 DEF Posedge
  <2>4. QED BY <1>1, <2>3 DEF Posedge, Rdata, FlatMem
<1>6. QED BY <1>3, <1>4, <1>5 DEF Posedge, Flat!Posedge, Flat!Addrs, Addrs, Flat!Words, Words,
                                  Flat!Merge, Merge

LEMMA SameAccesses == Flat!Accesses = Accesses
BY DEF Flat!Accesses, Flat!Idle, Flat!Read, Flat!Write, Flat!Addrs, Flat!Words,
       Accesses, Idle, Read, Write, Addrs, Words

LEMMA InitRefines ==
  ASSUME Init
  PROVE  Flat!Init
<1>1. ASSUME NEW a \in Addrs PROVE cells[Bank(a)][Offset(a)] \in Words
  BY AddressMap DEF Init
<1>2. FlatMem \in [Addrs -> Words]
  BY <1>1 DEF FlatMem
<1>3. QED BY <1>2 DEF Init, Rdata, Flat!Init, Flat!Idle, Idle, Flat!Addrs, Addrs, Flat!Words, Words

(* rocket_srams.v replaces the Chipyard memories without a trace: every    *)
(* behaviour of the banks is a behaviour of the flat memory.               *)
THEOREM Refinement == Spec => FlatSpec
<1>1. Init => Flat!Init
  BY InitRefines
<1>2. TypeOK /\ [Next]_vars => [Flat!Next]_Flat!flatVars
  <2>1. ASSUME TypeOK, NEW c \in Accesses, Posedge(c) PROVE Flat!Next
    BY <2>1, EdgeRefines, SameAccesses DEF Flat!Next
  <2>2. ASSUME UNCHANGED vars PROVE UNCHANGED Flat!flatVars
    BY <2>2 DEF vars, Flat!flatVars, FlatMem, Rdata
  <2>3. QED BY <2>1, <2>2 DEF Next
<1>3. QED BY <1>1, <1>2, TypeCorrect, PTL DEF Spec, FlatSpec, Flat!Spec
=============================================================================
