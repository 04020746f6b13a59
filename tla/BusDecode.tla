----------------------------- MODULE BusDecode ------------------------------
(***************************************************************************)
(* tools/memmap.py: the address map of the management SoC, read off the    *)
(* select lines of the shared bus.  The lines are read one at a time; what *)
(* the report says of an address is compared with what the bus does.       *)
(*                                                                         *)
(* The bus has word addresses of AdrBits bits, so byte addresses of two    *)
(* more; a bank of the CSR bridge is a page of it.                         *)
(***************************************************************************)
EXTENDS Integers, Sequences, FiniteSets

CONSTANTS AdrBits,    \* 30
          PageBits,   \* 9, the word address bits within a CSR bank
          BankBits,   \* 5, those that choose the bank
          RegionNames,
          CsrRegion,  \* the region of the CSR bridge, "csr"
          DebugRegion,\* the one that tells the core's mem_map, "vexriscv_debug"
          MemMaps     \* maps from regions to bases in the generator's source

VARIABLES sels,       \* slave index -> its decode: compared bits from lo up, value
          names,      \* slave index -> region name, by the wiring
          banks,      \* CSR bank -> the number its select line compares with
          gmap,       \* the map of the generator that is compared with
          stage       \* "reading", "banks", "maps", "mapped" or "aborted"
vars == <<sels, names, banks, gmap, stage>>

Nothing == [k \in {} |-> 0]
Put(f, k, v) == [x \in DOMAIN f \cup {k} |-> IF x = k THEN v ELSE f[x]]

(* 1 << k                                                                  *)
Pow2[k \in Nat] == IF k = 0 THEN 1 ELSE 2 * Pow2[k - 1]

Slaves == 0 .. Cardinality(RegionNames) - 1
ByteAddrs == 0 .. 4 * Pow2[AdrBits] - 1
Decodes == UNION {[lo : {lo}, value : 0 .. Pow2[AdrBits - lo] - 1] : lo \in 1 .. AdrBits - 1}
CSR_PAGE == 4 * Pow2[PageBits]

Init ==
  /\ sels = Nothing /\ names = Nothing /\ banks = Nothing /\ gmap = Nothing
  /\ stage = "reading"

(* slave_sel[i] = (shared_adr[29:lo] == value)                             *)
ReadSelect(i, d) ==
  /\ stage = "reading" /\ i \notin DOMAIN sels
  /\ sels' = Put(sels, i, d)
  /\ UNCHANGED <<names, banks, gmap, stage>>

(* <bus>_cyc = (shared_cyc & slave_sel[i])                                 *)
ReadWiring(i, name) ==
  /\ stage = "reading" /\ i \notin DOMAIN names
  /\ \A j \in DOMAIN names : names[j] # name
  /\ names' = Put(names, i, name)
  /\ UNCHANGED <<sels, banks, gmap, stage>>

(* The select lines and the wiring must be of the same slaves.             *)
Map ==
  /\ stage = "reading"
  /\ stage' = IF DOMAIN sels = DOMAIN names THEN "banks" ELSE "aborted"
  /\ UNCHANGED <<sels, names, banks, gmap>>

(* csrbank<n>_sel = (adr[13:9] == compared), which must be n.              *)
ReadBank(n, compared) ==
  /\ stage = "banks" /\ n \notin DOMAIN banks
  /\ banks' = Put(banks, n, compared)
  /\ stage' = IF n = compared THEN stage ELSE "aborted"
  /\ UNCHANGED <<sels, names, gmap>>

BanksDone == stage = "banks" /\ stage' = "maps" /\ UNCHANGED <<sels, names, banks, gmap>>

(* The last map with the debug region is the one of the core.              *)
ReadMap(map) ==
  /\ stage = "maps"
  /\ DebugRegion \in DOMAIN map /\ gmap' = map
  /\ UNCHANGED <<sels, names, banks, stage>>

(* Without it, or when it or the report names a region that is not in the  *)
(* RTL, the tool stops.                                                    *)
Compare ==
  /\ stage = "maps"
  /\ LET found == {names[i] : i \in DOMAIN names}
     IN  stage' = IF gmap # Nothing /\ DOMAIN gmap \cup {CsrRegion} \subseteq found
                  THEN "mapped" ELSE "aborted"
  /\ UNCHANGED <<sels, names, banks, gmap>>

Next ==
  \/ \E i \in Slaves, d \in Decodes : ReadSelect(i, d)
  \/ \E i \in Slaves, name \in RegionNames : ReadWiring(i, name)
  \/ Map
  \/ \E n, compared \in 0 .. Pow2[BankBits] - 1 : ReadBank(n, compared)
  \/ BanksDone
  \/ \E map \in MemMaps : ReadMap(map)
  \/ Compare

(* A mutant of Window: word addresses taken for byte addresses.            *)
WindowOfWords(d) == [base |-> d.value * Pow2[d.lo], size |-> Pow2[d.lo]]

Window(d) == [base |-> d.value * Pow2[d.lo + 2], size |-> Pow2[d.lo + 2]]

Windows == {[name |-> names[i], base |-> Window(sels[i]).base, size |-> Window(sels[i]).size]
              : i \in DOMAIN sels}

Contains(w, addr) == w.base <= addr /\ addr < w.base + w.size

(* locate names the first window of the dictionary with the address; which *)
(* one that is depends on the order of the lines.  A pointer of the        *)
(* firmware without any is printed as UNMAPPED, an address of the          *)
(* documents must be in the housekeeping window.                           *)
Located(addr) == {w.name : w \in {v \in Windows : Contains(v, addr)}}

(* The generator's map, base by base, and the constants of the firmware    *)
(* and of the Verilog sources, a base and a size.                          *)
BaseOK(name) == \A w \in Windows : w.name = name => w.base = gmap[name]
RowAgrees(name, base, size) ==
  \A w \in Windows : w.name = name => w.base = base /\ w.size = size

(* The addresses printed for bank n of the CSR bridge, and the bank the    *)
(* header gives a register at an offset to.                                *)
BankBase(w, n) == w.base + n * CSR_PAGE
HeaderBank(off) == off \div CSR_PAGE
-----------------------------------------------------------------------------
(* The bus: the slaves an address selects, and the CSR bank it selects.    *)
Selected(addr) == {i \in DOMAIN sels : (addr \div 4) \div Pow2[sels[i].lo] = sels[i].value}
SelectedBank(addr) ==
  {n \in DOMAIN banks : banks[n] = ((addr \div 4) \div Pow2[PageBits]) % Pow2[BankBits]}
Answers(i) == {addr \in ByteAddrs : i \in Selected(addr)}

(* What the report says is what the bus does: an address lies in the       *)
(* windows of the slaves it selects, so the firmware pointers called       *)
(* UNMAPPED are those that time out; the base of a slave is OK exactly     *)
(* when the generator's base is its lowest address, and constants agree    *)
(* exactly when they are the addresses it answers; and in a CSR window     *)
(* that holds all banks a register answers in the bank the header and the  *)
(* report name, each bank at the addresses printed for it.                 *)
ReportIsDecode ==
  /\ stage = "banks" =>
       /\ \A addr \in ByteAddrs : Located(addr) = {names[i] : i \in Selected(addr)}
       /\ \A i \in DOMAIN sels :
            \E answers \in {Answers(i)} :
              \A a \in 0 .. Pow2[AdrBits] - 1, k \in 0 .. AdrBits + 2 :
                RowAgrees(names[i], 4 * a, Pow2[k]) <=> answers = 4 * a .. 4 * a + Pow2[k] - 1
  /\ stage = "mapped" =>
       /\ \A i \in {j \in DOMAIN sels : names[j] \in DOMAIN gmap} :
            BaseOK(names[i]) <=>
              /\ i \in Selected(gmap[names[i]])
              /\ \A addr \in 0 .. gmap[names[i]] - 1 : i \notin Selected(addr)
       /\ \A w \in {v \in Windows : v.name = CsrRegion /\ v.size >= CSR_PAGE * Pow2[BankBits]} :
            \A off \in 0 .. CSR_PAGE * Pow2[BankBits] - 1 :
              \E bank \in {HeaderBank(off)} :
                /\ SelectedBank(w.base + off) = DOMAIN banks \cap {bank}
                /\ BankBase(w, bank) <= w.base + off
                /\ w.base + off < BankBase(w, bank) + CSR_PAGE
=============================================================================
