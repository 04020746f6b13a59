------------------------------- MODULE IrqMap -------------------------------
(***************************************************************************)
(* tools/irqmap.py: the path of the external interrupt lines through       *)
(* mgmt_core.v, two synchroniser flops and an event block, to the bits of  *)
(* the core's interrupt array, read off the RTL and compared with the      *)
(* documented table.  The RTL is written as it is read, a statement a      *)
(* step; the dictionaries hold what the statements so far put into them.   *)
(***************************************************************************)
EXTENDS Naturals, Sequences, SequencesExt, FiniteSets

CONSTANTS LineIds,    \* numbers of lines, of gpioin blocks and of array bits
          Regs,       \* registers of the RTL
          DocTable,   \* the documented table: bit -> line
          MAX_STMTS   \* how many statements of interest the RTL may have

VARIABLES rtl,        \* the statements so far
          stage0,     \* the registers that sample a line, with the line
          stage1,     \* register -> the register it feeds
          sink,       \* register -> the gpioin block it is the input of
          bits        \* array bit -> the gpioin block whose event drives it
vars == <<rtl, stage0, stage1, sink, bits>>

Nothing == [r \in {} |-> 0]
Put(f, k, v) == [x \in DOMAIN f \cup {k} |-> IF x = k THEN v ELSE f[x]]

Init ==
  /\ rtl = {}
  /\ stage0 = <<>> /\ stage1 = Nothing /\ sink = Nothing /\ bits = Nothing

Statement(kind, to, from) ==
  /\ Cardinality(rtl) < MAX_STMTS
  /\ <<kind, to, from>> \notin rtl
  /\ rtl' = rtl \cup {<<kind, to, from>>}

(* x <= user_irq[n].  A dictionary keeps the place of a key it overwrites. *)
Sample(x, n) ==
  LET entry == [reg |-> x, line |-> n]
      met == {k \in DOMAIN stage0 : stage0[k].reg = x}
  IN  /\ Statement("sample", x, n)
      /\ stage0' = IF met = {} THEN Append(stage0, entry)
                   ELSE [k \in DOMAIN stage0 |-> IF k \in met THEN entry ELSE stage0[k]]
      /\ UNCHANGED <<stage1, sink, bits>>

(* y <= x: the last register that x feeds is taken for its second stage.   *)
Flop(y, x) ==
  /\ Statement("flop", y, x)
  /\ stage1' = Put(stage1, x, y)
  /\ UNCHANGED <<stage0, sink, bits>>

(* gpioin<k>_in_status = y                                                 *)
Status(k, y) ==
  /\ Statement("status", k, y)
  /\ sink' = Put(sink, y, k)
  /\ UNCHANGED <<stage0, stage1, bits>>

(* mgmtsoc_interrupt[i] = gpioin<k>_gpioin<k>_irq                          *)
ArrayBit(i, k) ==
  /\ Statement("bit", i, k)
  /\ bits' = Put(bits, i, k)
  /\ UNCHANGED <<stage0, stage1, sink>>

Next ==
  \/ \E r \in Regs, n \in LineIds : Sample(r, n) \/ Status(n, r)
  \/ \E x, y \in Regs : Flop(y, x)
  \/ \E i, k \in LineIds : ArrayBit(i, k)

Aborts == \E k \in DOMAIN stage0 : stage0[k].reg \notin DOMAIN stage1

(* A mutant of Sunk: the block's input is looked for at the first flop.    *)
SunkAtFirst(k) == LET x == stage0[k].reg IN IF x \in DOMAIN sink THEN {sink[x]} ELSE {}

(* The block behind the second flop of an entry of stage0.                 *)
Sunk(k) ==
  LET y == stage1[stage0[k].reg] IN IF y \in DOMAIN sink THEN {sink[y]} ELSE {}

(* The chains reported: of several for one line the last.                  *)
Chains ==
  LET found == {k \in DOMAIN stage0 : Sunk(k) # {}}
      kept == {k \in found : \A j \in found : stage0[j].line = stage0[k].line => j <= k}
  IN  UNION {{stage0[k].line} \X Sunk(k) : k \in kept}

(* A report without a complaint: every bit agrees with the table, and no   *)
(* row is left over.  A block is printed as the line of its own number,    *)
(* whichever line its chain comes from.                                    *)
DocsAgree == bits = DocTable
-----------------------------------------------------------------------------
(* Statements that assign one thing: registers by either kind of statement.*)
Target(s) == <<IF s[1] = "sample" THEN "flop" ELSE s[1], s[2]>>
SingleDriver == \A s, t \in rtl : Target(s) = Target(t) => s = t

(* No line is sampled twice, no register feeds two or is the input of two  *)
(* blocks.                                                                 *)
SingleReader == \A s, t \in rtl : s[1] = t[1] /\ s[1] # "bit" /\ s[3] = t[3] => s = t

(* Line n goes through two flops to block k.                               *)
TwoFlops(n, k) ==
  \E x, y \in Regs : {<<"sample", x, n>>, <<"flop", y, x>>, <<"status", k, y>>} \subseteq rtl

(* The chains reported are chains of the RTL, and all of them when nothing *)
(* in it is read twice.  When moreover every bit agrees with the documents *)
(* and the chains keep the numbers, each documented line reaches its bit   *)
(* through two flops: the bits alone do not show it.                       *)
ChainsAreTheRtls ==
  ~Aborts /\ SingleDriver =>
    /\ \A c \in Chains : TwoFlops(c[1], c[2])
    /\ SingleReader => \A n, k \in LineIds : TwoFlops(n, k) => <<n, k>> \in Chains
    /\ DocsAgree /\ (\A i \in DOMAIN DocTable : <<DocTable[i], DocTable[i]>> \in Chains) =>
         \A i \in DOMAIN DocTable :
           <<"bit", i, DocTable[i]>> \in rtl /\ TwoFlops(DocTable[i], DocTable[i])
=============================================================================
