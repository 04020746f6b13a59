---------------------------- MODULE OpcodeTable -----------------------------
(***************************************************************************)
(* tools/partition.py, opcodes_spec and spec_vs_opcodes: the official      *)
(* encodings are read from the riscv-opcodes files line by line, and the   *)
(* hand-written table SPEC is compared with them.  The files are read in   *)
(* one order, so their lines make one sequence; it grows as it is read.    *)
(***************************************************************************)
EXTENDS Naturals, Sequences

CONSTANTS Names,      \* instruction names
          Patterns,   \* (mask, match) pairs
          SPEC,       \* name -> pattern, the table of the tool
          MAX_LINES   \* how long the files may be together

VARIABLES file,       \* the lines so far
          official    \* name -> pattern, for the names met
vars == <<file, official>>

(* An instruction, an assembler shorthand ($pseudo_op) or another          *)
(* directive ($import), with the pattern of its constraint tokens.         *)
Lines == [kind : {"instruction", "pseudo", "directive"}, name : Names, pattern : Patterns]

Init == file = <<>> /\ official = [n \in {} |-> 0]

(* A mutant of Fills: a shorthand overrides what is there.                 *)
FillsAlways(line) == line.kind # "directive"

(* A shorthand fills a name and never overrides one.                       *)
Fills(line) ==
  \/ line.kind = "instruction"
  \/ line.kind = "pseudo" /\ line.name \notin DOMAIN official

ReadLine(line) ==
  /\ Len(file) < MAX_LINES
  /\ file' = Append(file, line)
  /\ official' = IF Fills(line)
                 THEN [n \in DOMAIN official \cup {line.name} |->
                         IF n = line.name THEN line.pattern ELSE official[n]]
                 ELSE official

Next == \E line \in Lines : ReadLine(line)

Missing == DOMAIN SPEC \ DOMAIN official
Mismatches == {n \in DOMAIN SPEC \ Missing : official[n] # SPEC[n]}
Validated == Missing = {} /\ Mismatches = {}
-----------------------------------------------------------------------------
(* When the comparison validates the table, every name of it has the       *)
(* pattern of an instruction line, the last there is for it, or, where the *)
(* files define no such instruction, of the first shorthand of that name:  *)
(* the shorthands that reuse the names of instructions (`jal offset`)      *)
(* never stand in for them, in whatever order the lines come.              *)
At(kind, n) == {k \in DOMAIN file : file[k].kind = kind /\ file[k].name = n}

ValidatedByInstructions ==
  Validated =>
    \A n \in DOMAIN SPEC :
      \/ \E k \in At("instruction", n) :
           /\ file[k].pattern = SPEC[n]
           /\ \A j \in At("instruction", n) : j <= k
      \/ /\ At("instruction", n) = {}
         /\ \E k \in At("pseudo", n) :
              /\ file[k].pattern = SPEC[n]
              /\ \A j \in At("pseudo", n) : k <= j
=============================================================================
