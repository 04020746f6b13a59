----------------------------- MODULE Partition ------------------------------
(***************************************************************************)
(* tools/partition.py and tools/imagecheck.py: the words the specification *)
(* makes legal and the words the decoder accepts, each the union of (mask, *)
(* match) cubes held as a binary decision diagram; their differences; and  *)
(* the place of every word of an image in the partition.                   *)
(*                                                                         *)
(* A word is the set of its one bits, a cube the bits it fixes and those   *)
(* it fixes to one.  A diagram is Zero, One or a node of a variable and    *)
(* two diagrams of lower variables.  The words of the cubes added so far   *)
(* are kept beside the diagrams, to compare with.                          *)
(***************************************************************************)
EXTENDS Integers, FiniteSets, Functions

CONSTANTS W,         \* bits of a word
          FieldBits, \* bits of the opcode and funct3 fields
          SpecCubes, DecoderCubes  \* cubes the two lists may have

VARIABLES phase,               \* "spec", "decoder" or "compared"
          specBdd, decBdd,     \* the two unions
          specWords, decWords, \* the words of the cubes that went into them
          onlySpec, onlyDec    \* the two differences

vars == <<phase, specBdd, decBdd, specWords, decWords, onlySpec, onlyDec>>

Bits == 0 .. W - 1
Words == SUBSET Bits
Cubes == {c \in [mask : SUBSET Bits, match : SUBSET Bits] : c.match \subseteq c.mask}
Matches(w, c) == w \cap c.mask = c.match

(* 1 << k                                                                  *)
Pow2[k \in Nat] == IF k = 0 THEN 1 ELSE 2 * Pow2[k - 1]

Zero == <<0>>
One == <<1>>
Terminal(b) == b \in {Zero, One}
Var(b) == b[1]
Lo(b) == b[2]
Hi(b) == b[3]

Mk(var, lo, hi) == IF lo = hi THEN lo ELSE <<var, lo, hi>>

(* Those of a number of variables.                                         *)
Diagrams[n \in 0 .. W] ==
  IF n = 0 THEN {Zero, One}
  ELSE LET lower == Diagrams[n - 1]
       IN  lower \cup {Mk(n - 1, lo, hi) : lo, hi \in lower}
All == Diagrams[W]

CubeBdd(c) ==
  LET below[n \in 0 .. W] ==
        IF n = 0 THEN One
        ELSE CASE n - 1 \notin c.mask -> below[n - 1]
               [] n - 1 \in c.match -> Mk(n - 1, Zero, below[n - 1])
               [] OTHER -> Mk(n - 1, below[n - 1], Zero)
  IN  below[W]

(* A binary operation below its terminal cases: both diagrams are split on *)
(* the higher of their top variables.  Both cofactors of a diagram that    *)
(* does not test the variable are the diagram itself.                      *)
Low(b, var) == IF Terminal(b) \/ Var(b) # var THEN b ELSE Lo(b)
High(b, var) == IF Terminal(b) \/ Var(b) # var THEN b ELSE Hi(b)

(* A mutant of Split: the variable of the first diagram, whichever is      *)
(* higher.                                                                 *)
SplitFirst(a, b) == IF Terminal(a) THEN Var(b) ELSE Var(a)

Split(a, b) ==
  IF Terminal(a) THEN Var(b)
  ELSE IF Terminal(b) \/ Var(a) >= Var(b) THEN Var(a) ELSE Var(b)

Or[p \in All \X All] ==
  LET a == p[1]
      b == p[2]
      v == Split(a, b)
  IN  IF a = One \/ b = One THEN One
      ELSE IF a = Zero THEN b
      ELSE IF b = Zero THEN a
      ELSE Mk(v, Or[<<Low(a, v), Low(b, v)>>], Or[<<High(a, v), High(b, v)>>])

AndNot[p \in All \X All] ==
  LET a == p[1]
      b == p[2]
      v == Split(a, b)
  IN  IF a = Zero \/ b = One THEN Zero
      ELSE IF b = Zero THEN a
      ELSE Mk(v, AndNot[<<Low(a, v), Low(b, v)>>], AndNot[<<High(a, v), High(b, v)>>])

(* The cubes of the paths to One; a variable that is skipped stays free.   *)
AllPaths[b \in All] ==
  IF b = Zero THEN {}
  ELSE IF b = One THEN {[mask |-> {}, match |-> {}]}
  ELSE {[c EXCEPT !.mask = @ \cup {Var(b)}] : c \in AllPaths[Lo(b)]} \cup
       {[mask |-> c.mask \cup {Var(b)}, match |-> c.match \cup {Var(b)}] : c \in AllPaths[Hi(b)]}

(* A mutant of Free: skipped variables are not made up for.                *)
FreeNone(var, below) == 1

(* The values of the variables skipped between two that are tested.        *)
Free(var, below) == Pow2[var - 1 - below]

Count[p \in All \X (0 .. W)] ==
  LET b == p[1]
      var == p[2]
  IN  IF b = Zero THEN 0
      ELSE IF b = One THEN Pow2[var]
      ELSE (Count[<<Lo(b), Var(b)>>] + Count[<<Hi(b), Var(b)>>]) * Free(var, Var(b))

(* The diagram that is left when the variables from n up are decided.      *)
Member(b, w) ==
  LET left[n \in 0 .. W] ==
        IF n = W THEN b
        ELSE LET d == left[n + 1]
             IN  IF Terminal(d) \/ Var(d) # n THEN d ELSE IF n \in w THEN Hi(d) ELSE Lo(d)
  IN  left[0] = One

Total(cubes) == SumFunction([c \in cubes |-> Pow2[W - Cardinality(c.mask)]])

(* The words listed beyond the specification, by the fields of the path.   *)
Families(b) ==
  LET paths == AllPaths[b]
      field(c) == c.match \cap FieldBits
  IN  [k \in {field(c) : c \in paths} |-> Total({c \in paths : field(c) = k})]

Init ==
  /\ phase = "spec"
  /\ specBdd = Zero /\ decBdd = Zero
  /\ specWords = {} /\ decWords = {}
  /\ onlySpec = Zero /\ onlyDec = Zero

AddSpec(c) ==
  /\ phase = "spec"
  /\ specBdd' = Or[<<specBdd, CubeBdd(c)>>]
  /\ specWords' = specWords \cup {w \in Words : Matches(w, c)}
  /\ UNCHANGED <<phase, decBdd, decWords, onlySpec, onlyDec>>

SpecDone ==
  /\ phase = "spec"
  /\ phase' = "decoder"
  /\ UNCHANGED <<specBdd, decBdd, specWords, decWords, onlySpec, onlyDec>>

AddDecoder(c) ==
  /\ phase = "decoder"
  /\ decBdd' = Or[<<decBdd, CubeBdd(c)>>]
  /\ decWords' = decWords \cup {w \in Words : Matches(w, c)}
  /\ UNCHANGED <<phase, specBdd, specWords, onlySpec, onlyDec>>

Compare ==
  /\ phase = "decoder"
  /\ phase' = "compared"
  /\ onlySpec' = AndNot[<<specBdd, decBdd>>]
  /\ onlyDec' = AndNot[<<decBdd, specBdd>>]
  /\ UNCHANGED <<specBdd, decBdd, specWords, decWords>>

Next ==
  \/ \E c \in Cubes \cap SpecCubes : AddSpec(c)
  \/ \E c \in Cubes \cap DecoderCubes : AddDecoder(c)
  \/ SpecDone
  \/ Compare

Spec == Init /\ [][Next]_vars

(* A mutant of Class: the unspecified words are looked for first, in the   *)
(* decoder's set.                                                          *)
ClassDecoderFirst(w) ==
  IF Member(decBdd, w) THEN "ub" ELSE IF Member(specBdd, w) THEN "ok" ELSE "trap"

(* classify: where imagecheck puts a word of an image.                     *)
Class(w) ==
  IF Member(specBdd, w) THEN "ok" ELSE IF Member(onlyDec, w) THEN "ub" ELSE "trap"

(* The exit code of imagecheck for an image.                               *)
ImageCode(image) == IF \E w \in image : Class(w) = "ub" THEN 1 ELSE 0
-----------------------------------------------------------------------------
(* The one reduced diagram of a set of words.                              *)
Canonical(S) ==
  LET of[p \in (0 .. W) \X SUBSET Words] ==
        LET n == p[1]
            T == p[2]
        IN  IF T = {} THEN Zero
            ELSE IF n = 0 THEN One
            ELSE Mk(n - 1, of[<<n - 1, {w \in T : n - 1 \notin w}>>],
                           of[<<n - 1, {w \ {n - 1} : w \in {u \in T : n - 1 \in u}}>>])
  IN  of[<<W, S>>]

(* However the cubes overlap and whatever their order, a diagram is the    *)
(* canonical one of the words of the cubes, so that equal sets compare     *)
(* equal and an empty difference is Zero.                                  *)
UnionsCanonical ==
  phase = "compared" =>
    /\ specBdd = Canonical(specWords)
    /\ decBdd = Canonical(decWords)

(* The differences the book quotes are exact: the words counted, the paths *)
(* listed (disjoint, and covering the difference) and the totals of the    *)
(* families are those of the set difference.                               *)
Lists(b, S) ==
  LET paths == AllPaths[b]
  IN  /\ Count[<<b, W>>] = Cardinality(S)
      /\ {w \in Words : \E c \in paths : Matches(w, c)} = S
      /\ Total(paths) = Cardinality(S)

DifferencesExact ==
  phase = "compared" =>
    /\ Lists(onlySpec, specWords \ decWords)
    /\ Lists(onlyDec, decWords \ specWords)
    /\ SumFunction(Families(onlyDec)) = Cardinality(decWords \ specWords)

(* Every word of an image is in its place, and the exit code is one for    *)
(* the images with a word the decoder accepts and the specification does   *)
(* not.                                                                    *)
ClassesExact ==
  phase = "compared" =>
    /\ \A w \in Words :
         Class(w) = IF w \in specWords THEN "ok" ELSE IF w \in decWords THEN "ub" ELSE "trap"
    /\ ImageCode(Words \ (decWords \ specWords)) = 0
    /\ \A w \in decWords \ specWords : ImageCode({w}) = 1
=============================================================================
