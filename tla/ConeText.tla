------------------------------ MODULE ConeText ------------------------------
(***************************************************************************)
(* tools/check-l4.py, census and x-idiom: the obligations that search the  *)
(* text of the emitted files.  Comments are taken out of a file by two     *)
(* substitutions, one after the other, which is not how Verilog reads it.  *)
(*                                                                         *)
(* The text is what the searches tell apart: a construct that must not     *)
(* occur, an `always @*`, an X literal, a read of Memory, and the marks    *)
(* that comments, lines and files are made of, apart from one another.     *)
(***************************************************************************)
EXTENDS Naturals, Sequences, SequencesExt, FiniteSets

CONSTANT MAX_TOKENS

Marks == {"/*", "*/", "//", "newline", "eof"}
Tokens == {"dark", "always @*", "x", "Memory["} \cup Marks

VARIABLES cone,            \* the files of the cone, each ended by "eof"
          census, xidiom   \* "none" or the verdicts
vars == <<cone, census, xidiom>>

Init == cone = <<>> /\ census = "none" /\ xidiom = "none"

Emit(token) ==
  /\ census = "none" /\ Len(cone) < MAX_TOKENS
  /\ token = "eof" => cone # <<>> /\ Last(cone) # "eof"
  /\ cone' = Append(cone, token)
  /\ UNCHANGED <<census, xidiom>>

(* The file token k is in ends at the next "eof".                          *)
SameFile(j, k) == \A i \in j .. k - 1 : cone[i] # "eof"

(* The first substitution takes out what is between a start mark and the   *)
(* nearest end mark, when the file has one.  inBlock[k] says whether it is *)
(* within a match after k tokens.                                          *)
InBlock ==
  LET closed(k) == \E j \in k + 1 .. Len(cone) : cone[j] = "*/" /\ SameFile(k, j)
      inBlock[k \in 0 .. Len(cone)] ==
        IF k = 0 THEN FALSE
        ELSE IF inBlock[k - 1] THEN cone[k] # "*/" ELSE cone[k] = "/*" /\ closed(k)
  IN  inBlock
WithoutBlocks == {k \in DOMAIN cone : ~InBlock[k - 1] /\ ~InBlock[k]}

(* The second takes out the rest of a line from its first line mark on.    *)
LineEnds(kept) == {k \in kept : cone[k] \in {"newline", "eof"}}
Commented(kept, k) ==
  \E j \in kept : j <= k /\ cone[j] = "//" /\ LineEnds(kept) \cap j .. k = {}

(* A mutant of Stripped: the line comments are taken out first.            *)
StrippedLinesFirst ==
  LET lines == {k \in DOMAIN cone : ~Commented(DOMAIN cone, k)}
      opened == {k \in lines : cone[k] = "/*"}
      closes(k) == {j \in lines : j > k /\ cone[j] = "*/" /\ SameFile(k, j)}
  IN  {k \in lines : \A o \in opened : o <= k /\ closes(o) # {} => \E c \in closes(o) : c < k}

Stripped == {k \in WithoutBlocks : ~Commented(WithoutBlocks, k)}

Found(token) == {k \in Stripped : cone[k] = token}

Census ==
  /\ census = "none" /\ cone # <<>> /\ Last(cone) = "eof"
  /\ census' = IF Found("dark") = {} /\ Cardinality(Found("always @*")) = 1
               THEN "PASS" ELSE "FAIL"
  /\ UNCHANGED <<cone, xidiom>>

(* An X literal is in order when its line, as stripped, has a Memory[.     *)
Offenders ==
  {k \in Found("x") :
     ~\E j \in Found("Memory[") :
        \A i \in LineEnds(Stripped) : ~(j < i /\ i < k) /\ ~(k < i /\ i < j)}

XIdiom ==
  /\ census # "none" /\ xidiom = "none"
  /\ xidiom' = IF Offenders = {} THEN "PASS" ELSE "FAIL"
  /\ UNCHANGED <<cone, census>>

Next == (\E token \in Tokens : Emit(token)) \/ Census \/ XIdiom
-----------------------------------------------------------------------------
(* Verilog reads a file once: what it is in after k tokens.                *)
Reading ==
  LET r[k \in 0 .. Len(cone)] ==
        IF k = 0 THEN "code"
        ELSE CASE cone[k] = "eof" -> "code"
               [] r[k - 1] = "line" /\ cone[k] = "newline" -> "code"
               [] r[k - 1] = "block" /\ cone[k] = "*/" -> "code"
               [] r[k - 1] = "code" /\ cone[k] = "//" -> "line"
               [] r[k - 1] = "code" /\ cone[k] = "/*" -> "block"
               [] OTHER -> r[k - 1]
  IN  r
Code == {k \in DOMAIN cone : Reading[k - 1] = "code" /\ Reading[k] = "code"}

LineEnd(i) == cone[i] \in {"newline", "eof"} /\ Reading[i] = "code"
SameLine(j, k) == \A i \in (j .. k) \cup (k .. j) : ~LineEnd(i)

(* Verilog accepts the marks, and no line comment mentions a block's start.*)
Plain ==
  \A k \in DOMAIN cone :
    /\ cone[k] = "eof" => Reading[k - 1] # "block"
    /\ cone[k] = "*/" => Reading[k - 1] = "block"
    /\ cone[k] = "/*" => Reading[k - 1] # "line"

(* In such files both verdicts are about the code and about nothing else:  *)
(* the census passes exactly when the code has no construct that must not  *)
(* occur and one `always @*`, and the literals exactly when every X in the *)
(* code has a Memory[ in the code on its line.                              *)
(* A line comment that mentions a start mark, as a path with a star does,  *)
(* may hide all of the code up to the next end mark.                       *)
VerdictsAreOnCode ==
  Plain =>
    /\ census # "none" =>
         (census = "PASS" <=>
            /\ \A k \in Code : cone[k] # "dark"
            /\ Cardinality({k \in Code : cone[k] = "always @*"}) = 1)
    /\ xidiom # "none" =>
         (xidiom = "PASS" <=>
            \A k \in Code : cone[k] = "x" =>
              \E j \in Code : cone[j] = "Memory[" /\ SameLine(j, k))
=============================================================================
