------------------------------ MODULE InitScan ------------------------------
(***************************************************************************)
(* tools/check-l4.py, init-idiom: a scan of the RTL for initial blocks     *)
(* that synthesis would see, which follows the conditional compilation     *)
(* line by line.  A file is written as it is scanned: each step reads one  *)
(* more line that matters, of any kind.                                    *)
(*                                                                         *)
(* active follows the same lines the way a preprocessor does that defines  *)
(* SYNTHESIS, none of the simulation macros and some of the others.        *)
(***************************************************************************)
EXTENDS Naturals, Sequences, SequencesExt

CONSTANTS Guards,     \* macros SIMGUARDS matches, SYNTHESIS aside
          Others,     \* macros it does not match
          MAX_LINES   \* how long a file may be

VARIABLES
  stack,      \* the open conditionals: kind, macro, whether in the else branch
  total, bad, \* the initial blocks, those not found to be simulation-only
  machinery,  \* whether the file names a guard anywhere
  verdict,
  defined,    \* the Others this synthesis defines
  active,     \* for each open conditional: whether this branch is compiled,
              \* one up to it was, and it has an `elsif
  exposed,    \* whether synthesis sees an initial block of the file
  misread,    \* why blocks it sees were taken for simulation-only
  lines
vars == <<stack, total, bad, machinery, verdict, defined, active, exposed, misread, lines>>

Names == {"SYNTHESIS"} \cup Guards \cup Others
Simulation == {"SYNTHESIS"} \cup Guards    \* what SIMGUARDS matches
Kinds == {"ifdef", "ifndef"}

Init ==
  /\ stack = <<>> /\ active = <<>>
  /\ total = 0 /\ bad = 0 /\ lines = 0
  /\ machinery \in BOOLEAN      \* a comment or a `define may name a guard
  /\ exposed = FALSE /\ misread = {}
  /\ verdict = "none"
  /\ defined \in SUBSET Others
-----------------------------------------------------------------------------
Holds(kind, macro) ==
  (macro \in defined \cup {"SYNTHESIS"}) <=> (kind = "ifdef")

Read == verdict = "none" /\ lines < MAX_LINES /\ lines' = lines + 1

Open ==
  /\ Read
  /\ \E kind \in Kinds, macro \in Names :
       /\ stack' = Append(stack, [kind |-> kind, macro |-> macro, in_else |-> FALSE])
       /\ active' = Append(active, 
                    [now |-> Holds(kind, macro), before |-> Holds(kind, macro), elsif |-> FALSE])
       /\ machinery' = (machinery \/ macro \in Simulation)
  /\ UNCHANGED <<total, bad, verdict, defined, exposed, misread>>

(* The preprocessor compiles an `else when no branch before it was.        *)
Turn(holds, elsif) ==
  active' = [active EXCEPT ![Len(active)] =
               [now |-> ~@.before /\ holds, before |-> @.before \/ holds,
                elsif |-> @.elsif \/ elsif]]

Else ==
  /\ Read /\ stack # <<>> /\ ~Last(stack).in_else
  /\ stack' = [stack EXCEPT ![Len(stack)].in_else = TRUE]
  /\ Turn(TRUE, FALSE)
  /\ UNCHANGED <<total, bad, machinery, verdict, defined, exposed, misread>>

(* The scan passes over `elsif: none of its patterns matches.              *)
Elsif ==
  /\ Read /\ stack # <<>> /\ ~Last(stack).in_else
  /\ \E macro \in Names :
       /\ Turn(Holds("ifdef", macro), TRUE)
       /\ machinery' = (machinery \/ macro \in Simulation)
  /\ UNCHANGED <<stack, total, bad, verdict, defined, exposed, misread>>

Endif ==
  /\ Read /\ stack # <<>>
  /\ stack' = Front(stack) /\ active' = Front(active)
  /\ UNCHANGED <<total, bad, machinery, verdict, defined, exposed, misread>>

(* A mutant of SimOnly: the `else branch is not told from the other.       *)
SimOnlyByKind(c) ==
  \/ c.macro = "SYNTHESIS" /\ c.kind = "ifndef"
  \/ c.macro \in Simulation /\ c.kind = "ifdef"

(* The test of one enclosing conditional.  SYNTHESIS is a SIMGUARD too, so *)
(* both branches of an `ifdef SYNTHESIS pass it.                           *)
SimOnly(c) ==
  \/ c.macro = "SYNTHESIS" /\ ((c.kind = "ifndef") # c.in_else)
  \/ c.macro \in Simulation /\ ((c.kind = "ifdef") # c.in_else)

Reason(k) == IF active[k].elsif THEN "elsif"
             ELSE IF stack[k].macro = "SYNTHESIS" THEN "synthesis" ELSE "guard"

Initial ==
  /\ Read
  /\ LET hidden == {k \in DOMAIN stack : SimOnly(stack[k])}
         seen == \A k \in DOMAIN active : active[k].now
     IN  /\ bad' = IF hidden # {} THEN bad ELSE bad + 1
         /\ exposed' = (exposed \/ seen)
         /\ misread' = IF seen THEN misread \cup {Reason(k) : k \in hidden} ELSE misread
  /\ total' = total + 1
  /\ UNCHANGED <<stack, machinery, verdict, defined, active>>

(* A mutant of Conclude: one block is let through.                         *)
ConcludeLenient ==
  /\ verdict = "none" /\ stack = <<>>
  /\ verdict' = IF bad > 1 /\ ~machinery THEN "FAIL" ELSE "PASS"
  /\ UNCHANGED <<stack, total, bad, machinery, defined, active, exposed, misread, lines>>

(* At the end of the file its bad blocks are forgiven if it names a guard. *)
Conclude ==
  /\ verdict = "none" /\ stack = <<>>
  /\ verdict' = IF bad > 0 /\ ~machinery THEN "FAIL" ELSE "PASS"
  /\ UNCHANGED <<stack, total, bad, machinery, defined, active, exposed, misread, lines>>

Next == Open \/ Else \/ Elsif \/ Endif \/ Initial \/ Conclude

Spec == Init /\ [][Next]_vars
-----------------------------------------------------------------------------
(* A simulation guard hides what it is believed to hide: a block taken for *)
(* simulation-only because of one, in a conditional without `elsif, is not *)
(* compiled by synthesis, however the conditionals are nested.             *)
GuardsHide == "guard" \notin misread

(* A file that shows synthesis an initial block passes only by naming a    *)
(* guard somewhere, never because the scan lost count of its conditionals. *)
PassIsForgiven == verdict = "PASS" /\ exposed => machinery

(* Comment, 106-107: simulation-only iff inside `ifndef SYNTHESIS (then),  *)
(* `ifdef SYNTHESIS (else) or a RANDOMIZE-family ifdef.                    *)
SynthesisBranchIsBad == "synthesis" \notin misread
=============================================================================
