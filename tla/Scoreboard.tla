----------------------------- MODULE Scoreboard -----------------------------
(***************************************************************************)
(* tools/check-all.py runs the layer checkers one after the other, each a  *)
(* process of its own (tools/checklib.py, Layer.run and Layer.main), and   *)
(* all of them write to the standard output they share.                    *)
(*                                                                         *)
(* The outputs are buffered: a terminal is written line by line, a file or *)
(* a pipe when the writer's buffer fills and when the interpreter exits.   *)
(* What a process has not flushed is lost when it is killed.               *)
(***************************************************************************)
EXTENDS Naturals, Sequences, SequencesExt

CONSTANTS ORDER,   \* the layers, in the order they are run
          Items    \* the obligations of each layer, in the order it registers them

(* An obligation is known by its layer and position; the kind says whether *)
(* the checker registered a check or a stub.                               *)
ASSUME Registered ==
  /\ ORDER \in Seq(DOMAIN Items)
  /\ \A i, j \in DOMAIN ORDER : ORDER[i] = ORDER[j] => i = j
  /\ \A i \in DOMAIN ORDER : Items[ORDER[i]] \in Seq({"check", "TODO", "EXTERN"})

VARIABLES
  md, list_only, tty,  \* the arguments, and whether the output is a terminal
  page,                \* what has been written
  head,                \* what check-all.py has printed and not flushed
  pc,                  \* what the two processes are at
  n,                   \* how many layers have been started
  rows,                \* the rows of the running layer
  printed,             \* how many of them it has printed
  out,                 \* what it has printed and not flushed
  status,              \* its return code
  rc,                  \* check-all.py's own
  died, judged         \* the layers that ended early, the rows ever concluded

invocation == <<md, list_only, tty>>
child == <<rows, printed, out, status>>
vars == <<invocation, page, head, pc, n, child, rc, died, judged>>

Title == [status |-> "title"]
Layers == Range(ORDER)
Layer == ORDER[n]
Row(i, s) == [layer |-> Layer, item |-> i, status |-> s]

(* What a process prints reaches the terminal at once, a file later.       *)
Written(text) == IF tty THEN text ELSE <<>>
Kept(buffer, text) == IF tty THEN <<>> ELSE buffer \o text

Statuses == {"PASS", "FAIL", "FINDING", "TODO", "EXTERN", "check"}
Rows == [layer : Layers, item : Nat \ {0}, status : Statuses]

(* A return code by the bits that matter to `|=` and to its being zero: a  *)
(* process that ends by itself returns 0 or 1, a killed one a negative.    *)
Codes == SUBSET {"one", "sign"}

Init ==
  /\ md \in BOOLEAN /\ list_only \in BOOLEAN /\ tty \in BOOLEAN
  /\ page = <<>> /\ head = <<>>
  /\ pc = "header" /\ n = 0
  /\ rows = <<>> /\ printed = 0 /\ out = <<>>
  /\ status = {} /\ rc = {}
  /\ died = {} /\ judged = {}
-----------------------------------------------------------------------------
(* The preamble of the page, printed before the first layer is started.    *)
Preamble ==
  /\ pc = "header" /\ pc' = "launch"
  /\ IF md
     THEN page' = page \o Written(<<Title>>) /\ head' = Kept(head, <<Title>>)
     ELSE UNCHANGED <<page, head>>
  /\ UNCHANGED <<invocation, n, child, rc, died, judged>>

Launch ==
  /\ pc = "launch" /\ n < Len(ORDER)
  /\ pc' = "run" /\ n' = n + 1
  /\ rows' = <<>> /\ printed' = 0 /\ out' = <<>> /\ status' = {}
  /\ UNCHANGED <<invocation, page, head, rc, died, judged>>

(* Layer.run: a stub concludes what it is, a check what it returns, or     *)
(* FAIL when it raises an Exception.                                       *)
Conclusions(kind) ==
  IF kind # "check" THEN {kind}
  ELSE IF list_only THEN {"check"}
  ELSE {"PASS", "FAIL", "FINDING"}

Judge ==
  /\ pc = "run" /\ Len(rows) < Len(Items[Layer])
  /\ LET i == Len(rows) + 1
     IN  \E s \in Conclusions(Items[Layer][i]) :
           /\ rows' = Append(rows, Row(i, s))
           /\ judged' = judged \cup {Row(i, s)}
           /\ status' = IF s = "FAIL" THEN {"one"} ELSE status
  /\ UNCHANGED <<invocation, page, head, pc, n, printed, out, rc, died>>

(* Layer.main prints nothing before run has returned every row.            *)
Report ==
  /\ pc = "run" /\ Len(rows) = Len(Items[Layer])
  /\ pc' = "print"
  /\ UNCHANGED <<invocation, page, head, n, child, rc, died, judged>>

PrintRow ==
  /\ pc = "print" /\ printed < Len(rows)
  /\ printed' = printed + 1
  /\ page' = page \o Written(<<rows[printed + 1]>>)
  /\ out' = Kept(out, <<rows[printed + 1]>>)
  /\ UNCHANGED <<invocation, head, pc, n, rows, status, rc, died, judged>>

(* A mutant of BufferFull: what is written stays in the buffer.            *)
BufferKept ==
  /\ pc = "print" /\ out # <<>>
  /\ page' = page \o out
  /\ UNCHANGED <<invocation, head, pc, n, child, rc, died, judged>>

BufferFull ==
  /\ pc = "print" /\ out # <<>>
  /\ page' = page \o out /\ out' = <<>>
  /\ UNCHANGED <<invocation, head, pc, n, rows, printed, status, rc, died, judged>>

(* A mutant of LayerExits: an exit that does not flush (os._exit).         *)
LayerExitsRaw ==
  /\ pc = "print" /\ printed = Len(rows)
  /\ pc' = "wait" /\ out' = <<>>
  /\ UNCHANGED <<invocation, page, head, n, rows, printed, status, rc, died, judged>>

LayerExits ==
  /\ pc = "print" /\ printed = Len(rows)
  /\ pc' = "wait"
  /\ page' = page \o out /\ out' = <<>>
  /\ UNCHANGED <<invocation, head, n, rows, printed, status, rc, died, judged>>

(* A checker that cannot be imported, or a SystemExit raised under a       *)
(* check, which `except Exception` does not catch: the process exits with  *)
(* code 1 before a row is printed.                                         *)
LayerQuits ==
  /\ pc = "run"
  /\ pc' = "wait" /\ status' = {"one"}
  /\ died' = died \cup {Layer}
  /\ UNCHANGED <<invocation, page, head, n, rows, printed, out, rc, judged>>

LayerKilled ==
  /\ pc \in {"run", "print"}
  /\ pc' = "wait" /\ status' = {"sign"}
  /\ died' = died \cup {Layer}
  /\ out' = <<>>
  /\ UNCHANGED <<invocation, page, head, n, rows, printed, rc, judged>>

(* A mutant of Collect: = in the place of |=, the last layer decides.      *)
CollectLast ==
  /\ pc = "wait" /\ pc' = "launch"
  /\ rc' = status
  /\ UNCHANGED <<invocation, page, head, n, child, died, judged>>

Collect ==
  /\ pc = "wait" /\ pc' = "launch"
  /\ rc' = rc \cup status
  /\ UNCHANGED <<invocation, page, head, n, child, died, judged>>

(* The interpreter of check-all.py exits, and flushes what it printed.     *)
Exit ==
  /\ pc = "launch" /\ n = Len(ORDER)
  /\ pc' = "done"
  /\ page' = page \o head /\ head' = <<>>
  /\ UNCHANGED <<invocation, n, child, rc, died, judged>>

Next == Preamble \/ Launch \/ Judge \/ Report \/ PrintRow \/ BufferFull
          \/ LayerExits \/ LayerQuits \/ LayerKilled \/ Collect \/ Exit

Spec == Init /\ [][Next]_vars
-----------------------------------------------------------------------------
Shown == Range(page) \ {Title}     \* the rows on the page
Done == pc = "done"
Position(l) == CHOOSE i \in DOMAIN ORDER : ORDER[i] = l
Before(r, q) ==
  Position(r.layer) < Position(q.layer) \/ (r.layer = q.layer /\ r.item < q.item)

(* The exit code of the suite is zero exactly when no check failed and     *)
(* every layer came to its end: a failure is not outvoted by the layers    *)
(* that run after it, nor lost with the rows of a layer that died.         *)
ExitTruthful == Done => (rc # {} <=> died # {} \/ \E r \in judged : r.status = "FAIL")

(* What is on the page, at any moment and whatever was killed, are rows    *)
(* that were concluded, in the order of the book, none of them twice.      *)
PageInOrder ==
  /\ Shown \subseteq judged
  /\ \A i, j \in DOMAIN page :
       i < j /\ page[i] # Title /\ page[j] # Title => Before(page[i], page[j])

(* Every obligation of a layer that came to its end has its row, and what  *)
(* a layer that did not has left is a prefix of its rows.                  *)
CensusOfSurvivors ==
  Done => \A l \in Layers :
    LET shown == {r.item : r \in {q \in Shown : q.layer = l}}
    IN  /\ l \notin died => shown = DOMAIN Items[l]
        /\ \A i \in shown : \A j \in 1 .. i : j \in shown

(* check-all.py, 23: the page opens with its title, printed before any     *)
(* layer is run.                                                           *)
TitleFirst == Done /\ md => page[1] = Title
=============================================================================
