---------------------------- MODULE SuiteProofs ----------------------------
(***************************************************************************)
(* The suite, for every number of layers and obligations, whatever the     *)
(* checks conclude and wherever layers die: its exit code and its page.    *)
(* The retried co-simulation and the scan for initial blocks, for every    *)
(* length of the loop and of the file.                                     *)
(***************************************************************************)
EXTENDS MCSuite, TLAPS

(* A composed run is one of each of its parts.                             *)
LEMMA RunsTheSuite == SuiteSpec => Spec
<1>1. SuiteInit => Init
  BY DEF SuiteInit
<1>2. [SuiteStep \/ CosimStep \/ ScanStep]_<<turn, vars, cosim, scan>> => [Next]_vars
  BY DEF SuiteStep, CosimStep, ScanStep
<1>3. QED BY <1>1, <1>2, PTL DEF SuiteSpec, Spec

LEMMA RunsTheCosim == SuiteSpec => Cosim!Spec
<1>1. SuiteInit => Cosim!Init
  BY DEF SuiteInit
<1>2. [SuiteStep \/ CosimStep \/ ScanStep]_<<turn, vars, cosim, scan>>
        => [Cosim!Next]_(Cosim!vars)
  BY DEF SuiteStep, CosimStep, ScanStep, cosim, Cosim!vars
<1>3. QED BY <1>1, <1>2, PTL DEF SuiteSpec, Cosim!Spec

LEMMA RunsTheScan == SuiteSpec => Scan!Spec
<1>1. SuiteInit => Scan!Init
  BY DEF SuiteInit
<1>2. [SuiteStep \/ CosimStep \/ ScanStep]_<<turn, vars, cosim, scan>>
        => [Scan!Next]_(Scan!vars)
  BY DEF SuiteStep, CosimStep, ScanStep, scan, Scan!vars
<1>3. QED BY <1>1, <1>2, PTL DEF SuiteSpec, Scan!Spec
-----------------------------------------------------------------------------
(* The exit code.                                                          *)
Trouble == died # {} \/ \E r \in judged : r.status = "FAIL"

(* The codes that have been collected tell of trouble, with the code of    *)
(* the running layer while there is one.                                   *)
Tally ==
  /\ pc \in {"header", "launch", "run", "print", "wait", "done"}
  /\ pc \in {"header", "launch", "done"} => (rc # {} <=> Trouble)
  /\ pc \in {"run", "print", "wait"} => (rc \cup status # {} <=> Trouble)

LEMMA StartsTallied == Init => Tally
BY DEF Init, Tally, Trouble

(* A step that leaves codes, deaths and conclusions alone, and moves       *)
(* neither into a layer nor out of one.                                    *)
LEMMA TallyAside ==
  ASSUME Tally, UNCHANGED <<rc, status, died, judged>>,
         \/ pc' = pc
         \/ pc \in {"header", "launch"} /\ pc' \in {"launch", "done"}
         \/ pc \in {"run", "print"} /\ pc' \in {"print", "wait"}
  PROVE  Tally'
BY DEF Tally, Trouble

LEMMA StepsTally ==
  ASSUME Tally, [Next]_vars
  PROVE  Tally'
<1>1. CASE Preamble
  BY <1>1, TallyAside DEF Preamble, child
<1>2. CASE Launch
  BY <1>2 DEF Launch, Tally, Trouble
<1>3. CASE Judge
  <2>1. PICK s \in Conclusions(Items[Layer][Len(rows) + 1]) :
          /\ judged' = judged \cup {Row(Len(rows) + 1, s)}
          /\ status' = IF s = "FAIL" THEN {"one"} ELSE status
    BY <1>3 DEF Judge
  <2>2. pc = "run" /\ pc' = "run" /\ rc' = rc /\ died' = died
    BY <1>3 DEF Judge
  <2>3. Row(Len(rows) + 1, s).status = s
    BY DEF Row
  <2>4. Trouble' <=> Trouble \/ s = "FAIL"
    BY <2>1, <2>2, <2>3 DEF Trouble
  <2> QED
    BY <2>1, <2>2, <2>4 DEF Tally
<1>4. CASE Report
  BY <1>4, TallyAside DEF Report, child
<1>5. CASE PrintRow
  BY <1>5, TallyAside DEF PrintRow
<1>6. CASE BufferFull
  BY <1>6, TallyAside DEF BufferFull
<1>7. CASE LayerExits
  BY <1>7, TallyAside DEF LayerExits
<1>8. CASE LayerQuits \/ LayerKilled
  <2>1. pc' = "wait" /\ status' # {} /\ died' # {}
    BY <1>8 DEF LayerQuits, LayerKilled
  <2> QED
    BY <2>1 DEF Tally, Trouble
<1>9. CASE Collect
  BY <1>9 DEF Collect, Tally, Trouble, child
<1>10. CASE Exit
  BY <1>10, TallyAside DEF Exit, child
<1>11. CASE UNCHANGED vars
  BY <1>11, TallyAside DEF vars, child
<1> QED
  BY <1>1, <1>2, <1>3, <1>4, <1>5, <1>6, <1>7, <1>8, <1>9, <1>10, <1>11 DEF Next


(* The exit code is zero exactly when no check failed and every layer came *)
(* to its end: no failure is outvoted or lost, in any suite.               *)
THEOREM Truthful == SuiteSpec => []ExitTruthful
<1>1. Tally => ExitTruthful
  BY DEF Tally, Trouble, ExitTruthful, Done
<1>2. Spec => []Tally
  BY StartsTallied, StepsTally, PTL DEF Spec
<1>3. QED BY <1>1, <1>2, RunsTheSuite, PTL
-----------------------------------------------------------------------------
(* The page and what the running layer has printed and not flushed, as one *)
(* text: rows in the order of the book, none before those it follows.      *)
Text == page \o out
Entries == Rows \cup {Title}

Placed(r) ==
  /\ r \in judged /\ r.layer \in Layers /\ r.item \in 1 .. Len(Items[r.layer])
  /\ \/ Position(r.layer) < n
     \/ Position(r.layer) = n /\ r.item <= printed

Ordered(t) ==
  /\ \A i, j \in DOMAIN t : i < j /\ t[i] # Title /\ t[j] # Title => Before(t[i], t[j])
  /\ \A i \in DOMAIN t : t[i] # Title =>
       \A k \in 1 .. t[i].item - 1 :
         \E j \in DOMAIN t : j < i /\ t[j] # Title /\ t[j].layer = t[i].layer /\ t[j].item = k

Complete(l) ==
  \A k \in 1 .. Len(Items[l]) :
    \E j \in DOMAIN page : page[j] # Title /\ page[j].layer = l /\ page[j].item = k

PageTypes ==
  /\ page \in Seq(Entries) /\ out \in Seq(Entries) /\ head \in Seq({Title})
  /\ rows \in Seq(Rows)
  /\ pc \in {"header", "launch", "run", "print", "wait", "done"}
  /\ n \in 0 .. Len(ORDER) /\ (pc \in {"run", "print", "wait"} => n > 0)
  /\ pc = "header" => n = 0
  /\ pc = "done" => n = Len(ORDER)
  /\ printed \in 0 .. Len(rows)

RowsInTurn ==
  /\ n = 0 => rows = <<>>
  /\ n > 0 => /\ Len(rows) <= Len(Items[Layer])
              /\ \A k \in 1 .. Len(rows) :
                   rows[k].layer = Layer /\ rows[k].item = k /\ rows[k] \in judged
  /\ pc # "print" \/ tty => out = <<>>
  /\ pc = "run" => printed = 0
  /\ pc = "print" => Len(rows) = Len(Items[Layer])

Chronicle ==
  /\ \A r \in Range(Text) \ {Title} : Placed(r)
  /\ Ordered(Text)
  /\ pc = "print" => \A k \in 1 .. printed : \E j \in DOMAIN Text : Text[j] = rows[k]

Finished ==
  \A l \in Layers \ died :
    \/ Position(l) < n
    \/ Position(l) = n /\ pc \in {"wait", "launch", "done"}
    => Complete(l)

PageInv == PageTypes /\ RowsInTurn /\ Chronicle /\ Finished

LEMMA Positions ==
  /\ \A l \in Layers : Position(l) \in 1 .. Len(ORDER) /\ ORDER[Position(l)] = l
  /\ \A i \in 1 .. Len(ORDER) : ORDER[i] \in Layers /\ Position(ORDER[i]) = i
  /\ Len(ORDER) \in Nat
<1>1. Len(ORDER) \in Nat /\ DOMAIN ORDER = 1 .. Len(ORDER)
  BY Registered
<1>2. ASSUME NEW l \in Layers
      PROVE  Position(l) \in 1 .. Len(ORDER) /\ ORDER[Position(l)] = l
  BY <1>1 DEF Layers, Range, Position
<1>3. ASSUME NEW i \in 1 .. Len(ORDER)
      PROVE  ORDER[i] \in Layers /\ Position(ORDER[i]) = i
  <2>1. ORDER[i] \in Layers
    BY <1>1 DEF Layers, Range
  <2>2. QED BY <1>1, <1>2, <2>1, Registered
<1>4. QED BY <1>1, <1>2, <1>3

LEMMA ItemCounts ==
  ASSUME NEW l \in Layers
  PROVE  Len(Items[l]) \in Nat /\ DOMAIN Items[l] = 1 .. Len(Items[l])
<1>1. PICK i \in DOMAIN ORDER : ORDER[i] = l
  BY DEF Layers, Range
<1>2. QED BY <1>1, Registered

LEMMA RowsAreNoTitles == \A r \in Rows : r # Title
BY DEF Rows, Statuses, Title

(* What an ordered text keeps: its prefixes, and titles put after it.      *)
LEMMA OrderedPrefix ==
  ASSUME NEW s \in Seq(Entries), NEW t \in Seq(Entries), Ordered(s \o t)
  PROVE  Ordered(s)
<1> DEFINE u == s \o t
<1>1. /\ DOMAIN s = 1 .. Len(s) /\ DOMAIN u = 1 .. Len(s) + Len(t)
      /\ Len(s) \in Nat /\ Len(t) \in Nat
      /\ \A i \in DOMAIN s : i \in DOMAIN u /\ u[i] = s[i]
  OBVIOUS
<1>2. \A i, j \in DOMAIN s : i < j /\ s[i] # Title /\ s[j] # Title => Before(s[i], s[j])
  BY <1>1 DEF Ordered
<1>3. ASSUME NEW i \in DOMAIN s, s[i] # Title, NEW k \in 1 .. s[i].item - 1
      PROVE  \E j \in DOMAIN s : j < i /\ s[j] # Title /\ s[j].layer = s[i].layer /\ s[j].item = k
  <2>1. PICK j \in DOMAIN u :
          j < i /\ u[j] # Title /\ u[j].layer = u[i].layer /\ u[j].item = k
    BY <1>1, <1>3 DEF Ordered
  <2>2. j \in DOMAIN s
    BY <1>1, <2>1
  <2>3. QED BY <1>1, <2>1, <2>2
<1>4. QED BY <1>2, <1>3 DEF Ordered

LEMMA OrderedTitles ==
  ASSUME NEW s \in Seq(Entries), NEW t \in Seq({Title}), Ordered(s)
  PROVE  Ordered(s \o t)
<1> DEFINE u == s \o t
<1>1. /\ DOMAIN s = 1 .. Len(s) /\ DOMAIN u = 1 .. Len(s) + Len(t)
      /\ Len(s) \in Nat /\ Len(t) \in Nat
      /\ \A i \in DOMAIN s : i \in DOMAIN u /\ u[i] = s[i]
      /\ \A i \in DOMAIN u \ DOMAIN s : u[i] = Title
  OBVIOUS
<1>2. \A i, j \in DOMAIN u : i < j /\ u[i] # Title /\ u[j] # Title => Before(u[i], u[j])
  BY <1>1 DEF Ordered
<1>3. ASSUME NEW i \in DOMAIN u, u[i] # Title, NEW k \in 1 .. u[i].item - 1
      PROVE  \E j \in DOMAIN u : j < i /\ u[j] # Title /\ u[j].layer = u[i].layer /\ u[j].item = k
  BY <1>1, <1>3 DEF Ordered
<1>4. QED BY <1>2, <1>3 DEF Ordered

(* A row is put after those it follows.                                    *)
LEMMA OrderedRow ==
  ASSUME NEW t \in Seq(Entries), NEW r \in Rows, Ordered(t),
         \A i \in DOMAIN t : t[i] # Title => Before(t[i], r),
         \A k \in 1 .. r.item - 1 :
           \E j \in DOMAIN t : t[j] # Title /\ t[j].layer = r.layer /\ t[j].item = k
  PROVE  Ordered(Append(t, r))
<1> DEFINE u == Append(t, r)
<1>1. /\ DOMAIN t = 1 .. Len(t) /\ DOMAIN u = 1 .. Len(t) + 1
      /\ Len(t) \in Nat
      /\ \A i \in DOMAIN t : i \in DOMAIN u /\ u[i] = t[i]
      /\ u[Len(t) + 1] = r
  OBVIOUS
<1>2. ASSUME NEW i \in DOMAIN u, NEW j \in DOMAIN u, i < j, u[i] # Title, u[j] # Title
      PROVE  Before(u[i], u[j])
  <2>1. i \in DOMAIN t
    BY <1>1, <1>2
  <2>2. CASE j \in DOMAIN t
    BY <1>1, <1>2, <2>1, <2>2 DEF Ordered
  <2>3. CASE j = Len(t) + 1
    BY <1>1, <1>2, <2>1, <2>3
  <2>4. QED BY <1>1, <2>2, <2>3
<1>3. ASSUME NEW i \in DOMAIN u, u[i] # Title, NEW k \in 1 .. u[i].item - 1
      PROVE  \E j \in DOMAIN u : j < i /\ u[j] # Title /\ u[j].layer = u[i].layer /\ u[j].item = k
  <2>1. CASE i \in DOMAIN t
    BY <1>1, <1>3, <2>1 DEF Ordered
  <2>2. CASE i = Len(t) + 1
    <3>1. PICK j \in DOMAIN t : t[j] # Title /\ t[j].layer = r.layer /\ t[j].item = k
      BY <1>1, <1>3, <2>2
    <3>2. j \in DOMAIN u /\ j < i /\ u[j] = t[j] /\ u[i] = r
      BY <1>1, <2>2
    <3>3. QED BY <3>1, <3>2
  <2>3. QED BY <1>1, <2>1, <2>2
<1>4. QED BY <1>2, <1>3 DEF Ordered

LEMMA Joined ==
  ASSUME NEW S, NEW a \in Seq(S), NEW b \in Seq(S)
  PROVE  a \o b \in Seq(S)
OBVIOUS

(* The page only grows, and what a step does to the text.                  *)
LEMMA PageGrows ==
  ASSUME PageTypes, Next
  PROVE  \A i \in DOMAIN page : i \in DOMAIN page' /\ page'[i] = page[i]
<1>1. \E s \in Seq(Entries) : page' = page \o s
  <2> USE DEF PageTypes, Entries, Written
  <2>1. CASE Preamble
    <3>1. <<Title>> \in Seq(Entries) /\ <<>> \in Seq(Entries)
      OBVIOUS
    <3>2. page' = page \o <<Title>> \/ page' = page \o <<>> \/ page' = page
      BY <2>1 DEF Preamble
    <3>3. page = page \o <<>>
      OBVIOUS
    <3>4. QED BY <3>1, <3>2, <3>3
  <2>2. CASE PrintRow
    <3>1. rows[printed + 1] \in Rows
      BY <2>2 DEF PrintRow
    <3>2. <<rows[printed + 1]>> \in Seq(Entries) /\ <<>> \in Seq(Entries)
      BY <3>1
    <3>3. page' = page \o <<rows[printed + 1]>> \/ page' = page \o <<>>
      BY <2>2 DEF PrintRow
    <3>4. QED BY <3>2, <3>3
  <2>3. CASE BufferFull \/ LayerExits
    BY <2>3 DEF BufferFull, LayerExits
  <2>4. CASE Exit
    <3>1. head \in Seq(Entries)
      BY DEF PageTypes
    <3>2. QED BY <2>4, <3>1 DEF Exit
  <2>5. CASE Launch \/ Judge \/ Report \/ LayerQuits \/ LayerKilled \/ Collect
    <3>1. page' = page
      BY <2>5 DEF Launch, Judge, Report, LayerQuits, LayerKilled, Collect
    <3>2. page = page \o <<>> /\ <<>> \in Seq(Entries)
      OBVIOUS
    <3>3. QED BY <3>1, <3>2
  <2>6. QED BY <2>1, <2>2, <2>3, <2>4, <2>5 DEF Next
<1>2. QED BY <1>1 DEF PageTypes

LEMMA TextStays ==
  ASSUME PageTypes, RowsInTurn,
         Launch \/ Judge \/ Report \/ BufferFull \/ LayerExits \/ LayerQuits \/ Collect
  PROVE  Text' = Text
<1>1. CASE BufferFull \/ LayerExits
  <2>1. page' = page \o out /\ out' = <<>>
    BY <1>1 DEF BufferFull, LayerExits
  <2>2. page \o out \in Seq(Entries)
    BY DEF PageTypes
  <2>3. QED BY <2>1, <2>2 DEF Text
<1>2. CASE Launch
  BY <1>2 DEF Launch, Text, RowsInTurn
<1>3. CASE Judge \/ Report \/ LayerQuits \/ Collect
  BY <1>3 DEF Judge, Report, LayerQuits, Collect, child, Text
<1>4. QED BY <1>1, <1>2, <1>3

LEMMA TextTitled ==
  ASSUME PageTypes, RowsInTurn, Preamble \/ Exit
  PROVE  \E t \in Seq({Title}) : Text' = Text \o t
<1>1. out = <<>> /\ out' = <<>>
  BY DEF RowsInTurn, Preamble, Exit, child
<1>2. page \in Seq(Entries) /\ <<Title>> \in Seq({Title}) /\ <<>> \in Seq({Title})
  BY DEF PageTypes
<1>3. page' \in {page, page \o <<>>, page \o <<Title>>, page \o head}
  BY DEF Preamble, Exit, Written
<1>4. page' \in Seq(Entries)
  <2>1. head \in Seq(Entries) /\ <<Title>> \in Seq(Entries) /\ <<>> \in Seq(Entries)
    BY DEF PageTypes, Entries
  <2>2. /\ page \o <<>> \in Seq(Entries) /\ page \o <<Title>> \in Seq(Entries)
        /\ page \o head \in Seq(Entries)
    BY <1>2, <2>1, Joined
  <2>3. QED BY <1>2, <1>3, <2>2
<1>5. Text' = page' /\ Text = page /\ page \o <<>> = page
  BY <1>1, <1>2, <1>4 DEF Text
<1>6. QED BY <1>2, <1>3, <1>5 DEF PageTypes

LEMMA TextRow ==
  ASSUME PageTypes, RowsInTurn, PrintRow
  PROVE  Text' = Append(Text, rows[printed + 1])
<1>1. rows[printed + 1] \in Entries /\ page \in Seq(Entries) /\ out \in Seq(Entries)
  BY DEF PageTypes, PrintRow, Entries
<1> DEFINE r == rows[printed + 1]
<1>2. CASE tty /\ out = <<>>
  BY <1>1, <1>2 DEF PrintRow, Written, Kept, Text
<1>3. CASE ~tty
  <2>1. page' = page \o <<>> /\ out' = out \o <<r>>
    BY <1>3 DEF PrintRow, Written, Kept
  <2>2. page' = page
    BY <1>1, <2>1
  <2>3. page \o (out \o <<r>>) = Append(page \o out, r)
    BY <1>1
  <2>4. QED BY <2>1, <2>2, <2>3 DEF Text
<1>4. QED BY <1>2, <1>3 DEF RowsInTurn

LEMMA StepsPageTypes ==
  ASSUME PageTypes, RowsInTurn, [Next]_vars
  PROVE  PageTypes'
<1> USE DEF PageTypes
<1>0. <<Title>> \in Seq(Entries) /\ <<>> \in Seq(Entries) /\ <<>> \in Seq(Rows)
      /\ <<Title>> \in Seq({Title}) /\ <<>> \in Seq({Title})
  BY DEF Entries
<1>1. CASE Preamble
  <2>1. page' \in Seq(Entries)
    <3>1. page' \in {page, page \o <<Title>>, page \o <<>>}
      BY <1>1 DEF Preamble, Written
    <3>2. page \o <<Title>> \in Seq(Entries) /\ page \o <<>> \in Seq(Entries)
      BY <1>0, Joined
    <3>3. QED BY <3>1, <3>2
  <2>2. head' \in Seq({Title})
    <3>1. head' \in {head, <<>>, head \o <<Title>>}
      BY <1>1 DEF Preamble, Kept
    <3>2. head \o <<Title>> \in Seq({Title})
      BY <1>0, Joined
    <3>3. QED BY <1>0, <3>1, <3>2
  <2>3. QED BY <1>1, <2>1, <2>2 DEF Preamble, child
<1>2. CASE Launch
  BY <1>0, <1>2, Positions DEF Launch
<1>3. CASE Judge
  <2>1. PICK s \in Conclusions(Items[Layer][Len(rows) + 1]) :
          rows' = Append(rows, Row(Len(rows) + 1, s))
    BY <1>3 DEF Judge
  <2>2. Layer \in Layers
    BY <1>3, Positions DEF Judge, Layer
  <2>3. Items[Layer][Len(rows) + 1] \in {"check", "TODO", "EXTERN"}
    <3>1. PICK i \in DOMAIN ORDER : ORDER[i] = Layer
      BY <2>2 DEF Layers, Range
    <3>2. Items[Layer] \in Seq({"check", "TODO", "EXTERN"})
      BY <3>1, Registered
    <3>3. QED BY <1>3, <3>2 DEF Judge
  <2>4. s \in Statuses
    BY <2>3 DEF Conclusions, Statuses
  <2>5. Row(Len(rows) + 1, s) \in Rows
    BY <2>2, <2>4 DEF Row, Rows
  <2>6. rows' \in Seq(Rows) /\ Len(rows') = Len(rows) + 1
    BY <2>1, <2>5
  <2>7. QED BY <1>3, <2>6 DEF Judge
<1>4. CASE Report
  BY <1>4 DEF Report, child
<1>5. CASE PrintRow
  <2>1. rows[printed + 1] \in Entries /\ printed + 1 \in 0 .. Len(rows)
    BY <1>5 DEF PrintRow, Entries
  <2>2. page' \in {page \o <<rows[printed + 1]>>, page \o <<>>}
    BY <1>5 DEF PrintRow, Written
  <2>3. out' \in {<<>>, out \o <<rows[printed + 1]>>}
    BY <1>5 DEF PrintRow, Kept
  <2>4. page' \in Seq(Entries) /\ out' \in Seq(Entries)
    <3>1. <<rows[printed + 1]>> \in Seq(Entries)
      BY <2>1
    <3>2. /\ page \o <<rows[printed + 1]>> \in Seq(Entries) /\ page \o <<>> \in Seq(Entries)
          /\ out \o <<rows[printed + 1]>> \in Seq(Entries)
      BY <1>0, <3>1, Joined
    <3>3. QED BY <1>0, <2>2, <2>3, <3>2
  <2>5. QED BY <1>5, <2>1, <2>4 DEF PrintRow
<1>6. CASE BufferFull \/ LayerExits
  <2>1. page' = page \o out /\ page \o out \in Seq(Entries) /\ out' = <<>>
    BY <1>6, Joined DEF BufferFull, LayerExits
  <2>2. QED BY <1>0, <1>6, <2>1 DEF BufferFull, LayerExits
<1>7. CASE LayerQuits \/ LayerKilled
  BY <1>0, <1>7 DEF LayerQuits, LayerKilled
<1>8. CASE Collect
  BY <1>8 DEF Collect, child
<1>9. CASE Exit
  <2>1. head \in Seq(Entries)
    BY DEF Entries
  <2>2. page' \in Seq(Entries)
    BY <1>9, <2>1 DEF Exit
  <2>3. QED BY <1>0, <1>9, <2>2 DEF Exit, child
<1>10. CASE UNCHANGED vars
  BY <1>10 DEF vars, child
<1>11. QED
  BY <1>1, <1>2, <1>3, <1>4, <1>5, <1>6, <1>7, <1>8, <1>9, <1>10 DEF Next

LEMMA StepsRows ==
  ASSUME PageTypes, RowsInTurn, [Next]_vars
  PROVE  RowsInTurn'
<1> USE DEF RowsInTurn
<1>1. CASE Preamble
  BY <1>1 DEF Preamble, child, invocation, Layer
<1>2. CASE Launch
  <2>1. n \in Nat /\ n' = n + 1 /\ rows' = <<>> /\ printed' = 0 /\ out' = <<>> /\ pc' = "run"
    BY <1>2 DEF Launch, PageTypes
  <2>2. Len(Items[Layer']) \in Nat
    <3>1. n' \in 1 .. Len(ORDER)
      BY <1>2, <2>1 DEF Launch, PageTypes
    <3>2. QED BY <3>1, Positions, ItemCounts DEF Layer
  <2>3. QED BY <2>1, <2>2
<1>3. CASE Judge
  <2>1. PICK s \in Conclusions(Items[Layer][Len(rows) + 1]) :
          /\ rows' = Append(rows, Row(Len(rows) + 1, s))
          /\ judged' = judged \cup {Row(Len(rows) + 1, s)}
    BY <1>3 DEF Judge
  <2>2. /\ pc = "run" /\ pc' = "run" /\ n' = n /\ n > 0 /\ Layer' = Layer
        /\ Len(rows) < Len(Items[Layer]) /\ Len(Items[Layer]) \in Nat
        /\ UNCHANGED <<out, tty, printed>>
    <3>1. n \in 1 .. Len(ORDER)
      BY <1>3 DEF Judge, PageTypes
    <3>2. QED BY <1>3, <3>1, Positions, ItemCounts DEF Judge, Layer, invocation
  <2>3. Len(rows') = Len(rows) + 1 /\ rows \in Seq(Rows) /\ rows' \in Seq(Rows)
    BY <2>1, StepsPageTypes DEF PageTypes
  <2>4. ASSUME NEW k \in 1 .. Len(rows')
        PROVE  rows'[k].layer = Layer /\ rows'[k].item = k /\ rows'[k] \in judged'
    <3>1. CASE k = Len(rows) + 1
      BY <2>1, <2>3, <3>1 DEF Row
    <3>2. CASE k # Len(rows) + 1
      <4>1. k \in 1 .. Len(rows) /\ rows'[k] = rows[k]
        BY <2>1, <2>3, <3>2
      <4>2. QED BY <2>1, <2>2, <4>1
    <3>3. QED BY <3>1, <3>2
  <2>5. QED BY <2>2, <2>3, <2>4 DEF PageTypes
<1>4. CASE Report
  BY <1>4 DEF Report, child, invocation, Layer
<1>5. CASE PrintRow
  <2>1. tty => out' = <<>>
    BY <1>5 DEF PrintRow, Kept
  <2>2. QED BY <1>5, <2>1 DEF PrintRow, invocation, Layer
<1>6. CASE BufferFull \/ LayerExits
  BY <1>6 DEF BufferFull, LayerExits, invocation, Layer
<1>7. CASE LayerQuits \/ LayerKilled
  BY <1>7 DEF LayerQuits, LayerKilled, invocation, Layer
<1>8. CASE Collect
  BY <1>8 DEF Collect, child, invocation, Layer
<1>9. CASE Exit
  BY <1>9 DEF Exit, child, invocation, Layer
<1>10. CASE UNCHANGED vars
  BY <1>10 DEF vars, child, invocation, Layer
<1>11. QED
  BY <1>1, <1>2, <1>3, <1>4, <1>5, <1>6, <1>7, <1>8, <1>9, <1>10 DEF Next

(* A row that is in its place stays there.                                 *)
LEMMA PlacedStays ==
  ASSUME PageTypes, PageTypes', RowsInTurn, [Next]_vars, NEW r, Placed(r), r \in Rows
  PROVE  Placed(r)'
<1>1. Position(r.layer) \in Nat /\ n \in Nat /\ printed \in Nat /\ printed' \in Nat
      /\ r.item \in Nat
  <2>1. n \in Nat /\ printed \in Nat /\ printed' \in Nat
    BY DEF PageTypes
  <2>2. r.item \in Nat
    BY DEF Rows
  <2>3. Position(r.layer) \in Nat
    BY Positions DEF Placed
  <2>4. QED BY <2>1, <2>2, <2>3
<1>2. judged \subseteq judged'
  BY DEF Next, Preamble, Launch, Judge, Report, PrintRow, BufferFull, LayerExits, LayerQuits,
     LayerKilled, Collect, Exit, vars, child
<1>3. n' = n + 1 \/ (n' = n /\ printed' >= printed)
  BY <1>1 DEF Next, Preamble, Launch, Judge, Report, PrintRow, BufferFull, LayerExits,
     LayerQuits, LayerKilled, Collect, Exit, vars, child
<1>4. \/ Position(r.layer) < n'
      \/ Position(r.layer) = n' /\ r.item <= printed'
  BY <1>1, <1>3 DEF Placed
<1>5. QED BY <1>2, <1>4 DEF Placed, Position

LEMMA StepsChronicle ==
  ASSUME PageInv, PageTypes', RowsInTurn', [Next]_vars
  PROVE  Chronicle'
<1> USE DEF PageInv
<1>0. Text \in Seq(Entries) /\ page \in Seq(Entries) /\ Text' \in Seq(Entries)
  BY Joined DEF PageTypes, Text
<1>1. ASSUME NEW r \in Range(Text) \ {Title}
      PROVE  Placed(r)'
  <2>1. r \in Rows /\ Placed(r)
    BY <1>0, <1>1 DEF Chronicle, Entries, Range
  <2>2. QED BY <2>1, PlacedStays
<1>2. CASE Launch \/ Judge \/ Report \/ BufferFull \/ LayerExits \/ LayerQuits \/ Collect
  <2>1. Text' = Text
    BY <1>2, TextStays
  <2>2. pc' = "print" => \A k \in 1 .. printed' : \E j \in DOMAIN Text : Text[j] = rows'[k]
    <3>1. CASE Report
      BY <3>1 DEF Report, child, RowsInTurn, PageTypes, Chronicle
    <3>2. CASE BufferFull
      BY <3>2 DEF BufferFull, Chronicle
    <3>3. CASE Launch \/ Judge \/ LayerExits \/ LayerQuits \/ Collect
      BY <3>3 DEF Launch, Judge, LayerExits, LayerQuits, Collect
    <3>4. QED BY <1>2, <3>1, <3>2, <3>3
  <2>3. Range(Text') = Range(Text)
    BY <2>1
  <2>4. QED BY <1>1, <2>1, <2>2, <2>3 DEF Chronicle, Ordered, Before, Position
<1>3. CASE PrintRow
  <2>0. PICK r : r = rows[printed + 1]
    OBVIOUS
  <2>1. /\ n \in 1 .. Len(ORDER) /\ printed \in Nat /\ printed' = printed + 1
        /\ printed + 1 \in 1 .. Len(rows) /\ Len(rows) = Len(Items[Layer])
        /\ pc = "print" /\ UNCHANGED <<n, rows, judged>>
    BY <1>3, Positions DEF PrintRow, PageTypes, RowsInTurn
  <2>2. /\ r \in Rows /\ r.layer = Layer /\ r.item = printed + 1 /\ r \in judged
        /\ Layer \in Layers /\ Position(Layer) = n
    BY <2>0, <2>1, Positions DEF RowsInTurn, PageTypes, Layer
  <2>3. Text' = Append(Text, r)
    BY <1>3, <2>0, TextRow
  <2>4. ASSUME NEW i \in DOMAIN Text, Text[i] # Title
        PROVE  Before(Text[i], r)
    <3>1. Placed(Text[i]) /\ Text[i] \in Rows
      BY <1>0, <2>4 DEF Chronicle, Entries, Range
    <3>2. Position(Text[i].layer) = n => Text[i].layer = Layer
      BY <3>1, Positions DEF Placed, Layer
    <3>3. Text[i].item \in Nat /\ Position(Text[i].layer) \in Nat
      BY <3>1, Positions DEF Placed, Rows
    <3>4. QED BY <2>1, <2>2, <3>1, <3>2, <3>3 DEF Placed, Before
  <2>5. ASSUME NEW k \in 1 .. r.item - 1
        PROVE  \E j \in DOMAIN Text : Text[j] # Title /\ Text[j].layer = r.layer /\ Text[j].item = k
    <3>1. k \in 1 .. printed /\ k \in 1 .. Len(rows)
      BY <2>1, <2>2
    <3>2. PICK j \in DOMAIN Text : Text[j] = rows[k]
      BY <2>1, <3>1 DEF Chronicle
    <3>3. rows[k] \in Rows /\ rows[k].layer = Layer /\ rows[k].item = k
      <4>1. rows[k] \in Rows
        BY <2>1, <3>1 DEF PageTypes
      <4>2. rows[k].layer = Layer /\ rows[k].item = k
        BY <2>1, <3>1 DEF RowsInTurn
      <4>3. QED BY <4>1, <4>2
    <3>4. QED BY <2>2, <3>2, <3>3, RowsAreNoTitles
  <2>6. Ordered(Text')
    BY <1>0, <2>2, <2>3, <2>4, <2>5, OrderedRow DEF Chronicle
  <2>7. Placed(r)'
    <3>1. Position(r.layer) = n' /\ r.item <= printed'
      BY <2>1, <2>2
    <3>2. r.item \in 1 .. Len(Items[r.layer])
      BY <2>1, <2>2
    <3>3. QED BY <2>1, <2>2, <3>1, <3>2 DEF Placed, Position
  <2>8. /\ DOMAIN Text' = 1 .. Len(Text) + 1 /\ DOMAIN Text = 1 .. Len(Text)
        /\ Len(Text) \in Nat
        /\ Text'[Len(Text) + 1] = r /\ \A i \in DOMAIN Text : Text'[i] = Text[i]
    BY <1>0, <2>2, <2>3 DEF Entries
  <2>9. Range(Text') \subseteq Range(Text) \cup {r}
    BY <2>8 DEF Range
  <2>10. ASSUME NEW k \in 1 .. printed'
         PROVE  \E j \in DOMAIN Text' : Text'[j] = rows'[k]
    <3>1. CASE k = printed + 1
      BY <2>0, <2>1, <2>8, <3>1
    <3>2. CASE k # printed + 1
      <4>1. k \in 1 .. printed
        BY <2>1, <3>2
      <4>2. PICK j \in DOMAIN Text : Text[j] = rows[k]
        BY <2>1, <4>1 DEF Chronicle
      <4>3. QED BY <2>1, <2>8, <4>2
    <3>3. QED BY <3>1, <3>2
  <2>11. QED BY <1>1, <2>6, <2>7, <2>9, <2>10 DEF Chronicle, Ordered, Before, Position
<1>4. CASE LayerKilled
  <2>1. Text' = page /\ pc' # "print"
    <3>1. out' = <<>> /\ page' = page /\ pc' = "wait"
      BY <1>4 DEF LayerKilled
    <3>2. QED BY <1>0, <3>1 DEF Text
  <2>2. Ordered(page)
    BY OrderedPrefix DEF Chronicle, Text, PageTypes
  <2>3. Range(page) \subseteq Range(Text)
    <3>1. \A i \in DOMAIN page : i \in DOMAIN Text /\ Text[i] = page[i]
      BY DEF PageTypes, Text
    <3>2. QED BY <3>1 DEF Range
  <2>4. QED BY <1>1, <2>1, <2>2, <2>3 DEF Chronicle, Ordered, Before, Position
<1>5. CASE Preamble \/ Exit
  <2>1. PICK t \in Seq({Title}) : Text' = Text \o t
    BY <1>5, TextTitled
  <2>2. Ordered(Text')
    BY <1>0, <2>1, OrderedTitles DEF Chronicle
  <2>3. Range(Text') \subseteq Range(Text) \cup {Title}
    <3>1. \A i \in DOMAIN Text' : Text'[i] = Title \/ (i \in DOMAIN Text /\ Text'[i] = Text[i])
      BY <1>0, <2>1
    <3>2. QED BY <3>1 DEF Range
  <2>4. pc' # "print"
    BY <1>5 DEF Preamble, Exit
  <2>5. QED BY <1>1, <2>2, <2>3, <2>4 DEF Chronicle, Ordered, Before, Position
<1>6. CASE UNCHANGED vars
  <2>1. Text' = Text /\ UNCHANGED <<pc, printed, rows, n, judged>>
    BY <1>6 DEF vars, child, Text
  <2>2. Range(Text') = Range(Text)
    BY <2>1
  <2>3. QED BY <1>1, <2>1, <2>2 DEF Chronicle, Ordered, Before, Position
<1>7. QED BY <1>2, <1>3, <1>4, <1>5, <1>6 DEF Next

LEMMA StepsFinished ==
  ASSUME PageInv, PageTypes', [Next]_vars
  PROVE  Finished'
<1> USE DEF PageInv
<1>1. SUFFICES ASSUME NEW l \in Layers \ died',
                      \/ Position(l) < n'
                      \/ Position(l) = n' /\ pc' \in {"wait", "launch", "done"}
               PROVE  Complete(l)'
  BY DEF Finished, Position
<1>2. l \notin died /\ Position(l) \in 1 .. Len(ORDER) /\ ORDER[Position(l)] = l /\ n \in Nat
  <2>1. died \subseteq died'
    BY DEF Next, Preamble, Launch, Judge, Report, PrintRow, BufferFull, LayerExits, LayerQuits,
       LayerKilled, Collect, Exit, vars, child
  <2>2. QED BY <1>1, <2>1, Positions DEF PageTypes
<1>3. Complete(l) => Complete(l)'
  <2>1. \A i \in DOMAIN page : i \in DOMAIN page' /\ page'[i] = page[i]
    <3>1. CASE Next
      BY <3>1, PageGrows
    <3>2. CASE UNCHANGED vars
      BY <3>2 DEF vars
    <3>3. QED BY <3>1, <3>2
  <2>2. SUFFICES ASSUME Complete(l), NEW k \in 1 .. Len(Items[l])
                 PROVE  \E j \in DOMAIN page' :
                          page'[j] # Title /\ page'[j].layer = l /\ page'[j].item = k
    BY DEF Complete
  <2>3. PICK j \in DOMAIN page : page[j] # Title /\ page[j].layer = l /\ page[j].item = k
    BY <2>2 DEF Complete
  <2>4. QED BY <2>1, <2>3
<1>4. CASE \/ Position(l) < n
           \/ Position(l) = n /\ pc \in {"wait", "launch", "done"}
  BY <1>1, <1>2, <1>3, <1>4 DEF Finished
<1>5. CASE ~(\/ Position(l) < n
             \/ Position(l) = n /\ pc \in {"wait", "launch", "done"})
  <2>1. CASE LayerExits
    <3>1. n' = n /\ l = Layer /\ page' = Text
      BY <1>1, <1>2, <1>5, <2>1 DEF LayerExits, Layer, Text
    <3>2. /\ pc = "print" /\ printed = Len(rows) /\ Len(rows) = Len(Items[l])
          /\ n > 0 /\ Len(rows) \in Nat
      BY <2>1, <3>1 DEF LayerExits, RowsInTurn, PageTypes
    <3>3. ASSUME NEW k \in 1 .. Len(Items[l])
          PROVE  \E j \in DOMAIN page' :
                   page'[j] # Title /\ page'[j].layer = l /\ page'[j].item = k
      <4>1. PICK j \in DOMAIN Text : Text[j] = rows[k]
        BY <3>2, <3>3 DEF Chronicle
      <4>2. rows[k] \in Rows /\ rows[k].layer = l /\ rows[k].item = k
        BY <3>1, <3>2, <3>3 DEF RowsInTurn, PageTypes
      <4>3. QED BY <3>1, <4>1, <4>2, RowsAreNoTitles
    <3>4. QED BY <3>3 DEF Complete
  <2>2. CASE LayerQuits \/ LayerKilled
    <3>1. n' = n /\ Layer \in died' /\ pc \in {"run", "print"}
      BY <2>2 DEF LayerQuits, LayerKilled
    <3>2. l = Layer
      BY <1>1, <1>2, <1>5, <3>1 DEF Layer
    <3>3. QED BY <1>1, <3>1, <3>2
  <2>3. CASE Launch
    BY <1>1, <1>2, <1>5, <2>3 DEF Launch
  <2>4. CASE Preamble
    BY <1>1, <1>2, <1>5, <2>4 DEF Preamble, PageTypes
  <2>5. CASE Collect \/ Exit
    BY <1>1, <1>2, <1>5, <2>5 DEF Collect, Exit
  <2>6. CASE Judge \/ Report \/ PrintRow \/ BufferFull
    BY <1>1, <1>2, <1>5, <2>6 DEF Judge, Report, PrintRow, BufferFull
  <2>7. CASE UNCHANGED vars
    BY <1>1, <1>2, <1>5, <2>7 DEF vars
  <2>8. QED BY <2>1, <2>2, <2>3, <2>4, <2>5, <2>6, <2>7 DEF Next
<1>6. QED BY <1>4, <1>5

LEMMA StartsPaged == Init => PageInv
<1>1. SUFFICES ASSUME Init PROVE PageInv
  OBVIOUS
<1>2. PageTypes
  BY <1>1, Positions DEF Init, PageTypes
<1>3. RowsInTurn
  BY <1>1 DEF Init, RowsInTurn
<1>4. Text = <<>>
  BY <1>1 DEF Init, Text
<1>5. Chronicle
  BY <1>1, <1>4 DEF Init, Chronicle, Ordered, Range
<1>6. Finished
  BY <1>1, Positions DEF Init, Finished
<1>7. QED BY <1>2, <1>3, <1>5, <1>6 DEF PageInv

LEMMA Paged == SuiteSpec => []PageInv
<1>1. PageInv /\ [Next]_vars => PageInv'
  BY StepsPageTypes, StepsRows, StepsChronicle, StepsFinished DEF PageInv
<1>2. Spec => []PageInv
  BY <1>1, StartsPaged, PTL DEF Spec
<1>3. QED BY <1>2, RunsTheSuite, PTL

(* What the page shows, at any moment.                                     *)
LEMMA OnThePage ==
  ASSUME PageInv
  PROVE  /\ \A r \in Shown : r \in Rows /\ Placed(r)
         /\ Ordered(page)
<1>1. page \in Seq(Entries) /\ out \in Seq(Entries)
  BY DEF PageInv, PageTypes
<1>2. Ordered(page)
  BY <1>1, OrderedPrefix DEF PageInv, Chronicle, Text
<1>3. \A i \in DOMAIN page : i \in DOMAIN Text /\ Text[i] = page[i] /\ page[i] \in Entries
  BY <1>1 DEF Text
<1>4. QED BY <1>2, <1>3 DEF PageInv, Chronicle, Shown, Range, Entries

(* What is on the page, at any moment and whatever was killed, are rows    *)
(* that were concluded, in the order of the book, none of them twice.      *)
THEOREM InOrder == SuiteSpec => []PageInOrder
<1>1. PageInv => PageInOrder
  BY OnThePage DEF PageInOrder, Ordered, Placed
<1>2. QED BY <1>1, Paged, PTL

(* Every obligation of a layer that came to its end has its row, and what  *)
(* a layer that did not has left is a prefix of its rows.                  *)
THEOREM SurvivorsCounted == SuiteSpec => []CensusOfSurvivors
<1>1. ASSUME PageInv, Done, NEW l \in Layers,
             NEW shown, shown = {r.item : r \in {q \in Shown : q.layer = l}}
      PROVE  /\ l \notin died => shown = DOMAIN Items[l]
             /\ \A i \in shown : \A j \in 1 .. i : j \in shown
  <2>1. \A i : i \in shown <=>
          \E m \in DOMAIN page : page[m] # Title /\ page[m].layer = l /\ page[m].item = i
    BY <1>1 DEF Shown, Range
  <2>2. ASSUME l \notin died
        PROVE  shown = DOMAIN Items[l]
    <3>1. Complete(l)
      <4>1. n = Len(ORDER) /\ pc = "done" /\ n \in Nat
        BY <1>1, Positions DEF Done, PageInv, PageTypes
      <4>2. QED BY <1>1, <2>2, <4>1, Positions DEF PageInv, Finished
    <3>2. DOMAIN Items[l] \subseteq shown
      BY <2>1, <3>1, ItemCounts DEF Complete
    <3>3. shown \subseteq DOMAIN Items[l]
      BY <1>1, OnThePage, ItemCounts DEF Placed
    <3>4. QED BY <3>2, <3>3
  <2>3. ASSUME NEW i \in shown, NEW j \in 1 .. i
        PROVE  j \in shown
    <3>1. PICK m \in DOMAIN page : page[m] # Title /\ page[m].layer = l /\ page[m].item = i
      BY <2>1
    <3>2. i \in Nat
      BY <1>1, <3>1, OnThePage DEF Shown, Range, Rows
    <3>3. CASE j = i
      BY <3>3
    <3>4. CASE j # i
      <4>1. j \in 1 .. page[m].item - 1
        BY <3>1, <3>2, <3>4
      <4>2. PICK o \in DOMAIN page : page[o] # Title /\ page[o].layer = page[m].layer /\ page[o].item = j
        BY <1>1, <3>1, <4>1, OnThePage DEF Ordered
      <4>3. QED BY <2>1, <3>1, <4>2
    <3>5. QED BY <3>3, <3>4
  <2>4. QED BY <2>2, <2>3
<1>2. PageInv => CensusOfSurvivors
  BY <1>1 DEF CensusOfSurvivors
<1>3. QED BY <1>2, Paged, PTL
-----------------------------------------------------------------------------
(* The co-simulation: every run but the last was lost in the boot window,  *)
(* and while there is no verdict none but a leaving one differs.           *)
Retrying ==
  /\ runs \in Seq(Cosim!Run \cup {Cosim!Expired})
  /\ Len(runs) <= RETRIES
  /\ \A k \in 1 .. Len(runs) - 1 : ~Cosim!Clean(runs[k]) /\ ~Cosim!PastBoot(runs[k])
  /\ outcome = "none" \/ (outcome \in {"PASS", "FAIL"} /\ runs # <<>>) \/ outcome = "FINDING"

LEMMA RunFields ==
  /\ \A r \in Cosim!Run : r.commits \in Nat
  /\ Cosim!Expired.commits = 0
BY RetryParameters DEF Cosim!Run, Cosim!Expired

LEMMA LastRun == runs # <<>> => Cosim!Last(runs) = runs[Len(runs)]
BY DEF Cosim!Last

LEMMA StepsRetry ==
  ASSUME Retrying, [Cosim!Next]_(Cosim!vars)
  PROVE  Retrying'
<1>1. CASE Cosim!Absent
  BY <1>1 DEF Cosim!Absent, Retrying, Cosim!Clean, Cosim!PastBoot
<1>2. ASSUME NEW r \in Cosim!Run \cup {Cosim!Expired}, runs' = Append(runs, r),
             outcome = "none", outcome' \in {"none", "FAIL"},
             Len(runs) < RETRIES, ~Cosim!Leaves
      PROVE  Retrying'
  <2>1. /\ runs' \in Seq(Cosim!Run \cup {Cosim!Expired})
        /\ Len(runs') = Len(runs) + 1 /\ Len(runs) \in Nat
        /\ \A k \in 1 .. Len(runs) : runs'[k] = runs[k]
    BY <1>2 DEF Retrying
  <2>2. Len(runs') <= RETRIES
    BY <1>2, <2>1, RetryParameters
  <2>3. runs # <<>> => ~Cosim!Clean(runs[Len(runs)]) /\ ~Cosim!PastBoot(runs[Len(runs)])
    BY <1>2, LastRun DEF Cosim!Leaves
  <2>4. ASSUME NEW k \in 1 .. Len(runs') - 1
        PROVE  ~Cosim!Clean(runs'[k]) /\ ~Cosim!PastBoot(runs'[k])
    <3>1. k \in 1 .. Len(runs) /\ runs'[k] = runs[k]
      BY <2>1
    <3>2. CASE k = Len(runs)
      <4>1. runs # <<>>
        BY <3>1, <3>2
      <4>2. QED BY <2>3, <3>1, <3>2, <4>1
    <3>3. CASE k # Len(runs)
      BY <2>1, <3>1, <3>3 DEF Retrying
    <3>4. QED BY <3>2, <3>3
  <2>5. runs' # <<>>
    BY <2>1
  <2>6. QED
    BY <1>2, <2>1, <2>2, <2>4, <2>5 DEF Retrying, Cosim!Clean, Cosim!PastBoot
<1>3. CASE Cosim!Simulate
  BY <1>2, <1>3 DEF Cosim!Simulate
<1>4. CASE Cosim!Expires
  BY <1>2, <1>4 DEF Cosim!Expires
<1>5. CASE Cosim!Conclude
  <2>1. runs # <<>>
    BY <1>5, RetryParameters DEF Cosim!Conclude, Cosim!Leaves
  <2>2. QED
    BY <1>5, <2>1 DEF Cosim!Conclude, Retrying, Cosim!Clean, Cosim!PastBoot
<1>6. CASE UNCHANGED Cosim!vars
  BY <1>6 DEF Cosim!vars, Retrying, Cosim!Clean, Cosim!PastBoot
<1>7. QED BY <1>1, <1>3, <1>4, <1>5, <1>6 DEF Cosim!Next

LEMMA StepsJudge ==
  ASSUME Retrying, CosimIsJudgedFairly, [Cosim!Next]_(Cosim!vars)
  PROVE  CosimIsJudgedFairly'
<1> USE DEF CosimIsJudgedFairly, Cosim!DivergenceIsFinal, Cosim!FailsForCause
<1>1. CASE Cosim!Absent
  BY <1>1 DEF Cosim!Absent
<1>2. CASE Cosim!Simulate
  BY <1>2 DEF Cosim!Simulate
<1>3. CASE Cosim!Expires
  <2>1. outcome' = "FAIL" /\ runs' = Append(runs, Cosim!Expired)
    BY <1>3 DEF Cosim!Expires
  <2>2. runs' # <<>> /\ runs'[Len(runs')] = Cosim!Expired
    BY <2>1 DEF Retrying
  <2>3. Cosim!Last(runs') = Cosim!Expired
    BY <2>2 DEF Cosim!Last
  <2>4. QED BY <2>1, <2>3 DEF Cosim!Expired
<1>4. CASE Cosim!Conclude
  <2>1. /\ runs # <<>> /\ runs' = runs
        /\ Cosim!Leaves \/ Len(runs) = RETRIES
        /\ outcome' = IF Cosim!Clean(Cosim!Last(runs)) THEN "PASS" ELSE "FAIL"
    BY <1>4, RetryParameters DEF Cosim!Conclude, Cosim!Leaves
  <2>2. \A k \in 1 .. Len(runs) : runs[k] \in Cosim!Run \cup {Cosim!Expired}
    BY DEF Retrying
  <2>3. Cosim!Last(runs) = runs[Len(runs)]
    BY <2>1, LastRun
  <2>4. CASE Cosim!Clean(Cosim!Last(runs))
    <3>1. outcome' = "PASS"
      BY <2>1, <2>4
    <3>2. \A k \in 1 .. Len(runs) - 1 : runs[k].commits <= Boot
      <4>1. ASSUME NEW k \in 1 .. Len(runs) - 1
            PROVE  runs[k].commits <= Boot
        <5>1. ~Cosim!PastBoot(runs[k])
          BY DEF Retrying
        <5>2. runs[k].commits \in Nat
          BY <2>2, RunFields
        <5>3. QED BY <5>1, <5>2, RetryParameters DEF Cosim!PastBoot
      <4>2. QED BY <4>1
    <3>3. QED BY <2>1, <2>4, <3>1, <3>2
  <2>5. CASE ~Cosim!Clean(Cosim!Last(runs)) /\ Cosim!PastBoot(Cosim!Last(runs))
    BY <2>1, <2>5
  <2>6. CASE ~Cosim!Clean(Cosim!Last(runs)) /\ ~Cosim!PastBoot(Cosim!Last(runs))
    <3>1. Len(runs) = RETRIES /\ outcome' = "FAIL"
      BY <2>1, <2>6 DEF Cosim!Leaves
    <3>2. ASSUME NEW k \in DOMAIN runs
          PROVE  ~Cosim!Clean(runs[k]) /\ ~Cosim!PastBoot(runs[k])
      BY <2>3, <2>6 DEF Retrying
    <3>3. QED BY <2>1, <3>1, <3>2
  <2>7. QED BY <2>4, <2>5, <2>6
<1>5. CASE UNCHANGED Cosim!vars
  BY <1>5 DEF Cosim!vars
<1>6. QED BY <1>1, <1>2, <1>3, <1>4, <1>5 DEF Cosim!Next

(* A divergence after boot is never retried into a pass, and a lost boot   *)
(* race alone fails nothing, however long the loop.                        *)
THEOREM JudgedFairly == SuiteSpec => []CosimIsJudgedFairly
<1>1. Cosim!Init => Retrying /\ CosimIsJudgedFairly
  BY RetryParameters
  DEF Cosim!Init, Retrying, CosimIsJudgedFairly, Cosim!DivergenceIsFinal, Cosim!FailsForCause
<1>2. /\ Retrying /\ CosimIsJudgedFairly /\ [Cosim!Next]_(Cosim!vars)
         => (Retrying /\ CosimIsJudgedFairly)'
  BY StepsRetry, StepsJudge
<1>3. Cosim!Spec => []CosimIsJudgedFairly
  BY <1>1, <1>2, PTL DEF Cosim!Spec
<1>4. QED BY <1>3, RunsTheCosim, PTL
-----------------------------------------------------------------------------
(* The scan: the two readings of the open conditionals stay in step, and   *)
(* agree on those without `elsif; a simulation macro has been seen when a  *)
(* conditional on one is open.                                             *)
Conditionals == [kind : Scan!Kinds, macro : Scan!Names, in_else : BOOLEAN]
Branches == [now : BOOLEAN, before : BOOLEAN, elsif : BOOLEAN]

Agrees(c, b) ==
  ~b.elsif => /\ b.now <=> (Scan!Holds(c.kind, c.macro) # c.in_else)
              /\ ~c.in_else => (b.before <=> Scan!Holds(c.kind, c.macro))

InStep ==
  /\ stack \in Seq(Conditionals) /\ compiled \in Seq(Branches)
  /\ Len(stack) = Len(compiled)
  /\ bad \in Nat /\ defined \subseteq Others /\ machinery \in BOOLEAN /\ exposed \in BOOLEAN
  /\ \A k \in 1 .. Len(stack) :
       /\ Agrees(stack[k], compiled[k])
       /\ stack[k].macro \in Scan!Simulation => machinery

Exposure == exposed => bad > 0 \/ machinery

LEMMA HoldsIsBoolean == \A kind, macro : Scan!Holds(kind, macro) \in BOOLEAN
BY DEF Scan!Holds

(* A step that replaces the innermost conditional, or adds one.            *)
LEMMA Replaced ==
  ASSUME InStep, NEW c \in Conditionals, NEW b \in Branches,
         stack # <<>>, UNCHANGED <<bad, defined, exposed>>,
         machinery' \in BOOLEAN, machinery => machinery',
         stack' = [stack EXCEPT ![Len(stack)] = c],
         compiled' = [compiled EXCEPT ![Len(compiled)] = b],
         Agrees(c, b), c.macro \in Scan!Simulation => machinery'
  PROVE  InStep'
<1>1. /\ Len(stack) \in Nat /\ Len(stack) > 0 /\ Len(compiled) = Len(stack)
      /\ stack' \in Seq(Conditionals) /\ compiled' \in Seq(Branches)
      /\ Len(stack') = Len(stack) /\ Len(compiled') = Len(compiled)
  BY DEF InStep
<1>2. ASSUME NEW k \in 1 .. Len(stack')
      PROVE  /\ Agrees(stack'[k], compiled'[k])
             /\ stack'[k].macro \in Scan!Simulation => machinery'
  <2>1. CASE k = Len(stack)
    <3>1. stack'[k] = c /\ compiled'[k] = b
      BY <1>1, <2>1 DEF InStep
    <3>2. QED BY <3>1
  <2>2. CASE k # Len(stack)
    <3>1. stack'[k] = stack[k] /\ compiled'[k] = compiled[k] /\ k \in 1 .. Len(stack)
      BY <1>1, <2>2 DEF InStep
    <3>2. QED BY <3>1 DEF InStep
  <2>3. QED BY <2>1, <2>2
<1>3. \A x, y : Agrees(x, y)' <=> Agrees(x, y)
  BY DEF Agrees, Scan!Holds
<1>4. QED BY <1>1, <1>2, <1>3 DEF InStep, Agrees, Scan!Holds

LEMMA Opened ==
  ASSUME InStep, NEW c \in Conditionals, NEW b \in Branches,
         UNCHANGED <<bad, defined, exposed>>,
         machinery' \in BOOLEAN, machinery => machinery',
         stack' = Append(stack, c), compiled' = Append(compiled, b),
         Agrees(c, b), c.macro \in Scan!Simulation => machinery'
  PROVE  InStep'
<1>1. /\ stack' \in Seq(Conditionals) /\ compiled' \in Seq(Branches)
      /\ Len(stack') = Len(stack) + 1 /\ Len(compiled') = Len(compiled) + 1
  BY DEF InStep
<1>2. ASSUME NEW k \in 1 .. Len(stack')
      PROVE  /\ Agrees(stack'[k], compiled'[k])
             /\ stack'[k].macro \in Scan!Simulation => machinery'
  <2>1. CASE k = Len(stack) + 1
    <3>1. stack'[k] = c /\ compiled'[k] = b
      BY <1>1, <2>1 DEF InStep
    <3>2. QED BY <3>1
  <2>2. CASE k # Len(stack) + 1
    <3>1. stack'[k] = stack[k] /\ compiled'[k] = compiled[k] /\ k \in 1 .. Len(stack)
      BY <1>1, <2>2 DEF InStep
    <3>2. QED BY <3>1 DEF InStep
  <2>3. QED BY <2>1, <2>2
<1>3. QED BY <1>1, <1>2 DEF InStep, Agrees, Scan!Holds

LEMMA Innermost ==
  ASSUME InStep, stack # <<>>
  PROVE  /\ Len(stack) \in 1 .. Len(stack) /\ Len(compiled) = Len(stack)
         /\ Scan!Last(stack) = stack[Len(stack)]
         /\ stack[Len(stack)] \in Conditionals
         /\ compiled[Len(compiled)] \in Branches
         /\ Agrees(stack[Len(stack)], compiled[Len(compiled)])
         /\ stack[Len(stack)].macro \in Scan!Simulation => machinery
<1>1. Len(stack) \in 1 .. Len(stack)
  BY DEF InStep
<1>2. QED BY <1>1 DEF InStep, Scan!Last

LEMMA StepsInStep ==
  ASSUME InStep, [Scan!Next]_(Scan!vars)
  PROVE  InStep'
<1>1. CASE Scan!Open
  <2>1. PICK kind \in Scan!Kinds, macro \in Scan!Names :
          /\ stack' = Append(stack, [kind |-> kind, macro |-> macro, in_else |-> FALSE])
          /\ compiled' = Append(compiled, [now |-> Scan!Holds(kind, macro),
                                           before |-> Scan!Holds(kind, macro), elsif |-> FALSE])
          /\ machinery' = (machinery \/ macro \in Scan!Simulation)
    BY <1>1 DEF Scan!Open
  <2> DEFINE c == [kind |-> kind, macro |-> macro, in_else |-> FALSE]
             b == [now |-> Scan!Holds(kind, macro), before |-> Scan!Holds(kind, macro),
                   elsif |-> FALSE]
  <2>2. c \in Conditionals /\ b \in Branches
    BY HoldsIsBoolean DEF Conditionals, Branches
  <2>3. Agrees(c, b)
    BY HoldsIsBoolean DEF Agrees
  <2>4. QED BY <1>1, <2>1, <2>2, <2>3, Opened DEF Scan!Open, InStep
<1>2. CASE Scan!Else
  <2> DEFINE s == stack[Len(stack)]
             a == compiled[Len(compiled)]
             c == [s EXCEPT !.in_else = TRUE]
             b == [now |-> ~a.before /\ TRUE, before |-> a.before \/ TRUE,
                   elsif |-> a.elsif \/ FALSE]
  <2>1. stack # <<>> /\ ~s.in_else
    BY <1>2, Innermost DEF Scan!Else
  <2>2. /\ stack' = [stack EXCEPT ![Len(stack)] = c]
        /\ compiled' = [compiled EXCEPT ![Len(compiled)] = b]
    BY <1>2, <2>1, Innermost DEF Scan!Else, Scan!Turn, InStep
  <2>3. s \in Conditionals /\ a \in Branches /\ Agrees(s, a)
    BY <2>1, Innermost
  <2>4. c \in Conditionals /\ b \in Branches /\ c.macro = s.macro /\ c.kind = s.kind /\ c.in_else
    BY <2>3 DEF Conditionals, Branches
  <2>5. Agrees(c, b)
    BY <2>1, <2>3, <2>4, HoldsIsBoolean DEF Agrees, Branches
  <2>6. QED
    BY <1>2, <2>1, <2>2, <2>4, <2>5, Innermost, Replaced DEF Scan!Else, InStep
<1>3. CASE Scan!Elsif
  <2>1. PICK macro \in Scan!Names :
          /\ Scan!Turn(Scan!Holds("ifdef", macro), TRUE)
          /\ machinery' = (machinery \/ macro \in Scan!Simulation)
    BY <1>3 DEF Scan!Elsif
  <2> DEFINE s == stack[Len(stack)]
             a == compiled[Len(compiled)]
             h == Scan!Holds("ifdef", macro)
             b == [now |-> ~a.before /\ h, before |-> a.before \/ h, elsif |-> a.elsif \/ TRUE]
  <2>2. stack # <<>> /\ stack' = stack
    BY <1>3 DEF Scan!Elsif
  <2>3. s \in Conditionals /\ a \in Branches
    BY <2>2, Innermost
  <2>4. /\ stack' = [stack EXCEPT ![Len(stack)] = s]
        /\ compiled' = [compiled EXCEPT ![Len(compiled)] = b]
    BY <2>1, <2>2, Innermost DEF Scan!Turn, InStep
  <2>5. b \in Branches /\ b.elsif
    BY <2>3, HoldsIsBoolean DEF Branches
  <2>6. Agrees(s, b)
    BY <2>5 DEF Agrees
  <2>7. QED
    BY <1>3, <2>1, <2>2, <2>3, <2>4, <2>5, <2>6, Innermost, Replaced DEF Scan!Elsif, InStep
<1>4. CASE Scan!Endif
  <2>1. /\ stack # <<>> /\ Len(stack) - 1 \in Nat
        /\ stack' = SubSeq(stack, 1, Len(stack) - 1)
        /\ compiled' = SubSeq(compiled, 1, Len(stack) - 1)
    BY <1>4 DEF Scan!Endif, Scan!Front, InStep
  <2>2. /\ stack' \in Seq(Conditionals) /\ compiled' \in Seq(Branches)
        /\ Len(stack') = Len(stack) - 1 /\ Len(compiled') = Len(stack) - 1
        /\ \A k \in 1 .. Len(stack') : stack'[k] = stack[k] /\ compiled'[k] = compiled[k]
    BY <2>1 DEF InStep
  <2>3. /\ bad' = bad /\ defined' = defined /\ machinery' = machinery /\ exposed' = exposed
    BY <1>4 DEF Scan!Endif
  <2>4. /\ Len(stack') = Len(compiled')
        /\ bad' \in Nat /\ defined' \subseteq Others
        /\ machinery' \in BOOLEAN /\ exposed' \in BOOLEAN
    BY <2>2, <2>3 DEF InStep
  <2>5. ASSUME NEW k \in 1 .. Len(stack')
        PROVE  /\ Agrees(stack[k], compiled[k])'
               /\ stack'[k].macro \in Scan!Simulation => machinery'
    <3>1. /\ k \in 1 .. Len(stack) /\ stack'[k] = stack[k] /\ compiled'[k] = compiled[k]
      BY <2>1, <2>2
    <3>2. /\ Agrees(stack[k], compiled[k])
          /\ stack[k].macro \in Scan!Simulation => machinery
      BY <3>1 DEF InStep
    <3>3. QED BY <2>3, <3>1, <3>2 DEF Agrees, Scan!Holds
  <2>6. QED BY <2>2, <2>4, <2>5 DEF InStep
<1>5. CASE Scan!Initial
  BY <1>5 DEF Scan!Initial, InStep, Agrees, Scan!Holds
<1>6. CASE Scan!Conclude
  BY <1>6 DEF Scan!Conclude, InStep, Agrees, Scan!Holds
<1>7. CASE UNCHANGED Scan!vars
  BY <1>7 DEF Scan!vars, InStep, Agrees, Scan!Holds
<1>8. QED BY <1>1, <1>2, <1>3, <1>4, <1>5, <1>6, <1>7 DEF Scan!Next

LEMMA StepsHide ==
  ASSUME InStep, Exposure, InitialsAreHidden, [Scan!Next]_(Scan!vars)
  PROVE  Exposure' /\ InitialsAreHidden'
<1> USE DEF InitialsAreHidden, Scan!GuardsHide, Scan!PassIsForgiven, Exposure
<1>1. CASE Scan!Open \/ Scan!Elsif \/ Scan!Else \/ Scan!Endif
  <2>1. UNCHANGED <<bad, verdict, exposed, misread>> /\ verdict = "none"
    BY <1>1 DEF Scan!Open, Scan!Elsif, Scan!Else, Scan!Endif, Scan!Read
  <2>2. machinery => machinery'
    BY <1>1 DEF Scan!Open, Scan!Elsif, Scan!Else, Scan!Endif
  <2>3. QED BY <2>1, <2>2
<1>3. CASE Scan!Initial
  <2> DEFINE hidden == {k \in DOMAIN stack : Scan!SimOnly(stack[k])}
             seen == \A k \in DOMAIN compiled : compiled[k].now
  <2>1. /\ bad' = IF hidden # {} THEN bad ELSE bad + 1
        /\ exposed' = (exposed \/ seen)
        /\ misread' = IF seen THEN misread \cup {Scan!Reason(k) : k \in hidden} ELSE misread
        /\ UNCHANGED <<machinery, verdict>> /\ verdict = "none"
    BY <1>3 DEF Scan!Initial, Scan!Read
  <2>2. bad \in Nat
    BY DEF InStep
  <2>3. DOMAIN stack = 1 .. Len(stack) /\ DOMAIN compiled = 1 .. Len(stack)
    BY DEF InStep
  <2>4. ASSUME NEW k \in hidden
        PROVE  /\ machinery
               /\ Scan!Reason(k) = "guard" => ~seen
    <3>1. /\ k \in 1 .. Len(stack) /\ Agrees(stack[k], compiled[k])
          /\ stack[k] \in Conditionals /\ compiled[k] \in Branches
          /\ stack[k].macro \in Scan!Simulation => machinery
          /\ Scan!SimOnly(stack[k])
      BY <2>3, <2>4 DEF InStep
    <3>2. machinery
      BY <3>1 DEF Scan!SimOnly, Scan!Simulation
    <3>3. ASSUME Scan!Reason(k) = "guard"
          PROVE  ~compiled[k].now
      <4>1. ~compiled[k].elsif /\ stack[k].macro # "SYNTHESIS"
        BY <3>3 DEF Scan!Reason
      <4>2. /\ stack[k].macro \in Guards
            /\ (stack[k].kind = "ifdef") # stack[k].in_else
        BY <3>1, <4>1 DEF Scan!SimOnly, Scan!Simulation
      <4>3. stack[k].macro \notin defined \cup {"SYNTHESIS"}
        BY <4>1, <4>2, ScanParameters DEF InStep
      <4>4. Scan!Holds(stack[k].kind, stack[k].macro) <=> (stack[k].kind # "ifdef")
        BY <4>3 DEF Scan!Holds
      <4>5. stack[k].in_else \in BOOLEAN
        BY <3>1 DEF Conditionals
      <4>6. QED BY <3>1, <4>1, <4>2, <4>4, <4>5, HoldsIsBoolean DEF Agrees, Branches
    <3>4. QED BY <2>3, <3>1, <3>2, <3>3
  <2>5. Exposure'
    BY <2>1, <2>2, <2>4
  <2>6. "guard" \notin misread'
    BY <2>1, <2>4
  <2>7. QED BY <2>1, <2>5, <2>6
<1>4. CASE Scan!Conclude
  <2>1. machinery \in BOOLEAN /\ exposed \in BOOLEAN
    BY DEF InStep
  <2>2. /\ verdict' = IF bad > 0 /\ ~machinery THEN "FAIL" ELSE "PASS"
        /\ UNCHANGED <<bad, machinery, exposed, misread>>
    BY <1>4 DEF Scan!Conclude
  <2>3. Exposure'
    BY <2>2
  <2>4. verdict' = "PASS" /\ exposed' => machinery'
    BY <2>1, <2>2
  <2>5. QED BY <2>2, <2>3, <2>4
<1>5. CASE UNCHANGED Scan!vars
  <2>1. UNCHANGED <<bad, machinery, exposed, misread, verdict>>
    BY <1>5 DEF Scan!vars
  <2>2. QED BY <2>1
<1>6. QED BY <1>1, <1>3, <1>4, <1>5 DEF Scan!Next

(* A simulation guard hides what it is believed to hide, however the       *)
(* conditionals nest, and a file that shows synthesis an initial block     *)
(* passes only by naming a guard.                                          *)
THEOREM Hidden == SuiteSpec => []InitialsAreHidden
<1>1. Scan!Init => InStep /\ Exposure /\ InitialsAreHidden
  <2>1. SUFFICES ASSUME Scan!Init PROVE InStep /\ Exposure /\ InitialsAreHidden
    OBVIOUS
  <2>2. InStep
    <3>1. stack = <<>> /\ compiled = <<>> /\ bad = 0
      BY <2>1 DEF Scan!Init
    <3>2. defined \subseteq Others /\ machinery \in BOOLEAN /\ exposed \in BOOLEAN
      BY <2>1 DEF Scan!Init
    <3>3. QED BY <3>1, <3>2 DEF InStep
  <2>3. ~exposed /\ verdict = "none" /\ misread = {}
    BY <2>1 DEF Scan!Init
  <2>4. QED
    BY <2>2, <2>3 DEF Exposure, InitialsAreHidden, Scan!GuardsHide, Scan!PassIsForgiven
<1>2. /\ InStep /\ Exposure /\ InitialsAreHidden /\ [Scan!Next]_(Scan!vars)
         => (InStep /\ Exposure /\ InitialsAreHidden)'
  BY StepsInStep, StepsHide
<1>3. Scan!Spec => []InitialsAreHidden
  BY <1>1, <1>2, PTL DEF Scan!Spec
<1>4. QED BY <1>3, RunsTheScan, PTL
=============================================================================
