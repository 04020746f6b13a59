# TLA+ verification of thinking-sand

thinking-sand (`src/`) takes a chip apart into *obligations* and gives each one
a checker. Nearly all of its logic is in `src/tools/`: the obligation checkers
(`check-l0.py` ... `check-l7.py`, `netgraph.py`, `synccheck.py`, `partition.py`
and others), the framework that runs them (`checklib.py`, `check-all.py`), the
scripts that provide what they read (`fetch-data.sh`, `install-toolchain.sh`,
`sta-rerun.sh`, `regenerate-core.sh`, `build-rocket.sh`), and the simulation bench of the core
(`sim/tb_core.v`). One RTL file is the project's own: the SRAM wrappers of
`flow/rocket-tiny/srams/`. The rest is prose (`src/src/`), vendored decks,
libraries, patches and configurations.

The specifications here are about what these tools conclude. An obligation that
passes is an argument in the book, so what can go wrong is a checker that
concludes more than it has seen, an input that is not what it is believed to be,
and a page that does not show what was concluded.

`PROJECT.json` lists components, runs, theorems, hazards and, for each
definition, the source lines it models.

## 1. Inventory

| component | state | operations | what is hard about it | what makes it correct |
|---|---|---|---|---|
| `netgraph.py` W3 | `edges`, `work`, `idx`, `low`, `stk`, `on`, `cyc` | Tarjan's search, made iterative | results depend on invariants across frames; order of a Python `set` | reports exactly the cyclic components |
| `netgraph.py` W1, W2, W4, parser; `check-l3.py` wcheck | pin tables, `drivers`, `readers` | contention, floating reads, inert cells | name-based exceptions; which cells count as state | a netlist that passes has a value on every net it reads |
| `synccheck.py` | the netlist, `seen` and `frontier` of a trace, the position of a chase | trace an input, chase buffers, judge a capture | no order is fixed; the chase keeps no visited set | all that an input reaches is reported; SYNC means two stages on one clock |
| `clockcheck.py`, `check-l2.py` domain census | driver maps of their own | walk from a clock pin up to a root | two walks with two lists of cells | they agree, and what is called a clock is all that reaches a clock pin |
| `rocket_srams.v` | macro arrays, macro outputs, `bank_q` | RW0 port | address now against address of the read | is the flat memory Chipyard asked for |
| `fetch-data.sh` | `data/`, the pin | `get`, `gunzip`, bump, re-run | interruption, failure, staleness | `data/` is the pinned commit |
| `install-toolchain.sh` | downloads, trees, the pins | test, download, verify, unpack, bump | the same, and what upstream serves | only verified bits; the pinned release |
| `sim/tb_core.v` bench | RAM, wait counters, monitors G1-G4 | one clock edge | two buses at once, an unknown core | no false alarm, no missed change |
| `sim/tb_core.v` measure | gap counters and histogram | one clock edge | boundaries | the histogram is the distribution of gaps |
| `checklib.py`, `check-all.py` | page, buffers, rows, return codes | run layers, print, collect | processes that share a file; death | exit code and page tell the truth |
| `check-l5.py` cosim | the runs so far | simulate, retry, conclude | a flaky boot against a divergence | no divergence is retried into a pass |
| `check-l4.py` init-idiom | conditional stack, `bad` | scan a line | nesting, `else`, `elsif` | what synthesis sees is found |
| `check-l4.py` census, x-idiom | the files of the cone | strip comments, count constructs, match literals to `Memory[` | two substitutions in place of a lexer | the verdicts are about the code |
| `check-l2.py` nine-corner, domain-violations | corner reports, the failing corners | list, read, conclude | the flow may be writing still, or have died | a pass is closed timing in every corner listed |
| `check-l1.py` drc-triage | two counters | place a violation by its first vertex | the margin, items larger than it | what passes lies in a macro |
| `gdsdump.py`, `bbox.py` | the current element, layer and kind; counts and boxes | one pass over the records | what a record belongs to is remembered, never reset | counts and boxes are those of the shapes on a layer |
| `partition.py`, `imagecheck.py` | reduced decision diagrams; words of an image | union, difference, paths, counts, classification | levels that a diagram skips | the difference of decoder and specification, exactly |
| `partition.py` against riscv-opcodes | name -> pattern | read the lines, compare `SPEC` | shorthands with the names of instructions | `SPEC` is the instructions' |
| `memmap.py` | select lines, wiring, CSR banks, a map | derive windows, locate pointers, compare | word and byte addresses | what is reported of an address is what the bus does |
| `check-l7.py` memmap | regions by name | collect nodes, compare neighbours | names that repeat | a pass is a disjoint map |
| `irqmap.py` | `stage0`, `stage1`, `sink`, `bits` | pair registers of a chain, compare the table | one entry per register | the chains are those of the RTL |
| `pads.py` | modes, users' modes, instances | decode words, check slices | slices and defines of other files | a pad powers up as it says |
| `sdc-audit.py`, `sdc-elaborate.tcl` | the script, a log per mode | force a mode, run, compare case analysis | a program rewritten by a regular expression | the pins that modes tie differently are listed |
| `sta-rerun.sh` | derived netlist, logs of corners, summary | derive, run a corner unless its log looks finished, summarise | stale caches, what is cut, inputs that change during a run | a summary is of its inputs, or there is a reason to be named |
| `regenerate-core.sh` | clone, target core | clone, check out, control, experiment, install | ignored failures, submodules of another commit | the target is from a clone that passed the control, at the pin |
| `build-rocket.sh`, `run-rocket-flow.sh` | clone, firtool, staged Verilog, macros | clone, elaborate, stage file by file, harden | ignored copies, directories taken for what is in them | what is hardened is one elaboration of the pin |
| `build-rocket-hammer.sh` setup | clone of the macros, expanded layouts | clone, check out, expand what is not there | a bump, a killed expansion | each layout is the pin's |
| `build-book.sh`, CI | cache entries, the job, the waiting job, the site | restore, fetch, run the suite, save, deploy | exit code dropped, a cache that decides what fetch keeps | the page is about the data its commit pins |
| other drivers, `regenerate-mgmt-core.sh`, extractors, records, book, flow data | none of interest | - | external tools, text | - |

The components meet in few places. `fetch-data.sh` and `install-toolchain.sh`
leave files; the checkers read them and trust their presence. Each layer is a
process that `check-all.py` starts and waits for; they share the standard output
and a return code. The bench, the co-simulation and STA are external processes
whose exit codes and reports the checkers read. The four netlist tools share the
pin tables and the notion of a sequential cell of `netgraph.py`, and differ in
what they take for a buffer; L2 quotes the domain table of one and the verdict of
another. The other obligations share nothing: each reads files of its own.

## 2. Modules

| module | models | with |
|---|---|---|
| `NetReach` | graphs, reachability, cyclic components: the definition W3 is measured by | |
| `SccReport` | abstract: a list that grows by one cyclic component at a time, none before those it leads to | |
| `CombCycles` | the search of `netgraph.py`; `SkipRoot`, `StartRoot`, `Descend`, `Look`, `FinishOpen`, `CloseComponent` are the turns of its loops | refines `SccReport` |
| `SramPort` | the RW0 port of the Chipyard memories | |
| `FlatSram` | abstract: one array with a read latency of one | |
| `BankedSram` | the wrappers of `rocket_srams.v`; a step is an edge of `RW0_clk` | refines `FlatSram` |
| `FetchData` | a run of `fetch-data.sh` with its child process, and what happens between runs | |
| `InstallToolchain` | a run of `install-toolchain.sh` | |
| `StaRerun` | runs of `sta-rerun.sh` and the analyser it starts, and the inputs that change | |
| `CoreTarget` | runs of `regenerate-core.sh`, and upstream | |
| `RocketBuild` | runs of `build-rocket.sh`, and the flow that takes what it staged | |
| `HammerSetup` | the macros of `build-rocket-hammer.sh setup` | |
| `BookPages` | the jobs of `book.yml` with `build-book.sh` | |
| `TestBench` | memory and monitors of `tb_core.v` around an external core; a step is an edge of `clk` | |
| `RetireGaps` | the retirement measure of `tb_core.v` | |
| `Scoreboard` | `Layer.run`, `Layer.main` and `check-all.py`, their buffers and exits | |
| `CosimRetry` | the retry loop of the cosim obligation | |
| `InitScan` | the scan of one file for initial blocks, next to a preprocessor that defines SYNTHESIS | |
| `Netlist` | netlists, drivers and readers, W1-W4 and the verdict of wcheck; W3 enters by the definition `CombCycles` is proved to decide | |
| `SyncCheck` | `synccheck.py`: the trace of one input, the chase, the verdict | extends `Netlist` |
| `ClockWalks` | `clockcheck.py` and the domain census of `check-l2.py` as two walks over one netlist | extends `SyncCheck` |
| `Partition` | the diagrams of `partition.py` and the classes of `imagecheck.py` | |
| `OpcodeTable` | the reading of riscv-opcodes and the comparison with `SPEC` | |
| `BusDecode` | `memmap.py` next to the bus it describes | |
| `DeviceTree` | the memmap obligation of `check-l7.py` | |
| `IrqMap` | `irqmap.py` next to the RTL it reads | |
| `PadDefaults` | `pads.py` next to the bus of the defaults blocks | |
| `ModeAudit` | `sdc-audit.py` with `sdc-elaborate.tcl` | |
| `TimingReports` | nine-corner and domain-violations, next to a flow that writes | |
| `DrcTriage` | drc-triage of `check-l1.py` | |
| `GdsExtents` | `gdsdump.py` and `bbox.py` over one stream | |
| `ConeText` | census and x-idiom of `check-l4.py`, next to the way Verilog reads comments | |
| `CombCyclesProofs`, `BankedSramProofs`, `FetchDataProofs`, `SyncCheckProofs`, `ScriptsProofs`, `SuiteProofs`, `BenchProofs`, `ObligationsProofs` | the theorems of §4 | the first three extend the module they are named after, `SyncCheckProofs` extends `ClockWalks`, the others `MCScripts`, `MCSuite`, `MCTestBench` and `MCObligations` |
| `MCFetchData`, `MCNetlist` | the instances for TLC; `CombCycles`, `BankedSram` and `InitScan` are checked as they are, their configurations give the constants | |
| `MCScripts` | the installer, the timing analysis, the target core, the Rocket build, its macros and the book in one instance | extends `InstallToolchain`, instances the others |
| `MCTestBench` | the bench and the retirement measure in one instance | instances `RetireGaps` |
| `MCSuite` | the suite, the cosim retry and the init scan in one instance | instances `CosimRetry`, `InitScan` |
| `MCObligations` | the eleven obligations and extractors above that share no state, in one instance | instances them |

In the last four a variable (`script`, `part`, `turn`, `active`) chooses in the initial
state which of the parts a behaviour is of; the others stay as they began. The
parts do not interact in the code either: the composition saves runs and claims
nothing. A property of several conjuncts there (`DerivedHasCause`, `PartitionExact`, `SignoffIsEarned`,
`CosimIsJudgedFairly`, `InitialsAreHidden`) is the conjunction of those its
comment names. They declare the constants of their parts, with the assumptions the
proofs use, and leave the values to the configurations: the theorems about them are about every
value.

### How state and actions correspond to the code

*CombCycles.* The variables are the locals of `run`. A frame of `work` is a net
and the set its iterator has yet to yield; taking a member of that set is a step,
so every iteration order Python could choose is a behaviour, as is every order of
the roots. `FinishOpen` and `CloseComponent` are one turn each: the pop of
`work`, the low-link handed to the parent, and, for a root, the popping loop.

*BankedSram.* `access` is the port sampled at the last edge, `cells` and `dout`
the state of the macros, `bank_q` the registered index. The sky130 macro is
external: after a cycle in which it was not read it may drive any word. The
D-cache and I-cache arrays are two instances of the module.

*FetchData.* `disk` says of each file which commit it is of, or that it is only
a part (`Damaged`) or missing. `Skip` is the test `[ -s "$dst" ]`. `PartWritten`
is there because curl and gunzip write to the final name before they are done.
`CurlFails` is the whole failure path of `get`: removal, return 1, and the end of
the run by `set -e`; the gunzips have no such path, so `GunzipFails` leaves what
was written. `Interrupt` ends script and child. `BumpPin` is the maintainer's
edit that the header describes. `scars` counts the disturbances so that
properties can speak of histories without them.

*InstallToolchain.* A tree and a download have a version in their name or not
(`NamedTrees`, `NamedArchives`), which decides what a bump does to them.
`Cached`, `Fetch`, `Verified`, `Mismatch` are the paths of its `get`, with the
hash comparison abstracted to "is this the pinned release". What upstream serves
is any release or none. `tar` writes parts in any order and can fail.

*StaRerun.* `inputs` are the versions of the source netlist and of all else the
analyser reads, and `newer` is the shell's `-nt`: it is set when the source changes and
reset when the derived file is written, so a source that changes while it is being read
ends up older than what was derived from it. A log is absent, cut before or after
its heading WORST SLACK, or whole; the shell opens it before the analyser runs, and
the test of the cache (`Cached`) asks for the heading. `StaFails` is the
`|| true`: the script goes on. A cut netlist is an error for the analyser.
`raced`, `outdated` and `faults` are history variables.

*CoreTarget.* `clone` has the commit that is checked out and, apart from it, the
commit its submodules are of: the generator is a submodule, `--recurse-submodules`
fetches it as of the tip, and the checkout moves none. So the "pinned" generator is
upstream's newest at the time of the clone, and what stands between that and the
target is the control, which compares a second design of its making with the file committed at the
pin (`ControlOK`). `CheckoutFails` is `2>/dev/null || true`, `Stop` the `set -e` and
the interrupt. What a generator emits is a function of its commit.

*RocketBuild.* A clone that is not at the pin is refused (`Head`), so it has to be
removed (`CleanUp`); a maintainer who moves one by hand is outside the model. `Copy`
takes the elaborated files in any order, and a copy may fail unnoticed; `RemoveExt`
comes after all of them. `hardened` keeps what the flow was last run on, with the pin
and the `lapses` of that moment.

*HammerSetup.* `raw` are the expansions next to the archives; git moves the archives
with the pin and leaves the expansions, which the test `[ -f ]` takes for the pin's.
gunzip removes a part it has written unless it is killed (`Stop`).

*BookPages.* `Push` and `Dispatch` replace the job that waits, as a concurrency group
does, and `Begin` starts it when none is under way. `Key` is the hash of the fetch script, of
which the model keeps the pin. `Get` is what `FetchData` says of `get`: a file
that is present is not fetched. `actions/cache` is external; it may drop an entry (`Evict`,
or `Restore` that finds none), saves only after a job that succeeds, and replaces nothing.
A job that somebody runs again by hand, of an old commit, is outside the model.

*TestBench.* One step is the memory, the monitors and the core at one edge, all
reading the bus as it was before it. The RTL under test is external: `held` names
the buses on which this run's core holds a request until it is acknowledged; on
the other buses it may drive anything. `viol` keeps the clauses for which a
VIOLATION has been printed, per bus. `wrote`, `fresh` and `breach` are history
variables: the writes performed and the requests changed while pending.

*RetireGaps.* `fired` is a history variable, the edges that retired; the gaps
are defined from it.

*Scoreboard.* The running layer and the parent are two processes; the parent is
blocked while the layer runs (`pc` covers both). Output is buffered when it is
not a terminal, as Python's is: `BufferFull` may happen at any print, `LayerExits`
and `Exit` flush, a killed process loses its buffer. `LayerQuits` is a SystemExit
or an import error, which `except Exception` does not catch. A check's own
conclusion is left open.

*CosimRetry.* A run of the simulator is its exit code, its commits and whether it
mismatched. `Leaves` is the test that leaves the loop, `Expires` the 1200 s limit.

*InitScan.* The file is not given: each step reads any line that matters, so all
files of the bounded length are scanned. `stack` is the scan's, `active` the
preprocessor's; `misread` collects why a block that synthesis compiles was taken
for simulation-only.

*Netlist, SyncCheck, ClockWalks.* A netlist is what the parser of `netgraph.py`
yields: instances in file order, the family of each cell (what the regular expressions test)
and its pins. `insts` never changes. `phase` runs through building the tables, tracing,
judging a capture; a step visits one net (`Visit`) or one stage of a chase
(`CrossBuffer`), and which net of the frontier comes next is open, as is the order
among captures and outputs: the code's order is one of them. The walks to a
clock root are functions over the pairs a walk may follow, for each
keeps the set of nets it has met and decides nothing else on the way: `Along` gives the net
after each number of steps, and `WalkEnd` the one where the walk stops, which has
none above it or was met before. `clocks` are the clock pins of a cell in the order the file lists them: the census
takes the first and leaves the loop (`check-l2.py` 74-78), so of a clock gate it walks the clock or the enable
(`Clocked`), while the survey of `clockcheck.py` takes every clock pin of the other cells (`Sinks`). The
properties are stated against the netlist: `Settled` is what has a value when state and ports have one, the least set closed under cells whose inputs have theirs,
`LeadsTo` the closure of a relation, `Synchroniser` the predicate of the header of
`synccheck.py`, `Sources` where a clock pin's signal comes from, and `Ungated` where it comes from without passing a gate. They are conditional on a netlist that passes W1-W4,
as the layers are run, and, where stated, on inputs no cell drives, which W1 does not check.

*Partition.* A word is the set of its bits that are one. `AddSpec` and `AddDecoder`
are the turns of the two loops that join cubes into a diagram, `specWords` and
`decWords` the sets joined so far. The recursive functions of the code are recursive functions
over `Diagrams`, the diagrams up to a variable, those of two arguments functions of pairs, and `1 << k` is
`Pow2[k]`, here and in `BusDecode` and `PadDefaults`; `Free` makes up for the variables a path skips;
hash-consing is equality of values. `FieldBits` are the bits by which differences
are grouped into families.

*OpcodeTable, IrqMap, ModeAudit, ConeText, GdsExtents, DrcTriage, DeviceTree.* The
file is not given: each step adds a line, statement, token or record of those the code tells
apart and does what reading it does, so all files of the bounded length are read.
`OpcodeTable.file`, `IrqMap.rtl` and the like keep what the code has read, for the
properties. In `GdsExtents` a record of an element is a step (`at` says which comes
next), since what the two programs remember between records is the point.

*BusDecode, PadDefaults.* The left side of each property is the report, the right
side the hardware as its RTL has it: `Selected` are the slaves whose select lines
an address raises, `Driven` the bits an instance drives. Errors of the code
(`KeyError`, `assert`, `SystemExit`) lead to `stage = "aborted"`.

*TimingReports.* `WriteHold` and `WriteSetup` are the flow's, in two steps each, and may stop
at any moment or go on while `List` and `ReadCorner` run. An exception inside
the obligation is the verdict FAIL, which is what `Layer.run` makes of it.

## 3. Runs

| run | instance | shows |
|---|---|---|
| `comb_cycles` | all 729 graphs over three nets | the inductive invariant of the proof, soundness and completeness of the report, refinement of `SccReport`, termination |
| `sram` | three banks of two words, every mask | `FlatSpec`: the banks are one flat memory |
| `fetch` | a netlist, an archive, its expansion; two interruptions, two bumps | an undisturbed `data/` is the pin; each harm has its cause; every run ends |
| `fetch_bump` (violation) | two text files, one bump | finding 1 |
| `scripts` | a group with its version in the tree's name, one without, with one interruption, one cut unpacking, one bump; two corners, two changes of the inputs, three runs; three commits of a generator, two changes of the pin; two versions of Chipyard with a file that one lacks and a memory, two changes of the pin; two versions of the macros, one in common; three pushes over two pins | only verified archives are unpacked; versioned trees follow the pin; a tree of another release is never touched; a timing summary, the target core, the hardened Verilog and the layouts are of their inputs and pins or have a cause that is named; the published page is about the data its commit pins, and no older job follows it |
| `netlist` | four families of netlists of up to four cells over eight nets | a passing netlist is evaluable; the trace misses nothing; SYNC is the header's predicate; the walks agree; reported clocks are the only ones; the trace ends |
| `netlist_second` (violation) | the same | finding 2 |
| `obligations` | eleven parts, see below | each report or verdict against what it is about |
| `tb` | both buses, one wait state, six edges, wrapped RAM and flash, timeout as tight as the wait; and eleven edges of retirements into four buckets | no false alarm, each write once, reads current; for any core, changes reported exactly and requests answered in time; the histogram is the distribution of the gaps |
| `suite` | two layers, five obligations of all kinds; up to four simulations with commit counts around the boot limit; all files of six significant lines over SYNTHESIS, a guard and another macro | the exit code, the order of the page, the census of layers that survive; no divergence after boot becomes a pass and a failure has a cause; guards hide what they are taken to hide, and a file that exposes a block passes only if it names a guard |
| `scoreboard_title` (violation) | the layers of `suite` | finding 3 |
| `init_scan_comment` (violation) | the files of `suite` | finding 4 |

Why the bounds are enough. Three nets have self loops, two components, a
component inside a path and cross edges to a closed component, which is what the
mutants of the search need; larger graphs are the proof's. Three banks make an
index that is no power of two; lanes beyond one are the proof's, whose `Lanes` is
any set. One file of each kind and two disturbances give each pair of
disturbances, in each order, on each file. The timeout of the bench is as small
as its wait states, so that an off-by-one on either side shows, and six edges
hold two transactions in sequence. Three runs of the timing analysis are one that
makes the logs, one that keeps them and one that comes after a forced or cut one;
of the three generators, two emit alike and two have the same file
committed, so that the control lets one mixture through and stops another. Four buckets and eleven edges give gaps below,
at and beyond the last bucket, more than one of each. Two layers
let a dead or failing layer come before and after a good one. The commit counts of `cosim` are 0, one
below the limit, the limit and one above it. Six lines close a
conditional within a conditional with a block inside.

The netlists are those of four families, each free where one check looks: two
sequential cells with any of the cells a chain may have between them, on one
clock or two (`TwoStageNetlists`); chains, forks and rings of two buffers behind
a flop of one or two outputs (`ChainNetlists`); a clock path of two cells that may
be a buffer, a gate that lists its clock or its enable first, logic, a constant or a macro (`ClockNetlists`; the census passes where
a gate lists its clock first, and finds an internal root where it lists the enable); and any three, in any order, of
sixteen cells that bring the pins and kinds the others lack (`OddNetlists`). Two
stages are one more than a walk needs to go wrong on; rings longer than two add
no case to a chase. In `obligations`:

| part | bounds | why |
|---|---|---|
| partition | three bits; any two or more cubes of the specification, six of the decoder | a level above, at and below each split; overlapping, nested and equal cubes |
| opcodes | two names, four lines | an instruction and two shorthands of one name, in all orders |
| dts | three nodes, four bases, sizes one and two | a region inside another, adjacent ones, equal names. A node of size 0 occupies nothing and is left out |
| irq | two lines, three registers, five statements | a register between two chains |
| bus | four word-address bits, one for the page, one for the bank | every window and every byte address |
| pads | two pads of two bits, two modes | slices off by one, swapped, overlapping |
| sdc | two modes, two pins, three lines | assignment, and two ties of one pin |
| timing | two corners | a corner read before the other is written |
| drc | a box, margin one, two items | vertices on, within and beyond the margin |
| gds | two elements on two layers | every kind after every kind |
| text | five tokens | a start mark in a comment, and code after it |

Each property has a
mutant of the code, listed in `PROJECT.json`, that breaks it in the same instance.

Deadlock is left unchecked where the system stops: a search, a simulation, a
suite or a scan that is done, a maintainer who runs the installer no more.

### Fairness

`CombCycles`: weak fairness of `Next`; the search is one loop in one process that
nothing interrupts. `SyncCheck`: weak fairness of `Next`, for the same reason;
`TraceEnds` is claimed where no net is contended. A ring of buffers is
then no obstacle, though the chase keeps no visited set: it can enter a ring only at
a net that a buffer of the ring drives too. `FetchData`: weak fairness of a run's own steps, as
disjunction: curl is called with `--max-time 300`, so it ends one way or the other,
and gunzip reads a finite file. Interruptions, bumps and the start of a run are
not fair: they may never happen. No other module claims liveness.

### Findings

1. `fetch_bump`: `get` keeps any file that is present, so bumping the SHA and
   re-running, as README.md (77) says to, changes nothing and succeeds.
   The installer behaves likewise for groups whose tree has no version in its name
   (`OldReleaseStays` holds of it).
2. `netlist_second`: a latch behind the first flop is accepted as the second stage
   of a synchroniser, since `SEQ` matches latches and the test asks for a data pin
   of a sequential cell; the header has the D pin of a second flop.
3. `scoreboard_title`: when the suite's output is a file, as in `build-book.sh`,
   the title and the legend are written after all the layers. A file made by
   `check-all.py --md > page.md` shows it.
4. `init_scan_comment`: `SIMGUARDS` also matches SYNTHESIS, so both branches of
   `` `ifdef SYNTHESIS `` count as simulation-only, where the comment above the test
   names one.

Two more facts are hazards without a run of their own: a
download that is interrupted leaves a part under the final name, which all later
runs take for the file (`HarmHasCause` says when); a request that the core
withdraws before its acknowledgement is reported by no monitor, although the
header of the bench has it held.

Facts met while modelling that no run needs to show:

- `replicate.py` (62-65) calls `c4.census(path)`, which `check-l4.py` no longer
  defines: the call raises AttributeError. Where the built `csr.h` is missing, its
  header comparison is of the shipped file with itself.
- `fw_symbolic_pointers` of `memmap.py` returns offsets from the CSR base, where
  its docstring has addresses.
- The docstring of `partition.py` (80-82) lets later files override earlier ones; a
  shorthand never does.
- An array reference (AREF) is a record `bbox.py` does not know, so its points are
  added to the layer of the last boundary. `ExtentsAreBoundaries` is stated for
  streams without one, and as containment for all.
- `dts_regions` of `check-l7.py` (38) names a region without its address, so nodes of one name are
  one region; a second chain of a register in `irqmap.py` (65), a second assignment of a mode
  variable (`sdc-elaborate.tcl` 64) and a `/*` in a line comment (`check-l4.py` 25) are read as the models
  have it, and are conditions of the properties about them.
- The census takes the first clock pin of a cell (`check-l2.py` 74-78): of a clock gate that lists its
  enable first it says nothing of the clock.
- The latch pattern at `check-l2.py` (108) has dlxt and dlrt but not dlxb and dlrb:
  a tree gated by those alone would pass the gating census as ungated.
- Without the header of the limits section the search at `check-l2.py` (154) gives
  -1 and the domain check passes: `PassesAreClosure` has the header as a condition.
- At `check-l4.py` (79) any `Memory[` on a line excuses an X on it.
- The pass of drc-triage says "all at macro interfaces"; only the first vertex is
  looked at, and `TriageIsByPlace` says for which items that is enough.
- The log of a corner is kept when any input of the analysis changes, until FORCE=1;
  one cut after its heading is kept too, and summarised without numbers. `sta-rerun.sh`
  says that `check-l2.py f1-match` reads the summary; there is no such obligation.
- The first `git clone` of `regenerate-core.sh` (44) names no repository but the
  destination and always fails; the second, which names it, does the work.
- A staging that was stopped before `rm -f *_ext` leaves the behavioural memories in
  `src/`; `run-rocket-flow.sh` asks only whether the directories are there.
- A comment of `sdc-audit.py` says that `check-l2.py` imports it; nothing does.

## 4. Proofs

All hold for every value of the constants, from the named assumptions only.

*CombCyclesProofs.* `Invariance`: `Spec => []IInv`. That the report is sound is
not inductive: it depends on what the two stacks and the low-links mean. `IInv`
says: discovery numbers are distinct (`Numbering`); `stk` and `work` are both in
discovery order and `work`'s nets are open (`StackDiscipline`); what an iterator
has yielded is numbered; closed nets lead to closed nets only (`ClosedSealed`); a
low-link numbers an open net its owner reaches (`LowLinks`); each open net belongs
to the frame it was discovered under, reaches it and is reached from it, and no explored edge from it leads below that frame's
low-link (`Ownership`); the report is the cyclic components of the closed nets
(`ReportedClosed`). The step that closes a component is the heart: with
`low = idx` no explored edge leaves the nets above the root, so they are closed
under successors apart from nets closed before, and `Ownership` makes them
mutually reachable: the popped set is the root's component.
`Soundness` and `Completeness` follow, and `Refinement`: each step reports one
cyclic component or leaves the list alone.

*BankedSramProofs.* The address map is a bijection (`AddressMap`, `NoAliasing`),
each edge of the banked memory is an edge of the flat one (`EdgeRefines`), hence
`Refinement`: `Spec => FlatSpec`, for each depth, bank size, lane and mask set.

*FetchDataProofs.* `Invariance` of `TypeOK`, `Walk` (what lies behind the position
of a run is present, the file being written is never a whole one) and
`UndisturbedIsPinned`, and the last as a theorem, `Undisturbed`: `Walk` is
needed because a run that ends has to know that it passed each file. `Harm`
(`HarmHasCause`) adds that the counters of disturbances do not fall (`ScarsGrow`),
that a step changes no file but the one being written, which becomes whole only with the
pinned commit or with that of its archive (`DiskStep`), and that only
an interruption or a failed gunzip takes the child from a part (`LeftDamaged`).

*ScriptsProofs.* About the installer: `VerifiedOnly` (`OnlyVerifiedBits` with `TypeOK`: the
archive of the group that is being unpacked is the pinned release, since nothing writes to it
between the comparison and the unpacking); `OldStays` (`OldReleaseStays`) by `TestedOpen`: past its
test, the tree of a run has its tested file absent or of the pin, so an unpacking never meets another
release there; `NamedFollows` (`NamedFollowsPin`) by `Installed`: while no unpacking was cut short, a
tree named after its release is whole or not there, unless it is being unpacked, so that the tested
file stands for the whole tree, and what lies behind the run is installed; `Undisturbed`
(`UndisturbedIsPinned`) by the like for all trees while nothing has happened to them.
`SummaryExplained` for `StaRerun`: each log is of the inputs, or they changed after
it was begun; the derived netlist is of the source, or is cut, or the source changed while it was
read; and each corner behind the run is done or has its reason. The three are needed together: a log that is kept
explains itself by what changed in earlier runs. `TargetControlled` (`TargetHasCause`), whatever the
generators emit and however often the pin is changed: behind the control there is a whole clone
that passed it, and a clone past its checkout is at the pin or a lapse is on record. `Hardened`
(`HardenedHasCause`): from the test of its head on a clone is the pin's, and what is staged
is of one elaboration, but for what a failed copy or a stopped staging has lost. `LayoutsExplained`
(`LayoutsHaveCause`): every expansion is of the pin, from before a bump, cut by a kill, or
under way. `Published` (`PublishedIsPinned`), for every number of pushes, pins and files: a cache
entry is of its key and a job holds nothing of another pin; site, job, waiting commit and head
are in the order of master, which the concurrency group keeps by running one job at a time. `Derived` is the conjunction,
as the run has it (`DerivedHasCause`).

*SuiteProofs.* `Truthful` (`ExitTruthful`), for every number of layers and
obligations: the codes collected so far, joined with the status of the layer that runs if
one does, are nonzero exactly when a check failed or a layer died. `InOrder` (`PageInOrder`) and
`SurvivorsCounted` (`CensusOfSurvivors`) come from one invariant, `PageInv`, over the *text*, the
page with the buffer behind it: its rows are in the order of the book and none comes twice, a layer
that is past has all of its rows in it unless it died, and one that died a prefix. Neither
property is inductive on the page alone, since what a flush appends is already in the buffer. `JudgedFairly`
(`CosimIsJudgedFairly`): every run but the last was lost in the boot window, and while there
is no verdict none but a leaving one differs. `Hidden` (`InitialsAreHidden`): the scan's stack of conditionals and
the preprocessor's stay in step (`InStep`), and agree on those without `` `elsif ``.

*BenchProofs.* `BenchTyped` (type correctness), `AnswersInTime` (`AnswerInTime`), `NeverFalselyBlamed`
(`NoFalseAlarm`), `EachWriteOnce` (`WritesCounted`), `CurrentReads` (`ReadsCurrent`) and
`EveryChangeCaught` (`ChangesCaught`), for any core, any wait states, timeout and memory, over one
chain of invariants: the monitor's age of a request runs behind the memory's
wait count, which a withdrawn strobe does not reset (`Waiting`); on a bus whose core holds its requests
the monitor's copy is the request (`Holding`); until the first change on a bus the copy is
the pending request (`Watching`). `HistogramOfGaps` (`MeasuresGaps`): a retirement closes exactly one new gap,
whose length is the counter, and the sets of gaps of a length grow by it (`OneMoreGap`).

*ObligationsProofs.* All eleven parts, for files, reports, trees and streams of any length
and any constants; each has an inductive invariant that says what the program's variables are of what it has read.
`ByInstructions` (`ValidatedByInstructions`; `TableRead`: the dictionary holds the last instruction line of a
name, or else its first shorthand), `ConflictsListed` (`ConflictsAreReported`; `Audited`: the logs are
those of the file as it was rewritten), `ChainsReal` (`ChainsAreTheRtls`; `RtlRead`),
`DisjointWhenPassed` (`MemmapPassIsDisjoint`; sorted neighbours stand for all pairs,
`NeighboursAreEnough`), `Earned` (`SignoffIsEarned`: the corners of `TimingReports`, the counts of
`DrcTriage`, and the boxes and counts of `GdsExtents`, where the invariant says which element's layer
and kind the programs remember), `JudgedOnCode` (`VerdictsAreOnCode`: under its condition, what the two substitutions
leave is what Verilog reads as code). The last is about two functions defined by recursion along a text. Where an induction is needed it
is over numbers, by the least element of a set of them (`LeastNatural`, `UpTo`), and `ByRecursion`
unfolds a recursive function on an interval; the induction theorems of the library are out of reach.

Two parts are about numbers as words. The provers give `^` no meaning, so
powers are a recursive function, unfolded by `ByRecursionOverNat`; `PowersAdd`, `PowersGrow` and `Quotient`
carry the rest. `Decoded` (`ReportIsDecode`; `BusRead`: the decodes read are the program's, the
names are told apart and every bank compared is its own number): a word raises a select line exactly when its
bytes lie in the window printed for it (`SelectIsWindow`), two windows are the same interval only if they have the same base
and size (`SameIntervals`), and the bank of an offset is that of its page (`BankOfOffset`). `PoweredUp`
(`PowersUpAsReported`; `PadsRead`): a bit of a field is a bit of its word (`BitOfField`), words of the same
bits are the same (`SameBits`), so the fields that are not zero give the word (`DecodedOnce`), and a bit of the
block has one driver when no slice is miswired (`OneDriver`).

`Partitioned` (`PartitionExact`), for words of any number of bits and any cubes. What a diagram says is `Sat`, the
words that its branches take to `One`, which the program never computes; the invariant is
`CubesRead`: each union is a diagram, its words are those of the cubes added so far, and after the comparison
the differences are `AndNot` of the two. The steps keep it because `Or` and `AndNot`
return diagrams of the union and of the difference of the words (`OrIs`, `AndNotIs`), and `CubeBdd` one of the words that match
(`CubeIs`). From there: a diagram with the words of another is that diagram (`SatOnce`), hence the
canonical one (`CanonicalIs`); `Member` decides `Sat` (`MemberIs`), which places the words of an
image; the paths are cubes that no two share a word and that cover `Sat` (`PathsListed`), so that their sizes add up to it, as a whole
(`TotalIs`) and family by family (`FamiliesAre`, both by `SumOfSizes`); and
the count is the number of words, because they split at the variable of a node (`SatSplit`) and double for each variable
skipped (`SizeGrows`, `CountedWords`). A function that recurs on diagrams is first shown to exist, level
by level in the highest variable a diagram tests (`ByLevels`, `SteppingExists`, `EveryLevel`), and what holds of the
terminals and passes from two diagrams to a node holds of all of them (`EveryDiagram`).

*SyncCheckProofs.* `Complete`: `Spec => []TraceComplete`, for every netlist, every
start and every order of the frontier, the captures and the chases. `IInv` says: the frontier
is seen and what is seen is in the cone; a net that was seen and has left the frontier is
visited, that is, its fanout is seen, the readers it ends at are reported or still to be
judged, and it is reported itself if it is an outward port; each termination is
one the definition allows, or a macro. When the trace ends every
net seen is visited, so what was seen is closed under fanout and is the cone
(`ConeFacts`). The cone is defined over the tables of `netgraph.py` and the trace walks those of
`synccheck.py`; `EdgeIsFanout` shows that they have the same edges, from
`NetlistsOfTheLibrary`: no cell is numbered 0, physical cells drive nothing, and only they
have a pin DIODE. Rings of buffers are no exception: a trace caught in one does not end.

`PassesEvaluate` (`PassIsEvaluable`): suppose a net that is read does not settle. It is driven, for
it is not floating, only by combinational cells, and one of them reads a net that does not settle either
(`WaitsFor`, `DrivenByLogic`); the nets that do not settle are then each fed by another, which is a cycle (`AcyclicSettles`).
`WalksAgree` (`WalkersAgree`): on a netlist that passes, a net has one driver for both programs, and the pairs
the two walks may follow from it are the same (`SameWays`), so the walks are. That a walk comes to an end
within as many steps as there are nets is a counting argument (`WalkStops`). `ClocksAreSole` (`ReportedClocksAreSole`): the walk stays on nets above the clock
pin, and each of them has the next as its only way up (`SoleSource`), so the
net where it ends is the only source, through gates too; where the walk meets no gate, what is above the pin with and
without gates is the same (`UngatedWalk`), so an exception is listed for every gate there is.

`VerdictsDocumented` (`VerdictIsDocumented`): a capture is reported as synchronised exactly when its
flop heads a two-stage synchroniser, on every netlist that passes and drives none of its inputs. The
line of an output is what buffers carry from it. `VInv` says of a judgement under way: every output is still to be
chased, or being chased, or behind; where a chase is lies on the line of its output, and every net of that line it has
passed was crossed (`Chased`), hence has a buffer as its one reader (`CrossedNet`); the loads are the
readers of the nets where the chases behind have ended, output by output (`Gathered`). When none is left, the loads
are the ends of the chain of the flop. They are one load of the same clock if the flop heads a
synchroniser (`OneLoadNeeded`) and only then (`OneLoadSuffices`): lines of two outputs do not meet (`LinesApart`), so
a load is not counted twice; the cone of an undriven input meets no line (`ConeApart`), so the second
stage is another flop; and two walks to a clock root end at the same net when the trees above the two
clock pins meet (`SameClock`), since without a cycle a walk ends at the one source of its net
(`RootOf`). `ChainCellsOfTheLibrary` is where the program and its header would part: of a buffer with two
outputs the chase takes neither, and of a flop with two clock pins the code looks at one.

The assumptions are those on the constants, which TLC evaluates in the runs. Some say what the code
divides by or starts from (`DepthInBanks`: whole banks; `DepthPositive`, `BankWordsPositive`, `Parameters`, `GapParameters`,
`RetryParameters`, `ScanParameters`, `Registered`, `CornersInOrder`; `BusHasBits`, `WordsHaveBits` and `PadsHaveFields`: widths are numbers, and the
fields that have a name cover a word), some that marks for nothing are not
values (`NotCommits`, `MacrosAreNamed`, `PinsAreNoGap`) and that values are numbers
(`AddressesAreNumbers`, `PlacesAreNumbers`, `OutlinesHaveExtents`: an outline has extremes, within the sides of the empty box), and some what the pin tables take
for granted of a library: `NetlistsOfTheLibrary`, `PinsAreOnNets`, `NetsAreFinite`, `DirectionsOfPorts`,
`ChainCellsOfTheLibrary` (a buffer has the input A and one output, a flop one clock pin),
`ClockGatesOfTheLibrary` (a clock gate has the clock CLK and the output GCLK), `ClockPinsAreListed` and `ClockPortsAreInputs`. Without the one on clock cells the walks would not agree: one program asks
for one input, the other for a pin called A.

The type invariants and the inductive invariants of all proofs but `CombCyclesProofs` are
proved and not run: a run spends its properties on what a type does not show.

Model-checked only: termination of the search, of the trace and of fetch runs (liveness, and with it the
fairness part of `AbstractSpec`). Every invariant and every other property of a passing run is a theorem.

## 5. Not modelled

- Parsing and formatting: the Verilog, Liberty, SDC and log readers, the rendering
  of rows. A model would restate regular expressions.
- `need` and `load` of `checklib.py`, `config-record.py`, `replicate.py`, `fwanchors.py`,
  `flowreport.py`, `rtlcheck.py`: lists of searches whose results are printed or
  compared one by one; no state, and a model would restate the list.
- Of modelled components: the expansion of bus names in `synccheck.py`, the gating
  census of `check-l2.py` (a count of cell names), linker scripts and header texts in
  `memmap.py`, event blocks and CSR semantics in `irqmap.py` (single presence
  searches), the false-path classes and the tables of `sdc-audit.py`, the positions
  of the control block and the legacy defines in `pads.py`, units, names and
  transformations in `gdsdump.py`, and NODE elements in its streams, which neither
  program knows. The three mode variables of the constraints are one. Texts in
  `ConeText` have no string literals, and cubes in `Partition` no match outside their mask,
  which would match no word where the diagram takes it for the match within.
- `regenerate-mgmt-core.sh`, `run-flow.sh`, `run-sim.sh` and `build-firmware.sh`: straight
  sequences of external commands. `run-sim.sh` keeps a simulator and a test image and never
  compares them with their sources, as the presence tests of the modelled scripts do. Of the modelled scripts: the script given to the analyser, the comparison of configurations at
  the end of `regenerate-core.sh`, the build of dtc, the files of the macros and the test of disk
  space of the Rocket scripts, hammer's virtual environment and its patch, mdBook.
- The source build of OpenSTA in `install-toolchain.sh` and the links of `bin/`.
- External tools: Yosys, OpenSTA, iverilog, verilator, spike, tar, curl; they
  appear as what they may do to the scripts' state.
- The order in which the simulator wakes the summary and the monitors at the last
  edge of a simulation; the models stop after any number of edges.

## 6. Plan

Done, in this order: the W3 search (its verdict, "no combinational cycle", carries
the whole netlist argument), the SRAM wrappers (the one piece of design that is
the project's own), the two providers of inputs, the bench, the suite with two
obligations whose logic is a state machine, the netlist walks, the
obligations on encodings, addresses, pads, constraints, timing and layout, and the
scripts that derive files from others.

Next, one model: `TimingReports` reading what the flow of `RocketBuild` leaves, with a
site that can be a part (a suite that dies is published, `build-book.sh` 20).

Next, theorems: the refinement of `SccReport` with stuttering made explicit for the search as a whole.
