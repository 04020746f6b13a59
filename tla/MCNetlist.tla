----------------------------- MODULE MCNetlist ------------------------------
(* TLC instances of the netlist checks: four families of small netlists    *)
(* over eight nets, each family free where its check looks.                *)
EXTENDS ClockWalks, TLC

MCNets == {"d", "ck", "tck", "q", "x", "y", "z", "1'b0"}
MCBase == [n \in MCNets |-> n]
MCDirection == [p \in {"d", "ck", "tck"} |-> "input"] @@ ("q" :> "output")

Listed(family, at, clocks) == [cell |-> family, at |-> at, clocks |-> clocks]
Cell(family, at) ==
  Listed(family, at, IF "CLK" \in DOMAIN at THEN <<"CLK">>
                     ELSE IF "GATE" \in DOMAIN at THEN <<"GATE">> ELSE <<>>)
Buf(family, a, x) == Cell(family, [A |-> a, X |-> x])
Nand(a, b, y) == Cell("nand2", [A |-> a, B |-> b, Y |-> y])
Df(d, clk, q) == Cell("df", [D |-> d, CLK |-> clk, Q |-> q])
Dlx(d, gate, q) == Cell("dlx", [D |-> d, GATE |-> gate, Q |-> q])

(* Two sequential cells and one cell between, behind a clock leaf z.       *)
TwoStageNetlists ==
  {<<Buf("clkbuf", "ck", "z"), first, middle, second>> :
     first \in {Df(d, "ck", q) : d \in {"d", "x"}, q \in {"x", "y", "q"}},
     middle \in {Buf(f, a, x) : f \in {"buf", "dlygate"}, a \in {"d", "x", "y"}, x \in {"x", "y", "q"}}
           \cup {Nand(a, "d", y) : a \in {"x", "y"}, y \in {"x", "y", "q"}}
           \cup {Cell("diode", [DIODE |-> n]) : n \in {"x", "y"}},
     second \in {Df(d, clk, q) : d \in {"d", "x", "y"}, clk \in {"ck", "z", "tck"}, q \in {"y", "q"}}
           \cup {Dlx(d, "z", q) : d \in {"x", "y"}, q \in {"y", "q"}}}

(* Chains, forks and rings of buffers behind a flop of two outputs.        *)
ChainNetlists ==
  {<<first, Buf("buf", a, b), Cell("inv", [A |-> c, Y |-> e]), Df(g, "ck", "z")>> :
     first \in {Df("d", "ck", q) : q \in {"x", "y"}}
          \cup {Cell("df", [D |-> "d", CLK |-> "ck", Q |-> "x", Q_N |-> n]) : n \in {"x", "y"}},
     a \in {"x", "y"}, b \in {"x", "y", "q"}, c \in {"x", "y"}, e \in {"x", "y", "q"},
     g \in {"x", "y", "q"}}

(* Clock trees with a gate, its clock or its enable listed first, logic, a *)
(* constant or a macro in them.                                            *)
ClockNetlists ==
  {<<Df("d", c1, "q"), above, Buf(f, a, x), Df("q", c2, "1'b0")>> :
     c1 \in {"ck", "x", "y"}, c2 \in {"ck", "y", "z"},
     f \in {"clkbuf", "dlygate"}, a \in {"ck", "tck", "x", "z"}, x \in {"x", "y"},
     above \in {Listed("dlclk", [CLK |-> a, GATE |-> "d", GCLK |-> x], clocks) :
                   a \in {"ck", "x", "y"}, x \in {"x", "z"},
                   clocks \in {<<"CLK", "GATE">>, <<"GATE", "CLK">>}}
          \cup {Buf("clkbuf", a, x) : a \in {"ck", "y"}, x \in {"x", "z"}}
          \cup {Nand(a, "d", y) : a \in {"ck", "x"}, y \in {"y", "z"}}
          \cup {Cell("conb", [HI |-> x]) : x \in {"x", "z"}}
          \cup {Cell("sram22", [clk |-> a, dout |-> "z"]) : a \in {"ck", "x"}}}

(* The cells the other families lack: pins in no table, physical cells,    *)
(* tri-state drivers, asynchronous and scan pins, macros, ties, delay      *)
(* loops, and no cell at all.                                              *)
OddCells ==
  {Cell("fah", [A |-> "d", CI |-> "x", SUM |-> "y"]),
   Cell("fill", [VPWR |-> "z"]), Cell("fill", [A |-> "d"]),
   Cell("einv", [A |-> "d", TE_B |-> "x", Z |-> "y"]),
   Cell("einv", [A |-> "x", TE_B |-> "d", Z |-> "y"]),
   Cell("df", [D |-> "x", CLK |-> "ck", RESET_B |-> "d", Q |-> "y"]),
   Cell("sdf", [D |-> "x", SCD |-> "d", SCE |-> "d", CLK |-> "ck", Q |-> "y"]),
   Cell("sram22", [clk |-> "ck", din |-> "d", dout |-> "x"]),
   Cell("nand2", [A |-> "1'b0", B |-> "d", Y |-> "x"]),
   Buf("dlygate", "x", "y"), Buf("dlygate", "y", "x"), Nand("y", "d", "x"),
   Df("y", "ck", "q"), Df("x", "ck", "y"), Df("q", "ck", "x"), Buf("buf", "d", "q")}

OddNetlists == {<<>>} \cup UNION {[1 .. n -> OddCells] : n \in 1 .. 3}

MCNetlists == TwoStageNetlists \cup ChainNetlists \cup ClockNetlists \cup OddNetlists
=============================================================================
