---------------------------- MODULE MCFetchData ----------------------------
(* TLC instances of fetch-data.sh.                                         *)
EXTENDS FetchData

(* A netlist, an archive and its expansion, in the order of                *)
(* fetch_big_caravel.                                                      *)
Big == <<"netlist", "def.gz", "def">>
BigArchive == [f \in {"def"} |-> "def.gz"]

(* Text files only, as in fetch_opcodes.                                   *)
Small == <<"rv_i", "rv_s">>
NoArchive == [f \in {} |-> f]
=============================================================================
