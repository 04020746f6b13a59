------------------------------ MODULE FlatSram ------------------------------
(***************************************************************************)
(* The memory Chipyard asks for behind an RW0 port: one flat array, read   *)
(* with a latency of one cycle.  What rdata shows after a cycle that was   *)
(* not a read is left open.                                                *)
(***************************************************************************)
EXTENDS SramPort

VARIABLES access,  \* the access sampled at the last clock edge
          mem,     \* the array
          rdata    \* RW0_rdata

flatVars == <<access, mem, rdata>>

Init ==
  /\ access \in Idle
  /\ mem \in [Addrs -> Words]
  /\ rdata \in Words

Posedge(c) ==
  /\ access' = c
  /\ mem' = [a \in Addrs |-> IF c.op = "write" /\ c.addr = a
                             THEN Merge(mem[a], c)
                             ELSE mem[a]]
  /\ rdata' \in Words
  /\ c.op = "read" => rdata' = mem[c.addr]

Next == \E c \in Accesses : Posedge(c)

Spec == Init /\ [][Next]_flatVars
=============================================================================
