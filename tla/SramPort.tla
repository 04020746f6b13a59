------------------------------ MODULE SramPort ------------------------------
(***************************************************************************)
(* The RW0 port the Chipyard memories of flow/rocket-tiny/srams share: one *)
(* read-or-write access a clock cycle, with a write mask over the lanes of *)
(* a word.  RW0_en and RW0_wmode are the access's op; an idle cycle still  *)
(* has an address on the wires.                                            *)
(***************************************************************************)
EXTENDS Integers

CONSTANTS Depth,   \* number of words
          Lanes,   \* the lanes of a word with a mask bit of their own
          Values,  \* what a lane can hold
          Masks    \* the write masks the port can be driven with

ASSUME DepthPositive == Depth \in Nat \ {0}
ASSUME MasksOfLanes == Masks \subseteq SUBSET Lanes

Addrs == 0 .. Depth - 1
Words == [Lanes -> Values]

Idle == [op : {"idle"}, addr : Addrs]
Read == [op : {"read"}, addr : Addrs]
Write == [op : {"write"}, addr : Addrs, wdata : Words, wmask : Masks]
Accesses == Idle \cup Read \cup Write

(* The word w after a write: only the masked lanes take the new data.      *)
Merge(w, c) == [l \in Lanes |-> IF l \in c.wmask THEN c.wdata[l] ELSE w[l]]
=============================================================================
