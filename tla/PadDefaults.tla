---------------------------- MODULE PadDefaults -----------------------------
(***************************************************************************)
(* tools/pads.py: the power-up configuration of every pad, read off the    *)
(* macros of user_defines.v and the instances of the defaults blocks, each *)
(* of which drives a slice of one bus.  What the report says of a pad is   *)
(* compared with what the bus holds where the pad's control block loads.   *)
(***************************************************************************)
EXTENDS Integers, FiniteSets

CONSTANTS Width,       \* of a configuration word, 13
          FIELDS,      \* its fields: sets of [lo, width]
          Pads,        \* pad numbers from 0, of 38
          MODES,       \* names of modes
          ModeWords,   \* words the modes may be defined as
          Literals     \* words the instances may have for a literal

(* 1 << k                                                                  *)
Pow2[k \in Nat] == IF k = 0 THEN 1 ELSE 2 * Pow2[k - 1]

Words == 0 .. Pow2[Width] - 1
Nothing == [k \in {} |-> 0]
Put(f, k, v) == [x \in DOMAIN f \cup {k} |-> IF x = k THEN v ELSE f[x]]

VARIABLES cat,   \* mode -> word, of the modes with a define
          user,  \* pad -> mode, of the pads with a define
          pads,  \* pad -> the word and the slice of its instance
          stage  \* "defines", "instances", "aborted" or "report"
vars == <<cat, user, pads, stage>>

Init ==
  /\ cat = Nothing /\ user = Nothing /\ pads = Nothing
  /\ stage = "defines"

(* `define GPIO_MODE_m, and `define USER_CONFIG_GPIO_i_INIT `GPIO_MODE_m   *)
DefineMode(m, word) ==
  /\ stage = "defines" /\ m \notin DOMAIN cat
  /\ cat' = Put(cat, m, word)
  /\ UNCHANGED <<user, pads, stage>>

DefineUser(i, m) ==
  /\ stage = "defines" /\ i \notin DOMAIN user
  /\ user' = Put(user, i, m)
  /\ UNCHANGED <<cat, pads, stage>>

(* A user's configuration by a mode without a define ends the run.         *)
Defined ==
  /\ stage = "defines"
  /\ stage' = IF \A i \in DOMAIN user : user[i] \in DOMAIN cat
              THEN "instances" ELSE "aborted"
  /\ UNCHANGED <<cat, user, pads>>

Slices == {[hi |-> h, lo |-> l] : h, l \in 0 .. Width * Cardinality(Pads) - 1}

(* gpio_defaults_block_i, its word a literal or the configuration of u.    *)
Add(i, word, slice) ==
  /\ stage = "instances" /\ i \notin DOMAIN pads
  /\ pads' = Put(pads, i, [word |-> word, slice |-> slice])
  /\ UNCHANGED <<cat, user, stage>>

LiteralBlock(i, word, slice) == Add(i, word, slice)

UserBlock(i, u, slice) ==
  /\ u = i /\ u \in DOMAIN user
  /\ Add(i, cat[user[u]], slice)

(* A configuration that is not there, or that of another pad.              *)
WrongBlock(i, u) ==
  /\ stage = "instances" /\ i \notin DOMAIN pads
  /\ u # i \/ u \notin DOMAIN user
  /\ stage' = "aborted"
  /\ UNCHANGED <<cat, user, pads>>

Finish ==
  /\ stage = "instances"
  /\ stage' = "report"
  /\ UNCHANGED <<cat, user, pads>>

Next ==
  \/ \E m \in MODES, word \in ModeWords : DefineMode(m, word)
  \/ \E i \in Pads, m \in MODES : DefineUser(i, m)
  \/ Defined
  \/ \E i \in Pads, s \in {t \in Slices : t.lo <= t.hi} :
       \/ \E word \in Literals : LiteralBlock(i, word, s)
       \/ \E u \in Pads : UserBlock(i, u, s)
  \/ \E i, u \in Pads : WrongBlock(i, u)
  \/ Finish

(* A mutant of SliceOK: only where the slice starts is looked at.          *)
SliceOKByStart(i) == pads[i].slice.lo = Width * i

SliceOK(i) == pads[i].slice = [hi |-> Width * i + Width - 1, lo |-> Width * i]

(* The modes that a pad may be reported by, of which the dictionary from   *)
(* words to names keeps the last, and the fields of a word that are not 0. *)
Names(word) == {m \in DOMAIN cat : cat[m] = word}
Decode(word) ==
  {f \in {[lo |-> g.lo, value |-> (word \div Pow2[g.lo]) % Pow2[g.width]] : g \in FIELDS} : f.value # 0}
-----------------------------------------------------------------------------
(* An instance drives each bit of its slice with that bit of its word.     *)
Drivers(bit) == {i \in DOMAIN pads : pads[i].slice.lo <= bit /\ bit <= pads[i].slice.hi}
Driven(i, bit) == (pads[i].word \div Pow2[bit - pads[i].slice.lo]) % 2

(* The control block of pad i loads the i-th word of the bus at reset.     *)
Loads(i, word) ==
  \A b \in 0 .. Width - 1 :
    \E j \in Drivers(Width * i + b) :
      /\ Drivers(Width * i + b) = {j}
      /\ Driven(j, Width * i + b) = (word \div Pow2[b]) % 2

(* When the report marks no slice as miswired, every pad it lists powers   *)
(* up as it says: the bits its control block loads have one driver each    *)
(* and are the word reported; a mode it is named by is that word, and so   *)
(* is the list of fields of a word without a mode, for no two words have   *)
(* the same list.                                                          *)
PowersUpAsReported ==
  stage = "report" /\ (\A i \in DOMAIN pads : SliceOK(i)) =>
    \A i \in DOMAIN pads :
      /\ Loads(i, pads[i].word)
      /\ \A m \in Names(pads[i].word) : Loads(i, cat[m])
      /\ \A word \in Words : Decode(word) = Decode(pads[i].word) => word = pads[i].word
=============================================================================
