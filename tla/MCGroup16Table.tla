--------------------------- MODULE MCGroup16Table ---------------------------
(***************************************************************************)
(* Instances of Group16Table for TLC: groups of two slots and hash codes   *)
(* of ten bits whose three top bits choose the group and whose seven low   *)
(* bits are the control byte.                                              *)
(***************************************************************************)
EXTENDS Group16Table, TLC

CONSTANTS a1, a2,     \* keys of one hash code
          b1, b2,     \* keys of another, with the other overflow bit
          k1, k2, v1, v2

MCHashRange == 1024
HashCode(top, low) == top * 128 + low

(***************************************************************************)
(* In a table of two groups all of these live in the first one; in one of  *)
(* four, k2 does not.  k1's byte 0 is reduced to the byte of the a's.      *)
(***************************************************************************)
MCHash == [k \in Key |->
             CASE k \in {a1, a2} -> HashCode(0, 8)
               [] k \in {b1, b2} -> HashCode(0, 9)
               [] k = k1 -> HashCode(1, 0)
               [] k = k2 -> HashCode(2, 9)]

Symmetry == Permutations({a1, a2} \cap Key) \cup Permutations({b1, b2} \cap Key)

(* Only one of the keys changes its value *)
OneKeyChanges == call.key # k1 => call.val # v2

(* A loop that has been through the whole table never ends: its further    *)
(* steps are not explored.                                                 *)
NotLooping == probe.step <= groupMask

(* clear() keeps a threshold that has risen: not beyond the capacity here *)
NotDrifting == slotThreshold <= SlotCapacity
=============================================================================
