-------------------------- MODULE MCGroup15Table --------------------------
(***************************************************************************)
(* Instances of Group15Table for TLC: groups of four control bytes, hence  *)
(* three slots, and hash codes of eleven bits whose three top bits choose  *)
(* the group and whose low byte is the control byte.                       *)
(***************************************************************************)
EXTENDS Group15Table, TLC

CONSTANTS a1, a2, a3, a4,  \* keys of one hash code
          k1, k2, k3, k4,
          v1, v2         \* values

MCHashRange == 2048
HashCode(top, low) == top * 256 + low

(***************************************************************************)
(* In a table of two groups all of these but k3 live in the first one; in  *)
(* a table of eight only the a's, k1 and k4 do.  k1's low byte 0 is        *)
(* reduced to the a's control byte, k2's to k3's; k4 shares the a's        *)
(* overflow bit, k2 and k3 do not.                                         *)
(***************************************************************************)
MCHash == [k \in Key |->
             CASE k \in {a1, a2, a3, a4} -> HashCode(0, 8)
               [] k = k1 -> HashCode(0, 0)
               [] k = k2 -> HashCode(3, 1)
               [] k = k3 -> HashCode(4, 9)
               [] k = k4 -> HashCode(0, 24)]

(* Keys of one hash code are interchangeable *)
Symmetry == Permutations({a1, a2, a3, a4} \cap Key)

(* Only one of the keys changes its value *)
OneKeyChanges == call.key # a1 => call.val # v2

(***************************************************************************)
(* At most MaxGhosts slots are marked used without an element in them.     *)
(* With more of them a small table has no empty slot left while its size   *)
(* is below the threshold, and the insertion loop never ends.              *)
(***************************************************************************)
MaxGhosts == 1
Ghosts == {c \in UsedCells : slot[c] = Raw /\ ~ Constructing(c)}
FewGhosts == Cardinality(Ghosts) <= MaxGhosts

(* Erasing a ghost from an empty table wraps its size: reset_ctrl() asserts *)
(* that it does not, and the program stops there.                          *)
NotWrapped == slotSize < WordMax /\ slotThreshold < WordMax

(* A loop that has been through the whole table never ends: its further    *)
(* steps are not explored.                                                 *)
NotLooping == probe.step <= groupMask

=============================================================================
