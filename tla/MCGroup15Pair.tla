---------------------------- MODULE MCGroup15Pair ----------------------------
(* Instances of Group15Pair for TLC, with the keys of MCGroup15Table *)
EXTENDS Group15Pair, MCGroup15Table

(***************************************************************************)
(* A table that copying left with size 0 beside its elements is not called *)
(* any more: what it does then is not what the run asks about.             *)
(***************************************************************************)
RightSize == pc = "idle" => slotSize = Cardinality(Live(slot))

(* One of the tables is empty, or it is a copy of the other. *)
CloseCopies == \/ Live(slot) = {} \/ Live(other.slot) = {}
               \/ Contents = Other!Contents
=============================================================================
