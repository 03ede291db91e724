-------------------------- MODULE MCFlat16HashMap ---------------------------
(***************************************************************************)
(* Instances of Flat16HashMap for TLC.                                     *)
(***************************************************************************)
EXTENDS Flat16HashMap

CONSTANTS a1, a2, b1, b2, c1

(***************************************************************************)
(* In a table of eight the a's live in the last slot but one, and their    *)
(* groups go round the end of the table; the b's live in the slot before,  *)
(* c1 in the first.  A table of sixteen parts the a's.                     *)
(***************************************************************************)
MCHash == [k \in Key |-> CASE k = a1         -> 6
                           [] k = a2         -> 14
                           [] k \in {b1, b2} -> 5
                           [] k = c1         -> 8]
MCCtrlHash == [k \in Key |-> IF k \in {a1, b1, c1} THEN 1 ELSE 2]
Reciprocals == [m \in LoadFactors |-> IF m = 32768 THEN 131072 ELSE 100825]

(* An element that an erasure has hidden can be inserted again: at most so many elements,
   and nothing is erased in tables of more slots. *)
CONSTANTS MaxElements, ErasesUpTo
FewElements == /\ Cardinality(Live(slot)) + Cardinality(pending) <= MaxElements
               /\ call.op = "erase" => SlotCapacity <= ErasesUpTo
=============================================================================
