--------------------------- MODULE MCRobinHashMap ---------------------------
(***************************************************************************)
(* Instances of RobinHashMap for TLC.                                      *)
(***************************************************************************)
EXTENDS RobinHashMap

CONSTANTS a1, a2, b1, b2, c1, c2, v1, v2

(***************************************************************************)
(* The chain of the a's begins at the last position of a table of four or  *)
(* eight, that of the b's one position earlier; the c's live with the a's  *)
(* in a table of four.                                                     *)
(***************************************************************************)
MCHash == [k \in Key |-> CASE k \in {a1, a2} -> 7
                           [] k \in {b1, b2} -> 6
                           [] k \in {c1, c2} -> 3]

(* The same, but a table of sixteen parts the keys of a chain. *)
PartedHash == [k \in Key |-> MCHash[k] + (IF k \in {a2, b2, c2} THEN 8 ELSE 0)]

(* a1 and b1 have the same eight bits, a1 and a2 do not *)
MCCtrlHash == [k \in Key |-> IF k \in {a1, b1, c1} THEN 1 ELSE 2]

OneKeyChanges == call.key # c1 => call.val # v2
=============================================================================
