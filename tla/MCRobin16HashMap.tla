-------------------------- MODULE MCRobin16HashMap --------------------------
(***************************************************************************)
(* Instances of Robin16HashMap for TLC.                                    *)
(***************************************************************************)
EXTENDS Robin16HashMap, TLC

CONSTANTS a1, a2, a3, b1, b2, c1, v1, v2

(***************************************************************************)
(* The a's live one slot behind the b's and one before c1.  In a table of  *)
(* eight a chain of theirs wraps, and the group that a search for an a     *)
(* reads begins in the last slot; a table of sixteen parts a3 from them.   *)
(***************************************************************************)
MCHash == [k \in Key |-> CASE k \in {a1, a2} -> 13
                           [] k = a3         -> 21
                           [] k \in {b1, b2} -> 12
                           [] k = c1         -> 14]
MCCtrlHash == [k \in Key |-> IF k \in {a1, b1, c1} THEN 1 ELSE 2]
Reciprocals == (32768 :> 131072) @@ (52429 :> 81920)

OneKeyChanges == call.key # c1 => call.val # v2
=============================================================================
