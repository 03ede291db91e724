--------------------------- MODULE GroupProbeWalk ---------------------------
(***************************************************************************)
(* A whole traversal: one prober started at the home group of a key and    *)
(* moved by next_bucket() until it returns false, as the loop of           *)
(* find_impl() does when every overflow bit it meets is set.               *)
(***************************************************************************)
EXTENDS GroupQuadraticProber, FiniteSets

CONSTANT ProbeMasks    \* the bucket masks: numbers of groups minus one

ASSUME MasksAssumption == \A m \in ProbeMasks : m \in Nat /\ IsPow2(m + 1)

VARIABLES mask, home,
          index, step,   \* index_ and step_ of the prober
          going,         \* what the last next_bucket() returned
          probed         \* the groups the body of the loop has been run for

walkVars == <<mask, home, index, step, going, probed>>

WalkInit == /\ mask \in ProbeMasks /\ home \in 0..mask
            /\ index = home /\ step = 0 /\ going = TRUE
            /\ probed = {home}

NextBucket ==
    /\ going
    /\ index' = NextIndex(index, step, mask)
    /\ step' = step + 1
    /\ going' = HasNextBucket(step, mask)
    /\ probed' = IF going' THEN probed \cup {index'} ELSE probed
    /\ UNCHANGED <<mask, home>>

WalkSpec == WalkInit /\ [][NextBucket]_walkVars

-----------------------------------------------------------------------------
(***************************************************************************)
(* The fields of the prober stay in range.                                 *)
(***************************************************************************)
WalkTypeOK == /\ mask \in ProbeMasks /\ home \in 0..mask /\ index \in 0..mask
              /\ step \in 0..(mask + 1) /\ going \in BOOLEAN
              /\ probed \subseteq 0..mask

(***************************************************************************)
(* The prober, which only ever adds its step to its index, is at the group *)
(* the closed form gives.                                                  *)
(***************************************************************************)
PositionIsProbe == index = Probe(home, step, mask)

(***************************************************************************)
(* "next_bucket() returns false when the whole array has been traversed":  *)
(* the loop has then been in every group.                                  *)
(***************************************************************************)
TraversesAll == ~ going => probed = 0..mask

=============================================================================
