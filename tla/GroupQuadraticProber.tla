------------------------ MODULE GroupQuadraticProber ------------------------
(***************************************************************************)
(* The probe sequence of group_quadratic_prober.hpp.  A prober starts at   *)
(* the home group of a key and next_bucket() moves it by 1, 2, 3, ...      *)
(* groups, so the offset after n moves is the n-th triangular number.      *)
(* The bucket mask is one less than the number of groups; a table of       *)
(* mask + 1 groups always has a power of two of them, so the code's        *)
(* "& bucket_mask" is written as a remainder.                              *)
(***************************************************************************)
EXTENDS Integers

(***************************************************************************)
(* run_time::is_pow2(n) for n > 0: no odd number but 1 divides n.          *)
(***************************************************************************)
IsPow2(n) == n > 0 /\ \A d \in 2..n : d % 2 = 1 => n % d # 0

(* Mutant: the offset grows by two more groups at each move *)
DoubleStep(index, step, mask) == (index + 2 * (step + 1)) % (mask + 1)

(* Mutant: the index is not masked *)
Unmasked(index, step, mask) == index + step + 1

(* next_bucket(): index_ = (index_ + step_) & bucket_mask, after step_ += 1 *)
NextIndex(index, step, mask) == (index + step + 1) % (mask + 1)

(* next_bucket() returns step_ <= bucket_mask: false ends the probing.     *)
HasNextBucket(step, mask) == step + 1 <= mask

Triangle(n) == (n * (n + 1)) \div 2

(***************************************************************************)
(* The group under the prober after n moves.  Before the first move it is  *)
(* the home group itself, which the code does not mask.                    *)
(***************************************************************************)
Probe(home, n, mask) == 
    IF n = 0 THEN home ELSE (home + Triangle(n)) % (mask + 1)

=============================================================================
