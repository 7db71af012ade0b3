----------------------------- MODULE MCJobLocks -----------------------------
(* The instance of JobLocks that TLC checks.                               *)
EXTENDS JobLocks, TLC

Symmetry == Permutations(Waiter) \cup Permutations(Job)
=============================================================================
