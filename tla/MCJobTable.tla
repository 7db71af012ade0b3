----------------------------- MODULE MCJobTable -----------------------------
(* The instance of JobTable that TLC checks.                               *)
EXTENDS JobTable, TLC

Symmetry == Permutations(Proc)
=============================================================================
