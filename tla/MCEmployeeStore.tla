-------------------------- MODULE MCEmployeeStore --------------------------
(* Four runs of the program, which are alike. *)
EXTENDS EmployeeStore, TLC
CONSTANTS e1, e2, e3, e4
MCProc == {e1, e2, e3, e4}
Symmetry == Permutations(MCProc)
=============================================================================
