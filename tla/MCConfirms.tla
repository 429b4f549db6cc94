----------------------------- MODULE MCConfirms -----------------------------
(* Two listeners with Go channels of one element, three publishings. *)
EXTENDS Confirms, TLC
CONSTANTS l1, l2
MCListener == {l1, l2}
Symmetry == Permutations(MCListener)
=============================================================================
