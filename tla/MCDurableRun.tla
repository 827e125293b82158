---------------------------- MODULE MCDurableRun ----------------------------
(* Instances of DurableRun for TLC. *)
EXTENDS DurableRun, TLC

CONSTANTS d1, d2

MCResults == {d1, d2}
MCOneResult == {d1}
Symmetry == Permutations({d1, d2})
=============================================================================
