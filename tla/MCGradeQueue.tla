---------------------------- MODULE MCGradeQueue ----------------------------
(***************************************************************************)
(* Small instances of GradeQueue for TLC.                                  *)
(***************************************************************************)
EXTENDS GradeQueue, TLC

Symmetry == Permutations(Requests) \cup Permutations(Users)

=============================================================================
