------------------------------ MODULE MCLadder ------------------------------
(* Ladder for TLC.                                                         *)
EXTENDS Ladder, TLC

(* Answers are alike.                                                      *)
Alike == Permutations(Answers)

=============================================================================
