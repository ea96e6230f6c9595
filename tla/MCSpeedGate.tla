---------------------------- MODULE MCSpeedGate ----------------------------
(* SpeedGate for TLC: a few submissions, a language with a reference and   *)
(* one without, and a gate of the reference and half as much again.        *)
EXTENDS SpeedGate, TLC

CONSTANTS g1, g2, g3, js, cpp

MCReference == [l \in Languages \cap {js} |-> 10]
Same == Permutations(Graders)
=============================================================================
