---------------------------- MODULE MCCountdown ----------------------------
(***************************************************************************)
(* Small instances of Countdown for TLC.                                   *)
(***************************************************************************)
EXTENDS Countdown, TLC

Symmetry == Permutations(Clients)

=============================================================================
