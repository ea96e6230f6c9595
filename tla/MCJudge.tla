------------------------------ MODULE MCJudge -------------------------------
(* Judge for TLC.                                                          *)
EXTENDS Judge

=============================================================================
