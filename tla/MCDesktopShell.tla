--------------------------- MODULE MCDesktopShell ---------------------------
(* DesktopShell for TLC.                                                   *)
EXTENDS DesktopShell, TLC

(* Sessions are alike, and so are the calls of takeScreenFor.              *)
Alike == Permutations(Sessions) \cup Permutations(Takers)

=============================================================================
