--------------------------- MODULE MCAndroidLock ---------------------------
(* AndroidLock for TLC.                                                    *)
EXTENDS AndroidLock, TLC

(* Sessions are alike, and so are the calls of refreshLock.                *)
Alike == Permutations(Sessions) \cup Permutations(Pollers)

=============================================================================
