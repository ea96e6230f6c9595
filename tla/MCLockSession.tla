--------------------------- MODULE MCLockSession ---------------------------
(***************************************************************************)
(* Small instances of LockSession for TLC.                                 *)
(***************************************************************************)
EXTENDS LockSession, TLC

(* Rows, request slots, sweeps of a kind and problems are interchangeable. *)
Symmetry ==
    Permutations(Sessions) \cup Permutations(Clients) \cup Permutations(Problems)
        \cup Permutations(Engagers) \cup Permutations(Reapers)

=============================================================================
