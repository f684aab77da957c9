-------------------------- MODULE MCAttemptFamilies --------------------------
(***************************************************************************)
(* Small instances of AttemptFamilies for TLC.                             *)
(***************************************************************************)
EXTENDS AttemptFamilies, TLC

CONSTANTS r1, r2, r3, f1, f2, s1, s2

Symmetry ==
    Permutations({r1, r2, r3}) \cup Permutations({f1, f2}) \cup Permutations({s1, s2})
=============================================================================
