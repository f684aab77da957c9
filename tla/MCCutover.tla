------------------------------ MODULE MCCutover ------------------------------
(***************************************************************************)
(* Small instances of Cutover for TLC.                                     *)
(***************************************************************************)
EXTENDS Cutover, TLC

CONSTANTS h1, h2

Symmetric == Permutations(Hook)
=============================================================================
