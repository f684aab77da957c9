-------------------------- MODULE MCDaemonLifecycle --------------------------
(***************************************************************************)
(* Small instances of DaemonLifecycle for TLC.                             *)
(***************************************************************************)
EXTENDS DaemonLifecycle

CONSTANTS p, t, d1, d2
=============================================================================
