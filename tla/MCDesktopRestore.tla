-------------------------- MODULE MCDesktopRestore --------------------------
(***************************************************************************)
(* DesktopRestore for TLC.  Its runs have a liveness property or search    *)
(* for a violation, so no symmetry is defined.                             *)
(***************************************************************************)
EXTENDS DesktopRestore, TLC
=============================================================================
