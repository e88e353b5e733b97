---------------------------- MODULE MCHermesWorker ----------------------------
(***************************************************************************)
(* Instances of HermesWorker for TLC.                                      *)
(***************************************************************************)
EXTENDS HermesWorker

CONSTANTS r1
=============================================================================
