------------------------------ MODULE MCHubSetup ------------------------------
(***************************************************************************)
(* Instances of HubSetup for TLC.                                          *)
(***************************************************************************)
EXTENDS HubSetup, TLC

Renamed == Permutations(Processes)
=============================================================================
