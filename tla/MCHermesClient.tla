---------------------------- MODULE MCHermesClient ----------------------------
(***************************************************************************)
(* Instances of HermesClient for TLC.                                      *)
(***************************************************************************)
EXTENDS HermesClient

CONSTANTS s1, a1, f1, f2, n1

OneKindAtATime == {Calls, Asyncs, Fires}
SameNonce == [f \in Fires |-> n1]
=============================================================================
