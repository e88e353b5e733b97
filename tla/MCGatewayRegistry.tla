-------------------------- MODULE MCGatewayRegistry --------------------------
(***************************************************************************)
(* Instances of GatewayRegistry for TLC: one hub with the id the program   *)
(* generates, one whose id was written without the prefix, and a device id *)
(* that both may list.                                                     *)
(***************************************************************************)
EXTENDS GatewayRegistry, TLC

CONSTANTS h1, h2, d1

ListsOfBoth == [h \in Hubs |-> {d1}]

\* Only safety is checked, and nothing tells users or sockets apart.
Symmetry == Permutations(Users) \cup Permutations(Sockets)
=============================================================================
