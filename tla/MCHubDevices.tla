----------------------------- MODULE MCHubDevices -----------------------------
(***************************************************************************)
(* Instances of HubDevices for TLC.                                        *)
(***************************************************************************)
EXTENDS HubDevices

CONSTANTS d1, d2, x, y, n1, n2

Device(d, a)   == [id |-> d, address |-> a, good |-> TRUE]
Unsupported(d) == [id |-> d, address |-> x, good |-> FALSE]

OneDevice == <<Device(d1, x)>>
TwoLists  == {<<Device(d2, x)>>, <<Device(d1, y), Unsupported(d2)>>}

\* Two nonces compete for a cache of size one; the other device comes and goes.
Requested == {<<d1, n1>>, <<d1, n2>>, <<d2, n1>>, <<d1, Bad>>, <<d1, None>>}
=============================================================================
