---------------------------- MODULE MCHermesBroker ----------------------------
(***************************************************************************)
(* Instances of HermesBroker for TLC.                                      *)
(***************************************************************************)
EXTENDS HermesBroker

CONSTANTS w1, w2, r1, r2

\* One queued service and hub.control; the cfg chooses who is where.
MCServices == {"echo", "hub.control"}
AllEcho(S) == [x \in S |-> "echo"]
AllHub(S)  == [x \in S |-> "hub.control"]

EchoWorkers  == AllEcho(Workers)
EchoRequests == AllEcho(Requests)
HubWorkers   == AllHub(Workers)
HubRequests  == AllHub(Requests)

\* Workers of one service are alike, and so are requests for one service.
Symmetry == Permutations(Workers) \cup Permutations(Requests)
=============================================================================
