--------------------------- MODULE RequestLifecycle ---------------------------
(***************************************************************************)
(* What the Hermes broker promises about the requests of its clients,      *)
(* with no channels, locks, goroutines or registry: a request is lost,     *)
(* rejected or given to exactly one worker of the service it names, and    *)
(* the requests held back for a service leave in the order they came.      *)
(***************************************************************************)
EXTENDS Sequences

CONSTANTS Requests, Workers, Services, ServiceOf, Target

VARIABLES
    phase,      \* what has become of each request
    holder,     \* the workers it was given to, in order
    backlog     \* per service, the requests held back

vars == <<phase, holder, backlog>>

Init ==
    /\ phase = [r \in Requests |-> "new"]
    /\ holder = [r \in Requests |-> <<>>]
    /\ backlog = [s \in Services |-> <<>>]

Submit(r) ==
    /\ phase[r] = "new"
    /\ phase' = [phase EXCEPT ![r] = "pending"]
    /\ UNCHANGED <<holder, backlog>>

Lose(r) ==
    /\ phase[r] \in {"new", "pending"}
    /\ phase' = [phase EXCEPT ![r] = "lost"]
    /\ UNCHANGED <<holder, backlog>>

Reject(r) ==
    /\ phase[r] = "pending"
    /\ phase' = [phase EXCEPT ![r] = "rejected"]
    /\ UNCHANGED <<holder, backlog>>

HoldBack(r) ==
    /\ phase[r] = "pending"
    /\ phase' = [phase EXCEPT ![r] = "held"]
    /\ backlog' = [backlog EXCEPT ![Target[r]] = Append(@, r)]
    /\ UNCHANGED holder

Give(r, w) ==
    /\ ServiceOf[w] = Target[r]
    /\ phase' = [phase EXCEPT ![r] = "given"]
    /\ holder' = [holder EXCEPT ![r] = <<w>>]

GiveNew(r, w) ==
    /\ phase[r] = "pending"
    /\ Give(r, w)
    /\ UNCHANGED backlog

GiveOldest(s, w) ==
    /\ backlog[s] # <<>>
    /\ Give(Head(backlog[s]), w)
    /\ backlog' = [backlog EXCEPT ![s] = Tail(@)]

Next ==
    \/ \E r \in Requests :
         \/ Submit(r) \/ Lose(r) \/ Reject(r) \/ HoldBack(r)
         \/ \E w \in Workers : GiveNew(r, w)
    \/ \E s \in Services, w \in Workers : GiveOldest(s, w)

Spec == Init /\ [][Next]_vars
=============================================================================
