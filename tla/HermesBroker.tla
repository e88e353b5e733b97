----------------------------- MODULE HermesBroker -----------------------------
(***************************************************************************)
(* The Hermes broker of internal/hermes/broker.go: the registry of workers *)
(* and services, the request queues, and the goroutines that share them.   *)
(*                                                                         *)
(*   socketReader -> messagesCh -> messageRouter -> workerEventsCh,        *)
(*                                                  clientEventsCh         *)
(*   workerEventHandler, clientEventHandler, heartbeatManager              *)
(*                                                                         *)
(* A step ends where the code releases the lock it holds, so what another  *)
(* goroutine can see or change between two critical sections of a handler  *)
(* can happen here.  The peers on the socket are the environment: a worker *)
(* may send any of its commands at any time, and it answers what it was    *)
(* sent at most once, or never.  The broker also answers heartbeats and    *)
(* tells an unknown worker to register again: neither is answered, and     *)
(* both leave the worker free to send what it may send anyway.             *)
(***************************************************************************)
EXTENDS Naturals, FiniteSets, Sequences, SequencesExt

CONSTANTS
    Workers,          \* socket identities of worker connections
    Requests,         \* the client requests that are ever sent
    Services,         \* service names
    HubControl,       \* the service "hub.control", routed without a queue
    ServiceOf,        \* the service a worker connection names in its READY
    Target,           \* the service a request names
    MessagesCap,      \* capacity of messagesCh (200 in the code)
    EventsCap,        \* capacity of workerEventsCh and clientEventsCh (100)
    HeartbeatCap,     \* capacity of heartbeatCh (10)
    ExpiryTicks,      \* heartbeat ticks in expiry plus grace period (14)
    MaxCopies,        \* bound: READYs of one worker listed or in a channel
    TimePasses        \* bound: FALSE keeps the clock, and so the expiry of
                      \* workers, out of an instance about something else

ASSUME BrokerAssumption ==
    /\ HubControl \in Services
    /\ ServiceOf \in [Workers -> Services]
    /\ Target \in [Requests -> Services]
    /\ {MessagesCap, EventsCap, HeartbeatCap, ExpiryTicks, MaxCopies} \subseteq Nat
    /\ {"", "devices", "failed", "LIST"} \cap Requests = {}
    /\ TimePasses \in BOOLEAN

VARIABLES
    registered,       \* keys of b.workers
    age,              \* ticks since the worker's Expiry was last refreshed
    known,            \* keys of b.services: entries are never deleted
    svcWorkers,       \* BrokerService.Workers, per service
    waiting,          \* BrokerService.Waiting, per service
    requests,         \* BrokerService.Requests, per service
    messagesCh, workerEventsCh, clientEventsCh,
    heartbeatCh,      \* number of values in heartbeatCh
    tick,             \* the heartbeat ticker has an undelivered tick
    wpc, cpc, hpc,    \* where the three handlers are between critical sections
    toWorker,         \* what a worker was sent and has not answered: requests
                      \* and the request for its device list
    deviceLists,      \* workers whose device list went to the gateway service
    received,         \* requests a client has sent
    sent,             \* the workers each request was sent to, in order
    answers           \* the answers each request's client was sent, in order

registry == <<registered, known, svcWorkers>>
queues   == <<waiting, requests>>
channels == <<messagesCh, workerEventsCh, clientEventsCh>>
beats    == <<heartbeatCh, tick, hpc>>
output   == <<toWorker, deviceLists, sent, answers>>
vars == <<registry, age, queues, channels, beats, wpc, cpc, output, received>>

DeviceList == "devices"     \* a reply that carries devices and hub_id
ListFailed == "failed"      \* any other reply to the device list request

WorkerMsg(k, w, b) == [kind |-> k, worker |-> w, body |-> b]
ClientMsg(r)       == [kind |-> "REQ", request |-> r]

WorkerMsgs == [kind : {"READY", "HEARTBEAT", "DISCONNECT"}, worker : Workers, body : {""}]
                \cup [kind : {"REPLY"}, worker : Workers,
                      body : Requests \cup {DeviceList, ListFailed}]
ClientMsgs == [kind : {"REQ"}, request : Requests]

Idle == [step |-> "idle"]

Init ==
    /\ registered = {} /\ known = {}
    /\ age = [w \in Workers |-> 0]
    /\ svcWorkers = [s \in Services |-> <<>>]
    /\ waiting = [s \in Services |-> <<>>]
    /\ requests = [s \in Services |-> <<>>]
    /\ messagesCh = <<>> /\ workerEventsCh = <<>> /\ clientEventsCh = <<>>
    /\ heartbeatCh = 0 /\ tick = FALSE
    /\ wpc = Idle /\ cpc = Idle
    /\ hpc = [step |-> "wait", victims |-> {}]
    /\ toWorker = [w \in Workers |-> {}]
    /\ deviceLists = {} /\ received = {}
    /\ sent = [r \in Requests |-> <<>>]
    /\ answers = [r \in Requests |-> <<>>]

-----------------------------------------------------------------------------
(* socketReader and messageRouter *)

\* A channel send with a default branch: when the channel is full the value
\* is dropped.
Offer(ch, cap, m) == IF Len(ch) < cap THEN Append(ch, m) ELSE ch

SocketReader(m) ==
    /\ messagesCh' = Offer(messagesCh, MessagesCap, m)
    /\ UNCHANGED <<registry, age, queues, workerEventsCh, clientEventsCh, beats, wpc, cpc>>

\* Where e occurs in the sequence s, and how often.
Places(s, e) == {i \in DOMAIN s : s[i] = e}
Count(s, e)  == Cardinality(Places(s, e))

Readies(s, w) == Count(s, WorkerMsg("READY", w, ""))

RecvReady(w) ==
    /\ Readies(messagesCh, w) + Readies(workerEventsCh, w)
         + Count(svcWorkers[ServiceOf[w]], w) < MaxCopies
    /\ SocketReader(WorkerMsg("READY", w, ""))
    /\ UNCHANGED <<output, received>>

RecvControl(w) ==
    /\ \E k \in {"HEARTBEAT", "DISCONNECT"} : SocketReader(WorkerMsg(k, w, ""))
    /\ UNCHANGED <<output, received>>

\* A worker answers something it was sent, a request or the device list.
RecvReply(w, body) ==
    /\ IF body \in Requests THEN body \in toWorker[w] ELSE "LIST" \in toWorker[w]
    /\ toWorker' = [toWorker EXCEPT ![w] = @ \ {IF body \in Requests THEN body ELSE "LIST"}]
    /\ SocketReader(WorkerMsg("REPLY", w, body))
    /\ UNCHANGED <<deviceLists, sent, answers, received>>

RecvRequest(r) ==
    /\ r \notin received
    /\ received' = received \cup {r}
    /\ SocketReader(ClientMsg(r))
    /\ UNCHANGED output

MessageRouter ==
    /\ messagesCh # <<>>
    /\ messagesCh' = Tail(messagesCh)
    /\ LET m == Head(messagesCh) IN
         IF m.kind = "REQ"
         THEN /\ clientEventsCh' = Offer(clientEventsCh, EventsCap, m)
              /\ UNCHANGED workerEventsCh
         ELSE /\ workerEventsCh' = Offer(workerEventsCh, EventsCap, m)
              /\ UNCHANGED clientEventsCh
    /\ UNCHANGED <<registry, age, queues, beats, wpc, cpc, output, received>>

-----------------------------------------------------------------------------
(* workerEventHandler *)

WorkerEvent(k, w, b) ==
    /\ wpc = Idle
    /\ workerEventsCh # <<>>
    /\ Head(workerEventsCh) = WorkerMsg(k, w, b)
    /\ workerEventsCh' = Tail(workerEventsCh)
    /\ UNCHANGED <<messagesCh, clientEventsCh, beats, cpc, received>>

SendToWorker(w, what) == toWorker' = [toWorker EXCEPT ![w] = @ \cup {what}]

\* The critical section of handleWorkerReady: it appends to both lists
\* whether or not the worker is listed already.
HandleWorkerReady(w) ==
    LET s == ServiceOf[w] IN
    /\ WorkerEvent("READY", w, "")
    /\ registered' = registered \cup {w}
    /\ known' = known \cup {s}
    /\ age' = [age EXCEPT ![w] = 0]
    /\ svcWorkers' = [svcWorkers EXCEPT ![s] = Append(@, w)]
    /\ waiting' = [waiting EXCEPT ![s] = Append(@, w)]
    /\ wpc' = [step |-> "ready", worker |-> w, body |-> ""]
    /\ UNCHANGED <<requests, output>>

\* sendImmediateDeviceListRequest: the handshake of a hub asks for its devices.
Handshake(s) == IF s = HubControl THEN {"LIST"} ELSE {}

\* The queue of a service once its n oldest requests are taken.
QueueKept(s, n)    == requests[s]
QueueCleared(s, n) == <<>>
QueueBeyond(s, n)  == SubSeq(requests[s], n + 1, Len(requests[s]))

\* processPendingRequests: each queued request, oldest first, to a waiting
\* worker, until one of the two lists is empty.  Then the handshake with the
\* new worker.
ProcessPendingRequests ==
    LET w == wpc.worker
        s == ServiceOf[w]
        n == IF Len(requests[s]) < Len(waiting[s]) THEN Len(requests[s]) ELSE Len(waiting[s])
        Given(v) == {requests[s][i] : i \in {j \in 1 .. n : waiting[s][j] = v}}
        Takes(r) == {i \in 1 .. n : requests[s][i] = r}
    IN
    /\ wpc.step = "ready"
    /\ requests' = [requests EXCEPT ![s] = QueueBeyond(s, n)]
    /\ waiting' = [waiting EXCEPT ![s] = SubSeq(@, n + 1, Len(@))]
    /\ sent' = [r \in Requests |->
                  IF Takes(r) = {} THEN sent[r]
                  ELSE Append(sent[r], waiting[s][CHOOSE i \in Takes(r) : TRUE])]
    /\ toWorker' = [v \in Workers |->
                      toWorker[v] \cup Given(v) \cup (IF v = w THEN Handshake(s) ELSE {})]
    /\ wpc' = Idle
    /\ UNCHANGED <<registry, age, channels, beats, cpc, deviceLists, answers, received>>

\* The answers once the client of the request that b replies to has the reply.
ReplyDropped(b)   == answers
ReplyForwarded(b) == [r \in Requests |->
                        IF r = b THEN Append(answers[r], "reply") ELSE answers[r]]

\* The lookup of handleWorkerHeartbeat and handleWorkerReply finds no worker:
\* a reply still goes to its client, and the worker is told to register again.
HandleUnknown(w, b) ==
    /\ \/ b = "" /\ WorkerEvent("HEARTBEAT", w, b) /\ UNCHANGED answers
       \/ b # "" /\ WorkerEvent("REPLY", w, b)
          /\ answers' = ReplyForwarded(b)
    /\ w \notin registered
    /\ UNCHANGED <<registry, age, queues, wpc, toWorker, deviceLists, sent>>

\* The lookup finds the worker and b.mutex is released.
LookupWorker(w, b) ==
    /\ WorkerEvent(IF b = "" THEN "HEARTBEAT" ELSE "REPLY", w, b)
    /\ w \in registered
    /\ wpc' = [step |-> "found", worker |-> w, body |-> b]
    /\ UNCHANGED <<registry, age, queues, output>>

\* The refresh of the worker object that was looked up, and the answer: a
\* heartbeat for a heartbeat; for a reply, the device list goes to the gateway
\* service and anything else to the client.  The object may have been removed
\* from the registry since.
FinishWorkerEvent ==
    LET w == wpc.worker
        b == wpc.body
    IN
    /\ wpc.step = "found"
    /\ age' = [age EXCEPT ![w] = 0]
    /\ wpc' = Idle
    /\ deviceLists' = IF b = DeviceList /\ ServiceOf[w] = HubControl
                      THEN deviceLists \cup {w} ELSE deviceLists
    /\ answers' = ReplyForwarded(b)
    /\ UNCHANGED <<registry, queues, channels, beats, cpc, toWorker, sent, received>>

\* What a removal leaves of the registry and of the waiting list.
StillRegistered(w) == registered
StillWaiting(w)    == waiting[ServiceOf[w]]
Deregistered(w)    == registered \ {w}
NotWaiting(w)      == RemoveFirst(waiting[ServiceOf[w]], w)

\* removeWorker, under b.mutex and the service's mutex: the first entry in
\* each list goes.
RemoveWorker(w) ==
    IF w \in registered
    THEN LET s == ServiceOf[w] IN
         /\ registered' = Deregistered(w)
         /\ svcWorkers' = [svcWorkers EXCEPT ![s] = RemoveFirst(@, w)]
         /\ waiting' = [waiting EXCEPT ![s] = NotWaiting(w)]
         /\ age' = [age EXCEPT ![w] = 0]
         /\ UNCHANGED <<known, requests>>
    ELSE UNCHANGED <<registry, age, queues>>

HandleWorkerDisconnect(w) ==
    /\ WorkerEvent("DISCONNECT", w, "")
    /\ RemoveWorker(w)
    /\ UNCHANGED <<wpc, output>>

-----------------------------------------------------------------------------
(* clientEventHandler *)

ClientEvent(r) ==
    /\ cpc = Idle
    /\ clientEventsCh # <<>>
    /\ Head(clientEventsCh) = ClientMsg(r)
    /\ clientEventsCh' = Tail(clientEventsCh)
    /\ UNCHANGED <<registry, age, messagesCh, workerEventsCh, beats, wpc, deviceLists, received>>

Send(r, w) ==
    /\ sent' = [sent EXCEPT ![r] = Append(@, w)]
    /\ SendToWorker(w, r)

NoService(r) == Target[r] \notin known
NoTaker(r)   == NoService(r) \/ (Target[r] = HubControl /\ svcWorkers[HubControl] = <<>>)

\* No such service, or no worker of hub.control: the client gets an error.
RejectRequest(r) ==
    /\ ClientEvent(r)
    /\ NoTaker(r)
    /\ answers' = [answers EXCEPT ![r] = Append(@, "error")]
    /\ UNCHANGED <<queues, cpc, toWorker, sent>>

\* hub.control goes to the first worker listed, chosen under the service's
\* mutex and sent to after it is released.
PickHubWorker(r) ==
    /\ ClientEvent(r)
    /\ Target[r] = HubControl
    /\ HubControl \in known
    /\ svcWorkers[HubControl] # <<>>
    /\ cpc' = [step |-> "send", request |-> r, worker |-> Head(svcWorkers[HubControl])]
    /\ UNCHANGED <<queues, toWorker, sent, answers>>

SendToHubWorker ==
    /\ cpc.step = "send"
    /\ Send(cpc.request, cpc.worker)
    /\ cpc' = Idle
    /\ UNCHANGED <<registry, age, queues, channels, beats, wpc, deviceLists, answers, received>>

AtMostOneWaiting(s) == Len(waiting[s]) <= 1
NoneWaiting(s)      == waiting[s] = <<>>

AtFront(s, r) == <<r>> \o requests[s]
AtBack(s, r)  == Append(requests[s], r)

QueueRequest(r) ==
    LET s == Target[r] IN
    /\ ClientEvent(r)
    /\ s \in known \ {HubControl}
    /\ NoneWaiting(s)
    /\ requests' = [requests EXCEPT ![s] = AtBack(s, r)]
    /\ UNCHANGED <<waiting, cpc, toWorker, sent, answers>>

DispatchRequest(r) ==
    LET s == Target[r] IN
    /\ ClientEvent(r)
    /\ s \in known \ {HubControl}
    /\ waiting[s] # <<>>
    /\ waiting' = [waiting EXCEPT ![s] = Tail(@)]
    /\ Send(r, Head(waiting[s]))
    /\ UNCHANGED <<requests, cpc, answers>>

-----------------------------------------------------------------------------
(* heartbeatManager *)

\* A heartbeat interval passes.  The ticker drops a tick nobody has taken.
ClockTick ==
    /\ TimePasses
    /\ age' = [w \in Workers |->
                 IF w \in registered /\ age[w] <= ExpiryTicks THEN age[w] + 1 ELSE age[w]]
    /\ tick' = TRUE
    /\ UNCHANGED <<registry, queues, channels, heartbeatCh, hpc, wpc, cpc, output, received>>

Expired(w) == w \in registered /\ age[w] > ExpiryTicks

BeatUnchanged == UNCHANGED <<known, channels, wpc, cpc, output, received>>

TakeTick ==
    /\ hpc.step = "wait"
    /\ tick
    /\ tick' = FALSE
    /\ hpc' = [hpc EXCEPT !.step = "post"]
    /\ BeatUnchanged
    /\ UNCHANGED <<registered, svcWorkers, age, queues, heartbeatCh>>

AlwaysRoom == TRUE
HasRoom    == heartbeatCh < HeartbeatCap

\* A plain channel send: it blocks while heartbeatCh is full, and nothing in
\* the package receives from heartbeatCh.
PostHeartbeat ==
    /\ hpc.step = "post"
    /\ HasRoom
    /\ heartbeatCh' = heartbeatCh + 1
    /\ hpc' = [hpc EXCEPT !.step = "check"]
    /\ BeatUnchanged
    /\ UNCHANGED <<registered, svcWorkers, age, queues, tick>>

LateVictims == {w \in registered : age[w] > ExpiryTicks + 1}
Victims     == {w \in registered : Expired(w)}

\* checkWorkerLiveness: the expired workers are collected under the read lock,
CollectExpired ==
    /\ hpc.step = "check"
    /\ hpc' = [step |-> "remove", victims |-> Victims]
    /\ BeatUnchanged
    /\ UNCHANGED <<registered, svcWorkers, age, queues, heartbeatCh, tick>>

\* and removed one by one after it is released.
RemoveExpired(w) ==
    /\ hpc.step = "remove"
    /\ w \in hpc.victims
    /\ RemoveWorker(w)
    /\ hpc' = [hpc EXCEPT !.victims = @ \ {w}]
    /\ BeatUnchanged
    /\ UNCHANGED <<heartbeatCh, tick>>

CheckDone ==
    /\ hpc = [step |-> "remove", victims |-> {}]
    /\ hpc' = [hpc EXCEPT !.step = "wait"]
    /\ BeatUnchanged
    /\ UNCHANGED <<registered, svcWorkers, age, queues, heartbeatCh, tick>>

-----------------------------------------------------------------------------

HandleWorkerEvent ==
    \/ \E w \in Workers :
         \/ HandleWorkerReady(w)
         \/ HandleWorkerDisconnect(w)
         \/ \E b \in {"", DeviceList, ListFailed} \cup Requests :
              LookupWorker(w, b) \/ HandleUnknown(w, b)
    \/ ProcessPendingRequests
    \/ FinishWorkerEvent

HandleClientEvent ==
    \/ \E r \in Requests :
         RejectRequest(r) \/ PickHubWorker(r) \/ QueueRequest(r) \/ DispatchRequest(r)
    \/ SendToHubWorker

HeartbeatManager ==
    \/ TakeTick \/ PostHeartbeat \/ CollectExpired \/ CheckDone
    \/ \E w \in Workers : RemoveExpired(w)

Peers ==
    \/ \E w \in Workers :
         \/ RecvReady(w) \/ RecvControl(w)
         \/ \E b \in {DeviceList, ListFailed} \cup Requests : RecvReply(w, b)
    \/ \E r \in Requests : RecvRequest(r)

Next ==
    \/ Peers \/ ClockTick
    \/ MessageRouter \/ HandleWorkerEvent \/ HandleClientEvent \/ HeartbeatManager

Spec == Init /\ [][Next]_vars

\* Each goroutine runs whenever it is not blocked; the peers and the clock
\* are under no obligation.
FairSpec ==
    /\ Spec
    /\ WF_vars(MessageRouter)
    /\ WF_vars(HandleWorkerEvent)
    /\ WF_vars(HandleClientEvent)
    /\ WF_vars(HeartbeatManager)
-----------------------------------------------------------------------------
(* Properties *)

RegistryType ==
    /\ registered \subseteq Workers
    /\ age \in [Workers -> 0 .. ExpiryTicks + 1]
    /\ known \subseteq Services
    /\ svcWorkers \in [Services -> Seq(Workers)]
    /\ waiting \in [Services -> Seq(Workers)]
    /\ requests \in [Services -> Seq(Requests)]

ChannelType ==
    /\ messagesCh \in Seq(WorkerMsgs \cup ClientMsgs)
    /\ workerEventsCh \in Seq(WorkerMsgs)
    /\ clientEventsCh \in Seq(ClientMsgs)
    /\ heartbeatCh \in 0 .. HeartbeatCap
    /\ tick \in BOOLEAN

HandlerType ==
    /\ wpc \in {Idle} \cup [step : {"ready", "found"}, worker : Workers,
                            body : {"", DeviceList, ListFailed} \cup Requests]
    /\ cpc \in {Idle} \cup [step : {"send"}, request : Requests, worker : Workers]
    /\ hpc \in [step : {"wait", "post", "check", "remove"}, victims : SUBSET Workers]

OutputType ==
    /\ toWorker \in [Workers -> SUBSET ({"LIST"} \cup Requests)]
    /\ deviceLists \subseteq Workers
    /\ received \subseteq Requests
    /\ sent \in [Requests -> Seq(Workers)]
    /\ answers \in [Requests -> Seq({"error", "reply"})]

\* Each variable holds what the broker may put there; in particular heartbeatCh
\* never holds more than its capacity.
TypeOK == RegistryType /\ ChannelType /\ HandlerType /\ OutputType

\* Every worker in the registry can be found through its service, however
\* often it registered and was removed: a removal that takes the worker out of
\* the map takes one entry, never the last one of a worker that stays.
RegisteredIsListed ==
    \A w \in registered : w \in Range(svcWorkers[ServiceOf[w]])

\* A worker never waits more often than it is listed, so no worker is given
\* work its service does not list.
WaitingIsListed ==
    \A s \in Services, w \in Workers : Count(waiting[s], w) <= Count(svcWorkers[s], w)

\* Requests and idle workers of one service coexist only between the two
\* critical sections of a READY of that service.
NoIdleWorkerWhileQueued ==
    \A s \in Services :
        requests[s] # <<>> /\ waiting[s] # <<>> =>
            /\ wpc.step = "ready"
            /\ ServiceOf[wpc.worker] = s
            /\ Len(waiting[s]) = 1

\* A request for hub.control that has come through the channels is sent to a
\* hub or rejected: it never waits for a hub to register, nor behind another.
HubRequestSettles ==
    \A r \in Requests :
        Target[r] = HubControl /\ ClientMsg(r) \in Range(clientEventsCh)
            ~> sent[r] # <<>> \/ answers[r] # <<>>

\* A client gets at most one answer to a request, an error or a worker's reply.
AtMostOneAnswer == \A r \in Requests : Len(answers[r]) <= 1

\* The abstract state of a request, from where the broker has it.
InFlight(r) ==
    \/ ClientMsg(r) \in Range(messagesCh) \cup Range(clientEventsCh)
    \/ cpc # Idle /\ cpc.request = r

Phase(r) ==
    CASE r \notin received                      -> "new"
      [] InFlight(r)                            -> "pending"
      [] r \in Range(requests[Target[r]])       -> "held"
      [] sent[r] # <<>>                         -> "given"
      [] sent[r] = <<>> /\ answers[r] # <<>>    -> "rejected"
      [] OTHER                                  -> "lost"

Lifecycle == INSTANCE RequestLifecycle WITH
    phase <- [r \in Requests |-> Phase(r)], holder <- sent, backlog <- requests

\* The broker implements RequestLifecycle: whatever the interleaving of the
\* handlers, a request is given to at most one worker, one of its service.
ImplementsLifecycle == Lifecycle!Spec

\* What became of a request stays so: one that was given to a worker, rejected
\* or lost is not queued or given (again), and one that is held back is neither
\* rejected nor lost, only given.
OutcomeIsFinal ==
    [][\A r \in Requests :
         /\ Phase(r) \in {"given", "rejected", "lost"}
              => Phase(r)' = Phase(r) /\ sent'[r] = sent[r]
         /\ Phase(r) = "held" => Phase(r)' \in {"held", "given"}]_vars

\* A reply the broker has read reaches the client, also when its worker is
\* removed from the registry before or while the reply is handled.
ReplyReachesClient ==
    \A r \in Requests, w \in Workers :
        WorkerMsg("REPLY", w, r) \in Range(workerEventsCh) ~> answers[r] # <<>>

\* An expired worker leaves the registry or is heard from again, as long as
\* the heartbeat manager does not block on a full heartbeatCh.
Wedged == hpc.step = "post" /\ heartbeatCh = HeartbeatCap

ExpiredIsRemovedUnlessWedged ==
    \A w \in Workers : Expired(w) ~> (~Expired(w) \/ Wedged)

\* checkWorkerLiveness "checks and removes expired workers".
ExpiredIsRemoved == \A w \in Workers : Expired(w) ~> ~Expired(w)

\* A worker that has left the registry is not listed by its service.
RemovedIsUnlisted ==
    \A w \in Workers : w \in Range(svcWorkers[ServiceOf[w]]) => w \in registered
=============================================================================
