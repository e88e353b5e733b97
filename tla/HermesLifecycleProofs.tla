------------------------- MODULE HermesLifecycleProofs -------------------------
(***************************************************************************)
(* Theorems about the requests that pass through HermesBroker, for every   *)
(* set of workers, requests and services and every channel capacity: the   *)
(* broker implements RequestLifecycle, what became of a request stays so,  *)
(* and a client gets at most one answer.                                   *)
(*                                                                         *)
(* Both rest on where a request, and the reply to it, can be: in one place *)
(* at a time, and once there.                                              *)
(***************************************************************************)
EXTENDS HermesBrokerProofs

-----------------------------------------------------------------------------
(* The places of a request and of its reply *)

\* A sequence has an element of M, and has at most one.
Has(s, M) == \E i \in 1 .. Len(s) : s[i] \in M
One(s, M) == \A i, j \in 1 .. Len(s) : s[i] \in M /\ s[j] \in M => i = j

Asking(r)  == {ClientMsg(r)}
Replies(r) == {WorkerMsg("REPLY", w, r) : w \in Workers}

Handled(r)  == cpc # Idle /\ cpc.request = r
Queued(r)   == Has(requests[Target[r]], {r})
Underway(r) == Has(messagesCh, Asking(r)) \/ Has(clientEventsCh, Asking(r)) \/ Handled(r)

\* A request the broker still has is in one place, has not been sent to a
\* worker and has no answer.
Forward(r) ==
    /\ One(messagesCh, Asking(r)) /\ One(clientEventsCh, Asking(r))
    /\ One(requests[Target[r]], {r})
    /\ Has(messagesCh, Asking(r)) => ~Has(clientEventsCh, Asking(r)) /\ ~Handled(r)
    /\ Has(clientEventsCh, Asking(r)) => ~Handled(r)
    /\ Queued(r) => ~Underway(r)
    /\ Underway(r) \/ Queued(r) => sent[r] = <<>> /\ answers[r] = <<>>
    /\ Underway(r) \/ Queued(r) \/ sent[r] # <<>> \/ answers[r] # <<>> => r \in received

AtWorker(r) == \E w \in Workers : r \in toWorker[w]
Found(r)    == wpc # Idle /\ wpc.step = "found" /\ wpc.body = r
Replying(r) ==
    AtWorker(r) \/ Has(messagesCh, Replies(r)) \/ Has(workerEventsCh, Replies(r)) \/ Found(r)

\* A request that was sent to a worker and is not answered is with that worker, or
\* its reply is in one place on the way back.
Backward(r) ==
    /\ One(messagesCh, Replies(r)) /\ One(workerEventsCh, Replies(r))
    /\ \A v, w \in Workers : r \in toWorker[v] /\ r \in toWorker[w] => v = w
    /\ AtWorker(r) => /\ ~Has(messagesCh, Replies(r)) /\ ~Has(workerEventsCh, Replies(r))
                      /\ ~Found(r)
    /\ Has(messagesCh, Replies(r)) => ~Has(workerEventsCh, Replies(r)) /\ ~Found(r)
    /\ Has(workerEventsCh, Replies(r)) => ~Found(r)
    /\ Replying(r) => sent[r] # <<>> /\ answers[r] = <<>>
    /\ Len(answers[r]) <= 1

Asked(s)  == {r \in Requests : Target[r] = s}
Serving(s) == {w \in Workers : ServiceOf[w] = s}

\* A service queues requests that name it and lists workers that named it, and
\* the worker picked for a request is one of its service.
Matching ==
    /\ \A s \in Services : /\ requests[s] \in Seq(Asked(s))
                           /\ waiting[s] \in Seq(Serving(s))
                           /\ svcWorkers[s] \in Seq(Serving(s))
    /\ cpc # Idle => ServiceOf[cpc.worker] = Target[cpc.request]

PlaceInv == Matching /\ \A r \in Requests : Forward(r) /\ Backward(r)

-----------------------------------------------------------------------------
(* Lemmas about Has and One *)

LEMMA HasAppend ==
    ASSUME NEW S, NEW s \in Seq(S), NEW e \in S, NEW M
    PROVE  /\ Has(Append(s, e), M) <=> Has(s, M) \/ e \in M
           /\ One(s, M) /\ (e \notin M \/ ~Has(s, M)) => One(Append(s, e), M)
<1> DEFINE t == Append(s, e)
<1>1. /\ t \in Seq(S) /\ Len(t) = Len(s) + 1 /\ t[Len(s) + 1] = e
      /\ \A i \in 1 .. Len(s) : t[i] = s[i]
  BY AppendProperties
<1>2. Len(s) \in Nat BY LenProperties
<1> HIDE DEF t
<1>3. Has(t, M) <=> Has(s, M) \/ e \in M
  <2>1. ASSUME Has(t, M) PROVE Has(s, M) \/ e \in M
    <3>1. PICK i \in 1 .. Len(t) : t[i] \in M BY <2>1 DEF Has
    <3>2. i \in 1 .. Len(s) \/ i = Len(s) + 1 BY <1>1, <1>2
    <3> QED BY <1>1, <3>1, <3>2 DEF Has
  <2>2. ASSUME Has(s, M) PROVE Has(t, M)
    <3>1. PICK i \in 1 .. Len(s) : s[i] \in M BY <2>2 DEF Has
    <3> QED BY <1>1, <1>2, <3>1 DEF Has
  <2>3. ASSUME e \in M PROVE Has(t, M) 
    <3>1. Len(s) + 1 \in 1 .. Len(t) BY <1>1, <1>2
    <3> QED BY <1>1, <2>3, <3>1 DEF Has
  <2> QED BY <2>1, <2>2, <2>3
<1>4. ASSUME One(s, M), e \notin M \/ ~Has(s, M) PROVE One(t, M)
  <2> SUFFICES ASSUME NEW i \in 1 .. Len(t), NEW j \in 1 .. Len(t), t[i] \in M, t[j] \in M
               PROVE  i = j
    BY DEF One
  <2>1. \A k \in 1 .. Len(t) : k \in 1 .. Len(s) \/ k = Len(s) + 1 BY <1>1, <1>2
  <2>2. CASE i \in 1 .. Len(s) /\ j \in 1 .. Len(s)
    BY <1>1, <1>4, <2>2 DEF One
  <2>3. CASE i = Len(s) + 1 /\ j = Len(s) + 1 BY <2>3
  <2>4. CASE i \in 1 .. Len(s) /\ j = Len(s) + 1
    <3>1. Has(s, M) /\ e \in M BY <1>1, <2>4 DEF Has
    <3> QED BY <1>4, <3>1
  <2>5. CASE j \in 1 .. Len(s) /\ i = Len(s) + 1
    <3>1. Has(s, M) /\ e \in M BY <1>1, <2>5 DEF Has
    <3> QED BY <1>4, <3>1
  <2> QED BY <2>1, <2>2, <2>3, <2>4, <2>5
<1> QED BY <1>3, <1>4 DEF t

LEMMA HasTail ==
    ASSUME NEW S, NEW s \in Seq(S), s # <<>>, NEW M
    PROVE  /\ Has(s, M) <=> Has(Tail(s), M) \/ Head(s) \in M
           /\ One(s, M) => One(Tail(s), M) /\ (Head(s) \in M => ~Has(Tail(s), M))
<1> DEFINE t == Tail(s)
<1>1. /\ t \in Seq(S) /\ Len(t) = Len(s) - 1 /\ Head(s) = s[1]
      /\ \A i \in 1 .. Len(t) : t[i] = s[i + 1]
  BY HeadTailProperties
<1>2. Len(s) \in Nat \ {0} BY EmptySeq, LenProperties
<1> HIDE DEF t
<1>3. \A i \in 1 .. Len(t) : i + 1 \in 1 .. Len(s) /\ i + 1 # 1 BY <1>1, <1>2
<1>4. Has(s, M) <=> Has(t, M) \/ Head(s) \in M
  <2>1. ASSUME Has(s, M) PROVE Has(t, M) \/ s[1] \in M
    <3>1. PICK i \in 1 .. Len(s) : s[i] \in M BY <2>1 DEF Has
    <3>2. CASE i = 1 BY <3>1, <3>2
    <3>3. CASE i # 1
      <4>1. i - 1 \in 1 .. Len(t) /\ (i - 1) + 1 = i BY <1>1, <1>2, <3>3
      <4>2. t[i - 1] = s[i] BY <1>1, <4>1
      <4> QED BY <3>1, <4>1, <4>2 DEF Has
    <3> QED BY <3>2, <3>3
  <2>2. ASSUME Has(t, M) PROVE Has(s, M)
    <3>1. PICK i \in 1 .. Len(t) : t[i] \in M BY <2>2 DEF Has
    <3> QED BY <1>1, <1>3, <3>1 DEF Has
  <2>3. ASSUME s[1] \in M PROVE Has(s, M)
    <3>1. 1 \in 1 .. Len(s) BY <1>2
    <3> QED BY <2>3, <3>1 DEF Has
  <2> QED BY <1>1, <2>1, <2>2, <2>3
<1>5. ASSUME One(s, M) PROVE One(t, M) /\ (Head(s) \in M => ~Has(t, M))
  <2>1. ASSUME NEW i \in 1 .. Len(t), NEW j \in 1 .. Len(t), t[i] \in M, t[j] \in M PROVE i = j
    <3>1. i + 1 \in 1 .. Len(s) /\ j + 1 \in 1 .. Len(s) /\ s[i + 1] \in M /\ s[j + 1] \in M
      BY <1>1, <1>3, <2>1
    <3>2. i + 1 = j + 1 BY <1>5, <3>1 DEF One
    <3> QED BY <3>2
  <2>2. ASSUME s[1] \in M, Has(t, M) PROVE FALSE
    <3>1. PICK i \in 1 .. Len(t) : t[i] \in M BY <2>2 DEF Has
    <3>2. i + 1 \in 1 .. Len(s) /\ s[i + 1] \in M /\ i + 1 # 1 /\ 1 \in 1 .. Len(s)
      BY <1>1, <1>2, <1>3, <3>1
    <3> QED BY <1>5, <2>2, <3>2 DEF One
  <2> QED BY <1>1, <2>1, <2>2 DEF One
<1> QED BY <1>4, <1>5 DEF t

\* A message offered to a channel arrives there, or the channel stays as it is.
LEMMA HasOffer ==
    ASSUME NEW S, NEW s \in Seq(S), NEW e \in S, NEW cap, NEW M
    PROVE  /\ Has(Offer(s, cap, e), M) => Has(s, M) \/ e \in M
           /\ Has(s, M) => Has(Offer(s, cap, e), M)
           /\ One(s, M) /\ (e \notin M \/ ~Has(s, M)) => One(Offer(s, cap, e), M)
BY HasAppend DEF Offer

LEMMA HasRange ==
    ASSUME NEW S, NEW s \in Seq(S), NEW e PROVE e \in Range(s) <=> Has(s, {e})
BY RangeEquality DEF Has

LEMMA HasEmpty == ASSUME NEW M PROVE ~Has(<<>>, M) /\ One(<<>>, M)
BY EmptySeq DEF Has, One

-----------------------------------------------------------------------------
(* Messages, and the channels they go through *)

\* Which messages ask for a request or reply to it.
LEMMA Kinds ==
    ASSUME NEW r
    PROVE  /\ \A k, w, b : WorkerMsg(k, w, b) # ClientMsg(r)
           /\ \A q : ClientMsg(q) \in Asking(r) <=> q = r
           /\ \A q : ClientMsg(q) \notin Replies(r)
           /\ \A k, w, b : WorkerMsg(k, w, b) \notin Asking(r)
           /\ \A k, w, b : WorkerMsg(k, w, b) \in Replies(r) => k = "REPLY" /\ b = r
           /\ \A w \in Workers : WorkerMsg("REPLY", w, r) \in Replies(r)
<1>1. \A q : ClientMsg(q).request = q /\ DOMAIN ClientMsg(q) = {"kind", "request"}
  BY DEF ClientMsg
<1>2. \A k, w, b : /\ WorkerMsg(k, w, b).kind = k /\ WorkerMsg(k, w, b).body = b
                   /\ DOMAIN WorkerMsg(k, w, b) = {"kind", "worker", "body"}
  BY DEF WorkerMsg
<1>3. \A q, k, w, b : WorkerMsg(k, w, b) # ClientMsg(q) BY <1>1, <1>2
<1> QED BY <1>1, <1>2, <1>3 DEF Asking, Replies

LEMMA PutMessage ==
    ASSUME TypeOK, NEW m \in WorkerMsgs \cup ClientMsgs, SocketReader(m), NEW M
    PROVE  /\ Has(messagesCh', M) => Has(messagesCh, M) \/ m \in M
           /\ One(messagesCh, M) /\ (m \notin M \/ ~Has(messagesCh, M)) => One(messagesCh', M)
<1>1. messagesCh \in Seq(WorkerMsgs \cup ClientMsgs) /\ messagesCh' = Offer(messagesCh, MessagesCap, m)
  BY DEF TypeOK, ChannelType, SocketReader
<1> QED BY <1>1, HasOffer

LEMMA TakeWorkerEvent ==
    ASSUME TypeOK, NEW k, NEW w, NEW b, WorkerEvent(k, w, b), NEW M
    PROVE  /\ Has(workerEventsCh', M) => Has(workerEventsCh, M)
           /\ WorkerMsg(k, w, b) \in M => Has(workerEventsCh, M)
           /\ One(workerEventsCh, M) => /\ One(workerEventsCh', M)
                                        /\ WorkerMsg(k, w, b) \in M => ~Has(workerEventsCh', M)
<1>1. /\ workerEventsCh \in Seq(WorkerMsgs) /\ workerEventsCh # <<>>
      /\ Head(workerEventsCh) = WorkerMsg(k, w, b) /\ workerEventsCh' = Tail(workerEventsCh)
  BY DEF TypeOK, ChannelType, WorkerEvent
<1> QED BY <1>1, HasTail

LEMMA TakeClientEvent ==
    ASSUME TypeOK, NEW r, ClientEvent(r), NEW M
    PROVE  /\ Has(clientEventsCh', M) => Has(clientEventsCh, M)
           /\ ClientMsg(r) \in M => Has(clientEventsCh, M)
           /\ One(clientEventsCh, M) => /\ One(clientEventsCh', M)
                                        /\ ClientMsg(r) \in M => ~Has(clientEventsCh', M)
<1>1. /\ clientEventsCh \in Seq(ClientMsgs) /\ clientEventsCh # <<>>
      /\ Head(clientEventsCh) = ClientMsg(r) /\ clientEventsCh' = Tail(clientEventsCh)
  BY DEF TypeOK, ChannelType, ClientEvent
<1> QED BY <1>1, HasTail

-----------------------------------------------------------------------------
(* A request stays in one place *)

\* A step that takes a request out of places and puts it nowhere new.
LEMMA ForwardShrinks ==
    ASSUME NEW r \in Requests, Forward(r),
           One(messagesCh', Asking(r)), One(clientEventsCh', Asking(r)),
           One(requests'[Target[r]], {r}),
           Has(messagesCh', Asking(r)) => Has(messagesCh, Asking(r)),
           Has(clientEventsCh', Asking(r)) => Has(clientEventsCh, Asking(r)),
           Handled(r)' => Handled(r), Queued(r)' => Queued(r),
           received \subseteq received',
           \/ sent'[r] = sent[r] /\ answers'[r] = answers[r]
           \/ r \in received /\ ~Underway(r)' /\ ~Queued(r)'
    PROVE  Forward(r)'
BY DEF Forward, Underway

LEMMA BackwardShrinks ==
    ASSUME NEW r \in Requests, Backward(r),
           One(messagesCh', Replies(r)), One(workerEventsCh', Replies(r)),
           Has(messagesCh', Replies(r)) => Has(messagesCh, Replies(r)),
           Has(workerEventsCh', Replies(r)) => Has(workerEventsCh, Replies(r)),
           \A w \in Workers : r \in toWorker'[w] => r \in toWorker[w],
           Found(r)' => Found(r),
           sent[r] # <<>> => sent'[r] # <<>>,
           \/ answers'[r] = answers[r]
           \/ ~Replying(r)' /\ Len(answers'[r]) <= 1
    PROVE  Backward(r)'
<1>1. AtWorker(r)' => AtWorker(r) BY DEF AtWorker
<1> QED BY <1>1 DEF Backward, Replying

\* A message that neither asks for the request nor replies to it arrives.
LEMMA PutOther ==
    ASSUME TypeOK, NEW r \in Requests, Forward(r), Backward(r),
           NEW m \in WorkerMsgs \cup ClientMsgs, SocketReader(m),
           UNCHANGED <<sent, answers>>, received \subseteq received',
           \A w \in Workers : r \in toWorker'[w] => r \in toWorker[w]
    PROVE  /\ m \notin Asking(r) => Forward(r)'
           /\ m \notin Replies(r) => Backward(r)'
<1>1. UNCHANGED <<requests, workerEventsCh, clientEventsCh, wpc, cpc>>
  BY DEF SocketReader, queues
<1>2. ASSUME m \notin Asking(r) PROVE Forward(r)'
  <2>1. /\ One(messagesCh', Asking(r))
        /\ Has(messagesCh', Asking(r)) => Has(messagesCh, Asking(r))
    BY <1>2, PutMessage DEF Forward
  <2>2. /\ One(clientEventsCh', Asking(r)) /\ One(requests'[Target[r]], {r})
        /\ Has(clientEventsCh', Asking(r)) => Has(clientEventsCh, Asking(r))
        /\ Handled(r)' => Handled(r)
        /\ Queued(r)' => Queued(r)
    BY <1>1 DEF Forward, Handled, Queued
  <2> QED BY <2>1, <2>2, ForwardShrinks
<1>3. ASSUME m \notin Replies(r) PROVE Backward(r)'
  <2>1. /\ One(messagesCh', Replies(r))
        /\ Has(messagesCh', Replies(r)) => Has(messagesCh, Replies(r))
    BY <1>3, PutMessage DEF Backward
  <2>2. /\ One(workerEventsCh', Replies(r))
        /\ Has(workerEventsCh', Replies(r)) => Has(workerEventsCh, Replies(r))
        /\ Found(r)' => Found(r)
    BY <1>1 DEF Backward, Found
  <2> QED BY <2>1, <2>2, BackwardShrinks
<1> QED BY <1>2, <1>3

LEMMA PeersPlaces ==
    ASSUME TypeOK, Peers, NEW r \in Requests, Forward(r), Backward(r)
    PROVE  Forward(r)' /\ Backward(r)'
<1>1. ASSUME NEW w \in Workers, RecvReady(w) \/ RecvControl(w) PROVE Forward(r)' /\ Backward(r)'
  <2>1. PICK k \in {"READY", "HEARTBEAT", "DISCONNECT"} : SocketReader(WorkerMsg(k, w, ""))
    BY <1>1 DEF RecvReady, RecvControl
  <2>2. WorkerMsg(k, w, "") \in WorkerMsgs BY DEF WorkerMsg, WorkerMsgs
  <2>3. UNCHANGED <<toWorker, sent, answers, received>> BY <1>1 DEF RecvReady, RecvControl, output
  <2>4. k # "REPLY" BY <2>1
  <2>5. WorkerMsg(k, w, "") \notin Asking(r) /\ WorkerMsg(k, w, "") \notin Replies(r)
    BY <2>4, Kinds
  <2> QED BY <2>1, <2>2, <2>3, <2>5, PutOther
<1>2. ASSUME NEW w \in Workers, NEW b \in {DeviceList, ListFailed} \cup Requests, RecvReply(w, b)
      PROVE  Forward(r)' /\ Backward(r)'
  <2> DEFINE m == WorkerMsg("REPLY", w, b)
  <2>1. SocketReader(m) /\ UNCHANGED <<sent, answers, received>> BY <1>2 DEF RecvReply
  <2>2. m \in WorkerMsgs BY DEF WorkerMsg, WorkerMsgs
  <2>3. \A v \in Workers : r \in toWorker'[v] => r \in toWorker[v]
    BY <1>2 DEF RecvReply, TypeOK, OutputType
  <2>4. m \notin Asking(r) BY Kinds
  <2>5. Forward(r)' BY <2>1, <2>2, <2>3, <2>4, PutOther
  <2>6. CASE b # r
    <3>1. m \notin Replies(r) BY <2>6, Kinds
    <3> QED BY <2>1, <2>2, <2>3, <2>5, <3>1, PutOther
  <2>7. CASE b = r
    <3>1. r \in toWorker[w] /\ r \notin toWorker'[w]
      BY <1>2, <2>7 DEF RecvReply, TypeOK, OutputType
    <3>2. AtWorker(r) /\ ~AtWorker(r)' BY <2>3, <3>1 DEF AtWorker, Backward
    <3>3. One(messagesCh', Replies(r))
      BY <2>1, <2>2, <3>2, PutMessage DEF Backward
    <3>4. UNCHANGED <<workerEventsCh, wpc>> BY <2>1 DEF SocketReader
    <3>5. ~Has(workerEventsCh', Replies(r)) /\ ~Found(r)' /\ One(workerEventsCh', Replies(r))
      BY <3>2, <3>4 DEF Backward, Found
    <3>6. sent'[r] # <<>> /\ answers'[r] = <<>> BY <2>1, <3>2 DEF Backward, Replying
    <3>7. \A u, v \in Workers : r \in toWorker'[u] /\ r \in toWorker'[v] => u = v
      BY <2>3 DEF Backward
    <3>8. Len(answers'[r]) <= 1 BY <2>1 DEF Backward
    <3>9. Backward(r)'
      BY <3>2, <3>3, <3>5, <3>6, <3>7, <3>8 DEF Backward, Replying
    <3> QED BY <2>5, <3>9
  <2> QED BY <2>6, <2>7
<1>3. ASSUME NEW q \in Requests, RecvRequest(q) PROVE Forward(r)' /\ Backward(r)'
  <2> DEFINE m == ClientMsg(q)
  <2>1. /\ q \notin received /\ received' = received \cup {q}
        /\ SocketReader(m) /\ UNCHANGED <<toWorker, sent, answers>>
    BY <1>3 DEF RecvRequest, output
  <2>2. m \in ClientMsgs BY DEF ClientMsg, ClientMsgs
  <2>3. m \notin Replies(r) BY Kinds
  <2>4. Backward(r)' BY <2>1, <2>2, <2>3, PutOther
  <2>5. CASE q # r
    <3>1. m \notin Asking(r) BY <2>5, Kinds
    <3> QED BY <2>1, <2>2, <2>4, <3>1, PutOther
  <2>6. CASE q = r
    <3>1. ~Underway(r) /\ ~Queued(r) /\ sent[r] = <<>> /\ answers[r] = <<>>
      BY <2>1, <2>6 DEF Forward
    <3>2. One(messagesCh', Asking(r))
      BY <2>1, <2>2, <3>1, PutMessage DEF Forward, Underway
    <3>3. UNCHANGED <<clientEventsCh, requests, cpc>> BY <2>1 DEF SocketReader, queues
    <3>4. /\ One(clientEventsCh', Asking(r)) /\ One(requests'[Target[r]], {r})
          /\ ~Has(clientEventsCh', Asking(r)) /\ ~Handled(r)' /\ ~Queued(r)'
      BY <3>1, <3>3 DEF Forward, Underway, Handled, Queued
    <3>5. sent'[r] = <<>> /\ answers'[r] = <<>> /\ r \in received' BY <2>1, <2>6, <3>1
    <3>6. Forward(r)' BY <3>2, <3>4, <3>5 DEF Forward
    <3> QED BY <2>4, <3>6
  <2> QED BY <2>5, <2>6
<1> QED BY <1>1, <1>2, <1>3 DEF Peers

\* The router moves a message from one channel to another, or drops it.
LEMMA RouterPlaces ==
    ASSUME TypeOK, MessageRouter, NEW r \in Requests, Forward(r), Backward(r)
    PROVE  Forward(r)' /\ Backward(r)'
<1> DEFINE m == Head(messagesCh)
<1>1. /\ messagesCh \in Seq(WorkerMsgs \cup ClientMsgs) /\ messagesCh # <<>>
      /\ messagesCh' = Tail(messagesCh)
      /\ workerEventsCh \in Seq(WorkerMsgs) /\ clientEventsCh \in Seq(ClientMsgs)
  BY DEF TypeOK, ChannelType, MessageRouter
<1>2. m \in WorkerMsgs \cup ClientMsgs BY <1>1, HeadTailProperties
<1>3. UNCHANGED <<requests, wpc, cpc, toWorker, sent, answers, received>>
  BY DEF MessageRouter, queues, output
<1>4. \A M : /\ Has(messagesCh, M) <=> Has(messagesCh', M) \/ m \in M
             /\ One(messagesCh, M) => One(messagesCh', M) /\ (m \in M => ~Has(messagesCh', M))
  BY <1>1, HasTail
<1>5. CASE m.kind = "REQ"
  <2>1. m \in ClientMsgs /\ m \notin Replies(r)
    <3>1. m \in ClientMsgs BY <1>2, <1>5 DEF WorkerMsgs, ClientMsgs
    <3>2. \A e \in Replies(r) : e.kind = "REPLY" BY DEF Replies, WorkerMsg
    <3> QED BY <1>5, <3>1, <3>2
  <2>2. clientEventsCh' = Offer(clientEventsCh, EventsCap, m) /\ UNCHANGED workerEventsCh
    BY <1>5 DEF MessageRouter
  <2>3. /\ One(messagesCh', Replies(r)) /\ One(workerEventsCh', Replies(r))
        /\ Has(messagesCh', Replies(r)) => Has(messagesCh, Replies(r))
        /\ Found(r)' => Found(r)
    BY <1>3, <1>4, <2>2 DEF Backward, Found
  <2>4. Backward(r)' BY <1>3, <2>2, <2>3, BackwardShrinks
  <2>5. /\ Has(clientEventsCh', Asking(r)) => Has(clientEventsCh, Asking(r)) \/ m \in Asking(r)
        /\ One(clientEventsCh, Asking(r)) /\ (m \notin Asking(r) \/ ~Has(clientEventsCh, Asking(r)))
             => One(clientEventsCh', Asking(r))
    BY <1>1, <2>1, <2>2, HasOffer
  <2>6. /\ One(messagesCh', Asking(r)) /\ One(requests'[Target[r]], {r})
        /\ Has(messagesCh', Asking(r)) => Has(messagesCh, Asking(r))
        /\ Handled(r)' <=> Handled(r)
        /\ Queued(r)' <=> Queued(r)
    BY <1>3, <1>4 DEF Forward, Handled, Queued
  <2>7. CASE m \notin Asking(r)
    <3>1. Forward(r)' BY <1>3, <2>5, <2>6, <2>7, ForwardShrinks DEF Forward
    <3> QED BY <2>4, <3>1
  <2>8. CASE m \in Asking(r)
    <3>1. /\ Has(messagesCh, Asking(r)) /\ ~Has(messagesCh', Asking(r))
          /\ ~Has(clientEventsCh, Asking(r)) /\ ~Handled(r) /\ ~Queued(r)
          /\ sent[r] = <<>> /\ answers[r] = <<>> /\ r \in received
      BY <1>4, <2>8 DEF Forward, Underway
    <3>2. One(clientEventsCh', Asking(r)) BY <2>5, <3>1 DEF Forward
    <3>3. Forward(r)' BY <1>3, <2>6, <3>1, <3>2 DEF Forward, Underway
    <3> QED BY <2>4, <3>3
  <2> QED BY <2>7, <2>8
<1>6. CASE m.kind # "REQ"
  <2>1. m \in WorkerMsgs /\ m \notin Asking(r)
    <3>1. m \in WorkerMsgs BY <1>2, <1>6 DEF WorkerMsgs, ClientMsgs
    <3>2. \A e \in Asking(r) : e.kind = "REQ" BY DEF Asking, ClientMsg
    <3> QED BY <1>6, <3>1, <3>2
  <2>2. workerEventsCh' = Offer(workerEventsCh, EventsCap, m) /\ UNCHANGED clientEventsCh
    BY <1>6 DEF MessageRouter
  <2>3. /\ One(messagesCh', Asking(r)) /\ One(clientEventsCh', Asking(r))
        /\ One(requests'[Target[r]], {r})
        /\ Has(messagesCh', Asking(r)) => Has(messagesCh, Asking(r))
        /\ Handled(r)' => Handled(r)
        /\ Queued(r)' => Queued(r)
    BY <1>3, <1>4, <2>2 DEF Forward, Handled, Queued
  <2>4. Forward(r)' BY <1>3, <2>2, <2>3, ForwardShrinks
  <2>5. /\ Has(workerEventsCh', Replies(r)) => Has(workerEventsCh, Replies(r)) \/ m \in Replies(r)
        /\ One(workerEventsCh, Replies(r)) /\ (m \notin Replies(r) \/ ~Has(workerEventsCh, Replies(r)))
             => One(workerEventsCh', Replies(r))
    BY <1>1, <2>1, <2>2, HasOffer
  <2>6. /\ One(messagesCh', Replies(r))
        /\ Has(messagesCh', Replies(r)) => Has(messagesCh, Replies(r))
        /\ Found(r)' <=> Found(r)
        /\ AtWorker(r)' <=> AtWorker(r)
    BY <1>3, <1>4 DEF Backward, Found, AtWorker
  <2>7. CASE m \notin Replies(r)
    <3>1. Backward(r)' BY <1>3, <2>5, <2>6, <2>7, BackwardShrinks DEF Backward
    <3> QED BY <2>4, <3>1
  <2>8. CASE m \in Replies(r)
    <3>1. /\ Has(messagesCh, Replies(r)) /\ ~Has(messagesCh', Replies(r))
          /\ ~Has(workerEventsCh, Replies(r)) /\ ~Found(r) /\ ~AtWorker(r)
          /\ sent[r] # <<>> /\ answers[r] = <<>>
      BY <1>4, <2>8 DEF Backward, Replying
    <3>2. One(workerEventsCh', Replies(r)) BY <2>5, <3>1 DEF Backward
    <3>3. Backward(r)' BY <1>3, <2>6, <3>1, <3>2 DEF Backward, Replying
    <3> QED BY <2>4, <3>3
  <2> QED BY <2>7, <2>8
<1> QED BY <1>5, <1>6

\* processPendingRequests hands out one request at most: the oldest, to the only
\* worker that waits.
GivesNone ==
    /\ UNCHANGED <<requests, waiting, sent>>
    /\ \A r \in Requests, v \in Workers : r \in toWorker'[v] <=> r \in toWorker[v]

GivesOldest(s) ==
    /\ requests[s] # <<>> /\ waiting[s] # <<>>
    /\ requests' = [requests EXCEPT ![s] = Tail(requests[s])]
    /\ waiting' = [waiting EXCEPT ![s] = Tail(waiting[s])]
    /\ sent' = [sent EXCEPT ![Head(requests[s])] = Append(@, Head(waiting[s]))]
    /\ \A r \in Requests, v \in Workers :
          r \in toWorker'[v] <=> r \in toWorker[v] \/ (r = Head(requests[s]) /\ v = Head(waiting[s]))

LEMMA PendingGiven ==
    ASSUME TypeOK, NoIdleWorkerWhileQueued, ProcessPendingRequests
    PROVE  /\ wpc.step = "ready" /\ wpc.worker \in Workers /\ wpc' = Idle
           /\ UNCHANGED <<svcWorkers, messagesCh, workerEventsCh, clientEventsCh, cpc, answers, received>>
           /\ GivesNone \/ GivesOldest(ServiceOf[wpc.worker])
<1> DEFINE w == wpc.worker
           s == ServiceOf[w]
           n == IF Len(requests[s]) < Len(waiting[s]) THEN Len(requests[s]) ELSE Len(waiting[s])
           Given(v) == {requests[s][i] : i \in {j \in 1 .. n : waiting[s][j] = v}}
           Takes(r) == {i \in 1 .. n : requests[s][i] = r}
<1>1. /\ wpc.step = "ready"
      /\ requests' = [requests EXCEPT ![s] = SubSeq(requests[s], n + 1, Len(requests[s]))]
      /\ waiting' = [waiting EXCEPT ![s] = SubSeq(waiting[s], n + 1, Len(waiting[s]))]
      /\ sent' = [r \in Requests |->
                    IF Takes(r) = {} THEN sent[r]
                    ELSE Append(sent[r], waiting[s][CHOOSE i \in Takes(r) : TRUE])]
      /\ toWorker' = [v \in Workers |->
                        toWorker[v] \cup Given(v) \cup (IF v = w THEN Handshake(s) ELSE {})]
      /\ wpc' = Idle
      /\ UNCHANGED <<svcWorkers, messagesCh, workerEventsCh, clientEventsCh, cpc, answers, received>>
  BY DEF ProcessPendingRequests, QueueBeyond, registry, channels
<1>2. w \in Workers /\ s \in Services
  BY <1>1, BusyHandlers, Capacities
<1>3. /\ requests[s] \in Seq(Requests) /\ waiting[s] \in Seq(Workers)
      /\ requests \in [Services -> Seq(Requests)] /\ waiting \in [Services -> Seq(Workers)]
      /\ sent \in [Requests -> Seq(Workers)] /\ toWorker \in [Workers -> SUBSET ({"LIST"} \cup Requests)]
  BY <1>2 DEF TypeOK, RegistryType, OutputType
<1>4. Len(requests[s]) \in Nat /\ Len(waiting[s]) \in Nat BY <1>3, LenProperties
<1>5. \A r \in Requests : r \notin Handshake(s) BY BrokerAssumption DEF Handshake
<1>6. CASE requests[s] = <<>> \/ waiting[s] = <<>>
  <2>1. n = 0 BY <1>3, <1>4, <1>6, EmptySeq
  <2>2. requests' = requests /\ waiting' = waiting
    <3>1. SubSeq(requests[s], 1, Len(requests[s])) = requests[s]
          /\ SubSeq(waiting[s], 1, Len(waiting[s])) = waiting[s]
      BY <1>3, SubSeqFull
    <3> HIDE DEF n
    <3>2. n + 1 = 1 BY <2>1
    <3> QED BY <1>1, <1>3, <3>1, <3>2
  <2> HIDE DEF n
  <2>3. \A r : Takes(r) = {} BY <2>1
  <2>4. \A v : Given(v) = {} BY <2>1
  <2> HIDE DEF Takes, Given
  <2>5. sent' = sent BY <1>1, <1>3, <2>3
  <2>6. \A r \in Requests, v \in Workers : r \in toWorker'[v] <=> r \in toWorker[v]
    BY <1>1, <1>5, <2>4
  <2> QED BY <1>1, <1>2, <2>2, <2>5, <2>6 DEF GivesNone
<1>7. CASE requests[s] # <<>> /\ waiting[s] # <<>>
  <2>1. Len(waiting[s]) = 1 /\ Len(requests[s]) # 0
    BY <1>2, <1>3, <1>7, EmptySeq DEF NoIdleWorkerWhileQueued
  <2>2. n = 1 BY <1>4, <2>1
  <2>3. requests' = [requests EXCEPT ![s] = Tail(requests[s])]
        /\ waiting' = [waiting EXCEPT ![s] = Tail(waiting[s])]
    <3>1. SubSeq(requests[s], 2, Len(requests[s])) = Tail(requests[s])
          /\ SubSeq(waiting[s], 2, Len(waiting[s])) = Tail(waiting[s])
      BY <1>3, <1>7, TailIsSubSeq
    <3> HIDE DEF n
    <3>2. n + 1 = 2 BY <2>2
    <3> QED BY <1>1, <3>1, <3>2
  <2> HIDE DEF n
  <2> DEFINE q == Head(requests[s])
             u == Head(waiting[s])
  <2>4. q = requests[s][1] /\ u = waiting[s][1] /\ q \in Requests /\ u \in Workers
    BY <1>3, <1>7, HeadTailProperties
  <2>5. \A r : Takes(r) = IF r = q THEN {1} ELSE {} BY <2>2, <2>4
  <2>6. \A v : Given(v) = IF v = u THEN {q} ELSE {} BY <2>2, <2>4
  <2> HIDE DEF Takes, Given, q, u
  <2>7. sent' = [sent EXCEPT ![q] = Append(sent[q], u)]
    <3>1. \A r \in Requests : sent'[r] = IF r = q THEN Append(sent[q], u) ELSE sent[r]
      <4>1. ASSUME NEW r \in Requests, r = q PROVE sent'[r] = Append(sent[q], u)
        <5>1. Takes(r) = {1} BY <2>5, <4>1
        <5>2. (CHOOSE i \in Takes(r) : TRUE) = 1 BY <5>1
        <5> QED BY <1>1, <2>4, <4>1, <5>1, <5>2
      <4>2. ASSUME NEW r \in Requests, r # q PROVE sent'[r] = sent[r]
        BY <1>1, <2>5, <4>2
      <4> QED BY <4>1, <4>2
    <3>2. sent' = [r \in Requests |-> sent'[r]] BY <1>1
    <3> QED BY <1>3, <2>4, <3>1, <3>2
  <2>8. \A r \in Requests, v \in Workers : r \in toWorker'[v] <=> r \in toWorker[v] \/ (r = q /\ v = u)
    BY <1>1, <1>5, <2>6
  <2> QED BY <1>1, <1>2, <1>7, <2>3, <2>7, <2>8 DEF GivesOldest, q, u
<1> QED BY <1>6, <1>7

\* A worker event about something else is taken.
LEMMA EventOther ==
    ASSUME TypeOK, NEW r \in Requests, Forward(r), Backward(r),
           NEW k, NEW w, NEW b, WorkerEvent(k, w, b),
           UNCHANGED <<requests, toWorker, sent>>, answers'[r] = answers[r],
           Found(r)' => Found(r)
    PROVE  Forward(r)' /\ Backward(r)'
<1>1. UNCHANGED <<messagesCh, clientEventsCh, cpc, received>> BY DEF WorkerEvent, beats
<1>2. /\ Has(workerEventsCh', Replies(r)) => Has(workerEventsCh, Replies(r))
      /\ One(workerEventsCh', Replies(r))
  BY TakeWorkerEvent DEF Backward
<1>3. /\ One(messagesCh', Asking(r)) /\ One(clientEventsCh', Asking(r))
      /\ One(requests'[Target[r]], {r}) /\ One(messagesCh', Replies(r))
      /\ Has(messagesCh', Asking(r)) => Has(messagesCh, Asking(r))
      /\ Has(messagesCh', Replies(r)) => Has(messagesCh, Replies(r))
      /\ Has(clientEventsCh', Asking(r)) => Has(clientEventsCh, Asking(r))
      /\ Handled(r)' => Handled(r)
      /\ Queued(r)' => Queued(r)
  BY <1>1 DEF Forward, Backward, Handled, Queued
<1>4. Forward(r)' BY <1>1, <1>3, ForwardShrinks
<1>5. Backward(r)' BY <1>2, <1>3, BackwardShrinks
<1> QED BY <1>4, <1>5

\* The reply to a request reaches its client.
LEMMA AnsweredPlaces ==
    ASSUME NEW r \in Requests, Forward(r), Backward(r), Replying(r),
           UNCHANGED <<messagesCh, clientEventsCh, cpc, requests, toWorker, sent, received>>,
           answers' = ReplyForwarded(r),
           Has(workerEventsCh', Replies(r)) => Has(workerEventsCh, Replies(r)),
           One(workerEventsCh', Replies(r)), ~Replying(r)'
    PROVE  Forward(r)' /\ Backward(r)'
<1>1. sent[r] # <<>> /\ answers[r] = <<>> BY DEF Backward
<1>2. answers'[r] = Append(<<>>, "reply") BY <1>1 DEF ReplyForwarded
<1>3. Len(answers'[r]) = 1
  <2>1. <<>> \in Seq({"reply"}) /\ Len(<<>>) = 0 BY EmptySeq
  <2> QED BY <1>2, <2>1, AppendProperties
<1>4. r \in received /\ ~Underway(r) /\ ~Queued(r) BY <1>1 DEF Forward
<1>5. /\ One(messagesCh', Asking(r)) /\ One(clientEventsCh', Asking(r))
      /\ One(requests'[Target[r]], {r}) /\ One(messagesCh', Replies(r))
      /\ Has(messagesCh', Asking(r)) => Has(messagesCh, Asking(r))
      /\ Has(messagesCh', Replies(r)) => Has(messagesCh, Replies(r))
      /\ Has(clientEventsCh', Asking(r)) => Has(clientEventsCh, Asking(r))
      /\ Handled(r)' => Handled(r)
      /\ Queued(r)' => Queued(r)
  BY DEF Forward, Backward, Handled, Queued
<1>6. ~Underway(r)' /\ ~Queued(r)' BY <1>4, <1>5 DEF Underway
<1>7. Forward(r)' BY <1>4, <1>5, <1>6, ForwardShrinks
<1>8. /\ Found(r)' => Found(r)
      /\ sent[r] # <<>> => sent'[r] # <<>>
      /\ \A w \in Workers : r \in toWorker'[w] => r \in toWorker[w]
  BY DEF Replying
<1>9. Len(answers'[r]) <= 1 BY <1>3
<1>10. Backward(r)' BY <1>5, <1>8, <1>9, BackwardShrinks
<1> QED BY <1>7, <1>10

\* What the queue of a service loses with its oldest request.
LEMMA QueueTail ==
    ASSUME TypeOK, NEW s \in Services, requests[s] # <<>>,
           requests' = [requests EXCEPT ![s] = Tail(requests[s])],
           NEW r \in Requests, One(requests[Target[r]], {r})
    PROVE  /\ One(requests'[Target[r]], {r})
           /\ Queued(r)' => Queued(r)
           /\ r = Head(requests[s]) /\ Target[r] = s => Queued(r) /\ ~Queued(r)'
<1>1. /\ requests \in [Services -> Seq(Requests)] /\ requests[s] \in Seq(Requests)
      /\ Target[r] \in Services
  BY Capacities DEF TypeOK, RegistryType
<1>2. CASE Target[r] = s
  <2>1. requests'[Target[r]] = Tail(requests[s]) BY <1>1, <1>2
  <2>2. /\ Has(requests[s], {r}) <=> Has(Tail(requests[s]), {r}) \/ Head(requests[s]) \in {r}
        /\ One(requests[s], {r}) => /\ One(Tail(requests[s]), {r})
                                    /\ Head(requests[s]) \in {r} => ~Has(Tail(requests[s]), {r})
    BY <1>1, HasTail
  <2> QED BY <1>2, <2>1, <2>2 DEF Queued
<1>3. CASE Target[r] # s
  <2>1. requests'[Target[r]] = requests[Target[r]] BY <1>1, <1>3
  <2> QED BY <1>3, <2>1 DEF Queued
<1> QED BY <1>2, <1>3

GivenTo(q, u) ==
    /\ sent' = [sent EXCEPT ![q] = Append(@, u)]
    /\ \A r \in Requests, v \in Workers :
          r \in toWorker'[v] <=> r \in toWorker[v] \/ (r = q /\ v = u)

\* A request the broker has is sent to a worker.
LEMMA GivenPlaces ==
    ASSUME TypeOK, NEW q \in Requests, NEW u \in Workers, GivenTo(q, u),
           NEW r \in Requests, Forward(r), Backward(r),
           UNCHANGED <<messagesCh, workerEventsCh, answers, received>>,
           One(clientEventsCh', Asking(r)), One(requests'[Target[r]], {r}),
           Has(clientEventsCh', Asking(r)) => Has(clientEventsCh, Asking(r)),
           Handled(r)' => Handled(r), Queued(r)' => Queued(r), Found(r)' => Found(r),
           r = q => (Underway(r) \/ Queued(r)) /\ ~Underway(r)' /\ ~Queued(r)'
    PROVE  Forward(r)' /\ Backward(r)'
<1>1. sent \in [Requests -> Seq(Workers)] BY DEF TypeOK, OutputType
<1>2. /\ One(messagesCh', Asking(r)) /\ One(messagesCh', Replies(r))
      /\ One(workerEventsCh', Replies(r))
      /\ Has(messagesCh', Asking(r)) => Has(messagesCh, Asking(r))
      /\ Has(messagesCh', Replies(r)) => Has(messagesCh, Replies(r))
      /\ Has(workerEventsCh', Replies(r)) => Has(workerEventsCh, Replies(r))
  BY DEF Forward, Backward
<1>3. CASE r # q
  <2>1. sent'[r] = sent[r] /\ \A v \in Workers : r \in toWorker'[v] => r \in toWorker[v]
    BY <1>1, <1>3 DEF GivenTo
  <2>2. Forward(r)' BY <1>2, <2>1, ForwardShrinks
  <2>3. Backward(r)' BY <1>2, <2>1, BackwardShrinks
  <2> QED BY <2>2, <2>3
<1>4. CASE r = q
  <2>1. sent[r] = <<>> /\ answers[r] = <<>> /\ r \in received BY <1>4 DEF Forward
  <2>2. Forward(r)' BY <1>2, <1>4, <2>1, ForwardShrinks
  <2>3. ~Replying(r) BY <2>1 DEF Backward
  <2>4. sent'[r] # <<>>
    <3>1. sent'[r] = Append(sent[r], u) /\ sent[r] \in Seq(Workers) BY <1>1, <1>4 DEF GivenTo
    <3>2. Len(sent'[r]) = Len(sent[r]) + 1 /\ Len(sent[r]) \in Nat
      BY <3>1, AppendProperties, LenProperties
    <3> QED BY <3>2, EmptySeq
  <2>5. \A v \in Workers : r \in toWorker'[v] => v = u
    BY <1>4, <2>3 DEF GivenTo, Replying, AtWorker
  <2>6. ~Has(messagesCh', Replies(r)) /\ ~Has(workerEventsCh', Replies(r)) /\ ~Found(r)'
    BY <1>2, <2>3 DEF Replying
  <2>7. answers'[r] = <<>> /\ Len(answers'[r]) <= 1 BY <2>1 DEF Backward
  <2>8. Backward(r)' BY <1>2, <2>4, <2>5, <2>6, <2>7 DEF Backward
  <2> QED BY <2>2, <2>8
<1> QED BY <1>3, <1>4

LEMMA WorkerEventPlaces ==
    ASSUME TypeOK, NoIdleWorkerWhileQueued, Matching, HandleWorkerEvent,
           NEW r \in Requests, Forward(r), Backward(r)
    PROVE  Forward(r)' /\ Backward(r)'
<1>1. ASSUME NEW w \in Workers, HandleWorkerReady(w) PROVE Forward(r)' /\ Backward(r)'
  <2>1. /\ WorkerEvent("READY", w, "") /\ wpc' = [step |-> "ready", worker |-> w, body |-> ""]
        /\ UNCHANGED <<requests, toWorker, sent, answers>>
    BY <1>1 DEF HandleWorkerReady, output
  <2>2. ~Found(r)' BY <2>1 DEF Found
  <2> QED BY <2>1, <2>2, EventOther
<1>2. ASSUME NEW w \in Workers, HandleWorkerDisconnect(w) PROVE Forward(r)' /\ Backward(r)'
  <2>1. /\ WorkerEvent("DISCONNECT", w, "")
        /\ UNCHANGED <<requests, wpc, toWorker, sent, answers>>
    BY <1>2 DEF HandleWorkerDisconnect, RemoveWorker, output, queues
  <2>2. Found(r)' => Found(r) BY <2>1 DEF Found
  <2> QED BY <2>1, <2>2, EventOther
<1>3. ASSUME NEW w \in Workers, NEW b \in {"", DeviceList, ListFailed} \cup Requests, LookupWorker(w, b)
      PROVE  Forward(r)' /\ Backward(r)'
  <2> DEFINE k == IF b = "" THEN "HEARTBEAT" ELSE "REPLY"
  <2>1. /\ WorkerEvent(k, w, b) /\ wpc' = [step |-> "found", worker |-> w, body |-> b]
        /\ UNCHANGED <<requests, toWorker, sent, answers>> /\ wpc = Idle
    BY <1>3 DEF LookupWorker, WorkerEvent, output, queues
  <2>2. CASE b # r
    <3>1. ~Found(r)' BY <2>1, <2>2 DEF Found
    <3> QED BY <2>1, <3>1, EventOther
  <2>3. CASE b = r
    <3>1. k = "REPLY" BY <2>3, BrokerAssumption
    <3>2. WorkerMsg(k, w, b) \in Replies(r) BY <2>3, <3>1, Kinds
    <3>3. /\ Has(workerEventsCh, Replies(r)) /\ ~Has(workerEventsCh', Replies(r))
          /\ One(workerEventsCh', Replies(r))
      BY <2>1, <3>2, TakeWorkerEvent DEF Backward
    <3>4. UNCHANGED <<messagesCh, clientEventsCh, cpc, received>> BY <2>1 DEF WorkerEvent
    <3>5. /\ ~AtWorker(r) /\ ~Has(messagesCh, Replies(r))
          /\ sent[r] # <<>> /\ answers[r] = <<>>
      BY <3>3 DEF Backward, Replying
    <3>6. ~AtWorker(r)' /\ ~Has(messagesCh', Replies(r)) BY <2>1, <3>4, <3>5 DEF AtWorker
    <3>7. Backward(r)'
      BY <2>1, <3>3, <3>4, <3>5, <3>6 DEF Backward
    <3>8. Forward(r)'
      <4>1. /\ Handled(r)' => Handled(r)
            /\ Queued(r)' => Queued(r)
        BY <2>1, <3>4 DEF Handled, Queued
      <4>2. /\ One(messagesCh', Asking(r)) /\ One(clientEventsCh', Asking(r))
            /\ One(requests'[Target[r]], {r})
            /\ Has(messagesCh', Asking(r)) => Has(messagesCh, Asking(r))
            /\ Has(clientEventsCh', Asking(r)) => Has(clientEventsCh, Asking(r))
        BY <2>1, <3>4 DEF Forward
      <4> QED BY <2>1, <3>4, <4>1, <4>2, ForwardShrinks
    <3> QED BY <3>7, <3>8
  <2> QED BY <2>2, <2>3
<1>4. ASSUME NEW w \in Workers, NEW b \in {"", DeviceList, ListFailed} \cup Requests, HandleUnknown(w, b)
      PROVE  Forward(r)' /\ Backward(r)'
  <2>1. UNCHANGED <<requests, wpc, toWorker, sent>> BY <1>4 DEF HandleUnknown, queues
  <2>2. Found(r)' => Found(r) BY <2>1 DEF Found
  <2>3. CASE b = "" /\ WorkerEvent("HEARTBEAT", w, b) /\ UNCHANGED answers
    BY <2>1, <2>2, <2>3, EventOther
  <2>4. CASE b # "" /\ WorkerEvent("REPLY", w, b) /\ answers' = ReplyForwarded(b)
    <3>1. CASE b # r
      <4>1. answers'[r] = answers[r] BY <2>4, <3>1 DEF ReplyForwarded
      <4> QED BY <2>1, <2>2, <2>4, <4>1, EventOther
    <3>2. CASE b = r
      <4>1. WorkerMsg("REPLY", w, b) \in Replies(r) BY <3>2, Kinds
      <4>2. /\ Has(workerEventsCh, Replies(r)) /\ ~Has(workerEventsCh', Replies(r))
            /\ One(workerEventsCh', Replies(r))
        BY <2>4, <4>1, TakeWorkerEvent DEF Backward
      <4>3. UNCHANGED <<messagesCh, clientEventsCh, cpc, received>> BY <2>4 DEF WorkerEvent
      <4>4. Replying(r) /\ ~AtWorker(r) /\ ~Has(messagesCh, Replies(r)) /\ ~Found(r)
        BY <4>2 DEF Backward, Replying
      <4>5. ~Replying(r)'
        BY <2>1, <2>2, <4>2, <4>3, <4>4 DEF Replying, AtWorker
      <4> QED BY <2>1, <2>4, <3>2, <4>2, <4>3, <4>4, <4>5, AnsweredPlaces
    <3> QED BY <3>1, <3>2
  <2> QED BY <1>4, <2>3, <2>4 DEF HandleUnknown
<1>5. CASE FinishWorkerEvent
  <2>1. /\ wpc.step = "found" /\ wpc' = Idle /\ answers' = ReplyForwarded(wpc.body)
        /\ UNCHANGED <<requests, messagesCh, workerEventsCh, clientEventsCh, cpc, toWorker, sent, received>>
    BY <1>5 DEF FinishWorkerEvent, queues, channels
  <2>2. wpc # Idle BY <2>1 DEF Idle
  <2>3. ~Found(r)' BY <2>1 DEF Found
  <2>4. CASE wpc.body # r
    <3>1. answers'[r] = answers[r] BY <2>1, <2>4 DEF ReplyForwarded
    <3>2. /\ Handled(r)' => Handled(r)
          /\ Queued(r)' => Queued(r)
      BY <2>1 DEF Handled, Queued
    <3>3. Forward(r)' BY <2>1, <3>1, <3>2, ForwardShrinks DEF Forward
    <3>4. Backward(r)' BY <2>1, <2>3, <3>1, BackwardShrinks DEF Backward
    <3> QED BY <3>3, <3>4
  <2>5. CASE wpc.body = r
    <3>1. Found(r) /\ Replying(r) BY <2>1, <2>2, <2>5 DEF Found, Replying
    <3>2. ~AtWorker(r) /\ ~Has(messagesCh, Replies(r)) /\ ~Has(workerEventsCh, Replies(r))
      BY <3>1 DEF Backward
    <3>3. ~Replying(r)' BY <2>1, <2>3, <3>2 DEF Replying, AtWorker
    <3>4. One(workerEventsCh', Replies(r)) BY <2>1 DEF Backward
    <3> QED BY <2>1, <2>5, <3>1, <3>2, <3>3, <3>4, AnsweredPlaces
  <2> QED BY <2>4, <2>5
<1>6. CASE ProcessPendingRequests
  <2> DEFINE s == ServiceOf[wpc.worker]
  <2>1. /\ wpc.step = "ready" /\ wpc.worker \in Workers /\ wpc' = Idle
        /\ UNCHANGED <<messagesCh, workerEventsCh, clientEventsCh, cpc, answers, received>>
        /\ GivesNone \/ GivesOldest(s)
    BY <1>6, PendingGiven
  <2>2. s \in Services BY <2>1, Capacities
  <2>3. /\ ~Found(r)'
        /\ Handled(r)' => Handled(r)
        /\ One(clientEventsCh', Asking(r))
        /\ Has(clientEventsCh', Asking(r)) => Has(clientEventsCh, Asking(r))
    BY <2>1 DEF Found, Handled, Forward
  <2>4. CASE GivesNone
    <3>1. Queued(r)' => Queued(r) BY <2>4 DEF GivesNone, Queued
    <3>2. sent' = sent /\ requests' = requests
          /\ \A v \in Workers : r \in toWorker'[v] => r \in toWorker[v]
      BY <2>4 DEF GivesNone
    <3>3. Forward(r)' BY <2>1, <2>3, <3>1, <3>2, ForwardShrinks DEF Forward
    <3>4. Backward(r)' BY <2>1, <2>3, <3>1, <3>2, BackwardShrinks DEF Backward
    <3> QED BY <3>3, <3>4
  <2>5. CASE GivesOldest(s)
    <3> DEFINE q == Head(requests[s])
               u == Head(waiting[s])
    <3>1. /\ requests[s] # <<>> /\ waiting[s] # <<>>
          /\ requests' = [requests EXCEPT ![s] = Tail(requests[s])] /\ GivenTo(q, u)
      BY <2>5 DEF GivesOldest, GivenTo
    <3>2. q \in Asked(s) /\ u \in Serving(s)
      BY <2>2, <3>1, HeadTailProperties DEF Matching
    <3>3. q \in Requests /\ Target[q] = s /\ u \in Workers BY <3>2 DEF Asked, Serving
    <3>4. /\ One(requests'[Target[r]], {r})
          /\ Queued(r)' => Queued(r)
          /\ r = q /\ Target[r] = s => Queued(r) /\ ~Queued(r)'
      BY <2>2, <3>1, QueueTail DEF Forward
    <3>5. r = q => (Underway(r) \/ Queued(r)) /\ ~Underway(r)' /\ ~Queued(r)'
      <4>1. SUFFICES ASSUME r = q PROVE Queued(r) /\ ~Underway(r)' /\ ~Queued(r)'
        OBVIOUS
      <4>2. Queued(r) /\ ~Queued(r)' BY <3>3, <3>4, <4>1
      <4>3. ~Underway(r) BY <4>2 DEF Forward
      <4>4. ~Underway(r)' BY <2>1, <2>3, <4>3 DEF Underway
      <4> QED BY <4>2, <4>4
    <3> HIDE DEF q, u
    <3> QED BY <2>1, <2>3, <3>1, <3>3, <3>4, <3>5, GivenPlaces
  <2> QED BY <2>1, <2>4, <2>5
<1> QED BY <1>1, <1>2, <1>3, <1>4, <1>5, <1>6 DEF HandleWorkerEvent

LEMMA SendGives ==
    ASSUME TypeOK, NEW q \in Requests, NEW u \in Workers, Send(q, u)
    PROVE  GivenTo(q, u)
BY DEF TypeOK, OutputType, Send, SendToWorker, GivenTo

\* What taking an event from clientEventsCh means for any request.
LEMMA ClientEventFacts ==
    ASSUME TypeOK, NEW q \in Requests, ClientEvent(q), NEW r \in Requests, Forward(r), Backward(r)
    PROVE  /\ cpc = Idle /\ ~Handled(r)
           /\ UNCHANGED <<messagesCh, workerEventsCh, wpc, received>>
           /\ One(messagesCh', Asking(r)) /\ One(clientEventsCh', Asking(r))
           /\ One(messagesCh', Replies(r)) /\ One(workerEventsCh', Replies(r))
           /\ Has(clientEventsCh', Asking(r)) => Has(clientEventsCh, Asking(r))
           /\ Found(r)' => Found(r)
           /\ r = q => /\ Has(clientEventsCh, Asking(r)) /\ ~Has(clientEventsCh', Asking(r))
                       /\ ~Has(messagesCh, Asking(r)) /\ ~Has(messagesCh', Asking(r))
                       /\ ~Queued(r) /\ sent[r] = <<>> /\ answers[r] = <<>> /\ r \in received
                       /\ ~Replying(r)
<1>1. cpc = Idle /\ UNCHANGED <<messagesCh, workerEventsCh, wpc, received>> BY DEF ClientEvent
<1>2. ~Handled(r) BY <1>1 DEF Handled
<1>3. /\ One(messagesCh', Asking(r)) /\ One(messagesCh', Replies(r))
      /\ One(workerEventsCh', Replies(r))
      /\ Found(r)' => Found(r)
  BY <1>1 DEF Forward, Backward, Found
<1>4. /\ One(clientEventsCh', Asking(r))
      /\ Has(clientEventsCh', Asking(r)) => Has(clientEventsCh, Asking(r))
      /\ ClientMsg(q) \in Asking(r) => Has(clientEventsCh, Asking(r)) /\ ~Has(clientEventsCh', Asking(r))
  BY TakeClientEvent DEF Forward
<1>5. ASSUME r = q
      PROVE  /\ Has(clientEventsCh, Asking(r)) /\ ~Has(clientEventsCh', Asking(r))
             /\ ~Has(messagesCh, Asking(r)) /\ ~Has(messagesCh', Asking(r))
             /\ ~Queued(r) /\ sent[r] = <<>> /\ answers[r] = <<>> /\ r \in received
             /\ ~Replying(r)
  <2>1. Has(clientEventsCh, Asking(r)) /\ ~Has(clientEventsCh', Asking(r)) BY <1>4, <1>5, Kinds
  <2>2. /\ ~Has(messagesCh, Asking(r)) /\ ~Queued(r)
        /\ sent[r] = <<>> /\ answers[r] = <<>> /\ r \in received
    BY <2>1 DEF Forward, Underway
  <2>3. ~Replying(r) BY <2>2 DEF Backward
  <2> QED BY <1>1, <2>1, <2>2, <2>3
<1> QED BY <1>1, <1>2, <1>3, <1>4, <1>5

\* A request other than the one the event is about.
LEMMA ClientOther ==
    ASSUME TypeOK, NEW q \in Requests, ClientEvent(q),
           NEW r \in Requests, Forward(r), Backward(r), r # q,
           UNCHANGED <<toWorker, sent>>, answers'[r] = answers[r], ~Handled(r)',
           One(requests'[Target[r]], {r}), Queued(r)' => Queued(r)
    PROVE  Forward(r)' /\ Backward(r)'
<1>2. Forward(r)' BY ClientEventFacts, ForwardShrinks
<1>3. Backward(r)' BY ClientEventFacts, BackwardShrinks
<1> QED BY <1>2, <1>3

LEMMA ClientEventPlaces ==
    ASSUME TypeOK, Matching, HandleClientEvent, NEW r \in Requests, Forward(r), Backward(r)
    PROVE  Forward(r)' /\ Backward(r)'
<1>1. ASSUME NEW q \in Requests, RejectRequest(q) PROVE Forward(r)' /\ Backward(r)'
  <2>1. /\ ClientEvent(q) /\ UNCHANGED <<requests, cpc, toWorker, sent>>
        /\ answers' = [answers EXCEPT ![q] = Append(@, "error")]
    BY <1>1 DEF RejectRequest, queues
  <2>2. answers \in [Requests -> Seq({"error", "reply"})] BY DEF TypeOK, OutputType
  <2>3. ~Handled(r)' BY <2>1, ClientEventFacts DEF Handled
  <2>4. CASE r # q
    <3>1. /\ answers'[r] = answers[r] /\ One(requests'[Target[r]], {r})
          /\ Queued(r)' => Queued(r)
      BY <2>1, <2>2, <2>4 DEF Queued, Forward
    <3> QED BY <2>1, <2>3, <2>4, <3>1, ClientOther
  <2>5. CASE r = q
    <3>1. answers'[r] = Append(<<>>, "error") BY <2>1, <2>2, <2>5, ClientEventFacts
    <3>2. Len(answers'[r]) = 1
      <4>1. <<>> \in Seq({"error"}) /\ Len(<<>>) = 0 BY EmptySeq
      <4> QED BY <3>1, <4>1, AppendProperties
    <3>3. /\ One(requests'[Target[r]], {r}) /\ ~Queued(r)'
          /\ r \in received' /\ r \in received
      BY <2>1, <2>5, ClientEventFacts DEF Forward, Queued
    <3>4. ~Underway(r)' BY <2>1, <2>3, <2>5, ClientEventFacts DEF Underway
    <3>5. Forward(r)' BY <2>1, <2>3, <2>5, <3>3, <3>4, ClientEventFacts, ForwardShrinks
    <3>6. ~Replying(r)'
      <4>1. UNCHANGED <<messagesCh, workerEventsCh, wpc, toWorker>> /\ ~Replying(r)
        BY <2>1, <2>5, ClientEventFacts
      <4> QED BY <4>1 DEF Replying, AtWorker, Found
    <3>7. Len(answers'[r]) <= 1 BY <3>2
    <3>8. Backward(r)' BY <2>1, <2>5, <3>6, <3>7, ClientEventFacts, BackwardShrinks
    <3> QED BY <3>5, <3>8
  <2> QED BY <2>4, <2>5
<1>2. ASSUME NEW q \in Requests, PickHubWorker(q) PROVE Forward(r)' /\ Backward(r)'
  <2>1. /\ ClientEvent(q) /\ UNCHANGED <<requests, toWorker, sent, answers>>
        /\ cpc' = [step |-> "send", request |-> q, worker |-> Head(svcWorkers[HubControl])]
    BY <1>2 DEF PickHubWorker, queues
  <2>2. CASE r # q
    <3>1. /\ ~Handled(r)' /\ One(requests'[Target[r]], {r}) /\ answers'[r] = answers[r]
          /\ Queued(r)' => Queued(r)
      BY <2>1, <2>2 DEF Handled, Queued, Forward
    <3> QED BY <2>1, <2>2, <3>1, ClientOther
  <2>3. CASE r = q
    <3>1. Backward(r)' BY <2>1, ClientEventFacts, BackwardShrinks
    <3>2. /\ One(requests'[Target[r]], {r}) /\ ~Queued(r)'
      BY <2>1, <2>3, ClientEventFacts DEF Forward, Queued
    <3>3. /\ One(messagesCh', Asking(r)) /\ One(clientEventsCh', Asking(r))
          /\ ~Has(messagesCh', Asking(r)) /\ ~Has(clientEventsCh', Asking(r))
          /\ sent'[r] = <<>> /\ answers'[r] = <<>> /\ r \in received'
      BY <2>1, <2>3, ClientEventFacts
    <3>4. Forward(r)' BY <3>2, <3>3 DEF Forward
    <3> QED BY <3>1, <3>4
  <2> QED BY <2>2, <2>3
<1>3. ASSUME NEW q \in Requests, QueueRequest(q) PROVE Forward(r)' /\ Backward(r)'
  <2> DEFINE s == Target[q]
  <2>1. /\ ClientEvent(q) /\ UNCHANGED <<cpc, toWorker, sent, answers>>
        /\ requests' = [requests EXCEPT ![s] = Append(requests[s], q)]
    BY <1>3 DEF QueueRequest, AtBack
  <2>2. /\ requests \in [Services -> Seq(Requests)] /\ s \in Services /\ Target[r] \in Services
        /\ requests[s] \in Seq(Requests)
    BY Capacities DEF TypeOK, RegistryType
  <2>3. ~Handled(r)' BY <2>1, ClientEventFacts DEF Handled
  <2>4. /\ Has(Append(requests[s], q), {r}) <=> Has(requests[s], {r}) \/ q \in {r}
        /\ One(requests[s], {r}) /\ (q \notin {r} \/ ~Has(requests[s], {r}))
              => One(Append(requests[s], q), {r})
    BY <2>2, HasAppend
  <2>5. CASE r # q
    <3>1. CASE Target[r] = s
      <4>1. requests'[Target[r]] = Append(requests[s], q) BY <2>1, <2>2, <3>1
      <4>2. One(requests'[Target[r]], {r}) /\ (Queued(r)' => Queued(r))
        BY <2>4, <2>5, <3>1, <4>1 DEF Queued, Forward
      <4> QED BY <2>1, <2>3, <2>5, <4>2, ClientOther
    <3>2. CASE Target[r] # s
      <4>1. requests'[Target[r]] = requests[Target[r]] BY <2>1, <2>2, <3>2
      <4>2. One(requests'[Target[r]], {r}) /\ (Queued(r)' => Queued(r))
        BY <4>1 DEF Queued, Forward
      <4> QED BY <2>1, <2>3, <2>5, <4>2, ClientOther
    <3> QED BY <3>1, <3>2
  <2>6. CASE r = q
    <3>1. Backward(r)' BY <2>1, ClientEventFacts, BackwardShrinks
    <3>2. requests'[Target[r]] = Append(requests[s], q) BY <2>1, <2>2, <2>6
    <3>3. ~Queued(r) BY <2>1, <2>6, ClientEventFacts
    <3>4. One(requests'[Target[r]], {r}) BY <2>4, <2>6, <3>2, <3>3 DEF Queued, Forward
    <3>5. /\ One(messagesCh', Asking(r)) /\ One(clientEventsCh', Asking(r))
          /\ ~Has(messagesCh', Asking(r)) /\ ~Has(clientEventsCh', Asking(r))
          /\ sent'[r] = <<>> /\ answers'[r] = <<>> /\ r \in received'
      BY <2>1, <2>6, ClientEventFacts
    <3>6. ~Underway(r)' BY <2>3, <3>5 DEF Underway
    <3>7. Forward(r)' BY <2>3, <3>4, <3>5, <3>6 DEF Forward
    <3> QED BY <3>1, <3>7
  <2> QED BY <2>5, <2>6
<1>4. ASSUME NEW q \in Requests, DispatchRequest(q) PROVE Forward(r)' /\ Backward(r)'
  <2> DEFINE u == Head(waiting[Target[q]])
  <2>1. /\ ClientEvent(q) /\ Send(q, u) /\ waiting[Target[q]] # <<>>
        /\ UNCHANGED <<requests, cpc, answers>>
    BY <1>4 DEF DispatchRequest
  <2>2. u \in Workers
    <3>1. waiting[Target[q]] \in Seq(Workers) BY Capacities DEF TypeOK, RegistryType
    <3> QED BY <2>1, <3>1, HeadTailProperties
  <2> HIDE DEF u
  <2>3. GivenTo(q, u) BY <2>1, <2>2, SendGives
  <2>4. /\ ~Handled(r)'
        /\ One(requests'[Target[r]], {r})
        /\ Queued(r)' => Queued(r)
    BY <2>1, ClientEventFacts DEF Handled, Queued, Forward
  <2>5. r = q => (Underway(r) \/ Queued(r)) /\ ~Underway(r)' /\ ~Queued(r)'
    BY <2>1, <2>4, ClientEventFacts DEF Underway
  <2>6. /\ UNCHANGED <<messagesCh, workerEventsCh, answers, received>>
        /\ One(clientEventsCh', Asking(r))
        /\ Has(clientEventsCh', Asking(r)) => Has(clientEventsCh, Asking(r))
        /\ Found(r)' => Found(r)
    BY <2>1, ClientEventFacts
  <2> QED BY <2>2, <2>3, <2>4, <2>5, <2>6, GivenPlaces
<1>5. CASE SendToHubWorker
  <2> DEFINE q == cpc.request
             u == cpc.worker
  <2>1. /\ cpc.step = "send" /\ Send(q, u) /\ cpc' = Idle
        /\ UNCHANGED <<requests, messagesCh, workerEventsCh, clientEventsCh, wpc, answers, received>>
    BY <1>5 DEF SendToHubWorker, queues, channels
  <2>2. q \in Requests /\ u \in Workers /\ cpc # Idle
    BY <2>1, BusyHandlers DEF Idle
  <2>3. Handled(q) /\ ~Handled(r)' /\ (r # q => ~Handled(r))
    BY <2>1, <2>2 DEF Handled
  <2> HIDE DEF q, u
  <2>4. GivenTo(q, u) BY <2>1, <2>2, SendGives
  <2>5. /\ One(requests'[Target[r]], {r}) /\ One(clientEventsCh', Asking(r))
        /\ Queued(r)' => Queued(r)
        /\ Has(clientEventsCh', Asking(r)) => Has(clientEventsCh, Asking(r))
        /\ Found(r)' => Found(r)
    BY <2>1 DEF Queued, Forward, Found
  <2>6. r = q => (Underway(r) \/ Queued(r)) /\ ~Underway(r)' /\ ~Queued(r)'
    <3> SUFFICES ASSUME r = q PROVE Underway(r) /\ ~Underway(r)' /\ ~Queued(r)'
      OBVIOUS
    <3>1. Handled(r) BY <2>3
    <3>2. /\ Underway(r) /\ ~Queued(r)
          /\ ~Has(messagesCh, Asking(r)) /\ ~Has(clientEventsCh, Asking(r))
      BY <3>1 DEF Underway, Forward
    <3> QED BY <2>1, <2>3, <2>5, <3>2 DEF Underway
  <2> QED BY <2>1, <2>2, <2>3, <2>4, <2>5, <2>6, GivenPlaces
<1> QED BY <1>1, <1>2, <1>3, <1>4, <1>5 DEF HandleClientEvent

\* The steps that concern no request.
LEMMA OtherPlaces ==
    ASSUME ClockTick \/ HeartbeatManager \/ UNCHANGED vars,
           NEW r \in Requests, Forward(r), Backward(r)
    PROVE  Forward(r)' /\ Backward(r)'
<1>1. UNCHANGED <<requests, messagesCh, workerEventsCh, clientEventsCh, wpc, cpc, toWorker, sent,
                  answers, received>>
  <2>1. CASE ClockTick BY <2>1 DEF ClockTick, queues, channels, output
  <2>2. CASE HeartbeatManager
    BY <2>2 DEF HeartbeatManager, TakeTick, PostHeartbeat, CollectExpired, CheckDone, RemoveExpired,
                RemoveWorker, BeatUnchanged, queues, channels, output
  <2>3. CASE UNCHANGED vars BY <2>3 DEF vars, queues, channels, output
  <2> QED BY <2>1, <2>2, <2>3
<1>2. /\ Handled(r)' <=> Handled(r)
      /\ Queued(r)' <=> Queued(r)
      /\ Found(r)' <=> Found(r)
  BY <1>1 DEF Handled, Queued, Found
<1>3. Forward(r)' BY <1>1, <1>2, ForwardShrinks DEF Forward
<1>4. Backward(r)' BY <1>1, <1>2, BackwardShrinks DEF Backward
<1> QED BY <1>3, <1>4

-----------------------------------------------------------------------------
(* Requests and workers stay with their service *)

\* A worker picked for a request stays the picked one until it is sent to.
LEMMA PickSteps ==
    ASSUME [Next]_vars
    PROVE  \/ cpc' = cpc \/ cpc' = Idle
           \/ \E r \in Requests : PickHubWorker(r)
<1>1. CASE Peers \/ ClockTick \/ MessageRouter
  BY <1>1
  DEF Peers, ClockTick, MessageRouter, RecvReady, RecvControl, RecvReply, RecvRequest, SocketReader
<1>2. CASE HandleWorkerEvent
  BY <1>2
  DEF HandleWorkerEvent, HandleWorkerReady, HandleWorkerDisconnect, LookupWorker, HandleUnknown,
      ProcessPendingRequests, FinishWorkerEvent, WorkerEvent
<1>3. CASE HandleClientEvent
  BY <1>3
  DEF HandleClientEvent, RejectRequest, QueueRequest, DispatchRequest, SendToHubWorker
<1>4. CASE HeartbeatManager
  BY <1>4
  DEF HeartbeatManager, TakeTick, PostHeartbeat, CollectExpired, RemoveExpired, CheckDone,
      BeatUnchanged
<1>5. CASE UNCHANGED vars BY <1>5 DEF vars
<1> QED BY <1>1, <1>2, <1>3, <1>4, <1>5 DEF Next

\* What a removal leaves of the lists of workers.
LEMMA RemovalMatches ==
    ASSUME TypeOK, Matching, NEW w \in Workers, RemoveWorker(w), NEW s \in Services
    PROVE  /\ svcWorkers'[s] \in Seq(Serving(s)) /\ waiting'[s] \in Seq(Serving(s))
           /\ requests'[s] = requests[s]
<1> DEFINE t == ServiceOf[w]
<1>1. CASE w \notin registered
  BY <1>1 DEF RemoveWorker, Matching, registry, queues
<1>2. CASE w \in registered
  <2>1. /\ svcWorkers' = [svcWorkers EXCEPT ![t] = RemoveFirst(svcWorkers[t], w)]
        /\ waiting' = [waiting EXCEPT ![t] = RemoveFirst(waiting[t], w)]
        /\ UNCHANGED requests
    BY <1>2 DEF RemoveWorker, NotWaiting
  <2>2. /\ svcWorkers \in [Services -> Seq(Workers)] /\ waiting \in [Services -> Seq(Workers)]
    BY DEF TypeOK, RegistryType
  <2>3. svcWorkers[s] \in Seq(Serving(s)) /\ waiting[s] \in Seq(Serving(s)) BY DEF Matching
  <2> HIDE DEF t
  <2>4. CASE s = t
    <3>1. svcWorkers'[s] = RemoveFirst(svcWorkers[s], w) /\ waiting'[s] = RemoveFirst(waiting[s], w)
      BY <2>1, <2>2, <2>4
    <3> QED BY <2>1, <2>3, <3>1, RemoveFirstProperties
  <2>5. CASE s # t BY <2>1, <2>2, <2>3, <2>5
  <2> QED BY <2>4, <2>5
<1> QED BY <1>1, <1>2

LEMMA ReadyMatches ==
    ASSUME TypeOK, Matching, NEW w \in Workers, HandleWorkerReady(w), NEW s \in Services
    PROVE  /\ svcWorkers'[s] \in Seq(Serving(s)) /\ waiting'[s] \in Seq(Serving(s))
           /\ requests'[s] = requests[s]
<1> DEFINE t == ServiceOf[w]
<1>1. /\ svcWorkers' = [svcWorkers EXCEPT ![t] = Append(svcWorkers[t], w)]
      /\ waiting' = [waiting EXCEPT ![t] = Append(waiting[t], w)]
      /\ UNCHANGED requests
  BY DEF HandleWorkerReady
<1>2. /\ svcWorkers \in [Services -> Seq(Workers)] /\ waiting \in [Services -> Seq(Workers)]
  BY DEF TypeOK, RegistryType
<1>3. svcWorkers[s] \in Seq(Serving(s)) /\ waiting[s] \in Seq(Serving(s)) BY DEF Matching
<1>4. CASE s = t
  <2>1. w \in Serving(s) BY <1>4 DEF Serving
  <2>2. svcWorkers'[s] = Append(svcWorkers[s], w) /\ waiting'[s] = Append(waiting[s], w)
    BY <1>1, <1>2, <1>4
  <2> QED BY <1>1, <1>3, <2>1, <2>2, AppendProperties
<1>5. CASE s # t BY <1>1, <1>2, <1>3, <1>5
<1> QED BY <1>4, <1>5

LEMMA MatchingStep ==
    ASSUME TypeOK, NoIdleWorkerWhileQueued, Matching, [Next]_vars
    PROVE  Matching'
<1>1. ASSUME NEW s \in Services PROVE svcWorkers'[s] \in Seq(Serving(s))
  <2>1. CASE UNCHANGED svcWorkers BY <2>1 DEF Matching
  <2>2. ASSUME NEW w \in Workers, HandleWorkerReady(w) \/ RemoveWorker(w)
        PROVE  svcWorkers'[s] \in Seq(Serving(s))
    BY <2>2, ReadyMatches, RemovalMatches
  <2> QED BY <2>1, <2>2, RegistrySteps
<1>2. ASSUME NEW s \in Services PROVE requests'[s] \in Seq(Asked(s)) /\ waiting'[s] \in Seq(Serving(s))
  <2>1. requests[s] \in Seq(Asked(s)) /\ waiting[s] \in Seq(Serving(s)) BY DEF Matching
  <2>2. /\ requests \in [Services -> Seq(Requests)] /\ waiting \in [Services -> Seq(Workers)]
    BY DEF TypeOK, RegistryType
  <2>3. CASE UNCHANGED queues BY <2>1, <2>3 DEF queues
  <2>4. ASSUME NEW w \in Workers, HandleWorkerReady(w) \/ RemoveWorker(w)
        PROVE  requests'[s] \in Seq(Asked(s)) /\ waiting'[s] \in Seq(Serving(s))
    BY <2>1, <2>4, ReadyMatches, RemovalMatches
  <2>5. CASE ProcessPendingRequests
    <3> DEFINE t == ServiceOf[wpc.worker]
    <3>1. GivesNone \/ GivesOldest(t) BY <2>5, PendingGiven
    <3> HIDE DEF t
    <3>2. CASE GivesNone BY <2>1, <3>2 DEF GivesNone
    <3>3. CASE GivesOldest(t)
      <4>1. /\ requests[t] # <<>> /\ waiting[t] # <<>>
            /\ requests' = [requests EXCEPT ![t] = Tail(requests[t])]
            /\ waiting' = [waiting EXCEPT ![t] = Tail(waiting[t])]
        BY <3>3 DEF GivesOldest
      <4>2. CASE s = t
        <5>1. requests'[s] = Tail(requests[s]) /\ waiting'[s] = Tail(waiting[s])
          BY <2>2, <4>1, <4>2
        <5> QED BY <2>1, <4>1, <4>2, <5>1, HeadTailProperties
      <4>3. CASE s # t BY <2>1, <2>2, <4>1, <4>3
      <4> QED BY <4>2, <4>3
    <3> QED BY <3>1, <3>2, <3>3
  <2>6. ASSUME NEW r \in Requests, QueueRequest(r)
        PROVE  requests'[s] \in Seq(Asked(s)) /\ waiting'[s] \in Seq(Serving(s))
    <3> DEFINE t == Target[r]
    <3>1. requests' = [requests EXCEPT ![t] = Append(requests[t], r)] /\ UNCHANGED waiting
      BY <2>6 DEF QueueRequest, AtBack
    <3>2. CASE s = t
      <4>1. r \in Asked(s) /\ requests'[s] = Append(requests[s], r)
        BY <2>2, <3>1, <3>2 DEF Asked
      <4> QED BY <2>1, <3>1, <4>1, AppendProperties
    <3>3. CASE s # t BY <2>1, <2>2, <3>1, <3>3
    <3> QED BY <3>2, <3>3
  <2>7. ASSUME NEW r \in Requests, DispatchRequest(r)
        PROVE  requests'[s] \in Seq(Asked(s)) /\ waiting'[s] \in Seq(Serving(s))
    <3> DEFINE t == Target[r]
    <3>1. /\ waiting[t] # <<>> /\ UNCHANGED requests
          /\ waiting' = [waiting EXCEPT ![t] = Tail(waiting[t])]
      BY <2>7 DEF DispatchRequest
    <3>2. CASE s = t
      <4>1. waiting'[s] = Tail(waiting[s]) BY <2>2, <3>1, <3>2
      <4> QED BY <2>1, <3>1, <3>2, <4>1, HeadTailProperties
    <3>3. CASE s # t BY <2>1, <2>2, <3>1, <3>3
    <3> QED BY <3>2, <3>3
  <2> QED BY <2>3, <2>4, <2>5, <2>6, <2>7, QueueSteps
<1>3. cpc' # Idle => ServiceOf[cpc'.worker] = Target[cpc'.request]
  <2>1. CASE cpc' = cpc \/ cpc' = Idle BY <2>1 DEF Matching
  <2>2. ASSUME NEW r \in Requests, PickHubWorker(r)
        PROVE  ServiceOf[cpc'.worker] = Target[cpc'.request]
    <3> DEFINE w == Head(svcWorkers[HubControl])
    <3>1. /\ Target[r] = HubControl /\ svcWorkers[HubControl] # <<>>
          /\ cpc' = [step |-> "send", request |-> r, worker |-> w]
      BY <2>2 DEF PickHubWorker
    <3>2. svcWorkers[HubControl] \in Seq(Serving(HubControl)) BY Capacities DEF Matching
    <3>3. w \in Serving(HubControl) BY <3>1, <3>2, HeadTailProperties
    <3> QED BY <3>1, <3>3 DEF Serving
  <2> QED BY <2>1, <2>2, PickSteps
<1> QED BY <1>1, <1>2, <1>3 DEF Matching

-----------------------------------------------------------------------------
(* The places of the requests, in every state *)

LEMMA PlaceInit == Init => PlaceInv
<1> SUFFICES ASSUME Init PROVE PlaceInv OBVIOUS
<1>1. Matching BY EmptySeq DEF Init, Matching
<1>2. ASSUME NEW r \in Requests PROVE Forward(r) /\ Backward(r)
  <2>1. /\ messagesCh = <<>> /\ workerEventsCh = <<>> /\ clientEventsCh = <<>>
        /\ requests[Target[r]] = <<>> /\ wpc = Idle /\ cpc = Idle
        /\ sent[r] = <<>> /\ answers[r] = <<>> /\ \A w \in Workers : toWorker[w] = {}
    BY Capacities DEF Init
  <2>2. ~Underway(r) /\ ~Queued(r) BY <2>1, HasEmpty DEF Underway, Queued, Handled
  <2>3. Forward(r) BY <2>1, <2>2, HasEmpty DEF Forward, Underway
  <2>4. ~Replying(r) BY <2>1, HasEmpty DEF Replying, AtWorker, Found
  <2>5. Len(answers[r]) <= 1 BY <2>1, EmptySeq
  <2>6. Backward(r) BY <2>1, <2>4, <2>5, HasEmpty DEF Backward, Replying
  <2> QED BY <2>3, <2>6
<1> QED BY <1>1, <1>2 DEF PlaceInv

LEMMA PlaceStep ==
    ASSUME TypeOK, NoIdleWorkerWhileQueued, PlaceInv, [Next]_vars
    PROVE  PlaceInv'
<1>1. Matching' BY MatchingStep DEF PlaceInv
<1>2. ASSUME NEW r \in Requests PROVE Forward(r)' /\ Backward(r)'
  <2>1. Matching /\ Forward(r) /\ Backward(r) BY DEF PlaceInv
  <2>2. CASE Peers BY <2>1, <2>2, PeersPlaces
  <2>3. CASE MessageRouter BY <2>1, <2>3, RouterPlaces
  <2>4. CASE HandleWorkerEvent BY <2>1, <2>4, WorkerEventPlaces
  <2>5. CASE HandleClientEvent BY <2>1, <2>5, ClientEventPlaces
  <2>6. CASE ClockTick \/ HeartbeatManager \/ UNCHANGED vars BY <2>1, <2>6, OtherPlaces
  <2> QED BY <2>2, <2>3, <2>4, <2>5, <2>6 DEF Next
<1> QED BY <1>1, <1>2 DEF PlaceInv

\* In every state a request, and the reply to it, is in one place, and the
\* lists of a service hold what names it.
THEOREM RequestsKeepTheirPlace == Spec => []PlaceInv
<1>1. TypeOK /\ NoIdleWorkerWhileQueued /\ PlaceInv /\ [Next]_vars => PlaceInv' BY PlaceStep
<1> QED BY <1>1, PlaceInit, TypeCorrect, NoIdleWorker, PTL DEF Spec

\* However workers register, vanish and answer late, a client gets at most one
\* answer to a request: the broker never sends a request to two workers, and it
\* sends none that it has rejected.
THEOREM OneAnswer == Spec => []AtMostOneAnswer
<1>1. PlaceInv => AtMostOneAnswer BY DEF PlaceInv, Backward, AtMostOneAnswer
<1> QED BY <1>1, RequestsKeepTheirPlace, PTL

-----------------------------------------------------------------------------
(* The phase of a request follows from its place *)

Placed(r) ==
    /\ InFlight(r) <=> Underway(r)
    /\ r \in Range(requests[Target[r]]) <=> Queued(r)
    /\ r \notin received => Phase(r) = "new"
    /\ Underway(r) => Phase(r) = "pending"
    /\ Queued(r) => Phase(r) = "held"
    /\ sent[r] # <<>> => Phase(r) = "given"
    /\ sent[r] = <<>> /\ answers[r] # <<>> => Phase(r) = "rejected"
    /\ r \in received /\ ~Underway(r) /\ ~Queued(r) /\ sent[r] = <<>> /\ answers[r] = <<>>
         => Phase(r) = "lost"

LEMMA PhasePlaces == TypeOK /\ PlaceInv => \A r \in Requests : Placed(r)
<1> SUFFICES ASSUME TypeOK, PlaceInv, NEW r \in Requests PROVE Placed(r) OBVIOUS
<1>1. Forward(r) BY DEF PlaceInv
<1>2. /\ messagesCh \in Seq(WorkerMsgs \cup ClientMsgs) /\ clientEventsCh \in Seq(ClientMsgs)
      /\ requests[Target[r]] \in Seq(Requests)
  BY Capacities DEF TypeOK, RegistryType, ChannelType
<1>3. /\ ClientMsg(r) \in Range(messagesCh) <=> Has(messagesCh, Asking(r))
      /\ ClientMsg(r) \in Range(clientEventsCh) <=> Has(clientEventsCh, Asking(r))
      /\ r \in Range(requests[Target[r]]) <=> Queued(r)
  BY <1>2, HasRange DEF Asking, Queued
<1>4. InFlight(r) <=> Underway(r) BY <1>3 DEF InFlight, Underway, Handled
<1>5. Phase(r) = CASE r \notin received                      -> "new"
                   [] Underway(r)                            -> "pending"
                   [] Queued(r)                              -> "held"
                   [] sent[r] # <<>>                         -> "given"
                   [] sent[r] = <<>> /\ answers[r] # <<>>    -> "rejected"
                   [] OTHER                                  -> "lost"
  BY <1>3, <1>4 DEF Phase
<1>6. /\ r \notin received => ~Underway(r) /\ ~Queued(r) /\ sent[r] = <<>> /\ answers[r] = <<>>
      /\ Underway(r) => r \in received /\ ~Queued(r) /\ sent[r] = <<>> /\ answers[r] = <<>>
      /\ Queued(r) => r \in received /\ ~Underway(r) /\ sent[r] = <<>> /\ answers[r] = <<>>
      /\ sent[r] # <<>> => r \in received
      /\ answers[r] # <<>> => r \in received
  BY <1>1 DEF Forward
<1>7. r \notin received => Phase(r) = "new" BY <1>5, <1>6
<1>8. Underway(r) => Phase(r) = "pending" BY <1>5, <1>6
<1>9. Queued(r) => Phase(r) = "held" BY <1>5, <1>6
<1>10. sent[r] # <<>> => Phase(r) = "given" BY <1>5, <1>6
<1>11. sent[r] = <<>> /\ answers[r] # <<>> => Phase(r) = "rejected" BY <1>5, <1>6
<1>12. r \in received /\ ~Underway(r) /\ ~Queued(r) /\ sent[r] = <<>> /\ answers[r] = <<>>
         => Phase(r) = "lost"
  BY <1>5
<1> QED BY <1>3, <1>4, <1>7, <1>8, <1>9, <1>10, <1>11, <1>12 DEF Placed

\* A step that leaves a request where it was.  More answers to a request that
\* was sent to a worker do not count.
Stays(r) ==
    /\ r \in received' <=> r \in received
    /\ Underway(r)' <=> Underway(r)
    /\ Queued(r)' <=> Queued(r)
    /\ sent'[r] = sent[r]
    /\ sent[r] = <<>> => answers'[r] = answers[r]

LEMMA StaysInPhase ==
    ASSUME NEW r \in Requests, Placed(r), Placed(r)', Stays(r)
    PROVE  Phase(r)' = Phase(r)
<1>1. CASE r \notin received BY <1>1 DEF Placed, Stays
<1>2. CASE Underway(r) BY <1>2 DEF Placed, Stays
<1>3. CASE Queued(r) BY <1>3 DEF Placed, Stays
<1>4. CASE sent[r] # <<>> BY <1>4 DEF Placed, Stays
<1>5. CASE sent[r] = <<>> /\ answers[r] # <<>> BY <1>5 DEF Placed, Stays
<1>6. CASE r \in received /\ ~Underway(r) /\ ~Queued(r) /\ sent[r] = <<>> /\ answers[r] = <<>>
  BY <1>6 DEF Placed, Stays
<1> QED BY <1>1, <1>2, <1>3, <1>4, <1>5, <1>6

Stutters == UNCHANGED <<requests, sent>> /\ \A r \in Requests : Stays(r)

\* The step is about the request q alone.
Concerns(q) == \A r \in Requests : r # q => Stays(r)

AbstractStep == [Lifecycle!Next]_Lifecycle!vars

LEMMA StutterStep ==
    ASSUME \A r \in Requests : Placed(r), \A r \in Requests : Placed(r)', Stutters
    PROVE  AbstractStep
<1>1. \A r \in Requests : Phase(r)' = Phase(r) BY StaysInPhase DEF Stutters
<1>2. [r \in Requests |-> Phase(r)]' = [r \in Requests |-> Phase(r)] BY <1>1
<1> QED BY <1>2 DEF Stutters, AbstractStep, Lifecycle!vars

LEMMA MovesTo ==
    ASSUME \A r \in Requests : Placed(r), \A r \in Requests : Placed(r)',
           NEW q \in Requests, Concerns(q), NEW p, Phase(q)' = p
    PROVE  [r \in Requests |-> Phase(r)]' = [[r \in Requests |-> Phase(r)] EXCEPT ![q] = p]
<1>1. \A r \in Requests : r # q => Phase(r)' = Phase(r) BY StaysInPhase DEF Concerns
<1> QED BY <1>1

\* A request that is new or on its way to a handler goes on, or is dropped.
LEMMA GoesOnOrIsLost ==
    ASSUME \A r \in Requests : Placed(r), \A r \in Requests : Placed(r)',
           NEW q \in Requests, Concerns(q), Forward(q), Forward(q)',
           q \notin received \/ Underway(q), q \in received', ~Queued(q)',
           UNCHANGED <<requests, sent, answers>>
    PROVE  AbstractStep
<1> DEFINE phases == [r \in Requests |-> Phase(r)]
<1>1. sent[q] = <<>> /\ answers[q] = <<>> BY DEF Forward
<1>2. Phase(q)' \in {"pending", "lost"}
  <2>1. CASE Underway(q)' BY <2>1 DEF Placed
  <2>2. CASE ~Underway(q)' BY <1>1, <2>2 DEF Placed
  <2> QED BY <2>1, <2>2
<1>3. Phase(q) \in {"new", "pending"} BY DEF Placed
<1>4. phases[q] = Phase(q) OBVIOUS
<1>5. CASE Phase(q)' = "lost"
  <2>1. phases' = [phases EXCEPT ![q] = "lost"] BY <1>5, MovesTo
  <2> HIDE DEF phases
  <2>2. Lifecycle!Lose(q) BY <1>3, <1>4, <2>1 DEF Lifecycle!Lose, phases
  <2> QED BY <2>2 DEF AbstractStep, Lifecycle!Next
<1>6. CASE Phase(q)' = "pending" /\ Phase(q) = "new"
  <2>1. phases' = [phases EXCEPT ![q] = "pending"] BY <1>6, MovesTo
  <2> HIDE DEF phases
  <2>2. Lifecycle!Submit(q) BY <1>4, <1>6, <2>1 DEF Lifecycle!Submit, phases
  <2> QED BY <2>2 DEF AbstractStep, Lifecycle!Next
<1>7. CASE Phase(q)' = "pending" /\ Phase(q) = "pending"
  <2>1. \A r \in Requests : Phase(r)' = Phase(r) BY <1>7, StaysInPhase DEF Concerns
  <2>2. phases' = phases BY <2>1
  <2> QED BY <2>2 DEF AbstractStep, Lifecycle!vars
<1> QED BY <1>2, <1>3, <1>5, <1>6, <1>7

\* A request on its way to a handler is sent to a worker of its service.
LEMMA GiveNewStep ==
    ASSUME \A r \in Requests : Placed(r), \A r \in Requests : Placed(r)', TypeOK,
           NEW q \in Requests, Concerns(q), Forward(q), Underway(q),
           NEW u \in Workers, ServiceOf[u] = Target[q],
           sent' = [sent EXCEPT ![q] = Append(@, u)], UNCHANGED requests
    PROVE  AbstractStep
<1> DEFINE phases == [r \in Requests |-> Phase(r)]
<1>1. sent[q] = <<>> /\ sent \in [Requests -> Seq(Workers)] BY DEF Forward, TypeOK, OutputType
<1>2. sent' = [sent EXCEPT ![q] = <<u>>] /\ sent'[q] = <<u>> BY <1>1
<1>3. Phase(q)' = "given"
  <2>1. <<u>> # <<>> OBVIOUS
  <2> QED BY <1>2, <2>1 DEF Placed
<1>4. Phase(q) = "pending" /\ phases[q] = "pending" BY DEF Placed
<1>5. phases' = [phases EXCEPT ![q] = "given"] BY <1>3, MovesTo
<1> HIDE DEF phases
<1>6. Lifecycle!GiveNew(q, u)
  BY <1>2, <1>4, <1>5 DEF Lifecycle!GiveNew, Lifecycle!Give, phases
<1> QED BY <1>6 DEF AbstractStep, Lifecycle!Next

\* The oldest request a service holds is sent to a worker of that service.
LEMMA GiveOldestStep ==
    ASSUME \A r \in Requests : Placed(r), \A r \in Requests : Placed(r)', TypeOK,
           NEW s \in Services, requests[s] # <<>>,
           NEW q \in Requests, q = Head(requests[s]), Concerns(q), Forward(q), Queued(q),
           NEW u \in Workers, ServiceOf[u] = Target[q],
           sent' = [sent EXCEPT ![q] = Append(@, u)],
           requests' = [requests EXCEPT ![s] = Tail(@)]
    PROVE  AbstractStep
<1> DEFINE phases == [r \in Requests |-> Phase(r)]
<1>1. sent[q] = <<>> /\ sent \in [Requests -> Seq(Workers)] BY DEF Forward, TypeOK, OutputType
<1>2. sent' = [sent EXCEPT ![q] = <<u>>] /\ sent'[q] = <<u>> BY <1>1
<1>3. Phase(q)' = "given"
  <2>1. <<u>> # <<>> OBVIOUS
  <2> QED BY <1>2, <2>1 DEF Placed
<1>4. phases' = [phases EXCEPT ![q] = "given"] BY <1>3, MovesTo
<1> HIDE DEF phases
<1>5. Lifecycle!GiveOldest(s, u)
  BY <1>2, <1>4 DEF Lifecycle!GiveOldest, Lifecycle!Give, phases
<1> QED BY <1>5 DEF AbstractStep, Lifecycle!Next

\* What it takes for a request to stay where it was.
LEMMA StaysIf ==
    ASSUME NEW r \in Requests, r \in received' <=> r \in received,
           Has(messagesCh', Asking(r)) <=> Has(messagesCh, Asking(r)),
           Has(clientEventsCh', Asking(r)) <=> Has(clientEventsCh, Asking(r)),
           Handled(r)' <=> Handled(r), Queued(r)' <=> Queued(r), sent'[r] = sent[r],
           sent[r] = <<>> => answers'[r] = answers[r]
    PROVE  Stays(r)
BY DEF Stays, Underway

\* A step that has nothing to do with requests.
LEMMA NothingAsked ==
    ASSUME UNCHANGED <<received, requests, messagesCh, clientEventsCh, cpc, sent>>,
           \A r \in Requests : sent[r] = <<>> => answers'[r] = answers[r]
    PROVE  Stutters
<1> SUFFICES ASSUME NEW r \in Requests PROVE Stays(r) BY DEF Stutters
<1>1. /\ Handled(r)' <=> Handled(r)
      /\ Queued(r)' <=> Queued(r)
  BY DEF Handled, Queued
<1> QED BY <1>1, StaysIf

\* A message that arrives in messagesCh concerns no request it does not ask for.
LEMMA ArrivalStays ==
    ASSUME TypeOK, NEW m \in WorkerMsgs \cup ClientMsgs, SocketReader(m),
           NEW r \in Requests, m \notin Asking(r), UNCHANGED <<sent, answers>>,
           r \in received' <=> r \in received
    PROVE  Stays(r)
<1>1. /\ messagesCh \in Seq(WorkerMsgs \cup ClientMsgs) /\ messagesCh' = Offer(messagesCh, MessagesCap, m)
      /\ UNCHANGED <<requests, clientEventsCh, cpc>>
  BY DEF TypeOK, ChannelType, SocketReader, queues
<1>2. Has(messagesCh', Asking(r)) <=> Has(messagesCh, Asking(r)) BY <1>1, HasOffer
<1>3. /\ Handled(r)' <=> Handled(r)
      /\ Queued(r)' <=> Queued(r)
  BY <1>1 DEF Handled, Queued
<1> QED BY <1>1, <1>2, <1>3, StaysIf

LEMMA PeersStep ==
    ASSUME TypeOK, PlaceInv, PlaceInv', Peers,
           \A r \in Requests : Placed(r), \A r \in Requests : Placed(r)'
    PROVE  AbstractStep
<1>1. ASSUME NEW w \in Workers, RecvReady(w) \/ RecvControl(w) PROVE AbstractStep
  <2>1. PICK k \in {"READY", "HEARTBEAT", "DISCONNECT"} : SocketReader(WorkerMsg(k, w, ""))
    BY <1>1 DEF RecvReady, RecvControl
  <2>2. WorkerMsg(k, w, "") \in WorkerMsgs BY DEF WorkerMsg, WorkerMsgs
  <2>3. UNCHANGED <<sent, answers, received, requests>>
    BY <1>1, <2>1 DEF RecvReady, RecvControl, output, SocketReader, queues
  <2>4. ASSUME NEW r \in Requests PROVE Stays(r)
    <3>1. WorkerMsg(k, w, "") \notin Asking(r) BY Kinds
    <3> QED BY <2>1, <2>2, <2>3, <3>1, ArrivalStays
  <2> QED BY <2>3, <2>4, StutterStep DEF Stutters
<1>2. ASSUME NEW w \in Workers, NEW b \in {DeviceList, ListFailed} \cup Requests, RecvReply(w, b)
      PROVE  AbstractStep
  <2> DEFINE m == WorkerMsg("REPLY", w, b)
  <2>1. SocketReader(m) /\ UNCHANGED <<sent, answers, received, requests>>
    BY <1>2 DEF RecvReply, SocketReader, queues
  <2>2. m \in WorkerMsgs BY DEF WorkerMsg, WorkerMsgs
  <2>3. ASSUME NEW r \in Requests PROVE Stays(r)
    <3>1. m \notin Asking(r) BY Kinds
    <3> QED BY <2>1, <2>2, <3>1, ArrivalStays
  <2> QED BY <2>1, <2>3, StutterStep DEF Stutters
<1>3. ASSUME NEW q \in Requests, RecvRequest(q) PROVE AbstractStep
  <2> DEFINE m == ClientMsg(q)
  <2>1. /\ q \notin received /\ received' = received \cup {q}
        /\ SocketReader(m) /\ UNCHANGED <<requests, sent, answers>>
    BY <1>3 DEF RecvRequest, output, SocketReader, queues
  <2>2. m \in ClientMsgs BY DEF ClientMsg, ClientMsgs
  <2>3. Concerns(q)
    <3> SUFFICES ASSUME NEW r \in Requests, r # q PROVE Stays(r) BY DEF Concerns
    <3>1. m \notin Asking(r) BY Kinds
    <3> QED BY <2>1, <2>2, <3>1, ArrivalStays
  <2>4. Forward(q) /\ Forward(q)' BY DEF PlaceInv
  <2>5. ~Queued(q)' BY <2>1, <2>4 DEF Queued, Forward
  <2> QED BY <2>1, <2>3, <2>4, <2>5, GoesOnOrIsLost
<1> QED BY <1>1, <1>2, <1>3 DEF Peers

LEMMA RouterStep ==
    ASSUME TypeOK, PlaceInv, PlaceInv', MessageRouter,
           \A r \in Requests : Placed(r), \A r \in Requests : Placed(r)'
    PROVE  AbstractStep
<1> DEFINE m == Head(messagesCh)
<1>1. /\ messagesCh \in Seq(WorkerMsgs \cup ClientMsgs) /\ messagesCh # <<>>
      /\ messagesCh' = Tail(messagesCh) /\ clientEventsCh \in Seq(ClientMsgs)
      /\ UNCHANGED <<requests, cpc, sent, answers, received>>
  BY DEF TypeOK, ChannelType, MessageRouter, queues, output
<1>2. m \in WorkerMsgs \cup ClientMsgs BY <1>1, HeadTailProperties
<1>3. ASSUME NEW r \in Requests, m \notin Asking(r),
             Has(clientEventsCh', Asking(r)) <=> Has(clientEventsCh, Asking(r))
      PROVE  Stays(r)
  <2>1. Has(messagesCh', Asking(r)) <=> Has(messagesCh, Asking(r)) BY <1>1, <1>3, HasTail
  <2>2. /\ Handled(r)' <=> Handled(r)
        /\ Queued(r)' <=> Queued(r)
    BY <1>1 DEF Handled, Queued
  <2> QED BY <1>1, <1>3, <2>1, <2>2, StaysIf
<1>4. CASE m.kind = "REQ"
  <2>1. m \in ClientMsgs BY <1>2, <1>4 DEF WorkerMsgs, ClientMsgs
  <2>2. PICK q \in Requests : m = ClientMsg(q) BY <2>1 DEF ClientMsgs, ClientMsg
  <2>3. clientEventsCh' = Offer(clientEventsCh, EventsCap, m) BY <1>4 DEF MessageRouter
  <2>4. Concerns(q)
    <3> SUFFICES ASSUME NEW r \in Requests, r # q PROVE Stays(r) BY DEF Concerns
    <3>1. m \notin Asking(r) BY <2>2, Kinds
    <3>2. Has(clientEventsCh', Asking(r)) <=> Has(clientEventsCh, Asking(r))
      BY <1>1, <2>1, <2>3, <3>1, HasOffer
    <3> QED BY <1>3, <3>1, <3>2
  <2>5. Underway(q)
    <3>1. m \in Asking(q) BY <2>2, Kinds
    <3> QED BY <1>1, <3>1, HasTail DEF Underway
  <2>6. Forward(q) /\ Forward(q)' BY DEF PlaceInv
  <2>7. q \in received' /\ ~Queued(q)' BY <1>1, <2>5, <2>6 DEF Forward, Queued
  <2> QED BY <1>1, <2>4, <2>5, <2>6, <2>7, GoesOnOrIsLost
<1>5. CASE m.kind # "REQ"
  <2>1. UNCHANGED clientEventsCh BY <1>5 DEF MessageRouter
  <2>2. \A r \in Requests : m \notin Asking(r) BY <1>5 DEF Asking, ClientMsg
  <2>3. \A r \in Requests : Stays(r) BY <1>3, <2>1, <2>2
  <2> QED BY <1>1, <2>3, StutterStep DEF Stutters
<1> QED BY <1>4, <1>5

LEMMA WorkerEventStep ==
    ASSUME TypeOK, NoIdleWorkerWhileQueued, PlaceInv, HandleWorkerEvent,
           \A r \in Requests : Placed(r), \A r \in Requests : Placed(r)'
    PROVE  AbstractStep
<1>1. ASSUME NEW w \in Workers, HandleWorkerReady(w) \/ HandleWorkerDisconnect(w)
      PROVE  AbstractStep
  <2>1. UNCHANGED <<received, requests, messagesCh, clientEventsCh, cpc, sent, answers>>
    BY <1>1 DEF HandleWorkerReady, HandleWorkerDisconnect, RemoveWorker, WorkerEvent, output, queues
  <2> QED BY <2>1, NothingAsked, StutterStep
<1>2. ASSUME NEW w \in Workers, NEW b \in {"", DeviceList, ListFailed} \cup Requests, LookupWorker(w, b)
      PROVE  AbstractStep
  <2>1. UNCHANGED <<received, requests, messagesCh, clientEventsCh, cpc, sent, answers>>
    BY <1>2 DEF LookupWorker, WorkerEvent, output, queues
  <2> QED BY <2>1, NothingAsked, StutterStep
<1>3. ASSUME NEW w \in Workers, NEW b \in {"", DeviceList, ListFailed} \cup Requests, HandleUnknown(w, b)
      PROVE  AbstractStep
  <2>1. UNCHANGED <<received, requests, messagesCh, clientEventsCh, cpc, sent>>
    BY <1>3 DEF HandleUnknown, WorkerEvent, queues
  <2>2. ASSUME NEW r \in Requests, sent[r] = <<>> PROVE answers'[r] = answers[r]
    <3>1. CASE UNCHANGED answers BY <3>1
    <3>2. CASE WorkerEvent("REPLY", w, b) /\ answers' = ReplyForwarded(b)
      <4>1. Backward(r) BY DEF PlaceInv
      <4>2. ~Has(workerEventsCh, Replies(r)) BY <2>2, <4>1 DEF Backward, Replying
      <4>3. WorkerMsg("REPLY", w, b) \notin Replies(r) BY <3>2, <4>2, TakeWorkerEvent
      <4>4. b # r BY <4>3, Kinds
      <4> QED BY <3>2, <4>4 DEF ReplyForwarded
    <3> QED BY <1>3, <3>1, <3>2 DEF HandleUnknown
  <2> QED BY <2>1, <2>2, NothingAsked, StutterStep
<1>4. CASE FinishWorkerEvent
  <2>1. /\ UNCHANGED <<received, requests, messagesCh, clientEventsCh, cpc, sent>>
        /\ wpc.step = "found" /\ answers' = ReplyForwarded(wpc.body)
    BY <1>4 DEF FinishWorkerEvent, queues, channels
  <2>2. ASSUME NEW r \in Requests, sent[r] = <<>> PROVE answers'[r] = answers[r]
    <3>1. Backward(r) BY DEF PlaceInv
    <3>2. ~Found(r) BY <2>2, <3>1 DEF Backward, Replying
    <3>3. wpc.body # r BY <2>1, <3>2 DEF Found, Idle
    <3> QED BY <2>1, <3>3 DEF ReplyForwarded
  <2> QED BY <2>1, <2>2, NothingAsked, StutterStep
<1>5. CASE ProcessPendingRequests
  <2> DEFINE s == ServiceOf[wpc.worker]
  <2>1. /\ wpc.worker \in Workers
        /\ UNCHANGED <<messagesCh, clientEventsCh, cpc, answers, received>>
        /\ GivesNone \/ GivesOldest(s)
    BY <1>5, PendingGiven
  <2>2. s \in Services BY <2>1, Capacities
  <2> HIDE DEF s
  <2>3. CASE GivesNone BY <2>1, <2>3, NothingAsked, StutterStep DEF GivesNone
  <2>4. CASE GivesOldest(s)
    <3> DEFINE q == Head(requests[s])
               u == Head(waiting[s])
    <3>1. /\ requests[s] # <<>> /\ waiting[s] # <<>>
          /\ requests' = [requests EXCEPT ![s] = Tail(requests[s])]
          /\ sent' = [sent EXCEPT ![q] = Append(@, u)]
      BY <2>4 DEF GivesOldest
    <3>2. q \in Asked(s) /\ u \in Serving(s)
      BY <2>2, <3>1, HeadTailProperties DEF PlaceInv, Matching
    <3>3. q \in Requests /\ Target[q] = s /\ u \in Workers /\ ServiceOf[u] = s
      BY <3>2 DEF Asked, Serving
    <3>4. /\ requests \in [Services -> Seq(Requests)] /\ requests[s] \in Seq(Requests)
          /\ sent \in [Requests -> Seq(Workers)]
      BY <2>2 DEF TypeOK, RegistryType, OutputType
    <3>5. Concerns(q)
      <4> SUFFICES ASSUME NEW r \in Requests, r # q PROVE Stays(r) BY DEF Concerns
      <4>1. Queued(r)' <=> Queued(r)
        <5>1. CASE Target[r] = s
          <6>1. requests'[Target[r]] = Tail(requests[s]) BY <2>2, <3>1, <3>4, <5>1
          <6>2. Has(requests[s], {r}) <=> Has(Tail(requests[s]), {r}) BY <3>1, <3>4, HasTail
          <6> QED BY <5>1, <6>1, <6>2 DEF Queued
        <5>2. CASE Target[r] # s
          <6>1. requests'[Target[r]] = requests[Target[r]] BY <3>1, <3>4, <5>2, Capacities
          <6> QED BY <6>1 DEF Queued
        <5> QED BY <5>1, <5>2
      <4>2. sent'[r] = sent[r] BY <3>1, <3>4
      <4>3. Handled(r)' <=> Handled(r) BY <2>1 DEF Handled
      <4> QED BY <2>1, <4>1, <4>2, <4>3, StaysIf
    <3>6. Forward(q) /\ Queued(q)
      <4>1. Has(requests[s], {q}) BY <3>1, <3>4, HasTail
      <4> QED BY <3>3, <4>1 DEF PlaceInv, Queued
    <3> HIDE DEF q, u
    <3>7. q = Head(requests[s]) BY DEF q
    <3> QED BY <2>2, <3>1, <3>3, <3>5, <3>6, <3>7, GiveOldestStep
  <2> QED BY <2>1, <2>3, <2>4
<1> QED BY <1>1, <1>2, <1>3, <1>4, <1>5 DEF HandleWorkerEvent

\* A client event concerns no request but its own.
LEMMA ClientEventStays ==
    ASSUME TypeOK, NEW q \in Requests, ClientEvent(q), NEW r \in Requests, r # q,
           ~Handled(r)', Queued(r)' <=> Queued(r),
           sent'[r] = sent[r], answers'[r] = answers[r]
    PROVE  Stays(r)
<1>1. /\ clientEventsCh \in Seq(ClientMsgs) /\ clientEventsCh # <<>>
      /\ Head(clientEventsCh) = ClientMsg(q) /\ clientEventsCh' = Tail(clientEventsCh)
      /\ cpc = Idle /\ UNCHANGED <<messagesCh, received>>
  BY DEF TypeOK, ChannelType, ClientEvent
<1>2. ClientMsg(q) \notin Asking(r) BY Kinds
<1>3. Has(clientEventsCh', Asking(r)) <=> Has(clientEventsCh, Asking(r)) BY <1>1, <1>2, HasTail
<1>4. Handled(r)' <=> Handled(r) BY <1>1 DEF Handled
<1> QED BY <1>1, <1>3, <1>4, StaysIf

LEMMA ClientEventUnderway ==
    ASSUME TypeOK, PlaceInv, NEW q \in Requests, ClientEvent(q)
    PROVE  /\ Forward(q) /\ Underway(q) /\ ~Queued(q) /\ q \in received
           /\ sent[q] = <<>> /\ answers[q] = <<>> /\ cpc = Idle
<1>1. Has(clientEventsCh, Asking(q)) BY TakeClientEvent, Kinds
<1>2. Forward(q) BY DEF PlaceInv
<1> QED BY <1>1, <1>2 DEF Forward, Underway, ClientEvent

LEMMA RejectStep ==
    ASSUME TypeOK, PlaceInv, NEW q \in Requests, RejectRequest(q),
           \A r \in Requests : Placed(r), \A r \in Requests : Placed(r)'
    PROVE  AbstractStep
<1> DEFINE phases == [r \in Requests |-> Phase(r)]
<1>1. /\ ClientEvent(q) /\ UNCHANGED <<requests, cpc, sent>>
      /\ answers' = [answers EXCEPT ![q] = Append(@, "error")]
  BY DEF RejectRequest, queues
<1>2. Underway(q) /\ sent[q] = <<>> /\ answers[q] = <<>> /\ cpc = Idle
  BY <1>1, ClientEventUnderway
<1>3. answers \in [Requests -> Seq({"error", "reply"})] BY DEF TypeOK, OutputType
<1>4. Concerns(q)
  <2> SUFFICES ASSUME NEW r \in Requests, r # q PROVE Stays(r) BY DEF Concerns
  <2>1. /\ ~Handled(r)' /\ answers'[r] = answers[r]
        /\ Queued(r)' <=> Queued(r)
    BY <1>1, <1>2, <1>3 DEF Handled, Queued
  <2> QED BY <1>1, <2>1, ClientEventStays
<1>5. Phase(q)' = "rejected"
  <2>1. answers'[q] = Append(<<>>, "error") BY <1>1, <1>2, <1>3
  <2>2. answers'[q] # <<>>
    <3>1. <<>> \in Seq({"error"}) /\ Len(<<>>) = 0 BY EmptySeq
    <3>2. Len(answers'[q]) = 1 BY <2>1, <3>1, AppendProperties
    <3> QED BY <3>1, <3>2
  <2> QED BY <1>1, <1>2, <2>2 DEF Placed
<1>6. phases[q] = "pending" BY <1>2 DEF Placed
<1>7. phases' = [phases EXCEPT ![q] = "rejected"] BY <1>4, <1>5, MovesTo
<1> HIDE DEF phases
<1>8. Lifecycle!Reject(q) BY <1>1, <1>6, <1>7 DEF Lifecycle!Reject, phases
<1> QED BY <1>8 DEF AbstractStep, Lifecycle!Next

LEMMA QueueStep ==
    ASSUME TypeOK, PlaceInv, NEW q \in Requests, QueueRequest(q),
           \A r \in Requests : Placed(r), \A r \in Requests : Placed(r)'
    PROVE  AbstractStep
<1> DEFINE phases == [r \in Requests |-> Phase(r)]
           s == Target[q]
<1>1. /\ ClientEvent(q) /\ UNCHANGED <<cpc, sent, answers>>
      /\ requests' = [requests EXCEPT ![s] = Append(requests[s], q)]
  BY DEF QueueRequest, AtBack
<1>2. Underway(q) /\ cpc = Idle BY <1>1, ClientEventUnderway
<1>3. /\ requests \in [Services -> Seq(Requests)] /\ s \in Services /\ requests[s] \in Seq(Requests)
  BY Capacities DEF TypeOK, RegistryType
<1>4. \A r : Has(Append(requests[s], q), {r}) <=> Has(requests[s], {r}) \/ q \in {r}
  BY <1>3, HasAppend
<1>5. Concerns(q)
  <2> SUFFICES ASSUME NEW r \in Requests, r # q PROVE Stays(r) BY DEF Concerns
  <2>1. Queued(r)' <=> Queued(r)
    <3>1. CASE Target[r] = s BY <1>1, <1>3, <1>4, <3>1 DEF Queued
    <3>2. CASE Target[r] # s
      <4>1. requests'[Target[r]] = requests[Target[r]] BY <1>1, <1>3, <3>2, Capacities
      <4> QED BY <4>1 DEF Queued
    <3> QED BY <3>1, <3>2
  <2>2. ~Handled(r)' BY <1>1, <1>2 DEF Handled
  <2> QED BY <1>1, <2>1, <2>2, ClientEventStays
<1>6. Phase(q)' = "held"
  <2>1. Queued(q)' BY <1>1, <1>3, <1>4 DEF Queued
  <2> QED BY <2>1 DEF Placed
<1>7. phases[q] = "pending" BY <1>2 DEF Placed
<1>8. phases' = [phases EXCEPT ![q] = "held"] BY <1>5, <1>6, MovesTo
<1> HIDE DEF phases
<1>9. Lifecycle!HoldBack(q) BY <1>1, <1>7, <1>8 DEF Lifecycle!HoldBack, phases
<1> QED BY <1>9 DEF AbstractStep, Lifecycle!Next

LEMMA ClientEventStep ==
    ASSUME TypeOK, PlaceInv, HandleClientEvent,
           \A r \in Requests : Placed(r), \A r \in Requests : Placed(r)'
    PROVE  AbstractStep
<1>1. ASSUME NEW q \in Requests, RejectRequest(q) PROVE AbstractStep BY <1>1, RejectStep
<1>2. ASSUME NEW q \in Requests, PickHubWorker(q) PROVE AbstractStep
  <2>1. /\ ClientEvent(q) /\ UNCHANGED <<requests, sent, answers>>
        /\ cpc' = [step |-> "send", request |-> q, worker |-> Head(svcWorkers[HubControl])]
    BY <1>2 DEF PickHubWorker, queues
  <2>2. Underway(q) /\ ~Queued(q) /\ q \in received BY <2>1, ClientEventUnderway
  <2>3. ASSUME NEW r \in Requests, r # q PROVE Stays(r)
    <3>1. /\ ~Handled(r)'
          /\ Queued(r)' <=> Queued(r)
      BY <2>1, <2>3 DEF Handled, Queued
    <3> QED BY <2>1, <2>3, <3>1, ClientEventStays
  <2>4. Stays(q)
    <3>1. Handled(q)' BY <2>1 DEF Handled, Idle
    <3>2. Queued(q)' <=> Queued(q) BY <2>1 DEF Queued
    <3>3. UNCHANGED received BY <2>1 DEF ClientEvent
    <3> QED BY <2>1, <2>2, <3>1, <3>2, <3>3 DEF Stays, Underway
  <2> QED BY <2>1, <2>3, <2>4, StutterStep DEF Stutters
<1>3. ASSUME NEW q \in Requests, QueueRequest(q) PROVE AbstractStep BY <1>3, QueueStep
<1>4. ASSUME NEW q \in Requests, DispatchRequest(q) PROVE AbstractStep
  <2> DEFINE s == Target[q]
             u == Head(waiting[s])
  <2>1. /\ ClientEvent(q) /\ waiting[s] # <<>> /\ UNCHANGED <<requests, cpc, answers>>
        /\ sent' = [sent EXCEPT ![q] = Append(@, u)]
    BY <1>4 DEF DispatchRequest, Send
  <2>2. waiting[s] \in Seq(Serving(s)) BY Capacities DEF PlaceInv, Matching
  <2>3. u \in Workers /\ ServiceOf[u] = Target[q] BY <2>1, <2>2, HeadTailProperties DEF Serving
  <2> HIDE DEF u
  <2>4. Underway(q) /\ Forward(q) /\ cpc = Idle BY <2>1, ClientEventUnderway
  <2>5. Concerns(q)
    <3> SUFFICES ASSUME NEW r \in Requests, r # q PROVE Stays(r) BY DEF Concerns
    <3>1. /\ ~Handled(r)' /\ sent'[r] = sent[r]
          /\ Queued(r)' <=> Queued(r)
      BY <2>1, <2>4 DEF Handled, Queued, TypeOK, OutputType
    <3> QED BY <2>1, <3>1, ClientEventStays
  <2> QED BY <2>1, <2>3, <2>4, <2>5, GiveNewStep
<1>5. CASE SendToHubWorker
  <2> DEFINE q == cpc.request
             u == cpc.worker
  <2>1. /\ cpc.step = "send" /\ cpc' = Idle
        /\ sent' = [sent EXCEPT ![q] = Append(@, u)]
        /\ UNCHANGED <<requests, messagesCh, clientEventsCh, answers, received>>
    BY <1>5 DEF SendToHubWorker, Send, queues, channels
  <2>2. q \in Requests /\ u \in Workers /\ cpc # Idle BY <2>1, BusyHandlers DEF Idle
  <2>3. Handled(q) /\ Forward(q) BY <2>2 DEF Handled, PlaceInv
  <2>4. ServiceOf[u] = Target[q] BY <2>2 DEF PlaceInv, Matching
  <2>5. ASSUME NEW r \in Requests, r # q PROVE Stays(r)
    <3>1. /\ Handled(r)' <=> Handled(r)
          /\ Queued(r)' <=> Queued(r)
      BY <2>1, <2>5 DEF Handled, Queued
    <3>2. sent'[r] = sent[r] BY <2>1, <2>5 DEF TypeOK, OutputType
    <3> QED BY <2>1, <3>1, <3>2, StaysIf
  <2> HIDE DEF q, u
  <2>6. Concerns(q) /\ Underway(q) BY <2>3, <2>5 DEF Concerns, Underway
  <2> QED BY <2>1, <2>2, <2>3, <2>4, <2>6, GiveNewStep
<1> QED BY <1>1, <1>2, <1>3, <1>4, <1>5 DEF HandleClientEvent

LEMMA OtherStep ==
    ASSUME ClockTick \/ HeartbeatManager \/ UNCHANGED vars,
           \A r \in Requests : Placed(r), \A r \in Requests : Placed(r)'
    PROVE  AbstractStep
<1>1. UNCHANGED <<received, requests, messagesCh, clientEventsCh, cpc, sent, answers>>
  <2>1. CASE ClockTick BY <2>1 DEF ClockTick, queues, channels, output
  <2>2. CASE HeartbeatManager
    BY <2>2 DEF HeartbeatManager, TakeTick, PostHeartbeat, CollectExpired, CheckDone, RemoveExpired,
                RemoveWorker, BeatUnchanged, queues, channels, output
  <2>3. CASE UNCHANGED vars BY <2>3 DEF vars, queues, channels, output
  <2> QED BY <2>1, <2>2, <2>3
<1> QED BY <1>1, NothingAsked, StutterStep

\* Every step of the broker is a step of RequestLifecycle or a stutter.
LEMMA NextIsAbstract ==
    ASSUME TypeOK, NoIdleWorkerWhileQueued, PlaceInv, TypeOK', PlaceInv', [Next]_vars
    PROVE  AbstractStep
<1>1. \A r \in Requests : Placed(r) BY PhasePlaces
<1>2. (TypeOK /\ PlaceInv => \A r \in Requests : Placed(r))' BY PhasePlaces, PTL
<1>3. \A r \in Requests : Placed(r)' BY <1>2
<1> QED
  BY <1>1, <1>3, PeersStep, RouterStep, WorkerEventStep, ClientEventStep, OtherStep DEF Next

-----------------------------------------------------------------------------

\* The broker implements RequestLifecycle: whatever the interleaving of its
\* handlers, a request is lost, rejected or given to exactly one worker, one of
\* its service, and the requests held back leave in the order they came.
THEOREM BrokerImplementsLifecycle == Spec => ImplementsLifecycle
<1>1. Init => Lifecycle!Init
  <2> SUFFICES ASSUME Init PROVE Lifecycle!Init OBVIOUS
  <2>1. ASSUME NEW r \in Requests PROVE Phase(r) = "new"
    <3>1. /\ messagesCh = <<>> /\ clientEventsCh = <<>> /\ requests[Target[r]] = <<>>
          /\ cpc = Idle /\ sent[r] = <<>> /\ answers[r] = <<>> /\ r \notin received
      BY Capacities DEF Init
    <3>2. Range(<<>>) = {}
      <4>1. \A e \in Requests : e \notin Range(<<>>) BY EmptySeq, HasRange, HasEmpty
      <4> QED BY DEF Range
    <3>3. ~InFlight(r) /\ r \notin Range(requests[Target[r]]) BY <3>1, <3>2 DEF InFlight
    <3> QED BY <3>1, <3>3 DEF Phase
  <2> QED BY <2>1 DEF Init, Lifecycle!Init
<1>2. TypeOK /\ NoIdleWorkerWhileQueued /\ PlaceInv /\ TypeOK' /\ PlaceInv' /\ [Next]_vars
        => AbstractStep
  BY NextIsAbstract
<1> QED
  BY <1>1, <1>2, TypeCorrect, NoIdleWorker, RequestsKeepTheirPlace, PTL
  DEF Spec, ImplementsLifecycle, Lifecycle!Spec, AbstractStep

-----------------------------------------------------------------------------
(* That what became of a request stays so *)

Phases    == [r \in Requests |-> Phase(r)]
Final(r)  == Phase(r) \in {"given", "rejected", "lost"} => Phase(r)' = Phase(r) /\ sent'[r] = sent[r]
Kept(r)   == Phase(r) = "held" => Phase(r)' \in {"held", "given"}

\* A step that takes q from one phase to another.
Takes(q, from, to) == Phases[q] \in from /\ Phases' = [Phases EXCEPT ![q] = to]

LEMMA TakesOne ==
    ASSUME NEW q \in Requests, NEW from, NEW to, Takes(q, from, to), NEW r \in Requests
    PROVE  /\ Phase(q) \in from /\ Phase(q)' = to
           /\ r # q => Phase(r)' = Phase(r)
<1>1. Phases[q] = Phase(q) /\ Phases[r] = Phase(r) /\ Phases'[q] = Phase(q)' /\ Phases'[r] = Phase(r)'
  BY DEF Phases
<1>2. Phases \in [Requests -> {Phase(x) : x \in Requests}] BY DEF Phases
<1> QED BY <1>1, <1>2 DEF Takes

\* The oldest request held back is held, so it is given for the first time.
LEMMA OldestIsHeld ==
    ASSUME TypeOK, PlaceInv, NEW s \in Services, requests[s] # <<>>, \A r \in Requests : Placed(r)
    PROVE  Head(requests[s]) \in Requests /\ Phase(Head(requests[s])) = "held"
<1> DEFINE q == Head(requests[s])
<1>1. requests[s] \in Seq(Asked(s)) BY DEF PlaceInv, Matching
<1>2. q \in Asked(s) BY <1>1, HeadTailProperties
<1>3. q \in Requests /\ Target[q] = s BY <1>2 DEF Asked
<1>4. Queued(q)
  <2>1. Len(requests[s]) \in Nat \ {0} BY <1>1, EmptySeq
  <2>2. 1 \in DOMAIN requests[s] /\ requests[s][1] = q BY <1>1, <2>1, LenProperties
  <2> QED BY <1>3, <2>2 DEF Queued, Has
<1> QED BY <1>3, <1>4 DEF Placed

LEMMA OutcomeStep ==
    ASSUME TypeOK, PlaceInv, \A r \in Requests : Placed(r), AbstractStep, NEW r \in Requests
    PROVE  Final(r) /\ Kept(r)
<1> USE DEF Final, Kept
<1>1. ASSUME NEW q \in Requests, Lifecycle!Submit(q) \/ Lifecycle!Lose(q) \/ Lifecycle!Reject(q)
             \/ Lifecycle!HoldBack(q)
      PROVE  Final(r) /\ Kept(r)
  <2>1. UNCHANGED sent
    BY <1>1 DEF Lifecycle!Submit, Lifecycle!Lose, Lifecycle!Reject, Lifecycle!HoldBack
  <2>2. \E to : Takes(q, {"new", "pending"}, to)
    <3>1. CASE Lifecycle!Submit(q)
      <4>1. Phases[q] = "new" /\ Phases' = [Phases EXCEPT ![q] = "pending"]
        BY <3>1 DEF Lifecycle!Submit, Phases
      <4>2. Takes(q, {"new", "pending"}, "pending") BY <4>1 DEF Takes
      <4> QED BY <4>2
    <3>2. CASE Lifecycle!Lose(q)
      <4>1. Phases[q] \in {"new", "pending"} /\ Phases' = [Phases EXCEPT ![q] = "lost"]
        BY <3>2 DEF Lifecycle!Lose, Phases
      <4>2. Takes(q, {"new", "pending"}, "lost") BY <4>1 DEF Takes
      <4> QED BY <4>2
    <3>3. CASE Lifecycle!Reject(q)
      <4>1. Phases[q] = "pending" /\ Phases' = [Phases EXCEPT ![q] = "rejected"]
        BY <3>3 DEF Lifecycle!Reject, Phases
      <4>2. Takes(q, {"new", "pending"}, "rejected") BY <4>1 DEF Takes
      <4> QED BY <4>2
    <3>4. CASE Lifecycle!HoldBack(q)
      <4>1. Phases[q] = "pending" /\ Phases' = [Phases EXCEPT ![q] = "held"]
        BY <3>4 DEF Lifecycle!HoldBack, Phases
      <4>2. Takes(q, {"new", "pending"}, "held") BY <4>1 DEF Takes
      <4> QED BY <4>2
    <3> QED BY <1>1, <3>1, <3>2, <3>3, <3>4
  <2>3. Phase(q) \in {"new", "pending"} /\ (r # q => Phase(r)' = Phase(r)) BY <2>2, TakesOne
  <2> QED BY <2>1, <2>3
<1>2. ASSUME NEW q \in Requests, NEW w \in Workers, NEW from, Takes(q, from, "given"),
             sent' = [sent EXCEPT ![q] = <<w>>], Phase(q) \in {"pending", "held"}
      PROVE  Final(r) /\ Kept(r)
  <2>1. r # q => sent'[r] = sent[r] BY <1>2 DEF TypeOK, OutputType
  <2>2. Phase(q)' = "given" /\ (r # q => Phase(r)' = Phase(r)) BY <1>2, TakesOne
  <2>3. CASE r = q BY <1>2, <2>2, <2>3
  <2>4. CASE r # q BY <2>1, <2>2, <2>4
  <2> QED BY <2>3, <2>4
<1>3. ASSUME NEW q \in Requests, NEW w \in Workers, Lifecycle!GiveNew(q, w)
      PROVE  Final(r) /\ Kept(r)
  <2>1. Takes(q, {"pending"}, "given") /\ sent' = [sent EXCEPT ![q] = <<w>>]
    BY <1>3 DEF Lifecycle!GiveNew, Lifecycle!Give, Takes, Phases
  <2>2. Phase(q) \in {"pending"} BY <2>1, TakesOne
  <2> QED BY <1>2, <2>1, <2>2
<1>4. ASSUME NEW s \in Services, NEW w \in Workers, Lifecycle!GiveOldest(s, w)
      PROVE  Final(r) /\ Kept(r)
  <2> DEFINE q == Head(requests[s])
  <2>1. q \in Requests /\ Phase(q) = "held" BY <1>4, OldestIsHeld DEF Lifecycle!GiveOldest
  <2>2. Phases' = [Phases EXCEPT ![q] = "given"] /\ sent' = [sent EXCEPT ![q] = <<w>>]
    BY <1>4 DEF Lifecycle!GiveOldest, Lifecycle!Give, Phases
  <2>3. Takes(q, {"held"}, "given") BY <2>1, <2>2 DEF Takes, Phases
  <2> HIDE DEF q
  <2> QED BY <1>2, <2>1, <2>2, <2>3
<1>5. CASE UNCHANGED Lifecycle!vars
  <2>1. Phases' = Phases /\ UNCHANGED sent BY <1>5 DEF Lifecycle!vars, Phases
  <2>2. Phases[r] = Phase(r) /\ Phases'[r] = Phase(r)' BY DEF Phases
  <2> QED BY <2>1, <2>2
<1> QED BY <1>1, <1>3, <1>4, <1>5 DEF AbstractStep, Lifecycle!Next

\* What became of a request stays so: one that was given, rejected or lost is
\* never queued, given or rejected again, and one that is held back while no
\* worker is free is not forgotten.
THEOREM OutcomesAreFinal == Spec => OutcomeIsFinal
<1>1. TypeOK /\ NoIdleWorkerWhileQueued /\ PlaceInv /\ TypeOK' /\ PlaceInv' /\ [Next]_vars
        => \A r \in Requests : Final(r) /\ Kept(r)
  <2> SUFFICES ASSUME TypeOK, NoIdleWorkerWhileQueued, PlaceInv, TypeOK', PlaceInv', [Next]_vars
               PROVE  \A r \in Requests : Final(r) /\ Kept(r)
    OBVIOUS
  <2>1. \A r \in Requests : Placed(r) BY PhasePlaces
  <2>2. AbstractStep BY NextIsAbstract
  <2> QED BY <2>1, <2>2, OutcomeStep
<1>2. TypeOK /\ NoIdleWorkerWhileQueued /\ PlaceInv /\ TypeOK' /\ PlaceInv' /\ [Next]_vars
        => [\A r \in Requests :
             /\ Phase(r) \in {"given", "rejected", "lost"}
                  => Phase(r)' = Phase(r) /\ sent'[r] = sent[r]
             /\ Phase(r) = "held" => Phase(r)' \in {"held", "given"}]_vars
  BY <1>1 DEF Final, Kept
<1> QED
  BY <1>2, TypeCorrect, NoIdleWorker, RequestsKeepTheirPlace, PTL DEF Spec, OutcomeIsFinal
=============================================================================
