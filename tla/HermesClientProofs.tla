-------------------------- MODULE HermesClientProofs --------------------------
(***************************************************************************)
(* Theorems about HermesClient, for every set of requests, number of       *)
(* retries and channel capacity: its type invariant, that a request in the *)
(* table has its channels open, that channels are closed under a waiting   *)
(* request, or twice, only when it is late, and that no request stays in a *)
(* table behind its caller.                                                *)
(***************************************************************************)
EXTENDS HermesClient, SequenceTheorems, TLAPS

-----------------------------------------------------------------------------
(* The type invariant *)

Messages == [req : Requests, ok : BOOLEAN]

\* A message that is put into messagesCh if there is room, or taken from it.
LEMMA MessagesTypes ==
    ASSUME NEW ch \in Seq(Messages), Len(ch) <= MessagesCap
    PROVE  /\ \A m \in Messages : Len(ch) < MessagesCap =>
                 Append(ch, m) \in Seq(Messages) /\ Len(Append(ch, m)) <= MessagesCap
           /\ ch # <<>> => /\ Head(ch) \in Messages
                           /\ Tail(ch) \in Seq(Messages) /\ Len(Tail(ch)) <= MessagesCap
<1>1. Len(ch) \in Nat /\ MessagesCap \in Nat BY ClientAssumption, LenProperties
<1>2. \A m \in Messages : Append(ch, m) \in Seq(Messages) /\ Len(Append(ch, m)) = Len(ch) + 1
  BY AppendProperties
<1>3. ch # <<>> => /\ Head(ch) \in Messages
                   /\ Tail(ch) \in Seq(Messages) /\ Len(Tail(ch)) = Len(ch) - 1
  BY HeadTailProperties
<1> QED BY <1>1, <1>2, <1>3

LEMMA TypeInit == ASSUME Init PROVE TypeOK
<1>1. <<>> \in Seq(Messages) /\ Len(<<>>) = 0 BY EmptySeq
<1> QED BY <1>1, ClientAssumption
         DEF Init, TypeOK, At, Idle, Fresh, Steps, Messages, Requests, Waited

\* What a call of c.socket, and closing channels, leave.
LEMMA SocketTypes == ASSUME UseSocket PROVE panicked' \in {"no", "socket"}
BY DEF UseSocket

LEMMA CloseTypes ==
    ASSUME NEW rs, NEW err \in [Waited -> [full : BOOLEAN, closed : BOOLEAN]],
           response \in [Waited -> [full : BOOLEAN, closed : BOOLEAN]], CloseBoth(rs, err)
    PROVE  /\ response' \in [Waited -> [full : BOOLEAN, closed : BOOLEAN]]
           /\ error' \in [Waited -> [full : BOOLEAN, closed : BOOLEAN]]
           /\ panicked' \in {"no", "close"}
BY DEF CloseBoth, Shut

LEMMA FilledTypes ==
    ASSUME NEW rs, NEW ch \in [Waited -> [full : BOOLEAN, closed : BOOLEAN]]
    PROVE  Filled(ch, rs) \in [Waited -> [full : BOOLEAN, closed : BOOLEAN]]
BY DEF Filled

\* A request that goes to another step, makes another attempt, or returns.
LEMMA CallerTypes ==
    ASSUME TypeOK, NEW r \in Requests
    PROVE  /\ \A s \in Steps : GoTo(r, s) => caller' \in [Requests -> [step : Steps, attempt : 0 .. Retries]]
           /\ NextAttempt(r) => caller' \in [Requests -> [step : Steps, attempt : 0 .. Retries]]
           /\ \A w \in {"none", "answer", "nothing", "error", "sent"} :
                 Return(r, w) =>
                    /\ caller' \in [Requests -> [step : Steps, attempt : 0 .. Retries]]
                    /\ result' \in [Requests -> {"none", "answer", "nothing", "error", "sent"}]
<1>1. ASSUME NEW s \in Steps, GoTo(r, s)
      PROVE  caller' \in [Requests -> [step : Steps, attempt : 0 .. Retries]]
  BY <1>1 DEF TypeOK, GoTo
<1>2. ASSUME NextAttempt(r)
      PROVE  caller' \in [Requests -> [step : Steps, attempt : 0 .. Retries]]
  <2>1. caller[r].attempt \in 0 .. Retries /\ Retries \in Nat BY ClientAssumption DEF TypeOK
  <2>2. \A n \in 0 .. Retries, s \in {"send", "leave"} :
           At(s, n) \in [step : Steps, attempt : 0 .. Retries]
    BY DEF At, Steps
  <2> DEFINE next == IF caller[r].attempt < Retries THEN At("send", caller[r].attempt + 1) ELSE At("leave", 0)
  <2>3. next \in [step : Steps, attempt : 0 .. Retries]
    BY <2>1, <2>2
  <2>4. caller' = [caller EXCEPT ![r] = next] BY <1>2 DEF NextAttempt
  <2> HIDE DEF next
  <2> QED BY <2>3, <2>4 DEF TypeOK
<1>3. ASSUME NEW w \in {"none", "answer", "nothing", "error", "sent"}, Return(r, w)
      PROVE  /\ caller' \in [Requests -> [step : Steps, attempt : 0 .. Retries]]
             /\ result' \in [Requests -> {"none", "answer", "nothing", "error", "sent"}]
  <2>1. Returned \in [step : Steps, attempt : 0 .. Retries]
    BY ClientAssumption DEF Returned, At, Steps
  <2> QED BY <1>3, <2>1 DEF TypeOK, Return
<1> QED BY <1>1, <1>2, <1>3

CallerRecords == [step : Steps, attempt : 0 .. Retries]
Results       == {"none", "answer", "nothing", "error", "sent"}

LEMMA SendFailsTypes ==
    ASSUME TypeOK, NEW r \in Requests, SendFails(r)
    PROVE  /\ pending' \subseteq Waited /\ nonces' \in [Nonces -> Fires \cup {"none"}]
           /\ caller' \in [Requests -> CallerRecords] /\ result' \in [Requests -> Results]
<1>1. CASE /\ r \in Calls /\ NextAttempt(r) /\ UNCHANGED <<pending, nonces, result>>
  BY <1>1, CallerTypes DEF TypeOK, CallerRecords, Results
<1>2. CASE /\ r \in Asyncs /\ pending' = pending \ {r} /\ Return(r, "error") /\ UNCHANGED nonces
  BY <1>2, CallerTypes DEF TypeOK, CallerRecords, Results
<1>3. CASE /\ r \in Fires /\ nonces' = Forgotten(r) /\ Return(r, "error") /\ UNCHANGED pending
  <2>1. NonceOf[r] \in Nonces BY <1>3, ClientAssumption
  <2>2. nonces' \in [Nonces -> Fires \cup {"none"}] BY <1>3, <2>1 DEF TypeOK, Forgotten
  <2> QED BY <1>3, <2>2, CallerTypes DEF TypeOK, CallerRecords, Results
<1> QED BY <1>1, <1>2, <1>3 DEF SendFails

LEMMA CallerStepTypes ==
    ASSUME TypeOK, NEW r \in Requests, Store(r) \/ Caller(r)
    PROVE  TypeOK'
<1>1. CallerOnly
  BY DEF Store, Caller, SendChecks, SendUses, TakeResponse, ReturnResponse, TakeError,
         GiveUpWaiting, Resume, Leave, CloseChannels, ForgetNonce, WaitOnly
<1> SUFFICES /\ pending' \subseteq Waited /\ nonces' \in [Nonces -> Fires \cup {"none"}]
             /\ response' \in [Waited -> [full : BOOLEAN, closed : BOOLEAN]]
             /\ error' \in [Waited -> [full : BOOLEAN, closed : BOOLEAN]]
             /\ caller' \in [Requests -> CallerRecords] /\ result' \in [Requests -> Results]
             /\ expired' \subseteq Waited /\ sent' \subseteq [req : Requests, copy : 0 .. Retries]
             /\ panicked' \in {"no", "socket", "close", "send"}
  BY <1>1 DEF CallerOnly, chans, TypeOK, CallerRecords, Results
<1>2. {"send", "use", "wait", "answered", "sleep", "leave", "close"} \subseteq Steps
  BY DEF Steps
<1>3. CASE Store(r)
  <2>1. caller' \in [Requests -> CallerRecords]
    BY <1>2, <1>3, CallerTypes DEF Store, CallerRecords
  <2>2. CASE r \in Fires
    <3>1. NonceOf[r] \in Nonces BY <2>2, ClientAssumption
    <3>2. nonces' = [nonces EXCEPT ![NonceOf[r]] = r] /\ UNCHANGED pending
      BY <1>3, <2>2 DEF Store
    <3>3. nonces' \in [Nonces -> Fires \cup {"none"}] BY <2>2, <3>1, <3>2 DEF TypeOK
    <3> QED BY <1>3, <2>1, <3>2, <3>3 DEF Store, TypeOK, Results
  <2>3. CASE r \notin Fires
    BY <1>3, <2>1, <2>3 DEF Store, TypeOK, Results, Requests
  <2> QED BY <2>2, <2>3
<1>4. CASE SendChecks(r)
  <2>1. CASE socket = "nil" BY <1>4, <2>1, SendFailsTypes DEF SendChecks, TypeOK
  <2>2. CASE socket # "nil"
    BY <1>2, <1>4, <2>2, CallerTypes DEF SendChecks, TypeOK, CallerRecords, Results
  <2> QED BY <2>1, <2>2
<1>5. CASE SendUses(r)
  <2>1. CASE socket = "up"
    <3>1. [req |-> r, copy |-> caller[r].attempt] \in [req : Requests, copy : 0 .. Retries]
      BY DEF TypeOK
    <3> QED BY <1>2, <1>5, <2>1, <3>1, CallerTypes, SocketTypes
            DEF SendUses, TypeOK, CallerRecords, Results
  <2>2. CASE socket # "up" BY <1>5, <2>2, SendFailsTypes, SocketTypes DEF SendUses, TypeOK
  <2> QED BY <2>1, <2>2
<1>6. CASE TakeResponse(r)
  <2>1. Got(response[r]) \in Results BY DEF Got, Results
  <2>2. caller' \in [Requests -> CallerRecords]
    BY <1>2, <1>6, CallerTypes DEF TakeResponse, CallerRecords
  <2> QED BY <1>6, <2>1, <2>2 DEF TakeResponse, WaitOnly, TypeOK, Results
<1>7. CASE ReturnResponse(r)
  <2>1. result[r] \in Results BY DEF TypeOK, Results
  <2> QED BY <1>7, <2>1, CallerTypes DEF ReturnResponse, TypeOK, CallerRecords, Results
<1>8. CASE TakeError(r) \/ GiveUpWaiting(r)
  <2>1. ASSUME NEW w \in {"error", "nothing"}, AttemptFails(r, w)
        PROVE  caller' \in [Requests -> CallerRecords] /\ result' \in [Requests -> Results]
    BY <1>2, <2>1, CallerTypes DEF AttemptFails, TypeOK, CallerRecords, Results
  <2>2. caller' \in [Requests -> CallerRecords] /\ result' \in [Requests -> Results]
    BY <1>8, <2>1 DEF TakeError, GiveUpWaiting
  <2>3. CASE TakeError(r) BY <2>2, <2>3 DEF TakeError, WaitOnly, TypeOK
  <2>4. CASE GiveUpWaiting(r) BY <2>2, <2>4 DEF GiveUpWaiting, WaitOnly, TypeOK
  <2> QED BY <1>8, <2>3, <2>4
<1>9. CASE Resume(r)
  BY <1>9, CallerTypes DEF Resume, WaitOnly, TypeOK, CallerRecords, Results
<1>10. CASE Leave(r)
  BY <1>2, <1>10, CallerTypes DEF Leave, Without, TypeOK, CallerRecords, Results
<1>11. CASE CloseChannels(r)
  <2>1. (IF r \in Calls THEN "error" ELSE result[r]) \in Results BY DEF TypeOK, Results
  <2>2. /\ response' \in [Waited -> [full : BOOLEAN, closed : BOOLEAN]]
        /\ error' \in [Waited -> [full : BOOLEAN, closed : BOOLEAN]]
        /\ panicked' \in {"no", "close"}
    BY <1>11, CloseTypes DEF CloseChannels, TypeOK
  <2> QED BY <1>11, <2>1, <2>2, CallerTypes DEF CloseChannels, TypeOK, CallerRecords, Results
<1>12. CASE ForgetNonce(r)
  <2>1. r \in Fires /\ NonceOf[r] \in Nonces BY <1>12, ClientAssumption DEF ForgetNonce
  <2>2. nonces' \in [Nonces -> Fires \cup {"none"}]
    BY <1>12, <2>1 DEF ForgetNonce, TypeOK, Forgotten
  <2> QED BY <1>12, <2>2, CallerTypes DEF ForgetNonce, TypeOK, CallerRecords, Results
<1> QED BY <1>3, <1>4, <1>5, <1>6, <1>7, <1>8, <1>9, <1>10, <1>11, <1>12 DEF Caller

LEMMA ExpireTypes == ASSUME TypeOK, NEW r \in Requests, Expire(r) PROVE TypeOK'
BY DEF Expire, TypeOK, table, link, chans

LEMMA CloseSocketTypes ==
    ASSUME TypeOK, CloseSocket
    PROVE  socket' = "nil" /\ sent' = {} /\ panicked' \in {"no", "socket"}
           /\ reader' \in [step : {"loop", "enter", "blocked", "stale", "quit"}]
BY SocketTypes DEF CloseSocket, TypeOK

LEMMA ReaderTypes ==
    ASSUME TypeOK, SocketReader \/ Network PROVE TypeOK'
<1> USE DEF table, calls, link, chans
<1>1. CASE ReaderLooks BY <1>1 DEF ReaderLooks, ReaderOnly, TypeOK
<1>2. CASE ReaderEnters BY <1>2, SocketTypes DEF ReaderEnters, ReaderOnly, TypeOK
<1>3. CASE ReaderFails
  <2>1. ErrorsCap \in Nat BY ClientAssumption
  <2>2. errorsCh' \in 0 .. ErrorsCap BY <1>3, <2>1 DEF ReaderFails, PostError, TypeOK
  <2> QED BY <1>3, <2>2 DEF ReaderFails, ReaderOnly, TypeOK
<1>4. ASSUME NEW r \in Requests, NEW ok \in BOOLEAN, ReaderReceives(r, ok) PROVE TypeOK'
  <2>1. [req |-> r, ok |-> ok] \in Messages BY DEF Messages
  <2>2. messagesCh \in Seq(Messages) /\ Len(messagesCh) <= MessagesCap BY DEF TypeOK, Messages
  <2>3. messagesCh' \in Seq(Messages) /\ Len(messagesCh') <= MessagesCap
    BY <1>4, <2>1, <2>2, MessagesTypes DEF ReaderReceives
  <2>4. sent' \subseteq sent BY <1>4 DEF ReaderReceives
  <2> QED BY <1>4, <2>3, <2>4 DEF ReaderReceives, ReaderOnly, TypeOK, Messages
<1>5. CASE Break BY <1>5 DEF Break, TypeOK
<1> QED BY <1>1, <1>2, <1>3, <1>4, <1>5 DEF SocketReader, Network

LEMMA ProcessorTypes == ASSUME TypeOK, MessageProcessor PROVE TypeOK'
<1> USE DEF table, calls, link, chans
<1> DEFINE Processors == [step : {"idle", "quit"}]
                     \cup [step : {"deliver"}, req : Waited, ok : BOOLEAN]
                     \cup [step : {"forget"}, req : Fires, ok : BOOLEAN]
<1>1. CASE Correlate
  <2> DEFINE m == Head(messagesCh)
  <2>1. messagesCh \in Seq(Messages) /\ Len(messagesCh) <= MessagesCap BY DEF TypeOK, Messages
  <2>2. m \in Messages /\ messagesCh' \in Seq(Messages) /\ Len(messagesCh') <= MessagesCap
    BY <1>1, <2>1, MessagesTypes DEF Correlate
  <2>3. m.ok \in BOOLEAN /\ pending \subseteq Waited BY <2>2 DEF Messages, TypeOK
  <2>4. processor' = IF m.req \in pending THEN [step |-> "deliver", req |-> m.req, ok |-> m.ok]
                     ELSE IF m.req \in Fires /\ nonces[NonceOf[m.req]] # "none"
                     THEN [step |-> "forget", req |-> m.req, ok |-> m.ok]
                     ELSE Idle
    BY <1>1 DEF Correlate
  <2> HIDE DEF m
  <2>5. processor' \in Processors BY <2>3, <2>4 DEF Idle
  <2> QED BY <1>1, <2>2, <2>5 DEF Correlate, ProcessorOnly, TypeOK, Messages
<1>2. CASE DeliverResponse
  <2>1. Idle \in Processors BY DEF Idle
  <2>2. /\ response' \in [Waited -> [full : BOOLEAN, closed : BOOLEAN]]
        /\ error' \in [Waited -> [full : BOOLEAN, closed : BOOLEAN]]
        /\ panicked' \in {"no", "send"}
    BY <1>2, FilledTypes DEF DeliverResponse, TypeOK
  <2> QED BY <1>2, <2>1, <2>2 DEF DeliverResponse, ProcessorOnly, TypeOK
<1>3. CASE ForgetFired
  <2>1. Idle \in Processors BY DEF Idle
  <2>2. processor.req \in Fires /\ NonceOf[processor.req] \in Nonces
    BY <1>3, ClientAssumption DEF ForgetFired, TypeOK
  <2>3. nonces' \in [Nonces -> Fires \cup {"none"}]
    BY <1>3, <2>2 DEF ForgetFired, Forgotten, TypeOK
  <2> QED BY <1>3, <2>1, <2>3 DEF ForgetFired, ProcessorOnly, TypeOK
<1>4. CASE ProcessorQuits BY <1>4 DEF ProcessorQuits, ProcessorOnly, TypeOK
<1> QED BY <1>1, <1>2, <1>3, <1>4 DEF MessageProcessor

LEMMA CleanerTypes == ASSUME TypeOK, TimeoutManager PROVE TypeOK'
<1> USE DEF calls, link, chans
<1>1. CASE CollectExpired BY <1>1 DEF CollectExpired, CleanerOnly, Overdue, TypeOK
<1>2. ASSUME NEW r \in Waited, CleanUp(r) PROVE TypeOK'
  <2>1. /\ response' \in [Waited -> [full : BOOLEAN, closed : BOOLEAN]]
        /\ error' \in [Waited -> [full : BOOLEAN, closed : BOOLEAN]]
        /\ panicked' \in {"no", "socket", "close", "send"}
    BY <1>2, CloseTypes, FilledTypes DEF CleanUp, TypeOK
  <2> QED BY <1>2, <2>1 DEF CleanUp, CleanerOnly, TypeOK
<1> QED BY <1>1, <1>2 DEF TimeoutManager

LEMMA ReconnTypes == ASSUME TypeOK, ErrorHandler \/ ReconnectManager PROVE TypeOK'
<1> USE DEF table, calls, link, chans
<1>1. CASE ErrorHandler
  <2>1. errorsCh' \in 0 .. ErrorsCap BY <1>1, ClientAssumption DEF ErrorHandler, TypeOK
  <2> QED BY <1>1, <2>1 DEF ErrorHandler, AskToReconnect, TypeOK
<1>2. CASE Reconnect BY <1>2 DEF Reconnect, ReconnOnly, TypeOK
<1>3. CASE CloseOld BY <1>3, CloseSocketTypes DEF CloseOld, ReconnOnly, TypeOK
<1>4. CASE Dial BY <1>4 DEF Dial, ReconnOnly, TypeOK
<1>5. CASE Install BY <1>5 DEF Install, ReconnOnly, TypeOK
<1>6. CASE WakeUp BY <1>6 DEF WakeUp, ReconnOnly, TypeOK
<1> QED BY <1>1, <1>2, <1>3, <1>4, <1>5, <1>6 DEF ReconnectManager

LEMMA StopTypes == ASSUME TypeOK, StopCancels \/ StopDrains \/ StopCloses PROVE TypeOK'
<1> USE DEF calls, link, chans
<1>1. CASE StopCancels BY <1>1 DEF StopCancels, StopOnly, TypeOK
<1>2. CASE StopDrains
  <2>1. /\ response' \in [Waited -> [full : BOOLEAN, closed : BOOLEAN]]
        /\ error' \in [Waited -> [full : BOOLEAN, closed : BOOLEAN]]
        /\ panicked' \in {"no", "close"}
    BY <1>2, CloseTypes, FilledTypes DEF StopDrains, TypeOK
  <2> QED BY <1>2, <2>1 DEF StopDrains, StopOnly, TypeOK
<1>3. CASE StopCloses BY <1>3, CloseSocketTypes DEF StopCloses, StopOnly, TypeOK
<1> QED BY <1>1, <1>2, <1>3

\* The variables of the client keep their types, and no channel holds more than
\* its capacity (internal/hermes/client.go).
THEOREM ClientTypes == Spec => []TypeOK
<1>1. Init => TypeOK BY TypeInit
<1>2. TypeOK /\ [Next]_vars => TypeOK'
  <2>1. ASSUME TypeOK, Next PROVE TypeOK'
    BY <2>1, CallerStepTypes, ExpireTypes, ReaderTypes, ProcessorTypes, CleanerTypes,
       ReconnTypes, StopTypes DEF Next
  <2>2. ASSUME TypeOK, UNCHANGED vars PROVE TypeOK'
    BY <2>2 DEF TypeOK, vars, table, calls, link, chans
  <2> QED BY <2>1, <2>2
<1> QED BY <1>1, <1>2, PTL DEF Spec

-----------------------------------------------------------------------------
(* The table and the channels *)

Open(r) == ~response[r].closed /\ ~error[r].closed
Late(r) == r \in expired \/ Cancelled

\* Who may still close the channels of a request, and when they may be closed:
\* a request is out of the table before its caller closes them, and they are
\* closed by another only if it is overdue or the client is being stopped.
ChannelInv ==
    /\ \A r \in Requests : caller[r].step \in {"leave", "close"} => r \in Waited
    /\ \A r \in Waited :
          /\ r \in pending => Open(r)
          /\ caller[r].step = "idle" => r \notin pending /\ Open(r)
          /\ caller[r].step = "close" => r \notin pending
          /\ Open(r) \/ Late(r) \/ caller[r].step = "returned"
          /\ result[r] = "nothing" => Late(r)
    /\ cleaner \subseteq expired
    /\ panicked = "close" => expired # {} \/ Cancelled

SameChannels(r) == response'[r].closed = response[r].closed /\ error'[r].closed = error[r].closed

LEMMA ChannelInit == ASSUME Init PROVE ChannelInv
BY DEF Init, ChannelInv, Open, Fresh, At, Requests

\* What a step of the caller of r, before it closes its channels, changes.
LEMMA CallerEffect ==
    ASSUME TypeOK, ChannelInv, NEW r \in Requests, Caller(r), ~CloseChannels(r)
    PROVE  /\ pending' \subseteq pending /\ UNCHANGED <<expired, stop, cleaner>>
           /\ \A q \in Waited : SameChannels(q)
           /\ \A q \in Requests : q # r => caller'[q] = caller[q] /\ result'[q] = result[q]
           /\ caller[r].step \notin {"idle", "close", "returned"} /\ caller'[r].step # "idle"
           /\ caller'[r].step \in {"leave", "close"} => r \in Waited
           /\ caller'[r].step = "close" => r \notin pending'
           /\ r \in Waited /\ result'[r] = "nothing" => ~Open(r) \/ result[r] = "nothing"
           /\ panicked' # "close"
<1> USE DEF CallerOnly, WaitOnly
<1>0. \A q \in Waited : q \in Requests BY DEF Requests
<1>1. ASSUME NEW s, GoTo(r, s)
      PROVE  caller'[r].step = s /\ \A q \in Requests : q # r => caller'[q] = caller[q]
  BY <1>1 DEF GoTo, TypeOK
<1>2. ASSUME NextAttempt(r)
      PROVE  /\ caller'[r].step \in {"send", "leave"}
             /\ \A q \in Requests : q # r => caller'[q] = caller[q]
  BY <1>2 DEF NextAttempt, At, TypeOK
<1>3. ASSUME NEW w, Return(r, w)
      PROVE  /\ caller'[r].step = "returned" /\ result'[r] = w
             /\ \A q \in Requests : q # r => caller'[q] = caller[q] /\ result'[q] = result[q]
  BY <1>3 DEF Return, Returned, At, TypeOK
<1>4. Alive BY DEF Caller, SendChecks, SendUses, TakeResponse, ReturnResponse, TakeError,
                   GiveUpWaiting, Resume, Leave, ForgetNonce, CloseChannels
<1>5. ASSUME SendFails(r)
      PROVE  /\ pending' \subseteq pending /\ caller'[r].step \in {"send", "leave", "returned"}
             /\ caller'[r].step = "leave" => r \in Waited
             /\ result'[r] # "nothing" \/ result'[r] = result[r]
             /\ \A q \in Requests : q # r => caller'[q] = caller[q] /\ result'[q] = result[q]
  BY <1>2, <1>3, <1>5 DEF SendFails, Waited
<1>6. CASE SendChecks(r) \/ SendUses(r)
  <2>1. panicked' \in {"no", "socket"} BY <1>4, <1>6 DEF SendChecks, SendUses, UseSocket, Alive
  <2>2. UNCHANGED <<response, error, expired>> /\ caller[r].step \in {"send", "use"}
    BY <1>6 DEF SendChecks, SendUses
  <2>3. SendFails(r) \/ (GoTo(r, "use") /\ UNCHANGED <<pending, result>>)
        \/ (GoTo(r, "wait") /\ UNCHANGED <<pending, result>>)
    BY <1>6 DEF SendChecks, SendUses
  <2>4. UNCHANGED <<stop, cleaner>> BY <1>6 DEF SendChecks, SendUses
  <2> QED BY <1>1, <1>5, <2>1, <2>2, <2>3, <2>4 DEF SameChannels
<1>7. CASE TakeResponse(r)
  <2>1. /\ \A q \in Waited : SameChannels(q)
        /\ Got(response[r]) = "nothing" => ~Open(r)
    BY <1>7 DEF TakeResponse, SameChannels, TypeOK, Got, Ready, Open
  <2>2. caller'[r].step \in {"answered", "leave"} /\ caller[r].step = "wait"
        /\ \A q \in Requests : q # r => caller'[q] = caller[q] /\ result'[q] = result[q]
    BY <1>1, <1>7 DEF TakeResponse, TypeOK
  <2>3. result'[r] = Got(response[r]) /\ r \in Waited
    BY <1>7 DEF TakeResponse, TypeOK
  <2>4. UNCHANGED <<pending, expired, panicked, stop, cleaner>> BY <1>7 DEF TakeResponse
  <2> QED BY <1>4, <2>1, <2>2, <2>3, <2>4 DEF Alive
<1>8. CASE ReturnResponse(r)
  BY <1>3, <1>4, <1>8 DEF ReturnResponse, SameChannels, Alive
<1>9. ASSUME NEW w, AttemptFails(r, w), r \in Waited
      PROVE  /\ caller'[r].step \in {"sleep", "leave"} /\ result'[r] \in {w, result[r]}
             /\ \A q \in Requests : q # r => caller'[q] = caller[q] /\ result'[q] = result[q]
  BY <1>1, <1>9 DEF AttemptFails, TypeOK
<1>10. CASE TakeError(r)
  <2>1. /\ \A q \in Waited : SameChannels(q)
        /\ ~error[r].full => ~Open(r)
    BY <1>10 DEF TakeError, SameChannels, TypeOK, Ready, Open
  <2>2. r \in Waited /\ caller[r].step = "wait"
        /\ UNCHANGED <<pending, expired, panicked, stop, cleaner>>
    BY <1>10 DEF TakeError
  <2>3. AttemptFails(r, IF error[r].full THEN "error" ELSE "nothing") BY <1>10 DEF TakeError
  <2> QED BY <1>4, <1>9, <2>1, <2>2, <2>3 DEF Alive
<1>11. CASE GiveUpWaiting(r)
  BY <1>4, <1>9, <1>11 DEF GiveUpWaiting, SameChannels, Alive
<1>12. CASE Resume(r)
  BY <1>2, <1>4, <1>12 DEF Resume, SameChannels, Alive, Waited
<1>13. CASE Leave(r)
  <2>1. r \in Waited BY <1>13 DEF Leave, ChannelInv
  <2> QED BY <1>1, <1>4, <1>13, <2>1 DEF Leave, SameChannels, Alive, Without
<1>14. CASE ForgetNonce(r)
  BY <1>3, <1>4, <1>14 DEF ForgetNonce, SameChannels, Alive
<1> QED BY <1>6, <1>7, <1>8, <1>10, <1>11, <1>12, <1>13, <1>14 DEF Caller

LEMMA CallerChannels ==
    ASSUME TypeOK, ChannelInv, NEW r \in Requests, Caller(r), ~CloseChannels(r)
    PROVE  ChannelInv'
<1>1. \A q \in Waited : q \in Requests /\ (Open(q)' <=> Open(q)) /\ (Late(q)' <=> Late(q))
  BY CallerEffect DEF Open, Late, SameChannels, Cancelled, Requests
<1> QED BY <1>1, CallerEffect DEF ChannelInv, Cancelled

\* The caller closes the channels of a request that is out of the table.
LEMMA CloseChannelsChannels ==
    ASSUME TypeOK, ChannelInv, NEW r \in Requests, CloseChannels(r) PROVE ChannelInv'
<1>1. /\ r \in Waited /\ caller[r].step = "close" /\ r \notin pending
      /\ UNCHANGED <<pending, expired, stop, cleaner>>
  BY DEF ChannelInv, CloseChannels, CallerOnly
<1>2. /\ caller'[r].step = "returned" /\ result'[r] \in {"error", result[r]}
      /\ \A q \in Requests : q # r => caller'[q] = caller[q] /\ result'[q] = result[q]
  BY DEF CloseChannels, Return, Returned, At, TypeOK
<1>3. \A q \in Waited : q # r => (Open(q)' <=> Open(q))
  BY DEF CloseChannels, CloseBoth, Shut, Open, TypeOK
<1>4. panicked' = "close" => ~Open(r)
  BY DEF CloseChannels, CloseBoth, ClosePanics, Open
<1>5. \A q \in Waited : q \in Requests /\ (Late(q)' <=> Late(q))
  BY <1>1 DEF Late, Cancelled, Requests
<1>6. ~Open(r) => Late(r) BY <1>1 DEF ChannelInv
<1> QED BY <1>1, <1>2, <1>3, <1>4, <1>5, <1>6 DEF ChannelInv, Late, Cancelled

LEMMA StoreChannels ==
    ASSUME TypeOK, ChannelInv, NEW r \in Requests, Store(r) PROVE ChannelInv'
<1>1. /\ pending' \subseteq pending \cup {r} /\ caller[r].step = "idle"
      /\ UNCHANGED <<response, error, result, expired, stop, cleaner, panicked>>
  BY DEF Store, CallerOnly
<1>2. caller'[r].step = "send" /\ \A q \in Requests : q # r => caller'[q] = caller[q]
  BY DEF Store, GoTo, TypeOK
<1>3. \A q \in Waited : q \in Requests /\ (Open(q)' <=> Open(q)) /\ (Late(q)' <=> Late(q))
  BY <1>1 DEF Open, Late, Cancelled, Requests
<1> QED BY <1>1, <1>2, <1>3 DEF ChannelInv, Cancelled

\* The cleanup and Stop close what they find in the table, and take it out.
LEMMA RemovalChannels ==
    ASSUME TypeOK, ChannelInv, NEW rs \in SUBSET pending,
           NEW err, \A q \in Waited : err[q].closed = error[q].closed,
           pending' = pending \ rs, CloseBoth(rs, err), Alive,
           UNCHANGED <<caller, result, expired, stop>>, cleaner' \subseteq cleaner,
           \A r \in rs : Late(r)
    PROVE  ChannelInv'
<1>1. rs \subseteq Waited /\ \A q \in Waited : q \in Requests BY DEF TypeOK, Requests
<1>2. \A q \in Waited : q \notin rs => (Open(q)' <=> Open(q))
  BY DEF CloseBoth, Shut, Open
<1>3. panicked' # "close"
  BY <1>1 DEF CloseBoth, ClosePanics, ChannelInv, Open
<1>4. \A q \in Waited : Late(q)' <=> Late(q) BY DEF Late, Cancelled
<1> QED BY <1>1, <1>2, <1>3, <1>4 DEF ChannelInv, Cancelled

LEMMA FilledClosed ==
    ASSUME NEW ch \in [Waited -> [full : BOOLEAN, closed : BOOLEAN]], NEW rs
    PROVE  \A q \in Waited : Filled(ch, rs)[q].closed = ch[q].closed
BY DEF Filled

LEMMA CleanerChannels == ASSUME TypeOK, ChannelInv, TimeoutManager PROVE ChannelInv'
<1>1. Alive /\ UNCHANGED <<caller, result, expired, stop>>
  BY DEF TimeoutManager, CollectExpired, CleanUp, CleanerOnly, calls
<1>2. CASE CollectExpired
  <2>1. UNCHANGED <<pending, response, error, panicked>> /\ cleaner' \subseteq expired
    BY <1>2 DEF CollectExpired, Overdue
  <2>2. \A q \in Waited : (Open(q)' <=> Open(q)) /\ (Late(q)' <=> Late(q))
    BY <1>1, <2>1 DEF Open, Late, Cancelled
  <2> QED BY <1>1, <2>1, <2>2 DEF ChannelInv, Cancelled
<1>3. ASSUME NEW r \in Waited, CleanUp(r) PROVE ChannelInv'
  <2>1. r \in cleaner /\ cleaner' \subseteq cleaner /\ pending' = pending \ {r}
        /\ Late(r)
    BY <1>3 DEF CleanUp, ChannelInv, Late
  <2>2. CASE r \in pending
    <3>1. \A q \in Waited : Filled(error, {r})[q].closed = error[q].closed
      <4>1. error \in [Waited -> [full : BOOLEAN, closed : BOOLEAN]] BY DEF TypeOK
      <4> QED BY ONLY <4>1, FilledClosed
    <3>2. CloseBoth({r}, Filled(error, {r})) BY <1>3, <2>2 DEF CleanUp
    <3> DEFINE err == Filled(error, {r})
    <3> HIDE DEF err
    <3> QED BY <1>1, <2>1, <2>2, <3>1, <3>2, RemovalChannels DEF err
  <2>3. CASE r \notin pending
    <3>1. UNCHANGED <<pending, response, error, panicked>> BY <1>3, <2>1, <2>3 DEF CleanUp
    <3>2. \A q \in Waited : (Open(q)' <=> Open(q)) /\ (Late(q)' <=> Late(q))
      BY <1>1, <3>1 DEF Open, Late, Cancelled
    <3> QED BY <1>1, <2>1, <3>1, <3>2 DEF ChannelInv, Cancelled
  <2> QED BY <2>2, <2>3
<1> QED BY <1>2, <1>3 DEF TimeoutManager

LEMMA DrainChannels == ASSUME TypeOK, ChannelInv, StopDrains PROVE ChannelInv'
<1>1. /\ stop = "cancelled" /\ stop' = "drained" /\ pending' = {} /\ Alive
      /\ UNCHANGED <<caller, result, expired, cleaner>>
      /\ CloseBoth(pending, Filled(error, pending))
  BY DEF StopDrains, StopOnly, calls
<1>2. Cancelled' /\ Cancelled BY <1>1 DEF Cancelled
<1>3. \A q \in Waited : Filled(error, pending)[q].closed = error[q].closed
  <2>1. error \in [Waited -> [full : BOOLEAN, closed : BOOLEAN]] BY DEF TypeOK
  <2> QED BY ONLY <2>1, FilledClosed
<1>4. \A q \in Waited : q \notin pending => (Open(q)' <=> Open(q))
  BY <1>1, <1>3 DEF CloseBoth, Shut, Open
<1>5. \A q \in Waited : Late(q)' BY <1>2 DEF Late
<1>6. \A q \in Waited : q \in Requests BY DEF Requests
<1> QED BY <1>1, <1>2, <1>4, <1>5, <1>6 DEF ChannelInv

\* Every other step leaves the table and what is closed as they are, and time
\* and Stop only go on.
LEMMA OtherChannels ==
    ASSUME TypeOK, ChannelInv,
           \/ \E r \in Requests : Expire(r)
           \/ SocketReader \/ MessageProcessor \/ ErrorHandler \/ ReconnectManager
           \/ StopCancels \/ StopCloses \/ Network
    PROVE  ChannelInv'
<1> USE DEF table, calls, link, chans
<1>1. /\ UNCHANGED <<pending, caller, result, cleaner>>
      /\ expired \subseteq expired' /\ stop' \in {stop, "cancelled", "closing", "done"}
  BY DEF Expire, SocketReader, ReaderLooks, ReaderEnters, ReaderFails, Network, ReaderReceives,
         Break, ReaderOnly, MessageProcessor, Correlate, DeliverResponse, ForgetFired,
         ProcessorQuits, ProcessorOnly, ErrorHandler, ReconnectManager, Reconnect, CloseOld,
         Dial, Install, WakeUp, ReconnOnly, StopCancels, StopCloses, StopOnly
<1>2. \A q \in Waited : SameChannels(q)
  <2>1. CASE MessageProcessor
    <3>1. CASE DeliverResponse
      <4>1. \A q \in Waited : /\ Filled(response, {processor.req})[q].closed = response[q].closed
                              /\ Filled(error, {processor.req})[q].closed = error[q].closed
        BY FilledClosed DEF TypeOK
      <4>2. /\ response' \in {response, Filled(response, {processor.req})}
            /\ error' \in {error, Filled(error, {processor.req})}
        BY <3>1 DEF DeliverResponse
      <4> QED BY <4>1, <4>2 DEF SameChannels
    <3>2. CASE Correlate \/ ForgetFired \/ ProcessorQuits
      BY <3>2 DEF Correlate, ForgetFired, ProcessorQuits, SameChannels
    <3> QED BY <2>1, <3>1, <3>2 DEF MessageProcessor
  <2>2. CASE ~MessageProcessor
    <3>1. UNCHANGED <<response, error>>
      BY <2>2 DEF Expire, SocketReader, ReaderLooks, ReaderEnters, ReaderFails, Network,
             ReaderReceives, Break, ReaderOnly, ErrorHandler, ReconnectManager, Reconnect,
             CloseOld, Dial, Install, WakeUp, ReconnOnly, StopCancels, StopCloses, StopOnly
    <3> QED BY <3>1 DEF SameChannels
  <2> QED BY <2>1, <2>2
<1>3. panicked' # "close"
  BY DEF Expire, SocketReader, ReaderLooks, ReaderEnters, ReaderFails, Network, ReaderReceives,
         Break, ReaderOnly, MessageProcessor, Correlate, DeliverResponse, ForgetFired,
         ProcessorQuits, ProcessorOnly, ErrorHandler, ReconnectManager, Reconnect, CloseOld,
         Dial, Install, WakeUp, ReconnOnly, StopCancels, StopCloses, StopOnly,
         CloseSocket, UseSocket, Alive
<1>4. Cancelled => Cancelled' BY <1>1 DEF Cancelled
<1>5. \A q \in Waited : q \in Requests /\ (Open(q)' <=> Open(q)) /\ (Late(q) => Late(q)')
  BY <1>1, <1>2, <1>4 DEF Open, Late, SameChannels, Requests
<1> QED BY <1>1, <1>3, <1>5 DEF ChannelInv

LEMMA ChannelInvariant == Spec => [](TypeOK /\ ChannelInv)
<1>1. Init => TypeOK /\ ChannelInv BY TypeInit, ChannelInit
<1>2. TypeOK /\ TypeOK' /\ ChannelInv /\ [Next]_vars => ChannelInv'
  <2>1. ASSUME TypeOK, ChannelInv, Next PROVE ChannelInv'
    BY <2>1, CallerChannels, CloseChannelsChannels, StoreChannels, CleanerChannels,
       DrainChannels, OtherChannels DEF Next
  <2>2. ASSUME ChannelInv, UNCHANGED vars PROVE ChannelInv'
    BY <2>2 DEF ChannelInv, vars, table, calls, link, chans, Open, Late, Cancelled
  <2> QED BY <2>1, <2>2
<1> QED BY <1>1, <1>2, ClientTypes, PTL DEF Spec

\* A request in c.pending has its channels open, whoever gets to it first of its
\* caller, the timeout cleanup and Stop.
THEOREM TableIsOpen == Spec => []PendingIsOpen
<1>1. TypeOK /\ ChannelInv => PendingIsOpen
  BY DEF ChannelInv, PendingIsOpen, Open, TypeOK
<1> QED BY <1>1, ChannelInvariant, PTL

\* A channel is closed under a request that still waits, or a second time, only
\* once a request is overdue or the client is being stopped.
THEOREM ClosedOnlyLate == Spec => []ClosedEarlyOnlyLate
<1>1. ChannelInv => ClosedEarlyOnlyLate
  BY DEF ChannelInv, ClosedEarlyOnlyLate, Late
<1> QED BY <1>1, ChannelInvariant, PTL

-----------------------------------------------------------------------------
(* That no request stays in a table behind its caller *)

Going(r) == caller[r].step \in {"send", "use", "wait", "answered", "sleep", "leave"}
Fired(r) == caller[r].step \in {"send", "use", "wait"}

\* The others stay where they are.
LEMMA TidyBeside ==
    ASSUME TypeOK, TablesAreTidy, NEW r \in Requests,
           \A q \in Requests \ {r} : caller'[q] = caller[q],
           pending' \subseteq pending \cup {r}, r \in pending' => Going(r)',
           \A n \in Nonces : nonces'[n] \in {nonces[n], "none", r},
           \A n \in Nonces : nonces'[n] = r /\ r # "none" => NonceOf[r] = n /\ Fired(r)'
    PROVE  TablesAreTidy'
<1>1. "none" \notin Fires /\ Fires \subseteq Requests /\ Waited \subseteq Requests
  BY ClientAssumption DEF Requests
<1>2. ASSUME NEW q \in pending' PROVE Going(q)'
  <2>1. CASE q = r BY <1>2, <2>1
  <2>2. CASE q # r
    <3>1. q \in pending /\ q \in Requests BY <1>1, <1>2, <2>2 DEF TypeOK
    <3>2. Going(q) BY <3>1 DEF TablesAreTidy, Going
    <3> QED BY <2>2, <3>1, <3>2 DEF Going
  <2> QED BY <2>1, <2>2
<1>3. ASSUME NEW n \in Nonces, nonces'[n] # "none"
      PROVE  NonceOf[nonces'[n]] = n /\ caller'[nonces'[n]].step \in {"send", "use", "wait"}
  <2>1. CASE nonces'[n] = r
    <3>1. NonceOf[r] = n /\ Fired(r)' BY <1>3, <2>1
    <3> QED BY <2>1, <3>1 DEF Fired
  <2>2. CASE nonces'[n] # r
    <3>1. nonces'[n] = nonces[n] /\ nonces[n] \in Requests
      BY <1>1, <1>3, <2>2 DEF TypeOK
    <3>2. NonceOf[nonces[n]] = n /\ Fired(nonces[n]) BY <1>3, <3>1 DEF TablesAreTidy, Fired
    <3>3. caller'[nonces[n]] = caller[nonces[n]] BY <2>2, <3>1
    <3> QED BY <3>1, <3>2, <3>3 DEF Fired
  <2> QED BY <2>1, <2>2
<1> QED BY <1>2, <1>3 DEF TablesAreTidy, Going, Fired

\* A step in which no caller moves only takes entries out.
LEMMA TidyShrinks ==
    ASSUME TypeOK, TablesAreTidy, UNCHANGED caller, pending' \subseteq pending,
           \A n \in Nonces : nonces'[n] \in {nonces[n], "none"}
    PROVE  TablesAreTidy'
BY DEF TablesAreTidy

\* A request that waits for a response has no nonce.
LEMMA TidyWaited ==
    ASSUME TypeOK, TablesAreTidy, NEW r \in Requests, r \in Waited,
           \A q \in Requests \ {r} : caller'[q] = caller[q],
           pending' \subseteq pending \cup {r}, r \in pending' => Going(r)', UNCHANGED nonces
    PROVE  TablesAreTidy'
<1>1. \A n \in Nonces : nonces[n] = r => r = "none" BY ClientAssumption DEF TypeOK
<1> QED BY <1>1, TidyBeside

\* One that is fired is not in the table of the others.
LEMMA TidyFired ==
    ASSUME TypeOK, TablesAreTidy, NEW r \in Requests, r \in Fires,
           \A q \in Requests \ {r} : caller'[q] = caller[q], UNCHANGED pending,
           \/ UNCHANGED nonces /\ Fired(r)'
           \/ nonces' = [nonces EXCEPT ![NonceOf[r]] = r] /\ Fired(r)'
           \/ nonces' = Forgotten(r)
    PROVE  TablesAreTidy'
<1>1. r \notin pending /\ NonceOf[r] \in Nonces /\ r # "none" BY ClientAssumption DEF TypeOK
<1>2. \A n \in Nonces : nonces[n] = r => NonceOf[r] = n
  BY <1>1 DEF TablesAreTidy
<1>3. CASE UNCHANGED nonces /\ Fired(r)' BY <1>1, <1>2, <1>3, TidyBeside
<1>4. CASE nonces' = [nonces EXCEPT ![NonceOf[r]] = r] /\ Fired(r)'
  <2>1. \A n \in Nonces : nonces'[n] = (IF n = NonceOf[r] THEN r ELSE nonces[n])
    BY <1>1, <1>4 DEF TypeOK
  <2> QED BY <1>1, <1>2, <1>4, <2>1, TidyBeside
<1>5. CASE nonces' = Forgotten(r)
  <2>1. \A n \in Nonces : nonces'[n] = (IF n = NonceOf[r] THEN "none" ELSE nonces[n])
    BY <1>1, <1>5 DEF TypeOK, Forgotten
  <2>2. \A n \in Nonces : nonces'[n] # r BY <1>1, <1>2, <2>1
  <2> QED BY <1>1, <2>1, <2>2, TidyBeside
<1> QED BY <1>3, <1>4, <1>5

LEMMA TidyCaller ==
    ASSUME TypeOK, TablesAreTidy, NEW r \in Requests, Store(r) \/ Caller(r)
    PROVE  TablesAreTidy'
<1> DEFINE Others == \A q \in Requests \ {r} : caller'[q] = caller[q]
<1>0. /\ Fires \cup Waited = Requests /\ Waited = Calls \cup Asyncs
      /\ Waited \cap Fires = {} /\ Calls \cap Asyncs = {}
  BY ClientAssumption DEF Requests, Waited
<1>1. ASSUME NEW s, GoTo(r, s) PROVE caller'[r].step = s /\ Others
  BY <1>1 DEF GoTo, TypeOK
<1>2. ASSUME NextAttempt(r) PROVE caller'[r].step \in {"send", "leave"} /\ Others
  BY <1>2 DEF NextAttempt, At, TypeOK
<1>3. ASSUME NEW w, Return(r, w) PROVE caller'[r].step = "returned" /\ Others
  BY <1>3 DEF Return, Returned, At, TypeOK
<1>4. CASE Store(r)
  <2>1. caller'[r].step = "send" /\ Others BY <1>1, <1>4 DEF Store
  <2>2. CASE r \in Fires
    <3>1. nonces' = [nonces EXCEPT ![NonceOf[r]] = r] /\ UNCHANGED pending
      BY <1>4, <2>2 DEF Store
    <3> QED BY <2>1, <2>2, <3>1, TidyFired DEF Fired
  <2>3. CASE r \notin Fires
    <3>1. pending' = pending \cup {r} /\ UNCHANGED nonces BY <1>4, <2>3 DEF Store
    <3> QED BY <1>0, <2>1, <2>3, <3>1, TidyWaited DEF Going
  <2> QED BY <2>2, <2>3
<1>5. ASSUME SendFails(r) PROVE TablesAreTidy'
  <2>1. CASE r \in Calls /\ NextAttempt(r) /\ UNCHANGED <<pending, nonces, result>>
    <3>1. r \in Waited BY <1>0, <2>1
    <3> QED BY <1>2, <2>1, <3>1, TidyWaited DEF Going
  <2>2. CASE r \in Asyncs /\ pending' = pending \ {r} /\ Return(r, "error") /\ UNCHANGED nonces
    <3>1. r \in Waited BY <1>0, <2>2
    <3> QED BY <1>3, <2>2, <3>1, TidyWaited
  <2>3. CASE r \in Fires /\ nonces' = Forgotten(r) /\ Return(r, "error") /\ UNCHANGED pending
    BY <1>3, <2>3, TidyFired
  <2> QED BY <1>5, <2>1, <2>2, <2>3 DEF SendFails
<1>6. ASSUME NEW s \in {"use", "wait"}, GoTo(r, s), UNCHANGED <<pending, nonces>>
      PROVE  TablesAreTidy'
  <2>1. CASE r \in Fires BY <1>1, <1>6, <2>1, TidyFired DEF Fired
  <2>2. CASE r \in Waited
    BY <1>1, <1>6, <2>2, TidyWaited DEF Going
  <2> QED BY <1>0, <2>1, <2>2
<1>7. CASE SendChecks(r) \/ SendUses(r)
  <2>1. SendFails(r) \/ \E s \in {"use", "wait"} : GoTo(r, s) /\ UNCHANGED <<pending, nonces>>
    BY <1>7 DEF SendChecks, SendUses
  <2> QED BY <1>5, <1>6, <2>1
<1>8. CASE TakeResponse(r)
  <2>1. r \in Waited /\ UNCHANGED <<pending, nonces>> BY <1>8 DEF TakeResponse, WaitOnly
  <2>2. caller'[r].step \in {"answered", "leave"} /\ Others BY <1>1, <1>8 DEF TakeResponse
  <2> QED BY <2>1, <2>2, TidyWaited DEF Going
<1>9. CASE TakeError(r) \/ GiveUpWaiting(r)
  <2>1. r \in Waited /\ UNCHANGED <<pending, nonces>>
    BY <1>9 DEF TakeError, GiveUpWaiting, WaitOnly
  <2>2. \E w : AttemptFails(r, w) BY <1>9 DEF TakeError, GiveUpWaiting
  <2>3. caller'[r].step \in {"sleep", "leave"} /\ Others BY <1>1, <2>2 DEF AttemptFails
  <2> QED BY <2>1, <2>3, TidyWaited DEF Going
<1>10. CASE Resume(r)
  <2>1. r \in Waited /\ UNCHANGED <<pending, nonces>> BY <1>0, <1>10 DEF Resume, WaitOnly
  <2> QED BY <1>2, <1>10, <2>1, TidyWaited DEF Resume, Going
<1>11. ASSUME ~Fired(r), UNCHANGED nonces, Others, pending' \subseteq pending \ {r}
       PROVE  TablesAreTidy'
  <2>1. \A n \in Nonces : nonces[n] = r => r = "none"
    <3>1. r \in Fires => r # "none" BY ClientAssumption
    <3>2. r \notin Fires => \A n \in Nonces : nonces[n] \in Fires \cup {"none"} BY DEF TypeOK
    <3>3. CASE r \in Fires BY <1>11, <3>1, <3>3 DEF TablesAreTidy, Fired
    <3>4. CASE r \in Waited BY <1>0, <3>2, <3>4
    <3> QED BY <1>0, <3>3, <3>4
  <2> QED BY <1>11, <2>1, TidyBeside
<1>12. CASE ReturnResponse(r)
  BY <1>3, <1>11, <1>12 DEF ReturnResponse, Fired
<1>13. CASE Leave(r)
  BY <1>1, <1>11, <1>13 DEF Leave, Without, Fired
<1>14. CASE CloseChannels(r)
  <2>1. caller[r].step = "close" /\ UNCHANGED <<pending, nonces>> BY <1>14 DEF CloseChannels
  <2>2. r \notin pending /\ ~Fired(r) BY <2>1 DEF TablesAreTidy, Fired
  <2> QED BY <1>3, <1>11, <1>14, <2>1, <2>2 DEF CloseChannels
<1>15. CASE ForgetNonce(r)
  BY <1>3, <1>15, TidyFired DEF ForgetNonce
<1> QED BY <1>4, <1>7, <1>8, <1>9, <1>10, <1>12, <1>13, <1>14, <1>15 DEF Caller

LEMMA TidyOthers ==
    ASSUME TypeOK, TablesAreTidy,
           \/ \E r \in Requests : Expire(r)
           \/ SocketReader \/ MessageProcessor \/ TimeoutManager \/ ErrorHandler
           \/ ReconnectManager \/ StopCancels \/ StopDrains \/ StopCloses \/ Network
    PROVE  TablesAreTidy'
<1>1. CASE \E r \in Requests : Expire(r)
  BY <1>1, TidyShrinks DEF Expire, table
<1>2. CASE SocketReader \/ ErrorHandler \/ ReconnectManager \/ Network
  BY <1>2, TidyShrinks
  DEF SocketReader, ReaderLooks, ReaderEnters, ReaderFails, ReaderOnly, ErrorHandler,
      ReconnectManager, Reconnect, CloseOld, Dial, Install, WakeUp, ReconnOnly,
      Network, ReaderReceives, Break, table, calls
<1>3. CASE MessageProcessor
  <2>1. UNCHANGED <<pending, caller>>
    BY <1>3 DEF MessageProcessor, Correlate, DeliverResponse, ForgetFired, ProcessorQuits,
                ProcessorOnly, calls
  <2>2. UNCHANGED nonces \/ nonces' = Forgotten(processor.req)
    BY <1>3 DEF MessageProcessor, Correlate, DeliverResponse, ForgetFired, ProcessorQuits
  <2>3. \A n \in Nonces : nonces'[n] \in {nonces[n], "none"} BY <2>2 DEF Forgotten, TypeOK
  <2> QED BY <2>1, <2>3, TidyShrinks
<1>4. CASE TimeoutManager \/ StopCancels \/ StopDrains \/ StopCloses
  <2>1. UNCHANGED <<caller, nonces>> /\ pending' \subseteq pending
    BY <1>4 DEF TimeoutManager, CollectExpired, CleanUp, CleanerOnly, StopCancels, StopDrains,
                StopCloses, StopOnly, calls
  <2> QED BY <2>1, TidyShrinks
<1> QED BY <1>1, <1>2, <1>3, <1>4

\* An entry of c.pending or c.pendingNonces belongs to a request that is under
\* way, whose caller will take it out: none is left behind, and a response, a
\* retry or a second request with the nonce puts none back.
THEOREM TablesStayTidy == Spec => []TablesAreTidy
<1>1. Init => TablesAreTidy BY DEF Init, TablesAreTidy
<1>2. TypeOK /\ TablesAreTidy /\ [Next]_vars => TablesAreTidy'
  <2>1. ASSUME TypeOK, TablesAreTidy, Next PROVE TablesAreTidy'
    BY <2>1, TidyCaller, TidyOthers DEF Next
  <2>2. ASSUME TablesAreTidy, UNCHANGED vars PROVE TablesAreTidy'
    BY <2>2 DEF TablesAreTidy, vars, table, calls
  <2> QED BY <2>1, <2>2
<1> QED BY <1>1, <1>2, ClientTypes, PTL DEF Spec
=============================================================================
