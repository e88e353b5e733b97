-------------------------- MODULE HermesWorkerProofs --------------------------
(***************************************************************************)
(* Theorems about HermesWorker, for every set of requests, number of       *)
(* retries, channel capacity and delay: its type invariant, and that a     *)
(* worker without a socket is always being reconnected.                    *)
(***************************************************************************)
EXTENDS HermesWorker, SequenceTheorems, TLAPS

-----------------------------------------------------------------------------
(* The type invariant *)

Messages == Requests \cup {"HEARTBEAT", "DISCONNECT"}

RunSteps == {"none", "spawned", "begin", "delay", "close", "connect", "dial", "ready",
             "announce", "reset"}

\* A request that waits or is handled was received.  With it the type invariant
\* is inductive: what is answered comes from the channel by way of the processor.
HeldIsReceived ==
    /\ \A i \in 1 .. Len(messagesCh) : messagesCh[i] \in Requests => messagesCh[i] \in received
    /\ processor # None => processor.request \in received

TypeInv == TypeOK /\ HeldIsReceived

\* Taking the first message of the channel.
LEMMA TakeTypes ==
    ASSUME TypeInv, NEW m \in Messages, Take(m)
    PROVE  /\ messagesCh' \in Seq(Messages) /\ Len(messagesCh') <= MessagesCap
           /\ \A i \in 1 .. Len(messagesCh') : messagesCh'[i] \in Requests => messagesCh'[i] \in received
           /\ m \in Requests => m \in received
<1>1. messagesCh \in Seq(Messages) /\ messagesCh # <<>> /\ messagesCh' = Tail(messagesCh)
      /\ Head(messagesCh) = m
  BY DEF TypeInv, TypeOK, Take, Messages
<1>2. Len(messagesCh) \in Nat \ {0} /\ MessagesCap \in Nat /\ Len(messagesCh) <= MessagesCap
  BY <1>1, EmptySeq, LenProperties, WorkerAssumption DEF TypeInv, TypeOK
<1>3. /\ Tail(messagesCh) \in Seq(Messages) /\ Len(Tail(messagesCh)) = Len(messagesCh) - 1
      /\ \A i \in 1 .. Len(Tail(messagesCh)) : Tail(messagesCh)[i] = messagesCh[i + 1]
  BY <1>1, HeadTailProperties
<1>4. m = messagesCh[1] BY <1>1
<1> QED BY <1>1, <1>2, <1>3, <1>4 DEF TypeInv, HeldIsReceived

LEMMA PutTypes ==
    ASSUME TypeInv, NEW m \in Messages,
           messagesCh' = IF Len(messagesCh) < MessagesCap THEN Append(messagesCh, m) ELSE messagesCh,
           received \subseteq received', m \in Requests => m \in received'
    PROVE  /\ messagesCh' \in Seq(Messages) /\ Len(messagesCh') <= MessagesCap
           /\ \A i \in 1 .. Len(messagesCh') : messagesCh'[i] \in Requests => messagesCh'[i] \in received'
<1>1. messagesCh \in Seq(Messages) /\ Len(messagesCh) <= MessagesCap BY DEF TypeInv, TypeOK, Messages
<1>2. Len(messagesCh) \in Nat /\ MessagesCap \in Nat
  BY <1>1, LenProperties, WorkerAssumption
<1>3. /\ Append(messagesCh, m) \in Seq(Messages)
      /\ Len(Append(messagesCh, m)) = Len(messagesCh) + 1
      /\ \A i \in 1 .. Len(messagesCh) : Append(messagesCh, m)[i] = messagesCh[i]
      /\ Append(messagesCh, m)[Len(messagesCh) + 1] = m
  BY <1>1, AppendProperties
<1> QED BY <1>1, <1>2, <1>3 DEF TypeInv, HeldIsReceived

LEMMA TypeInit == ASSUME Init PROVE TypeInv
<1>1. <<>> \in Seq(Messages) /\ Len(<<>>) = 0 BY EmptySeq
<1>2. reconn \in [Runs -> [step : RunSteps, dialed : NoSocket .. conns]]
  BY DEF Init, Ended, NoSocket, RunSteps
<1>3. /\ reader \in [step : {"loop", "enter"}] \cup [step : {"blocked"}, on : NoSocket .. conns]
      /\ open \subseteq 1 .. conns /\ readied \subseteq 1 .. conns /\ socket \in NoSocket .. conns
  BY DEF Init, NoSocket
<1>4. /\ errorsCh \in 0 .. ErrorsCap /\ heartbeatCh \in 0 .. HeartbeatCap /\ reconnectCh \in 0 .. 1
      /\ Len(messagesCh) <= MessagesCap /\ faults \in 0 .. MaxFaults /\ told \in 0 .. MaxDisconnects
  BY <1>1, WorkerAssumption DEF Init
<1>5. /\ attempt \in Nat /\ conns \in Nat \ {0} /\ broken \subseteq 1 .. conns
      /\ quit \subseteq {"processor", "beater", "handler"}
      /\ received \subseteq Requests /\ replied \subseteq received /\ unsent \subseteq received
  BY DEF Init
<1>6. /\ processor = None /\ messagesCh \in Seq(Messages) /\ owed = FALSE
      /\ state = "connecting" /\ beater = "wait" /\ stop = "no" /\ panicked = "no"
  BY <1>1 DEF Init
<1>7. TypeOK
  <2>1. processor \in {None} \cup [step : {"handle", "reply", "send"}, request : Requests]
    BY <1>6
  <2>2. /\ state \in {"disconnected", "connecting", "ready", "working", "reconnecting"}
        /\ beater \in {"wait", "post", "check", "guard", "send"}
        /\ stop \in {"no", "begun", "sending", "cancelled", "closing", "done"}
        /\ panicked \in {"no", "socket", "jitter"}
    BY <1>6
  <2> QED BY <1>2, <1>3, <1>4, <1>5, <1>6, <2>1, <2>2 DEF TypeOK, Messages, RunSteps
<1> QED BY <1>1, <1>7 DEF Init, TypeInv, HeldIsReceived

\* The outcomes of a use of w.socket, and of putting an error into errorsCh.
LEMMA UseTypes == ASSUME UseSocket PROVE panicked' \in {"no", "socket", "jitter"}
BY DEF UseSocket

LEMMA PostTypes == ASSUME TypeOK, PostError PROVE errorsCh' \in 0 .. ErrorsCap
<1>1. ErrorsCap \in Nat /\ errorsCh \in 0 .. ErrorsCap BY WorkerAssumption DEF TypeOK
<1> QED BY <1>1 DEF PostError

LEMMA ReaderTypes ==
    ASSUME TypeInv, ReaderLooks \/ ReaderEnters \/ ReaderFails
           \/ \E m \in Messages : ReaderReceives(m)
    PROVE  TypeInv'
<1>1. ReaderOnly BY DEF ReaderLooks, ReaderEnters, ReaderFails, ReaderReceives
<1>2. CASE ReaderLooks \/ ReaderEnters \/ ReaderFails
  <2>1. /\ UNCHANGED <<messagesCh, received, owed, told>>
        /\ errorsCh' \in 0 .. ErrorsCap
        /\ panicked' \in {"no", "socket", "jitter"}
    BY <1>2, UseTypes, PostTypes DEF ReaderLooks, ReaderEnters, ReaderFails, TypeInv, TypeOK
  <2>2. reader' \in [step : {"loop", "enter"}] \cup [step : {"blocked"}, on : NoSocket .. conns]
    BY <1>2 DEF ReaderLooks, ReaderEnters, ReaderFails, TypeInv, TypeOK
  <2>3. TypeOK'
    BY <1>1, <2>1, <2>2 DEF ReaderOnly, link, TypeInv, TypeOK
  <2> QED BY <1>1, <2>1, <2>3 DEF ReaderOnly, TypeInv, HeldIsReceived
<1>3. ASSUME NEW m \in Messages, ReaderReceives(m) PROVE TypeInv'
  <2>1. /\ received' \subseteq Requests /\ received \subseteq received'
        /\ m \in Requests => m \in received'
        /\ owed' \in BOOLEAN /\ told' \in 0 .. MaxDisconnects
    <3>1. told \in 0 .. MaxDisconnects /\ MaxDisconnects \in Nat /\ received \subseteq Requests
          /\ owed \in BOOLEAN
      BY WorkerAssumption DEF TypeInv, TypeOK
    <3>2. CASE m = "HEARTBEAT"
      <4>1. owed' = FALSE /\ UNCHANGED <<received, told>> BY <1>3, <3>2 DEF ReaderReceives
      <4>2. m \notin Requests BY <3>2, WorkerAssumption
      <4> QED BY <3>1, <4>1, <4>2
    <3>3. CASE m = "DISCONNECT"
      <4>1. told < MaxDisconnects /\ told' = told + 1 /\ UNCHANGED <<received, owed>>
        BY <1>3, <3>1, <3>3 DEF ReaderReceives, Disconnects
      <4>2. m \notin Requests BY <3>3, WorkerAssumption
      <4> QED BY <3>1, <4>1, <4>2
    <3>4. CASE m \notin {"HEARTBEAT", "DISCONNECT"}
      <4>1. received' = received \cup {m} /\ UNCHANGED <<owed, told>>
        BY <1>3, <3>4 DEF ReaderReceives
      <4> QED BY <3>1, <3>4, <4>1 DEF Messages
    <3> QED BY <3>2, <3>3, <3>4
  <2>2. /\ messagesCh' \in Seq(Messages) /\ Len(messagesCh') <= MessagesCap
        /\ \A i \in 1 .. Len(messagesCh') : messagesCh'[i] \in Requests => messagesCh'[i] \in received'
    <3>1. messagesCh' = IF Len(messagesCh) < MessagesCap THEN Append(messagesCh, m) ELSE messagesCh
      BY <1>3 DEF ReaderReceives
    <3> QED BY <2>1, <3>1, PutTypes
  <2>3. reader' = [step |-> "loop"] /\ UNCHANGED <<errorsCh, panicked>>
    BY <1>3 DEF ReaderReceives
  <2>4. TypeOK'
    BY <1>1, <2>1, <2>2, <2>3 DEF ReaderOnly, link, TypeInv, TypeOK, Messages
  <2> QED BY <1>1, <2>1, <2>2, <2>4 DEF ReaderOnly, TypeInv, HeldIsReceived
<1> QED BY <1>2, <1>3

ProcessorRecords == {None} \cup [step : {"handle", "reply", "send"}, request : Requests]

LEMMA ProcessorTypes ==
    ASSUME TypeInv, MessageProcessor PROVE TypeInv'
<1>1. ProcessorOnly
  BY DEF MessageProcessor, HandleHeartbeat, HandleDisconnect, HandleRequest, Take, HandlerReturns,
         ReplyChecks, ReplySends
<1>2. /\ messagesCh \in Seq(Messages) /\ Len(messagesCh) <= MessagesCap
      /\ reconn \in [Runs -> [step : RunSteps, dialed : NoSocket .. conns]]
      /\ processor \in ProcessorRecords
  BY DEF TypeInv, TypeOK, Messages, RunSteps, ProcessorRecords
<1> SUFFICES /\ state' \in {"disconnected", "connecting", "ready", "working", "reconnecting"}
             /\ messagesCh' \in Seq(Messages) /\ Len(messagesCh') <= MessagesCap
             /\ \A i \in 1 .. Len(messagesCh') : messagesCh'[i] \in Requests => messagesCh'[i] \in received
             /\ errorsCh' \in 0 .. ErrorsCap
             /\ processor' \in ProcessorRecords
             /\ processor' # None => processor'.request \in received
             /\ reconn' \in [Runs -> [step : RunSteps, dialed : NoSocket .. conns]]
             /\ panicked' \in {"no", "socket", "jitter"}
             /\ replied' \subseteq received /\ unsent' \subseteq received
  BY <1>1 DEF ProcessorOnly, link, peer, TypeInv, TypeOK, HeldIsReceived, Messages, RunSteps,
              ProcessorRecords
<1>3. CASE HandleHeartbeat
  <2>1. Take("HEARTBEAT") /\ UNCHANGED <<state, processor, reconn, errorsCh, panicked, replied, unsent>>
    BY <1>3 DEF HandleHeartbeat, Take
  <2> QED BY <1>2, <2>1, TakeTypes DEF TypeInv, TypeOK, HeldIsReceived, Messages
<1>4. CASE HandleDisconnect
  <2>1. /\ Take("DISCONNECT") /\ UNCHANGED <<state, processor, errorsCh, panicked, replied, unsent>>
        /\ reconn' = [reconn EXCEPT ![Processor].step = "begin"]
    BY <1>4 DEF HandleDisconnect, Take
  <2>2. reconn' \in [Runs -> [step : RunSteps, dialed : NoSocket .. conns]]
    BY <1>2, <2>1 DEF RunSteps
  <2> QED BY <1>2, <2>1, <2>2, TakeTypes DEF TypeInv, TypeOK, HeldIsReceived, Messages
<1>5. ASSUME NEW r \in Requests, HandleRequest(r)
      PROVE  /\ state' \in {"disconnected", "connecting", "ready", "working", "reconnecting"}
             /\ messagesCh' \in Seq(Messages) /\ Len(messagesCh') <= MessagesCap
             /\ \A i \in 1 .. Len(messagesCh') : messagesCh'[i] \in Requests => messagesCh'[i] \in received
             /\ errorsCh' \in 0 .. ErrorsCap
             /\ processor' \in ProcessorRecords
             /\ processor' # None => processor'.request \in received
             /\ reconn' \in [Runs -> [step : RunSteps, dialed : NoSocket .. conns]]
             /\ panicked' \in {"no", "socket", "jitter"}
             /\ replied' \subseteq received /\ unsent' \subseteq received
  <2>1. Take(r) /\ state' = "working" /\ processor' = [step |-> "handle", request |-> r]
        /\ UNCHANGED <<reconn, errorsCh, panicked, replied, unsent>>
    BY <1>5 DEF HandleRequest, Take
  <2>2. r \in received /\ messagesCh' \in Seq(Messages) /\ Len(messagesCh') <= MessagesCap
        /\ \A i \in 1 .. Len(messagesCh') : messagesCh'[i] \in Requests => messagesCh'[i] \in received
    BY <2>1, TakeTypes DEF Messages
  <2> QED BY <1>2, <2>1, <2>2 DEF TypeInv, TypeOK, ProcessorRecords
<1>6. CASE HandlerReturns
  <2>1. /\ processor.step = "handle" /\ state' = "ready" /\ processor' = [processor EXCEPT !.step = "reply"]
        /\ UNCHANGED <<messagesCh, errorsCh, reconn, panicked, replied, unsent>>
    BY <1>6 DEF HandlerReturns, Answering
  <2>2. processor \in [step : {"handle", "reply", "send"}, request : Requests] /\ processor # None
    BY <1>2, <2>1 DEF ProcessorRecords, None
  <2>3. processor' \in ProcessorRecords /\ processor'.request \in received
    BY <2>1, <2>2 DEF ProcessorRecords, TypeInv, HeldIsReceived
  <2> QED BY <1>2, <2>1, <2>3 DEF TypeInv, TypeOK, HeldIsReceived
<1>7. CASE ReplyChecks
  <2>1. processor.step = "reply" /\ UNCHANGED <<state, messagesCh, reconn, panicked, replied>>
    BY <1>7 DEF ReplyChecks
  <2>2. processor \in [step : {"handle", "reply", "send"}, request : Requests] /\ processor # None
        /\ processor.request \in received
    BY <1>2, <2>1 DEF ProcessorRecords, None, TypeInv, HeldIsReceived
  <2>3. CASE socket = NoSocket
    <3>1. PostError /\ unsent' = unsent \cup {processor.request} /\ processor' = None
      BY <1>7, <2>3 DEF ReplyChecks
    <3> QED BY <1>2, <2>1, <2>2, <3>1, PostTypes DEF TypeInv, TypeOK, HeldIsReceived, ProcessorRecords
  <2>4. CASE socket # NoSocket
    <3>1. processor' = [processor EXCEPT !.step = "send"] /\ UNCHANGED <<errorsCh, unsent>>
      BY <1>7, <2>4 DEF ReplyChecks
    <3>2. processor' \in ProcessorRecords /\ processor'.request \in received
      BY <2>2, <3>1 DEF ProcessorRecords
    <3> QED BY <1>2, <2>1, <3>1, <3>2 DEF TypeInv, TypeOK, HeldIsReceived
  <2> QED BY <2>3, <2>4
<1>8. CASE ReplySends
  <2>1. /\ processor.step = "send" /\ UseSocket /\ processor' = None
        /\ UNCHANGED <<state, messagesCh, reconn>>
        /\ \/ replied' = replied \cup {processor.request} /\ UNCHANGED <<errorsCh, unsent>>
           \/ PostError /\ unsent' = unsent \cup {processor.request} /\ UNCHANGED replied
    BY <1>8 DEF ReplySends
  <2>2. processor # None /\ processor.request \in received
    BY <1>2, <2>1 DEF ProcessorRecords, None, TypeInv, HeldIsReceived
  <2> QED BY <1>2, <2>1, <2>2, UseTypes, PostTypes DEF TypeInv, TypeOK, HeldIsReceived, ProcessorRecords
<1> QED BY <1>3, <1>4, <1>5, <1>6, <1>7, <1>8 DEF MessageProcessor

RunRecords == [step : RunSteps, dialed : NoSocket .. conns]

\* A run that goes to another step, and one that ends and starts another.
LEMMA RunTypes ==
    ASSUME TypeOK, NEW t \in Runs
    PROVE  /\ \A s \in RunSteps : GoTo(t, s) => reconn' \in [Runs -> RunRecords]
           /\ reconn' = [reconn EXCEPT ![t] = Ended] => reconn' \in [Runs -> RunRecords]
           /\ \A u \in Runs : Retry(t, u) => reconn' \in [Runs -> RunRecords]
<1>1. reconn \in [Runs -> RunRecords] /\ conns \in Nat \ {0}
  BY DEF TypeOK, RunRecords, RunSteps
<1>2. Ended \in RunRecords /\ [Ended EXCEPT !.step = "spawned"] \in RunRecords
  BY <1>1 DEF Ended, NoSocket, RunRecords, RunSteps
<1>3. ASSUME NEW s \in RunSteps, GoTo(t, s) PROVE reconn' \in [Runs -> RunRecords]
  BY <1>1, <1>3 DEF GoTo, RunRecords
<1>4. ASSUME NEW u \in Runs, Retry(t, u) PROVE reconn' \in [Runs -> RunRecords]
  <2> DEFINE spawned == [Ended EXCEPT !.step = "spawned"]
  <2>1. reconn' = [reconn EXCEPT ![t] = Ended, ![u] = spawned] BY <1>4 DEF Retry
  <2>2. spawned \in RunRecords BY <1>2
  <2> HIDE DEF spawned
  <2> QED BY <1>1, <1>2, <2>1, <2>2
<1> QED BY <1>1, <1>2, <1>3, <1>4

LEMMA ReconnectTypes ==
    ASSUME TypeInv, NEW t \in Runs, ReconnectRun(t) PROVE TypeInv'
<1>1. ReconnOnly
  BY DEF ReconnectRun, Begin, Backoff, CloseSocket, Connect, Dial, CheckReady, SendReady, Reset,
         RoundFails, LastAttemptFails, RetryStarts
<1>2. /\ socket \in NoSocket .. conns /\ conns \in Nat \ {0} /\ attempt \in Nat
      /\ open \subseteq 1 .. conns /\ readied \subseteq 1 .. conns
      /\ faults \in 0 .. MaxFaults /\ MaxFaults \in Nat
      /\ reconn \in [Runs -> RunRecords] /\ reconn[t] \in RunRecords
  BY WorkerAssumption DEF TypeInv, TypeOK, RunRecords, RunSteps
<1>3. RunSteps = {"none", "spawned", "begin", "delay", "close", "connect", "dial", "ready",
                  "announce", "reset"}
  BY DEF RunSteps
<1> DEFINE Types ==
      /\ state' \in {"disconnected", "connecting", "ready", "working", "reconnecting"}
      /\ socket' \in NoSocket .. conns' /\ attempt' \in Nat /\ conns' \in Nat \ {0} /\ conns <= conns'
      /\ open' \subseteq 1 .. conns' /\ readied' \subseteq 1 .. conns'
      /\ broken' = broken /\ faults' \in 0 .. MaxFaults
      /\ panicked' \in {"no", "socket", "jitter"}
      /\ reconn' \in [Runs -> [step : RunSteps, dialed : NoSocket .. conns']]
<1>4. ASSUME Types PROVE TypeInv'
  <2>1. /\ broken' \subseteq 1 .. conns'
        /\ reader' \in [step : {"loop", "enter"}] \cup [step : {"blocked"}, on : NoSocket .. conns']
    BY <1>1, <1>2, <1>4 DEF ReconnOnly, TypeInv, TypeOK
  <2>2. TypeOK' BY <1>1, <1>4, <2>1 DEF ReconnOnly, chans, TypeInv, TypeOK, RunSteps
  <2> QED BY <1>1, <2>2 DEF ReconnOnly, chans, TypeInv, HeldIsReceived
<1>5. CASE conns' = conns
  <2> SUFFICES /\ state' \in {"disconnected", "connecting", "ready", "working", "reconnecting"}
               /\ socket' \in NoSocket .. conns /\ attempt' \in Nat
               /\ open' \subseteq 1 .. conns /\ readied' \subseteq 1 .. conns
               /\ broken' = broken /\ faults' \in 0 .. MaxFaults
               /\ panicked' \in {"no", "socket", "jitter"}
               /\ reconn' \in [Runs -> RunRecords]
    BY <1>2, <1>4, <1>5 DEF RunRecords
  <2>1. CASE Begin(t)
    <3>1. reconn' \in [Runs -> RunRecords] BY <1>3, <2>1, RunTypes DEF Begin, TypeInv
    <3> QED BY <1>2, <2>1, <3>1 DEF Begin, link, TypeInv, TypeOK
  <2>2. CASE Backoff(t)
    <3>1. reconn' \in [Runs -> RunRecords] BY <1>3, <2>2, RunTypes DEF Backoff, TypeInv
    <3>2. panicked' \in {"no", "jitter"} BY <2>2 DEF Backoff
    <3>3. UNCHANGED <<state, attempt, socket, open, readied, broken, faults>> BY <2>2 DEF Backoff, link
    <3> QED BY <1>2, <3>1, <3>2, <3>3 DEF TypeInv, TypeOK
  <2>3. CASE CloseSocket(t)
    <3>1. reconn' \in [Runs -> RunRecords] BY <1>3, <2>3, RunTypes DEF CloseSocket, TypeInv
    <3> QED BY <1>2, <2>3, <3>1, UseTypes DEF CloseSocket, NoSocket, TypeInv, TypeOK
  <2>4. CASE Connect(t)
    <3>1. reconn' \in [Runs -> RunRecords] BY <1>3, <2>4, RunTypes DEF Connect, TypeInv
    <3> QED BY <1>2, <2>4, <3>1 DEF Connect, link, TypeInv, TypeOK
  <2>5. ASSUME ReadyFails(t)
        PROVE  /\ reconn' \in [Runs -> RunRecords] /\ socket' \in NoSocket .. conns
               /\ open' \subseteq 1 .. conns /\ readied' \subseteq 1 .. conns
    <3>1. reconn' \in [Runs -> RunRecords] BY <1>3, <2>5, RunTypes DEF ReadyFails, TypeInv
    <3>2. /\ open' = open \ {reconn[t].dialed} /\ socket' = 0 /\ readied' = readied
          /\ 0 \in NoSocket .. conns
      BY <1>2, <2>5 DEF ReadyFails, NoSocket
    <3>3. open' \subseteq 1 .. conns BY <1>2, <3>2
    <3> QED BY <1>2, <3>1, <3>2, <3>3
  <2>6. CASE CheckReady(t)
    <3>1. /\ ReadyFails(t) \/ (GoTo(t, "announce") /\ UNCHANGED <<socket, open, readied>>)
          /\ UNCHANGED <<state, attempt, broken, faults, panicked>>
      BY <2>6 DEF CheckReady
    <3>2. GoTo(t, "announce") => reconn' \in [Runs -> RunRecords] BY <1>3, RunTypes DEF TypeInv
    <3> QED BY <1>2, <2>5, <3>1, <3>2 DEF TypeInv, TypeOK
  <2>7. CASE SendReady(t)
    <3>1. /\ UseSocket /\ UNCHANGED <<state, attempt, broken, faults>>
          /\ \/ ReadyFails(t)
             \/ /\ Usable(socket) /\ readied' = readied \cup {socket} /\ GoTo(t, "reset")
                /\ UNCHANGED <<socket, open>>
      BY <2>7 DEF SendReady
    <3>2. GoTo(t, "reset") => reconn' \in [Runs -> RunRecords] BY <1>3, RunTypes DEF TypeInv
    <3>3. Usable(socket) => socket \in 1 .. conns BY <1>2 DEF Usable
    <3> QED BY <1>2, <2>5, <3>1, <3>2, <3>3, UseTypes DEF TypeInv, TypeOK
  <2>8. CASE Reset(t)
    <3>1. reconn' \in [Runs -> RunRecords] BY <2>8, RunTypes DEF Reset, TypeInv
    <3> QED BY <1>2, <2>8, <3>1 DEF Reset, link, TypeInv, TypeOK
  <2>9. CASE RoundFails(t)
    <3>1. reconn' \in [Runs -> RunRecords]
      BY <2>9, RunTypes DEF RoundFails, Runs, TypeInv
    <3>2. faults' \in 0 .. MaxFaults BY <1>2, <2>9 DEF RoundFails, LastAttemptFails
    <3> QED BY <1>2, <2>9, <3>1, <3>2 DEF RoundFails, NowDisconnected, link, TypeInv, TypeOK
  <2>10. CASE RetryStarts(t)
    <3>1. reconn' \in [Runs -> RunRecords] BY <1>3, <2>10, RunTypes DEF RetryStarts, TypeInv
    <3> QED BY <1>2, <2>10, <3>1 DEF RetryStarts, link, TypeInv, TypeOK
  <2>11. CASE Dial(t)
    BY <1>2, <1>5, <2>11 DEF Dial
  <2> QED BY <2>1, <2>2, <2>3, <2>4, <2>6, <2>7, <2>8, <2>9, <2>10, <2>11 DEF ReconnectRun
<1>6. CASE Dial(t)
  <2>1. /\ conns' = conns + 1 /\ socket' = conns' /\ open' = open \cup {conns'}
        /\ reconn' = [reconn EXCEPT ![t] = [step |-> "ready", dialed |-> conns']]
        /\ UNCHANGED <<state, attempt, readied, broken, faults, panicked>>
    BY <1>6 DEF Dial
  <2>2. reconn' \in [Runs -> [step : RunSteps, dialed : NoSocket .. conns']]
    <3> DEFINE Later == [step : RunSteps, dialed : NoSocket .. conns']
               fresh == [step |-> "ready", dialed |-> conns']
    <3>1. fresh \in Later BY <1>2, <1>3, <2>1 DEF NoSocket
    <3>2. RunRecords \subseteq Later BY <1>2, <2>1 DEF RunRecords, NoSocket
    <3>3. reconn \in [Runs -> Later] BY <1>2, <3>2
    <3> HIDE DEF fresh, Later
    <3>4. reconn' = [reconn EXCEPT ![t] = fresh] BY <2>1 DEF fresh
    <3>5. reconn' \in [Runs -> Later] BY <3>1, <3>3, <3>4
    <3> QED BY <3>5 DEF Later
  <2>3. /\ socket' \in NoSocket .. conns' /\ conns' \in Nat \ {0} /\ conns <= conns'
        /\ open' \subseteq 1 .. conns' /\ readied' \subseteq 1 .. conns'
    BY <1>2, <2>1 DEF NoSocket
  <2> QED BY <1>2, <1>4, <2>1, <2>2, <2>3 DEF TypeInv, TypeOK
<1>7. conns' = conns \/ Dial(t)
  BY DEF ReconnectRun, Begin, Backoff, CloseSocket, Connect, CheckReady, SendReady, Reset,
         RoundFails, LastAttemptFails, RetryStarts, link
<1> QED BY <1>5, <1>6, <1>7

LEMMA BeaterTypes ==
    ASSUME TypeInv, HeartbeatManager PROVE TypeInv'
<1>1. BeaterOnly BY DEF HeartbeatManager, Tick, PostBeat, CheckBeat, GuardBeat, SendBeat
<1>2. HeartbeatCap \in Nat /\ heartbeatCh \in 0 .. HeartbeatCap
  BY WorkerAssumption DEF TypeInv, TypeOK
<1>3. /\ errorsCh' \in 0 .. ErrorsCap /\ heartbeatCh' \in 0 .. HeartbeatCap
      /\ beater' \in {"wait", "post", "check", "guard", "send"}
      /\ owed' \in BOOLEAN /\ panicked' \in {"no", "socket", "jitter"}
  <2>1. CASE Tick BY <2>1 DEF Tick, TypeInv, TypeOK
  <2>2. CASE PostBeat BY <1>2, <2>2 DEF PostBeat, HasRoom, TypeInv, TypeOK
  <2>3. CASE CheckBeat BY <2>3 DEF CheckBeat, TypeInv, TypeOK
  <2>4. CASE GuardBeat BY <2>4, PostTypes DEF GuardBeat, TypeInv, TypeOK
  <2>5. CASE SendBeat BY <2>5, PostTypes, UseTypes DEF SendBeat, TypeInv, TypeOK
  <2> QED BY <2>1, <2>2, <2>3, <2>4, <2>5 DEF HeartbeatManager
<1>4. TypeOK' BY <1>1, <1>3 DEF BeaterOnly, link, TypeInv, TypeOK
<1> QED BY <1>1, <1>4 DEF BeaterOnly, TypeInv, HeldIsReceived

\* What is left of Next: the handler of errors, Stop, the end of a goroutine and
\* a connection that breaks.
Others ==
    \/ ErrorHandler \/ StopBegins \/ StopDisconnects \/ StopCloses
    \/ \E g \in {"processor", "beater", "handler"} : Quit(g)
    \/ \E c \in open : Break(c)

LEMMA NextSplits ==
    ASSUME Next
    PROVE  \/ ReaderLooks \/ ReaderEnters \/ ReaderFails \/ (\E m \in Messages : ReaderReceives(m))
           \/ MessageProcessor \/ HeartbeatManager \/ (\E t \in Runs : ReconnectRun(t)) \/ Others
BY DEF Next, SocketReader, Network, Messages, Others

LEMMA OtherTypes ==
    ASSUME TypeInv, Others PROVE TypeInv'
<1>1. CASE ErrorHandler
  <2>1. errorsCh' \in 0 .. ErrorsCap /\ reconnectCh' \in 0 .. 1
    BY <1>1, WorkerAssumption DEF ErrorHandler, TypeInv, TypeOK
  <2>2. UNCHANGED <<state, attempt, socket, conns, open, readied, messagesCh, heartbeatCh, reader, processor,
                    beater, reconn, stop, panicked, quit, broken, received, owed, faults, told,
                    replied, unsent>>
    BY <1>1 DEF ErrorHandler, link, peer
  <2> QED BY <2>1, <2>2 DEF TypeInv, TypeOK, HeldIsReceived
<1>2. CASE StopBegins \/ StopDisconnects \/ StopCloses
  <2>1. StopOnly BY <1>2 DEF StopBegins, StopDisconnects, StopCloses
  <2>2. /\ state' \in {"disconnected", "connecting", "ready", "working", "reconnecting"}
        /\ socket' \in {socket, NoSocket} /\ open' \subseteq open
        /\ stop' \in {"no", "begun", "sending", "cancelled", "closing", "done"}
        /\ panicked' \in {"no", "socket", "jitter"}
    <3>1. CASE StopBegins BY <3>1 DEF StopBegins, TypeInv, TypeOK
    <3>2. CASE StopDisconnects BY <3>2, UseTypes DEF StopDisconnects, TypeInv, TypeOK
    <3>3. CASE StopCloses BY <3>3, UseTypes DEF StopCloses, TypeInv, TypeOK
    <3> QED BY <1>2, <3>1, <3>2, <3>3
  <2>3. socket' \in NoSocket .. conns /\ open' \subseteq 1 .. conns
    BY <2>2 DEF TypeInv, TypeOK, NoSocket
  <2>4. TypeOK' BY <2>1, <2>2, <2>3 DEF StopOnly, chans, peer, TypeInv, TypeOK
  <2> QED BY <2>1, <2>4 DEF StopOnly, chans, peer, TypeInv, HeldIsReceived
<1>3. ASSUME NEW g \in {"processor", "beater", "handler"}, Quit(g) PROVE TypeInv'
  <2>1. quit' = quit \cup {g}
        /\ UNCHANGED <<state, attempt, socket, conns, open, readied, messagesCh, errorsCh, heartbeatCh,
                    reconnectCh, reader, processor, beater, reconn, stop, panicked, broken, received, owed,
                    faults, told, replied, unsent>>
    BY <1>3 DEF Quit, link, peer, chans
  <2> QED BY <2>1 DEF TypeInv, TypeOK, HeldIsReceived
<1>4. ASSUME NEW c \in open, Break(c) PROVE TypeInv'
  <2>1. broken' \subseteq 1 .. conns /\ faults' \in 0 .. MaxFaults
    BY <1>4, WorkerAssumption DEF Break, TypeInv, TypeOK
  <2>2. UNCHANGED <<state, attempt, socket, conns, open, readied, messagesCh, errorsCh, heartbeatCh,
                    reconnectCh, reader, processor, beater, reconn, stop, panicked, quit, received, owed,
                    told, replied, unsent>>
    BY <1>4 DEF Break, link, chans
  <2> QED BY <2>1, <2>2 DEF TypeInv, TypeOK, HeldIsReceived
<1> QED BY <1>1, <1>2, <1>3, <1>4 DEF Others

LEMMA TypeStep == TypeInv /\ [Next]_vars => TypeInv'
<1> SUFFICES ASSUME TypeInv, [Next]_vars PROVE TypeInv'
  OBVIOUS
<1>1. CASE Next
  BY <1>1, NextSplits, ReaderTypes, ProcessorTypes, ReconnectTypes, BeaterTypes, OtherTypes
<1>2. CASE UNCHANGED vars
  BY <1>2 DEF vars, link, chans, peer, TypeInv, TypeOK, HeldIsReceived
<1> QED BY <1>1, <1>2

THEOREM WorkerTypesStrong == Spec => []TypeInv
BY TypeInit, TypeStep, PTL DEF Spec

\* Every variable of the worker keeps its type, no channel holds more than its
\* capacity, and the worker answers, or fails to answer, only what it received:
\* the channels of NewWorker, with processMessage and sendReply.
THEOREM WorkerTypes == Spec => []TypeOK
<1>1. TypeInv => TypeOK BY DEF TypeInv
<1> QED BY <1>1, WorkerTypesStrong, PTL

-----------------------------------------------------------------------------
(* A lost socket has an owner *)

\* A run that has work left for the socket.  One that resets the attempts has
\* done its work, and LostSocketHasOwner alone would let it end with w.socket nil.
Working(t) == reconn[t].step \notin {"none", "reset"}

Excluding(t) == reconn[t].step \in {"delay", "close", "connect"}

OwnerInv ==
    /\ socket = NoSocket /\ stop = "no" => \E t \in Runs : Working(t)
    /\ state = "reconnecting" => \E t \in Runs : Excluding(t)

LEMMA OwnerInit == ASSUME Init PROVE OwnerInv
BY DEF Init, OwnerInv, NoSocket

\* What the steps that leave the runs alone do to the socket and the state.
LEMMA OwnerFramed ==
    ASSUME OwnerInv, UNCHANGED reconn,
           socket' = NoSocket /\ stop' = "no" => socket = NoSocket /\ stop = "no",
           state' = "reconnecting" => state = "reconnecting"
    PROVE  OwnerInv'
BY DEF OwnerInv, Working, Excluding

\* The run a step leaves working, or excluding others, is the owner afterwards.
LEMMA OwnerGoTo ==
    ASSUME TypeOK, NEW t \in Runs, NEW s, GoTo(t, s)
    PROVE  /\ \A u \in Runs \ {t} : reconn'[u] = reconn[u]
           /\ reconn'[t].step = s
<1>1. reconn \in [Runs -> RunRecords] BY DEF TypeOK, RunRecords, RunSteps
<1>2. reconn[t] \in RunRecords BY <1>1
<1>3. [reconn[t] EXCEPT !.step = s].step = s BY <1>2 DEF RunRecords
<1> QED BY <1>1, <1>3 DEF GoTo

LEMMA OwnerReconnect ==
    ASSUME TypeOK, OwnerInv, NEW t \in Runs, ReconnectRun(t) PROVE OwnerInv'
<1>1. reconn \in [Runs -> RunRecords] /\ open \subseteq 1 .. conns /\ conns \in Nat \ {0}
  BY DEF TypeOK, RunRecords, RunSteps
<1>2. UNCHANGED stop
  BY DEF ReconnectRun, Begin, Backoff, CloseSocket, Connect, Dial, CheckReady, SendReady, Reset,
         RoundFails, LastAttemptFails, RetryStarts, ReconnOnly
\* The run goes to a step at which it works, and the state is excluding only if it does.
<1>3. ASSUME NEW s, GoTo(t, s), s \notin {"none", "reset"},
             state' = "reconnecting" => \/ s \in {"delay", "close", "connect"}
                                        \/ state = "reconnecting" /\ ~Excluding(t)
      PROVE  OwnerInv'
  BY <1>3, OwnerGoTo DEF OwnerInv, Working, Excluding
\* The run stops working, with a socket there, or another run working.
<1>4. ASSUME \A u \in Runs \ {t} : reconn'[u] = reconn[u],
             ~Excluding(t), UNCHANGED state,
             socket' = NoSocket /\ stop = "no" => \E u \in Runs \ {t} : Working(u)
      PROVE  OwnerInv'
  BY <1>2, <1>4 DEF OwnerInv, Working, Excluding
<1>5. CASE Begin(t)
  <2>1. reconn[t].step = "begin" /\ UNCHANGED socket BY <1>5 DEF Begin, link
  <2>2. CASE state = "reconnecting"
    <3>1. GoTo(t, "none") /\ UNCHANGED state BY <1>5, <2>2 DEF Begin
    <3>2. PICK u \in Runs : Excluding(u) BY <2>2 DEF OwnerInv
    <3>3. u # t /\ Working(u) /\ ~Excluding(t) BY <2>1, <3>2 DEF Excluding, Working
    <3> QED BY <1>4, <3>1, <3>3, OwnerGoTo
  <2>3. CASE state # "reconnecting"
    <3>1. GoTo(t, "delay") BY <1>5, <2>3 DEF Begin
    <3> QED BY <1>3, <3>1
  <2> QED BY <2>2, <2>3
<1>6. CASE Backoff(t)
  <2>1. GoTo(t, "connect") \/ GoTo(t, "close") BY <1>6 DEF Backoff
  <2> QED BY <1>3, <2>1
<1>7. CASE CloseSocket(t)
  <2>1. GoTo(t, "connect") BY <1>7 DEF CloseSocket
  <2> QED BY <1>3, <2>1
<1>8. CASE Connect(t)
  <2>1. GoTo(t, "dial") /\ state' = "connecting" BY <1>8 DEF Connect
  <2> QED BY <1>3, <2>1
<1>9. CASE Dial(t)
  <2>1. /\ reconn[t].step = "dial" /\ UNCHANGED state /\ socket' # NoSocket
        /\ reconn' = [reconn EXCEPT ![t] = [step |-> "ready", dialed |-> conns']]
    BY <1>1, <1>9 DEF Dial, NoSocket
  <2>2. \A u \in Runs \ {t} : reconn'[u] = reconn[u] BY <1>1, <2>1
  <2> QED BY <1>4, <2>1, <2>2 DEF Excluding
<1>10. CASE CheckReady(t)
  <2>1. reconn[t].step = "ready" /\ UNCHANGED state /\ (GoTo(t, "dial") \/ GoTo(t, "announce"))
    BY <1>10 DEF CheckReady, ReadyFails
  <2> QED BY <1>3, <2>1 DEF Excluding
<1>11. CASE SendReady(t)
  <2>1. reconn[t].step = "announce" /\ UNCHANGED state BY <1>11 DEF SendReady
  <2>2. CASE Usable(socket)
    <3>1. GoTo(t, "reset") /\ UNCHANGED socket BY <1>11, <2>2 DEF SendReady
    <3>2. socket # NoSocket BY <1>1, <2>2 DEF Usable, NoSocket
    <3> QED BY <1>4, <2>1, <3>1, <3>2, OwnerGoTo DEF Excluding
  <2>3. CASE ~Usable(socket)
    <3>1. GoTo(t, "dial") BY <1>11, <2>3 DEF SendReady, ReadyFails
    <3> QED BY <1>3, <2>1, <3>1 DEF Excluding
  <2> QED BY <2>2, <2>3
<1>12. CASE Reset(t)
  <2>1. /\ reconn[t].step = "reset" /\ UNCHANGED <<state, socket>>
        /\ reconn' = [reconn EXCEPT ![t] = Ended]
    BY <1>12 DEF Reset, link
  <2>2. \A u \in Runs \ {t} : reconn'[u] = reconn[u] BY <1>1, <2>1
  <2>3. ~Working(t) /\ ~Excluding(t) BY <2>1 DEF Working, Excluding
  <2>4. socket' = NoSocket /\ stop = "no" => \E u \in Runs \ {t} : Working(u)
    BY <2>1, <2>3 DEF OwnerInv
  <2> QED BY <1>4, <2>1, <2>2, <2>3, <2>4
<1>13. CASE RoundFails(t)
  <2>1. state' = "disconnected" BY <1>13 DEF RoundFails, NowDisconnected
  <2>2. PICK u \in Runs : Retry(t, u) BY <1>13 DEF RoundFails, LastAttemptFails
  <2> DEFINE spawned == [Ended EXCEPT !.step = "spawned"]
  <2>3. spawned.step = "spawned" BY DEF Ended
  <2>4. reconn' = [reconn EXCEPT ![t] = Ended, ![u] = spawned] BY <2>2 DEF Retry
  <2> HIDE DEF spawned
  <2>5. reconn'[u].step = "spawned" BY <1>1, <2>2, <2>3, <2>4
  <2> QED BY <2>1, <2>2, <2>5 DEF OwnerInv, Working
<1>14. CASE RetryStarts(t)
  <2>1. /\ reconn[t].step = "spawned" /\ UNCHANGED <<state, socket>>
        /\ GoTo(t, IF Cancelled THEN "none" ELSE "begin")
    BY <1>14 DEF RetryStarts, link
  <2>2. ~Excluding(t) BY <2>1 DEF Excluding
  <2>3. CASE ~Cancelled
    <3>1. GoTo(t, "begin") BY <2>1, <2>3
    <3> QED BY <1>3, <2>1, <2>2, <3>1
  <2>4. CASE Cancelled
    <3>1. stop # "no" BY <2>4 DEF Cancelled
    <3>2. GoTo(t, "none") BY <2>1, <2>4
    <3> QED BY <1>4, <2>1, <2>2, <3>1, <3>2, OwnerGoTo
  <2> QED BY <2>3, <2>4
<1> QED BY <1>5, <1>6, <1>7, <1>8, <1>9, <1>10, <1>11, <1>12, <1>13, <1>14 DEF ReconnectRun

LEMMA OwnerProcessor ==
    ASSUME TypeOK, OwnerInv, MessageProcessor PROVE OwnerInv'
<1>1. UNCHANGED <<socket, stop>>
  BY DEF MessageProcessor, HandleHeartbeat, HandleDisconnect, HandleRequest, Take, HandlerReturns,
         ReplyChecks, ReplySends, ProcessorOnly, link
<1>2. CASE HandleDisconnect
  <2>1. /\ reconn[Processor].step = "none" /\ UNCHANGED state
        /\ GoTo(Processor, "begin") /\ Processor \in Runs
    BY <1>2, WorkerAssumption DEF HandleDisconnect, Take, GoTo, Runs, Processor
  <2>2. \A u \in Runs \ {Processor} : reconn'[u] = reconn[u] BY <2>1, OwnerGoTo
  <2>3. ~Working(Processor) /\ ~Excluding(Processor) BY <2>1 DEF Working, Excluding
  <2> QED BY <1>1, <2>1, <2>2, <2>3 DEF OwnerInv, Working, Excluding
<1>3. CASE ~HandleDisconnect
  <2>1. UNCHANGED reconn /\ (state' \in {"working", "ready"} \/ state' = state)
    BY <1>3 DEF MessageProcessor, HandleHeartbeat, HandleRequest, Take, HandlerReturns, ReplyChecks,
                ReplySends
  <2> QED BY <1>1, <2>1, OwnerFramed
<1> QED BY <1>2, <1>3

LEMMA OwnerStep == TypeOK /\ OwnerInv /\ [Next]_vars => OwnerInv'
<1> SUFFICES ASSUME TypeOK, OwnerInv, [Next]_vars PROVE OwnerInv'
  OBVIOUS
<1>1. CASE ReaderLooks \/ ReaderEnters \/ ReaderFails \/ \E m \in Messages : ReaderReceives(m)
  <2>1. UNCHANGED <<state, socket, stop, reconn>>
    BY <1>1 DEF ReaderLooks, ReaderEnters, ReaderFails, ReaderReceives, ReaderOnly, link
  <2> QED BY <2>1, OwnerFramed
<1>2. CASE HeartbeatManager
  <2>1. UNCHANGED <<state, socket, stop, reconn>>
    BY <1>2 DEF HeartbeatManager, Tick, PostBeat, CheckBeat, GuardBeat, SendBeat, BeaterOnly, link
  <2> QED BY <2>1, OwnerFramed
<1>3. CASE ErrorHandler \/ (\E g \in {"processor", "beater", "handler"} : Quit(g))
           \/ \E c \in open : Break(c)
  <2>1. UNCHANGED <<state, socket, stop, reconn>>
    BY <1>3 DEF ErrorHandler, Quit, Break, link
  <2> QED BY <2>1, OwnerFramed
<1>4. CASE StopBegins \/ StopDisconnects \/ StopCloses
  <2>1. stop' # "no" /\ UNCHANGED reconn /\ (state' = "disconnected" \/ state' = state)
    BY <1>4 DEF StopBegins, StopDisconnects, StopCloses, StopOnly
  <2> QED BY <2>1, OwnerFramed
<1>5. CASE UNCHANGED vars
  <2>1. UNCHANGED <<state, socket, stop, reconn>> BY <1>5 DEF vars, link
  <2> QED BY <2>1, OwnerFramed
<1> QED
  BY <1>1, <1>2, <1>3, <1>4, <1>5, NextSplits, OwnerReconnect, OwnerProcessor DEF Others

\* A worker whose w.socket is nil has a run of reconnectToBroker under way, and
\* the state "reconnecting", which sends other runs away, belongs to a run that
\* will leave it: no order of DISCONNECTs, failed rounds, overlapping runs and
\* early returns abandons the worker.
THEOREM LostSocketIsOwned == Spec => []LostSocketHasOwner
<1>1. Init => OwnerInv BY OwnerInit
<1>2. TypeOK /\ OwnerInv /\ [Next]_vars => OwnerInv' BY OwnerStep
<1>3. OwnerInv => LostSocketHasOwner BY DEF OwnerInv, Working, Excluding, LostSocketHasOwner
<1> QED BY <1>1, <1>2, <1>3, WorkerTypes, PTL DEF Spec
=============================================================================
