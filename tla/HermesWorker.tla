----------------------------- MODULE HermesWorker -----------------------------
(***************************************************************************)
(* The Hermes worker of internal/hermes/worker.go after Start: the         *)
(* connection to the broker, the goroutines that share w.socket and        *)
(* w.state, and reconnection with exponential backoff.                     *)
(*                                                                         *)
(* w.socket is read and written without a lock, so a check for nil and     *)
(* the use that follows it are separate steps, and using a nil socket ends *)
(* the program, as a bad bound for the jitter does.  Connections are       *)
(* numbered in the order they are dialed.  The liveness counter is left    *)
(* out: all it can do is put a request into reconnectCh, as the error of a *)
(* failed heartbeat does.                                                  *)
(***************************************************************************)
EXTENDS Integers, Sequences, FiniteSets

CONSTANTS
    Requests,         \* the requests the broker ever sends this worker
    Goroutines,       \* bound: retries of reconnectToBroker alive at a time
    MessagesCap,      \* capacity of messagesCh (100 in the code)
    ErrorsCap,        \* capacity of errorsCh (50)
    HeartbeatCap,     \* capacity of heartbeatCh (10)
    BaseDelay,        \* w.reconnect, in units of the backoff
    MaxDelay,         \* maxReconnectDelay
    Width,            \* bits of a time.Duration (64)
    MaxFaults,        \* bound: connections broken and rounds of connect failed
    MaxDisconnects,   \* bound: DISCONNECTs, of the broker and of Stop
    MayStop           \* bound: when Stop may be called

ASSUME WorkerAssumption ==
    /\ {Goroutines, MessagesCap, ErrorsCap, HeartbeatCap, MaxFaults, MaxDisconnects} \subseteq Nat
    /\ BaseDelay \in Nat /\ MaxDelay \in Nat /\ Width \in Nat \ {0}
    /\ BaseDelay >= 4 /\ MaxDelay >= BaseDelay
    /\ {"HEARTBEAT", "DISCONNECT"} \cap Requests = {}
    /\ MayStop \in {"never", "idle", "any"}

VARIABLES
    state,            \* w.state
    socket,           \* w.socket: the number of a connection, NoSocket for nil
    attempt,          \* w.reconnectAttempt
    conns,            \* connections dialed so far
    open, broken,     \* those not closed here, and those the network broke
    readied,          \* connections a READY was sent on
    messagesCh,
    errorsCh, heartbeatCh, reconnectCh,     \* numbers of values in the channels
    reader, processor, beater,  \* where the goroutines are
    reconn,           \* where each run of reconnectToBroker is
    stop,             \* how far Stop has come
    panicked,         \* what ended the program: a nil socket, the jitter, or "no"
    quit,             \* goroutines that returned
    received, replied, unsent,  \* requests read, answered, and answered in vain
    owed,             \* a heartbeat the broker has not answered
    faults, told      \* what the bounds count

link  == <<socket, conns, open, readied>>
chans == <<messagesCh, errorsCh, heartbeatCh, reconnectCh>>
peer  == <<broken, received, owed, faults, told>>
vars  == <<state, attempt, link, chans, reader, processor, beater, reconn, stop,
           panicked, quit, peer, replied, unsent>>

NoSocket == 0
Processor == 0                   \* messageProcessor runs reconnectToBroker too
Runs == Processor .. Goroutines
None == [step |-> "none"]
Ended == [step |-> "none", dialed |-> NoSocket]

Usable(c) == c \in open \ broken

\* What MaxDisconnects bounds: Stop disconnects, too.
Disconnects == IF stop = "no" THEN told ELSE told + 1

\* MayStop: never, if the worker gets no request before or after, or at any time.
Stops == MayStop = "any" \/ (MayStop = "idle" /\ received = {})
RequestsGoOn == MayStop = "any" \/ stop = "no"

\* Start has returned: connected, READY sent, and the state still connecting.
Init ==
    /\ state = "connecting" /\ socket = 1 /\ attempt = 0
    /\ conns = 1 /\ open = {1} /\ broken = {} /\ readied = {1}
    /\ messagesCh = <<>> /\ errorsCh = 0 /\ heartbeatCh = 0 /\ reconnectCh = 0
    /\ reader = [step |-> "loop"] /\ processor = None /\ beater = "wait"
    /\ reconn = [t \in Runs |-> Ended]
    /\ stop = "no" /\ panicked = "no" /\ quit = {}
    /\ received = {} /\ replied = {} /\ unsent = {}
    /\ owed = FALSE /\ faults = 0 /\ told = 0

\* Stop has cancelled w.ctx.
Cancelled == stop \in {"cancelled", "closing", "done"}

\* The program has not panicked; nothing happens once it has.  The frames of the
\* goroutines (ReaderOnly and so on) ask for it, with what each leaves alone.
Alive == panicked = "no"

\* A method called on w.socket.
UseSocket == panicked' = IF socket = NoSocket THEN "socket" ELSE "no"

PostError == errorsCh' = IF errorsCh < ErrorsCap THEN errorsCh + 1 ELSE errorsCh

-----------------------------------------------------------------------------
(* socketReader *)

ReaderOnly ==
    /\ Alive
    /\ UNCHANGED <<quit, state, attempt, link, heartbeatCh, reconnectCh,
                   processor, beater, reconn, stop, broken, faults, replied,
                   unsent>>

\* The check that w.socket is not nil; while it is, the reader sleeps.
ReaderLooks ==
    /\ reader.step = "loop"
    /\ ~Cancelled
    /\ socket # NoSocket
    /\ reader' = [step |-> "enter"]
    /\ ReaderOnly
    /\ UNCHANGED <<messagesCh, errorsCh, panicked, received, owed, told>>

\* w.socket.Recv(), which blocks on the connection w.socket is now.
ReaderEnters ==
    /\ reader.step = "enter"
    /\ UseSocket
    /\ reader' = [step |-> "blocked", on |-> socket]
    /\ ReaderOnly
    /\ UNCHANGED <<messagesCh, errorsCh, received, owed, told>>

\* The broker's messages; a full messagesCh drops them.  It sends a request to
\* a connection that registered, and answers a heartbeat once.
ReaderReceives(m) ==
    /\ reader.step = "blocked"
    /\ Usable(reader.on)
    /\ CASE m = "HEARTBEAT"  -> owed /\ owed' = FALSE /\ UNCHANGED <<received, told>>
         [] m = "DISCONNECT" -> Disconnects < MaxDisconnects /\ told' = told + 1
                                /\ UNCHANGED <<received, owed>>
         [] OTHER            -> RequestsGoOn /\ m \notin received /\ reader.on \in readied
                                /\ received' = received \cup {m} /\ UNCHANGED <<owed, told>>
    /\ messagesCh' = IF Len(messagesCh) < MessagesCap THEN Append(messagesCh, m)
                     ELSE messagesCh
    /\ reader' = [step |-> "loop"]
    /\ ReaderOnly
    /\ UNCHANGED <<errorsCh, panicked>>

ReaderFails ==
    /\ reader.step = "blocked"
    /\ ~Usable(reader.on)
    /\ PostError
    /\ reader' = [step |-> "loop"]
    /\ ReaderOnly
    /\ UNCHANGED <<messagesCh, panicked, received, owed, told>>

-----------------------------------------------------------------------------
(* messageProcessor *)

ProcessorOnly ==
    /\ Alive
    /\ UNCHANGED <<quit, attempt, link, heartbeatCh, reconnectCh, reader, beater,
                   stop, peer>>

Take(m) ==
    /\ processor = None
    /\ reconn[Processor].step = "none"
    /\ "processor" \notin quit
    /\ messagesCh # <<>>
    /\ Head(messagesCh) = m
    /\ messagesCh' = Tail(messagesCh)
    /\ UNCHANGED <<errorsCh, panicked, replied, unsent>>
    /\ ProcessorOnly

HandleHeartbeat == Take("HEARTBEAT") /\ UNCHANGED <<state, processor, reconn>>

\* handleDisconnect calls reconnectToBroker in this goroutine.
HandleDisconnect ==
    /\ Take("DISCONNECT")
    /\ reconn' = [reconn EXCEPT ![Processor].step = "begin"]
    /\ UNCHANGED <<state, processor>>

HandleRequest(r) ==
    /\ Take(r)
    /\ state' = "working"
    /\ processor' = [step |-> "handle", request |-> r]
    /\ UNCHANGED reconn

\* The handler has returned, with a response or with an error; either is sent.
Silent(p)    == None
Answering(p) == [p EXCEPT !.step = "reply"]

HandlerReturns ==
    /\ processor.step = "handle"
    /\ state' = "ready"
    /\ processor' = Answering(processor)
    /\ UNCHANGED <<messagesCh, errorsCh, reconn, panicked, replied, unsent>>
    /\ ProcessorOnly

\* sendReply's check of w.socket, and its use.
ReplyChecks ==
    /\ processor.step = "reply"
    /\ IF socket = NoSocket
       THEN /\ PostError
            /\ unsent' = unsent \cup {processor.request}
            /\ processor' = None
       ELSE /\ processor' = [processor EXCEPT !.step = "send"]
            /\ UNCHANGED <<errorsCh, unsent>>
    /\ UNCHANGED <<state, messagesCh, reconn, panicked, replied>>
    /\ ProcessorOnly

ReplySends ==
    /\ processor.step = "send"
    /\ UseSocket
    /\ IF Usable(socket)
       THEN replied' = replied \cup {processor.request} /\ UNCHANGED <<errorsCh, unsent>>
       ELSE PostError /\ unsent' = unsent \cup {processor.request} /\ UNCHANGED replied
    /\ processor' = None
    /\ UNCHANGED <<state, messagesCh, reconn>>
    /\ ProcessorOnly

-----------------------------------------------------------------------------
(* reconnectToBroker and connect, run by the processor or by a retry *)

\* Integers of Width bits.  A shift by a negative or large count gives 0.
Wrap(x) == ((x + 2^(Width - 1)) % 2^Width) - 2^(Width - 1)
Shift(n) == IF n \in 0 .. Width - 1 THEN Wrap(2^n) ELSE 0
Delay(a) ==
    LET d == Wrap(Shift(a - 1) * BaseDelay) IN IF d > MaxDelay THEN MaxDelay ELSE d

\* rand.Int63n panics unless its bound is positive.
Jitters(d) == d \div 4 > 0

ReconnOnly ==
    /\ Alive
    /\ UNCHANGED <<quit, chans, reader, processor, beater, stop, received, owed,
                   told, replied, unsent>>

GoTo(t, s) == reconn' = [reconn EXCEPT ![t].step = s]

\* At most one run passes the check while the state is "reconnecting".
Begin(t) ==
    /\ reconn[t].step = "begin"
    /\ IF state = "reconnecting"
       THEN GoTo(t, "none") /\ UNCHANGED <<state, attempt>>
       ELSE GoTo(t, "delay") /\ state' = "reconnecting" /\ attempt' = attempt + 1
    /\ UNCHANGED <<link, broken, faults, panicked>>
    /\ ReconnOnly

\* The delay is computed, and the old socket looked for.
Backoff(t) ==
    /\ reconn[t].step = "delay"
    /\ panicked' = IF Jitters(Delay(attempt)) THEN "no" ELSE "jitter"
    /\ GoTo(t, IF socket = NoSocket THEN "connect" ELSE "close")
    /\ UNCHANGED <<state, attempt, link, broken, faults>>
    /\ ReconnOnly

\* The old socket is closed, and the delay slept.
CloseSocket(t) ==
    /\ reconn[t].step = "close"
    /\ UseSocket
    /\ open' = open \ {socket}
    /\ socket' = NoSocket
    /\ GoTo(t, "connect")
    /\ UNCHANGED <<state, attempt, conns, readied, broken, faults>>
    /\ ReconnOnly

Connect(t) ==
    /\ reconn[t].step = "connect"
    /\ state' = "connecting"
    /\ GoTo(t, "dial")
    /\ UNCHANGED <<attempt, link, broken, faults, panicked>>
    /\ ReconnOnly

\* An attempt that fails to dial changes nothing and is tried again; none
\* succeeds once the context is cancelled.
Dial(t) ==
    /\ reconn[t].step = "dial"
    /\ ~Cancelled
    /\ conns' = conns + 1
    /\ socket' = conns'
    /\ open' = open \cup {conns'}
    /\ reconn' = [reconn EXCEPT ![t] = [step |-> "ready", dialed |-> conns']]
    /\ UNCHANGED <<state, attempt, readied, broken, faults, panicked>>
    /\ ReconnOnly

\* sendReady failed: the socket dialed is closed, w.socket is set to nil, and
\* the next attempt is made.
ReadyFails(t) ==
    /\ open' = open \ {reconn[t].dialed}
    /\ socket' = NoSocket
    /\ GoTo(t, "dial")
    /\ UNCHANGED readied

\* sendReady checks w.socket, not the socket dialed, and sends on it.
CheckReady(t) ==
    /\ reconn[t].step = "ready"
    /\ IF socket = NoSocket THEN ReadyFails(t)
       ELSE GoTo(t, "announce") /\ UNCHANGED <<socket, open, readied>>
    /\ UNCHANGED <<state, attempt, conns, broken, faults, panicked>>
    /\ ReconnOnly

SendReady(t) ==
    /\ reconn[t].step = "announce"
    /\ UseSocket
    /\ IF Usable(socket)
       THEN /\ readied' = readied \cup {socket}
            /\ GoTo(t, "reset")
            /\ UNCHANGED <<socket, open>>
       ELSE ReadyFails(t)
    /\ UNCHANGED <<state, attempt, conns, broken, faults>>
    /\ ReconnOnly

Reset(t) ==
    /\ reconn[t].step = "reset"
    /\ attempt' = 0
    /\ reconn' = [reconn EXCEPT ![t] = Ended]
    /\ UNCHANGED <<state, link, broken, faults, panicked>>
    /\ ReconnOnly

\* The state a failed round of connect leaves, and the goroutine started then.
StillReconnecting == "reconnecting"
NowDisconnected   == "disconnected"
NoRetry(t, u)     == reconn' = [reconn EXCEPT ![t] = Ended]
Retry(t, u)       == reconn' = [reconn EXCEPT ![t] = Ended, ![u] = [Ended EXCEPT !.step = "spawned"]]

\* Ten attempts are a round, and the tenth fails: always when the worker is
\* stopping, or else when the network lets none through.
NoLimit == FALSE
LastAttemptFails ==
    \/ Cancelled /\ UNCHANGED faults
    \/ ~Cancelled /\ faults < MaxFaults /\ faults' = faults + 1

RoundFails(t) ==
    /\ reconn[t].step = "dial"
    /\ LastAttemptFails
    /\ state' = NowDisconnected
    /\ \E u \in Runs \ {Processor} : (u = t \/ reconn[u].step = "none") /\ Retry(t, u)
    /\ UNCHANGED <<attempt, link, broken, panicked>>
    /\ ReconnOnly

\* The goroutine retries unless the worker is shutting down.
RetryStarts(t) ==
    /\ reconn[t].step = "spawned"
    /\ GoTo(t, IF Cancelled THEN "none" ELSE "begin")
    /\ UNCHANGED <<state, attempt, link, broken, faults, panicked>>
    /\ ReconnOnly

ReconnectRun(t) ==
    \/ Begin(t) \/ Backoff(t) \/ CloseSocket(t) \/ Connect(t) \/ Dial(t)
    \/ CheckReady(t) \/ SendReady(t) \/ Reset(t)
    \/ RoundFails(t) \/ RetryStarts(t)

-----------------------------------------------------------------------------
(* heartbeatManager and errorHandler *)

BeaterOnly ==
    /\ Alive
    /\ UNCHANGED <<quit, state, attempt, link, messagesCh, reconnectCh, reader,
                   processor, reconn, stop, broken, received, faults, told,
                   replied, unsent>>

Tick ==
    /\ beater = "wait"
    /\ "beater" \notin quit
    /\ beater' = "post"
    /\ BeaterOnly
    /\ UNCHANGED <<errorsCh, heartbeatCh, owed, panicked>>

\* A plain send into a channel nothing receives from.
AlwaysRoom == TRUE
HasRoom    == heartbeatCh < HeartbeatCap

PostBeat ==
    /\ beater = "post"
    /\ HasRoom
    /\ heartbeatCh' = heartbeatCh + 1
    /\ beater' = "check"
    /\ BeaterOnly
    /\ UNCHANGED <<errorsCh, owed, panicked>>

\* Heartbeats are for a worker that is ready and has a socket.
Unready     == state # "ready" /\ socket # NoSocket
ReadyToBeat == state = "ready" /\ socket # NoSocket

CheckBeat ==
    /\ beater = "check"
    /\ beater' = IF ReadyToBeat THEN "guard" ELSE "wait"
    /\ BeaterOnly
    /\ UNCHANGED <<errorsCh, heartbeatCh, owed, panicked>>

\* sendHeartbeat's own check of w.socket, and its use.
GuardBeat ==
    /\ beater = "guard"
    /\ IF socket = NoSocket
       THEN PostError /\ beater' = "wait"
       ELSE beater' = "send" /\ UNCHANGED errorsCh
    /\ BeaterOnly
    /\ UNCHANGED <<heartbeatCh, owed, panicked>>

SendBeat ==
    /\ beater = "send"
    /\ UseSocket
    /\ IF Usable(socket) THEN owed' = TRUE /\ UNCHANGED errorsCh
       ELSE PostError /\ UNCHANGED owed
    /\ beater' = "wait"
    /\ BeaterOnly
    /\ UNCHANGED heartbeatCh

HeartbeatManager == Tick \/ PostBeat \/ CheckBeat \/ GuardBeat \/ SendBeat

\* An error that names a connection asks for a reconnect, which nothing
\* receives from reconnectCh; another one is logged.
ErrorHandler ==
    /\ Alive
    /\ errorsCh > 0
    /\ "handler" \notin quit
    /\ errorsCh' = errorsCh - 1
    /\ reconnectCh' \in {reconnectCh, 1}
    /\ UNCHANGED <<state, attempt, link, messagesCh, heartbeatCh, reader, processor,
                   beater, reconn, stop, panicked, quit, peer, replied, unsent>>

-----------------------------------------------------------------------------
(* Stop, and the network *)

StopOnly ==
    /\ Alive
    /\ UNCHANGED <<quit, attempt, conns, readied, chans, reader, processor,
                   beater, reconn, peer, replied, unsent>>

StopBegins ==
    /\ Stops /\ Disconnects < MaxDisconnects
    /\ stop = "no"
    /\ stop' = "begun"
    /\ state' = "disconnected"
    /\ StopOnly
    /\ UNCHANGED <<socket, open, panicked>>

\* sendDisconnect looks for a socket and sends on it; the context is cancelled.
StopDisconnects ==
    /\ \/ stop = "begun" /\ panicked' = "no"
          /\ stop' = IF socket = NoSocket THEN "cancelled" ELSE "sending"
       \/ stop = "sending" /\ stop' = "cancelled" /\ UseSocket
    /\ StopOnly
    /\ UNCHANGED <<state, socket, open>>

\* Stop looks for a socket and closes it.
StopCloses ==
    /\ \/ stop = "cancelled" /\ panicked' = "no" /\ UNCHANGED <<socket, open>>
          /\ stop' = IF socket = NoSocket THEN "done" ELSE "closing"
       \/ stop = "closing" /\ stop' = "done" /\ UseSocket
          /\ open' = open \ {socket} /\ socket' = NoSocket
    /\ StopOnly
    /\ UNCHANGED state

\* A goroutine whose select finds the context cancelled returns, or first takes
\* what else is ready.
Idle(g) ==
    CASE g = "processor" -> processor = None /\ reconn[Processor].step = "none"
      [] g = "beater"    -> beater = "wait"
      [] g = "handler"   -> TRUE

Quit(g) ==
    /\ Alive
    /\ Cancelled
    /\ g \notin quit
    /\ Idle(g)
    /\ quit' = quit \cup {g}
    /\ UNCHANGED <<state, attempt, link, chans, reader, processor, beater, reconn, stop,
                   panicked, peer, replied, unsent>>

Break(c) ==
    /\ Alive
    /\ Usable(c)
    /\ faults < MaxFaults
    /\ faults' = faults + 1
    /\ broken' = broken \cup {c}
    /\ UNCHANGED <<state, attempt, link, chans, reader, processor, beater, reconn, stop,
                   panicked, quit, received, owed, told, replied, unsent>>

-----------------------------------------------------------------------------

SocketReader == ReaderLooks \/ ReaderEnters \/ ReaderFails

MessageProcessor ==
    \/ HandleHeartbeat \/ HandleDisconnect \/ HandlerReturns \/ ReplyChecks \/ ReplySends
    \/ \E r \in Requests : HandleRequest(r)

Network ==
    \/ \E m \in Requests \cup {"HEARTBEAT", "DISCONNECT"} : ReaderReceives(m)
    \/ \E c \in open : Break(c)

Next ==
    \/ SocketReader \/ MessageProcessor \/ HeartbeatManager \/ ErrorHandler
    \/ \E t \in Runs : ReconnectRun(t)
    \/ StopBegins \/ StopDisconnects \/ StopCloses \/ Network
    \/ \E g \in {"processor", "beater", "handler"} : Quit(g)

Spec == Init /\ [][Next]_vars

\* Every goroutine runs while it can, the ticker ticks, and handlers return;
\* the network and the caller of Stop owe nothing, and the faults are bounded.
FairSpec ==
    /\ Spec
    /\ WF_vars(SocketReader) /\ WF_vars(MessageProcessor)
    /\ WF_vars(HeartbeatManager) /\ WF_vars(ErrorHandler)
    /\ \A t \in Runs : WF_vars(ReconnectRun(t))

-----------------------------------------------------------------------------
(* Properties *)

ConnBound == 1 + 2 * (MaxFaults + MaxDisconnects)

\* Every variable has its type, no channel holds more than its capacity, and
\* the worker answers only what it received.
TypeOK ==
    /\ state \in {"disconnected", "connecting", "ready", "working", "reconnecting"}
    /\ socket \in NoSocket .. conns /\ attempt \in Nat /\ conns \in Nat \ {0}
    /\ open \subseteq 1 .. conns /\ broken \subseteq 1 .. conns /\ readied \subseteq 1 .. conns
    /\ messagesCh \in Seq(Requests \cup {"HEARTBEAT", "DISCONNECT"})
    /\ Len(messagesCh) <= MessagesCap
    /\ errorsCh \in 0 .. ErrorsCap /\ heartbeatCh \in 0 .. HeartbeatCap /\ reconnectCh \in 0 .. 1
    /\ reader \in [step : {"loop", "enter"}] \cup [step : {"blocked"}, on : NoSocket .. conns]
    /\ processor \in {None} \cup [step : {"handle", "reply", "send"}, request : Requests]
    /\ beater \in {"wait", "post", "check", "guard", "send"}
    /\ reconn \in [Runs -> [step : {"none", "spawned", "begin", "delay", "close", "connect", "dial",
                                    "ready", "announce", "reset"},
                            dialed : NoSocket .. conns]]
    /\ stop \in {"no", "begun", "sending", "cancelled", "closing", "done"} /\ panicked \in {"no", "socket", "jitter"}
    /\ quit \subseteq {"processor", "beater", "handler"}
    /\ received \subseteq Requests /\ replied \subseteq received /\ unsent \subseteq received
    /\ owed \in BOOLEAN /\ faults \in 0 .. MaxFaults /\ told \in 0 .. MaxDisconnects

\* A worker without a socket is being reconnected, and the state that keeps
\* other runs out belongs to a run that will leave it: whichever goroutine set
\* w.socket to nil, failed, or returned early, the worker is never given up.
LostSocketHasOwner ==
    /\ socket = NoSocket /\ stop = "no" => \E t \in Runs : reconn[t].step # "none"
    /\ state = "reconnecting" => \E t \in Runs : reconn[t].step \in {"delay", "close", "connect"}

\* A worker that gave its socket up, for a DISCONNECT or after a failed round,
\* comes to a connection it sent READY on, as long as the broker can be dialed
\* again in the end, whichever runs of reconnectToBroker overlap meanwhile.
LostSocketIsReplaced ==
    socket = NoSocket ~> socket \in readied \/ stop # "no" \/ panicked # "no"

\* A ready worker sends its next heartbeat, unless heartbeatCh is full by then
\* and its heartbeats are over for good.
ReadyWorkerBeats ==
    state = "ready" /\ socket # NoSocket /\ heartbeatCh < HeartbeatCap
        ~> \/ beater = "send"
           \/ state # "ready" \/ socket = NoSocket \/ stop # "no" \/ panicked # "no"

\* A request the worker has is answered, or its answer finds no connection.
RequestIsAnswered ==
    \A r \in Requests :
        (\E i \in 1 .. Len(messagesCh) : messagesCh[i] = r)
            ~> r \in replied \cup unsent \/ stop # "no" \/ panicked # "no"

\* After Stop no run of reconnectToBroker goes on for ever: a run that was under
\* way connects or fails once more, and starts no other.
StoppedRetriesEnd ==
    stop = "done" ~> (\A t \in Runs : reconn[t].step = "none") \/ panicked = "socket"

\* errorHandler on a connection error: "triggering reconnection".
LostConnectionIsReplaced ==
    \A c \in 1 .. ConnBound :
        socket = c /\ c \in broken ~> socket # c \/ stop # "no" \/ panicked # "no"

\* "Formula: min(maxDelay, baseDelay * 2^attempt) + jitter": the delay before
\* the jitter is at least the base and at most the maximum.
BackoffWithinBounds ==
    \A t \in Runs : reconn[t].step = "delay" => Delay(attempt) \in BaseDelay .. MaxDelay
=============================================================================
