----------------------------- MODULE HermesClient -----------------------------
(***************************************************************************)
(* The Hermes client of internal/hermes/client.go after Start: the table   *)
(* of pending requests, the two channels each request waits on, retries,   *)
(* the timeout cleanup, reconnection and Stop.                             *)
(*                                                                         *)
(* c.mutex guards the table and not the channels, so whoever finds or      *)
(* removes a request and closes or fills its channels afterwards takes     *)
(* separate steps; c.socket is shared without a lock.  Closing a closed    *)
(* channel, sending on one and using a nil socket end the program.  Only   *)
(* reconnectManager dials, so one connection at most is alive: c.socket is *)
(* nil or stands for it, and the reader may still be blocked on an old one.*)
(* requestCh, responseCh and timeoutCh are left out: nothing is ever put   *)
(* into them; malformed messages and errors that name no connection too:   *)
(* they are logged.                                                        *)
(***************************************************************************)
EXTENDS Integers, Sequences, FiniteSets

CONSTANTS
    Calls,            \* requests made with RequestWithTimeout
    Asyncs,           \* with RequestAsync
    Fires,            \* with RequestFireAndForget, and a nonce
    Nonces, NonceOf,  \* the nonce of each of those
    Retries,          \* c.retries (3 in the code)
    MessagesCap,      \* capacity of messagesCh (100)
    ErrorsCap,        \* capacity of errorsCh (50)
    Mixes,            \* bound: sets of requests that are made in one behaviour
    Stoppable         \* bound: requests beside which Stop may be called

Waited   == Calls \cup Asyncs
Requests == Waited \cup Fires

ASSUME ClientAssumption ==
    /\ Calls \cap Asyncs = {} /\ Waited \cap Fires = {}
    /\ NonceOf \in [Fires -> Nonces]
    /\ {Retries, MessagesCap, ErrorsCap} \subseteq Nat
    /\ Mixes \subseteq SUBSET Requests
    /\ Stoppable \subseteq Requests
    /\ "none" \notin Fires

VARIABLES
    pending,          \* the keys of c.pending
    nonces,           \* c.pendingNonces
    response, error,  \* the two channels of each request
    caller, result,   \* where each request is, and what it returned
    expired,          \* requests older than their timeout
    socket,           \* c.socket: "nil", or a connection that is "up" or "broken"
    sent,             \* copies of requests sent on it and not answered
    messagesCh,
    errorsCh,         \* connection errors in the channel
    reconnectCh,      \* values in the channel
    reader, processor, cleaner, reconn,    \* where the goroutines are
    stop,             \* how far Stop has come
    panicked          \* what ended the program, or "no"

table == <<pending, nonces, response, error>>
calls == <<caller, result, expired>>
link  == <<socket, sent>>
chans == <<messagesCh, errorsCh, reconnectCh>>
vars  == <<table, calls, link, chans, reader, processor, cleaner, reconn, stop, panicked>>

Fresh    == [full |-> FALSE, closed |-> FALSE]
Idle     == [step |-> "idle"]
At(s, n) == [step |-> s, attempt |-> n]
Returned == At("returned", 0)

\* Start has returned: connected, and its goroutines started.
Init ==
    /\ pending = {} /\ nonces = [n \in Nonces |-> "none"]
    /\ response = [r \in Waited |-> Fresh] /\ error = [r \in Waited |-> Fresh]
    /\ caller = [r \in Requests |-> At("idle", 0)]
    /\ result = [r \in Requests |-> "none"] /\ expired = {}
    /\ socket = "up" /\ sent = {}
    /\ messagesCh = <<>> /\ errorsCh = 0 /\ reconnectCh = 0
    /\ reader = [step |-> "loop"] /\ processor = Idle /\ cleaner = {} /\ reconn = "idle"
    /\ stop = "no" /\ panicked = "no"

Alive     == panicked = "no"
Cancelled == stop # "no"

\* A method called on c.socket.
UseSocket == panicked' = IF socket = "nil" THEN "socket" ELSE "no"

\* It is closed: a reader blocked on it is blocked on an old one.
CloseSocket ==
    /\ UseSocket
    /\ socket' = "nil"
    /\ sent' = {}
    /\ reader' = IF reader.step = "blocked" THEN [step |-> "stale"] ELSE reader

\* Sends with a default: what finds no room is dropped.
PostAlways == errorsCh' = errorsCh + 1
PostError  == errorsCh' = IF errorsCh < ErrorsCap THEN errorsCh + 1 ELSE errorsCh
Filled(ch, rs) == [r \in Waited |-> IF r \in rs THEN [ch[r] EXCEPT !.full = TRUE] ELSE ch[r]]
Shut(ch, rs)   == [r \in Waited |-> IF r \in rs THEN [ch[r] EXCEPT !.closed = TRUE] ELSE ch[r]]

\* Both channels of the requests rs are closed.
ClosePanics(rs) == \E r \in rs : response[r].closed \/ error[r].closed
CloseBoth(rs, err) ==
    /\ response' = Shut(response, rs)
    /\ error' = Shut(err, rs)
    /\ panicked' = IF ClosePanics(rs) THEN "close" ELSE "no"

-----------------------------------------------------------------------------
(* A request, in the goroutine of its caller *)

CallerOnly ==
    /\ Alive
    /\ UNCHANGED <<socket, chans, reader, processor, cleaner, reconn, stop>>

GoTo(r, s) == caller' = [caller EXCEPT ![r].step = s]
Return(r, what) ==
    /\ caller' = [caller EXCEPT ![r] = Returned]
    /\ result' = [result EXCEPT ![r] = what]

\* The request is stored under its message id, or under its nonce.
Store(r) ==
    /\ caller[r].step = "idle"
    /\ \E R \in Mixes : {q \in Requests : q = r \/ caller[q].step # "idle"} \subseteq R
    /\ r \in Stoppable \/ stop = "no"
    /\ GoTo(r, "send")
    /\ IF r \in Fires
       THEN nonces' = [nonces EXCEPT ![NonceOf[r]] = r] /\ UNCHANGED pending
       ELSE pending' = pending \cup {r} /\ UNCHANGED nonces
    /\ UNCHANGED <<response, error, result, expired, sent, panicked>>
    /\ CallerOnly

\* The next attempt, or the end of the loop.
SameAttempt(r) == caller' = [caller EXCEPT ![r].step = "send"]
NextAttempt(r) ==
    LET n == caller[r].attempt
    IN  caller' = [caller EXCEPT ![r] = IF n < Retries THEN At("send", n + 1) ELSE At("leave", 0)]

Remembered(r) == nonces
Forgotten(r)  == [nonces EXCEPT ![NonceOf[r]] = "none"]

\* A send that fails is tried again at once by RequestWithTimeout only.
SendFails(r) ==
    \/ /\ r \in Calls
       /\ NextAttempt(r)
       /\ UNCHANGED <<pending, nonces, result>>
    \/ /\ r \in Asyncs
       /\ pending' = pending \ {r}
       /\ Return(r, "error")
       /\ UNCHANGED nonces
    \/ /\ r \in Fires
       /\ nonces' = Forgotten(r)
       /\ Return(r, "error")
       /\ UNCHANGED pending

\* sendRequest's check of c.socket, and its use.
SendChecks(r) ==
    /\ caller[r].step = "send"
    /\ IF socket = "nil" THEN SendFails(r)
       ELSE GoTo(r, "use") /\ UNCHANGED <<pending, nonces, result>>
    /\ UNCHANGED <<response, error, expired, sent, panicked>>
    /\ CallerOnly

SendUses(r) ==
    /\ caller[r].step = "use"
    /\ UseSocket
    /\ IF socket = "up"
       THEN /\ GoTo(r, "wait")
            /\ sent' = sent \cup {[req |-> r, copy |-> caller[r].attempt]}
            /\ UNCHANGED <<pending, nonces, result>>
       ELSE SendFails(r) /\ UNCHANGED sent
    /\ UNCHANGED <<response, error, expired>>
    /\ CallerOnly

WaitOnly ==
    /\ UNCHANGED <<pending, nonces, expired, sent, panicked>>
    /\ CallerOnly

\* What a receive yields: a value, or nothing from a closed channel.
Ready(ch) == ch.full \/ ch.closed
Got(ch)   == IF ch.full THEN "answer" ELSE "nothing"

\* The Response channel is received from; RequestAsync calls back.
TakeResponse(r) ==
    /\ r \in Waited
    /\ caller[r].step = "wait"
    /\ Ready(response[r])
    /\ GoTo(r, IF r \in Calls THEN "answered" ELSE "leave")
    /\ result' = [result EXCEPT ![r] = Got(response[r])]
    /\ response' = [response EXCEPT ![r].full = FALSE]
    /\ UNCHANGED error
    /\ WaitOnly

\* RequestWithTimeout removes the request and returns the response.
ReturnResponse(r) ==
    /\ caller[r].step = "answered"
    /\ pending' = pending \ {r}
    /\ Return(r, result[r])
    /\ UNCHANGED <<nonces, response, error, expired, sent, panicked>>
    /\ CallerOnly

\* An attempt that ended without a response: RequestWithTimeout sleeps before
\* the next one, and RequestAsync calls back with the error, which may be nil.
AttemptFails(r, what) ==
    IF r \in Calls
    THEN /\ GoTo(r, IF caller[r].attempt < Retries THEN "sleep" ELSE "leave")
         /\ UNCHANGED result
    ELSE GoTo(r, "leave") /\ result' = [result EXCEPT ![r] = what]

TakeError(r) ==
    /\ r \in Waited
    /\ caller[r].step = "wait"
    /\ Ready(error[r])
    /\ AttemptFails(r, IF error[r].full THEN "error" ELSE "nothing")
    /\ error' = [error EXCEPT ![r].full = FALSE]
    /\ UNCHANGED response
    /\ WaitOnly

\* time.After, started after the request's own Timestamp, or c.ctx.Done().
GiveUpWaiting(r) ==
    /\ r \in Waited
    /\ caller[r].step = "wait"
    /\ r \in expired \/ Cancelled
    /\ AttemptFails(r, "error")
    /\ UNCHANGED <<response, error>>
    /\ WaitOnly

Resume(r) ==
    /\ caller[r].step = "sleep"
    /\ r \in Calls
    /\ NextAttempt(r)
    /\ UNCHANGED <<response, error, result>>
    /\ WaitOnly

Still(r)   == pending
Without(r) == pending \ {r}

\* The request is removed under the lock, and its channels closed after it.
Leave(r) ==
    /\ caller[r].step = "leave"
    /\ pending' = Without(r)
    /\ GoTo(r, "close")
    /\ UNCHANGED <<nonces, response, error, result, expired, sent, panicked>>
    /\ CallerOnly

CloseChannels(r) ==
    /\ caller[r].step = "close"
    /\ CloseBoth({r}, error)
    /\ Return(r, IF r \in Calls THEN "error" ELSE result[r])
    /\ UNCHANGED <<pending, nonces, expired, sent>>
    /\ CallerOnly

\* RequestFireAndForget has returned; its goroutine deletes the nonce later.
ForgetNonce(r) ==
    /\ r \in Fires
    /\ caller[r].step = "wait"
    /\ nonces' = Forgotten(r)
    /\ Return(r, "sent")
    /\ UNCHANGED <<pending, response, error, expired, sent, panicked>>
    /\ CallerOnly

Caller(r) ==
    \/ SendChecks(r) \/ SendUses(r) \/ TakeResponse(r) \/ ReturnResponse(r) \/ TakeError(r)
    \/ GiveUpWaiting(r) \/ Resume(r) \/ Leave(r) \/ CloseChannels(r) \/ ForgetNonce(r)

\* Time passes.
Expire(r) ==
    /\ Alive
    /\ r \in Waited \ expired
    /\ caller[r].step \notin {"idle", "returned"}
    /\ expired' = expired \cup {r}
    /\ UNCHANGED <<table, caller, result, link, chans, reader, processor, cleaner, reconn,
                   stop, panicked>>

-----------------------------------------------------------------------------
(* socketReader *)

ReaderOnly ==
    /\ Alive
    /\ UNCHANGED <<table, calls, socket, reconnectCh, processor, cleaner, reconn, stop>>

\* The check that c.socket is not nil; while it is, the reader sleeps.
ReaderLooks ==
    /\ reader.step = "loop"
    /\ socket # "nil" \/ Cancelled
    /\ reader' = [step |-> IF Cancelled THEN "quit" ELSE "enter"]
    /\ ReaderOnly
    /\ UNCHANGED <<sent, messagesCh, errorsCh, panicked>>

\* c.socket.Recv(), which blocks on the connection c.socket is now.
ReaderEnters ==
    /\ reader.step = "enter"
    /\ UseSocket
    /\ reader' = [step |-> "blocked"]
    /\ ReaderOnly
    /\ UNCHANGED <<sent, messagesCh, errorsCh>>

\* Each copy of a request is answered at most once, on its own connection; a
\* full messagesCh drops the answer.
ReaderReceives(r, ok) ==
    /\ reader.step = "blocked"
    /\ socket = "up"
    /\ \E k \in sent : k.req = r /\ sent' = sent \ {k}
    /\ messagesCh' = IF Len(messagesCh) < MessagesCap
                     THEN Append(messagesCh, [req |-> r, ok |-> ok]) ELSE messagesCh
    /\ reader' = [step |-> "loop"]
    /\ ReaderOnly
    /\ UNCHANGED <<errorsCh, panicked>>

\* The error of Recv on a connection that broke, or that was closed here, names
\* a connection or does not.
ReaderFails ==
    /\ \/ reader.step = "stale"
       \/ reader.step = "blocked" /\ (socket = "broken" \/ Cancelled)
    /\ PostError \/ UNCHANGED errorsCh
    /\ reader' = [step |-> "loop"]
    /\ ReaderOnly
    /\ UNCHANGED <<sent, messagesCh, panicked>>

SocketReader == ReaderLooks \/ ReaderEnters \/ ReaderFails

-----------------------------------------------------------------------------
(* messageProcessor *)

ProcessorOnly ==
    /\ Alive
    /\ UNCHANGED <<pending, calls, link, errorsCh, reconnectCh, reader, cleaner, reconn, stop>>

\* processMessage and the lookup of the request, under the read lock.
Correlate ==
    /\ processor.step = "idle"
    /\ messagesCh # <<>>
    /\ messagesCh' = Tail(messagesCh)
    /\ LET m == Head(messagesCh)
       IN  processor' = IF m.req \in pending THEN [step |-> "deliver", req |-> m.req, ok |-> m.ok]
                           ELSE IF m.req \in Fires /\ nonces[NonceOf[m.req]] # "none"
                           THEN [step |-> "forget", req |-> m.req, ok |-> m.ok]
                           ELSE Idle
    /\ UNCHANGED <<nonces, response, error, panicked>>
    /\ ProcessorOnly

\* The response is sent to the request that was found, without a lock.
DeliverResponse ==
    /\ processor.step = "deliver"
    /\ LET r == processor.req
       IN  IF processor.ok
           THEN /\ response' = Filled(response, {r}) /\ UNCHANGED error
                /\ panicked' = IF response[r].closed THEN "send" ELSE "no"
           ELSE /\ error' = Filled(error, {r}) /\ UNCHANGED response
                /\ panicked' = IF error[r].closed THEN "send" ELSE "no"
    /\ processor' = Idle
    /\ UNCHANGED <<nonces, messagesCh>>
    /\ ProcessorOnly

\* A response to a fire-and-forget request: whatever its nonce stands for now
\* is forgotten.
ForgetFired ==
    /\ processor.step = "forget"
    /\ nonces' = Forgotten(processor.req)
    /\ processor' = Idle
    /\ UNCHANGED <<response, error, messagesCh, panicked>>
    /\ ProcessorOnly

ProcessorQuits ==
    /\ processor.step = "idle"
    /\ Cancelled
    /\ processor' = [step |-> "quit"]
    /\ UNCHANGED <<nonces, response, error, messagesCh, panicked>>
    /\ ProcessorOnly

MessageProcessor == Correlate \/ DeliverResponse \/ ForgetFired \/ ProcessorQuits

-----------------------------------------------------------------------------
(* timeoutManager *)

CleanerOnly ==
    /\ Alive
    /\ UNCHANGED <<nonces, calls, link, chans, reader, processor, reconn, stop>>

\* The expired requests are collected under the read lock.
AnyPending == pending
Overdue    == pending \cap expired

CollectExpired ==
    /\ cleaner = {}
    /\ Overdue # {}
    /\ ~Cancelled
    /\ cleaner' = Overdue
    /\ UNCHANGED <<pending, response, error, panicked>>
    /\ CleanerOnly

\* Each is looked up again under the lock, removed, told and closed.
CleanUp(r) ==
    /\ r \in cleaner
    /\ cleaner' = cleaner \ {r}
    /\ pending' = pending \ {r}
    /\ IF r \in pending THEN CloseBoth({r}, Filled(error, {r}))
       ELSE UNCHANGED <<response, error, panicked>>
    /\ CleanerOnly

TimeoutManager == CollectExpired \/ \E r \in Waited : CleanUp(r)

-----------------------------------------------------------------------------
(* errorHandler and reconnectManager *)

Unasked        == UNCHANGED reconnectCh
AskToReconnect == reconnectCh' = 1

ErrorHandler ==
    /\ Alive
    /\ errorsCh > 0
    /\ errorsCh' = errorsCh - 1
    /\ AskToReconnect
    /\ UNCHANGED <<table, calls, link, messagesCh, reader, processor, cleaner, reconn, stop,
                   panicked>>

ReconnOnly ==
    /\ Alive
    /\ UNCHANGED <<table, calls, messagesCh, errorsCh, processor, cleaner, stop>>

\* attemptReconnection looks for the old socket.
Reconnect ==
    /\ reconn = "idle"
    /\ reconnectCh = 1
    /\ reconnectCh' = 0
    /\ reconn' = IF socket = "nil" THEN "dial" ELSE "close"
    /\ UNCHANGED <<link, reader, panicked>>
    /\ ReconnOnly

CloseOld ==
    /\ reconn = "close"
    /\ CloseSocket
    /\ reconn' = "dial"
    /\ UNCHANGED reconnectCh
    /\ ReconnOnly

\* One attempt dials, of the five; none does once the context is cancelled.  The
\* fifth that fails ends the round, and reconnectManager sleeps.
Dial ==
    /\ reconn = "dial"
    /\ \/ reconn' = "install" /\ ~Cancelled
       \/ reconn' = "sleep"
    /\ UNCHANGED <<link, reader, reconnectCh, panicked>>
    /\ ReconnOnly

Install ==
    /\ reconn = "install"
    /\ socket' = "up"
    /\ reconn' = "idle"
    /\ UNCHANGED <<sent, reader, reconnectCh, panicked>>
    /\ ReconnOnly

WakeUp ==
    /\ reconn = "sleep"
    /\ reconn' = "idle"
    /\ UNCHANGED <<link, reader, reconnectCh, panicked>>
    /\ ReconnOnly

ReconnectManager == Reconnect \/ CloseOld \/ Dial \/ Install \/ WakeUp

-----------------------------------------------------------------------------
(* Stop, and the network *)

StopOnly ==
    /\ Alive
    /\ UNCHANGED <<nonces, calls, chans, processor, cleaner, reconn>>

StopCancels ==
    /\ \A r \in Requests \ Stoppable : caller[r].step = "idle"
    /\ stop = "no"
    /\ stop' = "cancelled"
    /\ UNCHANGED <<pending, response, error, link, reader, panicked>>
    /\ StopOnly

\* Every pending request is told and closed, in one critical section.
StopDrains ==
    /\ stop = "cancelled"
    /\ stop' = "drained"
    /\ pending' = {}
    /\ CloseBoth(pending, Filled(error, pending))
    /\ UNCHANGED <<link, reader>>
    /\ StopOnly

\* Stop looks for a socket and closes it.
StopCloses ==
    /\ \/ stop = "drained" /\ stop' = (IF socket = "nil" THEN "done" ELSE "closing")
          /\ UNCHANGED <<link, reader, panicked>>
       \/ stop = "closing" /\ stop' = "done" /\ CloseSocket
    /\ UNCHANGED <<pending, response, error>>
    /\ StopOnly

Break ==
    /\ Alive
    /\ socket = "up"
    /\ socket' = "broken"
    /\ sent' = {}
    /\ UNCHANGED <<table, calls, chans, reader, processor, cleaner, reconn, stop, panicked>>

-----------------------------------------------------------------------------

Network ==
    \/ \E r \in Requests, ok \in BOOLEAN : ReaderReceives(r, ok)
    \/ Break

Next ==
    \/ \E r \in Requests : Store(r) \/ Caller(r) \/ Expire(r)
    \/ SocketReader \/ MessageProcessor \/ TimeoutManager \/ ErrorHandler \/ ReconnectManager
    \/ StopCancels \/ StopDrains \/ StopCloses \/ Network

Spec == Init /\ [][Next]_vars

\* Goroutines run while they can and time passes; the network owes nothing, and
\* nobody has to make a request or to stop the client.
FairSpec ==
    /\ Spec
    /\ \A r \in Requests : WF_vars(Caller(r) \/ Expire(r))
    /\ WF_vars(SocketReader) /\ WF_vars(MessageProcessor) /\ WF_vars(TimeoutManager)
    /\ WF_vars(ErrorHandler) /\ WF_vars(ReconnectManager)
    /\ WF_vars(StopDrains \/ StopCloses)

-----------------------------------------------------------------------------
(* Properties *)

Steps == {"idle", "send", "use", "wait", "answered", "sleep", "leave", "close", "returned"}

\* Every variable has its type, and no channel holds more than its capacity.
TypeOK ==
    /\ pending \subseteq Waited /\ nonces \in [Nonces -> Fires \cup {"none"}]
    /\ response \in [Waited -> [full : BOOLEAN, closed : BOOLEAN]]
    /\ error \in [Waited -> [full : BOOLEAN, closed : BOOLEAN]]
    /\ caller \in [Requests -> [step : Steps, attempt : 0 .. Retries]]
    /\ result \in [Requests -> {"none", "answer", "nothing", "error", "sent"}]
    /\ expired \subseteq Waited
    /\ socket \in {"nil", "up", "broken"}
    /\ sent \subseteq [req : Requests, copy : 0 .. Retries]
    /\ messagesCh \in Seq([req : Requests, ok : BOOLEAN])
    /\ Len(messagesCh) <= MessagesCap
    /\ errorsCh \in 0 .. ErrorsCap /\ reconnectCh \in 0 .. 1
    /\ reader \in [step : {"loop", "enter", "blocked", "stale", "quit"}]
    /\ processor \in [step : {"idle", "quit"}]
                     \cup [step : {"deliver"}, req : Waited, ok : BOOLEAN]
                     \cup [step : {"forget"}, req : Fires, ok : BOOLEAN]
    /\ cleaner \subseteq Waited
    /\ reconn \in {"idle", "close", "dial", "install", "sleep"}
    /\ stop \in {"no", "cancelled", "drained", "closing", "done"}
    /\ panicked \in {"no", "socket", "close", "send"}

\* A request in the table has both channels open, whichever of the caller, the
\* cleanup and Stop gets to it first: so the two that close what they find in
\* the table never close a channel twice.
PendingIsOpen ==
    \A r \in pending : ~response[r].closed /\ ~error[r].closed

\* What the tables keep is a request that is still under way, and its caller has
\* yet to take it out: no order of responses, retries, the cleanup and requests
\* under the same nonce leaves an entry behind, or puts one back.
TablesAreTidy ==
    /\ \A r \in pending : caller[r].step \in {"send", "use", "wait", "answered", "sleep", "leave"}
    /\ \A n \in Nonces : nonces[n] # "none" =>
          /\ NonceOf[nonces[n]] = n
          /\ caller[nonces[n]].step \in {"send", "use", "wait"}

\* A call comes back with neither answer nor error, and a channel is closed a
\* second time, only once a request is overdue or the client is being stopped.
ClosedEarlyOnlyLate ==
    /\ \A r \in Waited : result[r] = "nothing" => r \in expired \/ Cancelled
    /\ panicked = "close" => expired # {} \/ Cancelled

\* Every request comes to an end, whatever becomes of its copies, of the
\* connection and of the client, unless the program panics.
EveryCallReturns ==
    []<>((\A r \in Requests : caller[r].step \in {"idle", "returned"}) \/ panicked # "no")

\* A nonce is forgotten in the end, though a response, a second request with the
\* same nonce and the goroutines that delete it come in any order.
NonceIsForgotten ==
    []<>((\A n \in Nonces : nonces[n] = "none") \/ panicked # "no")

\* A connection error that waits for the error handler leads to a connection, or
\* to a round of dialing that failed: it is not lost on a goroutine that is busy
\* with an earlier one.
ErrorIsRepaired ==
    errorsCh > 0 ~> socket = "up" \/ reconn = "sleep" \/ Cancelled \/ panicked # "no"
=============================================================================
