# A verification development for lucas

lucas connects home devices to the internet. A *hub* on the home network drives
televisions and offers them as a service; a *gateway* on the internet keeps users,
hubs and devices in SQLite, serves an HTTP API and a web page, and runs a ZeroMQ
message *broker*; hubs connect to the broker as workers. The messaging layer, called
Hermes (`src/internal/hermes`), is a Majordomo-like protocol and carries most of the
system's concurrency.

This directory holds TLA+ modules of the program, TLC configurations, and proofs
checked by TLAPS. `PROJECT.json` lists the components, runs, mutants, findings,
hazards and theorems, and maps every definition to the source lines it models.

## 1. Inventory

| component | state | operations | interacts through | what is hard | what makes it correct |
|---|---|---|---|---|---|
| Broker `hermes/broker.go` | `workers`, `services` (Workers, Waiting, Requests), five channels, socket | register, reply, heartbeat, disconnect, client request, expire, stop | ROUTER socket; `ProcessDeviceListResponse` of the gateway | five goroutines, two kinds of lock released between steps, bounded channels that drop or block | a request goes to one worker of its service, once, in order; replies reach clients; dead workers leave; the lists agree |
| Worker `hermes/worker.go` | connection state, socket, liveness, reconnect attempt, three channels | connect with retries, handle request, heartbeat, reconnect with backoff, stop | DEALER socket; a handler callback | state shared by several goroutines; channels without a reader; shift overflow | a connected worker is ready and heartbeats; a lost connection is re-established |
| Client `hermes/client.go` | `pending`, `pendingNonces`, response and error channels of each request | blocking, asynchronous and fire-and-forget requests, response handling, timeout cleanup, reconnect, stop | DEALER socket | response racing timeout, cleanup and stop; closed channels | each request ends once, with the response of its own message |
| Nonce cache, device manager `hub/nonce_cache.go`, `hub/device_manager.go` | per-device LRU caches, devices, configuration | check, process, store, expire, clean up, reload, shut down | called by the worker handler and by the daemon | check-then-act, cleanup racing a store, reload in three steps | an action with a nonce is executed once |
| Hub worker service `hub/worker_service.go` | worker, statistics | execute, list, status, info | Hermes worker; device manager | stale configuration in the list; gateway reachability | the list is the current configuration |
| Hub daemon `hub/daemon.go`, `discovery.go`, `config.go`, `config_api.go` | configuration, running flag | start, stop, auto-register, reload, configure over HTTP | HTTP to the gateway; files | save before validate; failure between two steps | a failed reload keeps the hub working |
| Gateway broker service `gateway/broker_service.go` | service registry | device list processing, command sending, health check, registration | broker callback; Hermes client; database | hub ids with and without the `hub_` prefix, and socket identities taken for hub ids; stale services | a hub has a second row only for its second spelling; devices belong to their hub |
| Database `gateway/database.go` | users, hubs, devices | claim, register, ensure, create, update | SQL | check-then-insert and unconditional updates over several statements | one owner per hub; one hub per product key |
| HTTP API `gateway/api.go`, `auth.go` | none of its own | register hub, claim hub, device action, users | database, broker service | concurrent handlers | a claim is never overwritten |
| Configuration manager, CLI `internal/cli`, `cmd` | the hub's YAML file | add, update, remove device, backup, restore | files | load-modify-save by two writers | no write takes the hub's identity or its key away (a change of the devices may be lost) |
| Bravia driver `internal/bravia` | none | HTTP calls | television | none | - |

How they meet: the web page calls the HTTP API; the API calls the gateway's broker
service, which sends a fire-and-forget request with a nonce through a Hermes client to
the broker; the broker routes service `hub.control` to a hub's worker; the worker's
handler asks the device manager, which drives the device and caches the answer under
the nonce. A new hub worker is asked for its devices as part of the handshake, and that
answer alone goes to the gateway's broker service rather than to a client.

`PROJECT.json` lists, under "hazards", what in this code is hard to test, each at its
line, with the properties that cover it, or the reason why none does.

## 2. How the project is laid out

Six modules of the program, each with an MC module that gives it values for TLC and
with theorems in a module of their own:

| module | code | abstract view or partner |
|---|---|---|
| `HermesBroker` | `hermes/broker.go` | implements `RequestLifecycle` |
| `HermesWorker` | `hermes/worker.go` | the broker is its environment |
| `HermesClient` | `hermes/client.go` | the broker is its environment |
| `HubDevices` | `hub/device_manager.go`, `nonce_cache.go`, `worker_service.go`, `config_api.go`, `daemon.go` | duplicates of an action come from the client above |
| `HubSetup` | `cmd/hub.go`, `hub/config.go`, `discovery.go`, `daemon.go`, `cli/config_manager.go` | the file and the gateway that `HubDevices` and `GatewayRegistry` take as given |
| `GatewayRegistry` | `gateway/api.go`, `database.go`, `broker_service.go` | registrations come from `HubSetup`, device lists from `HubDevices` |

Each Hermes module takes the other side as an environment that may do more than the real
one does, so what holds there holds of the composition; a composed instance is beyond
what TLC explores in minutes and has not been written.

## 3. The modules

### HermesBroker

One module for `internal/hermes/broker.go`. The goroutines of `Start` are processes:
`socketReader`, `messageRouter`, `workerEventHandler`, `clientEventHandler` and
`heartbeatManager`. **A step ends where the code releases a lock**: `wpc`, `cpc` and `hpc`
say where a handler stands between two critical sections, so whatever another goroutine
can see or do there, it can do in the model.

| source | actions |
|---|---|
| `socketReader` | `RecvReady`, `RecvControl`, `RecvReply`, `RecvRequest` (what a peer sends), each through `SocketReader`, which drops the message when `messagesCh` is full |
| `messageRouter` | `MessageRouter`; drops when the event channel is full |
| `handleWorkerReady` | `HandleWorkerReady` under `b.mutex`; then `ProcessPendingRequests` under the service's mutex, with the `hub.control` handshake |
| `handleWorkerReply`, `handleWorkerHeartbeat` | `LookupWorker` under the read lock, then `FinishWorkerEvent`; `HandleUnknown` when the worker is not registered |
| `handleWorkerDisconnect` | `HandleWorkerDisconnect`, which calls `RemoveWorker` |
| `handleClientRequest` | `RejectRequest`; `PickHubWorker` and `SendToHubWorker`; `QueueRequest`; `DispatchRequest` |
| `heartbeatManager`, `checkWorkerLiveness` | `TakeTick`, `PostHeartbeat` (the blocking send), `CollectExpired`, `RemoveExpired`, `CheckDone`; `ClockTick` is the ticker |

The lookup of a service in `handleClientRequest` is joined to the critical section that
follows it: entries of `b.services` are never deleted, so a service found stays found.
Time is counted in heartbeat intervals: `age` is the number of ticks since a worker's
`Expiry` was set, and a worker expires when `age` exceeds `ExpiryTicks` (10 intervals of
7.5 s and 30 s of grace are 14 ticks). Bodies, message identifiers and logging are
left out. `sent` and `answers` record what went out on the socket. Heartbeat answers and
requests to register again call for no answer and are not recorded: the environment
lets a worker send READY, HEARTBEAT and DISCONNECT at any time.

The environment is any worker that keeps to one service per connection (`ServiceOf`),
answers what it was sent at most once, and any client whose requests are distinct.

### RequestLifecycle

What the broker promises, without channels, locks or a registry: a request is lost in a
full channel, rejected, held back or given to one worker of its service; what is held
back for a service leaves in order. `HermesBroker` defines `Lifecycle`, an INSTANCE of it
with `phase` computed from where the request is, and `ImplementsLifecycle`.

### HermesWorker

One module for `internal/hermes/worker.go` from the moment `Start` has returned.
`w.socket` has no lock, so every check for nil and the use after it are two steps
(`ReplyChecks` and `ReplySends`, `GuardBeat` and `SendBeat`, `CheckReady` and
`SendReady`, `Backoff` and `CloseSocket`, `ReaderLooks` and `ReaderEnters`, the two
halves of `StopDisconnects` and of `StopCloses`); using a socket that became nil in
between ends the program, and `panicked` says so. A socket is the number of a connection;
`open`, `broken` and `readied` say what is true of each connection.

| source | actions |
|---|---|
| `socketReader` | `ReaderLooks`, `ReaderEnters` (Recv blocks on the connection of that moment), `ReaderReceives`, `ReaderFails` |
| `messageProcessor`, `handleMessage` | `HandleHeartbeat`, `HandleDisconnect`, `HandleRequest` and `HandlerReturns`, each through `Take` |
| `sendReply` | `ReplyChecks`, `ReplySends` |
| `reconnectToBroker`, `connect`, `sendReady` | `Begin`, `Backoff`, `CloseSocket`, `Connect`, `Dial`, `CheckReady`, `SendReady`, `Reset`, `RoundFails`, `RetryStarts` |
| `heartbeatManager`, `sendHeartbeat` | `Tick`, `PostBeat` (the blocking send), `CheckBeat`, `GuardBeat`, `SendBeat` |
| `errorHandler` | `ErrorHandler` |
| `Stop`, `ctx.Done()` | `StopBegins`, `StopDisconnects`, `StopCloses`, `Quit` |

`reconnectToBroker` runs in the message processor for a DISCONNECT and in a goroutine
of its own for a retry, so `reconn` has one entry per run. Ten attempts of `connect`
are one round: `Dial` is the attempt that succeeds, `RoundFails` the tenth that does not,
and the sleeps are left out. The delay is computed in integers of `Width` bits, as
`time.Duration` is in 64. An unlocked assignment is a step; a word of `w.state` or
`w.socket` is read and written whole.

The environment is a broker that sends requests to registered connections, answers
heartbeats and sends DISCONNECTs (`MaxDisconnects` of them, or one less and Stop, which
`MayStop` admits at any time or only without requests), and a network that breaks a
connection or fails a round up to `MaxFaults` times.

### HermesClient

One module for `internal/hermes/client.go` after `Start`. `c.mutex` guards the table of
pending requests and not the channels in it, so a goroutine that finds or removes a
request takes one step and what it does to the channels is another. A channel is a
record: whether it holds a value and whether it is closed. Closing a closed channel,
sending on one, and a method of a nil socket end the program (`panicked`).

| source | actions |
|---|---|
| `RequestWithTimeout`, `RequestAsync`, `RequestFireAndForget` | `Store`, `SendChecks` and `SendUses` (the check of `c.socket` and its use), `TakeResponse`, `TakeError`, `GiveUpWaiting`, `ReturnResponse`, `Resume` (the next attempt), `Leave` (remove under the lock), `CloseChannels`, `ForgetNonce` |
| `socketReader` | `ReaderLooks`, `ReaderEnters`, `ReaderReceives`, `ReaderFails` |
| `messageProcessor`, `handleServiceResponse` | `Correlate` (under the read lock), `DeliverResponse`, `ForgetFired`, `ProcessorQuits` |
| `timeoutManager`, `cleanupExpiredRequests` | `CollectExpired`, `CleanUp` |
| `errorHandler`, `reconnectManager`, `attemptReconnection` | `ErrorHandler`, `Reconnect`, `CloseOld`, `Dial`, `Install`, `WakeUp` |
| `Stop` | `StopCancels`, `StopDrains`, `StopCloses` |

`Expire` is time passing, `Break` a connection that breaks. The broker answers each copy
of a request at most once, with a status that is a success or an error, or never.

### HubDevices

The devices of a running hub. The worker handles one request at a time, so there is one
`processor`; beside it run the handlers of the configuration API and the cleanup of the
nonce cache. `nc.mutex` guards the map of caches only, and each LRU cache has a lock of
its own: `cacheOf` maps a device to a cache object, and who found an object may use it
after it has been replaced in the map or deleted from it. An object that nobody holds is
reused, which is sound because it is emptied when it is taken.

| source | actions |
|---|---|
| `handleExecuteAction`, `ProcessDeviceActionWithNonce`, `CheckNonce`, `StoreResponse` | `Take` (finds the cache), `CheckNonce`, `Execute`, `Store` (finds the cache again), `Keep`, `Answer` |
| `handleListAction`, `handleStatusAction`, `handleInfoAction` | `Report` |
| `handleDeviceConfigure`, `handleDeviceReload` | `Configure`, `Save`, `ReloadDevices`, then `Shutdown` and `Initialize` of the device manager |
| `cleanupExpired`, `performCleanup` | `Sweep` (copies the map), `NextCache`, `Peek`, `Remove`, `FindEmpty`, `Delete` |
| `Start`, `Stop` of the daemon | `StartDevices`, `StartAPI`, `StartWorker`, `StopAPI`, `StopWorker`, `StopDevices` |

`Age` is an answer reaching its expiration. `done`, `last` and `excused` are history:
the nonces that were executed and their last answer, and those whose answer the code may
have forgotten.

### HubSetup

The configuration file and everyone who writes it, each a process: the commands `hub`,
`init`, `register`, `keys generate` and `config generate`, the CLI's `ConfigManager`, and
the daemon, which `hub` becomes. The file is a value, `Absent` or `Damaged`: `os.WriteFile`
is `Truncate` and then `Write`, `WriteFails` or the end of the process (`End`), and two
writers may mix (`Write` can leave `Damaged`). An identity and a key pair are numbers that
are generated once; 0 is what the template has.

| source | actions |
|---|---|
| the commands up to their first save | `Begin`, `Load`, `Discover`, `Confirm` |
| `SaveConfig` | `Truncate`, `Write`, `WriteFails`; `then` and `else` say what the caller goes on with |
| the search for a gateway: `promptForRegistration`, `promptGatewayURL`, `DiscoverHTTPFromConfig`, `promptForHTTPEndpoint` | `Ask`, `AskURL`, `DiscoverHTTP`, `Prompt`, `GivenURL` |
| `RegisterWithGateway` and its callers | `AutoRegister`, `Fallback`, `SaveAgain`, `InteractiveRegister`, `ManualRegister`, `InitRegister`, `KeysRegister`, `SkipRegister`, `Info` |
| `AddDevice`, `UpdateDevice`, `RemoveDevice` of `ConfigManager` | the actions of the same names |
| `handleDeviceConfigure` in the daemon | `Configure` |

The device configuration screen (`internal/cli/device_config.go`), which edits the file
through `ConfigManager`, is written, but no command opens it yet: a run of kind
`edit` is that screen, and shows what it will meet beside the other writers.

Of the gateway there is the key it knows each identity by; a registration may succeed
there and its answer be lost. URLs come down to a gateway answering there or not
(`CheckGateway`). Where none does, the user is asked for other URLs until one answers or
the input ends (`Prompt`): in the daemon too, inside `Start` and before its API and its
worker run, so a hub without a gateway is offline only once somebody answered.

### GatewayRegistry

The tables `hubs` and `devices` and the handlers that read and write them: no handler
uses a transaction, so **a step is one SQL statement**, and a handler acts on rows it
read before. A statement that writes may find the database locked (`Locked`). What is
stored as a hub id is a hub, or a worker's socket, and whether it is spelled with the
prefix `hub_`. `GenerateHubID` puts the prefix there, a configuration written by hand
need not, and `ProcessDeviceListResponse` strips it.

**The monitor does not know hubs.** A worker's id in the broker is the identity that the
ROUTER socket gives to the connection (`broker.go:1011`); the worker opens its DEALER
socket without an identity (`worker.go:209`), so every connection has a new, random one.
`checkServiceHealth` takes these for hub ids. `Sockets` are those identities, `Connects`
gives a hub's worker a fresh one, and `Tick` lets the monitor go over any set of those the
broker has known, which stands for the workers that are listed and were heard of within a
minute when it looks, and includes more than the code would find.

| source | actions |
|---|---|
| `handleHubRegister`, `RegisterHub` | `FindHub`, `CheckKey`, then `UpdateHub` or `InsertHub` |
| `handleUserHubClaim` | `GetHubByProductKey`, `ClaimHub`, `UpdateDevicesUserID` |
| `handleDeviceAction`, `SendDeviceCommand` | `FindDeviceByID`, `SendDeviceCommand` |
| `ProcessDeviceListResponse`, `processHubWorkerRegistration` | `ReceiveList`, `RegisterWorker`, `GetHub`, `CreateDevice`, `UpdateDeviceStatus` |
| `monitorServices`, `checkServiceHealth` | `Tick`, `UpdateHubStatus` |
| `connect` of a hub's worker, as far as the gateway sees it | `Connects` |
| `EnsureHubExists`, `Database.UpdateHubStatus` | `Looks` and `Writes`, which both goroutines run on their own record |

The two lookups of `EnsureHubExists` (the id as given, then the other spelling) are one
step: what is inserted between them is met by the insert that follows. Lookups do not
fail, and every request is authenticated.

### The MC modules

Values of the constants for TLC: `MCHermesBroker`, `MCHubSetup` and `MCGatewayRegistry` also
define symmetry sets, which are used for safety only.

### The proof modules

`HermesBrokerProofs`, `HermesLifecycleProofs`, `HermesWorkerProofs`, `HermesClientProofs`,
`HubDevicesProofs`, `HubNonceProofs`, `HubSetupProofs` and `GatewayRegistryProofs` hold
the theorems of section 5. `HermesLifecycleProofs` builds on `HermesBrokerProofs`, and
`HubNonceProofs` on `HubDevicesProofs`.

## 4. The runs

Every cfg switches the deadlock check off: the environment may fall silent and the bounds
end every run of the model.

* **broker_queue** (passes; 2 workers and 2 requests of a queued service, channels of
  capacity 1, up to 2 READYs of a worker listed or under way, no clock). Two workers are
  needed for a removal of one to disturb the other and two requests for an order; channels of
  capacity 1 make drops as frequent as deliveries. It checks:
  `RegisteredIsListed` (b.workers and the services agree on who can be found),
  `WaitingIsListed` (nobody waits more often than he is listed),
  `NoIdleWorkerWhileQueued` (requests queue beside an idle worker only inside a READY),
  `AtMostOneAnswer`, `ImplementsLifecycle`, and `OutcomeIsFinal` (a request that was given,
  rejected or lost is not taken up again, and one held back is only ever given).
* **broker_hub** (passes; one hub, one request for `hub.control`, capacity 2 of
  `heartbeatCh`, expiry after one tick). Under fairness it checks `ReplyReachesClient`,
  `HubRequestSettles` and `ExpiredIsRemovedUnlessWedged`, and the type invariant. Two
  ticks are enough to see one worker expire and be removed, and then the channel fill.
* **broker_wedge** (violated: `ExpiredIsRemoved`; one worker, the code's own numbers).
  `heartbeatCh` has room for 10 ticks and no reader; the first worker can expire at tick 15.
  The goroutine is blocked before it ever finds anyone expired.
* **broker_ghost** (violated: `RemovedIsUnlisted`). READY, READY, DISCONNECT on one
  connection leaves the worker in `service.Workers`.

* **worker** (passes; one fault, and two DISCONNECTs and a request, or one DISCONNECT
  and Stop at any moment before or after it). A second DISCONNECT handled while a retry
  is under way is what makes two runs of `reconnectToBroker` overlap. It checks
  `LostSocketHasOwner` (a worker without a socket always has a run that will replace it,
  and the state `reconnecting` always has a run that will leave it),
  `LostSocketIsReplaced` (it then comes to a connection it registered on),
  `ReadyWorkerBeats`, `RequestIsAnswered`, `StoppedRetriesEnd` (Stop ends a reconnection
  wherever it is, asleep or dialing) and the type invariant.
* **worker_lost** (violated: `LostConnectionIsReplaced`). A broken connection stays
  `w.socket` for ever: errors are turned into values of `reconnectCh`, which has no reader.
* **worker_backoff** (violated: `BackoffWithinBounds`; 5 bits, base 5, maximum 10). The
  shift overflows at the third attempt and the delay is negative. With 64 bits and the
  hub's base of 10 s it takes 31 attempts, that is, some 37 minutes without a gateway
  after a DISCONNECT; `rand.Int63n` then panics and the hub ends.

* **client** (passes; one call with one retry, or one asynchronous request, or two
  fire-and-forget requests with one nonce; channels of capacity 1; Stop beside the
  asynchronous request). It checks the type invariant, `PendingIsOpen` (what is in the
  table is open, whoever removes it first), `ClosedEarlyOnlyLate` (an empty answer and the
  panic of a second close need an overdue request or Stop), `TablesAreTidy` (an entry of `pending`
  or `pendingNonces` has a caller who will take it out), and under fairness
  `EveryCallReturns`, `NonceIsForgotten` and `ErrorIsRepaired`.
* **hub** (passes; two devices, two nonces and a cache of one answer, two requests to the
  configuration API, three requests in all). It checks `RepeatNeedsCause` (a nonce is
  executed again only when its answer aged, was purged or evicted, or was stored during a
  sweep), `ReplayIsLastAnswer`, `SettledDevicesMatch` and `SettledListIsTrue` (when no
  reload is in progress, the devices and the list sent to the gateway are those of the
  configuration), `NotFoundIsLate` and, under fairness, `AgedIsForgotten`.
* **hub_setup** (passes; three runs of the program, two at a time, three generated
  identities, one request to a configuration API). It checks `KeySavedBeforeRegistered`,
  `IdentityIsReplacedKnowingly`, `RunningHubIsRegistered` and the type invariant.
* **gateway** (passes; one hub with a generated id and one with a plain id, two connections
  of their workers, two users, one product key, one device id that both hubs list, three
  requests, one device list, one locked statement). It checks `ClaimHolds` and
  `CommandIsOwners` (who was told that a hub is theirs keeps it, unless two claims
  overlapped), `RowsByOrigin` (a hub has a second row only for its registration, and what
  the monitor adds gets no product key, no user and no devices), `UnknownIsBrief` and the
  type invariant.
* **gateway_claim** (violated: `ClaimGrantsDevices`; one hub with a generated id, one user,
  a registration and a claim). The documentation says that a claim grants its user all
  devices of the hub; those recorded before hang on the row without the prefix, which the
  claim does not touch.

**Bounds.** `MaxCopies` bounds the READYs of one worker listed or in a channel, without
which the lists grow for ever. `TimePasses = FALSE` keeps the clock out of an instance
that is not about expiry: removal is then by DISCONNECT, which runs the same
`removeWorker`. Each request is sent once. `age` stops one tick beyond expiry.
In the worker, `MaxFaults`, `MaxDisconnects` and `Requests` bound what the environment
does, so connections are finite; `Goroutines = 1` is enough because a retry starts only
when the run before it ends, and the processor is the second run. `MessagesCap = 1` and
`ErrorsCap = 1` make a drop as frequent as a delivery, and `HeartbeatCap = 1` fills
`heartbeatCh` at the second tick. `Width = 8` keeps the delays of the passing runs
clear of the overflow unless a run resets the attempt count of another.

**Fairness.** `FairSpec` has weak fairness of each handler goroutine, and of nothing else:
Go's scheduler runs a goroutine that stays runnable. The select of a handler waits on one
input channel and the shutdown signals, and shutdown is not part of the model. Peers and
the clock owe nothing: a worker need not answer and time need not pass. The worker's
`FairSpec` has weak fairness of each goroutine of the worker and each run of
`reconnectToBroker`, which includes that the ticker ticks and that a request handler
returns; `RoundFails` can happen only `MaxFaults` times, so dialing succeeds in the end.
Liveness of the worker excuses a program that ended and, but for `StoppedRetriesEnd`, one
that is being stopped.

In the client, `Mixes` lets the kinds of request happen one at a time: a caller meets the
others only in the table, under other keys, and two requests that share an entry are the
two of one nonce. `Retries = 1` has a first and a last attempt. A message id is used once,
so a response that comes late is one of an earlier copy. In the hub, a cache of one
answer makes eviction as frequent as a hit, and two nonces compete for it; two devices are
needed for a configuration that removes one and fails on another; four cache objects are
enough for two devices, the processor and a sweep, which hold at most one more each. In
`HubSetup` two writers at a time suffice to interleave two saves, and the third run finds
what they left. In the gateway three requests are a registration and two claims, or a
claim and two commands; with more, the theorems below take over. Two connections let the
monitor interrupt a round between two identities, and a worker come back under a new one.

In the client every caller and every goroutine is fair, time passes for every request
that waits, and a dial may fail for ever; the network, new requests and Stop owe nothing.
In the hub the handler of the worker, the handlers of the API and the sweep are fair.
`HubSetup` and `GatewayRegistry` are checked for safety only: a command may end at any
point, and nobody has to make a request.

## 5. The theorems

`HermesBrokerProofs`, for all constants that satisfy `BrokerAssumption` (finite or not):

* `TypeCorrect`: `Spec => []TypeOK`. `TypeOK` is inductive; the proof has one lemma per
  goroutine and one step per action. The lemma about `RemoveFirst` (the first occurrence
  goes, every other element stays, nothing is added) carries the removals.
* `RegisteredStaysListed`: `Spec => []RegisteredIsListed`. Inductive relative to `TypeOK`:
  only a READY and a removal touch the lists (`RegistrySteps`); a READY appends, and a
  removal that keeps a worker in the map took another worker's entry.
* `NoIdleWorker`: `Spec => []NoIdleWorkerWhileQueued`. Inductive relative to `TypeOK`. The
  conjuncts on `wpc` and on `Len(waiting[s]) = 1` are what makes it inductive: a
  READY adds the only idle worker, the client handler may take him, and the second half
  of the READY empties one of the two lists. It follows that
  `processPendingRequests` hands out at most one request per READY.
* `WaitingStaysListed`: `Spec => []WaitingIsListed`. Inductive relative to `TypeOK`, given
  how many times a worker occurs in a sequence after each change of it: one more at the end
  (`CountAppend`), one less by `RemoveFirst` if it was there (`CountRemove`), no more when
  the front goes (`CountShift`). `Count` is the cardinality of a set of positions.

`HermesLifecycleProofs`, under the same assumption, which also keeps the tags of other
messages (`"devices"`, `"LIST"` and the like) out of `Requests`:

* `RequestsKeepTheirPlace`: `Spec => []PlaceInv`. `Forward(r)` says that a request the
  broker still has is in one place (a channel, a handler or a queue), once there, not yet
  sent and not answered; `Backward(r)` says the same of the way back (the worker, a
  channel, the handler that found the worker); `Matching` says that queues and lists of
  workers hold what names their service. Neither half is inductive alone: a reply
  is the only one because its request was sent once, and a request is sent once because it
  leaves its one place when it is sent. `PendingGiven` uses `NoIdleWorkerWhileQueued`: one
  request at most leaves the queue in a READY.
* `OneAnswer`: `Spec => []AtMostOneAnswer`, the last conjunct of `Backward`.
* `BrokerImplementsLifecycle`: `Spec => ImplementsLifecycle`. `PhasePlaces` turns the
  refinement mapping into the places of `PlaceInv`; then each action is a step of
  `RequestLifecycle` about one request (`MovesTo`) while all others stay in their phase
  (`Stays`, `Concerns`), or a stutter. Replies stutter because a request that was
  sent stays `given` however it is answered.
* `OutcomesAreFinal`: `Spec => OutcomeIsFinal`, an action property that `RequestLifecycle`
  promises: read off its steps (`OutcomeStep`), once `OldestIsHeld` has shown that the head of
  a queue is held back still and so is not given a second time.

`HermesWorkerProofs`, for all requests, capacities, delays and numbers of retries:

* `WorkerTypes`: `Spec => []TypeOK`, with `HeldIsReceived` (a request in `messagesCh` or
  being handled was received) to make it inductive.
* `LostSocketIsOwned`: `Spec => []LostSocketHasOwner`. `OwnerInv` says more: the run that
  owns a missing socket is not one that is about to reset the attempts, since such a run
  ends without looking at the socket again.

`HermesClientProofs`, for all requests, capacities and numbers of retries:

* `ClientTypes`: `Spec => []TypeOK`, one lemma per goroutine.
* `TableIsOpen`, `ClosedOnlyLate`: `PendingIsOpen` and `ClosedEarlyOnlyLate`. Both need to
  know who may close a channel next: `ChannelInv` says that a request that has not begun
  or is in the table has open channels, that a caller at `close` has taken its request
  out, and that a closed channel, or an empty result, was closed by the cleanup of an
  overdue request, by Stop, or by the caller itself.
* `TablesStayTidy`: `Spec => []TablesAreTidy`, inductive relative to `TypeOK`. Only the caller
  of an entry moves on, and the same step takes it out; everyone else only takes entries out
  (`TidyShrinks`).

`HubDevicesProofs`, for all devices, lists and numbers of requests:

* `DevicesMatch`, `ListIsTrue`: `SettledDevicesMatch` and `SettledListIsTrue`. The first is
  not inductive: between a shutdown and an initialization there are no devices, and a
  second request may set the list in between. `DeviceInv` says what holds while requests
  are at it: unless one is still to shut the devices down, or one failed, the devices are
  those of the list, or there are none and one is still to initialize them. `LastIndex`
  (a set of indices has a last one) is why a device of the list has an address.

`HubNonceProofs`, for all devices, nonces, lists and numbers of requests. `HubAssumption`
says there are finitely many devices and cache objects, and twice as many objects as devices:
the map and a sweep hold at most one object of each device, and the request that takes a
new one has none and is for a device without one, so an object is free (`NewIs`). The
code's heap has no such limit. All four properties follow from one inductive invariant,
`NonceInv`:

* `TypeCorrect`: `Spec => []TypeOK`. A cache with at most `Size` entries keeps to it because an
  entry is replaced (`WithoutIs`) and the oldest one leaves a full cache.
* `RepeatsHaveACause`: `Spec => []RepeatNeedsCause`. `Fresh` says where an answer is that
  nothing excuses: in the cache the map has for its device, young, and not among what a
  sweep under way is about to remove (`Unswept`). `CachesParts` keeps the objects apart: none
  is in use for two devices, and what is in it was executed on its device.
* `ReplaysAreLast`: `Spec => []ReplayIsLastAnswer`. `Live`: the caches that can be found, and
  the one a request has already found, even if it left the map since, keep last answers.
* `DenialsAreLate`: `Spec => []NotFoundIsLate`. `DeniedLate` says it of devices that a reload is
  about to create as well, and of the answer a request is about to store.

`HubSetupProofs`, for every number of processes and of generated identities:

* `SetupTypes`, `SavedBeforeRegistered`. `SetupInv` is inductive: what a process carries
  is sound (its numbers were generated, and at a step that registers, its identity and key
  were saved), and a file that loads was saved in full.
* `ReplacedKnowingly`, from `AllAware`: a process that has loaded a file carries the
  identity it saw there or has been allowed another, and keeps that to its last save.
* `RunningIsRegistered`: `Spec => []RunningHubIsRegistered`, from `AllInOrder`: whoever holds
  an identity, the file included, holds it with the key it was made with unless `keys
  generate` was run on it, and whoever has the gateway's key has an identity that is
  registered, was rekeyed, or comes from an `init` that did not register it. Of these sets
  only the last loses anything, and what an `init` registers after all goes to the first.

`GatewayRegistryProofs`, for all hubs, users, keys, devices, and numbers of requests,
lists and locked statements. All five properties of the run follow from one inductive
invariant, `RegistryInv`:

* `Tables`: only a row with its hub's configured spelling gets a key, only a row with a
  key gets a user, a row nobody has may be claimed, devices hang on the rows of hubs, and
  there on those without the prefix.
* `Actors`: what each handler may rely on from the rows it read before (`RequestOK`,
  `RunOK`); rows are never deleted, so a row that was found stays. Only the worker
  goroutine, which creates devices, works under the id of a hub (`OfHub`).
* `Ownership`: who has a hub wrote it by a claim that had found the hub without a user,
  and who was told so, or commands a device, has it still or has a rival. The last user
  written is the only one a later claim can take it from, which is why overlapping claims
  are the only exception to `ClaimHolds` and `CommandIsOwners`.

Besides `ClaimsHold` and `CommandsAreOwners` these give `RegistryTypes`,
`RowsKeepTheirOrigin` and `UnknownPasses`.

Every invariant that a passing run checks is thus a theorem, and so are the refinement
and the action properties `OutcomeIsFinal` and `SettledListIsTrue`. Model-checked only:
everything under fairness. Liveness, ENABLED and induction over data are out of the
prover's reach.

## 6. What the code does that a reader may not expect

The violated runs are findings. Besides:

* A worker that answered is never put back on `Waiting` (`handleWorkerReply`). Every
  service but `hub.control` therefore serves one request per READY, and a queued
  request waits for the next registration.
* The comment "Already reconnecting" in `reconnectToBroker` holds only until `connect`
  sets the state to connecting, or a request sets it to working and ready. Two runs can
  then overlap, close each other's socket, send READY twice on one connection (`sendReady`
  takes `w.socket`, which is what `broker_ghost` needs), or reset the attempt count under
  the other: a shift by -1 gives delay 0 and a panic.
* A use of `w.socket` that races with `reconnectToBroker` or `Stop` panics (`panicked`).
* `hub.control` goes to the first worker listed, whichever hub owns the device.
* A full channel loses a message with a log line only. A worker heartbeats only once it
  has handled a request (`connect` returns before it sets the state to ready), so a worker
  whose READY is lost is never asked to register again.
* A worker that is found expired is removed even if it is heard from between the check and
  the removal. With the code's numbers the check finds one only if ticks were missed before
  (`broker_wedge`).

Client:

* The timeout cleanup and Stop take requests out of the table and close their channels
  while the caller still waits: the caller reads a closed channel as an empty successful
  answer, or closes the channels again, which panics. `DeliverResponse` may also send on a
  channel that was closed since the request was looked up, which panics.
* A send that fails is repeated at once, without a pause, and only by
  `RequestWithTimeout`.

Hub:

* A sweep that found a cache empty deletes whatever cache the device has by then
  (`nonce_cache.go:234`), with an answer stored since; the action may then run twice.
* "Device not found", answered while a reload has no devices, is cached like any answer
  and replayed once the device is there.
* `handleDeviceConfigure` sets the configuration before it saves it and validates
  neither; a save that fails leaves memory and file different, and so may two requests
  at once. `Initialize` stops at the first device that cannot be created.
* `Daemon.Start` never resets `running` when it fails half way, and `ReloadConfig`, which
  nobody calls, would leave the handlers with the old configuration.

Setup:

* `init` over a file that exists and does not load uses a nil configuration (`Refused`):
  the command ends without touching the file. Over a file with keys it does not register,
  although the hints of `showManualSteps` (`cmd/hub.go:678`) name it for that.
* `init` saves the gateway's key before it registers. If that fails, the daemon takes the
  key for a sign that it is registered and never tries: the exception in
  `RunningHubIsRegistered`.
* Removing the last device leaves a file that no command loads.
* A daemon's `configure` saves the configuration it started with, and undoes keys or
  registrations written to the file meanwhile; `config generate` overwrites without looking.

Gateway:

* `GenerateHubID` (`hub/keys.go:66`) makes ids with the prefix and registration stores
  them so, but device lists look up the stripped id (`broker_service.go:627`). The
  devices of such a hub are dropped, or hang on a second row without a product key,
  which nobody can claim, so that a claim grants none of them (`gateway_claim`).
* The monitor stores the identity of every connection of every hub's worker as a hub of its
  own, with `auto_registered` set and the status online, and never touches the row of the
  hub itself (`RowsByOrigin` says what such rows do not get). `LUCAS.knowledge:415`
  calls the worker's identity the hub's id; `worker.go` logs one but never sets it.
* Two overlapping claims of one hub both succeed and the last one holds. `product_key` is
  not UNIQUE, and the path that updates a hub does not check it.
* A device list that comes again replaces the rows of its devices, and with them the
  status `claimed`; `UpdateDeviceStatus` sets the rows of all hubs that list the device id.
* `FindDeviceByID` returns the first row of any hub, so the owner of another hub with the
  same device id may be refused; the command is then sent to `hub.control`, whichever hub
  answers, and reported as a success.
* A device list sets its hub online and nothing sets it offline when the worker disappears;
  only its next registration does.

## 7. Not modelled

The components that PROJECT.json marks `not_modelled`, for the reasons it gives. Of the
others:

* broker: a failing send on the socket, `Start` and `Stop` (which runs once, when the gateway
  ends), and the reports (`GetStats`, `GetServices`, `GetWorkers`), which change nothing;
* worker and client: `Start` itself (the same connect, with nothing else running), the
  setters called before it, the statistics, and malformed messages, which are logged;
* hub: `RemoveNonce`, `ClearDevice`, `ReloadConfig` and `handleGatewayMessage`, which have
  no caller, the health check, which only logs, and what a device driver does;
* setup: URLs, YAML, prompts and network discovery beyond "found or not"; backup and
  restore of the configuration manager, which have no caller;
* gateway: the service registry, which stays empty because `RegisterDeviceService` has no
  caller; `CreateHub`, `DeleteDevice` and `UnregisterHub`, for the same reason; users,
  passwords, tokens and migrations; handlers that only read.
