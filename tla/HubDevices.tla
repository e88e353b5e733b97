----------------------------- MODULE HubDevices -----------------------------
(***************************************************************************)
(* The devices of a running hub: internal/hub's device manager and nonce   *)
(* cache, the hub.control handler of the worker service, the configuration *)
(* API and the start and stop of the daemon.                               *)
(*                                                                         *)
(* The worker handles one request at a time.  Beside it run the handlers   *)
(* of the configuration API and the cleanup goroutine of the nonce cache.  *)
(* Each device has an LRU cache object of its own, found under nc.mutex    *)
(* and used after it is released: a cache that has been replaced or deleted*)
(* in the map may still be read and written by who found it before.        *)
(* HubSetup has the file that configure saves.  Statistics, and requests   *)
(* that do not parse, change nothing here.                                 *)
(***************************************************************************)
EXTENDS Integers, Sequences, FiniteSets

CONSTANTS
    Devices,        \* device ids
    Addresses,      \* what tells two configurations of a device apart
    Nonces,         \* nonces of the right format
    Bad,            \* one ValidateNonce refuses
    None,           \* no nonce
    Size,           \* nc.maxSize (50)
    Lists,          \* device lists that a request may configure
    FirstList,      \* the list of the file the daemon starts with
    Handlers,       \* requests to the configuration API
    Objects,        \* names for cache objects: two for each device are enough
    Asked,          \* bound: the devices and nonces of the requests
    MaxEvents       \* bound: requests to the worker and to the API together

Keys    == Devices \X Nonces
Entries == [id : Devices, address : Addresses, good : BOOLEAN]
Answers == {"executed", "not found"}

ASSUME HubAssumption ==
    /\ Size \in Nat \ {0} /\ MaxEvents \in Nat
    /\ Lists \cup {FirstList} \subseteq Seq(Entries)
    /\ Bad \notin Nonces /\ None \notin Nonces \cup {Bad}
    /\ "none" \notin Objects \cup Addresses
    /\ Asked \subseteq Devices \X (Nonces \cup {Bad, None})
    /\ IsFiniteSet(Devices) /\ IsFiniteSet(Objects)
    /\ Cardinality(Objects) >= 2 * Cardinality(Devices)

VARIABLES
    daemon,         \* how far Start and Stop of the daemon have come
    config,         \* daemon.config.Devices, which the manager and handler share
    devices,        \* dm.devices: the address each was created with, or "none"
    handler,        \* the step each request to the configuration API is at
    failed,         \* a save or an initialization failed since the last shutdown
    cacheOf,        \* nc.deviceCaches
    cache,          \* each object's entries, the least recently used first
    processor,      \* the request the worker handles
    cleaner,        \* the sweep of cleanupExpired
    events,         \* how many requests have come
    done, last,     \* keys that were executed and stored, and the last answer of each
    excused         \* those whose answer may be gone from the cache

caches == <<cacheOf, cache>>
past   == <<done, last, excused>>
setup  == <<daemon, config, devices, handler, failed>>
vars   == <<setup, caches, processor, cleaner, events, past>>

Idle     == [step |-> "idle"]
NewEvent == events < MaxEvents /\ events' = events + 1

Init ==
    /\ daemon = "new" /\ config = FirstList
    /\ devices = [d \in Devices |-> "none"]
    /\ handler = [h \in Handlers |-> "new"] /\ failed = FALSE
    /\ cacheOf = [d \in Devices |-> "none"] /\ cache = [o \in Objects |-> <<>>]
    /\ processor = Idle /\ cleaner = Idle
    /\ events = 0
    /\ done = {} /\ last = [k \in Keys |-> "none"] /\ excused = {}

FirstIds(list) == {FirstList[i].id : i \in DOMAIN FirstList}
Ids(list) == {list[i].id : i \in DOMAIN list}
Running   == daemon \notin {"new", "failed", "stopped"}
Reloading == \E h \in Handlers : handler[h] = "init"
Touched   == IF processor.step \in {"store", "add"}
             THEN [processor EXCEPT !.late = TRUE] ELSE processor

-----------------------------------------------------------------------------
(* Cache objects: an object nobody refers to is as good as a new one *)

Held == {cacheOf[d] : d \in Devices}
        \cup (IF processor.step \in {"get", "add"} THEN {processor.object} ELSE {})
        \cup (IF cleaner.step = "idle" THEN {}
              ELSE {p[2] : p \in cleaner.todo} \cup {cleaner.object})
New  == CHOOSE o \in Objects : o \notin Held

\* getDeviceCache(d) leaves the processor with the object, and in the step s.
SharedCache(d) ==
    LET used == {e \in Devices : cacheOf[e] # "none"}
    IN  IF used = {} THEN New ELSE cacheOf[CHOOSE e \in used : TRUE]
CacheFor(d) == IF cacheOf[d] = "none" THEN New ELSE cacheOf[d]
FindCache(s, p) ==
    LET o == CacheFor(p.device)
    IN  /\ processor' = [p EXCEPT !.step = s, !.object = o]
        /\ cacheOf' = [cacheOf EXCEPT ![p.device] = o]
        /\ cache' = IF o \notin Held THEN [cache EXCEPT ![o] = <<>>] ELSE cache

At(o, n)      == {i \in DOMAIN cache[o] : cache[o][i].nonce = n}
Without(o, n) ==
    LET at == CHOOSE i \in At(o, n) : TRUE
    IN  IF At(o, n) = {} THEN cache[o]
        ELSE [i \in 1 .. Len(cache[o]) - 1 |-> cache[o][IF i < at THEN i ELSE i + 1]]
Entry(o, n)   == cache[o][CHOOSE i \in At(o, n) : TRUE]

\* lru.Add puts an entry at the back and evicts the one in front for want of room.
Added(o, e) ==
    LET kept == Without(o, e.nonce)
    IN  Append(IF Len(kept) >= Size THEN Tail(kept) ELSE kept, e)

-----------------------------------------------------------------------------
(* Handle, in the worker's message processor *)

ProcessorOnly ==
    /\ Running
    /\ UNCHANGED <<setup, cleaner>>

\* The worker takes requests until it is stopped, after the configuration API is.
Working == daemon \in {"up", "closing"}

Request(d, n) == [step |-> "get", device |-> d, nonce |-> n, object |-> "none",
                  answer |-> "none", late |-> FALSE]

\* handleExecuteAction: without a nonce there is no cache.
Take(d, n) ==
    /\ Working
    /\ processor.step = "idle"
    /\ NewEvent
    /\ IF n = None THEN /\ processor' = [Request(d, n) EXCEPT !.step = "run"]
                        /\ UNCHANGED caches
                   ELSE FindCache("get", Request(d, n))
    /\ UNCHANGED past
    /\ ProcessorOnly

\* The format is looked at once no answer was found.
AnyNonce(n)      == TRUE
ValidateNonce(n) == n # Bad

\* CheckNonce looks into the cache it found.  An entry that is too old is removed.
CheckNonce ==
    /\ processor.step = "get"
    /\ LET o == processor.object
           n == processor.nonce
           run == [processor EXCEPT !.step = IF ValidateNonce(n) THEN "run" ELSE "refuse",
                                    !.object = "none"]
       IN  IF At(o, n) = {} THEN processor' = run /\ UNCHANGED cache
           ELSE IF Entry(o, n).old
           THEN processor' = run /\ cache' = [cache EXCEPT ![o] = Without(o, n)]
           ELSE /\ processor' = [processor EXCEPT !.step = "replay",
                                                  !.answer = Entry(o, n).answer]
                /\ cache' = [cache EXCEPT ![o] = Append(Without(o, n), Entry(o, n))]
    /\ UNCHANGED <<cacheOf, events, past>>
    /\ ProcessorOnly

\* The cached answer is returned, or "Invalid nonce format".
Answer ==
    /\ processor.step \in {"replay", "refuse", "report"}
    /\ processor' = Idle
    /\ UNCHANGED <<caches, events, past>>
    /\ ProcessorOnly

\* ProcessDeviceAction looks the device up and has it execute the action: a
\* device that is missing and one that fails give an answer like any other.
Execute ==
    /\ processor.step = "run"
    /\ processor' = IF processor.nonce = None THEN Idle
                    ELSE [processor EXCEPT
                            !.step = "store",
                            !.answer = IF devices[processor.device] = "none" THEN "not found"
                                       ELSE "executed",
                            !.late = Reloading]
    /\ UNCHANGED <<caches, events, past>>
    /\ ProcessorOnly

Store ==
    /\ processor.step = "store"
    /\ FindCache("add", processor)
    /\ UNCHANGED <<events, past>>
    /\ ProcessorOnly

\* The answer is cached.  It may be gone later without having aged: through more
\* nonces than the cache has room for, or through the sweep it was stored in.
Keep ==
    /\ processor.step = "add"
    /\ LET o == processor.object
           d == processor.device
           k == <<d, processor.nonce>>
           used == {n \in Nonces : <<d, n>> \in done \cup {k}}
       IN  /\ cache' = [cache EXCEPT ![o] = Added(o, [nonce |-> k[2], answer |-> processor.answer,
                                                     old |-> FALSE, late |-> processor.late])]
           /\ done' = done \cup {k}
           /\ last' = [last EXCEPT ![k] = processor.answer]
           /\ excused' = (IF cleaner.step = "idle" /\ cacheOf[d] = o
                          THEN excused \ {k} ELSE excused \cup {k})
                         \cup (IF Cardinality(used) > Size THEN {<<d, n>> : n \in used \ {k[2]}}
                               ELSE {})
    /\ processor' = Idle
    /\ UNCHANGED <<cacheOf, events>>
    /\ ProcessorOnly

\* handleListAction, handleStatusAction and handleInfoAction report from the
\* configuration and ask no device.
Report ==
    /\ Working
    /\ processor.step = "idle"
    /\ processor' = [step |-> "report", ids |-> Ids(config)]
    /\ UNCHANGED <<caches, events, past>>
    /\ ProcessorOnly

Handle ==
    CheckNonce \/ Answer \/ Execute \/ Store \/ Keep

-----------------------------------------------------------------------------
(* The configuration API *)

HandlerOnly == UNCHANGED <<daemon, cleaner, done, last>>
GoTo(h, s)  == handler' = [handler EXCEPT ![h] = s]

\* handleDeviceConfigure sets the list, which is not empty, before anything else.
Configure(h) ==
    /\ daemon \in {"api", "up"}
    /\ handler[h] = "new"
    /\ NewEvent
    /\ \E list \in Lists : list # <<>> /\ config' = list
    /\ GoTo(h, "save")
    /\ UNCHANGED <<devices, failed, caches, processor, excused>>
    /\ HandlerOnly

Save(h) ==
    /\ Running
    /\ handler[h] = "save"
    /\ \/ GoTo(h, "shutdown") /\ UNCHANGED failed
       \/ GoTo(h, "returned") /\ failed' = TRUE
    /\ UNCHANGED <<config, devices, caches, processor, excused>>
    /\ UNCHANGED events
    /\ HandlerOnly

\* handleDeviceReload
ReloadDevices(h) ==
    /\ daemon \in {"api", "up"}
    /\ handler[h] = "new"
    /\ NewEvent
    /\ GoTo(h, "shutdown")
    /\ UNCHANGED <<config, devices, failed, caches, processor, excused>>
    /\ HandlerOnly

\* DeviceManager.Shutdown: every cache in the map is purged and the map replaced,
\* and so is the map of devices.
Attached == {cacheOf[d] : d \in Devices}
KeepCaches == UNCHANGED caches
PurgeCaches ==
    /\ cache' = [o \in Objects |-> IF o \in Attached THEN <<>> ELSE cache[o]]
    /\ cacheOf' = [d \in Devices |-> "none"]
KeptDevices == devices
NoDevices   == [d \in Devices |-> "none"]

ShutDownDevices ==
    /\ PurgeCaches
    /\ devices' = NoDevices
    /\ excused' = done
    /\ failed' = FALSE
    /\ processor' = Touched

Shutdown(h) ==
    /\ Running
    /\ handler[h] = "shutdown"
    /\ ShutDownDevices
    /\ GoTo(h, "init")
    /\ UNCHANGED config
    /\ UNCHANGED events
    /\ HandlerOnly

\* Initialize creates the devices of the list, up to the first that cannot be.
Broken(list)    == {i \in DOMAIN list : ~list[i].good}
Creatable(list) == {i \in DOMAIN list : \A j \in Broken(list) : i < j}
Installed(list) ==
    [d \in Devices |->
        LET mine == {i \in Creatable(list) : list[i].id = d}
        IN  IF mine = {} THEN devices[d]
            ELSE list[CHOOSE i \in mine : \A j \in mine : j <= i].address]

Initialize(h) ==
    /\ Running
    /\ handler[h] = "init"
    /\ devices' = Installed(config)
    /\ failed' = (failed \/ Broken(config) # {})
    /\ processor' = Touched
    /\ GoTo(h, "returned")
    /\ UNCHANGED <<config, caches, excused>>
    /\ UNCHANGED events
    /\ HandlerOnly

ConfigAPI == \E h \in Handlers : Save(h) \/ Shutdown(h) \/ Initialize(h)

-----------------------------------------------------------------------------
(* cleanupExpired *)

CleanerOnly == Running /\ UNCHANGED <<setup, processor, events, past>>

\* Time passes.
Age(o, n) ==
    /\ Running
    /\ At(o, n) # {}
    /\ ~Entry(o, n).old
    /\ cache' = [cache EXCEPT ![o] =
                    [i \in DOMAIN cache[o] |-> IF cache[o][i].nonce = n
                                               THEN [cache[o][i] EXCEPT !.old = TRUE]
                                               ELSE cache[o][i]]]
    /\ excused' = excused \cup {<<d, n>> : d \in {e \in Devices : cacheOf[e] = o}}
    /\ UNCHANGED <<setup, cacheOf, processor, cleaner, events, done, last>>

Young(o)   == {n \in Nonces : At(o, n) # {} /\ ~Entry(o, n).old}
Expired(o) == {n \in Nonces : At(o, n) # {} /\ Entry(o, n).old}

\* The map is copied, and the time read once: what ages later is for the next sweep.
Sweep ==
    /\ cleaner.step = "idle"
    /\ \E d \in Devices : cacheOf[d] # "none"
    /\ cleaner' = [step |-> "next", device |-> "none", object |-> "none",
                   nonces |-> {}, nonce |-> "none",
                   todo |-> {<<d, cacheOf[d], Expired(cacheOf[d])>> :
                                d \in {e \in Devices : cacheOf[e] # "none"}}]
    /\ UNCHANGED caches
    /\ CleanerOnly

NextCache ==
    /\ cleaner.step = "next"
    /\ \/ cleaner.todo = {} /\ cleaner' = Idle
       \/ \E p \in cleaner.todo :
             cleaner' = [step |-> "look", device |-> p[1], object |-> p[2],
                         nonces |-> p[3], nonce |-> "none", todo |-> cleaner.todo \ {p}]
    /\ UNCHANGED caches
    /\ CleanerOnly

\* Peek finds an entry that is too old, and Remove takes whatever is there then.
Peek ==
    /\ cleaner.step = "look"
    /\ \E n \in cleaner.nonces :
          cleaner' = [cleaner EXCEPT !.step = IF n \in Expired(cleaner.object) THEN "remove" ELSE @,
                                     !.nonce = IF n \in Expired(cleaner.object) THEN n ELSE @,
                                     !.nonces = @ \ {n}]
    /\ UNCHANGED caches
    /\ CleanerOnly

Remove ==
    /\ cleaner.step = "remove"
    /\ cache' = [cache EXCEPT ![cleaner.object] = Without(cleaner.object, cleaner.nonce)]
    /\ cleaner' = [cleaner EXCEPT !.step = "look", !.nonce = "none"]
    /\ UNCHANGED cacheOf
    /\ CleanerOnly

\* A cache that is found empty is deleted from the map after another lock.
FindEmpty ==
    /\ cleaner.step = "look"
    /\ cleaner.nonces = {}
    /\ cleaner' = IF cache[cleaner.object] = <<>> THEN [cleaner EXCEPT !.step = "delete"]
                  ELSE [cleaner EXCEPT !.step = "next", !.device = "none", !.object = "none"]
    /\ UNCHANGED caches
    /\ CleanerOnly

Delete ==
    /\ cleaner.step = "delete"
    /\ cacheOf' = [cacheOf EXCEPT ![cleaner.device] = "none"]
    /\ cleaner' = [cleaner EXCEPT !.step = "next", !.device = "none", !.object = "none"]
    /\ UNCHANGED cache
    /\ CleanerOnly

Cleaner == Sweep \/ NextCache \/ Peek \/ Remove \/ FindEmpty \/ Delete

-----------------------------------------------------------------------------
(* Start and Stop of the daemon *)

DaemonOnly == UNCHANGED <<config, handler, cleaner, events, done, last>>

\* Start initializes the devices before anything can ask for them.
StartDevices ==
    /\ daemon = "new"
    /\ devices' = Installed(config)
    /\ daemon' = IF Broken(config) = {} THEN "devices" ELSE "failed"
    /\ failed' = (Broken(config) # {})
    /\ UNCHANGED <<caches, processor, excused>>
    /\ DaemonOnly

\* The configuration API first, then the worker, which may fail to connect.
StartAPI ==
    /\ daemon = "devices"
    /\ daemon' = "api"
    /\ UNCHANGED <<devices, failed, caches, processor, excused>>
    /\ DaemonOnly

StartWorker ==
    /\ daemon = "api"
    /\ daemon' \in {"up", "failed"}
    /\ UNCHANGED <<devices, failed, caches, processor, excused>>
    /\ DaemonOnly

\* Stop: neither service takes anything new once it is stopped.  The context that
\* Shutdown would wait under is cancelled already, so the requests they were at go
\* on until the devices are shut down and the process ends.
StopAPI ==
    /\ daemon = "up"
    /\ daemon' = "closing"
    /\ UNCHANGED <<devices, failed, caches, processor, excused>>
    /\ DaemonOnly

StopWorker ==
    /\ daemon = "closing"
    /\ daemon' = "stopping"
    /\ UNCHANGED <<devices, failed, caches, processor, excused>>
    /\ DaemonOnly

StopDevices ==
    /\ daemon = "stopping"
    /\ daemon' = "stopped"
    /\ ShutDownDevices
    /\ DaemonOnly

-----------------------------------------------------------------------------

Next ==
    \/ \E k \in Asked : Take(k[1], k[2])
    \/ Handle \/ Report
    \/ \E h \in Handlers : Configure(h) \/ ReloadDevices(h)
    \/ ConfigAPI
    \/ \E o \in Held, n \in Nonces : o # "none" /\ Age(o, n)
    \/ Cleaner
    \/ StartDevices \/ StartAPI \/ StartWorker
    \/ StopAPI \/ StopWorker \/ StopDevices

Spec == Init /\ [][Next]_vars

\* A device answers or fails, and the ticker of the cleanup goes on ticking.
FairSpec ==
    /\ Spec
    /\ WF_vars(Handle) /\ WF_vars(ConfigAPI) /\ WF_vars(Cleaner)

-----------------------------------------------------------------------------
(* Properties *)

Keeping  == [nonce : Nonces, answer : Answers, old : BOOLEAN, late : BOOLEAN]
Reports  == [step : {"report"}, ids : SUBSET Devices]
Requests == [step : {"get", "run", "replay", "refuse", "store", "add"}, device : Devices,
             nonce : Nonces \cup {Bad, None}, object : Objects \cup {"none"},
             answer : Answers \cup {"none"}, late : BOOLEAN]
Sweeps   == [step : {"next", "look", "remove", "delete"}, device : Devices \cup {"none"},
             object : Objects \cup {"none"}, nonces : SUBSET Nonces,
             nonce : Nonces \cup {"none"}, todo : SUBSET (Devices \X Objects \X SUBSET Nonces)]

\* Every variable has its type, no cache outgrows its size, and nothing is stored
\* for a nonce of the wrong format.
TypeOK ==
    /\ daemon \in {"new", "devices", "api", "up", "failed", "closing", "stopping",
                  "stopped"}
    /\ config \in Seq(Entries) /\ devices \in [Devices -> Addresses \cup {"none"}]
    /\ handler \in [Handlers -> {"new", "save", "shutdown", "init", "returned"}]
    /\ failed \in BOOLEAN
    /\ cacheOf \in [Devices -> Objects \cup {"none"}]
    /\ cache \in [Objects -> Seq(Keeping)]
    /\ \A o \in Objects : Len(cache[o]) <= Size
    /\ processor \in {Idle} \cup Reports \cup Requests
    /\ cleaner \in {Idle} \cup Sweeps
    /\ events \in 0 .. MaxEvents
    /\ done \subseteq Keys /\ last \in [Keys -> Answers \cup {"none"}] /\ excused \subseteq Keys

\* A nonce whose answer was stored is not executed again on its device unless
\* the answer has aged, the devices were shut down in between, more nonces were
\* used than the cache holds, or the answer was stored while a sweep ran.
RepeatNeedsCause ==
    processor.step = "run" /\ <<processor.device, processor.nonce>> \in done
        => <<processor.device, processor.nonce>> \in excused

\* What a duplicate is answered with is the answer of the last execution of that
\* nonce on that device, whichever cache object it was found in.
ReplayIsLastAnswer ==
    processor.step = "replay"
        => processor.answer = last[<<processor.device, processor.nonce>>]

\* Once no API request is in progress and none failed, the devices are those of
\* the configuration, in whatever order the requests set it, shut the devices
\* down and initialized them.
Addressed(list) ==
    [d \in Devices |->
        LET mine == {i \in DOMAIN list : list[i].id = d}
        IN  IF mine = {} THEN "none"
            ELSE list[CHOOSE i \in mine : \A j \in mine : j <= i].address]
Settled ==
    /\ daemon \in {"devices", "api", "up", "closing"} /\ ~failed
    /\ \A h \in Handlers : handler[h] \in {"new", "returned"}
SettledDevicesMatch == Settled => devices = Addressed(config)

\* The list the gateway is sent then names the devices that can be commanded.
SettledListIsTrue ==
    [][Settled /\ processor'.step = "report" /\ processor.step = "idle"
        => processor'.ids = {d \in Devices : devices[d] # "none"}]_vars

\* A "Device not found" is kept for a device the manager has only if a reload
\* overlapped the request: otherwise the reload that created it purged the answer.
NotFoundIsLate ==
    \A d \in Devices :
        devices[d] # "none" /\ cacheOf[d] # "none"
            => \A i \in DOMAIN cache[cacheOf[d]] :
                  LET e == cache[cacheOf[d]][i] IN e.answer = "not found" => e.late

\* The cleanup forgets an answer that has aged, whatever becomes of the caches.
AgedIsForgotten ==
    []<>(\/ \A d \in Devices : cacheOf[d] # "none" =>
                \A i \in DOMAIN cache[cacheOf[d]] : ~cache[cacheOf[d]][i].old
         \/ ~Running)
=============================================================================
