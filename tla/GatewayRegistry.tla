--------------------------- MODULE GatewayRegistry ---------------------------
(***************************************************************************)
(* The gateway's database of hubs and devices, and those who read and      *)
(* write it: the HTTP handlers of api.go (hub registration, claims, device *)
(* actions), one goroutine per request; the broker's worker goroutine,     *)
(* which hands each hub's device list to ProcessDeviceListResponse; and    *)
(* the monitor, which sets online whatever the broker calls its workers.   *)
(*                                                                         *)
(* No handler uses a transaction, so each SQL statement is a step of its   *)
(* own and a handler acts on rows it read before.  SQLite may refuse a     *)
(* statement that writes while another connection does.  What is stored as *)
(* a hub id is a hub, or the identity of a worker's socket, and whether it *)
(* is spelled with "hub_".  Rows of hubs and devices are never deleted     *)
(* (DeleteDevice has no caller), and hub_id is UNIQUE, so a spelling       *)
(* stands for its row.  Of users there is their id: whoever makes a        *)
(* request has been authenticated.                                         *)
(***************************************************************************)
EXTENDS Naturals, FiniteSets

CONSTANTS
    Hubs,
    Plain,         \* hubs whose configured id is written without "hub_"
    Sockets,       \* the random identities of the sockets that workers open
    Users, Keys, Devices,
    Lists,         \* the devices in the configuration of each hub
    NoUser, NoKey,
    MaxRequests,   \* bound: HTTP requests
    MaxReports,    \* bound: device lists that hubs send
    MaxBusy        \* bound: statements that find the database locked

ASSUME RegistryAssumption ==
    /\ Plain \subseteq Hubs /\ Lists \in [Hubs -> SUBSET Devices]
    /\ Hubs \cap Sockets = {}
    /\ NoUser \notin Users /\ NoKey \notin Keys
    /\ MaxRequests \in Nat /\ MaxReports \in Nat /\ MaxBusy \in Nat

VARIABLES
    hubs,       \* the table hubs, by hub_id
    devices,    \* the table devices: the status of each, by hub and device id
    request,    \* the HTTP handlers
    report,     \* the worker goroutine, in ProcessDeviceListResponse
    monitor,    \* monitorServices
    connected,  \* hubs whose worker has a socket open
    working,    \* sockets the broker has known as workers of hub.control
    reports, busy

vars == <<hubs, devices, request, report, monitor, connected, working, reports, busy>>
tables == <<hubs, devices>>
world == <<connected, working, reports>>

Names == (Hubs \cup Sockets) \X BOOLEAN
Configured(h)   == <<h, h \notin Plain>>
Identity(s)     == <<s, FALSE>>
Prefixed(name)  == <<name[1], TRUE>>
Stripped(name)  == <<name[1], FALSE>>
Alternative(name) == <<name[1], ~name[2]>>

NoRow == [exists |-> FALSE, user |-> NoUser, key |-> NoKey, auto |-> TRUE, online |-> FALSE]
Rows  == [exists : BOOLEAN, user : Users \cup {NoUser}, key : Keys \cup {NoKey},
          auto : BOOLEAN, online : BOOLEAN]
Exists(name) == hubs[name].exists
Statuses == {"none", "unknown", "online", "claimed"}

Requests == 1 .. MaxRequests
NewRequest == [kind |-> "none", step |-> "new", user |-> NoUser, key |-> NoKey,
               name |-> <<>>, device |-> <<>>, saw |-> NoUser]
Idle == [step |-> "idle", name |-> <<>>, actual |-> <<>>, left |-> {}]

Init ==
    /\ hubs = [name \in Names |-> NoRow]
    /\ devices = [name \in Names |-> [d \in Devices |-> "none"]]
    /\ request = [n \in Requests |-> NewRequest]
    /\ report = Idle /\ monitor = Idle
    /\ connected = {} /\ working = {} /\ reports = 0 /\ busy = 0

\* A statement that writes succeeds, or finds the database locked.
Succeeds == UNCHANGED busy
Locked   == busy < MaxBusy /\ busy' = busy + 1 /\ UNCHANGED tables

\* Of an answered request there remains who was told that a hub is theirs, or
\* that their command is on its way; the others are just done, whatever the
\* answer was.
Over == [NewRequest EXCEPT !.step = "done"]
Finish(n)    == request' = [request EXCEPT ![n] = Over]
Granted(r)   == [r EXCEPT !.step = "ok", !.device = <<>>]
Grant(n)     == request' = [request EXCEPT ![n] = Granted(@)]
GoTo(n, s)   == request' = [request EXCEPT ![n].step = s]
At(n, s)     == request[n].step = s

\* Requests are numbered as they arrive.
Arrives(n) == At(n, "new") /\ \A m \in 1 .. n - 1 : ~At(m, "new")

-----------------------------------------------------------------------------
(* POST /hub/register: handleHubRegister, Database.RegisterHub *)

FindHub(n) ==
    /\ Arrives(n)
    /\ \E h \in Hubs, k \in Keys :
          request' = [request EXCEPT ![n] = [NewRequest EXCEPT
                         !.kind = "register", !.name = Configured(h), !.key = k,
                         !.step = IF Exists(Configured(h)) THEN "update" ELSE "check"]]
    /\ UNCHANGED <<tables, report, monitor, world, busy>>

\* Whether another hub has the product key.
CheckKey(n) ==
    /\ At(n, "check")
    /\ LET holders == {name \in Names : Exists(name) /\ hubs[name].key = request[n].key}
       IN  IF holders = {} THEN GoTo(n, "insert")
           ELSE \E name \in holders : IF name # request[n].name THEN Finish(n)
                                      ELSE GoTo(n, "insert")
    /\ UNCHANGED <<tables, report, monitor, world, busy>>

\* What the update of a hub that registers again leaves of its row: the claim
\* stays.
StartedAfresh(row, k) ==
    [row EXCEPT !.key = k, !.online = FALSE, !.user = NoUser, !.auto = TRUE]
Registered(row, k) == [row EXCEPT !.key = k, !.online = FALSE]

UpdateHub(n) ==
    /\ At(n, "update")
    /\ \/ /\ hubs' = [hubs EXCEPT ![request[n].name] = Registered(@, request[n].key)]
          /\ Finish(n) /\ Succeeds /\ UNCHANGED devices
       \/ Locked /\ Finish(n)
    /\ UNCHANGED <<report, monitor, world>>

\* hub_id is UNIQUE: what was inserted since the lookup is an error.
InsertHub(n) ==
    /\ At(n, "insert")
    /\ \/ /\ ~Exists(request[n].name)
          /\ hubs' = [hubs EXCEPT ![request[n].name] =
                          Registered([NoRow EXCEPT !.exists = TRUE], request[n].key)]
          /\ Finish(n) /\ Succeeds /\ UNCHANGED devices
       \/ Exists(request[n].name) /\ Finish(n) /\ Succeeds /\ UNCHANGED tables
       \/ Locked /\ Finish(n)
    /\ UNCHANGED <<report, monitor, world>>

-----------------------------------------------------------------------------
(* POST /user/hubs/claim: handleUserHubClaim *)

\* A hub another user has is refused unless the row is auto-registered.
MayClaim(row) == row.user = NoUser \/ row.auto

GetHubByProductKey(n) ==
    /\ Arrives(n)
    /\ \E u \in Users, k \in Keys :
       LET found == {name \in Names : Exists(name) /\ hubs[name].key = k}
           claim(name) == [NewRequest EXCEPT !.kind = "claim", !.user = u, !.step = "claim",
                                             !.name = name, !.saw = hubs[name].user]
           result(name) == CASE hubs[name].user = u       -> Granted(claim(name))
                             [] hubs[name].user # u /\ MayClaim(hubs[name]) -> claim(name)
                             [] OTHER                     -> Over
       IN  \/ found = {} /\ request' = [request EXCEPT ![n] = Over]
           \/ \E name \in found : request' = [request EXCEPT ![n] = result(name)]
    /\ UNCHANGED <<tables, report, monitor, world, busy>>

ClaimHub(n) ==
    /\ At(n, "claim")
    /\ \/ /\ hubs' = [hubs EXCEPT ![request[n].name].user = request[n].user,
                                  ![request[n].name].auto = FALSE]
          /\ GoTo(n, "devices") /\ Succeeds /\ UNCHANGED devices
       \/ Locked /\ Finish(n)
    /\ UNCHANGED <<report, monitor, world>>

\* A failure here is only logged.
UpdateDevicesUserID(n) ==
    /\ At(n, "devices")
    /\ \/ /\ devices' = [devices EXCEPT ![request[n].name] =
                [d \in Devices |-> IF @[d] = "none" THEN "none" ELSE "claimed"]]
          /\ Succeeds /\ UNCHANGED hubs
       \/ Locked
    /\ Grant(n)
    /\ UNCHANGED <<report, monitor, world>>

-----------------------------------------------------------------------------
(* POST /devices/{id}/action: handleDeviceAction, SendDeviceCommand *)

\* Whether the user of the request has the hub of the device it found.
IsClaimed(row, u) == row.user # NoUser
IsOwner(row, u)   == row.user = u

\* The first row with the device's id, of whatever hub.
FindDeviceByID(n) ==
    /\ Arrives(n)
    /\ \E u \in Users, d \in Devices :
       LET found == {name \in Names : devices[name][d] # "none"}
           act(name) == [NewRequest EXCEPT !.kind = "act", !.user = u, !.device = d,
                                           !.name = name, !.step = "send"]
       IN  \/ found = {} /\ request' = [request EXCEPT ![n] = Over]
           \/ \E name \in found :
                 request' = [request EXCEPT ![n] =
                    IF IsOwner(hubs[name], u) THEN act(name) ELSE Over]
    /\ UNCHANGED <<tables, report, monitor, world, busy>>

\* Looks the device up once more, and hands the command to hub.control: it is
\* answered when it is sent, or the client cannot send it.
SendDeviceCommand(n) ==
    /\ At(n, "send")
    /\ Grant(n) \/ Finish(n)
    /\ UNCHANGED <<tables, report, monitor, world, busy>>

HTTP(n) ==
    \/ FindHub(n) \/ CheckKey(n) \/ UpdateHub(n) \/ InsertHub(n)
    \/ GetHubByProductKey(n) \/ ClaimHub(n) \/ UpdateDevicesUserID(n)
    \/ FindDeviceByID(n) \/ SendDeviceCommand(n)

-----------------------------------------------------------------------------
(* EnsureHubExists and UpdateHubStatus, as goroutine g runs them: g is the   *)
(* record of the goroutine and the result the record after one statement    *)

\* Both look for the id as it is given and then for its other spelling.  That
\* is one step here: a row that is inserted between the two is found, or is met
\* by the insert that follows, as if the lookups came before or after it.
Found(name) == Exists(name) \/ Exists(Alternative(name))

\* EnsureHubExists, once the hub is known to be there.
Ensured(g) == [g EXCEPT !.step = IF g.actual = <<>> THEN "status" ELSE "set"]

\* The spelling UpdateHubStatus updates the row under, if it finds one.
ActualName(name) == IF Exists(name) THEN name ELSE Alternative(name)

\* If it finds none, it falls back on EnsureHubExists and the name it was given.
Looks(g, next) ==
    \/ /\ g.step = "ensure"
       /\ next = IF Found(g.name) THEN Ensured(g) ELSE [g EXCEPT !.step = "insert"]
    \/ /\ g.step = "status"
       /\ next = IF Found(g.name)
                 THEN [g EXCEPT !.step = "set", !.actual = ActualName(g.name)]
                 ELSE [g EXCEPT !.step = "ensure", !.actual = g.name]

\* The row EnsureHubExists makes of a hub it did not find, under the name it was
\* given; UNIQUE keeps one that was inserted meanwhile.
Ensure(row) == IF row.exists THEN row ELSE [NoRow EXCEPT !.exists = TRUE]

\* An UPDATE of a row that is not there changes nothing (and is an error).
SetOnline(row) == IF row.exists THEN [row EXCEPT !.online = TRUE] ELSE row

\* The statements that write; g goes on with "done" when it is through, or
\* EnsureHubExists fails.
Writes(g, next, done) ==
    \/ /\ g.step = "insert"
       /\ \/ /\ hubs' = [hubs EXCEPT ![g.name] = Ensure(@)]
             /\ next = Ensured(g) /\ Succeeds /\ UNCHANGED devices
          \/ Locked /\ next = done
    \/ /\ g.step = "set"
       /\ \/ /\ hubs' = [hubs EXCEPT ![g.actual] = SetOnline(@)]
             /\ Succeeds /\ UNCHANGED devices
          \/ Locked
       /\ next = done

-----------------------------------------------------------------------------
(* ProcessDeviceListResponse, in the broker's worker goroutine *)

\* The list names the hub by its own id, which is stripped of its prefix.
Begin(name) == [Idle EXCEPT !.step = "ensure", !.name = Stripped(name)]

ReceiveList ==
    /\ report.step = "idle" /\ reports < MaxReports
    /\ \E h \in connected : report' = Begin(Configured(h))
    /\ reports' = reports + 1
    /\ UNCHANGED <<tables, request, monitor, connected, working, busy>>

\* processHubWorkerRegistration; whatever fails in it, the list is processed.
RegisterWorker ==
    /\ \/ Looks(report, report') /\ UNCHANGED <<tables, busy>>
       \/ Writes(report, report', [report EXCEPT !.step = "find", !.actual = <<>>])
    /\ UNCHANGED <<request, monitor, world>>

\* The devices that are left of the list.
Remaining(left) ==
    IF left = {} THEN Idle ELSE [Idle EXCEPT !.step = "create", !.name = report.name, !.left = left]

\* The hub's row is looked up by the id of the list, which is the stripped one,
\* and no other.
GetHubByHubID(name) == Exists(name)

GetHub ==
    /\ report.step = "find"
    /\ report' = IF GetHubByHubID(report.name) THEN Remaining(Lists[report.name[1]]) ELSE Idle
    /\ UNCHANGED <<tables, request, monitor, world, busy>>

\* What follows the insert of a device: its status.
CreatedOnly(d) == Remaining(report.left \ {d})
Created(d)     == [report EXCEPT !.step = "deviceStatus", !.actual = d]

\* INSERT OR REPLACE gives the row the default status.  A failure skips the
\* device.
CreateDevice ==
    /\ report.step = "create"
    /\ \E d \in report.left :
       \/ /\ devices' = [devices EXCEPT ![report.name][d] = "unknown"]
          /\ report' = Created(d)
          /\ Succeeds /\ UNCHANGED hubs
       \/ Locked /\ report' = Remaining(report.left \ {d})
    /\ UNCHANGED <<request, monitor, world>>

\* The rows of a device id, under whatever hub, get the status.
Marked(d) ==
    [name \in Names |-> [devices[name] EXCEPT ![d] = IF @ = "none" THEN "none" ELSE "online"]]

UpdateDeviceStatus ==
    /\ report.step = "deviceStatus"
    /\ \/ devices' = Marked(report.actual) /\ Succeeds /\ UNCHANGED hubs
       \/ Locked
    /\ report' = Remaining(report.left \ {report.actual})
    /\ UNCHANGED <<request, monitor, world>>

WorkerEvents ==
    ReceiveList \/ RegisterWorker \/ GetHub \/ CreateDevice \/ UpdateDeviceStatus

-----------------------------------------------------------------------------
(* checkServiceHealth, in the monitor's goroutine *)

\* Takes a worker of hub.control for a hub.  The broker knows a worker by its
\* socket's identity, which the worker does not choose: it has no prefix that
\* could be stripped, and no hub has it for an id.
Visit(live) ==
    \E s \in live : monitor' = [Idle EXCEPT !.step = "status", !.left = live \ {s},
                                            !.name = Stripped(Identity(s))]

\* The round goes over the workers that were heard of within a minute, any of
\* those there have been.
Tick ==
    /\ monitor.step = "idle"
    /\ IF monitor.left = {} THEN \E live \in SUBSET working : Visit(live)
                            ELSE Visit(monitor.left)
    /\ UNCHANGED <<tables, request, report, world, busy>>

UpdateHubStatus ==
    /\ \/ Looks(monitor, monitor') /\ UNCHANGED <<tables, busy>>
       \/ Writes(monitor, monitor', [Idle EXCEPT !.left = monitor.left])
    /\ UNCHANGED <<request, report, world>>

Monitor == Tick \/ UpdateHubStatus

-----------------------------------------------------------------------------
(* The hubs' workers *)

\* A hub's worker opens a socket, its first or one in place of a lost one, and
\* its READY arrives.  What is lost of it later shows in Tick.
Connects(h) ==
    /\ \E s \in Sockets \ working : working' = working \cup {s}
    /\ connected' = connected \cup {h}
    /\ UNCHANGED <<tables, request, report, monitor, reports, busy>>

-----------------------------------------------------------------------------
Next ==
    \/ \E n \in Requests : HTTP(n)
    \/ WorkerEvents
    \/ Monitor
    \/ \E h \in Hubs : Connects(h)

Spec == Init /\ [][Next]_vars

-----------------------------------------------------------------------------
(* Properties *)

\* Every variable has its type, and a row that does not exist has no content.
TypeOK ==
    /\ hubs \in [Names -> Rows]
    /\ \A name \in Names : Exists(name) \/ hubs[name] = NoRow
    /\ devices \in [Names -> [Devices -> Statuses]]
    /\ \A name \in Names, d \in Devices : devices[name][d] # "none" => Exists(name)
    /\ request \in [Requests ->
          [kind : {"none", "register", "claim", "act"},
           step : {"new", "update", "check", "insert", "claim", "devices", "send", "ok", "done"},
           user : Users \cup {NoUser}, key : Keys \cup {NoKey}, name : Names \cup {<<>>},
           device : Devices \cup {<<>>}, saw : Users \cup {NoUser}]]
    /\ \A g \in {report, monitor} :
          /\ g.step \in {"idle", "ensure", "status", "insert", "set", "find", "create", "deviceStatus"}
          /\ g.name \in Names \cup {<<>>}
    /\ report.left \subseteq Devices /\ monitor.left \subseteq Sockets
    /\ connected \subseteq Hubs /\ working \subseteq Sockets
    /\ reports \in 0 .. MaxReports /\ busy \in 0 .. MaxBusy

\* Two users were let through to one hub: each found it unclaimed.
Contested(name) ==
    \E m, n \in Requests :
        /\ request[m].kind = "claim" /\ request[n].kind = "claim"
        /\ request[m].name = name /\ request[n].name = name
        /\ request[m].user # request[n].user
        /\ request[m].saw = NoUser /\ request[n].saw = NoUser

\* A claim that was answered "ok" holds: nothing that happens to the hub since,
\* its registering again or another user's claim, takes it from its user, except
\* a claim that had looked at the hub before.
ClaimHolds ==
    \A n \in Requests :
        request[n].kind = "claim" /\ At(n, "ok")
            => \/ hubs[request[n].name].user = request[n].user
               \/ Contested(request[n].name)

\* A command goes out, or has, only for the user who has the hub of the device,
\* although the ownership was looked at before the command was made: unless two
\* claims of the hub were let through at once.
CommandIsOwners ==
    \A n \in Requests :
        request[n].kind = "act" /\ request[n].step \in {"send", "ok"}
            => \/ hubs[request[n].name].user = request[n].user
               \/ Contested(request[n].name)

\* Whatever comes first, a hub's registration, its device list or a look of the
\* monitor, and however the lookups of one run into the inserts of another: a hub
\* that spells its id without prefix has one row of its id, and a hub with the
\* prefix a row with it only from its registration.  What the monitor adds, a row
\* per socket of a worker, gets no product key, no user and no devices.
RowsByOrigin ==
    /\ \A h \in Plain : ~Exists(<<h, TRUE>>)
    /\ \A h \in Hubs \ Plain : Exists(<<h, TRUE>>) => hubs[<<h, TRUE>>].key # NoKey
    /\ \A s \in Sockets :
          /\ ~Exists(<<s, TRUE>>)
          /\ hubs[Identity(s)].key = NoKey /\ hubs[Identity(s)].user = NoUser
          /\ \A d \in Devices : devices[Identity(s)][d] = "none"

\* What the documentation says of a claim: when it is answered, the devices that
\* are recorded of the hub are its user's, so the row they hang on is.  The code
\* records them under the bare id, and the claimed row has the configured one.
DevicesAreOf(user, name) ==
    \A spelling \in {name, Alternative(name)}, d \in Devices :
        devices[spelling][d] # "none" => hubs[spelling].user = user

ClaimGrantsDevices ==
    [][\A n \in Requests :
          ~At(n, "ok") /\ At(n, "ok")' /\ request[n]'.kind = "claim"
              => DevicesAreOf(request[n].user, request[n].name)']_vars

\* A device is left with the status "unknown" only while its list is processed,
\* or when a statement failed.
UnknownIsBrief ==
    \A name \in Names, d \in Devices :
        devices[name][d] = "unknown"
            => busy > 0 \/ (report.step = "deviceStatus" /\ report.actual = d)
=============================================================================
