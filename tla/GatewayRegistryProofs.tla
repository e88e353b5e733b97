------------------------ MODULE GatewayRegistryProofs ------------------------
(***************************************************************************)
(* Theorems about GatewayRegistry, for every set of hubs, users, keys and  *)
(* devices and every number of requests and device lists: all that the run *)
(* checks, from one inductive invariant.                                   *)
(***************************************************************************)
EXTENDS GatewayRegistry, TLAPS

-----------------------------------------------------------------------------
(* The invariant *)

RequestRecords ==
    [kind : {"none", "register", "claim", "act"},
     step : {"new", "update", "check", "insert", "claim", "devices", "send", "ok", "done"},
     user : Users \cup {NoUser}, key : Keys \cup {NoKey}, name : Names \cup {<<>>},
     device : Devices \cup {<<>>}, saw : Users \cup {NoUser}]

RunRecords(S) ==
    [step : {"idle", "ensure", "status", "insert", "set", "find", "create", "deviceStatus"},
     name : Names \cup {<<>>}, actual : Names \cup {<<>>} \cup Devices, left : SUBSET S]

\* A spelling that a hub is configured with: only those register.
IsConfigured(name) ==
    name \in Names /\ name[1] \in Hubs /\ name[2] = (name[1] \notin Plain)

\* What a request that looked at the tables may rely on, rows being the hubs.
RequestOK(r, rows) ==
    /\ r.step \in {"update", "check", "insert"} =>
          r.kind = "register" /\ r.key \in Keys /\ IsConfigured(r.name)
    /\ r.step = "update" => rows[r.name].exists
    /\ r.step \in {"claim", "devices"} => r.kind = "claim"
    /\ r.kind = "claim" => /\ r.step \in {"claim", "devices", "ok"} /\ r.user \in Users
                           /\ IsConfigured(r.name) /\ rows[r.name].exists
    /\ r.step = "claim" => r.saw = NoUser
    /\ r.kind = "act" => r.step \in {"send", "ok"} /\ r.user \in Users /\ r.name \in Names
    /\ r.step = "send" => r.kind = "act"

\* What a goroutine g relies on: it works under the stripped name.
RunOK(g, rows) ==
    /\ g.step # "idle" => g.name \in Names /\ g.name[2] = FALSE
    /\ g.step \in {"ensure", "insert"} => g.actual \in {<<>>, g.name}
    /\ g.step = "set" => g.actual \in Names
    /\ g.step \in {"create", "deviceStatus"} => rows[g.name].exists
    /\ g.step = "deviceStatus" => g.actual \in Devices

\* A device list is a hub's; the monitor works under other names.
OfHub(g) == g.step # "idle" => g.name[1] \in Hubs

\* What the rows of hubs keep: only a row with its hub's configured spelling has
\* a key, and only one with a key gets a user; who has none may be claimed.
RowOK(rows, name) ==
    /\ ~rows[name].exists => rows[name] = NoRow
    /\ rows[name].key # NoKey => IsConfigured(name)
    /\ IsConfigured(name) /\ name[2] /\ rows[name].exists => rows[name].key # NoKey
    /\ rows[name].exists => IsConfigured(name) \/ name[2] = FALSE
    /\ rows[name].user # NoUser => IsConfigured(name)
    /\ rows[name].auto => rows[name].user = NoUser

Tables ==
    /\ hubs \in [Names -> Rows]
    /\ devices \in [Names -> [Devices -> Statuses]]
    /\ \A name \in Names : RowOK(hubs, name)
    /\ \A name \in Names, d \in Devices :
          devices[name][d] # "none" => /\ hubs[name].exists
                                       /\ name[1] \in Hubs /\ name[2] = FALSE

WorldOK == connected \subseteq Hubs /\ working \subseteq Sockets /\ reports \in 0 .. MaxReports

Actors ==
    /\ request \in [Requests -> RequestRecords]
    /\ \A n \in Requests : RequestOK(request[n], hubs)
    /\ report \in RunRecords(Devices) /\ RunOK(report, hubs) /\ OfHub(report)
    /\ monitor \in RunRecords(Sockets) /\ RunOK(monitor, hubs)
    /\ WorldOK /\ busy \in 0 .. MaxBusy

\* A claim that has written its user, having found the hub without one.
Wrote(r, name) ==
    /\ r.kind = "claim" /\ r.step \in {"devices", "ok"}
    /\ r.name = name /\ r.saw = NoUser
Rivals(reqs, name) ==
    \E m, n \in Requests : /\ Wrote(reqs[m], name) /\ Wrote(reqs[n], name)
                           /\ reqs[m].user # reqs[n].user

\* Who has a hub got it by such a claim, and who was told so, or commands one of
\* its devices, has it still or lost it to a rival.
Ownership ==
    /\ \A name \in Names : hubs[name].user # NoUser =>
          \E n \in Requests : Wrote(request[n], name) /\ request[n].user = hubs[name].user
    /\ \A n \in Requests :
          (request[n].kind = "claim" /\ request[n].step # "claim") \/ request[n].kind = "act" =>
             \/ hubs[request[n].name].user = request[n].user
             \/ Rivals(request, request[n].name)

RegistryInv == Tables /\ Actors /\ Ownership /\ UnknownIsBrief

LEMMA NewIsTyped == NewRequest \in RequestRecords /\ Over \in RequestRecords
                    /\ NewRequest.kind = "none" /\ NewRequest.step = "new"
                    /\ Over.kind = "none" /\ Over.step = "done"
<1>1. NewRequest \in RequestRecords /\ NewRequest.kind = "none" /\ NewRequest.step = "new"
  BY DEF NewRequest, RequestRecords
<1>2. Over \in RequestRecords /\ Over.kind = "none" /\ Over.step = "done"
  BY <1>1 DEF Over, RequestRecords
<1> QED BY <1>1, <1>2

LEMMA NewIsOK ==
    \A rows : RequestOK(NewRequest, rows) /\ RequestOK(Over, rows)
BY NewIsTyped DEF RequestOK

LEMMA RegistryInit == ASSUME Init PROVE RegistryInv
<1>1. NoRow \in Rows /\ NoRow.exists = FALSE /\ NoRow.key = NoKey /\ NoRow.user = NoUser
  BY DEF NoRow, Rows
<1>2. Idle \in RunRecords(Devices) /\ Idle \in RunRecords(Sockets) /\ Idle.step = "idle"
  BY DEF Idle, RunRecords
<1>3. Tables BY <1>1 DEF Init, Tables, RowOK, Statuses
<1>4. Actors BY <1>2, NewIsTyped, NewIsOK, RegistryAssumption DEF Init, Actors, WorldOK, RunOK, OfHub
<1>5. Ownership BY <1>1, NewIsTyped DEF Init, Ownership
<1>6. UnknownIsBrief BY DEF Init, UnknownIsBrief
<1> QED BY <1>3, <1>4, <1>5, <1>6 DEF RegistryInv

-----------------------------------------------------------------------------
(* What a step may do to the tables *)

\* The rows of hubs stay as they must be, none disappears and none changes hands.
HubsFine ==
    /\ hubs' \in [Names -> Rows]
    /\ \A name \in Names : /\ RowOK(hubs', name) /\ hubs'[name].user = hubs[name].user
                           /\ hubs[name].exists => hubs'[name].exists

\* Devices stay on stripped names, and none is left "unknown" that was not.
DevicesFine ==
    /\ devices' \in [Names -> [Devices -> Statuses]]
    /\ \A name \in Names, d \in Devices :
          /\ devices'[name][d] # "none" => devices[name][d] # "none"
          /\ devices'[name][d] = "unknown" => devices[name][d] = "unknown"

BusyFine == busy' \in 0 .. MaxBusy /\ (busy > 0 => busy' > 0)

LEMMA SameTables ==
    ASSUME RegistryInv, UNCHANGED tables PROVE HubsFine /\ DevicesFine
BY DEF RegistryInv, Tables, tables, HubsFine, DevicesFine, RowOK

LEMMA BusyIsFine ==
    ASSUME RegistryInv
    PROVE  /\ Succeeds \/ UNCHANGED busy => BusyFine
           /\ Locked => BusyFine /\ busy' > 0 /\ UNCHANGED tables
<1>1. ASSUME Succeeds \/ UNCHANGED busy PROVE BusyFine
  BY <1>1 DEF RegistryInv, Actors, Succeeds, BusyFine
<1>2. ASSUME Locked PROVE BusyFine /\ busy' > 0 /\ UNCHANGED tables
  <2>1. busy \in Nat /\ MaxBusy \in Nat
    BY <1>2, RegistryAssumption DEF RegistryInv, Actors
  <2> QED BY <1>2, <2>1 DEF Locked, BusyFine
<1> QED BY <1>1, <1>2

LEMMA TablesKept == ASSUME RegistryInv, HubsFine, DevicesFine PROVE Tables'
BY DEF RegistryInv, Tables, HubsFine, DevicesFine

\* What a goroutine or a request relies on stays true.
LEMMA ReliancesKept ==
    ASSUME RegistryInv, HubsFine
    PROVE  /\ \A n \in Requests : RequestOK(request[n], hubs')
           /\ RunOK(report, hubs') /\ RunOK(monitor, hubs')
<1>1. ASSUME NEW n \in Requests PROVE RequestOK(request[n], hubs')
  BY DEF RegistryInv, Actors, HubsFine, RequestOK, IsConfigured
<1>2. RunOK(report, hubs') BY DEF RegistryInv, Actors, HubsFine, RunOK
<1>3. RunOK(monitor, hubs') BY DEF RegistryInv, Actors, HubsFine, RunOK
<1> QED BY <1>1, <1>2, <1>3

\* A request that goes on: it stays the claim or the command it was, or was none
\* that had written, and is now none that must hold or one that does.
Kept(r, s) ==
    \/ /\ s.kind = r.kind /\ s.user = r.user /\ s.name = r.name /\ s.saw = r.saw
       /\ r.step \in {"devices", "ok"} => s.step \in {"devices", "ok"}
       /\ r.step # "claim" \/ s.step = "claim" \/ r.kind # "claim"
    \/ /\ r.kind # "claim" \/ r.step = "claim"
       /\ \/ s.kind = "claim" /\ s.step = "claim"
          \/ s.kind \notin {"claim", "act"}
          \/ hubs[s.name].user = s.user /\ s.name \in Names

LEMMA OwnershipKept ==
    ASSUME RegistryInv, \A name \in Names : hubs'[name].user = hubs[name].user,
           \A n \in Requests : Kept(request[n], request'[n])
    PROVE  Ownership'
<1>1. \A n \in Requests : RequestOK(request[n], hubs)
  BY DEF RegistryInv, Actors
<1>2. ASSUME NEW n \in Requests, NEW name, Wrote(request[n], name)
      PROVE  Wrote(request'[n], name) /\ request'[n].user = request[n].user
  BY <1>2 DEF Wrote, Kept
<1>3. ASSUME NEW name, Rivals(request, name) PROVE Rivals(request', name)
  BY <1>2, <1>3 DEF Rivals
<1>4. ASSUME NEW name \in Names, hubs'[name].user # NoUser
      PROVE  \E n \in Requests : Wrote(request'[n], name) /\ request'[n].user = hubs'[name].user
  BY <1>2, <1>4 DEF RegistryInv, Ownership
<1>5. ASSUME NEW n \in Requests,
             (request'[n].kind = "claim" /\ request'[n].step # "claim") \/ request'[n].kind = "act"
      PROVE  \/ hubs'[request'[n].name].user = request'[n].user
             \/ Rivals(request', request'[n].name)
  <2> DEFINE r == request[n]
             s == request'[n]
  <2>1. Kept(r, s) OBVIOUS
  <2>2. CASE /\ s.kind = r.kind /\ s.user = r.user /\ s.name = r.name /\ s.saw = r.saw
             /\ r.step # "claim" \/ s.step = "claim" \/ r.kind # "claim"
    <3>1. (r.kind = "claim" /\ r.step # "claim") \/ r.kind = "act" BY <1>5, <2>2
    <3>2. r.name \in Names BY <1>1, <3>1 DEF RequestOK, IsConfigured
    <3>3. hubs[r.name].user = r.user \/ Rivals(request, r.name)
      BY <3>1 DEF RegistryInv, Ownership
    <3> QED BY <1>3, <2>2, <3>2, <3>3
  <2>3. CASE \/ s.kind = "claim" /\ s.step = "claim"
             \/ s.kind \notin {"claim", "act"}
             \/ hubs[s.name].user = s.user /\ s.name \in Names
    BY <1>5, <2>3
  <2> QED BY <2>1, <2>2, <2>3 DEF Kept
<1> QED BY <1>4, <1>5 DEF Ownership

LEMMA UnknownKept ==
    ASSUME RegistryInv, DevicesFine, BusyFine, UNCHANGED report \/ report.step # "deviceStatus"
    PROVE  UnknownIsBrief'
BY DEF RegistryInv, DevicesFine, BusyFine, UnknownIsBrief

-----------------------------------------------------------------------------
(* The steps of the HTTP handlers *)

\* One request goes on, and of the tables nothing changes hands.
LEMMA RequestStep ==
    ASSUME RegistryInv, NEW n \in Requests, NEW r \in RequestRecords,
           request' = [request EXCEPT ![n] = r], RequestOK(r, hubs'), Kept(request[n], r),
           HubsFine, DevicesFine, BusyFine,
           UNCHANGED <<report, monitor, world>>
    PROVE  RegistryInv'
<1>1. Tables' BY TablesKept
<1>2. request' \in [Requests -> RequestRecords] /\ request'[n] = r
      /\ \A m \in Requests : m # n => request'[m] = request[m]
  BY DEF RegistryInv, Actors
<1>3. Actors' BY <1>2, ReliancesKept DEF RegistryInv, Actors, WorldOK, world, BusyFine
<1>4. \A m \in Requests : Kept(request[m], request[m])
  BY DEF Kept
<1>5. Ownership' BY <1>2, <1>4, OwnershipKept DEF HubsFine
<1>6. UnknownIsBrief' BY UnknownKept
<1> QED BY <1>1, <1>3, <1>5, <1>6 DEF RegistryInv

\* A request that ends, and one that goes to another step.
LEMMA Finishing ==
    ASSUME RegistryInv, NEW n \in Requests, Finish(n), HubsFine, DevicesFine, BusyFine,
           request[n].kind # "claim" \/ request[n].step = "claim",
           UNCHANGED <<report, monitor, world>>
    PROVE  RegistryInv'
<1>1. RequestOK(Over, hubs') /\ Over \in RequestRecords BY NewIsTyped, NewIsOK
<1>2. Kept(request[n], Over) BY NewIsTyped DEF Kept
<1> QED BY <1>1, <1>2, RequestStep DEF Finish

\* The records FindHub, GetHubByProductKey and FindDeviceByID make.
LEMMA ArrivalStep ==
    ASSUME RegistryInv, NEW n \in Requests, Arrives(n), NEW r \in RequestRecords,
           request' = [request EXCEPT ![n] = r], RequestOK(r, hubs),
           \/ r.kind = "claim" /\ r.step = "claim"
           \/ r.kind \notin {"claim", "act"}
           \/ hubs[r.name].user = r.user /\ r.name \in Names,
           UNCHANGED <<tables, report, monitor, world, busy>>
    PROVE  RegistryInv'
<1>1. request[n].step = "new" BY DEF Arrives, At
<1>2. request[n].kind # "claim" BY <1>1 DEF RegistryInv, Actors, RequestOK
<1>3. Kept(request[n], r) BY <1>2 DEF Kept
<1>4. hubs' = hubs BY DEF tables
<1>5. UNCHANGED <<report, monitor, world>> /\ UNCHANGED busy /\ UNCHANGED tables OBVIOUS
<1> QED BY <1>3, <1>4, <1>5, SameTables, BusyIsFine, RequestStep

LEMMA ConfiguredIs ==
    \A h \in Hubs : IsConfigured(Configured(h)) /\ Configured(h) \in Names
                    /\ Stripped(Configured(h)) \in Names
                    /\ Stripped(Configured(h))[1] = h /\ Stripped(Configured(h))[2] = FALSE
BY RegistryAssumption DEF Configured, Stripped, IsConfigured, Names

LEMMA IdentityIs ==
    \A s \in Sockets : Stripped(Identity(s)) \in Names /\ Stripped(Identity(s))[2] = FALSE
BY DEF Identity, Stripped, Names

LEMMA FindHubStep ==
    ASSUME RegistryInv, NEW n \in Requests, FindHub(n) PROVE RegistryInv'
<1>1. PICK h \in Hubs, k \in Keys :
        request' = [request EXCEPT ![n] = [NewRequest EXCEPT
                       !.kind = "register", !.name = Configured(h), !.key = k,
                       !.step = IF Exists(Configured(h)) THEN "update" ELSE "check"]]
  BY DEF FindHub
<1> DEFINE name == Configured(h)
           step == IF Exists(name) THEN "update" ELSE "check"
           r == [NewRequest EXCEPT !.kind = "register", !.name = name, !.key = k, !.step = step]
<1>2. name \in Names /\ IsConfigured(name) BY ConfiguredIs
<1>3. step \in {"update", "check"} /\ (step = "update" => hubs[name].exists) BY DEF Exists
<1>4. request' = [request EXCEPT ![n] = r] BY <1>1
<1> HIDE DEF name, step
<1>5. r \in RequestRecords /\ r.kind = "register" /\ r.name = name /\ r.key = k /\ r.step = step
  BY <1>2, <1>3, NewIsTyped DEF RequestRecords
<1>6. RequestOK(r, hubs) BY <1>2, <1>3, <1>5 DEF RequestOK
<1>7. Arrives(n) /\ UNCHANGED <<tables, report, monitor, world, busy>> BY DEF FindHub
<1> HIDE DEF r
<1> QED BY <1>4, <1>5, <1>6, <1>7, ArrivalStep

\* A request of the same kind at another step.
LEMMA SteppedIs ==
    ASSUME RegistryInv, NEW n \in Requests, NEW s \in {"insert", "devices"},
           GoTo(n, s)
    PROVE  \E r \in RequestRecords :
              /\ request' = [request EXCEPT ![n] = r] /\ r.step = s
              /\ r.kind = request[n].kind /\ r.user = request[n].user /\ r.key = request[n].key
              /\ r.name = request[n].name /\ r.saw = request[n].saw
<1>1. request[n] \in RequestRecords BY DEF RegistryInv, Actors
<1> DEFINE r == [request[n] EXCEPT !.step = s]
<1>2. r \in RequestRecords /\ r.step = s /\ r.kind = request[n].kind /\ r.user = request[n].user
      /\ r.key = request[n].key /\ r.name = request[n].name /\ r.saw = request[n].saw
  BY <1>1 DEF RequestRecords
<1>3. request' = [request EXCEPT ![n] = r] BY DEF GoTo
<1> QED BY <1>2, <1>3

LEMMA CheckKeyStep ==
    ASSUME RegistryInv, NEW n \in Requests, CheckKey(n) PROVE RegistryInv'
<1>1. request[n].step = "check" /\ UNCHANGED <<report, monitor, world>>
      /\ UNCHANGED tables /\ UNCHANGED busy
  BY DEF CheckKey, At
<1>2. request[n].kind = "register" /\ request[n].key \in Keys /\ IsConfigured(request[n].name)
  BY <1>1 DEF RegistryInv, Actors, RequestOK
<1>3. HubsFine /\ DevicesFine /\ BusyFine BY <1>1, SameTables, BusyIsFine
<1>4. CASE Finish(n) BY <1>1, <1>2, <1>3, <1>4, Finishing
<1>5. CASE GoTo(n, "insert")
  <2>1. PICK r \in RequestRecords :
              /\ request' = [request EXCEPT ![n] = r] /\ r.step = "insert"
              /\ r.kind = request[n].kind /\ r.user = request[n].user /\ r.key = request[n].key
              /\ r.name = request[n].name /\ r.saw = request[n].saw
    BY <1>5, SteppedIs
  <2>2. RequestOK(r, hubs') BY <1>2, <2>1 DEF RequestOK
  <2>3. Kept(request[n], r) BY <1>2, <2>1 DEF Kept
  <2> QED BY <1>1, <1>3, <2>1, <2>2, <2>3, RequestStep
<1> QED BY <1>4, <1>5 DEF CheckKey

\* A registration writes its key into a row, new or old, and leaves who has it.
LEMMA RegisteredRow ==
    ASSUME RegistryInv, NEW name, IsConfigured(name), NEW k \in Keys, NEW row \in Rows,
           row.exists, row.user = hubs[name].user, row.auto => row.user = NoUser,
           hubs' = [hubs EXCEPT ![name] = Registered(row, k)]
    PROVE  HubsFine
<1>1. name \in Names /\ hubs \in [Names -> Rows] BY DEF IsConfigured, RegistryInv, Tables
<1> DEFINE new == Registered(row, k)
<1>2. new \in Rows /\ new.exists /\ new.key = k /\ new.user = row.user /\ new.auto = row.auto
  BY DEF Registered, Rows
<1>3. hubs' = [hubs EXCEPT ![name] = new] OBVIOUS
<1> HIDE DEF new
<1>4. hubs' \in [Names -> Rows] /\ hubs'[name] = new
      /\ \A other \in Names : other # name => hubs'[other] = hubs[other]
  BY <1>1, <1>2, <1>3
<1>5. k # NoKey BY RegistryAssumption
<1>6. RowOK(hubs', name) BY <1>2, <1>4, <1>5 DEF RowOK
<1>7. \A other \in Names : other # name => RowOK(hubs', other)
  BY <1>4 DEF RegistryInv, Tables, RowOK
<1> QED BY <1>1, <1>2, <1>4, <1>6, <1>7 DEF HubsFine

LEMMA SameDevices == ASSUME RegistryInv, UNCHANGED devices PROVE DevicesFine
BY DEF RegistryInv, Tables, DevicesFine

LEMMA UpdateHubStep ==
    ASSUME RegistryInv, NEW n \in Requests, UpdateHub(n) PROVE RegistryInv'
<1> DEFINE name == request[n].name
           k == request[n].key
<1>1. request[n].step = "update" /\ UNCHANGED <<report, monitor, world>> /\ Finish(n)
  BY DEF UpdateHub, At
<1>2. request[n].kind = "register" /\ k \in Keys /\ IsConfigured(name) /\ hubs[name].exists
  BY <1>1 DEF RegistryInv, Actors, RequestOK
<1>3. CASE /\ hubs' = [hubs EXCEPT ![name] = Registered(@, k)]
           /\ Succeeds /\ UNCHANGED devices
  <2>1. name \in Names /\ hubs[name] \in Rows /\ (hubs[name].auto => hubs[name].user = NoUser)
    BY <1>2 DEF IsConfigured, RegistryInv, Tables, RowOK
  <2>2. HubsFine
    <3> DEFINE row == hubs[name]
    <3>1. hubs' = [hubs EXCEPT ![name] = Registered(row, k)] BY <1>3
    <3> QED BY <1>2, <2>1, <3>1, RegisteredRow
  <2> QED BY <1>1, <1>2, <1>3, <2>2, SameDevices, BusyIsFine, Finishing
<1>4. CASE Locked BY <1>1, <1>2, <1>4, BusyIsFine, SameTables, Finishing
<1> QED BY <1>3, <1>4 DEF UpdateHub

LEMMA InsertHubStep ==
    ASSUME RegistryInv, NEW n \in Requests, InsertHub(n) PROVE RegistryInv'
<1> DEFINE name == request[n].name
           k == request[n].key
           row == [NoRow EXCEPT !.exists = TRUE]
<1>1. request[n].step = "insert" /\ UNCHANGED <<report, monitor, world>> /\ Finish(n)
  BY DEF InsertHub, At
<1>2. request[n].kind = "register" /\ k \in Keys /\ IsConfigured(name)
  BY <1>1 DEF RegistryInv, Actors, RequestOK
<1>3. CASE /\ ~Exists(name) /\ hubs' = [hubs EXCEPT ![name] = Registered(row, k)]
           /\ Succeeds /\ UNCHANGED devices
  <2>1. NoRow \in Rows /\ NoRow.user = NoUser BY DEF NoRow, Rows
  <2>2. row \in Rows /\ row.exists /\ row.user = NoUser BY <2>1 DEF Rows
  <2>3. hubs[name].user = NoUser
    BY <1>2, <1>3, <2>1 DEF IsConfigured, Exists, RegistryInv, Tables, RowOK
  <2> HIDE DEF row
  <2>4. HubsFine BY <1>2, <1>3, <2>2, <2>3, RegisteredRow
  <2> QED BY <1>1, <1>2, <1>3, <2>4, SameDevices, BusyIsFine, Finishing
<1>4. CASE Succeeds /\ UNCHANGED tables
  BY <1>1, <1>2, <1>4, BusyIsFine, SameTables, Finishing
<1>5. CASE Locked BY <1>1, <1>2, <1>5, BusyIsFine, SameTables, Finishing
<1> QED BY <1>3, <1>4, <1>5 DEF InsertHub

\* An answered request that is granted stays what it was.
LEMMA GrantedIs ==
    ASSUME NEW r \in RequestRecords
    PROVE  /\ Granted(r) \in RequestRecords /\ Granted(r).step = "ok"
           /\ Granted(r).kind = r.kind /\ Granted(r).user = r.user
           /\ Granted(r).name = r.name /\ Granted(r).saw = r.saw
BY DEF Granted, RequestRecords

LEMMA GetHubByProductKeyStep ==
    ASSUME RegistryInv, NEW n \in Requests, GetHubByProductKey(n) PROVE RegistryInv'
<1> DEFINE claim(u, name) ==
              [NewRequest EXCEPT !.kind = "claim", !.user = u, !.step = "claim",
                                 !.name = name, !.saw = hubs[name].user]
<1>1. Arrives(n) /\ UNCHANGED <<tables, report, monitor, world, busy>>
  BY DEF GetHubByProductKey
<1>2. CASE request' = [request EXCEPT ![n] = Over]
  BY <1>1, <1>2, NewIsTyped, NewIsOK, ArrivalStep
<1>3. ASSUME NEW u \in Users, NEW name \in Names, Exists(name), hubs[name].key \in Keys,
             \/ /\ hubs[name].user = u
                /\ request' = [request EXCEPT ![n] = Granted(claim(u, name))]
             \/ /\ hubs[name].user # u /\ MayClaim(hubs[name])
                /\ request' = [request EXCEPT ![n] = claim(u, name)]
      PROVE  RegistryInv'
  <2> DEFINE saw == hubs[name].user
             c == [NewRequest EXCEPT !.kind = "claim", !.user = u, !.step = "claim",
                                     !.name = name, !.saw = saw]
  <2>1. saw \in Users \cup {NoUser} /\ IsConfigured(name) /\ hubs[name].exists
    BY <1>3, RegistryAssumption DEF RegistryInv, Tables, RowOK, Rows, Exists
  <2> HIDE DEF saw
  <2>2. c \in RequestRecords /\ c.kind = "claim" /\ c.user = u /\ c.step = "claim"
        /\ c.name = name /\ c.saw = saw
    BY <2>1, NewIsTyped DEF RequestRecords
  <2>3. c = claim(u, name) BY DEF saw
  <2> HIDE DEF c, claim
  <2>4. CASE hubs[name].user = u /\ request' = [request EXCEPT ![n] = Granted(c)]
    <3> DEFINE g == Granted(c)
    <3>1. g \in RequestRecords /\ g.kind = "claim" /\ g.user = u /\ g.step = "ok" /\ g.name = name
      BY <2>2, GrantedIs
    <3>2. request' = [request EXCEPT ![n] = g] BY <2>4
    <3> HIDE DEF g
    <3>3. RequestOK(g, hubs) BY <2>1, <3>1 DEF RequestOK
    <3>4. hubs[g.name].user = g.user /\ g.name \in Names BY <2>4, <3>1
    <3> QED BY <1>1, <3>1, <3>2, <3>3, <3>4, ArrivalStep
  <2>5. CASE MayClaim(hubs[name]) /\ request' = [request EXCEPT ![n] = c]
    <3>1. saw = NoUser BY <2>5 DEF MayClaim, RegistryInv, Tables, RowOK, saw
    <3>2. RequestOK(c, hubs) BY <2>1, <2>2, <3>1 DEF RequestOK
    <3> QED BY <1>1, <2>2, <2>5, <3>2, ArrivalStep
  <2> QED BY <1>3, <2>3, <2>4, <2>5
<1> QED BY <1>2, <1>3 DEF GetHubByProductKey

LEMMA UpdateDevicesUserIDStep ==
    ASSUME RegistryInv, NEW n \in Requests, UpdateDevicesUserID(n) PROVE RegistryInv'
<1> DEFINE r == Granted(request[n])
           name == request[n].name
<1>1. request[n].step = "devices" /\ UNCHANGED <<report, monitor, world>>
      /\ request[n] \in RequestRecords /\ request' = [request EXCEPT ![n] = r]
  BY DEF UpdateDevicesUserID, At, Grant, RegistryInv, Actors
<1>2. RequestOK(request[n], hubs) /\ request[n].kind = "claim" /\ name \in Names
  BY <1>1 DEF RegistryInv, Actors, RequestOK, IsConfigured
<1>3. /\ r \in RequestRecords /\ r.step = "ok" /\ r.kind = "claim" /\ r.user = request[n].user
      /\ r.name = name /\ r.saw = request[n].saw
  BY <1>1, <1>2, GrantedIs
<1> HIDE DEF r
<1>4. Kept(request[n], r) BY <1>1, <1>2, <1>3 DEF Kept
<1>5. HubsFine => RequestOK(r, hubs')
  BY <1>2, <1>3 DEF RequestOK, HubsFine, IsConfigured
<1>6. CASE /\ devices' = [devices EXCEPT ![name] =
                  [d \in Devices |-> IF @[d] = "none" THEN "none" ELSE "claimed"]]
           /\ Succeeds /\ UNCHANGED hubs
  <2>1. DevicesFine
    BY <1>2, <1>6 DEF RegistryInv, Tables, DevicesFine, Statuses
  <2>2. HubsFine BY <1>6 DEF RegistryInv, Tables, HubsFine
  <2> QED BY <1>1, <1>3, <1>4, <1>5, <1>6, <2>1, <2>2, BusyIsFine, RequestStep
<1>7. CASE Locked
  BY <1>1, <1>3, <1>4, <1>5, <1>7, BusyIsFine, SameTables, RequestStep
<1> QED BY <1>6, <1>7 DEF UpdateDevicesUserID

LEMMA FindDeviceByIDStep ==
    ASSUME RegistryInv, NEW n \in Requests, FindDeviceByID(n) PROVE RegistryInv'
<1>1. Arrives(n) /\ UNCHANGED <<tables, report, monitor, world, busy>>
  BY DEF FindDeviceByID
<1>2. CASE request' = [request EXCEPT ![n] = Over]
  BY <1>1, <1>2, NewIsTyped, NewIsOK, ArrivalStep
<1>3. ASSUME NEW u \in Users, NEW d \in Devices, NEW name \in Names, IsOwner(hubs[name], u),
             request' = [request EXCEPT ![n] =
                [NewRequest EXCEPT !.kind = "act", !.user = u, !.device = d,
                                   !.name = name, !.step = "send"]]
      PROVE  RegistryInv'
  <2> DEFINE a == [NewRequest EXCEPT !.kind = "act", !.user = u, !.device = d,
                                     !.name = name, !.step = "send"]
  <2>1. a \in RequestRecords /\ a.kind = "act" /\ a.user = u /\ a.step = "send" /\ a.name = name
    BY NewIsTyped DEF RequestRecords
  <2>2. request' = [request EXCEPT ![n] = a] BY <1>3
  <2> HIDE DEF a
  <2>3. RequestOK(a, hubs) BY <2>1 DEF RequestOK
  <2>4. hubs[a.name].user = a.user BY <1>3, <2>1 DEF IsOwner
  <2> QED BY <1>1, <2>1, <2>2, <2>3, <2>4, ArrivalStep
<1> QED BY <1>2, <1>3 DEF FindDeviceByID

LEMMA SendDeviceCommandStep ==
    ASSUME RegistryInv, NEW n \in Requests, SendDeviceCommand(n) PROVE RegistryInv'
<1> DEFINE r == Granted(request[n])
<1>1. request[n].step = "send" /\ UNCHANGED <<report, monitor, world>> /\ UNCHANGED tables
      /\ UNCHANGED busy /\ request[n] \in RequestRecords
  BY DEF SendDeviceCommand, At, RegistryInv, Actors
<1>2. RequestOK(request[n], hubs) /\ request[n].kind = "act"
  BY <1>1 DEF RegistryInv, Actors, RequestOK
<1>3. HubsFine /\ DevicesFine /\ BusyFine BY <1>1, SameTables, BusyIsFine
<1>4. CASE Finish(n) BY <1>1, <1>2, <1>3, <1>4, Finishing
<1>5. CASE Grant(n)
  <2>1. request' = [request EXCEPT ![n] = r] BY <1>5 DEF Grant
  <2>2. /\ r \in RequestRecords /\ r.step = "ok" /\ r.kind = "act" /\ r.user = request[n].user
        /\ r.name = request[n].name /\ r.saw = request[n].saw
    BY <1>1, <1>2, GrantedIs
  <2> HIDE DEF r
  <2>3. Kept(request[n], r) /\ RequestOK(r, hubs')
    BY <1>1, <1>2, <2>2 DEF Kept, RequestOK
  <2> QED BY <1>1, <1>3, <2>1, <2>2, <2>3, RequestStep
<1> QED BY <1>4, <1>5 DEF SendDeviceCommand

\* A claim is written: who had the hub, or was told so, has it or has a rival.
LEMMA ClaimHubStep ==
    ASSUME RegistryInv, NEW n \in Requests, ClaimHub(n) PROVE RegistryInv'
<1> DEFINE name == request[n].name
           u == request[n].user
<1>1. request[n].step = "claim" /\ UNCHANGED <<report, monitor, world>>
      /\ request[n] \in RequestRecords
  BY DEF ClaimHub, At, RegistryInv, Actors
<1>2. /\ request[n].kind = "claim" /\ request[n].saw = NoUser /\ u \in Users
      /\ IsConfigured(name) /\ name \in Names /\ hubs[name].exists
  BY <1>1 DEF RegistryInv, Actors, RequestOK, IsConfigured
<1>3. CASE Locked /\ Finish(n)
  BY <1>1, <1>2, <1>3, BusyIsFine, SameTables, Finishing
<1>4. CASE /\ hubs' = [hubs EXCEPT ![name].user = u, ![name].auto = FALSE]
           /\ GoTo(n, "devices") /\ Succeeds /\ UNCHANGED devices
  <2>1. PICK r \in RequestRecords :
              /\ request' = [request EXCEPT ![n] = r] /\ r.step = "devices"
              /\ r.kind = request[n].kind /\ r.user = u /\ r.key = request[n].key
              /\ r.name = name /\ r.saw = request[n].saw
    BY <1>4, SteppedIs
  <2>2. request' \in [Requests -> RequestRecords] /\ request'[n] = r
        /\ \A m \in Requests : m # n => request'[m] = request[m]
    BY <2>1 DEF RegistryInv, Actors
  <2>3. /\ hubs' \in [Names -> Rows] /\ hubs'[name].user = u /\ hubs'[name].auto = FALSE
        /\ hubs'[name].exists = hubs[name].exists /\ hubs'[name].key = hubs[name].key
        /\ \A other \in Names : other # name => hubs'[other] = hubs[other]
    <3> DEFINE row == [hubs[name] EXCEPT !.user = u, !.auto = FALSE]
    <3>1. hubs \in [Names -> Rows] /\ hubs[name] \in Rows
      BY <1>2 DEF RegistryInv, Tables
    <3>2. /\ row \in Rows /\ row.user = u /\ row.auto = FALSE
          /\ row.exists = hubs[name].exists /\ row.key = hubs[name].key
      BY <1>2, <3>1 DEF Rows
    <3>3. hubs' = [hubs EXCEPT ![name] = row]
      BY <1>2, <1>4, <3>1
    <3> HIDE DEF row
    <3> QED BY <1>2, <3>1, <3>2, <3>3
  <2>4. ASSUME NEW other \in Names
        PROVE  RowOK(hubs', other) /\ hubs'[other].exists = hubs[other].exists
    <3>1. RowOK(hubs, other) BY DEF RegistryInv, Tables
    <3>2. CASE other # name BY <2>3, <3>1, <3>2 DEF RowOK
    <3>3. CASE other = name
      <4>1. hubs'[name].exists /\ hubs[name].exists BY <1>2, <2>3
      <4> HIDE DEF name, u
      <4> QED BY <1>2, <2>3, <3>1, <3>3, <4>1 DEF RowOK
    <3> QED BY <3>2, <3>3
  <2>5. Tables' BY <1>4, <2>3, <2>4 DEF RegistryInv, Tables
  <2>6. ASSUME NEW m \in Requests PROVE RequestOK(request'[m], hubs')
    <3>1. RequestOK(request[m], hubs') BY <2>4 DEF RegistryInv, Actors, RequestOK, IsConfigured
    <3>2. RequestOK(r, hubs') BY <1>2, <2>1, <2>4 DEF RequestOK
    <3> QED BY <2>2, <3>1, <3>2
  <2>7. RunOK(report, hubs') /\ RunOK(monitor, hubs')
    BY <2>4 DEF RegistryInv, Actors, RunOK
  <2>8. BusyFine BY <1>4, BusyIsFine
  <2>9. Actors' BY <1>1, <2>2, <2>6, <2>7, <2>8 DEF RegistryInv, Actors, WorldOK, world, BusyFine
  <2>10. Wrote(r, name) BY <1>2, <2>1 DEF Wrote
  <2>11. ASSUME NEW m \in Requests, NEW other, Wrote(request[m], other)
         PROVE  m # n /\ request'[m] = request[m]
    BY <1>1, <2>2, <2>11 DEF Wrote
  <2>12. \A other : Rivals(request, other) => Rivals(request', other)
    BY <2>11 DEF Rivals
  <2>13. ASSUME NEW other \in Names, hubs'[other].user # NoUser
         PROVE  \E m \in Requests : Wrote(request'[m], other)
                                    /\ request'[m].user = hubs'[other].user
    <3>1. CASE other = name BY <2>1, <2>2, <2>3, <2>10, <3>1
    <3>2. CASE other # name
      BY <2>3, <2>11, <2>13, <3>2 DEF RegistryInv, Ownership
    <3> QED BY <3>1, <3>2
  <2>14. ASSUME NEW m \in Requests,
                (request'[m].kind = "claim" /\ request'[m].step # "claim") \/ request'[m].kind = "act"
         PROVE  \/ hubs'[request'[m].name].user = request'[m].user
                \/ Rivals(request', request'[m].name)
    <3>1. CASE m = n BY <2>1, <2>2, <2>3, <3>1
    <3>2. CASE m # n
      <4> DEFINE s == request[m]
      <4>1. request'[m] = s BY <2>2, <3>2
      <4>2. s.name \in Names /\ s.user # NoUser
        BY <2>14, <4>1, RegistryAssumption DEF RegistryInv, Actors, RequestOK, IsConfigured
      <4>3. hubs[s.name].user = s.user \/ Rivals(request, s.name)
        BY <2>14, <4>1 DEF RegistryInv, Ownership
      <4> HIDE DEF s
      <4>4. CASE s.name = name /\ hubs[name].user = s.user /\ s.user # u
        <5>1. PICK j \in Requests : Wrote(request[j], name) /\ request[j].user = s.user
          BY <1>2, <4>2, <4>4 DEF RegistryInv, Ownership
        <5>2. Wrote(request'[j], name) /\ request'[j].user = s.user BY <2>11, <5>1
        <5>3. Wrote(request'[n], name) /\ request'[n].user = u BY <2>1, <2>2, <2>10
        <5>4. Rivals(request', name) BY <4>4, <5>2, <5>3 DEF Rivals
        <5> QED BY <4>1, <4>4, <5>4
      <4>5. CASE ~(s.name = name /\ hubs[name].user = s.user /\ s.user # u)
        BY <2>3, <2>12, <4>1, <4>2, <4>3, <4>5
      <4> QED BY <4>4, <4>5
    <3> QED BY <3>1, <3>2
  <2>15. Ownership' BY <2>13, <2>14 DEF Ownership
  <2>16. UnknownIsBrief' BY <1>1, <1>4, <2>8, SameDevices, UnknownKept
  <2> QED BY <2>5, <2>9, <2>15, <2>16 DEF RegistryInv
<1> QED BY <1>3, <1>4 DEF ClaimHub

-----------------------------------------------------------------------------
(* The steps of the broker's worker goroutine and of the monitor *)

LEMMA SameWorld == ASSUME RegistryInv, UNCHANGED world PROVE WorldOK'
BY DEF RegistryInv, Actors, WorldOK, world

\* A goroutine goes on, and of the tables nothing changes hands.
LEMMA RunStep ==
    ASSUME RegistryInv, HubsFine, DevicesFine, BusyFine, UNCHANGED request,
           \/ UNCHANGED report
           \/ /\ report' \in RunRecords(Devices) /\ RunOK(report', hubs') /\ OfHub(report')
              /\ report.step # "deviceStatus",
           \/ UNCHANGED monitor
           \/ monitor' \in RunRecords(Sockets) /\ RunOK(monitor', hubs'),
           WorldOK'
    PROVE  RegistryInv'
<1>1. Tables' BY TablesKept
<1>2. Actors' BY ReliancesKept DEF RegistryInv, Actors, BusyFine
<1>3. Ownership'
  <2>1. \A n \in Requests : Kept(request[n], request'[n]) BY DEF Kept
  <2> QED BY <2>1, OwnershipKept DEF HubsFine
<1>4. UnknownIsBrief' BY UnknownKept
<1> QED BY <1>1, <1>2, <1>3, <1>4 DEF RegistryInv

\* Both lookups, of a goroutine that is sound, leave it sound.
LEMMA LooksRun ==
    ASSUME RegistryInv, NEW S, NEW g \in RunRecords(S), RunOK(g, hubs), NEW next,
           Looks(g, next)
    PROVE  /\ next \in RunRecords(S) /\ RunOK(next, hubs) /\ next.name = g.name
           /\ g.step \in {"ensure", "status"}
<1>1. g.step \in {"ensure", "status"} /\ g.name \in Names /\ g.name[2] = FALSE
  BY DEF Looks, RunOK
<1>2. ActualName(g.name) \in Names
  BY <1>1 DEF ActualName, Alternative, Names
<1>3. CASE g.step = "ensure"
  <2>1. g.actual \in {<<>>, g.name} BY <1>3 DEF RunOK
  <2>2. \/ next = [g EXCEPT !.step = "insert"] \/ next = [g EXCEPT !.step = "status"]
        \/ g.actual # <<>> /\ next = [g EXCEPT !.step = "set"]
    BY <1>3 DEF Looks, Ensured
  <2>3. next \in RunRecords(S) /\ next.name = g.name /\ next.actual = g.actual
        /\ next.step \in {"insert", "status", "set"} /\ (next.step = "set" => g.actual # <<>>)
    BY <2>2 DEF RunRecords
  <2>4. RunOK(next, hubs) BY <1>1, <2>1, <2>3 DEF RunOK
  <2> QED BY <1>1, <2>3, <2>4
<1>4. CASE g.step = "status"
  <2> DEFINE a == ActualName(g.name)
  <2>1. \/ next = [g EXCEPT !.step = "set", !.actual = a]
        \/ next = [g EXCEPT !.step = "ensure", !.actual = g.name]
    BY <1>4 DEF Looks
  <2> HIDE DEF a
  <2>2. a \in Names BY <1>2 DEF a
  <2>3. next \in RunRecords(S) /\ next.name = g.name /\ next.actual \in Names
        /\ next.step \in {"set", "ensure"} /\ (next.step = "ensure" => next.actual = g.name)
    BY <1>1, <2>1, <2>2 DEF RunRecords
  <2>4. RunOK(next, hubs) BY <1>1, <2>3 DEF RunOK
  <2> QED BY <1>1, <2>3, <2>4
<1> QED BY <1>1, <1>3, <1>4

\* A row that EnsureHubExists makes, or that is set online, keeps its user.
LEMMA EnsuredRow ==
    ASSUME RegistryInv, NEW name \in Names, name[2] = FALSE, UNCHANGED devices,
           hubs' = [hubs EXCEPT ![name] = Ensure(@)]
    PROVE  HubsFine
<1> DEFINE row == Ensure(hubs[name])
<1>1. hubs[name] \in Rows /\ RowOK(hubs, name) BY DEF RegistryInv, Tables
<1>2. NoRow \in Rows /\ NoRow.key = NoKey /\ NoRow.user = NoUser BY DEF NoRow, Rows
<1>3. /\ row \in Rows /\ row.exists /\ row.user = hubs[name].user /\ row.key = hubs[name].key
      /\ row.auto => row.user = NoUser
  <2>1. CASE hubs[name].exists BY <1>1, <2>1 DEF Ensure, RowOK
  <2>2. CASE ~hubs[name].exists
    <3> DEFINE new == [NoRow EXCEPT !.exists = TRUE]
    <3>1. new \in Rows /\ new.exists /\ new.user = NoUser /\ new.key = NoKey
      BY <1>2 DEF Rows
    <3>2. row = new /\ hubs[name] = NoRow BY <1>1, <2>2 DEF Ensure, RowOK
    <3> HIDE DEF row, new
    <3> QED BY <1>2, <3>1, <3>2
  <2> QED BY <2>1, <2>2
<1>4. hubs' = [hubs EXCEPT ![name] = row] OBVIOUS
<1> HIDE DEF row
<1>5. hubs' \in [Names -> Rows] /\ hubs'[name] = row
      /\ \A other \in Names : other # name => hubs'[other] = hubs[other]
  BY <1>3, <1>4 DEF RegistryInv, Tables
<1>6. RowOK(hubs', name) BY <1>1, <1>3, <1>5 DEF RowOK, IsConfigured
<1>7. \A other \in Names : other # name => RowOK(hubs', other)
  BY <1>5 DEF RegistryInv, Tables, RowOK
<1> QED BY <1>3, <1>5, <1>6, <1>7 DEF HubsFine

LEMMA OnlineRow ==
    ASSUME RegistryInv, NEW name \in Names, UNCHANGED devices,
           hubs' = [hubs EXCEPT ![name] = SetOnline(@)]
    PROVE  HubsFine
<1> DEFINE row == SetOnline(hubs[name])
<1>1. hubs[name] \in Rows /\ RowOK(hubs, name) BY DEF RegistryInv, Tables
<1>2. /\ row \in Rows /\ row.exists = hubs[name].exists /\ row.user = hubs[name].user
      /\ row.key = hubs[name].key /\ row.auto = hubs[name].auto
      /\ ~row.exists => row = hubs[name]
  BY <1>1 DEF SetOnline, Rows
<1>3. hubs' = [hubs EXCEPT ![name] = row] OBVIOUS
<1> HIDE DEF row
<1>4. hubs' \in [Names -> Rows] /\ hubs'[name] = row
      /\ \A other \in Names : other # name => hubs'[other] = hubs[other]
  BY <1>2, <1>3 DEF RegistryInv, Tables
<1>5. RowOK(hubs', name) BY <1>1, <1>2, <1>4 DEF RowOK
<1>6. \A other \in Names : other # name => RowOK(hubs', other)
  BY <1>4 DEF RegistryInv, Tables, RowOK
<1> QED BY <1>2, <1>4, <1>5, <1>6 DEF HubsFine

LEMMA WritesRun ==
    ASSUME RegistryInv, NEW S, NEW g \in RunRecords(S), RunOK(g, hubs), NEW next, NEW done,
           Writes(g, next, done), done \in RunRecords(S), RunOK(done, hubs')
    PROVE  /\ next \in RunRecords(S) /\ RunOK(next, hubs') /\ next.name \in {g.name, done.name}
           /\ g.step \in {"insert", "set"}
           /\ HubsFine /\ DevicesFine /\ BusyFine
<1>1. CASE Locked /\ next = done /\ g.step \in {"insert", "set"}
  BY <1>1, BusyIsFine, SameTables
<1>2. CASE /\ g.step = "insert" /\ hubs' = [hubs EXCEPT ![g.name] = Ensure(@)]
           /\ next = Ensured(g) /\ Succeeds /\ UNCHANGED devices
  <2>1. g.name \in Names /\ g.name[2] = FALSE /\ g.actual \in {<<>>, g.name}
    BY <1>2 DEF RunOK
  <2>2. HubsFine BY <1>2, <2>1, EnsuredRow
  <2>3. \/ next = [g EXCEPT !.step = "status"]
        \/ g.actual # <<>> /\ next = [g EXCEPT !.step = "set"]
    BY <1>2 DEF Ensured
  <2>4. next \in RunRecords(S) /\ next.name = g.name /\ next.actual = g.actual
        /\ next.step \in {"status", "set"} /\ (next.step = "set" => g.actual # <<>>)
    BY <2>3 DEF RunRecords
  <2>5. RunOK(next, hubs') BY <2>1, <2>4 DEF RunOK
  <2>6. DevicesFine /\ BusyFine BY <1>2, SameDevices, BusyIsFine
  <2> QED BY <1>2, <2>2, <2>4, <2>5, <2>6
<1>3. CASE /\ g.step = "set" /\ hubs' = [hubs EXCEPT ![g.actual] = SetOnline(@)]
           /\ Succeeds /\ UNCHANGED devices /\ next = done
  <2>1. g.actual \in Names BY <1>3 DEF RunOK
  <2>2. HubsFine BY <1>3, <2>1, OnlineRow
  <2> QED BY <1>3, <2>2, SameDevices, BusyIsFine
<1> QED BY <1>1, <1>2, <1>3 DEF Writes

-----------------------------------------------------------------------------
(* ProcessDeviceListResponse *)

LEMMA IdleIs ==
    ASSUME NEW S
    PROVE  /\ Idle \in RunRecords(S) /\ Idle.step = "idle" /\ Idle.left = {}
           /\ Idle.name = <<>> /\ Idle.actual = <<>>
BY DEF Idle, RunRecords

LEMMA IdleIsOK == OfHub(Idle) /\ \A rows : RunOK(Idle, rows)
BY IdleIs DEF RunOK, OfHub

\* What is left of a list: nothing, or the devices to be created under the hub.
LEMMA RemainingIs ==
    ASSUME NEW left \in SUBSET Devices, report.name \in Names,
           report.name[1] \in Hubs, report.name[2] = FALSE, NEW rows, rows[report.name].exists
    PROVE  /\ Remaining(left) \in RunRecords(Devices) /\ RunOK(Remaining(left), rows)
           /\ OfHub(Remaining(left))
<1> DEFINE r == [Idle EXCEPT !.step = "create", !.name = report.name, !.left = left]
<1>1. r \in RunRecords(Devices) /\ r.step = "create" /\ r.name = report.name
  BY IdleIs DEF RunRecords
<1>2. Remaining(left) = Idle \/ Remaining(left) = r BY DEF Remaining
<1> HIDE DEF r
<1>3. RunOK(r, rows) /\ OfHub(r) BY <1>1 DEF RunOK, OfHub
<1> QED BY <1>1, <1>2, <1>3, IdleIs, IdleIsOK

LEMMA ReceiveListStep == ASSUME RegistryInv, ReceiveList PROVE RegistryInv'
<1>1. PICK h \in connected : report' = Begin(Configured(h)) BY DEF ReceiveList
<1> DEFINE name == Stripped(Configured(h))
           r == [Idle EXCEPT !.step = "ensure", !.name = name]
<1>2. name \in Names /\ name[1] \in Hubs /\ name[2] = FALSE
  BY ConfiguredIs DEF RegistryInv, Actors, WorldOK
<1>3. report' = r BY <1>1 DEF Begin
<1> HIDE DEF name
<1>4. r \in RunRecords(Devices) /\ r.step = "ensure" /\ r.name = name /\ r.actual = <<>>
  BY <1>2, IdleIs DEF RunRecords
<1> HIDE DEF r
<1>5. RunOK(r, hubs) /\ OfHub(r) BY <1>2, <1>4 DEF RunOK, OfHub
<1>6. /\ report.step = "idle" /\ hubs' = hubs /\ UNCHANGED tables /\ UNCHANGED busy
      /\ UNCHANGED request /\ UNCHANGED monitor /\ connected' = connected
      /\ working' = working /\ reports' = reports + 1 /\ reports < MaxReports
  BY DEF ReceiveList, tables
<1>7. WorldOK' BY <1>6, RegistryAssumption DEF RegistryInv, Actors, WorldOK
<1> QED BY <1>3, <1>4, <1>5, <1>6, <1>7, SameTables, BusyIsFine, RunStep

LEMMA RegisterWorkerStep == ASSUME RegistryInv, RegisterWorker PROVE RegistryInv'
<1> DEFINE done == [report EXCEPT !.step = "find", !.actual = <<>>]
<1>1. /\ report \in RunRecords(Devices) /\ RunOK(report, hubs) /\ OfHub(report)
  BY DEF RegistryInv, Actors
<1>2. UNCHANGED request /\ UNCHANGED monitor /\ UNCHANGED world
  BY DEF RegisterWorker, world
<1>3. CASE Looks(report, report') /\ UNCHANGED <<tables, busy>>
  <2>1. hubs' = hubs /\ UNCHANGED tables /\ UNCHANGED busy BY <1>3 DEF tables
  <2>2. /\ report' \in RunRecords(Devices) /\ RunOK(report', hubs) /\ report'.name = report.name
        /\ report.step \in {"ensure", "status"}
    BY <1>1, <1>3, LooksRun
  <2>3. HubsFine /\ DevicesFine /\ BusyFine BY <2>1, SameTables, BusyIsFine
  <2>4. report.step # "deviceStatus" /\ RunOK(report', hubs') /\ OfHub(report')
    BY <1>1, <2>1, <2>2 DEF OfHub
  <2> QED BY <1>2, <2>2, <2>3, <2>4, SameWorld, RunStep
<1>4. CASE Writes(report, report', done)
  <2>1. report.step # "idle" BY <1>4 DEF Writes
  <2>2. report.name \in Names /\ report.name[1] \in Hubs /\ report.name[2] = FALSE
    BY <1>1, <2>1 DEF RunOK, OfHub
  <2>3. done \in RunRecords(Devices) /\ done.step = "find" /\ done.name = report.name
    BY <1>1 DEF RunRecords
  <2> HIDE DEF done
  <2>4. RunOK(done, hubs') BY <2>2, <2>3 DEF RunOK
  <2>5. /\ report' \in RunRecords(Devices) /\ RunOK(report', hubs')
        /\ report'.name \in {report.name, done.name} /\ report.step \in {"insert", "set"}
        /\ HubsFine /\ DevicesFine /\ BusyFine
    BY <1>1, <1>4, <2>3, <2>4, WritesRun
  <2>6. report.step # "deviceStatus" /\ OfHub(report') BY <2>2, <2>3, <2>5 DEF OfHub
  <2> QED BY <1>2, <2>5, <2>6, SameWorld, RunStep
<1> QED BY <1>3, <1>4 DEF RegisterWorker

LEMMA GetHubStep == ASSUME RegistryInv, GetHub PROVE RegistryInv'
<1>1. /\ report.step = "find" /\ hubs' = hubs /\ UNCHANGED tables /\ UNCHANGED busy
      /\ UNCHANGED request /\ UNCHANGED monitor /\ UNCHANGED world
  BY DEF GetHub, tables, world
<1>2. /\ report \in RunRecords(Devices) /\ RunOK(report, hubs) /\ OfHub(report)
  BY DEF RegistryInv, Actors
<1>3. report.name \in Names /\ report.name[1] \in Hubs /\ report.name[2] = FALSE
  BY <1>1, <1>2 DEF RunOK, OfHub
<1>4. report' \in RunRecords(Devices) /\ RunOK(report', hubs') /\ OfHub(report')
  <2>1. CASE hubs[report.name].exists
    <3>1. Lists[report.name[1]] \in SUBSET Devices
      BY <1>3, RegistryAssumption
    <3>2. report' = Remaining(Lists[report.name[1]]) BY <2>1 DEF GetHub, GetHubByHubID, Exists
    <3> QED BY <1>1, <1>3, <2>1, <3>1, <3>2, RemainingIs
  <2>2. CASE ~hubs[report.name].exists
    <3>1. report' = Idle BY <2>2 DEF GetHub, GetHubByHubID, Exists
    <3> QED BY <3>1, IdleIs, IdleIsOK
  <2> QED BY <2>1, <2>2
<1> QED BY <1>1, <1>2, <1>4, SameTables, BusyIsFine, SameWorld, RunStep

\* The insert of a device: it is "unknown" while its status is to follow.
LEMMA CreateDeviceStep == ASSUME RegistryInv, CreateDevice PROVE RegistryInv'
<1> DEFINE name == report.name
<1>1. /\ report.step = "create" /\ UNCHANGED request /\ UNCHANGED monitor
      /\ UNCHANGED world
  BY DEF CreateDevice, world
<1>2. /\ report \in RunRecords(Devices) /\ RunOK(report, hubs) /\ OfHub(report)
      /\ monitor \in RunRecords(Sockets) /\ RunOK(monitor, hubs)
  BY DEF RegistryInv, Actors
<1>3. name \in Names /\ name[1] \in Hubs /\ name[2] = FALSE /\ hubs[name].exists
  BY <1>1, <1>2 DEF RunOK, OfHub
<1>4. report.left \subseteq Devices BY <1>2 DEF RunRecords
<1>5. PICK d \in report.left :
        \/ /\ devices' = [devices EXCEPT ![name][d] = "unknown"]
           /\ report' = Created(d)
           /\ Succeeds /\ UNCHANGED hubs
        \/ Locked /\ report' = Remaining(report.left \ {d})
  BY DEF CreateDevice
<1>6. d \in Devices BY <1>4, <1>5
<1>7. CASE Locked /\ report' = Remaining(report.left \ {d})
  <2>1. BusyFine /\ UNCHANGED tables /\ hubs' = hubs BY <1>7, BusyIsFine DEF tables
  <2>2. report.left \ {d} \in SUBSET Devices BY <1>4
  <2>3. report' \in RunRecords(Devices) /\ RunOK(report', hubs') /\ OfHub(report')
    BY <1>3, <1>7, <2>1, <2>2, RemainingIs
  <2> QED BY <1>1, <2>1, <2>3, SameTables, SameWorld, RunStep
<1>8. CASE /\ devices' = [devices EXCEPT ![name][d] = "unknown"]
           /\ report' = Created(d) /\ Succeeds /\ UNCHANGED hubs
  <2> DEFINE r == [report EXCEPT !.step = "deviceStatus", !.actual = d]
  <2>1. r \in RunRecords(Devices) /\ r.step = "deviceStatus" /\ r.actual = d /\ r.name = name
    BY <1>2, <1>6 DEF RunRecords
  <2>2. report' = r BY <1>8 DEF Created
  <2> HIDE DEF r
  <2>3. RunOK(r, hubs) /\ OfHub(r) BY <1>3, <1>6, <2>1 DEF RunOK, OfHub
  <2>4. BusyFine /\ busy' = busy /\ hubs' = hubs BY <1>8, BusyIsFine DEF Succeeds
  <2>5. /\ devices' \in [Names -> [Devices -> Statuses]]
        /\ \A other \in Names, e \in Devices :
              devices'[other][e] = IF other = name /\ e = d THEN "unknown" ELSE devices[other][e]
    BY <1>3, <1>6, <1>8 DEF RegistryInv, Tables, Statuses
  <2>6. \A other \in Names : RowOK(hubs', other)
    BY <2>4 DEF RegistryInv, Tables
  <2>7. \A other \in Names, e \in Devices :
            devices'[other][e] # "none" => /\ hubs'[other].exists
                                           /\ other[1] \in Hubs /\ other[2] = FALSE
    BY <1>3, <2>4, <2>5 DEF RegistryInv, Tables
  <2>8. Tables' BY <2>4, <2>5, <2>6, <2>7 DEF RegistryInv, Tables
  <2>9. Actors'
    BY <1>1, <1>2, <2>1, <2>2, <2>3, <2>4, SameWorld DEF RegistryInv, Actors, BusyFine
  <2>10. Ownership' BY <1>1, <2>4 DEF RegistryInv, Ownership
  <2>11. UnknownIsBrief'
    BY <1>1, <2>1, <2>2, <2>4, <2>5 DEF RegistryInv, UnknownIsBrief
  <2> QED BY <2>8, <2>9, <2>10, <2>11 DEF RegistryInv
<1> QED BY <1>5, <1>7, <1>8

\* The status of the device: no row of its id is "unknown" any more, or the
\* statement failed.
LEMMA UpdateDeviceStatusStep == ASSUME RegistryInv, UpdateDeviceStatus PROVE RegistryInv'
<1> DEFINE d == report.actual
<1>1. /\ report.step = "deviceStatus" /\ UNCHANGED request /\ UNCHANGED monitor
      /\ UNCHANGED world
      /\ report' = Remaining(report.left \ {d})
  BY DEF UpdateDeviceStatus, world
<1>2. /\ report \in RunRecords(Devices) /\ RunOK(report, hubs) /\ OfHub(report)
      /\ monitor \in RunRecords(Sockets) /\ RunOK(monitor, hubs)
  BY DEF RegistryInv, Actors
<1>3. /\ report.name \in Names /\ report.name[1] \in Hubs /\ report.name[2] = FALSE
      /\ hubs[report.name].exists /\ d \in Devices
  BY <1>1, <1>2 DEF RunOK, OfHub
<1>4. report.left \ {d} \in SUBSET Devices BY <1>2 DEF RunRecords
<1>5. BusyFine /\ hubs' = hubs /\ (Locked => busy' > 0 /\ UNCHANGED tables)
  BY BusyIsFine DEF UpdateDeviceStatus, Locked, tables
<1>6. report' \in RunRecords(Devices) /\ RunOK(report', hubs') /\ OfHub(report')
  BY <1>1, <1>3, <1>4, <1>5, RemainingIs
<1>7. DevicesFine
  <2>1. CASE UNCHANGED tables BY <2>1, SameTables
  <2>2. CASE devices' = Marked(d)
    BY <1>3, <2>2 DEF Marked, RegistryInv, Tables, DevicesFine, Statuses
  <2> QED BY <1>5, <2>1, <2>2 DEF UpdateDeviceStatus
<1>8. HubsFine BY <1>5 DEF RegistryInv, Tables, HubsFine
<1>9. Tables' BY <1>7, <1>8, TablesKept
<1>10. Actors' BY <1>1, <1>2, <1>5, <1>6, SameWorld DEF RegistryInv, Actors, BusyFine
<1>11. Ownership' BY <1>1, <1>5 DEF RegistryInv, Ownership
<1>12. UnknownIsBrief'
  <2>1. CASE Locked BY <1>5, <2>1 DEF UnknownIsBrief
  <2>2. CASE devices' = Marked(d)
    <3>1. ASSUME NEW name \in Names, NEW e \in Devices, devices'[name][e] = "unknown"
          PROVE  e # d /\ devices[name][e] = "unknown"
      BY <1>3, <2>2, <3>1 DEF Marked, RegistryInv, Tables
    <3> QED BY <1>1, <1>5, <3>1 DEF RegistryInv, UnknownIsBrief, BusyFine
  <2> QED BY <2>1, <2>2 DEF UpdateDeviceStatus
<1> QED BY <1>9, <1>10, <1>11, <1>12 DEF RegistryInv

-----------------------------------------------------------------------------
(* The monitor, and the workers *)

LEMMA TickStep == ASSUME RegistryInv, Tick PROVE RegistryInv'
<1>1. monitor \in RunRecords(Sockets) /\ working \subseteq Sockets
  BY DEF RegistryInv, Actors, WorldOK
<1>2. PICK live \in SUBSET Sockets : Visit(live)
  <2>1. monitor.left \in SUBSET Sockets BY <1>1 DEF RunRecords
  <2>2. CASE monitor.left = {}
    <3>1. \E live \in SUBSET working : Visit(live) BY <2>2 DEF Tick
    <3> QED BY <1>1, <3>1
  <2>3. CASE monitor.left # {}
    <3>1. Visit(monitor.left) BY <2>3 DEF Tick
    <3> QED BY <2>1, <3>1
  <2> QED BY <2>2, <2>3
<1>3. PICK s \in live : monitor' = [Idle EXCEPT !.step = "status", !.left = live \ {s},
                                               !.name = Stripped(Identity(s))]
  BY <1>2 DEF Visit
<1> DEFINE name == Stripped(Identity(s))
           rest == live \ {s}
           r == [Idle EXCEPT !.step = "status", !.left = rest, !.name = name]
<1>4. name \in Names /\ name[2] = FALSE /\ rest \in SUBSET Sockets
  BY IdentityIs
<1>5. monitor' = r BY <1>3
<1> HIDE DEF name, rest
<1>6. r \in RunRecords(Sockets) /\ r.step = "status" /\ r.name = name
  BY <1>4, IdleIs DEF RunRecords
<1> HIDE DEF r
<1>7. RunOK(r, hubs) BY <1>4, <1>6 DEF RunOK
<1>8. /\ hubs' = hubs /\ UNCHANGED tables /\ UNCHANGED busy /\ UNCHANGED request
      /\ UNCHANGED report /\ UNCHANGED world
  BY DEF Tick, tables
<1> QED BY <1>5, <1>6, <1>7, <1>8, SameTables, BusyIsFine, SameWorld, RunStep

LEMMA UpdateHubStatusStep == ASSUME RegistryInv, UpdateHubStatus PROVE RegistryInv'
<1> DEFINE left == monitor.left
           done == [Idle EXCEPT !.left = left]
<1>1. /\ monitor \in RunRecords(Sockets) /\ RunOK(monitor, hubs)
  BY DEF RegistryInv, Actors
<1>2. UNCHANGED request /\ UNCHANGED report /\ UNCHANGED world
  BY DEF UpdateHubStatus, world
<1>3. CASE Looks(monitor, monitor') /\ UNCHANGED <<tables, busy>>
  <2>1. hubs' = hubs /\ UNCHANGED tables /\ UNCHANGED busy BY <1>3 DEF tables
  <2>2. monitor' \in RunRecords(Sockets) /\ RunOK(monitor', hubs) BY <1>1, <1>3, LooksRun
  <2>3. HubsFine /\ DevicesFine /\ BusyFine BY <2>1, SameTables, BusyIsFine
  <2>4. RunOK(monitor', hubs') BY <2>1, <2>2
  <2> QED BY <1>2, <2>2, <2>3, <2>4, SameWorld, RunStep
<1>4. CASE Writes(monitor, monitor', done)
  <2>1. left \in SUBSET Sockets BY <1>1 DEF RunRecords
  <2> HIDE DEF left
  <2>2. done \in RunRecords(Sockets) /\ done.step = "idle" BY <2>1, IdleIs DEF RunRecords
  <2> HIDE DEF done
  <2>3. RunOK(done, hubs') BY <2>2 DEF RunOK
  <2>4. /\ monitor' \in RunRecords(Sockets) /\ RunOK(monitor', hubs')
        /\ HubsFine /\ DevicesFine /\ BusyFine
    BY <1>1, <1>4, <2>2, <2>3, WritesRun
  <2> QED BY <1>2, <2>4, SameWorld, RunStep
<1> QED BY <1>3, <1>4 DEF UpdateHubStatus

LEMMA ConnectsStep ==
    ASSUME RegistryInv, NEW h \in Hubs, Connects(h) PROVE RegistryInv'
<1>1. /\ UNCHANGED tables /\ UNCHANGED busy /\ UNCHANGED request /\ UNCHANGED report
      /\ UNCHANGED monitor
  BY DEF Connects, tables
<1>2. WorldOK' BY DEF Connects, RegistryInv, Actors, WorldOK
<1> QED BY <1>1, <1>2, SameTables, BusyIsFine, RunStep

-----------------------------------------------------------------------------
(* The theorems *)

LEMMA HTTPStep == ASSUME RegistryInv, NEW n \in Requests, HTTP(n) PROVE RegistryInv'
BY FindHubStep, CheckKeyStep, UpdateHubStep, InsertHubStep, GetHubByProductKeyStep,
   ClaimHubStep, UpdateDevicesUserIDStep, FindDeviceByIDStep, SendDeviceCommandStep
   DEF HTTP

LEMMA RegistryNext == ASSUME RegistryInv, Next PROVE RegistryInv'
<1>1. CASE \E n \in Requests : HTTP(n) BY <1>1, HTTPStep
<1>2. CASE WorkerEvents
  BY <1>2, ReceiveListStep, RegisterWorkerStep, GetHubStep, CreateDeviceStep,
     UpdateDeviceStatusStep DEF WorkerEvents
<1>3. CASE Monitor BY <1>3, TickStep, UpdateHubStatusStep DEF Monitor
<1>4. CASE \E h \in Hubs : Connects(h) BY <1>4, ConnectsStep
<1> QED BY <1>1, <1>2, <1>3, <1>4 DEF Next

LEMMA RegistryStutters == ASSUME RegistryInv, UNCHANGED vars PROVE RegistryInv'
<1>1. /\ UNCHANGED tables /\ UNCHANGED busy /\ UNCHANGED request /\ UNCHANGED report
      /\ UNCHANGED monitor /\ UNCHANGED world
  BY DEF vars, tables, world
<1> QED BY <1>1, SameTables, BusyIsFine, SameWorld, RunStep

LEMMA RegistryInvariant == Spec => []RegistryInv
<1>1. RegistryInv /\ [Next]_vars => RegistryInv' BY RegistryNext, RegistryStutters
<1> QED BY <1>1, RegistryInit, PTL DEF Spec

\* Every variable of the gateway has its type, a row that does not exist has no
\* content and a device hangs on a row that exists.
THEOREM RegistryTypes == Spec => []TypeOK
<1>1. RegistryInv => TypeOK
  <2> SUFFICES ASSUME RegistryInv PROVE TypeOK OBVIOUS
  <2>1. \A name \in Names : Exists(name) \/ hubs[name] = NoRow
    BY DEF RegistryInv, Tables, RowOK, Exists
  <2>2. \A name \in Names, d \in Devices : devices[name][d] # "none" => Exists(name)
    BY DEF RegistryInv, Tables, Exists
  <2>3. /\ hubs \in [Names -> Rows] /\ devices \in [Names -> [Devices -> Statuses]]
        /\ request \in [Requests -> RequestRecords]
        /\ report \in RunRecords(Devices) /\ monitor \in RunRecords(Sockets)
        /\ WorldOK /\ busy \in 0 .. MaxBusy
    BY DEF RegistryInv, Tables, Actors
  <2>4. \A g \in {report, monitor} :
          /\ g.step \in {"idle", "ensure", "status", "insert", "set", "find", "create", "deviceStatus"}
          /\ g.name \in Names \cup {<<>>}
    BY <2>3 DEF RunRecords
  <2>5. report.left \subseteq Devices /\ monitor.left \subseteq Sockets BY <2>3 DEF RunRecords
  <2> QED BY <2>1, <2>2, <2>3, <2>4, <2>5 DEF TypeOK, WorldOK, RequestRecords
<1> QED BY <1>1, RegistryInvariant, PTL

\* Rivals had both looked at the hub before either of them claimed it.
LEMMA RivalsContest ==
    ASSUME NEW name, Rivals(request, name) PROVE Contested(name)
BY DEF Rivals, Wrote, Contested

\* A claim that was answered "ok" is lost to no registration and no later claim,
\* only to one that had looked at the hub before, whatever the hubs, the users and
\* the number of requests.
THEOREM ClaimsHold == Spec => []ClaimHolds
<1>1. RegistryInv => ClaimHolds
  BY RivalsContest DEF RegistryInv, Ownership, ClaimHolds, At
<1> QED BY <1>1, RegistryInvariant, PTL

\* A command goes out only for the user who has the hub of the device, unless two
\* claims of that hub overlapped.
THEOREM CommandsAreOwners == Spec => []CommandIsOwners
<1>1. RegistryInv => CommandIsOwners
  BY RivalsContest DEF RegistryInv, Ownership, CommandIsOwners
<1> QED BY <1>1, RegistryInvariant, PTL

\* A hub that writes its id without the prefix has one row of its id, and one that
\* writes it with the prefix a second only from its registration; the row of a
\* socket, which the monitor adds, has no product key, no user and no devices.
THEOREM RowsKeepTheirOrigin == Spec => []RowsByOrigin
<1>1. ASSUME RegistryInv, NEW h \in Hubs, Exists(<<h, TRUE>>)
      PROVE  h \notin Plain /\ hubs[<<h, TRUE>>].key # NoKey
  <2> DEFINE name == <<h, TRUE>>
  <2>1. name \in Names /\ name[1] = h /\ name[2] = TRUE BY DEF Names
  <2>2. RowOK(hubs, name) /\ hubs[name].exists BY <1>1, <2>1 DEF RegistryInv, Tables, Exists
  <2> HIDE DEF name
  <2>3. IsConfigured(name) BY <2>1, <2>2 DEF RowOK
  <2>4. hubs[name].key # NoKey BY <2>1, <2>2, <2>3 DEF RowOK
  <2> QED BY <2>1, <2>3, <2>4 DEF IsConfigured, name
<1>2. ASSUME RegistryInv, NEW s \in Sockets
      PROVE  /\ ~Exists(<<s, TRUE>>)
             /\ hubs[Identity(s)].key = NoKey /\ hubs[Identity(s)].user = NoUser
             /\ \A d \in Devices : devices[Identity(s)][d] = "none"
  <2> DEFINE prefixed == <<s, TRUE>>
             bare == Identity(s)
  <2>1. /\ prefixed \in Names /\ prefixed[1] = s /\ prefixed[2] = TRUE
        /\ bare \in Names /\ bare[1] = s
    BY DEF Names, Identity
  <2>2. s \notin Hubs BY RegistryAssumption
  <2> HIDE DEF prefixed, bare
  <2>3. ~IsConfigured(prefixed) /\ ~IsConfigured(bare) BY <2>1, <2>2 DEF IsConfigured
  <2>4. RowOK(hubs, prefixed) /\ RowOK(hubs, bare) BY <1>2, <2>1 DEF RegistryInv, Tables
  <2>5. ~hubs[prefixed].exists BY <2>1, <2>3, <2>4 DEF RowOK
  <2>6. hubs[bare].key = NoKey /\ hubs[bare].user = NoUser BY <2>3, <2>4 DEF RowOK
  <2>7. \A d \in Devices : devices[bare][d] = "none"
    BY <1>2, <2>1, <2>2 DEF RegistryInv, Tables
  <2> QED BY <2>5, <2>6, <2>7 DEF Exists, prefixed, bare
<1>3. RegistryInv => RowsByOrigin BY <1>1, <1>2, RegistryAssumption DEF RowsByOrigin
<1> QED BY <1>3, RegistryInvariant, PTL

\* "unknown" is the status of a device only between its insert and its update, or
\* when the database was locked.
THEOREM UnknownPasses == Spec => []UnknownIsBrief
<1>1. RegistryInv => UnknownIsBrief BY DEF RegistryInv
<1> QED BY <1>1, RegistryInvariant, PTL

=============================================================================
