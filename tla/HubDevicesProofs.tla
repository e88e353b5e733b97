-------------------------- MODULE HubDevicesProofs --------------------------
(***************************************************************************)
(* Theorems about HubDevices, for all sets of devices, lists and requests  *)
(* to the configuration API: whatever order the requests set the list,     *)
(* shut the devices down and initialize them in, the devices are those of  *)
(* the configuration once no request is left at it, and the list that the  *)
(* gateway is sent names the devices that can be commanded.                *)
(***************************************************************************)
EXTENDS HubDevices, FiniteSetTheorems, SequenceTheorems, TLAPS

Unfinished == {"save", "shutdown"}

\* The inductive invariant.  A request that has set the list, or is about to shut
\* the devices down, promises an initialization to come; until then only a failure
\* may leave the devices others than those of the list, or none between the two.
Matching == devices = Addressed(config) \/ (devices = NoDevices /\ Reloading)
DeviceInv ==
    /\ config \in Seq(Entries)
    /\ handler \in [Handlers -> {"new", "save", "shutdown", "init", "returned"}]
    /\ daemon = "new" => devices = NoDevices
    /\ Running /\ ~failed /\ (\A h \in Handlers : handler[h] \notin Unfinished) => Matching

-----------------------------------------------------------------------------
(* Lists of devices *)

\* A set of indices of a list that is not empty has a last one.
LEMMA LastIndex ==
    ASSUME NEW n \in Nat, NEW S \in SUBSET (1 .. n), S # {}
    PROVE  \E i \in S : \A j \in S : j <= i
<1> DEFINE From(i) == {j \in S : i <= j}
           Tails   == {From(i) : i \in S}
<1>1. IsFiniteSet(1 .. n) BY FS_Interval
<1>2. IsFiniteSet(S) BY <1>1, FS_Subset
<1>3. Tails \subseteq FiniteSubsetsOf(S) /\ Tails # {}
  <2>1. ASSUME NEW i \in S PROVE From(i) \in FiniteSubsetsOf(S)
    <3>1. From(i) \subseteq S OBVIOUS
    <3>2. IsFiniteSet(From(i)) BY <1>2, <3>1, FS_Subset
    <3> QED BY <3>1, <3>2 DEF FiniteSubsetsOf
  <2> QED BY <2>1
<1>4. PICK T \in Tails : \A U \in Tails : ~(<<U, T>> \in StrictSubsetOrdering(S))
  <2> HIDE DEF Tails
  <2> QED BY <1>3, FS_StrictSubsetOrderingWellFounded, WFMin
<1>5. PICK i \in S : T = From(i) BY <1>4
<1>6. ASSUME NEW j \in S PROVE j <= i
  <2> SUFFICES ASSUME i < j PROVE FALSE OBVIOUS
  <2>0. \A k \in S : k \in Int OBVIOUS
  <2>1. From(j) \subseteq From(i) /\ i \in From(i) /\ i \notin From(j)
    <3>1. i \in Int /\ j \in Int BY <2>0
    <3>2. \A k \in S : j <= k => i <= k BY <2>0, <3>1
    <3>3. i <= i /\ ~(j <= i) BY <3>1
    <3> QED BY <3>2, <3>3
  <2>2. From(i) \subseteq S OBVIOUS
  <2>3. <<From(j), From(i)>> \in StrictSubsetOrdering(S)
    BY <2>1, <2>2 DEF StrictSubsetOrdering
  <2> QED BY <1>4, <1>5, <2>3
<1> QED BY <1>6

\* A list gives an address to the devices it names, and to no other.
LEMMA AddressedNames ==
    ASSUME NEW list \in Seq(Entries)
    PROVE  {d \in Devices : Addressed(list)[d] # "none"} = Ids(list)
<1>1. Len(list) \in Nat /\ DOMAIN list = 1 .. Len(list) /\ \A i \in DOMAIN list : list[i] \in Entries
  BY LenProperties
<1>2. Ids(list) \subseteq Devices BY <1>1 DEF Ids, Entries
<1>3. ASSUME NEW d \in Devices PROVE (Addressed(list)[d] # "none") <=> (d \in Ids(list))
  <2> DEFINE mine == {i \in DOMAIN list : list[i].id = d}
  <2>1. CASE mine = {} BY <2>1 DEF Addressed, Ids
  <2>2. CASE mine # {}
    <3>1. mine \in SUBSET (1 .. Len(list)) BY <1>1
    <3>2. \E i \in mine : \A j \in mine : j <= i
      <4> HIDE DEF mine
      <4> QED BY <1>1, <2>2, <3>1, LastIndex
    <3>3. PICK k : k = CHOOSE i \in mine : \A j \in mine : j <= i OBVIOUS
    <3>4. k \in mine BY <3>2, <3>3
    <3>5. Addressed(list)[d] = list[k].address BY <2>2, <3>3 DEF Addressed
    <3>6. list[k].address \in Addresses BY <1>1, <3>4 DEF Entries
    <3> QED BY <3>4, <3>5, <3>6, HubAssumption DEF Ids
  <2> QED BY <2>1, <2>2
<1> QED BY <1>2, <1>3

\* Initialize with a list that is whole, when there are no devices or already those
\* of the list, leaves the devices of the list.
LEMMA InstalledWhole ==
    ASSUME Broken(config) = {}, devices = NoDevices \/ devices = Addressed(config)
    PROVE  Installed(config) = Addressed(config)
<1>1. Creatable(config) = DOMAIN config BY DEF Creatable
<1>2. ASSUME NEW d \in Devices, {i \in DOMAIN config : config[i].id = d} = {}
      PROVE  devices[d] = "none"
  BY <1>2 DEF NoDevices, Addressed
<1> QED BY <1>1, <1>2 DEF Installed, Addressed

-----------------------------------------------------------------------------
(* The invariant is inductive *)

LEMMA DeviceInit == ASSUME Init PROVE DeviceInv
BY HubAssumption DEF Init, DeviceInv, NoDevices, Running

\* Each step of a request to the configuration API.
LEMMA ApiStep ==
    ASSUME DeviceInv, NEW h \in Handlers,
           Configure(h) \/ Save(h) \/ ReloadDevices(h) \/ Shutdown(h) \/ Initialize(h)
    PROVE  DeviceInv'
<1>1. daemon # "new" /\ daemon' = daemon
  BY DEF Configure, Save, ReloadDevices, Shutdown, Initialize, HandlerOnly, Running
<1>2. ASSUME NEW s \in {"new", "save", "shutdown", "init", "returned"}, GoTo(h, s)
      PROVE  /\ handler' \in [Handlers -> {"new", "save", "shutdown", "init", "returned"}]
             /\ handler'[h] = s
             /\ \A g \in Handlers \ {h} : handler'[g] = handler[g]
  BY <1>2 DEF DeviceInv, GoTo
<1>3. CASE Configure(h)
  <2>1. config' \in Seq(Entries) BY <1>3, HubAssumption DEF Configure
  <2>2. GoTo(h, "save") BY <1>3 DEF Configure
  <2> QED BY <1>1, <1>2, <2>1, <2>2 DEF DeviceInv, Unfinished
<1>4. CASE Save(h)
  <2>1. CASE GoTo(h, "shutdown")
    BY <1>1, <1>2, <1>4, <2>1 DEF DeviceInv, Save, Unfinished
  <2>2. CASE GoTo(h, "returned") /\ failed' = TRUE
    BY <1>1, <1>2, <1>4, <2>2 DEF DeviceInv, Save
  <2> QED BY <1>4, <2>1, <2>2 DEF Save
<1>5. CASE ReloadDevices(h)
  BY <1>1, <1>2, <1>5 DEF DeviceInv, ReloadDevices, Unfinished
<1>6. CASE Shutdown(h)
  <2>1. GoTo(h, "init") /\ devices' = NoDevices /\ UNCHANGED config
    BY <1>6 DEF Shutdown, ShutDownDevices
  <2>2. Reloading' BY <1>2, <2>1 DEF Reloading
  <2>3. Matching' BY <2>1, <2>2 DEF Matching, NoDevices
  <2> QED BY <1>1, <1>2, <2>1, <2>3 DEF DeviceInv
<1>7. CASE Initialize(h)
  <2>1. /\ handler[h] = "init" /\ GoTo(h, "returned") /\ UNCHANGED config /\ Running
        /\ devices' = Installed(config) /\ failed' = (failed \/ Broken(config) # {})
    BY <1>7 DEF Initialize
  <2>2. ASSUME ~failed', \A g \in Handlers : handler'[g] \notin Unfinished
        PROVE  Matching'
    <3>1. ~failed /\ Broken(config) = {} BY <2>1, <2>2
    <3>2. \A g \in Handlers : handler[g] \notin Unfinished
      BY <1>2, <2>1, <2>2 DEF Unfinished
    <3>3. devices = NoDevices \/ devices = Addressed(config)
      BY <2>1, <3>1, <3>2 DEF DeviceInv, Matching
    <3>4. devices' = Addressed(config) BY <2>1, <3>1, <3>3, InstalledWhole
    <3>5. Addressed(config)' = Addressed(config) BY <2>1 DEF Addressed
    <3> QED BY <3>4, <3>5 DEF Matching
  <2> QED BY <1>1, <1>2, <2>1, <2>2 DEF DeviceInv
<1> QED BY <1>3, <1>4, <1>5, <1>6, <1>7

LEMMA DaemonStep ==
    ASSUME DeviceInv,
           \/ StartDevices \/ StartAPI \/ StartWorker
           \/ StopAPI \/ StopWorker \/ StopDevices
    PROVE  DeviceInv'
<1>1. UNCHANGED <<config, handler>>
  BY DEF StartDevices, StartAPI, StartWorker, StopAPI, StopWorker, StopDevices, DaemonOnly
<1>2. Addressed(config)' = Addressed(config) BY <1>1 DEF Addressed
<1>3. CASE StartDevices
  <2>1. /\ devices = NoDevices /\ devices' = Installed(config)
        /\ failed' = (Broken(config) # {}) /\ daemon' # "new"
    BY <1>3 DEF StartDevices, DeviceInv
  <2>2. ~failed' => Matching' BY <1>2, <2>1, InstalledWhole DEF Matching
  <2> QED BY <1>1, <2>1, <2>2 DEF DeviceInv
<1>4. CASE StartAPI \/ StartWorker \/ StopAPI \/ StopWorker
  <2>1. daemon # "new" /\ daemon' # "new" /\ Running /\ UNCHANGED <<devices, failed>>
    BY <1>4 DEF StartAPI, StartWorker, StopAPI, StopWorker, Running
  <2>2. Matching' = Matching BY <1>1, <1>2, <2>1 DEF Matching, Reloading, NoDevices
  <2> QED BY <1>1, <2>1, <2>2 DEF DeviceInv
<1>5. CASE StopDevices
  BY <1>1, <1>5 DEF StopDevices, DeviceInv, Running
<1> QED BY <1>3, <1>4, <1>5

\* The worker's processor, the sweep and the passing of time leave all this alone.
LEMMA DeviceNext == ASSUME DeviceInv, [Next]_vars PROVE DeviceInv'
<1>1. ASSUME UNCHANGED setup PROVE DeviceInv'
  <2>1. Matching' = Matching BY <1>1 DEF setup, Matching, Reloading, NoDevices, Addressed
  <2> QED BY <1>1, <2>1 DEF setup, DeviceInv, Running, NoDevices
<1>2. CASE \E k \in Asked : Take(k[1], k[2]) BY <1>1, <1>2 DEF Take, ProcessorOnly
<1>3. CASE Handle \/ Report
  BY <1>1, <1>3 DEF Handle, CheckNonce, Answer, Execute, Store, Keep, Report, ProcessorOnly
<1>4. CASE \E o \in Held, n \in Nonces : o # "none" /\ Age(o, n) BY <1>1, <1>4 DEF Age
<1>5. CASE Cleaner
  BY <1>1, <1>5 DEF Cleaner, Sweep, NextCache, Peek, Remove, FindEmpty, Delete, CleanerOnly
<1>6. CASE \E h \in Handlers : Configure(h) \/ ReloadDevices(h) BY <1>6, ApiStep
<1>7. CASE ConfigAPI BY <1>7, ApiStep DEF ConfigAPI
<1>8. CASE \/ StartDevices \/ StartAPI \/ StartWorker
           \/ StopAPI \/ StopWorker \/ StopDevices
  BY <1>8, DaemonStep
<1>9. CASE UNCHANGED vars BY <1>1, <1>9 DEF vars
<1> QED BY <1>2, <1>3, <1>4, <1>5, <1>6, <1>7, <1>8, <1>9 DEF Next

LEMMA DeviceInvariant == Spec => []DeviceInv
<1>1. Init => DeviceInv BY DeviceInit
<1>2. DeviceInv /\ [Next]_vars => DeviceInv' BY DeviceNext
<1> QED BY <1>1, <1>2, PTL DEF Spec

LEMMA SettledMatch == DeviceInv => SettledDevicesMatch
BY DEF DeviceInv, SettledDevicesMatch, Settled, Running, Unfinished, Matching, Reloading

-----------------------------------------------------------------------------

\* Once no request to the configuration API is in progress and none failed, the
\* devices are those of the configuration: configure, which sets the list before
\* anything else, and reload may be interleaved at every step of each.
THEOREM DevicesMatch == Spec => []SettledDevicesMatch
BY DeviceInvariant, SettledMatch, PTL

\* What the list action reports, from the configuration alone, then names the
\* devices that the manager has, and no others.
THEOREM ListIsTrue == Spec => SettledListIsTrue
<1>1. DeviceInv /\ [Next]_vars
        => [Settled /\ processor'.step = "report" /\ processor.step = "idle"
              => processor'.ids = {d \in Devices : devices[d] # "none"}]_vars
  <2> SUFFICES ASSUME DeviceInv, Next, Settled, processor'.step = "report",
                      processor.step = "idle"
               PROVE  processor'.ids = {d \in Devices : devices[d] # "none"}
    OBVIOUS
  <2>1. devices = Addressed(config) BY SettledMatch DEF SettledDevicesMatch
  <2>2. {d \in Devices : devices[d] # "none"} = Ids(config)
    BY <2>1, AddressedNames DEF DeviceInv
  <2>3. Report
    <3>1. ASSUME NEW k \in Asked, Take(k[1], k[2]) PROVE FALSE
      BY <3>1 DEF Take, Request, FindCache
    <3>2. ~Handle BY DEF Handle, CheckNonce, Answer, Execute, Store, Keep
    <3>3. ASSUME \/ \E h \in Handlers : Configure(h) \/ ReloadDevices(h)
                 \/ ConfigAPI
                 \/ StartDevices \/ StartAPI \/ StartWorker
                 \/ StopAPI \/ StopWorker \/ StopDevices
                 \/ \E o \in Held, n \in Nonces : o # "none" /\ Age(o, n)
                 \/ Cleaner
          PROVE  processor' = processor
      BY <3>3 DEF Configure, ReloadDevices, ConfigAPI, Save, Shutdown, Initialize,
                  ShutDownDevices, Touched, StartDevices, StartAPI, StartWorker, StopAPI,
                  StopWorker, StopDevices, Age, Cleaner, Sweep, NextCache, Peek, Remove, FindEmpty,
                  Delete, CleanerOnly
    <3> QED BY <3>1, <3>2, <3>3 DEF Next
  <2>4. processor'.ids = Ids(config) BY <2>3 DEF Report
  <2> QED BY <2>2, <2>4
<1> QED BY <1>1, DeviceInvariant, PTL DEF Spec, SettledListIsTrue
=============================================================================
