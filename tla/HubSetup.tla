------------------------------ MODULE HubSetup ------------------------------
(***************************************************************************)
(* The hub's configuration file and those who write it: the commands of    *)
(* cmd/hub.go (hub, init, register, keys generate, config generate), the   *)
(* CLI's ConfigManager, and the daemon, which loads it once, registers by  *)
(* itself and saves what its configuration API is given.                   *)
(*                                                                         *)
(* Each is a process of its own, nobody locks the file, and os.WriteFile   *)
(* truncates it before it writes.  A process may end at any point.  An     *)
(* identity (hub id and product key) is a number, and so is a key pair; 0  *)
(* is what NewDefaultConfig puts there.  Of the gateway there is what      *)
(* RegisterHub leaves: the key it knows each hub id by.  URLs come down to *)
(* a gateway answering there or not, and prompts to the user saying yes or *)
(* no, typing one of these URLs, or the end of the input.                  *)
(***************************************************************************)
EXTENDS Integers, FiniteSets

CONSTANTS
    Processes,      \* runs of the program
    Kinds,          \* what they may be
    MaxFresh,       \* bound: identities and key pairs that are generated
    MaxConfigures,  \* bound: requests to the configuration APIs
    AtOnce          \* bound: runs of the program in progress

AllKinds == {"hub", "init", "register", "keys", "generate", "edit"}

ASSUME SetupAssumption ==
    /\ Kinds \subseteq AllKinds
    /\ MaxFresh \in Nat /\ MaxConfigures \in Nat
    /\ AtOnce \in Nat

VARIABLES
    file,           \* hub.yml: a configuration, Absent or Damaged
    registered,     \* the key the gateway has for each identity, or -1
    process,
    fresh,          \* how many identities and key pairs have been generated
    configures,     \* how many requests the APIs have had
    saved,          \* identities and keys that were written in full
    seen            \* the file as each process first found it

vars == <<file, registered, process, fresh, configures, saved, seen>>

Fresh   == 0 .. MaxFresh
Absent  == [id |-> -1, key |-> -1, gateway |-> FALSE, loadable |-> FALSE]
Damaged == [id |-> -2, key |-> -2, gateway |-> FALSE, loadable |-> FALSE]
Configs == [id : Fresh, key : Fresh, gateway : BOOLEAN, loadable : BOOLEAN]

\* NewDefaultConfig: placeholders, and one device.
Template == [id |-> 0, key |-> 0, gateway |-> FALSE, loadable |-> TRUE]

\* NewConfigWithKeys, with the gateway's key or its placeholder.
HalfNew(g) == [Template EXCEPT !.id = fresh + 2, !.key = fresh + 1, !.gateway = g]
WithKeys(g) == [Template EXCEPT !.id = fresh + 1, !.key = fresh + 1, !.gateway = g]

\* What a load makes of the file: one that is cut or mixed does not parse, and
\* Validate refuses an empty device list, and two devices with one id.
Loads == file.loadable

New == [kind |-> "none", step |-> "new", config |-> Template, then |-> "done",
        else |-> "done", known |-> FALSE]

Init ==
    /\ file = Absent /\ registered = [i \in Fresh |-> -1]
    /\ process = [p \in Processes |-> New]
    /\ fresh = 0 /\ configures = 0 /\ saved = {}
    /\ seen = [p \in Processes |-> Absent]

\* A process that has ended leaves nothing but who it was.
Ended(r)    == [New EXCEPT !.step = "done", !.kind = r.kind, !.known = r.known,
                           !.config = [Template EXCEPT !.id = r.config.id]]
Set(p, r)   == process' = [process EXCEPT ![p] = IF r.step = "done" THEN Ended(r) ELSE r]
GoTo(p, s)  == Set(p, [process[p] EXCEPT !.step = s])
At(p, s)    == process[p].step = s
Kind(p)     == process[p].kind

\* SaveConfig(c), and what the process goes on with if it succeeds or fails.
Saving(r, c, then, else) ==
    [r EXCEPT !.step = "open", !.config = c, !.then = then, !.else = else]

-----------------------------------------------------------------------------
(* The commands, up to their first save *)

\* A run of the program begins as r, and has looked at the file.
Starts(p, r) ==
    /\ At(p, "new")
    /\ Cardinality({q \in Processes : ~At(q, "new") /\ ~At(q, "done")}) < AtOnce
    /\ seen' = [seen EXCEPT ![p] = file]
    /\ Set(p, r)
    /\ UNCHANGED <<file, registered, configures, saved>>

Run(k)     == [New EXCEPT !.kind = k]
Loading(k) == [Run(k) EXCEPT !.step = "load"]
Generates  == fresh < MaxFresh /\ fresh' = fresh + 1

\* hub without a file writes one with new keys, before it asks anything.
BeginHub(p) ==
    \/ file # Absent /\ Starts(p, Loading("hub")) /\ UNCHANGED fresh
    \/ file = Absent /\ Generates /\ Starts(p, Saving(Run("hub"), WithKeys(FALSE), "ask", "done"))

\* init without a file looks for a gateway first.
BeginInit(p) ==
    /\ Starts(p, IF file = Absent THEN [Run("init") EXCEPT !.step = "discover"]
                 ELSE Loading("init"))
    /\ UNCHANGED fresh

\* register loads at once.
BeginRegister(p) == Starts(p, Loading("register")) /\ UNCHANGED fresh

\* keys generate without a file puts new keys beside the placeholder id.
BeginKeys(p) ==
    \/ file # Absent /\ Starts(p, Loading("keys")) /\ UNCHANGED fresh
    \/ /\ file = Absent /\ Generates
       /\ Starts(p, Saving(Run("keys"), [Template EXCEPT !.key = fresh + 1], "register", "done"))

\* config generate does not look whether there is a file.
BeginGenerate(p) == Starts(p, Saving(Run("generate"), Template, "done", "done")) /\ UNCHANGED fresh

\* ConfigManager.LoadConfig makes a file when there is none.
BeginEdit(p) ==
    /\ Starts(p, IF file = Absent THEN Saving(Run("edit"), Template, "edit", "done")
                 ELSE Loading("edit"))
    /\ UNCHANGED fresh

Begin(p) ==
    \/ "hub" \in Kinds /\ BeginHub(p)
    \/ "init" \in Kinds /\ BeginInit(p)
    \/ "register" \in Kinds /\ BeginRegister(p)
    \/ "keys" \in Kinds /\ BeginKeys(p)
    \/ "generate" \in Kinds /\ BeginGenerate(p)
    \/ "edit" \in Kinds /\ BeginEdit(p)

\* A load that fails ends the command: with an error, or, in init, with a nil
\* configuration.
StartOver(k) == IF k = "init" THEN "discover" ELSE "done"
Refused(k)   == "done"

\* Which step follows a load.  DiscoverHTTPFromConfig is the step "http".
Next1(k, c) ==
    CASE k = "hub"      -> IF c.gateway THEN "running" ELSE "http"
      [] k = "init"     -> IF c.key = 0 THEN "discover" ELSE "done"
      [] k = "register" -> IF c.key = 0 THEN "done" ELSE "http"
      [] k = "keys"     -> "confirm"
      [] k = "edit"     -> "edit"

\* A process that ends at the load takes nothing from the file.
Load(p) ==
    /\ At(p, "load")
    /\ seen' = [seen EXCEPT ![p] = file]
    /\ \/ ~Loads /\ GoTo(p, Refused(Kind(p)))
       \/ Loads /\ Next1(Kind(p), file) = "done" /\ GoTo(p, "done")
       \/ /\ Loads /\ Next1(Kind(p), file) # "done"
          /\ Set(p, [process[p] EXCEPT !.config = file, !.step = Next1(Kind(p), file)])
    /\ UNCHANGED <<file, registered, fresh, configures, saved>>

\* A gateway that is healthy answers, with its keys, at one of the URLs; or none does.
CheckGateway == BOOLEAN

\* init looks for a gateway and makes a configuration with what it finds.
Discover(p) ==
    /\ At(p, "discover")
    /\ Generates
    /\ \E found \in CheckGateway :
          Set(p, Saving(process[p], WithKeys(found), IF found THEN "register" ELSE "done", "done"))
    /\ UNCHANGED <<file, registered, configures, saved, seen>>

\* keys generate asks before it replaces real keys, but not before placeholders.
Confirm(p) ==
    /\ At(p, "confirm")
    /\ \/ /\ Generates
          /\ Set(p, Saving(process[p], [process[p].config EXCEPT !.key = fresh + 1],
                           "register", "done"))
       \/ process[p].config.key # 0 /\ GoTo(p, "done") /\ UNCHANGED fresh
    /\ UNCHANGED <<file, registered, configures, saved, seen>>

\* A change of the device list, the identity as it was; or the device is there
\* already, or is not found, and nothing is saved.
Edits(p, ok) ==
    /\ At(p, "edit")
    /\ \/ Set(p, Saving(process[p], [process[p].config EXCEPT !.loadable = ok], "done", "done"))
       \/ GoTo(p, "done")
    /\ UNCHANGED <<file, registered, fresh, configures, saved, seen>>

\* The forms check what they add, so the file stays one that loads ...
AddDevice(p)    == Edits(p, TRUE)
UpdateDevice(p) == Edits(p, TRUE)
\* ... but nobody keeps the last device from being removed.
RemoveDevice(p) == \E ok \in BOOLEAN : Edits(p, ok)

-----------------------------------------------------------------------------
(* SaveConfig *)

NoMatterWhat(r)    == r.then
AfterFailedSave(r) == r.else
Goes(r, s) == [r EXCEPT !.step = s, !.then = "done", !.else = "done"]

Truncate(p) ==
    /\ At(p, "open")
    /\ \/ file' = Damaged /\ GoTo(p, "write")
       \/ UNCHANGED file /\ Set(p, Goes(process[p], AfterFailedSave(process[p])))
    /\ UNCHANGED <<registered, fresh, configures, saved, seen>>

\* Written after another process wrote, the two may mix.
Write(p) ==
    /\ At(p, "write")
    /\ file' = process[p].config \/ (file # Damaged /\ file' = Damaged)
    /\ saved' = saved \cup {<<process[p].config.id, process[p].config.key>>}
    /\ Set(p, Goes(process[p], process[p].then))
    /\ UNCHANGED <<registered, fresh, configures, seen>>

WriteFails(p) ==
    /\ At(p, "write")
    /\ file' = Damaged
    /\ Set(p, Goes(process[p], AfterFailedSave(process[p])))
    /\ UNCHANGED <<registered, fresh, configures, saved, seen>>

-----------------------------------------------------------------------------
(* Registration *)

\* A new hub offers to register at once; declined, it stops there.
Ask(p) ==
    /\ At(p, "ask")
    /\ GoTo(p, "done") \/ GoTo(p, "url")
    /\ UNCHANGED <<file, registered, fresh, configures, saved, seen>>

\* Without a URL it stops too, and where no gateway answers it goes on without one.
AskURL(p) ==
    /\ At(p, "url")
    /\ \/ GoTo(p, "done")
       \/ \E found \in CheckGateway : GoTo(p, IF found THEN "register" ELSE "load")
    /\ UNCHANGED <<file, registered, fresh, configures, saved, seen>>

\* DiscoverHTTPFromConfig tries the configured endpoint and likely ones, and then
\* has the user type others until one answers or the input ends: the daemon then
\* tries the common ones, and register, if the gateway's key is known, its endpoint.
OnFound(p)  == IF Kind(p) = "hub" THEN "auto" ELSE "register"
OnMissed(p) == IF Kind(p) = "hub" THEN {"common"}
               ELSE IF process[p].config.gateway THEN {"register", "done"} ELSE {"done"}

DiscoverHTTP(p) ==
    /\ At(p, "http")
    /\ \E found \in CheckGateway : GoTo(p, IF found THEN OnFound(p) ELSE "prompt")
    /\ UNCHANGED <<file, registered, fresh, configures, saved, seen>>

Prompt(p) ==
    /\ At(p, "prompt")
    /\ GoTo(p, OnFound(p)) \/ \E s \in OnMissed(p) : GoTo(p, s)
    /\ UNCHANGED <<file, registered, fresh, configures, saved, seen>>

\* register may be given the URL.
GivenURL(p) ==
    /\ At(p, "http")
    /\ Kind(p) = "register"
    /\ GoTo(p, "register")
    /\ UNCHANGED <<file, registered, fresh, configures, saved, seen>>

\* RegisterWithGateway: the gateway may be out of reach, or its answer lost.
RegisterWithGateway(p, onSuccess, onFailure) ==
    /\ \/ UNCHANGED registered /\ Set(p, onFailure)
       \/ /\ registered' = [registered EXCEPT ![process[p].config.id] = process[p].config.key]
          /\ Set(p, onSuccess) \/ Set(p, onFailure)
    /\ UNCHANGED <<file, fresh, configures, saved, seen>>

Registers(p, k) == At(p, "register") /\ Kind(p) = k
Known(p)        == [process[p] EXCEPT !.known = TRUE]
WithGateway(p)  == [process[p].config EXCEPT !.gateway = TRUE]
Step(r, s)      == [r EXCEPT !.step = s]

\* The daemon registers by itself with the gateway it found, and saves at once, or
\* with one at a common URL.  If neither registers it, it runs offline.
AutoRegister(p) ==
    /\ At(p, "auto")
    /\ RegisterWithGateway(p, Saving(Known(p), WithGateway(p), "again", "again"),
                           Step(process[p], "common"))

FallbackSucceeds(p) == [Known(p) EXCEPT !.step = "again", !.config = WithGateway(p)]
FallbackFails(p)    == Step(process[p], "running")
Fallback(p) ==
    /\ At(p, "common")
    /\ RegisterWithGateway(p, FallbackSucceeds(p), FallbackFails(p))

\* Start saves what autoRegister has made of the configuration.
SaveAgain(p) ==
    /\ At(p, "again")
    /\ Set(p, Saving(process[p], process[p].config, "running", "running"))
    /\ UNCHANGED <<file, registered, fresh, configures, saved, seen>>

\* A new hub goes on to load its file, registered or not.
InteractiveRegister(p) ==
    /\ Registers(p, "hub")
    /\ RegisterWithGateway(p, Saving(Known(p), WithGateway(p), "load", "load"),
                           Step(process[p], "load"))

\* register asks for the gateway's key afterwards; init has it, and keys generate
\* does not want it.
ManualRegister(p) ==
    /\ Registers(p, "register")
    /\ RegisterWithGateway(p, Step(Known(p), "info"), Step(process[p], "done"))
InitRegister(p) ==
    /\ Registers(p, "init")
    /\ RegisterWithGateway(p, Step(Known(p), "done"), Step(process[p], "done"))
KeysRegister(p) ==
    /\ Registers(p, "keys")
    /\ RegisterWithGateway(p, Step(Known(p), "done"), Step(process[p], "done"))

\* keys generate registers only when it is given a URL.
SkipRegister(p) ==
    /\ Registers(p, "keys")
    /\ GoTo(p, "done")
    /\ UNCHANGED <<file, registered, fresh, configures, saved, seen>>

\* The gateway's key is saved if it answers.
Info(p) ==
    /\ At(p, "info")
    /\ \/ Set(p, Saving(process[p], WithGateway(p), "done", "done"))
       \/ GoTo(p, "done")
    /\ UNCHANGED <<file, registered, fresh, configures, saved, seen>>

-----------------------------------------------------------------------------
(* The daemon *)

\* handleDeviceConfigure saves the daemon's own configuration with the new list.
Configure(p) ==
    /\ At(p, "running")
    /\ configures < MaxConfigures
    /\ configures' = configures + 1
    /\ \E ok \in BOOLEAN :
          Set(p, Saving(process[p], [process[p].config EXCEPT !.loadable = ok],
                        "running", "running"))
    /\ UNCHANGED <<file, registered, fresh, saved, seen>>

\* A process ends, wherever it is.
End(p) ==
    /\ process[p].step \notin {"new", "done"}
    /\ GoTo(p, "done")
    /\ UNCHANGED <<file, registered, fresh, configures, saved, seen>>

-----------------------------------------------------------------------------

Next ==
    \E p \in Processes :
        \/ Begin(p) \/ Load(p) \/ Discover(p) \/ Confirm(p)
        \/ AddDevice(p) \/ UpdateDevice(p) \/ RemoveDevice(p)
        \/ Truncate(p) \/ Write(p) \/ WriteFails(p)
        \/ Ask(p) \/ AskURL(p) \/ DiscoverHTTP(p) \/ Prompt(p) \/ GivenURL(p)
        \/ AutoRegister(p) \/ Fallback(p) \/ SaveAgain(p) \/ InteractiveRegister(p)
        \/ ManualRegister(p) \/ InitRegister(p) \/ KeysRegister(p) \/ SkipRegister(p) \/ Info(p)
        \/ Configure(p) \/ End(p)

Spec == Init /\ [][Next]_vars

-----------------------------------------------------------------------------
(* Properties *)

Files == Configs \cup {Absent, Damaged}
Steps == {"new", "load", "discover", "confirm", "edit", "open", "write", "ask", "url",
          "register", "http", "prompt", "auto", "common", "again", "info", "running", "done"}

\* Every variable has its type, and no number is used before it was generated.
TypeOK ==
    /\ file \in Files
    /\ registered \in [Fresh -> Fresh \cup {-1}]
    /\ process \in [Processes -> [kind : AllKinds \cup {"none"}, step : Steps, config : Configs,
                                  then : Steps, else : Steps, known : BOOLEAN]]
    /\ fresh \in Fresh /\ configures \in 0 .. MaxConfigures
    /\ saved \subseteq (0 .. fresh) \X (0 .. fresh)
    /\ seen \in [Processes -> Files]

\* The gateway never knows a hub by a key that has not been in its file: whatever
\* is lost after a registration, the private key was saved before it.
KeySavedBeforeRegistered ==
    \A i \in Fresh : registered[i] # -1 => <<i, registered[i]>> \in saved

\* A process replaces the hub's identity by another only if it found no file or
\* placeholders in it, or is config generate: never because the file it found was
\* cut short or refused.
IdentityIsReplacedKnowingly ==
    \A p \in Processes : At(p, "write") =>
        \/ Kind(p) = "generate" \/ seen[p] = Absent
        \/ seen[p] # Damaged /\ (seen[p].key = 0 \/ seen[p].id = process[p].config.id)

\* A hub that runs with the gateway's key, and so does not register by itself, is
\* registered with the key it uses, unless the init that made its identity saved
\* the gateway's key and then did not get the hub registered, or keys generate was
\* run on it.
RunningHubIsRegistered ==
    \A p \in Processes : At(p, "running") /\ process[p].config.gateway =>
        \/ registered[process[p].config.id] = process[p].config.key
        \/ \E q \in Processes :
              /\ process[q].config.id = process[p].config.id
              /\ \/ Kind(q) = "keys"
                 \/ Kind(q) = "init" /\ ~process[q].known /\ process[q].config.id # 0
=============================================================================
