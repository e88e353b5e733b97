--------------------------- MODULE HubSetupProofs ---------------------------
(***************************************************************************)
(* Theorems about HubSetup, for every number of processes and every bound: *)
(* its type invariant, that no key is registered which has not been saved, *)
(* that an identity is replaced knowingly, and that a hub which runs with  *)
(* the gateway's key is registered.                                        *)
(***************************************************************************)
EXTENDS HubSetup, TLAPS

\* What a process is at when the key it holds must be one that was saved.
Trusting == {"ask", "url", "register", "http", "prompt", "auto", "common", "again", "info",
             "running"}

Pair(c) == <<c.id, c.key>>

\* A configuration of which n numbers have been generated.
Generated(c, n) == c \in Configs /\ c.id \in 0 .. n /\ c.key \in 0 .. n

Records == [kind : AllKinds \cup {"none"}, step : Steps, config : Configs,
            then : Steps, else : Steps, known : BOOLEAN]

\* A process at r is sound if n numbers have been generated and s was saved.
Sound(r, n, s) ==
    /\ r \in Records
    /\ Generated(r.config, n)
    /\ r.kind \in {"none", "generate"} =>
          r.step \in {"new", "open", "write", "done"} /\ r.then = "done" /\ r.else = "done"
    /\ r.step \in Trusting \/ r.else \in Trusting => Pair(r.config) \in s

\* The inductive invariant: besides the types, the file holds a key that was
\* saved if it loads, and every process is sound.
SetupInv ==
    /\ file \in {Absent, Damaged} \/ Generated(file, fresh)
    /\ file.loadable => Pair(file) \in saved
    /\ registered \in [Fresh -> Fresh \cup {-1}]
    /\ DOMAIN process = Processes
    /\ process = [p \in Processes |-> process[p]]
    /\ \A p \in Processes : Sound(process[p], fresh, saved)
    /\ fresh \in Fresh /\ configures \in 0 .. MaxConfigures
    /\ saved \subseteq (0 .. fresh) \X (0 .. fresh)
    /\ seen \in [Processes -> Files]
    /\ KeySavedBeforeRegistered

LEMMA SetupInvImpliesType == ASSUME SetupInv PROVE TypeOK
<1>1. Absent \in Files /\ Damaged \in Files BY DEF Files
<1>2. file \in Files BY <1>1 DEF SetupInv, Generated, Files
<1>3. process \in [Processes -> Records] BY DEF SetupInv, Sound
<1> QED BY <1>2, <1>3 DEF SetupInv, TypeOK, Records

LEMMA SetupInit == ASSUME Init PROVE SetupInv
<1>0. Absent.loadable = FALSE BY DEF Absent
<1>1. Sound(New, 0, {})
  BY SetupAssumption DEF Sound, New, Records, AllKinds, Steps, Template, Configs, Fresh,
                         Generated, Trusting
<1>2. 0 \in Fresh BY SetupAssumption DEF Fresh
<1> QED BY <1>0, <1>1, <1>2, SetupAssumption DEF Init, SetupInv, Fresh, Files, KeySavedBeforeRegistered

-----------------------------------------------------------------------------
(* How a process goes on *)

\* What a process that is sound leaves when it ends is sound.
LEMMA EndedIsSound ==
    ASSUME NEW n \in Nat, NEW s, NEW r, Sound(r, n, s)
    PROVE  Sound(Ended(r), n, s)
<1> SUFFICES Ended(r) \in Records /\ Generated(Ended(r).config, n)
             /\ Ended(r).step = "done" /\ Ended(r).then = "done" /\ Ended(r).else = "done"
  BY DEF Sound, Trusting
<1>1. r \in Records /\ r.config \in Configs /\ r.config.id \in 0 .. n
  BY DEF Sound, Generated
<1>3. 0 \in Fresh /\ 0 \in 0 .. n BY SetupAssumption DEF Fresh
<1> DEFINE c == [Template EXCEPT !.id = r.config.id]
<1>2. c \in Configs /\ c.id = r.config.id /\ c.key = 0
  BY <1>1, <1>3 DEF Template, Configs
<1>5. New \in Records /\ New.then = "done" /\ New.else = "done"
  BY <1>3, SetupAssumption DEF New, Records, Steps, Template, Configs
<1>6. Ended(r) = [New EXCEPT !.step = "done", !.kind = r.kind, !.known = r.known, !.config = c]
  BY DEF Ended
<1> HIDE DEF c
<1>4. Ended(r) \in Records /\ Ended(r).config = c /\ Ended(r).step = "done"
      /\ Ended(r).then = "done" /\ Ended(r).else = "done"
  BY <1>1, <1>2, <1>5, <1>6 DEF Records, Steps
<1> QED BY <1>1, <1>2, <1>3, <1>4 DEF Generated

\* Soundness survives more numbers and more saves.
LEMMA SoundGrows ==
    ASSUME NEW n \in Nat, NEW m \in Nat, n <= m, NEW s, NEW t, s \subseteq t,
           NEW r, Sound(r, n, s)
    PROVE  Sound(r, m, t)
BY DEF Sound, Generated

\* A process goes on soundly with another step for which nothing must be saved,
\* or with one that trusts the key if that was saved.
LEMMA StepIsSound ==
    ASSUME NEW n \in Nat, NEW s, NEW r, Sound(r, n, s), NEW step \in Steps,
           r.kind \notin {"none", "generate"} \/ step = "done",
           step \in Trusting => Pair(r.config) \in s
    PROVE  Sound(Step(r, step), n, s)
<1>1. r \in Records BY DEF Sound
<1>2. /\ Step(r, step) \in Records /\ Step(r, step).step = step
      /\ Step(r, step).kind = r.kind /\ Step(r, step).config = r.config
      /\ Step(r, step).then = r.then /\ Step(r, step).else = r.else
  BY <1>1 DEF Step, Records
<1> QED BY <1>2 DEF Sound

\* It saves soundly any configuration that was generated, if it does not trust
\* the key when that fails.
LEMMA SavingIsSound ==
    ASSUME NEW n \in Nat, NEW s, NEW r, Sound(r, n, s), NEW c, Generated(c, n),
           NEW then \in Steps, NEW else \in Steps,
           r.kind \notin {"none", "generate"} \/ (then = "done" /\ else = "done"),
           else \in Trusting => Pair(c) \in s
    PROVE  Sound(Saving(r, c, then, else), n, s)
<1> DEFINE w == Saving(r, c, then, else)
<1>1. r \in Records /\ c \in Configs BY DEF Sound, Generated
<1>2. /\ w \in Records /\ w.step = "open" /\ w.kind = r.kind
      /\ w.config = c /\ w.then = then /\ w.else = else
  BY <1>1 DEF Saving, Records, Steps
<1>3. "open" \notin Trusting BY DEF Trusting
<1> HIDE DEF w
<1>4. Sound(w, n, s) BY <1>2, <1>3 DEF Sound
<1> QED BY <1>4 DEF w

\* One process goes on soundly and the others are as they were.
LEMMA SetKeepsSound ==
    ASSUME SetupInv, NEW p \in Processes, NEW r, Set(p, r), Sound(r, fresh', saved'),
           fresh' \in Nat, fresh <= fresh', saved \subseteq saved'
    PROVE  /\ DOMAIN process' = Processes
           /\ process' = [q \in Processes |-> process'[q]]
           /\ \A q \in Processes : Sound(process'[q], fresh', saved')
<1>0. fresh \in Nat BY SetupAssumption DEF SetupInv, Fresh
<1>1. ASSUME NEW q \in Processes PROVE Sound(process[q], fresh', saved')
  BY <1>0, SoundGrows DEF SetupInv
<1>2. Sound(Ended(r), fresh', saved') BY EndedIsSound
<1> QED BY <1>1, <1>2 DEF SetupInv, Set

\* A step that writes nothing and registers nothing keeps the invariant if the
\* process goes on soundly.
LEMMA QuietStep ==
    ASSUME SetupInv, NEW p \in Processes, NEW r, Set(p, r), Sound(r, fresh', saved),
           fresh' \in Fresh, fresh <= fresh', configures' \in 0 .. MaxConfigures,
           UNCHANGED <<file, registered, saved>>, seen' \in [Processes -> Files]
    PROVE  SetupInv'
<1>0. fresh \in Nat /\ fresh' \in Nat /\ saved' = saved
  BY SetupAssumption DEF SetupInv, Fresh
<1>1. /\ DOMAIN process' = Processes
      /\ process' = [q \in Processes |-> process'[q]]
      /\ \A q \in Processes : Sound(process'[q], fresh', saved')
  BY <1>0, SetKeepsSound
<1>2. file' \in {Absent, Damaged} \/ Generated(file', fresh')
  BY <1>0 DEF SetupInv, Generated
<1>3. saved' \subseteq (0 .. fresh') \X (0 .. fresh')
  BY <1>0 DEF SetupInv
<1>4. KeySavedBeforeRegistered'
  BY DEF SetupInv, KeySavedBeforeRegistered
<1>5. file'.loadable => Pair(file') \in saved'
  BY DEF SetupInv
<1>6. registered' \in [Fresh -> Fresh \cup {-1}] BY DEF SetupInv
<1> QED BY <1>1, <1>2, <1>3, <1>4, <1>5, <1>6 DEF SetupInv

-----------------------------------------------------------------------------
(* The steps of the commands *)

\* What the invariant says of one process.
LEMMA OfProcess ==
    ASSUME SetupInv, NEW p \in Processes
    PROVE  /\ Sound(process[p], fresh, saved)
           /\ process[p] \in Records /\ Generated(process[p].config, fresh)
           /\ fresh \in Nat /\ fresh \in Fresh
           /\ configures \in 0 .. MaxConfigures /\ seen \in [Processes -> Files]
BY SetupAssumption DEF SetupInv, Sound, Fresh

\* A process that goes from where it is to another step.
LEMMA GoesSoundly ==
    ASSUME SetupInv, NEW p \in Processes, NEW step \in Steps, GoTo(p, step),
           process[p].kind \notin {"none", "generate"} \/ step = "done",
           step \in Trusting => Pair(process[p].config) \in saved,
           UNCHANGED <<file, registered, saved, seen>>,
           fresh' \in Fresh, fresh <= fresh', configures' \in 0 .. MaxConfigures
    PROVE  SetupInv'
<1> DEFINE r == Step(process[p], step)
<1>1. fresh \in Nat /\ fresh' \in Nat BY SetupAssumption DEF SetupInv, Fresh
<1>2. Sound(process[p], fresh', saved) BY <1>1, OfProcess, SoundGrows
<1>3. Sound(r, fresh', saved) BY <1>1, <1>2, StepIsSound
<1>4. Set(p, r) BY DEF GoTo, Step
<1>5. seen' \in [Processes -> Files] BY DEF SetupInv
<1> HIDE DEF r
<1> QED BY <1>3, <1>4, <1>5, QuietStep

\* A process that goes on to save a configuration.
LEMMA SavesSoundly ==
    ASSUME SetupInv, NEW p \in Processes, NEW c,
           NEW then \in Steps, NEW else \in Steps,
           Set(p, Saving(process[p], c, then, else)),
           fresh' \in Fresh, fresh <= fresh', Generated(c, fresh'),
           process[p].kind \notin {"none", "generate"},
           else \in Trusting => Pair(c) \in saved,
           UNCHANGED <<file, registered, saved, seen>>, configures' \in 0 .. MaxConfigures
    PROVE  SetupInv'
<1> DEFINE r == Saving(process[p], c, then, else)
<1>1. fresh \in Nat /\ fresh' \in Nat BY SetupAssumption DEF SetupInv, Fresh
<1>2. Sound(process[p], fresh', saved) BY <1>1, OfProcess, SoundGrows
<1>3. Sound(r, fresh', saved) BY <1>1, <1>2, SavingIsSound
<1>4. seen' \in [Processes -> Files] BY DEF SetupInv
<1> HIDE DEF r
<1> QED BY <1>3, <1>4, QuietStep DEF r

\* A process has a kind once it has begun, and of those that generate a
\* configuration it is known what they do.
LEMMA HasKind ==
    ASSUME SetupInv, NEW p \in Processes,
           process[p].step \notin {"new", "open", "write", "done"}
    PROVE  process[p].kind \in AllKinds \ {"generate"}
BY OfProcess DEF Sound, Records

\* A generated configuration, changed in its flags.
LEMMA FlagsKeep ==
    ASSUME NEW n \in Nat, NEW c, Generated(c, n), NEW b \in BOOLEAN
    PROVE  /\ Generated([c EXCEPT !.gateway = b], n) /\ Pair([c EXCEPT !.gateway = b]) = Pair(c)
           /\ Generated([c EXCEPT !.loadable = b], n) /\ Pair([c EXCEPT !.loadable = b]) = Pair(c)
BY DEF Generated, Configs, Pair

\* What is generated is generated.
LEMMA Generating ==
    ASSUME SetupInv, Generates
    PROVE  /\ fresh' \in Fresh /\ fresh <= fresh'
           /\ \A g \in BOOLEAN : Generated(WithKeys(g), fresh')
           /\ \A c : Generated(c, fresh) => Generated([c EXCEPT !.key = fresh + 1], fresh')
           /\ Generated([Template EXCEPT !.key = fresh + 1], fresh')
<1>1. fresh \in Nat /\ fresh < MaxFresh /\ fresh' = fresh + 1
  BY SetupAssumption DEF SetupInv, Generates, Fresh
<1>2. fresh' \in Fresh /\ fresh <= fresh' BY <1>1, SetupAssumption DEF Fresh
<1>3. ASSUME NEW g \in BOOLEAN PROVE Generated(WithKeys(g), fresh')
  <2>1. Template \in Configs BY SetupAssumption DEF Template, Configs, Fresh
  <2>2. fresh + 1 \in Fresh BY <1>1, SetupAssumption DEF Fresh
  <2>3. WithKeys(g) \in Configs /\ WithKeys(g).id = fresh + 1 /\ WithKeys(g).key = fresh + 1
    BY <2>1, <2>2 DEF WithKeys, Configs
  <2> QED BY <1>1, <2>3 DEF Generated
<1>4. ASSUME NEW c, Generated(c, fresh)
      PROVE  Generated([c EXCEPT !.key = fresh + 1], fresh')
  BY <1>1, <1>4, SetupAssumption DEF Generated, Configs, Fresh
<1>5. Generated(Template, fresh)
  BY <1>1, SetupAssumption DEF Generated, Template, Configs, Fresh
<1>6. Generated([Template EXCEPT !.key = fresh + 1], fresh')
  BY <1>4, <1>5
<1> QED BY <1>2, <1>3, <1>4, <1>6

LEMMA BeginStep == ASSUME SetupInv, NEW p \in Processes, Begin(p) PROVE SetupInv'
<1>1. fresh \in Nat /\ fresh \in Fresh /\ configures \in 0 .. MaxConfigures
  BY OfProcess
<1>2. \A n \in Nat : Generated(Template, n)
  BY SetupAssumption DEF Generated, Template, Configs, Fresh
<1>3. ASSUME NEW n \in Nat, NEW k \in AllKinds PROVE Sound(Run(k), n, saved)
  <2>1. Template \in Configs BY <1>2 DEF Generated
  <2>2. /\ New \in Records /\ New.step = "new" /\ New.config = Template
        /\ New.then = "done" /\ New.else = "done"
    BY <2>1 DEF New, Records, Steps
  <2>3. /\ Run(k) \in Records /\ Run(k).step = "new" /\ Run(k).config = Template
        /\ Run(k).then = "done" /\ Run(k).else = "done"
    BY <2>2 DEF Run, Records
  <2> QED BY <1>2, <2>3 DEF Sound, Trusting
<1>4. ASSUME NEW r, Starts(p, r), fresh' \in Fresh, fresh <= fresh', Sound(r, fresh', saved)
      PROVE  SetupInv'
  <2>1. file \in Files BY DEF SetupInv, Files, Generated
  <2>2. seen' \in [Processes -> Files] BY <2>1, <1>4 DEF SetupInv, Starts
  <2> QED BY <1>1, <1>4, <2>2, QuietStep DEF Starts
<1>5. fresh' \in Fresh => fresh' \in Nat BY SetupAssumption DEF Fresh
<1>6. ASSUME NEW k \in AllKinds \ {"generate"}, NEW step \in {"load", "discover"}, UNCHANGED fresh,
             Starts(p, [Run(k) EXCEPT !.step = step])
      PROVE  SetupInv'
  <2>1. Run(k).kind = k BY DEF Run, New
  <2>2. k \notin {"none", "generate"} BY DEF AllKinds
  <2>3. Sound(Step(Run(k), step), fresh, saved)
    BY <1>1, <1>3, <2>1, <2>2, StepIsSound DEF Steps, Trusting
  <2>4. Sound([Run(k) EXCEPT !.step = step], fresh, saved) BY <2>3 DEF Step
  <2> QED BY <1>1, <1>4, <1>6, <2>4
<1>7. ASSUME NEW k \in AllKinds, NEW c, NEW then \in {"ask", "register", "edit", "done"},
             fresh' \in Fresh, fresh <= fresh', Generated(c, fresh'),
             k # "generate" \/ then = "done",
             Starts(p, Saving(Run(k), c, then, "done"))
      PROVE  SetupInv'
  <2>1. Run(k).kind = k BY DEF Run, New
  <2>2. k # "none" BY DEF AllKinds
  <2>4. then \in Steps /\ "done" \in Steps /\ "done" \notin Trusting BY DEF Steps, Trusting
  <2>5. k \notin {"none", "generate"} \/ (then = "done" /\ "done" = "done") BY <1>7, <2>2
  <2>3. Sound(Saving(Run(k), c, then, "done"), fresh', saved)
    BY <1>3, <1>5, <1>7, <2>1, <2>4, <2>5, SavingIsSound
  <2> QED BY <1>4, <1>7, <2>3
<1>8. CASE BeginHub(p)
  BY <1>6, <1>7, <1>8, Generating DEF BeginHub, AllKinds, Loading
<1>9. CASE BeginInit(p)
  BY <1>6, <1>9 DEF BeginInit, AllKinds, Loading
<1>10. CASE BeginRegister(p)
  BY <1>6, <1>10 DEF BeginRegister, AllKinds, Loading
<1>11. CASE BeginKeys(p)
  BY <1>6, <1>7, <1>11, Generating DEF BeginKeys, AllKinds, Loading
<1>12. CASE BeginGenerate(p)
  BY <1>1, <1>2, <1>7, <1>12 DEF BeginGenerate, AllKinds
<1>13. CASE BeginEdit(p)
  <2>1. CASE file = Absent
    <3>1. Starts(p, Saving(Run("edit"), Template, "edit", "done")) /\ UNCHANGED fresh
      BY <1>13, <2>1 DEF BeginEdit
    <3> QED BY <1>1, <1>2, <1>7, <3>1 DEF AllKinds
  <2>2. CASE file # Absent
    BY <1>6, <1>13, <2>2 DEF BeginEdit, AllKinds, Loading
  <2> QED BY <2>1, <2>2
<1> QED BY <1>8, <1>9, <1>10, <1>11, <1>12, <1>13 DEF Begin

LEMMA LoadStep == ASSUME SetupInv, NEW p \in Processes, Load(p) PROVE SetupInv'
<1>1. /\ process[p].kind \in AllKinds \ {"generate"} /\ process[p].kind # "none"
  BY HasKind DEF Load, At, AllKinds
<1>2. file \in Files BY DEF SetupInv, Files, Generated
<1>3. seen' \in [Processes -> Files] BY <1>2 DEF SetupInv, Load
<1>4. fresh \in Nat /\ fresh \in Fresh /\ configures \in 0 .. MaxConfigures
      /\ Sound(process[p], fresh, saved)
  BY OfProcess
<1>5. CASE GoTo(p, "done")
  <2>1. Sound(Step(process[p], "done"), fresh, saved)
    BY <1>4, StepIsSound DEF Steps, Trusting
  <2>2. Set(p, Step(process[p], "done")) BY <1>5 DEF GoTo, Step
  <2> QED BY <1>3, <1>4, <2>1, <2>2, QuietStep DEF Load
<1>6. CASE /\ Loads
           /\ Set(p, [process[p] EXCEPT !.config = file, !.step = Next1(Kind(p), file)])
  <2> DEFINE k == process[p].kind
             r == [process[p] EXCEPT !.config = file, !.step = Next1(k, file)]
  <2>1. Generated(file, fresh) /\ Pair(file) \in saved
    BY <1>6 DEF SetupInv, Loads, Absent, Damaged
  <2>2. Next1(k, file) \in Steps \ {"new"}
    BY <1>1 DEF Next1, AllKinds, Steps
  <2>3. process[p] \in Records /\ file \in Configs BY <1>4, <2>1 DEF Sound, Generated
  <2> HIDE DEF k
  <2>4. r \in Records /\ r.config = file /\ r.kind = process[p].kind
    BY <2>2, <2>3 DEF Records
  <2>5. Sound(r, fresh, saved) BY <1>1, <2>1, <2>4 DEF Sound
  <2>6. Set(p, r) BY <1>6 DEF Kind, k
  <2> HIDE DEF r
  <2> QED BY <1>3, <1>4, <2>5, <2>6, QuietStep DEF Load
<1> QED BY <1>5, <1>6 DEF Load, Refused

LEMMA DiscoverStep == ASSUME SetupInv, NEW p \in Processes, Discover(p) PROVE SetupInv'
<1>1. process[p].kind \notin {"none", "generate"}
  BY HasKind DEF Discover, At, AllKinds
<1>2. Generates /\ configures' \in 0 .. MaxConfigures BY DEF Discover, SetupInv
<1>3. PICK found \in BOOLEAN :
         Set(p, Saving(process[p], WithKeys(found), IF found THEN "register" ELSE "done", "done"))
  BY DEF Discover, CheckGateway
<1> DEFINE then == IF found THEN "register" ELSE "done"
<1>4. then \in Steps /\ "done" \in Steps /\ "done" \notin Trusting BY DEF Steps, Trusting
<1>5. Set(p, Saving(process[p], WithKeys(found), then, "done")) BY <1>3
<1>6. UNCHANGED <<file, registered, saved, seen>> BY DEF Discover
<1> HIDE DEF then
<1> QED BY <1>1, <1>2, <1>4, <1>5, <1>6, Generating, SavesSoundly

LEMMA ConfirmStep == ASSUME SetupInv, NEW p \in Processes, Confirm(p) PROVE SetupInv'
<1>1. process[p].kind \notin {"none", "generate"}
  BY HasKind DEF Confirm, At, AllKinds
<1>2. fresh \in Fresh /\ fresh \in Nat /\ configures' \in 0 .. MaxConfigures
  BY OfProcess DEF Confirm
<1>3. UNCHANGED <<file, registered, saved, seen>> BY DEF Confirm
<1>4. "register" \in Steps /\ "done" \in Steps /\ "done" \notin Trusting BY DEF Steps, Trusting
<1>5. CASE /\ Generates
           /\ Set(p, Saving(process[p], [process[p].config EXCEPT !.key = fresh + 1],
                            "register", "done"))
  BY <1>1, <1>2, <1>3, <1>4, <1>5, OfProcess, Generating, SavesSoundly
<1>6. CASE GoTo(p, "done") /\ UNCHANGED fresh
  BY <1>2, <1>3, <1>4, <1>6, GoesSoundly
<1> QED BY <1>5, <1>6 DEF Confirm

LEMMA EditStep ==
    ASSUME SetupInv, NEW p \in Processes, NEW ok \in BOOLEAN, Edits(p, ok) PROVE SetupInv'
<1>1. process[p].kind \notin {"none", "generate"}
  BY HasKind DEF Edits, At, AllKinds
<1>2. fresh \in Fresh /\ fresh \in Nat /\ configures' \in 0 .. MaxConfigures
      /\ UNCHANGED fresh
  BY OfProcess DEF Edits
<1>3. UNCHANGED <<file, registered, saved, seen>> BY DEF Edits
<1>4. "done" \in Steps /\ "done" \notin Trusting BY DEF Steps, Trusting
<1>5. CASE Set(p, Saving(process[p], [process[p].config EXCEPT !.loadable = ok], "done", "done"))
  <2> DEFINE c == [process[p].config EXCEPT !.loadable = ok]
  <2>1. Generated(c, fresh') BY <1>2, OfProcess, FlagsKeep
  <2>2. Set(p, Saving(process[p], c, "done", "done")) BY <1>5
  <2> HIDE DEF c
  <2> QED BY <1>1, <1>2, <1>3, <1>4, <2>1, <2>2, SavesSoundly
<1>6. CASE GoTo(p, "done")
  BY <1>2, <1>3, <1>4, <1>6, GoesSoundly
<1> QED BY <1>5, <1>6 DEF Edits

\* The questions about the gateway lead from one trusting step to another, or to
\* the end or a load.
LEMMA AskStep ==
    ASSUME SetupInv, NEW p \in Processes,
           Ask(p) \/ AskURL(p) \/ DiscoverHTTP(p) \/ Prompt(p) \/ GivenURL(p)
    PROVE  SetupInv'
<1>1. process[p].step \in Trusting
  BY DEF Ask, AskURL, DiscoverHTTP, Prompt, GivenURL, At, Trusting
<1>2. Pair(process[p].config) \in saved /\ process[p].kind \notin {"none", "generate"}
  BY <1>1, OfProcess DEF Sound, Trusting
<1> DEFINE after == {"done", "url", "register", "load", "auto", "prompt", "common"}
<1>3. after \subseteq Steps BY DEF Steps
<1>4. fresh \in Fresh /\ fresh \in Nat /\ configures' \in 0 .. MaxConfigures
      /\ UNCHANGED <<fresh, file, registered, saved, seen>>
  BY OfProcess DEF Ask, AskURL, DiscoverHTTP, Prompt, GivenURL
<1>5. \E step \in after : GoTo(p, step)
  BY DEF Ask, AskURL, DiscoverHTTP, Prompt, GivenURL, OnFound, OnMissed
<1> QED BY <1>2, <1>3, <1>4, <1>5, GoesSoundly

LEMMA EndStep == ASSUME SetupInv, NEW p \in Processes, End(p) PROVE SetupInv'
<1>1. "done" \in Steps /\ "done" \notin Trusting BY DEF Steps, Trusting
<1>2. fresh \in Fresh /\ fresh \in Nat /\ configures' \in 0 .. MaxConfigures
      /\ UNCHANGED <<fresh, file, registered, saved, seen>>
  BY OfProcess DEF End
<1> QED BY <1>1, <1>2, GoesSoundly DEF End

-----------------------------------------------------------------------------
(* The steps of a save *)

\* After its save, or without one, a process goes on soundly if its key is saved
\* when it must be.
LEMMA GoesIsSound ==
    ASSUME NEW n \in Nat, NEW s, NEW r, Sound(r, n, s), r.step \in {"open", "write"},
           NEW step \in {r.then, r.else},
           step \in Trusting => Pair(r.config) \in s
    PROVE  Sound(Goes(r, step), n, s)
<1>1. r \in Records /\ step \in Steps BY DEF Sound, Records
<1>2. Goes(r, step) = [r EXCEPT !.step = step, !.then = "done", !.else = "done"] BY DEF Goes
<1>3. Goes(r, step) \in Records /\ Goes(r, step).step = step /\ Goes(r, step).kind = r.kind
      /\ Goes(r, step).config = r.config
      /\ Goes(r, step).then = "done" /\ Goes(r, step).else = "done"
  BY <1>1, <1>2 DEF Records, Steps
<1> QED BY <1>1, <1>3 DEF Sound, Trusting

\* A step that leaves the file damaged, or as it was, keeps the invariant.
LEMMA DamageStep ==
    ASSUME SetupInv, NEW p \in Processes, NEW r, Set(p, r), Sound(r, fresh, saved),
           file' \in {Damaged, file}, UNCHANGED <<registered, fresh, configures, saved, seen>>
    PROVE  SetupInv'
<1>1. fresh \in Nat /\ fresh' = fresh /\ saved' = saved BY OfProcess
<1>2. /\ DOMAIN process' = Processes
      /\ process' = [q \in Processes |-> process'[q]]
      /\ \A q \in Processes : Sound(process'[q], fresh', saved')
  BY <1>1, SetKeepsSound
<1>3. Damaged.loadable = FALSE BY DEF Damaged
<1>4. KeySavedBeforeRegistered' BY DEF SetupInv, KeySavedBeforeRegistered
<1> QED BY <1>1, <1>2, <1>3, <1>4 DEF SetupInv

LEMMA TruncateStep == ASSUME SetupInv, NEW p \in Processes, Truncate(p) PROVE SetupInv'
<1>1. Sound(process[p], fresh, saved) /\ fresh \in Nat /\ process[p] \in Records
  BY OfProcess
<1>2. process[p].step = "open" BY DEF Truncate, At
<1>3. CASE file' = Damaged /\ GoTo(p, "write")
  <2> DEFINE r == Step(process[p], "write")
  <2>1. r \in Records /\ r.step = "write" /\ r.kind = process[p].kind
        /\ r.config = process[p].config /\ r.then = process[p].then /\ r.else = process[p].else
    BY <1>1 DEF Step, Records, Steps
  <2> HIDE DEF r
  <2>2. Sound(r, fresh, saved) BY <1>1, <1>2, <2>1 DEF Sound, Trusting
  <2>3. Set(p, r) BY <1>3 DEF GoTo, Step, r
  <2> QED BY <1>3, <2>2, <2>3, DamageStep DEF Truncate
<1>4. CASE UNCHANGED file /\ Set(p, Goes(process[p], AfterFailedSave(process[p])))
  <2>1. Sound(Goes(process[p], AfterFailedSave(process[p])), fresh, saved)
    BY <1>1, <1>2, GoesIsSound DEF AfterFailedSave, Sound
  <2> QED BY <1>4, <2>1, DamageStep DEF Truncate
<1> QED BY <1>3, <1>4 DEF Truncate

LEMMA WriteFailsStep == ASSUME SetupInv, NEW p \in Processes, WriteFails(p) PROVE SetupInv'
<1>1. Sound(process[p], fresh, saved) /\ fresh \in Nat BY OfProcess
<1>2. process[p].step = "write" BY DEF WriteFails, At
<1>3. Sound(Goes(process[p], AfterFailedSave(process[p])), fresh, saved)
  BY <1>1, <1>2, GoesIsSound DEF AfterFailedSave, Sound
<1> QED BY <1>3, DamageStep DEF WriteFails

LEMMA WriteStep == ASSUME SetupInv, NEW p \in Processes, Write(p) PROVE SetupInv'
<1> DEFINE c == process[p].config
           r == Goes(process[p], process[p].then)
<1>1. Sound(process[p], fresh, saved) /\ fresh \in Nat /\ Generated(c, fresh) BY OfProcess
<1>2. saved' = saved \cup {Pair(c)} /\ fresh' = fresh BY DEF Write, Pair
<1>3. Sound(process[p], fresh, saved') BY <1>1, <1>2, SoundGrows
<1>4. Sound(r, fresh, saved') BY <1>1, <1>2, <1>3, GoesIsSound DEF Write, At
<1>5. Set(p, r) BY DEF Write
<1> HIDE DEF r
<1>6. /\ DOMAIN process' = Processes
      /\ process' = [q \in Processes |-> process'[q]]
      /\ \A q \in Processes : Sound(process'[q], fresh', saved')
  BY <1>1, <1>2, <1>4, <1>5, SetKeepsSound
<1>7. file' \in {c, Damaged} /\ UNCHANGED <<registered, configures, seen>> BY DEF Write
<1>8. Damaged.loadable = FALSE BY DEF Damaged
<1>9. Pair(c) \in (0 .. fresh) \X (0 .. fresh) BY <1>1 DEF Pair, Generated
<1>10. KeySavedBeforeRegistered' BY <1>2, <1>7 DEF SetupInv, KeySavedBeforeRegistered
<1> HIDE DEF c
<1> QED BY <1>1, <1>2, <1>6, <1>7, <1>8, <1>9, <1>10 DEF SetupInv

-----------------------------------------------------------------------------
(* The steps of a registration *)

\* Only what was saved is registered, whatever comes of it.
LEMMA RegistrationStep ==
    ASSUME SetupInv, NEW p \in Processes, Pair(process[p].config) \in saved,
           NEW a, NEW b, Sound(a, fresh, saved), Sound(b, fresh, saved),
           RegisterWithGateway(p, a, b)
    PROVE  SetupInv'
<1>1. /\ fresh \in Nat /\ UNCHANGED <<file, fresh, configures, saved, seen>>
      /\ Generated(process[p].config, fresh)
  BY OfProcess DEF RegisterWithGateway
<1>2. Set(p, a) \/ Set(p, b) BY DEF RegisterWithGateway
<1>3. /\ DOMAIN process' = Processes
      /\ process' = [q \in Processes |-> process'[q]]
      /\ \A q \in Processes : Sound(process'[q], fresh', saved')
  BY <1>1, <1>2, SetKeepsSound
<1>4. CASE UNCHANGED registered
  BY <1>1, <1>3, <1>4 DEF SetupInv, KeySavedBeforeRegistered
<1>5. CASE registered' = [registered EXCEPT ![process[p].config.id] = process[p].config.key]
  <2>1. process[p].config.id \in Fresh /\ process[p].config.key \in Fresh
    BY <1>1 DEF Generated, Configs
  <2>2. registered' \in [Fresh -> Fresh \cup {-1}] BY <1>5, <2>1 DEF SetupInv
  <2>3. KeySavedBeforeRegistered'
    BY <1>1, <1>5, <2>1 DEF SetupInv, KeySavedBeforeRegistered, Pair
  <2> QED BY <1>1, <1>3, <2>2, <2>3 DEF SetupInv
<1> QED BY <1>4, <1>5 DEF RegisterWithGateway

\* A process that knows it is registered is as sound as it was, and it may have
\* the gateway's key.
LEMMA KnownIsSound ==
    ASSUME SetupInv, NEW p \in Processes
    PROVE  /\ Sound(Known(p), fresh, saved) /\ Known(p).kind = process[p].kind
           /\ Known(p).config = process[p].config /\ Known(p).step = process[p].step
           /\ Generated(WithGateway(p), fresh)
           /\ Pair(WithGateway(p)) = Pair(process[p].config)
<1>1. process[p] \in Records /\ Sound(process[p], fresh, saved) BY OfProcess
<1>2. Known(p) \in Records /\ Known(p).step = process[p].step
      /\ Known(p).kind = process[p].kind /\ Known(p).config = process[p].config
      /\ Known(p).then = process[p].then /\ Known(p).else = process[p].else
  BY <1>1 DEF Known, Records
<1>3. Sound(Known(p), fresh, saved) BY <1>1, <1>2 DEF Sound
<1> QED BY <1>2, <1>3, OfProcess, FlagsKeep DEF WithGateway

\* A process that trusts its key goes on to any step, or saves with the
\* gateway's key, soundly.
LEMMA TrustedGoesOn ==
    ASSUME SetupInv, NEW p \in Processes, process[p].step \in Trusting
    PROVE  /\ Pair(process[p].config) \in saved
           /\ process[p].kind \notin {"none", "generate"}
           /\ \A step \in Steps : Sound(Step(process[p], step), fresh, saved)
                                 /\ Sound(Step(Known(p), step), fresh, saved)
           /\ \A then \in Steps, else \in Steps :
                 /\ Sound(Saving(Known(p), WithGateway(p), then, else), fresh, saved)
                 /\ Sound(Saving(process[p], WithGateway(p), then, else), fresh, saved)
<1>1. Sound(process[p], fresh, saved) /\ fresh \in Nat BY OfProcess
<1>2. Pair(process[p].config) \in saved /\ process[p].kind \notin {"none", "generate"}
  BY <1>1 DEF Sound, Trusting
<1> QED BY <1>1, <1>2, KnownIsSound, StepIsSound, SavingIsSound

\* The registrations of hub, register, init and keys generate.
LEMMA RegisterStep ==
    ASSUME SetupInv, NEW p \in Processes,
           InteractiveRegister(p) \/ ManualRegister(p) \/ InitRegister(p) \/ KeysRegister(p)
    PROVE  SetupInv'
<1>1. process[p].step \in Trusting
  BY DEF InteractiveRegister, ManualRegister, InitRegister, KeysRegister, Registers, At, Trusting
<1>2. {"load", "info", "done"} \subseteq Steps BY DEF Steps
<1> QED BY <1>1, <1>2, TrustedGoesOn, RegistrationStep
         DEF InteractiveRegister, ManualRegister, InitRegister, KeysRegister

LEMMA AutoRegisterStep == ASSUME SetupInv, NEW p \in Processes, AutoRegister(p) PROVE SetupInv'
<1>1. process[p].step \in Trusting BY DEF AutoRegister, At, Trusting
<1>2. {"again", "common"} \subseteq Steps BY DEF Steps
<1> QED BY <1>1, <1>2, TrustedGoesOn, RegistrationStep DEF AutoRegister

LEMMA FallbackStep == ASSUME SetupInv, NEW p \in Processes, Fallback(p) PROVE SetupInv'
<1>1. process[p].step \in Trusting BY DEF Fallback, At, Trusting
<1>2. {"again", "running"} \subseteq Steps BY DEF Steps
<1>3. Sound(FallbackFails(p), fresh, saved) BY <1>1, <1>2, TrustedGoesOn DEF FallbackFails
<1>4. Sound(FallbackSucceeds(p), fresh, saved)
  <2> DEFINE c == WithGateway(p)
             r == [Known(p) EXCEPT !.step = "again", !.config = c]
  <2>1. Sound(Known(p), fresh, saved) /\ Known(p) \in Records /\ c \in Configs
        /\ Generated(c, fresh) /\ Pair(c) \in saved
        /\ Known(p).kind \notin {"none", "generate"}
    BY <1>1, KnownIsSound, TrustedGoesOn DEF Sound, Generated
  <2> HIDE DEF c
  <2>2. r \in Records /\ r.kind = Known(p).kind /\ r.config = c
    BY <1>2, <2>1 DEF Records
  <2>3. FallbackSucceeds(p) = r BY DEF FallbackSucceeds, c
  <2> QED BY <2>1, <2>2, <2>3 DEF Sound
<1> QED BY <1>1, <1>3, <1>4, TrustedGoesOn, RegistrationStep DEF Fallback

\* The steps beside a registration that only save or go on.
LEMMA TrustedStep ==
    ASSUME SetupInv, NEW p \in Processes,
           SkipRegister(p) \/ Info(p) \/ SaveAgain(p)
    PROVE  SetupInv'
<1>1. process[p].step \in Trusting
  BY DEF SkipRegister, Info, SaveAgain, Registers, At, Trusting
<1>2. {"running", "done"} \subseteq Steps BY DEF Steps
<1>3. /\ fresh \in Fresh /\ fresh \in Nat /\ configures' \in 0 .. MaxConfigures
      /\ UNCHANGED <<fresh, file, registered, saved, seen>>
  BY OfProcess DEF SkipRegister, Info, SaveAgain
<1>4. seen' \in [Processes -> Files] BY <1>3, OfProcess
<1>5. CASE GoTo(p, "done") BY <1>2, <1>3, <1>5, GoesSoundly DEF Trusting
<1>6. CASE Set(p, Saving(process[p], WithGateway(p), "done", "done"))
  <2>1. Sound(Saving(process[p], WithGateway(p), "done", "done"), fresh, saved)
    BY <1>1, <1>2, TrustedGoesOn
  <2> QED BY <1>3, <1>4, <1>6, <2>1, QuietStep
<1>7. CASE Set(p, Saving(process[p], process[p].config, "running", "running"))
  BY <1>1, <1>2, <1>3, <1>7, TrustedGoesOn, OfProcess, SavesSoundly
<1> QED BY <1>5, <1>6, <1>7 DEF SkipRegister, Info, SaveAgain

LEMMA ConfigureStep == ASSUME SetupInv, NEW p \in Processes, Configure(p) PROVE SetupInv'
<1>1. process[p].step \in Trusting /\ "running" \in Steps
  BY DEF Configure, At, Trusting, Steps
<1>2. PICK ok \in BOOLEAN :
         Set(p, Saving(process[p], [process[p].config EXCEPT !.loadable = ok],
                       "running", "running"))
  BY DEF Configure
<1> DEFINE c == [process[p].config EXCEPT !.loadable = ok]
<1>3. Generated(c, fresh) /\ Pair(c) \in saved BY <1>1, OfProcess, FlagsKeep, TrustedGoesOn
<1>4. Set(p, Saving(process[p], c, "running", "running")) BY <1>2
<1>5. /\ fresh \in Fresh /\ fresh \in Nat
      /\ UNCHANGED <<fresh, file, registered, saved, seen>>
  BY OfProcess DEF Configure
<1>6. configures' \in 0 .. MaxConfigures
  BY SetupAssumption, OfProcess DEF Configure
<1> HIDE DEF c
<1> QED BY <1>1, <1>3, <1>4, <1>5, <1>6, TrustedGoesOn, SavesSoundly

-----------------------------------------------------------------------------
(* The theorems *)

LEMMA SetupNext == ASSUME SetupInv, Next PROVE SetupInv'
<1>1. PICK p \in Processes :
        \/ Begin(p) \/ Load(p) \/ Discover(p) \/ Confirm(p)
        \/ AddDevice(p) \/ UpdateDevice(p) \/ RemoveDevice(p)
        \/ Truncate(p) \/ Write(p) \/ WriteFails(p)
        \/ Ask(p) \/ AskURL(p) \/ DiscoverHTTP(p) \/ Prompt(p) \/ GivenURL(p)
        \/ AutoRegister(p) \/ Fallback(p) \/ SaveAgain(p) \/ InteractiveRegister(p)
        \/ ManualRegister(p) \/ InitRegister(p) \/ KeysRegister(p) \/ SkipRegister(p) \/ Info(p)
        \/ Configure(p) \/ End(p)
  BY DEF Next
<1>2. CASE Begin(p) \/ Load(p) \/ Discover(p) \/ Confirm(p) \/ End(p)
  BY <1>2, BeginStep, LoadStep, DiscoverStep, ConfirmStep, EndStep
<1>9. CASE Ask(p) \/ AskURL(p) \/ DiscoverHTTP(p) \/ Prompt(p) \/ GivenURL(p)
  BY <1>9, AskStep
<1>3. CASE AddDevice(p) \/ UpdateDevice(p) \/ RemoveDevice(p)
  BY <1>3, EditStep DEF AddDevice, UpdateDevice, RemoveDevice
<1>4. CASE Truncate(p) \/ Write(p) \/ WriteFails(p)
  BY <1>4, TruncateStep, WriteStep, WriteFailsStep
<1>5. CASE InteractiveRegister(p) \/ ManualRegister(p) \/ InitRegister(p) \/ KeysRegister(p)
  BY <1>5, RegisterStep
<1>6. CASE AutoRegister(p) \/ Fallback(p) BY <1>6, AutoRegisterStep, FallbackStep
<1>7. CASE SkipRegister(p) \/ Info(p) \/ SaveAgain(p) BY <1>7, TrustedStep
<1>8. CASE Configure(p) BY <1>8, ConfigureStep
<1> QED BY <1>1, <1>2, <1>3, <1>4, <1>5, <1>6, <1>7, <1>8, <1>9

LEMMA SetupStutter == ASSUME SetupInv, UNCHANGED vars PROVE SetupInv'
BY DEF vars, SetupInv, KeySavedBeforeRegistered

\* SetupInv holds in every reachable state.
LEMMA SetupInvariant == Spec => []SetupInv
<1>1. Init => SetupInv BY SetupInit
<1>2. SetupInv /\ [Next]_vars => SetupInv' BY SetupNext, SetupStutter
<1> QED BY <1>1, <1>2, PTL DEF Spec

\* The variables keep their types, and no number is used before it was
\* generated, however many processes write the file (cmd/hub.go, internal/hub).
THEOREM SetupTypes == Spec => []TypeOK
<1>1. SetupInv => TypeOK BY SetupInvImpliesType
<1> QED BY <1>1, SetupInvariant, PTL

\* However writes are cut short, files overwritten and registrations lost, the
\* gateway knows a hub only by a key that was saved before.
THEOREM SavedBeforeRegistered == Spec => []KeySavedBeforeRegistered
<1>1. SetupInv => KeySavedBeforeRegistered BY DEF SetupInv
<1> QED BY <1>1, SetupInvariant, PTL

-----------------------------------------------------------------------------
(* That an identity is replaced knowingly *)

\* The record r is of a process that found the file f and may write what it has.
Aware(r, f) ==
    /\ r.then # "discover" /\ r.else # "discover"
    /\ r.step \notin {"new", "load", "done"} =>
          \/ r.kind = "generate" \/ f = Absent
          \/ f # Damaged /\ (f.key = 0 \/ (r.step # "discover" /\ f.id = r.config.id))

AllAware == \A p \in Processes : Aware(process[p], seen[p])

LEMMA AwareSet ==
    ASSUME SetupInv, AllAware, NEW p \in Processes, NEW r, Set(p, r), Aware(r, seen'[p]),
           \A q \in Processes : q # p => seen'[q] = seen[q]
    PROVE  AllAware'
<1>1. Aware(Ended(r), seen'[p]) BY DEF Aware, Ended, New
<1> QED BY <1>1 DEF Set, SetupInv, AllAware

\* A process that goes on, after it looked at the file, with the identity it had.
Keeps(p, r) ==
    /\ process[p].step \notin {"new", "load", "done", "discover"}
    /\ r.kind = process[p].kind /\ r.config.id = process[p].config.id
    /\ "discover" \notin {r.step, r.then, r.else}

LEMMA AwareGoesOn ==
    ASSUME SetupInv, AllAware, NEW p \in Processes, NEW r, Keeps(p, r), Set(p, r),
           UNCHANGED seen
    PROVE  AllAware'
<1>1. Aware(r, seen[p]) BY DEF AllAware, Aware, Keeps
<1> QED BY <1>1, AwareSet

\* It goes to another step, to a save, or from a save to what follows.
LEMMA KeepsForms ==
    ASSUME SetupInv, AllAware, NEW p \in Processes,
           process[p].step \notin {"new", "load", "done", "discover"}
    PROVE  /\ \A step \in Steps \ {"discover"} :
                 Keeps(p, Step(process[p], step)) /\ Keeps(p, Step(Known(p), step))
           /\ \A step \in {process[p].then, process[p].else} : Keeps(p, Goes(process[p], step))
<1>1. process[p] \in Records /\ Known(p) \in Records /\ Known(p).kind = process[p].kind
      /\ Known(p).config = process[p].config /\ Known(p).then = process[p].then
      /\ Known(p).else = process[p].else
  BY OfProcess DEF Known, Records
<1>2. process[p].then # "discover" /\ process[p].else # "discover"
  BY DEF AllAware, Aware
<1>3. ASSUME NEW r, r \in Records, r.kind = process[p].kind, r.config = process[p].config,
             r.then # "discover", r.else # "discover", NEW step \in Steps \ {"discover"}
      PROVE  Keeps(p, Step(r, step))
  BY <1>3 DEF Keeps, Step, Records
<1>5. ASSUME NEW step \in {process[p].then, process[p].else}
      PROVE  Keeps(p, Goes(process[p], step))
  BY <1>1, <1>2, <1>5 DEF Keeps, Goes, Records
<1> QED BY <1>1, <1>2, <1>3, <1>5

\* It saves a configuration with the identity it had.
LEMMA KeepsSaving ==
    ASSUME SetupInv, NEW p \in Processes,
           process[p].step \notin {"new", "load", "done", "discover"},
           NEW r \in {process[p], Known(p)}, NEW c, c.id = process[p].config.id,
           NEW then \in Steps \ {"discover"}, NEW else \in Steps \ {"discover"}
    PROVE  Keeps(p, Saving(r, c, then, else))
<1>1. r \in Records /\ r.kind = process[p].kind
  BY OfProcess DEF Known, Records
<1> QED BY <1>1 DEF Keeps, Saving, Records

\* A run of the program begins with the file it finds.
LEMMA AwareBegin ==
    ASSUME SetupInv, AllAware, NEW p \in Processes, Begin(p) PROVE AllAware'
<1>1. ASSUME NEW r, Starts(p, r), Aware(r, file) PROVE AllAware'
  <2>1. seen'[p] = file /\ \A q \in Processes : q # p => seen'[q] = seen[q]
    BY <1>1 DEF Starts, SetupInv
  <2> QED BY <1>1, <2>1, AwareSet DEF Starts
<1>2. ASSUME NEW k, NEW step \in {"load", "discover"}, step = "discover" => file = Absent
      PROVE  Aware([Run(k) EXCEPT !.step = step], file)
  BY <1>2 DEF Aware, Run, New
<1>3. ASSUME NEW k, NEW c, NEW then \in {"ask", "register", "edit", "done"},
             k = "generate" \/ file = Absent
      PROVE  Aware(Saving(Run(k), c, then, "done"), file)
  BY <1>3 DEF Aware, Saving, Run, New
<1>4. CASE BeginHub(p) BY <1>1, <1>2, <1>3, <1>4 DEF BeginHub, Loading
<1>5. CASE BeginInit(p)
  <2>1. CASE file = Absent BY <1>1, <1>2, <1>5, <2>1 DEF BeginInit
  <2>2. CASE file # Absent BY <1>1, <1>2, <1>5, <2>2 DEF BeginInit, Loading
  <2> QED BY <2>1, <2>2
<1>6. CASE BeginRegister(p) BY <1>1, <1>2, <1>6 DEF BeginRegister, Loading
<1>7. CASE BeginKeys(p) BY <1>1, <1>2, <1>3, <1>7 DEF BeginKeys, Loading
<1>8. CASE BeginGenerate(p) BY <1>1, <1>3, <1>8 DEF BeginGenerate
<1>9. CASE BeginEdit(p)
  <2>1. CASE file = Absent
    <3>1. Starts(p, Saving(Run("edit"), Template, "edit", "done")) BY <1>9, <2>1 DEF BeginEdit
    <3> QED BY <1>1, <1>3, <2>1, <3>1
  <2>2. CASE file # Absent BY <1>1, <1>2, <1>9, <2>2 DEF BeginEdit, Loading
  <2> QED BY <2>1, <2>2
<1> QED BY <1>4, <1>5, <1>6, <1>7, <1>8, <1>9 DEF Begin

LEMMA AwareLoad ==
    ASSUME SetupInv, AllAware, NEW p \in Processes, Load(p) PROVE AllAware'
<1>1. seen'[p] = file /\ \A q \in Processes : q # p => seen'[q] = seen[q]
  BY DEF Load, SetupInv
<1>2. process[p] \in Records /\ process[p].then # "discover" /\ process[p].else # "discover"
  BY OfProcess DEF AllAware, Aware
<1>3. CASE GoTo(p, "done")
  <2>1. Aware(Step(process[p], "done"), file) BY <1>2 DEF Aware, Step, Records
  <2>2. Set(p, Step(process[p], "done")) BY <1>3 DEF GoTo, Step
  <2> QED BY <1>1, <2>1, <2>2, AwareSet
<1>4. CASE /\ Loads
           /\ Set(p, [process[p] EXCEPT !.config = file, !.step = Next1(Kind(p), file)])
  <2> DEFINE k == process[p].kind
             step == Next1(k, file)
             r == [process[p] EXCEPT !.config = file, !.step = step]
  <2>1. file # Damaged BY <1>4 DEF Loads, Damaged
  <2>2. k \in AllKinds \ {"generate"} BY HasKind DEF Load, At
  <2>3. step = "discover" => file.key = 0 BY <2>2 DEF Next1, AllKinds
  <2> HIDE DEF step
  <2>4. r.config = file /\ r.step = step /\ r.then # "discover" /\ r.else # "discover"
    BY <1>2 DEF Records
  <2>5. Aware(r, file) BY <2>1, <2>3, <2>4 DEF Aware
  <2>6. Set(p, r) BY <1>4 DEF Kind, step
  <2> HIDE DEF r
  <2> QED BY <1>1, <2>5, <2>6, AwareSet
<1> QED BY <1>3, <1>4 DEF Load, Refused

\* init makes an identity, for a file that was not there or held placeholders.
LEMMA AwareDiscover ==
    ASSUME SetupInv, AllAware, NEW p \in Processes, Discover(p) PROVE AllAware'
<1>1. PICK found \in BOOLEAN :
         Set(p, Saving(process[p], WithKeys(found), IF found THEN "register" ELSE "done", "done"))
  BY DEF Discover, CheckGateway
<1> DEFINE then == IF found THEN "register" ELSE "done"
           c == WithKeys(found)
<1>2. then # "discover" /\ Set(p, Saving(process[p], c, then, "done")) BY <1>1
<1> HIDE DEF then, c
<1>3. /\ process[p] \in Records
      /\ process[p].kind = "generate" \/ seen[p] = Absent
         \/ (seen[p] # Damaged /\ seen[p].key = 0)
  BY OfProcess DEF Discover, At, AllAware, Aware
<1>4. Aware(Saving(process[p], c, then, "done"), seen[p])
  BY <1>2, <1>3 DEF Aware, Saving, Records
<1> QED BY <1>2, <1>4, AwareSet DEF Discover

\* Every other step goes on with the identity the process had.
LEMMA AwareStep ==
    ASSUME SetupInv, AllAware, NEW p \in Processes,
           \/ Confirm(p) \/ AddDevice(p) \/ UpdateDevice(p) \/ RemoveDevice(p)
           \/ Truncate(p) \/ Write(p) \/ WriteFails(p)
           \/ Ask(p) \/ AskURL(p) \/ DiscoverHTTP(p) \/ Prompt(p) \/ GivenURL(p)
           \/ AutoRegister(p) \/ Fallback(p) \/ SaveAgain(p) \/ InteractiveRegister(p)
           \/ ManualRegister(p) \/ InitRegister(p) \/ KeysRegister(p) \/ SkipRegister(p) \/ Info(p)
           \/ Configure(p)
    PROVE  AllAware'
<1>1. process[p].step \notin {"new", "load", "done", "discover"}
  BY DEF Confirm, AddDevice, UpdateDevice, RemoveDevice, Edits, Truncate, Write, WriteFails,
         Ask, AskURL, DiscoverHTTP, Prompt, GivenURL, AutoRegister, Fallback, SaveAgain,
         InteractiveRegister, ManualRegister, InitRegister, KeysRegister, SkipRegister, Info, Configure, Registers, At
<1>2. UNCHANGED seen
  BY DEF Confirm, AddDevice, UpdateDevice, RemoveDevice, Edits, Truncate, Write, WriteFails,
         Ask, AskURL, DiscoverHTTP, Prompt, GivenURL, AutoRegister, Fallback, SaveAgain,
         InteractiveRegister, ManualRegister, InitRegister, KeysRegister, SkipRegister, Info, Configure, RegisterWithGateway
<1>3. {"load", "done", "open", "write", "register", "again", "info", "running",
       "url", "auto", "prompt", "common"} \subseteq Steps \ {"discover"}
  BY DEF Steps
<1>4. \A n \in Fresh, b \in BOOLEAN :
         /\ [process[p].config EXCEPT !.key = n].id = process[p].config.id
         /\ [process[p].config EXCEPT !.gateway = b].id = process[p].config.id
         /\ [process[p].config EXCEPT !.loadable = b].id = process[p].config.id
  BY OfProcess DEF Generated, Configs
<1>5. WithGateway(p).id = process[p].config.id BY <1>4 DEF WithGateway
<1>6. ASSUME NEW step \in Steps \ {"discover"}, GoTo(p, step) PROVE AllAware'
  <2>1. Set(p, Step(process[p], step)) BY <1>6 DEF GoTo, Step
  <2> QED BY <1>1, <1>2, <2>1, KeepsForms, AwareGoesOn
<1>7. ASSUME NEW c, c.id = process[p].config.id, NEW then \in Steps \ {"discover"},
             NEW else \in Steps \ {"discover"}, Set(p, Saving(process[p], c, then, else))
      PROVE  AllAware'
  <2>1. Keeps(p, Saving(process[p], c, then, else)) BY <1>1, <1>7, KeepsSaving
  <2> QED BY <1>2, <1>7, <2>1, AwareGoesOn
<1>8. ASSUME NEW a, NEW b, Keeps(p, a), Keeps(p, b), RegisterWithGateway(p, a, b)
      PROVE  AllAware'
  BY <1>2, <1>8, AwareGoesOn DEF RegisterWithGateway
<1>9. CASE Confirm(p)
  <2>1. fresh + 1 \in Fresh \/ ~Generates BY Generating DEF Generates
  <2>2. CASE GoTo(p, "done") BY <1>3, <1>6, <2>2
  <2>3. CASE Set(p, Saving(process[p], [process[p].config EXCEPT !.key = fresh + 1],
                           "register", "done"))
    <3> DEFINE c == [process[p].config EXCEPT !.key = fresh + 1]
    <3>1. c.id = process[p].config.id BY OfProcess DEF Generated, Configs
    <3>2. Set(p, Saving(process[p], c, "register", "done")) BY <2>3
    <3> HIDE DEF c
    <3> QED BY <1>3, <1>7, <3>1, <3>2
  <2> QED BY <1>9, <2>2, <2>3 DEF Confirm
<1>10. ASSUME NEW ok \in BOOLEAN, NEW then \in {"done", "running"},
              Set(p, Saving(process[p], [process[p].config EXCEPT !.loadable = ok], then, then))
       PROVE  AllAware'
  <2> DEFINE c == [process[p].config EXCEPT !.loadable = ok]
  <2>1. c.id = process[p].config.id BY <1>4
  <2>2. Set(p, Saving(process[p], c, then, then)) BY <1>10
  <2> HIDE DEF c
  <2> QED BY <1>3, <1>7, <2>1, <2>2
<1>11. CASE AddDevice(p) \/ UpdateDevice(p) \/ RemoveDevice(p)
  BY <1>3, <1>6, <1>10, <1>11 DEF AddDevice, UpdateDevice, RemoveDevice, Edits
<1>12. CASE Configure(p) BY <1>10, <1>12 DEF Configure
<1>13. CASE Truncate(p) \/ Write(p) \/ WriteFails(p)
  <2>1. GoTo(p, "write") \/ \E step \in {process[p].then, process[p].else} :
                               Set(p, Goes(process[p], step))
    BY <1>13 DEF Truncate, Write, WriteFails, AfterFailedSave
  <2> QED BY <1>1, <1>2, <1>3, <1>6, <2>1, KeepsForms, AwareGoesOn
<1>14. CASE Ask(p) \/ AskURL(p) \/ DiscoverHTTP(p) \/ Prompt(p) \/ GivenURL(p)
  <2>1. \E step \in {"done", "url", "register", "load", "auto", "prompt", "common"} :
           GoTo(p, step)
    BY <1>14 DEF Ask, AskURL, DiscoverHTTP, Prompt, GivenURL, OnFound, OnMissed
  <2> QED BY <1>3, <1>6, <2>1
<1>15. CASE SkipRegister(p) BY <1>3, <1>6, <1>15 DEF SkipRegister
<1>16. CASE Info(p) BY <1>3, <1>5, <1>6, <1>7, <1>16 DEF Info
<1>17. CASE SaveAgain(p) BY <1>3, <1>7, <1>17 DEF SaveAgain
<1>18. CASE InteractiveRegister(p)
  <2>1. Keeps(p, Saving(Known(p), WithGateway(p), "load", "load"))
    BY <1>1, <1>3, <1>5, KeepsSaving
  <2>2. Keeps(p, Step(process[p], "load")) BY <1>1, <1>3, KeepsForms
  <2> QED BY <1>8, <1>18, <2>1, <2>2 DEF InteractiveRegister
<1>19. CASE ManualRegister(p) \/ InitRegister(p) \/ KeysRegister(p)
  BY <1>1, <1>3, <1>8, <1>19, KeepsForms DEF ManualRegister, InitRegister, KeysRegister
<1>20. CASE AutoRegister(p)
  <2>1. Keeps(p, Saving(Known(p), WithGateway(p), "again", "again"))
    BY <1>1, <1>3, <1>5, KeepsSaving
  <2>2. Keeps(p, Step(process[p], "common")) BY <1>1, <1>3, KeepsForms
  <2> QED BY <1>8, <1>20, <2>1, <2>2 DEF AutoRegister
<1>21. CASE Fallback(p)
  <2>1. Keeps(p, FallbackFails(p)) BY <1>1, <1>3, KeepsForms DEF FallbackFails
  <2>2. Keeps(p, FallbackSucceeds(p))
    <3>1. Keeps(p, Step(Known(p), "again")) /\ Known(p) \in Records
      BY <1>1, <1>3, KeepsForms, KnownIsSound DEF Sound
    <3> DEFINE c == WithGateway(p)
    <3>2. c.id = process[p].config.id BY <1>5
    <3> HIDE DEF c
    <3>3. FallbackSucceeds(p) = [Known(p) EXCEPT !.step = "again", !.config = c]
      BY DEF FallbackSucceeds, c
    <3> QED BY <3>1, <3>2, <3>3 DEF Keeps, Step, Records
  <2> QED BY <1>8, <1>21, <2>1, <2>2 DEF Fallback
<1> QED BY <1>9, <1>11, <1>12, <1>13, <1>14, <1>15, <1>16, <1>17, <1>18, <1>19, <1>20,
           <1>21

LEMMA AwareEnd == ASSUME SetupInv, AllAware, NEW p \in Processes, End(p) PROVE AllAware'
<1>1. process[p] \in Records BY OfProcess
<1>2. Aware(Step(process[p], "done"), seen[p])
  BY <1>1 DEF AllAware, Aware, Step, Records
<1>3. Set(p, Step(process[p], "done")) BY DEF End, GoTo, Step
<1> QED BY <1>2, <1>3, AwareSet DEF End

\* Whoever is about to write another identity than the one it found in the file
\* found no file or a placeholder, or is config generate: a file that was cut
\* short by another writer, or refused, is left alone (cmd/hub.go, config.go).
THEOREM ReplacedKnowingly == Spec => []IdentityIsReplacedKnowingly
<1>1. Init => AllAware BY DEF Init, AllAware, Aware, New
<1>2. SetupInv /\ AllAware /\ [Next]_vars => AllAware'
  <2>1. ASSUME SetupInv, AllAware, Next PROVE AllAware'
    BY <2>1, AwareBegin, AwareLoad, AwareDiscover, AwareStep, AwareEnd DEF Next
  <2>2. ASSUME AllAware, UNCHANGED vars PROVE AllAware'
    BY <2>2 DEF vars, AllAware
  <2> QED BY <2>1, <2>2
<1>3. AllAware => IdentityIsReplacedKnowingly
  BY DEF AllAware, Aware, IdentityIsReplacedKnowingly, At, Kind
<1> QED BY <1>1, <1>2, <1>3, SetupInvariant, PTL DEF Spec

-----------------------------------------------------------------------------
(* That a hub which runs with the gateway's key is registered *)

\* A command is past the point where it takes up an identity.
Settled(r) == r.step \notin {"load", "discover"}

\* The identities keys generate was run on, those an init made and has not
\* registered, those the gateway knows, and those for which one of these holds.
Rekeyed    == {i \in Fresh : \E q \in Processes :
                  process[q].kind = "keys" /\ Settled(process[q]) /\ process[q].config.id = i}
Unfinished == {i \in Fresh \ {0} : \E q \in Processes :
                  process[q].kind = "init" /\ ~process[q].known /\ Settled(process[q])
                  /\ process[q].config.id = i}
Registered == {i \in Fresh : registered[i] # -1}
Accounted  == Registered \cup Rekeyed \cup Unfinished

\* Each identity has the key it was made with, unless keys generate was run on it.
KeyOf(c, k) == c.key = c.id \/ c.id \in k

\* A process is in order if what it holds is: the key is the one of the identity,
\* the gateway's key came with a registration or from an init, and keys generate
\* and init are where they can be.  k, a and g are the identities given other
\* keys, accounted for and registered.
InOrder(r, k, a, g) ==
    /\ r.step # "done" => KeyOf(r.config, k)
    /\ r.config.gateway => r.config.id \in a
    /\ r.step = "info" => r.config.id \in g
    /\ r.kind \in {"keys", "init"} =>
          /\ r.step \in {"load", "discover", "confirm", "open", "write", "register", "done"}
          /\ r.then \in {"register", "done"} /\ r.else = "done"
    /\ r.kind = "init" /\ r.known => r.step = "done"
    /\ r.step = "discover" => r.kind = "init"
    /\ r.step = "confirm" => r.kind = "keys"
    /\ {r.then, r.else} \cap {"discover", "confirm", "info"} = {}

\* The file and every process are in order, and the gateway has the key each
\* identity was made with.
AllInOrder ==
    /\ KeyOf(file, Rekeyed) /\ (file.gateway => file.id \in Accounted)
    /\ \A i \in Fresh : registered[i] \in {-1, i} \/ i \in Rekeyed
    /\ \A p \in Processes : InOrder(process[p], Rekeyed, Accounted, Registered)

LEMMA OrderImpliesRegistered ==
    ASSUME SetupInv, AllInOrder PROVE RunningHubIsRegistered
<1> SUFFICES ASSUME NEW p \in Processes, At(p, "running"), process[p].config.gateway
             PROVE  \/ registered[process[p].config.id] = process[p].config.key
                    \/ \E q \in Processes :
                          /\ process[q].config.id = process[p].config.id
                          /\ \/ Kind(q) = "keys"
                             \/ Kind(q) = "init" /\ ~process[q].known /\ process[q].config.id # 0
  BY DEF RunningHubIsRegistered
<1> DEFINE i == process[p].config.id
<1>1. i \in Fresh BY OfProcess DEF Generated, Configs
<1>2. InOrder(process[p], Rekeyed, Accounted, Registered) /\ process[p].step = "running"
  BY DEF AllInOrder, At
<1>3. KeyOf(process[p].config, Rekeyed) /\ i \in Accounted BY <1>2 DEF InOrder
<1>4. CASE i \in Rekeyed BY <1>4 DEF Rekeyed, Kind
<1>5. CASE i \in Unfinished BY <1>5 DEF Unfinished, Kind
<1>6. CASE i \in Registered /\ i \notin Rekeyed
  <2>1. registered[i] = i BY <1>1, <1>6 DEF AllInOrder, Registered
  <2> QED BY <1>3, <1>6, <2>1 DEF KeyOf
<1> QED BY <1>3, <1>4, <1>5, <1>6 DEF Accounted

\* A process that excuses the identity it has goes on doing so, or registers it.
Stays(o, r, g) ==
    o.kind \in {"keys", "init"} /\ Settled(o) =>
        /\ r.kind = o.kind /\ Settled(r) /\ r.config.id = o.config.id
        /\ r.known = o.known \/ r.config.id \in g

LEMMA EndedFields ==
    ASSUME NEW r, r \in Records
    PROVE  /\ Ended(r).kind = r.kind /\ Ended(r).known = r.known /\ Ended(r).step = "done"
           /\ Ended(r).then = "done" /\ Ended(r).else = "done"
           /\ Ended(r).config.id = r.config.id /\ Ended(r).config.gateway = FALSE
<1> DEFINE c == [Template EXCEPT !.id = r.config.id]
<1>1. c.id = r.config.id /\ c.gateway = FALSE BY DEF Template
<1>2. Ended(r) = [New EXCEPT !.step = "done", !.kind = r.kind, !.known = r.known, !.config = c]
  BY DEF Ended
<1> HIDE DEF c
<1>3. Ended(r).kind = r.kind /\ Ended(r).known = r.known /\ Ended(r).step = "done"
      /\ Ended(r).then = "done" /\ Ended(r).else = "done" /\ Ended(r).config = c
  BY <1>2 DEF New
<1> QED BY <1>1, <1>3

\* What Set leaves of the process that goes on as r, and of the others.
LEMMA SetForms ==
    ASSUME SetupInv, NEW p \in Processes, NEW r, r \in Records, Set(p, r)
    PROVE  /\ \A q \in Processes : q # p => process'[q] = process[q]
           /\ process'[p].kind = r.kind /\ process'[p].config.id = r.config.id
           /\ process'[p].known = r.known
           /\ Settled(r) => Settled(process'[p])
           /\ \A k, a, g : InOrder(r, k, a, g) => InOrder(process'[p], k, a, g)
<1>1. \A q \in Processes : q # p => process'[q] = process[q] BY DEF Set, SetupInv
<1>2. process'[p] = IF r.step = "done" THEN Ended(r) ELSE r BY DEF Set, SetupInv
<1>3. CASE r.step # "done" BY <1>1, <1>2, <1>3
<1>4. CASE r.step = "done"
  <2> DEFINE e == Ended(r)
  <2>1. /\ e.kind = r.kind /\ e.known = r.known /\ e.step = "done"
        /\ e.then = "done" /\ e.else = "done"
        /\ e.config.id = r.config.id /\ e.config.gateway = FALSE
    BY EndedFields
  <2>2. process'[p] = e BY <1>2, <1>4
  <2> HIDE DEF e
  <2>3. \A k, a, g : InOrder(r, k, a, g) => InOrder(e, k, a, g) BY <2>1 DEF InOrder
  <2>4. Settled(e) BY <2>1 DEF Settled
  <2> QED BY <1>1, <2>1, <2>2, <2>3, <2>4
<1> QED BY <1>3, <1>4

\* A process that is settled excuses its identity, if it is keys generate or an
\* init that has not registered.
LEMMA SetExcuses ==
    ASSUME SetupInv, NEW p \in Processes, NEW r, r \in Records, Set(p, r), Settled(r)
    PROVE  /\ r.kind = "keys" => r.config.id \in Rekeyed'
           /\ r.kind = "init" /\ ~r.known /\ r.config.id # 0 => r.config.id \in Accounted'
<1>1. /\ process'[p].kind = r.kind /\ process'[p].config.id = r.config.id
      /\ process'[p].known = r.known /\ Settled(process'[p])
  BY SetForms
<1>2. r.config.id \in Fresh BY DEF Records, Configs
<1>3. r.kind = "keys" => r.config.id \in Rekeyed' BY <1>1, <1>2 DEF Rekeyed, Settled
<1>4. r.kind = "init" /\ ~r.known /\ r.config.id # 0 => r.config.id \in Unfinished'
  BY <1>1, <1>2 DEF Unfinished, Settled
<1> QED BY <1>3, <1>4 DEF Accounted

\* Nothing that excuses an identity, or accounts for it, is lost.
LEMMA ExcusesLast ==
    ASSUME SetupInv, NEW p \in Processes, \A q \in Processes : q # p => process'[q] = process[q],
           Stays(process[p], process'[p], Registered'), Registered \subseteq Registered'
    PROVE  Rekeyed \subseteq Rekeyed' /\ Accounted \subseteq Accounted'
<1>1. Rekeyed \subseteq Rekeyed'
  <2> SUFFICES ASSUME NEW i \in Rekeyed PROVE i \in Rekeyed' OBVIOUS
  <2>1. PICK q \in Processes : process[q].kind = "keys" /\ Settled(process[q])
                               /\ process[q].config.id = i
    BY DEF Rekeyed
  <2>2. process'[q].kind = "keys" /\ Settled(process'[q]) /\ process'[q].config.id = i
    BY <2>1 DEF Stays
  <2> QED BY <2>2 DEF Rekeyed, Settled
<1>2. Unfinished \subseteq Unfinished' \cup Registered'
  <2> SUFFICES ASSUME NEW i \in Unfinished, i \notin Registered' PROVE i \in Unfinished' OBVIOUS
  <2>1. PICK q \in Processes : process[q].kind = "init" /\ ~process[q].known
                               /\ Settled(process[q]) /\ process[q].config.id = i
    BY DEF Unfinished
  <2>2. process'[q].kind = "init" /\ process'[q].known = process[q].known
        /\ Settled(process'[q]) /\ process'[q].config.id = i
    BY <2>1 DEF Stays
  <2> QED BY <2>1, <2>2 DEF Unfinished, Settled
<1> QED BY <1>1, <1>2 DEF Accounted

LEMMA OrderGrows ==
    ASSUME NEW r, NEW k, NEW a, NEW g, NEW l, NEW b, NEW h, InOrder(r, k, a, g),
           k \subseteq l, a \subseteq b, g \subseteq h
    PROVE  InOrder(r, l, b, h)
BY DEF InOrder, KeyOf

\* One process goes on as r, in order, and may have written its configuration or
\* damaged the file, and may have registered.
LEMMA OrderKept ==
    ASSUME SetupInv, AllInOrder, NEW p \in Processes, NEW r, r \in Records, Set(p, r),
           Stays(process[p], r, Registered'),
           InOrder(r, Rekeyed', Accounted', Registered'),
           file' \in {file, Damaged} \/ (file' = process[p].config /\ process[p].step # "done"),
           \/ UNCHANGED registered
           \/ /\ process[p].step # "done"
              /\ registered' = [registered EXCEPT ![process[p].config.id] = process[p].config.key]
    PROVE  AllInOrder'
<1> DEFINE c == process[p].config
<1>1. /\ \A q \in Processes : q # p => process'[q] = process[q]
      /\ InOrder(process'[p], Rekeyed', Accounted', Registered')
      /\ process'[p].kind = r.kind /\ process'[p].config.id = r.config.id
      /\ process'[p].known = r.known
      /\ Settled(r) => Settled(process'[p])
  BY SetForms
<1>2. Stays(process[p], process'[p], Registered') BY <1>1 DEF Stays
<1>3. c.id \in Fresh /\ c.key \in Fresh /\ -1 \notin Fresh
  BY OfProcess, SetupAssumption DEF Generated, Configs, Fresh
<1>4. Registered \subseteq Registered'
  BY <1>3 DEF Registered, SetupInv
<1>5. Rekeyed \subseteq Rekeyed' /\ Accounted \subseteq Accounted'
  BY <1>1, <1>2, <1>4, ExcusesLast
<1>6. InOrder(process[p], Rekeyed, Accounted, Registered) BY DEF AllInOrder
<1>7. ASSUME NEW q \in Processes PROVE InOrder(process'[q], Rekeyed', Accounted', Registered')
  <2>1. InOrder(process[q], Rekeyed, Accounted, Registered) BY DEF AllInOrder
  <2>2. InOrder(process[q], Rekeyed', Accounted', Registered')
    BY <1>4, <1>5, <2>1, OrderGrows
  <2> QED BY <1>1, <2>2
<1>8. process[p].step # "done" => KeyOf(c, Rekeyed') /\ (c.gateway => c.id \in Accounted')
  BY <1>5, <1>6 DEF InOrder, KeyOf
<1>9. KeyOf(file', Rekeyed') /\ (file'.gateway => file'.id \in Accounted')
  <2>1. KeyOf(file, Rekeyed') /\ (file.gateway => file.id \in Accounted')
    BY <1>5 DEF AllInOrder, KeyOf
  <2>2. Damaged.key = Damaged.id /\ Damaged.gateway = FALSE BY DEF Damaged
  <2>3. CASE file' = Damaged BY <2>2, <2>3 DEF KeyOf
  <2> QED BY <1>8, <2>1, <2>3
<1>10. \A i \in Fresh : registered'[i] \in {-1, i} \/ i \in Rekeyed'
  <2> SUFFICES ASSUME NEW i \in Fresh PROVE registered'[i] \in {-1, i} \/ i \in Rekeyed' OBVIOUS
  <2>1. registered[i] \in {-1, i} \/ i \in Rekeyed' BY <1>5 DEF AllInOrder
  <2>2. CASE UNCHANGED registered BY <2>1, <2>2
  <2>3. CASE /\ process[p].step # "done"
             /\ registered' = [registered EXCEPT ![c.id] = c.key]
    <3>1. CASE i = c.id
      <4>1. registered'[i] = c.key BY <2>3, <3>1 DEF SetupInv
      <4> QED BY <1>8, <2>3, <3>1, <4>1 DEF KeyOf
    <3>2. CASE i # c.id
      <4>1. registered'[i] = registered[i] BY <2>3, <3>2 DEF SetupInv
      <4> QED BY <2>1, <4>1
    <3> QED BY <3>1, <3>2
  <2> QED BY <2>2, <2>3
<1> QED BY <1>7, <1>9, <1>10 DEF AllInOrder

\* A step that writes nothing and registers nothing.
LEMMA OrderQuiet ==
    ASSUME SetupInv, AllInOrder, NEW p \in Processes, NEW r, r \in Records, Set(p, r),
           Stays(process[p], r, Registered), InOrder(r, Rekeyed, Accounted, Registered),
           file' \in {file, Damaged} \/ (file' = process[p].config /\ process[p].step # "done"),
           UNCHANGED registered
    PROVE  AllInOrder'
<1>1. Registered' = Registered BY DEF Registered
<1>2. /\ \A q \in Processes : q # p => process'[q] = process[q]
      /\ process'[p].kind = r.kind /\ process'[p].config.id = r.config.id
      /\ process'[p].known = r.known /\ (Settled(r) => Settled(process'[p]))
  BY SetForms
<1>3. Stays(process[p], process'[p], Registered') BY <1>1, <1>2 DEF Stays
<1>4. Rekeyed \subseteq Rekeyed' /\ Accounted \subseteq Accounted'
  BY <1>1, <1>2, <1>3, ExcusesLast
<1>5. InOrder(r, Rekeyed', Accounted', Registered') BY <1>1, <1>4, OrderGrows
<1> QED BY <1>1, <1>5, OrderKept

\* What a record is after a step, and before a save.
LEMMA StepFields ==
    ASSUME NEW r \in Records, NEW step \in Steps
    PROVE  /\ [r EXCEPT !.step = step] \in Records
           /\ [r EXCEPT !.step = step].step = step /\ [r EXCEPT !.step = step].kind = r.kind
           /\ [r EXCEPT !.step = step].config = r.config
           /\ [r EXCEPT !.step = step].then = r.then /\ [r EXCEPT !.step = step].else = r.else
           /\ [r EXCEPT !.step = step].known = r.known
BY DEF Records

LEMMA SavingFields ==
    ASSUME NEW r \in Records, NEW c \in Configs, NEW then \in Steps, NEW else \in Steps
    PROVE  /\ Saving(r, c, then, else) \in Records
           /\ Saving(r, c, then, else).step = "open" /\ Saving(r, c, then, else).kind = r.kind
           /\ Saving(r, c, then, else).config = c
           /\ Saving(r, c, then, else).then = then /\ Saving(r, c, then, else).else = else
           /\ Saving(r, c, then, else).known = r.known
<1> DEFINE w == Saving(r, c, then, else)
<1>1. w = [r EXCEPT !.step = "open", !.config = c, !.then = then, !.else = else] BY DEF Saving
<1>2. "open" \in Steps BY DEF Steps
<1> HIDE DEF w
<1>3. w \in Records BY <1>1, <1>2 DEF Records
<1>4. w.step = "open" /\ w.kind = r.kind /\ w.config = c /\ w.then = then /\ w.else = else
  BY <1>1 DEF Records
<1>5. w.known = r.known BY <1>1 DEF Records
<1> QED BY <1>3, <1>4, <1>5 DEF w

\* A process goes to another step, with the configuration it has.
LEMMA OrderGoesTo ==
    ASSUME SetupInv, AllInOrder, NEW p \in Processes, process[p].step # "done",
           NEW step \in Steps, GoTo(p, step), step \notin {"discover", "confirm", "info"},
           process[p].kind \in {"keys", "init"} => step \in {"write", "register", "done"},
           file' \in {file, Damaged}, UNCHANGED registered
    PROVE  AllInOrder'
<1> DEFINE r == Step(process[p], step)
<1>1. process[p] \in Records /\ InOrder(process[p], Rekeyed, Accounted, Registered)
  BY OfProcess DEF AllInOrder
<1>2. r \in Records /\ r.step = step /\ r.kind = process[p].kind /\ r.config = process[p].config
      /\ r.then = process[p].then /\ r.else = process[p].else /\ r.known = process[p].known
  BY <1>1 DEF Step, Records
<1>3. Set(p, r) BY DEF GoTo, Step
<1> HIDE DEF r
<1>4. Stays(process[p], r, Registered) BY <1>2 DEF Stays, Settled
<1>5. InOrder(r, Rekeyed, Accounted, Registered) BY <1>1, <1>2 DEF InOrder
<1> QED BY <1>2, <1>3, <1>4, <1>5, OrderQuiet

\* A process goes on from a save.
LEMMA OrderGoesOn ==
    ASSUME SetupInv, AllInOrder, NEW p \in Processes, process[p].step \in {"open", "write"},
           NEW step \in {process[p].then, process[p].else}, Set(p, Goes(process[p], step)),
           file' \in {file, Damaged, process[p].config}, UNCHANGED registered
    PROVE  AllInOrder'
<1> DEFINE r == Goes(process[p], step)
<1>1. process[p] \in Records /\ InOrder(process[p], Rekeyed, Accounted, Registered)
  BY OfProcess DEF AllInOrder
<1>2. step \in Steps BY <1>1 DEF Records
<1>3. r = [process[p] EXCEPT !.step = step, !.then = "done", !.else = "done"] BY DEF Goes
<1> HIDE DEF r
<1>4. r \in Records /\ r.step = step /\ r.kind = process[p].kind /\ r.config = process[p].config
      /\ r.then = "done" /\ r.else = "done" /\ r.known = process[p].known
  BY <1>1, <1>2, <1>3 DEF Records, Steps
<1>5. step \notin {"discover", "confirm", "info"}
      /\ (process[p].kind \in {"keys", "init"} => step \in {"register", "done"})
  BY <1>1 DEF InOrder
<1>6. Stays(process[p], r, Registered) BY <1>4, <1>5 DEF Stays, Settled
<1>7. InOrder(r, Rekeyed, Accounted, Registered) BY <1>1, <1>4, <1>5 DEF InOrder
<1>8. Set(p, r) BY DEF r
<1> QED BY <1>4, <1>6, <1>7, <1>8, OrderQuiet

\* A process saves a configuration of the identity it has.
LEMMA OrderSaves ==
    ASSUME SetupInv, AllInOrder, NEW p \in Processes,
           NEW c \in Configs, c.id = process[p].config.id,
           KeyOf(c, Rekeyed), c.gateway => c.id \in Accounted,
           NEW then \in Steps \ {"discover", "confirm", "info"},
           NEW else \in Steps \ {"discover", "confirm", "info"},
           process[p].step # "done",
           process[p].kind \in {"keys", "init"} => then = "done" /\ else = "done",
           Set(p, Saving(process[p], c, then, else)), UNCHANGED <<file, registered>>
    PROVE  AllInOrder'
<1> DEFINE r == Saving(process[p], c, then, else)
<1>1. process[p] \in Records /\ InOrder(process[p], Rekeyed, Accounted, Registered)
  BY OfProcess DEF AllInOrder
<1>2. r \in Records /\ r.step = "open" /\ r.kind = process[p].kind /\ r.config = c
      /\ r.then = then /\ r.else = else /\ r.known = process[p].known
  BY <1>1, SavingFields
<1>3. Set(p, r) OBVIOUS
<1> HIDE DEF r
<1>4. Stays(process[p], r, Registered) BY <1>2 DEF Stays, Settled
<1>5. InOrder(r, Rekeyed, Accounted, Registered) BY <1>1, <1>2 DEF InOrder
<1> QED BY <1>2, <1>3, <1>4, <1>5, OrderQuiet

\* A run of the program begins with the template, with an identity of its own, or
\* with a key for the placeholder id.
LEMMA OrderBegin ==
    ASSUME SetupInv, AllInOrder, NEW p \in Processes, Begin(p) PROVE AllInOrder'
<1>0. /\ fresh \in Nat /\ process[p] \in Records
      /\ InOrder(process[p], Rekeyed, Accounted, Registered)
  BY OfProcess DEF AllInOrder
<1>1. Template \in Configs /\ Template.id = 0 /\ Template.key = 0 /\ Template.gateway = FALSE
  BY SetupAssumption DEF Template, Configs, Fresh
<1>2. ASSUME NEW k \in AllKinds
      PROVE  /\ Run(k) \in Records /\ Run(k).kind = k /\ Run(k).config = Template
             /\ Run(k).then = "done" /\ Run(k).else = "done" /\ Run(k).known = FALSE
  <2>1. /\ New \in Records /\ New.config = Template
        /\ New.then = "done" /\ New.else = "done" /\ New.known = FALSE
    BY <1>1 DEF New, Records, Steps
  <2> QED BY <2>1 DEF Run, Records
<1>3. ASSUME NEW r, r \in Records, Starts(p, r), InOrder(r, Rekeyed', Accounted', Registered')
      PROVE  AllInOrder'
  <2>1. process[p].step = "new" /\ Set(p, r) /\ UNCHANGED <<file, registered>>
    BY <1>3 DEF Starts, At
  <2>2. Stays(process[p], r, Registered') BY <1>0, <2>1 DEF Stays, InOrder
  <2> QED BY <1>3, <2>1, <2>2, OrderKept
<1>4. ASSUME NEW k \in AllKinds, NEW step \in {"load", "discover"},
             step = "discover" => k = "init", Starts(p, [Run(k) EXCEPT !.step = step])
      PROVE  AllInOrder'
  <2> DEFINE r == [Run(k) EXCEPT !.step = step]
  <2>1. /\ r \in Records /\ r.kind = k /\ r.config = Template /\ r.step = step
        /\ r.then = "done" /\ r.else = "done" /\ r.known = FALSE
    <3>1. step \in Steps BY DEF Steps
    <3>2. Run(k) \in Records BY <1>2
    <3>3. /\ r \in Records /\ r.kind = Run(k).kind /\ r.config = Run(k).config /\ r.step = step
          /\ r.then = Run(k).then /\ r.else = Run(k).else /\ r.known = Run(k).known
      BY <3>1, <3>2, StepFields
    <3> HIDE DEF r
    <3> QED BY <1>2, <3>3
  <2>2. Starts(p, r) BY <1>4
  <2> HIDE DEF r
  <2>3. InOrder(r, Rekeyed', Accounted', Registered') BY <1>1, <1>4, <2>1 DEF InOrder, KeyOf
  <2> QED BY <1>3, <2>1, <2>2, <2>3
<1>5. ASSUME NEW k \in AllKinds, NEW c \in Configs, c.gateway = FALSE,
             NEW then \in {"ask", "register", "edit", "done"},
             k = "keys" \/ c.key = c.id, k \in {"keys", "init"} => then \in {"register", "done"},
             Starts(p, Saving(Run(k), c, then, "done"))
      PROVE  AllInOrder'
  <2> DEFINE r == Saving(Run(k), c, then, "done")
  <2>1. /\ r \in Records /\ r.kind = k /\ r.config = c /\ r.step = "open"
        /\ r.then = then /\ r.else = "done" /\ r.known = FALSE
    <3>1. then \in Steps /\ "done" \in Steps BY DEF Steps
    <3>2. Run(k) \in Records BY <1>2
    <3>3. /\ r \in Records /\ r.kind = Run(k).kind /\ r.config = c /\ r.step = "open"
          /\ r.then = then /\ r.else = "done" /\ r.known = Run(k).known
      BY <3>1, <3>2, SavingFields
    <3> HIDE DEF r
    <3> QED BY <1>2, <3>3
  <2>2. Starts(p, r) BY <1>5
  <2> HIDE DEF r
  <2>3. k = "keys" => c.id \in Rekeyed'
    BY <2>1, <2>2, SetExcuses DEF Starts, Settled
  <2>4. InOrder(r, Rekeyed', Accounted', Registered') BY <1>5, <2>1, <2>3 DEF InOrder, KeyOf
  <2> QED BY <1>3, <2>1, <2>2, <2>4
<1>6. ASSUME Generates PROVE fresh + 1 \in Fresh
  BY <1>0, <1>6, SetupAssumption DEF Generates, Fresh
<1>7. CASE BeginHub(p)
  <2>1. CASE Starts(p, Loading("hub")) BY <1>4, <2>1 DEF Loading, AllKinds
  <2>2. CASE Generates /\ Starts(p, Saving(Run("hub"), WithKeys(FALSE), "ask", "done"))
    <3> DEFINE c == WithKeys(FALSE)
    <3>1. c \in Configs /\ c.key = c.id /\ c.gateway = FALSE
      BY <1>1, <1>6, <2>2 DEF WithKeys, Configs
    <3>2. Starts(p, Saving(Run("hub"), c, "ask", "done")) BY <2>2
    <3> HIDE DEF c
    <3> QED BY <1>5, <3>1, <3>2 DEF AllKinds
  <2> QED BY <1>7, <2>1, <2>2 DEF BeginHub
<1>8. CASE BeginInit(p)
  <2>1. CASE file = Absent
    <3>1. Starts(p, [Run("init") EXCEPT !.step = "discover"]) BY <1>8, <2>1 DEF BeginInit
    <3> QED BY <1>4, <3>1 DEF AllKinds
  <2>2. CASE file # Absent BY <1>4, <1>8, <2>2 DEF BeginInit, Loading, AllKinds
  <2> QED BY <2>1, <2>2
<1>9. CASE BeginRegister(p) BY <1>4, <1>9 DEF BeginRegister, Loading, AllKinds
<1>10. CASE BeginKeys(p)
  <2>1. CASE Starts(p, Loading("keys")) BY <1>4, <2>1 DEF Loading, AllKinds
  <2>2. CASE Generates /\ Starts(p, Saving(Run("keys"), [Template EXCEPT !.key = fresh + 1],
                                          "register", "done"))
    <3> DEFINE c == [Template EXCEPT !.key = fresh + 1]
    <3>1. c \in Configs /\ c.gateway = FALSE BY <1>1, <1>6, <2>2 DEF Configs
    <3>2. Starts(p, Saving(Run("keys"), c, "register", "done")) BY <2>2
    <3> HIDE DEF c
    <3> QED BY <1>5, <3>1, <3>2 DEF AllKinds
  <2> QED BY <1>10, <2>1, <2>2 DEF BeginKeys
<1>11. CASE BeginGenerate(p) BY <1>1, <1>5, <1>11 DEF BeginGenerate, AllKinds
<1>12. CASE BeginEdit(p)
  <2>1. CASE file = Absent
    <3>1. Starts(p, Saving(Run("edit"), Template, "edit", "done")) BY <1>12, <2>1 DEF BeginEdit
    <3> QED BY <1>1, <1>5, <3>1 DEF AllKinds
  <2>2. CASE file # Absent BY <1>4, <1>12, <2>2 DEF BeginEdit, Loading, AllKinds
  <2> QED BY <2>1, <2>2
<1> QED BY <1>7, <1>8, <1>9, <1>10, <1>11, <1>12 DEF Begin

\* A load takes over the file, and what is said of it.
LEMMA OrderLoad ==
    ASSUME SetupInv, AllInOrder, NEW p \in Processes, Load(p) PROVE AllInOrder'
<1>1. process[p].step = "load" /\ UNCHANGED <<file, registered>> BY DEF Load, At
<1>2. process[p] \in Records /\ InOrder(process[p], Rekeyed, Accounted, Registered)
  BY OfProcess DEF AllInOrder
<1>3. CASE GoTo(p, "done") BY <1>1, <1>3, OrderGoesTo DEF Steps
<1>4. CASE /\ Loads
           /\ Set(p, [process[p] EXCEPT !.config = file, !.step = Next1(Kind(p), file)])
  <2> DEFINE k == process[p].kind
             step == Next1(k, file)
             r == [process[p] EXCEPT !.config = file, !.step = step]
  <2>1. k \in AllKinds \ {"generate"} BY <1>1, HasKind
  <2>2. /\ step = "discover" => k = "init"
        /\ step = "confirm" <=> k = "keys"
        /\ k = "init" => step \in {"discover", "done"}
        /\ step # "info" /\ step \in Steps
    BY <2>1 DEF Next1, AllKinds, Steps
  <2>3. file \in Configs BY <1>4 DEF SetupInv, Generated, Loads, Absent, Damaged
  <2>4. Set(p, r) BY <1>4 DEF Kind
  <2> HIDE DEF step
  <2>5. /\ r \in Records /\ r.kind = k /\ r.config = file /\ r.step = step
        /\ r.then = process[p].then /\ r.else = process[p].else
    BY <1>2, <2>2, <2>3 DEF Records
  <2>6. r.known = process[p].known BY <1>2 DEF Records
  <2> HIDE DEF r
  <2>7. KeyOf(file, Rekeyed) /\ (file.gateway => file.id \in Accounted) BY DEF AllInOrder
  <2>8. k = "init" => ~process[p].known BY <1>1, <1>2 DEF InOrder
  <2>9. InOrder(r, Rekeyed, Accounted, Registered)
    BY <1>2, <2>2, <2>5, <2>6, <2>7, <2>8 DEF InOrder
  <2>10. Stays(process[p], r, Registered) BY <1>1 DEF Stays, Settled
  <2> QED BY <1>1, <2>4, <2>5, <2>9, <2>10, OrderQuiet
<1> QED BY <1>3, <1>4 DEF Load, Refused

\* init makes an identity: until it has registered it, it excuses it.
LEMMA OrderDiscover ==
    ASSUME SetupInv, AllInOrder, NEW p \in Processes, Discover(p) PROVE AllInOrder'
<1>1. PICK found \in BOOLEAN :
         Set(p, Saving(process[p], WithKeys(found), IF found THEN "register" ELSE "done", "done"))
  BY DEF Discover, CheckGateway
<1>2. Generates /\ UNCHANGED <<file, registered>> /\ process[p].step = "discover"
  BY DEF Discover, At
<1>3. process[p] \in Records /\ InOrder(process[p], Rekeyed, Accounted, Registered)
  BY OfProcess DEF AllInOrder
<1> DEFINE then == IF found THEN "register" ELSE "done"
           c == WithKeys(found)
           r == Saving(process[p], c, then, "done")
<1>4. c \in Configs /\ c.key = c.id /\ c.id # 0
  <2>1. Template \in Configs BY SetupAssumption DEF Template, Configs, Fresh
  <2>2. fresh + 1 \in Fresh /\ fresh + 1 # 0
    BY <1>2, OfProcess, SetupAssumption DEF Generates, Fresh
  <2> QED BY <2>1, <2>2 DEF WithKeys, Configs
<1>5. Set(p, r) /\ then \in {"register", "done"} /\ then \in Steps /\ "done" \in Steps
  BY <1>1 DEF Steps
<1> HIDE DEF c, then
<1>6. /\ r \in Records /\ r.kind = process[p].kind /\ r.config = c /\ r.step = "open"
      /\ r.then = then /\ r.else = "done" /\ r.known = process[p].known
  BY <1>3, <1>4, <1>5, SavingFields
<1> HIDE DEF r
<1>7. r.kind = "init" /\ ~r.known BY <1>2, <1>3, <1>6 DEF InOrder
<1>8. c.id \in Accounted' BY <1>4, <1>5, <1>6, <1>7, SetExcuses DEF Settled
<1>9. InOrder(r, Rekeyed', Accounted', Registered')
  BY <1>4, <1>5, <1>6, <1>7, <1>8 DEF InOrder, KeyOf
<1>10. Stays(process[p], r, Registered') BY <1>2 DEF Stays, Settled
<1> QED BY <1>2, <1>5, <1>6, <1>9, <1>10, OrderKept

\* keys generate gives an identity another key, and excuses it from then on.
LEMMA OrderConfirm ==
    ASSUME SetupInv, AllInOrder, NEW p \in Processes, Confirm(p) PROVE AllInOrder'
<1>1. UNCHANGED <<file, registered>> /\ process[p].step = "confirm" BY DEF Confirm, At
<1>2. process[p] \in Records /\ InOrder(process[p], Rekeyed, Accounted, Registered)
  BY OfProcess DEF AllInOrder
<1>3. CASE GoTo(p, "done") BY <1>1, <1>3, OrderGoesTo DEF Steps
<1>4. CASE Generates /\ Set(p, Saving(process[p], [process[p].config EXCEPT !.key = fresh + 1],
                                     "register", "done"))
  <2> DEFINE c == [process[p].config EXCEPT !.key = fresh + 1]
             r == Saving(process[p], c, "register", "done")
  <2>1. fresh + 1 \in Fresh BY <1>4, OfProcess, SetupAssumption DEF Generates, Fresh
  <2>2. c \in Configs /\ c.id = process[p].config.id
        /\ c.gateway = process[p].config.gateway
    BY <1>2, <2>1 DEF Records, Configs
  <2>3. Set(p, r) /\ "register" \in Steps /\ "done" \in Steps BY <1>4 DEF Steps
  <2> HIDE DEF c
  <2>4. /\ r \in Records /\ r.kind = process[p].kind /\ r.config = c /\ r.step = "open"
        /\ r.then = "register" /\ r.else = "done" /\ r.known = process[p].known
    BY <1>2, <2>2, <2>3, SavingFields
  <2> HIDE DEF r
  <2>5. r.kind = "keys" BY <1>1, <1>2, <2>4 DEF InOrder
  <2>6. c.id \in Rekeyed' BY <2>3, <2>4, <2>5, SetExcuses DEF Settled
  <2>7. InOrder(r, Rekeyed', Accounted', Registered')
    BY <2>4, <2>5, <2>6 DEF InOrder, KeyOf, Accounted
  <2>8. Stays(process[p], r, Registered') BY <2>2, <2>4 DEF Stays, Settled
  <2> QED BY <1>1, <2>3, <2>4, <2>7, <2>8, OrderKept
<1> QED BY <1>3, <1>4 DEF Confirm

\* A change of the device list keeps the identity.
LEMMA OrderEdits ==
    ASSUME SetupInv, AllInOrder, NEW p \in Processes, NEW ok \in BOOLEAN,
           NEW then \in {"done", "running"}, process[p].step \in {"edit", "running"},
           Set(p, Saving(process[p], [process[p].config EXCEPT !.loadable = ok], then, then)),
           UNCHANGED <<file, registered>>
    PROVE  AllInOrder'
<1> DEFINE c == [process[p].config EXCEPT !.loadable = ok]
<1>1. process[p] \in Records /\ InOrder(process[p], Rekeyed, Accounted, Registered)
  BY OfProcess DEF AllInOrder
<1>2. c \in Configs /\ c.id = process[p].config.id /\ c.key = process[p].config.key
  BY <1>1 DEF Records, Configs
<1>3. c.gateway = process[p].config.gateway BY <1>1 DEF Records, Configs
<1>4. Set(p, Saving(process[p], c, then, then)) OBVIOUS
<1> HIDE DEF c
<1>5. KeyOf(c, Rekeyed) /\ (c.gateway => c.id \in Accounted)
  BY <1>1, <1>2, <1>3 DEF InOrder, KeyOf
<1>6. process[p].kind \notin {"keys", "init"} BY <1>1 DEF InOrder
<1>7. then \in Steps \ {"discover", "confirm", "info"} BY DEF Steps
<1> QED BY <1>2, <1>4, <1>5, <1>6, <1>7, OrderSaves

\* The steps of a save write what the process holds, or damage the file.
LEMMA OrderWrites ==
    ASSUME SetupInv, AllInOrder, NEW p \in Processes, Truncate(p) \/ Write(p) \/ WriteFails(p)
    PROVE  AllInOrder'
<1>1. process[p].step \in {"open", "write"} /\ UNCHANGED registered
      /\ file' \in {file, Damaged, process[p].config}
  BY DEF Truncate, Write, WriteFails, At
<1>2. CASE GoTo(p, "write") /\ file' = Damaged BY <1>1, <1>2, OrderGoesTo DEF Steps
<1>3. CASE \E step \in {process[p].then, process[p].else} : Set(p, Goes(process[p], step))
  BY <1>1, <1>3, OrderGoesOn
<1> QED BY <1>2, <1>3 DEF Truncate, Write, WriteFails, AfterFailedSave

\* Neither keys generate nor init is asked for a gateway.
LEMMA OrderAsks ==
    ASSUME SetupInv, AllInOrder, NEW p \in Processes,
           Ask(p) \/ AskURL(p) \/ DiscoverHTTP(p) \/ Prompt(p) \/ GivenURL(p)
    PROVE  AllInOrder'
<1>1. process[p].step \in {"ask", "url", "http", "prompt"} /\ UNCHANGED <<file, registered>>
  BY DEF Ask, AskURL, DiscoverHTTP, Prompt, GivenURL, At
<1>2. process[p].kind \notin {"keys", "init"} BY <1>1 DEF AllInOrder, InOrder
<1> DEFINE after == {"done", "url", "register", "load", "auto", "prompt", "common"}
<1>3. after \subseteq Steps BY DEF Steps
<1>4. \E step \in after : GoTo(p, step)
  BY DEF Ask, AskURL, DiscoverHTTP, Prompt, GivenURL, OnFound, OnMissed
<1> QED BY <1>1, <1>2, <1>3, <1>4, OrderGoesTo

\* A registration that fails, or whose answer is lost, leaves the process as it was
\* but for its step; one that succeeds may bring the gateway's key.
LEMMA OrderRegisters ==
    ASSUME SetupInv, AllInOrder, NEW p \in Processes,
           process[p].step \in {"register", "auto", "common"},
           NEW a, NEW b, NEW step \in Steps, step \notin {"discover", "confirm", "info"},
           process[p].kind \in {"keys", "init"} => step = "done",
           b = Step(process[p], step),
           a \in Records, a.kind = process[p].kind, a.config.id = process[p].config.id,
           a.config.key = process[p].config.key, a.step # "discover", a.step # "confirm",
           process[p].kind \in {"keys", "init"} =>
               a.step = "done" /\ a.then \in {"register", "done"} /\ a.else = "done",
           {a.then, a.else} \cap {"discover", "confirm", "info"} = {},
           RegisterWithGateway(p, a, b)
    PROVE  AllInOrder'
<1>1. process[p] \in Records /\ InOrder(process[p], Rekeyed, Accounted, Registered)
  BY OfProcess DEF AllInOrder
<1>2. UNCHANGED file BY DEF RegisterWithGateway
<1>3. b \in Records /\ b.step = step /\ b.kind = process[p].kind /\ b.config = process[p].config
      /\ b.then = process[p].then /\ b.else = process[p].else /\ b.known = process[p].known
  BY <1>1, StepFields DEF Step
<1>4. Stays(process[p], b, Registered) /\ Stays(process[p], b, Registered')
  BY <1>3 DEF Stays, Settled
<1>5. InOrder(b, Rekeyed, Accounted, Registered) BY <1>1, <1>3 DEF InOrder
<1>6. CASE UNCHANGED registered /\ Set(p, b) BY <1>2, <1>3, <1>4, <1>5, <1>6, OrderQuiet
<1>7. CASE /\ registered' = [registered EXCEPT ![process[p].config.id] = process[p].config.key]
           /\ Set(p, a) \/ Set(p, b)
  <2> DEFINE i == process[p].config.id
  <2>1. i \in Fresh /\ process[p].config.key \in Fresh /\ -1 \notin Fresh
    BY <1>1, SetupAssumption DEF Records, Configs, Fresh
  <2>2. i \in Registered' /\ Registered \subseteq Registered'
    BY <1>7, <2>1 DEF Registered, SetupInv
  <2>3. i \in Accounted' BY <2>2 DEF Accounted
  <2>4. CASE Set(p, a)
    <3>1. /\ \A q \in Processes : q # p => process'[q] = process[q]
          /\ process'[p].kind = a.kind /\ process'[p].config.id = a.config.id
          /\ process'[p].known = a.known
          /\ Settled(a) => Settled(process'[p])
      BY <2>4, SetForms
    <3>2. Stays(process[p], a, Registered') BY <2>2 DEF Stays, Settled
    <3>3. Stays(process[p], process'[p], Registered') BY <3>1, <3>2 DEF Stays
    <3>4. Rekeyed \subseteq Rekeyed' BY <2>2, <3>1, <3>3, ExcusesLast
    <3>5. KeyOf(a.config, Rekeyed') BY <1>1, <3>4 DEF InOrder, KeyOf
    <3>6. InOrder(a, Rekeyed', Accounted', Registered') BY <2>2, <2>3, <3>5 DEF InOrder
    <3> QED BY <1>2, <1>7, <2>4, <3>2, <3>6, OrderKept
  <2>5. CASE Set(p, b)
    <3>1. /\ \A q \in Processes : q # p => process'[q] = process[q]
          /\ process'[p].kind = b.kind /\ process'[p].config.id = b.config.id
          /\ process'[p].known = b.known
          /\ Settled(b) => Settled(process'[p])
      BY <1>3, <2>5, SetForms
    <3>2. Stays(process[p], process'[p], Registered') BY <1>4, <3>1 DEF Stays
    <3>3. Rekeyed \subseteq Rekeyed' /\ Accounted \subseteq Accounted'
      BY <2>2, <3>1, <3>2, ExcusesLast
    <3>4. InOrder(b, Rekeyed', Accounted', Registered') BY <1>5, <2>2, <3>3, OrderGrows
    <3> QED BY <1>2, <1>3, <1>4, <1>7, <2>5, <3>4, OrderKept
  <2> QED BY <1>7, <2>4, <2>5
<1> QED BY <1>6, <1>7 DEF RegisterWithGateway

\* What a process is that was registered, and with the gateway's key.
LEMMA KnownFields ==
    ASSUME SetupInv, NEW p \in Processes
    PROVE  /\ Known(p) \in Records /\ Known(p).kind = process[p].kind
           /\ Known(p).config = process[p].config
           /\ Known(p).then = process[p].then /\ Known(p).else = process[p].else
           /\ WithGateway(p) \in Configs /\ WithGateway(p).id = process[p].config.id
           /\ WithGateway(p).key = process[p].config.key
<1>1. process[p] \in Records /\ process[p].config \in Configs BY OfProcess DEF Records
<1>2. Known(p) \in Records /\ Known(p).kind = process[p].kind
      /\ Known(p).config = process[p].config
      /\ Known(p).then = process[p].then /\ Known(p).else = process[p].else
  BY <1>1 DEF Known, Records
<1>3. WithGateway(p) \in Configs /\ WithGateway(p).id = process[p].config.id
      /\ WithGateway(p).key = process[p].config.key
  BY <1>1 DEF WithGateway, Configs
<1> QED BY <1>2, <1>3

\* Every registration leaves the identity with the gateway.
LEMMA OrderRegistrations ==
    ASSUME SetupInv, AllInOrder, NEW p \in Processes,
           \/ InteractiveRegister(p) \/ ManualRegister(p) \/ InitRegister(p)
           \/ KeysRegister(p) \/ AutoRegister(p) \/ Fallback(p)
    PROVE  AllInOrder'
<1> DEFINE k == Known(p)
           c == WithGateway(p)
<1>1. /\ k \in Records /\ k.kind = process[p].kind /\ k.config = process[p].config
      /\ k.then = process[p].then /\ k.else = process[p].else
      /\ c \in Configs /\ c.id = process[p].config.id /\ c.key = process[p].config.key
  BY KnownFields
<1>2. process[p] \in Records /\ InOrder(process[p], Rekeyed, Accounted, Registered)
  BY OfProcess DEF AllInOrder
<1>3. {"load", "info", "done", "again", "common", "running"} \subseteq Steps BY DEF Steps
<1> HIDE DEF k, c
<1>4. ASSUME NEW s \in {"load", "again"}
      PROVE  /\ Saving(k, c, s, s) \in Records /\ Saving(k, c, s, s).step = "open"
             /\ Saving(k, c, s, s).kind = process[p].kind /\ Saving(k, c, s, s).config = c
             /\ Saving(k, c, s, s).then = s /\ Saving(k, c, s, s).else = s
  <2>1. s \in Steps /\ k \in Records /\ c \in Configs BY <1>1, <1>3
  <2>2. process[p].kind = k.kind BY <1>1
  <2> QED BY <2>1, <2>2, SavingFields
<1>5. ASSUME NEW s \in {"info", "done"}
      PROVE  /\ Step(k, s) \in Records /\ Step(k, s).step = s
             /\ Step(k, s).kind = process[p].kind /\ Step(k, s).config = process[p].config
             /\ Step(k, s).then = process[p].then /\ Step(k, s).else = process[p].else
  BY <1>1, <1>3, StepFields DEF Step
<1>6. {process[p].then, process[p].else} \cap {"discover", "confirm", "info"} = {}
      /\ (process[p].kind \in {"keys", "init"} =>
             process[p].then \in {"register", "done"} /\ process[p].else = "done")
  BY <1>2 DEF InOrder
<1>7. CASE InteractiveRegister(p)
  <2>1. process[p].step = "register" /\ process[p].kind = "hub"
        /\ RegisterWithGateway(p, Saving(k, c, "load", "load"), Step(process[p], "load"))
    BY <1>7 DEF InteractiveRegister, Registers, At, Kind, k, c
  <2> QED BY <1>1, <1>3, <1>4, <2>1, OrderRegisters
<1>8. CASE ManualRegister(p)
  <2>1. process[p].step = "register" /\ process[p].kind = "register"
        /\ RegisterWithGateway(p, Step(k, "info"), Step(process[p], "done"))
    BY <1>8 DEF ManualRegister, Registers, At, Kind, k
  <2> QED BY <1>1, <1>3, <1>5, <1>6, <2>1, OrderRegisters
<1>9. CASE InitRegister(p) \/ KeysRegister(p)
  <2>1. process[p].step = "register"
        /\ RegisterWithGateway(p, Step(k, "done"), Step(process[p], "done"))
    BY <1>9 DEF InitRegister, KeysRegister, Registers, At, k
  <2> QED BY <1>1, <1>3, <1>5, <1>6, <2>1, OrderRegisters
<1>10. CASE AutoRegister(p)
  <2>1. process[p].step = "auto"
        /\ RegisterWithGateway(p, Saving(k, c, "again", "again"), Step(process[p], "common"))
    BY <1>10 DEF AutoRegister, At, k, c
  <2>2. process[p].kind \notin {"keys", "init"} BY <1>2, <2>1 DEF InOrder
  <2> QED BY <1>1, <1>3, <1>4, <2>1, <2>2, OrderRegisters
<1>11. CASE Fallback(p)
  <2> DEFINE a == [k EXCEPT !.step = "again", !.config = c]
  <2>1. process[p].step = "common" /\ RegisterWithGateway(p, a, Step(process[p], "running"))
    BY <1>11 DEF Fallback, FallbackSucceeds, FallbackFails, At, k, c
  <2>2. process[p].kind \notin {"keys", "init"} BY <1>2, <2>1 DEF InOrder
  <2>3. /\ a \in Records /\ a.step = "again" /\ a.kind = process[p].kind /\ a.config = c
        /\ a.then = process[p].then /\ a.else = process[p].else
    BY <1>1, <1>3 DEF Records
  <2> HIDE DEF a
  <2> QED BY <1>1, <1>3, <1>6, <2>1, <2>2, <2>3, OrderRegisters
<1> QED BY <1>7, <1>8, <1>9, <1>10, <1>11

\* The steps after a registration, and the daemon's saves.
LEMMA OrderAfter ==
    ASSUME SetupInv, AllInOrder, NEW p \in Processes,
           SkipRegister(p) \/ Info(p) \/ SaveAgain(p)
    PROVE  AllInOrder'
<1>1. process[p].step \in {"register", "info", "again"} /\ UNCHANGED <<file, registered>>
  BY DEF SkipRegister, Info, SaveAgain, Registers, At
<1>2. process[p] \in Records /\ InOrder(process[p], Rekeyed, Accounted, Registered)
  BY OfProcess DEF AllInOrder
<1>3. {"done", "running"} \subseteq Steps \ {"discover", "confirm", "info"} BY DEF Steps
<1>4. CASE GoTo(p, "done") BY <1>1, <1>3, <1>4, OrderGoesTo
<1>5. CASE At(p, "info") /\ Set(p, Saving(process[p], WithGateway(p), "done", "done"))
  <2> DEFINE c == WithGateway(p)
  <2>1. c \in Configs /\ c.id = process[p].config.id /\ c.key = process[p].config.key
    BY KnownFields
  <2>2. c.id \in Accounted /\ KeyOf(c, Rekeyed)
    BY <1>2, <1>5, <2>1 DEF InOrder, At, Accounted, KeyOf
  <2> HIDE DEF c
  <2> QED BY <1>1, <1>3, <1>5, <2>1, <2>2, OrderSaves DEF c
<1>6. CASE At(p, "again") /\ Set(p, Saving(process[p], process[p].config, "running", "running"))
  <2>1. process[p].kind \notin {"keys", "init"} BY <1>2, <1>6 DEF InOrder, At
  <2>2. process[p].config \in Configs /\ KeyOf(process[p].config, Rekeyed)
        /\ (process[p].config.gateway => process[p].config.id \in Accounted)
    BY <1>1, <1>2 DEF InOrder, Records
  <2> QED BY <1>1, <1>3, <1>6, <2>1, <2>2, OrderSaves
<1> QED BY <1>4, <1>5, <1>6 DEF SkipRegister, Info, SaveAgain

LEMMA OrderNext == ASSUME SetupInv, AllInOrder, Next PROVE AllInOrder'
<1>1. PICK p \in Processes :
        \/ Begin(p) \/ Load(p) \/ Discover(p) \/ Confirm(p)
        \/ AddDevice(p) \/ UpdateDevice(p) \/ RemoveDevice(p)
        \/ Truncate(p) \/ Write(p) \/ WriteFails(p)
        \/ Ask(p) \/ AskURL(p) \/ DiscoverHTTP(p) \/ Prompt(p) \/ GivenURL(p)
        \/ AutoRegister(p) \/ Fallback(p) \/ SaveAgain(p) \/ InteractiveRegister(p)
        \/ ManualRegister(p) \/ InitRegister(p) \/ KeysRegister(p) \/ SkipRegister(p) \/ Info(p)
        \/ Configure(p) \/ End(p)
  BY DEF Next
<1>2. CASE Begin(p) \/ Load(p) \/ Discover(p) \/ Confirm(p)
  BY <1>2, OrderBegin, OrderLoad, OrderDiscover, OrderConfirm
<1>3. CASE AddDevice(p) \/ UpdateDevice(p) \/ RemoveDevice(p)
  <2>1. PICK ok \in BOOLEAN : Edits(p, ok)
    BY <1>3 DEF AddDevice, UpdateDevice, RemoveDevice
  <2>2. process[p].step = "edit" /\ UNCHANGED <<file, registered>> BY <2>1 DEF Edits, At
  <2>3. CASE GoTo(p, "done") BY <2>2, <2>3, OrderGoesTo DEF Steps
  <2>4. CASE Set(p, Saving(process[p], [process[p].config EXCEPT !.loadable = ok], "done", "done"))
    BY <2>2, <2>4, OrderEdits
  <2> QED BY <2>1, <2>3, <2>4 DEF Edits
<1>4. CASE Truncate(p) \/ Write(p) \/ WriteFails(p) BY <1>4, OrderWrites
<1>5. CASE Ask(p) \/ AskURL(p) \/ DiscoverHTTP(p) \/ Prompt(p) \/ GivenURL(p) BY <1>5, OrderAsks
<1>6. CASE \/ InteractiveRegister(p) \/ ManualRegister(p) \/ InitRegister(p)
           \/ KeysRegister(p) \/ AutoRegister(p) \/ Fallback(p)
  BY <1>6, OrderRegistrations
<1>7. CASE SkipRegister(p) \/ Info(p) \/ SaveAgain(p) BY <1>7, OrderAfter
<1>8. CASE Configure(p)
  <2>1. process[p].step = "running" /\ UNCHANGED <<file, registered>> BY <1>8 DEF Configure, At
  <2>2. PICK ok \in BOOLEAN :
           Set(p, Saving(process[p], [process[p].config EXCEPT !.loadable = ok],
                         "running", "running"))
    BY <1>8 DEF Configure
  <2> QED BY <2>1, <2>2, OrderEdits
<1>9. CASE End(p)
  <2>1. process[p].step # "done" /\ GoTo(p, "done") /\ UNCHANGED <<file, registered>>
    BY <1>9 DEF End
  <2> QED BY <2>1, OrderGoesTo DEF Steps
<1> QED BY <1>1, <1>2, <1>3, <1>4, <1>5, <1>6, <1>7, <1>8, <1>9

\* A daemon that has the gateway's key in its file, and so does not register by
\* itself, is registered with its key, whoever wrote the file when and whichever
\* answer was lost: unless the init that made its identity saved the gateway's key
\* and did not register it, or keys generate was run on it (cmd/hub.go, daemon.go,
\* discovery.go).
THEOREM RunningIsRegistered == Spec => []RunningHubIsRegistered
<1>1. Init => AllInOrder
  <2> SUFFICES ASSUME Init PROVE AllInOrder OBVIOUS
  <2>1. Absent.key = Absent.id /\ Absent.gateway = FALSE BY DEF Absent
  <2>2. Template.key = Template.id /\ Template.gateway = FALSE BY DEF Template
  <2>3. /\ New.kind = "none" /\ New.step = "new" /\ New.config = Template
        /\ New.then = "done" /\ New.else = "done"
    BY DEF New
  <2>4. InOrder(New, Rekeyed, Accounted, Registered) BY <2>2, <2>3 DEF InOrder, KeyOf
  <2> QED BY <2>1, <2>4 DEF Init, AllInOrder, KeyOf
<1>2. SetupInv /\ AllInOrder /\ [Next]_vars => AllInOrder'
  <2>1. ASSUME AllInOrder, UNCHANGED vars PROVE AllInOrder'
    <3>1. UNCHANGED <<file, registered, process>> BY <2>1 DEF vars
    <3>2. UNCHANGED <<Rekeyed, Unfinished, Registered>>
      BY <3>1 DEF Rekeyed, Unfinished, Registered, Settled
    <3>3. UNCHANGED Accounted BY <3>2 DEF Accounted
    <3> QED BY <2>1, <3>1, <3>2, <3>3 DEF AllInOrder, KeyOf, InOrder
  <2> QED BY <2>1, OrderNext
<1>3. SetupInv /\ AllInOrder => RunningHubIsRegistered BY OrderImpliesRegistered
<1> QED BY <1>1, <1>2, <1>3, SetupInvariant, PTL DEF Spec

=============================================================================
