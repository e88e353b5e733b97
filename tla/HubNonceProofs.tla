--------------------------- MODULE HubNonceProofs ---------------------------
(***************************************************************************)
(* Theorems about the nonce caches of HubDevices, for all sets of devices, *)
(* nonces and requests: what a cache promises about an answer that was     *)
(* stored, although caches are found under a mutex and used after it,      *)
(* replaced by a reload and emptied and deleted by a sweep meanwhile.      *)
(***************************************************************************)
EXTENDS HubDevicesProofs

-----------------------------------------------------------------------------
(* Caches as sets of entries *)

Contents(s) == {s[i] : i \in DOMAIN s}
Single(s)   == \A i, j \in DOMAIN s : s[i].nonce = s[j].nonce => i = j

\* The entry of a nonce is the only one.
LEMMA EntryIs ==
    ASSUME NEW o, NEW n, cache[o] \in Seq(Keeping), Single(cache[o]), At(o, n) # {}
    PROVE  /\ Entry(o, n) \in Contents(cache[o]) /\ Entry(o, n).nonce = n
           /\ \A e \in Contents(cache[o]) : e.nonce = n => e = Entry(o, n)
<1>1. PICK i : i = CHOOSE j \in At(o, n) : TRUE OBVIOUS
<1>2. i \in At(o, n) BY <1>1
<1>3. Entry(o, n) = cache[o][i] BY <1>1 DEF Entry
<1> QED BY <1>2, <1>3 DEF At, Contents, Single

LEMMA AtIs ==
    ASSUME NEW o, NEW n
    PROVE  At(o, n) # {} <=> \E e \in Contents(cache[o]) : e.nonce = n
BY DEF At, Contents

\* Removing a nonce removes its entry, and leaves the others what they were.
LEMMA WithoutIs ==
    ASSUME NEW o, NEW n, cache[o] \in Seq(Keeping), Single(cache[o])
    PROVE  /\ Without(o, n) \in Seq(Keeping) /\ Single(Without(o, n))
           /\ Contents(Without(o, n)) = {e \in Contents(cache[o]) : e.nonce # n}
           /\ Len(Without(o, n)) = Len(cache[o]) - (IF At(o, n) = {} THEN 0 ELSE 1)
<1> DEFINE s == cache[o]
           W == Without(o, n)
<1>1. Len(s) \in Nat /\ DOMAIN s = 1 .. Len(s) /\ \A i \in DOMAIN s : s[i] \in Keeping
  BY LenProperties
<1>2. CASE At(o, n) = {}
  <2>1. W = s BY <1>2 DEF Without
  <2>2. \A e \in Contents(s) : e.nonce # n BY <1>2, AtIs
  <2> QED BY <1>1, <1>2, <2>1, <2>2
<1>3. CASE At(o, n) # {}
  <2>1. PICK at : at = CHOOSE j \in At(o, n) : TRUE OBVIOUS
  <2>2. at \in 1 .. Len(s) /\ s[at].nonce = n BY <1>1, <1>3, <2>1 DEF At
  <2>3. W = [i \in 1 .. Len(s) - 1 |-> s[IF i < at THEN i ELSE i + 1]]
    BY <1>3, <2>1 DEF Without
  <2>4. Len(s) - 1 \in Nat BY <1>1, <2>2
  <2>5. \A i \in 1 .. Len(s) - 1 : W[i] = s[IF i < at THEN i ELSE i + 1] BY <2>3
  <2> HIDE DEF W, s
  <2>6. \A i \in 1 .. Len(s) - 1 : (IF i < at THEN i ELSE i + 1) \in (1 .. Len(s)) \ {at}
    BY <1>1, <2>2
  <2>7. W \in [1 .. Len(s) - 1 -> Keeping] BY <1>1, <2>3, <2>5, <2>6
  <2>8. W \in Seq(Keeping) /\ Len(W) = Len(s) - 1 /\ DOMAIN W = 1 .. Len(s) - 1
    BY <2>4, <2>7
  <2>9. Single(s) BY DEF s
  <2>10. Single(W)
    <3> SUFFICES ASSUME NEW i \in 1 .. Len(s) - 1, NEW j \in 1 .. Len(s) - 1,
                        W[i].nonce = W[j].nonce
                 PROVE  i = j
      BY <2>8 DEF Single
    <3>1. (IF i < at THEN i ELSE i + 1) = (IF j < at THEN j ELSE j + 1)
      BY <1>1, <2>5, <2>6, <2>9 DEF Single
    <3> QED BY <1>1, <2>2, <3>1
  <2>11. ASSUME NEW e \in Contents(W) PROVE e \in Contents(s) /\ e.nonce # n
    <3>1. PICK i \in 1 .. Len(s) - 1 : e = W[i] BY <2>8 DEF Contents
    <3>2. PICK j \in (1 .. Len(s)) \ {at} : e = s[j] BY <2>5, <2>6, <3>1
    <3> QED BY <1>1, <2>2, <2>9, <3>2 DEF Contents, Single
  <2>12. ASSUME NEW e \in Contents(s), e.nonce # n PROVE e \in Contents(W)
    <3>1. PICK j \in 1 .. Len(s) : e = s[j] BY <1>1 DEF Contents
    <3>2. j # at BY <2>2, <2>12, <3>1
    <3>3. PICK i \in 1 .. Len(s) - 1 : (IF i < at THEN i ELSE i + 1) = j
      <4>1. CASE j < at
        <5>1. j \in 1 .. Len(s) - 1 BY <1>1, <2>2, <4>1
        <5> QED BY <4>1, <5>1
      <4>2. CASE ~(j < at)
        <5>1. j - 1 \in 1 .. Len(s) - 1 /\ ~(j - 1 < at) /\ (j - 1) + 1 = j
          BY <1>1, <2>2, <3>2, <4>2
        <5> QED BY <5>1
      <4> QED BY <4>1, <4>2
    <3> QED BY <2>5, <2>8, <3>1, <3>3 DEF Contents
  <2> QED BY <1>3, <2>8, <2>10, <2>11, <2>12 DEF s, W
<1> QED BY <1>2, <1>3

\* An entry of another nonce goes to the back.
LEMMA AppendIs ==
    ASSUME NEW s \in Seq(Keeping), NEW e \in Keeping, Single(s),
           \A f \in Contents(s) : f.nonce # e.nonce
    PROVE  /\ Append(s, e) \in Seq(Keeping) /\ Single(Append(s, e))
           /\ Contents(Append(s, e)) = Contents(s) \cup {e}
           /\ Len(Append(s, e)) = Len(s) + 1
<1> DEFINE t == Append(s, e)
<1>1. /\ t \in Seq(Keeping) /\ Len(t) = Len(s) + 1 /\ t[Len(s) + 1] = e
      /\ \A i \in 1 .. Len(s) : t[i] = s[i]
  BY AppendProperties
<1>2. Len(s) \in Nat /\ DOMAIN s = 1 .. Len(s) /\ DOMAIN t = 1 .. Len(s) + 1
  BY <1>1, LenProperties
<1>3. \A i \in 1 .. Len(s) + 1 : i \in 1 .. Len(s) \/ i = Len(s) + 1 BY <1>2
<1> HIDE DEF t
<1>4. Contents(t) = Contents(s) \cup {e}
  <2>1. Contents(t) \subseteq Contents(s) \cup {e} BY <1>1, <1>2, <1>3 DEF Contents
  <2>2. \A i \in 1 .. Len(s) : i \in 1 .. Len(s) + 1 BY <1>2
  <2>3. Contents(s) \subseteq Contents(t) BY <1>1, <1>2, <2>2 DEF Contents
  <2>4. Len(s) + 1 \in 1 .. Len(s) + 1 BY <1>2
  <2> QED BY <1>1, <1>2, <2>1, <2>3, <2>4 DEF Contents
<1>5. Single(t)
  <2>1. \A i \in 1 .. Len(s) : s[i].nonce # e.nonce BY <1>2 DEF Contents
  <2> QED BY <1>1, <1>2, <1>3, <2>1 DEF Single
<1> QED BY <1>1, <1>4, <1>5 DEF t

\* The least recently used entry is dropped.
LEMMA TailIs ==
    ASSUME NEW s \in Seq(Keeping), Single(s), s # <<>>
    PROVE  /\ Tail(s) \in Seq(Keeping) /\ Single(Tail(s))
           /\ Contents(Tail(s)) \subseteq Contents(s)
           /\ Len(Tail(s)) = Len(s) - 1
<1>1. /\ Tail(s) \in Seq(Keeping) /\ Len(Tail(s)) = Len(s) - 1
      /\ \A i \in 1 .. Len(Tail(s)) : Tail(s)[i] = s[i + 1]
  BY HeadTailProperties
<1>2. Len(s) \in Nat /\ DOMAIN s = 1 .. Len(s) /\ DOMAIN Tail(s) = 1 .. Len(s) - 1
  BY <1>1, LenProperties
<1>3. \A i \in 1 .. Len(s) - 1 : i + 1 \in 1 .. Len(s) /\ Tail(s)[i] = s[i + 1]
  BY <1>1, <1>2
<1>4. Single(Tail(s))
  <2> SUFFICES ASSUME NEW i \in 1 .. Len(s) - 1, NEW j \in 1 .. Len(s) - 1,
                      Tail(s)[i].nonce = Tail(s)[j].nonce
               PROVE  i = j
    BY <1>2 DEF Single
  <2>1. i + 1 = j + 1 BY <1>2, <1>3 DEF Single
  <2> QED BY <1>2, <2>1
<1>5. Contents(Tail(s)) \subseteq Contents(s) BY <1>2, <1>3 DEF Contents
<1> QED BY <1>1, <1>4, <1>5

\* What lru.Add leaves in a cache: the entry, and every entry of another nonce as
\* long as there is room for it.
LEMMA AddedIs ==
    ASSUME NEW o, cache[o] \in Seq(Keeping), Single(cache[o]), Len(cache[o]) <= Size,
           NEW e \in Keeping
    PROVE  /\ Added(o, e) \in Seq(Keeping) /\ Single(Added(o, e)) /\ Len(Added(o, e)) <= Size
           /\ e \in Contents(Added(o, e))
           /\ \A f \in Contents(Added(o, e)) :
                 f = e \/ (f \in Contents(cache[o]) /\ f.nonce # e.nonce)
           /\ Len(Without(o, e.nonce)) < Size =>
                 \A f \in Contents(cache[o]) : f.nonce # e.nonce => f \in Contents(Added(o, e))
<1> DEFINE kept == Without(o, e.nonce)
           rest == IF Len(kept) >= Size THEN Tail(kept) ELSE kept
<1>1. /\ kept \in Seq(Keeping) /\ Single(kept)
      /\ Contents(kept) = {f \in Contents(cache[o]) : f.nonce # e.nonce}
      /\ Len(kept) <= Len(cache[o])
  <2>1. Len(cache[o]) \in Nat BY LenProperties
  <2> QED BY <2>1, WithoutIs
<1>2. Len(kept) \in Nat /\ Len(cache[o]) \in Nat /\ Size \in Nat \ {0}
  BY <1>1, LenProperties, HubAssumption
<1>3. Added(o, e) = Append(rest, e) BY DEF Added
<1> HIDE DEF kept
<1>4. /\ rest \in Seq(Keeping) /\ Single(rest) /\ Len(rest) < Size
      /\ Contents(rest) \subseteq Contents(kept)
      /\ Len(kept) < Size => rest = kept
  <2>1. CASE Len(kept) >= Size
    <3>1. kept # <<>> BY <1>2, <2>1, EmptySeq
    <3>2. rest = Tail(kept) BY <2>1
    <3>3. Len(Tail(kept)) = Len(kept) - 1 BY <1>1, <3>1, TailIs
    <3>4. Len(kept) <= Size BY <1>1, <1>2
    <3>5. Len(rest) < Size BY <1>2, <3>2, <3>3, <3>4
    <3>6. ~(Len(kept) < Size) BY <1>2, <2>1
    <3> QED BY <1>1, <3>1, <3>2, <3>5, <3>6, TailIs
  <2>2. CASE ~(Len(kept) >= Size) BY <1>1, <1>2, <2>2
  <2> QED BY <2>1, <2>2
<1> HIDE DEF rest
<1>5. \A f \in Contents(rest) : f \in Contents(cache[o]) /\ f.nonce # e.nonce BY <1>1, <1>4
<1>6. /\ Append(rest, e) \in Seq(Keeping) /\ Single(Append(rest, e))
      /\ Contents(Append(rest, e)) = Contents(rest) \cup {e}
      /\ Len(Append(rest, e)) = Len(rest) + 1
  BY <1>4, <1>5, AppendIs
<1>7. Len(rest) \in Nat BY <1>4, LenProperties
<1>8. Len(Added(o, e)) <= Size BY <1>2, <1>3, <1>4, <1>6, <1>7
<1>9. Len(Without(o, e.nonce)) < Size => rest = kept BY <1>4 DEF kept
<1> QED BY <1>1, <1>3, <1>5, <1>6, <1>8, <1>9

\* A hit moves the entry to the back: the cache keeps what it has.
LEMMA MovedIs ==
    ASSUME NEW o, NEW n, cache[o] \in Seq(Keeping), Single(cache[o]), At(o, n) # {}
    PROVE  LET moved == Append(Without(o, n), Entry(o, n))
           IN  /\ moved \in Seq(Keeping) /\ Single(moved)
               /\ Contents(moved) = Contents(cache[o]) /\ Len(moved) = Len(cache[o])
<1>1. /\ Entry(o, n) \in Contents(cache[o]) /\ Entry(o, n).nonce = n
      /\ \A e \in Contents(cache[o]) : e.nonce = n => e = Entry(o, n)
  BY EntryIs
<1>2. Entry(o, n) \in Keeping
  <2>1. \A i \in DOMAIN cache[o] : cache[o][i] \in Keeping BY LenProperties
  <2> QED BY <1>1, <2>1 DEF Contents
<1>3. /\ Without(o, n) \in Seq(Keeping) /\ Single(Without(o, n))
      /\ Contents(Without(o, n)) = {e \in Contents(cache[o]) : e.nonce # n}
      /\ Len(Without(o, n)) = Len(cache[o]) - 1
  BY WithoutIs
<1>4. /\ Append(Without(o, n), Entry(o, n)) \in Seq(Keeping)
      /\ Single(Append(Without(o, n), Entry(o, n)))
      /\ Contents(Append(Without(o, n), Entry(o, n))) = Contents(Without(o, n)) \cup {Entry(o, n)}
      /\ Len(Append(Without(o, n), Entry(o, n))) = Len(Without(o, n)) + 1
  BY <1>1, <1>2, <1>3, AppendIs
<1>5. Len(cache[o]) \in Nat BY LenProperties
<1>6. Contents(Without(o, n)) \cup {Entry(o, n)} = Contents(cache[o]) BY <1>1, <1>3
<1> QED BY <1>3, <1>4, <1>5, <1>6

\* A cache has no more entries than the nonces it holds.
LEMMA EntriesCounted ==
    ASSUME NEW s \in Seq(Keeping), Single(s), NEW T, IsFiniteSet(T),
           \A e \in Contents(s) : e.nonce \in T
    PROVE  Len(s) <= Cardinality(T)
<1>1. Len(s) \in Nat /\ DOMAIN s = 1 .. Len(s) BY LenProperties
<1> DEFINE f == [i \in 1 .. Len(s) |-> s[i].nonce]
<1>2. f \in Injection(1 .. Len(s), T)
  <2>1. f \in [1 .. Len(s) -> T] BY <1>1 DEF Contents
  <2>2. \A i, j \in 1 .. Len(s) : f[i] = f[j] => i = j BY <1>1 DEF Single
  <2> HIDE DEF f
  <2> QED BY <2>1, <2>2 DEF Injection, IsInjective
<1>3. Cardinality(1 .. Len(s)) <= Cardinality(T) BY <1>2, FS_Injection
<1>4. Cardinality(1 .. Len(s)) = IF 1 > Len(s) THEN 0 ELSE Len(s) - 1 + 1
  <2>1. 1 \in Int /\ Len(s) \in Int BY <1>1
  <2> QED BY <2>1, FS_Interval
<1> QED BY <1>1, <1>3, <1>4

-----------------------------------------------------------------------------
(* The inductive invariant *)

\* Who has a cache object, and for which device.
Using    == processor.step \in {"get", "add"}
Visiting == cleaner.step \in {"look", "remove", "delete"}
Refers(d, o) ==
    \/ cacheOf[d] = o
    \/ Using /\ processor.device = d /\ processor.object = o
    \/ Visiting /\ cleaner.device = d /\ cleaner.object = o
    \/ cleaner.step # "idle" /\ \E p \in cleaner.todo : p[1] = d /\ p[2] = o

\* What a request has at each of its steps.
ProcessorParts ==
    /\ Using => processor.object \in Objects
    /\ processor.step = "run" => processor.nonce \in Nonces \cup {None}
    /\ processor.step \in {"store", "add", "replay"}
         => processor.nonce \in Nonces /\ processor.answer \in Answers

\* What a sweep has: one cache of each device, until it has visited it.
CleanerParts ==
    /\ Visiting => cleaner.device \in Devices /\ cleaner.object \in Objects
    /\ cleaner.step = "next" => cleaner.device = "none" /\ cleaner.object = "none"
    /\ cleaner.step = "remove" => cleaner.nonce \in Nonces
    /\ cleaner.step # "idle" =>
         /\ Visiting => \A p \in cleaner.todo : p[1] # cleaner.device
         /\ \A p, q \in cleaner.todo : p[1] = q[1] => p = q

\* No object is in use for two devices, and what it keeps was stored for its own.
OneOwner == \A o \in Objects, d, e \in Devices : Refers(d, o) /\ Refers(e, o) => d = e
Known    == \A o \in Objects, d \in Devices :
               Refers(d, o) => \A e \in Contents(cache[o]) : <<d, e.nonce>> \in done

CachesParts ==
    /\ \A o \in Objects : Single(cache[o])
    /\ OneOwner
    /\ Known
    /\ IsFiniteSet(done)

\* The processor's object is the one in the map, unless it was taken out of it.
InMap == Using => cacheOf[processor.device] \in {processor.object, "none"}

\* An answer that nothing excuses is in the map's cache, and no sweep is after it.
KeepsYoung(o, n) == \E e \in Contents(cache[o]) : e.nonce = n /\ ~e.old
Unswept(d, n) ==
    /\ cleaner.step # "idle" =>
          \A p \in cleaner.todo : p[1] = d => p[2] = cacheOf[d] /\ n \notin p[3]
    /\ Visiting /\ cleaner.device = d =>
          /\ cleaner.object = cacheOf[d] /\ n \notin cleaner.nonces
          /\ cleaner.step # "delete" /\ (cleaner.step = "remove" => cleaner.nonce # n)
Fresh == \A d \in Devices, n \in Nonces : <<d, n>> \in done \ excused =>
            cacheOf[d] \in Objects /\ KeepsYoung(cacheOf[d], n) /\ Unswept(d, n)

\* What can be found keeps the last answer of each nonce.
LastKept(d, o) == \A e \in Contents(cache[o]) : e.answer = last[<<d, e.nonce>>]
Live ==
    /\ \A d \in Devices : cacheOf[d] # "none" => LastKept(d, cacheOf[d])
    /\ Using => LastKept(processor.device, processor.object)

\* While the device is there, or about to be, only a late answer denies it.
Standing(d) == devices[d] # "none" \/ Reloading
Late(e)     == e.answer = "not found" => e.late
DeniedLate ==
    /\ daemon = "new" => processor.step = "idle" /\ \A d \in Devices : cacheOf[d] = "none"
    /\ \A d \in Devices : Standing(d) /\ cacheOf[d] # "none" =>
          \A e \in Contents(cache[cacheOf[d]]) : Late(e)
    /\ processor.step \in {"store", "add"} /\ Standing(processor.device) => Late(processor)

NonceInv ==
    /\ TypeOK /\ ProcessorParts /\ CleanerParts
    /\ CachesParts /\ InMap
    /\ Fresh /\ RepeatNeedsCause
    /\ Live /\ ReplayIsLastAnswer
    /\ DeniedLate

-----------------------------------------------------------------------------
(* Cache objects *)

LEMMA RequestIn ==
    ASSUME TypeOK, processor.step \in {"get", "run", "replay", "refuse", "store", "add"}
    PROVE  processor \in Requests
BY DEF TypeOK, Idle, Reports

LEMMA SweepIn ==
    ASSUME TypeOK, cleaner.step # "idle"
    PROVE  cleaner \in Sweeps
BY DEF TypeOK, Idle

\* The objects that a sweep holds are no more than the devices.
LEMMA SweptBound ==
    ASSUME TypeOK, CleanerParts, cleaner.step # "idle"
    PROVE  LET swept == ({p[2] : p \in cleaner.todo} \cup {cleaner.object}) \ {"none"}
           IN  IsFiniteSet(swept) /\ Cardinality(swept) <= Cardinality(Devices)
<1> DEFINE swept == ({p[2] : p \in cleaner.todo} \cup {cleaner.object}) \ {"none"}
           Of(d, o) == \/ \E p \in cleaner.todo : p[1] = d /\ p[2] = o
                       \/ Visiting /\ cleaner.device = d /\ cleaner.object = o
           owner == [o \in swept |-> CHOOSE d \in Devices : Of(d, o)]
<1>1. cleaner \in Sweeps BY SweepIn
<1>2. /\ cleaner.todo \subseteq Devices \X Objects \X SUBSET Nonces
      /\ cleaner.step \in {"next", "look", "remove", "delete"}
  BY <1>1 DEF Sweeps
<1>3. ASSUME NEW o \in swept PROVE \E d \in Devices : Of(d, o)
  <2>1. CASE \E p \in cleaner.todo : p[2] = o
    <3>1. PICK p \in cleaner.todo : p[2] = o BY <2>1
    <3>2. p[1] \in Devices BY <1>2
    <3> QED BY <3>1, <3>2
  <2>2. CASE o = cleaner.object
    <3>1. cleaner.step # "next" BY <1>3, <2>2 DEF CleanerParts
    <3>2. Visiting BY <1>2, <3>1 DEF Visiting
    <3> QED BY <2>2, <3>2 DEF CleanerParts
  <2> QED BY <2>1, <2>2
<1>4. ASSUME NEW d \in Devices, NEW o \in swept, NEW u \in swept, Of(d, o), Of(d, u)
      PROVE  o = u
  BY <1>4 DEF CleanerParts
<1>5. owner \in Injection(swept, Devices)
  <2>1. \A o \in swept : owner[o] \in Devices /\ Of(owner[o], o) BY <1>3
  <2> HIDE DEF swept, Of
  <2>2. owner \in [swept -> Devices] BY <2>1
  <2> HIDE DEF owner
  <2>3. \A o, u \in swept : owner[o] = owner[u] => o = u BY <1>4, <2>1
  <2> QED BY <2>2, <2>3 DEF Injection, IsInjective
<1> QED BY <1>5, FS_Injection, HubAssumption

\* There is a name left for the cache of a device that has none.
LEMMA NewIs ==
    ASSUME TypeOK, CleanerParts, ~Using, NEW d \in Devices, cacheOf[d] = "none"
    PROVE  New \in Objects /\ New \notin Held
<1> DEFINE mapped == {cacheOf[e] : e \in Devices \ {d}}
           swept  == IF cleaner.step = "idle" THEN {}
                     ELSE ({p[2] : p \in cleaner.todo} \cup {cleaner.object}) \ {"none"}
<1>1. IsFiniteSet(Devices) /\ IsFiniteSet(Objects) /\ "none" \notin Objects
      /\ Cardinality(Objects) >= 2 * Cardinality(Devices)
  BY HubAssumption
<1>2. IsFiniteSet(Devices \ {d}) /\ Cardinality(Devices \ {d}) = Cardinality(Devices) - 1
  BY <1>1, FS_RemoveElement
<1>3. IsFiniteSet(mapped) /\ Cardinality(mapped) <= Cardinality(Devices) - 1
  <2> DEFINE f == [e \in Devices \ {d} |-> cacheOf[e]]
  <2>1. f \in Surjection(Devices \ {d}, mapped) BY DEF Surjection
  <2> QED BY <1>2, <2>1, FS_Surjection
<1>4. IsFiniteSet(swept) /\ Cardinality(swept) <= Cardinality(Devices)
  <2>1. CASE cleaner.step = "idle"
    <3>1. swept = {} BY <2>1
    <3>2. IsFiniteSet(swept) /\ Cardinality(swept) = 0 BY <3>1, FS_EmptySet
    <3>3. Cardinality(Devices) \in Nat BY <1>1, FS_CardinalityType
    <3> QED BY <3>2, <3>3
  <2>2. CASE cleaner.step # "idle" BY <2>2, SweptBound
  <2> QED BY <2>1, <2>2
<1>5. Held \cap Objects \subseteq mapped \cup swept
  <2>1. Held \subseteq {"none"} \cup mapped \cup swept BY DEF Held, Using
  <2> QED BY <1>1, <2>1
<1> HIDE DEF mapped, swept
<1>6. IsFiniteSet(mapped \cup swept)
      /\ Cardinality(mapped \cup swept)
           = Cardinality(mapped) + Cardinality(swept) - Cardinality(mapped \cap swept)
  BY <1>3, <1>4, FS_Union
<1>7. IsFiniteSet(mapped \cap swept) /\ Cardinality(mapped \cap swept) \in Nat
  BY <1>3, FS_Intersection, FS_CardinalityType
<1>8. Cardinality(mapped \cup swept) < Cardinality(Objects)
  <2>1. Cardinality(mapped) \in Nat /\ Cardinality(swept) \in Nat
        /\ Cardinality(Devices) \in Nat /\ Cardinality(Objects) \in Nat
    BY <1>1, <1>3, <1>4, FS_CardinalityType
  <2> QED BY <1>1, <1>3, <1>4, <1>6, <1>7, <2>1
<1>9. \E o \in Objects : o \notin Held
  <2> SUFFICES ASSUME Objects \subseteq Held PROVE FALSE OBVIOUS
  <2>1. Objects \subseteq mapped \cup swept BY <1>5
  <2>2. Cardinality(Objects) <= Cardinality(mapped \cup swept) BY <1>6, <2>1, FS_Subset
  <2>3. Cardinality(mapped \cup swept) \in Nat /\ Cardinality(Objects) \in Nat
    BY <1>1, <1>6, FS_CardinalityType
  <2> QED BY <1>8, <2>2, <2>3
<1> QED BY <1>9 DEF New

-----------------------------------------------------------------------------
(* What each step does to the caches *)

\* Every cache has its type and its size, and no nonce twice.
Sound(c) == /\ c \in [Objects -> Seq(Keeping)]
            /\ \A o \in Objects : Len(c[o]) <= Size /\ Single(c[o])

LEMMA SoundIs == NonceInv => Sound(cache)
BY DEF NonceInv, TypeOK, CachesParts, Sound

LEMMA EmptyIs == /\ <<>> \in Seq(Keeping) /\ Len(<<>>) <= Size
                 /\ Single(<<>>) /\ Contents(<<>>) = {}
<1>1. <<>> \in Seq(Keeping) /\ Len(<<>>) = 0 BY EmptySeq
<1>2. DOMAIN <<>> = {} OBVIOUS
<1>3. Single(<<>>) /\ Contents(<<>>) = {} BY <1>2 DEF Single, Contents
<1>4. Size \in Nat BY HubAssumption
<1> QED BY <1>1, <1>3, <1>4

LEMMA KeepingIn == \A s \in Seq(Keeping) : Contents(s) \subseteq Keeping
BY LenProperties DEF Contents

\* getDeviceCache returns the device's cache, or puts a new one into the map.
LEMMA FindCacheIs ==
    ASSUME TypeOK, CleanerParts, Sound(cache), ~Using, NEW p \in Requests,
           NEW s \in {"get", "add"}, FindCache(s, p)
    PROVE  \E o \in Objects :
              /\ processor' \in Requests /\ processor'.step = s /\ processor'.object = o
              /\ processor'.device = p.device /\ processor'.nonce = p.nonce
              /\ processor'.answer = p.answer /\ processor'.late = p.late
              /\ cacheOf' \in [Devices -> Objects \cup {"none"}] /\ cacheOf'[p.device] = o
              /\ \A d \in Devices \ {p.device} : cacheOf'[d] = cacheOf[d]
              /\ Sound(cache')
              /\ \/ cacheOf[p.device] = o /\ cacheOf' = cacheOf /\ cache' = cache
                 \/ /\ cacheOf[p.device] = "none" /\ o \notin Held /\ cache'[o] = <<>>
                    /\ \A u \in Objects \ {o} : cache'[u] = cache[u]
<1> DEFINE o == CacheFor(p.device)
<1>1. p.device \in Devices BY DEF Requests
<1>2. cacheOf \in [Devices -> Objects \cup {"none"}] /\ "none" \notin Objects
  BY HubAssumption DEF TypeOK
<1>3. o \in Objects
      /\ (\/ cacheOf[p.device] = o
          \/ cacheOf[p.device] = "none" /\ o \notin Held)
  <2>1. CASE cacheOf[p.device] = "none"
    <3>1. New \in Objects /\ New \notin Held BY <1>1, <2>1, NewIs
    <3> QED BY <2>1, <3>1 DEF CacheFor
  <2>2. CASE cacheOf[p.device] # "none" BY <1>1, <1>2, <2>2 DEF CacheFor
  <2> QED BY <2>1, <2>2
<1>4. /\ processor' = [p EXCEPT !.step = s, !.object = o]
      /\ cacheOf' = [cacheOf EXCEPT ![p.device] = o]
      /\ cache' = IF o \notin Held THEN [cache EXCEPT ![o] = <<>>] ELSE cache
  BY DEF FindCache
<1> HIDE DEF o
<1>5. /\ processor' \in Requests /\ processor'.step = s /\ processor'.object = o
      /\ processor'.device = p.device /\ processor'.nonce = p.nonce
      /\ processor'.answer = p.answer /\ processor'.late = p.late
  BY <1>3, <1>4 DEF Requests
<1>6. /\ cacheOf' \in [Devices -> Objects \cup {"none"}] /\ cacheOf'[p.device] = o
      /\ \A d \in Devices \ {p.device} : cacheOf'[d] = cacheOf[d]
  BY <1>1, <1>2, <1>3, <1>4
<1>7. CASE cacheOf[p.device] = o
  <2>1. o \in Held BY <1>1, <1>7 DEF Held
  <2>2. cache' = cache BY <1>4, <2>1
  <2>3. cacheOf' = cacheOf BY <1>2, <1>4, <1>7
  <2> QED BY <1>3, <1>5, <1>6, <1>7, <2>2, <2>3
<1>8. CASE cacheOf[p.device] = "none" /\ o \notin Held
  <2>1. cache' = [cache EXCEPT ![o] = <<>>] BY <1>4, <1>8
  <2>2. Sound(cache') /\ cache'[o] = <<>> /\ \A u \in Objects \ {o} : cache'[u] = cache[u]
    <3> DEFINE s0 == <<>>
    <3>1. s0 \in Seq(Keeping) /\ Len(s0) <= Size /\ Single(s0) BY EmptyIs
    <3>2. cache' = [cache EXCEPT ![o] = s0] BY <2>1
    <3> HIDE DEF s0
    <3>3. Sound(cache') /\ cache'[o] = s0 /\ \A u \in Objects \ {o} : cache'[u] = cache[u]
      BY <1>3, <3>1, <3>2 DEF Sound
    <3> QED BY <3>3 DEF s0
  <2> QED BY <1>3, <1>5, <1>6, <1>8, <2>2
<1> QED BY <1>3, <1>7, <1>8

\* CheckNonce misses, removes an entry that is too old, or answers with one.
LEMMA CheckNonceIs ==
    ASSUME TypeOK, ProcessorParts, Sound(cache), CheckNonce
    PROVE  /\ processor.step = "get" /\ processor \in Requests /\ processor.object \in Objects
           /\ processor' \in Requests /\ processor'.device = processor.device
           /\ processor'.nonce = processor.nonce
           /\ \A u \in Objects \ {processor.object} : cache'[u] = cache[u]
           /\ Sound(cache')
           /\ \/ /\ processor'.step \in {"run", "refuse"}
                 /\ processor'.step = "run" => processor.nonce \in Nonces \cup {None}
                 /\ \A e \in Contents(cache[processor.object]) : e.nonce = processor.nonce => e.old
                 /\ Contents(cache'[processor.object])
                      = {e \in Contents(cache[processor.object]) : e.nonce # processor.nonce}
              \/ /\ processor'.step = "replay"
                 /\ \E e \in Contents(cache[processor.object]) :
                       e.nonce = processor.nonce /\ e.answer = processor'.answer
                 /\ Contents(cache'[processor.object]) = Contents(cache[processor.object])
<1> DEFINE o == processor.object
           n == processor.nonce
           to == IF ValidateNonce(n) THEN "run" ELSE "refuse"
           run == [processor EXCEPT !.step = to, !.object = "none"]
<1>1. processor.step = "get" /\ processor \in Requests /\ o \in Objects
  BY RequestIn DEF CheckNonce, ProcessorParts, Using
<1>2. cache[o] \in Seq(Keeping) /\ Single(cache[o]) /\ Len(cache[o]) <= Size
      /\ Len(cache[o]) \in Nat /\ cache \in [Objects -> Seq(Keeping)]
  <2>1. cache[o] \in Seq(Keeping) BY <1>1 DEF Sound
  <2> QED BY <1>1, <2>1, LenProperties DEF Sound
<1>3. /\ run \in Requests /\ run.step \in {"run", "refuse"}
      /\ run.device = processor.device /\ run.nonce = n
      /\ run.step = "run" => n \in Nonces \cup {None}
  <2>1. to \in {"run", "refuse"} /\ (to = "run" => n # Bad) BY DEF ValidateNonce
  <2> HIDE DEF to
  <2>2. run \in Requests /\ run.step = to /\ run.device = processor.device /\ run.nonce = n
    BY <1>1, <2>1 DEF Requests
  <2>3. n \in Nonces \cup {Bad, None} BY <1>1 DEF Requests
  <2> QED BY <2>1, <2>2, <2>3
<1>4. \/ At(o, n) = {} /\ processor' = run /\ UNCHANGED cache
      \/ /\ At(o, n) # {} /\ Entry(o, n).old /\ processor' = run
         /\ cache' = [cache EXCEPT ![o] = Without(o, n)]
      \/ /\ At(o, n) # {}
         /\ processor' = [processor EXCEPT !.step = "replay", !.answer = Entry(o, n).answer]
         /\ cache' = [cache EXCEPT ![o] = Append(Without(o, n), Entry(o, n))]
  BY DEF CheckNonce
<1> HIDE DEF run
<1>5. CASE At(o, n) = {} /\ processor' = run /\ UNCHANGED cache
  <2>1. \A e \in Contents(cache[o]) : e.nonce # n BY <1>5, AtIs
  <2> QED BY <1>1, <1>3, <1>5, <2>1
<1>6. CASE /\ At(o, n) # {} /\ Entry(o, n).old /\ processor' = run
           /\ cache' = [cache EXCEPT ![o] = Without(o, n)]
  <2> DEFINE rest == Without(o, n)
  <2>1. /\ rest \in Seq(Keeping) /\ Single(rest)
        /\ Contents(rest) = {e \in Contents(cache[o]) : e.nonce # n}
        /\ Len(rest) <= Size
    <3>1. Len(Without(o, n)) = Len(cache[o]) - 1 BY <1>2, <1>6, WithoutIs
    <3>2. Size \in Nat BY HubAssumption
    <3> QED BY <1>2, <3>1, <3>2, WithoutIs
  <2> HIDE DEF rest
  <2>2. /\ Sound(cache') /\ cache'[o] = rest
        /\ \A u \in Objects \ {o} : cache'[u] = cache[u]
    <3>1. cache' = [cache EXCEPT ![o] = rest] BY <1>6 DEF rest
    <3> HIDE DEF o
    <3> QED BY <1>1, <2>1, <3>1 DEF Sound
  <2>3. \A e \in Contents(cache[o]) : e.nonce = n => e.old BY <1>2, <1>6, EntryIs
  <2> QED BY <1>1, <1>3, <1>6, <2>1, <2>2, <2>3
<1>7. CASE /\ At(o, n) # {}
           /\ processor' = [processor EXCEPT !.step = "replay", !.answer = Entry(o, n).answer]
           /\ cache' = [cache EXCEPT ![o] = Append(Without(o, n), Entry(o, n))]
  <2> DEFINE moved == Append(Without(o, n), Entry(o, n))
  <2>1. /\ moved \in Seq(Keeping) /\ Single(moved)
        /\ Contents(moved) = Contents(cache[o]) /\ Len(moved) = Len(cache[o])
    BY <1>2, <1>7, MovedIs
  <2> HIDE DEF moved
  <2>2. cache' = [cache EXCEPT ![o] = moved] BY <1>7 DEF moved
  <2>3. /\ Sound(cache') /\ cache'[o] = moved
        /\ \A u \in Objects \ {o} : cache'[u] = cache[u]
    BY <1>1, <1>2, <2>1, <2>2 DEF Sound
  <2>4. Entry(o, n) \in Contents(cache[o]) /\ Entry(o, n).nonce = n BY <1>2, <1>7, EntryIs
  <2>5. Entry(o, n).answer \in Answers BY <1>2, <2>4, KeepingIn DEF Keeping
  <2>6. /\ processor' \in Requests /\ processor'.device = processor.device
        /\ processor'.nonce = n /\ processor'.step = "replay"
        /\ processor'.answer = Entry(o, n).answer
    BY <1>1, <1>7, <2>5 DEF Requests
  <2> QED BY <1>1, <2>1, <2>3, <2>4, <2>6
<1> QED BY <1>4, <1>5, <1>6, <1>7

\* The answer that is kept, and the entries beside it: none of another nonce is lost
\* unless more nonces were used on the device than the cache has room for.
KeptEntry == [nonce |-> processor.nonce, answer |-> processor.answer, old |-> FALSE,
              late |-> processor.late]

LEMMA KeepIs ==
    ASSUME TypeOK, ProcessorParts, Sound(cache), CachesParts, Keep
    PROVE  LET o == processor.object
               d == processor.device
           IN  /\ processor.step = "add" /\ processor \in Requests /\ o \in Objects
               /\ KeptEntry \in Keeping /\ d \in Devices
               /\ Sound(cache') /\ KeptEntry \in Contents(cache'[o])
               /\ \A u \in Objects \ {o} : cache'[u] = cache[u]
               /\ \A f \in Contents(cache'[o]) :
                     f = KeptEntry \/ (f \in Contents(cache[o]) /\ f.nonce # processor.nonce)
               /\ \A f \in Contents(cache[o]) :
                     f.nonce = processor.nonce \/ f \in Contents(cache'[o])
                        \/ \A n \in Nonces \ {processor.nonce} :
                              <<d, n>> \in done => <<d, n>> \in excused'
               /\ done' = done \cup {<<d, processor.nonce>>} /\ IsFiniteSet(done')
               /\ last' = [last EXCEPT ![<<d, processor.nonce>>] = processor.answer]
               /\ excused \ {<<d, processor.nonce>>} \subseteq excused'
               /\ excused' \subseteq excused \cup done'
               /\ \/ cleaner.step = "idle" /\ cacheOf[d] = o
                  \/ <<d, processor.nonce>> \in excused'
<1> DEFINE o == processor.object
           d == processor.device
           k == <<d, processor.nonce>>
           used == {n \in Nonces : <<d, n>> \in done \cup {k}}
           more == IF Cardinality(used) > Size THEN {<<d, n>> : n \in used \ {k[2]}} ELSE {}
           this == IF cleaner.step = "idle" /\ cacheOf[d] = o
                   THEN excused \ {k} ELSE excused \cup {k}
<1>1. /\ processor.step = "add" /\ processor \in Requests /\ o \in Objects
      /\ processor.nonce \in Nonces /\ processor.answer \in Answers
  BY RequestIn DEF Keep, ProcessorParts, Using
<1>2. d \in Devices /\ processor.late \in BOOLEAN BY <1>1 DEF Requests
<1>3. KeptEntry \in Keeping /\ KeptEntry.nonce = processor.nonce
  BY <1>1, <1>2 DEF KeptEntry, Keeping
<1>4. /\ cache' = [cache EXCEPT ![o] = Added(o, KeptEntry)]
      /\ done' = done \cup {k} /\ last' = [last EXCEPT ![k] = processor.answer]
      /\ excused' = this \cup more
  BY DEF Keep, KeptEntry
<1>5. cache[o] \in Seq(Keeping) /\ Single(cache[o]) /\ Len(cache[o]) <= Size
  BY <1>1 DEF Sound
<1> DEFINE added == Added(o, KeptEntry)
<1>6. /\ added \in Seq(Keeping) /\ Single(added) /\ Len(added) <= Size
      /\ KeptEntry \in Contents(added)
      /\ \A f \in Contents(added) :
            f = KeptEntry \/ (f \in Contents(cache[o]) /\ f.nonce # processor.nonce)
      /\ Len(Without(o, processor.nonce)) < Size =>
            \A f \in Contents(cache[o]) : f.nonce # processor.nonce => f \in Contents(added)
  BY <1>3, <1>5, AddedIs
<1> HIDE DEF added
<1>7. /\ Sound(cache') /\ cache'[o] = added
      /\ \A u \in Objects \ {o} : cache'[u] = cache[u]
  <2>1. cache' = [cache EXCEPT ![o] = added] BY <1>4 DEF added
  <2> HIDE DEF o
  <2> QED BY <1>1, <1>6, <2>1 DEF Sound
<1>8. IsFiniteSet(done') BY <1>4, FS_AddElement DEF CachesParts
<1>9. ASSUME ~(Len(Without(o, processor.nonce)) < Size)
      PROVE  Cardinality(used) > Size
  <2> DEFINE kept == Without(o, processor.nonce)
             rest == used \ {processor.nonce}
  <2>1. /\ kept \in Seq(Keeping) /\ Single(kept)
        /\ Contents(kept) = {e \in Contents(cache[o]) : e.nonce # processor.nonce}
    BY <1>5, WithoutIs
  <2>2. IsFiniteSet(used)
    <3> DEFINE f == [n \in used |-> <<d, n>>]
    <3>1. f \in [used -> done'] BY <1>4
    <3>2. \A m, n \in used : f[m] = f[n] => m = n OBVIOUS
    <3> HIDE DEF f, used
    <3>3. f \in Injection(used, done') BY <3>1, <3>2 DEF Injection, IsInjective
    <3> QED BY <1>8, <3>3, FS_Injection
  <2>3. processor.nonce \in used BY <1>1
  <2>4. IsFiniteSet(rest) /\ Cardinality(rest) = Cardinality(used) - 1
    BY <2>2, <2>3, FS_RemoveElement
  <2>5. \A e \in Contents(kept) : e.nonce \in rest
    <3>1. Refers(d, o) BY <1>1 DEF Refers, Using
    <3>2. \A e \in Contents(cache[o]) : <<d, e.nonce>> \in done
      BY <1>1, <1>2, <3>1 DEF CachesParts, Known
    <3>3. \A e \in Contents(cache[o]) : e.nonce \in Nonces BY <1>5, KeepingIn DEF Keeping
    <3> QED BY <2>1, <3>2, <3>3
  <2>6. Len(kept) <= Cardinality(rest)
    <3> HIDE DEF kept, rest
    <3> QED BY <2>1, <2>4, <2>5, EntriesCounted
  <2>7. Len(kept) \in Nat /\ Size \in Nat /\ Cardinality(used) \in Nat
    BY <2>1, <2>2, LenProperties, FS_CardinalityType, HubAssumption
  <2> QED BY <1>9, <2>4, <2>6, <2>7
<1>10. ASSUME ~(Len(Without(o, processor.nonce)) < Size),
              NEW n \in Nonces \ {processor.nonce}, <<d, n>> \in done
       PROVE  <<d, n>> \in excused'
  <2>1. n \in used \ {k[2]} BY <1>10
  <2>2. <<d, n>> \in more BY <1>9, <1>10, <2>1
  <2> QED BY <1>4, <2>2
<1>11. \A f \in Contents(cache[o]) :
          f.nonce = processor.nonce \/ f \in Contents(cache'[o])
             \/ \A n \in Nonces \ {processor.nonce} : <<d, n>> \in done => <<d, n>> \in excused'
  BY <1>6, <1>7, <1>10
<1>12. excused \ {k} \subseteq excused' /\ (k \in excused' \/ (cleaner.step = "idle" /\ cacheOf[d] = o))
  BY <1>4
<1>13. excused' \subseteq excused \cup done'
  <2>1. more \subseteq done' BY <1>4
  <2> QED BY <1>4, <2>1
<1> QED BY <1>1, <1>2, <1>3, <1>4, <1>6, <1>7, <1>8, <1>11, <1>12, <1>13

\* The sweep removes what the cache has for the nonce by then.
LEMMA RemoveIs ==
    ASSUME TypeOK, CleanerParts, Sound(cache), Remove
    PROVE  LET o == cleaner.object
           IN  /\ cleaner.step = "remove" /\ cleaner \in Sweeps /\ o \in Objects
               /\ cleaner.device \in Devices /\ cleaner.nonce \in Nonces
               /\ cleaner' \in Sweeps /\ cleaner'.step = "look"
               /\ cleaner'.device = cleaner.device /\ cleaner'.object = o
               /\ cleaner'.nonces = cleaner.nonces /\ cleaner'.todo = cleaner.todo
               /\ Sound(cache') /\ \A u \in Objects \ {o} : cache'[u] = cache[u]
               /\ Contents(cache'[o]) = {e \in Contents(cache[o]) : e.nonce # cleaner.nonce}
<1> DEFINE o == cleaner.object
           rest == Without(o, cleaner.nonce)
<1>1. /\ cleaner.step = "remove" /\ cleaner \in Sweeps /\ o \in Objects
      /\ cleaner.device \in Devices /\ cleaner.nonce \in Nonces
  BY SweepIn DEF Remove, CleanerParts, Visiting
<1>2. cache[o] \in Seq(Keeping) /\ Single(cache[o]) /\ Len(cache[o]) <= Size
  BY <1>1 DEF Sound
<1>3. /\ rest \in Seq(Keeping) /\ Single(rest)
      /\ Contents(rest) = {e \in Contents(cache[o]) : e.nonce # cleaner.nonce}
      /\ Len(rest) <= Size
  <2>1. Len(rest) = Len(cache[o]) - (IF At(o, cleaner.nonce) = {} THEN 0 ELSE 1)
    BY <1>2, WithoutIs
  <2>2. Len(cache[o]) \in Nat /\ Size \in Nat BY <1>2, LenProperties, HubAssumption
  <2>3. Len(rest) <= Size BY <1>2, <2>1, <2>2
  <2> QED BY <1>2, <2>3, WithoutIs
<1>4. cache' = [cache EXCEPT ![o] = rest] BY DEF Remove
<1> HIDE DEF rest
<1>5. Sound(cache') /\ cache'[o] = rest /\ \A u \in Objects \ {o} : cache'[u] = cache[u]
  <2> HIDE DEF o
  <2> QED BY <1>1, <1>3, <1>4 DEF Sound
<1>6. /\ cleaner' \in Sweeps /\ cleaner'.step = "look"
      /\ cleaner'.device = cleaner.device /\ cleaner'.object = o
      /\ cleaner'.nonces = cleaner.nonces /\ cleaner'.todo = cleaner.todo
  BY <1>1 DEF Remove, Sweeps
<1> QED BY <1>1, <1>3, <1>5, <1>6

\* What ages becomes old, and nothing else changes in the cache.
LEMMA AgeIs ==
    ASSUME Sound(cache), NEW o \in Objects, NEW n \in Nonces, Age(o, n)
    PROVE  /\ Sound(cache') /\ \A u \in Objects \ {o} : cache'[u] = cache[u]
           /\ \A f \in Contents(cache'[o]) : \E e \in Contents(cache[o]) :
                 f.nonce = e.nonce /\ f.answer = e.answer /\ f.late = e.late
           /\ \A e \in Contents(cache[o]) : e.nonce # n => e \in Contents(cache'[o])
<1> DEFINE s == cache[o]
           aged(e) == IF e.nonce = n THEN [e EXCEPT !.old = TRUE] ELSE e
           t == [i \in DOMAIN s |-> aged(s[i])]
<1>1. cache' = [cache EXCEPT ![o] = t] BY DEF Age
<1>2. s \in Seq(Keeping) /\ Single(s) /\ Len(s) <= Size BY DEF Sound
<1>3. Len(s) \in Nat /\ DOMAIN s = 1 .. Len(s) /\ \A i \in 1 .. Len(s) : s[i] \in Keeping
  BY <1>2, LenProperties
<1>4. \A e \in Keeping : /\ aged(e) \in Keeping /\ aged(e).nonce = e.nonce
                         /\ aged(e).answer = e.answer /\ aged(e).late = e.late
                         /\ e.nonce # n => aged(e) = e
  BY DEF Keeping
<1> HIDE DEF s, aged
<1>5. t \in [1 .. Len(s) -> Keeping] /\ \A i \in 1 .. Len(s) : t[i] = aged(s[i])
  BY <1>3, <1>4
<1> HIDE DEF t
<1>6. t \in Seq(Keeping) /\ Len(t) = Len(s) /\ DOMAIN t = 1 .. Len(s) BY <1>3, <1>5
<1>7. Single(t) BY <1>2, <1>3, <1>4, <1>5, <1>6 DEF Single
<1>8. /\ \A f \in Contents(t) : \E e \in Contents(s) :
            f.nonce = e.nonce /\ f.answer = e.answer /\ f.late = e.late
      /\ \A e \in Contents(s) : e.nonce # n => e \in Contents(t)
  BY <1>3, <1>4, <1>5, <1>6 DEF Contents
<1>9. Sound(cache') /\ cache'[o] = t /\ \A u \in Objects \ {o} : cache'[u] = cache[u]
  BY <1>1, <1>2, <1>6, <1>7 DEF Sound
<1> QED BY <1>8, <1>9 DEF s

\* A shutdown empties the caches of the map, which starts again with none.
LEMMA PurgeIs ==
    ASSUME Sound(cache), PurgeCaches
    PROVE  /\ Sound(cache') /\ cacheOf' = [d \in Devices |-> "none"]
           /\ \A o \in Objects : Contents(cache'[o]) \subseteq Contents(cache[o])
           /\ \A o \in Objects, d \in Devices : cacheOf[d] = o => Contents(cache'[o]) = {}
<1>1. /\ cache' = [o \in Objects |-> IF o \in Attached THEN <<>> ELSE cache[o]]
      /\ cacheOf' = [d \in Devices |-> "none"]
  BY DEF PurgeCaches
<1>2. \A o \in Objects : cache'[o] = IF o \in Attached THEN <<>> ELSE cache[o] BY <1>1
<1>3. Sound(cache') BY <1>1, EmptyIs DEF Sound
<1>4. \A o \in Objects : Contents(cache'[o]) \subseteq Contents(cache[o]) BY <1>2, EmptyIs
<1>5. \A o \in Objects, d \in Devices : cacheOf[d] = o => Contents(cache'[o]) = {}
  BY <1>2, EmptyIs DEF Attached
<1> QED BY <1>1, <1>3, <1>4, <1>5

-----------------------------------------------------------------------------
(* Types *)

\* The steps of a request and of a sweep that have no effect on the caches.
LEMMA AnswerIs == ASSUME Answer PROVE processor' = Idle
BY DEF Answer

LEMMA ExecuteIs ==
    ASSUME TypeOK, ProcessorParts, Execute
    PROVE  /\ processor.step = "run" /\ processor \in Requests
           /\ \/ processor' = Idle
              \/ /\ processor' \in Requests /\ processor'.step = "store"
                 /\ processor'.device = processor.device /\ processor'.nonce \in Nonces
                 /\ processor'.answer = IF devices[processor.device] = "none" THEN "not found"
                                        ELSE "executed"
                 /\ processor'.late = Reloading
<1>1. processor.step = "run" /\ processor \in Requests
      /\ processor.nonce \in Nonces \cup {None}
  BY RequestIn DEF Execute, ProcessorParts
<1>2. CASE processor.nonce = None BY <1>1, <1>2 DEF Execute
<1>3. CASE processor.nonce # None
  <2> DEFINE a == IF devices[processor.device] = "none" THEN "not found" ELSE "executed"
             l == Reloading
  <2>1. a \in Answers BY DEF Answers
  <2>2. l \in BOOLEAN BY DEF Reloading
  <2>3. processor' = [processor EXCEPT !.step = "store", !.answer = a, !.late = l]
    BY <1>1, <1>3 DEF Execute
  <2> HIDE DEF a, l
  <2>4. /\ processor' \in Requests /\ processor'.step = "store"
        /\ processor'.device = processor.device /\ processor'.nonce = processor.nonce
        /\ processor'.answer = a /\ processor'.late = l
    BY <1>1, <2>1, <2>2, <2>3 DEF Requests
  <2>5. processor'.nonce \in Nonces BY <1>1, <1>3, <2>4
  <2> QED BY <1>1, <2>4, <2>5 DEF a, l
<1> QED BY <1>2, <1>3

LEMMA TakeIs ==
    ASSUME NEW k \in Asked, Take(k[1], k[2])
    PROVE  /\ Running /\ processor.step = "idle"
           /\ Request(k[1], k[2]) \in Requests /\ Request(k[1], k[2]).nonce = k[2]
           /\ Request(k[1], k[2]).device = k[1] /\ k[1] \in Devices
           /\ \/ /\ k[2] = None /\ UNCHANGED caches
                 /\ processor' \in Requests /\ processor'.step = "run"
                 /\ processor'.device = k[1] /\ processor'.nonce = None
              \/ FindCache("get", Request(k[1], k[2]))
<1> DEFINE r == Request(k[1], k[2])
<1>1. k \in Devices \X (Nonces \cup {Bad, None}) BY HubAssumption
<1>2. k[1] \in Devices /\ k[2] \in Nonces \cup {Bad, None} BY <1>1
<1>3. r \in Requests /\ r.device = k[1] /\ r.nonce = k[2]
  BY <1>2 DEF Request, Requests
<1>4. Running /\ processor.step = "idle" BY DEF Take, ProcessorOnly
<1>5. CASE k[2] = None
  <2>1. processor' = [r EXCEPT !.step = "run"] /\ UNCHANGED caches BY <1>5 DEF Take
  <2> HIDE DEF r
  <2>2. /\ processor' \in Requests /\ processor'.step = "run"
        /\ processor'.device = k[1] /\ processor'.nonce = k[2]
    BY <1>3, <2>1 DEF Requests
  <2> QED BY <1>2, <1>3, <1>4, <1>5, <2>1, <2>2 DEF r
<1>6. CASE k[2] # None BY <1>2, <1>3, <1>4, <1>6 DEF Take
<1> QED BY <1>5, <1>6

\* What a shutdown or an initialization does to the request being handled.
LEMMA TouchedIs ==
    ASSUME TypeOK, processor' = Touched
    PROVE  \/ processor.step \notin {"store", "add"} /\ processor' = processor
           \/ /\ processor.step \in {"store", "add"} /\ processor' \in Requests
              /\ processor'.step = processor.step /\ processor'.device = processor.device
              /\ processor'.nonce = processor.nonce /\ processor'.object = processor.object
              /\ processor'.answer = processor.answer /\ processor'.late = TRUE
<1>1. CASE processor.step \in {"store", "add"}
  <2>1. processor \in Requests BY <1>1, RequestIn
  <2> QED BY <1>1, <2>1 DEF Touched, Requests
<1>2. CASE processor.step \notin {"store", "add"} BY <1>2 DEF Touched
<1> QED BY <1>1, <1>2

LEMMA ReportIs ==
    ASSUME config \in Seq(Entries), Report
    PROVE  processor.step = "idle" /\ processor' \in Reports /\ processor'.step = "report"
<1>1. \A i \in DOMAIN config : config[i] \in Entries BY LenProperties
<1>2. Ids(config) \subseteq Devices BY <1>1 DEF Ids, Entries
<1> QED BY <1>2 DEF Report, Reports

\* The parts of Next, by what they change.
LEMMA NextIs ==
    ASSUME TypeOK, [Next]_vars
    PROVE  \/ \E k \in Asked : Take(k[1], k[2])
           \/ CheckNonce \/ Answer \/ Execute \/ Store \/ Keep \/ Report
           \/ \E h \in Handlers : Configure(h) \/ ReloadDevices(h) \/ Save(h)
           \/ \E h \in Handlers : Shutdown(h)
           \/ \E h \in Handlers : Initialize(h)
           \/ \E o \in Objects, n \in Nonces : Age(o, n)
           \/ Sweep \/ NextCache \/ Peek \/ Remove \/ FindEmpty \/ Delete
           \/ StartDevices
           \/ StartAPI \/ StartWorker \/ StopAPI \/ StopWorker
           \/ StopDevices
           \/ UNCHANGED vars
<1>1. Held \subseteq Objects \cup {"none"}
  <2>1. \A d \in Devices : cacheOf[d] \in Objects \cup {"none"} BY DEF TypeOK
  <2>2. processor.step \in {"get", "add"} => processor.object \in Objects \cup {"none"}
    BY RequestIn DEF Requests
  <2>3. cleaner.step # "idle" =>
           /\ cleaner.object \in Objects \cup {"none"}
           /\ \A p \in cleaner.todo : p[2] \in Objects
    BY SweepIn DEF Sweeps
  <2> QED BY <2>1, <2>2, <2>3 DEF Held
<1>2. CASE \E o \in Held, n \in Nonces : o # "none" /\ Age(o, n) BY <1>1, <1>2
<1>3. CASE Handle BY <1>3 DEF Handle
<1>4. CASE ConfigAPI BY <1>4 DEF ConfigAPI
<1>5. CASE Cleaner BY <1>5 DEF Cleaner
<1> QED BY <1>2, <1>3, <1>4, <1>5 DEF Next

LEMMA InstalledType ==
    ASSUME config \in Seq(Entries), devices \in [Devices -> Addresses \cup {"none"}]
    PROVE  Installed(config) \in [Devices -> Addresses \cup {"none"}]
<1>1. Len(config) \in Nat /\ DOMAIN config = 1 .. Len(config)
      /\ \A i \in DOMAIN config : config[i] \in Entries
  BY LenProperties
<1>2. ASSUME NEW d \in Devices PROVE Installed(config)[d] \in Addresses \cup {"none"}
  <2> DEFINE mine == {i \in Creatable(config) : config[i].id = d}
  <2>1. CASE mine = {} BY <2>1 DEF Installed
  <2>2. CASE mine # {}
    <3>1. mine \in SUBSET (1 .. Len(config)) BY <1>1 DEF Creatable
    <3>2. \E i \in mine : \A j \in mine : j <= i
      <4> HIDE DEF mine
      <4> QED BY <1>1, <2>2, <3>1, LastIndex
    <3>3. PICK k : k = CHOOSE i \in mine : \A j \in mine : j <= i OBVIOUS
    <3>4. k \in mine BY <3>2, <3>3
    <3>5. Installed(config)[d] = config[k].address BY <2>2, <3>3 DEF Installed
    <3> QED BY <1>1, <3>1, <3>4, <3>5 DEF Entries
  <2> QED BY <2>1, <2>2
<1> QED BY <1>2 DEF Installed

LEMMA TypeSetup ==
    ASSUME TypeOK, DeviceInv', [Next]_vars
    PROVE  /\ daemon' \in {"new", "devices", "api", "up", "failed", "closing", "stopping",
                          "stopped"}
           /\ config' \in Seq(Entries) /\ devices' \in [Devices -> Addresses \cup {"none"}]
           /\ handler' \in [Handlers -> {"new", "save", "shutdown", "init", "returned"}]
           /\ failed' \in BOOLEAN /\ events' \in 0 .. MaxEvents
<1>1. config' \in Seq(Entries)
      /\ handler' \in [Handlers -> {"new", "save", "shutdown", "init", "returned"}]
  BY DEF DeviceInv
<1>2. NoDevices \in [Devices -> Addresses \cup {"none"}] BY DEF NoDevices
<1>3. Installed(config) \in [Devices -> Addresses \cup {"none"}] BY InstalledType DEF TypeOK
<1>4. NewEvent => events' \in 0 .. MaxEvents
  <2>1. events \in 0 .. MaxEvents /\ MaxEvents \in Nat BY HubAssumption DEF TypeOK
  <2> QED BY <2>1 DEF NewEvent
<1>5. ASSUME UNCHANGED <<daemon, devices, failed>>, NewEvent \/ events' = events
      PROVE  /\ daemon' = daemon /\ devices' = devices /\ failed' \in BOOLEAN
             /\ events' \in 0 .. MaxEvents
  BY <1>4, <1>5 DEF TypeOK
<1>6. CASE \E k \in Asked : Take(k[1], k[2])
  BY <1>1, <1>5, <1>6 DEF Take, ProcessorOnly, setup, TypeOK
<1>7. CASE CheckNonce \/ Answer \/ Execute \/ Store \/ Keep \/ Report
  BY <1>1, <1>5, <1>7 DEF CheckNonce, Answer, Execute, Store, Keep, Report, ProcessorOnly,
                          setup, TypeOK
<1>8. CASE \E h \in Handlers : Configure(h) \/ ReloadDevices(h)
  BY <1>1, <1>5, <1>8 DEF Configure, ReloadDevices, HandlerOnly, TypeOK
<1>9. CASE \E h \in Handlers : Save(h)
  BY <1>1, <1>9 DEF Save, HandlerOnly, TypeOK
<1>10. CASE \E h \in Handlers : Shutdown(h)
  BY <1>1, <1>2, <1>10 DEF Shutdown, ShutDownDevices, HandlerOnly, TypeOK
<1>11. CASE \E h \in Handlers : Initialize(h)
  <2>1. devices' = Installed(config) /\ daemon' = daemon /\ events' = events
        /\ failed' = (failed \/ Broken(config) # {})
    BY <1>11 DEF Initialize, HandlerOnly
  <2> QED BY <1>1, <1>3, <2>1 DEF TypeOK
<1>12. CASE \/ \E o \in Objects, n \in Nonces : Age(o, n)
            \/ Sweep \/ NextCache \/ Peek \/ Remove \/ FindEmpty \/ Delete
            \/ UNCHANGED vars
  BY <1>1, <1>5, <1>12 DEF Age, Sweep, NextCache, Peek, Remove, FindEmpty, Delete, CleanerOnly,
                           setup, vars, TypeOK
<1>13. CASE StartDevices
  <2>1. devices' = Installed(config) /\ daemon' \in {"devices", "failed"} /\ events' = events
        /\ failed' = (Broken(config) # {})
    BY <1>13 DEF StartDevices, DaemonOnly
  <2> QED BY <1>1, <1>3, <2>1 DEF TypeOK
<1>14. CASE StartAPI \/ StartWorker \/ StopAPI \/ StopWorker
  BY <1>1, <1>14 DEF StartAPI, StartWorker, StopAPI, StopWorker, DaemonOnly, TypeOK
<1>15. CASE StopDevices
  BY <1>1, <1>2, <1>15 DEF StopDevices, ShutDownDevices, DaemonOnly, TypeOK
<1> QED BY <1>6, <1>7, <1>8, <1>9, <1>10, <1>11, <1>12, <1>13, <1>14, <1>15, NextIs

LEMMA TypeProcessor ==
    ASSUME NonceInv, DeviceInv, [Next]_vars
    PROVE  processor' \in {Idle} \cup Reports \cup Requests /\ ProcessorParts'
<1>0. TypeOK /\ ProcessorParts /\ CleanerParts /\ Sound(cache) /\ CachesParts
  BY SoundIs DEF NonceInv
<1>1. ASSUME UNCHANGED processor
      PROVE  processor' \in {Idle} \cup Reports \cup Requests /\ ProcessorParts'
  BY <1>0, <1>1 DEF TypeOK, ProcessorParts, Using
<1>2. ASSUME processor' = Idle \/ (processor' \in Reports /\ processor'.step = "report")
      PROVE  processor' \in {Idle} \cup Reports \cup Requests /\ ProcessorParts'
  BY <1>2 DEF ProcessorParts, Using, Idle
<1>3. CASE \E k \in Asked : Take(k[1], k[2])
  <2>1. PICK k \in Asked : Take(k[1], k[2]) BY <1>3
  <2>2. CASE FindCache("get", Request(k[1], k[2]))
    <3>1. ~Using BY <2>1, TakeIs DEF Using
    <3>2. processor' \in Requests /\ processor'.step = "get" /\ processor'.object \in Objects
      BY <1>0, <2>1, <2>2, <3>1, TakeIs, FindCacheIs
    <3> QED BY <3>2 DEF ProcessorParts, Using
  <2>3. CASE processor' \in Requests /\ processor'.step = "run" /\ processor'.nonce = None
    BY <2>3 DEF ProcessorParts, Using
  <2> QED BY <2>1, <2>2, <2>3, TakeIs
<1>4. CASE CheckNonce
  <2> DEFINE o == processor.object
  <2>1. /\ processor' \in Requests /\ processor'.step \in {"run", "refuse", "replay"}
        /\ processor'.nonce = processor.nonce
        /\ processor'.step = "run" => processor.nonce \in Nonces \cup {None}
        /\ o \in Objects
    BY <1>0, <1>4, CheckNonceIs
  <2>2. processor'.step = "replay" =>
           \E e \in Contents(cache[o]) : e.nonce = processor.nonce /\ e.answer = processor'.answer
    BY <1>0, <1>4, CheckNonceIs
  <2>3. Contents(cache[o]) \subseteq Keeping BY <1>0, <2>1, KeepingIn DEF Sound
  <2>4. processor'.step = "replay" => processor'.nonce \in Nonces /\ processor'.answer \in Answers
    BY <2>1, <2>2, <2>3 DEF Keeping
  <2> QED BY <2>1, <2>4 DEF ProcessorParts, Using
<1>5. CASE Answer BY <1>2, <1>5, AnswerIs
<1>6. CASE Execute
  <2>1. CASE processor' = Idle BY <1>2, <2>1
  <2>2. CASE /\ processor' \in Requests /\ processor'.step = "store" /\ processor'.nonce \in Nonces
             /\ processor'.answer = IF devices[processor.device] = "none" THEN "not found"
                                    ELSE "executed"
    BY <2>2 DEF ProcessorParts, Using, Answers
  <2> QED BY <1>0, <1>6, <2>1, <2>2, ExecuteIs
<1>7. CASE Store
  <2>1. processor.step = "store" /\ FindCache("add", processor) /\ ~Using
    BY <1>7 DEF Store, Using
  <2>2. processor \in Requests BY <1>0, <2>1, RequestIn
  <2>3. /\ processor' \in Requests /\ processor'.step = "add" /\ processor'.object \in Objects
        /\ processor'.nonce = processor.nonce /\ processor'.answer = processor.answer
    BY <1>0, <2>1, <2>2, FindCacheIs
  <2> QED BY <1>0, <2>1, <2>3 DEF ProcessorParts, Using
<1>8. CASE Keep BY <1>2, <1>8 DEF Keep
<1>9. CASE Report
  BY <1>2, <1>9, ReportIs DEF DeviceInv
<1>10. ASSUME processor' = Touched
       PROVE  processor' \in {Idle} \cup Reports \cup Requests /\ ProcessorParts'
  <2>1. CASE processor' = processor BY <1>1, <2>1
  <2>2. CASE processor' # processor
    BY <1>0, <1>10, <2>2, TouchedIs DEF ProcessorParts, Using
  <2> QED BY <2>1, <2>2
<1>11. CASE \/ \E h \in Handlers : Shutdown(h)
            \/ \E h \in Handlers : Initialize(h)
            \/ StopDevices
  BY <1>10, <1>11 DEF Shutdown, Initialize, StopDevices, ShutDownDevices
<1>12. CASE \/ \E h \in Handlers : Configure(h) \/ ReloadDevices(h) \/ Save(h)
            \/ \E o \in Objects, n \in Nonces : Age(o, n)
            \/ Sweep \/ NextCache \/ Peek \/ Remove \/ FindEmpty \/ Delete
            \/ StartDevices
            \/ StartAPI \/ StartWorker \/ StopAPI \/ StopWorker
            \/ UNCHANGED vars
  BY <1>1, <1>12 DEF Configure, ReloadDevices, Save, Age, Sweep, NextCache, Peek, Remove,
       FindEmpty, Delete, CleanerOnly, StartDevices, StartAPI, StartWorker, StopAPI,
       StopWorker, vars
<1> QED BY <1>0, <1>3, <1>4, <1>5, <1>6, <1>7, <1>8, <1>9, <1>11, <1>12, NextIs

\* What each step of a sweep does.
LEMMA SweepIs ==
    ASSUME TypeOK, Sweep
    PROVE  /\ cleaner.step = "idle" /\ UNCHANGED caches
           /\ cleaner' \in Sweeps /\ cleaner'.step = "next"
           /\ cleaner'.device = "none" /\ cleaner'.object = "none"
           /\ \A p \in cleaner'.todo : /\ p[1] \in Devices /\ p[2] \in Objects
                                       /\ p = <<p[1], cacheOf[p[1]], Expired(cacheOf[p[1]])>>
<1> DEFINE todo == {<<d, cacheOf[d], Expired(cacheOf[d])>> :
                       d \in {e \in Devices : cacheOf[e] # "none"}}
<1>1. /\ cleaner.step = "idle" /\ UNCHANGED caches
      /\ cleaner' = [step |-> "next", device |-> "none", object |-> "none",
                     nonces |-> {}, nonce |-> "none", todo |-> todo]
  BY DEF Sweep
<1>2. \A o : Expired(o) \subseteq Nonces BY DEF Expired
<1>3. \A d \in Devices : cacheOf[d] # "none" => cacheOf[d] \in Objects BY DEF TypeOK
<1>4. \A p \in todo : /\ p \in Devices \X Objects \X SUBSET Nonces
                      /\ p[1] \in Devices /\ p[2] \in Objects
                      /\ p = <<p[1], cacheOf[p[1]], Expired(cacheOf[p[1]])>>
  BY <1>2, <1>3
<1> HIDE DEF todo
<1>5. cleaner' \in Sweeps BY <1>1, <1>4 DEF Sweeps
<1> QED BY <1>1, <1>4, <1>5

LEMMA NextCacheIs ==
    ASSUME TypeOK, NextCache
    PROVE  /\ cleaner.step = "next" /\ cleaner \in Sweeps /\ UNCHANGED caches
           /\ \/ cleaner' = Idle
              \/ \E p \in cleaner.todo :
                    /\ p[1] \in Devices /\ p[2] \in Objects
                    /\ cleaner' \in Sweeps /\ cleaner'.step = "look"
                    /\ cleaner'.device = p[1] /\ cleaner'.object = p[2]
                    /\ cleaner'.nonces = p[3] /\ cleaner'.todo = cleaner.todo \ {p}
<1>1. cleaner.step = "next" /\ cleaner \in Sweeps /\ UNCHANGED caches
  BY SweepIn DEF NextCache
<1>2. \A p \in cleaner.todo : p[1] \in Devices /\ p[2] \in Objects /\ p[3] \in SUBSET Nonces
  BY <1>1 DEF Sweeps
<1>3. CASE cleaner' = Idle BY <1>1, <1>3
<1>4. CASE \E p \in cleaner.todo :
              cleaner' = [step |-> "look", device |-> p[1], object |-> p[2],
                          nonces |-> p[3], nonce |-> "none", todo |-> cleaner.todo \ {p}]
  <2>1. PICK p \in cleaner.todo :
              cleaner' = [step |-> "look", device |-> p[1], object |-> p[2],
                          nonces |-> p[3], nonce |-> "none", todo |-> cleaner.todo \ {p}]
    BY <1>4
  <2>2. cleaner.todo \ {p} \in SUBSET (Devices \X Objects \X SUBSET Nonces)
    BY <1>1 DEF Sweeps
  <2>3. /\ cleaner'.step = "look" /\ cleaner'.device = p[1] /\ cleaner'.object = p[2]
        /\ cleaner'.nonces = p[3] /\ cleaner'.todo = cleaner.todo \ {p}
    BY <2>1
  <2>4. cleaner' \in Sweeps BY <1>2, <2>1, <2>2 DEF Sweeps
  <2> QED BY <1>1, <1>2, <2>3, <2>4
<1> QED BY <1>3, <1>4 DEF NextCache

LEMMA PeekIs ==
    ASSUME TypeOK, Peek
    PROVE  /\ cleaner.step = "look" /\ cleaner \in Sweeps /\ UNCHANGED caches
           /\ cleaner' \in Sweeps /\ cleaner'.step \in {"look", "remove"}
           /\ cleaner'.device = cleaner.device /\ cleaner'.object = cleaner.object
           /\ cleaner'.nonces \subseteq cleaner.nonces /\ cleaner'.todo = cleaner.todo
           /\ cleaner'.step = "remove" => cleaner'.nonce \in cleaner.nonces
<1>1. cleaner.step = "look" /\ cleaner \in Sweeps /\ UNCHANGED caches
  BY SweepIn DEF Peek
<1>2. PICK n \in cleaner.nonces :
          cleaner' = [cleaner EXCEPT !.step = IF n \in Expired(cleaner.object) THEN "remove" ELSE @,
                                     !.nonce = IF n \in Expired(cleaner.object) THEN n ELSE @,
                                     !.nonces = @ \ {n}]
  BY DEF Peek
<1>3. n \in Nonces BY <1>1 DEF Sweeps
<1>4. CASE n \in Expired(cleaner.object)
  <2>1. cleaner' = [cleaner EXCEPT !.step = "remove", !.nonce = n, !.nonces = @ \ {n}]
    BY <1>2, <1>4
  <2> QED BY <1>1, <1>3, <2>1 DEF Sweeps
<1>5. CASE n \notin Expired(cleaner.object)
  <2>1. cleaner' = [cleaner EXCEPT !.step = @, !.nonce = @, !.nonces = @ \ {n}]
    BY <1>2, <1>5
  <2> QED BY <1>1, <1>3, <2>1 DEF Sweeps
<1> QED BY <1>4, <1>5

LEMMA FindEmptyIs ==
    ASSUME TypeOK, FindEmpty
    PROVE  /\ cleaner.step = "look" /\ cleaner \in Sweeps /\ UNCHANGED caches
           /\ cleaner' \in Sweeps /\ cleaner'.todo = cleaner.todo
           /\ \/ /\ cache[cleaner.object] = <<>> /\ cleaner'.step = "delete"
                 /\ cleaner'.device = cleaner.device /\ cleaner'.object = cleaner.object
                 /\ cleaner'.nonces = cleaner.nonces
              \/ /\ cleaner'.step = "next"
                 /\ cleaner'.device = "none" /\ cleaner'.object = "none"
<1>1. cleaner.step = "look" /\ cleaner \in Sweeps /\ UNCHANGED caches
  BY SweepIn DEF FindEmpty
<1>2. CASE cache[cleaner.object] = <<>>
  <2>1. cleaner' = [cleaner EXCEPT !.step = "delete"] BY <1>2 DEF FindEmpty
  <2> QED BY <1>1, <1>2, <2>1 DEF Sweeps
<1>3. CASE cache[cleaner.object] # <<>>
  <2>1. cleaner' = [cleaner EXCEPT !.step = "next", !.device = "none", !.object = "none"]
    BY <1>3 DEF FindEmpty
  <2> QED BY <1>1, <2>1 DEF Sweeps
<1> QED BY <1>2, <1>3

LEMMA DeleteIs ==
    ASSUME TypeOK, CleanerParts, Delete
    PROVE  /\ cleaner.step = "delete" /\ cleaner \in Sweeps /\ cleaner.device \in Devices
           /\ cleaner' \in Sweeps /\ cleaner'.step = "next" /\ cleaner'.todo = cleaner.todo
           /\ cleaner'.device = "none" /\ cleaner'.object = "none"
           /\ cache' = cache /\ cacheOf' \in [Devices -> Objects \cup {"none"}]
           /\ cacheOf'[cleaner.device] = "none"
           /\ \A d \in Devices \ {cleaner.device} : cacheOf'[d] = cacheOf[d]
<1>1. cleaner.step = "delete" /\ cleaner \in Sweeps /\ cleaner.device \in Devices
  BY SweepIn DEF Delete, CleanerParts, Visiting
<1>2. cleaner' = [cleaner EXCEPT !.step = "next", !.device = "none", !.object = "none"]
  BY DEF Delete
<1>3. /\ cleaner' \in Sweeps /\ cleaner'.step = "next" /\ cleaner'.todo = cleaner.todo
      /\ cleaner'.device = "none" /\ cleaner'.object = "none"
  BY <1>1, <1>2 DEF Sweeps
<1>4. cache' = cache /\ cacheOf' = [cacheOf EXCEPT ![cleaner.device] = "none"]
      /\ cacheOf \in [Devices -> Objects \cup {"none"}]
  BY DEF Delete, TypeOK
<1> QED BY <1>1, <1>3, <1>4

LEMMA TypeCleaner ==
    ASSUME NonceInv, [Next]_vars
    PROVE  cleaner' \in {Idle} \cup Sweeps /\ CleanerParts'
<1>0. TypeOK /\ ProcessorParts /\ CleanerParts /\ Sound(cache) BY SoundIs DEF NonceInv
<1>1. ASSUME UNCHANGED cleaner PROVE cleaner' \in {Idle} \cup Sweeps /\ CleanerParts'
  BY <1>0, <1>1 DEF TypeOK, CleanerParts, Visiting
<1>2. CASE Sweep BY <1>0, <1>2, SweepIs DEF CleanerParts, Visiting
<1>3. CASE NextCache
  <2>1. CASE cleaner' = Idle BY <2>1 DEF CleanerParts, Visiting, Idle
  <2>2. CASE cleaner' # Idle
    BY <1>0, <1>3, <2>2, NextCacheIs DEF CleanerParts, Visiting
  <2> QED BY <2>1, <2>2
<1>4. CASE Peek
  <2>1. cleaner' \in Sweeps /\ cleaner.step = "look" BY <1>0, <1>4, PeekIs
  <2>2. cleaner'.step = "remove" => cleaner'.nonce \in Nonces
    BY <1>0, <1>4, PeekIs DEF Sweeps
  <2> QED BY <1>0, <1>4, <2>1, <2>2, PeekIs DEF CleanerParts, Visiting
<1>5. CASE Remove BY <1>0, <1>5, RemoveIs DEF CleanerParts, Visiting
<1>6. CASE FindEmpty BY <1>0, <1>6, FindEmptyIs DEF CleanerParts, Visiting
<1>7. CASE Delete BY <1>0, <1>7, DeleteIs DEF CleanerParts, Visiting
<1>8. CASE ~(Sweep \/ NextCache \/ Peek \/ Remove \/ FindEmpty \/ Delete)
  BY <1>0, <1>1, <1>8, NextIs
     DEF Take, CheckNonce, Answer, Execute, Store, Keep, Report, ProcessorOnly, Configure,
         ReloadDevices, Save, Shutdown, Initialize, HandlerOnly, Age, StartDevices, StartAPI,
         StartWorker, StopAPI, StopWorker, StopDevices, DaemonOnly, vars
<1> QED BY <1>2, <1>3, <1>4, <1>5, <1>6, <1>7, <1>8

LEMMA TypeCaches ==
    ASSUME NonceInv, [Next]_vars
    PROVE  cacheOf' \in [Devices -> Objects \cup {"none"}] /\ Sound(cache')
<1>0. TypeOK /\ ProcessorParts /\ CleanerParts /\ CachesParts /\ Sound(cache)
      /\ cacheOf \in [Devices -> Objects \cup {"none"}]
  BY SoundIs DEF NonceInv, TypeOK
<1>1. CASE \E k \in Asked : Take(k[1], k[2])
  <2>1. PICK k \in Asked : Take(k[1], k[2]) BY <1>1
  <2>2. CASE FindCache("get", Request(k[1], k[2]))
    <3>1. ~Using BY <2>1, TakeIs DEF Using
    <3> QED BY <1>0, <2>1, <2>2, <3>1, TakeIs, FindCacheIs
  <2>3. CASE UNCHANGED caches BY <1>0, <2>3 DEF caches
  <2> QED BY <2>1, <2>2, <2>3, TakeIs
<1>2. CASE CheckNonce BY <1>0, <1>2, CheckNonceIs DEF CheckNonce
<1>3. CASE Store
  <2>1. FindCache("add", processor) /\ ~Using /\ processor \in Requests
    BY <1>0, <1>3, RequestIn DEF Store, Using
  <2> QED BY <1>0, <2>1, FindCacheIs
<1>4. CASE Keep BY <1>0, <1>4, KeepIs DEF Keep
<1>5. CASE Remove BY <1>0, <1>5, RemoveIs DEF Remove
<1>6. CASE Delete BY <1>0, <1>6, DeleteIs
<1>7. CASE \E o \in Objects, n \in Nonces : Age(o, n) BY <1>0, <1>7, AgeIs DEF Age
<1>8. CASE (\E h \in Handlers : Shutdown(h)) \/ StopDevices
  <2>1. PurgeCaches BY <1>8 DEF Shutdown, StopDevices, ShutDownDevices
  <2> QED BY <1>0, <2>1, PurgeIs
<1>9. ASSUME UNCHANGED caches
      PROVE  cacheOf' \in [Devices -> Objects \cup {"none"}] /\ Sound(cache')
  BY <1>0, <1>9 DEF caches
<1>10. CASE \/ Answer \/ Execute \/ Report
            \/ \E h \in Handlers : Configure(h) \/ ReloadDevices(h) \/ Save(h)
            \/ \E h \in Handlers : Initialize(h)
            \/ Sweep \/ NextCache \/ Peek \/ FindEmpty
            \/ StartDevices
            \/ StartAPI \/ StartWorker \/ StopAPI \/ StopWorker
            \/ UNCHANGED vars
  BY <1>9, <1>10 DEF Answer, Execute, Report, Configure, ReloadDevices, Save, Initialize, Sweep,
       NextCache, Peek, FindEmpty, StartDevices, StartAPI, StartWorker, StopAPI, StopWorker, vars
<1> QED BY <1>0, <1>1, <1>2, <1>3, <1>4, <1>5, <1>6, <1>7, <1>8, <1>10, NextIs

\* What was executed and stored, and what is excused, are changed by few steps.
LEMMA PastIs ==
    ASSUME TypeOK, [Next]_vars
    PROVE  \/ Keep
           \/ UNCHANGED <<done, last>>
<1>1. CASE \E k \in Asked : Take(k[1], k[2]) BY <1>1 DEF Take, past
<1>2. CASE CheckNonce \/ Answer \/ Execute \/ Store \/ Report
  BY <1>2 DEF CheckNonce, Answer, Execute, Store, Report, past
<1>3. CASE \/ \E h \in Handlers : Configure(h) \/ ReloadDevices(h) \/ Save(h)
           \/ \E h \in Handlers : Shutdown(h)
           \/ \E h \in Handlers : Initialize(h)
  BY <1>3 DEF Configure, ReloadDevices, Save, Shutdown, Initialize, HandlerOnly
<1>4. CASE \/ \E o \in Objects, n \in Nonces : Age(o, n)
           \/ Sweep \/ NextCache \/ Peek \/ Remove \/ FindEmpty \/ Delete
           \/ UNCHANGED vars
  BY <1>4 DEF Age, Sweep, NextCache, Peek, Remove, FindEmpty, Delete, CleanerOnly, past, vars
<1>5. CASE \/ StartDevices \/ StartAPI \/ StartWorker \/ StopAPI \/ StopWorker \/ StopDevices
  BY <1>5 DEF StartDevices, StartAPI, StartWorker, StopAPI, StopWorker, StopDevices, DaemonOnly
<1> QED BY <1>1, <1>2, <1>3, <1>4, <1>5, NextIs

\* An answer is excused as it ages, as the devices are shut down and as one is kept.
LEMMA ExcusedIs ==
    ASSUME TypeOK, [Next]_vars
    PROVE  \/ excused' = excused
           \/ Keep
           \/ \E o \in Objects, n \in Nonces :
                 /\ Age(o, n)
                 /\ excused' = excused \cup {<<d, n>> : d \in {e \in Devices : cacheOf[e] = o}}
           \/ /\ excused' = done
              /\ (\E h \in Handlers : Shutdown(h)) \/ StopDevices
<1>1. CASE \E k \in Asked : Take(k[1], k[2]) BY <1>1 DEF Take, past
<1>2. CASE CheckNonce \/ Answer \/ Execute \/ Store \/ Report
  BY <1>2 DEF CheckNonce, Answer, Execute, Store, Report, past
<1>3. CASE \/ \E h \in Handlers : Configure(h) \/ ReloadDevices(h) \/ Save(h)
           \/ \E h \in Handlers : Initialize(h)
  BY <1>3 DEF Configure, ReloadDevices, Save, Initialize
<1>4. CASE (\E h \in Handlers : Shutdown(h)) \/ StopDevices
  BY <1>4 DEF Shutdown, StopDevices, ShutDownDevices
<1>5. CASE \E o \in Objects, n \in Nonces : Age(o, n) BY <1>5 DEF Age
<1>6. CASE Sweep \/ NextCache \/ Peek \/ Remove \/ FindEmpty \/ Delete \/ UNCHANGED vars
  BY <1>6 DEF Sweep, NextCache, Peek, Remove, FindEmpty, Delete, CleanerOnly, past, vars
<1>7. CASE \/ StartDevices \/ StartAPI \/ StartWorker \/ StopAPI \/ StopWorker
  BY <1>7 DEF StartDevices, StartAPI, StartWorker, StopAPI, StopWorker
<1> QED BY <1>1, <1>2, <1>3, <1>4, <1>5, <1>6, <1>7, NextIs

LEMMA TypePast ==
    ASSUME NonceInv, [Next]_vars
    PROVE  /\ done' \subseteq Keys /\ IsFiniteSet(done')
           /\ last' \in [Keys -> Answers \cup {"none"}] /\ excused' \subseteq Keys
<1>0. /\ TypeOK /\ ProcessorParts /\ CachesParts /\ Sound(cache)
      /\ done \subseteq Keys /\ IsFiniteSet(done)
      /\ last \in [Keys -> Answers \cup {"none"}] /\ excused \subseteq Keys
  BY SoundIs DEF NonceInv, TypeOK, CachesParts
<1>1. CASE Keep
  <2> DEFINE k == <<processor.device, processor.nonce>>
  <2>1. processor.device \in Devices /\ processor.nonce \in Nonces /\ processor.answer \in Answers
    BY <1>0, <1>1, RequestIn DEF Keep, ProcessorParts, Requests
  <2>2. k \in Keys BY <2>1 DEF Keys
  <2>3. done' = done \cup {k} /\ last' = [last EXCEPT ![k] = processor.answer]
    BY <1>1 DEF Keep
  <2>4. IsFiniteSet(done') /\ excused' \subseteq excused \cup done'
    BY <1>0, <1>1, KeepIs
  <2> HIDE DEF k
  <2> QED BY <1>0, <2>1, <2>2, <2>3, <2>4
<1>2. CASE UNCHANGED <<done, last>>
  <2>1. ASSUME NEW o \in Objects, NEW n \in Nonces
        PROVE  {<<d, n>> : d \in {e \in Devices : cacheOf[e] = o}} \subseteq Keys
    BY DEF Keys
  <2>2. ~Keep => excused' \subseteq Keys BY <1>0, <2>1, ExcusedIs
  <2> QED BY <1>0, <1>1, <1>2, <2>2
<1> QED BY <1>0, <1>1, <1>2, PastIs

-----------------------------------------------------------------------------
(* The steps, by what they do to the caches *)

Finding == \E p \in Requests, s \in {"get", "add"} :
              /\ FindCache(s, p) /\ ~Using /\ daemon # "new"
              /\ s = "add" => processor.step = "store" /\ p = processor
              /\ UNCHANGED <<devices, handler, daemon, cleaner, done, last, excused>>
Purging == /\ PurgeCaches /\ processor' = Touched /\ devices' = NoDevices /\ excused' = done
           /\ daemon' # "new" /\ UNCHANGED <<cleaner, done, last>>
Quiet   == /\ UNCHANGED <<cacheOf, cache, cleaner, done, last, excused>>
           /\ Using' => /\ Using /\ processor'.step = processor.step
                        /\ processor'.device = processor.device
                        /\ processor'.object = processor.object
           /\ processor'.step \in {"run", "replay"} =>
                 processor' = processor \/ (processor'.step = "run" /\ processor'.nonce = None)

LEMMA StepIs ==
    ASSUME NonceInv, [Next]_vars
    PROVE  \/ Finding \/ Purging \/ Quiet
           \/ CheckNonce \/ Keep
           \/ \E o \in Objects, n \in Nonces : Age(o, n)
           \/ Sweep \/ NextCache \/ Peek \/ Remove \/ FindEmpty \/ Delete
<1>0. TypeOK /\ ProcessorParts BY DEF NonceInv
<1>1. CASE \E k \in Asked : Take(k[1], k[2])
  <2>1. PICK k \in Asked : Take(k[1], k[2]) BY <1>1
  <2>2. UNCHANGED <<devices, handler, daemon, cleaner, done, last, excused>>
    BY <2>1 DEF Take, ProcessorOnly, setup, past
  <2>3. CASE FindCache("get", Request(k[1], k[2]))
    <3>1. ~Using /\ Request(k[1], k[2]) \in Requests /\ daemon # "new"
      BY <2>1, TakeIs DEF Using, Running
    <3>2. Finding BY <2>2, <2>3, <3>1 DEF Finding
    <3> QED BY <3>2
  <2>4. CASE /\ UNCHANGED caches /\ processor'.step = "run" /\ processor'.nonce = None
    <3>1. Quiet BY <2>2, <2>4 DEF Quiet, Using, caches
    <3> QED BY <3>1
  <2> QED BY <2>1, <2>3, <2>4, TakeIs
<1>2. CASE Store
  <2>1. /\ FindCache("add", processor) /\ ~Using /\ processor \in Requests
        /\ processor.step = "store" /\ daemon # "new"
        /\ UNCHANGED <<devices, handler, daemon, cleaner, done, last, excused>>
    BY <1>0, <1>2, RequestIn DEF Store, Using, ProcessorOnly, Running, setup, past
  <2>2. Finding BY <2>1 DEF Finding
  <2> QED BY <2>2
<1>3. CASE Answer \/ Execute \/ Report
  <2>1. UNCHANGED <<cacheOf, cache, cleaner, done, last, excused>>
    BY <1>3 DEF Answer, Execute, Report, ProcessorOnly, caches, past
  <2>2. processor'.step \in {"idle", "store", "report"}
    <3>1. CASE Answer BY <3>1, AnswerIs DEF Idle
    <3>2. CASE Execute
      <4>1. processor' = Idle \/ processor'.step = "store" BY <1>0, <3>2, ExecuteIs
      <4> QED BY <4>1 DEF Idle
    <3>3. CASE Report BY <3>3 DEF Report
    <3> QED BY <1>3, <3>1, <3>2, <3>3
  <2>3. Quiet BY <2>1, <2>2 DEF Quiet, Using
  <2> QED BY <2>3
<1>4. CASE \E h \in Handlers : Initialize(h)
  <2>1. processor' = Touched /\ UNCHANGED <<cacheOf, cache, cleaner, done, last, excused>>
    BY <1>4 DEF Initialize, HandlerOnly, caches
  <2>2. Quiet BY <1>0, <2>1, TouchedIs DEF Quiet, Using
  <2> QED BY <2>2
<1>5. CASE \/ \E h \in Handlers : Configure(h) \/ ReloadDevices(h) \/ Save(h)
           \/ StartDevices \/ StartAPI \/ StartWorker \/ StopAPI \/ StopWorker
           \/ UNCHANGED vars
  <2>1. UNCHANGED <<cacheOf, cache, processor, cleaner, done, last, excused>>
    BY <1>5 DEF Configure, ReloadDevices, Save, HandlerOnly, StartDevices, StartAPI, StartWorker,
         StopAPI, StopWorker, DaemonOnly, caches, past, vars
  <2>2. Quiet BY <2>1 DEF Quiet, Using
  <2> QED BY <2>2
<1>6. CASE (\E h \in Handlers : Shutdown(h)) \/ StopDevices
  <2>1. Purging
    BY <1>6 DEF Shutdown, StopDevices, ShutDownDevices, HandlerOnly, DaemonOnly, Purging, Running
  <2> QED BY <2>1
<1> QED BY <1>0, <1>1, <1>2, <1>3, <1>4, <1>5, <1>6, NextIs

-----------------------------------------------------------------------------
(* Owners *)

LEMMA HeldIs ==
    ASSUME TypeOK, NEW o \in Objects, NEW d \in Devices, Refers(d, o)
    PROVE  o \in Held
BY DEF Refers, Held, Using, Visiting

LEMMA OwnersStep ==
    ASSUME OneOwner, \A o \in Objects, d \in Devices : Refers(d, o)' => Refers(d, o),
           \A o \in Objects, d \in Devices :
              Refers(d, o) => \A e \in Contents(cache'[o]) : <<d, e.nonce>> \in done'
    PROVE  OneOwner' /\ Known'
BY DEF OneOwner, Known

LEMMA OwnersNext == ASSUME NonceInv, [Next]_vars PROVE OneOwner' /\ Known'
<1>0. TypeOK /\ ProcessorParts /\ CleanerParts /\ CachesParts /\ Sound(cache)
      /\ OneOwner /\ Known
  BY SoundIs DEF NonceInv, CachesParts
<1>1. ASSUME NEW p \in Requests, NEW s \in {"get", "add"}, FindCache(s, p), ~Using,
             UNCHANGED <<cleaner, done>>
      PROVE  OneOwner' /\ Known'
  <2>1. PICK o \in Objects :
              /\ processor'.step = s /\ processor'.object = o
              /\ processor'.device = p.device
              /\ cacheOf'[p.device] = o
              /\ \A d \in Devices \ {p.device} : cacheOf'[d] = cacheOf[d]
              /\ \/ cacheOf[p.device] = o /\ cacheOf' = cacheOf /\ cache' = cache
                 \/ /\ cacheOf[p.device] = "none" /\ o \notin Held /\ cache'[o] = <<>>
                    /\ \A u \in Objects \ {o} : cache'[u] = cache[u]
    BY <1>0, <1>1, FindCacheIs
  <2>2. p.device \in Devices BY DEF Requests
  <2>3. \A u \in Objects, d \in Devices : Refers(d, u)' => Refers(d, u) \/ (d = p.device /\ u = o)
    BY <1>1, <2>1 DEF Refers, Visiting, Using
  <2>4. CASE cacheOf[p.device] = o /\ cacheOf' = cacheOf /\ cache' = cache
    <3>1. Refers(p.device, o) BY <2>4 DEF Refers
    <3> QED BY <1>0, <1>1, <2>3, <2>4, <3>1 DEF OneOwner, Known
  <2>5. CASE /\ cacheOf[p.device] = "none" /\ o \notin Held /\ cache'[o] = <<>>
             /\ \A u \in Objects \ {o} : cache'[u] = cache[u]
    <3>1. \A d \in Devices : ~Refers(d, o) BY <1>0, <2>5, HeldIs
    <3>2. Contents(cache'[o]) = {} BY <2>5, EmptyIs
    <3>3. OneOwner' BY <1>0, <2>3, <3>1 DEF OneOwner
    <3>4. Known' BY <1>0, <1>1, <2>3, <2>5, <3>1, <3>2 DEF Known
    <3> QED BY <3>3, <3>4
  <2> QED BY <2>1, <2>4, <2>5
<1>2. CASE Finding BY <1>1, <1>2 DEF Finding
<1>4. CASE CheckNonce
  <2> DEFINE o == processor.object
  <2>1. /\ UNCHANGED <<cacheOf, cleaner, done>>
        /\ processor'.step \in {"run", "refuse", "replay"} /\ o \in Objects
        /\ \A u \in Objects \ {o} : cache'[u] = cache[u]
        /\ Contents(cache'[o]) \subseteq Contents(cache[o])
    BY <1>0, <1>4, CheckNonceIs DEF CheckNonce, ProcessorOnly, past
  <2>2. \A u \in Objects, d \in Devices : Refers(d, u)' => Refers(d, u)
    BY <2>1 DEF Refers, Using, Visiting
  <2>3. \A u \in Objects : Contents(cache'[u]) \subseteq Contents(cache[u]) BY <2>1
  <2> QED BY <1>0, <2>1, <2>2, <2>3, OwnersStep DEF Known
<1>5. CASE Keep
  <2> DEFINE o == processor.object
  <2>1. /\ processor.step = "add" /\ o \in Objects /\ processor.device \in Devices
        /\ done' = done \cup {<<processor.device, processor.nonce>>}
        /\ \A u \in Objects \ {o} : cache'[u] = cache[u]
        /\ \A f \in Contents(cache'[o]) :
              f.nonce = processor.nonce \/ f \in Contents(cache[o])
    BY <1>0, <1>5, KeepIs DEF KeptEntry
  <2>2. UNCHANGED <<cacheOf, cleaner>> /\ processor' = Idle BY <1>5 DEF Keep, ProcessorOnly
  <2>3. \A u \in Objects, d \in Devices : Refers(d, u)' => Refers(d, u)
    BY <2>2 DEF Refers, Using, Visiting, Idle
  <2>4. Refers(processor.device, o) BY <2>1 DEF Refers, Using
  <2>5. ASSUME NEW u \in Objects, NEW d \in Devices, Refers(d, u), NEW e \in Contents(cache'[u])
        PROVE  <<d, e.nonce>> \in done'
    <3>1. CASE u = o
      <4>1. d = processor.device BY <1>0, <2>1, <2>4, <2>5, <3>1 DEF OneOwner
      <4> QED BY <1>0, <2>1, <2>5, <3>1, <4>1 DEF Known
    <3>2. CASE u # o BY <1>0, <2>1, <2>5, <3>2 DEF Known
    <3> QED BY <3>1, <3>2
  <2> QED BY <1>0, <2>3, <2>5, OwnersStep
<1>6. CASE Remove
  <2> DEFINE o == cleaner.object
  <2>1. /\ cleaner.step = "remove" /\ cleaner'.step = "look" /\ o \in Objects
        /\ cleaner'.device = cleaner.device /\ cleaner'.object = o
        /\ cleaner'.todo = cleaner.todo
        /\ \A u \in Objects \ {o} : cache'[u] = cache[u]
        /\ Contents(cache'[o]) \subseteq Contents(cache[o])
    BY <1>0, <1>6, RemoveIs
  <2>2. UNCHANGED <<cacheOf, processor, done>> BY <1>6 DEF Remove, CleanerOnly, past
  <2>3. \A u \in Objects, d \in Devices : Refers(d, u)' => Refers(d, u)
    BY <2>1, <2>2 DEF Refers, Using, Visiting
  <2>4. \A u \in Objects : Contents(cache'[u]) \subseteq Contents(cache[u]) BY <2>1
  <2> QED BY <1>0, <2>2, <2>3, <2>4, OwnersStep DEF Known
<1>7. CASE \E o \in Objects, n \in Nonces : Age(o, n)
  <2>1. PICK o \in Objects, n \in Nonces : Age(o, n) BY <1>7
  <2>2. UNCHANGED <<cacheOf, processor, cleaner, done>> BY <2>1 DEF Age
  <2>3. \A u \in Objects, d \in Devices : Refers(d, u)' => Refers(d, u)
    BY <2>2 DEF Refers, Using, Visiting
  <2>4. \A u \in Objects : \A f \in Contents(cache'[u]) : \E e \in Contents(cache[u]) :
           f.nonce = e.nonce
    BY <1>0, <2>1, AgeIs
  <2>5. ASSUME NEW u \in Objects, NEW d \in Devices, Refers(d, u), NEW f \in Contents(cache'[u])
        PROVE  <<d, f.nonce>> \in done'
    <3>1. PICK e \in Contents(cache[u]) : f.nonce = e.nonce BY <2>4
    <3> QED BY <1>0, <2>2, <2>5, <3>1 DEF Known
  <2> QED BY <1>0, <2>3, <2>5, OwnersStep
<1>8. ASSUME UNCHANGED <<cacheOf, cache, done>>,
             \A u \in Objects, d \in Devices : Refers(d, u)' => Refers(d, u)
      PROVE  OneOwner' /\ Known'
  BY <1>0, <1>8, OwnersStep DEF Known
<1>9. CASE Sweep \/ NextCache \/ Peek \/ FindEmpty
  <2>1. UNCHANGED <<cacheOf, cache, processor, done>>
    BY <1>9 DEF Sweep, NextCache, Peek, FindEmpty, CleanerOnly, caches, past
  <2>2. CASE Sweep
    <3>1. \A p \in cleaner'.todo : p[2] = cacheOf[p[1]] BY <1>0, <2>2, SweepIs
    <3>2. cleaner'.step = "next" BY <1>0, <2>2, SweepIs
    <3>3. \A u \in Objects, d \in Devices : Refers(d, u)' => Refers(d, u)
      BY <2>1, <3>1, <3>2 DEF Refers, Using, Visiting
    <3> QED BY <1>8, <2>1, <3>3
  <2>3. CASE NextCache
    <3>1. cleaner.step = "next" BY <2>3 DEF NextCache
    <3>2. CASE cleaner' = Idle
      <4>1. \A u \in Objects, d \in Devices : Refers(d, u)' => Refers(d, u)
        BY <2>1, <3>2 DEF Refers, Using, Visiting, Idle
      <4> QED BY <1>8, <2>1, <4>1
    <3>3. CASE \E p \in cleaner.todo :
                  /\ cleaner'.step = "look"
                  /\ cleaner'.device = p[1] /\ cleaner'.object = p[2]
                  /\ cleaner'.todo = cleaner.todo \ {p}
      <4>1. \A u \in Objects, d \in Devices : Refers(d, u)' => Refers(d, u)
        BY <2>1, <3>1, <3>3 DEF Refers, Using, Visiting
      <4> QED BY <1>8, <2>1, <4>1
    <3> QED BY <1>0, <2>3, <3>2, <3>3, NextCacheIs
  <2>4. CASE Peek
    <3>1. \A u \in Objects, d \in Devices : Refers(d, u)' => Refers(d, u)
      BY <1>0, <2>1, <2>4, PeekIs DEF Refers, Using, Visiting
    <3> QED BY <1>8, <2>1, <3>1
  <2>5. CASE FindEmpty
    <3>1. \A u \in Objects, d \in Devices : Refers(d, u)' => Refers(d, u)
      BY <1>0, <2>1, <2>5, FindEmptyIs DEF Refers, Using, Visiting
    <3> QED BY <1>8, <2>1, <3>1
  <2> QED BY <1>9, <2>2, <2>3, <2>4, <2>5
<1>10. CASE Delete
  <2>1. UNCHANGED <<processor, done>> BY <1>10 DEF Delete, CleanerOnly, past
  <2>2. /\ cleaner'.step = "next" /\ cleaner'.todo = cleaner.todo /\ cleaner.step = "delete"
        /\ cache' = cache
        /\ \A d \in Devices : cacheOf'[d] = cacheOf[d] \/ cacheOf'[d] = "none"
    BY <1>0, <1>10, DeleteIs
  <2>3. "none" \notin Objects BY HubAssumption
  <2>4. \A u \in Objects, d \in Devices : Refers(d, u)' => Refers(d, u)
    BY <2>1, <2>2, <2>3 DEF Refers, Using, Visiting
  <2> QED BY <1>0, <2>1, <2>2, <2>4, OwnersStep DEF Known
<1>11. CASE Purging
  <2>1. PurgeCaches /\ processor' = Touched /\ UNCHANGED <<cleaner, done>> BY <1>11 DEF Purging
  <2>2. /\ \A d \in Devices : cacheOf'[d] = "none"
        /\ \A o \in Objects : Contents(cache'[o]) \subseteq Contents(cache[o])
    BY <1>0, <2>1, PurgeIs
  <2>3. "none" \notin Objects BY HubAssumption
  <2>4. Using' => Using /\ processor'.device = processor.device
                        /\ processor'.object = processor.object
    BY <1>0, <2>1, TouchedIs DEF Using
  <2>5. \A u \in Objects, d \in Devices : Refers(d, u)' => Refers(d, u)
    BY <2>1, <2>2, <2>3, <2>4 DEF Refers, Visiting
  <2> QED BY <1>0, <2>1, <2>2, <2>5, OwnersStep DEF Known
<1>12. CASE Quiet
  <2>1. \A u \in Objects, d \in Devices : Refers(d, u)' => Refers(d, u)
    BY <1>12 DEF Quiet, Refers, Visiting
  <2> QED BY <1>8, <1>12, <2>1 DEF Quiet
<1> QED BY <1>2, <1>4, <1>5, <1>6, <1>7, <1>9, <1>10, <1>11, <1>12, StepIs

-----------------------------------------------------------------------------
(* Answers that are fresh *)

LEMMA InMapNext == ASSUME NonceInv, [Next]_vars PROVE InMap'
<1>0. TypeOK /\ ProcessorParts /\ CleanerParts /\ Sound(cache) /\ InMap
  BY SoundIs DEF NonceInv
<1>1. CASE Finding
  <2>1. PICK p \in Requests, s \in {"get", "add"} : FindCache(s, p) /\ ~Using
    BY <1>1 DEF Finding
  <2> QED BY <1>0, <2>1, FindCacheIs DEF InMap
<1>2. CASE Purging
  <2>1. Using' => Using /\ processor'.device = processor.device
    BY <1>0, <1>2, TouchedIs DEF Purging, Using
  <2>2. Using => processor.device \in Devices BY <1>0, RequestIn DEF Using, Requests
  <2>3. \A d \in Devices : cacheOf'[d] = "none" BY <1>0, <1>2, PurgeIs DEF Purging
  <2> QED BY <2>1, <2>2, <2>3 DEF InMap
<1>3. CASE Quiet BY <1>0, <1>3 DEF Quiet, InMap
<1>4. CASE CheckNonce
  <2>1. processor'.step \in {"run", "refuse", "replay"} BY <1>0, <1>4, CheckNonceIs
  <2> QED BY <2>1 DEF InMap, Using
<1>5. CASE Keep
  <2>1. processor'.step = "idle" BY <1>5 DEF Keep, Idle
  <2> QED BY <2>1 DEF InMap, Using
<1>6. CASE \/ \E o \in Objects, n \in Nonces : Age(o, n)
           \/ Sweep \/ NextCache \/ Peek \/ Remove \/ FindEmpty
  <2>1. UNCHANGED <<cacheOf, processor>>
    BY <1>6 DEF Age, Sweep, NextCache, Peek, Remove, FindEmpty, CleanerOnly, caches
  <2> QED BY <1>0, <2>1 DEF InMap, Using
<1>7. CASE Delete
  <2>1. processor' = processor BY <1>7 DEF Delete, CleanerOnly
  <2>2. Using => processor.device \in Devices BY <1>0, RequestIn DEF Using, Requests
  <2> QED BY <1>0, <1>7, <2>1, <2>2, DeleteIs DEF InMap, Using
<1> QED BY <1>1, <1>2, <1>3, <1>4, <1>5, <1>6, <1>7, StepIs

\* The sweep leaves the past alone, and with the passing of time the processor.
LEMMA BesideIs ==
    ASSUME \/ \E o \in Objects, n \in Nonces : Age(o, n)
           \/ Sweep \/ NextCache \/ Peek \/ Remove \/ FindEmpty \/ Delete
    PROVE  /\ UNCHANGED <<setup, processor, done, last>> /\ excused \subseteq excused'
           /\ ~(\E o \in Objects, n \in Nonces : Age(o, n)) => excused' = excused
<1>1. CASE \E o \in Objects, n \in Nonces : Age(o, n) BY <1>1 DEF Age
<1>2. CASE Sweep \/ NextCache \/ Peek \/ Remove \/ FindEmpty \/ Delete
  BY <1>2 DEF Sweep, NextCache, Peek, Remove, FindEmpty, Delete, CleanerOnly, past
<1> QED BY <1>1, <1>2

FreshAt(d, n) == cacheOf[d] \in Objects /\ KeepsYoung(cacheOf[d], n) /\ Unswept(d, n)

LEMMA FreshNext == ASSUME NonceInv, [Next]_vars PROVE Fresh'
<1>0. /\ TypeOK /\ ProcessorParts /\ CleanerParts /\ CachesParts /\ Sound(cache)
      /\ OneOwner /\ InMap /\ "none" \notin Objects
  BY SoundIs, HubAssumption DEF NonceInv, CachesParts
<1> SUFFICES ASSUME NEW d \in Devices, NEW n \in Nonces, <<d, n>> \in done' \ excused'
             PROVE  FreshAt(d, n)'
  BY DEF Fresh, FreshAt
<1>1. <<d, n>> \in done \ excused => FreshAt(d, n) BY DEF NonceInv, Fresh, FreshAt
<1>2. CASE Finding
  <2>1. PICK p \in Requests, s \in {"get", "add"} : FindCache(s, p) /\ ~Using
    BY <1>2 DEF Finding
  <2>2. PICK o \in Objects :
              /\ cacheOf'[p.device] = o
              /\ \A e \in Devices \ {p.device} : cacheOf'[e] = cacheOf[e]
              /\ \/ cacheOf[p.device] = o /\ cacheOf' = cacheOf /\ cache' = cache
                 \/ /\ cacheOf[p.device] = "none" /\ o \notin Held
                    /\ \A u \in Objects \ {o} : cache'[u] = cache[u]
    BY <1>0, <2>1, FindCacheIs
  <2>3. UNCHANGED <<cleaner, done, excused>> /\ FreshAt(d, n) BY <1>1, <1>2 DEF Finding
  <2>4. cacheOf[d] \in Held BY DEF Held
  <2>5. cacheOf'[d] = cacheOf[d] /\ cache'[cacheOf[d]] = cache[cacheOf[d]]
    BY <1>0, <2>2, <2>3, <2>4 DEF FreshAt
  <2> QED BY <2>3, <2>5 DEF FreshAt, KeepsYoung, Unswept, Visiting
<1>3. CASE Purging BY <1>3 DEF Purging
<1>4. CASE Quiet BY <1>1, <1>4 DEF Quiet, FreshAt, KeepsYoung, Unswept, Visiting
<1>5. CASE CheckNonce
  <2> DEFINE o == processor.object
  <2>1. /\ o \in Objects /\ \A u \in Objects \ {o} : cache'[u] = cache[u]
        /\ \A e \in Contents(cache[o]) : e \in Contents(cache'[o]) \/ e.old
    BY <1>0, <1>5, CheckNonceIs
  <2>2. UNCHANGED <<cacheOf, cleaner, done, excused>>
    BY <1>5 DEF CheckNonce, ProcessorOnly, past
  <2>3. FreshAt(d, n) BY <1>1, <2>2
  <2>4. KeepsYoung(cacheOf[d], n)' BY <2>1, <2>2, <2>3 DEF FreshAt, KeepsYoung
  <2> QED BY <2>2, <2>3, <2>4 DEF FreshAt, Unswept, Visiting
<1>6. CASE Keep
  <2> DEFINE o == processor.object
             k == <<processor.device, processor.nonce>>
  <2>1. /\ o \in Objects /\ processor.device \in Devices /\ processor.step = "add"
        /\ KeptEntry \in Contents(cache'[o])
        /\ \A u \in Objects \ {o} : cache'[u] = cache[u]
        /\ \A f \in Contents(cache[o]) :
              f.nonce = processor.nonce \/ f \in Contents(cache'[o])
                 \/ \A m \in Nonces \ {processor.nonce} :
                       <<processor.device, m>> \in done => <<processor.device, m>> \in excused'
        /\ done' = done \cup {k} /\ excused \ {k} \subseteq excused'
        /\ (cleaner.step = "idle" /\ cacheOf[processor.device] = o) \/ k \in excused'
    BY <1>0, <1>6, KeepIs
  <2>2. UNCHANGED <<cacheOf, cleaner>> BY <1>6 DEF Keep, ProcessorOnly
  <2>3. CASE <<d, n>> = k
    <3>1. cleaner.step = "idle" /\ cacheOf[d] = o /\ n = processor.nonce BY <2>1, <2>3
    <3>2. KeptEntry.nonce = n /\ ~KeptEntry.old BY <3>1 DEF KeptEntry
    <3>3. KeepsYoung(cacheOf[d], n)' BY <2>1, <2>2, <3>1, <3>2 DEF KeepsYoung
    <3>4. Unswept(d, n)' BY <2>2, <3>1 DEF Unswept, Visiting
    <3> QED BY <2>1, <2>2, <3>1, <3>3, <3>4 DEF FreshAt
  <2>4. CASE <<d, n>> # k
    <3>1. FreshAt(d, n) /\ <<d, n>> \in done BY <1>1, <2>1, <2>4
    <3>2. CASE cacheOf[d] = o
      <4>1. Refers(d, o) /\ Refers(processor.device, o) BY <2>1, <3>2 DEF Refers, Using
      <4>2. d = processor.device /\ n # processor.nonce
        BY <1>0, <2>1, <2>4, <4>1 DEF OneOwner
      <4>3. KeepsYoung(cacheOf[d], n)'
        BY <2>1, <2>2, <3>1, <3>2, <4>2 DEF FreshAt, KeepsYoung
      <4> QED BY <2>2, <3>1, <4>3 DEF FreshAt, Unswept, Visiting
    <3>3. CASE cacheOf[d] # o
      BY <2>1, <2>2, <3>1, <3>3 DEF FreshAt, KeepsYoung, Unswept, Visiting
    <3> QED BY <3>2, <3>3
  <2> QED BY <2>3, <2>4
<1>7. CASE \E o \in Objects, m \in Nonces : Age(o, m)
  <2>1. PICK o \in Objects, m \in Nonces : Age(o, m) BY <1>7
  <2>2. /\ UNCHANGED <<cacheOf, cleaner, done>>
        /\ excused' = excused \cup {<<e, m>> : e \in {f \in Devices : cacheOf[f] = o}}
    BY <2>1 DEF Age
  <2>3. FreshAt(d, n) /\ ~(cacheOf[d] = o /\ n = m) BY <1>1, <2>2
  <2>4. /\ \A u \in Objects \ {o} : cache'[u] = cache[u]
        /\ \A e \in Contents(cache[o]) : e.nonce # m => e \in Contents(cache'[o])
    BY <1>0, <2>1, AgeIs
  <2>5. KeepsYoung(cacheOf[d], n)' BY <2>2, <2>3, <2>4 DEF FreshAt, KeepsYoung
  <2> QED BY <2>2, <2>3, <2>5 DEF FreshAt, Unswept, Visiting
<1>8. ASSUME Sweep \/ NextCache \/ Peek \/ FindEmpty \/ Delete \/ Remove
      PROVE  UNCHANGED <<done, excused>> /\ FreshAt(d, n)
  <2>1. UNCHANGED <<done, excused>>
    BY <1>8 DEF Sweep, NextCache, Peek, FindEmpty, Delete, Remove, CleanerOnly, past
  <2> QED BY <1>1, <2>1
<1>9. CASE Sweep
  <2>1. /\ UNCHANGED caches /\ cleaner'.step = "next"
        /\ \A p \in cleaner'.todo :
              p = <<p[1], cacheOf[p[1]], Expired(cacheOf[p[1]])>>
    BY <1>0, <1>9, SweepIs
  <2>2. n \notin Expired(cacheOf[d])
    <3>1. cache[cacheOf[d]] \in Seq(Keeping) /\ Single(cache[cacheOf[d]])
      BY <1>0, <1>8, <1>9 DEF FreshAt, Sound
    <3>2. PICK e \in Contents(cache[cacheOf[d]]) : e.nonce = n /\ ~e.old
      BY <1>8, <1>9 DEF FreshAt, KeepsYoung
    <3>3. At(cacheOf[d], n) # {} => e = Entry(cacheOf[d], n) BY <3>1, <3>2, EntryIs
    <3> QED BY <3>2, <3>3 DEF Expired
  <2>3. ASSUME NEW p \in cleaner'.todo, p[1] = d
        PROVE  p[2] = cacheOf[d] /\ n \notin p[3]
    <3>1. p = <<d, cacheOf[d], Expired(cacheOf[d])>> BY <2>1, <2>3
    <3> QED BY <2>2, <3>1
  <2> QED BY <1>8, <1>9, <2>1, <2>3 DEF FreshAt, KeepsYoung, Unswept, Visiting, caches
<1>10. CASE NextCache
  <2>1. UNCHANGED <<cacheOf, cache>> /\ cleaner.step = "next"
    BY <1>10 DEF NextCache, caches
  <2>2. CASE cleaner' = Idle
    BY <1>8, <1>10, <2>1, <2>2 DEF FreshAt, KeepsYoung, Unswept, Visiting, Idle
  <2>3. CASE \E p \in cleaner.todo :
                /\ cleaner'.step = "look" /\ cleaner'.device = p[1] /\ cleaner'.object = p[2]
                /\ cleaner'.nonces = p[3] /\ cleaner'.todo = cleaner.todo \ {p}
    BY <1>8, <1>10, <2>1, <2>3 DEF FreshAt, KeepsYoung, Unswept, Visiting
  <2> QED BY <1>0, <1>10, <2>2, <2>3, NextCacheIs
<1>11. CASE Peek
  <2>1. UNCHANGED <<cacheOf, cache>> BY <1>11 DEF Peek, caches
  <2> QED BY <1>0, <1>8, <1>11, <2>1, PeekIs DEF FreshAt, KeepsYoung, Unswept, Visiting
<1>12. CASE Remove
  <2> DEFINE o == cleaner.object
  <2>1. /\ cleaner.step = "remove" /\ o \in Objects /\ cleaner.device \in Devices
        /\ cleaner'.step = "look" /\ cleaner'.device = cleaner.device /\ cleaner'.object = o
        /\ cleaner'.nonces = cleaner.nonces /\ cleaner'.todo = cleaner.todo
        /\ \A u \in Objects \ {o} : cache'[u] = cache[u]
        /\ Contents(cache'[o]) = {e \in Contents(cache[o]) : e.nonce # cleaner.nonce}
    BY <1>0, <1>12, RemoveIs
  <2>2. cacheOf' = cacheOf /\ FreshAt(d, n) BY <1>8, <1>12 DEF Remove
  <2>3. cacheOf[d] = o => cleaner.nonce # n
    <3> SUFFICES ASSUME cacheOf[d] = o PROVE cleaner.nonce # n OBVIOUS
    <3>1. Refers(d, o) /\ Refers(cleaner.device, o) BY <2>1 DEF Refers, Visiting
    <3>2. cleaner.device = d BY <1>0, <2>1, <3>1 DEF OneOwner
    <3> QED BY <2>1, <2>2, <3>2 DEF FreshAt, Unswept, Visiting
  <2>4. KeepsYoung(cacheOf[d], n)' BY <2>1, <2>2, <2>3 DEF FreshAt, KeepsYoung
  <2> QED BY <2>1, <2>2, <2>4 DEF FreshAt, Unswept, Visiting
<1>13. CASE FindEmpty
  <2>1. UNCHANGED <<cacheOf, cache>> BY <1>13 DEF FindEmpty, caches
  <2>2. cache[cacheOf[d]] # <<>> BY <1>8, <1>13, EmptyIs DEF FreshAt, KeepsYoung
  <2>3. /\ cleaner.step = "look" /\ cleaner'.todo = cleaner.todo
        /\ \/ /\ cache[cleaner.object] = <<>> /\ cleaner'.step = "delete"
              /\ cleaner'.device = cleaner.device
           \/ cleaner'.step = "next"
    BY <1>0, <1>13, FindEmptyIs
  <2> QED BY <1>8, <1>13, <2>1, <2>2, <2>3 DEF FreshAt, KeepsYoung, Unswept, Visiting
<1>14. CASE Delete
  <2>1. /\ cleaner.step = "delete" /\ cleaner'.step = "next" /\ cleaner'.todo = cleaner.todo
        /\ cache' = cache /\ \A e \in Devices \ {cleaner.device} : cacheOf'[e] = cacheOf[e]
    BY <1>0, <1>14, DeleteIs
  <2>2. FreshAt(d, n) /\ d # cleaner.device
    BY <1>8, <1>14, <2>1 DEF FreshAt, Unswept, Visiting
  <2> QED BY <2>1, <2>2 DEF FreshAt, KeepsYoung, Unswept, Visiting
<1> QED BY <1>2, <1>3, <1>4, <1>5, <1>6, <1>7, <1>9, <1>10, <1>11, <1>12, <1>13, <1>14, StepIs

\* A nonce is executed again only when there was a cause.
LEMMA RepeatNext == ASSUME NonceInv, [Next]_vars PROVE RepeatNeedsCause'
<1>0. /\ TypeOK /\ ProcessorParts /\ CleanerParts /\ CachesParts /\ Sound(cache)
      /\ InMap /\ Fresh /\ RepeatNeedsCause /\ done \subseteq Keys
      /\ "none" \notin Objects /\ None \notin Nonces
  BY SoundIs, HubAssumption DEF NonceInv, TypeOK
<1>1. ASSUME processor' = processor, done' = done, excused \subseteq excused'
      PROVE  RepeatNeedsCause'
  BY <1>0, <1>1 DEF RepeatNeedsCause
<1>2. ASSUME processor'.step # "run" PROVE RepeatNeedsCause' BY <1>2 DEF RepeatNeedsCause
<1>3. CASE Finding
  <2>1. PICK p \in Requests, s \in {"get", "add"} : FindCache(s, p) /\ ~Using
    BY <1>3 DEF Finding
  <2>2. processor'.step = s BY <1>0, <2>1, FindCacheIs
  <2> QED BY <1>2, <2>2
<1>4. CASE Purging BY <1>4 DEF Purging, RepeatNeedsCause
<1>5. CASE Quiet
  <2>1. CASE processor' = processor BY <1>1, <1>5, <2>1 DEF Quiet
  <2>2. CASE processor'.nonce = None
    <3>1. <<processor'.device, None>> \notin done' BY <1>0, <1>5 DEF Quiet, Keys
    <3> QED BY <2>2, <3>1 DEF RepeatNeedsCause
  <2> QED BY <1>2, <1>5, <2>1, <2>2 DEF Quiet
<1>6. CASE CheckNonce
  <2> DEFINE o == processor.object
             k == <<processor.device, processor.nonce>>
  <2>1. /\ processor.step = "get" /\ processor \in Requests /\ o \in Objects
        /\ processor'.device = processor.device /\ processor'.nonce = processor.nonce
        /\ processor'.step = "run" =>
              \A e \in Contents(cache[o]) : e.nonce = processor.nonce => e.old
    BY <1>0, <1>6, CheckNonceIs
  <2>2. UNCHANGED <<done, excused>> BY <1>6 DEF CheckNonce, past
  <2>3. ASSUME processor'.step = "run", k \in done, k \notin excused PROVE FALSE
    <3>1. processor.device \in Devices BY <2>1 DEF Requests
    <3>2. processor.nonce \in Nonces BY <1>0, <2>3 DEF Keys
    <3>3. cacheOf[processor.device] \in Objects
          /\ KeepsYoung(cacheOf[processor.device], processor.nonce)
      BY <1>0, <2>3, <3>1, <3>2 DEF Fresh
    <3>4. cacheOf[processor.device] = o BY <1>0, <2>1, <3>3 DEF InMap, Using
    <3> QED BY <2>1, <2>3, <3>3, <3>4 DEF KeepsYoung
  <2> QED BY <2>1, <2>2, <2>3 DEF RepeatNeedsCause
<1>7. CASE Keep BY <1>2, <1>7 DEF Keep, Idle
<1>8. CASE \/ \E o \in Objects, n \in Nonces : Age(o, n)
           \/ Sweep \/ NextCache \/ Peek \/ Remove \/ FindEmpty \/ Delete
  BY <1>1, <1>8, BesideIs
<1> QED BY <1>3, <1>4, <1>5, <1>6, <1>7, <1>8, StepIs

-----------------------------------------------------------------------------
(* Answers that can be found *)

LEMMA LiveNext == ASSUME NonceInv, [Next]_vars PROVE Live'
<1>0. /\ TypeOK /\ ProcessorParts /\ CleanerParts /\ CachesParts /\ Sound(cache)
      /\ OneOwner /\ InMap /\ Live /\ "none" \notin Objects
      /\ cacheOf \in [Devices -> Objects \cup {"none"}]
      /\ last \in [Keys -> Answers \cup {"none"}]
      /\ \A o \in Objects : \A e \in Contents(cache[o]) : e.nonce \in Nonces
  <2>1. \A o \in Objects : Contents(cache[o]) \subseteq Keeping
    BY SoundIs, KeepingIn DEF Sound
  <2> QED BY <2>1, SoundIs, HubAssumption DEF NonceInv, TypeOK, CachesParts, Keeping
<1>1. ASSUME last' = last, \A d \in Devices : cacheOf'[d] \in {cacheOf[d], "none"},
             Using' => Using /\ processor'.device = processor.device
                             /\ processor'.object = processor.object,
             \A o \in Objects : \A f \in Contents(cache'[o]) : \E e \in Contents(cache[o]) :
                f.nonce = e.nonce /\ f.answer = e.answer
      PROVE  Live'
  <2>1. ASSUME NEW d, NEW o \in Objects, LastKept(d, o) PROVE LastKept(d, o)'
    <3> SUFFICES ASSUME NEW f \in Contents(cache'[o]) PROVE f.answer = last[<<d, f.nonce>>]
      BY <1>1 DEF LastKept
    <3>1. PICK e \in Contents(cache[o]) : f.nonce = e.nonce /\ f.answer = e.answer BY <1>1
    <3> QED BY <2>1, <3>1 DEF LastKept
  <2>2. ASSUME NEW d \in Devices, cacheOf'[d] # "none"
        PROVE  LastKept(d, cacheOf[d])'
    <3>1. cacheOf'[d] = cacheOf[d] /\ cacheOf[d] \in Objects BY <1>0, <1>1, <2>2
    <3>2. LastKept(d, cacheOf[d]) BY <1>0, <2>2, <3>1 DEF Live
    <3> QED BY <2>1, <3>1, <3>2 DEF LastKept
  <2>3. Using' => LastKept(processor.device, processor.object)'
    BY <1>0, <1>1, <2>1 DEF Live, LastKept, ProcessorParts
  <2> QED BY <2>2, <2>3 DEF Live, LastKept
<1>2. CASE Finding
  <2>1. PICK p \in Requests, s \in {"get", "add"} : FindCache(s, p) /\ ~Using
    BY <1>2 DEF Finding
  <2>2. PICK o \in Objects :
              /\ processor'.object = o /\ processor'.device = p.device
              /\ cacheOf'[p.device] = o
              /\ \A e \in Devices \ {p.device} : cacheOf'[e] = cacheOf[e]
              /\ \/ cacheOf[p.device] = o /\ cacheOf' = cacheOf /\ cache' = cache
                 \/ /\ cacheOf[p.device] = "none" /\ o \notin Held /\ cache'[o] = <<>>
                    /\ \A u \in Objects \ {o} : cache'[u] = cache[u]
    BY <1>0, <2>1, FindCacheIs
  <2>3. last' = last BY <1>2 DEF Finding
  <2>4. p.device \in Devices BY DEF Requests
  <2>5. LastKept(p.device, o)'
    <3>1. CASE cacheOf[p.device] = o /\ cache' = cache
      BY <1>0, <2>3, <2>4, <3>1 DEF Live, LastKept
    <3>2. CASE cache'[o] = <<>> BY <3>2, EmptyIs DEF LastKept
    <3> QED BY <2>2, <3>1, <3>2
  <2>6. ASSUME NEW d \in Devices \ {p.device}, cacheOf'[d] # "none"
        PROVE  LastKept(d, cacheOf[d])'
    <3>1. cacheOf'[d] = cacheOf[d] /\ cacheOf[d] \in Objects /\ cacheOf[d] \in Held
      BY <1>0, <2>2, <2>6 DEF Held
    <3>2. cache'[cacheOf[d]] = cache[cacheOf[d]] BY <2>2, <3>1
    <3> QED BY <1>0, <2>3, <2>6, <3>1, <3>2 DEF Live, LastKept
  <2> QED BY <2>2, <2>5, <2>6 DEF Live, LastKept
<1>3. CASE Purging
  <2>1. /\ \A d \in Devices : cacheOf'[d] = "none"
        /\ \A o \in Objects : Contents(cache'[o]) \subseteq Contents(cache[o])
    BY <1>0, <1>3, PurgeIs DEF Purging
  <2>2. Using' => Using /\ processor'.device = processor.device
                        /\ processor'.object = processor.object
    BY <1>0, <1>3, TouchedIs DEF Purging, Using
  <2>3. last' = last BY <1>3 DEF Purging
  <2> QED BY <1>1, <2>1, <2>2, <2>3
<1>4. CASE Quiet
  <2>1. \A o \in Objects : Contents(cache'[o]) \subseteq Contents(cache[o]) BY <1>4 DEF Quiet
  <2> QED BY <1>1, <1>4, <2>1 DEF Quiet
<1>5. CASE CheckNonce
  <2>1. /\ processor'.step \in {"run", "refuse", "replay"} /\ processor.object \in Objects
        /\ \A u \in Objects \ {processor.object} : cache'[u] = cache[u]
        /\ Contents(cache'[processor.object]) \subseteq Contents(cache[processor.object])
    BY <1>0, <1>5, CheckNonceIs
  <2>2. \A u \in Objects : Contents(cache'[u]) \subseteq Contents(cache[u]) BY <2>1
  <2>3. UNCHANGED <<cacheOf, last>> BY <1>5 DEF CheckNonce, past
  <2>4. ~Using' BY <2>1 DEF Using
  <2> QED BY <1>1, <2>2, <2>3, <2>4
<1>6. CASE Keep
  <2> DEFINE o == processor.object
             k == <<processor.device, processor.nonce>>
  <2>1. /\ o \in Objects /\ processor.device \in Devices /\ processor.step = "add"
        /\ \A u \in Objects \ {o} : cache'[u] = cache[u]
        /\ \A f \in Contents(cache'[o]) :
              f = KeptEntry \/ (f \in Contents(cache[o]) /\ f.nonce # processor.nonce)
        /\ last' = [last EXCEPT ![k] = processor.answer]
    BY <1>0, <1>6, KeepIs
  <2>2. cacheOf' = cacheOf /\ ~Using' BY <1>6 DEF Keep, Using, Idle
  <2>3. k \in Keys BY <1>0, <2>1 DEF ProcessorParts, Keys
  <2>4. last'[k] = processor.answer /\ \A key \in Keys \ {k} : last'[key] = last[key]
    BY <1>0, <2>1, <2>3
  <2>5. ASSUME NEW d \in Devices, cacheOf[d] \in Objects, NEW f \in Contents(cache'[cacheOf[d]])
        PROVE  f.answer = last'[<<d, f.nonce>>]
    <3>1. CASE cacheOf[d] = o
      <4>1. Refers(d, o) /\ Refers(processor.device, o) BY <2>1, <3>1 DEF Refers, Using
      <4>2. d = processor.device BY <1>0, <2>1, <4>1 DEF OneOwner
      <4>3. CASE f = KeptEntry BY <2>4, <4>2, <4>3 DEF KeptEntry
      <4>4. CASE f \in Contents(cache[o]) /\ f.nonce # processor.nonce
        <5>1. f.nonce \in Nonces BY <1>0, <2>1, <4>4
        <5>2. <<d, f.nonce>> \in Keys \ {k} BY <4>4, <5>1 DEF Keys
        <5>3. f.answer = last[<<d, f.nonce>>]
          BY <1>0, <2>1, <3>1, <4>4 DEF Live, LastKept
        <5> QED BY <2>4, <5>2, <5>3
      <4> QED BY <2>1, <2>5, <3>1, <4>3, <4>4
    <3>2. CASE cacheOf[d] # o
      <4>1. f \in Contents(cache[cacheOf[d]]) BY <2>1, <2>5, <3>2
      <4>2. d # processor.device BY <1>0, <2>1, <2>5, <3>2 DEF InMap, Using
      <4>3. f.nonce \in Nonces BY <1>0, <2>5, <4>1
      <4>4. <<d, f.nonce>> \in Keys \ {k} BY <4>2, <4>3 DEF Keys
      <4>5. f.answer = last[<<d, f.nonce>>]
        BY <1>0, <2>5, <4>1 DEF Live, LastKept
      <4> QED BY <2>4, <4>4, <4>5
    <3> QED BY <3>1, <3>2
  <2>6. \A d \in Devices : cacheOf[d] # "none" => cacheOf[d] \in Objects BY <1>0
  <2> QED BY <2>2, <2>5, <2>6 DEF Live, LastKept
<1>7. CASE \E o \in Objects, n \in Nonces : Age(o, n)
  <2>1. PICK o \in Objects, n \in Nonces : Age(o, n) BY <1>7
  <2>2. UNCHANGED <<cacheOf, processor, last>> BY <2>1 DEF Age
  <2>3. \A u \in Objects : \A f \in Contents(cache'[u]) : \E e \in Contents(cache[u]) :
           f.nonce = e.nonce /\ f.answer = e.answer
    BY <1>0, <2>1, AgeIs
  <2>4. Using' = Using BY <2>2 DEF Using
  <2> QED BY <1>1, <2>2, <2>3, <2>4
<1>8. CASE Sweep \/ NextCache \/ Peek \/ Remove \/ FindEmpty \/ Delete
  <2>1. UNCHANGED <<processor, last>> BY <1>8, BesideIs
  <2>2. \A d \in Devices : cacheOf'[d] \in {cacheOf[d], "none"}
    BY <1>0, <1>8, DeleteIs DEF Sweep, NextCache, Peek, Remove, FindEmpty, caches
  <2>3. \A u \in Objects : Contents(cache'[u]) \subseteq Contents(cache[u])
    BY <1>0, <1>8, RemoveIs DEF Sweep, NextCache, Peek, Delete, FindEmpty, caches
  <2>4. Using' = Using BY <2>1 DEF Using
  <2> QED BY <1>1, <2>1, <2>2, <2>3, <2>4
<1> QED BY <1>2, <1>3, <1>4, <1>5, <1>6, <1>7, <1>8, StepIs

LEMMA ReplayNext == ASSUME NonceInv, [Next]_vars PROVE ReplayIsLastAnswer'
<1>0. /\ TypeOK /\ ProcessorParts /\ CleanerParts /\ Sound(cache) /\ CachesParts
      /\ Live /\ ReplayIsLastAnswer
  BY SoundIs DEF NonceInv
<1>1. ASSUME processor' = processor, last' = last PROVE ReplayIsLastAnswer'
  BY <1>0, <1>1 DEF ReplayIsLastAnswer
<1>2. ASSUME processor'.step # "replay" PROVE ReplayIsLastAnswer'
  BY <1>2 DEF ReplayIsLastAnswer
<1>3. CASE Finding
  <2>1. PICK p \in Requests, s \in {"get", "add"} : FindCache(s, p) /\ ~Using
    BY <1>3 DEF Finding
  <2>2. processor'.step = s BY <1>0, <2>1, FindCacheIs
  <2> QED BY <1>2, <2>2
<1>4. CASE Purging
  <2>1. processor' = processor \/ processor'.step \in {"store", "add"}
    BY <1>0, <1>4, TouchedIs DEF Purging
  <2> QED BY <1>1, <1>2, <1>4, <2>1 DEF Purging
<1>5. CASE Quiet BY <1>1, <1>2, <1>5 DEF Quiet
<1>6. CASE CheckNonce
  <2> DEFINE o == processor.object
  <2>1. /\ processor.step = "get"
        /\ processor'.device = processor.device /\ processor'.nonce = processor.nonce
        /\ processor'.step = "replay" =>
              \E e \in Contents(cache[o]) :
                 e.nonce = processor.nonce /\ e.answer = processor'.answer
    BY <1>0, <1>6, CheckNonceIs
  <2>2. last' = last BY <1>6 DEF CheckNonce, past
  <2>3. LastKept(processor.device, o) BY <1>0, <2>1 DEF Live, Using
  <2> QED BY <2>1, <2>2, <2>3 DEF ReplayIsLastAnswer, LastKept
<1>7. CASE Keep BY <1>2, <1>7 DEF Keep, Idle
<1>8. CASE \/ \E o \in Objects, n \in Nonces : Age(o, n)
           \/ Sweep \/ NextCache \/ Peek \/ Remove \/ FindEmpty \/ Delete
  BY <1>1, <1>8, BesideIs
<1> QED BY <1>3, <1>4, <1>5, <1>6, <1>7, <1>8, StepIs

-----------------------------------------------------------------------------
(* Devices that are not found *)

\* A reload that overlaps a request marks its answer, or purges it.
LEMMA DeniedNext == ASSUME NonceInv, [Next]_vars PROVE DeniedLate'
<1>0. /\ TypeOK /\ ProcessorParts /\ CleanerParts /\ CachesParts /\ Sound(cache)
      /\ OneOwner /\ DeniedLate /\ "none" \notin Objects
      /\ cacheOf \in [Devices -> Objects \cup {"none"}]
  BY SoundIs, HubAssumption DEF NonceInv, TypeOK, CachesParts
<1>1. ASSUME daemon' # "new", \A d \in Devices : cacheOf'[d] \in {cacheOf[d], "none"},
             \A d \in Devices : Standing(d)' => Standing(d),
             \A o \in Objects : \A f \in Contents(cache'[o]) : \E e \in Contents(cache[o]) :
                f.late = e.late /\ f.answer = e.answer,
             processor'.step \in {"store", "add"} =>
                \/ processor' = processor /\ processor.device \in Devices
                \/ Standing(processor.device)' => Late(processor)'
      PROVE  DeniedLate'
  <2>1. ASSUME NEW d \in Devices, Standing(d)', cacheOf'[d] # "none",
               NEW f \in Contents(cache'[cacheOf'[d]])
        PROVE  Late(f)
    <3>1. cacheOf'[d] = cacheOf[d] /\ cacheOf[d] \in Objects /\ Standing(d)
      BY <1>0, <1>1, <2>1
    <3>2. PICK e \in Contents(cache[cacheOf[d]]) : f.late = e.late /\ f.answer = e.answer
      BY <1>1, <2>1, <3>1
    <3>3. Late(e) BY <1>0, <2>1, <3>1, <3>2 DEF DeniedLate
    <3> QED BY <3>2, <3>3 DEF Late
  <2>2. processor'.step \in {"store", "add"} /\ Standing(processor.device)' => Late(processor)'
    BY <1>0, <1>1 DEF DeniedLate, Late
  <2> QED BY <1>1, <2>1, <2>2 DEF DeniedLate, Late
<1>2. ASSUME UNCHANGED <<devices, handler>>
      PROVE  \A d \in Devices : Standing(d)' = Standing(d)
  BY <1>2 DEF Standing, Reloading
<1>3. processor.step \in {"get", "store", "add"} => processor.device \in Devices
  BY <1>0, RequestIn DEF Requests
<1>4. CASE Finding
  <2>1. PICK p \in Requests, s \in {"get", "add"} :
              /\ FindCache(s, p) /\ ~Using
              /\ s = "add" => processor.step = "store" /\ p = processor
    BY <1>4 DEF Finding
  <2>2. PICK o \in Objects :
              /\ processor'.step = s /\ processor'.device = p.device
              /\ processor'.answer = p.answer /\ processor'.late = p.late
              /\ cacheOf'[p.device] = o
              /\ \A e \in Devices \ {p.device} : cacheOf'[e] = cacheOf[e]
              /\ \/ cacheOf[p.device] = o /\ cacheOf' = cacheOf /\ cache' = cache
                 \/ /\ cacheOf[p.device] = "none" /\ o \notin Held /\ cache'[o] = <<>>
                    /\ \A u \in Objects \ {o} : cache'[u] = cache[u]
    BY <1>0, <2>1, FindCacheIs
  <2>3. UNCHANGED <<devices, handler, daemon>> /\ daemon # "new" BY <1>4 DEF Finding
  <2>4. ASSUME NEW d \in Devices, Standing(d)', cacheOf'[d] # "none",
               NEW f \in Contents(cache'[cacheOf'[d]])
        PROVE  Late(f)
    <3>1. CASE cacheOf'[d] = cacheOf[d] /\ cache'[cacheOf[d]] = cache[cacheOf[d]]
      BY <1>0, <1>2, <2>3, <2>4, <3>1 DEF DeniedLate
    <3>2. CASE cacheOf'[d] # cacheOf[d] \/ cache'[cacheOf[d]] # cache[cacheOf[d]]
      <4>1. cacheOf'[d] = o /\ cache'[o] = <<>>
        <5>1. CASE d = p.device BY <2>2, <3>2, <5>1
        <5>2. CASE d # p.device
          <6>1. cacheOf'[d] = cacheOf[d] /\ cacheOf[d] \in Objects /\ cacheOf[d] \in Held
            BY <1>0, <2>2, <2>4, <5>2 DEF Held
          <6> QED BY <2>2, <3>2, <6>1
        <5> QED BY <5>1, <5>2
      <4> QED BY <2>4, <4>1, EmptyIs
    <3> QED BY <3>1, <3>2
  <2>5. processor'.step \in {"store", "add"} /\ Standing(processor.device)' => Late(processor)'
    <3> SUFFICES ASSUME processor'.step = "add", Standing(processor.device)' PROVE Late(processor)'
      BY <2>2
    <3>1. /\ processor.step = "store" /\ processor'.device = processor.device
          /\ processor'.answer = processor.answer /\ processor'.late = processor.late
      BY <2>1, <2>2
    <3>2. Standing(processor.device) BY <2>3, <3>1 DEF Standing, Reloading
    <3> QED BY <1>0, <3>1, <3>2 DEF DeniedLate, Late
  <2> QED BY <2>3, <2>4, <2>5 DEF DeniedLate, Late
<1>5. CASE Purging
  <2>1. \A d \in Devices : cacheOf'[d] = "none"
    BY <1>0, <1>5, PurgeIs DEF Purging
  <2>2. processor'.step \in {"store", "add"} => processor'.late
    BY <1>0, <1>5, TouchedIs DEF Purging
  <2> QED BY <1>5, <2>1, <2>2 DEF DeniedLate, Late, Purging
<1>6. CASE CheckNonce
  <2>1. /\ processor'.step \in {"run", "refuse", "replay"} /\ processor.object \in Objects
        /\ \A u \in Objects \ {processor.object} : cache'[u] = cache[u]
        /\ Contents(cache'[processor.object]) \subseteq Contents(cache[processor.object])
    BY <1>0, <1>6, CheckNonceIs
  <2>2. UNCHANGED <<devices, handler, cacheOf, daemon>> /\ daemon # "new"
    BY <1>6 DEF CheckNonce, ProcessorOnly, Running, setup
  <2>3. \A u \in Objects : Contents(cache'[u]) \subseteq Contents(cache[u]) BY <2>1
  <2> QED BY <1>1, <1>2, <2>1, <2>2, <2>3
<1>7. CASE Keep
  <2> DEFINE o == processor.object
  <2>1. /\ o \in Objects /\ processor.step = "add"
        /\ \A u \in Objects \ {o} : cache'[u] = cache[u]
        /\ \A f \in Contents(cache'[o]) : f = KeptEntry \/ f \in Contents(cache[o])
    BY <1>0, <1>7, KeepIs
  <2>2. /\ UNCHANGED <<devices, handler, cacheOf, daemon>> /\ daemon # "new"
        /\ processor'.step = "idle"
    BY <1>7 DEF Keep, ProcessorOnly, Running, setup, Idle
  <2>3. KeptEntry.answer = processor.answer /\ KeptEntry.late = processor.late BY DEF KeptEntry
  <2>4. ASSUME NEW d \in Devices, Standing(d)', cacheOf'[d] # "none",
               NEW f \in Contents(cache'[cacheOf'[d]])
        PROVE  Late(f)
    <3>1. cacheOf'[d] = cacheOf[d] /\ cacheOf[d] \in Objects /\ Standing(d)
      BY <1>0, <1>2, <2>2, <2>4
    <3>2. CASE f \in Contents(cache[cacheOf[d]]) BY <1>0, <2>4, <3>1, <3>2 DEF DeniedLate
    <3>3. CASE f = KeptEntry /\ cacheOf[d] = o
      <4>1. Refers(d, o) /\ Refers(processor.device, o) BY <2>1, <3>3 DEF Refers, Using
      <4>2. d = processor.device BY <1>0, <1>3, <2>1, <4>1 DEF OneOwner
      <4>3. Late(processor) BY <1>0, <2>1, <3>1, <4>2 DEF DeniedLate
      <4> QED BY <2>3, <3>3, <4>3 DEF Late
    <3> QED BY <2>1, <2>4, <3>1, <3>2, <3>3
  <2> QED BY <2>2, <2>4 DEF DeniedLate
<1>8. CASE \/ \E o \in Objects, n \in Nonces : Age(o, n)
           \/ Sweep \/ NextCache \/ Peek \/ Remove \/ FindEmpty \/ Delete
  <2>1. UNCHANGED <<devices, handler, processor, daemon>> BY <1>8, BesideIs DEF setup
  <2>2. daemon # "new"
    BY <1>8 DEF Age, Sweep, NextCache, Peek, Remove, FindEmpty, Delete, CleanerOnly, Running
  <2>3. \A d \in Devices : cacheOf'[d] \in {cacheOf[d], "none"}
    BY <1>0, <1>8, DeleteIs DEF Sweep, NextCache, Peek, Remove, FindEmpty, Age, caches
  <2>4. \A o \in Objects : \A f \in Contents(cache'[o]) : \E e \in Contents(cache[o]) :
           f.late = e.late /\ f.answer = e.answer
    <3>1. CASE \E o \in Objects, n \in Nonces : Age(o, n) BY <1>0, <3>1, AgeIs
    <3>2. CASE Sweep \/ NextCache \/ Peek \/ Remove \/ FindEmpty \/ Delete
      <4>1. \A u \in Objects : Contents(cache'[u]) \subseteq Contents(cache[u])
        BY <1>0, <3>2, RemoveIs DEF Sweep, NextCache, Peek, Delete, FindEmpty, caches
      <4> QED BY <4>1
    <3> QED BY <1>8, <3>1, <3>2
  <2> QED BY <1>1, <1>2, <1>3, <2>1, <2>2, <2>3, <2>4
<1>9. CASE Quiet
  <2>1. UNCHANGED <<cacheOf, cache>> BY <1>9 DEF Quiet
  <2>2. ASSUME daemon' # "new", \A d \in Devices : Standing(d)' => Standing(d),
               processor'.step \in {"store", "add"} =>
                  \/ processor' = processor /\ processor.device \in Devices
                  \/ Standing(processor.device)' => Late(processor)'
        PROVE  DeniedLate'
    BY <1>1, <2>1, <2>2
  <2>3. CASE \E k \in Asked : Take(k[1], k[2])
    <3>1. UNCHANGED <<devices, handler, daemon>> /\ daemon # "new"
      BY <2>3 DEF Take, ProcessorOnly, Running, setup
    <3>2. processor'.step \in {"get", "run"}
      <4>1. PICK k \in Asked : Take(k[1], k[2]) BY <2>3
      <4>2. CASE FindCache("get", Request(k[1], k[2]))
        <5>1. ~Using /\ Request(k[1], k[2]) \in Requests BY <4>1, TakeIs DEF Using
        <5> QED BY <1>0, <4>2, <5>1, FindCacheIs
      <4> QED BY <4>1, <4>2, TakeIs
    <3> QED BY <1>2, <2>2, <3>1, <3>2
  <2>4. CASE Answer \/ Report
    <3>1. UNCHANGED <<devices, handler, daemon>> /\ daemon # "new"
      BY <2>4 DEF Answer, Report, ProcessorOnly, Running, setup
    <3>2. processor'.step \in {"idle", "report"} BY <2>4 DEF Answer, Report, Idle
    <3> QED BY <1>2, <2>2, <3>1, <3>2
  <2>5. CASE Execute
    <3>1. UNCHANGED <<devices, handler, daemon>> /\ daemon # "new"
      BY <2>5 DEF Execute, ProcessorOnly, Running, setup
    <3>2. CASE processor' = Idle BY <1>2, <2>2, <3>1, <3>2 DEF Idle
    <3>3. CASE /\ processor'.device = processor.device
               /\ processor'.answer = IF devices[processor.device] = "none" THEN "not found"
                                      ELSE "executed"
               /\ processor'.late = Reloading
      <4>1. Standing(processor.device)' => Late(processor)'
        BY <3>1, <3>3 DEF Standing, Reloading, Late
      <4> QED BY <1>2, <2>2, <3>1, <4>1
    <3> QED BY <1>0, <2>5, <3>2, <3>3, ExecuteIs
  <2>6. CASE Store
    <3>1. processor.step = "store" /\ ~Using /\ processor'.step = "add"
      BY <1>0, <2>6, RequestIn, FindCacheIs DEF Store, Using
    <3> QED BY <1>9, <3>1 DEF Quiet, Using
  <2>7. CASE \E h \in Handlers : Configure(h) \/ ReloadDevices(h) \/ Save(h)
    <3>1. PICK h \in Handlers : Configure(h) \/ ReloadDevices(h) \/ Save(h) BY <2>7
    <3>2. UNCHANGED <<devices, processor, daemon>> /\ daemon # "new"
      BY <3>1 DEF Configure, ReloadDevices, Save, HandlerOnly, Running
    <3>3. handler'[h] # "init" /\ \A g \in Handlers \ {h} : handler'[g] = handler[g]
      <4>1. handler \in [Handlers -> {"new", "save", "shutdown", "init", "returned"}]
        BY <1>0 DEF TypeOK
      <4> QED BY <3>1, <4>1 DEF Configure, ReloadDevices, Save, GoTo
    <3>4. \A d \in Devices : Standing(d)' => Standing(d)
      BY <3>2, <3>3 DEF Standing, Reloading
    <3> QED BY <1>3, <2>2, <3>2, <3>4
  <2>8. CASE \E h \in Handlers : Initialize(h)
    <3>1. PICK h \in Handlers : Initialize(h) BY <2>8
    <3>2. Reloading /\ daemon' = daemon /\ daemon # "new" /\ processor' = Touched
      BY <3>1 DEF Initialize, HandlerOnly, Running, Reloading
    <3>3. \A d \in Devices : Standing(d) BY <3>2 DEF Standing
    <3>4. processor'.step \in {"store", "add"} => processor'.late BY <1>0, <3>2, TouchedIs
    <3> QED BY <2>2, <3>2, <3>3, <3>4 DEF Late
  <2>9. CASE StartDevices
    <3>1. daemon = "new" /\ daemon' # "new" /\ processor' = processor
      BY <2>9 DEF StartDevices
    <3>2. processor.step = "idle" /\ \A d \in Devices : cacheOf[d] = "none"
      BY <1>0, <3>1 DEF DeniedLate
    <3> QED BY <2>1, <3>1, <3>2 DEF DeniedLate
  <2>10. CASE StartAPI \/ StartWorker \/ StopAPI \/ StopWorker
    <3>1. UNCHANGED <<devices, handler, processor>> /\ daemon' # "new"
      BY <2>10 DEF StartAPI, StartWorker, StopAPI, StopWorker, DaemonOnly
    <3> QED BY <1>2, <1>3, <2>2, <3>1
  <2>11. CASE UNCHANGED vars
    <3>1. UNCHANGED <<daemon, devices, handler, processor>> BY <2>11 DEF vars, setup
    <3> QED BY <1>0, <2>1, <3>1 DEF DeniedLate, Standing, Reloading, Late
  <2>12. CASE (\E h \in Handlers : Shutdown(h)) \/ StopDevices
    <3>1. Purging
      BY <2>12 DEF Shutdown, StopDevices, ShutDownDevices, HandlerOnly, DaemonOnly, Purging,
                   Running
    <3> QED BY <1>5, <3>1
  <2> QED BY <1>0, <1>6, <1>7, <1>8, <2>3, <2>4, <2>5, <2>6, <2>7, <2>8, <2>9, <2>10, <2>11,
             <2>12, NextIs
<1> QED BY <1>4, <1>5, <1>6, <1>7, <1>8, <1>9, StepIs

-----------------------------------------------------------------------------
(* The invariant is inductive *)

LEMMA NonceInit == ASSUME Init PROVE NonceInv
<1>1. Idle.step = "idle" BY DEF Idle
<1>2. /\ processor = Idle /\ cleaner = Idle /\ done = {} /\ excused = {}
      /\ cacheOf = [d \in Devices |-> "none"] /\ cache = [o \in Objects |-> <<>>]
      /\ daemon = "new" /\ config = FirstList /\ events = 0 /\ failed = FALSE
      /\ devices = [d \in Devices |-> "none"] /\ handler = [h \in Handlers |-> "new"]
      /\ last = [k \in Keys |-> "none"]
  BY DEF Init
<1>3. MaxEvents \in Nat /\ "none" \notin Objects /\ FirstList \in Seq(Entries)
  BY HubAssumption
<1>4. 0 \in 0 .. MaxEvents BY <1>3
<1>5. cache \in [Objects -> Seq(Keeping)]
      /\ \A o \in Objects : Len(cache[o]) <= Size /\ Single(cache[o]) /\ Contents(cache[o]) = {}
  BY <1>2, EmptyIs
<1>6. TypeOK BY <1>2, <1>3, <1>4, <1>5 DEF TypeOK
<1>7. ProcessorParts /\ CleanerParts
  BY <1>1, <1>2 DEF ProcessorParts, CleanerParts, Using, Visiting
<1>8. OneOwner /\ Known
  BY <1>1, <1>2, <1>3 DEF OneOwner, Known, Refers, Using, Visiting
<1>9. CachesParts BY <1>2, <1>5, <1>8, FS_EmptySet DEF CachesParts
<1>10. InMap /\ Fresh /\ RepeatNeedsCause /\ Live /\ ReplayIsLastAnswer
  BY <1>1, <1>2 DEF InMap, Fresh, RepeatNeedsCause, Live, ReplayIsLastAnswer, Using
<1>11. DeniedLate BY <1>1, <1>2 DEF DeniedLate
<1> QED BY <1>6, <1>7, <1>9, <1>10, <1>11 DEF NonceInv

LEMMA NonceNext ==
    ASSUME NonceInv, DeviceInv, DeviceInv', [Next]_vars
    PROVE  NonceInv'
<1>1. TypeOK'
  <2>1. TypeOK BY DEF NonceInv
  <2>2. /\ daemon' \in {"new", "devices", "api", "up", "failed", "closing", "stopping",
                       "stopped"}
        /\ config' \in Seq(Entries) /\ devices' \in [Devices -> Addresses \cup {"none"}]
        /\ handler' \in [Handlers -> {"new", "save", "shutdown", "init", "returned"}]
        /\ failed' \in BOOLEAN /\ events' \in 0 .. MaxEvents
    BY <2>1, TypeSetup
  <2>3. processor' \in {Idle} \cup Reports \cup Requests BY TypeProcessor
  <2>4. cleaner' \in {Idle} \cup Sweeps BY TypeCleaner
  <2>5. /\ cacheOf' \in [Devices -> Objects \cup {"none"}]
        /\ cache' \in [Objects -> Seq(Keeping)] /\ \A o \in Objects : Len(cache'[o]) <= Size
    BY TypeCaches DEF Sound
  <2>6. /\ done' \subseteq Keys /\ excused' \subseteq Keys
        /\ last' \in [Keys -> Answers \cup {"none"}]
    BY TypePast
  <2> QED BY <2>2, <2>3, <2>4, <2>5, <2>6 DEF TypeOK
<1>2. ProcessorParts' /\ CleanerParts' BY TypeProcessor, TypeCleaner
<1>3. CachesParts'
  <2>1. \A o \in Objects : Single(cache'[o]) BY TypeCaches DEF Sound
  <2> QED BY <2>1, OwnersNext, TypePast DEF CachesParts
<1>4. InMap' /\ Fresh' /\ RepeatNeedsCause' BY InMapNext, FreshNext, RepeatNext
<1>5. Live' /\ ReplayIsLastAnswer' BY LiveNext, ReplayNext
<1>6. DeniedLate' BY DeniedNext
<1> QED BY <1>1, <1>2, <1>3, <1>4, <1>5, <1>6 DEF NonceInv

LEMMA NonceInvariant == Spec => []NonceInv
<1>1. Init => NonceInv BY NonceInit
<1>2. NonceInv /\ DeviceInv /\ DeviceInv' /\ [Next]_vars => NonceInv' BY NonceNext
<1> QED BY <1>1, <1>2, DeviceInvariant, PTL DEF Spec

LEMMA DeniedIsLate == NonceInv => NotFoundIsLate
<1> SUFFICES ASSUME NonceInv, NEW d \in Devices, devices[d] # "none", cacheOf[d] # "none",
                    NEW i \in DOMAIN cache[cacheOf[d]]
             PROVE  cache[cacheOf[d]][i].answer = "not found" => cache[cacheOf[d]][i].late
  BY DEF NotFoundIsLate
<1>1. cache[cacheOf[d]][i] \in Contents(cache[cacheOf[d]]) BY DEF Contents
<1> QED BY <1>1 DEF NonceInv, DeniedLate, Standing, Late

-----------------------------------------------------------------------------

\* Every variable of the hub's devices has its type, no nonce cache grows beyond its
\* size, and no answer is stored for a nonce of the wrong format.
THEOREM TypeCorrect == Spec => []TypeOK
<1>1. NonceInv => TypeOK BY DEF NonceInv
<1> QED BY <1>1, NonceInvariant, PTL

\* A nonce whose answer was stored is executed again only if that answer has aged,
\* was purged by a shutdown, was evicted by more nonces than the cache holds, or
\* was stored while a sweep ran: CheckNonce, StoreResponse, Shutdown and the sweep
\* use the caches they found outside the mutex, and none loses an answer otherwise.
THEOREM RepeatsHaveACause == Spec => []RepeatNeedsCause
<1>1. NonceInv => RepeatNeedsCause BY DEF NonceInv
<1> QED BY <1>1, NonceInvariant, PTL

\* What CheckNonce answers a duplicate with is the answer of the last execution of
\* that nonce on that device, even from a cache that is no longer in the map.
THEOREM ReplaysAreLast == Spec => []ReplayIsLastAnswer
<1>1. NonceInv => ReplayIsLastAnswer BY DEF NonceInv
<1> QED BY <1>1, NonceInvariant, PTL

\* An answer that denies a device the manager has was stored by a request that a
\* reload overlapped: Shutdown purges the others before Initialize creates it.
THEOREM DenialsAreLate == Spec => []NotFoundIsLate
BY NonceInvariant, DeniedIsLate, PTL
=============================================================================
