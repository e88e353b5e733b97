-------------------------- MODULE HermesBrokerProofs --------------------------
(***************************************************************************)
(* Theorems about HermesBroker, for every set of workers, requests and     *)
(* services and every channel capacity: the type invariant, that a         *)
(* registered worker is always listed by its service, that nobody waits    *)
(* more often than his service lists him, and that a service never keeps a *)
(* request queued beside an idle worker.                                   *)
(***************************************************************************)
EXTENDS HermesBroker, SequenceTheorems, FiniteSetTheorems,
        WellFoundedInduction, TLAPS

-----------------------------------------------------------------------------
(* Lemmas about the operators on sequences *)

\* Every nonempty set of naturals has a least element.
LEMMA LeastElement ==
    ASSUME NEW I \in SUBSET Nat, I # {}
    PROVE  Min(I) \in I /\ \A y \in I : Min(I) <= y
<1>1. PICK x \in I : \A y \in I : ~(<<y, x>> \in OpToRel(<, Nat))
  BY NatLessThanWellFounded, WFMin, Zenon
<1>2. \A y \in I : ~(y < x)
  <2>1. ASSUME NEW y \in I, y < x
        PROVE  <<y, x>> \in OpToRel(<, Nat)
    BY <2>1, Zenon DEF OpToRel
  <2> QED BY <1>1, <2>1
<1>3. \A y \in I : x <= y
  BY <1>2
<1> QED BY <1>3 DEF Min

\* The elements of a sequence with one more at its end.
LEMMA AppendRange ==
    ASSUME NEW S, NEW s \in Seq(S), NEW e \in S
    PROVE  Range(Append(s, e)) = Range(s) \cup {e}
<1> DEFINE t == Append(s, e)
<1>1. /\ t \in Seq(S) /\ Len(t) = Len(s) + 1 /\ t[Len(s) + 1] = e
      /\ \A i \in 1 .. Len(s) : t[i] = s[i]
  BY AppendProperties
<1> HIDE DEF t
<1>2. Len(s) \in Nat /\ 1 .. Len(t) = (1 .. Len(s)) \cup {Len(s) + 1}
  BY <1>1, LenProperties
<1>3. Range(t) = {t[i] : i \in 1 .. Len(t)} /\ Range(s) = {s[i] : i \in 1 .. Len(s)}
  BY <1>1, RangeEquality
<1>4. Range(t) = Range(s) \cup {e}
  BY <1>1, <1>2, <1>3
<1> QED BY <1>4 DEF t

\* A removal of the first occurrence takes out one entry, and what follows moves
\* up; without an occurrence nothing changes.
LEMMA RemoveFirstShifts ==
    ASSUME NEW S, NEW s \in Seq(S), NEW e
    PROVE  \/ RemoveFirst(s, e) = s /\ \A i \in 1 .. Len(s) : s[i] # e
           \/ \E k \in 1 .. Len(s) :
                 /\ s[k] = e
                 /\ RemoveFirst(s, e) \in Seq(S) /\ Len(RemoveFirst(s, e)) = Len(s) - 1
                 /\ \A i \in 1 .. k - 1 : RemoveFirst(s, e)[i] = s[i]
                 /\ \A i \in k .. Len(s) - 1 : RemoveFirst(s, e)[i] = s[i + 1]
<1>1. CASE ~ \E i \in 1 .. Len(s) : s[i] = e
  BY <1>1 DEF RemoveFirst
<1>2. CASE \E i \in 1 .. Len(s) : s[i] = e
  <2> DEFINE I == {i \in 1 .. Len(s) : s[i] = e}
             k == SelectInSeq(s, LAMBDA v : v = e)
             front == SubSeq(s, 1, k - 1)
             back == SubSeq(s, k + 1, Len(s))
  <2>1. k \in I
    <3>1. I # {} /\ I \in SUBSET Nat /\ k = Min(I)
      BY <1>2 DEF SelectInSeq
    <3> QED BY <3>1, LeastElement
  <2>2. k \in 1 .. Len(s) /\ s[k] = e
    BY <2>1
  <2> HIDE DEF k, I
  <2>3. /\ front \in Seq(S) /\ Len(front) = k - 1
        /\ \A i \in 1 .. k - 1 : front[i] = s[i]
    BY <2>2, SubSeqProperties
  <2>4. /\ back \in Seq(S) /\ Len(back) = Len(s) - k
        /\ \A i \in 1 .. Len(s) - k : back[i] = s[k + i]
    BY <2>2, SubSeqProperties
  <2>5. RemoveFirst(s, e) = front \o back
    BY <1>2 DEF RemoveFirst, RemoveAt, k
  <2> DEFINE t == front \o back
  <2> HIDE DEF front, back
  <2>6. /\ t \in Seq(S) /\ Len(t) = Len(front) + Len(back)
        /\ \A i \in 1 .. Len(front) + Len(back) : t[i] = IF i <= Len(front) THEN front[i]
                                          ELSE back[i - Len(front)]
    BY <2>3, <2>4, ConcatProperties, Zenon
  <2>7. Len(s) \in Nat /\ Len(t) = Len(s) - 1
    BY <2>2, <2>3, <2>4, <2>6
  <2>8. ASSUME NEW i \in 1 .. k - 1 PROVE t[i] = s[i]
    BY <2>2, <2>3, <2>6, <2>7
  <2>9. ASSUME NEW i \in k .. Len(s) - 1 PROVE t[i] = s[i + 1]
    <3>1. t[i] = back[i - (k - 1)]
      BY <2>2, <2>3, <2>6, <2>7
    <3>2. i - (k - 1) \in 1 .. Len(s) - k /\ k + (i - (k - 1)) = i + 1
      BY <2>2, <2>7
    <3> QED BY <2>4, <3>1, <3>2
  <2>10. RemoveFirst(s, e) = t
    BY <2>5 DEF t
  <2> HIDE DEF t
  <2> QED BY <2>2, <2>6, <2>7, <2>8, <2>9, <2>10
<1> QED BY <1>1, <1>2

\* So it gives a sequence over the same set that is no longer and still has every
\* other element.
LEMMA RemoveFirstProperties ==
    ASSUME NEW S, NEW s \in Seq(S), NEW e
    PROVE  /\ RemoveFirst(s, e) \in Seq(S)
           /\ Len(RemoveFirst(s, e)) <= Len(s)
           /\ \A v \in Range(s) : v # e => v \in Range(RemoveFirst(s, e))
<1> DEFINE t == RemoveFirst(s, e)
<1>1. CASE t = s BY <1>1, LenProperties
<1>2. ASSUME NEW k \in 1 .. Len(s), s[k] = e, t \in Seq(S), Len(t) = Len(s) - 1,
             \A i \in 1 .. k - 1 : t[i] = s[i],
             \A i \in k .. Len(s) - 1 : t[i] = s[i + 1]
      PROVE  Len(t) <= Len(s) /\ \A v \in Range(s) : v # e => v \in Range(t)
  <2> HIDE DEF t
  <2>1. Len(s) \in Nat BY LenProperties
  <2>2. ASSUME NEW v \in Range(s), v # e
        PROVE  v \in Range(t)
    <3>1. PICK j \in 1 .. Len(s) : s[j] = v
      BY RangeEquality
    <3>2. j # k
      BY <1>2, <2>2, <3>1
    <3>3. \E i \in 1 .. Len(t) : t[i] = v
      <4>1. CASE j < k
        BY <1>2, <2>1, <3>1, <4>1
      <4>2. CASE j > k
        <5>1. j - 1 \in k .. Len(s) - 1 /\ j - 1 \in 1 .. Len(t)
          BY <1>2, <2>1, <3>1, <4>2
        <5>2. t[j - 1] = v
          BY <1>2, <3>1, <5>1
        <5> QED BY <5>1, <5>2
      <4> QED BY <3>1, <3>2, <4>1, <4>2
    <3> QED BY <1>2, <3>3, RangeEquality
  <2> QED BY <1>2, <2>1, <2>2
<1> QED BY <1>1, <1>2, RemoveFirstShifts

\* A sequence holds a value in finitely many places.
LEMMA CountType ==
    ASSUME NEW S, NEW s \in Seq(S), NEW v
    PROVE  /\ IsFiniteSet(Places(s, v)) /\ Count(s, v) \in Nat
           /\ DOMAIN s = 1 .. Len(s) /\ Len(s) \in Nat
<1>1. DOMAIN s = 1 .. Len(s) /\ Len(s) \in Nat BY LenProperties
<1>2. 1 \in Int /\ Len(s) \in Int BY <1>1
<1>3. IsFiniteSet(1 .. Len(s)) BY <1>2, FS_Interval
<1>4. Places(s, v) \in SUBSET (1 .. Len(s)) BY <1>1 DEF Places
<1>5. IsFiniteSet(Places(s, v)) BY <1>3, <1>4, FS_Subset
<1> QED BY <1>1, <1>5, FS_CardinalityType DEF Count

\* If f takes the places of v in t, without one, to different places of v in s,
\* without another, there are no more of the former than of the latter.
LEMMA PlacesAtMost ==
    ASSUME NEW S, NEW s \in Seq(S), NEW t, NEW v, NEW in, NEW out,
           NEW f \in [Places(t, v) \ {in} -> Places(s, v) \ {out}],
           \A i, j \in Places(t, v) \ {in} : f[i] = f[j] => i = j
    PROVE  Cardinality(Places(t, v) \ {in}) <= Cardinality(Places(s, v) \ {out})
<1>1. f \in Injection(Places(t, v) \ {in}, Places(s, v) \ {out}) BY DEF Injection, IsInjective
<1>2. IsFiniteSet(Places(s, v)) BY CountType
<1>3. IsFiniteSet(Places(s, v) \ {out}) BY <1>2, FS_RemoveElement
<1> QED BY <1>1, <1>3, FS_Injection

\* The places without one.
LEMMA PlacesWithout ==
    ASSUME NEW S, NEW s \in Seq(S), NEW v, NEW k
    PROVE  Cardinality(Places(s, v) \ {k}) =
             IF k \in Places(s, v) THEN Count(s, v) - 1 ELSE Count(s, v)
BY CountType, FS_RemoveElement DEF Count

LEMMA CountAppend ==
    ASSUME NEW S, NEW s \in Seq(S), NEW e \in S, NEW v
    PROVE  Count(Append(s, e), v) = IF e = v THEN Count(s, v) + 1 ELSE Count(s, v)
<1> DEFINE t == Append(s, e)
           n == Len(s) + 1
<1>1. /\ t \in Seq(S) /\ Len(t) = n /\ t[n] = e
      /\ \A i \in 1 .. Len(s) : t[i] = s[i]
  BY AppendProperties
<1> HIDE DEF t
<1>2. DOMAIN s = 1 .. Len(s) /\ Len(s) \in Nat /\ DOMAIN t = 1 .. Len(t) BY <1>1, LenProperties
<1>3. DOMAIN t = DOMAIN s \cup {n} /\ n \notin DOMAIN s BY <1>1, <1>2
<1>4. Places(t, v) = IF e = v THEN Places(s, v) \cup {n} ELSE Places(s, v)
  BY <1>1, <1>2, <1>3 DEF Places
<1>5. n \notin Places(s, v) BY <1>3 DEF Places
<1> HIDE DEF n
<1>6. Count(t, v) = IF e = v THEN Count(s, v) + 1 ELSE Count(s, v)
  BY <1>4, <1>5, CountType, FS_AddElement DEF Count
<1> QED BY <1>6 DEF t

\* What is left of a sequence without its first n entries has no more of any value.
LEMMA CountShift ==
    ASSUME NEW S, NEW s \in Seq(S), NEW t \in Seq(S), NEW v, NEW n \in Nat,
           Len(t) + n = Len(s), \A i \in 1 .. Len(t) : t[i] = s[i + n]
    PROVE  Count(t, v) <= Count(s, v)
<1> DEFINE f == [i \in Places(t, v) \ {0} |-> i + n]
<1>1. /\ DOMAIN s = 1 .. Len(s) /\ Len(s) \in Nat
      /\ DOMAIN t = 1 .. Len(t) /\ Len(t) \in Nat
  BY LenProperties
<1>2. ASSUME NEW i \in Places(t, v) \ {0} PROVE i \in Nat /\ i + n \in Places(s, v) \ {0}
  <2>1. i \in 1 .. Len(t) /\ t[i] = v BY <1>1 DEF Places
  <2>2. i + n \in 1 .. Len(s) /\ s[i + n] = v BY <1>1, <2>1
  <2> QED BY <1>1, <2>1, <2>2 DEF Places
<1>3. f \in [Places(t, v) \ {0} -> Places(s, v) \ {0}] BY <1>2
<1>4. \A i, j \in Places(t, v) \ {0} : f[i] = f[j] => i = j BY <1>2
<1> HIDE DEF f
<1>5. Cardinality(Places(t, v) \ {0}) <= Cardinality(Places(s, v) \ {0})
  BY <1>3, <1>4, PlacesAtMost
<1>6. 0 \notin Places(s, v) /\ 0 \notin Places(t, v) BY <1>1 DEF Places
<1> QED BY <1>5, <1>6, PlacesWithout

\* The removal of the first occurrence of e takes one entry that holds e, if there
\* is one, and no other.
LEMMA CountRemove ==
    ASSUME NEW S, NEW s \in Seq(S), NEW e, NEW v
    PROVE  Count(RemoveFirst(s, e), v) =
             IF v = e /\ Count(s, e) > 0 THEN Count(s, v) - 1 ELSE Count(s, v)
<1> DEFINE t == RemoveFirst(s, e)
<1>1. /\ DOMAIN s = 1 .. Len(s) /\ Len(s) \in Nat
      /\ Count(s, e) \in Nat /\ Count(s, v) \in Nat
  BY CountType
<1>2. CASE t = s /\ \A i \in 1 .. Len(s) : s[i] # e
  <2>1. Places(s, e) = {} BY <1>1, <1>2 DEF Places
  <2>2. Count(s, e) = 0 BY <2>1, FS_EmptySet DEF Count
  <2> QED BY <1>2, <2>2
<1> HIDE DEF t
<1>3. ASSUME NEW k \in 1 .. Len(s), s[k] = e, t \in Seq(S), Len(t) = Len(s) - 1,
             \A i \in 1 .. k - 1 : t[i] = s[i],
             \A i \in k .. Len(s) - 1 : t[i] = s[i + 1]
      PROVE  Count(t, v) = IF v = e /\ Count(s, e) > 0 THEN Count(s, v) - 1 ELSE Count(s, v)
  <2> DEFINE A == Places(t, v) \ {0}
             B == Places(s, v) \ {k}
             f == [i \in A |-> IF i < k THEN i ELSE i + 1]
             g == [i \in B |-> IF i < k THEN i ELSE i - 1]
  <2>1. DOMAIN t = 1 .. Len(t) /\ Len(t) \in Nat BY <1>3, LenProperties
  <2>2. ASSUME NEW i \in A PROVE i \in Nat /\ (IF i < k THEN i ELSE i + 1) \in B
    <3>1. i \in 1 .. Len(s) - 1 /\ t[i] = v BY <1>3, <2>1, <2>2 DEF Places
    <3>2. CASE i < k
      <4>1. s[i] = v /\ i \in 1 .. Len(s) /\ i # k BY <1>1, <1>3, <3>1, <3>2
      <4> QED BY <1>1, <3>1, <3>2, <4>1 DEF Places
    <3>3. CASE ~(i < k)
      <4>1. i \in k .. Len(s) - 1 BY <1>1, <1>3, <3>1, <3>3
      <4>2. s[i + 1] = v /\ i + 1 \in 1 .. Len(s) /\ i + 1 # k BY <1>1, <1>3, <3>1, <3>3, <4>1
      <4> QED BY <1>1, <3>1, <3>3, <4>2 DEF Places
    <3> QED BY <3>2, <3>3
  <2>3. f \in [A -> B] BY <2>2
  <2>4. \A i, j \in A : f[i] = f[j] => i = j BY <2>2
  <2>5. ASSUME NEW i \in B PROVE i \in Nat /\ i # k /\ (IF i < k THEN i ELSE i - 1) \in A
    <3>1. i \in 1 .. Len(s) /\ s[i] = v /\ i # k BY <1>1, <2>5 DEF Places
    <3>2. CASE i < k
      <4>1. t[i] = v /\ i \in 1 .. Len(t) /\ i # 0 BY <1>1, <1>3, <3>1, <3>2
      <4> QED BY <2>1, <3>1, <3>2, <4>1 DEF Places
    <3>3. CASE ~(i < k)
      <4>1. i - 1 \in k .. Len(s) - 1 /\ (i - 1) + 1 = i BY <1>1, <1>3, <3>1, <3>3
      <4>2. t[i - 1] = s[(i - 1) + 1] BY <1>3, <4>1
      <4>3. t[i - 1] = v /\ i - 1 \in 1 .. Len(t) /\ i - 1 # 0 BY <1>1, <1>3, <3>1, <4>1, <4>2
      <4> QED BY <2>1, <3>1, <3>3, <4>3 DEF Places
    <3> QED BY <3>2, <3>3
  <2>6. g \in [B -> A] BY <2>5
  <2>7. \A i, j \in B : g[i] = g[j] => i = j BY <2>5
  <2> HIDE DEF f, g
  <2>8. Cardinality(A) <= Cardinality(B) BY <2>3, <2>4, PlacesAtMost
  <2>9. Cardinality(B) <= Cardinality(A) BY <1>3, <2>6, <2>7, PlacesAtMost
  <2>10. Cardinality(A) = Count(t, v) /\ Count(t, v) \in Nat
    <3>1. 0 \notin Places(t, v) BY <2>1 DEF Places
    <3> QED BY <1>3, <3>1, PlacesWithout, CountType
  <2>11. Cardinality(B) = IF v = e THEN Count(s, v) - 1 ELSE Count(s, v)
    <3>1. k \in Places(s, v) <=> v = e BY <1>1, <1>3 DEF Places
    <3> QED BY <3>1, PlacesWithout
  <2>12. Count(t, v) = IF v = e THEN Count(s, v) - 1 ELSE Count(s, v)
    <3>1. Cardinality(B) \in Int BY <1>1, <2>11
    <3>2. Cardinality(A) \in Nat /\ Cardinality(A) = Count(t, v) BY <2>10
    <3> HIDE DEF A, B
    <3>3. Cardinality(A) = Cardinality(B) BY <2>8, <2>9, <3>1, <3>2
    <3> QED BY <2>11, <3>2, <3>3
  <2>13. v = e => Count(s, e) > 0 BY <1>1, <2>10, <2>12
  <2> QED BY <2>12, <2>13
<1>4. \/ t = s /\ \A i \in 1 .. Len(s) : s[i] # e
      \/ \E k \in 1 .. Len(s) :
            /\ s[k] = e
            /\ t \in Seq(S) /\ Len(t) = Len(s) - 1
            /\ \A i \in 1 .. k - 1 : t[i] = s[i]
            /\ \A i \in k .. Len(s) - 1 : t[i] = s[i + 1]
  BY RemoveFirstShifts DEF t
<1>5. CASE t = s /\ \A i \in 1 .. Len(s) : s[i] # e BY <1>2, <1>5 DEF t
<1>6. CASE \E k \in 1 .. Len(s) :
            /\ s[k] = e
            /\ t \in Seq(S) /\ Len(t) = Len(s) - 1
            /\ \A i \in 1 .. k - 1 : t[i] = s[i]
            /\ \A i \in k .. Len(s) - 1 : t[i] = s[i + 1]
  <2>1. Count(t, v) = IF v = e /\ Count(s, e) > 0 THEN Count(s, v) - 1 ELSE Count(s, v)
    BY <1>3, <1>6
  <2> QED BY <2>1 DEF t
<1> QED BY <1>4, <1>5, <1>6

-----------------------------------------------------------------------------
(* The type invariant *)

\* What the assumption on the constants says of each of them.
LEMMA Capacities ==
    /\ MessagesCap \in Nat /\ EventsCap \in Nat /\ HeartbeatCap \in Nat
    /\ ExpiryTicks \in Nat /\ MaxCopies \in Nat
    /\ 0 \in 0 .. ExpiryTicks + 1
    /\ \A w \in Workers : ServiceOf[w] \in Services
    /\ \A r \in Requests : Target[r] \in Services
    /\ HubControl \in Services
<1>1. {MessagesCap, EventsCap, HeartbeatCap, ExpiryTicks, MaxCopies} \subseteq Nat
  BY BrokerAssumption
<1>2. /\ MessagesCap \in Nat /\ EventsCap \in Nat /\ HeartbeatCap \in Nat
      /\ ExpiryTicks \in Nat /\ MaxCopies \in Nat
  BY <1>1
<1>3. 0 \in 0 .. ExpiryTicks + 1
  BY <1>2
<1>4. /\ \A w \in Workers : ServiceOf[w] \in Services
      /\ \A r \in Requests : Target[r] \in Services
      /\ HubControl \in Services
  BY BrokerAssumption
<1> QED BY <1>2, <1>3, <1>4

\* Offering a value to a channel keeps the channel a sequence of values.
LEMMA OfferType ==
    ASSUME NEW S, NEW ch \in Seq(S), NEW m \in S, NEW cap
    PROVE  Offer(ch, cap, m) \in Seq(S)
BY AppendProperties DEF Offer

\* A message read from the socket leaves everything but messagesCh alone.
LEMMA SocketReaderType ==
    ASSUME TypeOK, NEW m \in WorkerMsgs \cup ClientMsgs, SocketReader(m)
    PROVE  RegistryType' /\ ChannelType' /\ HandlerType'
<1>1. messagesCh' \in Seq(WorkerMsgs \cup ClientMsgs)
  BY OfferType DEF SocketReader, TypeOK, ChannelType
<1>2. UNCHANGED <<registry, age, queues, workerEventsCh, clientEventsCh, beats, wpc, cpc>>
  BY DEF SocketReader
<1>3. RegistryType'
  BY <1>2 DEF TypeOK, RegistryType, registry, queues
<1>4. ChannelType'
  BY <1>1, <1>2 DEF TypeOK, ChannelType, beats
<1>5. HandlerType'
  BY <1>2 DEF TypeOK, HandlerType, beats
<1> QED BY <1>3, <1>4, <1>5

\* A removal keeps the registry and the queues well typed.
LEMMA RemoveWorkerType ==
    ASSUME RegistryType, NEW w \in Workers, RemoveWorker(w), UNCHANGED known
    PROVE  RegistryType'
<1> DEFINE s == ServiceOf[w]
<1>1. s \in Services
  BY Capacities
<1>2. CASE w \in registered
  <2>1. /\ registered' = registered \ {w}
        /\ svcWorkers' = [svcWorkers EXCEPT ![s] = RemoveFirst(svcWorkers[s], w)]
        /\ waiting' = [waiting EXCEPT ![s] = RemoveFirst(waiting[s], w)]
        /\ age' = [age EXCEPT ![w] = 0]
        /\ UNCHANGED requests
    BY <1>2 DEF RemoveWorker, Deregistered, NotWaiting
  <2>2. svcWorkers[s] \in Seq(Workers) /\ waiting[s] \in Seq(Workers)
    BY <1>1 DEF RegistryType
  <2>3. /\ RemoveFirst(svcWorkers[s], w) \in Seq(Workers)
        /\ RemoveFirst(waiting[s], w) \in Seq(Workers)
    BY <2>2, RemoveFirstProperties
  <2> HIDE DEF s
  <2> QED BY <1>1, <2>1, <2>3, Capacities DEF RegistryType
<1>3. CASE w \notin registered
  BY <1>3 DEF RemoveWorker, RegistryType, registry, queues
<1> QED BY <1>2, <1>3

\* What every handler of a worker event does to the channels, and to the pcs
\* of the other goroutines.
LEMMA WorkerEventType ==
    ASSUME TypeOK, NEW k, NEW w, NEW b, WorkerEvent(k, w, b)
    PROVE  /\ ChannelType'
           /\ UNCHANGED <<beats, cpc, received>>
<1>1. UNCHANGED <<messagesCh, clientEventsCh, beats, cpc, received>>
  BY DEF WorkerEvent
<1>2. workerEventsCh' \in Seq(WorkerMsgs)
  BY HeadTailProperties DEF WorkerEvent, TypeOK, ChannelType
<1> QED BY <1>1, <1>2 DEF TypeOK, ChannelType, beats

\* What every handler of a client event does to the channels and the registry.
LEMMA ClientEventType ==
    ASSUME TypeOK, NEW r, ClientEvent(r)
    PROVE  /\ ChannelType'
           /\ UNCHANGED <<registry, age, beats, wpc, deviceLists, received>>
<1>1. UNCHANGED <<registry, age, messagesCh, workerEventsCh, beats, wpc, deviceLists, received>>
  BY DEF ClientEvent
<1>2. clientEventsCh' \in Seq(ClientMsgs)
  BY HeadTailProperties DEF ClientEvent, TypeOK, ChannelType
<1> QED BY <1>1, <1>2 DEF TypeOK, ChannelType, beats

\* The peers on the socket keep the type invariant.
LEMMA PeersType == TypeOK /\ Peers => TypeOK'
<1>1. ASSUME TypeOK, NEW w \in Workers, RecvReady(w)
      PROVE  TypeOK'
  <2>1. WorkerMsg("READY", w, "") \in WorkerMsgs
    BY DEF WorkerMsg, WorkerMsgs
  <2>2. SocketReader(WorkerMsg("READY", w, "")) /\ UNCHANGED <<output, received>>
    BY <1>1 DEF RecvReady
  <2> QED
    BY <1>1, <2>1, <2>2, SocketReaderType DEF TypeOK, OutputType, output
<1>2. ASSUME TypeOK, NEW w \in Workers, RecvControl(w)
      PROVE  TypeOK'
  <2>1. PICK k \in {"HEARTBEAT", "DISCONNECT"} : SocketReader(WorkerMsg(k, w, ""))
    BY <1>2 DEF RecvControl
  <2>2. WorkerMsg(k, w, "") \in WorkerMsgs
    BY DEF WorkerMsg, WorkerMsgs
  <2>3. UNCHANGED <<output, received>>
    BY <1>2 DEF RecvControl
  <2> QED
    BY <1>2, <2>1, <2>2, <2>3, SocketReaderType DEF TypeOK, OutputType, output
<1>3. ASSUME TypeOK, NEW w \in Workers, NEW b \in {DeviceList, ListFailed} \cup Requests,
             RecvReply(w, b)
      PROVE  TypeOK'
  <2>1. WorkerMsg("REPLY", w, b) \in WorkerMsgs
    BY DEF WorkerMsg, WorkerMsgs
  <2>2. SocketReader(WorkerMsg("REPLY", w, b)) /\ UNCHANGED <<deviceLists, sent, answers, received>>
    BY <1>3 DEF RecvReply
  <2>3. toWorker' \in [Workers -> SUBSET ({"LIST"} \cup Requests)]
    BY <1>3 DEF RecvReply, TypeOK, OutputType
  <2> QED
    BY <1>3, <2>1, <2>2, <2>3, SocketReaderType DEF TypeOK, OutputType
<1>4. ASSUME TypeOK, NEW r \in Requests, RecvRequest(r)
      PROVE  TypeOK'
  <2>1. ClientMsg(r) \in ClientMsgs
    BY DEF ClientMsg, ClientMsgs
  <2>2. SocketReader(ClientMsg(r)) /\ received' = received \cup {r} /\ UNCHANGED output
    BY <1>4 DEF RecvRequest
  <2> QED
    BY <1>4, <2>1, <2>2, SocketReaderType DEF TypeOK, OutputType, output
<1> QED
  BY <1>1, <1>2, <1>3, <1>4 DEF Peers

\* The message router sorts each message into the channel of its kind.
LEMMA MessageRouterType == TypeOK /\ MessageRouter => TypeOK'
<1> SUFFICES ASSUME TypeOK, MessageRouter
             PROVE  TypeOK'
  OBVIOUS
<1> DEFINE m == Head(messagesCh)
<1>1. m \in WorkerMsgs \cup ClientMsgs /\ Tail(messagesCh) \in Seq(WorkerMsgs \cup ClientMsgs)
  BY HeadTailProperties DEF MessageRouter, TypeOK, ChannelType
<1>2. CASE m.kind = "REQ"
  <2>1. m \in ClientMsgs
    BY <1>1, <1>2 DEF WorkerMsgs, ClientMsgs
  <2>2. Offer(clientEventsCh, EventsCap, m) \in Seq(ClientMsgs)
    BY <2>1, OfferType DEF TypeOK, ChannelType
  <2> QED
    BY <1>1, <1>2, <2>2
    DEF MessageRouter, TypeOK, RegistryType, ChannelType, HandlerType, OutputType,
        registry, queues, beats, output
<1>3. CASE m.kind # "REQ"
  <2>1. m \in WorkerMsgs
    BY <1>1, <1>3 DEF WorkerMsgs, ClientMsgs
  <2>2. Offer(workerEventsCh, EventsCap, m) \in Seq(WorkerMsgs)
    BY <2>1, OfferType DEF TypeOK, ChannelType
  <2> QED
    BY <1>1, <1>3, <2>2
    DEF MessageRouter, TypeOK, RegistryType, ChannelType, HandlerType, OutputType,
        registry, queues, beats, output
<1> QED BY <1>2, <1>3

\* A handler between two critical sections holds what it needs to go on.
LEMMA BusyHandlers ==
    ASSUME TypeOK
    PROVE  /\ wpc.step \in {"ready", "found"} => wpc.worker \in Workers
           /\ cpc.step = "send" => cpc.request \in Requests /\ cpc.worker \in Workers
<1>1. Idle.step = "idle"
  BY DEF Idle
<1>2. ASSUME wpc.step \in {"ready", "found"}
      PROVE  wpc.worker \in Workers
  <2>1. wpc # Idle
    BY <1>1, <1>2
  <2>2. wpc \in [step : {"ready", "found"}, worker : Workers,
                body : {"", DeviceList, ListFailed} \cup Requests]
    BY <2>1 DEF TypeOK, HandlerType
  <2> QED BY <2>2
<1>3. ASSUME cpc.step = "send"
      PROVE  cpc.request \in Requests /\ cpc.worker \in Workers
  <2>1. cpc # Idle
    BY <1>1, <1>3
  <2>2. cpc \in [step : {"send"}, request : Requests, worker : Workers]
    BY <2>1 DEF TypeOK, HandlerType
  <2> QED BY <2>2
<1> QED BY <1>2, <1>3

\* A message sent to a worker is a request or asks for its devices.
LEMMA SendToWorkerType ==
    ASSUME TypeOK, NEW w \in Workers, NEW what \in {"LIST"} \cup Requests, SendToWorker(w, what)
    PROVE  toWorker' \in [Workers -> SUBSET ({"LIST"} \cup Requests)]
BY DEF SendToWorker, TypeOK, OutputType

\* Forwarding a reply appends to the answers of one request.
LEMMA ReplyForwardedType ==
    ASSUME TypeOK, NEW b
    PROVE  ReplyForwarded(b) \in [Requests -> Seq({"error", "reply"})]
BY AppendProperties DEF ReplyForwarded, TypeOK, OutputType

\* Every action of the worker event handler keeps the type invariant.
LEMMA HandleWorkerEventType == TypeOK /\ HandleWorkerEvent => TypeOK'
<1>1. ASSUME TypeOK, NEW w \in Workers, HandleWorkerReady(w)
      PROVE  TypeOK'
  <2> DEFINE s == ServiceOf[w]
  <2>1. ChannelType' /\ UNCHANGED <<beats, cpc, received>>
    BY <1>1, WorkerEventType DEF HandleWorkerReady
  <2>2. s \in Services /\ svcWorkers[s] \in Seq(Workers) /\ waiting[s] \in Seq(Workers)
    BY <1>1, Capacities DEF TypeOK, RegistryType
  <2>3. Append(svcWorkers[s], w) \in Seq(Workers) /\ Append(waiting[s], w) \in Seq(Workers)
    BY <2>2, AppendProperties
  <2>4. RegistryType'
    BY <1>1, <2>2, <2>3, Capacities DEF HandleWorkerReady, TypeOK, RegistryType
  <2>5. HandlerType'
    BY <1>1, <2>1 DEF HandleWorkerReady, TypeOK, HandlerType, beats
  <2> QED
    BY <1>1, <2>1, <2>4, <2>5 DEF HandleWorkerReady, TypeOK, OutputType, output
<1>2. ASSUME TypeOK, NEW w \in Workers, HandleWorkerDisconnect(w)
      PROVE  TypeOK'
  <2>1. ChannelType' /\ UNCHANGED <<beats, cpc, received>>
    BY <1>2, WorkerEventType DEF HandleWorkerDisconnect
  <2>2. RegistryType'
    <3>1. RemoveWorker(w) /\ UNCHANGED known
      BY <1>2 DEF HandleWorkerDisconnect, RemoveWorker, registry
    <3> QED BY <1>2, <3>1, RemoveWorkerType DEF TypeOK
  <2> QED
    BY <1>2, <2>1, <2>2 DEF HandleWorkerDisconnect, TypeOK, HandlerType, OutputType, beats, output
<1>3. ASSUME TypeOK, NEW w \in Workers, NEW b \in {"", DeviceList, ListFailed} \cup Requests,
             LookupWorker(w, b)
      PROVE  TypeOK'
  <2>1. ChannelType' /\ UNCHANGED <<beats, cpc, received>>
    BY <1>3, WorkerEventType DEF LookupWorker
  <2>2. HandlerType'
    BY <1>3, <2>1 DEF LookupWorker, TypeOK, HandlerType, beats
  <2> QED
    BY <1>3, <2>1, <2>2
    DEF LookupWorker, TypeOK, RegistryType, OutputType, registry, queues, output
<1>4. ASSUME TypeOK, NEW w \in Workers, NEW b \in {"", DeviceList, ListFailed} \cup Requests,
             HandleUnknown(w, b)
      PROVE  TypeOK'
  <2>1. ChannelType' /\ UNCHANGED <<beats, cpc, received>>
    BY <1>4, WorkerEventType DEF HandleUnknown
  <2>2. answers' \in [Requests -> Seq({"error", "reply"})]
    BY <1>4, ReplyForwardedType DEF HandleUnknown, TypeOK, OutputType
  <2> QED
    BY <1>4, <2>1, <2>2
    DEF HandleUnknown, TypeOK, RegistryType, HandlerType, OutputType, registry, queues, beats
<1>5. ASSUME TypeOK, ProcessPendingRequests
      PROVE  TypeOK'
  <2> DEFINE w == wpc.worker
             s == ServiceOf[w]
             n == IF Len(requests[s]) < Len(waiting[s]) THEN Len(requests[s])
                  ELSE Len(waiting[s])
             Given(v) == {requests[s][i] : i \in {j \in 1 .. n : waiting[s][j] = v}}
             Takes(r) == {i \in 1 .. n : requests[s][i] = r}
  <2>1. w \in Workers /\ s \in Services
    BY <1>5, Capacities, BusyHandlers DEF ProcessPendingRequests
  <2>2. /\ requests[s] \in Seq(Requests) /\ waiting[s] \in Seq(Workers)
        /\ n \in Nat /\ n <= Len(requests[s]) /\ n <= Len(waiting[s])
    BY <1>5, <2>1 DEF TypeOK, RegistryType
  <2>3. /\ requests' = [requests EXCEPT ![s] = SubSeq(requests[s], n + 1, Len(requests[s]))]
        /\ waiting' = [waiting EXCEPT ![s] = SubSeq(waiting[s], n + 1, Len(waiting[s]))]
        /\ sent' = [r \in Requests |->
                      IF Takes(r) = {} THEN sent[r]
                      ELSE Append(sent[r], waiting[s][CHOOSE i \in Takes(r) : TRUE])]
        /\ toWorker' = [v \in Workers |->
                          toWorker[v] \cup Given(v) \cup (IF v = w THEN Handshake(s) ELSE {})]
        /\ wpc' = Idle
        /\ UNCHANGED <<registry, age, channels, beats, cpc, deviceLists, answers, received>>
    BY <1>5 DEF ProcessPendingRequests, QueueBeyond
  <2>4. /\ SubSeq(requests[s], n + 1, Len(requests[s])) \in Seq(Requests)
        /\ SubSeq(waiting[s], n + 1, Len(waiting[s])) \in Seq(Workers)
    BY <2>2, SubSeqProperties
  <2>5. ASSUME NEW r \in Requests, Takes(r) # {}
        PROVE  Append(sent[r], waiting[s][CHOOSE i \in Takes(r) : TRUE]) \in Seq(Workers)
    <3>1. (CHOOSE i \in Takes(r) : TRUE) \in 1 .. n
      BY <2>5
    <3>2. \A i \in 1 .. n : waiting[s][i] \in Workers
      BY <2>2, ElementOfSeq
    <3>3. waiting[s][CHOOSE i \in Takes(r) : TRUE] \in Workers
      BY <3>1, <3>2
    <3> QED BY <1>5, <3>3, AppendProperties DEF TypeOK, OutputType
  <2>6. \A v \in Workers : Given(v) \subseteq Requests
    BY <2>2, ElementOfSeq
  <2> HIDE DEF w, s, n, Given, Takes
  <2>7. RegistryType'
    BY <1>5, <2>1, <2>3, <2>4 DEF TypeOK, RegistryType, registry
  <2>8. sent' \in [Requests -> Seq(Workers)]
    BY <1>5, <2>3, <2>5 DEF TypeOK, OutputType
  <2>9. toWorker' \in [Workers -> SUBSET ({"LIST"} \cup Requests)]
    BY <1>5, <2>3, <2>6 DEF TypeOK, OutputType, Handshake
  <2> QED
    BY <1>5, <2>3, <2>7, <2>8, <2>9
    DEF TypeOK, ChannelType, HandlerType, OutputType, channels, beats
<1>6. ASSUME TypeOK, FinishWorkerEvent
      PROVE  TypeOK'
  <2>1. wpc.worker \in Workers
    BY <1>6, BusyHandlers DEF FinishWorkerEvent
  <2>2. /\ age' = [age EXCEPT ![wpc.worker] = 0]
        /\ wpc' = Idle
        /\ deviceLists' \subseteq Workers
        /\ answers' = ReplyForwarded(wpc.body)
        /\ UNCHANGED <<registry, queues, channels, beats, cpc, toWorker, sent, received>>
    BY <1>6, <2>1 DEF FinishWorkerEvent, TypeOK, OutputType
  <2>3. answers' \in [Requests -> Seq({"error", "reply"})]
    BY <1>6, <2>2, ReplyForwardedType
  <2>4. RegistryType'
    BY <1>6, <2>1, <2>2, Capacities DEF TypeOK, RegistryType, registry, queues
  <2> QED
    BY <1>6, <2>2, <2>3, <2>4
    DEF TypeOK, ChannelType, HandlerType, OutputType, channels, beats
<1> QED
  BY <1>1, <1>2, <1>3, <1>4, <1>5, <1>6 DEF HandleWorkerEvent

\* Every action of the client event handler keeps the type invariant.
LEMMA HandleClientEventType == TypeOK /\ HandleClientEvent => TypeOK'
<1>1. ASSUME TypeOK, NEW r \in Requests, RejectRequest(r)
      PROVE  TypeOK'
  <2>1. ChannelType' /\ UNCHANGED <<registry, age, beats, wpc, deviceLists, received>>
    BY <1>1, ClientEventType DEF RejectRequest
  <2>2. answers' \in [Requests -> Seq({"error", "reply"})]
    BY <1>1, AppendProperties DEF RejectRequest, TypeOK, OutputType
  <2> QED
    BY <1>1, <2>1, <2>2
    DEF RejectRequest, TypeOK, RegistryType, HandlerType, OutputType, registry, queues, beats
<1>2. ASSUME TypeOK, NEW r \in Requests, PickHubWorker(r)
      PROVE  TypeOK'
  <2>1. ChannelType' /\ UNCHANGED <<registry, age, beats, wpc, deviceLists, received>>
    BY <1>2, ClientEventType DEF PickHubWorker
  <2>2. Head(svcWorkers[HubControl]) \in Workers
    BY <1>2, Capacities, HeadTailProperties DEF PickHubWorker, TypeOK, RegistryType
  <2>3. HandlerType'
    BY <1>2, <2>1, <2>2 DEF PickHubWorker, TypeOK, HandlerType, beats
  <2> QED
    BY <1>2, <2>1, <2>3
    DEF PickHubWorker, TypeOK, RegistryType, OutputType, registry, queues
<1>3. ASSUME TypeOK, NEW r \in Requests, QueueRequest(r)
      PROVE  TypeOK'
  <2>1. ChannelType' /\ UNCHANGED <<registry, age, beats, wpc, deviceLists, received>>
    BY <1>3, ClientEventType DEF QueueRequest
  <2>2. Append(requests[Target[r]], r) \in Seq(Requests)
    BY <1>3, Capacities, AppendProperties DEF TypeOK, RegistryType
  <2>3. RegistryType'
    BY <1>3, <2>1, <2>2 DEF QueueRequest, AtBack, TypeOK, RegistryType, registry
  <2> QED
    BY <1>3, <2>1, <2>3 DEF QueueRequest, TypeOK, HandlerType, OutputType, beats
<1>4. ASSUME TypeOK, NEW r \in Requests, NEW w \in Workers, Send(r, w)
      PROVE  /\ sent' \in [Requests -> Seq(Workers)]
             /\ toWorker' \in [Workers -> SUBSET ({"LIST"} \cup Requests)]
  BY <1>4, SendToWorkerType, AppendProperties DEF Send, TypeOK, OutputType
<1>5. ASSUME TypeOK, NEW r \in Requests, DispatchRequest(r)
      PROVE  TypeOK'
  <2> DEFINE s == Target[r]
  <2>1. ChannelType' /\ UNCHANGED <<registry, age, beats, wpc, deviceLists, received>>
    BY <1>5, ClientEventType DEF DispatchRequest
  <2>2. waiting[s] \in Seq(Workers) /\ waiting[s] # <<>> /\ Send(r, Head(waiting[s]))
    BY <1>5, Capacities DEF DispatchRequest, TypeOK, RegistryType
  <2>3. Head(waiting[s]) \in Workers /\ Tail(waiting[s]) \in Seq(Workers)
    BY <2>2, HeadTailProperties
  <2>4. RegistryType'
    BY <1>5, <2>1, <2>3 DEF DispatchRequest, TypeOK, RegistryType, registry
  <2>5. OutputType'
    BY <1>4, <1>5, <2>1, <2>2, <2>3 DEF DispatchRequest, TypeOK, OutputType
  <2> QED
    BY <1>5, <2>1, <2>4, <2>5 DEF DispatchRequest, TypeOK, HandlerType, beats
<1>6. ASSUME TypeOK, SendToHubWorker
      PROVE  TypeOK'
  <2>1. cpc.request \in Requests /\ cpc.worker \in Workers
    BY <1>6, BusyHandlers DEF SendToHubWorker
  <2>2. OutputType'
    BY <1>4, <1>6, <2>1 DEF SendToHubWorker, TypeOK, OutputType
  <2> QED
    BY <1>6, <2>2
    DEF SendToHubWorker, TypeOK, RegistryType, ChannelType, HandlerType,
        registry, queues, channels, beats
<1> QED
  BY <1>1, <1>2, <1>3, <1>5, <1>6 DEF HandleClientEvent

\* Every action of the heartbeat manager keeps the type invariant.
LEMMA HeartbeatManagerType == TypeOK /\ HeartbeatManager => TypeOK'
<1>1. ASSUME TypeOK, UNCHANGED <<known, channels, wpc, cpc, output, received>>,
             RegistryType', heartbeatCh' \in 0 .. HeartbeatCap, tick' \in BOOLEAN,
             hpc' \in [step : {"wait", "post", "check", "remove"}, victims : SUBSET Workers]
      PROVE  TypeOK'
  BY <1>1 DEF TypeOK, ChannelType, HandlerType, OutputType, channels, output
<1>2. ASSUME TypeOK, TakeTick PROVE TypeOK'
  BY <1>1, <1>2
  DEF TakeTick, BeatUnchanged, TypeOK, RegistryType, ChannelType, HandlerType, queues
<1>3. ASSUME TypeOK, PostHeartbeat PROVE TypeOK'
  <2>1. heartbeatCh' \in 0 .. HeartbeatCap
    BY <1>3, Capacities DEF PostHeartbeat, HasRoom, TypeOK, ChannelType
  <2> QED
    BY <1>1, <1>3, <2>1
    DEF PostHeartbeat, BeatUnchanged, TypeOK, RegistryType, ChannelType, HandlerType, queues
<1>4. ASSUME TypeOK, CollectExpired PROVE TypeOK'
  <2>1. Victims \in SUBSET Workers
    BY <1>4 DEF Victims, TypeOK, RegistryType
  <2> QED
    BY <1>1, <1>4, <2>1
    DEF CollectExpired, BeatUnchanged, TypeOK, RegistryType, ChannelType, HandlerType, queues
<1>5. ASSUME TypeOK, NEW w \in Workers, RemoveExpired(w) PROVE TypeOK'
  <2>1. RegistryType'
    BY <1>5, RemoveWorkerType DEF RemoveExpired, BeatUnchanged, TypeOK
  <2>2. hpc' \in [step : {"wait", "post", "check", "remove"}, victims : SUBSET Workers]
    BY <1>5 DEF RemoveExpired, TypeOK, HandlerType
  <2> QED
    BY <1>1, <1>5, <2>1, <2>2 DEF RemoveExpired, BeatUnchanged, TypeOK, ChannelType
<1>6. ASSUME TypeOK, CheckDone PROVE TypeOK'
  BY <1>1, <1>6
  DEF CheckDone, BeatUnchanged, TypeOK, RegistryType, ChannelType, HandlerType, queues
<1> QED
  BY <1>2, <1>3, <1>4, <1>5, <1>6 DEF HeartbeatManager

\* Every variable keeps its type; in particular heartbeatCh, a channel sent to
\* with a plain send, never holds more than its capacity.
THEOREM TypeCorrect == Spec => []TypeOK
<1>1. Init => TypeOK
  <2> SUFFICES ASSUME Init PROVE TypeOK
    OBVIOUS
  <2>1. RegistryType
    BY Capacities, EmptySeq DEF Init, RegistryType
  <2>2. ChannelType
    <3>1. \A S : <<>> \in Seq(S)
      BY EmptySeq
    <3>2. 0 \in 0 .. HeartbeatCap
      BY Capacities
    <3> QED BY <3>1, <3>2 DEF Init, ChannelType
  <2>3. HandlerType
    BY DEF Init, HandlerType
  <2>4. OutputType
    BY EmptySeq DEF Init, OutputType
  <2> QED BY <2>1, <2>2, <2>3, <2>4 DEF TypeOK
<1>2. TypeOK /\ ClockTick => TypeOK'
  <2> SUFFICES ASSUME TypeOK, ClockTick PROVE TypeOK'
    OBVIOUS
  <2>1. age' \in [Workers -> 0 .. ExpiryTicks + 1]
    <3>1. \A w \in Workers : age[w] <= ExpiryTicks => age[w] + 1 \in 0 .. ExpiryTicks + 1
      BY Capacities DEF TypeOK, RegistryType
    <3> QED BY <3>1 DEF ClockTick, TypeOK, RegistryType
  <2> QED
    BY <2>1
    DEF ClockTick, TypeOK, RegistryType, ChannelType, HandlerType, OutputType,
        registry, queues, channels, output
<1>3. TypeOK /\ UNCHANGED vars => TypeOK'
  BY DEF vars, TypeOK, RegistryType, ChannelType, HandlerType, OutputType,
         registry, queues, channels, beats, output
<1>4. TypeOK /\ [Next]_vars => TypeOK'
  BY <1>2, <1>3, PeersType, MessageRouterType, HandleWorkerEventType,
     HandleClientEventType, HeartbeatManagerType DEF Next
<1> QED
  BY <1>1, <1>4, PTL DEF Spec

-----------------------------------------------------------------------------
(* The registry *)

\* Only a READY and a removal touch what the registry lists.
LEMMA RegistrySteps ==
    ASSUME [Next]_vars
    PROVE  \/ UNCHANGED <<registered, svcWorkers>>
           \/ \E w \in Workers : HandleWorkerReady(w) \/ RemoveWorker(w)
<1>1. CASE Peers \/ ClockTick \/ MessageRouter
  BY <1>1
  DEF Peers, ClockTick, MessageRouter, RecvReady, RecvControl, RecvReply, RecvRequest,
      SocketReader, registry
<1>2. CASE HandleWorkerEvent
  BY <1>2
  DEF HandleWorkerEvent, HandleWorkerDisconnect, LookupWorker, HandleUnknown,
      ProcessPendingRequests, FinishWorkerEvent, registry
<1>3. CASE HandleClientEvent
  BY <1>3
  DEF HandleClientEvent, RejectRequest, PickHubWorker, QueueRequest, DispatchRequest,
      ClientEvent, SendToHubWorker, registry
<1>4. CASE HeartbeatManager
  BY <1>4
  DEF HeartbeatManager, TakeTick, PostHeartbeat, CollectExpired, RemoveExpired, CheckDone
<1>5. CASE UNCHANGED vars
  BY <1>5 DEF vars, registry
<1> QED BY <1>1, <1>2, <1>3, <1>4, <1>5 DEF Next

\* However often a worker registers and is removed, one that is in b.workers
\* is listed by its service: a removal that leaves it in the map took an entry
\* of another worker.
THEOREM RegisteredStaysListed == Spec => []RegisteredIsListed
<1>1. Init => RegisteredIsListed
  BY DEF Init, RegisteredIsListed
<1>2. ASSUME TypeOK, RegisteredIsListed, [Next]_vars
      PROVE  RegisteredIsListed'
  <2>1. CASE UNCHANGED <<registered, svcWorkers>>
    BY <1>2, <2>1 DEF RegisteredIsListed
  <2>2. ASSUME NEW w \in Workers, HandleWorkerReady(w)
        PROVE  RegisteredIsListed'
    <3> DEFINE s == ServiceOf[w]
    <3>1. /\ registered' = registered \cup {w}
          /\ svcWorkers' = [svcWorkers EXCEPT ![s] = Append(svcWorkers[s], w)]
      BY <2>2 DEF HandleWorkerReady
    <3>2. s \in Services /\ svcWorkers[s] \in Seq(Workers)
      BY <1>2, Capacities DEF TypeOK, RegistryType
    <3>3. Range(Append(svcWorkers[s], w)) = Range(svcWorkers[s]) \cup {w}
      BY <3>2, AppendRange
    <3>4. ASSUME NEW v \in registered'
          PROVE  v \in Range(svcWorkers'[ServiceOf[v]])
      <4>1. ServiceOf[v] \in Services
        BY <1>2, <3>1, <3>4, Capacities DEF TypeOK, RegistryType
      <4>2. svcWorkers'[s] = Append(svcWorkers[s], w)
        BY <1>2, <3>1, <3>2 DEF TypeOK, RegistryType
      <4>3. CASE v = w
        BY <3>3, <4>2, <4>3
      <4>4. CASE v # w
        <5>1. v \in registered /\ v \in Range(svcWorkers[ServiceOf[v]])
          BY <1>2, <3>1, <3>4, <4>4 DEF RegisteredIsListed
        <5>2. CASE ServiceOf[v] = s
          BY <3>3, <4>2, <5>1, <5>2
        <5>3. CASE ServiceOf[v] # s
          <6>1. svcWorkers'[ServiceOf[v]] = svcWorkers[ServiceOf[v]]
            BY <1>2, <3>1, <4>1, <5>3 DEF TypeOK, RegistryType
          <6> QED BY <5>1, <6>1
        <5> QED BY <5>2, <5>3
      <4> QED BY <4>3, <4>4
    <3> QED BY <3>4 DEF RegisteredIsListed
  <2>3. ASSUME NEW w \in Workers, RemoveWorker(w)
        PROVE  RegisteredIsListed'
    <3> DEFINE s == ServiceOf[w]
    <3>1. CASE w \notin registered
      BY <1>2, <2>3, <3>1 DEF RemoveWorker, RegisteredIsListed, registry
    <3>2. CASE w \in registered
      <4>1. /\ registered' = registered \ {w}
            /\ svcWorkers' = [svcWorkers EXCEPT ![s] = RemoveFirst(svcWorkers[s], w)]
        BY <2>3, <3>2 DEF RemoveWorker, Deregistered
      <4>2. s \in Services /\ svcWorkers[s] \in Seq(Workers)
        BY <1>2, Capacities DEF TypeOK, RegistryType
      <4>3. ASSUME NEW v \in registered'
            PROVE  v \in Range(svcWorkers'[ServiceOf[v]])
        <5>1. v # w /\ ServiceOf[v] \in Services
          BY <1>2, <4>1, <4>3, Capacities DEF TypeOK, RegistryType
        <5>2. v \in Range(svcWorkers[ServiceOf[v]])
          BY <1>2, <4>1, <4>3 DEF RegisteredIsListed
        <5>3. CASE ServiceOf[v] = s
          <6>1. svcWorkers'[ServiceOf[v]] = RemoveFirst(svcWorkers[s], w)
            BY <1>2, <4>1, <4>2, <5>3 DEF TypeOK, RegistryType
          <6> QED BY <4>2, <5>1, <5>2, <5>3, <6>1, RemoveFirstProperties
        <5>4. CASE ServiceOf[v] # s
          <6>1. svcWorkers'[ServiceOf[v]] = svcWorkers[ServiceOf[v]]
            BY <1>2, <4>1, <5>1, <5>4 DEF TypeOK, RegistryType
          <6> QED BY <5>2, <6>1
        <5> QED BY <5>3, <5>4
      <4> QED BY <4>3 DEF RegisteredIsListed
    <3> QED BY <3>1, <3>2
  <2> QED BY <1>2, <2>1, <2>2, <2>3, RegistrySteps
<1> QED BY <1>1, <1>2, TypeCorrect, PTL DEF Spec

-----------------------------------------------------------------------------
(* The queues *)

\* A step that leaves the queues alone also leaves a READY in progress alone;
\* these are all the others.
LEMMA QueueSteps ==
    ASSUME [Next]_vars
    PROVE  \/ UNCHANGED queues /\ (wpc' = wpc \/ wpc.step # "ready")
           \/ \E w \in Workers : HandleWorkerReady(w)
           \/ ProcessPendingRequests
           \/ \E r \in Requests : QueueRequest(r) \/ DispatchRequest(r)
           \/ \E w \in Workers : RemoveWorker(w) /\ wpc' = wpc
<1>1. CASE Peers \/ ClockTick \/ MessageRouter
  BY <1>1
  DEF Peers, ClockTick, MessageRouter, RecvReady, RecvControl, RecvReply, RecvRequest,
      SocketReader
<1>2. CASE HandleWorkerEvent
  <2>1. ASSUME NEW w \in Workers, NEW b, LookupWorker(w, b)
        PROVE  UNCHANGED queues /\ wpc.step # "ready"
    BY <2>1 DEF LookupWorker, WorkerEvent, Idle
  <2>2. ASSUME NEW w \in Workers, NEW b, HandleUnknown(w, b)
        PROVE  UNCHANGED queues /\ wpc' = wpc
    BY <2>2 DEF HandleUnknown
  <2>3. ASSUME NEW w \in Workers, HandleWorkerDisconnect(w)
        PROVE  RemoveWorker(w) /\ wpc' = wpc
    BY <2>3 DEF HandleWorkerDisconnect
  <2>4. ASSUME FinishWorkerEvent
        PROVE  UNCHANGED queues /\ wpc.step # "ready"
    BY <2>4 DEF FinishWorkerEvent
  <2> QED BY <1>2, <2>1, <2>2, <2>3, <2>4 DEF HandleWorkerEvent
<1>3. CASE HandleClientEvent
  BY <1>3
  DEF HandleClientEvent, RejectRequest, PickHubWorker, ClientEvent, SendToHubWorker
<1>4. CASE HeartbeatManager
  BY <1>4
  DEF HeartbeatManager, TakeTick, PostHeartbeat, CollectExpired, RemoveExpired, CheckDone,
      BeatUnchanged
<1>5. CASE UNCHANGED vars
  BY <1>5 DEF vars
<1> QED BY <1>1, <1>2, <1>3, <1>4, <1>5 DEF Next

\* A service keeps a request queued beside an idle worker only between the
\* two critical sections of a READY, and then beside one worker.
THEOREM NoIdleWorker == Spec => []NoIdleWorkerWhileQueued
<1>1. Init => NoIdleWorkerWhileQueued
  BY DEF Init, NoIdleWorkerWhileQueued
<1>2. ASSUME TypeOK, NoIdleWorkerWhileQueued, [Next]_vars
      PROVE  NoIdleWorkerWhileQueued'
  <2> SUFFICES ASSUME NEW s \in Services, requests'[s] # <<>>, waiting'[s] # <<>>
               PROVE  wpc'.step = "ready" /\ ServiceOf[wpc'.worker] = s /\ Len(waiting'[s]) = 1
    BY DEF NoIdleWorkerWhileQueued
  <2>1. requests[s] \in Seq(Requests) /\ waiting[s] \in Seq(Workers)
    BY <1>2 DEF TypeOK, RegistryType
  <2>2. requests[s] # <<>> /\ waiting[s] # <<>> =>
          wpc.step = "ready" /\ ServiceOf[wpc.worker] = s /\ Len(waiting[s]) = 1
    BY <1>2 DEF NoIdleWorkerWhileQueued
  <2>3. CASE UNCHANGED queues /\ (wpc' = wpc \/ wpc.step # "ready")
    BY <2>2, <2>3 DEF queues
  <2>4. ASSUME NEW w \in Workers, HandleWorkerReady(w)
        PROVE  wpc'.step = "ready" /\ ServiceOf[wpc'.worker] = s /\ Len(waiting'[s]) = 1
    <3>1. /\ waiting' = [waiting EXCEPT ![ServiceOf[w]] = Append(waiting[ServiceOf[w]], w)]
          /\ wpc' = [step |-> "ready", worker |-> w, body |-> ""]
          /\ UNCHANGED requests /\ wpc = Idle
      BY <2>4 DEF HandleWorkerReady, WorkerEvent
    <3>2. waiting[s] = <<>>
      BY <2>2, <3>1 DEF Idle
    <3>3. ServiceOf[w] = s
      BY <1>2, <3>1, <3>2 DEF TypeOK, RegistryType
    <3>4. waiting'[s] = Append(<<>>, w)
      BY <1>2, <3>1, <3>2, <3>3 DEF TypeOK, RegistryType
    <3>5. Len(Append(<<>>, w)) = 1
      BY AppendProperties, EmptySeq
    <3> QED BY <3>1, <3>3, <3>4, <3>5
  <2>5. CASE ProcessPendingRequests
    <3> DEFINE t == ServiceOf[wpc.worker]
               n == IF Len(requests[t]) < Len(waiting[t]) THEN Len(requests[t])
                    ELSE Len(waiting[t])
    <3>1. /\ wpc.step = "ready"
          /\ requests' = [requests EXCEPT ![t] = SubSeq(requests[t], n + 1, Len(requests[t]))]
          /\ waiting' = [waiting EXCEPT ![t] = SubSeq(waiting[t], n + 1, Len(waiting[t]))]
      BY <2>5 DEF ProcessPendingRequests, QueueBeyond
    <3>2. CASE s = t
      <4>1. /\ requests'[s] = SubSeq(requests[s], n + 1, Len(requests[s]))
            /\ waiting'[s] = SubSeq(waiting[s], n + 1, Len(waiting[s]))
        BY <1>2, <3>1, <3>2 DEF TypeOK, RegistryType
      <4>2. n = Len(requests[s]) \/ n = Len(waiting[s])
        BY <3>2
      <4>3. ASSUME NEW S, NEW q \in Seq(S) PROVE SubSeq(q, Len(q) + 1, Len(q)) = <<>>
        BY SubSeqEmpty, LenProperties
      <4> QED BY <2>1, <4>1, <4>2, <4>3
    <3>3. CASE s # t
      BY <1>2, <2>2, <3>1, <3>3 DEF TypeOK, RegistryType
    <3> QED BY <3>2, <3>3
  <2>6. ASSUME NEW r \in Requests, QueueRequest(r)
        PROVE  wpc'.step = "ready" /\ ServiceOf[wpc'.worker] = s /\ Len(waiting'[s]) = 1
    <3>1. /\ waiting[Target[r]] = <<>> /\ UNCHANGED <<waiting, wpc>>
          /\ requests' = [requests EXCEPT ![Target[r]] = AtBack(Target[r], r)]
      BY <2>6 DEF QueueRequest, NoneWaiting, ClientEvent
    <3>2. s # Target[r]
      BY <3>1
    <3>3. requests'[s] = requests[s]
      BY <1>2, <3>1, <3>2 DEF TypeOK, RegistryType
    <3> QED BY <2>2, <3>1, <3>3
  <2>7. ASSUME NEW r \in Requests, DispatchRequest(r)
        PROVE  wpc'.step = "ready" /\ ServiceOf[wpc'.worker] = s /\ Len(waiting'[s]) = 1
    <3> DEFINE t == Target[r]
    <3>1. /\ waiting[t] # <<>> /\ UNCHANGED <<requests, wpc>>
          /\ waiting' = [waiting EXCEPT ![t] = Tail(waiting[t])]
      BY <2>7 DEF DispatchRequest, ClientEvent
    <3>2. CASE s = t
      <4>1. waiting'[s] = Tail(waiting[s])
        BY <1>2, <3>1, <3>2 DEF TypeOK, RegistryType
      <4>2. Len(waiting[s]) = 1
        BY <2>2, <3>1, <3>2
      <4>3. Len(Tail(waiting[s])) = 0 /\ Tail(waiting[s]) \in Seq(Workers)
        BY <2>1, <3>1, <3>2, <4>2, HeadTailProperties
      <4> QED BY <4>1, <4>3, EmptySeq
    <3>3. CASE s # t
      BY <1>2, <2>2, <3>1, <3>3 DEF TypeOK, RegistryType
    <3> QED BY <3>2, <3>3
  <2>8. ASSUME NEW w \in Workers, RemoveWorker(w), wpc' = wpc
        PROVE  wpc'.step = "ready" /\ ServiceOf[wpc'.worker] = s /\ Len(waiting'[s]) = 1
    <3>1. CASE w \notin registered
      BY <2>2, <2>8, <3>1 DEF RemoveWorker, queues
    <3>2. CASE w \in registered
      <4> DEFINE t == ServiceOf[w]
      <4>1. UNCHANGED requests /\ waiting' = [waiting EXCEPT ![t] = RemoveFirst(waiting[t], w)]
        BY <2>8, <3>2 DEF RemoveWorker, NotWaiting
      <4>2. CASE s = t
        <5>1. waiting'[s] = RemoveFirst(waiting[s], w)
          BY <1>2, <4>1, <4>2 DEF TypeOK, RegistryType
        <5>2. waiting'[s] \in Seq(Workers) /\ Len(waiting'[s]) <= Len(waiting[s])
          BY <2>1, <5>1, RemoveFirstProperties
        <5>3. Len(waiting'[s]) > 0
          BY <5>2, EmptySeq
        <5>4. waiting[s] # <<>> /\ Len(waiting[s]) = 1
          <6>1. Len(waiting[s]) > 0 /\ UNCHANGED requests
            BY <2>1, <4>1, <5>2, <5>3, LenProperties
          <6>2. requests[s] # <<>> /\ waiting[s] # <<>>
            BY <2>1, <6>1, EmptySeq
          <6> QED BY <2>2, <6>2
        <5>5. Len(waiting'[s]) = 1
          <6>1. Len(waiting'[s]) \in Nat
            BY <5>2, LenProperties
          <6>2. Len(waiting'[s]) <= 1
            BY <5>2, <5>4
          <6>3. \A k \in Nat : k > 0 /\ k <= 1 => k = 1
            OBVIOUS
          <6> QED BY <5>3, <6>1, <6>2, <6>3, Zenon
        <5> QED BY <2>2, <2>8, <4>1, <5>4, <5>5
      <4>3. CASE s # t
        BY <1>2, <2>2, <2>8, <4>1, <4>3 DEF TypeOK, RegistryType
      <4> QED BY <4>2, <4>3
    <3> QED BY <3>1, <3>2
  <2> QED BY <1>2, <2>3, <2>4, <2>5, <2>6, <2>7, <2>8, QueueSteps
<1> QED BY <1>1, <1>2, TypeCorrect, PTL DEF Spec

-----------------------------------------------------------------------------
(* That who waits is listed *)

\* A service that still lists a worker as often, and has it wait no more often.
LEMMA ListedGoesOn ==
    ASSUME TypeOK, TypeOK', NEW s \in Services, NEW w \in Workers,
           Count(waiting[s], w) <= Count(svcWorkers[s], w),
           Count(waiting'[s], w) <= Count(waiting[s], w),
           Count(svcWorkers'[s], w) = Count(svcWorkers[s], w)
    PROVE  Count(waiting'[s], w) <= Count(svcWorkers'[s], w)
<1>1. /\ waiting[s] \in Seq(Workers) /\ waiting'[s] \in Seq(Workers)
      /\ svcWorkers[s] \in Seq(Workers)
  BY DEF TypeOK, RegistryType
<1>2. /\ Count(waiting[s], w) \in Nat /\ Count(waiting'[s], w) \in Nat
      /\ Count(svcWorkers[s], w) \in Nat
  BY <1>1, CountType
<1> QED BY <1>2

\* A READY lists the worker and has it wait, once each.
LEMMA ReadyKeepsListed ==
    ASSUME TypeOK, WaitingIsListed, NEW v \in Workers, HandleWorkerReady(v)
    PROVE  WaitingIsListed'
<1> SUFFICES ASSUME NEW s \in Services, NEW w \in Workers
             PROVE  Count(waiting'[s], w) <= Count(svcWorkers'[s], w)
  BY DEF WaitingIsListed
<1> DEFINE t == ServiceOf[v]
<1>1. /\ svcWorkers' = [svcWorkers EXCEPT ![t] = Append(svcWorkers[t], v)]
      /\ waiting' = [waiting EXCEPT ![t] = Append(waiting[t], v)]
  BY DEF HandleWorkerReady
<1>2. waiting[s] \in Seq(Workers) /\ svcWorkers[s] \in Seq(Workers)
  BY DEF TypeOK, RegistryType
<1>3. /\ Count(waiting[s], w) <= Count(svcWorkers[s], w)
      /\ Count(waiting[s], w) \in Nat /\ Count(svcWorkers[s], w) \in Nat
  BY <1>2, CountType DEF WaitingIsListed
<1>4. CASE s = t
  <2>1. waiting'[s] = Append(waiting[s], v) /\ svcWorkers'[s] = Append(svcWorkers[s], v)
    BY <1>1, <1>4 DEF TypeOK, RegistryType
  <2>2. /\ Count(waiting'[s], w) = IF v = w THEN Count(waiting[s], w) + 1
                                  ELSE Count(waiting[s], w)
        /\ Count(svcWorkers'[s], w) = IF v = w THEN Count(svcWorkers[s], w) + 1
                                     ELSE Count(svcWorkers[s], w)
    BY <1>2, <2>1, CountAppend
  <2> QED BY <1>3, <2>2
<1>5. CASE s # t
  <2>1. waiting'[s] = waiting[s] /\ svcWorkers'[s] = svcWorkers[s]
    BY <1>1, <1>5 DEF TypeOK, RegistryType
  <2> QED BY <1>3, <2>1
<1> QED BY <1>4, <1>5

\* A removal takes one entry of the worker from each list that has one: the other
\* workers' entries, and the worker's further ones, are left.
LEMMA RemovalKeepsListed ==
    ASSUME TypeOK, WaitingIsListed, NEW v \in Workers, RemoveWorker(v)
    PROVE  WaitingIsListed'
<1> SUFFICES ASSUME NEW s \in Services, NEW w \in Workers
             PROVE  Count(waiting'[s], w) <= Count(svcWorkers'[s], w)
  BY DEF WaitingIsListed
<1> DEFINE t == ServiceOf[v]
<1>1. waiting[s] \in Seq(Workers) /\ svcWorkers[s] \in Seq(Workers)
  BY DEF TypeOK, RegistryType
<1>2. /\ \A x \in Workers : Count(waiting[s], x) <= Count(svcWorkers[s], x)
      /\ \A x : Count(waiting[s], x) \in Nat /\ Count(svcWorkers[s], x) \in Nat
  BY <1>1, CountType DEF WaitingIsListed
<1>3. CASE v \notin registered
  <2>1. UNCHANGED <<waiting, svcWorkers>> BY <1>3 DEF RemoveWorker, registry, queues
  <2> QED BY <1>2, <2>1
<1>4. CASE v \in registered
  <2>1. /\ svcWorkers' = [svcWorkers EXCEPT ![t] = RemoveFirst(svcWorkers[t], v)]
        /\ waiting' = [waiting EXCEPT ![t] = RemoveFirst(waiting[t], v)]
    BY <1>4 DEF RemoveWorker, NotWaiting
  <2>2. CASE s = t
    <3>1. /\ waiting'[s] = RemoveFirst(waiting[s], v)
          /\ svcWorkers'[s] = RemoveFirst(svcWorkers[s], v)
      BY <2>1, <2>2 DEF TypeOK, RegistryType
    <3>2. /\ Count(waiting'[s], w) = IF w = v /\ Count(waiting[s], v) > 0
                                    THEN Count(waiting[s], w) - 1 ELSE Count(waiting[s], w)
          /\ Count(svcWorkers'[s], w) = IF w = v /\ Count(svcWorkers[s], v) > 0
                                       THEN Count(svcWorkers[s], w) - 1
                                       ELSE Count(svcWorkers[s], w)
      BY <1>1, <3>1, CountRemove
    <3>3. /\ Count(waiting[s], w) <= Count(svcWorkers[s], w)
          /\ Count(waiting[s], w) \in Nat /\ Count(svcWorkers[s], w) \in Nat
      BY <1>2
    <3>4. CASE w # v BY <3>2, <3>3, <3>4
    <3>5. CASE w = v
      <4>1. /\ Count(waiting'[s], w) = IF Count(waiting[s], w) > 0
                                      THEN Count(waiting[s], w) - 1 ELSE Count(waiting[s], w)
            /\ Count(svcWorkers'[s], w) = IF Count(svcWorkers[s], w) > 0
                                         THEN Count(svcWorkers[s], w) - 1
                                         ELSE Count(svcWorkers[s], w)
        BY <3>2, <3>5
      <4> QED BY <3>3, <4>1
    <3> QED BY <3>4, <3>5
  <2>3. CASE s # t
    <3>1. waiting'[s] = waiting[s] /\ svcWorkers'[s] = svcWorkers[s]
      BY <2>1, <2>3 DEF TypeOK, RegistryType
    <3> QED BY <1>2, <3>1
  <2> QED BY <2>2, <2>3
<1> QED BY <1>3, <1>4

\* The workers that are given requests leave the waiting list from its front.
LEMMA GivingKeepsListed ==
    ASSUME TypeOK, TypeOK', WaitingIsListed,
           ProcessPendingRequests \/ \E r \in Requests : DispatchRequest(r)
    PROVE  WaitingIsListed'
<1> SUFFICES ASSUME NEW s \in Services, NEW w \in Workers
             PROVE  Count(waiting'[s], w) <= Count(svcWorkers'[s], w)
  BY DEF WaitingIsListed
<1>1. waiting[s] \in Seq(Workers) /\ waiting'[s] \in Seq(Workers) /\ Len(waiting[s]) \in Nat
      /\ Len(waiting'[s]) \in Nat
  BY LenProperties DEF TypeOK, RegistryType
<1>2. UNCHANGED svcWorkers
  BY DEF ProcessPendingRequests, DispatchRequest, ClientEvent, registry
<1>3. \/ waiting'[s] = waiting[s]
      \/ \E n \in Nat : /\ Len(waiting'[s]) + n = Len(waiting[s])
                        /\ \A i \in 1 .. Len(waiting'[s]) : waiting'[s][i] = waiting[s][i + n]
  <2>1. CASE ProcessPendingRequests
    <3> DEFINE t == ServiceOf[wpc.worker]
               n == IF Len(requests[t]) < Len(waiting[t]) THEN Len(requests[t])
                    ELSE Len(waiting[t])
    <3>1. waiting' = [waiting EXCEPT ![t] = SubSeq(waiting[t], n + 1, Len(waiting[t]))]
      BY <2>1 DEF ProcessPendingRequests
    <3>2. CASE s = t
      <4>1. requests[s] \in Seq(Requests) BY DEF TypeOK, RegistryType
      <4>2. n \in Nat /\ n <= Len(waiting[s]) BY <1>1, <3>2, <4>1, LenProperties
      <4>3. waiting'[s] = SubSeq(waiting[s], n + 1, Len(waiting[s]))
        BY <3>1, <3>2 DEF TypeOK, RegistryType
      <4> HIDE DEF n
      <4>4. /\ n + 1 \in Int /\ Len(waiting[s]) \in Int
            /\ \A i \in (n + 1) .. Len(waiting[s]) : i \in 1 .. Len(waiting[s])
        BY <1>1, <4>2
      <4>5. Len(waiting'[s]) = Len(waiting[s]) - n
        BY <1>1, <4>2, <4>3, <4>4, SubSeqProperties
      <4>6. \A i \in 1 .. Len(waiting'[s]) : waiting'[s][i] = waiting[s][i + n]
        <5>1. Len(waiting[s]) - (n + 1) + 1 = Len(waiting'[s])
          BY <1>1, <4>2, <4>5
        <5>2. \A i \in 1 .. Len(waiting'[s]) : waiting'[s][i] = waiting[s][n + 1 + i - 1]
          <6> DEFINE last == Len(waiting[s])
          <6>1. \A i \in (n + 1) .. last : waiting[s][i] \in Workers BY <1>1, <4>2
          <6>2. \A i \in 1 .. last - (n + 1) + 1 :
                  SubSeq(waiting[s], n + 1, last)[i] = waiting[s][n + 1 + i - 1]
            BY <4>4, <6>1, SubSeqProperties
          <6> QED BY <4>3, <5>1, <6>2
        <5> QED BY <1>1, <4>2, <5>2
      <4>7. Len(waiting'[s]) + n = Len(waiting[s]) BY <1>1, <4>2, <4>5
      <4>8. n \in Nat BY <4>2
      <4> QED BY <4>6, <4>7, <4>8, Zenon
    <3>3. CASE s # t BY <3>1, <3>3 DEF TypeOK, RegistryType
    <3> QED BY <3>2, <3>3
  <2>2. ASSUME NEW r \in Requests, DispatchRequest(r), waiting'[s] # waiting[s]
        PROVE  /\ Len(waiting'[s]) + 1 = Len(waiting[s])
               /\ \A i \in 1 .. Len(waiting'[s]) : waiting'[s][i] = waiting[s][i + 1]
    <3>1. /\ waiting[Target[r]] # <<>>
          /\ waiting' = [waiting EXCEPT ![Target[r]] = Tail(waiting[Target[r]])]
      BY <2>2 DEF DispatchRequest
    <3>2. s = Target[r] /\ waiting'[s] = Tail(waiting[s])
      BY <2>2, <3>1 DEF TypeOK, RegistryType
    <3>3. waiting[s] # <<>> BY <3>1, <3>2
    <3>4. /\ Len(Tail(waiting[s])) = Len(waiting[s]) - 1
          /\ \A i \in 1 .. Len(Tail(waiting[s])) : Tail(waiting[s])[i] = waiting[s][i + 1]
      BY <1>1, <3>3, HeadTailProperties
    <3> QED BY <1>1, <3>2, <3>4
  <2>3. 1 \in Nat OBVIOUS
  <2> QED BY <2>1, <2>2, <2>3
<1>4. Count(waiting[s], w) \in Nat BY <1>1, CountType
<1>5. CASE waiting'[s] = waiting[s] BY <1>2, <1>5 DEF WaitingIsListed
<1>6. CASE \E n \in Nat : /\ Len(waiting'[s]) + n = Len(waiting[s])
                         /\ \A i \in 1 .. Len(waiting'[s]) : waiting'[s][i] = waiting[s][i + n]
  <2>1. Count(waiting'[s], w) <= Count(waiting[s], w) BY <1>1, <1>6, CountShift
  <2> QED BY <1>2, <2>1, ListedGoesOn DEF WaitingIsListed
<1> QED BY <1>3, <1>5, <1>6

\* A worker never waits more often than its service lists it, however often it
\* says READY, disconnects and expires, so no request goes to a worker the
\* service has forgotten (broker.go: handleWorkerReady, removeWorker).
THEOREM WaitingStaysListed == Spec => []WaitingIsListed
<1>1. Init => WaitingIsListed
  <2> SUFFICES ASSUME Init, NEW s \in Services, NEW w \in Workers
               PROVE  Count(waiting[s], w) <= Count(svcWorkers[s], w)
    BY DEF WaitingIsListed
  <2>1. waiting[s] = <<>> /\ svcWorkers[s] = <<>> BY DEF Init
  <2>2. <<>> \in Seq(Workers) OBVIOUS
  <2>3. Count(<<>>, w) \in Nat BY <2>2, CountType
  <2> QED BY <2>1, <2>3
<1>2. ASSUME TypeOK, TypeOK', WaitingIsListed, [Next]_vars
      PROVE  WaitingIsListed'
  <2>1. CASE UNCHANGED <<waiting, svcWorkers>> BY <1>2, <2>1 DEF WaitingIsListed
  <2>2. CASE \E w \in Workers : HandleWorkerReady(w) \/ RemoveWorker(w)
    BY <1>2, <2>2, ReadyKeepsListed, RemovalKeepsListed
  <2>3. CASE ProcessPendingRequests \/ \E r \in Requests : DispatchRequest(r)
    BY <1>2, <2>3, GivingKeepsListed
  <2>4. ASSUME NEW r \in Requests, QueueRequest(r) PROVE UNCHANGED <<waiting, svcWorkers>>
    BY <2>4 DEF QueueRequest, ClientEvent, registry
  <2>5. UNCHANGED <<waiting, svcWorkers>> \/ (\E w \in Workers : HandleWorkerReady(w) \/ RemoveWorker(w))
        \/ ProcessPendingRequests \/ \E r \in Requests : DispatchRequest(r)
    BY <1>2, <2>4, RegistrySteps, QueueSteps DEF queues
  <2> QED BY <2>1, <2>2, <2>3, <2>5
<1> QED BY <1>1, <1>2, TypeCorrect, PTL DEF Spec
=============================================================================
