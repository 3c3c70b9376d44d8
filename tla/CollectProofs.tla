---------------------------- MODULE CollectProofs ----------------------------
(***************************************************************************)
(* Theorems about Collect, for any places and hosts.                       *)
(*                                                                         *)
(* A place may be read twice in one walk, but only after it has gone and   *)
(* come back with its counters at zero.  So what a second reading can add  *)
(* to a report has been counted since, and what the first one added is of  *)
(* operations before: Fits says so for what the next Deliver will publish, *)
(* and for the report after it.                                            *)
(***************************************************************************)
EXTENDS Collect, Sums, SequenceTheorems

-----------------------------------------------------------------------------
(***************************************************************************)
(* What a report adds to an export's rates.                                *)
(***************************************************************************)
\* How far count x is above count o.
Above(x, o) == IF x > o THEN x - o ELSE 0

\* The sum Delta takes of a report's entries, over the last count before it.
Added(entries, o) == SumFunction([i \in DOMAIN entries |-> Max({0, entries[i] - o})])

LEMMA MaxIsAbove == ASSUME NEW x \in Int, NEW o \in Int PROVE Max({0, x - o}) = Above(x, o)
<1> DEFINE m == Above(x, o)
<1>1. m \in {0, x - o} /\ m \in Int /\ \A y \in {0, x - o} : m >= y
  BY DEF Above
<1>2. \A k \in {0, x - o} : (\A y \in {0, x - o} : k >= y) => k = m
  BY DEF Above
<1> QED
  BY <1>1, <1>2 DEF Max

LEMMA AddedIs ==
  ASSUME NEW entries \in Seq(Nat), NEW o \in Nat
  PROVE  Added(entries, o)
           = SumFunctionOnSet([i \in 1 .. Len(entries) |-> Above(entries[i], o)], 1 .. Len(entries))
<1> DEFINE f == [i \in DOMAIN entries |-> Max({0, entries[i] - o})]
           g == [i \in 1 .. Len(entries) |-> Above(entries[i], o)]
<1>1. f = g
  <2>1. \A i \in 1 .. Len(entries) : entries[i] \in Int
    BY ElementOfSeq
  <2>2. \A i \in 1 .. Len(entries) : Max({0, entries[i] - o}) = Above(entries[i], o)
    BY <2>1, MaxIsAbove
  <2> QED
    BY <2>2, LenProperties
<1>2. DOMAIN g = 1 .. Len(entries)
  OBVIOUS
<1>3. Added(entries, o) = SumFunctionOnSet(f, DOMAIN f)
  BY DEF Added, SumFunction
<1> QED
  BY <1>1, <1>2, <1>3

LEMMA AddedNat ==
  ASSUME NEW entries \in Seq(Nat), NEW o \in Nat PROVE Added(entries, o) \in Nat
<1> DEFINE g == [i \in 1 .. Len(entries) |-> Above(entries[i], o)]
<1>1. \A i \in 1 .. Len(entries) : g[i] \in Nat
  <2>1. \A i \in 1 .. Len(entries) : entries[i] \in Nat
    BY ElementOfSeq
  <2> QED
    BY <2>1 DEF Above
<1>2. IsFiniteSet(1 .. Len(entries))
  BY FS_Interval, LenProperties
<1>3. SumFunctionOnSet(g, 1 .. Len(entries)) \in Nat
  <2> HIDE DEF g
  <2> QED
    BY <1>1, <1>2, SumType
<1> QED
  BY <1>3, AddedIs

LEMMA AddedNothing == ASSUME NEW o \in Nat PROVE Added(<<>>, o) = 0
<1> DEFINE g == [i \in 1 .. Len(<<>>) |-> Above(<<>>[i], o)]
<1>1. <<>> \in Seq(Nat) /\ 1 .. Len(<<>>) = {}
  BY EmptySeq
<1>2. SumFunctionOnSet(g, {}) = 0
  BY SumStep, FS_EmptySet
<1>3. Added(<<>>, o) = SumFunctionOnSet(g, 1 .. Len(<<>>))
  BY <1>1, AddedIs
<1> QED
  BY <1>1, <1>2, <1>3

LEMMA AddedOne ==
  ASSUME NEW entries \in Seq(Nat), NEW o \in Nat, NEW x \in Nat
  PROVE  Added(Append(entries, x), o) = Added(entries, o) + Above(x, o)
<1> DEFINE n == Len(entries)
           more == Append(entries, x)
           g == [i \in 1 .. n |-> Above(entries[i], o)]
           h == [i \in 1 .. n + 1 |-> Above(more[i], o)]
<1>1. n \in Nat /\ more \in Seq(Nat) /\ Len(more) = n + 1
  BY LenProperties
<1>2. more[n + 1] = x /\ \A i \in 1 .. n : more[i] = entries[i]
  BY LenProperties
<1>3. Added(more, o) = SumFunctionOnSet(h, 1 .. n + 1) /\ Added(entries, o) = SumFunctionOnSet(g, 1 .. n)
  BY <1>1, AddedIs
<1>4. IsFiniteSet(1 .. n + 1) /\ IsFiniteSet(1 .. n) /\ (1 .. n + 1) \ {n + 1} = 1 .. n
  <2> HIDE DEF n
  <2>1. IsFiniteSet(1 .. n + 1) /\ IsFiniteSet(1 .. n)
    BY <1>1, FS_Interval
  <2> QED
    BY <1>1, <2>1
<1>5. \A i \in 1 .. n + 1 : h[i] \in Int
  <2>1. \A i \in 1 .. n + 1 : more[i] \in Nat
    BY <1>1, ElementOfSeq
  <2> QED
    BY <2>1 DEF Above
<1>6. \A i \in 1 .. n : h[i] = g[i]
  BY <1>1, <1>2
<1>7. h[n + 1] = Above(x, o) /\ n + 1 \in 1 .. n + 1
  BY <1>1, <1>2
<1> HIDE DEF h, g, n
<1>8. SumFunctionOnSet(h, 1 .. n + 1) = h[n + 1] + SumFunctionOnSet(h, 1 .. n)
  <2>1. \A k \in 1 .. n + 1 :
          SumFunctionOnSet(h, 1 .. n + 1) = h[k] + SumFunctionOnSet(h, (1 .. n + 1) \ {k})
    BY <1>4, <1>5, SumWithout
  <2> QED
    BY <1>4, <1>7, <2>1
<1>9. SumFunctionOnSet(h, 1 .. n) = SumFunctionOnSet(g, 1 .. n)
  BY <1>4, <1>6, SumSame
<1>10. Added(entries, o) \in Nat
  BY AddedNat
<1>11. Above(x, o) \in Int
  BY DEF Above
<1> QED
  BY <1>3, <1>7, <1>8, <1>9, <1>10, <1>11

-----------------------------------------------------------------------------
(***************************************************************************)
(* The types the arguments need, and what the steps have in common.        *)
(***************************************************************************)
Typed ==
  /\ devices \in Seq(DeviceTypes) /\ IsInjective(devices) /\ born \in Seq(DeviceTypes)
  /\ present \subseteq Places /\ todo \subseteq Places
  /\ cnt \in [Places -> Nat] /\ done \in [Places -> Nat] /\ acc \in [Places -> Nat]
  /\ data \in [Places -> Seq(Nat)]
  /\ host.omap \in [Places -> Seq(Nat)]
  /\ DOMAIN standing \subseteq present
  /\ \A p \in DOMAIN standing : standing[p] \in Nat

\* Places that go, under whatever device.
Gone(gone) == Vanish(gone) /\ UNCHANGED <<done, born, phase, todo, data, host, acc>>

\* Whether what is read of a place makes an entry.
Readable(p) == p \in Exports => cnt[p] > 0

\* All that a step does but to the list of devices and the number of mishaps.
Steps ==
  \/ \E new \in SUBSET (Places \ present) : Add(new)
  \/ \E gone \in SUBSET Places : Gone(gone)
  \/ \E p \in Places : Operation(p) \/ Read(p, Readable(p))
  \/ Restart \/ BeginWalk \/ NextDirectory \/ Deliver \/ Lose

LEMMA NextIsSteps == ASSUME Typed, Next PROVE Steps
<1>1. ASSUME NEW t \in DeviceTypes, Load(t) PROVE Steps
  <2>1. Others({t}) \ present \in SUBSET (Places \ present)
    BY DEF Others
  <2> QED
    BY <1>1, <2>1 DEF Load, Steps
<1>2. ASSUME NEW t \in DeviceTypes, Unload(t) PROVE Steps
  <2> DEFINE gone == {p \in present : Under(StatsType[p]) \cap (Loaded \ {t}) = {}}
  <2>1. gone \in SUBSET Places
    BY DEF Typed
  <2>2. Gone(gone)
    BY <1>2 DEF Unload, Gone
  <2> HIDE DEF gone
  <2> QED
    BY <2>1, <2>2 DEF Steps
<1>3. ASSUME NEW p \in Places, Connect(p) PROVE Steps
  <2>1. {p} \in SUBSET (Places \ present)
    BY <1>3 DEF Connect, Exports
  <2> QED
    BY <1>3, <2>1 DEF Connect, Steps
<1>4. ASSUME NEW p \in Places, Evict(p) PROVE Steps
  <2>1. Gone({p}) /\ {p} \in SUBSET Places
    BY <1>4 DEF Evict, Gone
  <2> QED
    BY <2>1 DEF Steps
<1>5. ASSUME NEW p \in Places, ReadPlace(p) PROVE Read(p, Readable(p))
  <2>1. p \in Exports <=> StatsType[p] \in ServerTypes
    BY DEF Exports
  <2>2. (cnt[p] > 0) \in BOOLEAN
    BY DEF Typed
  <2>3. CASE ReadExport(p)
    <3>1. Readable(p) = (cnt[p] > 0)
      BY <2>1, <2>2, <2>3 DEF ReadExport, Readable
    <3> QED
      BY <2>3, <3>1 DEF ReadExport
  <2>4. CASE ~ ReadExport(p)
    <3>1. StatsType[p] \in {"target", "llite", "osc"} /\ Read(p, TRUE)
      BY <1>5, <2>4 DEF ReadPlace, ReadTarget, ReadLlite, ReadOsc
    <3>2. Readable(p) = TRUE
      BY <2>1, <3>1 DEF ServerTypes, Readable
    <3> QED
      BY <3>1, <3>2
  <2> QED
    BY <2>3, <2>4
<1> QED
  BY <1>1, <1>2, <1>3, <1>4, <1>5 DEF Next, Daemon, Steps

\* An export is the only one of its key, so calc_rates takes its own last count.
Gain(p) == IF host.omap[p] = <<>> THEN 0 ELSE Added(data[p], Last(host.omap[p]))

LEMMA LastIsNat == ASSUME NEW s \in Seq(Nat), s # <<>> PROVE Last(s) \in Nat
<1>1. Len(s) \in 1 .. Len(s)
  BY EmptySeq
<1> QED
  BY <1>1, ElementOfSeq DEF Last

LEMMA GainIsNat == ASSUME Typed, NEW p \in Places PROVE Gain(p) \in Nat
<1>1. data[p] \in Seq(Nat) /\ host.omap[p] \in Seq(Nat)
  BY DEF Typed
<1> QED
  BY <1>1, LastIsNat, AddedNat DEF Gain

LEMMA DeltaIsGain == ASSUME Typed, NEW p \in Exports PROVE Delta(p) = Gain(p)
<1> DEFINE before == {q \in Exports : Key(q) = Key(p) /\ host.omap[q] # <<>>}
<1>1. \A q \in Exports : Key(q) = Key(p) => q = p
  <2>1. p \in Places /\ Nid[p] # NoNid
    BY PlacesAssumption DEF Exports, ServerTypes, OtherTypes
  <2> QED
    BY <2>1, ExportsAssumption DEF Exports, Key
<1>2. CASE host.omap[p] = <<>>
  <2>1. before = {}
    BY <1>1, <1>2
  <2> QED
    BY <1>2, <2>1 DEF Delta, Gain
<1>3. CASE host.omap[p] # <<>>
  <2>1. before = {p}
    BY <1>1, <1>3
  <2>2. (CHOOSE q \in before : TRUE) = p
    BY <2>1
  <2>3. Delta(p) = SumFunction([i \in DOMAIN data[p] |-> Max({0, data[p][i] - Last(host.omap[p])})])
    BY <2>1, <2>2 DEF Delta
  <2> QED
    BY <1>3, <2>3 DEF Gain, Added
<1> QED
  BY <1>2, <1>3

LEMMA RemoveAtLemma ==
  ASSUME NEW S, NEW s \in Seq(S), NEW i \in 1 .. Len(s)
  PROVE  /\ RemoveAt(s, i) \in Seq(S) /\ Len(RemoveAt(s, i)) = Len(s) - 1
         /\ \A k \in 1 .. Len(s) - 1 : RemoveAt(s, i)[k] = IF k < i THEN s[k] ELSE s[k + 1]
<1> DEFINE l == SubSeq(s, 1, i - 1)
           r == SubSeq(s, i + 1, Len(s))
<1>1. Len(s) \in Nat /\ \A k \in 1 .. Len(s) : s[k] \in S
  BY LenProperties, ElementOfSeq
<1>2. l \in Seq(S) /\ Len(l) = i - 1 /\ \A k \in 1 .. i - 1 : l[k] = s[k]
  <2>1. \A k \in 1 .. i - 1 : s[k] \in S
    BY <1>1
  <2>2. /\ l \in Seq(S) /\ Len(l) = IF 1 <= i - 1 THEN (i - 1) - 1 + 1 ELSE 0
        /\ \A k \in 1 .. (i - 1) - 1 + 1 : l[k] = s[1 + k - 1]
    BY <1>1, <2>1, SubSeqProperties
  <2> QED
    BY <1>1, <2>2
<1>3. r \in Seq(S) /\ Len(r) = Len(s) - i /\ \A k \in 1 .. Len(s) - i : r[k] = s[i + k]
  <2>1. \A k \in i + 1 .. Len(s) : s[k] \in S
    BY <1>1
  <2>2. /\ r \in Seq(S) /\ Len(r) = IF i + 1 <= Len(s) THEN Len(s) - (i + 1) + 1 ELSE 0
        /\ \A k \in 1 .. Len(s) - (i + 1) + 1 : r[k] = s[(i + 1) + k - 1]
    BY <1>1, <2>1, SubSeqProperties
  <2> QED
    BY <1>1, <2>2
<1>4. RemoveAt(s, i) = l \o r
  BY DEF RemoveAt
<1> HIDE DEF l, r
<1>5. /\ l \o r \in Seq(S) /\ Len(l \o r) = Len(l) + Len(r)
      /\ \A k \in 1 .. Len(l) + Len(r) : (l \o r)[k] = IF k <= Len(l) THEN l[k] ELSE r[k - Len(l)]
  BY <1>2, <1>3, ConcatProperties
<1>6. ASSUME NEW k \in 1 .. Len(s) - 1 PROVE (l \o r)[k] = IF k < i THEN s[k] ELSE s[k + 1]
  <2>1. CASE k < i
    BY <1>1, <1>2, <1>3, <1>5, <2>1
  <2>2. CASE ~ (k < i)
    <3>1. (l \o r)[k] = r[k - (i - 1)] /\ k - (i - 1) \in 1 .. Len(s) - i
      BY <1>1, <1>2, <1>3, <1>5, <2>2
    <3>2. i + (k - (i - 1)) = k + 1
      BY <1>1
    <3> QED
      BY <1>3, <2>2, <3>1, <3>2
  <2> QED
    BY <2>1, <2>2
<1> QED
  BY <1>1, <1>2, <1>3, <1>4, <1>5, <1>6

LEMMA DevicesStep ==
  ASSUME Typed, [Next]_vars
  PROVE  devices' \in Seq(DeviceTypes) /\ IsInjective(devices') /\ born' \in Seq(DeviceTypes)
<1>0. devices \in Seq(DeviceTypes) /\ IsInjective(devices) /\ born \in Seq(DeviceTypes)
      /\ Len(devices) \in Nat /\ DOMAIN devices = 1 .. Len(devices)
  BY LenProperties DEF Typed
<1>1. ASSUME NEW t \in DeviceTypes, Load(t)
      PROVE  devices' \in Seq(DeviceTypes) /\ IsInjective(devices') /\ born' = born
  <2>1. devices' = Append(devices, t) /\ born' = born /\ \A i \in 1 .. Len(devices) : devices[i] # t
    BY <1>0, <1>1 DEF Load, Loaded, Add
  <2>2. /\ Append(devices, t) \in Seq(DeviceTypes)
        /\ DOMAIN Append(devices, t) = 1 .. Len(devices) + 1
        /\ \A i \in 1 .. Len(devices) + 1 :
             Append(devices, t)[i] = IF i = Len(devices) + 1 THEN t ELSE devices[i]
    BY <1>0, LenProperties
  <2>3. \A i \in 1 .. Len(devices) + 1 : i # Len(devices) + 1 => i \in 1 .. Len(devices)
    BY <1>0
  <2>4. IsInjective(devices')
    BY <1>0, <2>1, <2>2, <2>3 DEF IsInjective
  <2> QED
    BY <2>1, <2>2, <2>4
<1>2. ASSUME NEW t \in DeviceTypes, Unload(t)
      PROVE  devices' \in Seq(DeviceTypes) /\ IsInjective(devices') /\ born' = born
  <2>1. PICK i \in 1 .. Len(devices) : devices' = RemoveAt(devices, i)
    BY <1>0, <1>2 DEF Unload
  <2>2. /\ devices' \in Seq(DeviceTypes) /\ Len(devices') = Len(devices) - 1
        /\ \A k \in 1 .. Len(devices) - 1 : devices'[k] = IF k < i THEN devices[k] ELSE devices[k + 1]
    BY <1>0, <2>1, RemoveAtLemma
  <2>3. DOMAIN devices' = 1 .. Len(devices) - 1
    BY <2>2, LenProperties
  <2>4. ASSUME NEW j \in 1 .. Len(devices) - 1, NEW k \in 1 .. Len(devices) - 1,
               devices'[j] = devices'[k]
        PROVE  j = k
    <3> DEFINE was(x) == IF x < i THEN x ELSE x + 1
    <3>1. was(j) \in 1 .. Len(devices) /\ was(k) \in 1 .. Len(devices)
      BY <1>0
    <3>2. devices[was(j)] = devices[was(k)]
      BY <2>2, <2>4
    <3>3. was(j) = was(k)
      BY <1>0, <3>1, <3>2 DEF IsInjective
    <3> QED
      BY <1>0, <3>3
  <2>5. IsInjective(devices')
    BY <2>3, <2>4 DEF IsInjective
  <2> QED
    BY <1>2, <2>2, <2>5 DEF Unload
<1>3. ASSUME NEW p \in Places, Connect(p) \/ Evict(p) \/ Operation(p) \/ ReadPlace(p)
      PROVE  devices' = devices /\ born' = born
  BY <1>3 DEF Connect, Add, Evict, Operation, ReadPlace, ReadExport, ReadTarget, ReadLlite, ReadOsc,
              Read, lustre
<1>4. ASSUME Restart \/ BeginWalk \/ NextDirectory \/ Deliver \/ Lose
      PROVE  devices' = devices /\ (born' = born \/ born' = devices)
  BY <1>4 DEF Restart, BeginWalk, NextDirectory, Deliver, Lose, EndWalk, lustre
<1>5. CASE UNCHANGED vars
  BY <1>0, <1>5 DEF vars, lustre
<1> QED
  BY <1>0, <1>1, <1>2, <1>3, <1>4, <1>5 DEF Next, Daemon

LEMMA EmptyFunction == DOMAIN <<>> = {}
  OBVIOUS

LEMMA NothingIs == Nothing \in [Places -> Seq(Nat)] /\ \A p \in Places : Nothing[p] = <<>>
  BY EmptySeq DEF Nothing

LEMMA InitTyped == Init => Typed
<1> SUFFICES ASSUME Init PROVE Typed
  OBVIOUS
<1>1. PICK kinds \in Hosts : devices \in SetToAllKPermutations(kinds)
  BY DEF Init
<1>2. PICK s \in SUBSET kinds : devices \in SetToSeqs(s)
  BY <1>1 DEF SetToAllKPermutations
<1>3. s \subseteq DeviceTypes /\ Cardinality(s) \in Nat
  <2>1. s \subseteq DeviceTypes /\ s \subseteq {"mdt", "obdfilter", "osc"}
    BY HostsAssumption DEF DeviceTypes
  <2>2. IsFiniteSet({"mdt", "obdfilter", "osc"})
    <3>1. IsFiniteSet({"mdt"})
      BY FS_Singleton
    <3>2. IsFiniteSet({"mdt"} \cup {"obdfilter"})
      BY <3>1, FS_AddElement
    <3>3. IsFiniteSet(({"mdt"} \cup {"obdfilter"}) \cup {"osc"})
      BY <3>2, FS_AddElement
    <3>4. {"mdt", "obdfilter", "osc"} = ({"mdt"} \cup {"obdfilter"}) \cup {"osc"}
      OBVIOUS
    <3> QED
      BY <3>3, <3>4
  <2>3. IsFiniteSet(s)
    BY <2>1, <2>2, FS_Subset
  <2> QED
    BY <2>1, <2>3, FS_CardinalityType
<1>4. devices \in [1 .. Cardinality(s) -> s] /\ IsInjective(devices)
  BY <1>2 DEF SetToSeqs, IsInjective
<1>5. devices \in Seq(DeviceTypes)
  <2>1. devices \in [1 .. Cardinality(s) -> DeviceTypes]
    BY <1>3, <1>4
  <2> QED
    BY <1>3, <2>1
<1>6. present \subseteq Places /\ todo \subseteq Places /\ born = devices
  BY DEF Init, Others
<1>7. /\ cnt \in [Places -> Nat] /\ done \in [Places -> Nat] /\ acc \in [Places -> Nat]
      /\ data \in [Places -> Seq(Nat)] /\ host.omap \in [Places -> Seq(Nat)]
      /\ DOMAIN standing = {}
  BY NothingIs, EmptyFunction DEF Init
<1> QED
  BY <1>4, <1>5, <1>6, <1>7 DEF Typed

\* All of Typed but the list of devices.
TypedRest ==
  /\ present \subseteq Places /\ todo \subseteq Places
  /\ cnt \in [Places -> Nat] /\ done \in [Places -> Nat] /\ acc \in [Places -> Nat]
  /\ data \in [Places -> Seq(Nat)]
  /\ host.omap \in [Places -> Seq(Nat)]
  /\ DOMAIN standing \subseteq present
  /\ \A p \in DOMAIN standing : standing[p] \in Nat

LEMMA TypedStep == ASSUME Typed, [Next]_vars PROVE Typed'
<1>0. TypedRest
  BY DEF Typed, TypedRest
<1>1. ASSUME NEW new \in SUBSET (Places \ present), Add(new) PROVE TypedRest'
  <2>1. present' = present \cup new /\ todo' \subseteq todo \cup new
    BY <1>1 DEF Add
  <2>2. UNCHANGED <<cnt, done, acc, data, host, standing>>
    BY <1>1 DEF Add
  <2> QED
    BY <1>0, <2>1, <2>2 DEF TypedRest
<1>2. ASSUME NEW gone \in SUBSET Places, Gone(gone) PROVE TypedRest'
  <2>1. /\ present' = present \ gone /\ cnt' = [p \in Places |-> IF p \in gone THEN 0 ELSE cnt[p]]
        /\ standing' = [p \in DOMAIN standing \ gone |-> standing[p]]
        /\ UNCHANGED <<done, todo, data, host, acc>>
    BY <1>2 DEF Gone, Vanish
  <2>2. cnt' \in [Places -> Nat]
    BY <1>0, <2>1 DEF TypedRest
  <2>3. DOMAIN standing' \subseteq present' /\ \A p \in DOMAIN standing' : standing'[p] \in Nat
    BY <1>0, <2>1 DEF TypedRest
  <2> QED
    BY <1>0, <2>1, <2>2, <2>3 DEF TypedRest
<1>3. ASSUME NEW p \in Places, Operation(p) PROVE TypedRest'
  BY <1>0, <1>3 DEF Operation, walk, TypedRest
<1>4. ASSUME NEW p \in Places, Read(p, Readable(p)) PROVE TypedRest'
  <2>1. todo' \subseteq todo /\ UNCHANGED <<present, cnt, done, acc, host, standing>>
    BY <1>4 DEF Read, lustre
  <2>2. Append(data[p], cnt[p]) \in Seq(Nat) /\ data[p] \in Seq(Nat)
    BY <1>0 DEF TypedRest
  <2>3. data' = [data EXCEPT ![p] = IF p \in present /\ Readable(p) THEN Append(data[p], cnt[p]) ELSE data[p]]
    BY <1>4 DEF Read
  <2>4. data' \in [Places -> Seq(Nat)]
    BY <1>0, <2>2, <2>3 DEF TypedRest
  <2> QED
    BY <1>0, <2>1, <2>4 DEF TypedRest
<1>5. ASSUME Restart PROVE TypedRest'
  <2>1. /\ UNCHANGED <<present, cnt, done, acc, host>> /\ todo' = {} /\ data' = Nothing
        /\ DOMAIN standing' = {}
    BY <1>5, EmptyFunction DEF Restart, lustre
  <2> QED
    BY <1>0, <2>1, NothingIs DEF TypedRest
<1>6. ASSUME BeginWalk PROVE TypedRest'
  <2>1. UNCHANGED <<present, cnt, done, acc, host>> /\ data' = Nothing /\ todo' \subseteq present
    BY <1>6 DEF BeginWalk, lustre, Listing
  <2>2. DOMAIN standing' \subseteq present /\ \A p \in DOMAIN standing' : standing'[p] = cnt[p]
    BY <1>6 DEF BeginWalk
  <2> QED
    BY <1>0, <2>1, <2>2, NothingIs DEF TypedRest
<1>7. ASSUME NextDirectory PROVE TypedRest'
  <2>1. UNCHANGED <<present, cnt, done, acc, host, data, standing>> /\ todo' \subseteq present
    BY <1>7 DEF NextDirectory, lustre, Listing
  <2> QED
    BY <1>0, <2>1 DEF TypedRest
<1>8. ASSUME Deliver PROVE TypedRest'
  <2>1. /\ UNCHANGED <<present, cnt, done, todo>> /\ data' = Nothing
        /\ DOMAIN standing' = {} /\ host'.omap = data
    BY <1>8, EmptyFunction DEF Deliver, EndWalk, lustre
  <2>2. \A p \in Exports : Delta(p) \in Nat
    BY DeltaIsGain, GainIsNat DEF Exports
  <2>3. \A p \in Places :
          (IF p \in Exports /\ StatsType[p] = ClassStr(born) THEN acc[p] + Delta(p) ELSE acc[p]) \in Nat
    BY <1>0, <2>2 DEF TypedRest
  <2>4. acc' \in [Places -> Nat]
    BY <1>8, <2>3 DEF Deliver
  <2> QED
    BY <1>0, <2>1, <2>4, NothingIs DEF TypedRest
<1>9. ASSUME Lose PROVE TypedRest'
  <2>1. UNCHANGED <<present, cnt, done, todo, host, acc>> /\ data' = Nothing /\ DOMAIN standing' = {}
    BY <1>9, EmptyFunction DEF Lose, EndWalk, lustre
  <2> QED
    BY <1>0, <2>1, NothingIs DEF TypedRest
<1>10. ASSUME UNCHANGED vars PROVE TypedRest'
  BY <1>0, <1>10 DEF vars, lustre, walk, TypedRest
<1>11. TypedRest'
  BY <1>1, <1>2, <1>3, <1>4, <1>5, <1>6, <1>7, <1>8, <1>9, <1>10, NextIsSteps DEF Steps
<1> QED
  BY <1>11, DevicesStep DEF Typed, TypedRest

-----------------------------------------------------------------------------
(***************************************************************************)
(* The walk.                                                               *)
(***************************************************************************)
\* The types that are walked after the one that is walked now.
ToCome == {phase[i] : i \in 2 .. Len(phase)}

Walks ==
  /\ phase \in {<<>>, Phases(Class(born)), Tail(Phases(Class(born)))}
  /\ phase = <<>> => todo = {} /\ data = Nothing /\ DOMAIN standing = {}
  /\ \A p \in todo : StatsType[p] = Head(phase)
  /\ \A p \in Places : StatsType[p] \in ToCome => data[p] = <<>>
  /\ \A p \in Places \ present : cnt[p] = 0

\* collect_devices walks two directories' types, which differ.
LEMMA PhasesAre ==
  ASSUME Typed
  PROVE  \E a, b : Phases(Class(born)) = <<a, b>> /\ a # b
<1>1. Class(born) \in {"mds", "oss", "osc"}
  <2>1. CASE born = <<>>
    BY <2>1 DEF Class
  <2>2. CASE born # <<>>
    <3>1. Head(born) \in DeviceTypes
      BY <2>2 DEF Typed
    <3>2. Head(born) \in {"mdt", "obdfilter", "osc"}
      BY <3>1, HostsAssumption DEF DeviceTypes
    <3> QED
      BY <2>2, <3>2 DEF Class, ClassStr, Known
  <2> QED
    BY <2>1, <2>2
<1> QED
  BY <1>1 DEF Phases

\* What the phase can be, and what each leaves to come.
LEMMA PhaseIs ==
  ASSUME Typed, Walks
  PROVE  \E a, b :
           /\ a # b /\ Phases(Class(born)) = <<a, b>>
           /\ \/ phase = <<>> /\ Len(phase) = 0 /\ ToCome = {}
              \/ phase = <<a, b>> /\ Len(phase) = 2 /\ Head(phase) = a /\ Tail(phase) = <<b>> /\ ToCome = {b}
              \/ phase = <<b>> /\ Len(phase) = 1 /\ Head(phase) = b /\ ToCome = {}
<1>1. PICK a, b : Phases(Class(born)) = <<a, b>> /\ a # b
  BY PhasesAre
<1>2. phase \in {<<>>, <<a, b>>, <<b>>}
  BY <1>1 DEF Walks
<1>3. CASE phase = <<>>
  <2>1. Len(phase) = 0 /\ ToCome = {}
    BY <1>3 DEF ToCome
  <2> QED
    BY <1>1, <1>3, <2>1
<1>4. CASE phase = <<a, b>>
  <2>1. Len(phase) = 2 /\ Head(phase) = a /\ Tail(phase) = <<b>>
    BY <1>4
  <2>2. ToCome = {b}
    <3>1. 2 .. Len(phase) = {2} /\ phase[2] = b
      BY <1>4, <2>1
    <3> QED
      BY <3>1 DEF ToCome
  <2> QED
    BY <1>1, <1>4, <2>1, <2>2
<1>5. CASE phase = <<b>>
  <2>1. Len(phase) = 1 /\ Head(phase) = b
    BY <1>5
  <2>2. ToCome = {}
    BY <2>1 DEF ToCome
  <2> QED
    BY <1>1, <1>5, <2>1, <2>2
<1> QED
  BY <1>2, <1>3, <1>4, <1>5

LEMMA InitWalks == Init => Walks
<1> SUFFICES ASSUME Init PROVE Walks
  OBVIOUS
<1>1. /\ phase = <<>> /\ todo = {} /\ data = Nothing /\ DOMAIN standing = {}
      /\ \A p \in Places : cnt[p] = 0
  BY EmptyFunction DEF Init
<1> QED
  BY <1>1, NothingIs DEF Walks

LEMMA WalksStep == ASSUME Typed, Walks, [Next]_vars PROVE Walks'
<1>0. PICK a, b :
        /\ a # b /\ Phases(Class(born)) = <<a, b>>
        /\ \/ phase = <<>> /\ Len(phase) = 0 /\ ToCome = {}
           \/ phase = <<a, b>> /\ Len(phase) = 2 /\ Head(phase) = a /\ Tail(phase) = <<b>> /\ ToCome = {b}
           \/ phase = <<b>> /\ Len(phase) = 1 /\ Head(phase) = b /\ ToCome = {}
  BY PhaseIs
<1>1. ASSUME NEW new \in SUBSET (Places \ present), Add(new) PROVE Walks'
  <2>1. /\ present' = present \cup new /\ todo' \subseteq todo \cup {p \in new : Walking(p)}
        /\ UNCHANGED <<cnt, born, phase, data, standing>>
    BY <1>1 DEF Add
  <2>2. phase = <<>> => todo' = {}
    BY <2>1 DEF Walks, Walking
  <2>3. \A p \in todo' : StatsType[p] = Head(phase)
    BY <2>1 DEF Walks, Walking
  <2> QED
    BY <2>1, <2>2, <2>3 DEF Walks, ToCome
<1>2. ASSUME NEW gone \in SUBSET Places, Gone(gone) PROVE Walks'
  <2>1. /\ present' = present \ gone /\ cnt' = [p \in Places |-> IF p \in gone THEN 0 ELSE cnt[p]]
        /\ DOMAIN standing' \subseteq DOMAIN standing
        /\ UNCHANGED <<born, phase, todo, data>>
    BY <1>2 DEF Gone, Vanish
  <2> QED
    BY <2>1 DEF Walks, ToCome
<1>3. ASSUME NEW q \in Places, Operation(q) PROVE Walks'
  <2>1. /\ q \in present /\ \A p \in Places \ {q} : cnt'[p] = cnt[p]
        /\ UNCHANGED <<present, born, phase, todo, data, standing>>
    BY <1>3 DEF Operation, walk, Typed
  <2> QED
    BY <2>1 DEF Walks, ToCome
<1>4. ASSUME NEW q \in Places, Read(q, Readable(q)) PROVE Walks'
  <2>1. /\ q \in todo /\ todo' \subseteq todo /\ \A p \in Places \ {q} : data'[p] = data[p]
        /\ UNCHANGED <<present, cnt, born, phase, standing>>
    BY <1>4 DEF Read, lustre, Typed
  <2>2. phase # <<>> /\ StatsType[q] \notin ToCome
    BY <1>0, <2>1 DEF Walks
  <2> QED
    BY <2>1, <2>2 DEF Walks, ToCome
<1>5. ASSUME Restart PROVE Walks'
  <2>1. /\ phase' = <<>> /\ todo' = {} /\ data' = Nothing /\ DOMAIN standing' = {}
        /\ UNCHANGED <<present, cnt>>
    BY <1>5, EmptyFunction DEF Restart, lustre
  <2> QED
    BY <2>1, NothingIs DEF Walks
<1>6. ASSUME BeginWalk PROVE Walks'
  <2>1. /\ phase' = <<a, b>> /\ data' = Nothing /\ todo' = Listing(Head(phase'))
        /\ UNCHANGED <<present, cnt, born>>
    BY <1>0, <1>6 DEF BeginWalk, lustre
  <2>2. phase' = Phases(Class(born')) /\ phase' # <<>>
    BY <1>0, <2>1
  <2>3. \A p \in todo' : StatsType[p] = Head(phase')
    BY <2>1 DEF Listing
  <2> QED
    BY <2>1, <2>2, <2>3, NothingIs DEF Walks
<1>7. ASSUME NextDirectory PROVE Walks'
  <2>1. /\ phase' = <<b>> /\ todo' = Listing(Head(phase'))
        /\ UNCHANGED <<present, cnt, born, data, standing>>
    BY <1>0, <1>7 DEF NextDirectory, lustre
  <2>2. phase' = Tail(Phases(Class(born'))) /\ phase' # <<>>
    <3>1. Phases(Class(born')) = <<a, b>>
      BY <1>0, <2>1
    <3>2. Tail(<<a, b>>) = <<b>> /\ <<b>> # <<>>
      OBVIOUS
    <3> QED
      BY <2>1, <3>1, <3>2
  <2>3. ToCome' = {}
    BY <2>1 DEF ToCome
  <2>4. \A p \in todo' : StatsType[p] = Head(phase')
    BY <2>1 DEF Listing
  <2> QED
    BY <2>1, <2>2, <2>3, <2>4 DEF Walks
<1>8. ASSUME Deliver \/ Lose PROVE Walks'
  <2>1. /\ phase' = <<>> /\ todo' = {} /\ data' = Nothing /\ DOMAIN standing' = {}
        /\ UNCHANGED <<present, cnt>>
    BY <1>8, EmptyFunction DEF Deliver, Lose, EndWalk, WalkEnds, lustre
  <2> QED
    BY <2>1, NothingIs DEF Walks
<1>9. ASSUME UNCHANGED vars PROVE Walks'
  BY <1>9 DEF vars, lustre, walk, Walks, ToCome
<1> QED
  BY <1>1, <1>2, <1>3, <1>4, <1>5, <1>6, <1>7, <1>8, <1>9, NextIsSteps DEF Steps

-----------------------------------------------------------------------------
(***************************************************************************)
(* What was there all along is in the report.                              *)
(***************************************************************************)
ReportedOf(p) ==
  (p \in Exports => standing[p] > 0) => data[p] # <<>> /\ Last(data[p]) >= standing[p]

Stands ==
  \A p \in DOMAIN standing :
    /\ standing[p] <= cnt[p]
    /\ StatsType[p] \in ToCome \/ p \in todo \/ ReportedOf(p)

LEMMA InitStands == Init => Stands
  BY EmptyFunction DEF Init, Stands

LEMMA StandsStep == ASSUME Typed, Walks, Stands, [Next]_vars PROVE Stands'
<1>0. PICK a, b :
        /\ a # b /\ Phases(Class(born)) = <<a, b>>
        /\ \/ phase = <<>> /\ Len(phase) = 0 /\ ToCome = {}
           \/ phase = <<a, b>> /\ Len(phase) = 2 /\ Head(phase) = a /\ Tail(phase) = <<b>> /\ ToCome = {b}
           \/ phase = <<b>> /\ Len(phase) = 1 /\ Head(phase) = b /\ ToCome = {}
  BY PhaseIs
<1>1. ASSUME NEW new \in SUBSET (Places \ present), Add(new) PROVE Stands'
  <2>1. todo \subseteq todo' /\ UNCHANGED <<cnt, phase, data, standing>>
    BY <1>1 DEF Add
  <2> QED
    BY <2>1 DEF Stands, ToCome, ReportedOf
<1>2. ASSUME NEW gone \in SUBSET Places, Gone(gone) PROVE Stands'
  <2>1. /\ \A p \in Places \ gone : cnt'[p] = cnt[p]
        /\ DOMAIN standing' = DOMAIN standing \ gone
        /\ \A p \in DOMAIN standing' : standing'[p] = standing[p]
        /\ UNCHANGED <<phase, todo, data>>
    BY <1>2 DEF Gone, Vanish
  <2> QED
    BY <2>1 DEF Typed, Stands, ToCome, ReportedOf
<1>3. ASSUME NEW q \in Places, Operation(q) PROVE Stands'
  <2>1. \A p \in Places : cnt'[p] >= cnt[p] /\ cnt'[p] \in Nat /\ cnt[p] \in Nat
    BY <1>3 DEF Operation, Typed
  <2>2. UNCHANGED <<phase, todo, data, standing>>
    BY <1>3 DEF Operation, walk
  <2>3. ASSUME NEW p \in DOMAIN standing PROVE standing[p] <= cnt'[p]
    <3>1. standing[p] <= cnt[p] /\ standing[p] \in Nat /\ p \in Places
      BY DEF Stands, Typed
    <3> QED
      BY <2>1, <3>1
  <2> QED
    BY <2>2, <2>3 DEF Stands, ToCome, ReportedOf
<1>4. ASSUME NEW q \in Places, Read(q, Readable(q)) PROVE Stands'
  <2>1. todo' = todo \ {q} /\ UNCHANGED <<present, cnt, phase, standing>>
    BY <1>4 DEF Read, lustre
  <2>2. \A p \in Places \ {q} : data'[p] = data[p]
    BY <1>4 DEF Read, Typed
  <2>3. ASSUME q \in DOMAIN standing PROVE ReportedOf(q)'
    <3>1. q \in present /\ standing[q] \in Nat /\ cnt[q] \in Nat /\ standing[q] <= cnt[q]
      BY <2>3 DEF Typed, Stands
    <3>2. CASE Readable(q)
      <4>1. data[q] \in Seq(Nat) /\ data'[q] = Append(data[q], cnt[q])
        BY <1>4, <3>1, <3>2 DEF Read, Typed
      <4>2. Append(data[q], cnt[q]) \in Seq(Nat) /\ Append(data[q], cnt[q]) # <<>>
            /\ Last(Append(data[q], cnt[q])) = cnt[q]
        BY <3>1, <4>1 DEF Last
      <4> QED
        BY <2>1, <3>1, <4>1, <4>2 DEF ReportedOf
    <3>3. CASE ~ Readable(q)
      BY <2>1, <3>1, <3>3 DEF Readable, ReportedOf
    <3> QED
      BY <3>2, <3>3
  <2>4. ASSUME NEW p \in DOMAIN standing, p # q
        PROVE  (StatsType[p] \in ToCome \/ p \in todo \/ ReportedOf(p))'
    <3>1. p \in Places /\ data'[p] = data[p]
      BY <2>2, <2>4 DEF Typed
    <3>2. StatsType[p] \in ToCome \/ p \in todo \/ ReportedOf(p)
      BY DEF Stands
    <3> QED
      BY <2>1, <2>4, <3>1, <3>2 DEF ToCome, ReportedOf
  <2> QED
    BY <2>1, <2>3, <2>4 DEF Stands
<1>5. ASSUME Restart \/ Deliver \/ Lose PROVE Stands'
  <2>1. DOMAIN standing' = {}
    BY <1>5, EmptyFunction DEF Restart, Deliver, Lose, EndWalk
  <2> QED
    BY <2>1 DEF Stands
<1>6. ASSUME BeginWalk PROVE Stands'
  <2>1. /\ phase' = <<a, b>> /\ todo' = Listing(a) /\ cnt' = cnt /\ present' = present
        /\ DOMAIN standing' = {p \in present : StatsType[p] \in Range(phase')}
        /\ \A p \in DOMAIN standing' : standing'[p] = cnt[p]
    BY <1>0, <1>6 DEF BeginWalk, lustre
  <2>2. Range(phase') = {a, b}
    BY <2>1 DEF Range
  <2>3. ToCome' = {b}
    <3>1. Len(phase') = 2 /\ 2 .. 2 = {2} /\ phase'[2] = b
      BY <2>1
    <3> QED
      BY <3>1 DEF ToCome
  <2>4. \A p \in DOMAIN standing' : cnt[p] \in Nat
    BY <2>1 DEF Typed
  <2> QED
    BY <2>1, <2>2, <2>3, <2>4 DEF Stands, Listing
<1>7. ASSUME NextDirectory PROVE Stands'
  <2>1. /\ todo = {} /\ ToCome = {b} /\ todo' = Listing(b)
        /\ UNCHANGED <<present, cnt, data, standing>>
    BY <1>0, <1>7 DEF NextDirectory, lustre
  <2> QED
    BY <2>1 DEF Stands, Typed, Listing, ReportedOf
<1>8. ASSUME UNCHANGED vars PROVE Stands'
  BY <1>8 DEF vars, lustre, walk, Stands, ToCome, ReportedOf
<1> QED
  BY <1>1, <1>2, <1>3, <1>4, <1>5, <1>6, <1>7, <1>8, NextIsSteps DEF Steps

-----------------------------------------------------------------------------
(***************************************************************************)
(* What the next report publishes, and the one after it, still fits into   *)
(* what has been counted.                                                  *)
(***************************************************************************)
\* What of an export's count is not in data yet: all, if it is read once more.
Unread(p) == IF p \in todo THEN cnt[p] ELSE Above(cnt[p], Last(data[p]))

FitsFor(p) ==
  /\ acc[p] + Gain(p) <= done[p]
  /\ data[p] # <<>> => acc[p] + Gain(p) + Unread(p) <= done[p]
  /\ host.omap[p] # <<>> => acc[p] + Above(cnt[p], Last(host.omap[p])) <= done[p]
Fits == \A p \in Exports : FitsFor(p)

LEMMA AboveIs ==
  ASSUME NEW x \in Nat, NEW o \in Nat
  PROVE  /\ Above(x, o) \in Nat /\ Above(x, o) <= x /\ Above(0, o) = 0
         /\ Above(x, x) = 0 /\ Above(x + 1, o) <= Above(x, o) + 1
  BY DEF Above

\* The numbers that Fits is about.
LEMMA FitsTypes ==
  ASSUME Typed, NEW p \in Exports
  PROVE  /\ p \in Places /\ acc[p] \in Nat /\ done[p] \in Nat /\ cnt[p] \in Nat
         /\ data[p] \in Seq(Nat) /\ host.omap[p] \in Seq(Nat) /\ Gain(p) \in Nat
         /\ data[p] # <<>> => Last(data[p]) \in Nat /\ Unread(p) \in Nat /\ Unread(p) <= cnt[p]
         /\ host.omap[p] # <<>> => Last(host.omap[p]) \in Nat
         /\ data[p] = <<>> => Gain(p) = 0
<1>1. /\ p \in Places /\ acc[p] \in Nat /\ done[p] \in Nat /\ cnt[p] \in Nat
      /\ data[p] \in Seq(Nat) /\ host.omap[p] \in Seq(Nat)
  BY DEF Typed, Exports
<1>2. Gain(p) \in Nat
  BY <1>1, GainIsNat
<1>3. /\ data[p] # <<>> => Last(data[p]) \in Nat
      /\ host.omap[p] # <<>> => Last(host.omap[p]) \in Nat
  BY <1>1, LastIsNat
<1>4. ASSUME data[p] # <<>> PROVE Unread(p) \in Nat /\ Unread(p) <= cnt[p]
  <2>1. Above(cnt[p], Last(data[p])) \in Nat /\ Above(cnt[p], Last(data[p])) <= cnt[p]
    BY <1>1, <1>3, <1>4, AboveIs
  <2>2. cnt[p] <= cnt[p]
    BY <1>1
  <2> QED
    BY <1>1, <2>1, <2>2 DEF Unread
<1>5. data[p] = <<>> => Gain(p) = 0
  BY <1>3, AddedNothing DEF Gain
<1> QED
  BY <1>1, <1>2, <1>3, <1>4, <1>5

LEMMA InitFits == Init => Fits
<1> SUFFICES ASSUME Init, NEW p \in Exports
             PROVE  /\ acc[p] + Gain(p) <= done[p]
                    /\ data[p] = <<>> /\ host.omap[p] = <<>>
  BY DEF Fits, FitsFor
<1>1. p \in Places
  BY DEF Exports
<1>2. acc[p] = 0 /\ done[p] = 0 /\ data[p] = <<>> /\ host.omap[p] = <<>>
  BY <1>1, NothingIs DEF Init
<1> QED
  BY <1>2 DEF Gain

\* How far a count can come to be above another: by what has been counted since, or
\* not at all when the count has started again.
LEMMA AboveGrows ==
  ASSUME NEW c \in Nat, NEW c2 \in Nat, NEW d \in Nat, NEW d2 \in Nat, NEW o \in Nat,
         \/ c2 = c /\ d2 = d
         \/ c2 = 0 /\ d2 = d
         \/ c2 = c + 1 /\ d2 = d + 1
  PROVE  Above(c2, o) \in Nat /\ Above(c2, o) <= Above(c, o) + (d2 - d)
  BY DEF Above

LEMMA UnreadGrows ==
  ASSUME NEW c \in Nat, NEW c2 \in Nat, NEW d \in Nat, NEW d2 \in Nat, NEW o \in Nat,
         NEW b \in BOOLEAN, NEW b2 \in BOOLEAN,
         \/ c2 = c /\ d2 = d /\ (b2 => b)
         \/ c2 = 0 /\ d2 = d
         \/ c2 = c + 1 /\ d2 = d + 1 /\ (b2 => b)
  PROVE  /\ (IF b2 THEN c2 ELSE Above(c2, o)) \in Nat
         /\ (IF b2 THEN c2 ELSE Above(c2, o)) <= (IF b THEN c ELSE Above(c, o)) + (d2 - d)
<1>1. Above(c2, o) \in Nat /\ Above(c2, o) <= Above(c, o) + (d2 - d)
  BY AboveGrows
<1>2. Above(c, o) \in Nat /\ Above(c, o) <= c /\ Above(c2, o) <= c2
  BY DEF Above
<1> DEFINE x == Above(c, o)
           y == Above(c2, o)
<1> HIDE DEF x, y
<1> QED
  BY <1>1, <1>2 DEF x, y

LEMMA BothGrow ==
  ASSUME NEW a \in Nat, NEW g \in Nat, NEW u \in Nat, NEW v \in Nat, NEW d \in Nat, NEW d2 \in Nat,
         a + g + u <= d, v <= u + (d2 - d)
  PROVE  a + g + v <= d2
  OBVIOUS

\* A step that publishes nothing and reads nothing, and after which no export has
\* more to read than it had, and has counted.
LEMMA FitsKept ==
  ASSUME Typed, Typed', Fits, UNCHANGED <<acc, host>>,
         NEW p \in Exports, UNCHANGED data[p],
         \/ cnt'[p] = cnt[p] /\ done'[p] = done[p] /\ (p \in todo' => p \in todo)
         \/ cnt'[p] = 0 /\ done'[p] = done[p]
         \/ cnt'[p] = cnt[p] + 1 /\ done'[p] = done[p] + 1 /\ (p \in todo' => p \in todo)
  PROVE  FitsFor(p)'
<1> DEFINE g == Gain(p)
           u == Unread(p)
           v == Unread(p)'
           l == Last(host.omap[p])
<1>1. /\ acc[p] \in Nat /\ done[p] \in Nat /\ cnt[p] \in Nat /\ g \in Nat
      /\ data[p] # <<>> => Last(data[p]) \in Nat /\ u \in Nat /\ u <= cnt[p]
      /\ host.omap[p] # <<>> => l \in Nat
  BY FitsTypes
<1>2. Gain(p)' = g
  BY DEF Gain
<1>3. /\ acc[p] + g <= done[p]
      /\ data[p] # <<>> => acc[p] + g + u <= done[p]
      /\ host.omap[p] # <<>> => acc[p] + Above(cnt[p], l) <= done[p]
  BY DEF Fits, FitsFor
<1>4. cnt'[p] \in Nat /\ done'[p] \in Nat /\ done'[p] >= done[p]
  BY <1>1
<1>5. ASSUME data[p] # <<>> PROVE v \in Nat /\ v <= u + (done'[p] - done[p])
  <2>1. Last(data[p]) \in Nat
    BY <1>1, <1>5
  <2>2. v = IF p \in todo' THEN cnt'[p] ELSE Above(cnt'[p], Last(data[p]))
    BY DEF Unread
  <2> QED
    BY <1>1, <1>4, <2>1, <2>2, UnreadGrows DEF Unread
<1>6. ASSUME host.omap[p] # <<>>
      PROVE  Above(cnt'[p], l) \in Nat /\ Above(cnt'[p], l) <= Above(cnt[p], l) + (done'[p] - done[p])
  <2>1. l \in Nat
    BY <1>1, <1>6
  <2> HIDE DEF l
  <2> QED
    BY <1>1, <1>4, <2>1, AboveGrows
<1>7. Above(cnt[p], l) \in Nat \/ host.omap[p] = <<>>
  BY <1>1, AboveIs
<1>8. acc'[p] + g <= done'[p]
  BY <1>1, <1>3, <1>4
<1>9. ASSUME data[p] # <<>> PROVE acc[p] + g + v <= done'[p]
  <2>1. u \in Nat /\ v \in Nat /\ v <= u + (done'[p] - done[p]) /\ acc[p] + g + u <= done[p]
    BY <1>1, <1>3, <1>5, <1>9
  <2> HIDE DEF g, u, v
  <2> QED
    BY <1>1, <1>4, <2>1, BothGrow
<1>10. ASSUME host.omap[p] # <<>> PROVE acc[p] + Above(cnt'[p], l) <= done'[p]
  <2> DEFINE w == Above(cnt[p], l)
             x == Above(cnt'[p], l)
  <2>1. w \in Nat /\ x \in Nat /\ x <= w + (done'[p] - done[p]) /\ acc[p] + w <= done[p]
    BY <1>3, <1>6, <1>7, <1>10
  <2>2. acc[p] + x <= done'[p]
    <3> HIDE DEF w, x
    <3> QED
      BY <1>1, <1>4, <2>1
  <2> QED
    BY <2>2
<1> QED
  BY <1>2, <1>8, <1>9, <1>10 DEF FitsFor

\* A second reading of an export adds what has been counted since it came back,
\* which the first reading has not.
LEMMA FitsRead ==
  ASSUME Typed, Fits, NEW p \in Exports, Read(p, Readable(p))
  PROVE  FitsFor(p)'
<1> DEFINE g == Gain(p)
           c == cnt[p]
           o == Last(host.omap[p])
<1>1. /\ p \in todo /\ p \notin todo' /\ UNCHANGED <<cnt, done, acc, host>>
      /\ data' = [data EXCEPT ![p] = IF p \in present /\ Readable(p) THEN Append(@, cnt[p]) ELSE @]
  BY DEF Read, lustre
<1>2. /\ p \in Places /\ acc[p] \in Nat /\ done[p] \in Nat /\ c \in Nat /\ g \in Nat
      /\ data[p] \in Seq(Nat)
      /\ data[p] # <<>> => Last(data[p]) \in Nat
      /\ host.omap[p] # <<>> => o \in Nat
      /\ data[p] = <<>> => g = 0
  BY FitsTypes
<1>3. /\ acc[p] + g <= done[p]
      /\ data[p] # <<>> => acc[p] + g + c <= done[p]
      /\ host.omap[p] # <<>> => acc[p] + Above(c, o) <= done[p]
  BY <1>1 DEF Fits, FitsFor, Unread
<1>4. Unread(p)' = Above(c, Last(data'[p]))
  BY <1>1 DEF Unread
<1>5. CASE p \in present /\ Readable(p)
  <2> DEFINE w == IF host.omap[p] = <<>> THEN 0 ELSE Above(c, o)
  <2>1. data'[p] = Append(data[p], c)
    BY <1>1, <1>5 DEF Typed
  <2>2. Last(data'[p]) = c
    BY <1>2, <2>1 DEF Last
  <2>3. Gain(p)' = g + w
    <3>1. CASE host.omap[p] = <<>>
      BY <1>1, <3>1 DEF Gain
    <3>2. CASE host.omap[p] # <<>>
      <4>1. Gain(p)' = Added(Append(data[p], c), o) /\ g = Added(data[p], o)
        BY <1>1, <2>1, <3>2 DEF Gain
      <4>2. o \in Nat
        BY <1>2, <3>2
      <4> HIDE DEF c, o, g
      <4>3. Added(Append(data[p], c), o) = Added(data[p], o) + Above(c, o)
        BY <1>2, <4>2, AddedOne
      <4> QED
        BY <3>2, <4>1, <4>3
    <3> QED
      BY <3>1, <3>2
  <2>4. w \in Nat /\ w <= c
    BY <1>2, AboveIs
  <2>5. acc[p] + w <= done[p]
    BY <1>2, <1>3
  <2>6. Unread(p)' = 0
    BY <1>2, <1>4, <2>2, AboveIs
  <2>7. acc[p] + (g + w) <= done[p]
    <3> HIDE DEF g, w, c
    <3> QED
      BY <1>2, <1>3, <2>4, <2>5
  <2>8. g + w \in Nat
    <3> HIDE DEF g, w
    <3> QED
      BY <1>2, <2>4
  <2> HIDE DEF w, g
  <2>9. acc'[p] + Gain(p)' <= done'[p]
    BY <1>1, <2>3, <2>7
  <2>10. acc'[p] + Gain(p)' + Unread(p)' <= done'[p]
    BY <1>1, <1>2, <2>3, <2>6, <2>7, <2>8
  <2> QED
    BY <1>1, <1>3, <2>9, <2>10 DEF FitsFor
<1>6. CASE ~ (p \in present /\ Readable(p))
  <2>1. data'[p] = data[p]
    BY <1>1, <1>6 DEF Typed
  <2>2. Gain(p)' = g
    BY <1>1, <2>1 DEF Gain
  <2>3. ASSUME data[p] # <<>> PROVE acc[p] + g + Above(c, Last(data[p])) <= done[p]
    <3> DEFINE m == Above(c, Last(data[p]))
    <3>1. m \in Nat /\ m <= c
      BY <1>2, <2>3, AboveIs
    <3>2. acc[p] + g + m <= done[p]
      <4> HIDE DEF g, m, c
      <4> QED
        BY <1>2, <1>3, <2>3, <3>1
    <3> QED
      BY <3>2
  <2> HIDE DEF g
  <2> QED
    BY <1>1, <1>3, <1>4, <2>1, <2>2, <2>3 DEF FitsFor
<1> QED
  BY <1>5, <1>6

LEMMA FitsDeliver ==
  ASSUME Typed, Fits, NEW p \in Exports, Deliver
  PROVE  FitsFor(p)'
<1> DEFINE g == Gain(p)
<1>1. /\ p \in Places /\ acc[p] \in Nat /\ done[p] \in Nat /\ cnt[p] \in Nat /\ g \in Nat
      /\ data[p] # <<>> => Last(data[p]) \in Nat
  BY FitsTypes
<1>2. /\ todo = {} /\ data' = Nothing /\ host'.omap = data /\ UNCHANGED <<cnt, done>>
      /\ acc'[p] = IF StatsType[p] = ClassStr(born) THEN acc[p] + Delta(p) ELSE acc[p]
  BY <1>1 DEF Deliver, EndWalk, WalkEnds, lustre
<1>3. Delta(p) = g
  BY DeltaIsGain
<1>4. acc[p] + g <= done[p] /\ acc'[p] \in {acc[p] + g, acc[p]}
  BY <1>2, <1>3 DEF Fits, FitsFor
<1>5. data'[p] = <<>>
  BY <1>1, <1>2, NothingIs
<1>6. Gain(p)' = 0
  <2>1. ASSUME host'.omap[p] # <<>> PROVE Added(<<>>, Last(host'.omap[p])) = 0
    BY <1>1, <1>2, <2>1, AddedNothing
  <2> QED
    BY <1>5, <2>1 DEF Gain
<1>7. acc'[p] \in Nat /\ acc'[p] <= acc[p] + g
  <2> HIDE DEF g
  <2> QED
    BY <1>1, <1>4
<1>8. ASSUME data[p] # <<>> PROVE acc'[p] + Above(cnt[p], Last(data[p])) <= done[p]
  <2> DEFINE m == Above(cnt[p], Last(data[p]))
  <2>1. acc[p] + g + m <= done[p]
    BY <1>2, <1>8 DEF Fits, FitsFor, Unread
  <2>2. m \in Nat
    BY <1>1, <1>8, AboveIs
  <2>3. acc'[p] + m <= done[p]
    <3> HIDE DEF g, m
    <3> QED
      BY <1>1, <1>7, <2>1, <2>2
  <2> QED
    BY <2>3
<1>9. acc'[p] + 0 <= done'[p]
  <2> HIDE DEF g
  <2> QED
    BY <1>1, <1>2, <1>4, <1>7
<1> QED
  BY <1>2, <1>5, <1>6, <1>8, <1>9 DEF FitsFor

\* A walk that begins, or comes to nothing, leaves what has been read before out.
LEMMA FitsDropped ==
  ASSUME Typed, Fits, NEW p \in Exports, data' = Nothing, UNCHANGED <<cnt, done, acc, host>>
  PROVE  FitsFor(p)'
<1> DEFINE g == Gain(p)
<1>1. /\ p \in Places /\ acc[p] \in Nat /\ done[p] \in Nat /\ g \in Nat
      /\ host.omap[p] # <<>> => Last(host.omap[p]) \in Nat
  BY FitsTypes
<1>2. data'[p] = <<>>
  BY <1>1, NothingIs
<1>3. Gain(p)' = 0
  <2>1. ASSUME host.omap[p] # <<>> PROVE Added(<<>>, Last(host.omap[p])) = 0
    BY <1>1, <2>1, AddedNothing
  <2> QED
    BY <1>2, <2>1 DEF Gain
<1>4. acc[p] + g <= done[p]
  BY DEF Fits, FitsFor
<1>5. acc'[p] + 0 <= done'[p]
  <2> HIDE DEF g
  <2> QED
    BY <1>1, <1>4
<1> QED
  BY <1>2, <1>3, <1>5 DEF Fits, FitsFor

LEMMA FitsStep == ASSUME Typed, Walks, Fits, [Next]_vars PROVE Fits'
<1>0. Typed' /\ Exports' = Exports
  BY TypedStep DEF Exports
<1> SUFFICES ASSUME NEW p \in Exports PROVE FitsFor(p)'
  BY <1>0 DEF Fits
<1>1. p \in Places /\ cnt[p] \in Nat /\ done[p] \in Nat
  BY FitsTypes
<1>2. ASSUME NEW new \in SUBSET (Places \ present), Add(new) PROVE FitsFor(p)'
  <2>1. todo' \subseteq todo \cup new /\ UNCHANGED <<cnt, done, data, host, acc>>
    BY <1>2 DEF Add
  <2>2. p \in new => cnt[p] = 0
    BY DEF Walks
  <2>3. cnt'[p] = cnt[p] /\ done'[p] = done[p] /\ data'[p] = data[p] /\ UNCHANGED <<acc, host>>
    BY <2>1
  <2> QED
    BY <1>0, <2>1, <2>2, <2>3, FitsKept
<1>3. ASSUME NEW gone \in SUBSET Places, Gone(gone) PROVE FitsFor(p)'
  <2>1. /\ cnt'[p] = IF p \in gone THEN 0 ELSE cnt[p]
        /\ done'[p] = done[p] /\ data'[p] = data[p] /\ UNCHANGED <<todo, acc, host>>
    BY <1>1, <1>3 DEF Gone, Vanish
  <2> QED
    BY <1>0, <2>1, FitsKept
<1>4. ASSUME NEW q \in Places, Operation(q) PROVE FitsFor(p)'
  <2>1. /\ cnt' = [cnt EXCEPT ![q] = @ + 1] /\ done' = [done EXCEPT ![q] = @ + 1]
        /\ UNCHANGED <<todo, data, acc, host>>
    BY <1>4 DEF Operation, walk
  <2>2. \/ cnt'[p] = cnt[p] /\ done'[p] = done[p]
        \/ cnt'[p] = cnt[p] + 1 /\ done'[p] = done[p] + 1
    BY <1>1, <2>1 DEF Typed
  <2> QED
    BY <1>0, <2>1, <2>2, FitsKept
<1>5. ASSUME NEW q \in Places, Read(q, Readable(q)) PROVE FitsFor(p)'
  <2>1. CASE p = q
    BY <1>5, <2>1, FitsRead
  <2>2. CASE p # q
    <3>1. data'[p] = data[p] /\ todo' \subseteq todo /\ UNCHANGED <<cnt, done, acc, host>>
      BY <1>1, <1>5, <2>2 DEF Read, lustre, Typed
    <3> QED
      BY <1>0, <3>1, FitsKept
  <2> QED
    BY <2>1, <2>2
<1>6. ASSUME Restart \/ BeginWalk \/ Lose PROVE FitsFor(p)'
  <2>1. data' = Nothing /\ UNCHANGED <<cnt, done, acc, host>>
    BY <1>6 DEF Restart, BeginWalk, Lose, EndWalk, lustre
  <2> QED
    BY <2>1, FitsDropped
<1>7. ASSUME NextDirectory PROVE FitsFor(p)'
  <2>1. UNCHANGED <<cnt, done, data, host, acc>> /\ todo = {}
    BY <1>7 DEF NextDirectory, lustre
  <2>2. p \in todo' => data[p] = <<>>
    <3>1. PICK a, b :
            /\ a # b /\ Phases(Class(born)) = <<a, b>>
            /\ \/ phase = <<>> /\ Len(phase) = 0 /\ ToCome = {}
               \/ phase = <<a, b>> /\ Len(phase) = 2 /\ Head(phase) = a /\ Tail(phase) = <<b>> /\ ToCome = {b}
               \/ phase = <<b>> /\ Len(phase) = 1 /\ Head(phase) = b /\ ToCome = {}
      BY PhaseIs
    <3>2. todo' = Listing(b) /\ ToCome = {b}
      BY <1>7, <3>1 DEF NextDirectory
    <3> QED
      BY <1>1, <3>2 DEF Walks, Listing
  <2>3. /\ acc[p] + Gain(p) <= done[p]
        /\ data[p] # <<>> => acc[p] + Gain(p) + Unread(p) <= done[p]
        /\ host.omap[p] # <<>> => acc[p] + Above(cnt[p], Last(host.omap[p])) <= done[p]
    BY DEF Fits, FitsFor
  <2>4. Gain(p)' = Gain(p)
    BY <2>1 DEF Gain
  <2>5. data[p] # <<>> => Unread(p)' = Unread(p)
    BY <2>1, <2>2 DEF Unread
  <2> QED
    BY <2>1, <2>3, <2>4, <2>5 DEF FitsFor
<1>8. ASSUME Deliver PROVE FitsFor(p)'
  BY <1>8, FitsDeliver
<1>9. ASSUME UNCHANGED vars PROVE FitsFor(p)'
  <2>1. UNCHANGED <<cnt, done, data, host, acc, todo>>
    BY <1>9 DEF vars, lustre, walk
  <2> QED
    BY <2>1 DEF Fits, FitsFor, Gain, Unread
<1> QED
  BY <1>2, <1>3, <1>4, <1>5, <1>6, <1>7, <1>8, <1>9, NextIsSteps DEF Steps

-----------------------------------------------------------------------------
IInv == Typed /\ Walks /\ Stands /\ Fits

\* The four hold of every state of collect_devices among Lustre's mounts, clients
\* that come and go, restarts and lost reports (collect.c 16-69, lfs_utils.c 71-93).
THEOREM InvariantHolds == Spec => []IInv
<1>1. Init => IInv
  BY InitTyped, InitWalks, InitStands, InitFits DEF IInv
<1>2. IInv /\ [Next]_vars => IInv'
  BY TypedStep, WalksStep, StandsStep, FitsStep DEF IInv
<1> QED
  BY <1>1, <1>2, PTL DEF Spec

\* What was there when the report's clock was read and has not gone since is in the
\* report with no less than its count then (collect.c 20-26, exports.c 33-82).
THEOREM StandingReported == Spec => []StandingAreReported
<1>1. IInv => StandingAreReported
  <2> SUFFICES ASSUME IInv, WalkEnds, NEW p \in DOMAIN standing PROVE ReportedOf(p)
    BY DEF StandingAreReported, ReportedOf
  <2>1. ToCome = {} /\ todo = {}
    BY DEF WalkEnds, ToCome
  <2> QED
    BY <2>1 DEF IInv, Stands
<1> QED
  BY <1>1, InvariantHolds, PTL

\* The rates of an export never add up to more than its operations, whatever is read
\* twice, evicted, restarted or lost (stats.c 257-308, exports.c 33-82).
THEOREM NothingCountedTwice == Spec => []NoOpCountedTwice
<1>1. IInv => NoOpCountedTwice
  <2> SUFFICES ASSUME IInv, NEW p \in Exports PROVE acc[p] <= done[p]
    BY DEF NoOpCountedTwice
  <2>1. acc[p] \in Nat /\ done[p] \in Nat /\ Gain(p) \in Nat
    BY FitsTypes DEF IInv
  <2>2. acc[p] + Gain(p) <= done[p]
    BY DEF IInv, Fits, FitsFor
  <2> QED
    BY <2>1, <2>2
<1> QED
  BY <1>1, InvariantHolds, PTL

-----------------------------------------------------------------------------
(***************************************************************************)
(* The bounds of TypeOK.                                                   *)
(***************************************************************************)
LEMMA ShortList ==
  ASSUME NEW s \in Seq(DeviceTypes), IsInjective(s) PROVE s \in SeqOf(DeviceTypes, 3)
<1>1. Len(s) \in Nat /\ DOMAIN s = 1 .. Len(s) /\ s \in [1 .. Len(s) -> DeviceTypes]
  BY LenProperties
<1>2. Len(s) <= 3
  <2> SUFFICES ASSUME Len(s) > 3 PROVE FALSE
    BY <1>1
  <2>1. \A i \in DOMAIN s : s[i] \in {"mdt", "obdfilter", "osc"}
    BY <1>1, HostsAssumption DEF DeviceTypes
  <2>2. 1 \in DOMAIN s /\ 2 \in DOMAIN s /\ 3 \in DOMAIN s /\ 4 \in DOMAIN s
    BY <1>1
  <2>3. /\ s[1] # s[2] /\ s[1] # s[3] /\ s[1] # s[4]
        /\ s[2] # s[3] /\ s[2] # s[4] /\ s[3] # s[4]
    BY <2>2 DEF IsInjective
  <2> QED
    BY <2>1, <2>2, <2>3
<1>3. Len(s) \in 0 .. 3
  BY <1>1, <1>2
<1> QED
  BY <1>1, <1>3 DEF SeqOf

Bounded ==
  /\ born \in SeqOf(DeviceTypes, 3)
  /\ \A p \in Places : done[p] <= MaxOps /\ cnt[p] <= done[p]
  /\ \A p \in Places : \A i \in DOMAIN data[p] : data[p][i] <= MaxOps

LEMMA InitBounded == Init => Bounded
<1> SUFFICES ASSUME Init PROVE Bounded
  OBVIOUS
<1>1. Typed
  BY InitTyped
<1>2. born \in SeqOf(DeviceTypes, 3)
  BY <1>1, ShortList DEF Init, Typed
<1>3. \A p \in Places : done[p] = 0 /\ cnt[p] = 0 /\ data[p] = <<>>
  BY NothingIs DEF Init
<1> QED
  BY <1>2, <1>3, BoundsAssumption, EmptyFunction DEF Bounded

\* Each export has counted no more than all have together.
LEMMA DoneBelowSum == ASSUME Typed, NEW p \in Places PROVE done[p] <= SumFunction(done)
<1>1. IsFiniteSet(Places) /\ DOMAIN done = Places /\ \A q \in Places : done[q] \in Nat
  BY PlacesAssumption DEF Typed
<1>2. SumFunction(done) = SumFunctionOnSet(done, Places)
  BY <1>1 DEF SumFunction
<1>3. \A x \in Places : SumFunctionOnSet(done, Places) = done[x] + SumFunctionOnSet(done, Places \ {x})
  BY <1>1, SumWithout
<1>4. SumFunctionOnSet(done, Places \ {p}) \in Nat
  <2>1. IsFiniteSet(Places \ {p})
    BY <1>1, FS_Subset
  <2> QED
    BY <1>1, <2>1, SumType
<1> QED
  BY <1>1, <1>2, <1>3, <1>4

LEMMA BoundedStep == ASSUME Typed, Bounded, [Next]_vars PROVE Bounded'
<1>1. born' \in SeqOf(DeviceTypes, 3)
  <2>1. born' = born \/ born' = devices
    BY DEF Next, Load, Unload, Connect, Add, Evict, Operation, Daemon, Restart, BeginWalk, ReadPlace,
           ReadExport, ReadTarget, ReadLlite, ReadOsc, Read, NextDirectory, Deliver, Lose, EndWalk, vars
  <2> QED
    BY <2>1, ShortList DEF Typed, Bounded
<1> DEFINE Counts == \A p \in Places : done[p] <= MaxOps /\ cnt[p] <= done[p]
           Readings == \A p \in Places : \A i \in DOMAIN data[p] : data[p][i] <= MaxOps
<1>2. ASSUME NEW new \in SUBSET (Places \ present), Add(new) PROVE (Counts /\ Readings)'
  BY <1>2 DEF Add, Bounded
<1>3. ASSUME NEW gone \in SUBSET Places, Gone(gone) PROVE (Counts /\ Readings)'
  <2>1. UNCHANGED <<done, data>> /\ \A p \in Places : cnt'[p] = cnt[p] \/ cnt'[p] = 0
    BY <1>3 DEF Gone, Vanish
  <2>2. ASSUME NEW p \in Places PROVE cnt'[p] <= done[p]
    <3>1. done[p] \in Nat /\ cnt[p] <= done[p]
      BY DEF Bounded, Typed
    <3> QED
      BY <2>1, <3>1
  <2> QED
    BY <2>1, <2>2 DEF Bounded
<1>4. ASSUME NEW q \in Places, Operation(q) PROVE (Counts /\ Readings)'
  <2>1. /\ cnt' = [cnt EXCEPT ![q] = @ + 1] /\ done' = [done EXCEPT ![q] = @ + 1] /\ data' = data
        /\ SumFunction(done) < MaxOps
    BY <1>4 DEF Operation, walk
  <2>2. done[q] + 1 <= MaxOps
    <3>1. SumFunction(done) \in Nat
      <4>1. IsFiniteSet(Places) /\ DOMAIN done = Places /\ \A x \in Places : done[x] \in Nat
        BY PlacesAssumption DEF Typed
      <4>2. SumFunctionOnSet(done, Places) \in Nat
        BY <4>1, SumType
      <4> QED
        BY <4>1, <4>2 DEF SumFunction
    <3>2. done[q] \in Nat /\ done[q] <= SumFunction(done)
      BY DoneBelowSum DEF Typed
    <3> QED
      BY <2>1, <3>1, <3>2, BoundsAssumption
  <2>3. \A p \in Places : done'[p] <= MaxOps /\ cnt'[p] <= done'[p]
    BY <2>1, <2>2 DEF Bounded, Typed
  <2> QED
    BY <2>1, <2>3 DEF Bounded
<1>5. ASSUME NEW q \in Places, Read(q, Readable(q)) PROVE (Counts /\ Readings)'
  <2>1. UNCHANGED <<cnt, done>> /\ \A p \in Places \ {q} : data'[p] = data[p]
    BY <1>5 DEF Read, lustre, Typed
  <2>2. data'[q] = data[q] \/ data'[q] = Append(data[q], cnt[q])
    BY <1>5 DEF Read, Typed
  <2>3. ASSUME NEW i \in DOMAIN Append(data[q], cnt[q]) PROVE Append(data[q], cnt[q])[i] <= MaxOps
    <3>1. data[q] \in Seq(Nat) /\ cnt[q] <= MaxOps
      BY BoundsAssumption DEF Typed, Bounded
    <3>2. i \in 1 .. Len(data[q]) + 1 /\ Len(data[q]) \in Nat /\ DOMAIN data[q] = 1 .. Len(data[q])
      BY <2>3, <3>1, LenProperties
    <3>3. Append(data[q], cnt[q])[i] = IF i = Len(data[q]) + 1 THEN cnt[q] ELSE data[q][i]
      BY <3>1, <3>2
    <3>4. i # Len(data[q]) + 1 => i \in DOMAIN data[q]
      BY <3>2
    <3> QED
      BY <3>1, <3>3, <3>4 DEF Bounded
  <2>4. \A i \in DOMAIN data'[q] : data'[q][i] <= MaxOps
    BY <2>2, <2>3 DEF Bounded
  <2> QED
    BY <2>1, <2>4 DEF Bounded
<1>6. ASSUME Restart \/ BeginWalk \/ Deliver \/ Lose PROVE (Counts /\ Readings)'
  <2>1. UNCHANGED <<cnt, done>> /\ data' = Nothing
    BY <1>6 DEF Restart, BeginWalk, Deliver, Lose, EndWalk, lustre
  <2>2. \A p \in Places : DOMAIN data'[p] = {}
    BY <2>1, NothingIs, EmptyFunction
  <2> QED
    BY <2>1, <2>2 DEF Bounded
<1>7. ASSUME NextDirectory \/ UNCHANGED vars PROVE (Counts /\ Readings)'
  BY <1>7 DEF NextDirectory, vars, lustre, walk, Bounded
<1>8. (Counts /\ Readings)'
  <2> HIDE DEF Counts, Readings
  <2> QED
    BY <1>2, <1>3, <1>4, <1>5, <1>6, <1>7, NextIsSteps DEF Steps
<1> QED
  BY <1>1, <1>8 DEF Bounded

\* Counters and readings are numbers of operations, only what is there counts, and
\* what is left of a walk is a rest of collect_devices' order (collect.c 37-61,
\* lfs_utils.c 22).
THEOREM TypeCorrect == Spec => []TypeOK
<1>1. Init => IInv /\ Bounded
  BY InitTyped, InitWalks, InitStands, InitFits, InitBounded DEF IInv
<1>2. IInv /\ Bounded /\ [Next]_vars => (IInv /\ Bounded)'
  BY TypedStep, WalksStep, StandsStep, FitsStep, BoundedStep DEF IInv
<1>3. IInv /\ Bounded => TypeOK
  <2> SUFFICES ASSUME IInv, Bounded PROVE TypeOK
    OBVIOUS
  <2>0. Typed /\ Walks
    BY DEF IInv
  <2>1. devices \in SeqOf(DeviceTypes, 3) /\ IsInjective(devices) /\ born \in SeqOf(DeviceTypes, 3)
    BY <2>0, ShortList DEF Typed, Bounded
  <2>2. \A p \in Places : cnt[p] \in 0 .. MaxOps /\ done[p] \in 0 .. MaxOps /\ acc[p] \in Nat
    BY <2>0, BoundsAssumption DEF Typed, Bounded
  <2>3. cnt \in [Places -> 0 .. MaxOps] /\ done \in [Places -> 0 .. MaxOps]
    BY <2>0, <2>2 DEF Typed
  <2>4. ASSUME phase # <<>> PROVE IsSuffix(phase, Phases(Class(born)))
    <3>1. PICK a, b : Phases(Class(born)) = <<a, b>> /\ a # b
      BY <2>0, PhasesAre
    <3>2. phase = <<a, b>> \/ phase = <<b>>
      BY <2>0, <2>4, <3>1 DEF Walks
    <3>3. Reverse(<<a, b>>) = <<b, a>> /\ Reverse(<<b>>) = <<b>>
      BY DEF Reverse
    <3>4. IsPrefix(<<b, a>>, <<b, a>>) /\ IsPrefix(<<b>>, <<b, a>>)
      BY DEF IsPrefix
    <3> QED
      BY <3>1, <3>2, <3>3, <3>4 DEF IsSuffix
  <2>5. ASSUME NEW p \in Places, NEW i \in DOMAIN data[p] PROVE data[p][i] \in 0 .. MaxOps
    <3>1. data[p] \in Seq(Nat)
      BY <2>0 DEF Typed
    <3>2. data[p][i] \in Nat
      BY <3>1
    <3> QED
      BY <3>2, BoundsAssumption DEF Bounded
  <2> QED
    BY <2>0, <2>1, <2>2, <2>3, <2>4, <2>5 DEF TypeOK, Typed, Walks
<1> QED
  BY <1>1, <1>2, <1>3, PTL DEF Spec

=============================================================================
