---------------------------- MODULE ViewerProofs ----------------------------
(***************************************************************************)
(* Theorems about Viewer, for any entries, keys, filter and heights.       *)
(*                                                                         *)
(* Grouping adds up in place, so what a second grouping adds up is no      *)
(* longer the published map.  Only a map that was just loaded, all of ones,*)
(* gives the rows that are shown (LoadedRows); what later groupings leave  *)
(* in map and screen_map need only be maps and rows (IsMap, Screen).       *)
(***************************************************************************)
EXTENDS Viewer, Sums

-----------------------------------------------------------------------------
(***************************************************************************)
(* Groups and their leaders.                                               *)
(***************************************************************************)
IsMap(m) ==
  /\ m \in [servers : SUBSET Servers, value : UNION {[I -> Nat \ {0}] : I \in SUBSET DOMAIN Entries}]
  /\ DOMAIN m.value \subseteq OfServers(m.servers)

LEMMA MapHas ==
  ASSUME NEW m, IsMap(m)
  PROVE  /\ m = [servers |-> m.servers, value |-> m.value]
         /\ m.servers \subseteq Servers /\ DOMAIN m.value \subseteq OfServers(m.servers)
         /\ DOMAIN m.value \subseteq DOMAIN Entries /\ IsFiniteSet(DOMAIN m.value)
         /\ m.value \in [DOMAIN m.value -> Nat \ {0}]
<1>1. PICK I \in SUBSET DOMAIN Entries : m.value \in [I -> Nat \ {0}]
  BY DEF IsMap
<1>2. IsFiniteSet(I)
  BY EntriesAssumption, FS_Subset
<1> QED
  BY <1>1, <1>2 DEF IsMap

\* A published map is one of ones.
LEMMA PublishedIs ==
  ASSUME NEW m \in Published
  PROVE  IsMap(m) /\ \A i \in DOMAIN m.value : m.value[i] = 1
<1>1. PICK S \in SUBSET Servers : \E I \in SUBSET OfServers(S) : m = Loaded(S, I)
  BY DEF Published
<1>2. PICK I \in SUBSET OfServers(S) : m = Loaded(S, I)
  BY <1>1
<1>3. m.servers = S /\ m.value = [i \in I |-> 1] /\ m = [servers |-> S, value |-> [i \in I |-> 1]]
  BY <1>2 DEF Loaded
<1>4. I \subseteq DOMAIN Entries /\ [i \in I |-> 1] \in [I -> Nat \ {0}]
  BY <1>2 DEF OfServers
<1> QED
  BY <1>2, <1>3, <1>4 DEF IsMap

LEMMA MinIs ==
  ASSUME NEW S, S \subseteq Nat, S # {} PROVE Min(S) \in S /\ \A y \in S : Min(S) <= y
<1>1. PICK n \in S : TRUE
  OBVIOUS
<1> DEFINE Below(k) == {x \in S : x < k}
           D == 0 .. n
           T == {Below(k) : k \in S \cap D}
<1>2. IsFiniteSet(D) /\ T \subseteq SUBSET D /\ T # {}
  <2>1. n \in Nat /\ 0 \in Int
    BY <1>1
  <2>2. IsFiniteSet(0 .. n)
    BY <2>1, FS_Interval
  <2>3. ASSUME NEW k \in S \cap D PROVE Below(k) \subseteq D
    <3>1. \A x \in Below(k) : x \in Nat /\ x < k /\ k <= n /\ k \in Nat
      BY <2>1
    <3>2. \A x \in Below(k) : x \in D
      BY <2>1, <3>1
    <3> QED
      BY <3>2
  <2>4. n \in S \cap D
    BY <1>1, <2>1
  <2> QED
    BY <2>2, <2>3, <2>4
<1>3. PICK u \in T : \A v \in T : v \subseteq u => v = u
  <2> HIDE DEF T, D
  <2> QED
    BY <1>2, SmallestSubset
<1>4. PICK k \in S \cap D : u = Below(k)
  BY <1>3
<1>5. ASSUME NEW y \in S, y < k PROVE FALSE
  <2>1. n \in Nat /\ y \in Nat /\ k \in Nat /\ k <= n
    BY <1>1, <1>4
  <2>2. y \in S \cap D /\ y \in Below(k) /\ y \notin Below(y)
    BY <1>5, <2>1
  <2>3. ASSUME NEW x \in Below(y) PROVE x \in Below(k)
    <3>1. x \in S /\ x < y /\ x \in Nat
      OBVIOUS
    <3> QED
      BY <1>5, <2>1, <3>1
  <2> QED
    BY <1>3, <1>4, <2>2, <2>3
<1>6. \A y \in S : k <= y
  BY <1>5
<1> QED
  BY <1>6 DEF Min

\* Every grouping keeps the server apart.
LEMMA KeyServer ==
  ASSUME NEW g \in DOMAIN GroupTags, NEW i \in DOMAIN Entries
  PROVE  Key(g, i).server = Entries[i].server
<1>1. "server" \in GroupTags[g]
  BY DEF GroupTags
<1>2. "server" \in GroupTags[g] \cap DOMAIN Entries[i]
  BY <1>1, EntriesAssumption
<1> QED
  BY <1>2 DEF Key

LEMMA GroupHas ==
  ASSUME NEW m, IsMap(m), NEW g, NEW i \in DOMAIN m.value
  PROVE  /\ Group(m, g, i) \subseteq DOMAIN m.value /\ IsFiniteSet(Group(m, g, i))
         /\ Group(m, g, i) \subseteq Nat
         /\ Passes(g, i) => i \in Group(m, g, i)
         /\ \A k \in Group(m, g, i) :
              Passes(g, k) /\ Key(g, k) = Key(g, i) /\ Group(m, g, k) = Group(m, g, i)
<1>1. Group(m, g, i) \subseteq DOMAIN m.value
  BY DEF Group
<1>2. IsFiniteSet(Group(m, g, i)) /\ Group(m, g, i) \subseteq Nat
  BY <1>1, MapHas, EntriesAssumption, FS_Subset
<1> QED
  BY <1>1, <1>2 DEF Group

\* A group has one leader.
LEMMA Leader ==
  ASSUME NEW m, IsMap(m), NEW g, NEW i \in DOMAIN m.value, Passes(g, i)
  PROVE  \E k \in Group(m, g, i) : Leads(m, g, k)
<1> DEFINE k == Min(Group(m, g, i))
<1>1. Group(m, g, i) \subseteq Nat /\ Group(m, g, i) # {}
  BY GroupHas
<1>2. k \in Group(m, g, i)
  BY <1>1, MinIs
<1>3. Passes(g, k) /\ Group(m, g, k) = Group(m, g, i)
  BY <1>2, GroupHas
<1> QED
  BY <1>2, <1>3 DEF Leads

LEMMA TotalIs ==
  ASSUME NEW m, IsMap(m), NEW g, NEW i \in DOMAIN m.value, Passes(g, i)
  PROVE  /\ Total(m, Group(m, g, i)) = SumFunctionOnSet(m.value, Group(m, g, i))
         /\ Total(m, Group(m, g, i)) \in Nat \ {0}
<1> DEFINE I == Group(m, g, i)
<1>1. Total(m, I) = SumFunctionOnSet(m.value, I)
  BY DEF Total, MapThenSumSet, MapThenFoldSet, SumFunctionOnSet, FoldFunctionOnSet
<1>2. IsFiniteSet(I) /\ I # {} /\ \A k \in I : m.value[k] \in Nat \ {0}
  BY GroupHas, MapHas
<1>3. SumFunctionOnSet(m.value, I) \in Nat \ {0}
  <2> HIDE DEF I
  <2> QED
    BY <1>2, SumPositive
<1> QED
  BY <1>1, <1>3

LEMMA GroupedIs ==
  ASSUME NEW m, IsMap(m), NEW g
  PROVE  IsMap(Grouped(m, g)) /\ Grouped(m, g).servers = m.servers
<1> DEFINE v == [i \in DOMAIN m.value |->
                  IF Leads(m, g, i) THEN Total(m, Group(m, g, i)) ELSE m.value[i]]
<1>1. v \in [DOMAIN m.value -> Nat \ {0}]
  BY MapHas, TotalIs DEF Leads
<1>2. Grouped(m, g) = [servers |-> m.servers, value |-> v]
  BY MapHas DEF Grouped
<1>3. DOMAIN v = DOMAIN m.value
  OBVIOUS
<1> HIDE DEF v
<1> QED
  BY <1>1, <1>2, <1>3, MapHas DEF IsMap

-----------------------------------------------------------------------------
(***************************************************************************)
(* Rows.                                                                   *)
(***************************************************************************)
Row(m, g, i) == [key |-> Key(g, i), value |-> Total(m, Group(m, g, i))]
Leaders(m, g, s) == {k \in DOMAIN m.value : Entries[k].server = s /\ Leads(m, g, k)}

LEMMA RowsAre ==
  ASSUME NEW m, IsMap(m), NEW g \in Groupings, NEW s
  PROVE  /\ Rows(m, g, s) = {Row(m, g, i) : i \in Leaders(m, g, s)}
         /\ Rows(m, g, s) \subseteq AllRows
         /\ \A r \in Rows(m, g, s) : r.key.server = s
<1>1. Rows(m, g, s) = {Row(m, g, i) : i \in Leaders(m, g, s)}
  BY DEF Rows, Row, Leaders
<1>2. ASSUME NEW i \in Leaders(m, g, s) PROVE Row(m, g, i) \in AllRows /\ Row(m, g, i).key.server = s
  <2>1. i \in DOMAIN m.value /\ i \in DOMAIN Entries /\ Entries[i].server = s /\ Passes(g, i)
    BY MapHas DEF Leaders, Leads
  <2>2. Total(m, Group(m, g, i)) \in Nat
    BY <2>1, TotalIs
  <2>3. g \in DOMAIN GroupTags
    BY KeysAssumption DEF Groupings, GroupTags
  <2>4. Row(m, g, i).key = Key(g, i)
    BY DEF Row
  <2> QED
    BY <2>1, <2>2, <2>3, <2>4, KeyServer DEF Row, AllRows
<1> QED
  BY <1>1, <1>2

\* A map of ones gives each entry that passes the filter its group's number.
LEMMA LoadedRows ==
  ASSUME NEW m \in Published, NEW g \in Groupings, NEW s
  PROVE  Rows(m, g, s) =
           {[key |-> Key(g, i), value |-> Cardinality(Group(m, g, i))] :
              i \in {k \in DOMAIN m.value : Entries[k].server = s /\ Passes(g, k)}}
<1> DEFINE Shown(i) == [key |-> Key(g, i), value |-> Cardinality(Group(m, g, i))]
           Passing == {k \in DOMAIN m.value : Entries[k].server = s /\ Passes(g, k)}
<1>1. IsMap(m) /\ \A i \in DOMAIN m.value : m.value[i] = 1
  BY PublishedIs
<1>2. ASSUME NEW i \in Passing PROVE Row(m, g, i) = Shown(i)
  <2>1. IsFiniteSet(Group(m, g, i)) /\ \A k \in Group(m, g, i) : m.value[k] = 1
    BY <1>1, GroupHas
  <2>2. SumFunctionOnSet(m.value, Group(m, g, i)) = Cardinality(Group(m, g, i))
    BY <2>1, SumOnes
  <2> QED
    BY <1>1, <2>2, TotalIs DEF Row
<1>3. Leaders(m, g, s) \subseteq Passing
  BY DEF Leaders, Leads
<1>4. ASSUME NEW i \in Passing PROVE \E k \in Leaders(m, g, s) : Row(m, g, k) = Shown(i)
  <2>1. PICK k \in Group(m, g, i) : Leads(m, g, k)
    BY <1>1, Leader
  <2>2. k \in DOMAIN m.value /\ Key(g, k) = Key(g, i) /\ Group(m, g, k) = Group(m, g, i)
    BY <1>1, GroupHas
  <2>3. Entries[k].server = s
    <3>1. i \in DOMAIN Entries /\ k \in DOMAIN Entries /\ g \in DOMAIN GroupTags
      BY <1>1, <2>2, MapHas, KeysAssumption DEF Groupings, GroupTags
    <3> QED
      BY <2>2, <3>1, KeyServer
  <2>4. k \in Leaders(m, g, s)
    BY <2>1, <2>2, <2>3 DEF Leaders
  <2>5. Row(m, g, k) = Shown(k) /\ Shown(k) = Shown(i)
    BY <1>2, <1>3, <2>2, <2>4
  <2> QED
    BY <2>4, <2>5
<1>5. Rows(m, g, s) = {Row(m, g, i) : i \in Leaders(m, g, s)}
  BY <1>1, RowsAre
<1> QED
  BY <1>2, <1>3, <1>4, <1>5

-----------------------------------------------------------------------------
(***************************************************************************)
(* screen_map holds rows of each server, each led by an entry of its own.  *)
(***************************************************************************)
RowsOf(s, R) ==
  /\ R \subseteq AllRows /\ \A r \in R : r.key.server = s
  /\ \E I \in SUBSET OfServers({s}) : \E f \in [I -> R] : \A r \in R : \E i \in I : f[i] = r

Screen == screen_map \in [Servers -> SUBSET AllRows] /\ \A s \in Servers : RowsOf(s, screen_map[s])

LEMMA RowsOfServer ==
  ASSUME NEW m, IsMap(m), NEW g \in Groupings, NEW s PROVE RowsOf(s, Rows(m, g, s))
<1> DEFINE I == Leaders(m, g, s)
           f == [i \in I |-> Row(m, g, i)]
<1>1. /\ Rows(m, g, s) = {Row(m, g, i) : i \in I}
      /\ Rows(m, g, s) \subseteq AllRows
      /\ \A r \in Rows(m, g, s) : r.key.server = s
  BY RowsAre
<1>2. I \in SUBSET OfServers({s})
  BY MapHas DEF Leaders, OfServers
<1>3. f \in [I -> Rows(m, g, s)] /\ \A r \in Rows(m, g, s) : \E i \in I : f[i] = r
  BY <1>1
<1> QED
  BY <1>1, <1>2, <1>3 DEF RowsOf

LEMMA RowsFew ==
  ASSUME NEW sm, \A s \in Servers : RowsOf(s, sm[s])
  PROVE  LET R == UNION {sm[s] : s \in Servers}
         IN  /\ R \subseteq AllRows /\ IsFiniteSet(R) /\ Cardinality(R) \in Nat
             /\ Cardinality(R) <= Cardinality(DOMAIN Entries)
             /\ \A s \in Servers : {r \in R : r.key.server = s} = sm[s]
<1> DEFINE R == UNION {sm[s] : s \in Servers}
           Good(s, I, f) == f \in [I -> sm[s]] /\ \A r \in sm[s] : \E i \in I : f[i] = r
           I(s) == CHOOSE J \in SUBSET OfServers({s}) : \E f : Good(s, J, f)
           F(s) == CHOOSE f : Good(s, I(s), f)
           D == {i \in DOMAIN Entries : i \in I(Entries[i].server)}
           h == [i \in D |-> F(Entries[i].server)[i]]
<1>1. ASSUME NEW s \in Servers PROVE I(s) \in SUBSET OfServers({s}) /\ Good(s, I(s), F(s))
  <2>1. \E J \in SUBSET OfServers({s}) : \E f : Good(s, J, f)
    <3>1. RowsOf(s, sm[s])
      OBVIOUS
    <3>2. PICK J \in SUBSET OfServers({s}) :
            \E f \in [J -> sm[s]] : \A r \in sm[s] : \E i \in J : f[i] = r
      BY <3>1 DEF RowsOf
    <3>3. PICK f \in [J -> sm[s]] : \A r \in sm[s] : \E i \in J : f[i] = r
      BY <3>2
    <3>4. Good(s, J, f)
      BY <3>3
    <3> HIDE DEF Good
    <3> QED
      BY <3>4
  <2>2. I(s) \in SUBSET OfServers({s}) /\ \E f : Good(s, I(s), f)
    <3> HIDE DEF Good
    <3> QED
      BY <2>1
  <2> QED
    BY <2>2
<1> HIDE DEF I, F
<1>2. \A i \in D : Entries[i].server \in Servers
  BY DEF Servers
<1>3. ASSUME NEW i \in D PROVE h[i] \in R
  <2>1. F(Entries[i].server)[i] \in sm[Entries[i].server]
    BY <1>1, <1>2
  <2> QED
    BY <1>2, <2>1
<1>4. ASSUME NEW r \in R PROVE \E i \in D : h[i] = r
  <2>1. PICK s \in Servers : r \in sm[s]
    OBVIOUS
  <2>2. PICK i \in I(s) : F(s)[i] = r
    BY <1>1, <2>1
  <2>3. i \in DOMAIN Entries /\ Entries[i].server = s
    BY <1>1 DEF OfServers
  <2> QED
    BY <2>2, <2>3
<1>5. h \in Surjection(D, R)
  <2>1. DOMAIN h = D /\ h = [i \in DOMAIN h |-> h[i]]
    OBVIOUS
  <2> HIDE DEF R, D, h
  <2>2. h \in [D -> R] /\ \A r \in R : \E i \in D : h[i] = r
    BY <1>3, <1>4, <2>1
  <2> QED
    BY <2>2 DEF Surjection
<1>6. IsFiniteSet(D) /\ Cardinality(D) <= Cardinality(DOMAIN Entries) /\ Cardinality(D) \in Nat
      /\ Cardinality(DOMAIN Entries) \in Nat
  <2>1. D \subseteq DOMAIN Entries
    OBVIOUS
  <2> HIDE DEF D
  <2> QED
    BY <2>1, EntriesAssumption, FS_Subset, FS_CardinalityType
<1>7. IsFiniteSet(R) /\ Cardinality(R) <= Cardinality(D) /\ Cardinality(R) \in Nat
  <2> HIDE DEF D, R, h
  <2> QED
    BY <1>5, <1>6, FS_Surjection, FS_CardinalityType
<1>8. Cardinality(R) <= Cardinality(DOMAIN Entries)
  <2> HIDE DEF D, R
  <2> QED
    BY <1>6, <1>7
<1>9. R \subseteq AllRows /\ \A s \in Servers : {r \in R : r.key.server = s} = sm[s]
  <2>1. \A s \in Servers : sm[s] \subseteq AllRows /\ \A r \in sm[s] : r.key.server = s
    BY DEF RowsOf
  <2>2. \A s \in Servers : sm[s] \subseteq R
    OBVIOUS
  <2>3. \A r \in R : \E s \in Servers : r \in sm[s]
    OBVIOUS
  <2> HIDE DEF R
  <2>4. R \subseteq AllRows
    BY <2>1, <2>3
  <2>5. \A s \in Servers : {r \in R : r.key.server = s} = sm[s]
    BY <2>1, <2>2, <2>3
  <2> QED
    BY <2>4, <2>5
<1> QED
  BY <1>7, <1>8, <1>9

-----------------------------------------------------------------------------
(***************************************************************************)
(* The window.                                                             *)
(***************************************************************************)
LEMMA PairMin ==
  ASSUME NEW a \in Int, NEW b \in Int PROVE Min({a, b}) = IF a <= b THEN a ELSE b
<1> DEFINE m == IF a <= b THEN a ELSE b
<1>1. m \in {a, b} /\ \A y \in {a, b} : m <= y
  OBVIOUS
<1>2. \A x \in {a, b} : (\A y \in {a, b} : x <= y) => x = m
  OBVIOUS
<1> HIDE DEF m
<1>3. Min({a, b}) = m
  BY <1>1, <1>2 DEF Min
<1> QED
  BY <1>3 DEF m

LEMMA PairMax ==
  ASSUME NEW a \in Int, NEW b \in Int PROVE Max({a, b}) = IF a >= b THEN a ELSE b
<1> DEFINE m == IF a >= b THEN a ELSE b
<1>1. m \in {a, b} /\ \A y \in {a, b} : m >= y
  OBVIOUS
<1>2. \A x \in {a, b} : (\A y \in {a, b} : x >= y) => x = m
  OBVIOUS
<1> HIDE DEF m
<1>3. Max({a, b}) = m
  BY <1>1, <1>2 DEF Max
<1> QED
  BY <1>3 DEF m

LEMMA ClampedIs ==
  ASSUME NEW start \in Int, NEW n \in Nat, lines \in Nat
  PROVE  /\ Clamped(start, n) \in 0 .. n + 2
         /\ Clamped(start, n) = 0 \/ Clamped(start, n) + (lines - 2) <= n
<1> DEFINE low == IF start <= n - (lines - 2) THEN start ELSE n - (lines - 2)
<1>1. n - (lines - 2) \in Int /\ 0 \in Int
  OBVIOUS
<1>2. Min({start, n - (lines - 2)}) = low
  BY <1>1, PairMin
<1>3. low \in Int /\ low <= n - (lines - 2)
  BY <1>1
<1>4. Clamped(start, n) = IF 0 >= low THEN 0 ELSE low
  <2> HIDE DEF low
  <2> QED
    BY <1>1, <1>2, <1>3, PairMax DEF Clamped
<1> HIDE DEF low
<1> QED
  BY <1>3, <1>4


-----------------------------------------------------------------------------
(***************************************************************************)
(* The invariant.                                                          *)
(***************************************************************************)
N == Cardinality(DOMAIN Entries)

Shown ==
  /\ IsMap(map) /\ Screen /\ seen \in Published
  /\ rows \subseteq AllRows /\ IsFiniteSet(rows) /\ Cardinality(rows) \in 0 .. N

Chosen == groupby \in Groupings /\ group_tags \in Groupings /\ by \in Groupings

\* A key scrolls only from 0: the callback it feeds comes before the next key.
Window ==
  /\ lines \in Heights /\ scroll_start \in 0 .. N + 2
  /\ scroll_delta \in {0, -1, 1, -Far, Far} \cup Heights \cup {-h : h \in Heights}
  /\ da_refresh_flag \in {0, 1} /\ (da_refresh_flag = 1 => scroll_delta = 0)

Loop ==
  /\ due \in BOOLEAN /\ lost \in BOOLEAN
  /\ loop \in {"running", "blocked", "ended"} /\ keys \in 0 .. MaxKeys

IInv == Shown /\ Chosen /\ Window /\ Loop /\ RowsCountOnce /\ WindowOverRows

LEMMA InitHolds == Init => IInv
<1> SUFFICES ASSUME Init PROVE IInv
  OBVIOUS
<1>1. Loaded({}, {}) \in Published /\ IsMap(Loaded({}, {}))
  <2>1. {} \in SUBSET Servers /\ {} \in SUBSET OfServers({})
    OBVIOUS
  <2>2. Loaded({}, {}) \in Published
    BY <2>1 DEF Published
  <2> QED
    BY <2>2, PublishedIs
<1>2. N \in Nat /\ IsFiniteSet({}) /\ Cardinality({}) = 0
  BY EntriesAssumption, FS_CardinalityType, FS_EmptySet DEF N
<1>3. Screen
  <2>1. \A s \in Servers : screen_map[s] = {} /\ screen_map \in [Servers -> SUBSET AllRows]
    BY DEF Init
  <2>2. ASSUME NEW s \in Servers PROVE RowsOf(s, {})
    <3>1. {} \in SUBSET OfServers({s}) /\ [i \in {} |-> i] \in [{} -> {}]
      OBVIOUS
    <3> QED
      BY <3>1 DEF RowsOf
  <2> QED
    BY <2>1, <2>2 DEF Screen, Init
<1>4. Shown
  BY <1>1, <1>2, <1>3 DEF Init, Shown
<1>5. Chosen /\ Window /\ Loop
  <2>1. Chosen
    BY DEF Init, Chosen, Groupings
  <2>2. Window
    <3>1. scroll_start \in 0 .. N + 2
      BY <1>2 DEF Init
    <3>2. scroll_delta \in {0, -1, 1, -Far, Far} /\ (da_refresh_flag = 1 => scroll_delta = 0)
      BY DEF Init
    <3>3. lines \in Heights /\ da_refresh_flag \in {0, 1}
      BY DEF Init
    <3> QED
      BY <3>1, <3>2, <3>3 DEF Window
  <2>3. Loop
    <3>1. keys \in 0 .. MaxKeys
      BY BoundsAssumption DEF Init
    <3> QED
      BY <3>1, Zenon DEF Init, Loop
  <2> QED
    BY <2>1, <2>2, <2>3
<1>6. RowsCountOnce
  BY DEF Init, RowsCountOnce, Loaded
<1>7. WindowOverRows
  BY DEF Init, WindowOverRows
<1> QED
  BY <1>4, <1>5, <1>6, <1>7 DEF IInv

\* What a regrouping leaves, of any map.
LEMMA Regrouped ==
  ASSUME NEW m, IsMap(m), Screen, groupby \in Groupings, Regroup(m)
  PROVE  /\ IsMap(map') /\ Screen' /\ group_tags' = groupby
         /\ \A s \in m.servers : s \in Servers /\ screen_map'[s] = Rows(m, groupby, s)
<1>1. IsMap(map')
  BY GroupedIs DEF Regroup
<1>2. screen_map' = [s \in Servers |->
         IF s \in m.servers THEN Rows(m, groupby, s) ELSE screen_map[s]]
  BY DEF Regroup
<1>3. ASSUME NEW s \in Servers PROVE RowsOf(s, screen_map'[s]) /\ screen_map'[s] \subseteq AllRows
  <2>1. RowsOf(s, Rows(m, groupby, s)) /\ RowsOf(s, screen_map[s])
    BY RowsOfServer DEF Screen
  <2>2. RowsOf(s, screen_map'[s])
    BY <1>2, <2>1
  <2> QED
    BY <2>2 DEF RowsOf
<1>4. Screen'
  BY <1>2, <1>3 DEF Screen
<1>5. m.servers \subseteq Servers
  BY MapHas
<1> QED
  BY <1>1, <1>2, <1>4, <1>5 DEF Regroup

\* What drawing leaves, over any number of rows there can be.
LEMMA Drawn ==
  ASSUME Window, NEW n \in 0 .. N, Draw(n), lines' = lines
  PROVE  /\ Window' /\ due' = FALSE
         /\ scroll_start' = 0 \/ scroll_start' + (lines' - 2) <= n
<1>1. N \in Nat
  BY EntriesAssumption, FS_CardinalityType DEF N
<1>2. lines \in Nat /\ n \in Nat /\ n <= N
  BY <1>1, BoundsAssumption DEF Window
<1>3. scroll_start + scroll_delta \in Int
  <2>1. scroll_start \in Int
    BY <1>1 DEF Window
  <2>2. Far \in Nat
    BY <1>1 DEF Far, N
  <2>3. \A h \in Heights : h \in Int /\ -h \in Int
    BY BoundsAssumption
  <2>4. scroll_delta \in Int
    BY <2>2, <2>3 DEF Window
  <2> QED
    BY <2>1, <2>4
<1> DEFINE c == Clamped(scroll_start + scroll_delta, n)
<1>4. c \in 0 .. n + 2 /\ (c = 0 \/ c + (lines - 2) <= n)
  BY <1>2, <1>3, ClampedIs
<1>5. scroll_start' = c /\ scroll_delta' = 0 /\ da_refresh_flag' = 1 /\ due' = FALSE
  BY DEF Draw
<1> HIDE DEF c
<1>6. c \in 0 .. N + 2
  BY <1>1, <1>2, <1>4
<1>7. Window'
  BY <1>5, <1>6 DEF Window, N, Far
<1> QED
  BY <1>4, <1>5, <1>7


\* What a load, or a failed one, leaves once the map is m.
LEMMA Rebuilt ==
  ASSUME Shown, Chosen, Window, NEW m, IsMap(m), Rebuild(m), seen' \in Published
  PROVE  /\ Shown' /\ Chosen' /\ Window' /\ due' = FALSE /\ by' = groupby
         /\ scroll_start' = 0 \/ scroll_start' + (lines' - 2) <= Cardinality(rows')
         /\ \A s \in m.servers : {r \in rows' : r.key.server = s} = Rows(m, groupby, s)
<1>1. /\ Regroup(m) /\ by' = groupby /\ Draw(Cardinality(rows'))
      /\ groupby' = groupby /\ lines' = lines
      /\ rows' = UNION {screen_map'[s] : s \in Servers}
  BY DEF Rebuild
<1>2. /\ IsMap(map') /\ Screen' /\ group_tags' = groupby
      /\ \A s \in m.servers : s \in Servers /\ screen_map'[s] = Rows(m, groupby, s)
  BY <1>1, Regrouped DEF Shown, Chosen
<1>3. \A s \in Servers : RowsOf(s, screen_map'[s])
  BY <1>2 DEF Screen
<1>4. /\ rows' \subseteq AllRows /\ IsFiniteSet(rows') /\ Cardinality(rows') \in Nat
      /\ Cardinality(rows') <= N
      /\ \A s \in Servers : {r \in rows' : r.key.server = s} = screen_map'[s]
  BY <1>1, <1>3, RowsFew DEF N
<1>5. N \in Nat
  BY EntriesAssumption, FS_CardinalityType DEF N
<1>6. Cardinality(rows') \in 0 .. N
  BY <1>4, <1>5
<1>7. Window' /\ due' = FALSE
      /\ (scroll_start' = 0 \/ scroll_start' + (lines' - 2) <= Cardinality(rows'))
  BY <1>1, <1>6, Drawn
<1>8. Shown'
  BY <1>2, <1>4, <1>6 DEF Shown, N, IsMap, OfServers
<1>9. Chosen'
  BY <1>1, <1>2 DEF Chosen
<1> QED
  BY <1>1, <1>2, <1>4, <1>7, <1>8, <1>9

\* The rows that count each entry that passes once, and RowsCountOnce in their words.
Counted(m, g, s) ==
  {[key |-> Key(g, i), value |-> Cardinality(Group(m, g, i))] :
     i \in {k \in DOMAIN m.value : Entries[k].server = s /\ Passes(g, k)}}

CountsOnce(R, m, g) == \A s \in m.servers : {r \in R : r.key.server = s} = Counted(m, g, s)

LEMMA CountOnceIs ==
  /\ RowsCountOnce <=> (~ lost => CountsOnce(rows, seen, by))
  /\ RowsCountOnce' <=> (~ lost' => CountsOnce(rows', seen', by'))
BY DEF RowsCountOnce, CountsOnce, Counted

LEMMA FullRefreshStep == IInv /\ FullRefresh => IInv'
<1> SUFFICES ASSUME IInv, FullRefresh PROVE IInv'
  OBVIOUS
<1>1. PICK m \in Published : Rebuild(m) /\ seen' = m
  BY DEF FullRefresh
<1>2. IsMap(m)
  BY PublishedIs
<1>3. /\ Shown' /\ Chosen' /\ Window' /\ due' = FALSE /\ by' = groupby
      /\ (scroll_start' = 0 \/ scroll_start' + (lines' - 2) <= Cardinality(rows'))
      /\ \A s \in m.servers : {r \in rows' : r.key.server = s} = Rows(m, groupby, s)
  BY <1>1, <1>2, Rebuilt DEF IInv
<1>4. Loop'
  <2>1. lost' = lost /\ keys' = 0 /\ loop' = loop /\ due' = FALSE
    BY <1>1, <1>3 DEF FullRefresh, Rebuild
  <2>2. keys' \in 0 .. MaxKeys
    BY <2>1, BoundsAssumption
  <2> QED
    BY <2>1, <2>2, Zenon DEF IInv, Loop
<1>5. RowsCountOnce'
  <2>1. \A s : Rows(m, groupby, s) = Counted(m, groupby, s)
    BY LoadedRows DEF IInv, Chosen, Counted
  <2>2. CountsOnce(rows', seen', by')
    BY <1>1, <1>3, <2>1 DEF CountsOnce
  <2> QED
    BY <2>2, CountOnceIs
<1>6. WindowOverRows'
  BY <1>3 DEF WindowOverRows
<1> QED
  BY <1>3, <1>4, <1>5, <1>6 DEF IInv

LEMMA RefreshParseFailsStep == IInv /\ RefreshParseFails => IInv'
<1> SUFFICES ASSUME IInv, RefreshParseFails PROVE IInv'
  OBVIOUS
<1>1. Rebuild(map) /\ lost' = TRUE /\ seen' = seen /\ keys' = keys /\ loop' = loop
  BY DEF RefreshParseFails, Rebuild
<1>2. /\ Shown' /\ Chosen' /\ Window' /\ due' = FALSE
      /\ (scroll_start' = 0 \/ scroll_start' + (lines' - 2) <= Cardinality(rows'))
  BY <1>1, Rebuilt DEF IInv, Shown
<1>3. Loop'
  BY <1>1, <1>2 DEF IInv, Loop
<1>4. RowsCountOnce' /\ WindowOverRows'
  BY <1>1, <1>2, CountOnceIs DEF WindowOverRows
<1> QED
  BY <1>2, <1>3, <1>4 DEF IInv

LEMMA KeyedRefreshStep == IInv /\ KeyedRefresh => IInv'
<1> SUFFICES ASSUME IInv, KeyedRefresh PROVE IInv'
  OBVIOUS
<1>1. /\ Regroup(map) /\ Draw(Cardinality(rows))
      /\ UNCHANGED <<rows, by, lost, seen, groupby, lines, loop, keys>>
  BY DEF KeyedRefresh
<1>2. IsMap(map') /\ Screen' /\ group_tags' = groupby
  BY <1>1, Regrouped DEF IInv, Shown, Chosen
<1>3. Window' /\ due' = FALSE
      /\ (scroll_start' = 0 \/ scroll_start' + (lines' - 2) <= Cardinality(rows))
  BY <1>1, Drawn DEF IInv, Shown
<1>4. Shown'
  BY <1>1, <1>2 DEF IInv, Shown, N, IsMap, OfServers
<1>5. Chosen' /\ Loop'
  BY <1>1, <1>2, <1>3 DEF IInv, Chosen, Loop
<1>6. RowsCountOnce'
  BY <1>1, CountOnceIs DEF IInv
<1>7. WindowOverRows'
  BY <1>1, <1>3 DEF WindowOverRows
<1> QED
  BY <1>3, <1>4, <1>5, <1>6, <1>7 DEF IInv


LEMMA ResizeStep == IInv /\ Resize => IInv'
<1> SUFFICES ASSUME IInv, Resize PROVE IInv'
  OBVIOUS
<1>1. /\ lines' \in Heights /\ due' = TRUE
      /\ UNCHANGED <<data, groupby, da_refresh_flag, scroll_start, scroll_delta, loop, keys>>
  BY DEF Resize
<1>2. Shown' /\ Chosen' /\ Loop'
  BY <1>1, Zenon DEF IInv, Shown, Chosen, Loop, data, Screen, IsMap, N
<1>3. Window'
  BY <1>1 DEF IInv, Window, N, Far
<1>4. RowsCountOnce' /\ WindowOverRows'
  BY <1>1, CountOnceIs DEF IInv, WindowOverRows, data
<1> QED
  BY <1>2, <1>3, <1>4 DEF IInv

LEMMA PressedStep ==
  ASSUME IInv, Pressed, groupby' \in Groupings,
         scroll_delta' \in {0, -1, 1, -Far, Far} \cup Heights \cup {-h : h \in Heights}
  PROVE  IInv'
<1>1. /\ da_refresh_flag' = 0 /\ due' = TRUE /\ keys' = keys + 1 /\ keys < MaxKeys
      /\ UNCHANGED <<data, lines, scroll_start, loop>>
  BY DEF Pressed
<1>2. Shown' /\ Chosen'
  BY <1>1, Zenon DEF IInv, Shown, Chosen, data, Screen, IsMap, N
<1>3. Window'
  BY <1>1 DEF IInv, Window, N, Far
<1>4. Loop'
  <2>1. keys' \in 0 .. MaxKeys
    BY <1>1, BoundsAssumption DEF IInv, Loop
  <2> QED
    BY <1>1, <2>1, Zenon DEF IInv, Loop, data
<1>5. RowsCountOnce' /\ WindowOverRows'
  BY <1>1, CountOnceIs DEF IInv, WindowOverRows, data
<1> QED
  BY <1>2, <1>3, <1>4, <1>5 DEF IInv

LEMMA GroupKeyStep == IInv /\ GroupKey => IInv'
<1> SUFFICES ASSUME IInv, GroupKey PROVE IInv'
  OBVIOUS
<1>1. Pressed /\ groupby' \in Keys /\ scroll_delta' = scroll_delta
  BY DEF GroupKey
<1> QED
  BY <1>1, PressedStep DEF IInv, Window, Groupings

\* No delta is left when a key comes, so one key's delta is all there is.
LEMMA ScrollKeyStep == IInv /\ ScrollKey => IInv'
<1> SUFFICES ASSUME IInv, ScrollKey PROVE IInv'
  OBVIOUS
<1>1. PICK d \in {-1, 1, -lines, lines, -Far, Far} : scroll_delta' = scroll_delta + d
  BY DEF ScrollKey
<1>2. Pressed /\ groupby' = groupby /\ scroll_delta = 0
  BY DEF ScrollKey, Pressed, IInv, Window
<1>3. Far \in Nat
  BY EntriesAssumption, FS_CardinalityType DEF Far
<1>4. lines \in Heights /\ lines \in Nat
  BY BoundsAssumption DEF IInv, Window
<1>5. scroll_delta' = d
  BY <1>1, <1>2, <1>3, <1>4
<1> QED
  BY <1>2, <1>4, <1>5, PressedStep DEF IInv, Chosen

LEMMA OtherKeyStep == IInv /\ OtherKey => IInv'
  BY PressedStep DEF IInv, OtherKey, Chosen, Window

\* The steps that draw nothing and change neither the rows nor the window.
LEMMA QuietStep ==
  IInv /\ (RefreshBlocks \/ TimerExpires \/ Quit \/ UNCHANGED vars) => IInv'
<1> SUFFICES ASSUME IInv, RefreshBlocks \/ TimerExpires \/ Quit \/ UNCHANGED vars PROVE IInv'
  OBVIOUS
<1>1. /\ UNCHANGED <<data, groupby, da_refresh_flag, lines, scroll_start, scroll_delta, keys>>
      /\ (due' = due \/ due' = TRUE)
      /\ (loop' = loop \/ loop' = "blocked" \/ loop' = "ended")
  BY DEF RefreshBlocks, TimerExpires, Quit, vars
<1>2. Shown' /\ Chosen'
  BY <1>1, Zenon DEF IInv, Shown, Chosen, data, Screen, IsMap, N
<1>3. Window'
  BY <1>1 DEF IInv, Window, N, Far
<1>4. Loop'
  BY <1>1, Zenon DEF IInv, Loop, data
<1>5. RowsCountOnce' /\ WindowOverRows'
  BY <1>1, CountOnceIs DEF IInv, WindowOverRows, data
<1> QED
  BY <1>2, <1>3, <1>4, <1>5 DEF IInv

\* Whatever keys, sizes, loads and failed parses come in whatever order, the map
\* is one of numbers of entries, every row of screen_map is led by an entry of its
\* server, and the window fits (screen.c 400-543).
THEOREM InvariantHolds == Spec => []IInv
<1>1. Init => IInv
  BY InitHolds
<1>2. IInv /\ [Next]_vars => IInv'
  BY FullRefreshStep, RefreshParseFailsStep, KeyedRefreshStep, ResizeStep, GroupKeyStep,
     ScrollKeyStep, OtherKeyStep, QuietStep DEF Next
<1> QED
  BY <1>1, <1>2, PTL DEF Spec

\* Grouping in place leaves numbers of entries in a map of the servers it names,
\* there are never more rows than entries, and a key scrolls by its own distance
\* only (stats.c 103, screen.c 492-541).
THEOREM TypeCorrect == Spec => []TypeOK
<1>1. IInv => TypeOK
  <2> SUFFICES ASSUME IInv PROVE TypeOK
    OBVIOUS
  <2>1. /\ map.servers \subseteq Servers /\ DOMAIN map.value \subseteq OfServers(map.servers)
        /\ \A i \in DOMAIN map.value : map.value[i] \in Nat \ {0}
    BY MapHas DEF IInv, Shown
  <2>2. screen_map \in [Servers -> SUBSET AllRows] /\ rows \subseteq AllRows /\ seen \in Published
    BY DEF IInv, Shown, Screen
  <2>3. {groupby, group_tags, by} \subseteq Groupings
    BY DEF IInv, Chosen
  <2>4. /\ lines \in Heights /\ scroll_start \in 0 .. Cardinality(DOMAIN Entries) + 2
        /\ scroll_delta \in {0, -1, 1, -Far, Far} \cup Heights \cup {-h : h \in Heights}
        /\ da_refresh_flag \in {0, 1}
    BY Zenon DEF IInv, Window, N
  <2>5. /\ due \in BOOLEAN /\ lost \in BOOLEAN
        /\ loop \in {"running", "blocked", "ended"} /\ keys \in 0 .. MaxKeys
    BY Zenon DEF IInv, Loop
  <2> QED
    BY <2>1, <2>2, <2>3, <2>4, <2>5, Zenon DEF TypeOK
<1> QED
  BY <1>1, InvariantHolds, PTL

\* What keys do to the map is never shown: the rows are always those of one grouping
\* of the map as it was last loaded, each entry that passes counted in one row
\* (add_stats 103 in place; screen.c 183 and 473 rebuild only after a load).
THEOREM RowsCountOnceHolds == Spec => []RowsCountOnce
<1>1. IInv => RowsCountOnce
  BY DEF IInv
<1> QED
  BY <1>1, InvariantHolds, PTL

\* Keys and new heights that come between a load that loses rows and the drawing
\* never leave the window beyond the rows (screen.c 492-541).
THEOREM WindowOverRowsHolds == Spec => []WindowOverRows
<1>1. IInv => WindowOverRows
  BY DEF IInv
<1> QED
  BY <1>1, InvariantHolds, PTL


=============================================================================
