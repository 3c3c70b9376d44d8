--------------------------------- MODULE Sums ---------------------------------
(***************************************************************************)
(* What SumFunctionOnSet of the Functions module gives, for the proofs of  *)
(* HostMap, Collect and Viewer, which add up counters, entries and rates.  *)
(* What its recursion returns follows from the uniqueness of the function  *)
(* it recurs through; an induction over a finite set is an argument about  *)
(* a smallest subset that is bad.                                          *)
(***************************************************************************)
EXTENDS Integers, Functions, FiniteSetTheorems, WellFoundedInduction, TLAPS

OneOf(s) == CHOOSE x \in s : TRUE

\* f is what SumFunctionOnSet recurs through.
IsSum(f, d, S) ==
  f = [s \in SUBSET S |-> IF s = {} THEN 0 ELSE d[OneOf(s)] + f[s \ {OneOf(s)}]]

LEMMA SmallestSubset ==
  ASSUME NEW S, IsFiniteSet(S), NEW T, T \subseteq SUBSET S, T # {}
  PROVE  \E u \in T : \A v \in T : v \subseteq u => v = u
<1>1. IsWellFoundedOn(StrictSubsetOrdering(S), SUBSET S)
  BY FS_StrictSubsetOrderingWellFounded, FS_FiniteSubsetsOfFinite
<1>2. PICK u \in T : \A v \in T : ~ (<<v, u>> \in StrictSubsetOrdering(S))
  BY <1>1, WFMin
<1>3. ASSUME NEW v \in T, v \subseteq u, v # u PROVE FALSE
  BY <1>2, <1>3 DEF StrictSubsetOrdering
<1> QED
  BY <1>3

LEMMA OneOfIsOne == ASSUME NEW s, s # {} PROVE OneOf(s) \in s
  BY DEF OneOf

LEMMA SumUnique ==
  ASSUME NEW S, IsFiniteSet(S), NEW T \in SUBSET S, NEW d, NEW f, NEW g,
         IsSum(f, d, S), IsSum(g, d, T)
  PROVE  \A u \in SUBSET T : f[u] = g[u]
<1> DEFINE Bad == {u \in SUBSET T : f[u] # g[u]}
<1> SUFFICES ASSUME Bad # {} PROVE FALSE
  OBVIOUS
<1>1. IsFiniteSet(T)
  BY FS_Subset
<1>2. PICK u \in Bad : \A v \in Bad : v \subseteq u => v = u
  <2> HIDE DEF Bad
  <2>1. Bad \subseteq SUBSET T
    BY DEF Bad
  <2> QED
    BY <1>1, <2>1, SmallestSubset
<1>3. f[u] = IF u = {} THEN 0 ELSE d[OneOf(u)] + f[u \ {OneOf(u)}]
  BY DEF IsSum
<1>4. g[u] = IF u = {} THEN 0 ELSE d[OneOf(u)] + g[u \ {OneOf(u)}]
  BY DEF IsSum
<1>5. CASE u # {}
  <2>1. OneOf(u) \in u
    BY <1>5, OneOfIsOne
  <2>2. f[u \ {OneOf(u)}] = g[u \ {OneOf(u)}]
    BY <1>2, <2>1
  <2> QED
    BY <1>3, <1>4, <2>2
<1> QED
  BY <1>3, <1>4, <1>5

LEMMA SumExists ==
  ASSUME NEW S, IsFiniteSet(S), NEW d
  PROVE  \E f : IsSum(f, d, S)
<1> DEFINE Bad == {u \in SUBSET S : ~ \E f : IsSum(f, d, u)}
<1> SUFFICES ASSUME Bad # {} PROVE FALSE
  OBVIOUS
<1>1. PICK u \in Bad : \A v \in Bad : v \subseteq u => v = u
  <2> HIDE DEF Bad
  <2>1. Bad \subseteq SUBSET S
    BY DEF Bad
  <2> QED
    BY <2>1, SmallestSubset
<1> DEFINE G(v) == CHOOSE g : IsSum(g, d, v)
           F == [s \in SUBSET u |-> IF s = {} THEN 0
                   ELSE d[OneOf(s)] + G(s \ {OneOf(s)})[s \ {OneOf(s)}]]
<1>2. ASSUME NEW v \in SUBSET u, v # u PROVE IsFiniteSet(v) /\ IsSum(G(v), d, v)
  <2>1. \E g : IsSum(g, d, v)
    BY <1>1, <1>2
  <2>2. IsFiniteSet(v)
    BY FS_Subset
  <2> QED
    BY <2>1, <2>2
<1>3. ASSUME NEW s \in SUBSET u, s # {} PROVE F[s \ {OneOf(s)}] = G(s \ {OneOf(s)})[s \ {OneOf(s)}]
  <2> DEFINE r == s \ {OneOf(s)}
             q == r \ {OneOf(r)}
  <2>1. r \in SUBSET u /\ r # u
    BY <1>3, OneOfIsOne
  <2>2. IsFiniteSet(r) /\ IsSum(G(r), d, r)
    BY <1>2, <2>1
  <2>3. CASE r = {}
    <3>1. F[r] = 0
      BY <2>1, <2>3
    <3>2. G(r)[r] = 0
      <4> HIDE DEF G, r
      <4> QED
        BY <2>2, <2>3 DEF IsSum
    <3> QED
      BY <3>1, <3>2
  <2>4. CASE r # {}
    <3>1. OneOf(r) \in r /\ q \in SUBSET r /\ q # u /\ q \in SUBSET u
      BY <2>1, <2>4, OneOfIsOne
    <3>2. IsSum(G(q), d, q)
      BY <1>2, <3>1
    <3>3. G(r)[q] = G(q)[q]
      <4> HIDE DEF G, q, r
      <4> QED
        BY <2>2, <3>1, <3>2, SumUnique
    <3>4. G(r)[r] = d[OneOf(r)] + G(r)[q]
      <4> HIDE DEF G, r
      <4> QED
        BY <2>2, <2>4 DEF IsSum
    <3>5. F[r] = d[OneOf(r)] + G(q)[q]
      BY <2>1, <2>4
    <3> QED
      BY <3>3, <3>4, <3>5
  <2> QED
    BY <2>3, <2>4
<1>4. IsSum(F, d, u)
  <2> DEFINE H == [s \in SUBSET u |-> IF s = {} THEN 0 ELSE d[OneOf(s)] + F[s \ {OneOf(s)}]]
  <2>1. ASSUME NEW s \in SUBSET u PROVE F[s] = H[s]
    <3>1. CASE s = {}
      BY <3>1
    <3>2. CASE s # {}
      <4>1. F[s \ {OneOf(s)}] = G(s \ {OneOf(s)})[s \ {OneOf(s)}]
        BY <1>3, <3>2
      <4>2. F[s] = d[OneOf(s)] + G(s \ {OneOf(s)})[s \ {OneOf(s)}]
        BY <3>2
      <4>3. H[s] = d[OneOf(s)] + F[s \ {OneOf(s)}]
        BY <3>2
      <4> QED
        BY <4>1, <4>2, <4>3
    <3> QED
      BY <3>1, <3>2
  <2>2. F = H
    BY <2>1
  <2> QED
    BY <2>2 DEF IsSum
<1> QED
  BY <1>1, <1>4

\* SumFunctionOnSet is what its recursion says, which IsSum says of one function.
LEMMA SumIs ==
  ASSUME NEW S, IsFiniteSet(S), NEW d, NEW f, IsSum(f, d, S)
  PROVE  SumFunctionOnSet(d, S) = f[S]
<1> DEFINE g == CHOOSE h : h = [s \in SUBSET S |-> IF s = {} THEN 0
                                 ELSE d[CHOOSE x \in s : TRUE] + h[s \ {CHOOSE x \in s : TRUE}]]
<1>1. SumFunctionOnSet(d, S) = g[S]
  BY DEF SumFunctionOnSet, FoldFunctionOnSet, MapThenFoldSet
<1>2. IsSum(g, d, S)
  BY DEF IsSum, OneOf
<1>3. f[S] = g[S]
  <2> HIDE DEF g
  <2> QED
    BY <1>2, SumUnique
<1> QED
  BY <1>1, <1>3

LEMMA SumStep ==
  ASSUME NEW S, IsFiniteSet(S), NEW d
  PROVE  SumFunctionOnSet(d, S)
           = IF S = {} THEN 0 ELSE d[OneOf(S)] + SumFunctionOnSet(d, S \ {OneOf(S)})
<1>1. PICK f : IsSum(f, d, S)
  BY SumExists
<1>2. SumFunctionOnSet(d, S) = f[S]
  BY <1>1, SumIs
<1>3. CASE S = {}
  BY <1>1, <1>2, <1>3 DEF IsSum
<1>4. CASE S # {}
  <2> DEFINE T == S \ {OneOf(S)}
  <2>1. IsFiniteSet(T) /\ T \in SUBSET S
    BY FS_Subset
  <2>2. PICK g : IsSum(g, d, T)
    BY <2>1, SumExists
  <2>3. SumFunctionOnSet(d, T) = g[T]
    BY <2>1, <2>2, SumIs
  <2>4. f[T] = g[T]
    <3> HIDE DEF T
    <3> QED
      BY <1>1, <2>1, <2>2, SumUnique
  <2>5. f[S] = d[OneOf(S)] + f[T]
    BY <1>1, <1>4 DEF IsSum
  <2> QED
    BY <1>2, <1>4, <2>3, <2>4, <2>5
<1> QED
  BY <1>3, <1>4

\* Terms that are integers on S have an integer sum, and naturals a natural one.
LEMMA SumType ==
  ASSUME NEW S, IsFiniteSet(S), NEW d, NEW V, V \in {Nat, Int}, \A x \in S : d[x] \in V
  PROVE  SumFunctionOnSet(d, S) \in V
<1> DEFINE Bad == {u \in SUBSET S : SumFunctionOnSet(d, u) \notin V}
<1> SUFFICES ASSUME Bad # {} PROVE FALSE
  OBVIOUS
<1>1. PICK u \in Bad : \A v \in Bad : v \subseteq u => v = u
  <2>1. Bad \subseteq SUBSET S
    OBVIOUS
  <2> HIDE DEF Bad
  <2> QED
    BY <2>1, SmallestSubset
<1> DEFINE r == u \ {OneOf(u)}
<1>2. SumFunctionOnSet(d, u) = IF u = {} THEN 0 ELSE d[OneOf(u)] + SumFunctionOnSet(d, r)
  <2>1. IsFiniteSet(u)
    BY FS_Subset
  <2> QED
    BY <2>1, SumStep
<1>3. u # {} => OneOf(u) \in u /\ d[OneOf(u)] \in V /\ SumFunctionOnSet(d, r) \in V
  BY <1>1, OneOfIsOne
<1> HIDE DEF r
<1>4. SumFunctionOnSet(d, u) \in V
  BY <1>2, <1>3
<1> QED
  BY <1>1, <1>4

\* Any element can be taken out of a sum.
LEMMA SumWithout ==
  ASSUME NEW S, IsFiniteSet(S), NEW d, \A x \in S : d[x] \in Int
  PROVE  \A x \in S : SumFunctionOnSet(d, S) = d[x] + SumFunctionOnSet(d, S \ {x})
<1> DEFINE Bad == {u \in SUBSET S :
                     \E x \in u : SumFunctionOnSet(d, u) # d[x] + SumFunctionOnSet(d, u \ {x})}
<1> SUFFICES ASSUME Bad # {} PROVE FALSE
  OBVIOUS
<1>1. PICK u \in Bad : \A v \in Bad : v \subseteq u => v = u
  <2>1. Bad \subseteq SUBSET S
    OBVIOUS
  <2> HIDE DEF Bad
  <2> QED
    BY <2>1, SmallestSubset
<1>2. PICK x \in u : SumFunctionOnSet(d, u) # d[x] + SumFunctionOnSet(d, u \ {x})
  BY <1>1
<1> DEFINE p == OneOf(u)
<1>3. p \in u /\ SumFunctionOnSet(d, u) = d[p] + SumFunctionOnSet(d, u \ {p})
  <2>1. IsFiniteSet(u)
    BY FS_Subset
  <2> QED
    BY <2>1, SumStep, OneOfIsOne
<1>4. p # x
  BY <1>2, <1>3
<1>5. u \ {p} \notin Bad /\ u \ {x} \notin Bad
  BY <1>1, <1>2, <1>3
<1> HIDE DEF p
<1>6. SumFunctionOnSet(d, u \ {p}) = d[x] + SumFunctionOnSet(d, (u \ {p}) \ {x})
  BY <1>2, <1>3, <1>4, <1>5
<1>7. SumFunctionOnSet(d, u \ {x}) = d[p] + SumFunctionOnSet(d, (u \ {x}) \ {p})
  BY <1>2, <1>3, <1>4, <1>5
<1>8. (u \ {x}) \ {p} = (u \ {p}) \ {x}
  OBVIOUS
<1>9. d[x] \in Int /\ d[p] \in Int /\ SumFunctionOnSet(d, (u \ {p}) \ {x}) \in Int
  <2>1. IsFiniteSet((u \ {p}) \ {x}) /\ (u \ {p}) \ {x} \subseteq S
    BY FS_Subset
  <2>2. \A y \in (u \ {p}) \ {x} : d[y] \in Int
    BY <2>1
  <2> QED
    BY <1>2, <1>3, <2>1, <2>2, SumType
<1> DEFINE w == SumFunctionOnSet(d, (u \ {p}) \ {x})
<1>10. SumFunctionOnSet(d, u) = d[p] + (d[x] + w) /\ SumFunctionOnSet(d, u \ {x}) = d[p] + w
  BY <1>3, <1>6, <1>7, <1>8
<1>11. d[x] \in Int /\ d[p] \in Int /\ w \in Int
  BY <1>9
<1> HIDE DEF w
<1>12. d[p] + (d[x] + w) = d[x] + (d[p] + w)
  BY <1>11
<1> QED
  BY <1>2, <1>10, <1>12

\* A sum depends on its terms only.
LEMMA SumSame ==
  ASSUME NEW S, IsFiniteSet(S), NEW d, NEW e, \A x \in S : d[x] = e[x]
  PROVE  SumFunctionOnSet(d, S) = SumFunctionOnSet(e, S)
<1>1. PICK f : IsSum(f, d, S)
  BY SumExists
<1>2. IsSum(f, e, S)
  <2>1. \A s \in SUBSET S : s # {} => d[OneOf(s)] = e[OneOf(s)]
    BY OneOfIsOne
  <2>2. [s \in SUBSET S |-> IF s = {} THEN 0 ELSE d[OneOf(s)] + f[s \ {OneOf(s)}]]
          = [s \in SUBSET S |-> IF s = {} THEN 0 ELSE e[OneOf(s)] + f[s \ {OneOf(s)}]]
    BY <2>1
  <2> QED
    BY <1>1, <2>2 DEF IsSum
<1> QED
  BY <1>1, <1>2, SumIs

\* Nothing but zeroes add up to zero.
LEMMA SumZero ==
  ASSUME NEW S, IsFiniteSet(S), NEW d, \A x \in S : d[x] = 0
  PROVE  SumFunctionOnSet(d, S) = 0
<1> DEFINE Bad == {u \in SUBSET S : SumFunctionOnSet(d, u) # 0}
<1> SUFFICES ASSUME Bad # {} PROVE FALSE
  OBVIOUS
<1>1. PICK u \in Bad : \A v \in Bad : v \subseteq u => v = u
  <2>1. Bad \subseteq SUBSET S
    OBVIOUS
  <2> HIDE DEF Bad
  <2> QED
    BY <2>1, SmallestSubset
<1>2. SumFunctionOnSet(d, u) = IF u = {} THEN 0 ELSE d[OneOf(u)] + SumFunctionOnSet(d, u \ {OneOf(u)})
  <2>1. IsFiniteSet(u)
    BY FS_Subset
  <2> QED
    BY <2>1, SumStep
<1>3. u # {} => OneOf(u) \in u /\ d[OneOf(u)] = 0 /\ SumFunctionOnSet(d, u \ {OneOf(u)}) = 0
  BY <1>1, OneOfIsOne
<1> QED
  BY <1>1, <1>2, <1>3

\* The sum over S is that of the sums over the parts a tag makes of S.
LEMMA SumOfParts ==
  ASSUME NEW S, IsFiniteSet(S), NEW J, IsFiniteSet(J), NEW d, \A x \in S : d[x] \in Int,
         NEW tag, \A x \in S : tag[x] \in J
  PROVE  SumFunctionOnSet([j \in J |-> SumFunctionOnSet(d, {x \in S : tag[x] = j})], J)
           = SumFunctionOnSet(d, S)
<1> DEFINE Part(u, j) == {x \in u : tag[x] = j}
           Parts(u) == [j \in J |-> SumFunctionOnSet(d, Part(u, j))]
           Bad == {u \in SUBSET S : SumFunctionOnSet(Parts(u), J) # SumFunctionOnSet(d, u)}
<1> SUFFICES ASSUME Bad # {} PROVE FALSE
  OBVIOUS
<1>1. PICK u \in Bad : \A v \in Bad : v \subseteq u => v = u
  <2>1. Bad \subseteq SUBSET S
    OBVIOUS
  <2> HIDE DEF Bad
  <2> QED
    BY <2>1, SmallestSubset
<1>2. CASE u = {}
  <2>1. \A j \in J : Part(u, j) = {}
    BY <1>2
  <2>2. SumFunctionOnSet(d, {}) = 0
    BY SumStep, FS_EmptySet
  <2>3. \A j \in J : Parts(u)[j] = 0
    BY <2>1, <2>2
  <2>4. SumFunctionOnSet(Parts(u), J) = 0
    <3> HIDE DEF Parts
    <3> QED
      BY <2>3, SumZero
  <2> QED
    BY <1>1, <1>2, <2>2, <2>4
<1>3. CASE u # {}
  <2>1. PICK x \in u : TRUE
    BY <1>3
  <2> DEFINE r == u \ {x}
             k == tag[x]
  <2>2. k \in J /\ r \in SUBSET S /\ r \notin Bad
    BY <1>1, <2>1
  <2>3. Part(u, k) \ {x} = Part(r, k) /\ x \in Part(u, k)
    BY <2>1
  <2>4. \A j \in J \ {k} : Part(u, j) = Part(r, j)
    BY <2>1
  <2>5. \A j \in J : IsFiniteSet(Part(u, j)) /\ IsFiniteSet(Part(r, j))
    <3>1. \A j \in J : Part(u, j) \subseteq S /\ Part(r, j) \subseteq S
      BY <2>2
    <3> QED
      BY <3>1, FS_Subset
  <2>6. \A j \in J : Parts(u)[j] \in Int /\ Parts(r)[j] \in Int
    <3>1. \A j \in J : \A y \in Part(u, j) \cup Part(r, j) : d[y] \in Int
      BY <2>2
    <3>2. \A j \in J : SumFunctionOnSet(d, Part(u, j)) \in Int /\ SumFunctionOnSet(d, Part(r, j)) \in Int
      <4> HIDE DEF Part, r
      <4> QED
        BY <2>5, <3>1, SumType
    <3> QED
      BY <3>2
  <2>7. Parts(u)[k] = d[x] + Parts(r)[k]
    <3>1. \A y \in Part(u, k) : d[y] \in Int
      BY <2>2
    <3>2. SumFunctionOnSet(d, Part(u, k)) = d[x] + SumFunctionOnSet(d, Part(u, k) \ {x})
      <4> HIDE DEF Part, k
      <4> QED
        BY <2>2, <2>3, <2>5, <3>1, SumWithout
    <3> QED
      BY <2>2, <2>3, <3>2
  <2>8. SumFunctionOnSet(Parts(u), J \ {k}) = SumFunctionOnSet(Parts(r), J \ {k})
    <3>1. IsFiniteSet(J \ {k}) /\ \A j \in J \ {k} : Parts(u)[j] = Parts(r)[j]
      BY <2>4, FS_Subset
    <3> HIDE DEF Parts, r, k
    <3> QED
      BY <3>1, SumSame
  <2>9. /\ SumFunctionOnSet(Parts(u), J) = Parts(u)[k] + SumFunctionOnSet(Parts(u), J \ {k})
        /\ SumFunctionOnSet(Parts(r), J) = Parts(r)[k] + SumFunctionOnSet(Parts(r), J \ {k})
    <3> HIDE DEF Parts, r, k
    <3> QED
      BY <2>2, <2>6, SumWithout
  <2>10. SumFunctionOnSet(Parts(r), J) = SumFunctionOnSet(d, r)
    BY <2>2
  <2>11. SumFunctionOnSet(d, u) = d[x] + SumFunctionOnSet(d, r)
    <3>1. IsFiniteSet(u) /\ \A y \in u : d[y] \in Int
      BY FS_Subset
    <3> QED
      BY <2>1, <3>1, SumWithout
  <2>12. SumFunctionOnSet(Parts(r), J \ {k}) \in Int
    <3>1. IsFiniteSet(J \ {k}) /\ \A j \in J \ {k} : Parts(r)[j] \in Int
      BY <2>6, FS_Subset
    <3> HIDE DEF Parts, r, k
    <3> QED
      BY <3>1, SumType
  <2>13. SumFunctionOnSet(Parts(u), J) # SumFunctionOnSet(d, u)
    BY <1>1
  <2> DEFINE a == d[x]
             b == Parts(r)[k]
             w == SumFunctionOnSet(Parts(r), J \ {k})
  <2>14. a \in Int /\ b \in Int /\ w \in Int
    BY <2>1, <2>2, <2>6, <2>12
  <2>15. /\ SumFunctionOnSet(Parts(u), J) = (a + b) + w
         /\ SumFunctionOnSet(d, u) = a + (b + w)
    <3> HIDE DEF Parts, r, k
    <3> QED
      BY <2>7, <2>8, <2>9, <2>10, <2>11
  <2> HIDE DEF a, b, w, Parts
  <2> QED
    BY <2>13, <2>14, <2>15
<1> QED
  BY <1>2, <1>3

LEMMA SumPositive ==
  ASSUME NEW S, IsFiniteSet(S), S # {}, NEW d, \A x \in S : d[x] \in Nat \ {0}
  PROVE  SumFunctionOnSet(d, S) \in Nat \ {0}
<1> DEFINE one == OneOf(S)
           rest == SumFunctionOnSet(d, S \ {OneOf(S)})
<1>1. SumFunctionOnSet(d, S) = d[one] + rest
  BY SumStep
<1>2. d[one] \in Nat \ {0}
  BY OneOfIsOne
<1>3. rest \in Nat
  <2>1. IsFiniteSet(S \ {OneOf(S)}) /\ \A x \in S \ {OneOf(S)} : d[x] \in Nat
    BY FS_Subset
  <2> QED
    BY <2>1, SumType
<1> HIDE DEF one, rest
<1> QED
  BY <1>1, <1>2, <1>3

\* Ones add up to their number.
LEMMA SumOnes ==
  ASSUME NEW S, IsFiniteSet(S), NEW d, \A x \in S : d[x] = 1
  PROVE  SumFunctionOnSet(d, S) = Cardinality(S)
<1> DEFINE Bad == {u \in SUBSET S : SumFunctionOnSet(d, u) # Cardinality(u)}
<1> SUFFICES ASSUME Bad # {} PROVE FALSE
  OBVIOUS
<1>1. PICK u \in Bad : \A v \in Bad : v \subseteq u => v = u
  <2>1. Bad \subseteq SUBSET S
    OBVIOUS
  <2> HIDE DEF Bad
  <2> QED
    BY <2>1, SmallestSubset
<1>2. IsFiniteSet(u) /\ Cardinality(u) \in Nat
  BY FS_Subset, FS_CardinalityType
<1>3. SumFunctionOnSet(d, u) = IF u = {} THEN 0 ELSE d[OneOf(u)] + SumFunctionOnSet(d, u \ {OneOf(u)})
  BY <1>2, SumStep
<1>4. CASE u = {}
  BY <1>1, <1>3, <1>4, FS_EmptySet
<1>5. CASE u # {}
  <2> DEFINE one == OneOf(u)
             r == u \ {one}
  <2>1. one \in u /\ d[one] = 1
    BY <1>5, OneOfIsOne
  <2>2. SumFunctionOnSet(d, r) = Cardinality(r)
    BY <1>1, <2>1
  <2>3. Cardinality(r) = Cardinality(u) - 1
    <3> HIDE DEF one
    <3> QED
      BY <1>2, <2>1, FS_RemoveElement
  <2>4. SumFunctionOnSet(d, u) = 1 + (Cardinality(u) - 1)
    BY <1>3, <1>5, <2>1, <2>2, <2>3
  <2> HIDE DEF r, one
  <2> QED
    BY <1>1, <1>2, <2>4
<1> QED
  BY <1>4, <1>5
===============================================================================
