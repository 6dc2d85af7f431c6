---------------------------- MODULE ReportsProofs ----------------------------
(* Theorems about Reports, for any blocks, any queries and any parameters of  *)
(* the reports; and the lemmas about the sums of Aggregates that they need.   *)
EXTENDS Reports, SetInduction, SequenceTheorems

-----------------------------------------------------------------------------
(***************************************************************************)
(* Sums.  Total folds over the subsets of a function's domain, one chosen  *)
(* element after the other.  It is unfolded once here; what follows uses   *)
(* TotalType, TotalEmpty and TotalSplit only.                              *)
(***************************************************************************)
Pick(s) == CHOOSE x \in s : TRUE

Unfolds(it, f, D) ==
  it = [s \in D |-> IF s = {} THEN 0 ELSE f[Pick(s)] + it[s \ {Pick(s)}]]

Fold(f, D) == CHOOSE it : Unfolds(it, f, SUBSET D)

LEMMA TotalUnfolds ==
  ASSUME NEW f
  PROVE  Total(f) = Fold(f, DOMAIN f)[DOMAIN f]
  BY DEF Total, FoldFunction, FoldFunctionOnSet, MapThenFoldSet, Fold, Unfolds, Pick

\* The subsets of up to n elements.
UpTo(S, n) == {s \in SUBSET S : Cardinality(s) <= n}

LEMMA FoldExists ==
  ASSUME NEW S, IsFiniteSet(S), NEW f
  PROVE  \E it : Unfolds(it, f, SUBSET S)
  <1> DEFINE N == {n \in Nat : \E it : Unfolds(it, f, UpTo(S, n))}
  <1>1. \A s \in SUBSET S : IsFiniteSet(s) /\ Cardinality(s) \in Nat
    BY FS_Subset, FS_CardinalityType
  <1>2. \A s \in SUBSET S : s # {} => Cardinality(s \ {Pick(s)}) = Cardinality(s) - 1
    BY <1>1, FS_RemoveElement DEF Pick
  <1>3. 0 \in N
    <2>1. \A s \in UpTo(S, 0) : s = {}
      BY <1>1, FS_EmptySet DEF UpTo
    <2>2. Unfolds([s \in UpTo(S, 0) |-> 0], f, UpTo(S, 0))
      BY <2>1 DEF Unfolds
    <2> QED
      BY <2>2
  <1>4. ASSUME NEW n \in N PROVE n + 1 \in N
    <2>1. PICK it : Unfolds(it, f, UpTo(S, n))
      OBVIOUS
    <2> DEFINE next == [s \in UpTo(S, n + 1) |-> IF s = {} THEN 0 ELSE f[Pick(s)] + it[s \ {Pick(s)}]]
    <2>2. \A s \in UpTo(S, n + 1) : s # {} => s \ {Pick(s)} \in UpTo(S, n)
      BY <1>1, <1>2 DEF UpTo
    <2>3. \A s \in UpTo(S, n) : s \in UpTo(S, n + 1)
      BY <1>1 DEF UpTo
    <2>4. \A s \in UpTo(S, n) : next[s] = it[s]
      BY <2>1, <2>3 DEF Unfolds
    <2>5. Unfolds(next, f, UpTo(S, n + 1))
      BY <2>2, <2>4 DEF Unfolds
    <2> QED
      BY <2>5
  <1>5. Cardinality(S) \in N
    BY <1>1, <1>3, <1>4, NatSetInduction
  <1>6. UpTo(S, Cardinality(S)) = SUBSET S
    BY FS_Subset DEF UpTo
  <1> QED
    BY <1>5, <1>6

\* The fold of a set is the value of any of its elements and the fold of the others.
TakesAny(it, f, s) == it[s] \in Int /\ \A x \in s : it[s] = f[x] + it[s \ {x}]

LEMMA FoldStep ==
  ASSUME NEW s, NEW f, \A x \in s : f[x] \in Int, NEW it,
         NEW y \in s, it[s] = f[y] + it[s \ {y}],
         \A x \in s : TakesAny(it, f, s \ {x}),
         \A x, z \in s : it[(s \ {x}) \ {z}] \in Int
  PROVE  TakesAny(it, f, s)
  <1>1. it[s] \in Int
    BY DEF TakesAny
  <1>2. ASSUME NEW x \in s, x # y PROVE it[s] = f[x] + it[s \ {x}]
    <2>1. (s \ {y}) \ {x} = (s \ {x}) \ {y} /\ x \in s \ {y} /\ y \in s \ {x}
      BY <1>2
    <2>2. it[s \ {y}] = f[x] + it[(s \ {y}) \ {x}]
      BY <2>1 DEF TakesAny
    <2>3. it[s \ {x}] = f[y] + it[(s \ {x}) \ {y}]
      BY <2>1 DEF TakesAny
    <2>4. it[(s \ {y}) \ {x}] = it[(s \ {x}) \ {y}]
      BY <2>1
    <2> QED
      BY <2>2, <2>3, <2>4
  <1> QED
    BY <1>1, <1>2 DEF TakesAny

LEMMA FoldTakesAny ==
  ASSUME NEW S, IsFiniteSet(S), NEW f \in [S -> Int], NEW it, Unfolds(it, f, SUBSET S)
  PROVE  it[{}] = 0 /\ \A s \in SUBSET S : TakesAny(it, f, s)
  <1> DEFINE N == {n \in Nat : \A s \in UpTo(S, n) : TakesAny(it, f, s)}
  <1>1. \A s \in SUBSET S : IsFiniteSet(s) /\ Cardinality(s) \in Nat
    BY FS_Subset, FS_CardinalityType
  <1>2. \A s \in SUBSET S : \A x \in s : Cardinality(s \ {x}) = Cardinality(s) - 1
    BY <1>1, FS_RemoveElement
  <1>3. it[{}] = 0 /\ TakesAny(it, f, {})
    BY DEF Unfolds, TakesAny
  <1>4. ASSUME NEW s \in SUBSET S, s # {}
        PROVE  Pick(s) \in s /\ it[s] = f[Pick(s)] + it[s \ {Pick(s)}]
    BY <1>4 DEF Unfolds, Pick
  <1>5. 0 \in N
    <2>1. \A s \in UpTo(S, 0) : s = {}
      BY <1>1, FS_EmptySet DEF UpTo
    <2> QED
      BY <1>3, <2>1
  <1>6. ASSUME NEW n \in N PROVE n + 1 \in N
    <2>1. ASSUME NEW s \in UpTo(S, n + 1), s # {} PROVE TakesAny(it, f, s)
      <3>1. s \in SUBSET S
        BY <2>1 DEF UpTo
      <3>2. \A x \in s : s \ {x} \in UpTo(S, n) /\ f[x] \in Int
        BY <1>1, <1>2, <2>1, <3>1 DEF UpTo
      <3>3. \A x \in s : TakesAny(it, f, s \ {x})
        BY <3>2
      <3>4. ASSUME NEW x \in s, NEW z \in s PROVE it[(s \ {x}) \ {z}] \in Int
        <4>1. (s \ {x}) \ {z} \in UpTo(S, n)
          BY <1>1, <3>2, FS_Subset DEF UpTo
        <4> QED
          BY <4>1 DEF TakesAny
      <3>5. Pick(s) \in s /\ it[s] = f[Pick(s)] + it[s \ {Pick(s)}]
        BY <1>4, <2>1, <3>1
      <3> QED
        BY <3>2, <3>3, <3>4, <3>5, FoldStep
    <2> QED
      BY <1>3, <2>1
  <1>7. Cardinality(S) \in N
    BY <1>1, <1>5, <1>6, NatSetInduction
  <1>8. UpTo(S, Cardinality(S)) = SUBSET S
    BY FS_Subset DEF UpTo
  <1> QED
    BY <1>3, <1>7, <1>8

\* Folding a part of a function is folding the function over the part.
Part(g, T, f, S) ==
  /\ f \in [S -> Int] /\ g \in [T -> Int]
  /\ T \in SUBSET S /\ \A x \in T : g[x] = f[x]

LEMMA FoldOfPart ==
  ASSUME NEW S, NEW T, NEW f, NEW g, NEW it, NEW jt,
         IsFiniteSet(S), Part(g, T, f, S),
         Unfolds(it, f, SUBSET S), Unfolds(jt, g, SUBSET T)
  PROVE  jt[T] = it[T]
  <1> USE DEF Part
  <1> DEFINE F == {U \in SUBSET T : jt[U] = it[U]}
  <1>1. IsFiniteSet(T)
    BY FS_Subset
  <1>2. it[{}] = 0 /\ \A U \in SUBSET T : TakesAny(it, f, U)
    BY FoldTakesAny
  <1>3. jt[{}] = 0 /\ \A U \in SUBSET T : TakesAny(jt, g, U)
    BY <1>1, FoldTakesAny
  <1>4. ASSUME NEW U \in F, NEW x \in T \ U PROVE U \cup {x} \in F
    <2>1. PICK W : W = U \cup {x}
      OBVIOUS
    <2>2. U \in SUBSET T /\ W \in SUBSET T /\ x \in W /\ W \ {x} = U
      BY <2>1
    <2>3. TakesAny(it, f, W) /\ TakesAny(jt, g, W)
      BY <1>2, <1>3, <2>2
    <2>4. it[W] = f[x] + it[U] /\ jt[W] = g[x] + jt[U]
      BY <2>2, <2>3 DEF TakesAny
    <2>5. g[x] = f[x] /\ jt[U] = it[U]
      BY <1>4
    <2> QED
      BY <2>1, <2>2, <2>4, <2>5
  <1>5. T \in F
    BY <1>1, <1>2, <1>3, <1>4, FiniteSetInduction
  <1> QED
    BY <1>5

\* The sum of a function's values is the value at any argument and the sum of the others.
LEMMA TotalSplit ==
  ASSUME NEW S, IsFiniteSet(S), NEW f \in [S -> Int]
  PROVE  /\ Total(f) \in Int
         /\ S = {} => Total(f) = 0
         /\ \A x \in S : Total(f) = f[x] + Total([k \in S \ {x} |-> f[k]])
  <1>1. ASSUME NEW T \in SUBSET S, NEW g \in [T -> Int]
        PROVE  Total(g) = Fold(g, T)[T] /\ Unfolds(Fold(g, T), g, SUBSET T)
    <2>1. IsFiniteSet(T) /\ DOMAIN g = T
      BY FS_Subset
    <2> QED
      BY <2>1, FoldExists, TotalUnfolds DEF Fold
  <1>2. Total(f) = Fold(f, S)[S] /\ Unfolds(Fold(f, S), f, SUBSET S)
    BY <1>1
  <1>3. Fold(f, S)[{}] = 0 /\ TakesAny(Fold(f, S), f, S)
    BY <1>2, FoldTakesAny
  <1>4. ASSUME NEW x \in S, NEW T, T = S \ {x}, NEW g, g = [k \in T |-> f[k]]
        PROVE  Total(g) = Fold(f, S)[T]
    <2>1. g \in [T -> Int] /\ T \in SUBSET S /\ \A k \in T : g[k] = f[k]
      BY <1>4
    <2>2. Total(g) = Fold(g, T)[T] /\ Unfolds(Fold(g, T), g, SUBSET T)
      BY <1>1, <2>1
    <2>3. Part(g, T, f, S)
      BY <2>1 DEF Part
    <2>4. PICK it, jt : it = Fold(f, S) /\ jt = Fold(g, T)
      OBVIOUS
    <2>5. IsFiniteSet(S) /\ Unfolds(it, f, SUBSET S) /\ Unfolds(jt, g, SUBSET T)
      BY <1>2, <2>2, <2>4
    <2>6. jt[T] = it[T]
      BY ONLY <2>3, <2>5, FoldOfPart
    <2> QED
      BY <2>2, <2>4, <2>6
  <1> QED
    BY <1>2, <1>3, <1>4 DEF TakesAny

\* The sum of a function's values over a part of its domain.
Over(v, D) == Total([k \in D |-> v[k]])

LEMMA OverType ==
  ASSUME NEW S, NEW v, NEW D, IsFiniteSet(S), v \in [S -> Int], D \in SUBSET S
  PROVE  Over(v, D) \in Int
  <1>1. PICK f : f = [k \in D |-> v[k]]
    OBVIOUS
  <1>2. IsFiniteSet(D) /\ f \in [D -> Int]
    BY <1>1, FS_Subset
  <1>3. Total(f) \in Int
    BY <1>2, TotalSplit
  <1> QED
    BY <1>1, <1>3 DEF Over

LEMMA OverGrows ==
  ASSUME NEW S, NEW v, NEW D, NEW x,
         IsFiniteSet(S), v \in [S -> Int], D \in SUBSET S, x \in S \ D
  PROVE  Over(v, D \cup {x}) = v[x] + Over(v, D)
  <1>1. PICK E, f : E = D \cup {x} /\ f = [k \in E |-> v[k]]
    OBVIOUS
  <1>2. IsFiniteSet(E) /\ f \in [E -> Int] /\ x \in E
    BY <1>1, FS_Subset
  <1>3. Total(f) = f[x] + Total([k \in E \ {x} |-> f[k]])
    BY <1>2, TotalSplit
  <1>4. E \ {x} = D
    BY <1>1
  <1>5. [k \in D |-> f[k]] = [k \in D |-> v[k]] /\ f[x] = v[x]
    BY <1>1
  <1> QED
    BY <1>1, <1>3, <1>4, <1>5 DEF Over

LEMMA TotalNothing == ASSUME NEW f, DOMAIN f = {} PROVE Total(f) = 0
  <1>1. PICK g : g = [k \in {} |-> 0]
    OBVIOUS
  <1>2. g \in [{} -> Int] /\ IsFiniteSet({})
    BY <1>1, FS_EmptySet
  <1>3. Total(g) = 0
    BY <1>2, TotalSplit
  <1>4. Total(f) = Fold(f, {})[{}] /\ Total(g) = Fold(g, {})[{}]
    BY <1>1, TotalUnfolds
  <1>5. Unfolds(Fold(f, {}), f, SUBSET {})
    BY <1>2, FoldExists DEF Fold
  <1> QED
    BY <1>4, <1>5 DEF Unfolds

LEMMA OverNothing == ASSUME NEW v PROVE Over(v, {}) = 0
  BY TotalNothing DEF Over

LEMMA OverAll == ASSUME NEW K, NEW v, v \in [K -> Int] PROVE Over(v, K) = Total(v)
  <1>1. [k \in K |-> v[k]] = v
    OBVIOUS
  <1> QED
    BY <1>1 DEF Over

-----------------------------------------------------------------------------
(***************************************************************************)
(* GROUP BY: what is counted or added up per group adds up to the whole.   *)
(***************************************************************************)
Additive(m, S) ==
  /\ m \in [SUBSET S -> Int]
  /\ m[{}] = 0
  /\ \A A, B \in SUBSET S : A \cap B = {} => m[A \cup B] = m[A] + m[B]

Group(S, key, k) == {h \in S : key[h] = k}

PerGroup(m, S, K, key) == [k \in K |-> m[Group(S, key, k)]]

LEMMA GroupsAddUp ==
  ASSUME NEW S, NEW K, NEW key, NEW m, IsFiniteSet(K), key \in [S -> K], Additive(m, S)
  PROVE  Total(PerGroup(m, S, K, key)) = m[S]
  <1>1. PICK v : v = PerGroup(m, S, K, key)
    OBVIOUS
  <1>2. v \in [K -> Int]
    BY <1>1 DEF Additive, Group, PerGroup
  <1> DEFINE Of(D) == {h \in S : key[h] \in D}
             F == {D \in SUBSET K : Over(v, D) = m[Of(D)]}
  <1>3. {} \in F
    <2>1. Of({}) = {}
      OBVIOUS
    <2> QED
      BY <2>1, OverNothing DEF Additive
  <1>4. ASSUME NEW D \in F, NEW x \in K \ D PROVE D \cup {x} \in F
    <2>1. Over(v, D \cup {x}) = v[x] + Over(v, D)
      BY <1>2, OverGrows
    <2>2. Of(D \cup {x}) = Group(S, key, x) \cup Of(D) /\ Group(S, key, x) \cap Of(D) = {}
      BY DEF Group
    <2>3. PICK A, B, C \in SUBSET S : A = Group(S, key, x) /\ B = Of(D) /\ C = Of(D \cup {x})
      BY DEF Group
    <2>4. m[A \cup B] = m[A] + m[B] /\ C = A \cup B
      BY <2>2, <2>3 DEF Additive
    <2>5. v[x] = m[A] /\ Over(v, D) = m[B]
      BY <1>1, <2>3 DEF PerGroup
    <2>6. Over(v, D \cup {x}) = m[C]
      BY ONLY <2>1, <2>4, <2>5
    <2>7. D \cup {x} \in SUBSET K
      OBVIOUS
    <2> QED
      BY <2>3, <2>6, <2>7
  <1>5. K \in F
    BY <1>3, <1>4, FiniteSetInduction
  <1>6. Of(K) = S
    OBVIOUS
  <1> QED
    BY <1>1, <1>2, <1>5, <1>6, OverAll

\* COUNT(*)
LEMMA CountIsAdditive ==
  ASSUME NEW S, IsFiniteSet(S)
  PROVE  Additive([A \in SUBSET S |-> Cardinality(A)], S)
  <1>1. \A A \in SUBSET S : IsFiniteSet(A) /\ Cardinality(A) \in Nat
    BY FS_Subset, FS_CardinalityType
  <1>2. Cardinality({}) = 0
    BY FS_EmptySet
  <1>3. ASSUME NEW A \in SUBSET S, NEW B \in SUBSET S, A \cap B = {}
        PROVE  Cardinality(A \cup B) = Cardinality(A) + Cardinality(B)
    <2>1. Cardinality(A \cup B) = Cardinality(A) + Cardinality(B) - Cardinality(A \cap B)
      BY <1>1, FS_Union
    <2> QED
      BY <1>1, <1>2, <1>3, <2>1
  <1> QED
    BY <1>1, <1>2, <1>3 DEF Additive

\* SUM(...)
LEMMA SumIsAdditive ==
  ASSUME NEW S, IsFiniteSet(S), NEW r \in [S -> Int]
  PROVE  Additive([A \in SUBSET S |-> Over(r, A)], S)
  <1>1. \A A \in SUBSET S : Over(r, A) \in Int
    BY OverType
  <1>2. ASSUME NEW A \in SUBSET S, NEW B \in SUBSET S, A \cap B = {}
        PROVE  Over(r, A \cup B) = Over(r, A) + Over(r, B)
    <2> DEFINE F == {U \in SUBSET B : Over(r, A \cup U) = Over(r, A) + Over(r, U)}
    <2>1. {} \in F
      <3>1. A \cup {} = A /\ Over(r, A) \in Int
        BY <1>1
      <3> QED
        BY <3>1, OverNothing
    <2>2. ASSUME NEW U \in F, NEW x \in B \ U PROVE U \cup {x} \in F
      <3>1. /\ U \in SUBSET S /\ A \cup U \in SUBSET S
            /\ x \in S \ U /\ x \in S \ (A \cup U)
        BY <1>2
      <3>2. PICK V, W : V = U \cup {x} /\ W = A \cup V
        OBVIOUS
      <3>3. Over(r, V) = r[x] + Over(r, U)
        BY <3>1, <3>2, OverGrows
      <3>4. W = (A \cup U) \cup {x}
        BY <3>2
      <3>5. Over(r, W) = r[x] + Over(r, A \cup U)
        BY <3>1, <3>4, OverGrows
      <3>6. Over(r, A \cup U) = Over(r, A) + Over(r, U)
        OBVIOUS
      <3>7. r[x] \in Int /\ Over(r, A) \in Int /\ Over(r, U) \in Int
        BY <1>1, <3>1
      <3>8. Over(r, W) = Over(r, A) + Over(r, V)
        BY ONLY <3>3, <3>5, <3>6, <3>7
      <3> QED
        BY <3>2, <3>8
    <2>3. IsFiniteSet(B)
      BY FS_Subset
    <2>4. B \in F
      BY <2>1, <2>2, <2>3, FiniteSetInduction
    <2> QED
      BY <2>4
  <1>3. Over(r, {}) = 0
    BY OverNothing
  <1> QED
    BY <1>1, <1>2, <1>3 DEF Additive

-----------------------------------------------------------------------------
(***************************************************************************)
(* The parameters of a report, and its buckets.                            *)
(***************************************************************************)
IsTable(t) == DOMAIN t \subseteq Nat /\ IsFiniteSet(DOMAIN t)

IsParams(p) ==
  /\ p = [bucketSize |-> p.bucketSize, from |-> p.from, to |-> p.to, pool |-> p.pool]
  /\ p.bucketSize \in Nat \ {0} /\ p.from \in Nat /\ p.to \in Nat

\* Parameters that parsing leaves as they are.
Settled(p) == IsParams(p) /\ p.to # 0 /\ p.pool # NULL

LEMMA NewestHeight == ASSUME NEW t, IsTable(t) PROVE MaxIndexedHeight(t) \in Nat
  <1>1. CASE DOMAIN t = {}
    BY <1>1 DEF MaxIndexedHeight
  <1>2. CASE DOMAIN t # {}
    <2>1. PICK x \in DOMAIN t : \A y \in DOMAIN t : y <= x
      BY <1>2, FiniteHasMaximum DEF IsTable
    <2>2. \A y \in DOMAIN t : x >= y
      BY <2>1 DEF IsTable
    <2>3. Max(DOMAIN t) \in DOMAIN t
      BY <2>2 DEF Max
    <2> QED
      BY <1>2, <2>3 DEF MaxIndexedHeight, IsTable
  <1> QED
    BY <1>1, <1>2

LEMMA ParsedIsSettled ==
  ASSUME NEW raw \in RawParams, NEW max \in Nat
  PROVE  Settled(ParseAnalysisParams(raw, max))
  <1>1. /\ {raw.bucketSize, raw.from, raw.to} \subseteq Nat \cup {Absent}
        /\ {TopPools, DefaultWindow} \subseteq Nat
        /\ {DefaultBucketSize, DefaultTo, RecentSample} \subseteq Nat \ {0}
    BY QueriesAssumption, ReportsAssumption
  <1>2. PICK p : p = ParseAnalysisParams(raw, max)
    OBVIOUS
  <1>3. p = [bucketSize |-> p.bucketSize, from |-> p.from, to |-> p.to, pool |-> p.pool]
    BY <1>2 DEF ParseAnalysisParams
  <1>4. p.bucketSize \in Nat \ {0}
    BY <1>1, <1>2 DEF ParseAnalysisParams
  <1>5. p.from \in Nat
    BY <1>1, <1>2 DEF ParseAnalysisParams, DefaultFrom
  <1>6. p.to \in Nat \ {0}
    <2>1. CASE raw.to \notin {Absent, 0}
      BY <1>1, <1>2, <2>1 DEF ParseAnalysisParams
    <2>2. CASE raw.to \in {Absent, 0} /\ max = 0
      BY <1>1, <1>2, <2>2 DEF ParseAnalysisParams
    <2>3. CASE raw.to \in {Absent, 0} /\ max # 0
      BY <1>1, <1>2, <2>3 DEF ParseAnalysisParams
    <2> QED
      BY <2>1, <2>2, <2>3
  <1>7. p.pool # NULL
    BY <1>2 DEF ParseAnalysisParams, NULL, DefaultPoolTagMappings, Mapping
  <1> QED
    BY <1>2, <1>3, <1>4, <1>5, <1>6, <1>7 DEF Settled, IsParams

LEMMA SettledStays ==
  ASSUME NEW p, Settled(p), NEW max
  PROVE  ParseAnalysisParams(imgSrc(p), max) = p
  BY DEF Settled, IsParams, ParseAnalysisParams, imgSrc, Absent

LEMMA Buckets ==
  ASSUME NEW p, IsParams(p), NEW h \in Nat
  PROVE  /\ BucketStart(h, p) \in Nat
         /\ BucketStart(h, p) % p.bucketSize = 0
         /\ BucketStart(h, p) <= h /\ h < BucketStart(h, p) + p.bucketSize
  <1>1. PICK s \in Nat \ {0} : s = p.bucketSize
    BY DEF IsParams
  <1>2. (h \div s) * s <= h /\ h < (h \div s) * s + s /\ ((h \div s) * s) % s = 0 /\ (h \div s) * s \in Nat
    OBVIOUS
  <1> QED
    BY <1>1, <1>2 DEF BucketStart

-----------------------------------------------------------------------------
(***************************************************************************)
(* A report depends on the rows of its range, and on the one before it.    *)
(***************************************************************************)
Alike(t, u, S) == \A h \in S : t[h] = u[h]

LEMMA AlikeSeries ==
  ASSUME NEW t, NEW u, NEW S, Alike(t, u, S)
  PROVE  /\ ByAlgo(t, S) = ByAlgo(u, S)
         /\ ByMappedTag(t, S) = ByMappedTag(u, S)
         /\ \A top : PerPool(t, S, top) = PerPool(u, S, top)
  <1>1. ByAlgo(t, S) = ByAlgo(u, S)
    BY DEF Alike, ByAlgo
  <1>2. ByMappedTag(t, S) = ByMappedTag(u, S)
    <2>1. {MappedTag(t[h].poolTag) : h \in S} = {MappedTag(u[h].poolTag) : h \in S}
      BY DEF Alike
    <2>2. \A name : {h \in S : MappedTag(t[h].poolTag) = name} = {h \in S : MappedTag(u[h].poolTag) = name}
      BY DEF Alike
    <2> QED
      BY <2>1, <2>2 DEF ByMappedTag
  <1>3. ASSUME NEW top PROVE PerPool(t, S, top) = PerPool(u, S, top)
    <2>1. {PoolKey(t[h].poolTag, top) : h \in S} = {PoolKey(u[h].poolTag, top) : h \in S}
      BY DEF Alike
    <2>2. \A k : {h \in S : PoolKey(t[h].poolTag, top) = k} = {h \in S : PoolKey(u[h].poolTag, top) = k}
      BY DEF Alike
    <2> QED
      BY <2>1, <2>2 DEF PerPool
  <1> QED
    BY <1>1, <1>2, <1>3

LEMMA AlikeRewards ==
  ASSUME NEW t, NEW u, NEW S, Alike(t, u, S), NEW series, \A k \in DOMAIN series : series[k] \subseteq S
  PROVE  Rewards(t, series) = Rewards(u, series)
  <1>1. ASSUME NEW k \in DOMAIN series
        PROVE  [h \in series[k] |-> t[h].reward] = [h \in series[k] |-> u[h].reward]
    BY DEF Alike
  <1> QED
    BY <1>1 DEF Rewards

LEMMA AlikeAverages ==
  ASSUME NEW t, NEW u, NEW S, Alike(t, u, S)
  PROVE  AveragePerAlgo(t, S) = AveragePerAlgo(u, S)
  <1>1. {t[h].powAlgo : h \in S} = {u[h].powAlgo : h \in S}
    BY DEF Alike
  <1>2. \A a : {h \in S : t[h].powAlgo = a} = {h \in S : u[h].powAlgo = a}
    BY DEF Alike
  <1>3. ASSUME NEW A \in SUBSET S PROVE Average(t, A) = Average(u, A)
    <2>1. [h \in A |-> t[h].difficulty] = [h \in A |-> u[h].difficulty]
      BY DEF Alike
    <2> QED
      BY <2>1 DEF Average
  <1>4. \A a : Average(t, {h \in S : t[h].powAlgo = a}) = Average(u, {h \in S : u[h].powAlgo = a})
    BY <1>2, <1>3
  <1> QED
    BY <1>1, <1>4 DEF AveragePerAlgo

\* The same rows in the range of p, and the same predecessors.
SameRange(t, u, p) ==
  \A h : (p.from - 1 <= h /\ h <= p.to) =>
    /\ h \in DOMAIN t <=> h \in DOMAIN u
    /\ h \in DOMAIN t => t[h] = u[h]

LEMMA SameRows ==
  ASSUME NEW t, NEW u, NEW p, IsTable(t), IsTable(u), IsParams(p), SameRange(t, u, p)
  PROVE  /\ Between(t, p) = Between(u, p)
         /\ Alike(t, u, Between(t, p))
         /\ \A h \in Between(t, p) : /\ h - 1 \in DOMAIN t <=> h - 1 \in DOMAIN u
                                     /\ h - 1 \in DOMAIN t => t[h - 1] = u[h - 1]
  <1>1. p.from \in Nat /\ p.to \in Nat /\ DOMAIN t \subseteq Nat /\ DOMAIN u \subseteq Nat
    BY DEF IsParams, IsTable
  <1>2. ASSUME NEW h \in Nat, p.from <= h, h <= p.to
        PROVE  p.from - 1 <= h /\ p.from - 1 <= h - 1 /\ h - 1 <= p.to
    BY <1>1, <1>2
  <1>3. ASSUME NEW h \in Nat, p.from <= h, h <= p.to
        PROVE  /\ h \in DOMAIN t <=> h \in DOMAIN u
               /\ h \in DOMAIN t => t[h] = u[h]
               /\ h - 1 \in DOMAIN t <=> h - 1 \in DOMAIN u
               /\ h - 1 \in DOMAIN t => t[h - 1] = u[h - 1]
    BY <1>2, <1>3 DEF SameRange
  <1> QED
    BY <1>1, <1>3 DEF Between, Alike

\* The buckets of a set are subsets of it.
LEMMA BucketsWithin ==
  ASSUME NEW S, NEW p
  PROVE  \A b \in DOMAIN PerBucket(S, p) :
           /\ PerBucket(S, p)[b] = {h \in S : BucketStart(h, p) = b}
           /\ PerBucket(S, p)[b] \subseteq S
  BY DEF PerBucket

LEMMA SameAlgoReports ==
  ASSUME NEW t, NEW u, NEW p, Between(t, p) = Between(u, p), Alike(t, u, Between(t, p))
  PROVE  /\ AlgoBucketCounts(t, p) = AlgoBucketCounts(u, p)
         /\ RewardBucketCountsByAlgo(t, p) = RewardBucketCountsByAlgo(u, p)
         /\ DifficultyBucketAvg(t, p) = DifficultyBucketAvg(u, p)
  <1>1. PICK B : B = PerBucket(Between(t, p), p)
    OBVIOUS
  <1>2. \A b \in DOMAIN B : Alike(t, u, B[b])
    BY <1>1, BucketsWithin DEF Alike
  <1>3. \A b \in DOMAIN B : ByAlgo(t, B[b]) = ByAlgo(u, B[b])
    BY <1>2, AlikeSeries
  <1>4. ASSUME NEW b \in DOMAIN B PROVE Rewards(t, ByAlgo(t, B[b])) = Rewards(u, ByAlgo(t, B[b]))
    <2>1. \A k \in DOMAIN ByAlgo(t, B[b]) : ByAlgo(t, B[b])[k] \subseteq B[b]
      BY DEF ByAlgo
    <2> QED
      BY <1>2, <2>1, AlikeRewards
  <1>5. \A b \in DOMAIN B : AveragePerAlgo(t, B[b]) = AveragePerAlgo(u, B[b])
    BY <1>2, AlikeAverages
  <1>6. AlgoBucketCounts(t, p) = AlgoBucketCounts(u, p)
    BY <1>1, <1>3 DEF AlgoBucketCounts
  <1>7. RewardBucketCountsByAlgo(t, p) = RewardBucketCountsByAlgo(u, p)
    BY <1>1, <1>3, <1>4 DEF RewardBucketCountsByAlgo
  <1>8. DifficultyBucketAvg(t, p) = DifficultyBucketAvg(u, p)
    BY <1>1, <1>5 DEF DifficultyBucketAvg
  <1> QED
    BY <1>6, <1>7, <1>8

LEMMA SamePoolReports ==
  ASSUME NEW t, NEW u, NEW p, Between(t, p) = Between(u, p), Alike(t, u, Between(t, p))
  PROVE  /\ TopPoolChoices(t, Between(t, p)) = TopPoolChoices(u, Between(u, p))
         /\ PoolShareBucketCounts(t, p) = PoolShareBucketCounts(u, p)
         /\ RewardBucketCountsByPool(t, p) = RewardBucketCountsByPool(u, p)
  <1>1. PICK S, B : S = Between(t, p) /\ B = PerBucket(S, p)
    OBVIOUS
  <1>2. TopPoolChoices(t, S) = TopPoolChoices(u, S)
    BY <1>1, AlikeSeries DEF TopPoolChoices
  <1>3. \A b \in DOMAIN B : Alike(t, u, B[b])
    BY <1>1, BucketsWithin DEF Alike
  <1>4. \A b \in DOMAIN B : \A top : PerPool(t, B[b], top) = PerPool(u, B[b], top)
    BY <1>3, AlikeSeries
  <1>5. ASSUME NEW b \in DOMAIN B, NEW top
        PROVE  Rewards(t, PerPool(t, B[b], top)) = Rewards(u, PerPool(t, B[b], top))
    <2>1. \A k \in DOMAIN PerPool(t, B[b], top) : PerPool(t, B[b], top)[k] \subseteq B[b]
      BY DEF PerPool
    <2> QED
      BY <1>3, <2>1, AlikeRewards
  <1>6. \A top : [b \in DOMAIN B |-> Counts(PerPool(t, B[b], top))] = [b \in DOMAIN B |-> Counts(PerPool(u, B[b], top))]
    BY <1>4
  <1>7. \A top : [b \in DOMAIN B |-> Rewards(t, PerPool(t, B[b], top))] = [b \in DOMAIN B |-> Rewards(u, PerPool(u, B[b], top))]
    BY <1>4, <1>5
  <1>8. PoolShareBucketCounts(t, p) = PoolShareBucketCounts(u, p)
    BY <1>1, <1>2, <1>6 DEF PoolShareBucketCounts
  <1>9. RewardBucketCountsByPool(t, p) = RewardBucketCountsByPool(u, p)
    BY <1>1, <1>2, <1>7 DEF RewardBucketCountsByPool
  <1> QED
    BY <1>1, <1>2, <1>8, <1>9

LEMMA SameBreakdown ==
  ASSUME NEW t, NEW u, NEW p, Between(t, p) = Between(u, p), Alike(t, u, Between(t, p))
  PROVE  AlgoBucketCountsForPool(t, p) = AlgoBucketCountsForPool(u, p)
  <1>1. PICK S, B : S = {h \in Between(t, p) : IsOfPool(t[h].poolTag, p.pool)} /\ B = PerBucket(S, p)
    OBVIOUS
  <1>2. S = {h \in Between(u, p) : IsOfPool(u[h].poolTag, p.pool)}
    BY <1>1 DEF Alike
  <1>3. \A b \in DOMAIN B : Alike(t, u, B[b])
    BY <1>1, BucketsWithin DEF Alike
  <1>4. \A b \in DOMAIN B : ByAlgo(t, B[b]) = ByAlgo(u, B[b])
    BY <1>3, AlikeSeries
  <1> QED
    BY <1>1, <1>2, <1>4 DEF AlgoBucketCountsForPool

LEMMA SameBlockTimes ==
  ASSUME NEW t, NEW u, NEW p, IsTable(t), IsTable(u), IsParams(p), SameRange(t, u, p)
  PROVE  /\ BlockTimeSummary(t, p) = BlockTimeSummary(u, p)
         /\ BlockTimeDeltaBuckets(t, p) = BlockTimeDeltaBuckets(u, p)
  <1>1. PICK S, B : S = Between(t, p) /\ B = PerBucket(S, p)
    OBVIOUS
  <1>2. /\ Between(u, p) = S
        /\ \A h \in S : t[h] = u[h]
        /\ \A h \in S : /\ h - 1 \in DOMAIN t <=> h - 1 \in DOMAIN u
                        /\ h - 1 \in DOMAIN t => t[h - 1] = u[h - 1]
    BY <1>1, SameRows DEF Alike
  <1>3. ASSUME NEW A \in SUBSET S PROVE Deltas(t, A) = Deltas(u, A)
    <2>1. {h \in A : h - 1 \in DOMAIN t} = {h \in A : h - 1 \in DOMAIN u}
      BY <1>2
    <2>2. \A h \in {h \in A : h - 1 \in DOMAIN t} : t[h] = u[h] /\ t[h - 1] = u[h - 1]
      BY <1>2
    <2> QED
      BY <2>1, <2>2 DEF Deltas
  <1>4. \A b \in DOMAIN B : Deltas(t, B[b]) = Deltas(u, B[b])
    BY <1>1, <1>3, BucketsWithin
  <1> QED
    BY <1>1, <1>2, <1>3, <1>4 DEF BlockTimeSummary, BlockTimeDeltaBuckets

-----------------------------------------------------------------------------
(***************************************************************************)
(* Types.                                                                  *)
(***************************************************************************)
LEMMA BucketsOfBlocks ==
  ASSUME NEW S, NEW T, NEW p, T \subseteq S
  PROVE  DOMAIN PerBucket(T, p) \subseteq {BucketStart(h, p) : h \in S}
  BY DEF PerBucket

LEMMA AnswersAreBucketed ==
  ASSUME NEW v \in Views, NEW p, NEW points \in Answers(v, p)
  PROVE  DOMAIN points \subseteq {BucketStart(h, p) : h \in Between(blocks, p)}
  <1>1. PICK S, T : S = Between(blocks, p) /\ T = {h \in S : IsOfPool(blocks[h].poolTag, p.pool)}
    OBVIOUS
  <1>2. DOMAIN PerBucket(S, p) \subseteq {BucketStart(h, p) : h \in S}
    BY BucketsOfBlocks
  <1>3. DOMAIN PerBucket(T, p) \subseteq {BucketStart(h, p) : h \in S}
    <2>1. T \subseteq S
      BY <1>1
    <2> QED
      BY <2>1, BucketsOfBlocks
  <1>4. DOMAIN points = DOMAIN PerBucket(S, p) \/ DOMAIN points = DOMAIN PerBucket(T, p)
    <2>1. CASE v = "algo-distribution"
      BY <1>1, <2>1 DEF Answers, AlgoBucketCounts
    <2>2. CASE v = "pool-share"
      BY <1>1, <2>2 DEF Answers, PoolShareBucketCounts
    <2>3. CASE v = "block-time"
      BY <1>1, <2>3 DEF Answers, BlockTimeDeltaBuckets
    <2>4. CASE v = "difficulty"
      BY <1>1, <2>4 DEF Answers, DifficultyBucketAvg
    <2>5. CASE v = "pool-algo-breakdown"
      BY <1>1, <2>5 DEF Answers, AlgoBucketCountsForPool
    <2>6. CASE v = "rewards-by-algo"
      BY <1>1, <2>6 DEF Answers, RewardBucketCountsByAlgo
    <2>7. CASE v = "rewards-by-pool"
      BY <1>1, <2>7 DEF Answers, RewardBucketCountsByPool
    <2> QED
      BY <2>1, <2>2, <2>3, <2>4, <2>5, <2>6, <2>7 DEF Views
  <1> QED
    BY <1>1, <1>2, <1>3, <1>4

Asked == {"summary", "table", "query", "shown", "summarised", "drawn", "compared"}

Types ==
  /\ ReportsTypeOK
  /\ IsTable(blocks)
  /\ \A h \in DOMAIN blocks : blocks[h].reward \in Int
  /\ IsParams(params)
  /\ rpc \in Asked => view \in Views

LEMMA AnswersAreInRange ==
  ASSUME NEW v \in Views, NEW points \in Answers(v, params), IsTable(blocks), IsParams(params)
  PROVE  Bucketed(points)
  <1> SUFFICES ASSUME NEW b \in DOMAIN points
               PROVE  /\ b % params.bucketSize = 0
                      /\ b <= params.to /\ b + params.bucketSize > params.from
    BY DEF Bucketed
  <1>1. PICK h \in Between(blocks, params) : b = BucketStart(h, params)
    BY AnswersAreBucketed
  <1>2. h \in Nat /\ params.from <= h /\ h <= params.to
    BY <1>1 DEF Between, IsTable
  <1>3. b \in Nat /\ b % params.bucketSize = 0 /\ b <= h /\ h < b + params.bucketSize
    BY <1>1, <1>2, Buckets
  <1>4. params.from \in Nat /\ params.to \in Nat /\ params.bucketSize \in Nat
    BY DEF IsParams
  <1> QED
    BY <1>2, <1>3, <1>4

LEMMA RowsAreTyped ==
  ASSUME NEW h \in Heights, NEW c \in Coinbases[h]
  PROVE  /\ c \in Mined
         /\ Rows[c] = Row(c)
         /\ Rows[c].powAlgo \in Algos
         /\ Rows[c].reward \in Int
         /\ Rows[c].poolTag = Attribute(c.coinbase, c.extra).poolTag
         /\ Rows[c].isOwnPool = Attribute(c.coinbase, c.extra).isOwnPool
         /\ Rows[c].extra = c.extra
  <1>1. c \in Mined
    BY DEF Mined, Heights
  <1>2. Rows[c] = Row(c)
    BY <1>1 DEF Rows
  <1>3. AlgoFromRaw(c.powAlgoRaw) \in Algos
    BY DEF AlgoFromRaw, Algos
  <1>4. c.reward \in Nat
    BY <1>1, QueriesAssumption
  <1> QED
    BY <1>1, <1>2, <1>3, <1>4 DEF Row

LEMMA TypesInit == Init => Types
  <1> SUFFICES ASSUME Init PROVE Types
    OBVIOUS
  <1>1. DOMAIN blocks = {} /\ IsFiniteSet({})
    BY FS_EmptySet DEF Init
  <1>2. IsParams(params)
    BY DEF Init, NoParams, IsParams
  <1>3. MaxWrites \in Nat
    BY QueriesAssumption
  <1>4. ReportsTypeOK
    <2>1. DOMAIN blocks \subseteq Heights /\ writes \in 0 .. MaxWrites
      BY <1>1, <1>3 DEF Init
    <2>2. params.bucketSize \in Nat \ {0} /\ {params.from, params.to} \subseteq Nat
      BY <1>2 DEF IsParams
    <2> QED
      BY <1>1, <2>1, <2>2 DEF Init, ReportsTypeOK
  <1> QED
    BY <1>1, <1>2, <1>4 DEF Types, IsTable, Init, Asked

\* What a step of the indexer does to the table.
LEMMA StoredOrStuck ==
  ASSUME Types, NEW h \in Heights, NEW c \in Coinbases[h], IndexBlock(h, c)
  PROVE  \/ /\ IsText(Rows[c].poolTag)
            /\ blocks' = Upserted(blocks, h, Rows[c]) /\ stuck' = stuck
            /\ DOMAIN blocks' = DOMAIN blocks \cup {h}
            /\ blocks'[h] = Rows[c] /\ \A k \in DOMAIN blocks \ {h} : blocks'[k] = blocks[k]
         \/ /\ ~IsText(Rows[c].poolTag)
            /\ blocks' = blocks /\ stuck' = stuck \cup {[height |-> h, extra |-> c.extra]}
  BY DEF IndexBlock, Upserted

LEMMA StoringKeepsTypes ==
  ASSUME Types, NEW h \in Heights, NEW c \in Coinbases[h], IndexBlock(h, c)
  PROVE  Types'
  <1>1. UNCHANGED <<rpc, view, params, first, summary, second, other>>
    BY DEF IndexBlock
  <1>2. writes' \in 0 .. MaxWrites /\ touched' \in BOOLEAN
    <2>1. MaxWrites \in Nat
      BY QueriesAssumption
    <2>2. writes \in 0 .. MaxWrites /\ touched \in BOOLEAN
      BY DEF Types, ReportsTypeOK
    <2>3. writes' \in 0 .. MaxWrites
      BY <2>1, <2>2 DEF IndexBlock
    <2>4. touched' \in BOOLEAN
      BY <2>2 DEF IndexBlock
    <2> QED
      BY <2>3, <2>4
  <1>3. IsTable(blocks') /\ DOMAIN blocks' \subseteq Heights
    <2>1. Heights \subseteq Nat /\ DOMAIN blocks \subseteq Heights /\ IsTable(blocks)
      BY QueriesAssumption DEF Types, ReportsTypeOK
    <2>2. IsFiniteSet(DOMAIN blocks \cup {h})
      BY <2>1, FS_AddElement DEF IsTable
    <2> QED
      BY <2>1, <2>2, StoredOrStuck DEF IsTable
  <1>4. ASSUME NEW k \in DOMAIN blocks'
        PROVE  blocks'[k].powAlgo \in Algos /\ IsText(blocks'[k].poolTag) /\ blocks'[k].reward \in Int
    <2>1. CASE k \in DOMAIN blocks /\ blocks'[k] = blocks[k]
      BY <2>1 DEF Types, ReportsTypeOK
    <2>2. CASE blocks'[k] = Rows[c] /\ IsText(Rows[c].poolTag)
      BY <2>2, RowsAreTyped
    <2> QED
      BY <1>4, <2>1, <2>2, StoredOrStuck
  <1>5. stuck' \subseteq [height : Heights, extra : {d.extra : d \in Mined}]
    <2>1. PICK X, s : X = [height : Heights, extra : {d.extra : d \in Mined}] /\ s = [height |-> h, extra |-> c.extra]
      OBVIOUS
    <2>2. s \in X
      BY <2>1, RowsAreTyped
    <2>3. stuck \subseteq X
      BY <2>1 DEF Types, ReportsTypeOK
    <2>4. stuck' = stuck \/ stuck' = stuck \cup {s}
      BY <2>1, StoredOrStuck
    <2> QED
      BY <2>1, <2>2, <2>3, <2>4
  <1>6. Bucketed(first)' <=> Bucketed(first)
    BY <1>1 DEF Bucketed
  <1>7. IsParams(params)' /\ (rpc \in Asked => view \in Views)'
    BY <1>1 DEF Types
  <1>8. ReportsTypeOK'
    BY <1>1, <1>2, <1>3, <1>4, <1>5, <1>6 DEF ReportsTypeOK, Types
  <1> QED
    BY <1>3, <1>4, <1>7, <1>8 DEF Types

\* The part of Types that is about the visitor.
VisitTypes ==
  /\ rpc \in Asked \cup {"idle", "glance"}
  /\ rpc \in Asked => view \in Views
  /\ view \in Views \cup {"none"} /\ other \in Views \cup {"none"}
  /\ IsParams(params)
  /\ rpc \in {"shown", "summarised", "drawn", "compared"} => Bucketed(first)
  /\ touched \in BOOLEAN /\ writes \in 0 .. MaxWrites

LEMMA VisitPart ==
  /\ Types => VisitTypes
  /\ Types /\ VisitTypes' /\ UNCHANGED <<blocks, stuck>> => Types'
  <1>1. Types => VisitTypes
    BY DEF Types, ReportsTypeOK, VisitTypes, Asked
  <1>2. ASSUME Types, VisitTypes', UNCHANGED <<blocks, stuck>> PROVE Types'
    <2>1. ReportsTypeOK'
      <3>1. DOMAIN blocks' \subseteq Heights
        BY <1>2 DEF Types, ReportsTypeOK
      <3>2. \A h \in DOMAIN blocks' : blocks'[h].powAlgo \in Algos /\ IsText(blocks'[h].poolTag)
        BY <1>2 DEF Types, ReportsTypeOK
      <3>3. stuck' \subseteq [height : Heights, extra : {c.extra : c \in Mined}]
        BY <1>2 DEF Types, ReportsTypeOK
      <3>4. params'.bucketSize \in Nat \ {0} /\ {params'.from, params'.to} \subseteq Nat
        BY <1>2 DEF VisitTypes, IsParams
      <3> QED
        BY <1>2, <3>1, <3>2, <3>3, <3>4 DEF ReportsTypeOK, VisitTypes, Asked
    <2> QED
      BY <1>2, <2>1 DEF Types, VisitTypes
  <1> QED
    BY <1>1, <1>2

LEMMA OpeningKeepsTypes ==
  ASSUME Types, NEW v \in Views, NEW raw \in RawParams, NEW step \in {"summary", "query"}, Open(v, raw, step)
  PROVE  VisitTypes'
  <1>1. MaxIndexedHeight(blocks) \in Nat /\ 0 \in Nat
    BY NewestHeight DEF Types
  <1>2. IsParams(params')
    BY <1>1, ParsedIsSettled DEF Open, Settled
  <1>3. VisitTypes
    BY VisitPart
  <1> QED
    BY <1>2, <1>3 DEF Open, VisitTypes, Asked

LEMMA QueryKeepsTypes == ASSUME Types, Query PROVE VisitTypes'
  <1>1. view \in Views /\ IsTable(blocks) /\ IsParams(params)
    BY DEF Types, Query, Asked
  <1>2. Bucketed(first')
    BY <1>1, AnswersAreInRange DEF Query
  <1>3. Bucketed(first)'
    BY <1>2 DEF Query, Bucketed
  <1>4. VisitTypes
    BY VisitPart
  <1> QED
    BY <1>1, <1>3, <1>4 DEF Query, VisitTypes, Asked

LEMMA OpenNextKeepsTypes ==
  ASSUME Types, NEW v \in Views, NEW pool, OpenNext(v, pool)
  PROVE  VisitTypes'
  <1>1. VisitTypes /\ IsParams(params)
    BY VisitPart DEF Types
  <1>2. /\ params' = [params EXCEPT !.pool = pool]
        /\ params = [bucketSize |-> params.bucketSize, from |-> params.from, to |-> params.to, pool |-> params.pool]
    BY <1>1 DEF OpenNext, IsParams
  <1>3. params' = [bucketSize |-> params.bucketSize, from |-> params.from, to |-> params.to, pool |-> pool]
    BY <1>2
  <1>4. IsParams(params') /\ params'.bucketSize = params.bucketSize
        /\ params'.from = params.from /\ params'.to = params.to
    BY <1>1, <1>3 DEF IsParams
  <1>5. Bucketed(first)'
    <2>1. Bucketed(first)
      BY <1>1 DEF VisitTypes, OpenNext
    <2> QED
      BY <1>4, <2>1 DEF Bucketed, OpenNext
  <1> QED
    BY <1>1, <1>4, <1>5 DEF OpenNext, VisitTypes, Asked

LEMMA LeavingKeepsTypes == ASSUME Types, Leave PROVE VisitTypes'
  <1>1. IsParams(params')
    BY DEF Leave, NoParams, IsParams
  <1>2. MaxWrites \in Nat
    BY QueriesAssumption
  <1>3. writes' \in 0 .. MaxWrites
    BY <1>2 DEF Leave
  <1> QED
    BY <1>1, <1>3 DEF Leave, VisitTypes, Asked

LEMMA ReadingKeepsTypes == ASSUME Types, Read PROVE VisitTypes'
  <1>1. VisitTypes
    BY VisitPart
  <1>2. ASSUME NEW v \in Views, NEW raw \in RawParams, OpenPage(v, raw) \/ OpenJSON(v, raw)
        PROVE  VisitTypes'
    <2>1. \E step \in {"summary", "query"} : Open(v, raw, step)
      BY <1>2 DEF OpenPage, OpenJSON
    <2> QED
      BY <2>1, OpeningKeepsTypes
  <1>3. CASE SummariseBlockTimes
    BY <1>1, <1>3 DEF SummariseBlockTimes, VisitTypes, Asked, Bucketed
  <1>4. CASE LoadPicture
    <2>1. UNCHANGED <<view, params, first>> /\ other' = view
      BY <1>4 DEF LoadPicture
    <2>2. Bucketed(first)' <=> Bucketed(first)
      BY <2>1 DEF Bucketed
    <2> QED
      BY <1>1, <1>4, <2>1, <2>2 DEF LoadPicture, VisitTypes, Asked
  <1>5. CASE OpenGlance
    BY <1>1, <1>5 DEF OpenGlance, VisitTypes, Asked
  <1> QED
    BY <1>2, <1>3, <1>4, <1>5, QueryKeepsTypes, OpenNextKeepsTypes, LeavingKeepsTypes DEF Read

LEMMA Typed == Spec => []Types
  <1>1. ASSUME Types, [Next]_allVars PROVE Types'
    <2>1. ASSUME NEW h \in Heights, NEW c \in Coinbases[h], IndexBlock(h, c) PROVE Types'
      BY <1>1, <2>1, StoringKeepsTypes
    <2>2. CASE Read /\ UNCHANGED <<blocks, stuck>>
      BY <1>1, <2>2, ReadingKeepsTypes, VisitPart
    <2>3. CASE UNCHANGED allVars
      <3>1. VisitTypes' <=> VisitTypes
        BY <2>3 DEF allVars, reportVars, VisitTypes, Bucketed
      <3> QED
        BY <1>1, <2>3, <3>1, VisitPart DEF allVars
    <2> QED
      BY <1>1, <2>1, <2>2, <2>3 DEF Next
  <1> QED
    BY <1>1, TypesInit, PTL DEF Spec

\* The rows have an algorithm with a column and a tag that the database takes, a
\* report answers with buckets of its range, and the parameters are in range.
THEOREM ReportsTypeCorrect == Spec => []ReportsTypeOK
  <1>1. Types => ReportsTypeOK
    BY DEF Types
  <1> QED
    BY <1>1, Typed, PTL

-----------------------------------------------------------------------------
(***************************************************************************)
(* What a visitor has read is what the table says, until a row of the      *)
(* range is written.                                                       *)
(***************************************************************************)
LEMMA AnswersStay ==
  ASSUME IsTable(blocks), IsTable(blocks'), IsParams(params), params' = params,
         SameRange(blocks, blocks', params)
  PROVE  /\ \A v \in Views : Answers(v, params)' = Answers(v, params)
         /\ BlockTimeSummary(blocks, params)' = BlockTimeSummary(blocks, params)
         /\ TopPoolChoices(blocks, Between(blocks, params))' = TopPoolChoices(blocks, Between(blocks, params))
  <1>1. Between(blocks, params) = Between(blocks', params) /\ Alike(blocks, blocks', Between(blocks, params))
    BY SameRows
  <1>2. /\ AlgoBucketCounts(blocks, params)' = AlgoBucketCounts(blocks, params)
        /\ RewardBucketCountsByAlgo(blocks, params)' = RewardBucketCountsByAlgo(blocks, params)
        /\ DifficultyBucketAvg(blocks, params)' = DifficultyBucketAvg(blocks, params)
    BY <1>1, SameAlgoReports
  <1>3. /\ PoolShareBucketCounts(blocks, params)' = PoolShareBucketCounts(blocks, params)
        /\ RewardBucketCountsByPool(blocks, params)' = RewardBucketCountsByPool(blocks, params)
        /\ TopPoolChoices(blocks, Between(blocks, params))' = TopPoolChoices(blocks, Between(blocks, params))
    BY <1>1, SamePoolReports
  <1>4. AlgoBucketCountsForPool(blocks, params)' = AlgoBucketCountsForPool(blocks, params)
    BY <1>1, SameBreakdown
  <1>5. /\ BlockTimeSummary(blocks, params)' = BlockTimeSummary(blocks, params)
        /\ BlockTimeDeltaBuckets(blocks, params)' = BlockTimeDeltaBuckets(blocks, params)
    BY SameBlockTimes
  <1>6. \A v \in Views : Answers(v, params)' = Answers(v, params)
    BY <1>2, <1>3, <1>4, <1>5 DEF Answers, Views
  <1> QED
    BY <1>3, <1>5, <1>6

AnswersInv ==
  /\ rpc \in Asked \ {"compared"} => Settled(params)
  /\ rpc \in {"summary", "table", "summarised"} => view = "block-time"
  /\ rpc \in {"table", "summarised"} /\ ~touched => summary = BlockTimeSummary(blocks, params)
  /\ rpc \in {"shown", "summarised", "drawn"} /\ ~touched => first \in Answers(view, params)
  /\ rpc = "drawn" /\ ~touched => \E points \in Answers(view, params) : second = Draw(points)
  /\ rpc = "compared" /\ ~touched =>
       /\ view # "pool-algo-breakdown" => first \in Answers(view, params)
       /\ other \in Views /\ second \in Answers(other, params)

\* A block that leaves a report untouched changes none of its rows.
LEMMA UntouchedIsSame ==
  ASSUME Types, NEW h \in Heights, NEW c \in Coinbases[h], IndexBlock(h, c), rpc # "idle", ~touched'
  PROVE  ~touched /\ SameRange(blocks, blocks', params)
  <1>1. touched' = (touched \/ (params.from - 1 <= h /\ h <= params.to)) /\ touched \in BOOLEAN
    BY DEF IndexBlock, Types, ReportsTypeOK
  <1>2. ~touched /\ ~(params.from - 1 <= h /\ h <= params.to)
    BY <1>1
  <1>3. ASSUME NEW k, params.from - 1 <= k, k <= params.to
        PROVE  /\ k \in DOMAIN blocks <=> k \in DOMAIN blocks'
               /\ k \in DOMAIN blocks => blocks[k] = blocks'[k]
    <2>1. k # h
      BY <1>2, <1>3
    <2> QED
      BY <2>1, StoredOrStuck
  <1> QED
    BY <1>2, <1>3 DEF SameRange

LEMMA StoringKeepsAnswers ==
  ASSUME Types, Types', AnswersInv, NEW h \in Heights, NEW c \in Coinbases[h], IndexBlock(h, c)
  PROVE  AnswersInv'
  <1>1. UNCHANGED <<rpc, view, params, first, summary, second, other>>
    BY DEF IndexBlock
  <1>2. (rpc \in Asked \ {"compared"} => Settled(params))' /\ (rpc \in {"summary", "table", "summarised"} => view = "block-time")'
    BY <1>1 DEF AnswersInv
  <1>3. CASE rpc \notin Asked \/ touched'
    BY <1>1, <1>2, <1>3 DEF AnswersInv, Asked
  <1>4. CASE rpc \in Asked /\ ~touched'
    <2>1. ~touched /\ SameRange(blocks, blocks', params)
      BY <1>4, UntouchedIsSame DEF Asked
    <2>2. /\ \A v \in Views : Answers(v, params)' = Answers(v, params)
          /\ BlockTimeSummary(blocks, params)' = BlockTimeSummary(blocks, params)
      BY <1>1, <2>1, AnswersStay DEF Types
    <2>3. view \in Views
      BY <1>4 DEF Types
    <2> QED
      BY <1>1, <1>2, <2>1, <2>2, <2>3 DEF AnswersInv
  <1> QED
    BY <1>3, <1>4

\* Which pool is selected matters for the breakdown only.
LEMMA OthersIgnorePool ==
  ASSUME NEW v \in Views \ {"pool-algo-breakdown"}, NEW p, NEW q,
         q.bucketSize = p.bucketSize, q.from = p.from, q.to = p.to
  PROVE  Answers(v, q) = Answers(v, p)
  <1>1. \A t : Between(t, q) = Between(t, p)
    BY DEF Between
  <1>2. \A S : PerBucket(S, q) = PerBucket(S, p)
    BY DEF PerBucket, BucketStart
  <1>3. PICK S, B : S = Between(blocks, p) /\ B = PerBucket(S, p)
    OBVIOUS
  <1>4. Between(blocks, q) = S /\ PerBucket(S, q) = B
    BY <1>1, <1>2, <1>3
  <1>5. AlgoBucketCounts(blocks, q) = AlgoBucketCounts(blocks, p) /\ DifficultyBucketAvg(blocks, q) = DifficultyBucketAvg(blocks, p)
    BY <1>3, <1>4 DEF AlgoBucketCounts, DifficultyBucketAvg
  <1>6. RewardBucketCountsByAlgo(blocks, q) = RewardBucketCountsByAlgo(blocks, p) /\ BlockTimeDeltaBuckets(blocks, q) = BlockTimeDeltaBuckets(blocks, p)
    BY <1>3, <1>4 DEF RewardBucketCountsByAlgo, BlockTimeDeltaBuckets
  <1>7. PoolShareBucketCounts(blocks, q) = PoolShareBucketCounts(blocks, p) /\ RewardBucketCountsByPool(blocks, q) = RewardBucketCountsByPool(blocks, p)
    BY <1>3, <1>4 DEF PoolShareBucketCounts, RewardBucketCountsByPool
  <1> QED
    BY <1>5, <1>6, <1>7 DEF Answers, Views

\* While the table stays, so do the answers.
LEMMA SameTable ==
  ASSUME UNCHANGED <<blocks, params>>
  PROVE  /\ \A v \in Views : Answers(v, params)' = Answers(v, params)
         /\ BlockTimeSummary(blocks, params)' = BlockTimeSummary(blocks, params)
  <1>1. \A v \in Views : Answers(v, params)' = Answers(v, params)
    BY DEF Answers, Views
  <1> QED
    BY <1>1

LEMMA OpeningKeepsAnswers ==
  ASSUME Types, NEW v \in Views, NEW raw \in RawParams, OpenPage(v, raw) \/ OpenJSON(v, raw)
  PROVE  AnswersInv'
  <1>1. MaxIndexedHeight(blocks) \in Nat /\ 0 \in Nat
    BY NewestHeight DEF Types
  <1>2. Settled(params')
    BY <1>1, ParsedIsSettled DEF OpenPage, OpenJSON, Open
  <1>3. rpc' = "query" \/ (rpc' = "summary" /\ view' = "block-time")
    BY DEF OpenPage, OpenJSON, Open
  <1> QED
    BY <1>2, <1>3 DEF AnswersInv, Asked

LEMMA SummaryKeepsAnswers ==
  ASSUME Types, AnswersInv, SummariseBlockTimes, UNCHANGED blocks
  PROVE  AnswersInv'
  <1>1. BlockTimeSummary(blocks, params)' = BlockTimeSummary(blocks, params)
    BY SameTable DEF SummariseBlockTimes
  <1> QED
    BY <1>1 DEF SummariseBlockTimes, AnswersInv, Asked

LEMMA QueryKeepsAnswers ==
  ASSUME Types, AnswersInv, Query, UNCHANGED blocks
  PROVE  AnswersInv'
  <1>1. /\ \A v \in Views : Answers(v, params)' = Answers(v, params)
        /\ BlockTimeSummary(blocks, params)' = BlockTimeSummary(blocks, params)
    BY SameTable DEF Query
  <1>2. view \in Views /\ UNCHANGED <<view, params, summary>> /\ first' \in Answers(view, params) /\ Settled(params)
    BY DEF Query, Types, AnswersInv, Asked
  <1>3. first' \in Answers(view, params)'
    BY <1>1, <1>2
  <1>4. rpc = "table" => view = "block-time" /\ (~touched => summary = BlockTimeSummary(blocks, params))
    BY DEF AnswersInv
  <1>5. \/ rpc' = "shown"
        \/ rpc' = "summarised" /\ rpc = "table" /\ touched' = touched
    BY DEF Query, Types, ReportsTypeOK
  <1> QED
    BY <1>1, <1>2, <1>3, <1>4, <1>5 DEF AnswersInv, Asked

LEMMA PictureKeepsAnswers ==
  ASSUME Types, AnswersInv, LoadPicture, UNCHANGED blocks
  PROVE  AnswersInv'
  <1>1. \A v \in Views : Answers(v, params)' = Answers(v, params)
    BY SameTable DEF LoadPicture
  <1>2. /\ view \in Views /\ Settled(params) /\ rpc' = "drawn"
        /\ UNCHANGED <<view, params, first, touched>>
        /\ ~touched => first \in Answers(view, params)
    BY DEF LoadPicture, Types, AnswersInv, Asked
  <1>3. ParseAnalysisParams(imgSrc(params), MaxIndexedHeight(blocks)) = params
    BY <1>2, SettledStays
  <1>4. \E points \in Answers(view, params) : second' = Draw(points)
    BY <1>3 DEF LoadPicture
  <1> QED
    BY <1>1, <1>2, <1>4 DEF AnswersInv, Asked

LEMMA OpenNextKeepsAnswers ==
  ASSUME Types, AnswersInv, NEW v \in Views, NEW pool, OpenNext(v, pool), UNCHANGED blocks
  PROVE  AnswersInv'
  <1>1. /\ view \in Views /\ rpc' = "compared" /\ other' = v
        /\ UNCHANGED <<view, first, touched>>
        /\ ~touched => first \in Answers(view, params)
    BY DEF OpenNext, Types, AnswersInv, Asked
  <1>2. /\ params' = [params EXCEPT !.pool = pool]
        /\ params = [bucketSize |-> params.bucketSize, from |-> params.from, to |-> params.to, pool |-> params.pool]
    BY DEF OpenNext, Types, IsParams
  <1>3. params'.bucketSize = params.bucketSize /\ params'.from = params.from /\ params'.to = params.to
    BY <1>2
  <1>4. view # "pool-algo-breakdown" => Answers(view, params') = Answers(view, params)
    BY <1>1, <1>3, OthersIgnorePool
  <1>5. Answers(view, params)' = Answers(view, params') /\ Answers(other, params)' = Answers(v, params')
    BY <1>1 DEF Answers, Views
  <1>6. second' \in Answers(v, params')
    BY DEF OpenNext
  <1> QED
    BY <1>1, <1>4, <1>5, <1>6 DEF AnswersInv, Asked

LEMMA Answered == Spec => []AnswersInv
  <1>1. Init => AnswersInv
    BY DEF Init, AnswersInv, Asked
  <1>2. ASSUME Types, Types', AnswersInv, [Next]_allVars PROVE AnswersInv'
    <2>1. ASSUME NEW h \in Heights, NEW c \in Coinbases[h], IndexBlock(h, c) PROVE AnswersInv'
      BY <1>2, <2>1, StoringKeepsAnswers
    <2>2. CASE Read /\ UNCHANGED <<blocks, stuck>>
      <3>1. CASE OpenGlance \/ Leave
        BY <3>1 DEF OpenGlance, Leave, AnswersInv, Asked
      <3>2. CASE \E v \in Views, raw \in RawParams : OpenPage(v, raw) \/ OpenJSON(v, raw)
        BY <1>2, <3>2, OpeningKeepsAnswers
      <3>3. CASE \E v \in Views, pool \in PoolOptions(blocks) : OpenNext(v, pool)
        BY <1>2, <2>2, <3>3, OpenNextKeepsAnswers
      <3> QED
        BY <1>2, <2>2, <3>1, <3>2, <3>3, SummaryKeepsAnswers, QueryKeepsAnswers, PictureKeepsAnswers DEF Read
    <2>3. CASE UNCHANGED allVars
      <3>1. /\ \A v \in Views : Answers(v, params)' = Answers(v, params)
            /\ BlockTimeSummary(blocks, params)' = BlockTimeSummary(blocks, params)
        BY <2>3, SameTable DEF allVars, reportVars
      <3>2. rpc \in Asked => view \in Views
        BY <1>2 DEF Types
      <3> QED
        BY <1>2, <2>3, <3>1, <3>2 DEF allVars, reportVars, AnswersInv, Asked
    <2> QED
      BY <1>2, <2>1, <2>2, <2>3 DEF Next
  <1> QED
    BY <1>1, <1>2, Typed, PTL DEF Spec

-----------------------------------------------------------------------------
(***************************************************************************)
(* Two requests about the same range.                                      *)
(***************************************************************************)
\* The summary above the table of block times has exactly the table's samples, each
\* with the same value, unless a row of the range was written in between.
THEOREM SamplesAgreeHolds == Spec => []SamplesAgree
  <1>1. ASSUME Types, AnswersInv PROVE SamplesAgree
    <2> SUFFICES ASSUME rpc = "summarised", ~touched
                 PROVE  /\ DOMAIN summary = SeriesOf(first)
                        /\ \A b \in DOMAIN first : \A h \in DOMAIN first[b] : summary[h] = first[b][h]
      BY DEF SamplesAgree
    <2>1. summary = BlockTimeSummary(blocks, params) /\ view = "block-time" /\ first \in Answers(view, params)
      BY <1>1 DEF AnswersInv
    <2>2. first \in BlockTimeDeltaBuckets(blocks, params)
      BY <2>1 DEF Answers
    <2>3. PICK S, B : S = Between(blocks, params) /\ B = PerBucket(S, params)
      OBVIOUS
    <2>4. first = [b \in DOMAIN B |-> Deltas(blocks, B[b])] /\ summary = Deltas(blocks, S)
      BY <2>1, <2>2, <2>3 DEF BlockTimeDeltaBuckets, BlockTimeSummary
    <2>5. /\ DOMAIN summary = {h \in S : h - 1 \in DOMAIN blocks}
          /\ \A h \in DOMAIN summary : summary[h] = blocks[h].timestamp - blocks[h - 1].timestamp
      BY <2>4 DEF Deltas
    <2>6. ASSUME NEW b \in DOMAIN B
          PROVE  /\ DOMAIN first[b] = {h \in B[b] : h - 1 \in DOMAIN blocks}
                 /\ \A h \in DOMAIN first[b] : first[b][h] = blocks[h].timestamp - blocks[h - 1].timestamp
      BY <2>4 DEF Deltas
    <2>7. DOMAIN first = DOMAIN B
      BY <2>4
    <2>8. \A b \in DOMAIN B : B[b] \subseteq S
      BY <2>3, BucketsWithin
    <2>9. \A h \in S : \E b \in DOMAIN B : h \in B[b]
      BY <2>3 DEF PerBucket
    <2>10. DOMAIN summary = SeriesOf(first)
      <3>1. \A h \in DOMAIN summary : h \in SeriesOf(first)
        BY <2>5, <2>6, <2>7, <2>9 DEF SeriesOf
      <3>2. \A h \in SeriesOf(first) : h \in DOMAIN summary
        BY <2>5, <2>6, <2>7, <2>8 DEF SeriesOf
      <3> QED
        BY <3>1, <3>2
    <2>11. ASSUME NEW b \in DOMAIN first, NEW h \in DOMAIN first[b] PROVE summary[h] = first[b][h]
      BY <2>5, <2>6, <2>7, <2>8
    <2> QED
      BY <2>10, <2>11
  <1> QED
    BY <1>1, Typed, Answered, PTL

\* A ranking of finitely many names has finitely many answers.
LEMMA FinitelyManyChoices ==
  ASSUME NEW t, NEW S, IsFiniteSet(S)
  PROVE  IsFiniteSet(TopPoolChoices(t, S))
  <1>1. PICK f : f = [h \in S |-> MappedTag(t[h].poolTag)]
    OBVIOUS
  <1>2. IsFiniteSet({f[h] : h \in S})
    BY <1>1, FiniteImage
  <1>3. PICK names : names = {MappedTag(t[h].poolTag) : h \in S} \ {NULL}
    OBVIOUS
  <1>4. names \in SUBSET {f[h] : h \in S}
    BY <1>1, <1>3
  <1>5. IsFiniteSet(SUBSET names)
    <2>1. IsFiniteSet(names)
      BY <1>2, <1>4, FS_Subset
    <2> QED
      BY <2>1, FS_SUBSET
  <1>6. DOMAIN Counts(ByMappedTag(t, S)) = names
    BY <1>3 DEF Counts, ByMappedTag
  <1>7. TopPoolChoices(t, S) \in SUBSET SUBSET names
    BY <1>6 DEF TopPoolChoices, Highest, kSubset
  <1> QED
    BY <1>5, <1>7, FS_Subset

LEMMA OneChoice ==
  ASSUME IsTable(blocks), Untied
  PROVE  \E top : TopPoolChoices(blocks, Between(blocks, params)) = {top}
  <1>1. IsFiniteSet(Between(blocks, params))
    <2>1. Between(blocks, params) \in SUBSET DOMAIN blocks
      BY DEF Between
    <2> QED
      BY <2>1, FS_Subset DEF IsTable
  <1>2. IsFiniteSet(TopPoolChoices(blocks, Between(blocks, params)))
    BY <1>1, FinitelyManyChoices
  <1> QED
    BY <1>2, FS_Singleton DEF Untied

LEMMA OneAnswer ==
  ASSUME NEW v \in Views, IsTable(blocks), v \in {"pool-share", "rewards-by-pool"} => Untied,
         NEW a \in Answers(v, params), NEW b \in Answers(v, params)
  PROVE  a = b
  <1>1. CASE v \in {"pool-share", "rewards-by-pool"}
    <2>1. PICK top : TopPoolChoices(blocks, Between(blocks, params)) = {top}
      BY <1>1, OneChoice
    <2>2. CASE v = "pool-share"
      BY <2>1, <2>2 DEF Answers, PoolShareBucketCounts
    <2>3. CASE v = "rewards-by-pool"
      BY <2>1, <2>3 DEF Answers, RewardBucketCountsByPool
    <2> QED
      BY <1>1, <2>2, <2>3
  <1>2. CASE v = "algo-distribution"
    BY <1>2 DEF Answers, AlgoBucketCounts
  <1>3. CASE v = "block-time"
    BY <1>3 DEF Answers, BlockTimeDeltaBuckets
  <1>4. CASE v = "difficulty"
    BY <1>4 DEF Answers, DifficultyBucketAvg
  <1>5. CASE v = "pool-algo-breakdown"
    BY <1>5 DEF Answers, AlgoBucketCountsForPool
  <1>6. CASE v = "rewards-by-algo"
    BY <1>6 DEF Answers, RewardBucketCountsByAlgo
  <1> QED
    BY <1>1, <1>2, <1>3, <1>4, <1>5, <1>6 DEF Views

\* The picture shows what the table below it shows, however the chain has grown since,
\* as long as no row of the range was written and the ranking has no ties.
THEOREM ChartShowsTableHolds == Spec => []ChartShowsTable
  <1>1. ASSUME Types, AnswersInv PROVE ChartShowsTable
    <2> SUFFICES ASSUME rpc = "drawn", ~touched, second # Draw(first)
                 PROVE  view \in {"pool-share", "rewards-by-pool"} /\ ~Untied
      BY DEF ChartShowsTable
    <2>1. PICK points \in Answers(view, params) : second = Draw(points)
      BY <1>1 DEF AnswersInv
    <2>2. view \in Views /\ IsTable(blocks) /\ first \in Answers(view, params)
      BY <1>1 DEF Types, AnswersInv, Asked
    <2> QED
      BY <2>1, <2>2, OneAnswer
  <1> QED
    BY <1>1, Typed, Answered, PTL

\* The two reports by pool single out the same pools, unless the ranking has ties or
\* a row of the range was written in between.
THEOREM SameTopPoolsHolds == Spec => []SameTopPools
  <1>1. ASSUME Types, AnswersInv PROVE SameTopPools
    <2> SUFFICES ASSUME rpc = "compared", ~touched, Untied, <<view, other>> = <<"pool-share", "rewards-by-pool">>
                 PROVE  SeriesOf(first) = SeriesOf(second)
      BY DEF SameTopPools
    <2>1. first \in Answers("pool-share", params) /\ second \in Answers("rewards-by-pool", params) /\ IsTable(blocks)
      BY <1>1 DEF AnswersInv, Types
    <2>2. PICK top : TopPoolChoices(blocks, Between(blocks, params)) = {top}
      BY <2>1, OneChoice
    <2>3. PICK B : B = PerBucket(Between(blocks, params), params)
      OBVIOUS
    <2>4. first = [b \in DOMAIN B |-> Counts(PerPool(blocks, B[b], top))]
      BY <2>1, <2>2, <2>3 DEF Answers, PoolShareBucketCounts
    <2>5. second = [b \in DOMAIN B |-> Rewards(blocks, PerPool(blocks, B[b], top))]
      BY <2>1, <2>2, <2>3 DEF Answers, RewardBucketCountsByPool
    <2>6. DOMAIN first = DOMAIN second /\ \A b \in DOMAIN first : DOMAIN first[b] = DOMAIN second[b]
      BY <2>4, <2>5 DEF Counts, Rewards
    <2> QED
      BY <2>6 DEF SeriesOf
  <1> QED
    BY <1>1, Typed, Answered, PTL

-----------------------------------------------------------------------------
(***************************************************************************)
(* Shares of a whole.                                                      *)
(***************************************************************************)
\* Every row is in one series.
Partition(series, S) ==
  \E K, key : IsFiniteSet(K) /\ key \in [S -> K] /\ series = [k \in K |-> Group(S, key, k)]

LEMMA CountsAddUp ==
  ASSUME NEW S, NEW series, IsFiniteSet(S), Partition(series, S)
  PROVE  Total(Counts(series)) = Cardinality(S)
  <1>1. PICK K, key : IsFiniteSet(K) /\ key \in [S -> K] /\ series = [k \in K |-> Group(S, key, k)]
    BY DEF Partition
  <1>2. PICK m : m = [A \in SUBSET S |-> Cardinality(A)]
    OBVIOUS
  <1>3. Additive(m, S)
    BY <1>2, CountIsAdditive
  <1>4. Total(PerGroup(m, S, K, key)) = m[S]
    BY <1>1, <1>3, GroupsAddUp
  <1>5. \A k \in K : m[Group(S, key, k)] = Cardinality(series[k])
    BY <1>1, <1>2 DEF Group
  <1>6. Counts(series) = PerGroup(m, S, K, key)
    BY <1>1, <1>5 DEF Counts, PerGroup
  <1> QED
    BY <1>2, <1>4, <1>6

LEMMA RewardsAddUp ==
  ASSUME NEW t, NEW S, NEW series, IsFiniteSet(S), \A h \in S : t[h].reward \in Int, Partition(series, S)
  PROVE  Total(Rewards(t, series)) = Total([h \in S |-> t[h].reward])
  <1>1. PICK K, key : IsFiniteSet(K) /\ key \in [S -> K] /\ series = [k \in K |-> Group(S, key, k)]
    BY DEF Partition
  <1>2. PICK r, m : r = [h \in S |-> t[h].reward] /\ m = [A \in SUBSET S |-> Over(r, A)]
    OBVIOUS
  <1>3. r \in [S -> Int] /\ Additive(m, S)
    BY <1>2, SumIsAdditive
  <1>4. Total(PerGroup(m, S, K, key)) = m[S]
    BY <1>1, <1>3, GroupsAddUp
  <1>5. ASSUME NEW k \in K PROVE m[Group(S, key, k)] = Total([h \in series[k] |-> t[h].reward])
    <2>1. series[k] \in SUBSET S /\ series[k] = Group(S, key, k)
      BY <1>1 DEF Group
    <2>2. [h \in series[k] |-> t[h].reward] = [h \in series[k] |-> r[h]]
      BY <1>2, <2>1
    <2> QED
      BY <1>2, <2>1, <2>2 DEF Over
  <1>6. Rewards(t, series) = PerGroup(m, S, K, key)
    BY <1>1, <1>5 DEF Rewards, PerGroup
  <1>7. m[S] = Total(r)
    BY <1>2, <1>3, OverAll
  <1> QED
    BY <1>2, <1>4, <1>6, <1>7

LEMMA SeriesArePartitions ==
  ASSUME NEW t, NEW S, IsFiniteSet(S)
  PROVE  /\ \A top : Partition(PerPool(t, S, top), S)
         /\ (\A h \in S : t[h].powAlgo \in Algos) => Partition(ByAlgo(t, S), S)
  <1>1. ASSUME NEW top PROVE Partition(PerPool(t, S, top), S)
    <2>1. PICK key, K : key = [h \in S |-> PoolKey(t[h].poolTag, top)] /\ K = {key[h] : h \in S}
      OBVIOUS
    <2>2. IsFiniteSet(K) /\ key \in [S -> K]
      BY <2>1, FiniteImage
    <2>3. \A k : Group(S, key, k) = {h \in S : PoolKey(t[h].poolTag, top) = k}
      BY <2>1 DEF Group
    <2>4. K = {PoolKey(t[h].poolTag, top) : h \in S}
      BY <2>1
    <2>5. PerPool(t, S, top) = [k \in K |-> Group(S, key, k)]
      BY <2>3, <2>4 DEF PerPool
    <2> QED
      BY <2>2, <2>5 DEF Partition
  <1>2. ASSUME \A h \in S : t[h].powAlgo \in Algos PROVE Partition(ByAlgo(t, S), S)
    <2>1. PICK key : key = [h \in S |-> t[h].powAlgo]
      OBVIOUS
    <2>2. key \in [S -> Algos]
      BY <1>2, <2>1
    <2>3. IsFiniteSet(Algos)
      <3>1. Algos = ((({} \cup {"RXM"}) \cup {"RXT"}) \cup {"C29"}) \cup {"SHA3X"}
        BY DEF Algos
      <3> QED
        BY <3>1, FS_EmptySet, FS_AddElement
    <2>4. \A a : Group(S, key, a) = {h \in S : t[h].powAlgo = a}
      BY <2>1 DEF Group
    <2>5. ByAlgo(t, S) = [a \in Algos |-> Group(S, key, a)]
      BY <2>4 DEF ByAlgo
    <2> QED
      BY <2>2, <2>3, <2>5 DEF Partition
  <1> QED
    BY <1>1, <1>2

\* The glance counts every block of its sample once by pool and once by algorithm.
LEMMA GlanceAddsUp ==
  ASSUME NEW t, IsTable(t), \A h \in DOMAIN t : t[h].powAlgo \in Algos
  PROVE  /\ Total(RecentBlocksStats(t).pools) = RecentBlocksStats(t).sample
         /\ Total(AlgoGlanceRows(RecentBlocksStats(t))) = RecentBlocksStats(t).sample
  <1>1. PICK S, stats : S = Newest(t) /\ stats = RecentBlocksStats(t)
    OBVIOUS
  <1>2. IsFiniteSet(S) /\ \A h \in S : t[h].powAlgo \in Algos
    <2>1. S \in SUBSET DOMAIN t
      BY <1>1 DEF Newest
    <2> QED
      BY <2>1, FS_Subset DEF IsTable
  <1>3. PICK key, K : /\ key = [h \in S |-> IF t[h].poolTag = NULL THEN Unknown ELSE MappedTag(t[h].poolTag)]
                      /\ K = {key[h] : h \in S}
    OBVIOUS
  <1>4. stats.sample = Cardinality(S) /\ stats.algos = AveragePerAlgo(t, S)
    BY <1>1 DEF RecentBlocksStats
  <1>5. PICK series : series = [k \in K |-> Group(S, key, k)]
    OBVIOUS
  <1>6. Partition(series, S)
    <2>1. IsFiniteSet(K) /\ key \in [S -> K]
      BY <1>2, <1>3, FiniteImage
    <2> QED
      BY <1>5, <2>1 DEF Partition
  <1>7. stats.pools = Counts(series)
    <2>1. \A k : Group(S, key, k) = {h \in S : (IF t[h].poolTag = NULL THEN Unknown ELSE MappedTag(t[h].poolTag)) = k}
      BY <1>3 DEF Group
    <2>2. K = {IF t[h].poolTag = NULL THEN Unknown ELSE MappedTag(t[h].poolTag) : h \in S}
      BY <1>3
    <2>3. stats.pools = [k \in K |-> Cardinality(Group(S, key, k))]
      BY <1>1, <2>1, <2>2 DEF RecentBlocksStats
    <2> QED
      BY <1>5, <2>3 DEF Counts
  <1>8. AlgoGlanceRows(stats) = Counts(ByAlgo(t, S))
    <2>1. DOMAIN stats.algos = {t[h].powAlgo : h \in S}
      BY <1>4 DEF AveragePerAlgo
    <2>2. ASSUME NEW a \in Algos
          PROVE  (IF a \in DOMAIN stats.algos THEN stats.algos[a].rows ELSE 0) = Cardinality({h \in S : t[h].powAlgo = a})
      <3>1. CASE a \in DOMAIN stats.algos
        BY <1>4, <2>1, <3>1 DEF AveragePerAlgo, Average
      <3>2. CASE a \notin DOMAIN stats.algos
        <4>1. {h \in S : t[h].powAlgo = a} = {}
          BY <2>1, <3>2
        <4> QED
          BY <3>2, <4>1, FS_EmptySet
      <3> QED
        BY <3>1, <3>2
    <2> QED
      BY <2>2 DEF AlgoGlanceRows, Counts, ByAlgo
  <1>9. Total(stats.pools) = Cardinality(S) /\ Total(AlgoGlanceRows(stats)) = Cardinality(S)
    BY <1>2, <1>6, <1>7, <1>8, CountsAddUp, SeriesArePartitions
  <1> QED
    BY <1>1, <1>4, <1>9

GlanceInv == rpc = "glance" => Total(first.pools) = first.sample /\ Total(second) = first.sample

LEMMA Glanced == Spec => []GlanceInv
  <1>1. Init => GlanceInv
    BY DEF Init, GlanceInv
  <1>2. ASSUME Types, GlanceInv, [Next]_allVars PROVE GlanceInv'
    <2>1. CASE OpenGlance
      <3>1. IsTable(blocks) /\ \A h \in DOMAIN blocks : blocks[h].powAlgo \in Algos
        BY <1>2 DEF Types, ReportsTypeOK
      <3>2. first' = RecentBlocksStats(blocks) /\ second' = AlgoGlanceRows(RecentBlocksStats(blocks))
        BY <2>1 DEF OpenGlance
      <3> QED
        BY <3>1, <3>2, GlanceAddsUp DEF GlanceInv
    <2>2. CASE Read /\ ~OpenGlance
      BY <2>2 DEF Read, OpenPage, OpenJSON, Open, SummariseBlockTimes, Query, LoadPicture, OpenNext, Leave, GlanceInv
    <2>3. CASE \E h \in Heights : \E c \in Coinbases[h] : IndexBlock(h, c)
      BY <1>2, <2>3 DEF IndexBlock, GlanceInv
    <2>4. CASE UNCHANGED allVars
      BY <1>2, <2>4 DEF allVars, reportVars, GlanceInv
    <2> QED
      BY <1>2, <2>1, <2>2, <2>3, <2>4 DEF Next
  <1> QED
    BY <1>1, <1>2, Typed, PTL DEF Spec

\* The pools of every bucket have as many blocks, and as much reward, as its algorithms,
\* whichever answer the ranking had; and the glance shows its whole sample twice.
THEOREM SharesAddUpHolds == Spec => []SharesAddUp
  <1>1. ASSUME Types, AnswersInv, rpc = "compared", ~touched,
               <<view, other>> \in {<<"pool-share", "algo-distribution">>, <<"rewards-by-pool", "rewards-by-algo">>}
        PROVE  /\ DOMAIN first = DOMAIN second
               /\ \A b \in DOMAIN first : Total(first[b]) = Total(second[b])
    <2>1. PICK S, B : S = Between(blocks, params) /\ B = PerBucket(S, params)
      OBVIOUS
    <2>2. IsFiniteSet(S) /\ \A h \in S : blocks[h].powAlgo \in Algos /\ blocks[h].reward \in Int
      <3>1. S \in SUBSET DOMAIN blocks
        BY <2>1 DEF Between
      <3> QED
        BY <1>1, <3>1, FS_Subset DEF Types, ReportsTypeOK, IsTable
    <2>3. ASSUME NEW b \in DOMAIN B
          PROVE  /\ IsFiniteSet(B[b])
                 /\ \A h \in B[b] : blocks[h].reward \in Int
                 /\ \A top : Partition(PerPool(blocks, B[b], top), B[b])
                 /\ Partition(ByAlgo(blocks, B[b]), B[b])
      <3>1. B[b] \in SUBSET S
        BY <2>1, BucketsWithin
      <3>2. IsFiniteSet(B[b]) /\ \A h \in B[b] : blocks[h].powAlgo \in Algos /\ blocks[h].reward \in Int
        BY <2>2, <3>1, FS_Subset
      <3> QED
        BY <3>2, SeriesArePartitions
    <2>4. first \in Answers(view, params) /\ second \in Answers(other, params)
      BY <1>1 DEF AnswersInv
    <2>5. CASE view = "pool-share" /\ other = "algo-distribution"
      <3>1. PICK top : first = [b \in DOMAIN B |-> Counts(PerPool(blocks, B[b], top))]
        BY <2>1, <2>4, <2>5 DEF Answers, PoolShareBucketCounts
      <3>2. second = [b \in DOMAIN B |-> Counts(ByAlgo(blocks, B[b]))]
        BY <2>1, <2>4, <2>5 DEF Answers, AlgoBucketCounts
      <3>3. ASSUME NEW b \in DOMAIN B PROVE Total(first[b]) = Total(second[b])
        <4>1. /\ Total(Counts(PerPool(blocks, B[b], top))) = Cardinality(B[b])
              /\ Total(Counts(ByAlgo(blocks, B[b]))) = Cardinality(B[b])
          BY <2>3, CountsAddUp
        <4> QED
          BY <3>1, <3>2, <4>1
      <3> QED
        BY <3>1, <3>2, <3>3
    <2>6. CASE view = "rewards-by-pool" /\ other = "rewards-by-algo"
      <3>1. PICK top : first = [b \in DOMAIN B |-> Rewards(blocks, PerPool(blocks, B[b], top))]
        BY <2>1, <2>4, <2>6 DEF Answers, RewardBucketCountsByPool
      <3>2. second = [b \in DOMAIN B |-> Rewards(blocks, ByAlgo(blocks, B[b]))]
        BY <2>1, <2>4, <2>6 DEF Answers, RewardBucketCountsByAlgo
      <3>3. ASSUME NEW b \in DOMAIN B PROVE Total(first[b]) = Total(second[b])
        <4>1. Total(Rewards(blocks, PerPool(blocks, B[b], top))) = Total(Rewards(blocks, ByAlgo(blocks, B[b])))
          <5>1. PICK whole : whole = Total([h \in B[b] |-> blocks[h].reward])
            OBVIOUS
          <5>2. Total(Rewards(blocks, PerPool(blocks, B[b], top))) = whole
            BY <2>3, <5>1, RewardsAddUp
          <5>3. Total(Rewards(blocks, ByAlgo(blocks, B[b]))) = whole
            BY <2>3, <5>1, RewardsAddUp
          <5> QED
            BY <5>2, <5>3
        <4> QED
          BY <3>1, <3>2, <4>1
      <3> QED
        BY <3>1, <3>2, <3>3
    <2> QED
      BY <1>1, <2>5, <2>6
  <1>2. ASSUME Types, AnswersInv, GlanceInv PROVE SharesAddUp
    BY <1>1, <1>2 DEF SharesAddUp, GlanceInv
  <1> QED
    BY <1>2, Typed, Answered, Glanced, PTL

-----------------------------------------------------------------------------
(***************************************************************************)
(* The names of pools.                                                     *)
(***************************************************************************)
Matches(i, tag) == IsPrefix(DefaultPoolTagMappings[i].matchPrefix, tag)
NameOf(i)       == DefaultPoolTagMappings[i].canonicalName

LEMMA TheMappings ==
  /\ DOMAIN DefaultPoolTagMappings = 1 .. 4 /\ Len(DefaultPoolTagMappings) = 4
  /\ ToSet(DefaultPoolTagMappings) = {DefaultPoolTagMappings[i] : i \in 1 .. 4}
  /\ \A i \in 1 .. 4 : \E w : DefaultPoolTagMappings[i].matchPrefix = <<w>>
  /\ \A i, j \in 1 .. 4 : i # j => DefaultPoolTagMappings[i].matchPrefix # DefaultPoolTagMappings[j].matchPrefix
  <1>1. PICK M : M = DefaultPoolTagMappings
    OBVIOUS
  <1>2. DOMAIN M = 1 .. 4 /\ Len(M) = 4
    BY <1>1 DEF DefaultPoolTagMappings
  <1>3. /\ M[1].matchPrefix = <<"WUF">> /\ M[2].matchPrefix = <<"Jagtech">>
        /\ M[3].matchPrefix = <<"supportxtm-">> /\ M[4].matchPrefix = <<"GCPOOL-SOLO">>
    BY <1>1 DEF DefaultPoolTagMappings, Mapping
  <1>4. \A i \in 1 .. 4 : i = 1 \/ i = 2 \/ i = 3 \/ i = 4
    OBVIOUS
  <1>5. ASSUME NEW i \in 1 .. 4 PROVE \E w : M[i].matchPrefix = <<w>>
    <2>1. \E w \in {"WUF", "Jagtech", "supportxtm-", "GCPOOL-SOLO"} : M[i].matchPrefix = <<w>>
      BY <1>3, <1>4
    <2> QED
      BY <2>1
  <1>6. /\ <<"WUF">> # <<"Jagtech">> /\ <<"WUF">> # <<"supportxtm-">> /\ <<"WUF">> # <<"GCPOOL-SOLO">>
        /\ <<"Jagtech">> # <<"supportxtm-">> /\ <<"Jagtech">> # <<"GCPOOL-SOLO">>
        /\ <<"supportxtm-">> # <<"GCPOOL-SOLO">>
    OBVIOUS
  <1>7. ASSUME NEW i \in 1 .. 4, NEW j \in 1 .. 4, i # j PROVE M[i].matchPrefix # M[j].matchPrefix
    BY <1>3, <1>4, <1>6, <1>7
  <1> QED
    BY <1>1, <1>2, <1>5, <1>7 DEF ToSet

\* No tag begins with two of the prefixes.
LEMMA OneMatch ==
  ASSUME NEW tag, NEW i \in 1 .. 4, NEW j \in 1 .. 4, Matches(i, tag), Matches(j, tag)
  PROVE  i = j
  <1>1. PICK v, w : DefaultPoolTagMappings[i].matchPrefix = <<v>> /\ DefaultPoolTagMappings[j].matchPrefix = <<w>>
    BY TheMappings
  <1>2. ASSUME NEW x PROVE Len(<<x>>) = 1 /\ SubSeq(<<x>>, 1, 1)[1] = x
    <2>1. PICK s : s = <<x>>
      OBVIOUS
    <2>2. Len(s) = 1 /\ s[1] = x
      BY <2>1
    <2>3. \A k \in 1 .. 1 : s[k] \in {x}
      BY <2>2
    <2>4. SubSeq(s, 1, 1)[1] = s[1 + 1 - 1]
      BY <2>3, SubSeqProperties
    <2> QED
      BY <2>1, <2>2, <2>4
  <1>3. v = SubSeq(tag, 1, 1)[1] /\ w = SubSeq(tag, 1, 1)[1]
    BY <1>1, <1>2 DEF Matches, IsPrefix
  <1> QED
    BY <1>1, <1>3, TheMappings

LEMMA MappedTagIs ==
  ASSUME NEW tag
  PROVE  \/ \E i \in 1 .. 4 : tag # NULL /\ Matches(i, tag) /\ MappedTag(tag) = NameOf(i)
         \/ (tag = NULL \/ \A i \in 1 .. 4 : ~Matches(i, tag)) /\ MappedTag(tag) = tag
  <1>1. PICK I : I = {i \in 1 .. 4 : Matches(i, tag)}
    OBVIOUS
  <1>2. SelectInSeq(DefaultPoolTagMappings, LAMBDA m : IsPrefix(m.matchPrefix, tag)) = IF I # {} THEN Min(I) ELSE 0
    BY <1>1, TheMappings DEF SelectInSeq, Matches
  <1>3. I # {} => Min(I) \in I
    <2>1. I \in SUBSET Nat
      BY <1>1
    <2>2. I # {} => \E x \in I : \A y \in I : x <= y
      BY <2>1, HasMinimum
    <2> QED
      BY <2>2 DEF Min
  <1>4. PICK n : n = IF I # {} THEN Min(I) ELSE 0
    OBVIOUS
  <1>5. MappedTag(tag) = IF tag # NULL /\ n # 0 THEN NameOf(n) ELSE tag
    BY <1>2, <1>4 DEF MappedTag, NameOf
  <1>6. CASE tag # NULL /\ I # {}
    BY <1>1, <1>3, <1>4, <1>5, <1>6
  <1>7. CASE tag = NULL \/ I = {}
    BY <1>1, <1>4, <1>5, <1>7
  <1> QED
    BY <1>6, <1>7

LEMMA PrefixesAre ==
  ASSUME NEW tag, NEW name
  PROVE  /\ PrefixesOf(name) = {} <=> \A i \in 1 .. 4 : NameOf(i) # name
         /\ PrefixesOf(name) # {} => (IsOfPool(tag, name) <=> \E i \in 1 .. 4 : NameOf(i) = name /\ Matches(i, tag))
         /\ PrefixesOf(name) = {} => (IsOfPool(tag, name) <=> tag = name)
  <1>1. PrefixesOf(name) = {DefaultPoolTagMappings[i].matchPrefix : i \in {i \in 1 .. 4 : NameOf(i) = name}}
    BY TheMappings DEF PrefixesOf, NameOf
  <1> QED
    BY <1>1 DEF IsOfPool, Matches

\* Whoever has the name in the ranking has the tag that the breakdown looks for,
\* unless the name itself is stored as a tag and is not one of its family.
LEMMA NameIsPool ==
  ASSUME NEW name, name # NULL, NEW tag0, MappedTag(tag0) = name,
         NEW tag, tag = name => IsOfPool(name, name)
  PROVE  MappedTag(tag) = name <=> IsOfPool(tag, name)
  <1>1. CASE PrefixesOf(name) = {}
    <2>1. \A i \in 1 .. 4 : NameOf(i) # name
      BY <1>1, PrefixesAre
    <2>2. tag0 = name /\ \A i \in 1 .. 4 : ~Matches(i, name)
      BY <2>1, MappedTagIs
    <2> QED
      BY <1>1, <2>1, <2>2, MappedTagIs, PrefixesAre
  <1>2. CASE PrefixesOf(name) # {}
    <2>1. ASSUME MappedTag(tag) = name PROVE IsOfPool(tag, name)
      BY <1>2, <2>1, MappedTagIs, PrefixesAre
    <2>2. ASSUME IsOfPool(tag, name) PROVE MappedTag(tag) = name
      <3>1. PICK i \in 1 .. 4 : NameOf(i) = name /\ Matches(i, tag)
        BY <1>2, <2>2, PrefixesAre
      <3>2. tag # NULL
        <4>1. PICK w : DefaultPoolTagMappings[i].matchPrefix = <<w>>
          BY TheMappings
        <4>2. Len(<<w>>) = 1 /\ Len(<<>>) = 0
          OBVIOUS
        <4> QED
          BY <3>1, <4>1, <4>2 DEF Matches, IsPrefix, NULL
      <3> QED
        BY <3>1, <3>2, MappedTagIs, OneMatch
    <2> QED
      BY <2>1, <2>2
  <1> QED
    BY <1>1, <1>2

\* A name in the ranking stands for the blocks whose mapped tag it is.
LEMMA KeyIsName ==
  ASSUME NEW tag, NEW top, NEW name, name \notin {Unknown, Other}
  PROVE  PoolKey(tag, top) = name <=> (name # NULL /\ name \in top /\ MappedTag(tag) = name)
  BY DEF PoolKey

\* Whatever the ranking names can be selected.
LEMMA NamesAreOptions ==
  ASSUME NEW h \in DOMAIN blocks, NEW name, name # NULL, MappedTag(blocks[h].poolTag) = name
  PROVE  name \in PoolOptions(blocks)
  <1>1. CASE \E i \in 1 .. 4 : name = NameOf(i)
    BY <1>1, TheMappings DEF PoolOptions, NameOf
  <1>2. CASE \A i \in 1 .. 4 : name # NameOf(i)
    <2>1. blocks[h].poolTag = name /\ \A i \in 1 .. 4 : ~Matches(i, name)
      BY <1>2, MappedTagIs
    <2>2. \A m \in ToSet(DefaultPoolTagMappings) : ~IsPrefix(m.matchPrefix, name)
      BY <2>1, TheMappings DEF Matches
    <2>3. name \in UnmappedPoolTags(blocks)
      BY <2>1, <2>2 DEF UnmappedPoolTags
    <2> QED
      BY <2>3 DEF PoolOptions
  <1> QED
    BY <1>1, <1>2

\* The blocks of a pool in a bucket, counted in the ranking and in the breakdown.
LEMMA BucketOfPool ==
  ASSUME NEW t, NEW S, NEW p, NEW T, NEW name, NEW top, IsFiniteSet(S),
         \A h \in S : t[h].powAlgo \in Algos,
         T \subseteq S, \A h \in S : h \in T <=> PoolKey(t[h].poolTag, top) = name,
         NEW b, NEW series, b \in DOMAIN PerBucket(S, p), series = PerPool(t, PerBucket(S, p)[b], top)
  PROVE  (IF name \in DOMAIN Counts(series) THEN Counts(series)[name] ELSE 0)
           = (IF b \in DOMAIN PerBucket(T, p) THEN Total(Counts(ByAlgo(t, PerBucket(T, p)[b]))) ELSE 0)
  <1>1. PICK A : A = {h \in S : BucketStart(h, p) = b}
    OBVIOUS
  <1>2. PICK C : C = {h \in T : BucketStart(h, p) = b}
    OBVIOUS
  <1>3. PerBucket(S, p)[b] = A
    BY <1>1, BucketsWithin
  <1>4. C = {h \in A : PoolKey(t[h].poolTag, top) = name} /\ C \in SUBSET S
    BY <1>1, <1>2
  <1>5. IsFiniteSet(C) /\ \A h \in C : t[h].powAlgo \in Algos
    BY <1>4, FS_Subset
  <1>6. (IF name \in DOMAIN Counts(series) THEN Counts(series)[name] ELSE 0) = Cardinality(C)
    <2>1. DOMAIN Counts(series) = {PoolKey(t[h].poolTag, top) : h \in A}
      BY <1>3 DEF Counts, PerPool
    <2>2. CASE name \in DOMAIN Counts(series)
      BY <1>3, <1>4, <2>2 DEF Counts, PerPool
    <2>3. CASE name \notin DOMAIN Counts(series)
      <3>1. C = {}
        BY <1>4, <2>1, <2>3
      <3> QED
        BY <2>3, <3>1, FS_EmptySet
    <2> QED
      BY <2>2, <2>3
  <1>7. (IF b \in DOMAIN PerBucket(T, p) THEN Total(Counts(ByAlgo(t, PerBucket(T, p)[b]))) ELSE 0) = Cardinality(C)
    <2>1. CASE b \in DOMAIN PerBucket(T, p)
      <3>1. PerBucket(T, p)[b] = C
        BY <1>2, <2>1, BucketsWithin
      <3>2. Total(Counts(ByAlgo(t, C))) = Cardinality(C)
        BY <1>5, SeriesArePartitions, CountsAddUp
      <3> QED
        BY <2>1, <3>1, <3>2
    <2>2. CASE b \notin DOMAIN PerBucket(T, p)
      <3>1. C = {}
        BY <1>2, <2>2 DEF PerBucket
      <3> QED
        BY <2>2, <3>1, FS_EmptySet
    <2> QED
      BY <2>1, <2>2
  <1> QED
    BY <1>6, <1>7

\* Every pool that the pool share report names can be selected for the breakdown by
\* algorithm, which then has the same number of its blocks in every bucket.
THEOREM BreakdownAgreesHolds == Spec => []BreakdownAgrees
  <1>1. ASSUME Types, AnswersInv PROVE BreakdownAgrees
    <2> SUFFICES ASSUME rpc = "compared", ~touched, <<view, other>> = <<"pool-share", "pool-algo-breakdown">>,
                        NEW pools, pools = {k \in SeriesOf(first) \ {Unknown, Other} : ~Stray(k)}
                 PROVE  /\ pools \subseteq PoolOptions(blocks)
                        /\ params.pool \in pools =>
                             \A b \in DOMAIN first :
                               (IF params.pool \in DOMAIN first[b] THEN first[b][params.pool] ELSE 0)
                                 = (IF b \in DOMAIN second THEN Total(second[b]) ELSE 0)
      BY DEF BreakdownAgrees
    <2>1. first \in Answers("pool-share", params) /\ second \in Answers("pool-algo-breakdown", params)
      BY <1>1 DEF AnswersInv
    <2>2. PICK S, B : S = Between(blocks, params) /\ B = PerBucket(S, params)
      OBVIOUS
    <2>3. PICK top : first = [b \in DOMAIN B |-> Counts(PerPool(blocks, B[b], top))]
      BY <2>1, <2>2 DEF Answers, PoolShareBucketCounts
    <2>4. PICK T : T = {h \in S : IsOfPool(blocks[h].poolTag, params.pool)}
      OBVIOUS
    <2>5. second = [b \in DOMAIN PerBucket(T, params) |-> Counts(ByAlgo(blocks, PerBucket(T, params)[b]))]
      BY <2>1, <2>2, <2>4 DEF Answers, AlgoBucketCountsForPool
    <2>6. S \in SUBSET DOMAIN blocks
      BY <2>2 DEF Between
    <2>7. IsFiniteSet(S) /\ \A h \in S : blocks[h].powAlgo \in Algos
      BY <1>1, <2>6, FS_Subset DEF Types, ReportsTypeOK, IsTable
    <2>8. ASSUME NEW name \in pools
          PROVE  /\ name \notin {Unknown, Other} /\ ~Stray(name) /\ name # NULL /\ name \in top
                 /\ \E h \in S : MappedTag(blocks[h].poolTag) = name
      <3>1. name \notin {Unknown, Other} /\ ~Stray(name)
        BY <2>8
      <3>2. PICK b \in DOMAIN B : name \in DOMAIN Counts(PerPool(blocks, B[b], top))
        BY <2>3, <2>8 DEF SeriesOf
      <3>3. PICK h \in B[b] : PoolKey(blocks[h].poolTag, top) = name
        BY <3>2 DEF Counts, PerPool
      <3>4. h \in S
        BY <2>2, BucketsWithin
      <3> QED
        BY <3>1, <3>3, <3>4, KeyIsName
    <2>9. pools \subseteq PoolOptions(blocks)
      BY <2>6, <2>8, NamesAreOptions
    <2>10. ASSUME params.pool \in pools, NEW b \in DOMAIN first
           PROVE  (IF params.pool \in DOMAIN first[b] THEN first[b][params.pool] ELSE 0)
                    = (IF b \in DOMAIN second THEN Total(second[b]) ELSE 0)
      <3>1. PICK name : name = params.pool
        OBVIOUS
      <3>2. /\ name \notin {Unknown, Other} /\ ~Stray(name) /\ name # NULL /\ name \in top
            /\ \E h \in S : MappedTag(blocks[h].poolTag) = name
        BY <2>8, <2>10, <3>1
      <3>3. ASSUME NEW h \in S PROVE h \in T <=> PoolKey(blocks[h].poolTag, top) = name
        <4>1. blocks[h].poolTag = name => IsOfPool(name, name)
          BY <2>6, <3>2 DEF Stray
        <4>2. MappedTag(blocks[h].poolTag) = name <=> IsOfPool(blocks[h].poolTag, name)
          BY <3>2, <4>1, NameIsPool
        <4> QED
          BY <2>4, <3>1, <3>2, <4>2, KeyIsName
      <3>4. T \subseteq S
        BY <2>4
      <3>5. b \in DOMAIN B /\ first[b] = Counts(PerPool(blocks, B[b], top))
        BY <2>3
      <3>6. PICK series : series = PerPool(blocks, PerBucket(S, params)[b], top)
        OBVIOUS
      <3>7. (IF name \in DOMAIN Counts(series) THEN Counts(series)[name] ELSE 0)
              = (IF b \in DOMAIN PerBucket(T, params) THEN Total(Counts(ByAlgo(blocks, PerBucket(T, params)[b]))) ELSE 0)
        BY <2>2, <2>7, <3>3, <3>4, <3>5, <3>6, BucketOfPool
      <3> QED
        BY <2>2, <2>5, <3>1, <3>5, <3>6, <3>7
    <2> QED
      BY <2>9, <2>10
  <1> QED
    BY <1>1, Typed, Answered, PTL

-----------------------------------------------------------------------------
(***************************************************************************)
(* The attribution of a block.  The recursive functions of PoolAttr are    *)
(* unfolded here; what follows uses MappedUnits and EndOfStep.             *)
(***************************************************************************)
Kept(before, unit, drop) ==
  IF unit \in drop THEN before ELSE Append(before, IF unit = "bad" THEN "U+FFFD" ELSE unit)

Keeps(kept, s, drop, n) ==
  kept = [i \in 0 .. n |-> IF i = 0 THEN <<>> ELSE Kept(kept[i - 1], s[i], drop)]

LEMMA KeptExists == ASSUME NEW s, NEW drop, NEW n \in Nat PROVE \E kept : Keeps(kept, s, drop, n)
  <1> DEFINE N == {m \in Nat : \E kept : Keeps(kept, s, drop, m)}
  <1>1. 0 \in N
    <2>1. Keeps([i \in 0 .. 0 |-> <<>>], s, drop, 0)
      BY DEF Keeps
    <2> QED
      BY <2>1
  <1>2. ASSUME NEW m \in N PROVE m + 1 \in N
    <2>1. m \in Nat /\ \E kept : Keeps(kept, s, drop, m)
      OBVIOUS
    <2>2. PICK kept : Keeps(kept, s, drop, m)
      BY <2>1
    <2>3. PICK next : next = [i \in 0 .. m + 1 |-> IF i = 0 THEN <<>> ELSE Kept(kept[i - 1], s[i], drop)]
      OBVIOUS
    <2>4. \A i \in 0 .. m : next[i] = kept[i]
      BY <2>1, <2>2, <2>3 DEF Keeps
    <2>5. \A i \in 0 .. m + 1 : i # 0 => i - 1 \in 0 .. m
      BY <2>1
    <2>6. Keeps(next, s, drop, m + 1)
      BY <2>3, <2>4, <2>5 DEF Keeps
    <2> QED
      BY <2>1, <2>6
  <1>3. n \in N
    BY <1>1, <1>2, NatSetInduction
  <1> QED
    BY <1>3

\* What is kept are units of the string that are not dropped, in particular the first.
LEMMA MappedUnits ==
  ASSUME NEW U, NEW X, NEW s \in Seq(U), NEW drop,
         \A u \in U \ drop : (IF u = "bad" THEN "U+FFFD" ELSE u) \in X
  PROVE  /\ Mapped(s, drop) \in Seq(X)
         /\ s # <<>> /\ s[1] \notin drop /\ s[1] # "bad" => Mapped(s, drop) # <<>> /\ Mapped(s, drop)[1] = s[1]
  <1>1. Len(s) \in Nat /\ \A i \in 1 .. Len(s) : s[i] \in U
    OBVIOUS
  <1>2. PICK kept : Keeps(kept, s, drop, Len(s)) /\ Mapped(s, drop) = kept[Len(s)]
    <2>1. Mapped(s, drop) = (CHOOSE kept : Keeps(kept, s, drop, Len(s)))[Len(s)]
      BY DEF Mapped, Keeps, Kept
    <2> QED
      BY <1>1, <2>1, KeptExists
  <1>3. kept[0] = <<>>
    BY <1>1, <1>2 DEF Keeps
  <1>4. ASSUME NEW i \in 1 .. Len(s)
        PROVE  kept[i] = Kept(kept[i - 1], s[i], drop)
    BY <1>1, <1>2 DEF Keeps
  <1> DEFINE N == {i \in Nat : i <= Len(s) => kept[i] \in Seq(X)}
             F == {i \in Nat : i + 1 <= Len(s) => kept[i + 1] # <<>> /\ kept[i + 1][1] = s[1]}
  <1>5. 0 \in N
    <2>1. <<>> \in Seq(X)
      OBVIOUS
    <2> QED
      BY <1>3, <2>1
  <1>6. ASSUME NEW i \in N PROVE i + 1 \in N
    <2> SUFFICES ASSUME i + 1 <= Len(s) PROVE kept[i + 1] \in Seq(X)
      OBVIOUS
    <2>1. i \in Nat /\ i + 1 \in 1 .. Len(s) /\ (i + 1) - 1 = i /\ kept[i] \in Seq(X)
      BY <1>1
    <2>2. PICK u : u = IF s[i + 1] = "bad" THEN "U+FFFD" ELSE s[i + 1]
      OBVIOUS
    <2>3. s[i + 1] \notin drop => u \in X
      BY <1>1, <2>1, <2>2
    <2>4. kept[i + 1] = IF s[i + 1] \in drop THEN kept[i] ELSE Append(kept[i], u)
      BY <1>4, <2>1, <2>2 DEF Kept
    <2> QED
      BY <2>1, <2>3, <2>4
  <1>7. Len(s) \in N
    BY <1>1, <1>5, <1>6, NatSetInduction
  <1>8. N = Nat
    BY <1>5, <1>6, NatSetInduction
  <1>9. ASSUME s # <<>>, s[1] \notin drop, s[1] # "bad"
        PROVE  Mapped(s, drop) # <<>> /\ Mapped(s, drop)[1] = s[1]
    <2>1. 1 \in 1 .. Len(s) /\ Len(s) - 1 \in Nat
      BY <1>1, <1>9
    <2>2. kept[1] = Append(<<>>, s[1])
      <3>1. kept[1] = Kept(kept[1 - 1], s[1], drop) /\ 1 - 1 = 0
        BY <1>4, <2>1
      <3>2. kept[1] = Kept(<<>>, s[1], drop)
        BY <1>3, <3>1
      <3> QED
        BY <1>9, <3>2 DEF Kept
    <2>3. 0 \in F
      <3>1. Append(<<>>, s[1]) # <<>> /\ Append(<<>>, s[1])[1] = s[1]
        OBVIOUS
      <3> QED
        BY <2>2, <3>1
    <2>4. ASSUME NEW i \in F PROVE i + 1 \in F
      <3> SUFFICES ASSUME i + 2 <= Len(s) PROVE kept[i + 2] # <<>> /\ kept[i + 2][1] = s[1]
        OBVIOUS
      <3>1. i \in Nat /\ i + 1 <= Len(s) /\ i + 2 \in 1 .. Len(s) /\ (i + 2) - 1 = i + 1
        BY <1>1
      <3>2. kept[i + 1] # <<>> /\ kept[i + 1][1] = s[1] /\ kept[i + 1] \in Seq(X)
        BY <1>8, <3>1
      <3>3. PICK u : u = IF s[i + 2] = "bad" THEN "U+FFFD" ELSE s[i + 2]
        OBVIOUS
      <3>4. kept[i + 2] = IF s[i + 2] \in drop THEN kept[i + 1] ELSE Append(kept[i + 1], u)
        BY <1>4, <3>1, <3>3 DEF Kept
      <3>5. s[i + 2] \notin drop => u \in X
        BY <1>1, <3>1, <3>3
      <3> QED
        BY <3>2, <3>4, <3>5
    <2>5. Len(s) - 1 \in F
      BY <2>1, <2>3, <2>4, NatSetInduction
    <2>6. (Len(s) - 1) + 1 = Len(s)
      BY <1>1
    <2> QED
      BY <1>1, <1>2, <2>5, <2>6
  <1> QED
    BY <1>2, <1>7, <1>9

Sums(end, s, n) == end = [k \in 0 .. n |-> IF k = 0 THEN 0 ELSE end[k - 1] + Width(s[k])]

LEMMA WidthType == \A unit : Width(unit) \in Nat \ {0}
  BY DEF Width

LEMMA SumsExist == ASSUME NEW s, NEW n \in Nat PROVE \E end : Sums(end, s, n)
  <1> DEFINE N == {m \in Nat : \E end : Sums(end, s, m)}
  <1>1. 0 \in N
    <2>1. Sums([k \in 0 .. 0 |-> 0], s, 0)
      BY DEF Sums
    <2> QED
      BY <2>1
  <1>2. ASSUME NEW m \in N PROVE m + 1 \in N
    <2>1. m \in Nat /\ \E end : Sums(end, s, m)
      OBVIOUS
    <2>2. PICK end : Sums(end, s, m)
      BY <2>1
    <2>3. PICK next : next = [k \in 0 .. m + 1 |-> IF k = 0 THEN 0 ELSE end[k - 1] + Width(s[k])]
      OBVIOUS
    <2>4. \A k \in 0 .. m : next[k] = end[k]
      BY <2>1, <2>2, <2>3 DEF Sums
    <2>5. \A k \in 0 .. m + 1 : k # 0 => k - 1 \in 0 .. m
      BY <2>1
    <2>6. Sums(next, s, m + 1)
      BY <2>3, <2>4, <2>5 DEF Sums
    <2> QED
      BY <2>1, <2>6
  <1>3. n \in N
    BY <1>1, <1>2, NatSetInduction
  <1> QED
    BY <1>3

LEMMA SumsAgree ==
  ASSUME NEW s, NEW m \in Nat, NEW n \in Nat, m <= n, NEW end, NEW fin, Sums(end, s, m), Sums(fin, s, n)
  PROVE  \A k \in 0 .. m : end[k] = fin[k] /\ end[k] \in Nat
  <1> DEFINE N == {k \in Nat : k <= m => end[k] = fin[k] /\ end[k] \in Nat}
  <1>1. 0 \in N
    <2>1. end[0] = 0 /\ fin[0] = 0
      BY DEF Sums
    <2> QED
      BY <2>1
  <1>2. ASSUME NEW k \in N PROVE k + 1 \in N
    <2> SUFFICES ASSUME k + 1 <= m PROVE end[k + 1] = fin[k + 1] /\ end[k + 1] \in Nat
      OBVIOUS
    <2>1. k \in Nat /\ end[k] = fin[k] /\ end[k] \in Nat
      OBVIOUS
    <2>2. k + 1 \in 0 .. m /\ k + 1 \in 0 .. n /\ k + 1 # 0 /\ (k + 1) - 1 = k
      BY <2>1
    <2>3. end[k + 1] = end[k] + Width(s[k + 1])
      BY <2>2 DEF Sums
    <2>4. fin[k + 1] = fin[k] + Width(s[k + 1])
      BY <2>2 DEF Sums
    <2>5. Width(s[k + 1]) \in Nat
      BY WidthType
    <2> QED
      BY <2>1, <2>3, <2>4, <2>5
  <1>3. N = Nat
    BY <1>1, <1>2, NatSetInduction
  <1> QED
    BY <1>3

LEMMA EndOfStep ==
  ASSUME NEW s
  PROVE  /\ EndOf(s, 0) = 0
         /\ \A i \in Nat : EndOf(s, i) \in Nat /\ EndOf(s, i + 1) = EndOf(s, i) + Width(s[i + 1])
  <1> DEFINE End(i) == CHOOSE end : Sums(end, s, i)
  <1>1. \A i : EndOf(s, i) = End(i)[i]
    BY DEF EndOf, Sums
  <1>2. \A i \in Nat : Sums(End(i), s, i)
    BY SumsExist
  <1> HIDE DEF End
  <1>3. EndOf(s, 0) = 0
    BY <1>1, <1>2 DEF Sums
  <1>4. ASSUME NEW i \in Nat PROVE EndOf(s, i) \in Nat /\ EndOf(s, i + 1) = EndOf(s, i) + Width(s[i + 1])
    <2>1. PICK end, fin : end = End(i) /\ fin = End(i + 1)
      OBVIOUS
    <2>2. Sums(end, s, i) /\ Sums(fin, s, i + 1)
      BY <1>2, <2>1
    <2>3. end[i] = fin[i] /\ end[i] \in Nat
      BY <2>2, SumsAgree
    <2>4. fin[i + 1] = fin[i] + Width(s[i + 1])
      <3>1. i + 1 \in 0 .. i + 1 /\ i + 1 # 0 /\ (i + 1) - 1 = i
        OBVIOUS
      <3> QED
        BY <2>2, <3>1 DEF Sums
    <2> QED
      BY <1>1, <2>1, <2>3, <2>4
  <1> QED
    BY <1>3, <1>4

\* A cut falls into one of the units.
LEMMA CutFalls ==
  ASSUME NEW X, NEW s \in Seq(X), NEW n \in Nat, ~(EndOf(s, Len(s)) <= n)
  PROVE  \E i \in 0 .. Len(s) - 1 : EndOf(s, i) <= n /\ n < EndOf(s, i + 1)
  <1>1. Len(s) \in Nat
    OBVIOUS
  <1>2. \A i \in Nat : EndOf(s, i) \in Nat
    BY EndOfStep
  <1>3. PICK T : T = {i \in Nat : n < EndOf(s, i)}
    OBVIOUS
  <1>4. T \in SUBSET Nat /\ Len(s) \in T
    <2>1. PICK last : last = EndOf(s, Len(s))
      OBVIOUS
    <2>2. last \in Nat
      BY <1>1, <1>2, <2>1
    <2>3. n < last
      BY <2>1, <2>2
    <2> QED
      BY ONLY <1>1, <1>3, <2>1, <2>3
  <1>5. PICK j \in T : \A i \in T : j <= i
    BY <1>4, HasMinimum
  <1>6. j \in Nat /\ n < EndOf(s, j) /\ j <= Len(s)
    BY <1>1, <1>3, <1>4, <1>5
  <1>7. j # 0
    BY <1>6, EndOfStep
  <1>8. j - 1 \in Nat /\ (j - 1) + 1 = j /\ j - 1 \in 0 .. Len(s) - 1
    BY <1>1, <1>6, <1>7
  <1>9. EndOf(s, j - 1) <= n
    <2>1. j - 1 \notin T
      BY <1>5, <1>6, <1>8
    <2> QED
      BY <1>2, <1>3, <1>8, <2>1
  <1> QED
    BY <1>6, <1>8, <1>9

LEMMA CutType ==
  ASSUME NEW unit, NEW n \in Nat
  PROVE  Cut(unit, n) \in Seq({"a", "cut"}) /\ (unit \notin {"rune", "U+FFFD"} => Cut(unit, n) \in Seq({"a"}))
  <1>1. CASE unit \in {"rune", "U+FFFD"}
    BY <1>1 DEF Cut
  <1>2. CASE unit \notin {"rune", "U+FFFD"}
    <2>1. Cut(unit, n) = [i \in 1 .. n |-> "a"]
      BY <1>2 DEF Cut
    <2>2. [i \in 1 .. n |-> "a"] \in Seq({"a"}) /\ [i \in 1 .. n |-> "a"] \in Seq({"a", "cut"})
      OBVIOUS
    <2> QED
      BY <2>1, <2>2
  <1> QED
    BY <1>1, <1>2

\* What is cut off leaves a prefix, and of the unit that it falls into some characters.
LEMMA Truncated ==
  ASSUME NEW X, NEW s \in Seq(X), NEW n \in Nat, ~(EndOf(s, Len(s)) <= n)
  PROVE  \E i \in 0 .. Len(s) - 1 : \E rest \in Seq({"a", "cut"}) :
           /\ truncatePoolTag(s, n) = SubSeq(s, 1, i) \o rest
           /\ EndOf(s, i) <= n /\ n < EndOf(s, i + 1)
           /\ s[i + 1] \notin {"rune", "U+FFFD"} => rest \in Seq({"a"})
  <1>1. PICK whole : whole = CHOOSE i \in 0 .. Len(s) - 1 : EndOf(s, i) <= n /\ n < EndOf(s, i + 1)
    OBVIOUS
  <1>2. whole \in 0 .. Len(s) - 1 /\ EndOf(s, whole) <= n /\ n < EndOf(s, whole + 1)
    BY <1>1, CutFalls
  <1>3. PICK r : r = n - EndOf(s, whole)
    OBVIOUS
  <1>4. whole \in Nat /\ r \in Nat
    <2>1. Len(s) \in Nat
      OBVIOUS
    <2>2. whole \in Nat
      BY <1>2, <2>1
    <2>3. EndOf(s, whole) \in Nat
      BY <2>2, EndOfStep
    <2> QED
      BY <1>2, <1>3, <2>2, <2>3
  <1>5. PICK rest : rest = IF r = 0 THEN <<>> ELSE Cut(s[whole + 1], r)
    OBVIOUS
  <1>6. truncatePoolTag(s, n) = SubSeq(s, 1, whole) \o rest
    <2> DEFINE w == CHOOSE i \in 0 .. Len(s) - 1 : EndOf(s, i) <= n /\ n < EndOf(s, i + 1)
    <2>1. truncatePoolTag(s, n) =
            IF EndOf(s, Len(s)) <= n THEN s
            ELSE SubSeq(s, 1, w) \o (IF n - EndOf(s, w) = 0 THEN <<>> ELSE Cut(s[w + 1], n - EndOf(s, w)))
      BY DEF truncatePoolTag
    <2>2. w = whole
      BY <1>1
    <2> HIDE DEF w
    <2>3. truncatePoolTag(s, n) =
            SubSeq(s, 1, whole) \o (IF r = 0 THEN <<>> ELSE Cut(s[whole + 1], r))
      BY <1>3, <2>1, <2>2
    <2> QED
      BY <1>5, <2>3
  <1>7. rest \in Seq({"a", "cut"}) /\ (s[whole + 1] \notin {"rune", "U+FFFD"} => rest \in Seq({"a"}))
    <2>1. <<>> \in Seq({"a", "cut"}) /\ <<>> \in Seq({"a"})
      OBVIOUS
    <2> QED
      BY <1>4, <1>5, <2>1, CutType
  <1> QED
    BY <1>2, <1>6, <1>7

\* A tag of text is cut to text.
LEMMA CutText ==
  ASSUME NEW X, NEW s \in Seq(X), NEW n \in Nat, "a" \in X, "rune" \notin X, "U+FFFD" \notin X
  PROVE  truncatePoolTag(s, n) \in Seq(X)
  <1>1. CASE EndOf(s, Len(s)) <= n
    BY <1>1 DEF truncatePoolTag
  <1>2. CASE ~(EndOf(s, Len(s)) <= n)
    <2>1. PICK i \in 0 .. Len(s) - 1, rest \in Seq({"a", "cut"}) :
            /\ truncatePoolTag(s, n) = SubSeq(s, 1, i) \o rest
            /\ s[i + 1] \notin {"rune", "U+FFFD"} => rest \in Seq({"a"})
      BY <1>2, Truncated
    <2>2. Len(s) \in Nat /\ i \in Int /\ \A k \in 1 .. i + 1 : s[k] \in X
      OBVIOUS
    <2>3. SubSeq(s, 1, i) \in Seq(X)
      BY <2>2, SubSeqProperties
    <2>4. s[i + 1] \in X
      BY <2>2
    <2>5. rest \in Seq({"a"})
      BY <2>1, <2>4
    <2>6. rest \in Seq(X)
      BY <2>5, SeqMonotonic
    <2> QED
      BY <2>1, <2>3, <2>6
  <1> QED
    BY <1>1, <1>2

\* A cut behind the first unit leaves it.
LEMMA CutKeepsFirst ==
  ASSUME NEW X, NEW s \in Seq(X), NEW n \in Nat, s # <<>>, Width(s[1]) <= n
  PROVE  Len(truncatePoolTag(s, n)) >= 1 /\ truncatePoolTag(s, n)[1] = s[1]
  <1>1. Len(s) \in Nat /\ Len(s) >= 1
    OBVIOUS
  <1>2. CASE EndOf(s, Len(s)) <= n
    BY <1>1, <1>2 DEF truncatePoolTag
  <1>3. CASE ~(EndOf(s, Len(s)) <= n)
    <2>1. PICK i \in 0 .. Len(s) - 1, rest \in Seq({"a", "cut"}) :
            truncatePoolTag(s, n) = SubSeq(s, 1, i) \o rest /\ n < EndOf(s, i + 1)
      BY <1>3, Truncated
    <2>2. i # 0
      <3>1. EndOf(s, 0 + 1) = EndOf(s, 0) + Width(s[0 + 1]) /\ EndOf(s, 0) = 0 /\ Width(s[1]) \in Nat
        BY EndOfStep, WidthType
      <3>2. EndOf(s, 1) = Width(s[1])
        BY <3>1
      <3> QED
        BY <2>1, <3>1, <3>2
    <2>3. i \in Int /\ 1 <= i /\ \A k \in 1 .. i : s[k] \in X
      BY <1>1, <2>2
    <2>4. PICK t : t = SubSeq(s, 1, i)
      OBVIOUS
    <2>5. t \in Seq(X) /\ Len(t) = i /\ t[1] = s[1]
      <3>1. t \in Seq(X) /\ Len(t) = i - 1 + 1 /\ \A k \in 1 .. i - 1 + 1 : t[k] = s[1 + k - 1]
        BY <2>3, <2>4, SubSeqProperties
      <3>2. Len(t) = i /\ 1 \in 1 .. i - 1 + 1
        BY <2>3, <3>1
      <3>3. t[1] = s[1 + 1 - 1]
        BY ONLY <3>1, <3>2
      <3> QED
        BY ONLY <3>1, <3>2, <3>3
    <2>6. Len(t \o rest) = Len(t) + Len(rest) /\ Len(rest) \in Nat /\ (t \o rest)[1] = t[1]
      <3>1. PICK Y : Y = X \cup {"a", "cut"}
        OBVIOUS
      <3>2. t \in Seq(Y) /\ rest \in Seq(Y)
        BY <2>5, <3>1, SeqMonotonic
      <3>3. Len(rest) \in Nat /\ 1 \in 1 .. Len(t) + Len(rest) /\ 1 <= Len(t)
        BY <2>3, <2>5, <3>2
      <3> QED
        BY <3>2, <3>3, ConcatProperties
    <2>7. PICK u : u = t \o rest
      OBVIOUS
    <2>8. Len(u) = Len(t) + Len(rest) /\ Len(rest) \in Nat /\ u[1] = s[1]
      BY ONLY <2>5, <2>6, <2>7
    <2>9. Len(u) >= 1
      BY ONLY <2>3, <2>5, <2>8
    <2> QED
      BY ONLY <2>1, <2>4, <2>7, <2>8, <2>9
  <1> QED
    BY <1>2, <1>3

LEMMA FirstIs ==
  ASSUME NEW U, NEW s \in Seq(U)
  PROVE  /\ FirstNUL(s) \in 0 .. Len(s)
         /\ FirstNUL(s) = 0 => \A i \in 1 .. Len(s) : s[i] # "NUL"
         /\ FirstNUL(s) # 0 => \A i \in 1 .. FirstNUL(s) - 1 : s[i] # "NUL"
  <1>1. PICK I : I = {i \in 1 .. Len(s) : s[i] = "NUL"}
    OBVIOUS
  <1>2. FirstNUL(s) = IF I # {} THEN Min(I) ELSE 0
    BY <1>1 DEF FirstNUL, SelectInSeq
  <1>3. Len(s) \in Nat
    OBVIOUS
  <1>4. CASE I # {}
    <2>1. I \in SUBSET Nat
      BY <1>1
    <2>2. Min(I) \in I /\ \A i \in I : Min(I) <= i
      BY <1>4, <2>1, HasMinimum DEF Min
    <2>3. PICK m : m = Min(I)
      OBVIOUS
    <2>4. m \in 1 .. Len(s) /\ FirstNUL(s) = m
      BY <1>1, <1>2, <1>4, <2>2, <2>3
    <2>5. \A i \in 1 .. m - 1 : i \notin I
      BY <1>3, <2>2, <2>3, <2>4
    <2>6. \A i \in 1 .. m - 1 : i \in 1 .. Len(s)
      BY <1>3, <2>4
    <2> QED
      BY <1>1, <1>3, <2>4, <2>5, <2>6
  <1>5. CASE I = {}
    BY <1>1, <1>2, <1>3, <1>5
  <1> QED
    BY <1>4, <1>5

LEMMA MatchBytesAre ==
  ASSUME NEW U, NEW s \in Seq(U)
  PROVE  /\ MatchBytes(s) \in Seq(U \ {"NUL"})
         /\ MatchBytes(s) # <<>> => s # <<>> /\ s[1] = MatchBytes(s)[1]
  <1>1. Len(s) \in Nat /\ FirstNUL(s) \in 0 .. Len(s) /\ \A i \in 1 .. Len(s) : s[i] \in U
    BY FirstIs
  <1>2. CASE FirstNUL(s) = 0
    <2>1. MatchBytes(s) = s
      BY <1>2 DEF MatchBytes
    <2>2. \A i \in 1 .. Len(s) : s[i] \in U \ {"NUL"}
      BY <1>1, <1>2, FirstIs
    <2> QED
      BY <2>1, <2>2
  <1>3. CASE FirstNUL(s) # 0
    <2>1. PICK n : n = FirstNUL(s) - 1
      OBVIOUS
    <2>2. n \in Nat /\ n < Len(s) /\ MatchBytes(s) = SubSeq(s, 1, n)
      BY <1>1, <1>3, <2>1 DEF MatchBytes
    <2>3. \A i \in 1 .. n : s[i] \in U \ {"NUL"}
      BY <1>1, <1>3, <2>1, <2>2, FirstIs
    <2>4. PICK t : t = SubSeq(s, 1, n)
      OBVIOUS
    <2>5. /\ t \in Seq(U \ {"NUL"}) /\ Len(t) = IF 1 <= n THEN n - 1 + 1 ELSE 0
          /\ \A i \in 1 .. n - 1 + 1 : t[i] = s[1 + i - 1]
      BY <2>2, <2>3, <2>4, SubSeqProperties
    <2>6. t # <<>> => s # <<>> /\ s[1] = t[1]
      <3>1. CASE n = 0
        BY <2>5, <3>1
      <3>2. CASE n # 0
        <4>1. 1 \in 1 .. n - 1 + 1 /\ 1 + 1 - 1 = 1 /\ Len(s) # 0
          BY <1>1, <2>2, <3>2
        <4> QED
          BY <2>5, <4>1
      <3> QED
        BY <3>1, <3>2
    <2> QED
      BY <2>2, <2>4, <2>5, <2>6
  <1> QED
    BY <1>2, <1>3

LEMMA TruncBaseIs ==
  ASSUME NEW U, NEW s \in Seq(U)
  PROVE  TruncBase(s) \in Seq((U \cup {"U+FFFD"}) \ {"NUL"})
  <1>1. CASE FirstNUL(s) = 0
    <2>1. \A u \in U \ {"NUL", "ctl"} : (IF u = "bad" THEN "U+FFFD" ELSE u) \in (U \cup {"U+FFFD"}) \ {"NUL"}
      OBVIOUS
    <2>2. Mapped(s, {"NUL", "ctl"}) \in Seq((U \cup {"U+FFFD"}) \ {"NUL"})
      BY <2>1, MappedUnits
    <2> QED
      BY <1>1, <2>2 DEF TruncBase, printableOnly
  <1>2. CASE FirstNUL(s) # 0
    <2>1. MatchBytes(s) \in Seq(U \ {"NUL"}) /\ U \ {"NUL"} \subseteq (U \cup {"U+FFFD"}) \ {"NUL"}
      BY MatchBytesAre
    <2> QED
      BY <1>2, <2>1, SeqMonotonic DEF TruncBase
  <1> QED
    BY <1>1, <1>2

\* The ASCII filter leaves nothing that is not text.
LEMMA AsciiIs ==
  ASSUME NEW U, NEW s \in Seq(U)
  PROVE  asciiPrintableOnly(s) \in Seq(U \ {"NUL", "ctl", "bad", "rune", "U+FFFD"})
  <1>1. PICK drop : drop = {"NUL", "ctl", "bad", "rune", "U+FFFD"}
    OBVIOUS
  <1>2. \A u \in U \ drop : (IF u = "bad" THEN "U+FFFD" ELSE u) \in U \ drop
    BY <1>1
  <1>3. Mapped(s, drop) \in Seq(U \ drop)
    BY <1>2, MappedUnits
  <1> QED
    BY <1>1, <1>3 DEF asciiPrintableOnly

LEMMA TextIs ==
  ASSUME NEW X, NEW tag \in Seq(X), X \cap {"NUL", "bad", "cut"} = {}
  PROVE  IsText(tag)
  BY DEF IsText

-----------------------------------------------------------------------------
(***************************************************************************)
(* The table of the own tags, row by row.                                  *)
(***************************************************************************)
IsSeq(t) == \E X : t \in Seq(X)

Plus3(t, a, b, c) == t \o <<a, b, c>>
Plus1(t, a)       == t \o <<a>>

Has3More(s, t, a, b, c) ==
  /\ Len(s) = Len(t) + 3
  /\ s[Len(t) + 1] = a /\ s[Len(t) + 2] = b /\ s[Len(t) + 3] = c
  /\ \A i \in 1 .. Len(t) : s[i] = t[i]

Has1More(s, t, a) ==
  Len(s) = Len(t) + 1 /\ s[Len(t) + 1] = a /\ \A i \in 1 .. Len(t) : s[i] = t[i]

LEMMA ThreeMore ==
  ASSUME NEW t, NEW a, NEW b, NEW c, IsSeq(t)
  PROVE  IsSeq(Plus3(t, a, b, c)) /\ Has3More(Plus3(t, a, b, c), t, a, b, c)
  <1>1. PICK X : t \in Seq(X)
    BY DEF IsSeq
  <1>2. PICK Y : Y = X \cup {a, b, c}
    OBVIOUS
  <1>3. t \in Seq(Y) /\ a \in Y /\ b \in Y /\ c \in Y
    BY <1>1, <1>2, SeqMonotonic
  <1>4. PICK s : s = t \o <<a, b, c>>
    OBVIOUS
  <1>5. s \in Seq(Y) /\ Has3More(s, t, a, b, c)
    BY <1>3, <1>4 DEF Has3More
  <1>6. s = Plus3(t, a, b, c)
    BY <1>4 DEF Plus3
  <1> QED
    BY <1>5, <1>6 DEF IsSeq

LEMMA OneMore ==
  ASSUME NEW t, NEW a, IsSeq(t)
  PROVE  IsSeq(Plus1(t, a)) /\ Has1More(Plus1(t, a), t, a)
  <1>1. PICK X : t \in Seq(X)
    BY DEF IsSeq
  <1>2. PICK Y : Y = X \cup {a}
    OBVIOUS
  <1>3. t \in Seq(Y) /\ a \in Y
    BY <1>1, <1>2, SeqMonotonic
  <1>4. PICK s : s = t \o <<a>>
    OBVIOUS
  <1>5. s \in Seq(Y) /\ Has1More(s, t, a)
    BY <1>3, <1>4 DEF Has1More
  <1>6. s = Plus1(t, a)
    BY <1>4 DEF Plus1
  <1> QED
    BY <1>5, <1>6 DEF IsSeq

AlgoWord == <<"sha3x", "c29", "rxt", "rxm">>
BareLen  == <<16, 14, 14, 14>>

LEMMA OwnRows ==
  /\ Len(ownPoolTags) = 15
  /\ ownPoolTags[1] = OwnTag(<<"WUF">>, 12, <<"Jagtech">>)
  /\ ownPoolTags[2] = OwnTag(<<"Jagtech">>, 9, <<"Jagtech">>)
  /\ \A g \in 1 .. 4 :
       /\ ownPoolTags[3 * g] = OwnTag(<<"supportxtm-", AlgoWord[g], "-pplns">>, 0, <<"SupportXTM">>)
       /\ ownPoolTags[3 * g + 1] = OwnTag(<<"supportxtm-", AlgoWord[g], "-solo">>, 0, <<"SupportXTM">>)
       /\ ownPoolTags[3 * g + 2] = OwnTag(<<"supportxtm-", AlgoWord[g]>>, BareLen[g], <<"SupportXTM">>)
  /\ ownPoolTags[15] = OwnTag(<<"GCPOOL-SOLO">>, 11, <<"SupportXTM">>)
  <1> DEFINE P(a)    == OwnTag(<<"supportxtm-", a, "-pplns">>, 0, <<"SupportXTM">>)
             S(a)    == OwnTag(<<"supportxtm-", a, "-solo">>, 0, <<"SupportXTM">>)
             B(a, n) == OwnTag(<<"supportxtm-", a>>, n, <<"SupportXTM">>)
  <1>1. \A a, n : SupportXTM(a, n) = <<P(a), S(a), B(a, n)>>
    BY DEF SupportXTM
  <1> HIDE DEF P, S, B
  <1>2. PICK t0 : t0 = <<OwnTag(<<"WUF">>, 12, <<"Jagtech">>), OwnTag(<<"Jagtech">>, 9, <<"Jagtech">>)>>
    OBVIOUS
  <1>3. PICK t1, t2, t3, t4 : /\ t1 = t0 \o SupportXTM("sha3x", 16) /\ t2 = t1 \o SupportXTM("c29", 14)
                              /\ t3 = t2 \o SupportXTM("rxt", 14) /\ t4 = t3 \o SupportXTM("rxm", 14)
    OBVIOUS
  <1>4. PICK gc : gc = OwnTag(<<"GCPOOL-SOLO">>, 11, <<"SupportXTM">>)
    OBVIOUS
  <1>5. ownPoolTags = t4 \o <<gc>>
    BY <1>2, <1>3, <1>4 DEF ownPoolTags
  <1>6. /\ IsSeq(t0) /\ Len(t0) = 2
        /\ t0[1] = OwnTag(<<"WUF">>, 12, <<"Jagtech">>) /\ t0[2] = OwnTag(<<"Jagtech">>, 9, <<"Jagtech">>)
    <2>1. PICK x, y : x = OwnTag(<<"WUF">>, 12, <<"Jagtech">>) /\ y = OwnTag(<<"Jagtech">>, 9, <<"Jagtech">>)
      OBVIOUS
    <2>2. t0 = <<x, y>>
      BY <1>2, <2>1
    <2>3. t0 \in Seq({x, y}) /\ Len(t0) = 2 /\ t0[1] = x /\ t0[2] = y
      BY <2>2
    <2> QED
      BY <2>1, <2>3 DEF IsSeq
  <1>7. /\ IsSeq(t1) /\ Len(t1) = 5 /\ t1[3] = P("sha3x") /\ t1[4] = S("sha3x") /\ t1[5] = B("sha3x", 16)
        /\ \A i \in 1 .. 2 : t1[i] = t0[i]
    <2>1. PICK p, q, r : p = P("sha3x") /\ q = S("sha3x") /\ r = B("sha3x", 16)
      OBVIOUS
    <2>2. t1 = Plus3(t0, p, q, r)
      BY <1>1, <1>3, <2>1 DEF Plus3
    <2>3. IsSeq(t1) /\ Has3More(t1, t0, p, q, r)
      BY <1>6, <2>2, ThreeMore
    <2> QED
      BY <1>6, <2>1, <2>3 DEF Has3More
  <1>8. /\ IsSeq(t2) /\ Len(t2) = 8 /\ t2[6] = P("c29") /\ t2[7] = S("c29") /\ t2[8] = B("c29", 14)
        /\ \A i \in 1 .. 5 : t2[i] = t1[i]
    <2>1. PICK p, q, r : p = P("c29") /\ q = S("c29") /\ r = B("c29", 14)
      OBVIOUS
    <2>2. t2 = Plus3(t1, p, q, r)
      BY <1>1, <1>3, <2>1 DEF Plus3
    <2>3. IsSeq(t2) /\ Has3More(t2, t1, p, q, r)
      BY <1>7, <2>2, ThreeMore
    <2> QED
      BY <1>7, <2>1, <2>3 DEF Has3More
  <1>9. /\ IsSeq(t3) /\ Len(t3) = 11 /\ t3[9] = P("rxt") /\ t3[10] = S("rxt") /\ t3[11] = B("rxt", 14)
        /\ \A i \in 1 .. 8 : t3[i] = t2[i]
    <2>1. PICK p, q, r : p = P("rxt") /\ q = S("rxt") /\ r = B("rxt", 14)
      OBVIOUS
    <2>2. t3 = Plus3(t2, p, q, r)
      BY <1>1, <1>3, <2>1 DEF Plus3
    <2>3. IsSeq(t3) /\ Has3More(t3, t2, p, q, r)
      BY <1>8, <2>2, ThreeMore
    <2> QED
      BY <1>8, <2>1, <2>3 DEF Has3More
  <1>10. /\ IsSeq(t4) /\ Len(t4) = 14 /\ t4[12] = P("rxm") /\ t4[13] = S("rxm") /\ t4[14] = B("rxm", 14)
         /\ \A i \in 1 .. 11 : t4[i] = t3[i]
    <2>1. PICK p, q, r : p = P("rxm") /\ q = S("rxm") /\ r = B("rxm", 14)
      OBVIOUS
    <2>2. t4 = Plus3(t3, p, q, r)
      BY <1>1, <1>3, <2>1 DEF Plus3
    <2>3. IsSeq(t4) /\ Has3More(t4, t3, p, q, r)
      BY <1>9, <2>2, ThreeMore
    <2> QED
      BY <1>9, <2>1, <2>3 DEF Has3More
  <1>11. PICK own : own = ownPoolTags
    OBVIOUS
  <1>12. Len(own) = 15 /\ own[15] = gc /\ \A i \in 1 .. 14 : own[i] = t4[i]
    <2>1. own = Plus1(t4, gc)
      BY <1>5, <1>11 DEF Plus1
    <2>2. Has1More(own, t4, gc)
      BY <1>10, <2>1, OneMore
    <2> QED
      BY <1>10, <2>2 DEF Has1More
  <1>13. /\ own[1] = t0[1] /\ own[2] = t0[2]
         /\ own[3] = P("sha3x") /\ own[4] = S("sha3x") /\ own[5] = B("sha3x", 16)
         /\ own[6] = P("c29") /\ own[7] = S("c29") /\ own[8] = B("c29", 14)
         /\ own[9] = P("rxt") /\ own[10] = S("rxt") /\ own[11] = B("rxt", 14)
         /\ own[12] = P("rxm") /\ own[13] = S("rxm") /\ own[14] = B("rxm", 14)
    BY <1>7, <1>8, <1>9, <1>10, <1>12
  <1>14. ASSUME NEW g \in 1 .. 4
         PROVE  own[3 * g] = P(AlgoWord[g]) /\ own[3 * g + 1] = S(AlgoWord[g]) /\ own[3 * g + 2] = B(AlgoWord[g], BareLen[g])
    <2>1. g = 1 \/ g = 2 \/ g = 3 \/ g = 4
      OBVIOUS
    <2> QED
      BY <1>13, <2>1 DEF AlgoWord, BareLen
  <1> QED
    BY <1>4, <1>6, <1>11, <1>12, <1>13, <1>14 DEF P, S, B

LEMMA PrefixUnits ==
  ASSUME NEW X, NEW Y, NEW p \in Seq(X), NEW t \in Seq(Y)
  PROVE  IsPrefix(p, t) <=> Len(p) <= Len(t) /\ \A i \in 1 .. Len(p) : p[i] = t[i]
  <1>1. PICK n : n = Len(p)
    OBVIOUS
  <1>2. n \in Nat /\ Len(t) \in Nat
    BY <1>1
  <1> SUFFICES ASSUME n <= Len(t)
               PROVE  SubSeq(p, 1, n) = SubSeq(t, 1, n) <=> \A i \in 1 .. n : p[i] = t[i]
    BY <1>1 DEF IsPrefix
  <1>3. \A i \in 1 .. n : p[i] \in X /\ t[i] \in Y
    BY <1>1, <1>2
  <1>4. PICK q, u : q = SubSeq(p, 1, n) /\ u = SubSeq(t, 1, n)
    OBVIOUS
  <1>5. \A i \in 1 .. n : q[i] = p[i]
    <2>1. 1 \in Int /\ n \in Int /\ \A i \in 1 .. n : p[i] \in X
      BY <1>2, <1>3
    <2>2. \A i \in 1 .. n - 1 + 1 : q[i] = p[1 + i - 1]
      BY <1>4, <2>1, SubSeqProperties
    <2> QED
      BY <1>2, <2>2
  <1>6. \A i \in 1 .. n : u[i] = t[i]
    <2>1. 1 \in Int /\ n \in Int /\ \A i \in 1 .. n : t[i] \in Y
      BY <1>2, <1>3
    <2>2. \A i \in 1 .. n - 1 + 1 : u[i] = t[1 + i - 1]
      BY <1>4, <2>1, SubSeqProperties
    <2> QED
      BY <1>2, <2>2
  <1>7. /\ q \in Seq(X \cup Y) /\ u \in Seq(X \cup Y) /\ Len(q) = n /\ Len(u) = n
    <2>1. \A i \in 1 .. n : p[i] \in X \cup Y /\ t[i] \in X \cup Y
      BY <1>3
    <2> QED
      BY <1>2, <1>4, <2>1, SubSeqProperties
  <1>8. ASSUME \A i \in 1 .. n : p[i] = t[i] PROVE q = u
    BY <1>5, <1>6, <1>7, <1>8, SeqEqual
  <1> QED
    BY <1>4, <1>5, <1>6, <1>8

LEMMA OwnRowIs ==
  ASSUME NEW s
  PROVE  \/ OwnRow(s) = 0 /\ \A r \in 1 .. 15 : ~IsPrefix(ownPoolTags[r].prefix, MatchBytes(s))
         \/ /\ OwnRow(s) \in 1 .. 15 /\ IsPrefix(ownPoolTags[OwnRow(s)].prefix, MatchBytes(s))
           /\ \A r \in 1 .. 15 : IsPrefix(ownPoolTags[r].prefix, MatchBytes(s)) => OwnRow(s) <= r
  <1>1. PICK I : I = {r \in 1 .. 15 : IsPrefix(ownPoolTags[r].prefix, MatchBytes(s))}
    OBVIOUS
  <1>2. OwnRow(s) = IF I # {} THEN Min(I) ELSE 0
    BY <1>1, OwnRows DEF OwnRow, SelectInSeq
  <1>3. I # {} => Min(I) \in I /\ \A r \in I : Min(I) <= r
    <2>1. I \in SUBSET Nat
      BY <1>1
    <2> QED
      BY <2>1, HasMinimum DEF Min
  <1> QED
    BY <1>1, <1>2, <1>3

\* What the rows of the table have in common.
FirstWords == {"WUF", "Jagtech", "supportxtm-", "GCPOOL-SOLO"}
NameBy(w)  == IF w \in {"WUF", "Jagtech"} THEN <<"Jagtech">> ELSE <<"SupportXTM">>
LengthBy(w) == CASE w = "WUF" -> 12 [] w = "Jagtech" -> 9 [] OTHER -> 11

IsRowOf(row, w, r) ==
  /\ w \in FirstWords
  /\ IsSeq(row.prefix) /\ Len(row.prefix) \in 1 .. 3 /\ row.prefix[1] = w
  /\ row.canonicalName = NameBy(w)
  /\ row.tagLen \in Nat /\ (row.tagLen = 0 \/ Width(w) <= row.tagLen)
  /\ w # "supportxtm-" => row.tagLen = LengthBy(w)
  /\ w = "supportxtm-" => /\ Len(row.prefix) >= 2
                          /\ \E g \in 1 .. 4 : /\ row.prefix[2] = AlgoWord[g]
                                               /\ \/ row.tagLen = 0
                                                  \/ row.tagLen = BareLen[g] /\ r = 3 * g + 2

LEMMA ShortTuples ==
  ASSUME NEW a, NEW b, NEW c
  PROVE  /\ IsSeq(<<a>>) /\ Len(<<a>>) = 1 /\ <<a>>[1] = a
         /\ IsSeq(<<a, b>>) /\ Len(<<a, b>>) = 2 /\ <<a, b>>[1] = a /\ <<a, b>>[2] = b
         /\ IsSeq(<<a, b, c>>) /\ Len(<<a, b, c>>) = 3
         /\ <<a, b, c>>[1] = a /\ <<a, b, c>>[2] = b /\ <<a, b, c>>[3] = c
  <1>1. <<a>> \in Seq({a, b, c}) /\ <<a, b>> \in Seq({a, b, c}) /\ <<a, b, c>> \in Seq({a, b, c})
    OBVIOUS
  <1> QED
    BY <1>1 DEF IsSeq

LEMMA RowsAre == \A r \in 1 .. 15 : \E w \in FirstWords : IsRowOf(ownPoolTags[r], w, r)
  <1>1. ASSUME NEW w \in FirstWords \ {"supportxtm-"}, NEW r
        PROVE  IsRowOf(OwnTag(<<w>>, LengthBy(w), NameBy(w)), w, r)
    <2>1. PICK p : p = <<w>>
      OBVIOUS
    <2>2. IsSeq(p) /\ Len(p) = 1 /\ p[1] = w
      BY <2>1, ShortTuples
    <2>3. LengthBy(w) \in Nat /\ Width(w) <= LengthBy(w)
      BY DEF LengthBy, Width, FirstWords
    <2>4. IsRowOf(OwnTag(p, LengthBy(w), NameBy(w)), w, r)
      BY <2>2, <2>3 DEF IsRowOf, OwnTag
    <2> QED
      BY <2>1, <2>4
  <1>2. ASSUME NEW g \in 1 .. 4, NEW p, NEW n, NEW r,
               n = 0 \/ (n = BareLen[g] /\ r = 3 * g + 2), IsSeq(p), Len(p) \in 2 .. 3, p[1] = "supportxtm-", p[2] = AlgoWord[g]
        PROVE  IsRowOf(OwnTag(p, n, <<"SupportXTM">>), "supportxtm-", r)
    <2>1. BareLen[g] \in {14, 16}
      BY DEF BareLen
    <2>2. Width("supportxtm-") = 11
      BY DEF Width
    <2>3. n \in Nat /\ (n = 0 \/ 11 <= n)
      BY <1>2, <2>1
    <2>4. NameBy("supportxtm-") = <<"SupportXTM">>
      BY DEF NameBy
    <2> QED
      BY <1>2, <2>2, <2>3, <2>4 DEF IsRowOf, OwnTag, FirstWords
  <1>3. ASSUME NEW g \in 1 .. 4
        PROVE  /\ IsRowOf(ownPoolTags[3 * g], "supportxtm-", 3 * g)
               /\ IsRowOf(ownPoolTags[3 * g + 1], "supportxtm-", 3 * g + 1)
               /\ IsRowOf(ownPoolTags[3 * g + 2], "supportxtm-", 3 * g + 2)
    <2>1. PICK p, q, u : /\ p = <<"supportxtm-", AlgoWord[g], "-pplns">> /\ q = <<"supportxtm-", AlgoWord[g], "-solo">>
                         /\ u = <<"supportxtm-", AlgoWord[g]>>
      OBVIOUS
    <2>2. /\ IsSeq(p) /\ Len(p) = 3 /\ p[1] = "supportxtm-" /\ p[2] = AlgoWord[g]
          /\ IsSeq(q) /\ Len(q) = 3 /\ q[1] = "supportxtm-" /\ q[2] = AlgoWord[g]
          /\ IsSeq(u) /\ Len(u) = 2 /\ u[1] = "supportxtm-" /\ u[2] = AlgoWord[g]
      BY <2>1, ShortTuples
    <2>3. /\ ownPoolTags[3 * g] = OwnTag(p, 0, <<"SupportXTM">>)
          /\ ownPoolTags[3 * g + 1] = OwnTag(q, 0, <<"SupportXTM">>)
          /\ ownPoolTags[3 * g + 2] = OwnTag(u, BareLen[g], <<"SupportXTM">>)
      BY <2>1, OwnRows
    <2> QED
      BY <1>2, <2>2, <2>3
  <1>4. /\ IsRowOf(ownPoolTags[1], "WUF", 1) /\ IsRowOf(ownPoolTags[2], "Jagtech", 2)
        /\ IsRowOf(ownPoolTags[15], "GCPOOL-SOLO", 15)
    <2>1. /\ LengthBy("WUF") = 12 /\ LengthBy("Jagtech") = 9 /\ LengthBy("GCPOOL-SOLO") = 11
          /\ NameBy("WUF") = <<"Jagtech">> /\ NameBy("Jagtech") = <<"Jagtech">>
          /\ NameBy("GCPOOL-SOLO") = <<"SupportXTM">>
      BY DEF LengthBy, NameBy
    <2>2. {"WUF", "Jagtech", "GCPOOL-SOLO"} \subseteq FirstWords \ {"supportxtm-"}
      BY DEF FirstWords
    <2> QED
      BY <1>1, <2>1, <2>2, OwnRows
  <1>5. ASSUME NEW r \in 1 .. 15
        PROVE  r \in {1, 2, 15} \/ \E g \in 1 .. 4 : r = 3 * g \/ r = 3 * g + 1 \/ r = 3 * g + 2
    <2>1. CASE r \in 3 .. 14
      <3>1. r = 3 * (r \div 3) + (r % 3) /\ r \div 3 \in 1 .. 4 /\ r % 3 \in 0 .. 2
        BY <2>1
      <3> QED
        BY <3>1
    <2> QED
      BY <2>1
  <1>6. FirstWords = {"WUF", "Jagtech", "supportxtm-", "GCPOOL-SOLO"}
    BY DEF FirstWords
  <1> QED
    BY <1>3, <1>4, <1>5, <1>6

-----------------------------------------------------------------------------
(***************************************************************************)
(* Attribution: what becomes of a coinbase extra.                          *)
(***************************************************************************)
UnitsOf(s) == {s[i] : i \in 1 .. Len(s)}

LEMMA ExtrasAre ==
  ASSUME NEW c \in Mined
  PROVE  c.extra \in Seq(UnitsOf(c.extra)) /\ "cut" \notin UnitsOf(c.extra)
  <1>1. c.extra \in Seq(STRING) /\ \A i \in DOMAIN c.extra : c.extra[i] # "cut"
    BY QueriesAssumption
  <1>2. DOMAIN c.extra = 1 .. Len(c.extra)
    BY <1>1
  <1>3. PICK s : s = c.extra
    OBVIOUS
  <1>4. s \in Seq(UnitsOf(s))
    <2>1. Len(s) \in Nat /\ s = [i \in 1 .. Len(s) |-> s[i]]
      BY <1>1, <1>3
    <2>2. \A i \in 1 .. Len(s) : s[i] \in UnitsOf(s)
      BY DEF UnitsOf
    <2> QED
      BY <2>1, <2>2
  <1> QED
    BY <1>1, <1>2, <1>3, <1>4 DEF UnitsOf

\* The tag of an own row is text, if nothing but ASCII is in what it is cut from.
LEMMA OwnTagIsText ==
  ASSUME NEW U, NEW s \in Seq(U), "cut" \notin U, OwnRow(s) # 0,
         asciiPrintableOnly(TruncBase(s)) = TruncBase(s)
  PROVE  IsText(OwnPoolTag(s, ownPoolTags[OwnRow(s)]))
  <1>1. PICK X : X = ((U \cup {"U+FFFD"}) \ {"NUL"}) \ {"NUL", "ctl", "bad", "rune", "U+FFFD"}
    OBVIOUS
  <1>2. TruncBase(s) \in Seq(X)
    BY <1>1, TruncBaseIs, AsciiIs
  <1>3. PICK Y : Y = X \cup {"a"}
    OBVIOUS
  <1>4. "a" \in Y /\ "rune" \notin Y /\ "U+FFFD" \notin Y /\ Y \cap {"NUL", "bad", "cut"} = {}
    BY <1>1, <1>3
  <1>5. TruncBase(s) \in Seq(Y)
    BY <1>2, <1>3, SeqMonotonic
  <1>6. PICK n : n = ownPoolTags[OwnRow(s)].tagLen
    OBVIOUS
  <1>7. n \in Nat
    BY <1>6, OwnRowIs, RowsAre DEF IsRowOf
  <1>8. truncatePoolTag(TruncBase(s), n) \in Seq(Y)
    BY <1>4, <1>5, <1>7, CutText
  <1>9. OwnPoolTag(s, ownPoolTags[OwnRow(s)]) \in Seq(Y)
    BY <1>5, <1>6, <1>8 DEF OwnPoolTag
  <1> QED
    BY <1>4, <1>9, TextIs

LEMMA WordIsText == ASSUME NEW w \in DOMAIN prefixTable PROVE IsText(<<prefixTable[w]>>)
  <1>1. prefixTable[w] \notin {"NUL", "bad", "cut"}
    BY DEF prefixTable
  <1>2. PICK v : v = prefixTable[w]
    OBVIOUS
  <1>3. <<v>> \in Seq({v}) /\ {v} \cap {"NUL", "bad", "cut"} = {}
    BY <1>1, <1>2
  <1> QED
    BY <1>2, <1>3, TextIs

LEMMA NoTextOnlyOwn ==
  ASSUME NEW c \in Mined, ~IsText(Attribute(c.coinbase, c.extra).poolTag)
  PROVE  OwnRow(c.extra) # 0 /\ asciiPrintableOnly(TruncBase(c.extra)) # TruncBase(c.extra)
  <1>1. PICK s : s = c.extra
    OBVIOUS
  <1>2. s \in Seq(UnitsOf(s)) /\ "cut" \notin UnitsOf(s)
    BY <1>1, ExtrasAre
  <1>3. IsText(NULL)
    BY DEF IsText, NULL
  <1>4. Attribute(c.coinbase, s) = attributeExtra(s) \/ Attribute(c.coinbase, s).poolTag = NULL
    BY DEF Attribute
  <1>5. ~IsText(attributeExtra(s).poolTag)
    BY <1>1, <1>3, <1>4
  <1>6. \/ OwnRow(s) # 0 /\ attributeExtra(s).poolTag = OwnPoolTag(s, ownPoolTags[OwnRow(s)])
        \/ \E w \in DOMAIN prefixTable : attributeExtra(s).poolTag = <<prefixTable[w]>>
        \/ attributeExtra(s).poolTag = asciiPrintableOnly(s)
    BY DEF attributeExtra
  <1>7. IsText(asciiPrintableOnly(s))
    <2>1. asciiPrintableOnly(s) \in Seq(UnitsOf(s) \ {"NUL", "ctl", "bad", "rune", "U+FFFD"})
      BY <1>2, AsciiIs
    <2>2. (UnitsOf(s) \ {"NUL", "ctl", "bad", "rune", "U+FFFD"}) \cap {"NUL", "bad", "cut"} = {}
      BY <1>2
    <2> QED
      BY <2>1, <2>2, TextIs
  <1>8. OwnRow(s) # 0 /\ attributeExtra(s).poolTag = OwnPoolTag(s, ownPoolTags[OwnRow(s)])
    BY <1>5, <1>6, <1>7, WordIsText
  <1> QED
    BY <1>1, <1>2, <1>5, <1>8, OwnTagIsText

\* The database refuses no block but one that calls itself ours and whose tag has
\* other than ASCII characters: the filter of the other tags leaves only text.
THEOREM StuckOnlyOnOwnTagsHolds == Spec => []StuckOnlyOnOwnTags
  <1>1. Init => StuckOnlyOnOwnTags
    BY DEF Init, StuckOnlyOnOwnTags
  <1>2. ASSUME StuckOnlyOnOwnTags, Types, [Next]_allVars PROVE StuckOnlyOnOwnTags'
    <2>1. CASE stuck' = stuck
      BY <1>2, <2>1 DEF StuckOnlyOnOwnTags
    <2>2. CASE \E h \in Heights : \E c \in Coinbases[h] : IndexBlock(h, c)
      <3>1. PICK h \in Heights : \E c \in Coinbases[h] : IndexBlock(h, c)
        BY <2>2
      <3>2. PICK c \in Coinbases[h] : IndexBlock(h, c)
        BY <3>1
      <3>3. c \in Mined /\ Rows[c].poolTag = Attribute(c.coinbase, c.extra).poolTag
        BY RowsAreTyped
      <3>4. CASE stuck' = stuck
        BY <2>1, <3>4
      <3>5. CASE ~IsText(Rows[c].poolTag) /\ stuck' = stuck \cup {[height |-> h, extra |-> c.extra]}
        <4>1. OwnRow(c.extra) # 0 /\ asciiPrintableOnly(TruncBase(c.extra)) # TruncBase(c.extra)
          BY <3>3, <3>5, NoTextOnlyOwn
        <4>2. ASSUME NEW b \in stuck'
              PROVE  OwnRow(b.extra) # 0 /\ asciiPrintableOnly(TruncBase(b.extra)) # TruncBase(b.extra)
          <5>1. CASE b \in stuck
            BY <1>2, <5>1 DEF StuckOnlyOnOwnTags
          <5>2. CASE b = [height |-> h, extra |-> c.extra]
            <6>1. b.extra = c.extra
              BY <5>2
            <6> QED
              BY <4>1, <6>1
          <5> QED
            BY <3>5, <5>1, <5>2
        <4> QED
          BY <4>2 DEF StuckOnlyOnOwnTags
      <3> QED
        BY <1>2, <3>2, <3>4, <3>5, StoredOrStuck
    <2> QED
      BY <1>2, <2>1, <2>2 DEF Next, allVars
  <1> QED
    BY <1>1, <1>2, Typed, PTL DEF Spec

-----------------------------------------------------------------------------
(***************************************************************************)
(* Every tag that is called ours is in the series that its row names.      *)
(***************************************************************************)
LEMMA CutIsSeq ==
  ASSUME NEW X, NEW s \in Seq(X), NEW n \in Nat
  PROVE  truncatePoolTag(s, n) \in Seq(X \cup {"a", "cut"})
  <1>1. PICK Y : Y = X \cup {"a", "cut"}
    OBVIOUS
  <1>2. s \in Seq(Y) /\ {"a", "cut"} \subseteq Y
    BY <1>1, SeqMonotonic
  <1>3. CASE EndOf(s, Len(s)) <= n
    BY <1>1, <1>2, <1>3 DEF truncatePoolTag
  <1>4. CASE ~(EndOf(s, Len(s)) <= n)
    <2>1. PICK i \in 0 .. Len(s) - 1, rest \in Seq({"a", "cut"}) :
            truncatePoolTag(s, n) = SubSeq(s, 1, i) \o rest
      BY <1>4, Truncated
    <2>2. Len(s) \in Nat /\ i \in Int /\ \A k \in 1 .. i : s[k] \in Y
      BY <1>2
    <2>3. SubSeq(s, 1, i) \in Seq(Y)
      BY <2>2, SubSeqProperties
    <2>4. rest \in Seq(Y)
      BY <1>2, SeqMonotonic
    <2> QED
      BY <1>1, <2>1, <2>3, <2>4
  <1> QED
    BY <1>3, <1>4

LEMMA MappingOf ==
  \A w \in FirstWords : \E i \in 1 .. 4 : DefaultPoolTagMappings[i].matchPrefix = <<w>> /\ NameOf(i) = NameBy(w)
  <1>1. PICK M : M = DefaultPoolTagMappings
    OBVIOUS
  <1>2. /\ M[1].matchPrefix = <<"WUF">> /\ M[2].matchPrefix = <<"Jagtech">>
        /\ M[3].matchPrefix = <<"supportxtm-">> /\ M[4].matchPrefix = <<"GCPOOL-SOLO">>
    BY <1>1 DEF DefaultPoolTagMappings, Mapping
  <1>3. /\ M[1].canonicalName = <<"Jagtech">> /\ M[2].canonicalName = <<"Jagtech">>
        /\ M[3].canonicalName = <<"SupportXTM">> /\ M[4].canonicalName = <<"SupportXTM">>
    BY <1>1 DEF DefaultPoolTagMappings, Mapping
  <1>4. /\ NameBy("WUF") = <<"Jagtech">> /\ NameBy("Jagtech") = <<"Jagtech">>
        /\ NameBy("supportxtm-") = <<"SupportXTM">> /\ NameBy("GCPOOL-SOLO") = <<"SupportXTM">>
    BY DEF NameBy
  <1>5. 1 \in 1 .. 4 /\ 2 \in 1 .. 4 /\ 3 \in 1 .. 4 /\ 4 \in 1 .. 4
    OBVIOUS
  <1> QED
    BY <1>1, <1>2, <1>3, <1>4, <1>5 DEF FirstWords, NameOf

LEMMA NameOfTag ==
  ASSUME NEW X, NEW tag \in Seq(X), NEW w \in FirstWords, Len(tag) >= 1, tag[1] = w
  PROVE  MappedTag(tag) = NameBy(w)
  <1>1. PICK i \in 1 .. 4 : DefaultPoolTagMappings[i].matchPrefix = <<w>> /\ NameOf(i) = NameBy(w)
    BY MappingOf
  <1>2. PICK p : p = <<w>>
    OBVIOUS
  <1>3. p \in Seq({w}) /\ Len(p) = 1 /\ p[1] = w
    BY <1>2
  <1>4. Len(p) <= Len(tag) /\ \A k \in 1 .. Len(p) : p[k] = tag[k]
    BY <1>3
  <1>5. IsPrefix(p, tag)
    BY <1>3, <1>4, PrefixUnits
  <1>6. Matches(i, tag)
    BY <1>1, <1>2, <1>5 DEF Matches
  <1>7. tag # NULL
    BY DEF NULL
  <1> QED
    BY <1>1, <1>6, <1>7, OneMatch, MappedTagIs

\* What is cut from begins with the word that the row begins with.
LEMMA OwnBase ==
  ASSUME NEW U, NEW s \in Seq(U), OwnRow(s) # 0
  PROVE  \E w \in FirstWords :
           /\ IsRowOf(ownPoolTags[OwnRow(s)], w, OwnRow(s))
           /\ MatchBytes(s) # <<>> /\ MatchBytes(s)[1] = w
           /\ TruncBase(s) # <<>> /\ TruncBase(s)[1] = w
  <1>1. PICK row : row = ownPoolTags[OwnRow(s)]
    OBVIOUS
  <1>2. PICK w \in FirstWords : IsRowOf(row, w, OwnRow(s))
    BY <1>1, OwnRowIs, RowsAre
  <1>3. PICK p, m : p = row.prefix /\ m = MatchBytes(s)
    OBVIOUS
  <1>4. PICK Z : p \in Seq(Z)
    BY <1>2, <1>3 DEF IsRowOf, IsSeq
  <1>5. m \in Seq(U \ {"NUL"}) /\ (m # <<>> => s # <<>> /\ s[1] = m[1])
    BY <1>3, MatchBytesAre
  <1>6. Len(p) <= Len(m) /\ \A i \in 1 .. Len(p) : p[i] = m[i]
    <2>1. IsPrefix(p, m)
      BY <1>1, <1>3, OwnRowIs
    <2> QED
      BY <1>4, <1>5, <2>1, PrefixUnits
  <1>7. Len(p) \in 1 .. 3 /\ p[1] = w
    BY <1>2, <1>3 DEF IsRowOf
  <1>8. m # <<>> /\ m[1] = w
    <2>1. 1 \in 1 .. Len(p) /\ Len(m) \in Nat /\ Len(m) >= 1
      BY <1>5, <1>6, <1>7
    <2>2. m # <<>>
      BY <2>1
    <2> QED
      BY <1>6, <1>7, <2>1, <2>2
  <1>9. TruncBase(s) # <<>> /\ TruncBase(s)[1] = w
    <2>1. CASE FirstNUL(s) = 0
      <3>1. PICK drop, X : drop = {"NUL", "ctl"} /\ X = U \cup {"U+FFFD"}
        OBVIOUS
      <3>2. w \notin drop /\ w # "bad"
        BY <3>1 DEF FirstWords
      <3>3. \A u \in U \ drop : (IF u = "bad" THEN "U+FFFD" ELSE u) \in X
        BY <3>1
      <3>4. s # <<>> /\ s[1] = w
        BY <1>5, <1>8
      <3>5. Mapped(s, drop) # <<>> /\ Mapped(s, drop)[1] = s[1]
        BY <3>2, <3>3, <3>4, MappedUnits
      <3> QED
        BY <2>1, <3>1, <3>4, <3>5 DEF TruncBase, printableOnly
    <2>2. CASE FirstNUL(s) # 0
      BY <1>3, <1>8, <2>2 DEF TruncBase
    <2> QED
      BY <2>1, <2>2
  <1> QED
    BY <1>1, <1>2, <1>3, <1>8, <1>9

LEMMA OwnTagIsNamed ==
  ASSUME NEW U, NEW s \in Seq(U), OwnRow(s) # 0
  PROVE  MappedTag(OwnPoolTag(s, ownPoolTags[OwnRow(s)])) = ownPoolTags[OwnRow(s)].canonicalName
  <1>1. PICK row, base : row = ownPoolTags[OwnRow(s)] /\ base = TruncBase(s)
    OBVIOUS
  <1>2. PICK w \in FirstWords : IsRowOf(row, w, OwnRow(s)) /\ base # <<>> /\ base[1] = w
    BY <1>1, OwnBase
  <1>3. PICK X : X = (U \cup {"U+FFFD"}) \ {"NUL"}
    OBVIOUS
  <1>4. base \in Seq(X)
    BY <1>1, <1>3, TruncBaseIs
  <1>5. row.canonicalName = NameBy(w) /\ row.tagLen \in Nat /\ (row.tagLen = 0 \/ Width(w) <= row.tagLen)
    BY <1>2 DEF IsRowOf
  <1>6. PICK tag : tag = OwnPoolTag(s, row)
    OBVIOUS
  <1>7. CASE row.tagLen = 0
    <2>1. tag = base /\ Len(base) >= 1
      BY <1>1, <1>2, <1>4, <1>6, <1>7 DEF OwnPoolTag
    <2> QED
      BY <1>1, <1>2, <1>4, <1>5, <1>6, <2>1, NameOfTag
  <1>8. CASE row.tagLen # 0
    <2>1. tag = truncatePoolTag(base, row.tagLen)
      BY <1>1, <1>5, <1>6, <1>8 DEF OwnPoolTag
    <2>2. Len(tag) >= 1 /\ tag[1] = w
      BY <1>2, <1>4, <1>5, <1>8, <2>1, CutKeepsFirst
    <2>3. tag \in Seq(X \cup {"a", "cut"})
      BY <1>4, <1>5, <2>1, CutIsSeq
    <2> QED
      BY <1>1, <1>5, <1>6, <2>2, <2>3, NameOfTag
  <1> QED
    BY <1>7, <1>8

-----------------------------------------------------------------------------
(***************************************************************************)
(* What an own binary writes is stored as its tag.                         *)
(***************************************************************************)
LEMMA EndOfShort ==
  ASSUME NEW s
  PROVE  /\ EndOf(s, 1) = Width(s[1])
         /\ EndOf(s, 2) = Width(s[1]) + Width(s[2])
         /\ EndOf(s, 3) = Width(s[1]) + Width(s[2]) + Width(s[3])
         /\ EndOf(s, 4) = Width(s[1]) + Width(s[2]) + Width(s[3]) + Width(s[4])
  <1>1. EndOf(s, 0) = 0
    BY EndOfStep
  <1>2. EndOf(s, 0 + 1) = EndOf(s, 0) + Width(s[0 + 1]) /\ EndOf(s, 1 + 1) = EndOf(s, 1) + Width(s[1 + 1])
    BY EndOfStep
  <1>3. EndOf(s, 2 + 1) = EndOf(s, 2) + Width(s[2 + 1]) /\ EndOf(s, 3 + 1) = EndOf(s, 3) + Width(s[3 + 1])
    BY EndOfStep
  <1>4. Width(s[1]) \in Nat /\ Width(s[2]) \in Nat /\ Width(s[3]) \in Nat /\ Width(s[4]) \in Nat
    BY WidthType
  <1> QED
    BY <1>1, <1>2, <1>3, <1>4

Variants == {"-pplns", "-solo"}

\* The two families of base tags.
IsPlainTag(m) ==
  \E w \in FirstWords \ {"supportxtm-"} : Len(m) >= 1 /\ m[1] = w /\ EndOf(m, Len(m)) = LengthBy(w)
IsSupportTag(m) ==
  /\ m[1] = "supportxtm-"
  /\ \E g \in 1 .. 4 : /\ m[2] = AlgoWord[g] /\ EndOf(m, 2) = BareLen[g]
  /\ Len(m) = 2 \/ (Len(m) = 3 /\ m[3] \in Variants)

LEMMA PlainTags ==
  /\ IsSeq(<<"Jagtech", "a", "a">>) /\ IsPlainTag(<<"Jagtech", "a", "a">>)
  /\ IsSeq(<<"WUF", "Jagtech", "a", "a">>) /\ IsPlainTag(<<"WUF", "Jagtech", "a", "a">>)
  /\ IsSeq(<<"GCPOOL-SOLO">>) /\ IsPlainTag(<<"GCPOOL-SOLO">>)
  <1>1. /\ Width("Jagtech") = 7 /\ Width("a") = 1 /\ Width("WUF") = 3 /\ Width("GCPOOL-SOLO") = 11
        /\ LengthBy("WUF") = 12 /\ LengthBy("Jagtech") = 9 /\ LengthBy("GCPOOL-SOLO") = 11
    BY DEF Width, LengthBy
  <1>2. {"Jagtech", "WUF", "GCPOOL-SOLO"} \subseteq FirstWords \ {"supportxtm-"}
    BY DEF FirstWords
  <1>3. IsSeq(<<"Jagtech", "a", "a">>) /\ IsPlainTag(<<"Jagtech", "a", "a">>)
    <2>1. PICK m : m = <<"Jagtech", "a", "a">>
      OBVIOUS
    <2>2. IsSeq(m) /\ Len(m) = 3 /\ m[1] = "Jagtech" /\ m[2] = "a" /\ m[3] = "a"
      BY <2>1, ShortTuples
    <2>3. EndOf(m, 3) = 9
      BY <1>1, <2>2, EndOfShort
    <2>4. IsPlainTag(m)
      BY <1>1, <1>2, <2>2, <2>3 DEF IsPlainTag
    <2> QED
      BY <2>1, <2>2, <2>4
  <1>4. IsSeq(<<"WUF", "Jagtech", "a", "a">>) /\ IsPlainTag(<<"WUF", "Jagtech", "a", "a">>)
    <2>1. PICK m : m = <<"WUF", "Jagtech", "a", "a">>
      OBVIOUS
    <2>2. m \in Seq({"WUF", "Jagtech", "a"})
      BY <2>1
    <2>3. Len(m) = 4 /\ m[1] = "WUF" /\ m[2] = "Jagtech" /\ m[3] = "a" /\ m[4] = "a"
      BY <2>1
    <2>4. EndOf(m, 4) = 12
      BY <1>1, <2>3, EndOfShort
    <2>5. IsPlainTag(m)
      BY <1>1, <1>2, <2>3, <2>4 DEF IsPlainTag
    <2>6. IsSeq(m)
      BY <2>2 DEF IsSeq
    <2> QED
      BY <2>1, <2>5, <2>6
  <1>5. IsSeq(<<"GCPOOL-SOLO">>) /\ IsPlainTag(<<"GCPOOL-SOLO">>)
    <2>1. PICK m : m = <<"GCPOOL-SOLO">>
      OBVIOUS
    <2>2. IsSeq(m) /\ Len(m) = 1 /\ m[1] = "GCPOOL-SOLO"
      BY <2>1, ShortTuples
    <2>3. EndOf(m, 1) = 11
      BY <1>1, <2>2, EndOfShort
    <2>4. IsPlainTag(m)
      BY <1>1, <1>2, <2>2, <2>3 DEF IsPlainTag
    <2> QED
      BY <2>1, <2>2, <2>4
  <1> QED
    BY <1>3, <1>4, <1>5

SupportTag(algo, variant) == <<"supportxtm-", algo>> \o variant

LEMMA SupportTags ==
  ASSUME NEW algo \in {"sha3x", "c29", "rxt", "rxm"}, NEW variant \in {<<>>, <<"-pplns">>, <<"-solo">>}
  PROVE  IsSeq(SupportTag(algo, variant)) /\ IsSupportTag(SupportTag(algo, variant))
  <1>1. PICK t : t = <<"supportxtm-", algo>>
    OBVIOUS
  <1>2. IsSeq(t) /\ Len(t) = 2 /\ t[1] = "supportxtm-" /\ t[2] = algo
    BY <1>1, ShortTuples
  <1>3. \E g \in 1 .. 4 : algo = AlgoWord[g] /\ Width("supportxtm-") + Width(algo) = BareLen[g]
    <2>1. /\ Width("supportxtm-") = 11 /\ Width("sha3x") = 5 /\ Width("c29") = 3
          /\ Width("rxt") = 3 /\ Width("rxm") = 3
      BY DEF Width
    <2>2. /\ AlgoWord[1] = "sha3x" /\ AlgoWord[2] = "c29" /\ AlgoWord[3] = "rxt" /\ AlgoWord[4] = "rxm"
          /\ BareLen[1] = 16 /\ BareLen[2] = 14 /\ BareLen[3] = 14 /\ BareLen[4] = 14
      BY DEF AlgoWord, BareLen
    <2>3. 1 \in 1 .. 4 /\ 2 \in 1 .. 4 /\ 3 \in 1 .. 4 /\ 4 \in 1 .. 4
      OBVIOUS
    <2> QED
      BY <2>1, <2>2, <2>3
  <1>4. ASSUME NEW m, IsSeq(m), m[1] = "supportxtm-", m[2] = algo,
               Len(m) = 2 \/ (Len(m) = 3 /\ m[3] \in Variants)
        PROVE  IsSupportTag(m)
    BY <1>3, <1>4, EndOfShort DEF IsSupportTag
  <1>5. SupportTag(algo, variant) = t \o variant
    BY <1>1 DEF SupportTag
  <1>6. CASE variant = <<>>
    <2>1. PICK X : t \in Seq(X)
      BY <1>2 DEF IsSeq
    <2>2. t \o <<>> = t
      BY <2>1, ConcatEmptySeq
    <2> QED
      BY <1>2, <1>4, <1>6, <1>5, <2>2
  <1>7. CASE variant # <<>>
    <2>1. PICK v \in Variants : variant = <<v>>
      BY <1>7 DEF Variants
    <2>2. PICK m : m = Plus1(t, v)
      OBVIOUS
    <2>3. m = t \o variant
      BY <2>1, <2>2 DEF Plus1
    <2>4. IsSeq(m) /\ Has1More(m, t, v)
      BY <1>2, <2>2, OneMore
    <2>5. Len(m) = 3 /\ m[3] = v /\ m[1] = t[1] /\ m[2] = t[2]
      BY <1>2, <2>4 DEF Has1More
    <2> QED
      BY <1>2, <1>4, <1>5, <2>3, <2>4, <2>5
  <1> QED
    BY <1>6, <1>7

LEMMA BaseTagsAre == \A m \in BaseTags : IsSeq(m) /\ (IsPlainTag(m) \/ IsSupportTag(m))
  <1>1. ASSUME NEW m \in BaseTags
        PROVE  \/ m \in {<<"Jagtech", "a", "a">>, <<"WUF", "Jagtech", "a", "a">>, <<"GCPOOL-SOLO">>}
               \/ \E algo \in {"sha3x", "c29", "rxt", "rxm"}, variant \in {<<>>, <<"-pplns">>, <<"-solo">>} :
                    m = SupportTag(algo, variant)
    BY DEF BaseTags, SupportTag
  <1> QED
    BY <1>1, PlainTags, SupportTags

\* A row of support tags matches what has its words.
LEMMA SupportRowMatches ==
  ASSUME NEW X, NEW m \in Seq(X), NEW g \in 1 .. 4, m[1] = "supportxtm-", m[2] = AlgoWord[g], Len(m) >= 2
  PROVE  /\ IsPrefix(ownPoolTags[3 * g + 2].prefix, m)
         /\ Len(m) = 3 /\ m[3] = "-pplns" => IsPrefix(ownPoolTags[3 * g].prefix, m)
         /\ Len(m) = 3 /\ m[3] = "-solo" => IsPrefix(ownPoolTags[3 * g + 1].prefix, m)
  <1>1. PICK p, q, u : /\ p = <<"supportxtm-", AlgoWord[g], "-pplns">> /\ q = <<"supportxtm-", AlgoWord[g], "-solo">>
                       /\ u = <<"supportxtm-", AlgoWord[g]>>
    OBVIOUS
  <1>2. /\ IsSeq(p) /\ Len(p) = 3 /\ p[1] = "supportxtm-" /\ p[2] = AlgoWord[g] /\ p[3] = "-pplns"
        /\ IsSeq(q) /\ Len(q) = 3 /\ q[1] = "supportxtm-" /\ q[2] = AlgoWord[g] /\ q[3] = "-solo"
        /\ IsSeq(u) /\ Len(u) = 2 /\ u[1] = "supportxtm-" /\ u[2] = AlgoWord[g]
    BY <1>1, ShortTuples
  <1>3. /\ ownPoolTags[3 * g].prefix = p /\ ownPoolTags[3 * g + 1].prefix = q
        /\ ownPoolTags[3 * g + 2].prefix = u
    <2>1. /\ ownPoolTags[3 * g] = OwnTag(p, 0, <<"SupportXTM">>)
          /\ ownPoolTags[3 * g + 1] = OwnTag(q, 0, <<"SupportXTM">>)
          /\ ownPoolTags[3 * g + 2] = OwnTag(u, BareLen[g], <<"SupportXTM">>)
      BY <1>1, OwnRows
    <2> QED
      BY <2>1 DEF OwnTag
  <1>4. ASSUME NEW t, IsSeq(t), Len(t) <= Len(m), \A i \in 1 .. Len(t) : t[i] = m[i] PROVE IsPrefix(t, m)
    BY <1>4, PrefixUnits DEF IsSeq
  <1>5. \A i \in 1 .. 2 : u[i] = m[i]
    BY <1>2
  <1>6. (Len(m) = 3 /\ m[3] = "-pplns") => \A i \in 1 .. 3 : p[i] = m[i]
    BY <1>2
  <1>7. (Len(m) = 3 /\ m[3] = "-solo") => \A i \in 1 .. 3 : q[i] = m[i]
    BY <1>2
  <1>8. IsPrefix(u, m)
    BY <1>2, <1>4, <1>5
  <1>9. ASSUME Len(m) = 3, m[3] = "-pplns" PROVE IsPrefix(p, m)
    <2>1. Len(p) <= Len(m) /\ \A i \in 1 .. Len(p) : p[i] = m[i]
      BY <1>2, <1>6, <1>9
    <2> QED
      BY <1>2, <1>4, <2>1
  <1>10. ASSUME Len(m) = 3, m[3] = "-solo" PROVE IsPrefix(q, m)
    <2>1. Len(q) <= Len(m) /\ \A i \in 1 .. Len(q) : q[i] = m[i]
      BY <1>2, <1>7, <1>10
    <2> QED
      BY <1>2, <1>4, <2>1
  <1> QED
    BY <1>3, <1>8, <1>9, <1>10

LEMMA WireTag ==
  ASSUME NEW U, NEW s \in Seq(U), IsWireFormat(s)
  PROVE  s # <<>> /\ OwnRow(s) # 0 /\ OwnPoolTag(s, ownPoolTags[OwnRow(s)]) = MatchBytes(s)
  <1>1. PICK m : m = MatchBytes(s)
    OBVIOUS
  <1>2. m \in Seq(U \ {"NUL"}) /\ (m # <<>> => s # <<>>)
    BY <1>1, MatchBytesAre
  <1>3. m \in BaseTags /\ TruncBase(s) = m
    BY <1>1 DEF IsWireFormat, TruncBase
  <1>4. IsPlainTag(m) \/ IsSupportTag(m)
    BY <1>3, BaseTagsAre
  <1>5. Len(m) >= 1 /\ Len(m) \in Nat
    BY <1>2, <1>4 DEF IsPlainTag, IsSupportTag
  <1>6. m # <<>>
    BY <1>5
  <1>7. PICK r, row : r = OwnRow(s) /\ row = ownPoolTags[r]
    OBVIOUS
  <1>8. r # 0
    <2>1. \E i \in 1 .. 15 : IsPrefix(ownPoolTags[i].prefix, m)
      <3>1. CASE IsPlainTag(m)
        <4>1. PICK w \in FirstWords \ {"supportxtm-"} : m[1] = w
          BY <3>1 DEF IsPlainTag
        <4>2. \E i \in {1, 2, 15} : ownPoolTags[i].prefix = <<w>>
          BY OwnRows DEF OwnTag, FirstWords
        <4>3. PICK i \in {1, 2, 15} : ownPoolTags[i].prefix = <<w>>
          BY <4>2
        <4>4. PICK p : p = <<w>>
          OBVIOUS
        <4>5. p \in Seq({w}) /\ Len(p) = 1 /\ p[1] = w
          BY <4>4
        <4>6. Len(p) <= Len(m) /\ \A k \in 1 .. Len(p) : p[k] = m[k]
          BY <1>5, <4>1, <4>5
        <4>7. IsPrefix(p, m)
          BY <1>2, <4>5, <4>6, PrefixUnits
        <4>8. i \in 1 .. 15
          OBVIOUS
        <4> QED
          BY <4>3, <4>4, <4>7, <4>8
      <3>2. CASE IsSupportTag(m)
        <4>1. PICK g \in 1 .. 4 : m[2] = AlgoWord[g]
          BY <3>2 DEF IsSupportTag
        <4>2. m[1] = "supportxtm-" /\ Len(m) >= 2
          BY <3>2 DEF IsSupportTag
        <4>3. IsPrefix(ownPoolTags[3 * g + 2].prefix, m)
          BY <1>2, <4>1, <4>2, SupportRowMatches
        <4>4. 3 * g + 2 \in 1 .. 15
          OBVIOUS
        <4> QED
          BY <4>3, <4>4
      <3> QED
        BY <1>4, <3>1, <3>2
    <2>2. PICK i \in 1 .. 15 : IsPrefix(ownPoolTags[i].prefix, MatchBytes(s))
      BY <1>1, <2>1
    <2>3. ASSUME OwnRow(s) = 0 PROVE FALSE
      <3>1. OwnRow(s) \notin 1 .. 15
        BY <2>3
      <3>2. \A k \in 1 .. 15 : ~IsPrefix(ownPoolTags[k].prefix, MatchBytes(s))
        BY <3>1, OwnRowIs
      <3> QED
        BY <2>2, <3>2
    <2> QED
      BY <1>7, <2>3
  <1>9. r \in 1 .. 15 /\ IsPrefix(row.prefix, m) /\ \A i \in 1 .. 15 : IsPrefix(ownPoolTags[i].prefix, m) => r <= i
    BY <1>1, <1>7, <1>8, OwnRowIs
  <1>10. PICK w \in FirstWords : IsRowOf(row, w, r) /\ m[1] = w
    BY <1>1, <1>7, <1>8, OwnBase
  <1>11. row.tagLen \in Nat
    BY <1>10 DEF IsRowOf
  <1>12. row.tagLen = 0 \/ EndOf(m, Len(m)) <= row.tagLen
    <2>1. CASE IsPlainTag(m)
      <3>1. w # "supportxtm-" /\ EndOf(m, Len(m)) = LengthBy(w)
        BY <1>10, <2>1 DEF IsPlainTag
      <3>2. row.tagLen = LengthBy(w)
        BY <1>10, <3>1 DEF IsRowOf
      <3> QED
        BY <1>11, <3>1, <3>2
    <2>2. CASE IsSupportTag(m)
      <3>1. w = "supportxtm-" /\ Len(m) \in 2 .. 3
        BY <1>10, <2>2 DEF IsSupportTag
      <3>2. PICK g \in 1 .. 4 : m[2] = AlgoWord[g] /\ EndOf(m, 2) = BareLen[g]
        BY <2>2 DEF IsSupportTag
      <3>3. PICK k \in 1 .. 4 : row.prefix[2] = AlgoWord[k] /\ (row.tagLen = 0 \/ (row.tagLen = BareLen[k] /\ r = 3 * k + 2))
        BY <1>10, <3>1 DEF IsRowOf
      <3>4. row.prefix[2] = m[2]
        <4>1. PICK p : p = row.prefix
          OBVIOUS
        <4>2. PICK Z : p \in Seq(Z)
          BY <1>10, <4>1 DEF IsRowOf, IsSeq
        <4>3. Len(p) \in 2 .. 3
          BY <1>10, <3>1, <4>1 DEF IsRowOf
        <4>4. IsPrefix(p, m)
          BY <1>9, <4>1
        <4>5. \A i \in 1 .. Len(p) : p[i] = m[i]
          BY ONLY <1>2, <4>2, <4>4, PrefixUnits
        <4>6. 2 \in 1 .. Len(p)
          <5>1. PICK n : n = Len(p)
            OBVIOUS
          <5>2. n \in Nat /\ 2 <= n
            BY <4>3, <5>1
          <5>3. 2 \in 1 .. n
            BY ONLY <5>2
          <5> QED
            BY ONLY <5>1, <5>3
        <4> QED
          BY <4>1, <4>5, <4>6
      <3>5. k = g
        BY <3>2, <3>3, <3>4 DEF AlgoWord
      <3>6. CASE Len(m) = 2
        <4>1. BareLen[g] \in Nat
          BY DEF BareLen
        <4> QED
          BY <3>2, <3>3, <3>5, <3>6, <4>1
      <3>7. CASE Len(m) = 3
        \* A row before the one of the bare tag matches.
        <4>1. m[3] = "-pplns" \/ m[3] = "-solo"
          BY <2>2, <3>7 DEF IsSupportTag, Variants
        <4>2. IsPrefix(ownPoolTags[3 * g].prefix, m) \/ IsPrefix(ownPoolTags[3 * g + 1].prefix, m)
          <5>1. m[1] = "supportxtm-" /\ Len(m) >= 2
            BY <1>10, <3>1, <3>7
          <5>2. m[2] = AlgoWord[g]
            BY <3>2
          <5>3. /\ m[3] = "-pplns" => IsPrefix(ownPoolTags[3 * g].prefix, m)
                /\ m[3] = "-solo" => IsPrefix(ownPoolTags[3 * g + 1].prefix, m)
            BY <1>2, <3>7, <5>1, <5>2, SupportRowMatches
          <5> QED
            BY <4>1, <5>3
        <4>3. 3 * g \in 1 .. 15 /\ 3 * g + 1 \in 1 .. 15
          OBVIOUS
        <4>4. r <= 3 * g + 1
          BY <1>9, <4>2, <4>3
        <4> QED
          BY <1>9, <3>3, <3>5, <4>4
      <3> QED
        BY <3>1, <3>6, <3>7
    <2> QED
      BY <1>4, <2>1, <2>2
  <1>13. OwnPoolTag(s, row) = m
    BY <1>3, <1>11, <1>12 DEF OwnPoolTag, truncatePoolTag
  <1> QED
    BY <1>1, <1>2, <1>6, <1>7, <1>8, <1>13

\* Every stored row is the row of a block that was mined.
RowsInv == \A h \in DOMAIN blocks : \E c \in Mined : blocks[h] = Row(c)

LEMMA Attributed == Spec => []RowsInv
  <1>1. Init => RowsInv
    BY DEF Init, RowsInv
  <1>2. ASSUME RowsInv, Types, [Next]_allVars PROVE RowsInv'
    <2>1. CASE blocks' = blocks
      BY <1>2, <2>1 DEF RowsInv
    <2>2. CASE \E h \in Heights : \E c \in Coinbases[h] : IndexBlock(h, c)
      <3>1. PICK h \in Heights : \E c \in Coinbases[h] : IndexBlock(h, c)
        BY <2>2
      <3>2. PICK c \in Coinbases[h] : IndexBlock(h, c)
        BY <3>1
      <3>3. c \in Mined /\ Rows[c] = Row(c)
        BY RowsAreTyped
      <3>4. \/ blocks' = blocks
            \/ DOMAIN blocks' = DOMAIN blocks \cup {h} /\ blocks'[h] = Rows[c]
               /\ \A k \in DOMAIN blocks \ {h} : blocks'[k] = blocks[k]
        BY <1>2, <3>2, StoredOrStuck
      <3>5. ASSUME NEW k \in DOMAIN blocks' PROVE \E d \in Mined : blocks'[k] = Row(d)
        BY <1>2, <3>3, <3>4 DEF RowsInv
      <3> QED
        BY <3>5 DEF RowsInv
    <2> QED
      BY <1>2, <2>1, <2>2 DEF Next, allVars
  <1> QED
    BY <1>1, <1>2, Typed, PTL DEF Spec

\* What an own binary writes is stored as its tag, whatever the random suffix; and
\* every tag that poolattr calls ours is in the series that its table names.
THEOREM OwnTagsAreExactHolds == Spec => []OwnTagsAreExact
  <1>1. ASSUME NEW c \in Mined, NEW row, row = Row(c)
        PROVE  /\ IsWireFormat(row.extra) => row.poolTag = MatchBytes(row.extra) /\ row.isOwnPool
               /\ row.isOwnPool => MappedTag(row.poolTag) = ownPoolTags[OwnRow(row.extra)].canonicalName
    <2>1. PICK s, a : s = c.extra /\ a = Attribute(c.coinbase, c.extra)
      OBVIOUS
    <2>2. row.extra = s /\ row.poolTag = a.poolTag /\ row.isOwnPool = a.isOwnPool
      BY <1>1, <2>1 DEF Row
    <2>3. s \in Seq(UnitsOf(s))
      BY <2>1, ExtrasAre
    <2>4. c.coinbase # "present" => s = <<>>
      BY <2>1, QueriesAssumption
    <2>5. OwnRow(s) # 0 => attributeExtra(s) = [poolTag |-> OwnPoolTag(s, ownPoolTags[OwnRow(s)]), isOwnPool |-> TRUE,
                                                reason |-> "ok"]
      BY DEF attributeExtra
    <2>6. IsWireFormat(s) => a.poolTag = MatchBytes(s) /\ a.isOwnPool
      <3>1. SUFFICES ASSUME IsWireFormat(s) PROVE a.poolTag = MatchBytes(s) /\ a.isOwnPool
        OBVIOUS
      <3>2. s # <<>> /\ OwnRow(s) # 0 /\ OwnPoolTag(s, ownPoolTags[OwnRow(s)]) = MatchBytes(s)
        BY <2>3, <3>1, WireTag
      <3>3. a = attributeExtra(s)
        BY <2>1, <2>4, <3>2 DEF Attribute
      <3> QED
        BY <2>5, <3>2, <3>3
    <2>7. a.isOwnPool => OwnRow(s) # 0 /\ a = attributeExtra(s)
      <3>1. a.isOwnPool => a = attributeExtra(s)
        BY <2>1 DEF Attribute
      <3>2. attributeExtra(s).isOwnPool => OwnRow(s) # 0
        BY DEF attributeExtra
      <3> QED
        BY <3>1, <3>2
    <2>8. a.isOwnPool => MappedTag(a.poolTag) = ownPoolTags[OwnRow(s)].canonicalName
      BY <2>3, <2>5, <2>7, OwnTagIsNamed
    <2> QED
      BY <2>2, <2>6, <2>8
  <1>2. ASSUME RowsInv PROVE OwnTagsAreExact
    BY <1>1, <1>2 DEF RowsInv, OwnTagsAreExact
  <1> QED
    BY <1>2, Attributed, PTL
=============================================================================
