---------------------------- MODULE SetInduction ----------------------------
(* Least and greatest elements of sets of naturals, and induction over the    *)
(* naturals and over finite sets.  The principles are about a set of the      *)
(* things that have been reached, and take no predicate as a parameter.       *)
EXTENDS Integers, FiniteSets, TLAPS, WellFoundedInduction, FiniteSetTheorems

\* The order of the naturals is well-founded.
LEMMA HasMinimum ==
  ASSUME NEW T \in SUBSET Nat, T # {}
  PROVE  \E x \in T : \A y \in T : x <= y
  <1>1. IsWellFoundedOn(OpToRel(<, Nat), Nat)
    BY NatLessThanWellFounded
  <1>2. PICK x \in T : \A y \in T : <<y, x>> \notin OpToRel(<, Nat)
    BY <1>1, WFMin
  <1>3. \A y \in T : <<y, x>> \in Nat \X Nat
    OBVIOUS
  <1>4. \A y \in T : ~ (y < x)
    BY <1>2, <1>3 DEF OpToRel
  <1> QED
    BY <1>4

\* A bounded set, seen from its bound downwards.
LEMMA HasMaximum ==
  ASSUME NEW n \in Nat, NEW T \in SUBSET (0 .. n), T # {}
  PROVE  \E x \in T : \A y \in T : y <= x
  <1> DEFINE U == {n - y : y \in T}
  <1>1. U # {} /\ \A u \in U : u \in Nat
    <2>1. \A y \in T : n - y \in Nat
      OBVIOUS
    <2> QED
      BY <2>1
  <1>2. PICK u \in U : \A v \in U : u <= v
    BY <1>1, HasMinimum
  <1>3. PICK x \in T : u = n - x
    OBVIOUS
  <1>4. ASSUME NEW y \in T PROVE y <= x
    <2>1. n - y \in U
      OBVIOUS
    <2> QED
      BY <1>2, <1>3, <2>1
  <1> QED
    BY <1>4

-----------------------------------------------------------------------------
\* The least number that is not in N would have a predecessor that is.
LEMMA NatSetInduction ==
  ASSUME NEW N \in SUBSET Nat, 0 \in N, \A n \in N : n + 1 \in N
  PROVE  N = Nat
  <1> SUFFICES ASSUME Nat \ N # {} PROVE FALSE
    OBVIOUS
  <1>1. PICK m \in Nat \ N : \A n \in Nat \ N : m <= n
    BY HasMinimum
  <1>2. m - 1 \in Nat /\ m - 1 \notin Nat \ N
    BY <1>1
  <1>3. (m - 1) + 1 \in N
    BY <1>2
  <1> QED
    BY <1>1, <1>3

\* A family of subsets of S that holds the empty set, and with a set every larger
\* one by an element, holds S.
LEMMA FiniteSetInduction ==
  ASSUME NEW S, IsFiniteSet(S), NEW F \in SUBSET SUBSET S, {} \in F,
         \A T \in F : \A x \in S \ T : T \cup {x} \in F
  PROVE  S \in F
  <1> DEFINE N == {n \in Nat : \A T \in SUBSET S : Cardinality(T) = n => T \in F}
  <1>1. \A T \in SUBSET S : IsFiniteSet(T) /\ Cardinality(T) \in Nat
    BY FS_Subset, FS_CardinalityType
  <1>2. 0 \in N
    BY <1>1, FS_EmptySet
  <1>3. ASSUME NEW n \in N PROVE n + 1 \in N
    <2> SUFFICES ASSUME NEW T \in SUBSET S, Cardinality(T) = n + 1 PROVE T \in F
      OBVIOUS
    <2>1. PICK x \in T : TRUE
      BY <1>1, FS_EmptySet
    <2>2. Cardinality(T \ {x}) = n
      <3>1. IsFiniteSet(T) /\ n \in Nat
        BY <1>1
      <3>2. Cardinality(T \ {x}) = Cardinality(T) - 1
        BY ONLY <2>1, <3>1, FS_RemoveElement
      <3> QED
        BY ONLY <3>1, <3>2, Cardinality(T) = n + 1
    <2>3. T \ {x} \in F
      BY <2>2
    <2>4. (T \ {x}) \cup {x} = T
      BY <2>1
    <2> QED
      BY <2>1, <2>3, <2>4
  <1>4. N = Nat
    BY <1>2, <1>3, NatSetInduction
  <1> QED
    BY <1>1, <1>4

\* A finite set of naturals has a bound, and then a greatest element.
LEMMA FiniteHasMaximum ==
  ASSUME NEW T \in SUBSET Nat, IsFiniteSet(T), T # {}
  PROVE  \E x \in T : \A y \in T : y <= x
  <1> DEFINE F == {U \in SUBSET T : \E n \in Nat : \A y \in U : y <= n}
  <1>1. {} \in F
    OBVIOUS
  <1>2. ASSUME NEW U \in F, NEW x \in T \ U PROVE U \cup {x} \in F
    <2>1. PICK n \in Nat : \A y \in U : y <= n
      OBVIOUS
    <2>2. x \in Nat /\ n + x \in Nat
      BY <1>2
    <2>3. ASSUME NEW y \in U \cup {x} PROVE y <= n + x
      <3>1. y \in Nat
        BY <1>2
      <3> QED
        BY <2>1, <2>2, <2>3, <3>1
    <2> QED
      BY <2>2, <2>3
  <1>3. T \in F
    BY <1>1, <1>2, FiniteSetInduction
  <1>4. PICK n \in Nat : \A y \in T : y <= n
    BY <1>3
  <1>5. T \in SUBSET (0 .. n)
    BY <1>4
  <1> QED
    BY <1>5, HasMaximum

\* The values of a function on a finite set.
LEMMA FiniteImage ==
  ASSUME NEW S, IsFiniteSet(S), NEW f, DOMAIN f = S
  PROVE  IsFiniteSet({f[x] : x \in S})
  <1>1. PICK T, g : T = {f[x] : x \in S} /\ g = [x \in S |-> f[x]]
    OBVIOUS
  <1>2. g \in Surjection(S, T)
    BY <1>1 DEF Surjection
  <1>3. IsFiniteSet(T)
    BY <1>2, FS_Surjection
  <1> QED
    BY <1>1, <1>3
=============================================================================
