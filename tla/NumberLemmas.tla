---------------------------- MODULE NumberLemmas -----------------------------
(* Sets of natural numbers: the first and the last of one, and induction up  *)
(* to a number, which needs no operator as a parameter; and with it the sums *)
(* over finite sets of the community modules, in any order.                  *)
EXTENDS Integers, Functions, FiniteSetTheorems, WellFoundedInduction, TLAPS

Below == OpToRel(<, Nat)

LEMMA BelowIsWellFounded == IsWellFoundedOn(Below, Nat)
BY NatLessThanWellFounded, Zenon DEF Below

LEMMA InBelow == \A x, y \in Nat : x < y => <<x, y>> \in Below
BY DEF OpToRel, Below

\* Any numbers have a first one.
LEMMA FirstExists ==
    ASSUME NEW T, T \subseteq Nat, T # {}
    PROVE  \E x \in T : \A y \in T : x <= y
<1>1. PICK x \in T : \A y \in T : ~ (<<y, x>> \in Below)
  BY BelowIsWellFounded, WFMin, Zenon
<1>2. \A y \in T : ~(y < x)
  BY <1>1, InBelow
<1> QED BY <1>1, <1>2

\* And, where none is after n, a last one.
LEMMA LastExists ==
    ASSUME NEW T, T \subseteq Nat, T # {}, NEW n \in Nat, \A x \in T : x <= n
    PROVE  \E x \in T : \A y \in T : y <= x
<1> DEFINE U == {u \in Nat : u <= n /\ n - u \in T}
<1>1. U # {}
  <2>1. PICK x \in T : TRUE
    OBVIOUS
  <2>2. n - x \in U
    BY <2>1
  <2> QED BY <2>2
<1>2. PICK u \in U : \A v \in U : u <= v
  BY <1>1, FirstExists
<1>3. \A y \in T : n - y \in U
  OBVIOUS
<1> QED BY <1>2, <1>3

\* A set that has 0, and with each number up to n the next one, has them all.
LEMMA UpTo ==
    ASSUME NEW n \in Nat, NEW T, 0 \in T, \A k \in 1..n : k - 1 \in T => k \in T
    PROVE  0..n \subseteq T
<1> DEFINE U == 0..n \ T
<1>1. SUFFICES ASSUME U # {} PROVE FALSE
  OBVIOUS
<1>2. U \subseteq Nat
  OBVIOUS
<1>3. PICK x \in U : \A y \in U : x <= y
  <2> HIDE DEF U
  <2> QED BY <1>1, <1>2, FirstExists
<1>4. x # 0 /\ x - 1 \in 0..n
  BY <1>2
<1>5. x - 1 \in T
  BY <1>3, <1>4
<1>6. x \in 1..n
  BY <1>4
<1> QED BY <1>5, <1>6

-----------------------------------------------------------------------------
(* Sums over finite sets                                                     *)

\* The function that SumFunctionOnSet chooses, and the same for small sets
Added(v, f, s) == IF s = {} THEN 0 ELSE v[CHOOSE x \in s : TRUE] + f[s \ {CHOOSE x \in s : TRUE}]
SumsUp(v, f, U) == f = [s \in U |-> Added(v, f, s)]
UpToSize(S, n) == {s \in SUBSET S : Cardinality(s) <= n}

LEMMA SumIsAdded ==
    ASSUME NEW v, NEW S
    PROVE  SumFunctionOnSet(v, S) = (CHOOSE f : SumsUp(v, f, SUBSET S))[S]
  BY DEF SumFunctionOnSet, FoldFunctionOnSet, MapThenFoldSet, SumsUp, Added

\* A set without one of its elements has one less.
LEMMA OneLess ==
    ASSUME NEW s, IsFiniteSet(s), NEW x \in s
    PROVE  /\ IsFiniteSet(s \ {x}) /\ Cardinality(s) \in Nat /\ Cardinality(s \ {x}) \in Nat
           /\ Cardinality(s \ {x}) = Cardinality(s) - 1
  BY FS_RemoveElement, FS_CardinalityType

LEMMA SumsUpFurther ==
    ASSUME NEW v, NEW S, IsFiniteSet(S), NEW n \in Nat, NEW f, SumsUp(v, f, UpToSize(S, n))
    PROVE  \E g : SumsUp(v, g, UpToSize(S, n + 1))
<1> DEFINE g == [s \in UpToSize(S, n + 1) |-> Added(v, f, s)]
<1>1. ASSUME NEW s \in UpToSize(S, n + 1) PROVE Added(v, g, s) = Added(v, f, s)
  <2>1. CASE s = {}
    BY <2>1 DEF Added
  <2>2. CASE s # {}
    <3>1. PICK x : x \in s /\ x = CHOOSE y \in s : TRUE
      BY <2>2
    <3>2. IsFiniteSet(s)
      BY FS_Subset DEF UpToSize
    <3>7. Cardinality(s) \in Nat /\ Cardinality(s \ {x}) = Cardinality(s) - 1 /\ Cardinality(s \ {x}) \in Nat
      BY <3>1, <3>2, OneLess
    <3>8. s \ {x} \in SUBSET S /\ Cardinality(s) <= n + 1
      BY DEF UpToSize
    <3>3. s \ {x} \in UpToSize(S, n)
      BY <3>7, <3>8 DEF UpToSize
    <3>4. s \ {x} \in UpToSize(S, n + 1)
      BY <3>7, <3>8 DEF UpToSize
    <3>5. f[s \ {x}] = Added(v, f, s \ {x})
      BY <3>3 DEF SumsUp
    <3>6. g[s \ {x}] = f[s \ {x}]
      BY <3>4, <3>5
    <3> HIDE DEF g
    <3> QED BY <2>2, <3>1, <3>6 DEF Added
  <2> QED BY <2>1, <2>2
<1>2. SumsUp(v, g, UpToSize(S, n + 1))
  BY <1>1 DEF SumsUp
<1> QED BY <1>2

LEMMA SumsUpExists ==
    ASSUME NEW v, NEW S, IsFiniteSet(S)
    PROVE  \E f : SumsUp(v, f, SUBSET S)
<1> DEFINE T == {n \in Nat : \E f : SumsUp(v, f, UpToSize(S, n))}
<1>1. 0 \in T
  <2>1. UpToSize(S, 0) = {{}}
    <3>1. \A s \in SUBSET S : IsFiniteSet(s) /\ Cardinality(s) \in Nat
      BY FS_Subset, FS_CardinalityType
    <3>2. \A s \in SUBSET S : Cardinality(s) = 0 <=> s = {}
      BY <3>1, FS_EmptySet
    <3> QED BY <3>1, <3>2 DEF UpToSize
  <2>2. SumsUp(v, [s \in UpToSize(S, 0) |-> 0], UpToSize(S, 0))
    BY <2>1 DEF SumsUp, Added
  <2> QED BY <2>2
<1>2. \A k \in 1..Cardinality(S) : k - 1 \in T => k \in T
  BY SumsUpFurther
<1>3. Cardinality(S) \in Nat
  BY FS_CardinalityType
<1>4. Cardinality(S) \in T
  <2> HIDE DEF T
  <2>1. 0..Cardinality(S) \subseteq T
    BY <1>1, <1>2, <1>3, UpTo
  <2> QED BY <1>3, <2>1
<1>5. UpToSize(S, Cardinality(S)) = SUBSET S
  BY <1>3, FS_Subset DEF UpToSize
<1> QED BY <1>4, <1>5

\* Two of them agree.
LEMMA SumsUpAlike ==
    ASSUME NEW v, NEW f, NEW g, NEW S, NEW R, IsFiniteSet(S), R \subseteq S,
           SumsUp(v, f, SUBSET S), SumsUp(v, g, SUBSET R)
    PROVE  f[R] = g[R]
<1> DEFINE Bad == {s \in SUBSET R : f[s] # g[s]}
           T == {n \in Nat : \E s \in Bad : Cardinality(s) = n}
<1>1. SUFFICES ASSUME R \in Bad PROVE FALSE
  OBVIOUS
<1>2. \A s \in SUBSET R : IsFiniteSet(s) /\ Cardinality(s) \in Nat
  BY FS_Subset, FS_CardinalityType
<1>3. T # {}
  BY <1>1, <1>2
<1>4. PICK n \in T : \A m \in T : n <= m
  <2> HIDE DEF T
  <2>1. T \subseteq Nat
    BY DEF T
  <2> QED BY <1>3, <2>1, FirstExists
<1>5. PICK s \in Bad : Cardinality(s) = n
  BY <1>4
<1>6. f[s] = Added(v, f, s) /\ g[s] = Added(v, g, s)
  BY <1>5 DEF SumsUp
<1>7. s # {}
  BY <1>5, <1>6 DEF Added
<1>8. PICK x : x \in s /\ x = CHOOSE y \in s : TRUE
  BY <1>7
<1>9. s \ {x} \notin Bad
  <2>1. Cardinality(s \ {x}) \in Nat /\ Cardinality(s \ {x}) < n
    <3>1. IsFiniteSet(s) /\ x \in s
      BY <1>2, <1>5, <1>8
    <3> HIDE DEF Bad, T
    <3>2. Cardinality(s) \in Nat /\ Cardinality(s \ {x}) = Cardinality(s) - 1 /\ Cardinality(s \ {x}) \in Nat
      BY <3>1, OneLess
    <3> QED BY <1>5, <3>2
  <2> QED BY <1>4, <2>1
<1>10. f[s \ {x}] = g[s \ {x}]
  BY <1>5, <1>9
<1> QED BY <1>5, <1>6, <1>7, <1>8, <1>10 DEF Added

\* A sum is that of its first element and of the rest.
LEMMA SumStep ==
    ASSUME NEW v, NEW S, IsFiniteSet(S)
    PROVE  /\ S = {} => SumFunctionOnSet(v, S) = 0
           /\ \A x \in S : x = (CHOOSE y \in S : TRUE) =>
                SumFunctionOnSet(v, S) = v[x] + SumFunctionOnSet(v, S \ {x})
<1>1. PICK f : SumsUp(v, f, SUBSET S) /\ SumFunctionOnSet(v, S) = f[S]
  BY SumsUpExists, SumIsAdded
<1>2. SumFunctionOnSet(v, S) = Added(v, f, S)
  BY <1>1 DEF SumsUp
<1>3. CASE S = {}
  BY <1>2, <1>3 DEF Added
<1>4. ASSUME NEW x \in S, x = CHOOSE y \in S : TRUE
      PROVE  SumFunctionOnSet(v, S) = v[x] + SumFunctionOnSet(v, S \ {x})
  <2>1. PICK R : R = S \ {x}
    OBVIOUS
  <2>2. IsFiniteSet(R) /\ R \subseteq S
    BY <2>1, FS_Subset
  <2>3. PICK g : SumsUp(v, g, SUBSET R) /\ SumFunctionOnSet(v, R) = g[R]
    BY <2>2, SumsUpExists, SumIsAdded
  <2>4. f[R] = g[R]
    BY <1>1, <2>2, <2>3, SumsUpAlike
  <2>5. SumFunctionOnSet(v, S) = v[x] + f[R]
    BY <1>2, <1>4, <2>1 DEF Added
  <2> QED BY <2>1, <2>3, <2>4, <2>5
<1> QED BY <1>3, <1>4

\* Sums of integers, where the order does not matter
LEMMA SumInt ==
    ASSUME NEW v, NEW S, IsFiniteSet(S), \A x \in S : v[x] \in Int
    PROVE  SumFunctionOnSet(v, S) \in Int
<1> DEFINE T == {n \in Nat : \A s \in UpToSize(S, n) : SumFunctionOnSet(v, s) \in Int}
<1>1. \A s \in SUBSET S : IsFiniteSet(s) /\ Cardinality(s) \in Nat
  BY FS_Subset, FS_CardinalityType
<1>2. 0 \in T
  <2>1. \A s \in UpToSize(S, 0) : s = {}
    BY <1>1, FS_EmptySet DEF UpToSize
  <2>2. SumFunctionOnSet(v, {}) = 0
    <3>1. IsFiniteSet({})
      BY FS_EmptySet
    <3> QED BY <3>1, SumStep
  <2> QED BY <2>1, <2>2
<1>3. ASSUME NEW k \in 1..Cardinality(S), k - 1 \in T PROVE k \in T
  <2> SUFFICES ASSUME NEW s \in UpToSize(S, k), s # {} PROVE SumFunctionOnSet(v, s) \in Int
    <3>1. SumFunctionOnSet(v, {}) = 0
      BY FS_EmptySet, SumStep
    <3>2. k \in Nat
      BY <1>1
    <3> QED BY <3>1, <3>2
  <2>1. s \in SUBSET S /\ IsFiniteSet(s) /\ Cardinality(s) <= k
    BY <1>1 DEF UpToSize
  <2>2. PICK x \in s : SumFunctionOnSet(v, s) = v[x] + SumFunctionOnSet(v, s \ {x})
    <3>1. PICK x : x \in s /\ x = CHOOSE y \in s : TRUE
      OBVIOUS
    <3> QED BY <2>1, <3>1, SumStep
  <2>3. Cardinality(s) \in Nat /\ Cardinality(s \ {x}) = Cardinality(s) - 1 /\ Cardinality(s \ {x}) \in Nat
    BY <2>1, OneLess
  <2>4. s \ {x} \in UpToSize(S, k - 1)
    BY <2>1, <2>3 DEF UpToSize
  <2>5. SumFunctionOnSet(v, s \ {x}) \in Int
    BY <1>3, <2>4
  <2> QED BY <2>1, <2>2, <2>5
<1>4. Cardinality(S) \in Nat /\ S \in UpToSize(S, Cardinality(S))
  BY <1>1 DEF UpToSize
<1>5. Cardinality(S) \in T
  <2> HIDE DEF T
  <2>1. 0..Cardinality(S) \subseteq T
    BY <1>2, <1>3, <1>4, UpTo
  <2> QED BY <1>4, <2>1
<1> QED BY <1>4, <1>5

\* A sum is that of any of its elements and of the rest.
AnyOrder(v, s) == \A x \in s : SumFunctionOnSet(v, s) = v[x] + SumFunctionOnSet(v, s \ {x})

LEMMA SumAny ==
    ASSUME NEW v, NEW S, IsFiniteSet(S), \A x \in S : v[x] \in Int
    PROVE  AnyOrder(v, S)
<1> DEFINE T == {n \in Nat : \A s \in UpToSize(S, n) : AnyOrder(v, s)}
<1>1. \A s \in SUBSET S : IsFiniteSet(s) /\ Cardinality(s) \in Nat /\ SumFunctionOnSet(v, s) \in Int
  <2> SUFFICES ASSUME NEW s \in SUBSET S PROVE IsFiniteSet(s) /\ Cardinality(s) \in Nat /\ SumFunctionOnSet(v, s) \in Int
    OBVIOUS
  <2>1. IsFiniteSet(s) /\ \A x \in s : v[x] \in Int
    BY FS_Subset
  <2> QED BY <2>1, FS_CardinalityType, SumInt
<1>2. 0 \in T
  <2>1. \A s \in UpToSize(S, 0) : s = {}
    BY <1>1, FS_EmptySet DEF UpToSize
  <2> QED BY <2>1 DEF AnyOrder
<1>3. ASSUME NEW k \in 1..Cardinality(S), k - 1 \in T PROVE k \in T
  <2> SUFFICES ASSUME NEW s \in UpToSize(S, k), NEW x \in s
               PROVE  SumFunctionOnSet(v, s) = v[x] + SumFunctionOnSet(v, s \ {x})
    BY DEF AnyOrder
  <2>1. s \in SUBSET S /\ IsFiniteSet(s) /\ Cardinality(s) <= k
    BY <1>1 DEF UpToSize
  <2>2. PICK c \in s : SumFunctionOnSet(v, s) = v[c] + SumFunctionOnSet(v, s \ {c})
    <3>1. PICK c : c \in s /\ c = CHOOSE y \in s : TRUE
      OBVIOUS
    <3> QED BY <2>1, <3>1, SumStep
  <2>3. ASSUME NEW y \in s PROVE AnyOrder(v, s \ {y})
    <3>1. Cardinality(s) \in Nat /\ Cardinality(s \ {y}) = Cardinality(s) - 1 /\ Cardinality(s \ {y}) \in Nat
      BY <2>1, OneLess
    <3>2. s \ {y} \in UpToSize(S, k - 1)
      BY <2>1, <3>1 DEF UpToSize
    <3> QED BY <1>3, <3>2
  <2>4. CASE x # c
    <3> DEFINE rest == s \ {x, c}
    <3>1. rest = (s \ {c}) \ {x} /\ rest = (s \ {x}) \ {c} /\ x \in s \ {c} /\ c \in s \ {x}
      BY <2>4
    <3>2. SumFunctionOnSet(v, s \ {c}) = v[x] + SumFunctionOnSet(v, rest)
      BY <2>3, <3>1 DEF AnyOrder
    <3>3. SumFunctionOnSet(v, s \ {x}) = v[c] + SumFunctionOnSet(v, rest)
      BY <2>3, <3>1 DEF AnyOrder
    <3>4. SumFunctionOnSet(v, rest) \in Int /\ v[x] \in Int /\ v[c] \in Int
      BY <1>1, <2>1
    <3> HIDE DEF rest
    <3> QED BY <2>2, <3>2, <3>3, <3>4
  <2> QED BY <2>2, <2>4
<1>4. Cardinality(S) \in Nat /\ S \in UpToSize(S, Cardinality(S))
  BY <1>1 DEF UpToSize
<1>5. Cardinality(S) \in T
  <2> HIDE DEF T
  <2>1. 0..Cardinality(S) \subseteq T
    BY <1>2, <1>3, <1>4, UpTo
  <2> QED BY <1>4, <2>1
<1> QED BY <1>4, <1>5

\* A sum depends on the values of its elements only.
LEMMA SumSame ==
    ASSUME NEW v, NEW w, NEW S, IsFiniteSet(S), \A x \in S : v[x] = w[x]
    PROVE  SumFunctionOnSet(v, S) = SumFunctionOnSet(w, S)
<1> DEFINE T == {n \in Nat : \A s \in UpToSize(S, n) : SumFunctionOnSet(v, s) = SumFunctionOnSet(w, s)}
<1>1. \A s \in SUBSET S : IsFiniteSet(s) /\ Cardinality(s) \in Nat
  BY FS_Subset, FS_CardinalityType
<1>2. SumFunctionOnSet(v, {}) = 0 /\ SumFunctionOnSet(w, {}) = 0
  BY FS_EmptySet, SumStep
<1>3. 0 \in T
  <2>1. \A s \in UpToSize(S, 0) : s = {}
    BY <1>1, FS_EmptySet DEF UpToSize
  <2> QED BY <1>2, <2>1
<1>4. ASSUME NEW k \in 1..Cardinality(S), k - 1 \in T PROVE k \in T
  <2> SUFFICES ASSUME NEW s \in UpToSize(S, k), s # {} PROVE SumFunctionOnSet(v, s) = SumFunctionOnSet(w, s)
    BY <1>2
  <2>1. s \in SUBSET S /\ IsFiniteSet(s) /\ Cardinality(s) <= k
    BY <1>1 DEF UpToSize
  <2>2. PICK x \in s : /\ SumFunctionOnSet(v, s) = v[x] + SumFunctionOnSet(v, s \ {x})
                      /\ SumFunctionOnSet(w, s) = w[x] + SumFunctionOnSet(w, s \ {x})
    <3>1. PICK x : x \in s /\ x = CHOOSE y \in s : TRUE
      OBVIOUS
    <3> QED BY <2>1, <3>1, SumStep
  <2>5. Cardinality(s) \in Nat /\ Cardinality(s \ {x}) = Cardinality(s) - 1 /\ Cardinality(s \ {x}) \in Nat
    BY <2>1, <2>2, OneLess
  <2>6. s \ {x} \in UpToSize(S, k - 1)
    BY <2>1, <2>5 DEF UpToSize
  <2>7. SumFunctionOnSet(v, s \ {x}) = SumFunctionOnSet(w, s \ {x})
    BY <1>4, <2>6
  <2> QED BY <2>1, <2>2, <2>7
<1>5. Cardinality(S) \in Nat /\ S \in UpToSize(S, Cardinality(S))
  BY <1>1 DEF UpToSize
<1>6. Cardinality(S) \in T
  <2> HIDE DEF T
  <2>1. 0..Cardinality(S) \subseteq T
    BY <1>3, <1>4, <1>5, UpTo
  <2> QED BY <1>5, <2>1
<1> QED BY <1>5, <1>6

\* One more element adds its value, whatever becomes of the function outside.
LEMMA SumGrows ==
    ASSUME NEW v, NEW w, NEW S, IsFiniteSet(S), NEW x, x \notin S,
           \A y \in S : w[y] = v[y] /\ v[y] \in Int, w[x] \in Int
    PROVE  /\ SumFunctionOnSet(w, S \cup {x}) = w[x] + SumFunctionOnSet(v, S)
           /\ SumFunctionOnSet(v, S) \in Int
<1>1. IsFiniteSet(S \cup {x}) /\ \A y \in S \cup {x} : w[y] \in Int
  BY FS_AddElement
<1>2. AnyOrder(w, S \cup {x})
  BY <1>1, SumAny
<1>3. (S \cup {x}) \ {x} = S
  OBVIOUS
<1>4. SumFunctionOnSet(w, S \cup {x}) = w[x] + SumFunctionOnSet(w, S)
  BY <1>2, <1>3 DEF AnyOrder
<1>5. SumFunctionOnSet(w, S) = SumFunctionOnSet(v, S) /\ SumFunctionOnSet(v, S) \in Int
  BY SumSame, SumInt
<1> QED BY <1>4, <1>5
=============================================================================
