------------------------------ MODULE SetInduction ------------------------------
(***************************************************************************)
(* Lemmas that the proofs about the models share: induction over numbers   *)
(* and over the size of finite sets, stated of sets where a principle of   *)
(* induction has a predicate; the existence of functions that are defined  *)
(* by recursion, and of the sorted sequence of a finite set; sums.         *)
(***************************************************************************)
EXTENDS Integers, FiniteSets, FiniteSetsExt, FiniteSetTheorems, WellFoundedInduction, TLAPS

\* Sets of natural numbers have a least member.
LEMMA LeastNatural ==
  ASSUME NEW S \in SUBSET Nat, S # {}
  PROVE  \E n \in S : \A m \in S : n <= m
<1>1. PICK n \in S : \A m \in S : ~(<<m, n>> \in OpToRel(<, Nat))
  BY NatLessThanWellFounded, WFMin
<1>2. \A m \in S : ~(m < n)
  BY <1>1 DEF OpToRel
<1> QED
  BY <1>2

\* A set of sets that holds every set all of whose subsets with one element
\* less it holds, holds all finite sets.
LEMMA SetsBySize ==
  ASSUME NEW S, IsFiniteSet(S), NEW Good \in SUBSET SUBSET S,
         \A T \in SUBSET S : (\A x \in T : T \ {x} \in Good) => T \in Good
  PROVE  \A T \in SUBSET S : T \in Good
<1> DEFINE Bad == {n \in Nat : \E T \in SUBSET S : T \notin Good /\ Cardinality(T) = n}
<1>1. \A T \in SUBSET S : IsFiniteSet(T) /\ Cardinality(T) \in Nat
  BY FS_Subset, FS_CardinalityType
<1>2. SUFFICES Bad = {}
  BY <1>1
<1>3. SUFFICES ASSUME Bad # {} PROVE FALSE
  OBVIOUS
<1>4. PICK n \in Bad : \A m \in Bad : n <= m
  BY <1>3, LeastNatural
<1>5. PICK T \in SUBSET S : T \notin Good /\ Cardinality(T) = n
  BY <1>4
<1>6. PICK x \in T : T \ {x} \notin Good
  BY <1>5
<1>7. Cardinality(T \ {x}) = n - 1 /\ T \ {x} \in SUBSET S
  BY <1>1, <1>5, FS_RemoveElement
<1>8. n - 1 \in Bad
  BY <1>1, <1>6, <1>7
<1> QED
  BY <1>4, <1>8

\* From each number to the next.
LEMMA NumbersInTurn ==
  ASSUME NEW n \in Nat, NEW Good \in SUBSET (0..n), 0 \in Good,
         \A i \in 1..n : i - 1 \in Good => i \in Good
  PROVE  \A i \in 0..n : i \in Good
<1> DEFINE Bad == (0..n) \ Good
<1> SUFFICES ASSUME Bad # {} PROVE FALSE
  OBVIOUS
<1>1. PICK b \in Bad : \A m \in Bad : b <= m
  <2>1. Bad \in SUBSET Nat
    OBVIOUS
  <2> QED BY <2>1, LeastNatural
<1>2. b \in 1..n /\ b - 1 \in 0..n
  <2>1. b \in Int /\ 0 <= b /\ b <= n /\ b # 0 /\ n \in Int
    BY <1>1
  <2> HIDE DEF Bad
  <2> QED BY <2>1
<1>3. b - 1 \in Bad
  BY <1>1, <1>2
<1> QED
  BY <1>1, <1>2, <1>3

(***************************************************************************)
(* A function that is defined by recursion over 0..n exists: the values    *)
(* are in S, and F gives the next one.                                     *)
(***************************************************************************)
Recursion(n, S, a, F, f) ==
  /\ f \in [0..n -> S] /\ f[0] = a
  /\ \A i \in 1..n : f[i] = F[i][f[i - 1]]

LEMMA RecursionExists ==
  ASSUME NEW n \in Nat, NEW S, NEW a \in S, NEW F \in [1..n -> [S -> S]]
  PROVE  \E f : Recursion(n, S, a, F, f)
<1> DEFINE Upto(k, f) == f[0] = a /\ \A i \in 1..k : f[i] = F[i][f[i - 1]]
           Good == {k \in 0..n : \E f \in [0..k -> S] : Upto(k, f)}
<1>1. 0 \in Good
  <2> DEFINE g == [i \in 0..0 |-> a]
  <2>1. g \in [0..0 -> S] /\ g[0] = a
    OBVIOUS
  <2>2. 0 \in 0..n /\ 1..0 = {}
    OBVIOUS
  <2> HIDE DEF g
  <2>3. Upto(0, g)
    BY <2>1, <2>2
  <2> QED BY <2>1, <2>2, <2>3
<1>2. ASSUME NEW k \in 1..n, k - 1 \in Good PROVE k \in Good
  <2>1. PICK f \in [0..(k - 1) -> S] : Upto(k - 1, f)
    BY <1>2
  <2>0. k \in Nat /\ k # 0 /\ 0 \in 0..(k - 1) /\ k - 1 \in 0..(k - 1)
    OBVIOUS
  <2> DEFINE g == [i \in 0..k |-> IF i = k THEN F[k][f[k - 1]] ELSE f[i]]
  <2>2. f[k - 1] \in S /\ F[k][f[k - 1]] \in S
    OBVIOUS
  <2>3. \A i \in 0..k : i # k => i \in 0..(k - 1)
    OBVIOUS
  <2>4. g \in [0..k -> S] /\ g[k] = F[k][f[k - 1]] /\ \A i \in 0..(k - 1) : g[i] = f[i]
    BY <2>2, <2>3
  <2> HIDE DEF g
  <2>5. g[0] = a /\ g[k] = F[k][g[k - 1]]
    BY <2>0, <2>1, <2>4
  <2>6. \A i \in 1..(k - 1) : g[i] = F[i][g[i - 1]]
    <3>1. \A i \in 1..(k - 1) : i \in 0..(k - 1) /\ i - 1 \in 0..(k - 1)
      BY <2>0
    <3> QED BY <2>1, <2>4, <3>1
  <2>7. Upto(k, g)
    BY <2>5, <2>6
  <2> QED BY <2>4, <2>7
<1>3. n \in Good
  <2> HIDE DEF Good
  <2>1. Good \in SUBSET (0..n) /\ \A k \in 1..n : k - 1 \in Good => k \in Good
    BY <1>2 DEF Good
  <2>2. \A k \in 0..n : k \in Good
    BY <1>1, <2>1, NumbersInTurn
  <2> QED BY <2>2
<1> QED
  BY <1>3 DEF Recursion

(***************************************************************************)
(* A finite set whose members have different ranks can be sorted by them.  *)
(***************************************************************************)
SortedBy(r, S, s) ==
  /\ s \in [1..Cardinality(S) -> S]
  /\ \A x \in S : \E i \in 1..Cardinality(S) : s[i] = x
  /\ \A i, j \in 1..Cardinality(S) : i < j => r[s[i]] < r[s[j]]

LEMMA SortedExists ==
  ASSUME NEW S, IsFiniteSet(S), NEW r \in [S -> Nat],
         \A x, y \in S : r[x] = r[y] => x = y
  PROVE  \E s : SortedBy(r, S, s)
<1> DEFINE Good == {T \in SUBSET S : \E s : SortedBy(r, T, s)}
<1>1. ASSUME NEW T \in SUBSET S, \A x \in T : T \ {x} \in Good PROVE T \in Good
  <2>1. CASE T = {}
    <3>1. Cardinality({}) = 0
      BY FS_EmptySet
    <3>2. SortedBy(r, {}, [i \in 1..0 |-> 0])
      BY <3>1 DEF SortedBy
    <3> QED BY <2>1, <3>2
  <2>2. CASE T # {}
    <3> DEFINE ranks == {r[x] : x \in T}
    <3>1. PICK m \in ranks : \A q \in ranks : m <= q
      <4>1. ranks \in SUBSET Nat /\ ranks # {}
        BY <2>2
      <4> QED BY <4>1, LeastNatural
    <3>2. PICK x \in T : r[x] = m
      BY <3>1
    <3>3. \A y \in T \ {x} : r[x] < r[y]
      <4> SUFFICES ASSUME NEW y \in T \ {x} PROVE r[x] < r[y]
        OBVIOUS
      <4>1. r[x] <= r[y] /\ r[x] # r[y] /\ r[x] \in Nat /\ r[y] \in Nat
        BY <3>1, <3>2
      <4> QED BY <4>1
    <3>4. PICK u : SortedBy(r, T \ {x}, u)
      BY <1>1
    <3>5. Cardinality(T \ {x}) = Cardinality(T) - 1 /\ Cardinality(T) \in Nat /\ Cardinality(T) # 0
      BY FS_Subset, FS_RemoveElement, FS_CardinalityType, FS_EmptySet
    <3> DEFINE c == Cardinality(T)
               s == [i \in 1..c |-> IF i = 1 THEN x ELSE u[i - 1]]
    <3>6. /\ u \in [1..(c - 1) -> T \ {x}]
          /\ \A y \in T \ {x} : \E i \in 1..(c - 1) : u[i] = y
          /\ \A i, j \in 1..(c - 1) : i < j => r[u[i]] < r[u[j]]
      BY <3>4, <3>5 DEF SortedBy
    <3>7. c \in Nat /\ c # 0
      BY <3>5
    <3> HIDE DEF c
    <3>8. \A i \in 2..c : i - 1 \in 1..(c - 1) /\ s[i] = u[i - 1] /\ s[i] \in T \ {x}
      BY <3>6, <3>7
    <3>9. s[1] = x /\ \A i \in 1..c : i = 1 \/ i \in 2..c
      BY <3>7
    <3> HIDE DEF s
    <3>10. s \in [1..c -> T]
      <4>1. \A i \in 1..c : s[i] \in T
        BY <3>8, <3>9
      <4> QED BY <4>1 DEF s
    <3>11. \A y \in T : \E i \in 1..c : s[i] = y
      <4> SUFFICES ASSUME NEW y \in T, y # x PROVE \E i \in 1..c : s[i] = y
        BY <3>7, <3>9
      <4>1. PICK i \in 1..(c - 1) : u[i] = y
        BY <3>6
      <4>2. i + 1 \in 2..c /\ i + 1 \in 1..c /\ (i + 1) - 1 = i
        BY <3>7
      <4>3. s[i + 1] = y
        BY <3>8, <4>1, <4>2
      <4> QED BY <4>2, <4>3
    <3>12. \A i, j \in 1..c : i < j => r[s[i]] < r[s[j]]
      <4> SUFFICES ASSUME NEW i \in 1..c, NEW j \in 1..c, i < j PROVE r[s[i]] < r[s[j]]
        OBVIOUS
      <4>1. j \in 2..c
        BY <3>7
      <4>2. CASE i = 1
        BY <3>3, <3>8, <3>9, <4>1, <4>2
      <4>3. CASE i # 1
        <5>1. i \in 2..c /\ i - 1 \in 1..(c - 1) /\ j - 1 \in 1..(c - 1) /\ i - 1 < j - 1
          BY <3>7, <4>1, <4>3
        <5> QED BY <3>6, <3>8, <4>1, <5>1
      <4> QED BY <4>2, <4>3
    <3>13. SortedBy(r, T, s)
      BY <3>10, <3>11, <3>12 DEF SortedBy, c
    <3> QED BY <3>13
  <2> QED BY <2>1, <2>2
<1>2. S \in Good
  <2> HIDE DEF Good
  <2>1. Good \in SUBSET SUBSET S
    BY DEF Good
  <2> QED BY <1>1, <2>1, SetsBySize
<1> QED
  BY <1>2

-------------------------------------------------------------------------------
(* Sums of functions on finite sets. *)

\* g sums up the weights w of every subset of S.
Sums(S, w, g) ==
  /\ g \in [SUBSET S -> Int] /\ g[{}] = 0
  /\ \A T \in SUBSET S : \A x \in T : g[T] = w[x] + g[T \ {x}]

LEMMA SumsExist ==
  ASSUME NEW S, IsFiniteSet(S), NEW w \in [S -> Int]
  PROVE  \E g : Sums(S, w, g)
<1> DEFINE Good == {T \in SUBSET S : \E g : Sums(T, w, g)}
<1>1. ASSUME NEW T \in SUBSET S, \A x \in T : T \ {x} \in Good PROVE T \in Good
  <2>1. CASE T = {}
    <3>1. Sums({}, w, [s \in SUBSET {} |-> 0])
      BY DEF Sums
    <3> QED BY <2>1, <3>1
  <2>2. CASE T # {}
    <3>1. PICK x \in T : TRUE
      BY <2>2
    <3>2. PICK h : Sums(T \ {x}, w, h)
      BY <1>1
    <3> DEFINE g == [U \in SUBSET T |-> h[U \ {x}] + IF x \in U THEN w[x] ELSE 0]
    <3>3. w[x] \in Int /\ \A U \in SUBSET T : U \ {x} \in SUBSET (T \ {x}) /\ h[U \ {x}] \in Int
      BY <3>2 DEF Sums
    <3>4. g \in [SUBSET T -> Int] /\ g[{}] = 0
      BY <3>2, <3>3 DEF Sums
    <3>5. ASSUME NEW U \in SUBSET T, NEW y \in U PROVE g[U] = w[y] + g[U \ {y}]
      <4>1. CASE x = y
        <5>1. (U \ {y}) \ {x} = U \ {x} /\ x \notin U \ {y}
          BY <4>1
        <5>2. g[U] = h[U \ {x}] + w[x]
          BY <4>1
        <5>3. U \ {y} \in SUBSET T
          OBVIOUS
        <5>4. g[U \ {y}] = h[U \ {x}] + 0
          BY <5>1, <5>3
        <5>5. h[U \ {x}] \in Int /\ w[y] = w[x]
          BY <3>3, <4>1
        <5> HIDE DEF g
        <5> QED BY <3>3, <5>2, <5>4, <5>5
      <4>2. CASE x # y
        <5>1. (U \ {y}) \ {x} = (U \ {x}) \ {y} /\ (x \in U \ {y} <=> x \in U)
          BY <4>2
        <5>2. h[U \ {x}] = w[y] + h[(U \ {x}) \ {y}]
          BY <3>2, <3>3, <4>2 DEF Sums
        <5>3. w[y] \in Int /\ h[(U \ {x}) \ {y}] \in Int
          <6>1. (U \ {x}) \ {y} \in SUBSET (T \ {x})
            OBVIOUS
          <6> QED BY <3>2, <6>1 DEF Sums
        <5>4. U \ {y} \in SUBSET T
          OBVIOUS
        <5>5. g[U \ {y}] = h[(U \ {x}) \ {y}] + IF x \in U THEN w[x] ELSE 0
          BY <5>1, <5>4
        <5>6. g[U] = h[U \ {x}] + IF x \in U THEN w[x] ELSE 0
          OBVIOUS
        <5> QED BY <3>3, <5>2, <5>3, <5>5, <5>6
      <4> QED BY <4>1, <4>2
    <3>6. Sums(T, w, g)
      <4> HIDE DEF g
      <4> QED BY <3>4, <3>5 DEF Sums
    <3> QED BY <3>6
  <2> QED BY <2>1, <2>2
<1>2. S \in Good
  <2> HIDE DEF Good
  <2>1. Good \in SUBSET SUBSET S
    BY DEF Good
  <2> QED BY <1>1, <2>1, SetsBySize
<1> QED
  BY <1>2

\* Weights that are nowhere larger sum up to no more.
LEMMA SumsGrow ==
  ASSUME NEW S, IsFiniteSet(S), NEW w \in [S -> Int], NEW v \in [S -> Int], NEW g, NEW h,
         Sums(S, w, g), Sums(S, v, h), NEW U \in SUBSET S, \A x \in U : w[x] <= v[x]
  PROVE  g[U] <= h[U]
<1> DEFINE Good == {T \in SUBSET S : T \subseteq U => g[T] <= h[T]}
<1>1. ASSUME NEW T \in SUBSET S, \A x \in T : T \ {x} \in Good PROVE T \in Good
  <2>1. CASE T = {}
    BY <2>1 DEF Sums
  <2>2. CASE T # {} /\ T \subseteq U
    <3>1. PICK x \in T : TRUE
      BY <2>2
    <3>2. g[T \ {x}] <= h[T \ {x}]
      BY <1>1, <2>2
    <3>3. /\ g[T] = w[x] + g[T \ {x}] /\ h[T] = v[x] + h[T \ {x}]
          /\ g[T \ {x}] \in Int /\ h[T \ {x}] \in Int /\ w[x] \in Int /\ v[x] \in Int
      BY DEF Sums
    <3>4. w[x] <= v[x]
      BY <2>2
    <3> QED BY <3>2, <3>3, <3>4
  <2> QED BY <2>1, <2>2
<1>2. U \in Good
  <2> HIDE DEF Good
  <2>1. Good \in SUBSET SUBSET S
    BY DEF Good
  <2> QED BY <1>1, <2>1, SetsBySize
<1> QED
  BY <1>2

\* SumFunction is the sum of the weights.
LEMMA SumIs ==
  ASSUME NEW S, IsFiniteSet(S), NEW w \in [S -> Int], NEW g, Sums(S, w, g)
  PROVE  SumFunction(w) = g[S]
<1> DEFINE Pick(s) == CHOOSE x \in s : TRUE
           F(it) == [s \in SUBSET S |-> IF s = {} THEN 0 ELSE w[Pick(s)] + it[s \ {Pick(s)}]]
           iter == CHOOSE it : it = F(it)
<1>1. g = F(g)
  BY DEF Sums
<1>2. iter = F(iter)
  BY <1>1
<1>3. SumFunction(w) = iter[S]
  BY DEF SumFunction, SumFunctionOnSet, FoldFunctionOnSet, MapThenFoldSet
<1> DEFINE Good == {T \in SUBSET S : iter[T] = g[T]}
<1>4. ASSUME NEW T \in SUBSET S, \A x \in T : T \ {x} \in Good PROVE T \in Good
  <2> HIDE DEF iter
  <2>1. CASE T = {}
    BY <1>2, <2>1 DEF Sums
  <2>2. CASE T # {}
    <3>1. Pick(T) \in T
      BY <2>2
    <3> HIDE DEF Pick
    <3>2. iter[T] = w[Pick(T)] + iter[T \ {Pick(T)}]
      BY <1>2, <2>2
    <3>3. iter[T \ {Pick(T)}] = g[T \ {Pick(T)}]
      BY <1>4, <3>1
    <3> QED BY <3>1, <3>2, <3>3 DEF Sums
  <2> QED BY <2>1, <2>2
<1>5. S \in Good
  <2> HIDE DEF Good
  <2>1. Good \in SUBSET SUBSET S
    BY DEF Good
  <2> QED BY <1>4, <2>1, SetsBySize
<1> QED
  BY <1>3, <1>5

\* Natural weights have natural sums.
LEMMA SumsNatural ==
  ASSUME NEW S, IsFiniteSet(S), NEW w \in [S -> Nat], NEW g, Sums(S, w, g)
  PROVE  \A U \in SUBSET S : g[U] \in Nat
<1> DEFINE zeros == [x \in S |-> 0]
           h == [T \in SUBSET S |-> 0]
<1>1. Sums(S, zeros, h)
  BY DEF Sums
<1>2. zeros \in [S -> Int] /\ w \in [S -> Int] /\ \A x \in S : zeros[x] <= w[x]
  OBVIOUS
<1>3. \A U \in SUBSET S : h[U] = 0 /\ g[U] \in Int
  BY DEF Sums
<1> HIDE DEF zeros, h
<1>4. ASSUME NEW U \in SUBSET S PROVE h[U] <= g[U]
  BY <1>1, <1>2, SumsGrow
<1> QED
  BY <1>3, <1>4

\* A part of the weights sums up to no more than all of them.
LEMMA SumOfPart ==
  ASSUME NEW S, IsFiniteSet(S), NEW w \in [S -> Nat], NEW T \in SUBSET S
  PROVE  /\ SumFunction([x \in T |-> w[x]]) \in Nat /\ SumFunction(w) \in Nat
         /\ SumFunction([x \in T |-> w[x]]) <= SumFunction(w)
<1>0. w \in [S -> Int]
  OBVIOUS
<1>1. PICK g : Sums(S, w, g)
  BY <1>0, SumsExist
<1>2. \A U \in SUBSET S : g[U] \in Nat
  BY <1>1, SumsNatural
<1> DEFINE part == [x \in T |-> w[x]]
           h == [U \in SUBSET T |-> g[U]]
<1>3. Sums(T, part, h)
  <2>1. h \in [SUBSET T -> Int] /\ h[{}] = 0
    BY <1>1, <1>2 DEF Sums
  <2>2. ASSUME NEW U \in SUBSET T, NEW x \in U PROVE h[U] = part[x] + h[U \ {x}]
    <3>1. U \in SUBSET S /\ U \ {x} \in SUBSET T
      OBVIOUS
    <3>2. g[U] = w[x] + g[U \ {x}]
      BY <1>1, <3>1 DEF Sums
    <3> QED BY <3>1, <3>2
  <2> HIDE DEF h, part
  <2> QED BY <2>1, <2>2 DEF Sums
<1>4. IsFiniteSet(T) /\ part \in [T -> Int]
  BY FS_Subset
<1>5. SumFunction(part) = h[T] /\ SumFunction(w) = g[S]
  <2> HIDE DEF part, h
  <2> QED BY <1>0, <1>1, <1>3, <1>4, SumIs
<1> DEFINE Good == {U \in SUBSET S : g[U \cap T] <= g[U]}
<1>6. ASSUME NEW U \in SUBSET S, \A x \in U : U \ {x} \in Good PROVE U \in Good
  <2>1. CASE U = {}
    <3>1. U \cap T = {} /\ U \in SUBSET S
      BY <2>1
    <3> QED BY <1>2, <2>1, <3>1
  <2>2. CASE U # {}
    <3>1. PICK x \in U : TRUE
      BY <2>2
    <3>2. g[U] = w[x] + g[U \ {x}] /\ g[(U \ {x}) \cap T] <= g[U \ {x}]
      BY <1>1, <1>6 DEF Sums
    <3>3. w[x] \in Nat /\ g[U \ {x}] \in Nat /\ g[(U \ {x}) \cap T] \in Nat
      <4>1. U \ {x} \in SUBSET S /\ (U \ {x}) \cap T \in SUBSET S
        OBVIOUS
      <4> QED BY <1>2, <4>1
    <3>4. CASE x \in T
      <4>1. x \in U \cap T /\ (U \cap T) \ {x} = (U \ {x}) \cap T /\ U \cap T \in SUBSET S
        BY <3>4
      <4>2. g[U \cap T] = w[x] + g[(U \cap T) \ {x}]
        BY <1>1, <4>1 DEF Sums
      <4>3. g[U \cap T] = w[x] + g[(U \ {x}) \cap T]
        BY <4>1, <4>2
      <4>4. g[U \cap T] <= g[U]
        BY <3>2, <3>3, <4>3
      <4> QED BY <4>4
    <3>5. CASE x \notin T
      <4>1. U \cap T = (U \ {x}) \cap T
        BY <3>5
      <4> QED BY <3>2, <3>3, <4>1
    <3> QED BY <3>4, <3>5
  <2> QED BY <2>1, <2>2
<1>7. S \in Good
  <2> HIDE DEF Good
  <2>1. Good \in SUBSET SUBSET S
    BY DEF Good
  <2> QED BY <1>6, <2>1, SetsBySize
<1>8. h[T] = g[T] /\ S \cap T = T /\ T \in SUBSET S /\ g[T] \in Nat /\ g[S] \in Nat
  BY <1>2
<1> HIDE DEF h
<1> QED
  BY <1>5, <1>7, <1>8

\* Whole weights have a whole sum.
LEMMA SumIsInteger ==
  ASSUME NEW S, IsFiniteSet(S), NEW w \in [S -> Int]
  PROVE  SumFunction(w) \in Int
<1>1. PICK g : Sums(S, w, g)
  BY SumsExist
<1>2. SumFunction(w) = g[S] /\ g[S] \in Int
  BY <1>1, SumIs DEF Sums
<1> QED
  BY <1>2

\* Weights that are larger in one place only.
LEMMA SumGrowsBy ==
  ASSUME NEW S, IsFiniteSet(S), NEW w \in [S -> Nat], NEW v \in [S -> Nat],
         NEW x \in S, NEW d \in Nat, \A y \in S \ {x} : w[y] <= v[y], w[x] <= v[x] + d
  PROVE  /\ SumFunction(w) \in Nat /\ SumFunction(v) \in Nat
         /\ SumFunction(w) <= SumFunction(v) + d
<1>0. w \in [S -> Int] /\ v \in [S -> Int]
  OBVIOUS
<1>1. PICK g : Sums(S, w, g)
  BY <1>0, SumsExist
<1>2. PICK h : Sums(S, v, h)
  BY <1>0, SumsExist
<1>3. g[S \ {x}] <= h[S \ {x}]
  BY <1>0, <1>1, <1>2, SumsGrow
<1>4. /\ g[S] = w[x] + g[S \ {x}] /\ h[S] = v[x] + h[S \ {x}]
      /\ g[S \ {x}] \in Nat /\ h[S \ {x}] \in Nat /\ w[x] \in Nat /\ v[x] \in Nat
  <2>1. S \ {x} \in SUBSET S /\ S \in SUBSET S /\ w[x] \in Nat /\ v[x] \in Nat
    OBVIOUS
  <2>2. g[S \ {x}] \in Nat /\ h[S \ {x}] \in Nat
    BY <1>1, <1>2, <2>1, SumsNatural
  <2> QED BY <1>1, <1>2, <2>1, <2>2 DEF Sums
<1>5. SumFunction(w) = g[S] /\ SumFunction(v) = h[S]
  BY <1>0, <1>1, <1>2, SumIs
<1> QED
  BY <1>3, <1>4, <1>5

LEMMA SumGrows ==
  ASSUME NEW S, IsFiniteSet(S), NEW w \in [S -> Nat], NEW v \in [S -> Nat],
         \A y \in S : w[y] <= v[y]
  PROVE  /\ SumFunction(w) \in Nat /\ SumFunction(v) \in Nat
         /\ SumFunction(w) <= SumFunction(v)
<1>0. w \in [S -> Int] /\ v \in [S -> Int]
  OBVIOUS
<1>1. PICK g : Sums(S, w, g)
  BY <1>0, SumsExist
<1>2. PICK h : Sums(S, v, h)
  BY <1>0, SumsExist
<1>3. g[S] <= h[S] /\ g[S] \in Nat /\ h[S] \in Nat
  <2>1. S \in SUBSET S
    OBVIOUS
  <2>2. g[S] <= h[S]
    BY <1>0, <1>1, <1>2, <2>1, SumsGrow
  <2> QED BY <1>1, <1>2, <2>1, <2>2, SumsNatural
<1>5. SumFunction(w) = g[S] /\ SumFunction(v) = h[S]
  BY <1>0, <1>1, <1>2, SumIs
<1> QED
  BY <1>3, <1>5

LEMMA SumOfNothing ==
  ASSUME NEW S, IsFiniteSet(S), NEW w \in [S -> Nat], \A y \in S : w[y] = 0
  PROVE  SumFunction(w) = 0
<1>1. Sums(S, w, [T \in SUBSET S |-> 0]) /\ w \in [S -> Int]
  BY DEF Sums
<1> QED
  BY <1>1, SumIs

(***************************************************************************)
(* The members of a finite set that is ordered in full, by the number of   *)
(* those before them.                                                      *)
(***************************************************************************)
Below(lt, S, x) == {y \in S : <<y, x>> \in lt}

Listing(lt, S, s) ==
  /\ s \in [1..Cardinality(S) -> S]
  /\ \A x \in S : \E i \in 1..Cardinality(S) : s[i] = x
  /\ \A i, j \in 1..Cardinality(S) : i < j => <<s[i], s[j]>> \in lt
  /\ \A i \in 1..Cardinality(S) : Cardinality(Below(lt, S, s[i])) = i - 1
  /\ \A x, y \in S : Cardinality(Below(lt, S, x)) = Cardinality(Below(lt, S, y)) => x = y

TotalOrder(lt, S) ==
  /\ \A x \in S : <<x, x>> \notin lt
  /\ \A x, y, z \in S : <<x, y>> \in lt /\ <<y, z>> \in lt => <<x, z>> \in lt
  /\ \A x, y \in S : x # y => <<x, y>> \in lt \/ <<y, x>> \in lt

LEMMA ListingExists ==
  ASSUME NEW S, IsFiniteSet(S), NEW lt \in SUBSET (S \X S), TotalOrder(lt, S)
  PROVE  \E s : Listing(lt, S, s)
<1> DEFINE r == [x \in S |-> Cardinality(Below(lt, S, x))]
<1>1. \A x \in S : Below(lt, S, x) \subseteq S /\ IsFiniteSet(Below(lt, S, x)) /\ r[x] \in Nat
  <2> SUFFICES ASSUME NEW x \in S
               PROVE  Below(lt, S, x) \subseteq S /\ IsFiniteSet(Below(lt, S, x)) /\ r[x] \in Nat
    OBVIOUS
  <2>1. Below(lt, S, x) \subseteq S
    BY DEF Below
  <2> QED BY <2>1, FS_Subset, FS_CardinalityType
<1>2. ASSUME NEW x \in S, NEW y \in S, <<x, y>> \in lt PROVE r[x] < r[y]
  <2>1. Below(lt, S, x) \subseteq Below(lt, S, y)
    BY <1>2 DEF Below, TotalOrder
  <2>2. x \in Below(lt, S, y) /\ x \notin Below(lt, S, x)
    BY <1>2 DEF Below, TotalOrder
  <2>3. /\ Cardinality(Below(lt, S, x)) <= Cardinality(Below(lt, S, y))
        /\ Cardinality(Below(lt, S, x)) # Cardinality(Below(lt, S, y))
    <3>1. Below(lt, S, x) # Below(lt, S, y)
      BY <2>2
    <3> QED BY <1>1, <2>1, <3>1, FS_Subset
  <2> QED BY <1>1, <2>3
<1> HIDE DEF r
<1>3. r \in [S -> Nat]
  <2>1. \A x \in S : r[x] \in Nat
    BY <1>1
  <2> QED BY <2>1 DEF r
<1>4. \A x, y \in S : r[x] = r[y] => x = y
  <2> SUFFICES ASSUME NEW x \in S, NEW y \in S, r[x] = r[y], x # y PROVE FALSE
    OBVIOUS
  <2>1. r[x] < r[y] \/ r[y] < r[x]
    BY <1>2 DEF TotalOrder
  <2>2. r[x] \in Nat /\ r[y] \in Nat
    BY <1>3
  <2> QED BY <2>1, <2>2
<1>5. PICK s : SortedBy(r, S, s)
  BY <1>3, <1>4, SortedExists
<1> DEFINE c == Cardinality(S)
<1>6. c \in Nat
  BY FS_CardinalityType
<1>7. /\ s \in [1..c -> S]
      /\ \A x \in S : \E i \in 1..c : s[i] = x
      /\ \A i, j \in 1..c : i < j => r[s[i]] < r[s[j]]
  BY <1>5 DEF SortedBy
<1> HIDE DEF c
<1>8. \A i, j \in 1..c : <<s[i], s[j]>> \in lt <=> i < j
  <2> SUFFICES ASSUME NEW i \in 1..c, NEW j \in 1..c PROVE <<s[i], s[j]>> \in lt <=> i < j
    OBVIOUS
  <2>0. s[i] \in S /\ s[j] \in S /\ r[s[i]] \in Nat /\ r[s[j]] \in Nat
    BY <1>3, <1>7
  <2>1. CASE i < j
    <3>1. r[s[i]] < r[s[j]]
      BY <1>7, <2>1
    <3>2. s[i] # s[j] /\ ~(r[s[j]] < r[s[i]])
      BY <2>0, <3>1
    <3> QED BY <1>2, <2>0, <2>1, <3>2 DEF TotalOrder
  <2>2. CASE j < i
    <3>1. r[s[j]] < r[s[i]]
      BY <1>7, <2>2
    <3>2. ~(r[s[i]] < r[s[j]])
      BY <2>0, <3>1
    <3> QED BY <1>2, <1>6, <2>0, <2>2, <3>2
  <2>3. CASE i = j
    BY <1>6, <2>0, <2>3 DEF TotalOrder
  <2> QED BY <1>6, <2>1, <2>2, <2>3
<1> DEFINE Good == {i \in 0..c : i = 0 \/ r[s[i]] = i - 1}
<1>9. ASSUME NEW i \in 1..c, i - 1 \in Good PROVE i \in Good
  <2>1. CASE i = 1
    <3>1. Below(lt, S, s[1]) = {}
      <4> SUFFICES ASSUME NEW y \in Below(lt, S, s[1]) PROVE FALSE
        OBVIOUS
      <4>1. y \in S /\ <<y, s[1]>> \in lt
        BY DEF Below
      <4>2. PICK j \in 1..c : s[j] = y
        BY <1>7, <4>1
      <4> QED BY <1>6, <1>8, <2>1, <4>1, <4>2
    <3>2. s[1] \in S /\ r[s[1]] = 0 /\ i \in 0..c
      <4>1. 1 \in 1..c /\ i \in 0..c
        BY <1>6, <2>1
      <4>2. s[1] \in S
        BY <1>7, <4>1
      <4>3. r[s[1]] = Cardinality(Below(lt, S, s[1]))
        BY <4>2 DEF r
      <4> QED BY <3>1, <4>1, <4>2, <4>3, FS_EmptySet
    <3> QED BY <2>1, <3>2
  <2>2. CASE i # 1
    <3>1. i - 1 \in 1..c /\ i - 1 < i /\ i - 1 # 0 /\ i \in Nat /\ (i - 1) - 1 = i - 2
      BY <1>6, <2>2
    <3>2. s[i] \in S /\ s[i - 1] \in S
      BY <1>7, <3>1
    <3>3. Below(lt, S, s[i]) = Below(lt, S, s[i - 1]) \cup {s[i - 1]}
      <4>1. ASSUME NEW y \in Below(lt, S, s[i]), y # s[i - 1]
            PROVE  y \in Below(lt, S, s[i - 1])
        <5>1. y \in S /\ <<y, s[i]>> \in lt
          BY DEF Below
        <5>2. PICK j \in 1..c : s[j] = y
          BY <1>7, <5>1
        <5>3. j < i /\ j # i - 1
          BY <1>8, <4>1, <5>1, <5>2
        <5>4. j < i - 1
          BY <3>1, <5>3
        <5> QED BY <1>8, <3>1, <5>1, <5>2, <5>4 DEF Below
      <4>2. ASSUME NEW y \in Below(lt, S, s[i - 1]) PROVE y \in Below(lt, S, s[i])
        <5>1. <<s[i - 1], s[i]>> \in lt
          BY <1>8, <3>1
        <5>2. y \in S /\ <<y, s[i - 1]>> \in lt
          BY DEF Below
        <5> QED BY <3>2, <5>1, <5>2 DEF Below, TotalOrder
      <4>3. s[i - 1] \in Below(lt, S, s[i])
        BY <1>8, <3>1, <3>2 DEF Below
      <4> QED BY <4>1, <4>2, <4>3
    <3>4. s[i - 1] \notin Below(lt, S, s[i - 1])
      BY <3>2 DEF Below, TotalOrder
    <3>5. r[s[i - 1]] = i - 2
      BY <1>9, <3>1
    <3>6. Cardinality(Below(lt, S, s[i])) = Cardinality(Below(lt, S, s[i - 1])) + 1
      BY <1>1, <3>2, <3>3, <3>4, FS_AddElement
    <3>7. r[s[i]] = r[s[i - 1]] + 1
      BY <3>2, <3>6 DEF r
    <3> QED BY <3>1, <3>5, <3>7
  <2> QED BY <2>1, <2>2
<1>10. \A i \in 1..c : r[s[i]] = i - 1
  <2> HIDE DEF Good
  <2>1. Good \in SUBSET (0..c) /\ 0 \in Good
    BY <1>6 DEF Good
  <2>2. \A i \in 0..c : i \in Good
    BY <1>6, <1>9, <2>1, NumbersInTurn
  <2>3. \A i \in 1..c : i \in Good /\ i # 0
    BY <1>6, <2>2
  <2> QED BY <2>3 DEF Good
<1>11. \A i \in 1..c : Cardinality(Below(lt, S, s[i])) = i - 1
  <2> SUFFICES ASSUME NEW i \in 1..c PROVE Cardinality(Below(lt, S, s[i])) = i - 1
    OBVIOUS
  <2>1. r[s[i]] = i - 1 /\ s[i] \in S
    BY <1>7, <1>10
  <2> QED BY <2>1 DEF r
<1>12. \A x, y \in S : Cardinality(Below(lt, S, x)) = Cardinality(Below(lt, S, y)) => x = y
  BY <1>4 DEF r
<1>13. \A i, j \in 1..c : i < j => <<s[i], s[j]>> \in lt
  BY <1>8
<1> QED
  BY <1>7, <1>11, <1>12, <1>13 DEF Listing, c

LEMMA RanksList ==
  ASSUME NEW S, IsFiniteSet(S), NEW lt \in SUBSET (S \X S), TotalOrder(lt, S)
  PROVE  Listing(lt, S, [i \in 1..Cardinality(S) |->
                           CHOOSE x \in S : Cardinality(Below(lt, S, x)) = i - 1])
<1>1. PICK s : Listing(lt, S, s)
  BY ListingExists
<1>2. ASSUME NEW i \in 1..Cardinality(S)
      PROVE  (CHOOSE x \in S : Cardinality(Below(lt, S, x)) = i - 1) = s[i]
  <2>1. s[i] \in S /\ Cardinality(Below(lt, S, s[i])) = i - 1
    BY <1>1 DEF Listing
  <2>2. \A x \in S : Cardinality(Below(lt, S, x)) = i - 1 => x = s[i]
    BY <1>1, <2>1 DEF Listing
  <2> QED BY <2>1, <2>2
<1>3. [i \in 1..Cardinality(S) |-> CHOOSE x \in S : Cardinality(Below(lt, S, x)) = i - 1] = s
  BY <1>1, <1>2 DEF Listing
<1> QED
  BY <1>1, <1>3

\* A sum without one of its members.
LEMMA SumWithout ==
  ASSUME NEW S, IsFiniteSet(S), NEW w \in [S -> Int], NEW x \in S
  PROVE  SumFunction(w) = SumFunction([y \in S \ {x} |-> w[y]]) + w[x]
<1> DEFINE T == S \ {x}
           part == [y \in T |-> w[y]]
<1>1. PICK g : Sums(S, w, g)
  BY SumsExist
<1>2. SumFunction(w) = g[S]
  BY <1>1, SumIs
<1>3. IsFiniteSet(T) /\ part \in [T -> Int]
  BY FS_Subset
<1>4. PICK h : Sums(T, part, h)
  <2> HIDE DEF T, part
  <2> QED BY <1>3, SumsExist
<1>5. SumFunction(part) = h[T]
  <2> HIDE DEF T, part
  <2> QED BY <1>3, <1>4, SumIs
<1> DEFINE Good == {U \in SUBSET T : h[U] = g[U]}
<1>6. ASSUME NEW U \in SUBSET T, \A y \in U : U \ {y} \in Good PROVE U \in Good
  <2>1. CASE U = {}
    BY <1>1, <1>4, <2>1 DEF Sums
  <2>2. CASE U # {}
    <3>1. PICK y \in U : TRUE
      BY <2>2
    <3>2. h[U] = part[y] + h[U \ {y}] /\ g[U] = w[y] + g[U \ {y}]
      BY <1>1, <1>4, <3>1 DEF Sums
    <3>3. h[U \ {y}] = g[U \ {y}] /\ part[y] = w[y]
      BY <1>6, <3>1
    <3> QED BY <3>2, <3>3
  <2> QED BY <2>1, <2>2
<1>7. T \in Good
  <2> HIDE DEF Good
  <2>1. Good \in SUBSET SUBSET T
    BY DEF Good
  <2> HIDE DEF T, part
  <2>2. \A U \in SUBSET T : U \in Good
    BY <1>3, <1>6, <2>1, SetsBySize
  <2> QED BY <2>2
<1>8. g[S] = w[x] + g[T]
  BY <1>1 DEF Sums
<1> QED
  BY <1>1, <1>2, <1>5, <1>7, <1>8 DEF Sums
================================================================================
