---------------------------- MODULE RatingProofs ----------------------------
(***************************************************************************)
(* What a game does to ratings, for every number of players and every      *)
(* ratings: results are ratings again, points are conserved up to rounding, *)
(* and a team shares them by rating.                                        *)
(***************************************************************************)
EXTENDS MatchmakingGame, FiniteSetTheorems, WellFoundedInduction, TLAPS

----------------------------------------------------------------------------
(* Folds over finite sets *)

LEMMA SmallestNat ==
  ASSUME NEW T, T \subseteq Nat, T # {}
  PROVE  \E n \in T : \A m \in T : n <= m
<1> DEFINE R == {p \in Nat \X Nat : p[1] < p[2]}
<1>1. IsWellFoundedOn(R, Nat)
  BY NatLessThanWellFounded DEF OpToRel
<1>2. PICK n \in T : \A m \in T : <<m, n>> \notin R
  <2> HIDE DEF R
  <2>1. QED
    BY <1>1, WFMin
<1>3. ASSUME NEW m \in T PROVE n <= m
  <2>1. m \in Nat /\ n \in Nat /\ <<m, n>> \in Nat \X Nat /\ <<m, n>> \notin R
    BY <1>2
  <2>2. ~(m < n)
    BY <2>1
  <2>3. QED
    BY <2>1, <2>2
<1>4. QED
  BY <1>3

\* A function over the subsets of a finite set, given by its value for the empty
\* set and, for any other, from its value without one element.
Chosen(s) == CHOOSE x \in s : TRUE
Recurs(f, s, base, h) ==
  f[s] = IF s = {} THEN base ELSE h[<<s, f[s \ {Chosen(s)}]>>]
Small(S, n) == {s \in SUBSET S : Cardinality(s) <= n}

LEMMA SubsetFacts ==
  ASSUME NEW S, IsFiniteSet(S), NEW s \in SUBSET S
  PROVE  /\ IsFiniteSet(s) /\ Cardinality(s) \in Nat /\ Cardinality(s) <= Cardinality(S)
         /\ Cardinality(s) = 0 <=> s = {}
         /\ s # {} => /\ Chosen(s) \in s
                      /\ Cardinality(s \ {Chosen(s)}) = Cardinality(s) - 1
<1>1. IsFiniteSet(s) /\ Cardinality(s) \in Nat /\ Cardinality(s) <= Cardinality(S)
  BY FS_Subset, FS_CardinalityType
<1>2. Cardinality(s) = 0 <=> s = {}
  BY <1>1, FS_EmptySet
<1>3. s # {} => Chosen(s) \in s
  BY DEF Chosen
<1>4. QED
  BY <1>1, <1>2, <1>3, FS_RemoveElement

LEMMA RecursionStarts ==
  ASSUME NEW S, IsFiniteSet(S), NEW V, NEW base \in V, NEW h \in [(SUBSET S) \X V -> V]
  PROVE  \E f \in [Small(S, 0) -> V] : \A s \in Small(S, 0) : Recurs(f, s, base, h)
<1> DEFINE f == [s \in Small(S, 0) |-> base]
<1>1. \A s \in Small(S, 0) : s = {}
  <2> SUFFICES ASSUME NEW s \in Small(S, 0) PROVE s = {}
    OBVIOUS
  <2>1. s \in SUBSET S /\ Cardinality(s) <= 0
    BY DEF Small
  <2>2. Cardinality(s) \in Nat /\ (Cardinality(s) = 0 <=> s = {})
    BY <2>1, SubsetFacts
  <2>3. QED
    BY <2>1, <2>2
<1>2. f \in [Small(S, 0) -> V]
  OBVIOUS
<1>3. \A s \in Small(S, 0) : Recurs(f, s, base, h)
  BY <1>1 DEF Recurs
<1>4. QED
  BY <1>2, <1>3

LEMMA RecursionGoesOn ==
  ASSUME NEW S, IsFiniteSet(S), NEW V, NEW base \in V, NEW h \in [(SUBSET S) \X V -> V],
         NEW n \in Nat, NEW f \in [Small(S, n) -> V],
         \A s \in Small(S, n) : Recurs(f, s, base, h)
  PROVE  \E g \in [Small(S, n + 1) -> V] :
           \A s \in Small(S, n + 1) : Recurs(g, s, base, h)
<1> DEFINE T == Small(S, n)
           U == Small(S, n + 1)
           g == [s \in U |-> IF s \in T THEN f[s] ELSE h[<<s, f[s \ {Chosen(s)}]>>]]
<1>1. ASSUME NEW s \in U
      PROVE  /\ s \in SUBSET S
             /\ s # {} => s \ {Chosen(s)} \in T
             /\ s = {} => s \in T
  <2>1. s \in SUBSET S /\ Cardinality(s) <= n + 1
    BY DEF Small
  <2>2. /\ Cardinality(s) \in Nat /\ (Cardinality(s) = 0 <=> s = {})
        /\ s # {} => Cardinality(s \ {Chosen(s)}) = Cardinality(s) - 1
    BY <2>1, SubsetFacts
  <2>3. s = {} => Cardinality(s) <= n
    BY <2>2
  <2>4. s # {} => Cardinality(s \ {Chosen(s)}) <= n
    BY <2>1, <2>2
  <2>5. QED
    BY <2>1, <2>3, <2>4 DEF Small
<1>2. T \subseteq U
  <2> SUFFICES ASSUME NEW s \in T PROVE s \in U
    OBVIOUS
  <2>1. s \in SUBSET S /\ Cardinality(s) <= n
    BY DEF Small
  <2>2. Cardinality(s) \in Nat
    BY <2>1, SubsetFacts
  <2>3. Cardinality(s) <= n + 1
    BY <2>1, <2>2
  <2>4. QED
    BY <2>1, <2>3 DEF Small
<1> HIDE DEF T, U
<1>3. g \in [U -> V]
  <2> SUFFICES ASSUME NEW s \in U
               PROVE  (IF s \in T THEN f[s] ELSE h[<<s, f[s \ {Chosen(s)}]>>]) \in V
    OBVIOUS
  <2>1. f \in [T -> V]
    BY DEF T
  <2>2. s \in T => f[s] \in V
    BY <2>1
  <2>3. s # {} => f[s \ {Chosen(s)}] \in V
    BY <1>1, <2>1
  <2>4. QED
    BY <1>1, <2>2, <2>3
<1>4. \A s \in T : g[s] = f[s]
  BY <1>2
<1>5. ASSUME NEW s \in U PROVE Recurs(g, s, base, h)
  <2>1. s # {} => g[s \ {Chosen(s)}] = f[s \ {Chosen(s)}]
    BY <1>1, <1>4
  <2>2. CASE s \in T
    <3>1. Recurs(f, s, base, h)
      BY <2>2 DEF T
    <3>2. g[s] = f[s]
      BY <1>4, <2>2
    <3> HIDE DEF g
    <3>3. QED
      BY <2>1, <3>1, <3>2 DEF Recurs
  <2>3. CASE s \notin T
    <3>1. s # {} /\ g[s] = h[<<s, f[s \ {Chosen(s)}]>>]
      BY <1>1, <2>3
    <3> HIDE DEF g
    <3>2. QED
      BY <2>1, <3>1 DEF Recurs
  <2>4. QED
    BY <2>2, <2>3
<1>6. QED
  BY <1>3, <1>5 DEF U

LEMMA RecursionOverSubsets ==
  ASSUME NEW S, IsFiniteSet(S), NEW V, NEW base \in V, NEW h \in [(SUBSET S) \X V -> V]
  PROVE  \E f \in [SUBSET S -> V] : \A s \in SUBSET S : Recurs(f, s, base, h)
<1> DEFINE Solved(n) ==
             \E f \in [Small(S, n) -> V] : \A s \in Small(S, n) : Recurs(f, s, base, h)
           Bad == {n \in Nat : ~Solved(n)}
<1>1. Bad = {}
  <2> SUFFICES ASSUME NEW n \in Bad, \A m \in Bad : n <= m PROVE FALSE
    <3>1. Bad \subseteq Nat
      OBVIOUS
    <3> HIDE DEF Bad
    <3>2. QED
      BY <3>1, SmallestNat
  <2>1. n \in Nat /\ ~Solved(n)
    OBVIOUS
  <2>2. n # 0
    BY <2>1, RecursionStarts
  <2>3. n - 1 \in Nat /\ (n - 1) + 1 = n /\ ~(n <= n - 1)
    BY <2>1, <2>2
  <2>4. Solved(n - 1)
    <3> HIDE DEF Solved
    <3>1. QED
      BY <2>3
  <2>5. PICK k \in Nat : k = n - 1 /\ k + 1 = n
    BY <2>3
  <2>6. Solved(k) /\ ~Solved(k + 1)
    BY <2>1, <2>4, <2>5
  <2>7. PICK f \in [Small(S, k) -> V] : \A s \in Small(S, k) : Recurs(f, s, base, h)
    BY <2>6
  <2>8. QED
    BY <2>6, <2>7, RecursionGoesOn
<1>2. Cardinality(S) \in Nat
  BY FS_CardinalityType
<1>3. Solved(Cardinality(S))
  <2> HIDE DEF Solved
  <2>1. QED
    BY <1>1, <1>2
<1>4. Small(S, Cardinality(S)) = SUBSET S
  BY SubsetFacts DEF Small
<1>5. QED
  BY <1>3, <1>4

\* What holds for a set when it holds for the set without any one element, holds
\* for every subset of a finite set.
LEMMA SubsetInduction ==
  ASSUME NEW S, IsFiniteSet(S), NEW Good,
         \A s \in SUBSET S : (\A x \in s : s \ {x} \in Good) => s \in Good
  PROVE  SUBSET S \subseteq Good
<1> DEFINE Bad == {s \in SUBSET S : s \notin Good}
           Sizes == {n \in Nat : \E s \in Bad : Cardinality(s) = n}
<1> SUFFICES ASSUME NEW t \in Bad PROVE FALSE
  OBVIOUS
<1>1. Cardinality(t) \in Sizes
  BY SubsetFacts
<1>2. PICK n \in Sizes : \A m \in Sizes : n <= m
  <2>1. Sizes \subseteq Nat
    OBVIOUS
  <2> HIDE DEF Sizes
  <2>2. QED
    BY <1>1, <2>1, SmallestNat
<1>3. PICK s \in Bad : Cardinality(s) = n
  OBVIOUS
<1>4. s \in SUBSET S /\ s \notin Good /\ n \in Nat
  BY <1>3
<1>5. ASSUME NEW x \in s PROVE s \ {x} \in Good
  <2>1. IsFiniteSet(s)
    BY <1>4, SubsetFacts
  <2>2. Cardinality(s \ {x}) = n - 1 /\ s \ {x} \in SUBSET S
    BY <1>3, <1>4, <2>1, FS_RemoveElement
  <2>3. n - 1 \in Nat
    <3>1. Cardinality(s \ {x}) \in Nat
      BY <2>2, SubsetFacts
    <3>2. QED
      BY <2>2, <3>1
  <2>4. n - 1 \notin Sizes
    <3> HIDE DEF Sizes
    <3>1. ~(n <= n - 1)
      BY <1>4
    <3>2. QED
      BY <1>2, <3>1
  <2>5. s \ {x} \notin Bad
    BY <2>2, <2>3, <2>4
  <2>6. QED
    BY <2>2, <2>5
<1>6. QED
  BY <1>4, <1>5

\* Two functions that begin alike and go on alike are alike.
LEMMA RecursionIsUnique ==
  ASSUME NEW S, IsFiniteSet(S), NEW f, NEW g, f[{}] = g[{}],
         \A s \in SUBSET S :
           s # {} /\ f[s \ {Chosen(s)}] = g[s \ {Chosen(s)}] => f[s] = g[s]
  PROVE  f[S] = g[S]
<1> DEFINE Good == {s \in SUBSET S : f[s] = g[s]}
<1>1. ASSUME NEW s \in SUBSET S, \A x \in s : s \ {x} \in Good PROVE s \in Good
  <2>1. CASE s = {}
    BY <2>1
  <2>2. CASE s # {}
    <3>1. s \ {Chosen(s)} \in Good
      BY <1>1, <2>2 DEF Chosen
    <3>2. f[s \ {Chosen(s)}] = g[s \ {Chosen(s)}]
      BY <3>1
    <3>3. QED
      BY <2>2, <3>2
  <2>3. QED
    BY <2>1, <2>2
<1>2. SUBSET S \subseteq Good
  <2> HIDE DEF Good
  <2>1. QED
    BY <1>1, SubsetInduction
<1>3. QED
  BY <1>2

\* A sum is the value for the whole set of a function over its subsets, which adds
\* the elements one by one.
SumsUp(w, S, f) ==
  \A s \in SUBSET S : f[s] = IF s = {} THEN 0 ELSE w[Chosen(s)] + f[s \ {Chosen(s)}]

LEMMA SumUnfolds ==
  ASSUME NEW S, IsFiniteSet(S), NEW V \in {Int, Nat}, NEW w, \A x \in S : w[x] \in V
  PROVE  \E f \in [SUBSET S -> V] : SumsUp(w, S, f) /\ SumFunctionOnSet(w, S) = f[S]
<1> DEFINE Sums(f) == [s \in SUBSET S |->
                         IF s = {} THEN 0 ELSE w[Chosen(s)] + f[s \ {Chosen(s)}]]
           Iter == CHOOSE f : f = Sums(f)
           h == [p \in (SUBSET S) \X V |->
                   IF p[1] = {} THEN 0 ELSE w[Chosen(p[1])] + p[2]]
<1>1. SumFunctionOnSet(w, S) = Iter[S]
  BY DEF SumFunctionOnSet, FoldFunctionOnSet, MapThenFoldSet, Chosen
<1>2. /\ 0 \in V /\ \A i, j \in V : i + j \in V
      /\ \A s \in SUBSET S : s # {} => Chosen(s) \in s /\ w[Chosen(s)] \in V
  <2>1. \A s \in SUBSET S : s # {} => Chosen(s) \in s
    BY DEF Chosen
  <2>2. QED
    BY <2>1
<1>3. h \in [(SUBSET S) \X V -> V]
  BY <1>2
<1>4. PICK f \in [SUBSET S -> V] : \A s \in SUBSET S : Recurs(f, s, 0, h)
  <2> HIDE DEF h
  <2>1. QED
    BY <1>2, <1>3, RecursionOverSubsets
<1>5. \A s \in SUBSET S :
        f[s] = IF s = {} THEN 0 ELSE w[Chosen(s)] + f[s \ {Chosen(s)}]
  BY <1>4 DEF Recurs
<1>6. f = Sums(f)
  BY <1>5
<1>7. Iter = Sums(Iter)
  <2> HIDE DEF Sums
  <2>1. QED
    BY <1>6
<1>8. \A s \in SUBSET S :
        Iter[s] = IF s = {} THEN 0 ELSE w[Chosen(s)] + Iter[s \ {Chosen(s)}]
  <2> HIDE DEF Iter
  <2>1. QED
    BY <1>7
<1> HIDE DEF Iter, Sums, h
<1>9. Iter[S] = f[S]
  <2>1. Iter[{}] = f[{}]
    BY <1>5, <1>8
  <2>2. \A s \in SUBSET S :
          s # {} /\ Iter[s \ {Chosen(s)}] = f[s \ {Chosen(s)}] => Iter[s] = f[s]
    BY <1>5, <1>8
  <2>3. QED
    BY <2>1, <2>2, RecursionIsUnique
<1>10. QED
  BY <1>1, <1>5, <1>9 DEF SumsUp

LEMMA SumOfNone == ASSUME NEW w PROVE SumFunctionOnSet(w, {}) = 0
<1>1. PICK f \in [SUBSET {} -> Int] : SumsUp(w, {}, f) /\ SumFunctionOnSet(w, {}) = f[{}]
  BY SumUnfolds, FS_EmptySet
<1>2. QED
  BY <1>1 DEF SumsUp

\* A sum is of the type of its terms; it is positive when they are.
LEMMA SumType ==
  ASSUME NEW S, IsFiniteSet(S), NEW V \in {Int, Nat}, NEW w, \A x \in S : w[x] \in V
  PROVE  /\ SumFunctionOnSet(w, S) \in V
         /\ S # {} /\ V = Nat /\ (\A x \in S : w[x] > 0) => SumFunctionOnSet(w, S) > 0
<1>1. PICK f \in [SUBSET S -> V] : SumsUp(w, S, f) /\ SumFunctionOnSet(w, S) = f[S]
  BY SumUnfolds
<1>2. S # {} => f[S] = w[Chosen(S)] + f[S \ {Chosen(S)}] /\ f[S \ {Chosen(S)}] \in V
  BY <1>1 DEF SumsUp
<1>3. ASSUME S # {}, V = Nat, \A x \in S : w[x] > 0 PROVE f[S] > 0
  <2>1. w[Chosen(S)] > 0 /\ w[Chosen(S)] \in Nat
    BY <1>3 DEF Chosen
  <2>2. f[S \ {Chosen(S)}] \in Nat
    BY <1>2, <1>3
  <2>3. QED
    BY <1>2, <1>3, <2>1, <2>2
<1>4. QED
  BY <1>1, <1>3

\* The sum over a set is that over the set without the element that is chosen, and
\* that element's value.
LEMMA SumOfChosen ==
  ASSUME NEW S, IsFiniteSet(S), NEW w, \A x \in S : w[x] \in Int, S # {}
  PROVE  SumFunctionOnSet(w, S) = w[Chosen(S)] + SumFunctionOnSet(w, S \ {Chosen(S)})
<1> DEFINE T == S \ {Chosen(S)}
<1>1. IsFiniteSet(T) /\ T \subseteq S
  BY FS_RemoveElement
<1>2. PICK f \in [SUBSET S -> Int] : SumsUp(w, S, f) /\ SumFunctionOnSet(w, S) = f[S]
  BY SumUnfolds
<1> HIDE DEF T
<1>3. PICK g \in [SUBSET T -> Int] : SumsUp(w, T, g) /\ SumFunctionOnSet(w, T) = g[T]
  BY <1>1, SumUnfolds
<1>4. f[T] = g[T]
  <2>1. f[{}] = g[{}]
    BY <1>2, <1>3 DEF SumsUp
  <2>2. ASSUME NEW s \in SUBSET T, s # {}, f[s \ {Chosen(s)}] = g[s \ {Chosen(s)}]
        PROVE  f[s] = g[s]
    BY <1>1, <1>2, <1>3, <2>2 DEF SumsUp
  <2>3. QED
    BY <1>1, <2>1, <2>2, RecursionIsUnique
<1>5. f[S] = w[Chosen(S)] + f[T]
  BY <1>2 DEF SumsUp, T
<1>6. QED
  BY <1>2, <1>3, <1>4, <1>5 DEF T

\* It does not matter which element is taken out.
LEMMA SumWithout ==
  ASSUME NEW S, IsFiniteSet(S), NEW w, \A x \in S : w[x] \in Int, NEW y \in S
  PROVE  SumFunctionOnSet(w, S) = w[y] + SumFunctionOnSet(w, S \ {y})
<1> DEFINE Sum(s) == SumFunctionOnSet(w, s)
           Good == {s \in SUBSET S : \A x \in s : Sum(s) = w[x] + Sum(s \ {x})}
<1>1. \A s \in SUBSET S : IsFiniteSet(s) /\ Sum(s) \in Int
  BY SubsetFacts, SumType
<1>2. \A s \in SUBSET S : s # {} =>
        Chosen(s) \in s /\ Sum(s) = w[Chosen(s)] + Sum(s \ {Chosen(s)})
  <2> SUFFICES ASSUME NEW s \in SUBSET S, s # {}
               PROVE  Chosen(s) \in s /\ Sum(s) = w[Chosen(s)] + Sum(s \ {Chosen(s)})
    OBVIOUS
  <2>1. Chosen(s) \in s
    BY DEF Chosen
  <2>2. QED
    BY <1>1, <2>1, SumOfChosen
<1> HIDE DEF Sum
<1>3. ASSUME NEW s \in SUBSET S, \A x \in s : s \ {x} \in Good PROVE s \in Good
  <2> SUFFICES ASSUME NEW x \in s PROVE Sum(s) = w[x] + Sum(s \ {x})
    OBVIOUS
  <2> DEFINE c == Chosen(s)
  <2>1. c \in s /\ Sum(s) = w[c] + Sum(s \ {c})
    BY <1>2
  <2> HIDE DEF c
  <2>2. CASE x = c
    BY <2>1, <2>2
  <2>3. CASE x # c
    <3>1. s \ {x} \in Good /\ s \ {c} \in Good /\ c \in s \ {x} /\ x \in s \ {c}
      BY <1>3, <2>1, <2>3
    <3>2. /\ Sum(s \ {c}) = w[x] + Sum((s \ {c}) \ {x})
          /\ Sum(s \ {x}) = w[c] + Sum((s \ {x}) \ {c})
      BY <3>1
    <3>3. (s \ {c}) \ {x} = (s \ {x}) \ {c} /\ (s \ {x}) \ {c} \in SUBSET S
      OBVIOUS
    <3>4. Sum((s \ {x}) \ {c}) \in Int /\ w[x] \in Int /\ w[c] \in Int
      BY <1>1, <2>1, <3>3
    <3>5. PICK q \in Int : Sum(s \ {c}) = w[x] + q /\ Sum(s \ {x}) = w[c] + q
      BY <3>2, <3>3, <3>4
    <3>6. QED
      BY <2>1, <3>4, <3>5
  <2>4. QED
    BY <2>2, <2>3
<1>4. SUBSET S \subseteq Good
  <2> HIDE DEF Good
  <2>1. QED
    BY <1>3, SubsetInduction
<1>5. S \in Good
  BY <1>4
<1>6. QED
  BY <1>5 DEF Sum
----------------------------------------------------------------------------
(* Sums of two sets and of two functions *)

\* The sum over two sets without a common element.
LEMMA SumOfUnion ==
  ASSUME NEW S, NEW T, IsFiniteSet(S), IsFiniteSet(T), S \cap T = {},
         NEW w, \A x \in S \cup T : w[x] \in Int
  PROVE  SumFunctionOnSet(w, S \cup T) = SumFunctionOnSet(w, S) + SumFunctionOnSet(w, T)
<1> DEFINE Sum(s) == SumFunctionOnSet(w, s)
           Good == {s \in SUBSET S : Sum(s \cup T) = Sum(s) + Sum(T)}
<1>1. \A s \in SUBSET S : IsFiniteSet(s) /\ IsFiniteSet(s \cup T)
  BY FS_Subset, FS_Union
<1>2. Sum(T) \in Int /\ \A s \in SUBSET S : Sum(s) \in Int
  BY <1>1, SumType
<1>3. Sum({}) = 0
  BY SumOfNone
<1>4. ASSUME NEW s \in SUBSET S, NEW x \in s
      PROVE  /\ Sum(s) = w[x] + Sum(s \ {x})
             /\ Sum(s \cup T) = w[x] + Sum((s \ {x}) \cup T)
  <2>1. Sum(s) = w[x] + Sum(s \ {x})
    BY <1>1, SumWithout
  <2>2. Sum(s \cup T) = w[x] + Sum((s \cup T) \ {x})
    BY <1>1, SumWithout
  <2>3. (s \cup T) \ {x} = (s \ {x}) \cup T
    OBVIOUS
  <2>4. QED
    BY <2>1, <2>2, <2>3
<1> HIDE DEF Sum
<1>5. ASSUME NEW s \in SUBSET S, \A x \in s : s \ {x} \in Good PROVE s \in Good
  <2>1. CASE s = {}
    <3>1. s \cup T = T
      BY <2>1
    <3>2. QED
      BY <1>2, <1>3, <2>1, <3>1
  <2>2. CASE s # {}
    <3>1. PICK x \in s : TRUE
      BY <2>2
    <3>2. Sum((s \ {x}) \cup T) = Sum(s \ {x}) + Sum(T)
      BY <1>5, <3>1
    <3>3. Sum(s \ {x}) \in Int /\ w[x] \in Int
      BY <1>2
    <3>4. Sum(s \cup T) = w[x] + (Sum(s \ {x}) + Sum(T))
      BY <1>4, <3>2
    <3>5. Sum(s) = w[x] + Sum(s \ {x})
      BY <1>4
    <3>6. Sum(s \cup T) = Sum(s) + Sum(T)
      <4>1. PICK a \in Int, b \in Int, t \in Int :
              a = w[x] /\ b = Sum(s \ {x}) /\ t = Sum(T)
        BY <1>2, <3>3
      <4>2. Sum(s \cup T) = a + (b + t) /\ Sum(s) = a + b
        BY <3>4, <3>5, <4>1
      <4>3. QED
        BY <4>1, <4>2
    <3>7. QED
      BY <3>6
  <2>3. QED
    BY <2>1, <2>2
<1>6. SUBSET S \subseteq Good
  <2> HIDE DEF Good
  <2>1. QED
    BY <1>5, SubsetInduction
<1>7. S \in Good
  BY <1>6
<1>8. QED
  BY <1>7 DEF Sum

\* A sum is linear: term by term i times one function and j times another.
IsLinear(S, w, i, u, j, v) ==
  /\ i \in Int /\ j \in Int
  /\ \A x \in S : u[x] \in Int /\ v[x] \in Int /\ w[x] = i * u[x] + j * v[x]

LEMMA SumIsLinear ==
  ASSUME NEW S, IsFiniteSet(S), NEW i, NEW j, NEW u, NEW v, NEW w,
         IsLinear(S, w, i, u, j, v)
  PROVE  SumFunctionOnSet(w, S)
           = i * SumFunctionOnSet(u, S) + j * SumFunctionOnSet(v, S)
<1> DEFINE Sum(f, s) == SumFunctionOnSet(f, s)
           Good == {s \in SUBSET S : Sum(w, s) = i * Sum(u, s) + j * Sum(v, s)}
<1>1. /\ i \in Int /\ j \in Int
      /\ \A x \in S : u[x] \in Int /\ v[x] \in Int /\ w[x] = i * u[x] + j * v[x]
      /\ \A x \in S : w[x] \in Int
  BY DEF IsLinear
<1>2. ASSUME NEW s \in SUBSET S
      PROVE  Sum(u, s) \in Int /\ Sum(v, s) \in Int /\ Sum(w, s) \in Int
  <2>1. IsFiniteSet(s)
    BY FS_Subset
  <2>2. QED
    BY <1>1, <2>1, SumType
<1>3. Sum(u, {}) = 0 /\ Sum(v, {}) = 0 /\ Sum(w, {}) = 0
  BY SumOfNone
<1>4. ASSUME NEW s \in SUBSET S, NEW x \in s
      PROVE  /\ Sum(u, s) = u[x] + Sum(u, s \ {x})
             /\ Sum(v, s) = v[x] + Sum(v, s \ {x})
             /\ Sum(w, s) = w[x] + Sum(w, s \ {x})
  <2>1. IsFiniteSet(s)
    BY FS_Subset
  <2>2. QED
    BY <1>1, <2>1, SumWithout
<1> HIDE DEF Sum
<1>5. ASSUME NEW s \in SUBSET S, \A x \in s : s \ {x} \in Good PROVE s \in Good
  <2>1. CASE s = {}
    BY <1>1, <1>3, <2>1
  <2>2. CASE s # {}
    <3>1. PICK x \in s : TRUE
      BY <2>2
    <3>2. Sum(w, s \ {x}) = i * Sum(u, s \ {x}) + j * Sum(v, s \ {x})
      BY <1>5, <3>1
    <3>3. PICK c \in Int, d \in Int : c = Sum(u, s \ {x}) /\ d = Sum(v, s \ {x})
      BY <1>2
    <3>4. Sum(w, s) = (i * u[x] + j * v[x]) + (i * c + j * d)
      BY <1>1, <1>4, <3>2, <3>3
    <3>5. Sum(u, s) = u[x] + c /\ Sum(v, s) = v[x] + d
      BY <1>4, <3>3
    <3>6. PICK a \in Int, b \in Int : a = u[x] /\ b = v[x]
      BY <1>1
    <3>7. (i * a + j * b) + (i * c + j * d) = i * (a + c) + j * (b + d)
      <4>1. i \in Int /\ j \in Int /\ a \in Int /\ b \in Int /\ c \in Int /\ d \in Int
        BY <1>1, <3>3, <3>6
      <4>2. QED
        BY <4>1
    <3>8. Sum(w, s) = i * Sum(u, s) + j * Sum(v, s)
      BY <3>4, <3>5, <3>6, <3>7, Zenon
    <3>9. QED
      BY <3>8
  <2>3. QED
    BY <2>1, <2>2
<1>6. SUBSET S \subseteq Good
  <2> HIDE DEF Good
  <2>1. QED
    BY <1>5, SubsetInduction
<1>7. S \in Good
  BY <1>6
<1>8. QED
  BY <1>7 DEF Sum

LEMMA SameSum ==
  ASSUME NEW S, IsFiniteSet(S), NEW u, NEW w, \A x \in S : u[x] \in Int /\ w[x] = u[x]
  PROVE  SumFunctionOnSet(w, S) = SumFunctionOnSet(u, S)
<1>1. SumFunctionOnSet(w, S) = 1 * SumFunctionOnSet(u, S) + 0 * SumFunctionOnSet(u, S)
  <2>1. IsLinear(S, w, 1, u, 0, u)
    BY DEF IsLinear
  <2>2. QED
    BY <2>1, SumIsLinear
<1>2. SumFunctionOnSet(u, S) \in Int
  BY SumType
<1>3. QED
  BY <1>1, <1>2

\* A sum lies between the number of its terms times their bounds.
LEMMA SumBounds ==
  ASSUME NEW S, IsFiniteSet(S), NEW lo \in Int, NEW hi \in Int, NEW w,
         \A x \in S : w[x] \in lo .. hi
  PROVE  SumFunctionOnSet(w, S) \in Cardinality(S) * lo .. Cardinality(S) * hi
<1> DEFINE Sum(s) == SumFunctionOnSet(w, s)
           Bounded(n, m) == n * lo <= m /\ m <= n * hi
           Good == {s \in SUBSET S : Bounded(Cardinality(s), Sum(s))}
<1> SUFFICES ASSUME \A x \in S : w[x] \in Int
             PROVE  SumFunctionOnSet(w, S) \in Cardinality(S) * lo .. Cardinality(S) * hi
  OBVIOUS
<1>1. \A s \in SUBSET S : IsFiniteSet(s) /\ Cardinality(s) \in Nat /\ Sum(s) \in Int
  BY SubsetFacts, SumType
<1>2. Sum({}) = 0 /\ Cardinality({}) = 0
  BY SumOfNone, FS_EmptySet
<1>3. ASSUME NEW s \in SUBSET S, NEW x \in s
      PROVE  Sum(s) = w[x] + Sum(s \ {x}) /\ Cardinality(s) = Cardinality(s \ {x}) + 1
  <2>1. Sum(s) = w[x] + Sum(s \ {x})
    BY <1>1, SumWithout
  <2>2. Cardinality(s \ {x}) = Cardinality(s) - 1
    BY <1>1, FS_RemoveElement
  <2>3. QED
    BY <1>1, <2>1, <2>2
<1>4. ASSUME NEW n \in Nat, NEW m \in Int, NEW k \in lo .. hi, Bounded(n, m)
      PROVE  Bounded(n + 1, k + m)
  <2>1. (n + 1) * lo = n * lo + lo /\ (n + 1) * hi = n * hi + hi
    OBVIOUS
  <2>2. n * lo \in Int /\ n * hi \in Int /\ n * lo <= m /\ m <= n * hi
    BY <1>4
  <2>3. QED
    BY <2>1, <2>2
<1> HIDE DEF Sum, Bounded
<1>5. ASSUME NEW s \in SUBSET S, \A x \in s : s \ {x} \in Good PROVE s \in Good
  <2>1. CASE s = {}
    BY <1>2, <2>1 DEF Bounded
  <2>2. CASE s # {}
    <3>1. PICK x \in s : TRUE
      BY <2>2
    <3>2. Bounded(Cardinality(s \ {x}), Sum(s \ {x}))
      BY <1>5, <3>1
    <3>3. w[x] \in lo .. hi
      OBVIOUS
    <3>4. Bounded(Cardinality(s \ {x}) + 1, w[x] + Sum(s \ {x}))
      BY <1>1, <1>4, <3>2, <3>3
    <3>5. QED
      BY <1>3, <3>4
  <2>3. QED
    BY <2>1, <2>2
<1>6. SUBSET S \subseteq Good
  <2> HIDE DEF Good
  <2>1. QED
    BY <1>5, SubsetInduction
<1>7. S \in Good
  BY <1>6
<1>8. Bounded(Cardinality(S), Sum(S))
  BY <1>7
<1>9. Sum(S) \in Int /\ Cardinality(S) \in Int
  BY <1>1
<1>10. \A a, b \in Int : a * b \in Int
  OBVIOUS
<1>11. Cardinality(S) * lo \in Int /\ Cardinality(S) * hi \in Int
  BY <1>9, <1>10, Zenon
<1>12. Sum(S) \in Cardinality(S) * lo .. Cardinality(S) * hi
  BY <1>8, <1>9, <1>11 DEF Bounded
<1>13. QED
  BY <1>12 DEF Sum
----------------------------------------------------------------------------
(* Products of positive numbers *)

Product(w, s) == FoldFunctionOnSet(LAMBDA x, y : x * y, 1, w, s)
Positive == Nat \ {0}
Multiplies(w, S, f) ==
  \A s \in SUBSET S : f[s] = IF s = {} THEN 1 ELSE w[Chosen(s)] * f[s \ {Chosen(s)}]

LEMMA ProductUnfolds ==
  ASSUME NEW S, IsFiniteSet(S), NEW w, \A x \in S : w[x] \in Positive
  PROVE  \E f \in [SUBSET S -> Positive] : Multiplies(w, S, f) /\ Product(w, S) = f[S]
<1> DEFINE Products(f) == [s \in SUBSET S |->
                             IF s = {} THEN 1 ELSE w[Chosen(s)] * f[s \ {Chosen(s)}]]
           Iter == CHOOSE f : f = Products(f)
           h == [p \in (SUBSET S) \X Positive |->
                   IF p[1] = {} THEN 1 ELSE w[Chosen(p[1])] * p[2]]
<1>1. Product(w, S) = Iter[S]
  BY DEF Product, FoldFunctionOnSet, MapThenFoldSet, Chosen
<1>2. /\ 1 \in Positive /\ \A i, j \in Positive : i * j \in Positive
      /\ \A s \in SUBSET S : s # {} => w[Chosen(s)] \in Positive
  <2>1. \A s \in SUBSET S : s # {} => Chosen(s) \in s
    BY DEF Chosen
  <2>2. \A i, j \in Positive : i * j \in Positive
    BY DEF Positive
  <2>3. QED
    BY <2>1, <2>2 DEF Positive
<1>3. h \in [(SUBSET S) \X Positive -> Positive]
  BY <1>2
<1>4. PICK f \in [SUBSET S -> Positive] : \A s \in SUBSET S : Recurs(f, s, 1, h)
  <2> HIDE DEF h
  <2>1. QED
    BY <1>2, <1>3, RecursionOverSubsets
<1>5. \A s \in SUBSET S :
        f[s] = IF s = {} THEN 1 ELSE w[Chosen(s)] * f[s \ {Chosen(s)}]
  BY <1>4 DEF Recurs
<1>6. f = Products(f)
  BY <1>5
<1>7. Iter = Products(Iter)
  <2> HIDE DEF Products
  <2>1. QED
    BY <1>6
<1>8. \A s \in SUBSET S :
        Iter[s] = IF s = {} THEN 1 ELSE w[Chosen(s)] * Iter[s \ {Chosen(s)}]
  <2> HIDE DEF Iter
  <2>1. QED
    BY <1>7
<1> HIDE DEF Iter, Products, h
<1>9. Iter[S] = f[S]
  <2>1. Iter[{}] = f[{}]
    BY <1>5, <1>8
  <2>2. \A s \in SUBSET S :
          s # {} /\ Iter[s \ {Chosen(s)}] = f[s \ {Chosen(s)}] => Iter[s] = f[s]
    BY <1>5, <1>8
  <2>3. QED
    BY <2>1, <2>2, RecursionIsUnique
<1>10. QED
  BY <1>1, <1>5, <1>9 DEF Multiplies

\* A product of positive numbers is positive.
LEMMA ProductType ==
  ASSUME NEW S, IsFiniteSet(S), NEW w, \A x \in S : w[x] \in Positive
  PROVE  Product(w, S) \in Positive
<1>1. PICK f \in [SUBSET S -> Positive] : Multiplies(w, S, f) /\ Product(w, S) = f[S]
  BY ProductUnfolds
<1>2. QED
  BY <1>1

LEMMA ProductOfChosen ==
  ASSUME NEW S, IsFiniteSet(S), NEW w, \A x \in S : w[x] \in Positive, S # {}
  PROVE  Product(w, S) = w[Chosen(S)] * Product(w, S \ {Chosen(S)})
<1> DEFINE T == S \ {Chosen(S)}
<1>1. IsFiniteSet(T) /\ T \subseteq S
  BY FS_RemoveElement
<1>2. PICK f \in [SUBSET S -> Positive] : Multiplies(w, S, f) /\ Product(w, S) = f[S]
  BY ProductUnfolds
<1> HIDE DEF T
<1>3. PICK g \in [SUBSET T -> Positive] : Multiplies(w, T, g) /\ Product(w, T) = g[T]
  BY <1>1, ProductUnfolds
<1>4. f[T] = g[T]
  <2>1. f[{}] = g[{}]
    BY <1>2, <1>3 DEF Multiplies
  <2>2. ASSUME NEW s \in SUBSET T, s # {}, f[s \ {Chosen(s)}] = g[s \ {Chosen(s)}]
        PROVE  f[s] = g[s]
    BY <1>1, <1>2, <1>3, <2>2 DEF Multiplies
  <2>3. QED
    BY <1>1, <2>1, <2>2, RecursionIsUnique
<1>5. f[S] = w[Chosen(S)] * f[T]
  BY <1>2 DEF Multiplies, T
<1>6. QED
  BY <1>2, <1>3, <1>4, <1>5 DEF T

LEMMA ProductWithout ==
  ASSUME NEW S, IsFiniteSet(S), NEW w, \A x \in S : w[x] \in Positive, NEW y \in S
  PROVE  Product(w, S) = w[y] * Product(w, S \ {y})
<1> DEFINE Good == {s \in SUBSET S : \A x \in s : Product(w, s) = w[x] * Product(w, s \ {x})}
<1>1. \A s \in SUBSET S : IsFiniteSet(s) /\ Product(w, s) \in Positive
  BY SubsetFacts, ProductType
<1>2. \A s \in SUBSET S : s # {} =>
        Chosen(s) \in s /\ Product(w, s) = w[Chosen(s)] * Product(w, s \ {Chosen(s)})
  <2> SUFFICES ASSUME NEW s \in SUBSET S, s # {}
               PROVE  /\ Chosen(s) \in s
                      /\ Product(w, s) = w[Chosen(s)] * Product(w, s \ {Chosen(s)})
    OBVIOUS
  <2>1. Chosen(s) \in s
    BY DEF Chosen
  <2>2. QED
    BY <1>1, <2>1, ProductOfChosen
<1>3. \A a, b, q \in Positive : a * (b * q) = b * (a * q)
  BY DEF Positive
<1>4. ASSUME NEW s \in SUBSET S, \A x \in s : s \ {x} \in Good PROVE s \in Good
  <2> SUFFICES ASSUME NEW x \in s PROVE Product(w, s) = w[x] * Product(w, s \ {x})
    OBVIOUS
  <2> DEFINE c == Chosen(s)
  <2>1. c \in s /\ Product(w, s) = w[c] * Product(w, s \ {c})
    BY <1>2
  <2> HIDE DEF c
  <2>2. CASE x = c
    BY <2>1, <2>2
  <2>3. CASE x # c
    <3>1. s \ {x} \in Good /\ s \ {c} \in Good /\ c \in s \ {x} /\ x \in s \ {c}
      BY <1>4, <2>1, <2>3
    <3>2. /\ Product(w, s \ {c}) = w[x] * Product(w, (s \ {c}) \ {x})
          /\ Product(w, s \ {x}) = w[c] * Product(w, (s \ {x}) \ {c})
      BY <3>1
    <3>3. (s \ {c}) \ {x} = (s \ {x}) \ {c} /\ (s \ {x}) \ {c} \in SUBSET S
      OBVIOUS
    <3>4. Product(w, (s \ {x}) \ {c}) \in Positive /\ w[x] \in Positive /\ w[c] \in Positive
      BY <1>1, <2>1, <3>3
    <3>5. PICK q \in Positive :
            Product(w, s \ {c}) = w[x] * q /\ Product(w, s \ {x}) = w[c] * q
      BY <3>2, <3>3, <3>4
    <3>6. w[c] * (w[x] * q) = w[x] * (w[c] * q)
      BY <1>3, <3>4, <3>5
    <3>7. QED
      BY <2>1, <3>5, <3>6
  <2>4. QED
    BY <2>2, <2>3
<1>5. SUBSET S \subseteq Good
  <2> HIDE DEF Good
  <2>1. QED
    BY <1>4, SubsetInduction
<1>6. S \in Good
  BY <1>5
<1>7. QED
  BY <1>6
----------------------------------------------------------------------------
(* Ratings after a game *)

\* Rounding yields an integer, and an average, too.
LEMMA RoundedType ==
  ASSUME NEW n \in Int, NEW d \in Nat \ {0}
  PROVE  RoundedQuotient(n, d) \in Int
<1>1. n \div d \in Int
  OBVIOUS
<1>2. QED
  BY <1>1 DEF RoundedQuotient

LEMMA AverageType ==
  ASSUME NEW team, IsFiniteSet(team), NEW r, \A a \in team : r[a] \in Nat,
         NEW nan \in NaN
  PROVE  AverageOf(r, team, nan) \in Int
<1>1. CASE team = {}
  <2>1. nan \in Int
    BY RatingBoundAssumption DEF NaN
  <2>2. QED
    BY <1>1, <2>1 DEF AverageOf
<1>2. CASE team # {}
  <2>1. SumFunctionOnSet(r, team) \in Int
    BY SumType
  <2>2. Cardinality(team) \in Nat \ {0}
    BY <1>2, FS_CardinalityType, FS_EmptySet
  <2>3. QED
    BY <1>2, <2>1, <2>2, RoundedType DEF AverageOf
<1>3. QED
  BY <1>1, <1>2

LEMMA PointsType ==
  ASSUME NEW n \in Int, NEW m \in Int
  PROVE  PointsForVictory(n, m) \in Nat /\ PointsForDraw(n, m) \in Int
<1>1. DOMAIN LargestLead = 1 .. 20
  BY DEF LargestLead
<1>2. IsFiniteSet({k \in DOMAIN LargestLead : n - m <= LargestLead[k]})
  <2>1. IsFiniteSet(1 .. 20)
    <3>1. \A a, b \in Int : IsFiniteSet(a .. b)
      BY FS_Interval
    <3>2. 1 \in Int /\ 20 \in Int
      OBVIOUS
    <3>3. QED
      BY <3>1, <3>2, Zenon
  <2>2. {k \in DOMAIN LargestLead : n - m <= LargestLead[k]} \subseteq 1 .. 20
    BY <1>1
  <2>3. QED
    BY <2>1, <2>2, FS_Subset
<1>3. PointsForVictory(n, m) \in Nat
  BY <1>2, FS_CardinalityType DEF PointsForVictory
<1>4. QED
  BY <1>3 DEF PointsForDraw

\* The rating of every member of a team stays a size_t.
LEMMA LoserType ==
  ASSUME NEW team, IsFiniteSet(team), NEW r, \A a \in team : r[a] \in Nat \ {0},
         NEW a \in team, NEW points \in Int
  PROVE  RatingOfLoser(r, team, a, points) \in 0 .. SizeModulus - 1
<1>1. SumFunctionOnSet(r, team) \in Nat \ {0}
  <2>1. \A x \in team : r[x] \in Nat /\ r[x] > 0
    OBVIOUS
  <2>2. QED
    BY <2>1, SumType
<1>2. r[a] * points \in Int
  OBVIOUS
<1>3. ShareLosingTeam(r, team, a, points) \in Int
  BY <1>1, <1>2, RoundedType DEF ShareLosingTeam
<1>4. r[a] - ShareLosingTeam(r, team, a, points) \in Int
  BY <1>3
<1>5. QED
  BY <1>4, RatingBoundAssumption DEF RatingOfLoser

LEMMA WinnerType ==
  ASSUME NEW team, IsFiniteSet(team), NEW r, \A a \in team : r[a] \in Nat \ {0},
         NEW a \in team, NEW points \in Int
  PROVE  RatingOfWinner(r, team, a, points) \in 0 .. SizeModulus - 1
<1> DEFINE w == [b \in team |-> ProductOfOthers(r, team, b)]
<1>1. \A b \in team : ProductOfOthers(r, team, b) \in Nat \ {0}
  <2> SUFFICES ASSUME NEW b \in team PROVE ProductOfOthers(r, team, b) \in Nat \ {0}
    OBVIOUS
  <2>1. IsFiniteSet(team \ {b})
    BY FS_RemoveElement
  <2>2. QED
    BY <2>1, ProductType DEF ProductOfOthers, Product, Positive
<1>2. SumFunctionOnSet(w, team) \in Nat \ {0}
  <2>1. \A x \in team : w[x] \in Nat /\ w[x] > 0
    BY <1>1
  <2> HIDE DEF w
  <2>2. QED
    BY <2>1, SumType
<1>3. ProductOfOthers(r, team, a) * points \in Int
  <2>1. ProductOfOthers(r, team, a) \in Int
    BY <1>1
  <2>2. QED
    BY <2>1
<1>4. ShareWinningTeam(r, team, a, points) \in Int
  BY <1>2, <1>3, RoundedType DEF ShareWinningTeam
<1>5. r[a] + ShareWinningTeam(r, team, a, points) \in Int
  BY <1>4
<1>6. QED
  BY <1>5, RatingBoundAssumption DEF RatingOfWinner

LEMMA NewRatingsType ==
  ASSUME NEW losers, NEW winners, IsFiniteSet(losers), IsFiniteSet(winners),
         NEW r \in [Account -> 0 .. SizeModulus - 1],
         \A a \in losers \cup winners : r[a] \in Nat \ {0}, NEW points \in Int
  PROVE  NewRatings(r, losers, winners, points) \in [Account -> 0 .. SizeModulus - 1]
<1>1. \A a \in losers : RatingOfLoser(r, losers, a, points) \in 0 .. SizeModulus - 1
  BY LoserType
<1>2. \A a \in winners : RatingOfWinner(r, winners, a, points) \in 0 .. SizeModulus - 1
  BY WinnerType
<1>3. QED
  BY <1>1, <1>2 DEF NewRatings

\* Whatever a game's result, every rating stays a size_t.
LEMMA ResultType ==
  ASSUME NEW losers, NEW winners, IsFiniteSet(losers), IsFiniteSet(winners),
         NEW r \in [Account -> 0 .. SizeModulus - 1],
         \A a \in losers \cup winners : r[a] \in Nat \ {0}, NEW nan \in NaN
  PROVE  LoserAndWinner(r, losers, winners, nan) \in [Account -> 0 .. SizeModulus - 1]
<1>1. AverageOf(r, winners, nan) \in Int /\ AverageOf(r, losers, nan) \in Int
  BY AverageType
<1>2. PointsForVictory(AverageOf(r, winners, nan), AverageOf(r, losers, nan)) \in Int
  BY <1>1, PointsType
<1>3. QED
  BY <1>2, NewRatingsType DEF LoserAndWinner

LEMMA DrawType ==
  ASSUME NEW team, IsFiniteSet(team), NEW r \in [Account -> 0 .. SizeModulus - 1],
         \A a \in team : r[a] \in Nat \ {0}, NEW nan \in NaN
  PROVE  Draw(r, team, nan) \in [Account -> 0 .. SizeModulus - 1]
<1> DEFINE change == [a \in team |-> PointsForDraw(r[a], AverageOf(r, team \ {a}, nan))]
           losers == {a \in team : change[a] < 0}
<1>1. \A a \in team : change[a] \in Int
  <2> SUFFICES ASSUME NEW a \in team PROVE change[a] \in Int
    OBVIOUS
  <2>1. IsFiniteSet(team \ {a})
    BY FS_RemoveElement
  <2>2. AverageOf(r, team \ {a}, nan) \in Int /\ r[a] \in Int
    BY <2>1, AverageType
  <2>3. QED
    BY <2>2, PointsType
<1>2. losers \subseteq team /\ IsFiniteSet(losers) /\ IsFiniteSet(team \ losers)
  BY FS_Subset
<1>3. Draw(r, team, nan)
        = NewRatings(r, losers, team \ losers, -SumFunctionOnSet(change, losers))
  BY DEF Draw
<1> HIDE DEF change, losers
<1>4. SumFunctionOnSet(change, losers) \in Int
  BY <1>1, <1>2, SumType
<1>5. -SumFunctionOnSet(change, losers) \in Int
  BY <1>4
<1>6. losers \cup (team \ losers) = team
  BY <1>2
<1>7. NewRatings(r, losers, team \ losers, -SumFunctionOnSet(change, losers))
        \in [Account -> 0 .. SizeModulus - 1]
  BY <1>2, <1>5, <1>6, NewRatingsType
<1>8. QED
  BY <1>3, <1>7
----------------------------------------------------------------------------
(* Rounded shares *)

LEMMA Cancels ==
  ASSUME NEW a \in Int, NEW b \in Int, NEW d \in Int, d > 0
  PROVE  d * a <= d * b => a <= b
<1> SUFFICES ASSUME a > b PROVE d * a > d * b
  OBVIOUS
<1>1. a - b \in Int /\ a - b > 0
  OBVIOUS
<1>2. d * (a - b) \in Int /\ d * (a - b) > 0
  BY <1>1
<1>3. d * a = d * b + d * (a - b) /\ d * b \in Int
  OBVIOUS
<1>4. QED
  BY <1>2, <1>3

LEMMA Division ==
  ASSUME NEW n \in Int, NEW d \in Int, d > 0
  PROVE  \E q \in Int : \E m \in 0 .. d - 1 :
           q = n \div d /\ m = n % d /\ d * q \in Int /\ n = d * q + m
<1>1. n \div d \in Int /\ n % d \in 0 .. d - 1
  OBVIOUS
<1>2. n % d = n - (n \div d) * d
  OBVIOUS
<1>3. PICK q \in Int, m \in 0 .. d - 1 : q = n \div d /\ m = n % d
  BY <1>1
<1>4. m = n - q * d
  BY <1>2, <1>3
<1>5. n = d * q + m /\ d * q \in Int
  BY <1>4
<1>6. QED
  BY <1>3, <1>5

\* A rounded quotient is within a half of the exact one.
LEMMA RoundedIsNear ==
  ASSUME NEW n \in Int, NEW d \in Int, d > 0
  PROVE  /\ RoundedQuotient(n, d) \in Int /\ d * RoundedQuotient(n, d) \in Int
         /\ 2 * (d * RoundedQuotient(n, d)) - 2 * n \in -d .. d
<1>1. PICK q \in Int, m \in 0 .. d - 1 :
        q = n \div d /\ m = n % d /\ d * q \in Int /\ n = d * q + m
  BY Division
<1>2. RoundedQuotient(n, d) = IF 2 * m > d \/ (2 * m = d /\ q % 2 = 1) THEN q + 1 ELSE q
  BY <1>1 DEF RoundedQuotient
<1>3. d * (q + 1) = d * q + d
  BY <1>1
<1>4. CASE 2 * m > d \/ (2 * m = d /\ q % 2 = 1)
  <2>1. RoundedQuotient(n, d) = q + 1 /\ d * RoundedQuotient(n, d) = d * q + d
    BY <1>2, <1>3, <1>4
  <2>2. 2 * m >= d
    BY <1>1, <1>4
  <2>3. QED
    BY <1>1, <2>1, <2>2
<1>5. CASE ~(2 * m > d \/ (2 * m = d /\ q % 2 = 1))
  <2>1. RoundedQuotient(n, d) = q /\ 2 * m <= d
    BY <1>1, <1>2, <1>5
  <2>2. QED
    BY <1>1, <2>1
<1>6. QED
  BY <1>4, <1>5

\* Rounding keeps the order.
LEMMA RoundedIsMonotone ==
  ASSUME NEW n \in Int, NEW k \in Int, NEW d \in Int, d > 0, n <= k
  PROVE  RoundedQuotient(n, d) <= RoundedQuotient(k, d)
<1>1. PICK q \in Int, m \in 0 .. d - 1 :
        q = n \div d /\ m = n % d /\ d * q \in Int /\ n = d * q + m
  BY Division
<1>2. PICK u \in Int, v \in 0 .. d - 1 :
        u = k \div d /\ v = k % d /\ d * u \in Int /\ k = d * u + v
  BY Division
<1>3. RoundedQuotient(n, d) = IF 2 * m > d \/ (2 * m = d /\ q % 2 = 1) THEN q + 1 ELSE q
  BY <1>1 DEF RoundedQuotient
<1>4. RoundedQuotient(k, d) = IF 2 * v > d \/ (2 * v = d /\ u % 2 = 1) THEN u + 1 ELSE u
  BY <1>2 DEF RoundedQuotient
<1>5. q <= u
  <2> SUFFICES ASSUME u < q PROVE FALSE
    OBVIOUS
  <2>1. d * (q - u) \in Nat /\ q - u >= 1 /\ q - u \in Int
    <3>1. q - u \in Nat /\ d \in Nat
      OBVIOUS
    <3>2. QED
      BY <3>1
  <2>2. d * 1 <= d * (q - u)
    <3>1. q - u - 1 \in Nat /\ d \in Nat
      OBVIOUS
    <3>2. d * (q - u - 1) \in Nat
      BY <3>1
    <3>3. d * (q - u) = d * 1 + d * (q - u - 1)
      OBVIOUS
    <3>4. QED
      BY <3>2, <3>3
  <2>3. d * (q - u) = d * q - d * u
    OBVIOUS
  <2>4. QED
    BY <1>1, <1>2, <2>1, <2>2, <2>3
<1>6. CASE q = u
  <2>1. m <= v
    BY <1>1, <1>2, <1>6
  <2>2. QED
    BY <1>3, <1>4, <1>6, <2>1
<1>7. CASE q < u
  BY <1>3, <1>4, <1>7
<1>8. QED
  BY <1>5, <1>6, <1>7

\* The shares of a team in proportion to weights add up to the points, but for half
\* a point for every member.
LEMMA SharesAddUp ==
  ASSUME NEW T, IsFiniteSet(T), NEW w, \A x \in T : w[x] \in Nat,
         NEW d \in Int, d > 0, SumFunctionOnSet(w, T) = d, NEW p \in Int,
         NEW share, \A x \in T : share[x] = RoundedQuotient(w[x] * p, d)
  PROVE  /\ \A x \in T : share[x] \in Int
         /\ 2 * SumFunctionOnSet(share, T) - 2 * p \in -Cardinality(T) .. Cardinality(T)
<1> DEFINE e == [x \in T |-> (2 * d) * share[x] + (-(2 * p)) * w[x]]
           n == Cardinality(T)
           s == SumFunctionOnSet(share, T)
<1>1. ASSUME NEW x \in T PROVE share[x] \in Int /\ e[x] \in -d .. d
  <2>1. w[x] * p \in Int /\ w[x] \in Int
    OBVIOUS
  <2>2. share[x] \in Int /\ d * share[x] \in Int /\ 2 * (d * share[x]) - 2 * (w[x] * p) \in -d .. d
    BY <2>1, RoundedIsNear
  <2>3. (2 * d) * share[x] = 2 * (d * share[x]) /\ (-(2 * p)) * w[x] = -(2 * (w[x] * p))
    BY <2>1, <2>2
  <2>4. QED
    BY <2>1, <2>2, <2>3
<1>2. 2 * d \in Int /\ -(2 * p) \in Int /\ -d \in Int /\ d \in Int
  OBVIOUS
<1>3. SumFunctionOnSet(e, T) = (2 * d) * s + (-(2 * p)) * d
  <2>1. IsLinear(T, e, 2 * d, share, -(2 * p), w)
    BY <1>1, <1>2 DEF IsLinear
  <2> HIDE DEF e
  <2>2. SumFunctionOnSet(e, T) = (2 * d) * SumFunctionOnSet(share, T)
                                   + (-(2 * p)) * SumFunctionOnSet(w, T)
    BY <2>1, SumIsLinear
  <2>3. QED
    BY <2>2
<1>4. SumFunctionOnSet(e, T) \in n * (-d) .. n * d
  <2> HIDE DEF e
  <2>1. QED
    BY <1>1, <1>2, SumBounds
<1>5. n \in Nat /\ s \in Int
  BY <1>1, FS_CardinalityType, SumType
<1> HIDE DEF n, s, e
<1>6. (2 * d) * s + (-(2 * p)) * d = d * (2 * s - 2 * p)
  BY <1>2, <1>5
<1>7. n * (-d) = d * (-n) /\ n * d = d * n
  BY <1>2, <1>5
<1>8. d * (-n) <= d * (2 * s - 2 * p) /\ d * (2 * s - 2 * p) <= d * n
  <2>1. d * (-n) \in Int /\ d * n \in Int
    BY <1>2, <1>5
  <2>2. QED
    BY <1>3, <1>4, <1>6, <1>7, <2>1
<1>9. -n <= 2 * s - 2 * p /\ 2 * s - 2 * p <= n
  <2>1. -n \in Int /\ n \in Int /\ 2 * s - 2 * p \in Int
    BY <1>5
  <2>2. QED
    BY <1>8, <2>1, Cancels
<1>10. 2 * s - 2 * p \in -n .. n
  BY <1>5, <1>9
<1>11. QED
  BY <1>1, <1>10 DEF n, s

\* A share is none of the points at least, and all of them at most; where there are
\* twice as many weights as points it is no more than half of one's own weight, rounded.
LEMMA ShareBounds ==
  ASSUME NEW v \in Nat, NEW d \in Int, d > 0, v <= d, NEW p \in Nat
  PROVE  /\ RoundedQuotient(v * p, d) \in 0 .. p
         /\ 2 * p <= d => 2 * RoundedQuotient(v * p, d) <= v + 1
<1> DEFINE q == RoundedQuotient(v * p, d)
<1>1. v * p \in Int
  OBVIOUS
<1>2. q \in Int /\ d * q \in Int /\ 2 * (d * q) - 2 * (v * p) \in -d .. d
  BY <1>1, RoundedIsNear
<1> HIDE DEF q
<1>3. 0 <= v * p /\ v * p <= d * p /\ d * p \in Int
  <2>1. d - v \in Nat /\ (d - v) * p \in Nat
    OBVIOUS
  <2>2. d * p = v * p + (d - v) * p
    OBVIOUS
  <2>3. v * p \in Nat
    OBVIOUS
  <2>4. QED
    BY <2>1, <2>2, <2>3
<1>4. q >= 0
  <2>1. d * (2 * q) = 2 * (d * q) /\ d * (-1) = -d
    BY <1>2
  <2>2. d * (-1) <= d * (2 * q)
    BY <1>1, <1>2, <1>3, <2>1
  <2>3. -1 <= 2 * q
    BY <1>2, <2>2, Cancels
  <2>4. QED
    BY <1>2, <2>3
<1>5. q <= p
  <2>1. d * (2 * q) = 2 * (d * q) /\ d * (2 * p + 1) = 2 * (d * p) + d
    BY <1>2
  <2>2. d * (2 * q) <= d * (2 * p + 1)
    BY <1>1, <1>2, <1>3, <2>1
  <2>3. 2 * q <= 2 * p + 1
    BY <1>2, <2>2, Cancels
  <2>4. QED
    BY <1>2, <2>3
<1>6. ASSUME 2 * p <= d PROVE 2 * q <= v + 1
  <2>1. 2 * (v * p) <= d * v
    <3>1. d - 2 * p \in Nat /\ (d - 2 * p) * v \in Nat
      BY <1>6
    <3>2. d * v = 2 * (v * p) + (d - 2 * p) * v
      OBVIOUS
    <3>3. QED
      BY <1>1, <3>1, <3>2
  <2>2. d * (2 * q) = 2 * (d * q) /\ d * (v + 1) = d * v + d /\ d * v \in Int
    BY <1>2
  <2>3. d * (2 * q) <= d * (v + 1)
    BY <1>1, <1>2, <2>1, <2>2
  <2>4. QED
    BY <1>2, <2>3, Cancels
<1>7. QED
  BY <1>2, <1>4, <1>5, <1>6 DEF q
----------------------------------------------------------------------------
(* What the members of a team lose and win *)

OneOf(f, S, a) == f[a] \in Nat /\ f[a] <= SumFunctionOnSet(f, S)

\* No term of a sum of natural numbers is larger than the sum.
LEMMA TermsOfASum ==
  ASSUME NEW S, IsFiniteSet(S), NEW f, \A x \in S : f[x] \in Nat, NEW a \in S
  PROVE  OneOf(f, S, a)
<1>1. SumFunctionOnSet(f, S) = f[a] + SumFunctionOnSet(f, S \ {a})
  BY SumWithout
<1>2. SumFunctionOnSet(f, S \ {a}) \in Nat
  <2>1. IsFiniteSet(S \ {a})
    BY FS_RemoveElement
  <2>2. QED
    BY <2>1, SumType
<1>3. QED
  BY <1>1, <1>2 DEF OneOf

\* The weights of the winners.
InverseWeights(r, team) == [b \in team |-> ProductOfOthers(r, team, b)]

LEMMA WeightsOfWinners ==
  ASSUME NEW team, IsFiniteSet(team), team # {}, NEW r, \A a \in team : r[a] \in Positive
  PROVE  /\ \A b \in team : InverseWeights(r, team)[b] \in Positive
         /\ SumFunctionOnSet(InverseWeights(r, team), team) \in Positive
<1>1. \A b \in team : InverseWeights(r, team)[b] \in Positive
  <2> SUFFICES ASSUME NEW b \in team PROVE ProductOfOthers(r, team, b) \in Positive
    BY DEF InverseWeights
  <2>1. IsFiniteSet(team \ {b})
    BY FS_RemoveElement
  <2>2. QED
    BY <2>1, ProductType DEF ProductOfOthers, Product
<1>2. \A b \in team : InverseWeights(r, team)[b] \in Nat /\ InverseWeights(r, team)[b] > 0
  BY <1>1 DEF Positive
<1>3. QED
  BY <1>1, <1>2, SumType DEF Positive

\* A loser loses a part of the points and keeps a rating; nothing wraps, and nobody
\* is lifted to 1, when the team is rated twice the points of the game.
LEMMA LoserLoses ==
  ASSUME NEW team, IsFiniteSet(team), NEW r,
         \A a \in team : r[a] \in Nat /\ r[a] > 1 /\ r[a] < SizeModulus,
         NEW p \in Nat, 2 * p <= SumFunctionOnSet(r, team), NEW a \in team
  PROVE  /\ ShareLosingTeam(r, team, a, p) \in 0 .. p
         /\ 2 * ShareLosingTeam(r, team, a, p) <= r[a] + 1
         /\ RatingOfLoser(r, team, a, p) = r[a] - ShareLosingTeam(r, team, a, p)
<1> DEFINE d == SumFunctionOnSet(r, team)
           s == ShareLosingTeam(r, team, a, p)
<1>1. r[a] \in Nat /\ r[a] > 1 /\ r[a] < SizeModulus
  OBVIOUS
<1>2. d \in Int /\ r[a] <= d
  BY TermsOfASum, SumType DEF OneOf
<1>3. s = RoundedQuotient(r[a] * p, d)
  BY DEF ShareLosingTeam
<1> HIDE DEF d, s
<1>4. s \in 0 .. p /\ 2 * s <= r[a] + 1
  <2>1. d > 0 /\ 2 * p <= d
    BY <1>1, <1>2 DEF d
  <2>2. QED
    BY <1>1, <1>2, <1>3, <2>1, ShareBounds
<1>5. r[a] - s \in 1 .. SizeModulus - 1 /\ SizeModulus \in Nat
  BY <1>1, <1>4, RatingBoundAssumption
<1>6. (r[a] - s) % SizeModulus = r[a] - s
  BY <1>5
<1>7. RatingOfLoser(r, team, a, p) = r[a] - s
  BY <1>5, <1>6 DEF RatingOfLoser, s
<1>8. QED
  BY <1>4, <1>7 DEF s

\* A winner wins a part of the points.
LEMMA WinnerWins ==
  ASSUME NEW team, IsFiniteSet(team), NEW r, NEW p \in Nat,
         \A a \in team : r[a] \in Positive /\ r[a] + p < SizeModulus, NEW a \in team
  PROVE  /\ ShareWinningTeam(r, team, a, p) \in 0 .. p
         /\ RatingOfWinner(r, team, a, p) = r[a] + ShareWinningTeam(r, team, a, p)
<1> DEFINE w == InverseWeights(r, team)
           d == SumFunctionOnSet(w, team)
           s == ShareWinningTeam(r, team, a, p)
<1>1. (\A b \in team : w[b] \in Positive) /\ d \in Positive
  BY WeightsOfWinners
<1>2. s = RoundedQuotient(w[a] * p, d)
  BY DEF ShareWinningTeam, InverseWeights
<1> HIDE DEF w, s
<1>3. w[a] \in Nat /\ w[a] <= d /\ d \in Int /\ d > 0
  <2>1. \A b \in team : w[b] \in Nat
    BY <1>1 DEF Positive
  <2>2. OneOf(w, team, a)
    BY <2>1, TermsOfASum
  <2>3. QED
    BY <1>1, <2>2 DEF OneOf, Positive
<1> HIDE DEF d
<1>4. s \in 0 .. p
  BY <1>2, <1>3, ShareBounds
<1>5. r[a] + s \in 0 .. SizeModulus - 1 /\ SizeModulus \in Nat
  BY <1>4, RatingBoundAssumption DEF Positive
<1>6. (r[a] + s) % SizeModulus = r[a] + s
  BY <1>5
<1>7. QED
  BY <1>4, <1>6 DEF s, RatingOfWinner

\* What a team loses or wins are the points, up to rounding.
SharesLost(r, team, p) == [a \in team |-> ShareLosingTeam(r, team, a, p)]
SharesWon(r, team, p) == [a \in team |-> ShareWinningTeam(r, team, a, p)]

LEMMA LostPoints ==
  ASSUME NEW team, IsFiniteSet(team), team # {}, NEW r, \A a \in team : r[a] \in Positive,
         NEW p \in Nat
  PROVE  2 * SumFunctionOnSet(SharesLost(r, team, p), team) - 2 * p
           \in -Cardinality(team) .. Cardinality(team)
<1> DEFINE d == SumFunctionOnSet(r, team)
           share == SharesLost(r, team, p)
<1>1. \A a \in team : r[a] \in Nat /\ r[a] > 0
  BY DEF Positive
<1>2. d \in Nat /\ d > 0
  BY <1>1, SumType
<1>3. \A a \in team : share[a] = RoundedQuotient(r[a] * p, d)
  BY DEF SharesLost, ShareLosingTeam
<1> HIDE DEF d, share
<1>4. QED
  BY <1>1, <1>2, <1>3, SharesAddUp DEF d, share

LEMMA WonPoints ==
  ASSUME NEW team, IsFiniteSet(team), team # {}, NEW r, \A a \in team : r[a] \in Positive,
         NEW p \in Nat
  PROVE  2 * SumFunctionOnSet(SharesWon(r, team, p), team) - 2 * p
           \in -Cardinality(team) .. Cardinality(team)
<1> DEFINE w == InverseWeights(r, team)
           d == SumFunctionOnSet(w, team)
           share == SharesWon(r, team, p)
<1>1. (\A b \in team : w[b] \in Positive) /\ d \in Positive
  BY WeightsOfWinners
<1>2. \A a \in team : share[a] = RoundedQuotient(w[a] * p, d)
  BY DEF SharesWon, ShareWinningTeam, InverseWeights
<1>3. (\A b \in team : w[b] \in Nat) /\ d \in Int /\ d > 0
  BY <1>1 DEF Positive
<1> HIDE DEF d, share, w
<1>4. QED
  BY <1>2, <1>3, SharesAddUp DEF d, share
----------------------------------------------------------------------------
(* The result of a game *)

\* A game whose points its losers can pay, with ratings far from the modulus.
Payable(r, losers, winners, points) ==
  /\ IsFiniteSet(losers) /\ IsFiniteSet(winners) /\ losers \cap winners = {}
  /\ losers \cup winners \subseteq DOMAIN r
  /\ points \in Nat
  /\ losers # {} => 2 * points <= SumFunctionOnSet(r, losers)
  /\ \A a \in losers \cup winners :
       r[a] \in Nat /\ r[a] > 1 /\ r[a] + points < SizeModulus

\* Then every member of a team loses or wins exactly a share.
LEMMA ResultOfGame ==
  ASSUME NEW r, NEW losers, NEW winners, NEW points, Payable(r, losers, winners, points),
         NEW new, new = NewRatings(r, losers, winners, points)
  PROVE  /\ \A a \in losers :
              /\ new[a] = r[a] - SharesLost(r, losers, points)[a]
              /\ SharesLost(r, losers, points)[a] \in 0 .. points
              /\ 2 * SharesLost(r, losers, points)[a] <= r[a] + 1
         /\ \A a \in winners :
              /\ new[a] = r[a] + SharesWon(r, winners, points)[a]
              /\ SharesWon(r, winners, points)[a] \in 0 .. points
         /\ \A a \in DOMAIN r : a \notin losers \cup winners => new[a] = r[a]
<1>1. /\ IsFiniteSet(losers) /\ IsFiniteSet(winners) /\ losers \cap winners = {}
      /\ losers \cup winners \subseteq DOMAIN r /\ points \in Nat
      /\ losers # {} => 2 * points <= SumFunctionOnSet(r, losers)
      /\ \A a \in losers \cup winners :
           r[a] \in Nat /\ r[a] > 1 /\ r[a] + points < SizeModulus
  BY DEF Payable
<1>2. ASSUME NEW a \in losers
      PROVE  /\ new[a] = r[a] - SharesLost(r, losers, points)[a]
             /\ SharesLost(r, losers, points)[a] \in 0 .. points
             /\ 2 * SharesLost(r, losers, points)[a] <= r[a] + 1
  <2>1. \A b \in losers : r[b] \in Nat /\ r[b] > 1 /\ r[b] < SizeModulus
    <3> SUFFICES ASSUME NEW b \in losers
                 PROVE  r[b] \in Nat /\ r[b] > 1 /\ r[b] < SizeModulus
      OBVIOUS
    <3>1. r[b] \in Nat /\ r[b] > 1 /\ r[b] + points < SizeModulus /\ points \in Nat
      BY <1>1
    <3>2. QED
      BY <3>1, RatingBoundAssumption
  <2>2. 2 * points <= SumFunctionOnSet(r, losers)
    BY <1>1
  <2>3. /\ ShareLosingTeam(r, losers, a, points) \in 0 .. points
        /\ 2 * ShareLosingTeam(r, losers, a, points) <= r[a] + 1
        /\ RatingOfLoser(r, losers, a, points) = r[a] - ShareLosingTeam(r, losers, a, points)
    BY <1>1, <2>1, <2>2, LoserLoses
  <2>4. new[a] = RatingOfLoser(r, losers, a, points)
    BY <1>1 DEF NewRatings
  <2>5. SharesLost(r, losers, points)[a] = ShareLosingTeam(r, losers, a, points)
    BY DEF SharesLost
  <2>6. QED
    BY <2>3, <2>4, <2>5
<1>3. ASSUME NEW a \in winners
      PROVE  /\ new[a] = r[a] + SharesWon(r, winners, points)[a]
             /\ SharesWon(r, winners, points)[a] \in 0 .. points
  <2>1. \A b \in winners : r[b] \in Positive /\ r[b] + points < SizeModulus
    BY <1>1 DEF Positive
  <2>2. /\ ShareWinningTeam(r, winners, a, points) \in 0 .. points
        /\ RatingOfWinner(r, winners, a, points) = r[a] + ShareWinningTeam(r, winners, a, points)
    BY <1>1, <2>1, WinnerWins
  <2>3. new[a] = RatingOfWinner(r, winners, a, points)
    BY <1>1 DEF NewRatings
  <2>4. SharesWon(r, winners, points)[a] = ShareWinningTeam(r, winners, a, points)
    BY DEF SharesWon
  <2>5. QED
    BY <2>2, <2>3, <2>4
<1>4. \A a \in DOMAIN r : a \notin losers \cup winners => new[a] = r[a]
  BY DEF NewRatings
<1>5. QED
  BY <1>2, <1>3, <1>4

\* What the losers lose is what the winners win, but for half a point for each of them.
LEMMA GameConserves ==
  ASSUME NEW r, NEW losers, NEW winners, NEW points, Payable(r, losers, winners, points),
         winners # {}, losers # {} \/ points = 0,
         NEW new, new = NewRatings(r, losers, winners, points),
         NEW change, \A a \in losers \cup winners : change[a] = new[a] - r[a]
  PROVE  2 * SumFunctionOnSet(change, losers \cup winners)
           \in -Cardinality(losers \cup winners) .. Cardinality(losers \cup winners)
<1> DEFINE lost == SharesLost(r, losers, points)
           won == SharesWon(r, winners, points)
           L == SumFunctionOnSet(lost, losers)
           W == SumFunctionOnSet(won, winners)
           n == Cardinality(losers)
           m == Cardinality(winners)
<1>1. /\ IsFiniteSet(losers) /\ IsFiniteSet(winners) /\ losers \cap winners = {}
      /\ points \in Nat
      /\ \A a \in losers \cup winners : r[a] \in Nat /\ r[a] > 1
  BY DEF Payable
<1>2. /\ \A a \in losers : lost[a] \in Int /\ change[a] = -lost[a]
      /\ \A a \in winners : won[a] \in Int /\ change[a] = won[a]
  <2>1. /\ \A a \in losers : new[a] = r[a] - lost[a] /\ lost[a] \in 0 .. points
        /\ \A a \in winners : new[a] = r[a] + won[a] /\ won[a] \in 0 .. points
    BY ResultOfGame
  <2> HIDE DEF lost, won
  <2>2. ASSUME NEW a \in losers PROVE lost[a] \in Int /\ change[a] = -lost[a]
    BY <1>1, <2>1
  <2>3. ASSUME NEW a \in winners PROVE won[a] \in Int /\ change[a] = won[a]
    BY <1>1, <2>1
  <2>4. QED
    BY <2>2, <2>3
<1>3. SumFunctionOnSet(change, losers) = -L /\ L \in Int
  <2> HIDE DEF lost
  <2>1. IsLinear(losers, change, -1, lost, 0, lost)
    <3>1. \A a \in losers : lost[a] \in Int /\ change[a] = (-1) * lost[a] + 0 * lost[a]
      BY <1>2
    <3>2. QED
      BY <3>1 DEF IsLinear
  <2>2. SumFunctionOnSet(change, losers) = (-1) * L + 0 * L
    BY <1>1, <2>1, SumIsLinear
  <2>3. L \in Int
    BY <1>1, <1>2, SumType
  <2>4. QED
    BY <2>2, <2>3
<1>4. SumFunctionOnSet(change, winners) = W /\ W \in Int
  <2> HIDE DEF won
  <2>1. SumFunctionOnSet(change, winners) = W
    BY <1>1, <1>2, SameSum
  <2>2. W \in Int
    BY <1>1, <1>2, SumType
  <2>3. QED
    BY <2>1, <2>2
<1>5. 2 * L - 2 * points \in -n .. n
  <2>1. CASE losers = {}
    <3>1. L = 0 /\ n = 0
      BY <2>1, SumOfNone, FS_EmptySet
    <3>2. QED
      BY <2>1, <3>1
  <2>2. CASE losers # {}
    <3>1. \A a \in losers : r[a] \in Positive
      BY <1>1 DEF Positive
    <3>2. QED
      BY <1>1, <2>2, <3>1, LostPoints
  <2>3. QED
    BY <2>1, <2>2
<1>6. 2 * W - 2 * points \in -m .. m
  <2>1. \A a \in winners : r[a] \in Positive
    BY <1>1 DEF Positive
  <2>2. QED
    BY <1>1, <2>1, WonPoints
<1>7. n \in Nat /\ m \in Nat /\ Cardinality(losers \cup winners) = n + m
  <2>1. Cardinality(losers \cup winners) = n + m - Cardinality(losers \cap winners)
    BY <1>1, FS_Union
  <2>2. Cardinality(losers \cap winners) = 0
    BY <1>1, FS_EmptySet
  <2>3. n \in Nat /\ m \in Nat
    BY <1>1, FS_CardinalityType
  <2>4. QED
    BY <2>1, <2>2, <2>3
<1>8. SumFunctionOnSet(change, losers \cup winners) = W - L
  <2>1. \A a \in losers \cup winners : change[a] \in Int
    <3> HIDE DEF lost, won
    <3>1. QED
      BY <1>2
  <2>2. SumFunctionOnSet(change, losers \cup winners)
          = SumFunctionOnSet(change, losers) + SumFunctionOnSet(change, winners)
    BY <1>1, <2>1, SumOfUnion
  <2>3. QED
    BY <1>3, <1>4, <2>2
<1> HIDE DEF L, W, n, m
<1>9. QED
  BY <1>1, <1>3, <1>4, <1>5, <1>6, <1>7, <1>8

\* Of two members of a team the one rated higher has the smaller weight as a winner.
LEMMA WeightsFall ==
  ASSUME NEW team, IsFiniteSet(team), NEW r, \A a \in team : r[a] \in Positive,
         NEW a \in team, NEW b \in team, r[a] > r[b]
  PROVE  InverseWeights(r, team)[a] <= InverseWeights(r, team)[b]
<1> DEFINE S == (team \ {a}) \ {b}
           q == Product(r, S)
<1>1. IsFiniteSet(team \ {a}) /\ IsFiniteSet(team \ {b}) /\ IsFiniteSet(S)
  BY FS_RemoveElement
<1>2. q \in Positive /\ r[a] \in Positive /\ r[b] \in Positive
  BY <1>1, ProductType
<1>3. a # b
  BY <1>2 DEF Positive
<1>4. Product(r, team \ {a}) = r[b] * q
  BY <1>1, <1>3, ProductWithout
<1>5. Product(r, team \ {b}) = r[a] * q
  <2>1. Product(r, team \ {b}) = r[a] * Product(r, (team \ {b}) \ {a})
    BY <1>1, <1>3, ProductWithout
  <2>2. (team \ {b}) \ {a} = S
    OBVIOUS
  <2>3. QED
    BY <2>1, <2>2
<1>6. InverseWeights(r, team)[a] = r[b] * q /\ InverseWeights(r, team)[b] = r[a] * q
  BY <1>4, <1>5 DEF InverseWeights, ProductOfOthers, Product
<1> HIDE DEF q
<1>7. r[b] * q <= r[a] * q
  <2>1. q \in Int /\ r[a] \in Int /\ r[b] \in Int /\ q > 0
    BY <1>2 DEF Positive
  <2>2. (r[a] - r[b]) * q \in Nat
    BY <2>1
  <2>3. r[a] * q = r[b] * q + (r[a] - r[b]) * q /\ r[b] * q \in Int
    BY <2>1
  <2>4. QED
    BY <2>2, <2>3
<1>8. QED
  BY <1>6, <1>7

\* So the higher the rating, the more a loser loses, and the less a winner wins.
LEMMA SharesByRating ==
  ASSUME NEW team, IsFiniteSet(team), NEW r, \A a \in team : r[a] \in Positive,
         NEW p \in Nat, NEW a \in team, NEW b \in team, r[a] > r[b]
  PROVE  /\ SharesLost(r, team, p)[b] <= SharesLost(r, team, p)[a]
         /\ SharesWon(r, team, p)[a] <= SharesWon(r, team, p)[b]
<1> DEFINE w == InverseWeights(r, team)
           d == SumFunctionOnSet(r, team)
           e == SumFunctionOnSet(w, team)
<1>1. (\A c \in team : w[c] \in Positive) /\ e \in Positive /\ w[a] <= w[b]
  BY WeightsOfWinners, WeightsFall
<1>2. d \in Nat /\ d > 0
  <2>1. \A c \in team : r[c] \in Nat /\ r[c] > 0
    BY DEF Positive
  <2>2. QED
    BY <2>1, SumType
<1>3. /\ SharesLost(r, team, p)[a] = RoundedQuotient(r[a] * p, d)
      /\ SharesLost(r, team, p)[b] = RoundedQuotient(r[b] * p, d)
      /\ SharesWon(r, team, p)[a] = RoundedQuotient(w[a] * p, e)
      /\ SharesWon(r, team, p)[b] = RoundedQuotient(w[b] * p, e)
  BY DEF SharesLost, ShareLosingTeam, SharesWon, ShareWinningTeam, InverseWeights
<1> HIDE DEF w, d, e
<1>4. /\ r[a] \in Int /\ r[b] \in Int /\ w[a] \in Int /\ w[b] \in Int
      /\ d \in Int /\ d > 0 /\ e \in Int /\ e > 0
  BY <1>1, <1>2 DEF Positive
<1>5. ASSUME NEW x \in Int, NEW y \in Int, x <= y
      PROVE  x * p \in Int /\ y * p \in Int /\ x * p <= y * p
  <2>1. (y - x) * p \in Nat
    BY <1>5
  <2>2. y * p = x * p + (y - x) * p /\ x * p \in Int /\ y * p \in Int
    OBVIOUS
  <2>3. QED
    BY <2>1, <2>2
<1>6. RoundedQuotient(r[b] * p, d) <= RoundedQuotient(r[a] * p, d)
  <2>1. r[b] * p \in Int /\ r[a] * p \in Int /\ r[b] * p <= r[a] * p
    BY <1>4, <1>5
  <2>2. QED
    BY <1>4, <2>1, RoundedIsMonotone
<1>7. RoundedQuotient(w[a] * p, e) <= RoundedQuotient(w[b] * p, e)
  <2>1. w[a] * p \in Int /\ w[b] * p \in Int /\ w[a] * p <= w[b] * p
    BY <1>1, <1>4, <1>5
  <2>2. QED
    BY <1>4, <2>1, RoundedIsMonotone
<1>8. QED
  BY <1>3, <1>6, <1>7

LEMMA GameSharesByRating ==
  ASSUME NEW r, NEW losers, NEW winners, NEW points, Payable(r, losers, winners, points),
         NEW new, new = NewRatings(r, losers, winners, points),
         NEW side \in {losers, winners}, NEW a \in side, NEW b \in side, r[a] > r[b]
  PROVE  new[a] - r[a] <= new[b] - r[b]
<1>1. /\ IsFiniteSet(losers) /\ IsFiniteSet(winners) /\ points \in Nat
      /\ \A c \in losers \cup winners : r[c] \in Nat /\ r[c] > 1
  BY DEF Payable
<1>2. \A c \in side : r[c] \in Positive
  BY <1>1 DEF Positive
<1>3. IsFiniteSet(side)
  BY <1>1
<1>4. /\ SharesLost(r, side, points)[b] <= SharesLost(r, side, points)[a]
      /\ SharesWon(r, side, points)[a] <= SharesWon(r, side, points)[b]
  BY <1>1, <1>2, <1>3, SharesByRating
<1>5. CASE side = losers
  <2>1. \A c \in side : /\ new[c] = r[c] - SharesLost(r, side, points)[c]
                        /\ SharesLost(r, side, points)[c] \in 0 .. points
    BY <1>5, ResultOfGame
  <2>2. QED
    BY <1>1, <1>2, <1>4, <2>1 DEF Positive
<1>6. CASE side = winners
  <2>1. \A c \in side : /\ new[c] = r[c] + SharesWon(r, side, points)[c]
                        /\ SharesWon(r, side, points)[c] \in 0 .. points
    BY <1>6, ResultOfGame
  <2>2. QED
    BY <1>1, <1>2, <1>4, <2>1 DEF Positive
<1>7. QED
  BY <1>5, <1>6
----------------------------------------------------------------------------
(* Victories and draws *)

\* Ratings of a team of at least twice the points of a victory, and below the modulus by
\* what the team may win.
FarFromTheEnds(r, team) ==
  /\ IsFiniteSet(team) /\ team \subseteq DOMAIN r
  /\ \A a \in team : /\ r[a] \in Nat /\ r[a] >= 40
                     /\ r[a] + 20 * Cardinality(team) < SizeModulus

\* A victory is worth at most 20 points, and 10 at least for those who are not rated
\* clearly above the others.
LEMMA PointsAreBounded ==
  ASSUME NEW n \in Int, NEW m \in Int
  PROVE  /\ PointsForVictory(n, m) \in 0 .. 20
         /\ n - m <= 17 => PointsForDraw(n, m) \in 0 .. 10
         /\ PointsForDraw(n, m) \in -10 .. 10
<1> DEFINE S == {k \in DOMAIN LargestLead : n - m <= LargestLead[k]}
<1>1. DOMAIN LargestLead = 1 .. 20
  BY DEF LargestLead
<1>2. \A a \in Int, b \in Int : /\ IsFiniteSet(a .. b)
                                /\ a <= b => Cardinality(a .. b) = b - a + 1
  BY FS_Interval
<1>3. IsFiniteSet(1 .. 20) /\ Cardinality(1 .. 20) = 20
  <2>1. 1 \in Int /\ 20 \in Int /\ 1 <= 20 /\ 20 - 1 + 1 = 20
    OBVIOUS
  <2>2. IsFiniteSet(1 .. 20) /\ Cardinality(1 .. 20) = 20 - 1 + 1
    BY <1>2, <2>1, Zenon
  <2>3. QED
    BY <2>1, <2>2
<1>4. IsFiniteSet(1 .. 10) /\ Cardinality(1 .. 10) = 10
  <2>1. 1 \in Int /\ 10 \in Int /\ 1 <= 10 /\ 10 - 1 + 1 = 10
    OBVIOUS
  <2>2. IsFiniteSet(1 .. 10) /\ Cardinality(1 .. 10) = 10 - 1 + 1
    BY <1>2, <2>1, Zenon
  <2>3. QED
    BY <2>1, <2>2
<1>5. S \subseteq 1 .. 20 /\ IsFiniteSet(S) /\ Cardinality(S) \in Nat /\ Cardinality(S) <= 20
  <2>1. S \in SUBSET (1 .. 20)
    BY <1>1
  <2> HIDE DEF S
  <2>2. IsFiniteSet(S) /\ Cardinality(S) <= Cardinality(1 .. 20)
    BY <1>3, <2>1, FS_Subset
  <2>3. QED
    BY <1>3, <2>1, <2>2, FS_CardinalityType
<1>6. ASSUME n - m <= 17 PROVE Cardinality(S) >= 10
  <2>1. \A k \in 1 .. 10 : LargestLead[k] \in Int /\ LargestLead[k] >= 17
    BY DEF LargestLead
  <2>2. 1 .. 10 \in SUBSET S
    BY <1>1, <1>6, <2>1
  <2> HIDE DEF S
  <2>3. Cardinality(1 .. 10) <= Cardinality(S)
    BY <1>5, <2>2, FS_Subset
  <2>4. QED
    BY <1>4, <2>3
<1>7. PointsForVictory(n, m) = Cardinality(S) /\ PointsForDraw(n, m) = Cardinality(S) - 10
  BY DEF PointsForVictory, PointsForDraw
<1> HIDE DEF S
<1>8. QED
  BY <1>5, <1>6, <1>7

\* An average is not below what everybody has.
LEMMA AverageIsAbove ==
  ASSUME NEW team, IsFiniteSet(team), team # {}, NEW b \in Nat, NEW hi \in Nat,
         NEW r, \A a \in team : r[a] \in b .. hi, NEW nan
  PROVE  AverageOf(r, team, nan) \in Int /\ AverageOf(r, team, nan) >= b
<1> DEFINE c == Cardinality(team)
           n == SumFunctionOnSet(r, team)
           q == RoundedQuotient(n, c)
<1>1. c \in Int /\ c > 0
  BY FS_CardinalityType, FS_EmptySet
<1>2. n \in Int
  BY SumType
<1>3. n \in c * b .. c * hi
  BY SumBounds
<1>4. AverageOf(r, team, nan) = q
  BY DEF AverageOf
<1> HIDE DEF c, n
<1>5. q \in Int /\ c * q \in Int /\ 2 * (c * q) - 2 * n \in -c .. c
  BY <1>1, <1>2, RoundedIsNear
<1> HIDE DEF q
<1>6. c * b \in Int /\ c * b <= n
  <2>1. c * b \in Int /\ c * hi \in Int
    BY <1>1
  <2>2. QED
    BY <1>2, <1>3, <2>1
<1>7. c * (2 * b - 1) <= c * (2 * q)
  <2>1. c * (2 * b - 1) = 2 * (c * b) - c /\ c * (2 * q) = 2 * (c * q)
    BY <1>1, <1>5
  <2>2. QED
    BY <1>1, <1>2, <1>5, <1>6, <2>1
<1>8. 2 * b - 1 <= 2 * q
  <2>1. 2 * b - 1 \in Int /\ 2 * q \in Int
    BY <1>5
  <2>2. QED
    BY <1>1, <1>7, <2>1, Cancels
<1>9. QED
  BY <1>4, <1>5, <1>8

LEMMA VictoryIsPayable ==
  ASSUME NEW r, NEW losers, NEW winners, losers \cap winners = {},
         FarFromTheEnds(r, losers \cup winners), NEW nan \in NaN,
         NEW points, points = PointsForVictory(AverageOf(r, winners, nan),
                                               AverageOf(r, losers, nan))
  PROVE  /\ Payable(r, losers, winners, points)
         /\ points \in 0 .. 20
<1> DEFINE team == losers \cup winners
<1>1. /\ IsFiniteSet(team) /\ team \subseteq DOMAIN r
      /\ \A a \in team : /\ r[a] \in Nat /\ r[a] >= 40
                         /\ r[a] + 20 * Cardinality(team) < SizeModulus
  BY DEF FarFromTheEnds
<1>2. IsFiniteSet(losers) /\ IsFiniteSet(winners)
  BY <1>1, FS_Subset
<1>3. points \in 0 .. 20
  <2>1. AverageOf(r, winners, nan) \in Int /\ AverageOf(r, losers, nan) \in Int
    BY <1>1, <1>2, AverageType
  <2>2. QED
    BY <2>1, PointsAreBounded
<1>4. losers # {} => 2 * points <= SumFunctionOnSet(r, losers)
  <2> SUFFICES ASSUME NEW a \in losers PROVE 2 * points <= SumFunctionOnSet(r, losers)
    OBVIOUS
  <2>1. r[a] \in Nat /\ r[a] >= 40 /\ \A x \in losers : r[x] \in Nat
    BY <1>1
  <2>2. r[a] <= SumFunctionOnSet(r, losers) /\ SumFunctionOnSet(r, losers) \in Nat
    BY <1>2, <2>1, TermsOfASum, SumType DEF OneOf
  <2>3. QED
    BY <1>3, <2>1, <2>2
<1>5. ASSUME NEW a \in team
      PROVE  r[a] \in Nat /\ r[a] > 1 /\ r[a] + points < SizeModulus
  <2>1. Cardinality(team) \in Nat /\ Cardinality(team) # 0
    BY <1>1, FS_CardinalityType, FS_EmptySet
  <2>2. r[a] \in Nat /\ r[a] >= 40 /\ r[a] + 20 * Cardinality(team) < SizeModulus
    BY <1>1
  <2> HIDE DEF team
  <2>3. QED
    BY <1>3, <2>1, <2>2, RatingBoundAssumption
<1>6. points \in Nat
  BY <1>3
<1>7. QED
  BY <1>1, <1>2, <1>3, <1>4, <1>5, <1>6 DEF Payable

\* In a draw somebody is not rated above the others, and what those who are have to pay
\* is no more than ten points for each of them.
Changes(r, team, nan) ==
  [a \in team |-> PointsForDraw(r[a], AverageOf(r, team \ {a}, nan))]
Payers(r, team, nan) == {a \in team : Changes(r, team, nan)[a] < 0}
Price(r, team, nan) == -SumFunctionOnSet(Changes(r, team, nan), Payers(r, team, nan))

LEMMA DrawIsPayable ==
  ASSUME NEW r, NEW team, FarFromTheEnds(r, team), NEW nan \in NaN
  PROVE  LET losers == Payers(r, team, nan)
             points == Price(r, team, nan)
         IN  /\ Payable(r, losers, team \ losers, points)
             /\ points <= 20 * Cardinality(team)
             /\ losers = {} => points = 0
             /\ Cardinality(team) > 1 => team \ losers # {}
             /\ Draw(r, team, nan) = NewRatings(r, losers, team \ losers, points)
<1> DEFINE losers == Payers(r, team, nan)
           points == Price(r, team, nan)
           change == Changes(r, team, nan)
           n == Cardinality(losers)
<1>1. /\ IsFiniteSet(team) /\ team \subseteq DOMAIN r
      /\ \A a \in team : /\ r[a] \in Nat /\ r[a] >= 40
                         /\ r[a] + 20 * Cardinality(team) < SizeModulus
      /\ Cardinality(team) \in Nat
  BY FS_CardinalityType DEF FarFromTheEnds
<1>2. losers \subseteq team /\ IsFiniteSet(losers) /\ IsFiniteSet(team \ losers)
      /\ n \in Nat /\ n <= Cardinality(team)
  <2>1. losers \in SUBSET team /\ team \ losers \in SUBSET team
    BY DEF Payers
  <2> HIDE DEF losers
  <2>2. QED
    BY <1>1, <2>1, FS_Subset, FS_CardinalityType
<1>3. ASSUME NEW a \in team PROVE change[a] \in -10 .. 10
  <2>1. IsFiniteSet(team \ {a}) /\ \A b \in team \ {a} : r[b] \in Nat
    BY <1>1, FS_RemoveElement
  <2>2. AverageOf(r, team \ {a}, nan) \in Int /\ r[a] \in Int
    BY <1>1, <2>1, AverageType
  <2>3. QED
    BY <2>2, PointsAreBounded DEF Changes
<1>4. ASSUME NEW a \in losers PROVE change[a] \in -10 .. 0
  BY <1>2, <1>3 DEF Payers
<1> HIDE DEF change, losers
<1>5. points \in Nat /\ points <= 10 * n
  <2>1. -10 \in Int /\ 0 \in Int
    OBVIOUS
  <2>2. SumFunctionOnSet(change, losers) \in n * (-10) .. n * 0
    BY <1>2, <1>4, <2>1, SumBounds
  <2>3. points = -SumFunctionOnSet(change, losers)
    BY DEF Price, change, losers
  <2> HIDE DEF n, points
  <2>4. QED
    BY <1>2, <2>2, <2>3
<1>6. losers # {} => 2 * points <= SumFunctionOnSet(r, losers)
  <2>1. \A a \in losers : r[a] \in 40 .. SizeModulus
    <3> SUFFICES ASSUME NEW a \in losers PROVE r[a] \in 40 .. SizeModulus
      OBVIOUS
    <3>1. /\ r[a] \in Nat /\ r[a] >= 40 /\ r[a] + 20 * Cardinality(team) < SizeModulus
          /\ Cardinality(team) \in Nat /\ SizeModulus \in Nat
      BY <1>1, <1>2, RatingBoundAssumption
    <3>2. QED
      BY <3>1
  <2>2. 40 \in Int /\ SizeModulus \in Int
    BY RatingBoundAssumption
  <2>3. SumFunctionOnSet(r, losers) \in n * 40 .. n * SizeModulus
    BY <1>2, <2>1, <2>2, SumBounds
  <2>4. n * SizeModulus \in Int
    BY <1>2, <2>2
  <2> HIDE DEF n, points
  <2>5. QED
    BY <1>2, <1>5, <2>3, <2>4
<1>7. ASSUME NEW a \in team
      PROVE  r[a] \in Nat /\ r[a] > 1 /\ r[a] + points < SizeModulus
  <2>1. r[a] \in Nat /\ r[a] >= 40 /\ r[a] + 20 * Cardinality(team) < SizeModulus
    BY <1>1
  <2> HIDE DEF n, points
  <2>2. QED
    BY <1>1, <1>2, <1>5, <2>1, RatingBoundAssumption
<1>8. losers = {} => points = 0
  <2>1. losers = {} => n = 0
    BY FS_EmptySet
  <2> HIDE DEF n, points
  <2>2. QED
    BY <1>2, <1>5, <2>1
<1>9. ASSUME Cardinality(team) > 1 PROVE team \ losers # {}
  <2> DEFINE values == {r[a] : a \in team}
  <2>1. values \subseteq Nat /\ values # {}
    BY <1>1, <1>9, FS_EmptySet
  <2>2. PICK v \in values : \A u \in values : v <= u
    <3> HIDE DEF values
    <3>1. QED
      BY <2>1, SmallestNat
  <2>3. PICK a \in team : r[a] = v
    BY <2>2
  <2>4. IsFiniteSet(team \ {a}) /\ team \ {a} # {}
    <3>1. Cardinality(team \ {a}) = Cardinality(team) - 1 /\ IsFiniteSet(team \ {a})
      BY <1>1, FS_RemoveElement
    <3>2. Cardinality(team \ {a}) # 0
      BY <1>1, <1>9, <3>1
    <3>3. QED
      BY <3>1, <3>2, FS_EmptySet
  <2>5. \A b \in team \ {a} : r[b] \in r[a] .. SizeModulus
    <3> SUFFICES ASSUME NEW b \in team \ {a} PROVE r[b] \in r[a] .. SizeModulus
      OBVIOUS
    <3>1. r[a] <= r[b] /\ r[a] \in Nat
      BY <1>1, <2>2, <2>3
    <3>2. r[b] \in Nat /\ r[b] + 20 * Cardinality(team) < SizeModulus
      BY <1>1
    <3>3. QED
      BY <1>1, <3>1, <3>2, RatingBoundAssumption
  <2>6. r[a] \in Nat /\ SizeModulus \in Nat
    BY <1>1, RatingBoundAssumption
  <2>7. AverageOf(r, team \ {a}, nan) \in Int /\ AverageOf(r, team \ {a}, nan) >= r[a]
    BY <2>4, <2>5, <2>6, AverageIsAbove
  <2>8. PointsForDraw(r[a], AverageOf(r, team \ {a}, nan)) \in 0 .. 10
    BY <2>6, <2>7, PointsAreBounded
  <2>9. a \notin losers
    BY <2>8 DEF losers, Payers, Changes
  <2>10. QED
    BY <2>9
<1>10. Draw(r, team, nan) = NewRatings(r, losers, team \ losers, points)
  BY DEF Draw, losers, points, Payers, Price, Changes
<1>11. losers \cap (team \ losers) = {} /\ losers \cup (team \ losers) = team
  BY <1>2
<1>12. Payable(r, losers, team \ losers, points)
  <2> HIDE DEF points
  <2>1. QED
    BY <1>1, <1>2, <1>5, <1>6, <1>7, <1>11 DEF Payable
<1>13. points <= 20 * Cardinality(team)
  <2> HIDE DEF n, points
  <2>1. QED
    BY <1>1, <1>2, <1>5
<1>14. QED
  BY <1>8, <1>9, <1>10, <1>12, <1>13 DEF losers
=============================================================================
