----------------------------- MODULE SumTheorems -----------------------------
(***************************************************************************)
(* Facts the other proof modules keep needing.  About the sum of a         *)
(* function over a finite set (Sums): the value of the empty sum, an       *)
(* element put in, taken out or changed, and the sum of naturals as a      *)
(* bound of its terms.  They come from the definition of the fold by       *)
(* induction over the number of elements; the induction is on sets of      *)
(* numbers and not on predicates, which the provers can follow.  And about *)
(* products and quotients of integers, which the provers need one at a     *)
(* time: the rounding arguments are chains of these.                       *)
(***************************************************************************)
EXTENDS Sums, FiniteSetTheorems, TLAPS

-----------------------------------------------------------------------------
(* Induction over naturals and over finite sets, on sets instead of          *)
(* predicates: a set of naturals that holds 0 and the successor of each of   *)
(* its elements holds them all.                                              *)

\* A set with zero and every successor holds all naturals. The library's induction
\* takes a predicate; this form takes a set, which every backend can instantiate.
LEMMA NatClosed ==
  ASSUME NEW N, 0 \in N, \A n \in Nat : n \in N => n + 1 \in N
  PROVE  Nat \subseteq N
<1> SUFFICES ASSUME Nat \ N # {} PROVE FALSE
  OBVIOUS
<1>1. PICK m \in Nat \ N : \A k \in Nat \ N : ~(<<k, m>> \in OpToRel(<, Nat))
  <2> DEFINE T == Nat \ N
  <2>1. T \subseteq Nat /\ T # {}
    OBVIOUS
  <2> HIDE DEF T
  <2>2. \E m \in T : \A k \in T : ~(<<k, m>> \in OpToRel(<, Nat))
    BY <2>1, WFMin, NatLessThanWellFounded
  <2> QED BY <2>2 DEF T
<1>2. \A k \in Nat \ N : ~(k < m)
  BY <1>1 DEF OpToRel
<1>3. m # 0 /\ m - 1 \in Nat /\ m - 1 < m
  OBVIOUS
<1>4. m - 1 \in N
  BY <1>2, <1>3
<1>5. (m - 1) + 1 \in N
  BY <1>3, <1>4
<1> QED BY <1>5

-----------------------------------------------------------------------------
(* The fold behind SumOver. *)

pick(s) == CHOOSE x \in s : TRUE

\* What the fold computes at a set, from what g says of the smaller ones.
Unfold(w, g, s) == IF s = {} THEN 0 ELSE w[pick(s)] + g[s \ {pick(s)}]

Solves(w, g, S) == \A s \in SUBSET S : g[s] = Unfold(w, g, s)

\* What is picked from a set is one of its elements.
LEMMA PickIn ==
  ASSUME NEW s, s # {}
  PROVE  pick(s) \in s
BY DEF pick

\* The recursion has a solution: the sets of at most n elements have one, for
\* every n.
LEMMA FoldExists ==
  ASSUME NEW w, NEW S, IsFiniteSet(S)
  PROVE  \E g : g = [s \in SUBSET S |-> Unfold(w, g, s)]
<1> DEFINE Upto(g, n) ==
             \A s \in SUBSET S : Cardinality(s) <= n => g[s] = Unfold(w, g, s)
           N == {n \in Nat : \E g : g = [s \in SUBSET S |-> g[s]] /\ Upto(g, n)}
<1>1. \A s \in SUBSET S : IsFiniteSet(s) /\ Cardinality(s) \in Nat
        /\ Cardinality(s) <= Cardinality(S)
  BY FS_Subset, FS_CardinalityType
<1>2. \A s \in SUBSET S : s # {} =>
        /\ s \ {pick(s)} \in SUBSET S
        /\ Cardinality(s \ {pick(s)}) = Cardinality(s) - 1
  <2> SUFFICES ASSUME NEW s \in SUBSET S, s # {}
               PROVE  /\ s \ {pick(s)} \in SUBSET S
                      /\ Cardinality(s \ {pick(s)}) = Cardinality(s) - 1
    OBVIOUS
  <2>1. pick(s) \in s
    BY PickIn
  <2> QED BY <1>1, <2>1, FS_RemoveElement
<1>3. 0 \in N
  <2> DEFINE g == [s \in SUBSET S |-> 0]
  <2>1. ASSUME NEW s \in SUBSET S, Cardinality(s) <= 0 PROVE g[s] = Unfold(w, g, s)
    <3>1. s = {}
      BY <1>1, <2>1, FS_EmptySet
    <3> QED BY <3>1 DEF Unfold
  <2>2. g = [s \in SUBSET S |-> g[s]]
    OBVIOUS
  <2> HIDE DEF g
  <2> QED BY <2>1, <2>2
<1>4. ASSUME NEW n \in Nat, n \in N PROVE n + 1 \in N
  <2>1. PICK g : Upto(g, n)
    BY <1>4
  <2> DEFINE h == [s \in SUBSET S |-> Unfold(w, g, s)]
  <2>2. ASSUME NEW s \in SUBSET S, Cardinality(s) <= n + 1
        PROVE  h[s] = Unfold(w, h, s)
    <3>1. CASE s = {}
      BY <3>1 DEF Unfold
    <3>2. CASE s # {}
      <4> DEFINE r == s \ {pick(s)}
      <4>1. r \in SUBSET S /\ Cardinality(r) <= n
        BY <1>1, <1>2, <2>2, <3>2
      <4>2. g[r] = Unfold(w, g, r)
        BY <2>1, <4>1
      <4>3. h[r] = Unfold(w, g, r)
        BY <4>1
      <4>4. h[s] = Unfold(w, g, s)
        OBVIOUS
      <4> HIDE DEF h
      <4> QED BY <3>2, <4>2, <4>3, <4>4 DEF Unfold
    <3> QED BY <3>1, <3>2
  <2>3. h = [s \in SUBSET S |-> h[s]]
    OBVIOUS
  <2> HIDE DEF h
  <2>4. Upto(h, n + 1)
    BY <2>2
  <2> HIDE DEF Upto
  <2>5. \E f : f = [s \in SUBSET S |-> f[s]] /\ Upto(f, n + 1)
    BY <2>3, <2>4
  <2> QED BY <2>5
<1>5. Cardinality(S) \in N
  <2> HIDE DEF N
  <2>1. Cardinality(S) \in Nat
    BY FS_CardinalityType
  <2> QED BY <1>3, <1>4, <2>1, NatClosed
<1>6. PICK g : g = [s \in SUBSET S |-> g[s]] /\ Upto(g, Cardinality(S))
  BY <1>5
<1>7. \A s \in SUBSET S : g[s] = Unfold(w, g, s)
  BY <1>1, <1>6
<1>8. [s \in SUBSET S |-> g[s]] = [s \in SUBSET S |-> Unfold(w, g, s)]
  BY <1>7
<1>9. g = [s \in SUBSET S |-> Unfold(w, g, s)]
  BY <1>6, <1>8
<1> QED BY <1>9

\* SumOver is a solution's value: of some function that obeys the recursion.
LEMMA SumUnfolds ==
  ASSUME NEW w, NEW S, IsFiniteSet(S)
  PROVE  \E g : /\ Solves(w, g, S)
                /\ SumOver(w, S) = g[S]
<1> DEFINE iter == CHOOSE g : g = [s \in SUBSET S |-> Unfold(w, g, s)]
<1>1. SumOver(w, S) = iter[S]
  BY DEF SumOver, MapThenSumSet, MapThenFoldSet, Unfold, pick
<1>2. iter = [s \in SUBSET S |-> Unfold(w, iter, s)]
  BY FoldExists
<1> HIDE DEF iter
<1>3. \A s \in SUBSET S : iter[s] = Unfold(w, iter, s)
  BY <1>2
<1> QED BY <1>1, <1>3 DEF Solves

-----------------------------------------------------------------------------
(* What a solution satisfies: it is an integer, it may be unfolded at any    *)
(* element, and solutions for functions that agree on a set agree there.     *)

\* A solution of the recursion is a sum: zero for nothing, and any element can be
\* taken out first.
LEMMA SolutionAt ==
  ASSUME NEW S, IsFiniteSet(S), NEW w, \A x \in S : w[x] \in Int,
         NEW g, Solves(w, g, S)
  PROVE  /\ g[{}] = 0
         /\ \A s \in SUBSET S :
              g[s] \in Int /\ \A x \in s : g[s] = w[x] + g[s \ {x}]
<1> DEFINE Fine(s) == g[s] \in Int /\ \A x \in s : g[s] = w[x] + g[s \ {x}]
           N == {n \in Nat : \A s \in SUBSET S : Cardinality(s) <= n => Fine(s)}
<1>1. \A s \in SUBSET S : /\ IsFiniteSet(s) /\ Cardinality(s) \in Nat
                         /\ \A x \in s : Cardinality(s \ {x}) = Cardinality(s) - 1
  BY FS_Subset, FS_CardinalityType, FS_RemoveElement
<1>2. g[{}] = 0
  BY DEF Unfold, Solves
<1>3. 0 \in N
  <2>1. ASSUME NEW s \in SUBSET S, Cardinality(s) <= 0 PROVE s = {}
    BY <1>1, <2>1, FS_EmptySet
  <2>2. Fine({})
    BY <1>2
  <2> HIDE DEF Fine
  <2> QED BY <2>1, <2>2
<1>4. ASSUME NEW n \in Nat, n \in N PROVE n + 1 \in N
  <2>1. SUFFICES ASSUME NEW s \in SUBSET S, Cardinality(s) <= n + 1 PROVE Fine(s)
    OBVIOUS
  <2>2. CASE s = {}
    BY <1>2, <2>2
  <2>3. CASE s # {}
    <3> DEFINE y == pick(s)
    <3>1. y \in s /\ g[s] = w[y] + g[s \ {y}]
      BY <2>3, PickIn DEF Unfold, Solves
    <3> HIDE DEF y
    <3>2. \A x \in s : Cardinality(s \ {x}) <= n
      BY <1>1, <2>1
    <3>3. \A x \in s : Fine(s \ {x})
      BY <1>4, <3>2
    <3>4. g[s] \in Int
      <4>1. w[y] \in Int /\ g[s \ {y}] \in Int
        BY <3>1, <3>3
      <4> QED BY <3>1, <4>1
    <3>5. ASSUME NEW x \in s, x # y PROVE g[s] = w[x] + g[s \ {x}]
      <4> DEFINE r == (s \ {y}) \ {x}
      <4>1. r = (s \ {x}) \ {y} /\ r \in SUBSET S
        OBVIOUS
      <4>2. x \in s \ {y} /\ y \in s \ {x}
        BY <3>1, <3>5
      <4>3. g[s \ {y}] = w[x] + g[r]
        BY <3>1, <3>3, <4>2
      <4>4. g[s \ {x}] = w[y] + g[r]
        BY <3>3, <4>1, <4>2
      <4>5. g[r] \in Int
        <5>1. Cardinality(r) <= n
          <6>1. s \ {y} \in SUBSET S /\ Cardinality(s \ {y}) <= n
            BY <3>1, <3>2
          <6>2. Cardinality(r) = Cardinality(s \ {y}) - 1 /\ Cardinality(s \ {y}) \in Nat
            BY <1>1, <4>2, <6>1
          <6> HIDE DEF r
          <6> QED BY <6>1, <6>2
        <5> HIDE DEF r
        <5> QED BY <1>4, <4>1, <5>1
      <4>6. w[x] \in Int /\ w[y] \in Int
        BY <3>1
      <4> HIDE DEF r
      <4> QED BY <3>1, <4>3, <4>4, <4>5, <4>6
    <3> QED BY <3>1, <3>4, <3>5
  <2> QED BY <2>2, <2>3
<1>5. Cardinality(S) \in N
  <2> HIDE DEF N
  <2>1. Cardinality(S) \in Nat
    BY FS_CardinalityType
  <2> QED BY <1>3, <1>4, <2>1, NatClosed
<1>6. \A s \in SUBSET S : Cardinality(s) <= Cardinality(S)
  BY FS_Subset
<1> QED BY <1>2, <1>5, <1>6

\* Two solutions for weights that agree on a set agree on its sum.
LEMMA SolutionsAgree ==
  ASSUME NEW S, IsFiniteSet(S), NEW w, NEW v, \A x \in S : w[x] = v[x],
         NEW g, Solves(w, g, S),
         NEW h, Solves(v, h, S)
  PROVE  g[S] = h[S]
<1> DEFINE N == {n \in Nat : \A s \in SUBSET S : Cardinality(s) <= n => g[s] = h[s]}
<1>1. \A s \in SUBSET S : /\ IsFiniteSet(s) /\ Cardinality(s) \in Nat
                         /\ \A x \in s : Cardinality(s \ {x}) = Cardinality(s) - 1
  BY FS_Subset, FS_CardinalityType, FS_RemoveElement
<1>2. g[{}] = h[{}]
  BY DEF Unfold, Solves
<1>3. 0 \in N
  <2>1. ASSUME NEW s \in SUBSET S, Cardinality(s) <= 0 PROVE s = {}
    BY <1>1, <2>1, FS_EmptySet
  <2> QED BY <1>2, <2>1
<1>4. ASSUME NEW n \in Nat, n \in N PROVE n + 1 \in N
  <2>1. SUFFICES ASSUME NEW s \in SUBSET S, Cardinality(s) <= n + 1 PROVE g[s] = h[s]
    OBVIOUS
  <2>2. CASE s = {}
    BY <1>2, <2>2
  <2>3. CASE s # {}
    <3> DEFINE y == pick(s)
    <3>1. y \in s /\ g[s] = w[y] + g[s \ {y}] /\ h[s] = v[y] + h[s \ {y}]
      BY <2>3, PickIn DEF Unfold, Solves
    <3> HIDE DEF y
    <3>2. Cardinality(s \ {y}) <= n
      BY <1>1, <2>1, <3>1
    <3> QED BY <1>4, <3>1, <3>2
  <2> QED BY <2>2, <2>3
<1>5. Cardinality(S) \in N
  <2> HIDE DEF N
  <2>1. Cardinality(S) \in Nat
    BY FS_CardinalityType
  <2> QED BY <1>3, <1>4, <2>1, NatClosed
<1> QED BY <1>5

-----------------------------------------------------------------------------
(* Facts about sums. *)

\* Sums depend on the values at the elements alone.
LEMMA SumSame ==
  ASSUME NEW S, IsFiniteSet(S), NEW w, NEW v, \A x \in S : w[x] = v[x]
  PROVE  SumOver(w, S) = SumOver(v, S)
<1>1. PICK g : Solves(w, g, S) /\ SumOver(w, S) = g[S]
  BY SumUnfolds
<1>2. PICK h : Solves(v, h, S) /\ SumOver(v, S) = h[S]
  BY SumUnfolds
<1>3. g[S] = h[S]
  BY <1>1, <1>2, SolutionsAgree
<1> QED BY <1>1, <1>2, <1>3

\* The empty sum.
LEMMA SumEmpty ==
  ASSUME NEW w
  PROVE  SumOver(w, {}) = 0
<1>1. IsFiniteSet({})
  BY FS_EmptySet
<1>2. PICK g : Solves(w, g, {}) /\ SumOver(w, {}) = g[{}]
  BY <1>1, SumUnfolds
<1> QED BY <1>2 DEF Unfold, Solves

\* An element taken out.
LEMMA SumRemove ==
  ASSUME NEW S, IsFiniteSet(S), NEW w, \A x \in S : w[x] \in Int, NEW x \in S
  PROVE  /\ SumOver(w, S) \in Int /\ SumOver(w, S \ {x}) \in Int
         /\ SumOver(w, S) = w[x] + SumOver(w, S \ {x})
<1> DEFINE R == S \ {x}
<1>1. IsFiniteSet(R) /\ R \in SUBSET S
  BY FS_RemoveElement
<1>2. PICK g : Solves(w, g, S) /\ SumOver(w, S) = g[S]
  BY SumUnfolds
<1>3. PICK h : Solves(w, h, R) /\ SumOver(w, R) = h[R]
  BY <1>1, SumUnfolds
<1>4. Solves(w, g, R)
  BY <1>1, <1>2 DEF Solves
<1>5. g[R] = h[R]
  <2> HIDE DEF R
  <2> QED BY <1>1, <1>3, <1>4, SolutionsAgree
<1>6. \A s \in SUBSET S : g[s] \in Int /\ \A y \in s : g[s] = w[y] + g[s \ {y}]
  BY <1>2, SolutionAt
<1>7. g[S] \in Int /\ g[S] = w[x] + g[S \ {x}] /\ g[R] \in Int
  BY <1>1, <1>6
<1> QED BY <1>2, <1>3, <1>5, <1>7

\* Sums of integers are integers, whether or not there are any.
LEMMA SumInt ==
  ASSUME NEW S, IsFiniteSet(S), NEW w, \A x \in S : w[x] \in Int
  PROVE  SumOver(w, S) \in Int
<1>1. CASE S = {}
  BY <1>1, SumEmpty
<1>2. CASE S # {}
  BY <1>2, SumRemove
<1> QED BY <1>1, <1>2

\* An element put in.
LEMMA SumAdd ==
  ASSUME NEW S, IsFiniteSet(S), NEW x, x \notin S,
         NEW w, \A y \in S \cup {x} : w[y] \in Int
  PROVE  SumOver(w, S \cup {x}) = SumOver(w, S) + w[x]
<1>1. IsFiniteSet(S \cup {x}) /\ (S \cup {x}) \ {x} = S
  BY FS_AddElement
<1>2. SumOver(w, S \cup {x}) = w[x] + SumOver(w, (S \cup {x}) \ {x})
  <2> DEFINE T == S \cup {x}
  <2>1. x \in T /\ IsFiniteSet(T) /\ \A y \in T : w[y] \in Int
    BY <1>1
  <2> HIDE DEF T
  <2>2. SumOver(w, T) = w[x] + SumOver(w, T \ {x})
    BY <2>1, SumRemove
  <2> QED BY <2>2 DEF T
<1>3. SumOver(w, S) \in Int
  BY SumInt
<1>4. w[x] \in Int /\ SumOver(w, S \cup {x}) = w[x] + SumOver(w, S)
  BY <1>1, <1>2
<1> QED BY <1>3, <1>4

\* One term changed.
LEMMA SumChange ==
  ASSUME NEW S, IsFiniteSet(S), NEW x \in S, NEW w, NEW v,
         \A y \in S : w[y] \in Int /\ v[y] \in Int,
         \A y \in S : y # x => v[y] = w[y]
  PROVE  SumOver(v, S) = SumOver(w, S) - w[x] + v[x]
<1> DEFINE R == S \ {x}
<1>1. IsFiniteSet(R)
  BY FS_RemoveElement
<1>2. SumOver(v, R) = SumOver(w, R)
  BY <1>1, SumSame
<1>3. /\ SumOver(w, S) = w[x] + SumOver(w, R) /\ SumOver(v, S) = v[x] + SumOver(v, R)
      /\ SumOver(w, R) \in Int
  BY SumRemove
<1> HIDE DEF R
<1> QED BY <1>2, <1>3

\* A sum of naturals is one, and covers each of its terms.
LEMMA SumNat ==
  ASSUME NEW S, IsFiniteSet(S), NEW w, \A x \in S : w[x] \in Nat
  PROVE  SumOver(w, S) \in Nat /\ \A x \in S : w[x] <= SumOver(w, S)
<1> DEFINE N == {n \in Nat : \A s \in SUBSET S :
                    Cardinality(s) <= n => SumOver(w, s) \in Nat}
<1>1. \A s \in SUBSET S : /\ IsFiniteSet(s) /\ Cardinality(s) \in Nat
                         /\ \A x \in s : Cardinality(s \ {x}) = Cardinality(s) - 1
  BY FS_Subset, FS_CardinalityType, FS_RemoveElement
<1>2. 0 \in N
  <2>1. ASSUME NEW s \in SUBSET S, Cardinality(s) <= 0 PROVE s = {}
    BY <1>1, <2>1, FS_EmptySet
  <2> QED BY <2>1, SumEmpty
<1>3. ASSUME NEW n \in Nat, n \in N PROVE n + 1 \in N
  <2>1. SUFFICES ASSUME NEW s \in SUBSET S, Cardinality(s) <= n + 1
                 PROVE  SumOver(w, s) \in Nat
    OBVIOUS
  <2>2. CASE s = {}
    BY <2>2, SumEmpty
  <2>3. CASE s # {}
    <3>1. PICK y \in s : TRUE
      BY <2>3
    <3>2. Cardinality(s \ {y}) <= n /\ s \ {y} \in SUBSET S
      BY <1>1, <2>1
    <3>3. SumOver(w, s \ {y}) \in Nat
      BY <1>3, <3>2
    <3>4. w[y] \in Nat /\ IsFiniteSet(s) /\ \A x \in s : w[x] \in Int
      BY <1>1
    <3>5. SumOver(w, s) = w[y] + SumOver(w, s \ {y})
      BY <3>4, SumRemove
    <3> QED BY <3>3, <3>4, <3>5
  <2> QED BY <2>2, <2>3
<1>4. Cardinality(S) \in N
  <2> HIDE DEF N
  <2>1. Cardinality(S) \in Nat
    BY FS_CardinalityType
  <2> QED BY <1>2, <1>3, <2>1, NatClosed
<1>5. \A s \in SUBSET S : SumOver(w, s) \in Nat
  <2>1. \A s \in SUBSET S : Cardinality(s) <= Cardinality(S)
    BY FS_Subset
  <2> QED BY <1>4, <2>1
<1>6. ASSUME NEW x \in S PROVE w[x] <= SumOver(w, S)
  <2>1. SumOver(w, S) = w[x] + SumOver(w, S \ {x}) /\ SumOver(w, S \ {x}) \in Nat
    BY <1>5, SumRemove
  <2> QED BY <2>1
<1> QED BY <1>5, <1>6

\* Nothing to add up.
LEMMA SumZero ==
  ASSUME NEW S, IsFiniteSet(S), NEW w, \A x \in S : w[x] = 0
  PROVE  SumOver(w, S) = 0
<1> DEFINE N == {n \in Nat : \A s \in SUBSET S : Cardinality(s) <= n => SumOver(w, s) = 0}
<1>1. \A s \in SUBSET S : /\ IsFiniteSet(s) /\ Cardinality(s) \in Nat
                         /\ \A x \in s : Cardinality(s \ {x}) = Cardinality(s) - 1
  BY FS_Subset, FS_CardinalityType, FS_RemoveElement
<1>2. 0 \in N
  <2>1. ASSUME NEW s \in SUBSET S, Cardinality(s) <= 0 PROVE s = {}
    BY <1>1, <2>1, FS_EmptySet
  <2> QED BY <2>1, SumEmpty
<1>3. ASSUME NEW n \in Nat, n \in N PROVE n + 1 \in N
  <2>1. SUFFICES ASSUME NEW s \in SUBSET S, Cardinality(s) <= n + 1 PROVE SumOver(w, s) = 0
    OBVIOUS
  <2>2. CASE s = {}
    BY <2>2, SumEmpty
  <2>3. CASE s # {}
    <3>1. PICK y \in s : TRUE
      BY <2>3
    <3>2. Cardinality(s \ {y}) <= n /\ s \ {y} \in SUBSET S
      BY <1>1, <2>1
    <3>3. SumOver(w, s \ {y}) = 0 /\ w[y] = 0
      BY <1>3, <3>2
    <3>4. SumOver(w, s) = w[y] + SumOver(w, s \ {y})
      BY <1>1, SumRemove
    <3> QED BY <3>3, <3>4
  <2> QED BY <2>2, <2>3
<1>4. Cardinality(S) \in N
  <2> HIDE DEF N
  <2>1. Cardinality(S) \in Nat
    BY FS_CardinalityType
  <2> QED BY <1>2, <1>3, <2>1, NatClosed
<1> QED BY <1>4

-----------------------------------------------------------------------------
(* Products and quotients. *)

\* Division rounds down and the remainder is less than the divisor.
LEMMA DivBounds ==
  ASSUME NEW a \in Nat, NEW d \in Nat \ {0}
  PROVE  /\ a \div d \in Nat
         /\ (a \div d) * d <= a
         /\ a < (a \div d) * d + d
  OBVIOUS

\* Multiplication by a natural number is monotone and stays in Nat.
LEMMA MulMono ==
  ASSUME NEW a \in Nat, NEW b \in Nat, NEW d \in Nat, a <= b
  PROVE  a * d \in Nat /\ b * d \in Nat /\ a * d <= b * d
  OBVIOUS

\* Products of naturals are naturals.
LEMMA MulNat ==
  ASSUME NEW a \in Nat, NEW d \in Nat
  PROVE  a * d \in Nat
  OBVIOUS

\* Products of positive numbers are positive.
LEMMA MulPos ==
  ASSUME NEW a \in Nat, NEW d \in Nat, a > 0, d > 0
  PROVE  a * d \in Nat \ {0} /\ a * d > 0
  OBVIOUS

\* Multiplying integers by a natural number keeps their order.
LEMMA IntMulMono ==
  ASSUME NEW a \in Nat, NEW b \in Int, NEW d \in Int, b <= d
  PROVE  a * b \in Int /\ a * d \in Int /\ a * b <= a * d
  OBVIOUS

\* A positive factor can be cancelled.
LEMMA MulCancel ==
  ASSUME NEW a \in Int, NEW b \in Int, NEW d \in Nat \ {0}, a * d <= b * d
  PROVE  a <= b
  OBVIOUS

\* Multiplication distributes over sums and differences.
LEMMA MulAdd ==
  ASSUME NEW a \in Int, NEW b \in Int, NEW d \in Int
  PROVE  /\ (a + b) * d = a * d + b * d
         /\ (a - b) * d = a * d - b * d
         /\ a * d \in Int /\ b * d \in Int
  OBVIOUS

\* Products commute.
LEMMA MulComm ==
  ASSUME NEW a \in Int, NEW b \in Int
  PROVE  a * b = b * a
  OBVIOUS

\* Products distribute over a difference, on either side.
LEMMA MulDiff ==
  ASSUME NEW a \in Int, NEW b \in Int, NEW d \in Int
  PROVE  /\ a * (b - d) = a * b - a * d
         /\ (b - d) * a = b * a - d * a
  OBVIOUS

\* A quotient rounded down is the largest integer below the ratio.
LEMMA DivLargest ==
  ASSUME NEW a \in Int, NEW d \in Nat \ {0}, NEW k \in Int, k * d <= a
  PROVE  k <= a \div d
  OBVIOUS

\* Division by a positive number is monotone.
LEMMA DivMono ==
  ASSUME NEW a \in Int, NEW b \in Int, NEW d \in Nat \ {0}, a <= b
  PROVE  a \div d \in Int /\ b \div d \in Int /\ a \div d <= b \div d
  OBVIOUS

\* Pro-rata shares rounded down grow with the ratio V : T.
LEMMA ProRataMono ==
  ASSUME NEW s \in Nat, NEW V \in Nat, NEW W \in Nat,
         NEW T \in Nat \ {0}, NEW R \in Nat \ {0},
         V * R <= W * T
  PROVE  (s * V) \div T <= (s * W) \div R
<1> DEFINE a == (s * V) \div T
<1>1. s * V \in Nat /\ s * W \in Nat
  BY MulNat
<1>2. a \in Nat /\ a * T <= s * V
  BY <1>1, DivBounds
<1>3. (a * T) * R <= (s * V) * R
  BY <1>1, <1>2, MulNat, MulMono
<1>4. (s * V) * R = s * (V * R) /\ s * (W * T) = (s * W) * T /\ (a * T) * R = (a * R) * T
  OBVIOUS
<1>5. V * R \in Nat /\ W * T \in Nat
  BY MulNat
<1>6. (V * R) * s <= (W * T) * s
  BY <1>5, MulMono
<1>7. (V * R) * s = s * (V * R) /\ (W * T) * s = s * (W * T)
  OBVIOUS
<1>8. a * R \in Nat
  BY <1>2, MulNat
<1>9. (a * R) * T <= (s * W) * T
  <2>1. (a * R) * T \in Int /\ (s * W) * T \in Int /\ (s * V) * R \in Int
    OBVIOUS
  <2> QED BY <1>3, <1>4, <1>6, <1>7, <2>1
<1>10. a * R <= s * W
  BY <1>1, <1>8, <1>9, MulCancel
<1> HIDE DEF a
<1>11. a <= (s * W) \div R
  BY <1>1, <1>2, <1>10, DivLargest
<1> QED BY <1>11 DEF a

-----------------------------------------------------------------------------
(* Folds over sequences of two elements at most.                           *)

\* The last of at most two elements leaves the first or none.
LEMMA MaxAmongTwo ==
  ASSUME NEW s, s \subseteq {1, 2}, s # {}
  PROVE  Max(s) \in s /\ (s \ {Max(s)}) \in {{}, {1}} /\ Max({1}) = 1
<1>1. \E x \in s : \A y \in s : x >= y
  <2>1. CASE 2 \in s
    BY <2>1
  <2>2. CASE 2 \notin s
    <3>1. s = {1}
      BY <2>2
    <3> QED BY <3>1
  <2> QED BY <2>1, <2>2
<1>2. Max(s) \in s /\ \A y \in s : Max(s) >= y
  BY <1>1 DEF Max
<1>3. Max({1}) = 1
  BY DEF Max
<1>4. ASSUME NEW m \in {1, 2}, m \in s, \A y \in s : m >= y PROVE s \ {m} \in {{}, {1}}
  <2>1. CASE m = 1
    <3>1. s \ {m} = {}
      BY <1>4, <2>1
    <3> QED BY <3>1
  <2>2. CASE m = 2
    <3>1. CASE 1 \in s
      BY <2>2, <3>1
    <3>2. CASE 1 \notin s
      <4>1. s \ {m} = {}
        BY <2>2, <3>2
      <4> QED BY <4>1
    <3> QED BY <3>1, <3>2
  <2> QED BY <2>1, <2>2
<1> QED BY <1>2, <1>3, <1>4
=============================================================================
