------------------------- MODULE WorkTemplates_proofs -------------------------
(***************************************************************************)
(* Works, their sections, and the checks of submitted answers, for any     *)
(* requests, items, answers and tolerance: lemmas about sorting and        *)
(* pairing numbers and about the sections of a work, the inductive         *)
(* invariant, and the properties that follow from it.                      *)
(***************************************************************************)
EXTENDS WorkTemplates, SequenceTheorems, FiniteSetTheorems, FunctionTheorems, WellFoundedInduction, TLAPS

-----------------------------------------------------------------------------
(* Sequences. *)

LEMMA SeqFacts ==
  ASSUME NEW S, NEW s \in Seq(S)
  PROVE  Len(s) \in Nat /\ DOMAIN s = 1 .. Len(s) /\ \A i \in DOMAIN s : s[i] \in S
  OBVIOUS

LEMMA FunctionIsSeq ==
  ASSUME NEW S, NEW n \in Nat, NEW f \in [1 .. n -> S]
  PROVE  f \in Seq(S) /\ Len(f) = n /\ DOMAIN f = 1 .. n
  OBVIOUS

-----------------------------------------------------------------------------
(* Sorting.  A place's rank is the number of places that come before it;   *)
(* ranks are a bijection, and its inverse sorts.                           *)

Before(x, n, i) == {j \in 1 .. n : x[j] < x[i] \/ (x[j] = x[i] /\ j <= i)}

LEMMA BeforeGrows ==
  ASSUME NEW n \in Nat, NEW x \in [1 .. n -> Int], NEW i \in 1 .. n
  PROVE  /\ IsFiniteSet(Before(x, n, i))
         /\ Cardinality(Before(x, n, i)) \in 1 .. n
         /\ \A j \in 1 .. n : j \notin Before(x, n, i) =>
              Cardinality(Before(x, n, i)) < Cardinality(Before(x, n, j))
<1>1. IsFiniteSet(1 .. n) /\ Cardinality(1 .. n) = n
  BY FS_Interval
<1>2. \A j \in 1 .. n : /\ Before(x, n, j) \in SUBSET (1 .. n)
                        /\ j \in Before(x, n, j)
  BY DEF Before
<1>3. \A j \in 1 .. n : /\ IsFiniteSet(Before(x, n, j))
                        /\ Cardinality(Before(x, n, j)) \in Nat
                        /\ Cardinality(Before(x, n, j)) <= n
  BY <1>1, <1>2, FS_Subset, FS_CardinalityType
<1>4. Cardinality(Before(x, n, i)) # 0
  BY <1>2, <1>3, FS_EmptySet
<1>5. ASSUME NEW j \in 1 .. n, j \notin Before(x, n, i)
      PROVE  Cardinality(Before(x, n, i)) < Cardinality(Before(x, n, j))
  <2>1. x[i] < x[j] \/ (x[i] = x[j] /\ i < j)
    BY <1>5 DEF Before
  <2>2. Before(x, n, i) \subseteq Before(x, n, j)
    BY <2>1 DEF Before
  <2>3. Before(x, n, i) # Before(x, n, j)
    BY <1>2, <1>5
  <2>4. /\ Cardinality(Before(x, n, i)) <= Cardinality(Before(x, n, j))
        /\ Cardinality(Before(x, n, j)) # Cardinality(Before(x, n, i))
    BY <1>3, <2>2, <2>3, FS_Subset
  <2> QED BY <1>3, <2>4
<1> QED BY <1>3, <1>4, <1>5

LEMMA SortingExists ==
  ASSUME NEW n \in Nat, NEW x \in [1 .. n -> Int]
  PROVE  \E f \in Bijection(1 .. n, 1 .. n) :
           \A i, j \in 1 .. n : i < j => x[f[i]] <= x[f[j]]
<1> DEFINE D == 1 .. n
           rank == [i \in D |-> Cardinality(Before(x, n, i))]
           f == Inverse(rank, D, D)
<1>1. rank \in [D -> D]
  BY BeforeGrows
<1>2. \A i, j \in D : j \notin Before(x, n, i) => rank[i] < rank[j]
  BY BeforeGrows
<1>3. \A i, j \in D : i # j => i \notin Before(x, n, j) \/ j \notin Before(x, n, i)
  BY DEF Before
<1> HIDE DEF rank
<1>4. \A i, j \in D : rank[i] = rank[j] => i = j
  <2>1. \A i \in D : rank[i] \in Nat
    BY <1>1
  <2> HIDE DEF D
  <2> QED BY <1>2, <1>3, <2>1
<1>5. rank \in Injection(D, D)
  <2> HIDE DEF D
  <2> QED BY <1>1, <1>4, Fun_IsInj
<1>6. rank \in Bijection(D, D)
  <2>1. IsFiniteSet(D)
    BY FS_Interval
  <2> HIDE DEF D
  <2>2. rank \in Surjection(D, D)
    BY <1>5, <2>1, FS_Injection
  <2> QED BY <1>5, <2>2 DEF Bijection
<1>7. f \in Bijection(D, D) /\ \A i \in D : f[rank[i]] = i
  <2> HIDE DEF D
  <2> QED BY <1>6, Fun_BijInverse
<1>8. f \in [D -> D] /\ \A i \in D : rank[f[i]] = i
  <2> HIDE DEF D, f
  <2>1. /\ f \in [D -> D] /\ \A i \in D : \E j \in D : rank[j] = i
    BY <1>6, <1>7, Fun_BijectionProperties
  <2> QED BY <1>7, <2>1
<1> HIDE DEF f
<1>9. ASSUME NEW i \in D, NEW j \in D, i < j PROVE x[f[i]] <= x[f[j]]
  <2>1. f[i] \in D /\ f[j] \in D /\ rank[f[i]] = i /\ rank[f[j]] = j
    BY <1>8
  <2>2. f[i] \in Before(x, n, f[j])
    BY <1>2, <1>9, <2>1
  <2> QED BY <2>1, <2>2 DEF Before
<1> QED BY <1>7, <1>9

Ascending(x, n) == \A i, j \in 1 .. n : i < j => x[i] <= x[j]
Within(x, y, g, n, e) == \A i \in 1 .. n : x[i] - y[g[i]] <= e /\ y[g[i]] - x[i] <= e

\* When sorted numbers can be paired at all, pairing them in order will do:
\* were the numbers at place i too far apart, the places up to it, or from it
\* on, would have to find their partners among fewer places.
LEMMA SortedPairing ==
  ASSUME NEW n \in Nat, NEW x \in [1 .. n -> Int], NEW y \in [1 .. n -> Int],
         Ascending(x, n), Ascending(y, n), NEW e \in Nat, NEW g \in Bijection(1 .. n, 1 .. n),
         Within(x, y, g, n, e)
  PROVE  \A i \in 1 .. n : x[i] - y[i] <= e /\ y[i] - x[i] <= e
<1>0. g \in [1 .. n -> 1 .. n] /\ \A i, j \in 1 .. n : g[i] = g[j] => i = j
  <2> DEFINE D == 1 .. n
  <2> HIDE DEF D
  <2>1. g \in Bijection(D, D)
    BY DEF D
  <2>2. g \in [D -> D] /\ \A i, j \in D : g[i] = g[j] => i = j
    BY <2>1, Fun_BijectionProperties
  <2> QED BY <2>2 DEF D
<1>a. \A i, j \in 1 .. n : i <= j => x[i] <= x[j] /\ y[i] <= y[j]
  <2> SUFFICES ASSUME NEW i \in 1 .. n, NEW j \in 1 .. n, i <= j PROVE x[i] <= x[j] /\ y[i] <= y[j]
    OBVIOUS
  <2>1. CASE i < j
    BY <2>1 DEF Ascending
  <2>2. CASE i = j
    BY <2>2
  <2> QED BY <2>1, <2>2
<1> TAKE i \in 1 .. n
<1>1. ASSUME y[i] - x[i] > e PROVE FALSE
  <2> DEFINE S == 1 .. i
             T == 1 .. i - 1
             h == [k \in S |-> g[k]]
  <2>1. \A k \in S : g[k] \in T
    <3> SUFFICES ASSUME NEW k \in S, ~(g[k] < i) PROVE FALSE
      BY <1>0
    <3>1. k \in 1 .. n /\ g[k] \in 1 .. n /\ x[k] <= x[i] /\ y[i] <= y[g[k]]
      <4>0. k \in 1 .. n /\ k <= i
        OBVIOUS
      <4>1. k \in 1 .. n /\ g[k] \in 1 .. n /\ k <= i
        BY <1>0, <4>0
      <4>2. i <= g[k]
        BY <4>1
      <4> QED BY <1>a, <4>1, <4>2
    <3>2. y[g[k]] - x[k] <= e
      BY <3>1 DEF Within
    <3>3. x[k] \in Int /\ x[i] \in Int /\ y[i] \in Int /\ y[g[k]] \in Int
      BY <3>1
    <3> QED BY <1>1, <3>1, <3>2, <3>3
  <2>2. h \in [S -> T]
    BY <2>1
  <2>3. /\ IsFiniteSet(S) /\ IsFiniteSet(T) /\ Cardinality(T) < Cardinality(S)
    <3>1. IsFiniteSet(S) /\ Cardinality(S) = i
      BY FS_Interval
    <3>2. IsFiniteSet(T) /\ Cardinality(T) = i - 1
      <4>1. 1 \in Int /\ i - 1 \in Int
        OBVIOUS
      <4>2. IsFiniteSet(T) /\ Cardinality(T) = IF 1 > i - 1 THEN 0 ELSE (i - 1) - 1 + 1
        BY ONLY <4>1, FS_Interval
      <4> QED BY <4>2
    <3> QED BY <3>1, <3>2
  <2>4. \A k, l \in S : k # l => h[k] # h[l]
    BY <1>0
  <2> HIDE DEF S, T, h
  <2> QED BY <2>2, <2>3, <2>4, FS_PigeonHole
<1>2. ASSUME x[i] - y[i] > e PROVE FALSE
  <2> DEFINE S == i .. n
             T == i + 1 .. n
             h == [k \in S |-> g[k]]
  <2>1. \A k \in S : g[k] \in T
    <3> SUFFICES ASSUME NEW k \in S, ~(g[k] > i) PROVE FALSE
      BY <1>0
    <3>1. k \in 1 .. n /\ g[k] \in 1 .. n /\ x[i] <= x[k] /\ y[g[k]] <= y[i]
      BY <1>0, <1>a
    <3>2. x[k] - y[g[k]] <= e
      BY <3>1 DEF Within
    <3>3. x[k] \in Int /\ x[i] \in Int /\ y[i] \in Int /\ y[g[k]] \in Int
      BY <3>1
    <3> QED BY <1>2, <3>1, <3>2, <3>3
  <2>2. h \in [S -> T]
    BY <2>1
  <2>3. /\ IsFiniteSet(S) /\ IsFiniteSet(T) /\ Cardinality(T) < Cardinality(S)
    <3>1. IsFiniteSet(S) /\ Cardinality(S) = n - i + 1
      BY FS_Interval
    <3>2. IsFiniteSet(T) /\ Cardinality(T) = n - i
      <4>1. n \in Int /\ i + 1 \in Int
        OBVIOUS
      <4>2. IsFiniteSet(T) /\ Cardinality(T) = IF i + 1 > n THEN 0 ELSE n - (i + 1) + 1
        BY ONLY <4>1, FS_Interval
      <4> QED BY <4>2
    <3> QED BY <3>1, <3>2
  <2>4. \A k, l \in S : k # l => h[k] # h[l]
    BY <1>0
  <2> HIDE DEF S, T, h
  <2> QED BY <2>2, <2>3, <2>4, FS_PigeonHole
<1>3. x[i] \in Int /\ y[i] \in Int
  OBVIOUS
<1> QED BY <1>1, <1>2, <1>3

-----------------------------------------------------------------------------
(* Verdicts. *)

LEMMA NumericAnswers ==
  ASSUME NEW a \in Answer, IsNumeric(a), FreeOfNaN(a)
  PROVE  /\ Len(a.tokens) \in Nat \ {0} /\ ~Blank(a)
         /\ DOMAIN Numbers(a) = 1 .. Len(a.tokens) /\ Len(Numbers(a)) = Len(a.tokens)
         /\ Numbers(a) \in [1 .. Len(a.tokens) -> Int]
<1>1. a.tokens \in Seq(Token) /\ a.tokens # <<>>
  BY DEF Answer, IsNumeric
<1>2. /\ Len(a.tokens) \in Nat \ {0} /\ DOMAIN a.tokens = 1 .. Len(a.tokens)
      /\ \A i \in DOMAIN a.tokens : a.tokens[i] \in Token
  BY <1>1
<1>3. \A i \in DOMAIN a.tokens : a.tokens[i].number \in Int
  BY <1>2 DEF Token, IsNumeric, FreeOfNaN
<1>4. Numbers(a) \in [1 .. Len(a.tokens) -> Int]
  BY <1>2, <1>3 DEF Numbers
<1>5. Numbers(a) \in Seq(Int) /\ DOMAIN Numbers(a) = 1 .. Len(a.tokens)
  BY <1>2, <1>4
<1>6. Len(Numbers(a)) = Len(a.tokens)
  BY <1>2, <1>5
<1> QED BY <1>1, <1>2, <1>4, <1>5, <1>6 DEF Blank

\* Parsing yields the numbers in ascending order.
LEMMA ParsedAreSorted ==
  ASSUME NEW a \in Answer, IsNumeric(a), FreeOfNaN(a)
  PROVE  \E f \in Bijection(1 .. Len(a.tokens), 1 .. Len(a.tokens)) :
           /\ ParseNumericAnswer(a) = [i \in 1 .. Len(a.tokens) |-> Numbers(a)[f[i]]]
           /\ \A i, j \in 1 .. Len(a.tokens) : i < j => Numbers(a)[f[i]] <= Numbers(a)[f[j]]
<1> DEFINE n == Len(a.tokens)
           D == 1 .. n
           x == Numbers(a)
           Arranged(f) == [i \in D |-> x[f[i]]]
<1>1. n \in Nat /\ DOMAIN x = D /\ x \in [D -> Int]
  BY NumericAnswers
<1>2. Rearrangements(x) = {Arranged(f) : f \in Bijection(D, D)}
  <2> HIDE DEF D, x
  <2> QED BY <1>1 DEF Rearrangements
<1>3. \A i, j \in D : SortsBefore(x[j], x[i]) <=> x[j] < x[i]
  <2>1. \A i \in D : x[i] \in Int /\ x[i] # NotANumber
    BY <1>1, NumbersAssumption
  <2> QED BY <2>1 DEF SortsBefore
<1>4. \A f \in Bijection(D, D) :
        Sorted(Arranged(f)) <=> \A i, j \in D : i < j => x[f[i]] <= x[f[j]]
  <2> SUFFICES ASSUME NEW f \in Bijection(D, D)
               PROVE  Sorted(Arranged(f)) <=> \A i, j \in D : i < j => x[f[i]] <= x[f[j]]
    OBVIOUS
  <2>1. f \in [D -> D]
    <3> HIDE DEF D
    <3> QED BY Fun_BijectionProperties
  <2>2. DOMAIN Arranged(f) = D /\ \A i \in D : Arranged(f)[i] = x[f[i]] /\ x[f[i]] \in Int
    BY <1>1, <2>1
  <2>3. \A i, j \in D : SortsBefore(x[f[j]], x[f[i]]) <=> x[f[j]] < x[f[i]]
    BY <1>3, <2>1
  <2> HIDE DEF Arranged, x, D
  <2>4. Sorted(Arranged(f)) <=> \A i, j \in D : i < j => ~(x[f[j]] < x[f[i]])
    BY <2>2, <2>3 DEF Sorted
  <2>5. \A i, j \in D : ~(x[f[j]] < x[f[i]]) <=> x[f[i]] <= x[f[j]]
    BY <2>2
  <2> QED BY <2>4, <2>5
<1>5. \E f \in Bijection(D, D) : \A i, j \in D : i < j => x[f[i]] <= x[f[j]]
  <2> HIDE DEF x, n
  <2> QED BY <1>1, SortingExists
<1>6. \E xs \in Rearrangements(x) : Sorted(xs)
  <2> HIDE DEF Arranged, D, x
  <2> QED BY <1>2, <1>4, <1>5
<1>7. ParseNumericAnswer(a) \in Rearrangements(x) /\ Sorted(ParseNumericAnswer(a))
  BY <1>6 DEF ParseNumericAnswer
<1>8. PICK f \in Bijection(D, D) : ParseNumericAnswer(a) = Arranged(f)
  <2> HIDE DEF Arranged, D, x
  <2> QED BY <1>2, <1>7
<1>9. \A i, j \in D : i < j => x[f[i]] <= x[f[j]]
  <2> HIDE DEF Arranged, D, x
  <2> QED BY <1>4, <1>7, <1>8
<1> QED BY <1>8, <1>9

LEMMA CloseNumbers ==
  ASSUME NEW x \in Int, NEW y \in Int
  PROVE  Close(x, y) <=> x - y <= Epsilon /\ y - x <= Epsilon
  BY NumbersAssumption DEF Close

\* The verdict on a numeric answer: sorting both sides and comparing place by
\* place finds a pairing whenever there is one.
LEMMA VerdictPairs ==
  ASSUME NEW expected \in Answer, NEW actual \in Answer,
         IsNumeric(expected), IsNumeric(actual), FreeOfNaN(expected), FreeOfNaN(actual)
  PROVE  IsCorrectAnswer(expected, actual) <=> CanBePaired(expected, actual)
<1> DEFINE n == Len(expected.tokens)
           D == 1 .. n
           xs == Numbers(expected)
           ys == Numbers(actual)
           sx == ParseNumericAnswer(expected)
           sy == ParseNumericAnswer(actual)
           Fit(x, y) == x - y <= Epsilon /\ y - x <= Epsilon
<1>1. /\ n \in Nat /\ Len(actual.tokens) \in Nat
      /\ ~Blank(expected) /\ ~Blank(actual)
      /\ DOMAIN xs = D /\ Len(xs) = n /\ xs \in [D -> Int]
      /\ DOMAIN ys = 1 .. Len(actual.tokens) /\ Len(ys) = Len(actual.tokens)
      /\ ys \in [1 .. Len(actual.tokens) -> Int]
  BY NumericAnswers
<1>2. PICK p \in Bijection(D, D) :
        /\ sx = [i \in D |-> xs[p[i]]]
        /\ \A i, j \in D : i < j => xs[p[i]] <= xs[p[j]]
  BY ParsedAreSorted
<1>3. PICK q \in Bijection(1 .. Len(actual.tokens), 1 .. Len(actual.tokens)) :
        /\ sy = [i \in 1 .. Len(actual.tokens) |-> ys[q[i]]]
        /\ \A i, j \in 1 .. Len(actual.tokens) : i < j => ys[q[i]] <= ys[q[j]]
  BY ParsedAreSorted
<1>4. p \in [D -> D] /\ q \in [1 .. Len(actual.tokens) -> 1 .. Len(actual.tokens)]
  <2>1. \A S, f : f \in Bijection(S, S) => f \in [S -> S]
    BY Fun_BijectionProperties
  <2> HIDE DEF D
  <2> QED BY <2>1
<1>5. /\ sx \in [D -> Int] /\ DOMAIN sx = D /\ Len(sx) = n
      /\ sy \in [1 .. Len(actual.tokens) -> Int] /\ DOMAIN sy = 1 .. Len(actual.tokens)
      /\ Len(sy) = Len(actual.tokens)
  <2>1. /\ sx \in [D -> Int] /\ sy \in [1 .. Len(actual.tokens) -> Int]
    <3> HIDE DEF xs, ys, sx, sy, D
    <3> QED BY <1>1, <1>2, <1>3, <1>4
  <2> HIDE DEF sx, sy
  <2> QED BY <1>1, <2>1, FunctionIsSeq
<1>6. IsCorrectAnswer(expected, actual) <=> EqualNumericAnswers(sx, sy)
  BY <1>1 DEF IsCorrectAnswer
<1>7. CASE Len(actual.tokens) # n
  BY <1>1, <1>5, <1>6, <1>7 DEF EqualNumericAnswers, CanBePaired
<1>8. CASE Len(actual.tokens) = n
  <2>1. /\ ys \in [D -> Int] /\ q \in Bijection(D, D) /\ q \in [D -> D]
        /\ sy = [i \in D |-> ys[q[i]]] /\ sy \in [D -> Int]
        /\ \A i, j \in D : i < j => ys[q[i]] <= ys[q[j]]
    BY <1>1, <1>3, <1>4, <1>5, <1>8
  <2> HIDE DEF xs, ys, sx, sy
  <2>2. EqualNumericAnswers(sx, sy) <=> \A i \in D : Fit(sx[i], sy[i])
    <3>1. \A i \in D : Close(sx[i], sy[i]) <=> Fit(sx[i], sy[i])
      BY <1>5, <2>1, CloseNumbers
    <3> HIDE DEF Fit, D
    <3> QED BY <1>5, <1>8, <3>1 DEF EqualNumericAnswers
  <2>3. CanBePaired(expected, actual) <=> \E f \in Bijection(D, D) : \A i \in D : Fit(xs[i], ys[f[i]])
    <3>1. ASSUME NEW f \in Bijection(D, D)
          PROVE  (\A i \in D : Close(xs[i], ys[f[i]])) <=> \A i \in D : Fit(xs[i], ys[f[i]])
      <4>1. f \in [D -> D]
        <5> HIDE DEF D
        <5> QED BY Fun_BijectionProperties
      <4> QED BY <1>1, <2>1, <4>1, CloseNumbers
    <3>2. CanBePaired(expected, actual) <=> \E f \in Bijection(D, D) : \A i \in D : Close(xs[i], ys[f[i]])
      <4> HIDE DEF D
      <4> QED BY <1>1, <1>8 DEF CanBePaired, xs, ys
    <3> HIDE DEF Fit, D
    <3> QED BY <3>1, <3>2
  <2> DEFINE back == Inverse(p, D, D)
             home == Inverse(q, D, D)
  <2>4. /\ back \in Bijection(D, D) /\ back \in [D -> D]
        /\ \A i \in D : back[p[i]] = i /\ p[back[i]] = i
        /\ home \in Bijection(D, D) /\ home \in [D -> D]
        /\ \A i \in D : home[q[i]] = i /\ q[home[i]] = i
    <3> HIDE DEF D
    <3>1. \A f \in Bijection(D, D) :
            /\ Inverse(f, D, D) \in Bijection(D, D) /\ Inverse(f, D, D) \in [D -> D]
            /\ \A i \in D : Inverse(f, D, D)[f[i]] = i /\ f[Inverse(f, D, D)[i]] = i
      <4> SUFFICES ASSUME NEW f \in Bijection(D, D)
                   PROVE  /\ Inverse(f, D, D) \in Bijection(D, D) /\ Inverse(f, D, D) \in [D -> D]
                          /\ \A i \in D : Inverse(f, D, D)[f[i]] = i /\ f[Inverse(f, D, D)[i]] = i
        OBVIOUS
      <4>1. /\ Inverse(f, D, D) \in Bijection(D, D)
            /\ \A i \in D : Inverse(f, D, D)[f[i]] = i
        BY Fun_BijInverse
      <4>2. Inverse(f, D, D) \in [D -> D]
        BY <4>1, Fun_BijectionProperties
      <4>3. \A i \in D : \E j \in D : f[j] = i
        BY Fun_BijectionProperties
      <4> QED BY <4>1, <4>2, <4>3
    <3> QED BY <1>2, <2>1, <3>1
  <2> HIDE DEF back, home
  <2>5. ASSUME \A i \in D : Fit(sx[i], sy[i])
        PROVE  \E f \in Bijection(D, D) : \A i \in D : Fit(xs[i], ys[f[i]])
    <3> DEFINE f == [i \in D |-> q[back[i]]]
    <3>1. f \in Bijection(D, D)
      <4> HIDE DEF D
      <4> QED BY <2>1, <2>4, Fun_BijTransitive
    <3>2. ASSUME NEW i \in D PROVE Fit(xs[i], ys[f[i]])
      <4>1. back[i] \in D /\ Fit(sx[back[i]], sy[back[i]])
        BY <2>4, <2>5
      <4>2. sx[back[i]] = xs[i] /\ sy[back[i]] = ys[f[i]]
        <5> HIDE DEF D
        <5> QED BY <1>2, <2>1, <2>4, <4>1
      <4> HIDE DEF f, D, Fit
      <4> QED BY <4>1, <4>2
    <3> HIDE DEF f, D, Fit
    <3> QED BY <3>1, <3>2
  <2>6. ASSUME NEW f \in Bijection(D, D), \A i \in D : Fit(xs[i], ys[f[i]])
        PROVE  \A i \in D : Fit(sx[i], sy[i])
    <3> DEFINE h == [i \in D |-> f[p[i]]]
               g == [i \in D |-> home[h[i]]]
    <3>1. h \in Bijection(D, D) /\ h \in [D -> D] /\ f \in [D -> D]
      <4> HIDE DEF D
      <4>1. h \in Bijection(D, D)
        BY <1>2, <2>6, Fun_BijTransitive
      <4> HIDE DEF h
      <4> QED BY <2>6, <4>1, Fun_BijectionProperties
    <3>2. g \in Bijection(D, D) /\ g \in [D -> D]
      <4> HIDE DEF D, h
      <4>1. g \in Bijection(D, D)
        BY <2>4, <3>1, Fun_BijTransitive
      <4> HIDE DEF g
      <4> QED BY <4>1, Fun_BijectionProperties
    <3>3. ASSUME NEW i \in D PROVE Fit(sx[i], sy[g[i]])
      <4>1. p[i] \in D /\ Fit(xs[p[i]], ys[f[p[i]]])
        BY <1>4, <2>6
      <4>2. sx[i] = xs[p[i]]
        BY <1>2
      <4>3. f[p[i]] \in D /\ g[i] \in D /\ g[i] = home[f[p[i]]]
        <5> HIDE DEF D
        <5> QED BY <3>1, <3>2, <4>1
      <4>4. sy[g[i]] = ys[f[p[i]]]
        <5> HIDE DEF D, g
        <5> QED BY <2>1, <2>4, <4>3
      <4> HIDE DEF g, h, D, Fit
      <4> QED BY <4>1, <4>2, <4>4
    <3>4. \A i, j \in D : i < j => sx[i] <= sx[j] /\ sy[i] <= sy[j]
      BY <1>2, <2>1
    <3> HIDE DEF g, h
    <3>5. Ascending(sx, n) /\ Ascending(sy, n) /\ Within(sx, sy, g, n, Epsilon)
      BY <3>3, <3>4 DEF Ascending, Within
    <3>6. \A i \in D : sx[i] - sy[i] <= Epsilon /\ sy[i] - sx[i] <= Epsilon
      <4>1. /\ n \in Nat /\ sx \in [1 .. n -> Int] /\ sy \in [1 .. n -> Int]
            /\ Epsilon \in Nat /\ g \in Bijection(1 .. n, 1 .. n)
        BY <1>1, <1>5, <2>1, <3>2, EpsilonAssumption
      <4> QED BY ONLY <4>1, <3>5, SortedPairing
    <3> QED BY <3>6
  <2> HIDE DEF Fit, D
  <2> QED BY <1>6, <2>2, <2>3, <2>5, <2>6
<1> QED BY <1>7, <1>8

-----------------------------------------------------------------------------
(* Works and their sections. *)

WorkItem == [content : Contents, order : Int \ {0}]

LEMMA AppendFacts ==
  ASSUME NEW S, NEW s \in Seq(S), NEW e \in S
  PROVE  /\ Append(s, e) \in Seq(S) /\ Len(Append(s, e)) = Len(s) + 1
         /\ DOMAIN Append(s, e) = 1 .. Len(s) + 1
         /\ \A i \in 1 .. Len(s) : Append(s, e)[i] = s[i]
         /\ Append(s, e)[Len(s) + 1] = e
         /\ Append(s, e) = [i \in 1 .. Len(s) + 1 |-> Append(s, e)[i]]
<1>1. Append(s, e) \in Seq(S) /\ Len(Append(s, e)) = Len(s) + 1
  OBVIOUS
<1>2. DOMAIN Append(s, e) = 1 .. Len(s) + 1
  BY <1>1, SeqFacts
<1>3. Append(s, e)[Len(s) + 1] = e /\ \A i \in 1 .. Len(s) : Append(s, e)[i] = s[i]
  OBVIOUS
<1>4. Append(s, e) = [i \in DOMAIN Append(s, e) |-> Append(s, e)[i]]
  <2> DEFINE t == Append(s, e)
  <2> HIDE DEF t
  <2>1. \A u \in Seq(S) : u = [i \in DOMAIN u |-> u[i]]
    OBVIOUS
  <2>2. t = [i \in DOMAIN t |-> t[i]]
    BY <1>1, <2>1 DEF t
  <2> QED BY <2>2 DEF t
<1> QED BY <1>1, <1>2, <1>3, <1>4

LEMMA NumberedItems ==
  ASSUME NEW items \in Seq(Item)
  PROVE  /\ Numbered(items) \in Seq(WorkItem) /\ DOMAIN Numbered(items) = DOMAIN items
         /\ Len(Numbered(items)) = Len(items)
         /\ \A i \in DOMAIN items :
              /\ Numbered(items)[i].content = items[i].content
              /\ Numbered(items)[i].order = IF items[i].order = 0 THEN i ELSE items[i].order
<1> DEFINE n == Len(items)
           numbered == Numbered(items)
<1>1. /\ n \in Nat /\ DOMAIN items = 1 .. n
      /\ \A i \in 1 .. n : items[i] \in Item
  BY SeqFacts
<1>2. \A i \in 1 .. n : items[i].content \in Contents /\ items[i].order \in Int
  BY <1>1 DEF Item
<1>3. /\ DOMAIN numbered = 1 .. n
      /\ \A i \in 1 .. n :
           numbered[i] = [content |-> items[i].content,
                          order |-> IF items[i].order = 0 THEN i ELSE items[i].order]
  BY <1>1 DEF Numbered
<1>4. numbered = [i \in 1 .. n |-> numbered[i]]
  BY <1>1 DEF Numbered
<1> HIDE DEF numbered, n
<1>5. numbered \in [1 .. n -> WorkItem]
  BY <1>1, <1>2, <1>3, <1>4 DEF WorkItem
<1>6. numbered \in Seq(WorkItem) /\ Len(numbered) = n
  BY <1>1, <1>5, FunctionIsSeq
<1> QED BY <1>1, <1>3, <1>6 DEF numbered, n

\* Sections hold every item, and a smaller number comes first.
LEMMA SectionsOfWork ==
  ASSUME NEW items \in Seq(WorkItem), NEW s \in Sections(items)
  PROVE  /\ s \in Seq(WorkItem) /\ Len(s) = Len(items) /\ DOMAIN s = DOMAIN items
         /\ \A i, j \in DOMAIN items : items[i].order < items[j].order =>
              \E k, l \in DOMAIN s : s[k] = items[i] /\ s[l] = items[j] /\ k < l
<1> DEFINE D == DOMAIN items
<1>1. PICK f \in Bijection(D, D) : s = [i \in D |-> items[f[i]]]
  BY DEF Sections, Rearrangements
<1>2. f \in [D -> D] /\ \A t \in D : \E k \in D : f[k] = t
  BY Fun_BijectionProperties
<1>3. Len(items) \in Nat /\ D = 1 .. Len(items) /\ \A i \in D : items[i] \in WorkItem
  BY SeqFacts
<1> HIDE DEF D
<1>4. s \in [D -> WorkItem]
  BY <1>1, <1>2, <1>3
<1>5. s \in Seq(WorkItem) /\ Len(s) = Len(items) /\ DOMAIN s = D
  BY <1>3, <1>4, FunctionIsSeq
<1>6. ASSUME NEW i \in D, NEW j \in D, items[i].order < items[j].order
      PROVE  \E k, l \in D : s[k] = items[i] /\ s[l] = items[j] /\ k < l
  <2>1. PICK k \in D : s[k] = items[i]
    BY <1>1, <1>2
  <2>2. PICK l \in D : s[l] = items[j]
    BY <1>1, <1>2
  <2>3. items[i].order \in Int /\ items[j].order \in Int
    BY <1>3 DEF WorkItem
  <2>4. k # l
    BY <1>6, <2>1, <2>2, <2>3
  <2>5. ~(l < k)
    <3>1. l < k => ~Precedes(s[k], s[l])
      BY <1>5 DEF Sections
    <3>2. Precedes(s[k], s[l])
      BY <1>6, <2>1, <2>2 DEF Precedes
    <3> QED BY <3>1, <3>2
  <2> QED BY <1>3, <2>1, <2>2, <2>4, <2>5
<1> QED BY <1>5, <1>6 DEF D

\* Headings keep the sections' order and count the tasks up.
LEMMA HeadingsCount ==
  ASSUME NEW s \in Seq(WorkItem)
  PROVE  LET headings == BuildWorkbookLatex(s) IN
         /\ headings \in Seq(Heading) /\ Len(headings) = Len(s) /\ DOMAIN headings = DOMAIN s
         /\ \A k \in DOMAIN s : headings[k].content = s[k].content
         /\ \A k, l \in DOMAIN s :
              k < l /\ s[k].content \in TaskIds /\ s[l].content \in TaskIds =>
                headings[k].number < headings[l].number
<1> DEFINE n == Len(s)
           headings == BuildWorkbookLatex(s)
           TasksTo(i) == {k \in 1 .. i : s[k].content \in TaskIds}
<1>0. n \in Nat /\ DOMAIN s = 1 .. n /\ \A k \in 1 .. n : s[k] \in WorkItem
  BY SeqFacts
<1>1. n \in Nat /\ DOMAIN s = 1 .. n /\ \A k \in 1 .. n : s[k].content \in Contents
  BY <1>0 DEF WorkItem
<1>2. \A i \in 1 .. n : IsFiniteSet(TasksTo(i)) /\ Cardinality(TasksTo(i)) \in Nat
  <2> SUFFICES ASSUME NEW i \in 1 .. n PROVE IsFiniteSet(TasksTo(i)) /\ Cardinality(TasksTo(i)) \in Nat
    OBVIOUS
  <2>1. IsFiniteSet(1 .. i)
    BY FS_Interval
  <2>2. TasksTo(i) \in SUBSET (1 .. i)
    OBVIOUS
  <2> HIDE DEF TasksTo
  <2> QED BY <2>1, <2>2, FS_Subset, FS_CardinalityType
<1>3. /\ DOMAIN headings = 1 .. n
      /\ headings = [i \in 1 .. n |->
                       [content |-> s[i].content,
                        number |-> IF s[i].content \in TheoryIds THEN 0 ELSE Cardinality(TasksTo(i))]]
  BY <1>1 DEF BuildWorkbookLatex
<1> HIDE DEF TasksTo, headings, n
<1>4. \A i \in 1 .. n : headings[i] \in Heading /\ headings[i].content = s[i].content
  BY <1>1, <1>2, <1>3 DEF Heading
<1>5. headings \in [1 .. n -> Heading]
  BY <1>3, <1>4
<1>6. headings \in Seq(Heading) /\ Len(headings) = n
  BY <1>1, <1>5, FunctionIsSeq
<1>7. ASSUME NEW k \in 1 .. n, NEW l \in 1 .. n, k < l, s[k].content \in TaskIds, s[l].content \in TaskIds
      PROVE  headings[k].number < headings[l].number
  <2>1. headings[k].number = Cardinality(TasksTo(k)) /\ headings[l].number = Cardinality(TasksTo(l))
    BY <1>3, <1>7, ContentsAssumption
  <2>2. TasksTo(k) \subseteq TasksTo(l) /\ l \in TasksTo(l) /\ l \notin TasksTo(k)
    BY <1>1, <1>7 DEF TasksTo
  <2>3. /\ Cardinality(TasksTo(k)) <= Cardinality(TasksTo(l))
        /\ Cardinality(TasksTo(l)) # Cardinality(TasksTo(k))
    BY <1>2, <2>2, FS_Subset
  <2> QED BY <1>2, <2>1, <2>3
<1> QED BY <1>1, <1>3, <1>4, <1>6, <1>7 DEF headings, n

\* The tasks of a work are picked one item after the other.
TasksPicked(items) ==
  LET tasks[i \in 0 .. Len(items)] ==
        IF i = 0 THEN <<>>
        ELSE IF items[i].content \in TaskIds THEN Append(tasks[i - 1], items[i].content)
        ELSE tasks[i - 1]
  IN  tasks

LEMMA TasksAmongStep ==
  ASSUME NEW items \in Seq(Item)
  PROVE  /\ TasksAmong(items, 0) = <<>>
         /\ \A i \in 0 .. Len(items) - 1 :
              TasksAmong(items, i + 1) =
                IF items[i + 1].content \in TaskIds
                  THEN Append(TasksAmong(items, i), items[i + 1].content)
                  ELSE TasksAmong(items, i)
<1> DEFINE f == TasksPicked(items)
<1>1. FiniteNatInductiveDefHypothesis(f, <<>>,
        LAMBDA v, i : IF items[i].content \in TaskIds THEN Append(v, items[i].content) ELSE v,
        0, Len(items))
  BY DEF FiniteNatInductiveDefHypothesis, TasksPicked
<1>2. 0 \in Nat /\ Len(items) \in Nat
  OBVIOUS
<1>3. \A i : TasksAmong(items, i) = f[i]
  BY DEF TasksAmong, TasksPicked
<1> HIDE DEF f
<1>4. FiniteNatInductiveDefConclusion(f, <<>>,
        LAMBDA v, i : IF items[i].content \in TaskIds THEN Append(v, items[i].content) ELSE v,
        0, Len(items))
  BY ONLY <1>1, <1>2, FiniteNatInductiveDef, Zenon
<1>5. f = [i \in 0 .. Len(items) |->
             IF i = 0 THEN <<>>
             ELSE IF items[i].content \in TaskIds THEN Append(f[i - 1], items[i].content)
             ELSE f[i - 1]]
  BY <1>4 DEF FiniteNatInductiveDefConclusion
<1>6. f[0] = <<>>
  BY <1>2, <1>5
<1>7. ASSUME NEW i \in 0 .. Len(items) - 1
      PROVE  f[i + 1] = IF items[i + 1].content \in TaskIds THEN Append(f[i], items[i + 1].content) ELSE f[i]
  <2>1. i + 1 \in 0 .. Len(items) /\ i + 1 # 0 /\ (i + 1) - 1 = i
    BY <1>2
  <2> QED BY <1>5, <2>1
<1> QED BY <1>3, <1>6, <1>7

LEMMA LeastElement ==
  ASSUME NEW S, S \subseteq Nat, S # {}
  PROVE  \E x \in S : \A y \in S : x <= y
<1>1. PICK x \in S : \A y \in S : ~(<<y, x>> \in OpToRel(<, Nat))
  BY NatLessThanWellFounded, WFMin
<1>2. \A y \in S : ~(y < x)
  BY <1>1 DEF OpToRel
<1> QED BY <1>2

\* What holds of no tasks and of one item more holds of all items.
LEMMA UpToInduction ==
  ASSUME NEW n \in Nat, NEW S, 0 \in S, \A i \in 0 .. n - 1 : i \in S => i + 1 \in S
  PROVE  0 .. n \subseteq S
<1> DEFINE T == 0 .. n \ S
<1> SUFFICES ASSUME T # {} PROVE FALSE
  OBVIOUS
<1>1. T \subseteq Nat
  OBVIOUS
<1>2. PICK x \in T : \A y \in T : x <= y
  <2> HIDE DEF T
  <2> QED BY <1>1, LeastElement
<1>3. x - 1 \in 0 .. n - 1 /\ x - 1 \in S
  BY <1>2
<1>4. (x - 1) + 1 \in S
  BY <1>3
<1>5. (x - 1) + 1 = x
  OBVIOUS
<1> QED BY <1>4, <1>5

LEMMA TasksAmongTyped ==
  ASSUME NEW items \in Seq(Item)
  PROVE  \A i \in 0 .. Len(items) : TasksAmong(items, i) \in Seq(TaskIds)
<1> DEFINE S == {i \in 0 .. Len(items) : TasksAmong(items, i) \in Seq(TaskIds)}
<1>0. Len(items) \in Nat
  OBVIOUS
<1>1. 0 \in S
  <2>1. TasksAmong(items, 0) = <<>> /\ <<>> \in Seq(TaskIds) /\ 0 \in 0 .. Len(items)
    BY <1>0, TasksAmongStep
  <2> QED BY <2>1
<1>2. ASSUME NEW i \in 0 .. Len(items) - 1, i \in S PROVE i + 1 \in S
  <2>1. TasksAmong(items, i) \in Seq(TaskIds) /\ i + 1 \in 0 .. Len(items)
    BY <1>0, <1>2
  <2>2. CASE items[i + 1].content \in TaskIds
    <3>1. TasksAmong(items, i + 1) = Append(TasksAmong(items, i), items[i + 1].content)
      BY <2>2, TasksAmongStep
    <3>2. \A u \in Seq(TaskIds), e \in TaskIds : Append(u, e) \in Seq(TaskIds)
      OBVIOUS
    <3>3. TasksAmong(items, i + 1) \in Seq(TaskIds)
      BY <2>1, <2>2, <3>1, <3>2
    <3> QED BY <2>1, <3>3
  <2>3. CASE items[i + 1].content \notin TaskIds
    <3>1. TasksAmong(items, i + 1) = TasksAmong(items, i)
      BY <2>3, TasksAmongStep
    <3> QED BY <2>1, <3>1
  <2> QED BY <2>2, <2>3
<1>3. 0 .. Len(items) \subseteq S
  <2> HIDE DEF S
  <2> QED BY <1>0, <1>1, <1>2, UpToInduction
<1> QED BY <1>3

\* The answer to a task is the last of those given to it.
LEMMA LastAnswer ==
  ASSUME NEW given \in Seq(Given), NEW t
  PROVE  /\ AnswerByTask(given, t) \in Answer
         /\ \A k \in DOMAIN given :
              given[k].task = t /\ (\A l \in DOMAIN given : l > k => given[l].task # t) =>
                AnswerByTask(given, t) = given[k].answer
<1> DEFINE A == AnswersTo(given, t)
           Bounds == {b \in Nat : \A k \in A : k <= b}
<1>1. /\ Len(given) \in Nat /\ DOMAIN given = 1 .. Len(given)
      /\ \A k \in DOMAIN given : given[k] \in Given
  BY SeqFacts
<1>2. A \subseteq DOMAIN given /\ \A k \in DOMAIN given : k \in A <=> given[k].task = t
  BY DEF AnswersTo
<1>3. CASE A = {}
  <2>1. AnswerByTask(given, t) = NoAnswer
    BY <1>3 DEF AnswerByTask
  <2>2. NoAnswer \in Answer
    BY SeparatorsAssumption DEF NoAnswer, Answer
  <2> QED BY <1>2, <1>3, <2>1, <2>2
<1>4. CASE A # {}
  <2>1. Len(given) \in Bounds /\ Bounds \subseteq Nat
    BY <1>1, <1>2
  <2>2. PICK b \in Bounds : \A c \in Bounds : b <= c
    <3> HIDE DEF Bounds
    <3> QED BY <2>1, LeastElement
  <2>3. A \subseteq Nat
    BY <1>1, <1>2
  <2> HIDE DEF A
  <2>4. b \in A
    <3> SUFFICES ASSUME b \notin A PROVE FALSE
      OBVIOUS
    <3>1. \A k \in A : k \in Nat /\ k < b
      BY <2>2, <2>3
    <3>2. b - 1 \in Bounds
      BY <1>4, <2>2, <3>1
    <3> QED BY <2>2, <3>2
  <2>5. \A k \in A : b >= k
    BY <2>2, <2>3
  <2>6. Max(A) \in A /\ \A k \in A : Max(A) >= k
    BY <2>4, <2>5 DEF Max
  <2>7. AnswerByTask(given, t) = given[Max(A)].answer
    BY <1>4 DEF AnswerByTask, A
  <2>8. given[Max(A)] \in Given
    BY <1>1, <1>2, <2>6
  <2>9. AnswerByTask(given, t) \in Answer
    BY <2>7, <2>8 DEF Given
  <2>10. ASSUME NEW k \in DOMAIN given, given[k].task = t,
                \A l \in DOMAIN given : l > k => given[l].task # t
         PROVE  k = Max(A)
    <3>1. k \in A /\ Max(A) \in DOMAIN given /\ given[Max(A)].task = t
      BY <1>2, <2>6, <2>10
    <3>2. ~(Max(A) > k) /\ Max(A) >= k
      BY <2>6, <2>10, <3>1
    <3> QED BY <2>3, <2>6, <3>1, <3>2
  <2> QED BY <2>7, <2>9, <2>10
<1> QED BY <1>3, <1>4

LEMMA ResultTyped ==
  ASSUME NEW r, req[r].given \in Seq(Given), NEW t \in TaskIds
  PROVE  Result(r, t) \in CheckResult /\ Result(r, t).task = t
<1>1. AnswerByTask(req[r].given, t) \in Answer
  BY LastAnswer
<1>2. IsCorrectAnswer(CorrectAnswer[t], AnswerByTask(req[r].given, t)) \in BOOLEAN
  BY DEF IsCorrectAnswer
<1> QED BY <1>1, <1>2 DEF Result, CheckResult

-----------------------------------------------------------------------------
(* The inductive invariant is WorksInv itself: a work refers to what exists *)
(* because the request that inserts it has found every item, no other       *)
(* request holds its id, and nothing is ever deleted.                       *)

ItemsStored == \A w \in WorkIds : \A i \in DOMAIN works[w] : works[w][i].content \in stored

LEMMA WorkFacts ==
  ASSUME TypeOK, NEW w \in WorkIds
  PROVE  /\ works[w] \in Seq(WorkItem) /\ works[w] \in Seq(Item)
         /\ \A i \in DOMAIN works[w] : works[w][i] \in WorkItem
<1>1. works[w] \in Seq(WorkItem)
  BY DEF TypeOK, WorkItem
<1>2. WorkItem \subseteq Item
  BY DEF WorkItem, Item
<1>3. \A i \in DOMAIN works[w] : works[w][i] \in WorkItem
  BY <1>1, SeqFacts
<1> QED BY <1>1, <1>2, <1>3

LEMMA ExistingItems ==
  ASSUME TypeOK
  PROVE  WorkItemsExist <=> ItemsStored
<1>1. ASSUME NEW w \in WorkIds, NEW i \in DOMAIN works[w]
      PROVE  LET c == works[w][i].content
             IN  (GetTask(c) \/ (c \in ListTheory(EveryTopic) /\ \A p \in TopicsOf[c] : c \in ListTheory(p)))
                   <=> c \in stored
  <2>1. works[w][i].content \in Contents
    BY WorkFacts DEF WorkItem
  <2> QED BY <2>1 DEF GetTask, GetTheory, ListTheory, Contents
<1>2. \A w \in WorkIds : works[w] = <<>> => DOMAIN works[w] = {}
  OBVIOUS
<1> QED BY <1>1, <1>2 DEF WorkItemsExist, ItemsStored, ListWorks, Exists, GetWork

LEMMA ExistingItemsNext == (TypeOK => (WorkItemsExist <=> ItemsStored))'
<1>1. TypeOK => (WorkItemsExist <=> ItemsStored)
  BY ExistingItems
<1> QED BY <1>1, PTL

LEMMA RequestFacts ==
  ASSUME TypeOK, NEW r \in Requests
  PROVE  /\ req[r] \in Request
         /\ req[r].work \in WorkIds \cup {NoWork} /\ req[r].user \in BOOLEAN
         /\ req[r].items \in Seq(Item) /\ Len(req[r].items) \in Nat
         /\ DOMAIN req[r].items = 1 .. Len(req[r].items)
         /\ \A i \in DOMAIN req[r].items : req[r].items[i].content \in Contents
         /\ req[r].next \in 1 .. Len(req[r].items) + 1
         /\ req[r].given \in Seq(Given)
         /\ req[r].results \in Seq(CheckResult) \cup Seq(Heading)
         /\ Len(req[r].results) \in Nat /\ DOMAIN req[r].results = 1 .. Len(req[r].results)
         /\ req[r].sent \in Seq(Nat) /\ Len(req[r].sent) \in Nat
         /\ DOMAIN req[r].sent = 1 .. Len(req[r].sent)
         /\ req[r].lost \subseteq Nat
<1>1. req[r] \in Request
  BY DEF TypeOK
<1>2. /\ req[r].work \in WorkIds \cup {NoWork} /\ req[r].user \in BOOLEAN
      /\ req[r].items \in Seq(Item) /\ req[r].given \in Seq(Given)
      /\ req[r].results \in Seq(CheckResult) \cup Seq(Heading)
      /\ req[r].sent \in Seq(Nat) /\ req[r].lost \subseteq Nat
  BY <1>1 DEF Request
<1>3. \A i \in DOMAIN req[r].items : req[r].items[i] \in Item
  BY <1>2, SeqFacts
<1>4. \A i \in DOMAIN req[r].items : req[r].items[i].content \in Contents
  BY <1>3 DEF Item
<1>5. req[r].next \in 1 .. Len(req[r].items) + 1
  BY DEF TypeOK
<1> QED BY <1>1, <1>2, <1>4, <1>5, SeqFacts

\* A request is not disturbed by what another does: contents only grow, its
\* work is left alone, and no other request takes an id that was drawn.
LEMMA OthersOnCourse ==
  ASSUME TypeOK, NEW q \in Requests, OnCourse(q), req'[q] = req[q], stored \subseteq stored',
         req[q].work \in WorkIds => works'[req[q].work] = works[req[q].work],
         \A p \in Requests \ {q} :
           req'[p].work = req[p].work \/ (req[q].pc = "create" => req'[p].work # req[q].work)
  PROVE  OnCourse(q)'
<1>0. req[q].work \in WorkIds \cup {NoWork}
  BY RequestFacts
<1>1. (req[q].pc = "idle" => req[q] = Idle)'
  BY DEF OnCourse
<1>2. CreatesWork(q)'
  BY <1>0 DEF OnCourse, CreatesWork, Exists
<1>3. ShowsSections(q)'
  BY DEF OnCourse, ShowsSections, Exists
<1>4. ChecksItems(q)'
  <2>1. \A t : Result(q, t)' = Result(q, t)
    BY DEF Result
  <2>2. ItemsSeen(q)' = ItemsSeen(q)
    BY DEF ItemsSeen
  <2> QED BY <1>0, <2>1, <2>2 DEF OnCourse, ChecksItems, Exists
<1>5. PublishesInOrder(q)'
  <2>1. Done(q)' = Done(q)
    BY DEF Done
  <2> QED BY <2>1 DEF OnCourse, PublishesInOrder
<1> QED BY <1>1, <1>2, <1>3, <1>4, <1>5 DEF OnCourse

LEMMA NothingSent ==
  /\ IsFiniteSet({}) /\ Cardinality({}) = 0 /\ Len(<<>>) = 0 /\ 1 .. Len(<<>>) + Cardinality({}) = {}
  /\ Range(<<>>) \cup {} = {} /\ \A i \in DOMAIN <<>> : FALSE
<1>1. IsFiniteSet({}) /\ Cardinality({}) = 0
  BY FS_EmptySet
<1>2. Len(<<>>) = 0 /\ DOMAIN <<>> = {}
  OBVIOUS
<1>3. 1 .. Len(<<>>) + Cardinality({}) = {}
  BY <1>1, <1>2
<1> QED BY <1>1, <1>2, <1>3 DEF Range

LEMMA NothingPublished ==
  ASSUME NEW r, req'[r].sent = <<>>, req'[r].lost = {}, Len(req'[r].results) \in Nat, req'[r].pc # "replied"
  PROVE  PublishesInOrder(r)'
<1>1. Done(r)' = 0 /\ 1 .. Done(r)' = {}
  BY NothingSent DEF Done
<1>2. IsFiniteSet(req'[r].lost) /\ Range(req'[r].sent) \cup req'[r].lost = {}
  BY NothingSent
<1>3. \A i \in DOMAIN req'[r].sent : FALSE
  BY NothingSent
<1> QED BY <1>1, <1>2, <1>3 DEF PublishesInOrder

\* What is left to show of a step that changes one request only.
LEMMA RequestStep ==
  ASSUME WorksInv, NEW r \in Requests, NEW x \in Request, UNCHANGED <<stored, works, brokers>>,
         req' = [req EXCEPT ![r] = x], x.next \in 1 .. Len(x.items) + 1,
         x.work = req[r].work \/ \A q \in Requests \ {r} : req[q].pc = "create" => x.work # req[q].work,
         OnCourse(r)'
  PROVE  WorksInv'
<1>0. TypeOK /\ WorkItemsExist /\ RequestsOnCourse
  BY DEF WorksInv
<1>1. req \in [Requests -> Request]
  BY <1>0 DEF TypeOK
<1>2. req'[r] = x /\ \A q \in Requests \ {r} : req'[q] = req[q]
  BY <1>1
<1>3. req' \in [Requests -> Request]
  BY <1>1
<1>4. TypeOK'
  BY <1>0, <1>2, <1>3 DEF TypeOK
<1>5. WorkItemsExist'
  BY <1>0 DEF WorkItemsExist, ListWorks, Exists, GetWork, GetTask, GetTheory, ListTheory
<1>6. ASSUME NEW q \in Requests PROVE OnCourse(q)'
  <2>1. CASE q = r
    BY <2>1
  <2>2. CASE q # r
    <3>1. OnCourse(q) /\ req'[q] = req[q]
      BY <1>0, <1>2, <2>2 DEF RequestsOnCourse
    <3>2. \A p \in Requests \ {q} :
            req'[p].work = req[p].work \/ (req[q].pc = "create" => req'[p].work # req[q].work)
      BY <1>2, <2>2
    <3> QED BY <1>0, <3>1, <3>2, OthersOnCourse
  <2> QED BY <2>1, <2>2
<1> QED BY <1>4, <1>5, <1>6 DEF WorksInv, RequestsOnCourse

\* What is known of a request before its step.
LEMMA RequestOnCourse ==
  ASSUME WorksInv, NEW r \in Requests
  PROVE  /\ TypeOK /\ ItemsStored /\ req[r] \in Request /\ OnCourse(r)
         /\ CreatesWork(r) /\ ShowsSections(r) /\ ChecksItems(r) /\ PublishesInOrder(r)
  BY RequestFacts, ExistingItems DEF WorksInv, RequestsOnCourse, OnCourse, TypeOK

LEMMA EndStep ==
  ASSUME WorksInv, NEW r \in Requests, NEW pc \in {"failed", "aborted", "replied"}, End(r, pc),
         UNCHANGED <<stored, works, brokers>>, req[r].pc # "sections",
         pc = "failed" => req[r].pc \in {"idle", "create", "check"},
         pc = "aborted" => req[r].pc = "publish" /\ req[r].user,
         pc = "replied" => req[r].pc = "publish" /\ ~Publishing(r)
  PROVE  WorksInv'
<1>0. /\ TypeOK /\ req[r] \in Request /\ OnCourse(r)
      /\ ChecksItems(r) /\ PublishesInOrder(r)
  BY RequestOnCourse
<1> DEFINE x == [req[r] EXCEPT !.pc = pc]
<1>1. x \in Request /\ req' = [req EXCEPT ![r] = x]
  BY <1>0 DEF Request, End
<1>2. /\ x.pc = pc /\ x.work = req[r].work /\ x.items = req[r].items /\ x.next = req[r].next
      /\ x.given = req[r].given /\ x.user = req[r].user /\ x.results = req[r].results
      /\ x.sent = req[r].sent /\ x.lost = req[r].lost
  BY <1>0 DEF Request
<1> HIDE DEF x
<1>3. req'[r] = x
  BY <1>0, <1>1 DEF TypeOK
<1>4. x.next \in 1 .. Len(x.items) + 1
  BY <1>0, <1>2, RequestFacts
<1>5. CreatesWork(r)' /\ ShowsSections(r)' /\ (req[r].pc = "idle" => req[r] = Idle)'
  BY <1>2, <1>3 DEF CreatesWork, ShowsSections
<1>6. ChecksItems(r)'
  <2>1. \A t : Result(r, t)' = Result(r, t)
    BY <1>2, <1>3 DEF Result
  <2>2. pc = "replied" => ItemsSeen(r)' = ItemsSeen(r)
    BY <1>2, <1>3 DEF ItemsSeen
  <2> QED BY <1>0, <1>2, <1>3, <2>1, <2>2 DEF ChecksItems, Exists
<1>7. PublishesInOrder(r)'
  <2>1. Done(r)' = Done(r)
    BY <1>2, <1>3 DEF Done
  <2>2. pc = "replied" /\ req[r].user => Done(r) = Len(req[r].results)
    <3>1. Len(req[r].results) \in Nat /\ Len(req[r].sent) \in Nat
      BY <1>0, RequestFacts
    <3>2. Done(r) \in Nat
      BY <1>0, <3>1, FS_CardinalityType DEF Done, PublishesInOrder
    <3> QED BY <1>0, <3>1, <3>2 DEF Publishing, PublishesInOrder
  <2> QED BY <1>0, <1>2, <1>3, <2>1, <2>2 DEF PublishesInOrder
<1> QED BY <1>1, <1>2, <1>4, <1>5, <1>6, <1>7, RequestStep DEF OnCourse

LEMMA CreateStep ==
  ASSUME WorksInv, NEW r \in Requests, NEW w \in WorkIds, NEW items \in ItemLists, CreateWork(r, w, items)
  PROVE  WorksInv'
<1>0. /\ TypeOK /\ req[r] \in Request /\ req[r] = Idle
  BY RequestOnCourse DEF CreateWork, OnCourse
<1>a. items \in Seq(Item) /\ items # <<>> /\ Len(items) \in Nat
  BY InputsAssumption
<1> DEFINE x == [req[r] EXCEPT !.pc = "create", !.work = w, !.items = items]
<1>1. x \in Request /\ req' = [req EXCEPT ![r] = x]
  BY <1>0, <1>a DEF Request, CreateWork
<1>2. /\ x.pc = "create" /\ x.work = w /\ x.items = items /\ x.next = 1 /\ x.results = <<>>
      /\ x.sent = <<>> /\ x.lost = {}
  BY <1>0 DEF Idle
<1> HIDE DEF x
<1>3. req'[r] = x /\ \A q \in Requests \ {r} : req'[q] = req[q]
  BY <1>0, <1>1 DEF TypeOK
<1>4. x.next \in 1 .. Len(x.items) + 1
  BY <1>a, <1>2
<1>5. CreatesWork(r)'
  <2>1. /\ ~Exists(w) /\ (\A q \in Requests \ {r} : req[q].work # w) /\ works' = works
    BY DEF CreateWork
  <2>2. 1 .. x.next - 1 = {}
    BY <1>2
  <2> QED BY <1>a, <1>2, <1>3, <2>1, <2>2 DEF CreatesWork, Exists
<1>6. ShowsSections(r)' /\ (req[r].pc = "idle" => req[r] = Idle)' /\ ChecksItems(r)'
  BY <1>2, <1>3 DEF ShowsSections, ChecksItems
<1>7. PublishesInOrder(r)'
  BY <1>2, <1>3, NothingPublished
<1> QED BY <1>1, <1>2, <1>4, <1>5, <1>6, <1>7, RequestStep DEF OnCourse, CreateWork

LEMMA LookUpStep ==
  ASSUME WorksInv, NEW r \in Requests, LookUp(r)
  PROVE  WorksInv'
<1>0. /\ TypeOK /\ req[r] \in Request
      /\ CreatesWork(r) /\ ChecksItems(r) /\ PublishesInOrder(r)
  BY RequestOnCourse
<1>a. /\ Len(req[r].items) \in Nat /\ req[r].next \in 1 .. Len(req[r].items) + 1
      /\ req[r].pc = "create" /\ req[r].next <= Len(req[r].items)
      /\ UNCHANGED <<stored, works, brokers>>
  BY <1>0, RequestFacts DEF LookUp
<1>b. CASE End(r, "failed")
  BY <1>a, <1>b, EndStep
<1>c. CASE /\ req[r].items[req[r].next].content \in stored
           /\ req' = [req EXCEPT ![r].next = @ + 1]
  <2> DEFINE x == [req[r] EXCEPT !.next = @ + 1]
  <2>0. req[r].next + 1 \in Nat \ {0}
    BY <1>a
  <2>1. x \in Request /\ req' = [req EXCEPT ![r] = x]
    BY <1>0, <1>c, <2>0 DEF Request
  <2>2. /\ x.pc = "create" /\ x.work = req[r].work /\ x.items = req[r].items /\ x.next = req[r].next + 1
        /\ x.given = req[r].given /\ x.user = req[r].user /\ x.results = req[r].results
        /\ x.sent = req[r].sent /\ x.lost = req[r].lost
    BY <1>0, <1>a DEF Request
  <2> HIDE DEF x
  <2>3. req'[r] = x /\ \A q \in Requests \ {r} : req'[q] = req[q]
    BY <1>0, <2>1 DEF TypeOK
  <2>4. x.next \in 1 .. Len(x.items) + 1
    BY <1>a, <2>2
  <2>5. CreatesWork(r)'
    <3>1. \A i \in 1 .. x.next - 1 : i \in 1 .. req[r].next - 1 \/ i = req[r].next
      BY <1>a, <2>2
    <3> QED BY <1>0, <1>a, <1>c, <2>2, <2>3, <3>1 DEF CreatesWork, Exists
  <2>6. ShowsSections(r)' /\ (req[r].pc = "idle" => req[r] = Idle)'
    BY <2>2, <2>3 DEF ShowsSections
  <2>7. ChecksItems(r)'
    <3>1. \A t : Result(r, t)' = Result(r, t)
      BY <2>2, <2>3 DEF Result
    <3> QED BY <1>0, <1>a, <2>2, <2>3, <3>1 DEF ChecksItems
  <2>8. PublishesInOrder(r)'
    <3>1. Done(r)' = Done(r)
      BY <2>2, <2>3 DEF Done
    <3> QED BY <1>0, <1>a, <2>2, <2>3, <3>1 DEF PublishesInOrder
  <2> QED BY <1>a, <2>1, <2>2, <2>4, <2>5, <2>6, <2>7, <2>8, RequestStep DEF OnCourse
<1> QED BY <1>b, <1>c DEF LookUp, GetTask, GetTheory

\* The row is inserted: every item was found, and the id is nobody else's.
LEMMA InsertStep ==
  ASSUME WorksInv, NEW r \in Requests, NEW told \in BOOLEAN, InsertWork(r, told)
  PROVE  WorksInv'
<1>0. /\ TypeOK /\ ItemsStored /\ req[r] \in Request
      /\ CreatesWork(r) /\ ChecksItems(r) /\ PublishesInOrder(r) /\ RequestsOnCourse
  BY RequestOnCourse DEF WorksInv
<1> DEFINE w == req[r].work
           items == req[r].items
           pc == IF told THEN "created" ELSE "failed"
           x == [req[r] EXCEPT !.pc = pc]
<1>a. /\ w \in WorkIds /\ ~Exists(w) /\ \A q \in Requests \ {r} : req[q].work # w
      /\ \A i \in 1 .. req[r].next - 1 : items[i].content \in stored
      /\ req[r].pc = "create" /\ items \in Seq(Item) /\ DOMAIN items = 1 .. Len(items)
      /\ Len(items) \in Nat /\ req[r].next \in 1 .. Len(items) + 1 /\ req[r].next > Len(items)
  BY <1>0, RequestFacts DEF CreatesWork, InsertWork
<1>b. /\ Numbered(items) \in Seq(WorkItem) /\ DOMAIN Numbered(items) = 1 .. Len(items)
      /\ \A i \in 1 .. Len(items) : Numbered(items)[i].content \in stored
  <2>1. \A i \in 1 .. Len(items) : i \in 1 .. req[r].next - 1
    BY <1>a
  <2> HIDE DEF items
  <2> QED BY <1>a, <2>1, NumberedItems
<1>1. x \in Request /\ req' = [req EXCEPT ![r] = x] /\ pc \in {"created", "failed"}
  BY <1>0 DEF Request, InsertWork, End
<1>2. /\ x.pc = pc /\ x.work = w /\ x.items = items /\ x.next = req[r].next
      /\ x.given = req[r].given /\ x.user = req[r].user /\ x.results = req[r].results
      /\ x.sent = req[r].sent /\ x.lost = req[r].lost
  BY <1>0 DEF Request
<1>3. req'[r] = x /\ req' \in [Requests -> Request] /\ \A q \in Requests \ {r} : req'[q] = req[q]
  <2> HIDE DEF x
  <2> QED BY <1>0, <1>1 DEF TypeOK
<1> HIDE DEF x, pc, items, w
<1>4. works' = [works EXCEPT ![w] = Numbered(items)] /\ stored' = stored /\ brokers' = brokers
  BY DEF InsertWork, w, items
<1>5. works \in [WorkIds -> Seq(WorkItem)]
  BY <1>0 DEF TypeOK, WorkItem
<1>6. /\ works' \in [WorkIds -> Seq(WorkItem)] /\ works'[w] = Numbered(items)
      /\ \A v \in WorkIds \ {w} : works'[v] = works[v]
  BY <1>a, <1>b, <1>4, <1>5
<1>7. TypeOK'
  <2>1. x.next \in 1 .. Len(x.items) + 1
    BY <1>a, <1>2 DEF items
  <2>2. \A q \in Requests : req'[q].next \in 1 .. Len(req'[q].items) + 1
    BY <1>0, <1>3, <2>1 DEF TypeOK
  <2> QED BY <1>0, <1>3, <1>4, <1>6, <2>2 DEF TypeOK, WorkItem
<1>8. WorkItemsExist'
  <2>1. ItemsStored'
    BY <1>0, <1>b, <1>4, <1>6 DEF ItemsStored
  <2> QED BY <1>7, <2>1, ExistingItemsNext
<1>9. ASSUME NEW q \in Requests PROVE OnCourse(q)'
  <2>1. CASE q # r
    <3>1. OnCourse(q) /\ req'[q] = req[q] /\ req[q].work # w
      BY <1>0, <1>3, <1>a, <2>1 DEF RequestsOnCourse
    <3>2. req[q].work \in WorkIds => works'[req[q].work] = works[req[q].work]
      BY <1>6, <3>1
    <3>3. \A p \in Requests \ {q} : req'[p].work = req[p].work
      BY <1>2, <1>3 DEF w
    <3> QED BY <1>0, <1>4, <3>1, <3>2, <3>3, OthersOnCourse
  <2>2. CASE q = r
    <3>1. CreatesWork(r)' /\ ShowsSections(r)' /\ (req[r].pc = "idle" => req[r] = Idle)'
      BY <1>a, <1>1, <1>2, <1>3, <1>6 DEF CreatesWork, ShowsSections
    <3>2. ChecksItems(r)'
      <4>1. \A t : Result(r, t)' = Result(r, t)
        BY <1>2, <1>3 DEF Result
      <4> QED BY <1>0, <1>a, <1>1, <1>2, <1>3, <4>1 DEF ChecksItems
    <3>3. PublishesInOrder(r)'
      <4>1. Done(r)' = Done(r)
        BY <1>2, <1>3 DEF Done
      <4> QED BY <1>0, <1>a, <1>1, <1>2, <1>3, <4>1 DEF PublishesInOrder
    <3> QED BY <2>2, <3>1, <3>2, <3>3 DEF OnCourse
  <2> QED BY <2>1, <2>2
<1> QED BY <1>7, <1>8, <1>9 DEF WorksInv, RequestsOnCourse

LEMMA SectionsStep ==
  ASSUME WorksInv, NEW r \in Requests, NEW w \in WorkIds, WorkSections(r, w)
  PROVE  WorksInv'
<1>0. /\ TypeOK /\ req[r] \in Request /\ req[r] = Idle /\ RequestsOnCourse
  BY RequestOnCourse DEF WorkSections, OnCourse, WorksInv
<1>a. CASE End(r, "failed")
  BY <1>0, <1>a, EndStep DEF Idle, WorkSections
<1>b. ASSUME Exists(w), NEW s \in Sections(works[w]),
             req' = [req EXCEPT ![r].pc = "sections", ![r].work = w, ![r].results = BuildWorkbookLatex(s)]
      PROVE  WorksInv'
  <2> DEFINE headings == BuildWorkbookLatex(s)
             x == [req[r] EXCEPT !.pc = "sections", !.work = w, !.results = headings]
  <2>0. headings \in Seq(Heading) /\ Len(headings) \in Nat
    <3>1. works[w] \in Seq(WorkItem)
      BY <1>0, WorkFacts
    <3>2. s \in Seq(WorkItem)
      BY <3>1, SectionsOfWork
    <3>3. headings \in Seq(Heading)
      BY <3>2, HeadingsCount
    <3> QED BY <3>3, SeqFacts
  <2> HIDE DEF headings
  <2>1. x \in Request /\ req' = [req EXCEPT ![r] = x]
    BY <1>0, <1>b, <2>0 DEF Request, headings
  <2>2. /\ x.pc = "sections" /\ x.work = w /\ x.results = headings /\ x.next = 1 /\ x.items = <<>>
        /\ x.sent = <<>> /\ x.lost = {}
    BY <1>0 DEF Idle
  <2> HIDE DEF x
  <2>3. req'[r] = x /\ \A q \in Requests \ {r} : req'[q] = req[q]
    BY <1>0, <2>1 DEF TypeOK
  <2>4. x.next \in 1 .. Len(x.items) + 1
    BY <2>2
  <2>5. UNCHANGED <<stored, works, brokers>>
    BY DEF WorkSections
  <2>6. CreatesWork(r)' /\ (req[r].pc = "idle" => req[r] = Idle)' /\ ChecksItems(r)'
    BY <2>2, <2>3 DEF CreatesWork, ChecksItems
  <2>7. ShowsSections(r)'
    BY <1>b, <2>2, <2>3, <2>5 DEF ShowsSections, Exists, headings
  <2>8. PublishesInOrder(r)'
    BY <2>0, <2>2, <2>3, NothingPublished
  <2>9. \A q \in Requests \ {r} : req[q].pc = "create" => w # req[q].work
    BY <1>0, <1>b DEF RequestsOnCourse, OnCourse, CreatesWork
  <2> QED BY <2>1, <2>2, <2>4, <2>5, <2>6, <2>7, <2>8, <2>9, RequestStep DEF OnCourse
<1> QED BY <1>a, <1>b DEF WorkSections

Turns(r, x) == req' = [req EXCEPT ![r] = x]

\* A check begins with nothing graded and nothing sent.
LEMMA BeginCheckStep ==
  ASSUME WorksInv, NEW r \in Requests, req[r].pc = "idle", UNCHANGED <<stored, works, brokers>>,
         NEW w \in WorkIds \cup {NoWork}, NEW items \in Seq(Item), NEW given \in Seq(Given),
         NEW user \in BOOLEAN, w # NoWork => w \in WorkIds /\ Exists(w) /\ items = works[w],
         Turns(r, [req[r] EXCEPT !.pc = "check", !.work = w, !.items = items,
                                 !.given = given, !.user = user])
  PROVE  WorksInv'
<1>0. /\ TypeOK /\ req[r] \in Request /\ req[r] = Idle /\ RequestsOnCourse
  BY RequestOnCourse DEF OnCourse, WorksInv
<1> DEFINE x == [req[r] EXCEPT !.pc = "check", !.work = w, !.items = items,
                               !.given = given, !.user = user]
<1>1. x \in Request /\ req' = [req EXCEPT ![r] = x]
  BY <1>0 DEF Request, Turns
<1>2. /\ x.pc = "check" /\ x.work = w /\ x.items = items /\ x.next = 1 /\ x.given = given
      /\ x.user = user /\ x.results = <<>> /\ x.sent = <<>> /\ x.lost = {}
  BY <1>0 DEF Idle
<1> HIDE DEF x
<1>3. req'[r] = x
  BY <1>0, <1>1 DEF TypeOK
<1>4. x.next \in 1 .. Len(x.items) + 1
  <2>1. Len(items) \in Nat
    BY SeqFacts
  <2> QED BY <1>2, <2>1
<1>5. CreatesWork(r)' /\ (req[r].pc = "idle" => req[r] = Idle)' /\ ShowsSections(r)'
  BY <1>2, <1>3 DEF CreatesWork, ShowsSections
<1>6. ChecksItems(r)'
  <2>1. ItemsSeen(r)' = 0
    BY <1>2, <1>3 DEF ItemsSeen
  <2>2. TasksAmong(items, 0) = <<>>
    BY TasksAmongStep
  <2>3. [i \in DOMAIN x.results |-> x.results[i].task] = <<>>
    BY <1>2
  <2> QED BY <1>2, <1>3, <2>1, <2>2, <2>3 DEF ChecksItems, Exists
<1>7. PublishesInOrder(r)'
  BY <1>2, <1>3, NothingPublished
<1>8. x.work = req[r].work \/ \A q \in Requests \ {r} : req[q].pc = "create" => x.work # req[q].work
  BY <1>0, <1>2 DEF RequestsOnCourse, OnCourse, CreatesWork, Idle
<1> QED BY <1>1, <1>4, <1>5, <1>6, <1>7, <1>8, RequestStep DEF OnCourse

LEMMA CheckWorkStep ==
  ASSUME WorksInv, NEW r \in Requests, NEW w \in WorkIds, NEW given \in Submissions, NEW user \in BOOLEAN,
         CheckWork(r, w, given, user)
  PROVE  WorksInv'
<1>0. TypeOK /\ given \in Seq(Given)
  BY InputsAssumption DEF WorksInv
<1>1. CASE End(r, "failed")
  BY <1>1, EndStep DEF CheckWork
<1>2. CASE /\ Exists(w)
           /\ req' = [req EXCEPT ![r].pc = "check", ![r].work = w, ![r].items = works[w],
                                 ![r].given = given, ![r].user = user]
  <2>1. works[w] \in Seq(Item) /\ w # NoWork
    BY <1>0, WorkFacts, WorkAssumption
  <2>2. Turns(r, [req[r] EXCEPT !.pc = "check", !.work = w, !.items = works[w],
                                !.given = given, !.user = user])
    BY <1>2 DEF Turns
  <2> QED BY <1>0, <1>2, <2>1, <2>2, BeginCheckStep DEF CheckWork
<1> QED BY <1>1, <1>2 DEF CheckWork, GetWork

LEMMA CheckTaskStep ==
  ASSUME WorksInv, NEW r \in Requests, NEW given \in Submissions, given # <<>>, NEW user \in BOOLEAN,
         CheckTask(r, given[1].task, given[1].answer, user)
  PROVE  WorksInv'
<1> DEFINE t == given[1].task
           a == given[1].answer
           items == <<[content |-> t, order |-> 1]>>
           asked == <<[task |-> t, answer |-> a]>>
<1>0. TypeOK /\ given \in Seq(Given) /\ req[r].pc = "idle" /\ req[r] = Idle
  BY InputsAssumption, RequestOnCourse DEF CheckTask, OnCourse
<1>1. given[1] \in Given
  BY <1>0
<1>2. t \in TaskIds /\ a \in Answer
  BY <1>1 DEF Given
<1> HIDE DEF t, a
<1>3. [content |-> t, order |-> 1] \in Item /\ [task |-> t, answer |-> a] \in Given
  BY <1>2 DEF Item, Given, Contents
<1>4. items \in Seq(Item) /\ asked \in Seq(Given)
  BY <1>3
<1>5. Turns(r, [req[r] EXCEPT !.pc = "check", !.work = NoWork, !.items = items,
                              !.given = asked, !.user = user])
  <2>1. req[r].work = NoWork
    BY <1>0 DEF Idle
  <2>2. Turns(r, [req[r] EXCEPT !.pc = "check", !.items = items, !.given = asked, !.user = user])
    BY DEF CheckTask, Turns, t, a
  <2>3. [req[r] EXCEPT !.pc = "check", !.items = items, !.given = asked, !.user = user]
          = [req[r] EXCEPT !.pc = "check", !.work = NoWork, !.items = items, !.given = asked, !.user = user]
    BY <1>0, <2>1 DEF Idle
  <2> QED BY <2>2, <2>3
<1>6. UNCHANGED <<stored, works, brokers>>
  BY DEF CheckTask
<1> HIDE DEF items, asked
<1> QED BY <1>0, <1>4, <1>5, <1>6, BeginCheckStep

\* A result is added for every task among the items, in their order.
LEMMA CheckItemStep ==
  ASSUME WorksInv, NEW r \in Requests, CheckItem(r)
  PROVE  WorksInv'
<1> DEFINE items == req[r].items
           n == req[r].next
           c == items[n].content
           results == req[r].results
<1>0. /\ TypeOK /\ ItemsStored /\ req[r] \in Request /\ ChecksItems(r) /\ PublishesInOrder(r)
  BY RequestOnCourse
<1>a. /\ items \in Seq(Item) /\ Len(items) \in Nat /\ n \in 1 .. Len(items)
      /\ c \in Contents /\ req[r].given \in Seq(Given) /\ Len(results) \in Nat
      /\ DOMAIN results = 1 .. Len(results)
      /\ req[r].pc = "check" /\ UNCHANGED <<stored, works, brokers>>
  <2>1. n \in 1 .. Len(items)
    BY <1>0, RequestFacts DEF CheckItem
  <2> HIDE DEF n
  <2> QED BY <1>0, <2>1, RequestFacts DEF CheckItem, n
<1>b. /\ [i \in DOMAIN results |-> results[i].task] = TasksAmong(items, n - 1)
      /\ \A i \in DOMAIN results : results[i] = Result(r, results[i].task)
      /\ req[r].work # NoWork => Exists(req[r].work) /\ items = works[req[r].work]
  BY <1>0, <1>a DEF ChecksItems, ItemsSeen
<1>c. /\ TasksAmong(items, n - 1) \in Seq(TaskIds)
      /\ TasksAmong(items, n) = IF c \in TaskIds THEN Append(TasksAmong(items, n - 1), c)
                                ELSE TasksAmong(items, n - 1)
  <2>1. n - 1 \in 0 .. Len(items) /\ n - 1 \in 0 .. Len(items) - 1 /\ (n - 1) + 1 = n
    BY <1>a
  <2> HIDE DEF n
  <2> QED BY <1>a, <2>1, TasksAmongStep, TasksAmongTyped
<1>d. /\ results \in Seq(CheckResult)
  <2>1. \A i \in DOMAIN results : results[i].task \in TaskIds
    <3>1. DOMAIN results = DOMAIN TasksAmong(items, n - 1)
      BY <1>b
    <3>2. \A u \in Seq(TaskIds) : \A i \in DOMAIN u : u[i] \in TaskIds
      OBVIOUS
    <3>3. \A i \in DOMAIN results : TasksAmong(items, n - 1)[i] \in TaskIds
      BY ONLY <1>c, <3>1, <3>2
    <3> QED BY <1>b, <3>3
  <2>2. \A i \in DOMAIN results : results[i] \in CheckResult
    BY <1>a, <1>b, <2>1, ResultTyped
  <2>3. results = [i \in 1 .. Len(results) |-> results[i]]
    <3>1. \A S : \A u \in Seq(S) : u = [i \in 1 .. Len(u) |-> u[i]]
      OBVIOUS
    <3>2. results \in Seq(CheckResult) \/ results \in Seq(Heading)
      BY <1>0, RequestFacts
    <3> HIDE DEF results
    <3> QED BY <3>1, <3>2
  <2>4. results \in [1 .. Len(results) -> CheckResult]
    <3> HIDE DEF results
    <3> QED BY <1>a, <2>2, <2>3
  <2> HIDE DEF results
  <2> QED BY <1>a, <2>4, FunctionIsSeq
<1>1. CASE End(r, "failed")
  BY <1>a, <1>1, EndStep
<1>2. ASSUME NEW graded \in Seq(CheckResult),
             Turns(r, [req[r] EXCEPT !.next = n + 1, !.results = graded]),
             \A i \in DOMAIN graded : graded[i] = Result(r, graded[i].task),
             [i \in DOMAIN graded |-> graded[i].task] = TasksAmong(items, n)
      PROVE  WorksInv'
  <2> DEFINE x == [req[r] EXCEPT !.next = n + 1, !.results = graded]
  <2>0. n + 1 \in Nat \ {0}
    BY <1>a
  <2>1. x \in Request /\ req' = [req EXCEPT ![r] = x]
    BY <1>0, <1>2, <2>0 DEF Request, Turns
  <2>2. /\ x.pc = "check" /\ x.work = req[r].work /\ x.items = items /\ x.next = n + 1
        /\ x.given = req[r].given /\ x.user = req[r].user /\ x.results = graded
        /\ x.sent = req[r].sent /\ x.lost = req[r].lost
    BY <1>0, <1>a DEF Request
  <2> HIDE DEF x
  <2>3. req'[r] = x
    BY <1>0, <2>1 DEF TypeOK
  <2> HIDE DEF c, n, items, results
  <2>4. x.next \in 1 .. Len(x.items) + 1
    BY <1>a, <2>2
  <2>5. CreatesWork(r)' /\ (req[r].pc = "idle" => req[r] = Idle)' /\ ShowsSections(r)'
    BY <2>2, <2>3 DEF CreatesWork, ShowsSections
  <2>6. ChecksItems(r)'
    <3>1. \A t : Result(r, t)' = Result(r, t)
      BY <2>2, <2>3 DEF Result
    <3>2. ItemsSeen(r)' = n
      BY <1>a, <2>2, <2>3 DEF ItemsSeen
    <3>3. \A i \in DOMAIN x.results : x.results[i] = Result(r, x.results[i].task)
      BY <1>2, <2>2
    <3>4. /\ req[r].work # NoWork => works[req[r].work] # <<>> /\ x.items = works[req[r].work]
          /\ [i \in DOMAIN x.results |-> x.results[i].task] = TasksAmong(x.items, n)
      BY <1>b, <1>2, <2>2 DEF Exists
    <3>5. works' = works
      BY <1>a
    <3> QED BY <2>2, <2>3, <3>1, <3>2, <3>3, <3>4, <3>5 DEF ChecksItems, Exists
  <2>7. PublishesInOrder(r)'
    <3>1. req[r].sent = <<>> /\ req[r].lost = {}
      BY <1>0, <1>a DEF PublishesInOrder
    <3>2. Len(graded) \in Nat
      BY SeqFacts
    <3> QED BY <2>2, <2>3, <3>1, <3>2, NothingPublished
  <2> QED BY <1>a, <2>1, <2>2, <2>4, <2>5, <2>6, <2>7, RequestStep DEF OnCourse
<1>3. CASE c \in TheoryIds
  <2>1. c \notin TaskIds
    BY <1>3, ContentsAssumption
  <2>2. Turns(r, [req[r] EXCEPT !.next = n + 1, !.results = results])
    <3>1. Turns(r, [req[r] EXCEPT !.next = n + 1])
      <4>1. ~GetTask(c)
        BY <2>1 DEF GetTask
      <4> QED BY <1>3, <4>1 DEF CheckItem, Turns
    <3>2. [req[r] EXCEPT !.next = n + 1] = [req[r] EXCEPT !.next = n + 1, !.results = results]
      BY <1>0 DEF Request
    <3> QED BY <3>1, <3>2
  <2> HIDE DEF c, n, items, results
  <2> QED BY <1>b, <1>c, <1>d, <1>2, <2>1, <2>2
<1>4. CASE GetTask(c) /\ c \notin TheoryIds
  <2> DEFINE result == Result(r, c)
             graded == Append(results, result)
  <2>1. c \in TaskIds /\ c \notin TheoryIds
    BY <1>4 DEF GetTask
  <2>2. result \in CheckResult /\ result.task = c
    BY <1>a, <2>1, ResultTyped
  <2>3. Turns(r, [req[r] EXCEPT !.next = n + 1, !.results = graded])
    BY <1>4 DEF CheckItem, Turns
  <2> HIDE DEF c, n, items, results, result
  <2>4. /\ graded \in Seq(CheckResult) /\ DOMAIN graded = 1 .. Len(results) + 1
        /\ \A i \in DOMAIN results : graded[i] = results[i]
        /\ graded[Len(results) + 1] = result
    BY <1>d, <2>2
  <2>5. \A i \in DOMAIN graded : i \in DOMAIN results \/ i = Len(results) + 1
    BY <1>a, <2>4
  <2> HIDE DEF graded
  <2>6. \A i \in DOMAIN graded : graded[i] = Result(r, graded[i].task)
    BY <1>b, <2>2, <2>4, <2>5 DEF result
  <2>7. [i \in DOMAIN graded |-> graded[i].task] = TasksAmong(items, n)
    <3> DEFINE tasks == [i \in DOMAIN results |-> results[i].task]
    <3>1. tasks \in Seq(TaskIds) /\ Len(tasks) = Len(results)
      <4>1. tasks = TasksAmong(items, n - 1)
        BY <1>b
      <4>2. DOMAIN tasks = 1 .. Len(results)
        BY <1>a
      <4> HIDE DEF tasks
      <4> QED BY <1>a, <1>c, <4>1, <4>2
    <3>2. \A i \in 1 .. Len(results) : tasks[i] = results[i].task
      BY <1>a
    <3>3. TasksAmong(items, n) = Append(tasks, c)
      BY <1>b, <1>c, <2>1
    <3> HIDE DEF tasks
    <3>4. /\ DOMAIN Append(tasks, c) = 1 .. Len(results) + 1
          /\ \A i \in 1 .. Len(results) : Append(tasks, c)[i] = tasks[i]
          /\ Append(tasks, c)[Len(results) + 1] = c
          /\ Append(tasks, c) = [i \in 1 .. Len(results) + 1 |-> Append(tasks, c)[i]]
      BY ONLY <2>1, <3>1, AppendFacts
    <3>5. \A i \in 1 .. Len(results) + 1 : Append(tasks, c)[i] = graded[i].task
      BY <1>a, <2>2, <2>4, <2>5, <3>2, <3>4
    <3>6. DOMAIN graded = 1 .. Len(results) + 1
      BY <2>4
    <3>7. Append(tasks, c) = [i \in 1 .. Len(results) + 1 |-> graded[i].task]
      <4> HIDE DEF graded
      <4> QED BY <3>4, <3>5
    <3> HIDE DEF graded
    <3> QED BY <3>3, <3>6, <3>7
  <2> QED BY <1>2, <2>3, <2>4, <2>6, <2>7
<1> QED BY <1>1, <1>3, <1>4 DEF CheckItem

LEMMA CheckedStep ==
  ASSUME WorksInv, NEW r \in Requests, Checked(r)
  PROVE  WorksInv'
<1>0. /\ TypeOK /\ req[r] \in Request /\ ChecksItems(r) /\ PublishesInOrder(r)
  BY RequestOnCourse
<1>a. /\ Len(req[r].items) \in Nat /\ req[r].next \in 1 .. Len(req[r].items) + 1
      /\ req[r].next > Len(req[r].items) /\ Len(req[r].results) \in Nat
      /\ req[r].pc = "check" /\ UNCHANGED <<stored, works, brokers>>
  BY <1>0, RequestFacts DEF Checked
<1> DEFINE x == [req[r] EXCEPT !.pc = "publish", !.next = 1]
<1>1. x \in Request /\ req' = [req EXCEPT ![r] = x]
  <2>1. 1 \in Nat \ {0}
    OBVIOUS
  <2>2. x \in Request
    BY <1>0, <2>1 DEF Request
  <2> QED BY <2>2 DEF Checked
<1>2. /\ x.pc = "publish" /\ x.work = req[r].work /\ x.items = req[r].items /\ x.next = 1
      /\ x.given = req[r].given /\ x.user = req[r].user /\ x.results = req[r].results
      /\ x.sent = req[r].sent /\ x.lost = req[r].lost
  BY <1>0 DEF Request
<1> HIDE DEF x
<1>3. req'[r] = x
  BY <1>0, <1>1 DEF TypeOK
<1>4. x.next \in 1 .. Len(x.items) + 1
  BY <1>a, <1>2
<1>5. CreatesWork(r)' /\ (req[r].pc = "idle" => req[r] = Idle)' /\ ShowsSections(r)'
  BY <1>2, <1>3 DEF CreatesWork, ShowsSections
<1>6. ChecksItems(r)'
  <2>1. \A t : Result(r, t)' = Result(r, t)
    BY <1>2, <1>3 DEF Result
  <2>2. ItemsSeen(r)' = ItemsSeen(r)
    <3>1. ItemsSeen(r)' = Len(x.items)
      BY <1>2, <1>3 DEF ItemsSeen
    <3>2. ItemsSeen(r) = Len(req[r].items)
      <4>1. req[r].next - 1 = Len(req[r].items)
        BY ONLY <1>a
      <4> QED BY <1>a, <4>1 DEF ItemsSeen
    <3> QED BY <1>2, <3>1, <3>2
  <2> QED BY <1>0, <1>a, <1>2, <1>3, <2>1, <2>2 DEF ChecksItems, Exists
<1>7. PublishesInOrder(r)'
  <2>1. req[r].sent = <<>> /\ req[r].lost = {}
    BY <1>0, <1>a DEF PublishesInOrder
  <2> QED BY <1>a, <1>2, <1>3, <2>1, NothingPublished
<1> QED BY <1>a, <1>1, <1>2, <1>4, <1>5, <1>6, <1>7, RequestStep DEF OnCourse

\* The first n results were sent, in their order, or lost.
FirstOnes(sent, lost, n) ==
  /\ IsFiniteSet(lost) /\ Range(sent) \cup lost = 1 .. n
  /\ Len(sent) + Cardinality(lost) = n
  /\ \A i, j \in DOMAIN sent : i < j => sent[i] < sent[j]

LEMMA SentOrLost ==
  ASSUME NEW before \in Seq(Nat), NEW away, NEW n \in Nat, FirstOnes(before, away, n),
         NEW sent, NEW lost,
         \/ sent = Append(before, n + 1) /\ lost = away
         \/ sent = before /\ lost = away \cup {n + 1}
  PROVE  FirstOnes(sent, lost, n + 1)
<1>a. /\ IsFiniteSet(away) /\ Range(before) \cup away = 1 .. n
      /\ n = Len(before) + Cardinality(away)
      /\ \A i, j \in DOMAIN before : i < j => before[i] < before[j]
  BY DEF FirstOnes
<1>0. /\ 1 .. n + 1 = (1 .. n) \cup {n + 1} /\ n + 1 \in Nat /\ n + 1 \notin away
      /\ Len(before) \in Nat /\ DOMAIN before = 1 .. Len(before) /\ Cardinality(away) \in Nat
  BY <1>a, FS_CardinalityType, SeqFacts
<1>1. CASE sent = Append(before, n + 1) /\ lost = away
  <2>1. /\ Len(sent) = Len(before) + 1 /\ DOMAIN sent = 1 .. Len(before) + 1
        /\ \A i \in 1 .. Len(before) : sent[i] = before[i]
        /\ sent[Len(before) + 1] = n + 1
    BY <1>0, <1>1, AppendFacts
  <2>2. /\ \A i \in DOMAIN sent : i \in DOMAIN before \/ i = Len(before) + 1
        /\ \A i \in DOMAIN before : i \in DOMAIN sent
        /\ Len(before) + 1 \in DOMAIN sent
    BY <1>0, <2>1
  <2>3. Range(sent) = Range(before) \cup {n + 1}
    BY <1>0, <2>1, <2>2 DEF Range
  <2>4. \A i \in DOMAIN before : before[i] \in 1 .. n
    BY <1>a DEF Range
  <2>5. ASSUME NEW i \in DOMAIN sent, NEW j \in DOMAIN sent, i < j PROVE sent[i] < sent[j]
    <3>1. i \in DOMAIN before /\ sent[i] = before[i]
      BY <1>0, <2>1, <2>2, <2>5
    <3>2. CASE j = Len(before) + 1
      BY <2>1, <2>4, <3>1, <3>2
    <3>3. CASE j \in DOMAIN before
      BY <1>0, <1>a, <2>1, <2>5, <3>1, <3>3
    <3> QED BY <2>2, <3>2, <3>3
  <2>6. Range(sent) \cup lost = 1 .. n + 1
    BY <1>0, <1>1, <1>a, <2>3
  <2>7. Len(sent) + Cardinality(lost) = n + 1
    BY <1>0, <1>1, <1>a, <2>1
  <2> QED BY <1>1, <1>a, <2>5, <2>6, <2>7 DEF FirstOnes
<1>2. CASE sent = before /\ lost = away \cup {n + 1}
  <2>1. IsFiniteSet(lost) /\ Cardinality(lost) = Cardinality(away) + 1
    BY <1>0, <1>2, <1>a, FS_AddElement
  <2>2. Range(sent) \cup lost = 1 .. n + 1
    BY <1>0, <1>2, <1>a
  <2>3. Len(sent) + Cardinality(lost) = n + 1
    BY <1>0, <1>2, <1>a, <2>1
  <2> QED BY <1>2, <1>a, <2>1, <2>2, <2>3 DEF FirstOnes
<1> QED BY <1>1, <1>2

LEMMA PublishingStep ==
  ASSUME WorksInv, NEW r \in Requests, Publishing(r), UNCHANGED <<stored, works, brokers>>,
         NEW sent \in Seq(Nat), NEW lost \in SUBSET Nat,
         \/ sent = Append(req[r].sent, Done(r) + 1) /\ lost = req[r].lost
         \/ sent = req[r].sent /\ lost = req[r].lost \cup {Done(r) + 1},
         Turns(r, [req[r] EXCEPT !.sent = sent, !.lost = lost])
  PROVE  WorksInv'
<1>0. /\ TypeOK /\ req[r] \in Request /\ ChecksItems(r) /\ PublishesInOrder(r)
  BY RequestOnCourse
<1>a. /\ Len(req[r].items) \in Nat /\ req[r].next \in 1 .. Len(req[r].items) + 1
      /\ Len(req[r].results) \in Nat /\ req[r].sent \in Seq(Nat) /\ Len(req[r].sent) \in Nat
      /\ req[r].pc = "publish" /\ req[r].user /\ Done(r) < Len(req[r].results)
  BY <1>0, RequestFacts DEF Publishing
<1>b. /\ \A i, j \in DOMAIN req[r].sent : i < j => req[r].sent[i] < req[r].sent[j]
      /\ IsFiniteSet(req[r].lost) /\ Range(req[r].sent) \cup req[r].lost = 1 .. Done(r)
  BY <1>0 DEF PublishesInOrder
<1>c. Done(r) \in Nat /\ Done(r) = Len(req[r].sent) + Cardinality(req[r].lost)
  <2>1. Cardinality(req[r].lost) \in Nat
    BY <1>b, FS_CardinalityType
  <2> QED BY <1>a, <2>1 DEF Done
<1> DEFINE x == [req[r] EXCEPT !.sent = sent, !.lost = lost]
<1>1. x \in Request /\ req' = [req EXCEPT ![r] = x]
  BY <1>0 DEF Request, Turns
<1>2. /\ x.pc = "publish" /\ x.work = req[r].work /\ x.items = req[r].items /\ x.next = req[r].next
      /\ x.given = req[r].given /\ x.user = req[r].user /\ x.results = req[r].results
      /\ x.sent = sent /\ x.lost = lost
  BY <1>0, <1>a DEF Request
<1> HIDE DEF x
<1>3. req'[r] = x
  BY <1>0, <1>1 DEF TypeOK
<1>4. x.next \in 1 .. Len(x.items) + 1
  BY <1>a, <1>2
<1>5. CreatesWork(r)' /\ (req[r].pc = "idle" => req[r] = Idle)' /\ ShowsSections(r)'
  BY <1>2, <1>3 DEF CreatesWork, ShowsSections
<1>6. ChecksItems(r)'
  <2>1. \A t : Result(r, t)' = Result(r, t)
    BY <1>2, <1>3 DEF Result
  <2>2. ItemsSeen(r)' = ItemsSeen(r)
    BY <1>a, <1>2, <1>3 DEF ItemsSeen
  <2>3. \A i \in DOMAIN x.results : x.results[i] = Result(r, x.results[i].task)
    BY <1>0, <1>a, <1>2 DEF ChecksItems
  <2>4. /\ req[r].work # NoWork => works[req[r].work] # <<>> /\ req[r].items = works[req[r].work]
        /\ [i \in DOMAIN x.results |-> x.results[i].task] = TasksAmong(req[r].items, ItemsSeen(r))
    BY <1>0, <1>a, <1>2 DEF ChecksItems, Exists
  <2>5. works' = works
    OBVIOUS
  <2> QED BY <1>2, <1>3, <2>1, <2>2, <2>3, <2>4, <2>5 DEF ChecksItems, Exists
<1>7. FirstOnes(sent, lost, Done(r) + 1)
  <2>1. FirstOnes(req[r].sent, req[r].lost, Done(r))
    BY <1>b, <1>c DEF FirstOnes
  <2> QED BY <1>a, <1>c, <2>1, SentOrLost
<1>8. PublishesInOrder(r)'
  <2>1. Done(r)' = Done(r) + 1
    BY <1>2, <1>3, <1>7 DEF Done, FirstOnes
  <2>2. Done(r) + 1 <= Len(req[r].results)
    BY <1>a, <1>c
  <2> QED BY <1>a, <1>2, <1>3, <1>7, <2>1, <2>2 DEF PublishesInOrder, FirstOnes
<1> QED BY <1>1, <1>2, <1>4, <1>5, <1>6, <1>8, RequestStep DEF OnCourse

LEMMA PublishStep ==
  ASSUME WorksInv, NEW r \in Requests, Publish(r) \/ PublishFails(r)
  PROVE  WorksInv'
<1>0. TypeOK /\ req[r] \in Request /\ PublishesInOrder(r)
  BY RequestOnCourse
<1>a. /\ req[r].sent \in Seq(Nat) /\ Len(req[r].sent) \in Nat /\ req[r].lost \subseteq Nat
      /\ Publishing(r) /\ UNCHANGED <<stored, works, brokers>>
  BY <1>0, RequestFacts DEF Publish, PublishFails
<1>b. Done(r) + 1 \in Nat
  BY <1>0, <1>a, FS_CardinalityType DEF Done, PublishesInOrder
<1>1. CASE Publish(r)
  <2> DEFINE sent == Append(req[r].sent, Done(r) + 1)
  <2>1. sent \in Seq(Nat)
    BY <1>a, <1>b
  <2>2. Turns(r, [req[r] EXCEPT !.sent = sent])
    BY <1>1 DEF Publish, Turns
  <2> HIDE DEF sent
  <2>3. [req[r] EXCEPT !.sent = sent] = [req[r] EXCEPT !.sent = sent, !.lost = req[r].lost]
    BY <1>0 DEF Request
  <2>4. Turns(r, [req[r] EXCEPT !.sent = sent, !.lost = req[r].lost])
    BY <2>2, <2>3
  <2> QED BY <1>a, <2>1, <2>4, PublishingStep DEF sent
<1>2. CASE PublishFails(r)
  <2> DEFINE lost == req[r].lost \cup {Done(r) + 1}
  <2>1. lost \in SUBSET Nat
    BY <1>a, <1>b
  <2>2. Turns(r, [req[r] EXCEPT !.lost = lost])
    BY <1>2 DEF PublishFails, Turns
  <2> HIDE DEF lost
  <2>3. [req[r] EXCEPT !.lost = lost] = [req[r] EXCEPT !.sent = req[r].sent, !.lost = lost]
    BY <1>0 DEF Request
  <2>4. Turns(r, [req[r] EXCEPT !.sent = req[r].sent, !.lost = lost])
    BY <2>2, <2>3
  <2> QED BY <1>a, <2>1, <2>4, PublishingStep DEF lost
<1> QED BY <1>1, <1>2

LEMMA StoreStep ==
  ASSUME WorksInv, NEW c \in Contents, Store(c)
  PROVE  WorksInv'
<1>0. TypeOK /\ WorkItemsExist /\ RequestsOnCourse
  BY DEF WorksInv
<1>1. stored' = stored \cup {c} /\ works' = works /\ brokers' = brokers /\ req' = req
  BY DEF Store
<1>2. TypeOK'
  BY <1>0, <1>1 DEF TypeOK
<1>3. WorkItemsExist'
  <2>1. ItemsStored'
    BY <1>0, <1>1, ExistingItems DEF ItemsStored
  <2> QED BY <1>2, <2>1, ExistingItemsNext
<1>4. ASSUME NEW q \in Requests PROVE OnCourse(q)'
  BY <1>0, <1>1, OthersOnCourse DEF RequestsOnCourse
<1> QED BY <1>2, <1>3, <1>4 DEF WorksInv, RequestsOnCourse

LEMMA InitWorks == Init => WorksInv
<1> SUFFICES ASSUME Init PROVE WorksInv
  OBVIOUS
<1>1. Idle \in Request /\ Idle.next \in 1 .. Len(Idle.items) + 1
  <2>1. <<>> \in Seq(Item) /\ <<>> \in Seq(Given) /\ <<>> \in Seq(CheckResult) /\ <<>> \in Seq(Nat)
    OBVIOUS
  <2>2. {} \in SUBSET Nat /\ 1 \in Nat \ {0} /\ Len(<<>>) = 0
    OBVIOUS
  <2> QED BY <2>1, <2>2 DEF Idle, Request
<1>2. \A r \in Requests : req[r] = Idle
  BY DEF Init
<1>3. TypeOK
  <2>1. <<>> \in Seq([content : Contents, order : Int \ {0}])
    OBVIOUS
  <2> QED BY <1>1, <2>1 DEF Init, TypeOK
<1>4. WorkItemsExist
  BY DEF Init, WorkItemsExist, ListWorks, Exists
<1>5. ASSUME NEW r \in Requests PROVE OnCourse(r)
  <2>1. /\ req[r] = Idle /\ Idle.pc = "idle" /\ Idle.results = <<>> /\ Idle.sent = <<>> /\ Idle.lost = {}
    BY <1>2 DEF Idle
  <2>2. CreatesWork(r) /\ ShowsSections(r) /\ ChecksItems(r)
    BY <2>1 DEF CreatesWork, ShowsSections, ChecksItems
  <2>3. PublishesInOrder(r)
    <3>1. Done(r) = 0 /\ 1 .. Done(r) = {}
      BY <2>1, NothingSent DEF Done
    <3> QED BY <2>1, <3>1, NothingSent DEF PublishesInOrder
  <2> QED BY <2>1, <2>2, <2>3 DEF OnCourse
<1> QED BY <1>3, <1>4, <1>5 DEF WorksInv, RequestsOnCourse

LEMMA NextWorks == WorksInv /\ [Next]_vars => WorksInv'
<1> SUFFICES ASSUME WorksInv, [Next]_vars PROVE WorksInv'
  OBVIOUS
<1>1. ASSUME NEW t \in TaskIds, CreateTask(t) PROVE WorksInv'
  BY <1>1, StoreStep DEF CreateTask, Contents
<1>2. ASSUME NEW h \in TheoryIds, CreateTheory(h) PROVE WorksInv'
  BY <1>2, StoreStep DEF CreateTheory, Contents
<1>3. ASSUME NEW r \in Requests, PublishPanics(r) \/ Reply(r) \/ Fail(r) PROVE WorksInv'
  BY <1>3, EndStep DEF PublishPanics, Reply, Fail, Publishing
<1>4. CASE UNCHANGED vars
  <2>1. stored' = stored /\ works' = works /\ brokers' = brokers /\ req' = req
    BY <1>4 DEF vars
  <2>2. TypeOK' /\ WorkItemsExist'
    BY <2>1 DEF WorksInv, TypeOK, WorkItemsExist, ListWorks, Exists, GetWork, GetTask, GetTheory, ListTheory
  <2>3. ASSUME NEW q \in Requests PROVE OnCourse(q)'
    BY <2>1, OthersOnCourse DEF WorksInv, RequestsOnCourse
  <2> QED BY <2>2, <2>3 DEF WorksInv, RequestsOnCourse
<1> QED BY <1>1, <1>2, <1>3, <1>4, CreateStep, LookUpStep, InsertStep, SectionsStep, CheckWorkStep,
           CheckTaskStep, CheckItemStep, CheckedStep, PublishStep DEF Next

\* For any requests, items and answers: the tasks and theory of every work
\* exist, and every request does what it was begun for -- inserts a work whose
\* items it has found, under an id that is nobody else's; shows the sections of
\* its work; grades the tasks it has seen; publishes the first results in order.
THEOREM WorksInvariant == Spec => []WorksInv
  BY InitWorks, NextWorks, PTL DEF Spec

-----------------------------------------------------------------------------
(* What follows for every state. *)

\* Results are published once, in order, for a named user, and only by checks
\* that succeed; what a reply leaves unpublished was lost on the way.
THEOREM EventsOncePerResult == Spec => []OneEventPerResult
<1>1. WorksInv => OneEventPerResult
  <2> SUFFICES ASSUME WorksInv, NEW r \in Requests
               PROVE  /\ req[r].pc = "failed" => req[r].sent = <<>>
                      /\ req[r].sent # <<>> => req[r].user
                      /\ \A i, j \in DOMAIN req[r].sent : i < j => req[r].sent[i] < req[r].sent[j]
                      /\ req[r].pc = "replied" /\ req[r].user =>
                           Range(req[r].sent) \cup req[r].lost = DOMAIN req[r].results
    BY DEF OneEventPerResult
  <2>1. TypeOK /\ PublishesInOrder(r)
    BY RequestOnCourse
  <2>2. req[r].user \in BOOLEAN /\ DOMAIN req[r].results = 1 .. Len(req[r].results)
    BY <2>1, RequestFacts
  <2> QED BY <2>1, <2>2 DEF PublishesInOrder
<1> QED BY <1>1, WorksInvariant, PTL

\* A reply has one result per task of the work, in its order, for the answer
\* that was given last.
THEOREM RepliesCoverWork == Spec => []ReplyCoversWork
<1>1. WorksInv => ReplyCoversWork
  <2> SUFFICES ASSUME WorksInv, NEW r \in Requests, req[r].pc = "replied"
               PROVE  /\ req[r].work # NoWork =>
                           [i \in DOMAIN req[r].results |-> req[r].results[i].task]
                             = WorkTemplateReply(req[r].work)
                      /\ \A i \in DOMAIN req[r].results, k \in DOMAIN req[r].given :
                           /\ req[r].given[k].task = req[r].results[i].task
                           /\ \A l \in DOMAIN req[r].given :
                                l > k => req[r].given[l].task # req[r].given[k].task
                           => req[r].results[i].answer = req[r].given[k].answer
    BY DEF ReplyCoversWork
  <2>1. TypeOK /\ ChecksItems(r)
    BY RequestOnCourse
  <2>2. ASSUME req[r].work # NoWork
        PROVE  [i \in DOMAIN req[r].results |-> req[r].results[i].task] = WorkTemplateReply(req[r].work)
    <3>1. /\ req[r].items = works[req[r].work]
          /\ [i \in DOMAIN req[r].results |-> req[r].results[i].task]
               = TasksAmong(req[r].items, Len(req[r].items))
      BY <2>1, <2>2 DEF ChecksItems, ItemsSeen
    <3> QED BY <3>1 DEF WorkTemplateReply, GetWork
  <2>3. ASSUME NEW i \in DOMAIN req[r].results, NEW k \in DOMAIN req[r].given,
               req[r].given[k].task = req[r].results[i].task,
               \A l \in DOMAIN req[r].given : l > k => req[r].given[l].task # req[r].given[k].task
        PROVE  req[r].results[i].answer = req[r].given[k].answer
    <3>1. req[r].results[i] = Result(r, req[r].results[i].task)
      BY <2>1 DEF ChecksItems
    <3>2. \A t : Result(r, t).answer = AnswerByTask(req[r].given, t)
      BY DEF Result
    <3>3. req[r].results[i].answer = AnswerByTask(req[r].given, req[r].results[i].task)
      BY <3>1, <3>2
    <3>4. req[r].given \in Seq(Given)
      BY <2>1, RequestFacts
    <3> QED BY <2>3, <3>3, <3>4, LastAnswer
  <2> QED BY <2>2, <2>3
<1> QED BY <1>1, WorksInvariant, PTL

\* The sections of a work keep the order the teacher gave, and its tasks count
\* up in that order, whatever its items and their titles.
THEOREM SectionsInOrder == Spec => []SectionsKeepOrder
<1>1. WorksInv => SectionsKeepOrder
  <2> SUFFICES ASSUME WorksInv, NEW r \in Requests, NEW q \in Requests,
                      req[r].pc = "sections", req[q].pc = "created", req[q].work = req[r].work,
                      NEW i \in DOMAIN req[q].items, NEW j \in DOMAIN req[q].items,
                      ListedBefore(req[q].items, i, j)
               PROVE  ShownBefore(req[r].results, req[q].items[i].content, req[q].items[j].content)
    BY DEF SectionsKeepOrder
  <2>1. TypeOK /\ ShowsSections(r) /\ CreatesWork(q)
    BY RequestOnCourse
  <2>2. PICK items, work, headings : items = req[q].items /\ work = works[req[r].work] /\ headings = req[r].results
    OBVIOUS
  <2>3. items \in Seq(Item) /\ work = Numbered(items) /\ i \in DOMAIN items /\ j \in DOMAIN items
    BY <2>1, <2>2, RequestFacts DEF CreatesWork
  <2>4. PICK s \in Sections(work) : headings = BuildWorkbookLatex(s)
    BY <2>1, <2>2 DEF ShowsSections
  <2>5. /\ work \in Seq(WorkItem) /\ i \in DOMAIN work /\ j \in DOMAIN work
        /\ work[i].content = items[i].content /\ work[j].content = items[j].content
        /\ work[i].order < work[j].order
    BY <2>2, <2>3, NumberedItems DEF ListedBefore
  <2>6. /\ s \in Seq(WorkItem)
        /\ \E k, l \in DOMAIN s : s[k] = work[i] /\ s[l] = work[j] /\ k < l
    BY <2>5, SectionsOfWork
  <2>7. PICK k, l \in DOMAIN s : s[k] = work[i] /\ s[l] = work[j] /\ k < l
    BY <2>6
  <2>8. /\ DOMAIN headings = DOMAIN s /\ headings[k].content = s[k].content /\ headings[l].content = s[l].content
        /\ s[k].content \in TaskIds /\ s[l].content \in TaskIds => headings[k].number < headings[l].number
    <3>1. /\ DOMAIN headings = DOMAIN s /\ \A m \in DOMAIN s : headings[m].content = s[m].content
          /\ \A m, o \in DOMAIN s :
               m < o /\ s[m].content \in TaskIds /\ s[o].content \in TaskIds =>
                 headings[m].number < headings[o].number
      BY <2>4, <2>6, HeadingsCount
    <3> QED BY <2>7, <3>1
  <2>9. /\ k \in DOMAIN headings /\ l \in DOMAIN headings /\ k < l
        /\ headings[k].content = items[i].content /\ headings[l].content = items[j].content
        /\ items[i].content \in TaskIds /\ items[j].content \in TaskIds =>
             headings[k].number < headings[l].number
    BY <2>5, <2>7, <2>8
  <2> QED BY <2>2, <2>9 DEF ShownBefore
<1> QED BY <1>1, WorksInvariant, PTL

\* A numeric answer counts exactly when its numbers can be paired with the
\* expected ones within the tolerance, whatever the tolerance and the numbers.
THEOREM VerdictsPair == Spec => []VerdictIsPairing
<1>1. WorksInv => VerdictIsPairing
  <2> SUFFICES ASSUME WorksInv, NEW r \in Requests, req[r].pc # "sections", NEW i \in DOMAIN req[r].results,
                      IsNumeric(CorrectAnswer[req[r].results[i].task]), IsNumeric(req[r].results[i].answer),
                      FreeOfNaN(CorrectAnswer[req[r].results[i].task]), FreeOfNaN(req[r].results[i].answer)
               PROVE  req[r].results[i].correct
                        <=> CanBePaired(CorrectAnswer[req[r].results[i].task], req[r].results[i].answer)
    BY DEF VerdictIsPairing
  <2>1. TypeOK /\ ChecksItems(r)
    BY RequestOnCourse
  <2>2. PICK x : x = req[r].results[i]
    OBVIOUS
  <2>3. x = Result(r, x.task)
    BY <2>1, <2>2 DEF ChecksItems
  <2>4. x \in CheckResult
    <3>1. CASE req[r].results \in Seq(CheckResult)
      BY <2>2, <3>1, SeqFacts
    <3>2. CASE req[r].results \in Seq(Heading)
      <4>1. x \in Heading
        BY <2>2, <3>2, SeqFacts
      <4>2. DOMAIN x = {"content", "number"}
        BY <4>1 DEF Heading
      <4>3. DOMAIN x = {"task", "answer", "correct"}
        BY <2>3 DEF Result
      <4> QED BY <4>2, <4>3
    <3> QED BY <2>1, <3>1, <3>2, RequestFacts
  <2>5. x.task \in TaskIds /\ x.answer \in Answer
    BY <2>4 DEF CheckResult
  <2>6. CorrectAnswer[x.task] \in Answer
    BY <2>5, ContentsAssumption
  <2>7. x.correct = IsCorrectAnswer(CorrectAnswer[x.task], x.answer)
    <3>1. \A t : Result(r, t).correct = IsCorrectAnswer(CorrectAnswer[t], Result(r, t).answer)
      BY DEF Result
    <3> QED BY <2>3, <3>1
  <2> QED BY <2>2, <2>5, <2>6, <2>7, VerdictPairs
<1> QED BY <1>1, WorksInvariant, PTL
=============================================================================
