--------------------------- MODULE MetricsProofs ---------------------------
(***************************************************************************)
(* Facts about the report's operators: sums, sorting and percentiles.      *)
(* Induction over a sequence is an argument about the least number for     *)
(* which a statement fails.                                                *)
(***************************************************************************)
EXTENDS Metrics, FiniteSetTheorems, NaturalsInduction, WellFoundedInduction, TLAPS

\* A set of numbers has a least one.
LEMMA LeastNumber ==
  ASSUME NEW S \in SUBSET Nat, S # {}
  PROVE  \E i \in S : \A j \in S : i <= j
<1>1. \E i \in S : \A j \in S : ~(<<j, i>> \in OpToRel(<, Nat))
  BY NatLessThanWellFounded, WFMin, Zenon
<1>2. \A i, j \in Nat : j < i => <<j, i>> \in OpToRel(<, Nat)
  BY DEF OpToRel
<1>3. \A i, j \in Nat : ~(j < i) => i <= j
  OBVIOUS
<1> QED
  BY <1>1, <1>2, <1>3

-----------------------------------------------------------------------------
(* Sums.                                                                   *)

\* The partial sums of a sequence.
Partial(s, f, n) ==
  /\ f \in [0..n -> Int]
  /\ f[0] = 0
  /\ \A k \in 1..n : f[k] = f[k - 1] + s[k]

\* Every sequence of integers has partial sums.
LEMMA PartialExists ==
  ASSUME NEW s \in Seq(Int), NEW n \in 0..Len(s)
  PROVE  \E f : Partial(s, f, n)
<1> DEFINE Bad == {m \in 0..Len(s) : ~ \E f : Partial(s, f, m)}
<1> SUFFICES ASSUME Bad # {}
             PROVE  FALSE
  OBVIOUS
<1>1. Bad \in SUBSET Nat
  OBVIOUS
<1>2. PICK m \in Bad : \A j \in Bad : m <= j
  BY <1>1, LeastNumber
<1>3. m \in 0..Len(s) /\ Len(s) \in Nat /\ ~ \E f : Partial(s, f, m)
  OBVIOUS
<1>4. CASE m = 0
  <2>1. Partial(s, [k \in 0..0 |-> 0], 0)
    BY DEF Partial
  <2> QED
    BY <1>3, <1>4, <2>1
<1>5. CASE m # 0
  <2>1. m - 1 \in 0..Len(s) /\ m - 1 \notin Bad
    BY <1>2, <1>3, <1>5
  <2>2. PICK f : Partial(s, f, m - 1)
    BY <2>1
  <2> DEFINE g == [k \in 0..m |-> IF k = m THEN f[m - 1] + s[m] ELSE f[k]]
  <2>3. s[m] \in Int
    BY <1>3, <1>5
  <2>4. /\ g \in [0..m -> Int] /\ g[0] = 0
    BY <1>3, <1>5, <2>2, <2>3 DEF Partial
  <2>5. \A k \in 1..m : g[k] = g[k - 1] + s[k]
    BY <1>3, <1>5, <2>2 DEF Partial
  <2>6. Partial(s, g, m)
    BY <2>4, <2>5 DEF Partial
  <2> QED
    BY <1>3, <2>6
<1> QED
  BY <1>4, <1>5

\* Total is the last of the partial sums.
LEMMA TotalPartial ==
  ASSUME NEW s \in Seq(Int), NEW f, Partial(s, f, Len(s))
  PROVE  Total(s) = f[Len(s)]
<1> DEFINE Eq(g) == g = [n \in 0..Len(s) |-> IF n = 0 THEN 0 ELSE g[n - 1] + s[n]]
           g == CHOOSE part : Eq(part)
<1>1. Total(s) = g[Len(s)]
  BY DEF Total
<1>0. Len(s) \in Nat
  OBVIOUS
<1>2. Eq(f)
  BY <1>0 DEF Partial
<1>3. Eq(g)
  BY <1>2
<1> HIDE DEF g
<1>4. /\ g[0] = 0
      /\ \A k \in 1..Len(s) : g[k] = g[k - 1] + s[k]
  BY <1>0, <1>3
<1> DEFINE Bad == {n \in 0..Len(s) : g[n] # f[n]}
<1>5. Bad = {}
  <2> SUFFICES ASSUME Bad # {}
               PROVE  FALSE
    OBVIOUS
  <2>1. Bad \in SUBSET Nat
    OBVIOUS
  <2>2. PICK m \in Bad : \A j \in Bad : m <= j
    BY <2>1, LeastNumber
  <2>3. m # 0
    BY <1>4, <2>2 DEF Partial
  <2>4. m \in 1..Len(s) /\ m - 1 \in 0..Len(s) /\ m - 1 \notin Bad
    <3>1. m \in 0..Len(s)
      OBVIOUS
    <3>2. m \in 1..Len(s) /\ m - 1 \in 0..Len(s) /\ ~(m <= m - 1)
      BY <1>0, <2>3, <3>1
    <3> HIDE DEF Bad
    <3> QED
      BY <2>2, <3>2
  <2>5. g[m] = g[m - 1] + s[m] /\ f[m] = f[m - 1] + s[m] /\ g[m - 1] = f[m - 1]
    BY <1>4, <2>4 DEF Partial
  <2> QED
    BY <2>2, <2>5
<1> QED
  BY <1>0, <1>1, <1>5

\* The sum of nothing.
LEMMA TotalEmpty == Total(<<>>) = 0
<1>1. Len(<<>>) = 0 /\ <<>> \in Seq(Int)
  OBVIOUS
<1>2. Partial(<<>>, [k \in 0..0 |-> 0], 0)
  BY DEF Partial
<1>3. Total(<<>>) = [k \in 0..0 |-> 0][0]
  BY <1>1, <1>2, TotalPartial
<1> QED
  BY <1>3

\* The sum of integers is one.
LEMMA TotalType ==
  ASSUME NEW s \in Seq(Int)
  PROVE  Total(s) \in Int
<1>1. PICK f : Partial(s, f, Len(s))
  BY PartialExists
<1>2. Total(s) = f[Len(s)]
  BY <1>1, TotalPartial
<1>3. f \in [0..Len(s) -> Int] /\ Len(s) \in 0..Len(s)
  BY <1>1 DEF Partial
<1> QED
  BY <1>2, <1>3

\* The sum of a sequence put after another.
LEMMA TotalConcat ==
  ASSUME NEW s \in Seq(Int), NEW t \in Seq(Int)
  PROVE  Total(s \o t) = Total(s) + Total(t)
<1> DEFINE m == Len(s)
           n == Len(t)
           u == s \o t
<1>0. /\ m \in Nat /\ n \in Nat /\ Len(u) = m + n /\ u \in Seq(Int)
      /\ \A k \in 1..m : u[k] = s[k]
      /\ \A k \in 1..n : u[m + k] = t[k] /\ t[k] \in Int
  OBVIOUS
<1>1. PICK f : Partial(s, f, m)
  BY <1>0, PartialExists
<1>2. PICK g : Partial(t, g, n)
  BY <1>0, PartialExists
<1>3. Total(s) = f[m] /\ Total(t) = g[n]
  BY <1>1, <1>2, TotalPartial
<1>f. f \in [0..m -> Int] /\ f[0] = 0 /\ \A k \in 1..m : f[k] = f[k - 1] + s[k]
  BY <1>1 DEF Partial
<1>g. g \in [0..n -> Int] /\ g[0] = 0 /\ \A k \in 1..n : g[k] = g[k - 1] + t[k]
  BY <1>2 DEF Partial
<1> HIDE DEF m, n, u
<1> DEFINE h == [k \in 0..m + n |-> IF k <= m THEN f[k] ELSE f[m] + g[k - m]]
<1>4. h \in [0..m + n -> Int] /\ h[0] = 0
  <2>1. \A k \in 0..m + n : k > m => k - m \in 0..n
    BY <1>0
  <2>2. f[m] \in Int
    BY <1>0, <1>f
  <2>3. \A k \in 0..m + n : k <= m => k \in 0..m
    BY <1>0
  <2>4. ASSUME NEW k \in 0..m + n PROVE h[k] \in Int
    <3>1. CASE k <= m
      <4>1. h[k] = f[k] /\ k \in 0..m
        BY <2>3, <3>1
      <4> QED
        BY <1>f, <4>1
    <3>2. CASE ~(k <= m)
      <4>1. k > m
        BY <1>0, <3>2
      <4>2. g[k - m] \in Int
        BY <1>g, <2>1, <4>1
      <4>3. h[k] = f[m] + g[k - m]
        BY <3>2
      <4> QED
        BY <2>2, <4>2, <4>3
    <3> QED
      BY <3>1, <3>2
  <2>5. h[0] = f[0]
    <3>1. 0 \in 0..m + n /\ 0 <= m
      BY <1>0
    <3> QED
      BY <3>1
  <2> QED
    BY <1>f, <2>4, <2>5
<1>5. \A k \in 1..m + n : h[k] = h[k - 1] + u[k]
  <2> SUFFICES ASSUME NEW k \in 1..m + n
               PROVE  h[k] = h[k - 1] + u[k]
    OBVIOUS
  <2>0. f[m] \in Int
    BY <1>0, <1>f
  <2>1. CASE k <= m
    BY <1>0, <1>f, <2>1
  <2>2. CASE k > m
    <3> DEFINE i == k - m
    <3>1. i \in 1..n /\ i - 1 \in 0..n /\ m + i = k
      BY <1>0, <2>2
    <3>2. g[i] = g[i - 1] + t[i] /\ g[i - 1] \in Int
      BY <1>g, <3>1
    <3>3. u[k] = t[i] /\ t[i] \in Int
      BY <1>0, <3>1
    <3>4. h[k] = f[m] + g[i]
      BY <1>0, <2>2
    <3>5. h[k - 1] = f[m] + g[i - 1]
      <4>1. CASE i = 1
        <5>1. k - 1 = m /\ k - 1 \in 0..m + n /\ k - 1 <= m /\ i - 1 = 0
          BY <1>0, <3>1, <4>1
        <5>2. h[k - 1] = f[m]
          BY <5>1
        <5>3. f[m] + g[i - 1] = f[m]
          BY <1>g, <2>0, <5>1
        <5> QED
          BY <5>2, <5>3
      <4>2. CASE i # 1
        <5>1. k - 1 > m /\ k - 1 \in 0..m + n /\ (k - 1) - m = i - 1
          BY <1>0, <2>2, <4>2
        <5> QED
          BY <1>0, <5>1
      <4> QED
        BY <4>1, <4>2
    <3> HIDE DEF i
    <3> QED
      BY <2>0, <3>2, <3>3, <3>4, <3>5
  <2> QED
    BY <1>0, <2>1, <2>2
<1>6. Partial(u, h, Len(u))
  BY <1>0, <1>4, <1>5 DEF Partial
<1>7. Total(u) = h[m + n]
  BY <1>0, <1>6, TotalPartial
<1>8. h[m + n] = f[m] + g[n]
  <2>1. CASE n = 0
    BY <1>0, <1>f, <1>g, <2>1
  <2>2. CASE n # 0
    <3>1. m + n > m /\ m + n - m = n /\ m + n \in 0..m + n
      BY <1>0, <2>2
    <3> QED
      BY <1>0, <3>1
  <2> QED
    BY <2>1, <2>2
<1> QED
  BY <1>3, <1>7, <1>8 DEF u

\* The sum of one number.
LEMMA TotalOne ==
  ASSUME NEW x \in Int
  PROVE  Total(<<x>>) = x
<1>1. Len(<<x>>) = 1 /\ <<x>> \in Seq(Int) /\ <<x>>[1] = x
  OBVIOUS
<1> DEFINE f == [k \in 0..1 |-> IF k = 0 THEN 0 ELSE x]
<1>2. f \in [0..1 -> Int] /\ f[0] = 0 /\ f[1] = x
  OBVIOUS
<1>3. Partial(<<x>>, f, 1)
  BY <1>1, <1>2 DEF Partial
<1> QED
  BY <1>1, <1>2, <1>3, TotalPartial

\* The sum with one more number.
LEMMA TotalAppend ==
  ASSUME NEW s \in Seq(Int), NEW x \in Int
  PROVE  Total(Append(s, x)) = Total(s) + x
<1>1. Append(s, x) = s \o <<x>> /\ <<x>> \in Seq(Int)
  OBVIOUS
<1> QED
  BY <1>1, TotalConcat, TotalOne

-----------------------------------------------------------------------------
(* Sorting.                                                                *)

\* A sequence that is not empty has a largest number.
LEMMA MaxIndex ==
  ASSUME NEW n \in Nat, n # 0, NEW t \in [1..n -> Int]
  PROVE  \E m \in 1..n : \A i \in 1..n : t[i] <= t[m]
<1> DEFINE Top(k) == \E m \in 1..k : \A i \in 1..k : t[i] <= t[m]
           Bad == {k \in 1..n : ~ Top(k)}
<1>0. n \in 1..n /\ \A i \in 1..n : t[i] \in Int
  OBVIOUS
<1>1. CASE Bad = {}
  <2>1. Top(n)
    BY <1>0, <1>1
  <2> QED
    BY <2>1
<1>2. CASE Bad # {}
  <2>1. Bad \in SUBSET Nat
    OBVIOUS
  <2>2. PICK k \in Bad : \A j \in Bad : k <= j
    BY <1>2, <2>1, LeastNumber
  <2>3. k \in Nat /\ 1 <= k /\ k <= n /\ ~ Top(k)
    OBVIOUS
  <2>4. \A j \in 1..n : j < k => Top(j)
    <3> SUFFICES ASSUME NEW j \in 1..n, j < k, ~ Top(j)
                 PROVE  FALSE
      OBVIOUS
    <3>1. j \in Bad
      OBVIOUS
    <3>2. k <= j
      BY <2>2, <3>1
    <3> HIDE DEF Top, Bad
    <3> QED
      BY <2>3, <3>2
  <2>5. Top(1)
    <3>1. t[1] \in Int
      BY <1>0, <2>3
    <3>2. 1..1 = {1}
      OBVIOUS
    <3> QED
      BY <3>1, <3>2
  <2>6. k # 1
    BY <2>3, <2>5
  <2>7. k - 1 \in 1..n /\ k - 1 < k /\ k \in 1..k /\ k \in 1..n
    BY <2>3, <2>6
  <2>8. Top(k - 1)
    BY <2>4, <2>7
  <2>9. PICK m \in 1..k - 1 : \A i \in 1..k - 1 : t[i] <= t[m]
    BY <2>8
  <2>10. \A i \in 1..k : i \in 1..n /\ t[i] \in Int /\ (i = k \/ i \in 1..k - 1)
    BY <1>0, <2>3
  <2>11. m \in 1..k /\ t[m] \in Int /\ t[k] \in Int
    BY <2>3, <2>7, <2>9, <2>10
  <2> HIDE DEF Top, Bad
  <2>12. CASE t[k] <= t[m]
    <3>1. \A i \in 1..k : t[i] <= t[m]
      BY <2>9, <2>10, <2>12
    <3> QED
      BY <2>3, <2>11, <3>1 DEF Top
  <2>13. CASE t[m] <= t[k]
    <3>1. \A i \in 1..k : t[i] <= t[k]
      BY <2>9, <2>10, <2>11, <2>13
    <3> QED
      BY <2>3, <2>7, <3>1 DEF Top
  <2>14. t[k] <= t[m] \/ t[m] <= t[k]
    BY <2>11
  <2> QED
    BY <2>12, <2>13, <2>14
<1> QED
  BY <1>1, <1>2

\* Numbers can be sorted: the largest goes to the end and the last in its
\* place.
LEMMA SortExists ==
  ASSUME NEW n \in Nat, NEW t \in [1..n -> Int]
  PROVE  \E q \in [1..n -> 1..n] : Sorts(q, t)
<1> DEFINE Sortable(m) == \A u \in [1..m -> Int] : \E q \in [1..m -> 1..m] : Sorts(q, u)
           Bad == {m \in Nat : ~ Sortable(m)}
<1>1. CASE Bad = {}
  <2>1. Sortable(n)
    BY <1>1
  <2> QED
    BY <2>1
<1>2. CASE Bad # {}
  <2>1. Bad \in SUBSET Nat
    OBVIOUS
  <2>2. PICK k \in Bad : \A j \in Bad : k <= j
    BY <1>2, <2>1, LeastNumber
  <2>3. k \in Nat /\ ~ Sortable(k)
    OBVIOUS
  <2>4. \A j \in Nat : j < k => Sortable(j)
    <3> SUFFICES ASSUME NEW j \in Nat, j < k, ~ Sortable(j)
                 PROVE  FALSE
      OBVIOUS
    <3>1. j \in Bad
      OBVIOUS
    <3>2. k <= j
      BY <2>2, <3>1
    <3> HIDE DEF Sortable, Bad
    <3> QED
      BY <2>3, <3>2
  <2>5. Sortable(0)
    <3> SUFFICES ASSUME NEW u \in [1..0 -> Int]
                 PROVE  \E q \in [1..0 -> 1..0] : Sorts(q, u)
      OBVIOUS
    <3>1. DOMAIN u = {} /\ u \in [1..0 -> 1..0]
      OBVIOUS
    <3> QED
      BY <3>1 DEF Sorts
  <2>6. k # 0
    BY <2>3, <2>5
  <2>7. k - 1 \in Nat /\ k - 1 < k /\ k \in 1..k
    BY <2>3, <2>6
  <2>8. Sortable(k - 1)
    BY <2>4, <2>7
  <2>9. PICK u \in [1..k -> Int] : ~ \E q \in [1..k -> 1..k] : Sorts(q, u)
    BY <2>3
  <2>10. \A v \in [1..k - 1 -> Int] : \E q \in [1..k - 1 -> 1..k - 1] : Sorts(q, v)
    BY <2>8
  <2> HIDE DEF Sortable, Bad
  <2>11. PICK m \in 1..k : \A i \in 1..k : u[i] <= u[m]
    BY <2>3, <2>6, MaxIndex
  <2>12. \A i \in 1..k - 1 : i \in 1..k /\ i # k
    BY <2>3
  <2>13. \A i \in 1..k : i = k \/ i \in 1..k - 1
    BY <2>3
  <2> DEFINE v == [i \in 1..k - 1 |-> IF i = m THEN u[k] ELSE u[i]]
  <2>14. v \in [1..k - 1 -> Int]
    BY <2>7, <2>12
  <2>15. PICK q \in [1..k - 1 -> 1..k - 1] : Sorts(q, v)
    BY <2>10, <2>14
  <2>16. \A i \in 1..k - 1 : q[i] \in 1..k - 1
    OBVIOUS
  <2> DEFINE r == [i \in 1..k |-> IF i = k THEN m ELSE IF q[i] = m THEN k ELSE q[i]]
  <2>17. r[k] = m /\ \A i \in 1..k - 1 : r[i] = IF q[i] = m THEN k ELSE q[i]
    BY <2>7, <2>12
  <2>18. \A i \in 1..k : r[i] \in 1..k
    BY <2>7, <2>11, <2>12, <2>13, <2>16, <2>17
  <2>19. r \in [1..k -> 1..k]
    BY <2>18
  <2>20. \A i \in 1..k - 1 : v[i] = IF i = m THEN u[k] ELSE u[i]
    OBVIOUS
  <2>21. DOMAIN u = 1..k /\ DOMAIN v = 1..k - 1
    OBVIOUS
  <2> HIDE DEF r, v
  <2>22. \A i \in 1..k - 1 : u[r[i]] = v[q[i]]
    BY <2>16, <2>17, <2>20
  <2>23. /\ \A i, j \in 1..k - 1 : q[i] = q[j] => i = j
         /\ \A i, j \in 1..k - 1 : i < j => v[q[i]] <= v[q[j]]
    BY <2>15, <2>21 DEF Sorts
  <2>24. \A i, j \in 1..k : r[i] = r[j] => i = j
    <3> SUFFICES ASSUME NEW i \in 1..k, NEW j \in 1..k, r[i] = r[j]
                 PROVE  i = j
      OBVIOUS
    <3>1. \A x \in 1..k - 1 : q[x] # k /\ r[x] # m
      BY <2>12, <2>16, <2>17
    <3>2. CASE i = k \/ j = k
      BY <2>13, <2>17, <3>1, <3>2
    <3>3. CASE i # k /\ j # k
      <4>1. i \in 1..k - 1 /\ j \in 1..k - 1
        BY <2>13, <3>3
      <4>2. q[i] = q[j]
        BY <2>17, <3>1, <4>1
      <4> QED
        BY <2>23, <4>1, <4>2
    <3> QED
      BY <3>2, <3>3
  <2>25. \A i, j \in 1..k : i < j => u[r[i]] <= u[r[j]]
    <3> SUFFICES ASSUME NEW i \in 1..k, NEW j \in 1..k, i < j
                 PROVE  u[r[i]] <= u[r[j]]
      OBVIOUS
    <3>1. i \in 1..k - 1
      BY <2>3
    <3>2. CASE j = k
      BY <2>11, <2>17, <2>18, <3>2
    <3>3. CASE j # k
      <4>1. j \in 1..k - 1
        BY <2>13, <3>3
      <4> QED
        BY <2>22, <2>23, <3>1, <4>1
    <3> QED
      BY <3>2, <3>3
  <2>26. Sorts(r, u)
    BY <2>21, <2>24, <2>25 DEF Sorts
  <2> QED
    BY <2>9, <2>19, <2>26
<1> QED
  BY <1>1, <1>2

\* What sort returns.
LEMMA SortFacts ==
  ASSUME NEW s \in Seq(Int)
  PROVE  \E q \in [1..Len(s) -> 1..Len(s)] :
            Sorts(q, s) /\ sort(s) = [i \in 1..Len(s) |-> s[q[i]]]
<1>1. s \in [1..Len(s) -> Int] /\ DOMAIN s = 1..Len(s) /\ Len(s) \in Nat
  OBVIOUS
<1>2. \E q \in [1..Len(s) -> 1..Len(s)] : Sorts(q, s)
  BY <1>1, SortExists
<1> DEFINE p == CHOOSE q \in [1..Len(s) -> 1..Len(s)] : Sorts(q, s)
<1>3. p \in [1..Len(s) -> 1..Len(s)] /\ Sorts(p, s)
  BY <1>2
<1>4. sort(s) = [i \in 1..Len(s) |-> s[p[i]]]
  BY <1>1 DEF sort
<1> HIDE DEF p
<1> QED
  BY <1>3, <1>4

\* The k-th number in order: it is one of the numbers, fewer than k are
\* smaller and at least k are no larger.
LEMMA SortedRank ==
  ASSUME NEW s \in Seq(Int), NEW k \in 1..Len(s)
  PROVE  /\ sort(s)[k] \in Int
         /\ \E i \in 1..Len(s) : s[i] = sort(s)[k]
         /\ IsFiniteSet({i \in 1..Len(s) : s[i] < sort(s)[k]})
         /\ IsFiniteSet({i \in 1..Len(s) : s[i] <= sort(s)[k]})
         /\ Cardinality({i \in 1..Len(s) : s[i] < sort(s)[k]}) <= k - 1
         /\ Cardinality({i \in 1..Len(s) : s[i] <= sort(s)[k]}) >= k
<1> DEFINE n == Len(s)
           v == sort(s)[k]
           Smaller == {i \in 1..n : s[i] < v}
           NoLarger == {i \in 1..n : s[i] <= v}
<1>1. PICK q \in [1..n -> 1..n] : Sorts(q, s) /\ sort(s) = [i \in 1..n |-> s[q[i]]]
  BY SortFacts
<1>2. n \in Nat /\ DOMAIN s = 1..n /\ \A i \in 1..n : s[i] \in Int
  OBVIOUS
<1>3. v = s[q[k]] /\ q[k] \in 1..n /\ v \in Int
  BY <1>1, <1>2
<1> HIDE DEF n, v
<1>4. \A i, j \in 1..n : q[i] = q[j] => i = j
  BY <1>1, <1>2 DEF Sorts
<1>5. \A i, j \in 1..n : i < j => s[q[i]] <= s[q[j]]
  BY <1>1, <1>2 DEF Sorts
<1>6. IsFiniteSet(1..n) /\ IsFiniteSet(Smaller) /\ IsFiniteSet(NoLarger) /\ Cardinality(1..n) = n
  <2>1. IsFiniteSet(1..n) /\ Cardinality(1..n) = n
    BY <1>2, FS_Interval
  <2> QED
    BY <2>1, FS_Subset
<1>7. k \in 1..n /\ n \in Nat /\ k \in Nat /\ 1 <= k /\ k <= n
  BY <1>2 DEF n
<1>8. Cardinality(NoLarger) >= k
  <2>1. \A i \in 1..k : i \in 1..n /\ (i < k \/ i = k)
    <3> SUFFICES ASSUME NEW i \in 1..k
                 PROVE  i \in 1..n /\ (i < k \/ i = k)
      OBVIOUS
    <3>1. i \in Int /\ 1 <= i /\ i <= k
      BY <1>7
    <3> QED
      BY <1>7, <3>1
  <2>2. \A i \in 1..k : q[i] \in 1..n
    BY <1>1, <2>1
  <2>3. \A i \in 1..k : s[q[i]] <= v
    <3> SUFFICES ASSUME NEW i \in 1..k
                 PROVE  s[q[i]] <= v
      OBVIOUS
    <3>1. CASE i < k
      BY <1>3, <1>5, <1>7, <2>1, <3>1
    <3>2. CASE i = k
      BY <1>3, <3>2
    <3> QED
      BY <2>1, <3>1, <3>2
  <2> DEFINE f == [i \in 1..k |-> q[i]]
  <2>4. f \in [1..k -> NoLarger] /\ \A i \in 1..k : f[i] = q[i]
    BY <2>2, <2>3
  <2> HIDE DEF f
  <2>5. \A i, j \in 1..k : f[i] = f[j] => i = j
    BY <1>4, <2>1, <2>4
  <2>6. f \in Injection(1..k, NoLarger)
    BY <2>4, <2>5 DEF Injection, IsInjective
  <2>7. IsFiniteSet(1..k) /\ Cardinality(1..k) = k
    BY <1>7, FS_Interval
  <2>8. Cardinality(1..k) <= Cardinality(NoLarger)
    BY <1>6, <2>6, <2>7, FS_Injection
  <2>9. Cardinality(NoLarger) \in Nat
    BY <1>6, FS_CardinalityType
  <2> HIDE DEF NoLarger
  <2> QED
    BY <1>7, <2>7, <2>8, <2>9
<1>9. Cardinality(Smaller) <= k - 1
  <2> DEFINE Rest == (1..n) \ Smaller
  <2>1. \A i \in k..n : i \in 1..n /\ (k < i \/ i = k)
    BY <1>2, <1>7
  <2>2. \A i \in k..n : q[i] \in 1..n /\ s[q[i]] \in Int
    BY <1>1, <1>2, <2>1
  <2>3. \A i \in k..n : v <= s[q[i]]
    <3> SUFFICES ASSUME NEW i \in k..n
                 PROVE  v <= s[q[i]]
      OBVIOUS
    <3>1. CASE k < i
      BY <1>3, <1>5, <1>7, <2>1, <3>1
    <3>2. CASE i = k
      BY <1>3, <3>2
    <3> QED
      BY <2>1, <3>1, <3>2
  <2>4. \A i \in k..n : ~(s[q[i]] < v)
    BY <1>3, <2>2, <2>3
  <2> DEFINE f == [i \in k..n |-> q[i]]
  <2>5. f \in [k..n -> Rest] /\ \A i \in k..n : f[i] = q[i]
    BY <2>2, <2>4
  <2> HIDE DEF f
  <2>6. \A i, j \in k..n : f[i] = f[j] => i = j
    BY <1>4, <2>1, <2>5
  <2>7. f \in Injection(k..n, Rest)
    BY <2>5, <2>6 DEF Injection, IsInjective
  <2>8. IsFiniteSet(k..n) /\ Cardinality(k..n) = n - k + 1
    BY <1>2, <1>7, FS_Interval
  <2>9. /\ IsFiniteSet(Rest)
        /\ Cardinality(Rest) = n - Cardinality((1..n) \cap Smaller)
    BY <1>6, FS_Difference
  <2>10. (1..n) \cap Smaller = Smaller
    OBVIOUS
  <2>11. Cardinality(k..n) <= Cardinality(Rest)
    BY <2>7, <2>8, <2>9, FS_Injection
  <2>12. Cardinality(Smaller) \in Nat
    BY <1>6, FS_CardinalityType
  <2> HIDE DEF Smaller, Rest
  <2>13. n - k + 1 <= n - Cardinality(Smaller)
    BY <2>8, <2>9, <2>10, <2>11
  <2> QED
    BY <1>2, <1>7, <2>12, <2>13
<1> QED
  BY <1>3, <1>6, <1>8, <1>9 DEF n, v

-----------------------------------------------------------------------------
(* Percentiles.                                                            *)

\* The percentiles a report has.
Ranks == {50, 95, 99}

\* The rounded rank is a position, within half a batch of p(n-1)/100.
LEMMA PercentileIndexFacts ==
  ASSUME NEW n \in Nat, n # 0, NEW p \in Ranks
  PROVE  /\ PercentileIndex(n, p) \in 0..n - 1
         /\ 200 * PercentileIndex(n, p) <= 2 * p * (n - 1) + 100
         /\ 200 * PercentileIndex(n, p) > 2 * p * (n - 1) - 100
<1> DEFINE target == 2 * p * (n - 1)
           idx == (target + 100) \div 200
<1>1. target \in Nat /\ target <= 200 * (n - 1)
  <2>1. CASE p = 50
    BY <2>1
  <2>2. CASE p = 95
    BY <2>2
  <2>3. CASE p = 99
    BY <2>3
  <2> QED
    BY <2>1, <2>2, <2>3 DEF Ranks
<1>2. PercentileIndex(n, p) = IF idx < n - 1 THEN idx ELSE n - 1
  BY DEF PercentileIndex
<1> HIDE DEF target
<1>3. idx \in Nat /\ 200 * idx <= target + 100 /\ target + 100 < 200 * idx + 200
  BY <1>1
<1> HIDE DEF idx
<1>4. /\ PercentileIndex(n, p) \in 0..n - 1
      /\ 200 * PercentileIndex(n, p) <= target + 100
      /\ 200 * PercentileIndex(n, p) > target - 100
  <2>1. CASE idx < n - 1
    BY <1>1, <1>2, <1>3, <2>1
  <2>2. CASE ~(idx < n - 1)
    BY <1>1, <1>2, <1>3, <2>2
  <2> QED
    BY <2>1, <2>2
<1> QED
  BY <1>4 DEF target

\* v is one of the numbers of s and has the rank p asks for, to the nearest.
HasRank(s, p, v) ==
  /\ v \in Int
  /\ \E i \in 1..Len(s) : s[i] = v
  /\ 200 * Cardinality({i \in 1..Len(s) : s[i] < v}) <= 2 * p * (Len(s) - 1) + 100
  /\ 200 * (Cardinality({i \in 1..Len(s) : s[i] <= v}) - 1) > 2 * p * (Len(s) - 1) - 100

\* What percentile picks out of numbers that are not none at all.
LEMMA PercentileRank ==
  ASSUME NEW s \in Seq(Int), s # <<>>, NEW p \in Ranks, NEW v,
         v = percentile(sort(s), p)
  PROVE  HasRank(s, p, v)
<1> DEFINE n == Len(s)
           x == PercentileIndex(n, p)
           target == 2 * p * (n - 1)
           Smaller == {i \in 1..n : s[i] < v}
           NoLarger == {i \in 1..n : s[i] <= v}
<1>1. n \in Nat /\ n # 0 /\ p \in Int
  BY DEF Ranks
<1>2. x \in 0..n - 1 /\ 200 * x <= target + 100 /\ 200 * x > target - 100
  <2> HIDE DEF n
  <2> QED
    BY <1>1, PercentileIndexFacts, Zenon
<1>3. sort(s) # <<>> /\ Len(sort(s)) = n
  <2>1. PICK q \in [1..n -> 1..n] : sort(s) = [i \in 1..n |-> s[q[i]]]
    BY SortFacts
  <2> QED
    BY <1>1, <2>1
<1>4. v = sort(s)[x + 1]
  BY <1>3 DEF percentile
<1> HIDE DEF x
<1>5. x + 1 \in 1..Len(s) /\ x \in Int
  BY <1>1, <1>2
<1>6. /\ v \in Int
      /\ \E i \in 1..n : s[i] = v
      /\ IsFiniteSet(Smaller)
      /\ IsFiniteSet(NoLarger)
      /\ Cardinality(Smaller) <= (x + 1) - 1
      /\ Cardinality(NoLarger) >= x + 1
  <2>1. PICK k \in 1..Len(s) : k = x + 1
    BY <1>5
  <2>2. /\ sort(s)[k] \in Int
        /\ \E i \in 1..Len(s) : s[i] = sort(s)[k]
        /\ IsFiniteSet({i \in 1..Len(s) : s[i] < sort(s)[k]})
        /\ IsFiniteSet({i \in 1..Len(s) : s[i] <= sort(s)[k]})
        /\ Cardinality({i \in 1..Len(s) : s[i] < sort(s)[k]}) <= k - 1
        /\ Cardinality({i \in 1..Len(s) : s[i] <= sort(s)[k]}) >= k
    BY SortedRank, Zenon
  <2>3. sort(s)[k] = v
    BY <1>4, <2>1
  <2> QED
    BY <2>1, <2>2, <2>3, Zenon
<1>7. Cardinality(Smaller) \in Nat /\ Cardinality(NoLarger) \in Nat
  BY <1>6, FS_CardinalityType
<1>8. target \in Int
  BY <1>1
<1> HIDE DEF Smaller, NoLarger, target
<1>9. 200 * Cardinality(Smaller) <= target + 100
  BY <1>2, <1>5, <1>6, <1>7, <1>8
<1>10. 200 * (Cardinality(NoLarger) - 1) > target - 100
  BY <1>2, <1>5, <1>6, <1>7, <1>8
<1> QED
  BY <1>6, <1>9, <1>10 DEF Smaller, NoLarger, target, HasRank

\* How many numbers exceed a bound, for a v beyond the bound and for one
\* within it.
LEMMA ExceedingCount ==
  ASSUME NEW n \in Nat, NEW s \in [1..n -> Int], NEW v \in Int, NEW bound \in Int
  PROVE  LET Over == Cardinality({i \in 1..n : s[i] > bound})
         IN  IF v > bound
             THEN Over >= n - Cardinality({i \in 1..n : s[i] < v})
             ELSE Over <= n - Cardinality({i \in 1..n : s[i] <= v})
<1> DEFINE Exceeding == {i \in 1..n : s[i] > bound}
           Smaller == {i \in 1..n : s[i] < v}
           NoLarger == {i \in 1..n : s[i] <= v}
           Rest(T) == (1..n) \ T
<1>1. IsFiniteSet(1..n) /\ Cardinality(1..n) = n
  BY FS_Interval
<1>2. \A T \in SUBSET (1..n) : /\ IsFiniteSet(T) /\ Cardinality(T) \in Nat
                               /\ IsFiniteSet(Rest(T))
                               /\ Cardinality(Rest(T)) = n - Cardinality(T)
  <2> SUFFICES ASSUME NEW T \in SUBSET (1..n)
               PROVE  /\ IsFiniteSet(T) /\ Cardinality(T) \in Nat
                      /\ IsFiniteSet(Rest(T))
                      /\ Cardinality(Rest(T)) = n - Cardinality(T)
    OBVIOUS
  <2>1. IsFiniteSet(T) /\ Cardinality(T) \in Nat
    BY <1>1, FS_Subset, FS_CardinalityType
  <2>2. (1..n) \cap T = T
    OBVIOUS
  <2>3. /\ IsFiniteSet(Rest(T))
        /\ Cardinality(Rest(T)) = n - Cardinality((1..n) \cap T)
    BY <1>1, FS_Difference
  <2> QED
    BY <2>1, <2>2, <2>3
<1>3. /\ Exceeding \in SUBSET (1..n)
      /\ Smaller \in SUBSET (1..n)
      /\ NoLarger \in SUBSET (1..n)
  OBVIOUS
<1>4. \A i \in 1..n : s[i] \in Int
  OBVIOUS
<1>5. CASE v > bound
  <2>1. Rest(Smaller) \in SUBSET Exceeding
    BY <1>4, <1>5
  <2> HIDE DEF Exceeding, Smaller, NoLarger, Rest
  <2>2. Cardinality(Rest(Smaller)) <= Cardinality(Exceeding)
    BY <1>2, <1>3, <2>1, FS_Subset
  <2>3. Cardinality(Exceeding) >= n - Cardinality(Smaller)
    BY <1>2, <1>3, <2>2
  <2> QED
    BY <1>5, <2>3 DEF Exceeding, Smaller
<1>6. CASE ~(v > bound)
  <2>1. Exceeding \in SUBSET Rest(NoLarger)
    BY <1>4, <1>6
  <2> HIDE DEF Exceeding, Smaller, NoLarger, Rest
  <2>2. Cardinality(Exceeding) <= Cardinality(Rest(NoLarger))
    BY <1>2, <1>3, <2>1, FS_Subset
  <2>3. Cardinality(Exceeding) <= n - Cardinality(NoLarger)
    BY <1>2, <1>3, <2>2
  <2> QED
    BY <1>6, <2>3 DEF Exceeding, NoLarger
<1> QED
  BY <1>5, <1>6
=============================================================================
