---------------------------- MODULE PolicyProofs ----------------------------
(***************************************************************************)
(* Proofs about the two policies with a memory, for any thresholds,        *)
(* budgets, latencies, rates and arrivals and for a ring of any size.      *)
(***************************************************************************)
EXTENDS PolicyEngine, FiniteSetTheorems, NaturalsInduction, WellFoundedInduction, TLAPS

-----------------------------------------------------------------------------
(* Rounding up.                                                            *)

\* CeilDiv is the quotient rounded up.
LEMMA CeilDivBounds ==
  ASSUME NEW a \in Nat, NEW b \in Nat \ {0}
  PROVE  /\ CeilDiv(a, b) \in Nat
         /\ a <= CeilDiv(a, b) * b
         /\ CeilDiv(a, b) * b <= a + b - 1
<1> DEFINE n == a + b - 1
<1>1. n \in Nat
  OBVIOUS
<1>2. n = b * (n \div b) + (n % b) /\ n % b \in 0..b - 1 /\ n \div b \in Int
  OBVIOUS
<1>3. CeilDiv(a, b) = n \div b
  BY DEF CeilDiv
<1> DEFINE q == n \div b
           r == n % b
<1> HIDE DEF q, r
<1>4. q \in Int /\ r \in 0..b - 1 /\ a + b - 1 = b * q + r
  BY <1>2 DEF q, r
<1>5. q >= 0
  BY <1>4
<1>6. a <= q * b /\ q * b <= a + b - 1
  BY <1>4
<1> QED
  BY <1>3, <1>4, <1>5, <1>6 DEF q

\* The smaller of two fractions, by their cross products, is not rounded up
\* to the larger number.
LEMMA CeilDivMonotone ==
  ASSUME NEW a \in Nat, NEW b \in Nat \ {0}, NEW c \in Nat, NEW d \in Nat \ {0},
         a * d <= c * b
  PROVE  CeilDiv(a, b) <= CeilDiv(c, d)
<1> DEFINE p == CeilDiv(a, b)
           q == CeilDiv(c, d)
<1>1. p \in Nat /\ q \in Nat /\ p * b <= a + b - 1 /\ c <= q * d
  BY CeilDivBounds
<1> HIDE DEF p, q
<1>2. a * d <= (q * d) * b
  <2>1. c * b <= (q * d) * b
    BY <1>1
  <2> QED
    BY <1>1, <2>1
<1>3. a <= q * b
  <2>1. (q * d) * b = (q * b) * d
    BY <1>1
  <2>2. a * d <= (q * b) * d
    BY <1>2, <2>1
  <2> QED
    BY <1>1, <2>2
<1>4. p * b < (q + 1) * b
  BY <1>1, <1>3
<1>5. p < q + 1
  BY <1>1, <1>4
<1> QED
  BY <1>1, <1>5 DEF p, q

-----------------------------------------------------------------------------
(* The adaptive policy.                                                    *)

\* The two factors are fractions.
LEMMA FactorTypes ==
  ASSUME NEW g \in Nat, NEW l \in Nat
  PROVE  /\ GrowthFactor(g)[1] \in Nat /\ GrowthFactor(g)[2] \in Nat \ {0}
         /\ LatencyFactor(l)[1] \in Nat /\ LatencyFactor(l)[2] \in Nat \ {0}
<1>1. Scale \in Nat \ {0} /\ LatencyBudget \in Nat
  BY AdaptiveAssumptions
<1>2. GrowthFactor(g)[1] \in Nat /\ GrowthFactor(g)[2] \in Nat \ {0}
  BY <1>1 DEF GrowthFactor
<1>3. LatencyFactor(l)[1] \in Nat /\ LatencyFactor(l)[2] \in Nat \ {0}
  <2>1. CASE l = 0 \/ 10 * l <= 7 * LatencyBudget
    <3>1. LatencyFactor(l) = <<1, 1>>
      BY <1>1, <2>1 DEF LatencyFactor
    <3> QED
      BY <3>1
  <2>2. CASE l > 0 /\ 10 * l > 7 * LatencyBudget /\ 20 * l >= 21 * LatencyBudget
    <3>1. LatencyFactor(l) = <<3, 10>>
      BY <1>1, <2>2 DEF LatencyFactor
    <3> QED
      BY <3>1
  <2>3. CASE l > 0 /\ 10 * l > 7 * LatencyBudget /\ 20 * l < 21 * LatencyBudget
    <3>1. LatencyFactor(l) = <<24 * LatencyBudget - 20 * l, 10 * LatencyBudget>>
      BY <1>1, <2>3 DEF LatencyFactor
    <3> QED
      BY <1>1, <2>3, <3>1
  <2> QED
    BY <1>1, <2>1, <2>2, <2>3
<1> QED
  BY <1>2, <1>3

\* A longer latency does not have the larger factor.
LEMMA LatencyFactorFalls ==
  ASSUME NEW l \in Nat, NEW m \in Nat, l <= m
  PROVE  LatencyFactor(m)[1] * LatencyFactor(l)[2]
           <= LatencyFactor(l)[1] * LatencyFactor(m)[2]
<1> DEFINE B == LatencyBudget
           Low(x) == x = 0 \/ 10 * x <= 7 * B
           High(x) == x > 0 /\ 10 * x > 7 * B /\ 20 * x >= 21 * B
           Mid(x) == x > 0 /\ 10 * x > 7 * B /\ 20 * x < 21 * B
<1>1. B \in Nat
  BY AdaptiveAssumptions
<1>2. \A x \in Nat : /\ Low(x) => LatencyFactor(x)[1] = 1 /\ LatencyFactor(x)[2] = 1
                     /\ High(x) => LatencyFactor(x)[1] = 3 /\ LatencyFactor(x)[2] = 10
                     /\ Mid(x) => /\ LatencyFactor(x)[1] = 24 * B - 20 * x
                                  /\ LatencyFactor(x)[2] = 10 * B
  BY <1>1 DEF LatencyFactor
<1>3. \A x \in Nat : Low(x) \/ High(x) \/ Mid(x)
  BY <1>1
<1> DEFINE ln == LatencyFactor(l)[1]
           ld == LatencyFactor(l)[2]
           mn == LatencyFactor(m)[1]
           md == LatencyFactor(m)[2]
<1>4. /\ Low(l) => ln = 1 /\ ld = 1
      /\ High(l) => ln = 3 /\ ld = 10
      /\ Mid(l) => ln = 24 * B - 20 * l /\ ld = 10 * B
      /\ Low(m) => mn = 1 /\ md = 1
      /\ High(m) => mn = 3 /\ md = 10
      /\ Mid(m) => mn = 24 * B - 20 * m /\ md = 10 * B
  BY <1>2
<1>5. (Low(l) \/ High(l) \/ Mid(l)) /\ (Low(m) \/ High(m) \/ Mid(m))
  BY <1>3
<1> HIDE DEF ln, ld, mn, md, B
<1>6. CASE Mid(l) /\ Mid(m)
  <2>1. mn <= ln /\ ln \in Nat /\ mn \in Nat /\ ld = md /\ ld \in Nat
    BY <1>1, <1>4, <1>6
  <2>2. mn * ld <= ln * md
    BY <2>1
  <2> QED
    BY <2>2 DEF ln, ld, mn, md
<1>7. CASE ~(Mid(l) /\ Mid(m))
  <2>1. mn * ld <= ln * md
    BY <1>1, <1>4, <1>5, <1>7
  <2> QED
    BY <2>1 DEF ln, ld, mn, md
<1> QED
  BY <1>6, <1>7

\* The products of the factors have their types.
LEMMA ScaledType ==
  ASSUME NEW g \in Nat, NEW l \in Nat
  PROVE  /\ BaseCount * GrowthFactor(g)[1] * LatencyFactor(l)[1] \in Nat
         /\ GrowthFactor(g)[2] * LatencyFactor(l)[2] \in Nat \ {0}
         /\ Scaled(g, l) \in Nat
<1>1. /\ GrowthFactor(g)[1] \in Nat /\ GrowthFactor(g)[2] \in Nat \ {0}
      /\ LatencyFactor(l)[1] \in Nat /\ LatencyFactor(l)[2] \in Nat \ {0}
      /\ BaseCount \in Nat
  BY FactorTypes, AdaptiveAssumptions
<1>2. /\ BaseCount * GrowthFactor(g)[1] * LatencyFactor(l)[1] \in Nat
      /\ GrowthFactor(g)[2] * LatencyFactor(l)[2] \in Nat \ {0}
  BY <1>1
<1> QED
  BY <1>2, CeilDivBounds DEF Scaled

\* At a given growth a longer latency does not scale to the larger threshold.
LEMMA ScaledFalls ==
  ASSUME NEW g \in Nat, NEW l \in Nat, NEW m \in Nat, l <= m
  PROVE  Scaled(g, m) <= Scaled(g, l)
<1> DEFINE base == BaseCount * GrowthFactor(g)[1]
           den == GrowthFactor(g)[2]
           ln == LatencyFactor(l)[1]
           ld == LatencyFactor(l)[2]
           mn == LatencyFactor(m)[1]
           md == LatencyFactor(m)[2]
<1>1. /\ GrowthFactor(g)[1] \in Nat /\ den \in Nat \ {0} /\ BaseCount \in Nat
      /\ ln \in Nat /\ ld \in Nat \ {0} /\ mn \in Nat /\ md \in Nat \ {0}
  BY FactorTypes, AdaptiveAssumptions
<1>2. base \in Nat
  BY <1>1
<1>3. mn * ld <= ln * md
  BY LatencyFactorFalls
<1>4. /\ base * mn \in Nat /\ base * ln \in Nat
      /\ den * ld \in Nat \ {0} /\ den * md \in Nat \ {0}
      /\ Scaled(g, m) = CeilDiv(base * mn, den * md)
      /\ Scaled(g, l) = CeilDiv(base * ln, den * ld)
  <2>1. /\ Scaled(g, m) = CeilDiv(base * mn, den * md)
        /\ Scaled(g, l) = CeilDiv(base * ln, den * ld)
    BY DEF Scaled
  <2> HIDE DEF base, den, ln, ld, mn, md
  <2> QED
    BY <1>1, <1>2, <2>1
<1> HIDE DEF base, den, ln, ld, mn, md
<1>5. (base * mn) * (den * ld) <= (base * ln) * (den * md)
  <2>1. mn * ld \in Nat /\ ln * md \in Nat /\ base * den \in Nat
    BY <1>1, <1>2
  <2> DEFINE x == mn * ld
             y == ln * md
             k == base * den
  <2>2. /\ (base * mn) * (den * ld) = k * x
        /\ (base * ln) * (den * md) = k * y
    BY <1>1, <1>2
  <2>3. k * x <= k * y
    <3>1. x \in Nat /\ y \in Nat /\ k \in Nat /\ x <= y
      BY <1>3, <2>1
    <3> HIDE DEF x, y, k
    <3> QED
      BY <3>1
  <2> QED
    BY <2>2, <2>3
<1> QED
  BY <1>4, <1>5, CeilDivMonotone

\* Clamp keeps the order and the bounds.
LEMMA ClampMonotone ==
  ASSUME NEW x \in Nat, NEW y \in Nat, x <= y
  PROVE  /\ Clamp(x) <= Clamp(y) /\ Clamp(x) \in 0..MaxBatchSize
         /\ MaxBatchSize > 0 => Clamp(x) >= MinCount
BY AdaptiveAssumptions DEF Clamp, MinCount

\* The truncating average lies between the old average and the sample.
LEMMA AverageBetween ==
  ASSUME NEW o \in Nat, NEW l \in Nat
  PROVE  /\ SmoothedLatency(o, l) \in Nat
         /\ l >= o => SmoothedLatency(o, l) >= o
         /\ l <= o => SmoothedLatency(o, l) <= o
BY DEF SmoothedLatency

-----------------------------------------------------------------------------
(* The adaptive policy over its budget.                                    *)

\* The least average after k observations in a row at the budget or beyond.
AfterBudget(o) == SmoothedLatency(o, LatencyBudget)

LeastAverage ==
  [k \in 0..4 |->
     CASE k = 0 -> 0
       [] k = 1 -> AfterBudget(0)
       [] k = 2 -> AfterBudget(AfterBudget(0))
       [] k = 3 -> AfterBudget(AfterBudget(AfterBudget(0)))
       [] k = 4 -> AfterBudget(AfterBudget(AfterBudget(AfterBudget(0))))]

\* At the least average four such observations leave, the latency factor takes
\* a whole transaction off the base count.
BudgetIsFelt ==
  LET factor == LatencyFactor(LeastAverage[4])
  IN  BaseCount * (factor[2] - factor[1]) >= factor[2]

\* The average has followed the observations over the budget.
OverInv == observed_latency_ms >= LeastAverage[over]

\* The average grows with what is averaged.
LEMMA AverageMonotone ==
  ASSUME NEW o \in Nat, NEW l \in Nat, NEW p \in Nat, NEW m \in Nat, o <= p, l <= m
  PROVE  SmoothedLatency(o, l) <= SmoothedLatency(p, m)
BY DEF SmoothedLatency

\* Each observation at the budget takes the least average to the next, and
\* from the fourth on the average cannot fall below it.
LEMMA LeastAverageFacts ==
  /\ \A k \in 0..4 : LeastAverage[k] \in 0..LatencyBudget
  /\ LeastAverage[0] = 0
  /\ \A k \in 0..3 : LeastAverage[k + 1] = AfterBudget(LeastAverage[k])
  /\ AfterBudget(LeastAverage[4]) >= LeastAverage[4]
<1> DEFINE B == LatencyBudget
           f == LeastAverage
<1>1. B \in Nat
  BY AdaptiveAssumptions
<1>2. \A o \in 0..B : AfterBudget(o) \in 0..B /\ AfterBudget(o) >= o
  BY <1>1 DEF AfterBudget, SmoothedLatency
<1>3. /\ f[0] = 0 /\ f[1] = AfterBudget(f[0]) /\ f[2] = AfterBudget(f[1])
      /\ f[3] = AfterBudget(f[2]) /\ f[4] = AfterBudget(f[3])
  BY DEF LeastAverage
<1>4. f[0] \in 0..B /\ f[1] \in 0..B /\ f[2] \in 0..B /\ f[3] \in 0..B /\ f[4] \in 0..B
  <2> HIDE DEF f
  <2>1. f[0] \in 0..B
    BY <1>1, <1>3
  <2> QED
    BY <1>2, <1>3, <2>1
<1>5. \A k \in 0..4 : k = 0 \/ k = 1 \/ k = 2 \/ k = 3 \/ k = 4
  OBVIOUS
<1>6. \A k \in 0..3 : k = 0 \/ k = 1 \/ k = 2 \/ k = 3
  OBVIOUS
<1>7. 0 + 1 = 1 /\ 1 + 1 = 2 /\ 2 + 1 = 3 /\ 3 + 1 = 4
  OBVIOUS
<1> HIDE DEF f, B
<1>8. \A k \in 0..4 : f[k] \in 0..B
  BY <1>4, <1>5
<1>9. \A k \in 0..3 : f[k + 1] = AfterBudget(f[k])
  BY <1>3, <1>6, <1>7
<1> QED
  BY <1>2, <1>3, <1>4, <1>8, <1>9 DEF f, B

\* A growth factor does not shrink.
LEMMA GrowthFactorGrows ==
  ASSUME NEW g \in Nat
  PROVE  GrowthFactor(g)[1] >= GrowthFactor(g)[2]
<1>1. Scale \in Nat \ {0}
  BY AdaptiveAssumptions
<1> QED
  BY <1>1 DEF GrowthFactor

\* A fraction of a number that is a whole unit less rounds up to less.
LEMMA CeilDivStrict ==
  ASSUME NEW base \in Nat, NEW g \in Nat, NEW d \in Nat \ {0},
         NEW n \in Nat, NEW e \in Nat \ {0},
         g >= d, base * (e - n) >= e
  PROVE  CeilDiv(base * g * n, d * e) < CeilDiv(base * g * 1, d * 1)
<1> DEFINE P == base * g
           c == CeilDiv(P * 1, d * 1)
           x == CeilDiv(P * n, d * e)
<1>1. P \in Nat /\ P * 1 = P /\ d * 1 = d
  OBVIOUS
<1> HIDE DEF P
<1>2. P * n \in Nat /\ d * e \in Nat \ {0} /\ P * e \in Nat
  BY <1>1
<1>3. c \in Nat /\ P <= c * d
  <2>1. c = CeilDiv(P, d)
    BY <1>1
  <2> QED
    BY <1>1, <2>1, CeilDivBounds
<1>4. x \in Nat /\ x * (d * e) <= P * n + d * e - 1
  BY <1>2, CeilDivBounds
<1> HIDE DEF c, x
<1>5. P * n + d * e <= P * e
  <2> DEFINE w == e - n
             b == base * w
  <2>1. w \in Int /\ b \in Int /\ b >= e
    OBVIOUS
  <2>2. P * e - P * n = P * w
    BY <1>1
  <2>3. P * w = b * g
    <3>1. P * w = (base * g) * w
      BY DEF P
    <3> HIDE DEF w
    <3> QED
      BY <2>1, <3>1
  <2>4. b * g >= e * g
    <3> HIDE DEF b
    <3> QED
      BY <2>1
  <2>5. e * g >= e * d
    OBVIOUS
  <2>6. e * d = d * e /\ e * g \in Int /\ e * d \in Int
    OBVIOUS
  <2>7. b * g \in Int
    BY <2>1
  <2> HIDE DEF w, b
  <2> QED
    BY <1>2, <2>2, <2>3, <2>4, <2>5, <2>6, <2>7
<1>6. P * e <= c * (d * e)
  <2>1. P * e <= (c * d) * e
    BY <1>1, <1>3
  <2>2. (c * d) * e = c * (d * e)
    BY <1>3
  <2> QED
    BY <2>1, <2>2
<1>7. x * (d * e) < c * (d * e)
  <2>1. x * (d * e) \in Int /\ c * (d * e) \in Int
    BY <1>2, <1>3, <1>4
  <2> QED
    BY <1>2, <1>4, <1>5, <1>6, <2>1
<1>8. x < c
  <2> DEFINE k == d * e
  <2>1. k \in Nat \ {0} /\ x * k < c * k
    BY <1>2, <1>7
  <2> HIDE DEF k
  <2> QED
    BY <1>3, <1>4, <2>1
<1> QED
  BY <1>8 DEF x, c, P

\* An average at or above that leaves less than the growth alone asks for.
LEMMA ShrinksFrom ==
  ASSUME BudgetIsFelt, NEW g \in Nat, NEW l \in Nat, l >= LeastAverage[4]
  PROVE  Scaled(g, l) < Scaled(g, 0)
<1> DEFINE low == LeastAverage[4]
           ln == LatencyFactor(low)[1]
           ld == LatencyFactor(low)[2]
           gn == GrowthFactor(g)[1]
           gd == GrowthFactor(g)[2]
<1>1. low \in Nat
  BY LeastAverageFacts, AdaptiveAssumptions
<1>2. /\ gn \in Nat /\ gd \in Nat \ {0} /\ ln \in Nat /\ ld \in Nat \ {0}
      /\ BaseCount \in Nat /\ gn >= gd
  BY <1>1, FactorTypes, GrowthFactorGrows, AdaptiveAssumptions
<1>3. BaseCount * (ld - ln) >= ld
  BY DEF BudgetIsFelt
<1>4. Scaled(g, low) = CeilDiv(BaseCount * gn * ln, gd * ld)
  BY DEF Scaled
<1>5. Scaled(g, 0) = CeilDiv(BaseCount * gn * 1, gd * 1)
  <2>1. LatencyFactor(0) = <<1, 1>>
    BY DEF LatencyFactor
  <2>2. LatencyFactor(0)[1] = 1 /\ LatencyFactor(0)[2] = 1
    BY <2>1
  <2> QED
    BY <2>2 DEF Scaled
<1>6. Scaled(g, l) <= Scaled(g, low)
  BY <1>1, ScaledFalls
<1>7. Scaled(g, l) \in Nat /\ Scaled(g, low) \in Nat /\ Scaled(g, 0) \in Nat
  BY <1>1, ScaledType
<1> HIDE DEF low, ln, ld, gn, gd
<1>8. Scaled(g, low) < Scaled(g, 0)
  BY <1>2, <1>3, <1>4, <1>5, CeilDivStrict
<1> QED
  BY <1>6, <1>7, <1>8

-----------------------------------------------------------------------------
(* The ring of the auto policy.                                            *)

\* Where in the history of arrivals the entry at position i of the ring is
\* from, after n arrivals; before the first one when the entry is unused.
Age(i, n, idx) == IF i <= idx THEN n - idx + i ELSE n - idx + i - RingSize

\* The ring holds the latest arrivals, each where the index was when it came.
RingHolds(ring, idx, seen) ==
  \A i \in 1..RingSize :
    ring[i] = IF Age(i, Len(seen), idx) >= 1 THEN seen[Age(i, Len(seen), idx)] ELSE 0

\* The arrivals come in the order of their times.
InOrder(seen, last) ==
  /\ \A j, k \in 1..Len(seen) : j <= k => seen[j] <= seen[k]
  /\ \A j \in 1..Len(seen) : seen[j] <= last

\* What the ring remembers of the arrivals.
RingInv ==
  /\ arrivals \in Seq(Nat)
  /\ RingHolds(arrival_times, arrival_idx, arrivals)
  /\ InOrder(arrivals, last_arrival_ms)

\* The index advances by one and starts again after the last entry.
LEMMA NextIndexFacts ==
  ASSUME NEW idx \in 0..RingSize - 1
  PROVE  NextIndex(idx) = IF idx + 1 < RingSize THEN idx + 1 ELSE 0
<1>1. RingSize \in Nat \ {0}
  BY AutoAssumptions
<1>2. CASE idx + 1 < RingSize
  <2>1. (idx + 1) % RingSize = idx + 1
    BY <1>1, <1>2
  <2> QED
    BY <1>2, <2>1 DEF NextIndex
<1>3. CASE idx + 1 = RingSize
  <2>1. RingSize % RingSize = 0
    BY <1>1
  <2> QED
    BY <1>1, <1>3, <2>1 DEF NextIndex
<1> QED
  BY <1>1, <1>2, <1>3

\* Writing the newest arrival at the index and advancing it keeps the ring.
LEMMA RingKept ==
  ASSUME NEW ring \in [1..RingSize -> Nat], NEW idx \in 0..RingSize - 1,
         NEW seen \in Seq(Nat), NEW now \in Nat,
         RingHolds(ring, idx, seen)
  PROVE  RingHolds([ring EXCEPT ![idx + 1] = now], NextIndex(idx), Append(seen, now))
<1> DEFINE new == [ring EXCEPT ![idx + 1] = now]
           n == Len(seen)
           next == NextIndex(idx)
           more == Append(seen, now)
<1>1. RingSize \in Nat \ {0} /\ n \in Nat /\ Len(more) = n + 1
  BY AutoAssumptions
<1>2. next = IF idx + 1 < RingSize THEN idx + 1 ELSE 0
  BY NextIndexFacts
<1>3. \A j \in 1..n : more[j] = seen[j]
  OBVIOUS
<1>4. more[n + 1] = now
  OBVIOUS
<1>5. new[idx + 1] = now /\ \A i \in 1..RingSize : i # idx + 1 => new[i] = ring[i]
  BY <1>1
<1>6. ASSUME NEW i \in 1..RingSize
      PROVE  new[i] = IF Age(i, n + 1, next) >= 1 THEN more[Age(i, n + 1, next)] ELSE 0
  <2> HIDE DEF n, next, more, new
  <2>1. CASE i = idx + 1
    <3>1. Age(i, n + 1, next) = n + 1
      BY <1>1, <1>2, <2>1 DEF Age
    <3> QED
      BY <1>1, <1>4, <1>5, <2>1, <3>1
  <2>2. CASE i # idx + 1
    <3>1. Age(i, n + 1, next) = Age(i, n, idx)
      BY <1>1, <1>2, <2>2 DEF Age
    <3>2. Age(i, n, idx) \in Int /\ Age(i, n, idx) <= n
      BY <1>1 DEF Age
    <3>3. ring[i] = IF Age(i, n, idx) >= 1 THEN seen[Age(i, n, idx)] ELSE 0
      BY DEF RingHolds, n
    <3>4. CASE Age(i, n, idx) >= 1
      <4>1. Age(i, n, idx) \in 1..n
        BY <1>1, <3>2, <3>4
      <4> QED
        BY <1>3, <1>5, <2>2, <3>1, <3>3, <3>4, <4>1
    <3>5. CASE ~(Age(i, n, idx) >= 1)
      BY <1>5, <2>2, <3>1, <3>3, <3>5
    <3> QED
      BY <3>4, <3>5
  <2> QED
    BY <2>1, <2>2
<1> QED
  BY <1>1, <1>6 DEF RingHolds

\* The arrivals stay in order when the next one is not earlier than the last.
LEMMA OrderKept ==
  ASSUME NEW seen \in Seq(Nat), NEW last \in Nat, NEW now \in Nat,
         last <= now, InOrder(seen, last)
  PROVE  InOrder(Append(seen, now), now)
<1> DEFINE n == Len(seen)
           more == Append(seen, now)
<1>1. n \in Nat /\ Len(more) = n + 1 /\ more[n + 1] = now
  OBVIOUS
<1>2. \A j \in 1..n : more[j] = seen[j] /\ seen[j] \in Nat
  OBVIOUS
<1>3. /\ \A j, k \in 1..n : j <= k => seen[j] <= seen[k]
      /\ \A j \in 1..n : seen[j] <= last
  BY DEF InOrder
<1> HIDE DEF n, more
<1>4. \A j \in 1..n + 1 : j \in 1..n \/ j = n + 1
  BY <1>1
<1>5. \A j \in 1..n + 1 : more[j] <= now
  <2> TAKE j \in 1..n + 1
  <2>1. CASE j \in 1..n
    <3>1. more[j] = seen[j] /\ seen[j] \in Nat /\ seen[j] <= last
      BY <1>2, <1>3, <2>1
    <3> QED
      BY <3>1
  <2>2. CASE j = n + 1
    BY <1>1, <2>2
  <2> QED
    BY <1>4, <2>1, <2>2
<1>6. \A j, k \in 1..n + 1 : j <= k => more[j] <= more[k]
  <2> TAKE j, k \in 1..n + 1
  <2> HAVE j <= k
  <2>1. CASE k \in 1..n
    <3>1. j \in 1..n
      BY <1>1, <2>1
    <3> QED
      BY <1>2, <1>3, <2>1, <3>1
  <2>2. CASE k = n + 1
    BY <1>1, <1>5, <2>2
  <2> QED
    BY <1>4, <2>1, <2>2
<1> QED
  BY <1>1, <1>5, <1>6 DEF InOrder, more

\* A set of numbers has a least one.
LEMMA LeastNumber ==
  ASSUME NEW S \in SUBSET Nat, S # {}
  PROVE  \E i \in S : \A j \in S : i <= j
<1>1. \E i \in S : \A j \in S : ~(<<j, i>> \in OpToRel(<, Nat))
  BY NatLessThanWellFounded, WFMin, Zenon
<1>2. \A i, j \in Nat : j < i => <<j, i>> \in OpToRel(<, Nat)
  BY DEF OpToRel
<1>3. \A i, j \in Nat : ~(j < i) => i <= j
  OBVIOUS
<1> QED
  BY <1>1, <1>2, <1>3

\* The arrivals after a given time are the last ones.
LEMMA RecentAreLast ==
  ASSUME NEW seen \in Seq(Nat), NEW last \in Nat, NEW m \in Nat, InOrder(seen, last)
  PROVE  \E k \in 0..Len(seen) : \A j \in 1..Len(seen) : seen[j] > m <=> j > k
<1> DEFINE n == Len(seen)
           S == {j \in 1..n : seen[j] > m}
<1>1. n \in Nat /\ S \in SUBSET Nat
  OBVIOUS
<1>2. /\ \A j, k \in 1..n : j <= k => seen[j] <= seen[k]
      /\ \A j \in 1..n : seen[j] \in Nat
  BY DEF InOrder
<1> HIDE DEF n
<1>3. CASE S = {}
  <2>1. n \in 0..n /\ \A j \in 1..n : seen[j] > m <=> j > n
    BY <1>1, <1>2, <1>3
  <2> QED
    BY <2>1 DEF n
<1>4. CASE S # {}
  <2>1. PICK i \in S : \A j \in S : i <= j
    BY <1>1, <1>4, LeastNumber
  <2>2. i \in 1..n /\ seen[i] > m
    OBVIOUS
  <2>3. \A j \in 1..n : seen[j] > m <=> j > i - 1
    <3> TAKE j \in 1..n
    <3>1. ASSUME seen[j] > m PROVE j > i - 1
      <4>1. i <= j
        BY <2>1, <3>1
      <4> QED
        BY <1>1, <2>2, <4>1
    <3>2. ASSUME j > i - 1 PROVE seen[j] > m
      <4>1. i <= j
        BY <1>1, <2>2, <3>2
      <4>2. seen[i] <= seen[j] /\ seen[i] \in Nat /\ seen[j] \in Nat
        BY <1>2, <2>2, <4>1
      <4> QED
        BY <2>2, <4>2
    <3> QED
      BY <3>1, <3>2
  <2>4. i - 1 \in 0..n
    BY <1>1, <2>2
  <2> QED
    BY <2>3, <2>4 DEF n
<1> QED
  BY <1>3, <1>4

\* What is counted in a ring that holds the latest arrivals is the number of
\* arrivals in the window, up to the size of the ring.
LEMMA RingCount ==
  ASSUME NEW ring \in [1..RingSize -> Nat], NEW idx \in 0..RingSize - 1,
         NEW seen \in Seq(Nat), NEW last \in Nat, NEW window \in Nat,
         RingHolds(ring, idx, seen), InOrder(seen, last)
  PROVE  /\ RecentCount(seen, last, window) \in Nat
         /\ RecentCount(ring, last, window)
              = IF RecentCount(seen, last, window) < RingSize
                THEN RecentCount(seen, last, window) ELSE RingSize
<1> DEFINE n == Len(seen)
           m == Minus(last, window)
           R == RingSize
<1>1. n \in Nat /\ R \in Nat \ {0} /\ m \in Nat /\ DOMAIN seen = 1..n /\ idx \in 0..R - 1
  BY AutoAssumptions DEF Minus
<1>2. PICK k \in 0..n : \A j \in 1..n : seen[j] > m <=> j > k
  BY <1>1, RecentAreLast
<1>3. \A j \in 1..n : seen[j] <= last
  BY DEF InOrder
<1> DEFINE B == {j \in DOMAIN seen : InWindow(seen[j], last, window)}
           A == {i \in DOMAIN ring : InWindow(ring[i], last, window)}
           lo == IF k > n - R THEN k ELSE n - R
           T == lo + 1..n
           age(i) == Age(i, n, idx)
<1>4. RecentCount(seen, last, window) = n - k
  <2>1. B = k + 1..n
    <3>1. B = {j \in 1..n : seen[j] > m /\ seen[j] <= last}
      BY <1>1 DEF InWindow
    <3> HIDE DEF B, n, m
    <3>2. B = {j \in 1..n : j > k}
      BY <1>2, <1>3, <3>1
    <3> QED
      BY <1>1, <3>2
  <2>2. Cardinality(k + 1..n) = IF k + 1 > n THEN 0 ELSE n - (k + 1) + 1
    <3>1. k + 1 \in Int /\ n \in Int
      BY <1>1
    <3> QED
      BY <3>1, FS_Interval, Zenon
  <2>3. Cardinality(k + 1..n) = n - k
    <3> HIDE DEF n
    <3> QED
      BY <1>1, <2>2
  <2> QED
    BY <2>1, <2>3 DEF RecentCount
<1>5. \A i \in 1..R : age(i) \in Int /\ age(i) <= n /\ age(i) > n - R
  <2> HIDE DEF n
  <2> QED
    BY <1>1 DEF Age
<1>6. A = {i \in 1..R : age(i) > k}
  <2>1. A = {i \in 1..R : ring[i] > m /\ ring[i] <= last}
    BY DEF InWindow
  <2>2. \A i \in 1..R : ring[i] = IF age(i) >= 1 THEN seen[age(i)] ELSE 0
    BY DEF RingHolds
  <2> HIDE DEF A, n, m, age
  <2>3. ASSUME NEW i \in 1..R
        PROVE  ring[i] > m /\ ring[i] <= last <=> age(i) > k
    <3>1. CASE age(i) >= 1
      <4>1. age(i) \in 1..n
        BY <1>1, <1>5, <3>1
      <4>2. ring[i] = seen[age(i)]
        BY <2>2, <3>1
      <4> QED
        BY <1>2, <1>3, <4>1, <4>2
    <3>2. CASE ~(age(i) >= 1)
      <4>1. ring[i] = 0
        BY <2>2, <3>2
      <4>2. age(i) <= k
        BY <1>1, <1>5, <3>2
      <4> QED
        BY <1>1, <1>5, <4>1, <4>2
    <3> QED
      BY <3>1, <3>2
  <2> QED
    BY <2>1, <2>3
<1>7. /\ lo \in Int /\ lo >= k /\ lo >= n - R /\ lo <= n
      /\ n - lo = IF n - k < R THEN n - k ELSE R
  <2> HIDE DEF n
  <2> QED
    BY <1>1
<1>8. IsFiniteSet(T) /\ Cardinality(T) = n - lo
  <2>1. IsFiniteSet(T) /\ Cardinality(T) = IF lo + 1 > n THEN 0 ELSE n - (lo + 1) + 1
    <3>1. lo + 1 \in Int /\ n \in Int
      BY <1>1, <1>7
    <3> HIDE DEF lo
    <3> QED
      BY <3>1, FS_Interval, Zenon
  <2> HIDE DEF lo, n, T
  <2> QED
    BY <1>1, <1>7, <2>1
<1> DEFINE at(j) == IF j > n - idx THEN j - n + idx ELSE j - n + idx + R
           f == [j \in T |-> at(j)]
<1>9. \A j \in T : at(j) \in 1..R /\ age(at(j)) = j
  <2> SUFFICES ASSUME NEW j \in T PROVE at(j) \in 1..R /\ age(at(j)) = j
    OBVIOUS
  <2>1. j \in Int /\ j > n - R /\ j <= n
    <3> HIDE DEF lo, n
    <3> QED
      BY <1>1, <1>7
  <2> HIDE DEF n, T, lo
  <2> QED
    BY <1>1, <2>1 DEF Age
<1>10. \A i \in A : age(i) \in T /\ at(age(i)) = i
  <2> SUFFICES ASSUME NEW i \in A PROVE age(i) \in T /\ at(age(i)) = i
    OBVIOUS
  <2>1. i \in 1..R /\ age(i) > k
    BY <1>6
  <2>2. age(i) \in Int /\ age(i) <= n /\ age(i) > n - R
    BY <1>5, <2>1
  <2>3. age(i) \in T
    <3> HIDE DEF n, age
    <3> QED
      BY <1>1, <2>1, <2>2
  <2>4. at(age(i)) = i
    <3> HIDE DEF n, T, lo, A
    <3> QED
      BY <1>1, <2>1 DEF Age
  <2> QED
    BY <2>3, <2>4
<1>11. \A j \in T : j > k
  <2> HIDE DEF lo, n
  <2> QED
    BY <1>1, <1>7
<1>12. f \in Bijection(T, A)
  <2> HIDE DEF T, A, at, age, n, m
  <2>1. f \in [T -> A]
    BY <1>6, <1>9, <1>11
  <2>2. \A a, b \in T : f[a] = f[b] => a = b
    BY <1>9
  <2>3. \A i \in A : \E j \in T : f[j] = i
    BY <1>10
  <2> HIDE DEF f
  <2> QED
    BY <2>1, <2>2, <2>3 DEF Bijection, Injection, Surjection, IsInjective
<1>13. Cardinality(A) = n - lo
  <2>1. ExistsBijection(T, A)
    BY <1>12 DEF ExistsBijection
  <2> HIDE DEF T, A, f, lo, n
  <2> QED
    BY <1>8, <2>1, FS_Bijection
<1>14. RecentCount(ring, last, window) = n - lo
  BY <1>13 DEF RecentCount
<1> HIDE DEF n, lo, A, B, T
<1> QED
  BY <1>1, <1>4, <1>7, <1>14

-----------------------------------------------------------------------------
(* The invariant.                                                          *)

\* The types but for the threshold, which follows from them.
MemoryInv ==
  /\ kind \in {"Adaptive", "Auto"}
  /\ observed_latency_ms \in Nat /\ queue_growth_rate \in Nat
  /\ growths \in 0..MaxGrowths /\ over \in 0..4
  /\ AutoTypeOK

EngineInv == MemoryInv /\ LimitsFollowPattern /\ RingInv

\* The limits of a class are numbers.
LEMMA LimitTypes ==
  \A p \in Patterns : ThresholdOf(p) \in Nat /\ TimeLimitOf(p) \in Nat
BY AutoAssumptions DEF Patterns, ThresholdOf, TimeLimitOf

\* The class of any traffic is one of the four.
LEMMA ClassifyType == \A ring, now : Classify(ring, now) \in Patterns
BY DEF Classify, Patterns

\* Either the class and the limits stay or the limits become those of the
\* new class.
Adapts(p) ==
  /\ p \in Patterns
  /\ \/ UNCHANGED <<observed_pattern, limits>>
     \/ observed_pattern' = p /\ adapt_to_pattern(p)

\* Each step of the auto policy adapts to one class.
LEMMA StepAdapts ==
  ASSUME AutoNext
  PROVE  \E p \in Patterns : Adapts(p)
<1>1. ASSUME NEW ring, NEW now, update_pattern(ring, now) PROVE Adapts(Classify(ring, now))
  BY <1>1, ClassifyType DEF update_pattern, Adapts
<1>2. CASE Arrive
  <2>1. PICK gap \in ArrivalGaps : record_arrival(last_arrival_ms + gap)
    BY <1>2 DEF Arrive
  <2>2. PICK ring, now : update_pattern(ring, now)
    BY <2>1 DEF record_arrival
  <2> QED
    BY <1>1, <2>2, ClassifyType
<1>3. CASE Grow
  <2>1. "Bursty" \in Patterns
    BY DEF Patterns
  <2> QED
    BY <1>3, <2>1 DEF Grow, AutoObserveGrowth, Adapts
<1> QED
  BY <1>2, <1>3 DEF AutoNext

\* No observation breaks the invariant.
LEMMA EngineInductive == EngineInv /\ [EngineNext]_engineVars => EngineInv'
<1> SUFFICES ASSUME EngineInv, [EngineNext]_engineVars PROVE EngineInv'
  OBVIOUS
<1>a. MemoryInv /\ LimitsFollowPattern /\ AutoTypeOK /\ RingInv
  BY DEF EngineInv, MemoryInv
<1>1. CASE UNCHANGED engineVars
  BY <1>1, <1>a DEF engineVars, adaptiveVars, autoVars, limits, EngineInv, MemoryInv,
                    AutoTypeOK, LimitsFollowPattern, RingInv
<1>2. CASE kind = "Adaptive" /\ AdaptiveNext /\ UNCHANGED <<kind, autoVars>>
  <2>1. AutoTypeOK' /\ LimitsFollowPattern' /\ RingInv' /\ kind' = kind
    BY <1>2, <1>a DEF autoVars, limits, AutoTypeOK, LimitsFollowPattern, RingInv
  <2>2. ASSUME NEW l \in Latencies, observe_latency(l) PROVE EngineInv'
    <3>1. observed_latency_ms' \in Nat
      BY <1>a, <2>2, AdaptiveAssumptions, AverageBetween DEF observe_latency, MemoryInv
    <3>2. over' \in 0..4
      <4>1. l \in Nat /\ LatencyBudget \in Nat /\ over \in 0..4
        BY <1>a, AdaptiveAssumptions DEF MemoryInv
      <4> QED
        BY <2>2, <4>1 DEF observe_latency
    <3> QED
      BY <1>a, <2>1, <2>2, <3>1, <3>2 DEF observe_latency, EngineInv, MemoryInv
  <2>3. ASSUME NEW rate \in Rates, AdaptiveObserveGrowth(rate) PROVE EngineInv'
    <3>1. queue_growth_rate' \in Nat
      <4>1. queue_growth_rate \in Nat /\ rate \in Nat /\ Scale \in Nat
        BY <1>a, AdaptiveAssumptions DEF MemoryInv
      <4>2. rate * (Scale \div 10) \in Nat
        BY <4>1
      <4>3. 4 * queue_growth_rate + rate * (Scale \div 10) \in Nat
        BY <4>1, <4>2
      <4>4. \A x \in Nat : x \div 5 \in Nat
        OBVIOUS
      <4> QED
        BY <2>3, <4>3, <4>4 DEF AdaptiveObserveGrowth, SmoothedGrowth
    <3>2. growths' \in 0..MaxGrowths
      BY <1>a, <2>3, AdaptiveAssumptions DEF AdaptiveObserveGrowth, MemoryInv
    <3> QED
      BY <1>a, <2>1, <2>3, <3>1, <3>2 DEF AdaptiveObserveGrowth, EngineInv, MemoryInv
  <2> QED
    BY <1>2, <2>2, <2>3 DEF AdaptiveNext
<1>3. CASE kind = "Auto" /\ AutoNext /\ UNCHANGED <<kind, adaptiveVars>>
  <2>1. PICK p \in Patterns : Adapts(p)
    BY <1>3, StepAdapts
  <2>2. /\ observed_pattern' \in Patterns
        /\ current_threshold' \in Nat /\ current_time_limit_ms' \in Nat
        /\ adapted' \in BOOLEAN
    BY <1>a, <2>1, LimitTypes DEF Adapts, adapt_to_pattern, limits, AutoTypeOK
  <2>3. LimitsFollowPattern'
    BY <1>a, <2>1 DEF Adapts, adapt_to_pattern, limits, LimitsFollowPattern
  <2>4. /\ arrival_times' \in [1..RingSize -> Nat]
        /\ arrival_idx' \in 0..RingSize - 1 /\ last_arrival_ms' \in Nat
    <3>1. CASE Arrive
      <4>1. PICK gap \in ArrivalGaps : record_arrival(last_arrival_ms + gap)
        BY <3>1 DEF Arrive
      <4>2. /\ last_arrival_ms + gap \in Nat /\ RingSize \in Nat \ {0}
            /\ arrival_idx \in 0..RingSize - 1
        BY <1>a, AutoAssumptions DEF AutoTypeOK
      <4>3. (arrival_idx + 1) % RingSize \in 0..RingSize - 1
        BY <4>2
      <4> QED
        BY <1>a, <4>1, <4>2, <4>3 DEF record_arrival, NextIndex, AutoTypeOK
    <3>2. CASE Grow
      BY <1>a, <3>2 DEF Grow, AutoObserveGrowth, AutoTypeOK
    <3> QED
      BY <1>3, <3>1, <3>2 DEF AutoNext
  <2>5. RingInv'
    <3>1. CASE Arrive
      <4>1. PICK gap \in ArrivalGaps : record_arrival(last_arrival_ms + gap)
        BY <3>1 DEF Arrive
      <4> DEFINE now == last_arrival_ms + gap
      <4>2. /\ now \in Nat /\ last_arrival_ms \in Nat /\ last_arrival_ms <= now
            /\ arrival_idx \in 0..RingSize - 1
            /\ arrival_times \in [1..RingSize -> Nat]
        BY <1>a, AutoAssumptions DEF AutoTypeOK
      <4>3. /\ arrival_times' = [arrival_times EXCEPT ![arrival_idx + 1] = now]
            /\ arrival_idx' = NextIndex(arrival_idx)
            /\ last_arrival_ms' = now
            /\ arrivals' = Append(arrivals, now)
        BY <4>1 DEF record_arrival
      <4> HIDE DEF now
      <4>4. /\ arrivals \in Seq(Nat) /\ arrivals' \in Seq(Nat)
            /\ RingHolds(arrival_times, arrival_idx, arrivals)
            /\ InOrder(arrivals, last_arrival_ms)
        BY <1>a, <4>2, <4>3 DEF RingInv
      <4>5. RingHolds(arrival_times', arrival_idx', arrivals')
        BY <4>2, <4>3, <4>4, RingKept
      <4>6. InOrder(arrivals', last_arrival_ms')
        BY <4>2, <4>3, <4>4, OrderKept
      <4> QED
        BY <4>4, <4>5, <4>6 DEF RingInv
    <3>2. CASE Grow
      BY <1>a, <3>2 DEF Grow, AutoObserveGrowth, RingInv
    <3> QED
      BY <1>3, <3>1, <3>2 DEF AutoNext
  <2> QED
    BY <1>3, <1>a, <2>2, <2>3, <2>4, <2>5
    DEF adaptiveVars, EngineInv, MemoryInv, AutoTypeOK
<1> QED
  BY <1>1, <1>2, <1>3 DEF EngineNext

\* The invariant of a policy behind the trait.
LEMMA EngineInvariance == EngineSpec => []EngineInv
<1>1. EngineInit => EngineInv
  <2> SUFFICES ASSUME EngineInit PROVE EngineInv
    OBVIOUS
  <2>1. AutoTypeOK
    <3>1. adapted \in BOOLEAN
      BY DEF EngineInit, AutoInit
    <3> QED
      BY <3>1, AutoAssumptions DEF EngineInit, AutoInit, AutoTypeOK, Patterns
  <2>2. LimitsFollowPattern
    BY DEF EngineInit, AutoInit, LimitsFollowPattern, ThresholdOf
  <2>3. MemoryInv
    BY <2>1, AdaptiveAssumptions DEF EngineInit, AdaptiveInit, MemoryInv
  <2>4. RingInv
    <3>1. RingSize \in Nat /\ Len(<<>>) = 0
      BY AutoAssumptions
    <3>2. \A i \in 1..RingSize : ~(Age(i, 0, 0) >= 1)
      BY <3>1 DEF Age
    <3>3. RingHolds(arrival_times, 0, <<>>)
      BY <3>1, <3>2 DEF EngineInit, AutoInit, RingHolds
    <3> QED
      BY <3>3 DEF EngineInit, AutoInit, RingInv, InOrder
  <2> QED
    BY <2>2, <2>3, <2>4 DEF EngineInv
<1> QED
  BY <1>1, EngineInductive, PTL DEF EngineSpec

\* The fields keep their types and the adaptive threshold its bounds, however
\* the factors compound and round.
THEOREM TypeCorrect == EngineSpec => []EngineTypeOK
<1>1. ASSUME EngineInv PROVE EngineTypeOK
  <2>1. MemoryInv
    BY <1>1 DEF EngineInv
  <2>2. Scaled(queue_growth_rate, observed_latency_ms) \in Nat
    BY <2>1, ScaledType DEF MemoryInv
  <2>3. /\ compute_threshold \in 0..MaxBatchSize
        /\ MaxBatchSize > 0 => compute_threshold >= MinCount
    BY <2>2, ClampMonotone DEF compute_threshold
  <2> QED
    BY <2>1, <2>3 DEF MemoryInv, EngineTypeOK, AdaptiveTypeOK
<1> QED
  BY <1>1, EngineInvariance, PTL

\* The limits are those of the class the auto policy reports.
THEOREM LimitsAlwaysFollow == EngineSpec => []LimitsFollowPattern
<1>1. EngineInv => LimitsFollowPattern
  BY DEF EngineInv
<1> QED
  BY <1>1, EngineInvariance, PTL

\* The ring counts the arrivals of any window up to its size, wherever the
\* index stands and however often it has wrapped.
THEOREM RingCounts == EngineSpec => []RingCountsArrivals
<1>1. ASSUME EngineInv PROVE RingCountsArrivals
  <2>1. /\ arrival_times \in [1..RingSize -> Nat] /\ arrival_idx \in 0..RingSize - 1
        /\ last_arrival_ms \in Nat /\ arrivals \in Seq(Nat)
        /\ RingHolds(arrival_times, arrival_idx, arrivals)
        /\ InOrder(arrivals, last_arrival_ms)
    BY <1>1 DEF EngineInv, MemoryInv, AutoTypeOK, RingInv
  <2> QED
    BY <2>1, RingCount DEF RingCountsArrivals
<1> QED
  BY <1>1, EngineInvariance, PTL

NeverHighLoad == observed_pattern # "HighLoad"

\* The comment on HighLoad is "> 100 tx/sec sustained"; with the 100 entries
\* of the ring no count exceeds 100 and the class is never reached, so the
\* auto policy never uses its largest batches.
THEOREM HighLoadOutOfReach ==
  ASSUME RingSize <= 100
  PROVE  EngineSpec => []NeverHighLoad
<1>1. ASSUME NEW ring \in [1..RingSize -> Nat], NEW now
      PROVE  Classify(ring, now) # "HighLoad"
  <2> DEFINE A == {i \in DOMAIN ring : InWindow(ring[i], now, 1000)}
  <2>1. RingSize \in Nat
    BY AutoAssumptions
  <2>2. IsFiniteSet(1..RingSize) /\ Cardinality(1..RingSize) = RingSize
    <3>1. /\ IsFiniteSet(1..RingSize)
          /\ Cardinality(1..RingSize) = IF 1 > RingSize THEN 0 ELSE RingSize - 1 + 1
      BY <2>1, FS_Interval
    <3> QED
      BY <2>1, <3>1
  <2>3. A \subseteq 1..RingSize
    OBVIOUS
  <2>4. Cardinality(A) \in Nat /\ Cardinality(A) <= RingSize
    <3> HIDE DEF A
    <3>1. IsFiniteSet(A) /\ Cardinality(A) <= Cardinality(1..RingSize)
      BY <2>2, <2>3, FS_Subset
    <3> QED
      BY <2>2, <3>1, FS_CardinalityType
  <2>5. RecentCount(ring, now, 1000) = Cardinality(A)
    BY DEF RecentCount
  <2> HIDE DEF A
  <2>6. ~(RecentCount(ring, now, 1000) > 100)
    BY <2>1, <2>4, <2>5
  <2> QED
    BY <2>6 DEF Classify
<1>2. EngineInit => NeverHighLoad
  BY DEF EngineInit, AutoInit, NeverHighLoad
<1>3. ASSUME EngineInv, NeverHighLoad, [EngineNext]_engineVars PROVE NeverHighLoad'
  <2>1. AutoTypeOK
    BY <1>3 DEF EngineInv, MemoryInv
  <2>2. CASE Arrive
    <3>1. PICK gap \in ArrivalGaps : record_arrival(last_arrival_ms + gap)
      BY <2>2 DEF Arrive
    <3> DEFINE now == last_arrival_ms + gap
               ring == [arrival_times EXCEPT ![arrival_idx + 1] = now]
    <3>2. ring \in [1..RingSize -> Nat]
      BY <2>1, AutoAssumptions DEF AutoTypeOK
    <3>3. update_pattern(ring, now)
      BY <3>1 DEF record_arrival
    <3> HIDE DEF ring, now
    <3> QED
      BY <1>1, <1>3, <3>2, <3>3 DEF update_pattern, NeverHighLoad
  <2>3. CASE Grow
    BY <1>3, <2>3 DEF Grow, AutoObserveGrowth, NeverHighLoad
  <2>4. CASE UNCHANGED autoVars
    BY <1>3, <2>4 DEF autoVars, NeverHighLoad
  <2> QED
    BY <1>3, <2>2, <2>3, <2>4 DEF EngineNext, AutoNext, engineVars
<1> QED
  BY <1>2, <1>3, EngineInvariance, PTL DEF EngineSpec

\* A latency observed at or above the average never raises the threshold of
\* the adaptive policy and one at or below never lowers it.
THEOREM SteersBack == EngineSpec => ControllerSteersBack
<1>1. ASSUME EngineInv, NEW l \in Latencies, observe_latency(l)
      PROVE  /\ l >= observed_latency_ms => compute_threshold' <= compute_threshold
             /\ l <= observed_latency_ms => compute_threshold' >= compute_threshold
  <2> DEFINE g == queue_growth_rate
             old == observed_latency_ms
             new == SmoothedLatency(old, l)
  <2>1. g \in Nat /\ old \in Nat /\ l \in Nat
    BY <1>1, AdaptiveAssumptions DEF EngineInv, MemoryInv
  <2>2. /\ compute_threshold = Clamp(Scaled(g, old))
        /\ compute_threshold' = Clamp(Scaled(g, new))
    BY <1>1 DEF compute_threshold, observe_latency
  <2> HIDE DEF g, old
  <2>3. new \in Nat /\ (l >= old => new >= old) /\ (l <= old => new <= old)
    BY <2>1, AverageBetween
  <2> HIDE DEF new
  <2>4. Scaled(g, old) \in Nat /\ Scaled(g, new) \in Nat
    BY <2>1, <2>3, ScaledType
  <2>5. ASSUME l >= old PROVE compute_threshold' <= compute_threshold
    BY <2>1, <2>2, <2>3, <2>4, <2>5, ScaledFalls, ClampMonotone
  <2>6. ASSUME l <= old PROVE compute_threshold' >= compute_threshold
    <3>1. Clamp(Scaled(g, old)) <= Clamp(Scaled(g, new))
      BY <2>1, <2>3, <2>4, <2>6, ScaledFalls, ClampMonotone
    <3>2. Clamp(Scaled(g, old)) \in Int /\ Clamp(Scaled(g, new)) \in Int
      BY <2>4, ClampMonotone, AdaptiveAssumptions DEF MinCount
    <3> QED
      BY <2>2, <3>1, <3>2
  <2> QED
    BY <2>5, <2>6 DEF old
<1>2. EngineInv =>
        [\A l \in Latencies : observe_latency(l) =>
           /\ l >= observed_latency_ms => compute_threshold' <= compute_threshold
           /\ l <= observed_latency_ms => compute_threshold' >= compute_threshold]_adaptiveVars
  BY <1>1
<1> QED
  BY <1>2, EngineInvariance, PTL DEF ControllerSteersBack

\* Once the average has followed, it keeps following.
LEMMA OverInductive == EngineInv /\ OverInv /\ [EngineNext]_engineVars => OverInv'
<1> SUFFICES ASSUME EngineInv, OverInv, [EngineNext]_engineVars PROVE OverInv'
  OBVIOUS
<1>1. CASE UNCHANGED <<observed_latency_ms, over>>
  BY <1>1 DEF OverInv
<1>2. ASSUME NEW l \in Latencies, observe_latency(l) PROVE OverInv'
  <2> DEFINE old == observed_latency_ms
             new == SmoothedLatency(old, l)
             low == LeastAverage[over]
  <2>1. l \in Nat /\ LatencyBudget \in Nat /\ old \in Nat /\ over \in 0..4
    BY AdaptiveAssumptions DEF EngineInv, MemoryInv
  <2>2. low \in Nat /\ low <= old
    <3>1. low \in 0..LatencyBudget /\ low <= old
      BY <2>1, LeastAverageFacts DEF OverInv
    <3> QED
      BY <2>1, <3>1
  <2>3. observed_latency_ms' = new /\ new \in Nat
    BY <1>2, <2>1, AverageBetween DEF observe_latency
  <2> HIDE DEF old, new, low
  <2>4. CASE l < LatencyBudget
    <3>1. over' = 0
      BY <1>2, <2>1, <2>4 DEF observe_latency
    <3> QED
      BY <2>3, <3>1, LeastAverageFacts DEF OverInv
  <2>5. CASE l >= LatencyBudget
    <3>1. SmoothedLatency(low, LatencyBudget) <= new
      BY <2>1, <2>2, <2>5, AverageMonotone DEF new
    <3>2. AfterBudget(low) <= new /\ AfterBudget(low) \in Nat
      BY <2>1, <2>2, <3>1, AverageBetween DEF AfterBudget
    <3>3. CASE over = 4
      <4>1. over' = 4
        BY <1>2, <2>1, <2>5, <3>3 DEF observe_latency
      <4>2. AfterBudget(low) >= low /\ low = LeastAverage[4]
        BY <3>3, LeastAverageFacts DEF low
      <4>3. new >= low
        BY <2>2, <2>3, <3>2, <4>2
      <4> QED
        BY <2>3, <4>1, <4>2, <4>3 DEF OverInv
    <3>4. CASE over # 4
      <4>1. over \in 0..3
        BY <2>1, <3>4
      <4>2. over' = over + 1
        <5>1. over < 4
          BY <4>1
        <5> QED
          BY <1>2, <2>1, <2>5, <3>4, <5>1 DEF observe_latency
      <4>3. LeastAverage[over + 1] = AfterBudget(low)
        BY <4>1, LeastAverageFacts DEF low
      <4> QED
        BY <2>3, <3>2, <4>2, <4>3 DEF OverInv
    <3> QED
      BY <3>3, <3>4
  <2> QED
    BY <2>1, <2>4, <2>5
<1> QED
  BY <1>1, <1>2 DEF EngineNext, AdaptiveNext, AdaptiveObserveGrowth, engineVars, adaptiveVars

\* Where the average of four observations at the budget takes a transaction
\* off the base count, four in a row at the budget or beyond always bring the
\* threshold below what the growth alone asks for, whatever came before.
THEOREM OverBudgetAlwaysShrinks ==
  ASSUME BudgetIsFelt
  PROVE  EngineSpec => []OverBudgetShrinks
<1>1. EngineInit => OverInv
  <2> SUFFICES ASSUME EngineInit PROVE OverInv
    OBVIOUS
  <2>1. observed_latency_ms = 0 /\ over = 0
    BY DEF EngineInit, AdaptiveInit
  <2> QED
    BY <2>1, LeastAverageFacts DEF OverInv
<1>2. ASSUME EngineInv, OverInv PROVE OverBudgetShrinks
  <2> SUFFICES ASSUME over = 4
               PROVE  Scaled(queue_growth_rate, observed_latency_ms)
                        < Scaled(queue_growth_rate, 0)
    BY DEF OverBudgetShrinks
  <2>1. queue_growth_rate \in Nat /\ observed_latency_ms \in Nat
    BY <1>2 DEF EngineInv, MemoryInv
  <2>2. observed_latency_ms >= LeastAverage[4]
    BY <1>2 DEF OverInv
  <2> QED
    BY <2>1, <2>2, ShrinksFrom
<1>3. EngineSpec => []OverInv
  BY <1>1, OverInductive, EngineInvariance, PTL DEF EngineSpec
<1> QED
  BY <1>2, <1>3, EngineInvariance, PTL

\* Traffic that turns bursty holds no queue back that was due, for every
\* maximal latency, except a queue below min_batch that half a maximal latency
\* below 400 ms made due while traffic was steady.
THEOREM BurstsHoldBackOnlySteady == EngineSpec => BurstHoldsBackOnlySteady
<1> DEFINE HeldBack(len, wait) ==
             /\ observed_pattern = "Steady" /\ MaxLatency < 400
             /\ len < MinBatch
             /\ wait >= MaxLatency \div 2 /\ wait < 200 /\ wait < MaxLatency
<1>1. ASSUME EngineInv, [EngineNext]_engineVars, observed_pattern' = "Bursty",
             NEW len \in 0..MaxBatch, NEW wait \in 0..MaxLatency, NEW rate \in {0, 51},
             AutoSeals(len, wait, rate), ~ AutoSeals(len, wait, rate)'
      PROVE  HeldBack(len, wait)
  <2>1. CASE UNCHANGED limits
    BY <1>1, <2>1 DEF AutoSeals, limits
  <2>2. CASE adapt_to_pattern("Bursty")
    <3>1. current_threshold' = MinBatch /\ current_time_limit_ms' = 200
      BY <2>2 DEF adapt_to_pattern, ThresholdOf, TimeLimitOf
    <3>2. LimitsFollowPattern /\ observed_pattern \in Patterns
      BY <1>1 DEF EngineInv, MemoryInv, AutoTypeOK
    <3>3. MinBatch \in Nat /\ MaxBatch \in Nat /\ MinBatch <= MaxBatch /\ MaxLatency \in Nat
      BY AutoAssumptions
    <3>4. len < MinBatch /\ wait < 200 /\ wait < MaxLatency
      BY <1>1, <3>1, <3>3 DEF AutoSeals
    <3>5. current_threshold \in Nat /\ MinBatch <= current_threshold
      BY <3>2, <3>3 DEF LimitsFollowPattern, Patterns, ThresholdOf
    <3>6. wait >= current_time_limit_ms
      BY <1>1, <3>3, <3>4, <3>5 DEF AutoSeals
    <3>7. CASE observed_pattern = "Steady"
      <4>1. current_time_limit_ms = MaxLatency \div 2
        BY <3>2, <3>7 DEF LimitsFollowPattern, TimeLimitOf
      <4> QED
        BY <3>3, <3>4, <3>6, <3>7, <4>1
    <3>8. CASE observed_pattern # "Steady"
      <4>1. current_time_limit_ms \in {200, 500, MaxLatency}
        BY <3>2, <3>8 DEF LimitsFollowPattern, Patterns, TimeLimitOf
      <4> QED
        BY <3>3, <3>4, <3>6, <4>1
    <3> QED
      BY <3>7, <3>8
  <2>3. UNCHANGED limits \/ adapt_to_pattern("Bursty")
    <3>1. CASE AutoNext
      BY <1>1, <3>1, StepAdapts DEF Adapts
    <3>2. CASE UNCHANGED autoVars
      BY <3>2 DEF autoVars
    <3> QED
      BY <1>1, <3>1, <3>2 DEF EngineNext, engineVars
  <2> QED
    BY <2>1, <2>2, <2>3
<1>2. EngineInv /\ [EngineNext]_engineVars =>
        [observed_pattern' = "Bursty" =>
           \A len \in 0..MaxBatch, wait \in 0..MaxLatency, rate \in {0, 51} :
              \/ AutoSeals(len, wait, rate) => AutoSeals(len, wait, rate)'
              \/ HeldBack(len, wait)]_autoVars
  BY <1>1
<1> QED
  BY <1>2, EngineInvariance, PTL DEF EngineSpec, BurstHoldsBackOnlySteady
=============================================================================
