--------------------------- MODULE PipelineProofs ---------------------------
(***************************************************************************)
(* Proofs about the benchmark's pipeline, for every plan, workload, policy *)
(* parameter and duration of proving and verifying.                        *)
(***************************************************************************)
EXTENDS Pipeline, MetricsProofs, SequenceTheorems

BatchMetrics ==
  [batch_size : Nat, total_compute_used : Int, execution_time_ms : Int,
   proving_time_ms : Nat, verification_time_ms : Nat, end_to_end_latency_ms : Nat,
   proof_size_bytes : {1}, verification_passed : {TRUE}]

\* The types, of what the type invariant leaves out too, and that there is a
\* simulation to run while the program runs.
TypeInv ==
  /\ TypeOK
  /\ DOMAIN rng = Range(Scenarios)
  /\ batch_metrics \in Seq(BatchMetrics)
  /\ results \in Seq(Range(results))
  /\ status = "running" => Len(results) < Len(plan)

-----------------------------------------------------------------------------
(* The lots.                                                               *)

\* Moving transactions to other places keeps them once and in order when no
\* two meet and none overtakes another.
LEMMA Relocated ==
  ASSUME NEW L, NEW M, NEW n, NEW m \in [Positions(M) -> Positions(L)],
         \A p \in Positions(M) : TxAt(M, p) = TxAt(L, m[p]),
         \A p \in Positions(L) : \E r \in Positions(M) : m[r] = p,
         \A p, r \in Positions(M) : m[p] = m[r] => p = r,
         \A p, r \in Positions(M) : Before(p, r) => Before(m[p], m[r]),
         OnceInOrder(L, n)
  PROVE  OnceInOrder(M, n)
<1>0. \A p \in Positions(M) : m[p] \in Positions(L)
  OBVIOUS
<1>1. {TxAt(M, p).tx_id : p \in Positions(M)} = {TxAt(L, p).tx_id : p \in Positions(L)}
  BY <1>0
<1>2. \A p, r \in Positions(M) : p # r => TxAt(M, p).tx_id # TxAt(M, r).tx_id
  BY <1>0 DEF OnceInOrder
<1>3. \A p, r \in Positions(M) :
         Before(p, r) /\ IsFast(TxAt(M, p)) = IsFast(TxAt(M, r)) =>
           TxAt(M, p).tx_id < TxAt(M, r).tx_id
  <2> SUFFICES ASSUME NEW p \in Positions(M), NEW r \in Positions(M),
                      Before(p, r), IsFast(TxAt(M, p)) = IsFast(TxAt(M, r))
               PROVE  TxAt(M, p).tx_id < TxAt(M, r).tx_id
    OBVIOUS
  <2>1. Before(m[p], m[r]) /\ IsFast(TxAt(L, m[p])) = IsFast(TxAt(L, m[r]))
    OBVIOUS
  <2>2. TxAt(L, m[p]).tx_id < TxAt(L, m[r]).tx_id
    BY <1>0, <2>1 DEF OnceInOrder
  <2> QED
    BY <2>2
<1> QED
  BY <1>1, <1>2, <1>3 DEF OnceInOrder

\* The next transaction may be put where no other of its lane comes later.
LEMMA Placed ==
  ASSUME NEW L, NEW M, NEW n \in Nat, NEW e,
         Positions(M) = Positions(L) \cup {e}, e \notin Positions(L),
         \A p \in Positions(L) : TxAt(M, p) = TxAt(L, p),
         TxAt(M, e).tx_id = n,
         \A p \in Positions(L) :
            Before(e, p) => IsFast(TxAt(M, e)) # IsFast(TxAt(M, p)),
         ~Before(e, e),
         OnceInOrder(L, n)
  PROVE  OnceInOrder(M, n + 1)
<1>1. \A p \in Positions(L) : TxAt(L, p).tx_id \in 0..n - 1
  BY DEF OnceInOrder
<1>2. \A p \in Positions(L) : TxAt(M, p).tx_id # n /\ TxAt(M, p).tx_id < n
  BY <1>1
<1>3. {TxAt(M, p).tx_id : p \in Positions(M)} = 0..n
  <2>1. {TxAt(M, p).tx_id : p \in Positions(M)}
          = {TxAt(L, p).tx_id : p \in Positions(L)} \cup {n}
    OBVIOUS
  <2>2. {TxAt(L, p).tx_id : p \in Positions(L)} = 0..n - 1
    BY DEF OnceInOrder
  <2>3. (0..n - 1) \cup {n} = 0..n
    OBVIOUS
  <2> QED
    BY <2>1, <2>2, <2>3
<1>4. \A p, r \in Positions(M) : p # r => TxAt(M, p).tx_id # TxAt(M, r).tx_id
  BY <1>2 DEF OnceInOrder
<1>5. \A p, r \in Positions(M) :
         Before(p, r) /\ IsFast(TxAt(M, p)) = IsFast(TxAt(M, r)) =>
           TxAt(M, p).tx_id < TxAt(M, r).tx_id
  <2> SUFFICES ASSUME NEW p \in Positions(M), NEW r \in Positions(M),
                      Before(p, r), IsFast(TxAt(M, p)) = IsFast(TxAt(M, r))
               PROVE  TxAt(M, p).tx_id < TxAt(M, r).tx_id
    OBVIOUS
  <2>1. p # e
    OBVIOUS
  <2>2. CASE r = e
    BY <1>2, <2>1, <2>2
  <2>3. CASE r # e
    BY <2>1, <2>3 DEF OnceInOrder
  <2> QED
    BY <2>2, <2>3
<1>6. (n + 1) - 1 = n
  OBVIOUS
<1> QED
  BY <1>3, <1>4, <1>5, <1>6 DEF OnceInOrder

\* The lots one by one.
LEMMA LotsAt ==
  ASSUME NEW T, NEW bs \in Seq(Seq(T)), NEW lane \in Seq(T), NEW q \in Seq(T)
  PROVE  LET L == bs \o <<lane, q>>
             B == Len(bs)
         IN  /\ B \in Nat
             /\ L \in Seq(Seq(T))
             /\ DOMAIN L = 1..B + 2
             /\ \A b \in 1..B : L[b] = bs[b]
             /\ L[B + 1] = lane /\ L[B + 2] = q
<1>1. <<lane, q>> \in Seq(Seq(T)) /\ Len(<<lane, q>>) = 2
  OBVIOUS
<1>2. Len(bs) \in Nat
  OBVIOUS
<1>3. /\ bs \o <<lane, q>> \in Seq(Seq(T))
      /\ Len(bs \o <<lane, q>>) = Len(bs) + 2
      /\ \A i \in 1 .. Len(bs) + 2 : (bs \o <<lane, q>>)[i] =
                     IF i <= Len(bs) THEN bs[i] ELSE <<lane, q>>[i - Len(bs)]
  BY <1>1, ConcatProperties
<1>4. DOMAIN (bs \o <<lane, q>>) = 1..Len(bs) + 2
  BY <1>3, LenProperties
<1>5. \A b \in 1..Len(bs) : (bs \o <<lane, q>>)[b] = bs[b]
  BY <1>2, <1>3
<1>6. (bs \o <<lane, q>>)[Len(bs) + 1] = lane
  BY <1>2, <1>3
<1>7. (bs \o <<lane, q>>)[Len(bs) + 2] = q
  BY <1>2, <1>3
<1> QED
  BY <1>2, <1>3, <1>4, <1>5, <1>6, <1>7

\* A position is a lot and a place in it.
LEMMA PositionFacts ==
  ASSUME NEW L
  PROVE  /\ \A p \in Positions(L) : /\ p = <<p[1], p[2]>>
                                    /\ p[1] \in DOMAIN L /\ p[2] \in DOMAIN L[p[1]]
         /\ \A b \in DOMAIN L : \A i \in DOMAIN L[b] : <<b, i>> \in Positions(L)
<1>1. ASSUME NEW p \in Positions(L)
      PROVE  /\ p = <<p[1], p[2]>>
             /\ p[1] \in DOMAIN L /\ p[2] \in DOMAIN L[p[1]]
  <2>1. PICK b \in DOMAIN L : p \in {b} \X DOMAIN L[b]
    BY DEF Positions
  <2> QED
    BY <2>1
<1>2. ASSUME NEW b \in DOMAIN L, NEW i \in DOMAIN L[b]
      PROVE  <<b, i>> \in Positions(L)
  <2>1. <<b, i>> \in {b} \X DOMAIN L[b]
    OBVIOUS
  <2> QED
    BY <2>1 DEF Positions
<1> QED
  BY <1>1, <1>2

\* The lots M are L with tx at the end of lot c, and the lots after it are of
\* the other lane.
PutAt(L, M, c, tx) ==
  /\ c \in DOMAIN L /\ DOMAIN M = DOMAIN L
  /\ \A b \in DOMAIN L : b # c => M[b] = L[b]
  /\ M[c] = Append(L[c], tx)
  /\ \A b \in DOMAIN L : c < b => \A i \in DOMAIN L[b] : IsFast(L[b][i]) <=> ~IsFast(tx)

\* The next transaction goes to the end of such a lot.
LEMMA Extended ==
  ASSUME NEW T, NEW L \in Seq(Seq(T)), NEW M \in Seq(Seq(T)), NEW c,
         NEW tx \in T, NEW n \in Nat, tx.tx_id = n,
         PutAt(L, M, c, tx), OnceInOrder(L, n)
  PROVE  OnceInOrder(M, n + 1)
<1> DEFINE k == Len(L[c]) + 1
           e == <<c, k>>
<1> USE DEF PutAt
<1>1. /\ L[c] \in Seq(T) /\ DOMAIN L[c] = 1..Len(L[c]) /\ Len(L[c]) \in Nat
      /\ DOMAIN L = 1..Len(L) /\ Len(L) \in Nat
  BY LenProperties, ElementOfSeq
<1>2. /\ Append(L[c], tx) \in Seq(T)
      /\ Len(Append(L[c], tx)) = k
      /\ \A i \in 1..Len(L[c]) : Append(L[c], tx)[i] = L[c][i]
      /\ Append(L[c], tx)[k] = tx
  BY <1>1, AppendProperties
<1>3. DOMAIN M[c] = 1..k
  BY <1>2, LenProperties
<1>4. DOMAIN M[c] = DOMAIN L[c] \cup {k} /\ k \notin DOMAIN L[c]
  BY <1>1, <1>3
<1>5. k \in Nat /\ c \in Nat
  BY <1>1
<1> HIDE DEF k
<1>6. e \notin Positions(L)
  <2> SUFFICES ASSUME e \in Positions(L)
               PROVE  FALSE
    OBVIOUS
  <2>1. e[2] \in DOMAIN L[e[1]]
    BY PositionFacts
  <2> QED
    BY <1>4, <2>1
<1>7. Positions(M) = Positions(L) \cup {e}
  <2>1. ASSUME NEW p \in Positions(M)
        PROVE  p \in Positions(L) \cup {e}
    <3>1. p = <<p[1], p[2]>> /\ p[1] \in DOMAIN M /\ p[2] \in DOMAIN M[p[1]]
      BY PositionFacts
    <3>2. CASE p[1] = c /\ p[2] = k
      BY <3>1, <3>2
    <3>3. CASE ~(p[1] = c /\ p[2] = k)
      <4>1. p[1] \in DOMAIN L /\ p[2] \in DOMAIN L[p[1]]
        BY <1>4, <3>1, <3>3
      <4>2. <<p[1], p[2]>> \in Positions(L)
        BY <4>1, PositionFacts
      <4> QED
        BY <3>1, <4>2
    <3> QED
      BY <3>2, <3>3
  <2>2. ASSUME NEW p \in Positions(L)
        PROVE  p \in Positions(M)
    <3>1. p = <<p[1], p[2]>> /\ p[1] \in DOMAIN L /\ p[2] \in DOMAIN L[p[1]]
      BY PositionFacts
    <3>2. p[1] \in DOMAIN M /\ p[2] \in DOMAIN M[p[1]]
      BY <1>4, <3>1
    <3>3. <<p[1], p[2]>> \in Positions(M)
      BY <3>2, PositionFacts
    <3> QED
      BY <3>1, <3>3
  <2>3. e \in Positions(M)
    <3>1. c \in DOMAIN M /\ k \in DOMAIN M[c]
      BY <1>4
    <3> QED
      BY <3>1, PositionFacts
  <2> QED
    BY <2>1, <2>2, <2>3
<1>8. \A p \in Positions(L) : TxAt(M, p) = TxAt(L, p)
  <2> SUFFICES ASSUME NEW p \in Positions(L)
               PROVE  M[p[1]][p[2]] = L[p[1]][p[2]]
    BY DEF TxAt
  <2>1. p[1] \in DOMAIN L /\ p[2] \in DOMAIN L[p[1]]
    BY PositionFacts
  <2>2. CASE p[1] = c
    BY <1>1, <1>2, <2>1, <2>2
  <2>3. CASE p[1] # c
    BY <2>1, <2>3
  <2> QED
    BY <2>2, <2>3
<1>9. TxAt(M, e) = tx
  BY <1>2 DEF TxAt
<1>10. ~Before(e, e)
  BY <1>5 DEF Before
<1>11. ASSUME NEW p \in Positions(L), Before(e, p)
       PROVE  IsFast(TxAt(M, e)) # IsFast(TxAt(M, p))
  <2>1. p[1] \in DOMAIN L /\ p[2] \in DOMAIN L[p[1]]
    BY PositionFacts
  <2>2. c < p[1]
    <3> SUFFICES ASSUME c = p[1], k < p[2]
                 PROVE  FALSE
      BY <1>11 DEF Before
    <3>1. p[2] \in 1..Len(L[c])
      BY <1>1, <2>1
    <3> QED
      BY <1>1, <3>1 DEF k
  <2>3. IsFast(L[p[1]][p[2]]) <=> ~IsFast(tx)
    BY <2>1, <2>2
  <2> QED
    BY <1>8, <1>9, <2>3 DEF TxAt
<1> HIDE DEF e
<1> QED
  BY <1>6, <1>7, <1>8, <1>9, <1>10, <1>11, Placed

\* A seal: the lanes become a batch, the fast one first.
LEMMA SealedLots ==
  ASSUME NEW T, NEW bs \in Seq(Seq(T)), NEW lane \in Seq(T), NEW q \in Seq(T),
         NEW n, OnceInOrder(bs \o <<lane, q>>, n)
  PROVE  OnceInOrder(Append(bs, lane \o q) \o <<<<>>, <<>>>>, n)
<1> DEFINE L == bs \o <<lane, q>>
           cs == Append(bs, lane \o q)
           M == cs \o <<<<>>, <<>>>>
           B == Len(bs)
           a == Len(lane)
           z == Len(q)
<1>1. /\ a \in Nat /\ z \in Nat /\ B \in Nat
      /\ DOMAIN lane = 1..a /\ DOMAIN q = 1..z
      /\ <<>> \in Seq(T)
  OBVIOUS
<1>2. /\ lane \o q \in Seq(T)
      /\ Len(lane \o q) = a + z
      /\ \A i \in 1..a + z : (lane \o q)[i] = IF i <= a THEN lane[i] ELSE q[i - a]
  BY ConcatProperties
<1>3. /\ cs \in Seq(Seq(T)) /\ Len(cs) = B + 1
      /\ \A b \in 1..B : cs[b] = bs[b]
      /\ cs[B + 1] = lane \o q
  BY <1>2, AppendProperties
<1>4. /\ DOMAIN L = 1..B + 2
      /\ \A b \in 1..B : L[b] = bs[b]
      /\ L[B + 1] = lane /\ L[B + 2] = q
  BY LotsAt
<1> HIDE DEF cs
<1>5. /\ DOMAIN M = 1..Len(cs) + 2
      /\ \A b \in 1..Len(cs) : M[b] = cs[b]
      /\ M[Len(cs) + 1] = <<>> /\ M[Len(cs) + 2] = <<>>
  BY <1>1, <1>3, LotsAt
<1> HIDE DEF L, M
<1>6. /\ DOMAIN M = 1..B + 3
      /\ \A b \in 1..B : M[b] = L[b]
      /\ M[B + 1] = lane \o q
      /\ M[B + 2] = <<>> /\ M[B + 3] = <<>>
  <2>1. Len(cs) + 2 = B + 3 /\ Len(cs) + 1 = B + 2
    BY <1>1, <1>3
  <2>2. \A b \in 1..B : b \in 1..Len(cs)
    BY <1>1, <1>3
  <2>3. B + 1 \in 1..Len(cs)
    BY <1>1, <1>3
  <2> QED
    BY <1>3, <1>4, <1>5, <2>1, <2>2, <2>3
<1>7. DOMAIN (lane \o q) = 1..a + z
  BY <1>2, LenProperties
<1>8. DOMAIN <<>> = {}
  OBVIOUS
<1> HIDE DEF B, a, z
<1>9. \A p \in Positions(M) :
         /\ p = <<p[1], p[2]>>
         /\ \/ p[1] \in 1..B /\ p[2] \in DOMAIN L[p[1]]
            \/ p[1] = B + 1 /\ p[2] \in 1..a + z
  <2> SUFFICES ASSUME NEW p \in Positions(M)
               PROVE  /\ p = <<p[1], p[2]>>
                      /\ \/ p[1] \in 1..B /\ p[2] \in DOMAIN L[p[1]]
                         \/ p[1] = B + 1 /\ p[2] \in 1..a + z
    OBVIOUS
  <2>1. p = <<p[1], p[2]>> /\ p[1] \in DOMAIN M /\ p[2] \in DOMAIN M[p[1]]
    BY PositionFacts
  <2>2. p[1] \in 1..B \/ p[1] = B + 1 \/ p[1] = B + 2 \/ p[1] = B + 3
    BY <1>1, <1>6, <2>1
  <2> QED
    BY <1>6, <1>7, <1>8, <2>1, <2>2
<1>10. \A p \in Positions(L) :
         /\ p = <<p[1], p[2]>>
         /\ \/ p[1] \in 1..B /\ p[2] \in DOMAIN L[p[1]]
            \/ p[1] = B + 1 /\ p[2] \in 1..a
            \/ p[1] = B + 2 /\ p[2] \in 1..z
  <2> SUFFICES ASSUME NEW p \in Positions(L)
               PROVE  /\ p = <<p[1], p[2]>>
                      /\ \/ p[1] \in 1..B /\ p[2] \in DOMAIN L[p[1]]
                         \/ p[1] = B + 1 /\ p[2] \in 1..a
                         \/ p[1] = B + 2 /\ p[2] \in 1..z
    OBVIOUS
  <2>1. p = <<p[1], p[2]>> /\ p[1] \in DOMAIN L /\ p[2] \in DOMAIN L[p[1]]
    BY PositionFacts
  <2>2. p[1] \in 1..B \/ p[1] = B + 1 \/ p[1] = B + 2
    BY <1>1, <1>4, <2>1
  <2> QED
    BY <1>1, <1>4, <2>1, <2>2
<1> DEFINE Moved(p) == p[1] = B + 1 /\ p[2] > a
           m == [p \in Positions(M) |-> IF Moved(p) THEN <<B + 2, p[2] - a>> ELSE p]
<1>11. ASSUME NEW p \in Positions(M)
       PROVE  m[p] \in Positions(L) /\ TxAt(M, p) = TxAt(L, m[p])
  <2>1. CASE p[1] \in 1..B
    <3>1. m[p] = p
      BY <1>1, <2>1
    <3>2. p = <<p[1], p[2]>> /\ p[2] \in DOMAIN L[p[1]] /\ p[1] \in DOMAIN L
      <4>1. p[1] # B + 1 /\ p[1] \in 1..B + 2
        BY <1>1, <2>1
      <4> QED
        BY <1>4, <1>9, <4>1
    <3>3. <<p[1], p[2]>> \in Positions(L)
      BY <3>2, PositionFacts
    <3> QED
      BY <1>6, <2>1, <3>1, <3>2, <3>3 DEF TxAt
  <2>2. CASE p[1] = B + 1 /\ p[2] <= a
    <3>1. m[p] = p
      BY <1>1, <1>9, <2>2
    <3>2. p = <<B + 1, p[2]>> /\ p[2] \in 1..a /\ p[2] \in 1..a + z /\ B + 1 \in DOMAIN L
      BY <1>1, <1>4, <1>9, <2>2
    <3>3. <<B + 1, p[2]>> \in Positions(L)
      BY <1>1, <1>4, <3>2, PositionFacts
    <3>4. M[p[1]][p[2]] = L[p[1]][p[2]]
      <4>1. (lane \o q)[p[2]] = lane[p[2]]
        BY <1>2, <2>2, <3>2
      <4> QED
        BY <1>4, <1>6, <2>2, <4>1
    <3> QED
      BY <3>1, <3>2, <3>3, <3>4 DEF TxAt
  <2>3. CASE p[1] = B + 1 /\ p[2] > a
    <3>1. m[p] = <<B + 2, p[2] - a>>
      BY <2>3
    <3>2. p[2] - a \in 1..z /\ p[2] \in 1..a + z /\ ~(p[2] <= a) /\ B + 2 \in DOMAIN L
      BY <1>1, <1>4, <1>9, <2>3
    <3>3. <<B + 2, p[2] - a>> \in Positions(L)
      BY <1>1, <1>4, <3>2, PositionFacts
    <3>4. M[p[1]][p[2]] = q[p[2] - a]
      BY <1>2, <1>6, <2>3, <3>2
    <3>5. TxAt(L, <<B + 2, p[2] - a>>) = q[p[2] - a]
      BY <1>4 DEF TxAt
    <3> QED
      BY <3>1, <3>3, <3>4, <3>5 DEF TxAt
  <2>4. p[1] \in 1..B \/ (p[1] = B + 1 /\ p[2] \in 1..a + z)
    BY <1>9
  <2>5. p[1] = B + 1 /\ p[2] \in 1..a + z => p[2] <= a \/ p[2] > a
    BY <1>1
  <2> QED
    BY <2>1, <2>2, <2>3, <2>4, <2>5
<1>12. m \in [Positions(M) -> Positions(L)]
  BY <1>11
<1>13. \A p \in Positions(M) :
         IF Moved(p) THEN /\ m[p] = <<B + 2, p[2] - a>>
                          /\ m[p][1] = B + 2 /\ m[p][2] = p[2] - a
                     ELSE m[p] = p
  OBVIOUS
<1> HIDE DEF m
<1>14. ASSUME NEW p \in Positions(L)
       PROVE  \E r \in Positions(M) : m[r] = p
  <2>1. CASE p[1] \in 1..B
    <3>1. p = <<p[1], p[2]>> /\ p[1] \in DOMAIN M /\ p[2] \in DOMAIN M[p[1]]
      <4>1. p[2] \in DOMAIN L[p[1]]
        BY <1>1, <1>10, <2>1
      <4>2. p[1] \in DOMAIN M
        BY <1>1, <1>6, <2>1
      <4> QED
        BY <1>6, <1>10, <2>1, <4>1, <4>2
    <3>2. <<p[1], p[2]>> \in Positions(M)
      BY <3>1, PositionFacts
    <3>3. ~Moved(p)
      BY <1>1, <2>1
    <3> QED
      BY <1>13, <3>1, <3>2, <3>3
  <2>2. CASE p[1] = B + 1
    <3>1. p = <<B + 1, p[2]>> /\ p[2] \in 1..a + z /\ ~(p[2] > a) /\ B + 1 \in DOMAIN M
      BY <1>1, <1>6, <1>10, <2>2
    <3>2. <<B + 1, p[2]>> \in Positions(M)
      BY <1>6, <1>7, <3>1, PositionFacts
    <3> QED
      BY <1>13, <3>1, <3>2
  <2>3. CASE p[1] = B + 2
    <3>1. /\ p = <<B + 2, p[2]>> /\ p[2] \in 1..z
          /\ p[2] + a \in 1..a + z /\ p[2] + a > a /\ (p[2] + a) - a = p[2]
          /\ B + 1 \in DOMAIN M
      BY <1>1, <1>6, <1>10, <2>3
    <3>2. <<B + 1, p[2] + a>> \in Positions(M)
      BY <1>6, <1>7, <3>1, PositionFacts
    <3>3. m[<<B + 1, p[2] + a>>] = <<B + 2, (p[2] + a) - a>>
      BY <1>13, <3>1, <3>2
    <3> QED
      BY <3>1, <3>2, <3>3
  <2> QED
    BY <1>10, <2>1, <2>2, <2>3
<1>15. \A p \in Positions(M) : ~Moved(p) =>
         p[1] \in 1..B \/ (p[1] = B + 1 /\ p[2] \in 1..a)
  BY <1>1, <1>9
<1>16. \A p \in Positions(M) : p[1] \in Nat /\ p[1] <= B + 1
  BY <1>1, <1>9
<1>17. ASSUME NEW p \in Positions(M), NEW r \in Positions(M), m[p] = m[r]
       PROVE  p = r
  <2>1. CASE Moved(p) /\ Moved(r)
    <3>1. p[2] - a = r[2] - a
      <4> HIDE DEF Moved
      <4> QED
        BY <1>13, <1>17, <2>1
    <3>2. p[2] \in Int /\ r[2] \in Int
      BY <1>1, <1>9, <2>1
    <3>3. p[2] = r[2] /\ p[1] = r[1]
      BY <1>1, <2>1, <3>1, <3>2
    <3> QED
      BY <1>9, <3>3
  <2>2. CASE ~Moved(p) /\ ~Moved(r)
    BY <1>13, <1>17, <2>2
  <2>3. CASE Moved(p) /\ ~Moved(r)
    <3>1. r[1] = B + 2
      <4> HIDE DEF Moved
      <4> QED
        BY <1>13, <1>17, <2>3
    <3> QED
      BY <1>1, <1>16, <3>1
  <2>4. CASE ~Moved(p) /\ Moved(r)
    <3>1. p[1] = B + 2
      <4> HIDE DEF Moved
      <4> QED
        BY <1>13, <1>17, <2>4
    <3> QED
      BY <1>1, <1>16, <3>1
  <2> QED
    BY <2>1, <2>2, <2>3, <2>4
<1>18. ASSUME NEW p \in Positions(M), NEW r \in Positions(M), Before(p, r)
       PROVE  Before(m[p], m[r])
  <2>1. CASE ~Moved(p) /\ ~Moved(r)
    BY <1>13, <1>18, <2>1
  <2>2. CASE Moved(p) /\ Moved(r)
    <3>1. m[p] = <<B + 2, p[2] - a>> /\ m[r] = <<B + 2, r[2] - a>>
      BY <1>13, <2>2
    <3>2. p[2] \in Int /\ r[2] \in Int
      BY <1>1, <1>9, <2>2
    <3>3. p[2] < r[2]
      BY <1>1, <1>18, <2>2 DEF Before
    <3>4. p[2] - a < r[2] - a
      BY <1>1, <3>2, <3>3
    <3> QED
      BY <3>1, <3>4 DEF Before
  <2>3. CASE ~Moved(p) /\ Moved(r)
    <3>1. m[p] = p /\ m[r][1] = B + 2
      <4> HIDE DEF Moved
      <4> QED
        BY <1>13, <2>3
    <3>2. p[1] < B + 2
      BY <1>1, <1>16
    <3> QED
      BY <3>1, <3>2 DEF Before
  <2>4. CASE Moved(p) /\ ~Moved(r)
    <3>1. r[1] \in Nat /\ r[1] <= B + 1 /\ p[1] = B + 1
      BY <1>16, <2>4
    <3>2. r[1] = B + 1 /\ p[2] < r[2]
      BY <1>1, <1>18, <3>1 DEF Before
    <3>3. r[2] \in 1..a
      BY <1>1, <1>15, <2>4, <3>2
    <3>4. p[2] \in 1..a + z
      BY <1>1, <1>9, <3>1
    <3> QED
      BY <1>1, <2>4, <3>2, <3>3, <3>4
  <2> QED
    BY <2>1, <2>2, <2>3, <2>4
<1>19. OnceInOrder(L, n)
  BY DEF L
<1>20. OnceInOrder(M, n)
  BY <1>11, <1>12, <1>14, <1>17, <1>18, <1>19, Relocated
<1> QED
  BY <1>20 DEF M, cs

-----------------------------------------------------------------------------
(* Steps.                                                                  *)

\* A value may be appended to any sequence.
LEMMA AppendAny ==
  ASSUME NEW s, s \in Seq(Range(s)), NEW x
  PROVE  /\ Append(s, x) \in Seq(Range(Append(s, x)))
         /\ Len(Append(s, x)) = Len(s) + 1
         /\ \A i \in 1..Len(s) : Append(s, x)[i] = s[i]
         /\ Append(s, x)[Len(s) + 1] = x
<1> DEFINE S == Range(s) \cup {x}
<1>1. s \in Seq(S)
  BY SeqMonotonic
<1> HIDE DEF S
<1>2. x \in S
  BY DEF S
<1>3. /\ Append(s, x) \in Seq(S)
      /\ Len(Append(s, x)) = Len(s) + 1
      /\ \A i \in 1..Len(s) : Append(s, x)[i] = s[i]
      /\ Append(s, x)[Len(s) + 1] = x
  BY <1>1, <1>2, AppendProperties
<1> QED
  BY <1>3, SeqOfRange

\* The simulation that is running is one of the plan.
LEMMA CurrentFacts ==
  ASSUME TypeInv, status = "running"
  PROVE  /\ Len(results) \in Nat /\ Len(plan) \in Nat
         /\ Len(results) + 1 <= Len(plan)
         /\ Current = <<policy_name, scenario>>
         /\ scenario \in Range(Scenarios)
<1>1. Len(results) \in Nat /\ Len(results) < Len(plan)
  BY DEF TypeInv
<1>2. plan \in Seq(STRING \X Range(Scenarios))
  BY PipelineAssumptions DEF TypeInv, TypeOK
<1>3. Len(plan) \in Nat
  BY <1>2
<1>4. Len(results) + 1 \in 1..Len(plan)
  BY <1>1, <1>3
<1>5. Current \in STRING \X Range(Scenarios)
  BY <1>2, <1>4, ElementOfSeq DEF Current
<1> QED
  BY <1>1, <1>3, <1>5 DEF policy_name, scenario

\* The values of a draw.
LEMMA DrawFacts ==
  ASSUME NEW d \in Draw
  PROVE  d.gap \in Nat /\ d.priority \in Priorities /\ d.op \in Opcodes
BY WorkloadAssumptions DEF Draw

\* A transaction and what it was drawn from.
Drawn(d, tx) ==
  /\ generated < Len(rng[scenario]) => d = rng[scenario][generated + 1]
  /\ tx.tx_id = generated /\ tx.op = d.op
  /\ current_time_ms <= tx.arrival_ts

\* The lanes once it has been routed.
Routed(tx, lane, q) ==
  \/ IsFast(tx) /\ lane = Append(priority_lane, tx) /\ q = queue
  \/ ~IsFast(tx) /\ lane = priority_lane /\ q = Append(queue, tx)

\* The generator's part of ingest.
Generates(d, tx) ==
  /\ generated' = generated + 1
  /\ current_time_ms' = tx.arrival_ts
  /\ rng' = [rng EXCEPT ![scenario] = IF generated < Len(@) THEN @ ELSE Append(@, d)]
  /\ oldest_arrival' = OldestAfter(tx.arrival_ts)
  /\ plan' = plan

\* ingest when nothing is sealed.
Keeps(lane, q, now) ==
  /\ clock' = now
  /\ priority_lane' = lane
  /\ queue' = q
  /\ UNCHANGED <<status, results, batch_counter, last_seal_time, batch_metrics, batches>>

\* What ingest does, with the values of its local variables.
LEMMA IngestFacts ==
  ASSUME TypeInv, ingest
  PROVE  /\ status = "running" /\ generated < TxCount
         /\ \E d \in Draw, tx \in Tx, lane \in Seq(Tx), q \in Seq(Tx), now \in Nat :
              /\ Drawn(d, tx) /\ Routed(tx, lane, q) /\ Generates(d, tx)
              /\ now = ClockAt(tx.arrival_ts)
              /\ \/ seal_and_process(lane, q, now)
                 \/ /\ ~SealsNow(Len(lane) + Len(q), now, OldestAfter(tx.arrival_ts))
                    /\ Keeps(lane, q, now)
<1>1. status = "running" /\ generated < TxCount
  BY DEF ingest
<1>2. scenario \in Range(Scenarios)
  BY <1>1, CurrentFacts
<1>3. /\ rng[scenario] \in Seq(Draw) /\ generated \in Nat /\ current_time_ms \in Nat
      /\ clock \in Nat /\ TxCount \in Nat
  BY <1>2, PipelineAssumptions DEF TypeInv, TypeOK
<1>4. SeededDraws(generated) \subseteq Draw
  <2>1. CASE generated < Len(rng[scenario])
    <3>1. generated + 1 \in 1..Len(rng[scenario])
      BY <1>3, <2>1
    <3>2. rng[scenario][generated + 1] \in Draw
      BY <1>3, <3>1, ElementOfSeq
    <3> QED
      BY <2>1, <3>2 DEF SeededDraws
  <2>2. CASE ~(generated < Len(rng[scenario]))
    BY <2>2 DEF SeededDraws, Draws
  <2> QED
    BY <2>1, <2>2
<1>5. PICK d \in SeededDraws(generated) :
       LET arrival == current_time_ms + d.gap
           tx      == Transaction(generated, arrival, d)
           now     == ClockAt(arrival)
           lane    == IF IsFast(tx) THEN Append(priority_lane, tx) ELSE priority_lane
           q       == IF IsFast(tx) THEN queue ELSE Append(queue, tx)
       IN  /\ generated' = generated + 1
           /\ current_time_ms' = arrival
           /\ rng' = [rng EXCEPT ![scenario] =
                        IF generated < Len(@) THEN @ ELSE Append(@, d)]
           /\ oldest_arrival' = OldestAfter(arrival)
           /\ IF SealsNow(Len(lane) + Len(q), now, OldestAfter(arrival))
              THEN seal_and_process(lane, q, now)
              ELSE /\ clock' = now
                   /\ priority_lane' = lane
                   /\ queue' = q
                   /\ UNCHANGED <<status, results, batch_counter, last_seal_time,
                                  batch_metrics, batches>>
  BY DEF ingest
<1>6. d \in Draw /\ (generated < Len(rng[scenario]) => d = rng[scenario][generated + 1])
  BY <1>4 DEF SeededDraws
<1>7. PICK arrival \in Nat : arrival = current_time_ms + d.gap
  BY <1>3, <1>6, DrawFacts
<1>8. PICK tx : tx = Transaction(generated, arrival, d)
  OBVIOUS
<1>9. /\ tx \in Tx /\ tx.tx_id = generated /\ tx.op = d.op /\ tx.arrival_ts = arrival
  <2>1. tx = [tx_id |-> generated, arrival_ts |-> arrival, priority |-> d.priority, op |-> d.op]
    BY <1>8 DEF Transaction
  <2>2. generated \in 0..TxCount - 1
    BY <1>1, <1>3
  <2>3. d.priority \in Priorities /\ d.op \in Opcodes
    BY <1>6, DrawFacts
  <2> QED
    BY <2>1, <2>2, <2>3 DEF Tx
<1>10. current_time_ms <= arrival
  BY <1>3, <1>6, <1>7, DrawFacts
<1>11. PICK now \in Nat : now = ClockAt(arrival)
  BY <1>3 DEF ClockAt, Later
<1>12. PICK lane : lane = IF IsFast(tx) THEN Append(priority_lane, tx) ELSE priority_lane
  OBVIOUS
<1>13. PICK q : q = IF IsFast(tx) THEN queue ELSE Append(queue, tx)
  OBVIOUS
<1>14. lane \in Seq(Tx) /\ q \in Seq(Tx)
  <2>1. priority_lane \in Seq(Tx) /\ queue \in Seq(Tx)
    BY DEF TypeInv, TypeOK
  <2> QED
    BY <1>9, <1>12, <1>13, <2>1, AppendProperties
<1>15. Routed(tx, lane, q)
  BY <1>12, <1>13 DEF Routed
<1>16. Drawn(d, tx)
  BY <1>6, <1>9, <1>10 DEF Drawn
<1>17. plan' = plan
  BY DEF ingest
<1>18. Generates(d, tx)
  BY <1>5, <1>7, <1>9, <1>17 DEF Generates
<1>19. IF SealsNow(Len(lane) + Len(q), now, OldestAfter(arrival))
       THEN seal_and_process(lane, q, now)
       ELSE Keeps(lane, q, now)
  BY <1>5, <1>7, <1>8, <1>11, <1>12, <1>13 DEF Keeps
<1> QED
  BY <1>1, <1>6, <1>9, <1>11, <1>14, <1>15, <1>16, <1>18, <1>19

\* What seal_and_process does.
LEMMA SealFacts ==
  ASSUME NEW lane, NEW q, NEW now, seal_and_process(lane, q, now)
  PROVE  /\ queue' = <<>> /\ priority_lane' = <<>>
         /\ batches' = Append(batches, lane \o q)
         /\ batch_counter' = batch_counter + 1
         /\ \/ /\ \E pr \in ProveMs, ve \in VerifyMs :
                     /\ clock' = now + pr + ve
                     /\ last_seal_time' = now + pr + ve
                     /\ batch_metrics' = Append(batch_metrics, MetricsOf(lane \o q, pr, ve))
               /\ status' = status /\ results' = results
            \/ /\ clock' = now \/ \E pr \in ProveMs : clock' = now + pr
               /\ status' = "failed" /\ results' = <<>>
               /\ last_seal_time' = last_seal_time /\ batch_metrics' = batch_metrics
BY DEF seal_and_process, DrainOrder

-----------------------------------------------------------------------------
(* Types.                                                                  *)

\* The compute of a sequence of transactions or of draws.
Compute(s) == Total([i \in DOMAIN s |-> ComputeUnits[s[i].op]])

\* The compute units of the opcodes.
LEMMA ComputeUnitsType == \A op \in Opcodes : ComputeUnits[op] \in Int
<1> SUFFICES ASSUME NEW op \in Opcodes
             PROVE  ComputeUnits[op] \in Int
  OBVIOUS
<1>1. op = 0 \/ op = 1 \/ op = 2 \/ op = 3 \/ op = 4
  BY DEF Opcodes
<1> QED
  BY <1>1 DEF ComputeUnits

\* The compute units of a sequence are numbers, so that it has a sum.
LEMMA ComputeType ==
  ASSUME NEW T, NEW s \in Seq(T), \A x \in T : x.op \in Opcodes
  PROVE  /\ [i \in DOMAIN s |-> ComputeUnits[s[i].op]] \in Seq(Int)
         /\ Len([i \in DOMAIN s |-> ComputeUnits[s[i].op]]) = Len(s)
         /\ Compute(s) \in Int
<1> DEFINE c == [i \in DOMAIN s |-> ComputeUnits[s[i].op]]
<1>1. DOMAIN s = 1..Len(s) /\ Len(s) \in Nat /\ \A i \in 1..Len(s) : s[i] \in T
  OBVIOUS
<1>2. \A i \in 1..Len(s) : ComputeUnits[s[i].op] \in Int
  BY <1>1, ComputeUnitsType
<1>3. c \in Seq(Int) /\ Len(c) = Len(s)
  BY <1>1, <1>2
<1> HIDE DEF c
<1>4. Total(c) \in Int
  BY <1>3, TotalType
<1> QED
  BY <1>3, <1>4 DEF c, Compute

\* The metrics of a batch.
LEMMA MetricsOfType ==
  ASSUME NEW txs \in Seq(Tx), NEW pr \in ProveMs, NEW ve \in VerifyMs
  PROVE  /\ MetricsOf(txs, pr, ve) \in BatchMetrics
         /\ MetricsOf(txs, pr, ve).batch_size = Len(txs)
         /\ MetricsOf(txs, pr, ve).total_compute_used = Compute(txs)
<1>1. pr \in Nat /\ ve \in Nat /\ pr + ve \in Nat /\ Len(txs) \in Nat
  BY PipelineAssumptions
<1>2. Compute(txs) \in Int
  <2>1. \A x \in Tx : x.op \in Opcodes
    BY DEF Tx
  <2> QED
    BY <2>1, ComputeType
<1>3. Compute(txs) \div 1000 \in Int
  BY <1>2
<1>4. MetricsOf(txs, pr, ve)
        = [batch_size |-> Len(txs), total_compute_used |-> Compute(txs),
           execution_time_ms |-> Compute(txs) \div 1000, proving_time_ms |-> pr,
           verification_time_ms |-> ve, end_to_end_latency_ms |-> pr + ve,
           proof_size_bytes |-> 1, verification_passed |-> TRUE]
  BY DEF MetricsOf, Compute
<1> QED
  BY <1>1, <1>2, <1>3, <1>4 DEF BatchMetrics

\* The initial states.
LEMMA TypeInit == Init => TypeInv
<1> SUFFICES ASSUME Init
             PROVE  TypeInv
  OBVIOUS
<1>1. Len(<<>>) = 0 /\ \A S : <<>> \in Seq(S)
  OBVIOUS
<1>2. plan \in Seq(STRING \X Range(Scenarios)) /\ TxCount \in Nat
  BY PipelineAssumptions DEF Init
<1>3. Len(plan) \in Nat /\ (plan # <<>> => 0 < Len(plan))
  BY <1>2
<1>4. DOMAIN rng = Range(Scenarios) /\ \A s \in Range(Scenarios) : rng[s] = <<>>
  BY DEF Init
<1>5. /\ plan \in Plans
      /\ status \in {"running", "done", "failed"} /\ status # "failed"
      /\ status = "running" => plan # <<>>
      /\ results = <<>> /\ batch_metrics = <<>> /\ batches = <<>>
      /\ priority_lane = <<>> /\ queue = <<>>
      /\ generated = 0 /\ current_time_ms = 0 /\ clock = 0 /\ oldest_arrival = 0
      /\ last_seal_time = 0 /\ batch_counter = 0
  BY DEF Init
<1>6. generated \in 0..TxCount
  BY <1>2, <1>5
<1>7. {current_time_ms, clock, oldest_arrival, last_seal_time} \subseteq Nat
  BY <1>5
<1>8. \A s \in Range(Scenarios) : rng[s] \in Seq(Draw) /\ Len(rng[s]) <= TxCount
  <2>1. 0 <= TxCount
    BY <1>2
  <2>2. \A s \in Range(Scenarios) : rng[s] \in Seq(Draw)
    BY <1>1, <1>4
  <2>3. \A s \in Range(Scenarios) : Len(rng[s]) = 0
    BY <1>1, <1>4
  <2> QED
    BY <2>1, <2>2, <2>3
<1>9. /\ batch_counter = Len(batches)
      /\ Len(batch_metrics) = Len(batches) - (IF status = "failed" THEN 1 ELSE 0)
  BY <1>1, <1>5
<1>10. batches \in Seq(Seq(Tx)) /\ priority_lane \in Seq(Tx) /\ queue \in Seq(Tx)
  BY <1>1, <1>5
<1>11. Len(results) <= Len(plan)
  BY <1>1, <1>3, <1>5
<1>12. TypeOK
  BY <1>5, <1>6, <1>7, <1>8, <1>9, <1>10, <1>11 DEF TypeOK
<1> QED
  BY <1>1, <1>3, <1>4, <1>5, <1>12 DEF TypeInv

\* The types after a seal.
LEMMA SealTypes ==
  ASSUME TypeInv, status = "running", NEW lane \in Seq(Tx), NEW q \in Seq(Tx),
         NEW now \in Nat, seal_and_process(lane, q, now), plan' = plan
  PROVE  /\ status' \in {"running", "failed"}
         /\ results' \in Seq(Range(results'))
         /\ Len(results') <= Len(plan')
         /\ status' = "running" => Len(results') < Len(plan')
         /\ clock' \in Nat /\ last_seal_time' \in Nat
         /\ batch_counter' = Len(batches')
         /\ Len(batch_metrics') = Len(batches') - (IF status' = "failed" THEN 1 ELSE 0)
         /\ batches' \in Seq(Seq(Tx)) /\ priority_lane' \in Seq(Tx) /\ queue' \in Seq(Tx)
         /\ batch_metrics' \in Seq(BatchMetrics)
<1>1. Len(<<>>) = 0 /\ \A S : <<>> \in Seq(S)
  OBVIOUS
<1>2. /\ queue' = <<>> /\ priority_lane' = <<>>
      /\ batches' = Append(batches, lane \o q)
      /\ batch_counter' = batch_counter + 1
  BY SealFacts
<1>3. lane \o q \in Seq(Tx)
  BY ConcatProperties
<1>4. /\ batches \in Seq(Seq(Tx)) /\ batch_counter = Len(batches)
      /\ batch_metrics \in Seq(BatchMetrics)
      /\ last_seal_time \in Nat
      /\ Len(batch_metrics) = Len(batches)
      /\ results \in Seq(Range(results))
  <2>1. Len(batch_metrics) = Len(batches) - (IF status = "failed" THEN 1 ELSE 0)
    BY DEF TypeInv, TypeOK
  <2>2. batches \in Seq(Seq(Tx))
    BY DEF TypeInv, TypeOK
  <2>3. Len(batch_metrics) = Len(batches)
    BY <2>1, <2>2
  <2> QED
    BY <2>3 DEF TypeInv, TypeOK
<1>5. /\ batches' \in Seq(Seq(Tx)) /\ Len(batches') = Len(batches) + 1
  BY <1>2, <1>3, <1>4, AppendProperties
<1>6. Len(results) \in Nat /\ Len(plan) \in Nat /\ Len(results) + 1 <= Len(plan)
  BY CurrentFacts
<1>7. CASE /\ \E pr \in ProveMs, ve \in VerifyMs :
                /\ clock' = now + pr + ve
                /\ last_seal_time' = now + pr + ve
                /\ batch_metrics' = Append(batch_metrics, MetricsOf(lane \o q, pr, ve))
           /\ status' = status /\ results' = results
  <2>1. PICK pr \in ProveMs, ve \in VerifyMs :
                /\ clock' = now + pr + ve
                /\ last_seal_time' = now + pr + ve
                /\ batch_metrics' = Append(batch_metrics, MetricsOf(lane \o q, pr, ve))
    BY <1>7
  <2>2. pr \in Nat /\ ve \in Nat
    BY PipelineAssumptions
  <2>3. clock' \in Nat /\ last_seal_time' \in Nat
    BY <2>1, <2>2
  <2>4. MetricsOf(lane \o q, pr, ve) \in BatchMetrics
    BY <1>3, MetricsOfType
  <2>5. /\ batch_metrics' \in Seq(BatchMetrics)
        /\ Len(batch_metrics') = Len(batch_metrics) + 1
    BY <1>4, <2>1, <2>4, AppendProperties
  <2>6. Len(batch_metrics') = Len(batches') - 0
    BY <1>4, <1>5, <2>5
  <2> QED
    BY <1>1, <1>2, <1>4, <1>5, <1>6, <1>7, <2>3, <2>5, <2>6
<1>8. CASE /\ clock' = now \/ \E pr \in ProveMs : clock' = now + pr
           /\ status' = "failed" /\ results' = <<>>
           /\ last_seal_time' = last_seal_time /\ batch_metrics' = batch_metrics
  <2>1. clock' \in Nat
    BY <1>8, PipelineAssumptions
  <2>2. Len(batch_metrics') = Len(batches') - 1
    BY <1>4, <1>5, <1>8
  <2>3. Len(results') <= Len(plan')
    BY <1>1, <1>6, <1>8
  <2>4. results' \in Seq(Range(results'))
    BY <1>1, <1>8
  <2> QED
    BY <1>1, <1>2, <1>4, <1>5, <1>8, <2>1, <2>2, <2>3, <2>4
<1> QED
  BY <1>7, <1>8, SealFacts

\* The draws of the seed after one more.
LEMMA DrawnTypes ==
  ASSUME TypeInv, status = "running", generated < TxCount,
         NEW d \in Draw, NEW tx \in Tx, Generates(d, tx)
  PROVE  /\ generated' \in 0..TxCount /\ current_time_ms' \in Nat
         /\ oldest_arrival' \in Nat
         /\ DOMAIN rng' = Range(Scenarios)
         /\ \A s \in Range(Scenarios) : rng'[s] \in Seq(Draw) /\ Len(rng'[s]) <= TxCount
         /\ \A s \in Range(Scenarios) : s # scenario => rng'[s] = rng[s]
         /\ rng'[scenario] = IF generated < Len(rng[scenario]) THEN rng[scenario]
                             ELSE Append(rng[scenario], d)
<1>1. scenario \in Range(Scenarios)
  BY CurrentFacts
<1>2. /\ generated \in Nat /\ TxCount \in Nat /\ oldest_arrival \in Nat
      /\ DOMAIN rng = Range(Scenarios)
      /\ \A s \in Range(Scenarios) : rng[s] \in Seq(Draw) /\ Len(rng[s]) <= TxCount
  BY PipelineAssumptions DEF TypeInv, TypeOK
<1>3. rng' = [rng EXCEPT ![scenario] = IF generated < Len(@) THEN @ ELSE Append(@, d)]
  BY DEF Generates
<1>4. DOMAIN rng' = Range(Scenarios)
  BY <1>2, <1>3
<1>5. \A s \in Range(Scenarios) : s # scenario => rng'[s] = rng[s]
  BY <1>2, <1>3
<1>6. rng'[scenario] = IF generated < Len(rng[scenario]) THEN rng[scenario]
                       ELSE Append(rng[scenario], d)
  BY <1>1, <1>2, <1>3
<1>7. /\ Append(rng[scenario], d) \in Seq(Draw)
      /\ Len(Append(rng[scenario], d)) = Len(rng[scenario]) + 1
  BY <1>1, <1>2, AppendProperties
<1>8. rng'[scenario] \in Seq(Draw) /\ Len(rng'[scenario]) <= TxCount
  <2>1. CASE generated < Len(rng[scenario])
    BY <1>1, <1>2, <1>6, <2>1
  <2>2. CASE ~(generated < Len(rng[scenario]))
    <3>1. Len(rng[scenario]) \in Nat
      BY <1>1, <1>2
    <3> QED
      BY <1>2, <1>6, <1>7, <2>2, <3>1
  <2> QED
    BY <2>1, <2>2
<1>9. generated' \in 0..TxCount
  BY <1>2 DEF Generates
<1>10. current_time_ms' \in Nat /\ oldest_arrival' \in Nat
  BY <1>2 DEF Generates, OldestAfter, Tx
<1> QED
  BY <1>2, <1>4, <1>5, <1>6, <1>8, <1>9, <1>10

\* The types of the rest, which a step may leave alone.
LEMMA TypeStep ==
  ASSUME TypeInv, [Next]_vars
  PROVE  TypeInv'
<1>0. Len(<<>>) = 0 /\ \A S : <<>> \in Seq(S)
  OBVIOUS
<1>1. CASE ingest
  <2>1. status = "running" /\ generated < TxCount
    BY <1>1, IngestFacts
  <2>2. PICK d \in Draw, tx \in Tx, lane \in Seq(Tx), q \in Seq(Tx), now \in Nat :
          /\ Generates(d, tx)
          /\ \/ seal_and_process(lane, q, now)
             \/ Keeps(lane, q, now)
    BY <1>1, IngestFacts
  <2>3. plan' = plan
    BY <2>2 DEF Generates
  <2>4. /\ generated' \in 0..TxCount /\ current_time_ms' \in Nat
        /\ oldest_arrival' \in Nat
        /\ DOMAIN rng' = Range(Scenarios)
        /\ \A s \in Range(Scenarios) : rng'[s] \in Seq(Draw) /\ Len(rng'[s]) <= TxCount
    BY <2>1, <2>2, DrawnTypes
  <2>5. CASE seal_and_process(lane, q, now)
    BY <2>1, <2>3, <2>4, <2>5, SealTypes DEF TypeInv, TypeOK
  <2>6. CASE Keeps(lane, q, now)
    BY <2>1, <2>3, <2>4, <2>6 DEF TypeInv, TypeOK, Keeps
  <2> QED
    BY <2>2, <2>5, <2>6
<1>2. CASE flush
  <2>1. PICK lane \in Seq(Tx), q \in Seq(Tx), now \in Nat :
          lane = priority_lane /\ q = queue /\ now = clock
    BY DEF TypeInv, TypeOK
  <2>2. /\ status = "running" /\ seal_and_process(lane, q, now)
        /\ UNCHANGED <<plan, rng, generated, current_time_ms, oldest_arrival>>
    BY <1>2, <2>1 DEF flush, generator
  <2> QED
    BY <2>2, SealTypes DEF TypeInv, TypeOK
<1>3. CASE finalize
  <2>1. /\ status = "running" /\ results' = Append(results, Report)
        /\ plan' = plan /\ rng' = rng
    BY <1>3 DEF finalize
  <2>2. Len(results) \in Nat /\ Len(plan) \in Nat /\ Len(results) + 1 <= Len(plan)
    BY <2>1, CurrentFacts
  <2>3. results' \in Seq(Range(results')) /\ Len(results') = Len(results) + 1
    BY <2>1, AppendAny DEF TypeInv
  <2>4. CASE Len(results) + 1 = Len(plan)
    <3>1. status' = "done" /\ UNCHANGED <<generated, current_time_ms, engine>>
      BY <1>3, <2>4 DEF finalize
    <3>2. Len(results') <= Len(plan')
      BY <2>1, <2>2, <2>3
    <3> QED
      BY <2>1, <2>3, <3>1, <3>2 DEF TypeInv, TypeOK, engine
  <2>5. CASE Len(results) + 1 # Len(plan)
    <3>1. status' = "running" /\ NewSimulation
      BY <1>3, <2>5 DEF finalize
    <3>2. Len(results') <= Len(plan') /\ Len(results') < Len(plan')
      BY <2>1, <2>2, <2>3, <2>5
    <3>3. /\ generated' = 0 /\ current_time_ms' = 0 /\ clock' = 0
          /\ oldest_arrival' = 0 /\ last_seal_time' = 0 /\ batch_counter' = 0
          /\ queue' = <<>> /\ priority_lane' = <<>>
          /\ batch_metrics' = <<>> /\ batches' = <<>>
      BY <3>1 DEF NewSimulation
    <3>4. generated' \in 0..TxCount
      BY <3>3, PipelineAssumptions
    <3>5. {current_time_ms', clock', oldest_arrival', last_seal_time'} \subseteq Nat
      BY <3>3
    <3>6. /\ batch_counter' = Len(batches')
          /\ Len(batch_metrics') = Len(batches') - (IF status' = "failed" THEN 1 ELSE 0)
      BY <1>0, <3>1, <3>3
    <3>7. /\ batches' \in Seq(Seq(Tx)) /\ priority_lane' \in Seq(Tx)
          /\ queue' \in Seq(Tx) /\ batch_metrics' \in Seq(BatchMetrics)
      BY <1>0, <3>3
    <3> QED
      BY <2>1, <2>3, <3>1, <3>2, <3>4, <3>5, <3>6, <3>7 DEF TypeInv, TypeOK
  <2> QED
    BY <2>4, <2>5
<1>4. CASE UNCHANGED vars
  BY <1>4 DEF TypeInv, TypeOK, vars, generator, engine
<1> QED
  BY <1>1, <1>2, <1>3, <1>4 DEF Next

\* Type correctness of the pipeline: every metrics record belongs to a batch
\* and the draws of a seed are never more than the workload.
THEOREM TypeCorrect == Spec => []TypeOK
<1>1. Init => TypeInv
  BY TypeInit
<1>2. TypeInv /\ [Next]_vars => TypeInv'
  BY TypeStep
<1>3. TypeInv => TypeOK
  BY DEF TypeInv
<1> QED
  BY <1>1, <1>2, <1>3, PTL DEF Spec

-----------------------------------------------------------------------------
(* Every transaction once and in order.                                    *)

\* A lot that holds its fast transactions first.
FastFirst(lot) ==
  \A i, j \in DOMAIN lot : i < j /\ IsFast(lot[j]) => IsFast(lot[i])

\* The fast lane holds fast transactions only and the queue none.
LaneInv ==
  /\ OnceInOrder(Lots, generated)
  /\ \A b \in DOMAIN batches : FastFirst(batches[b])
  /\ \A i \in DOMAIN priority_lane : IsFast(priority_lane[i])
  /\ \A i \in DOMAIN queue : ~IsFast(queue[i])

\* Without transactions there is nothing to place.
LEMMA NoLots == OnceInOrder(<<>> \o <<<<>>, <<>>>>, 0)
<1> DEFINE L == <<>> \o <<<<>>, <<>>>>
<1>1. <<>> \in Seq(Seq(Tx)) /\ <<>> \in Seq(Tx) /\ Len(<<>>) = 0 /\ DOMAIN <<>> = {}
  OBVIOUS
<1>2. DOMAIN L = 1..2 /\ L[1] = <<>> /\ L[2] = <<>>
  BY <1>1, LotsAt
<1> HIDE DEF L
<1>3. \A b \in DOMAIN L : L[b] = <<>>
  BY <1>2
<1>4. Positions(L) = {}
  BY <1>1, <1>3, PositionFacts
<1>5. 0..0 - 1 = {}
  OBVIOUS
<1>6. OnceInOrder(L, 0)
  BY <1>4, <1>5 DEF OnceInOrder
<1> QED
  BY <1>6 DEF L

\* A transaction is routed behind those of its lane.
LEMMA RoutedLots ==
  ASSUME TypeInv, LaneInv,
         NEW tx \in Tx, NEW lane \in Seq(Tx), NEW q \in Seq(Tx),
         Routed(tx, lane, q), tx.tx_id = generated
  PROVE  /\ OnceInOrder(batches \o <<lane, q>>, generated + 1)
         /\ \A i \in DOMAIN lane : IsFast(lane[i])
         /\ \A i \in DOMAIN q : ~IsFast(q[i])
<1> DEFINE L == batches \o <<priority_lane, queue>>
           M == batches \o <<lane, q>>
           B == Len(batches)
<1>1. /\ batches \in Seq(Seq(Tx)) /\ priority_lane \in Seq(Tx) /\ queue \in Seq(Tx)
      /\ generated \in Nat
  BY DEF TypeInv, TypeOK
<1>2. /\ B \in Nat /\ L \in Seq(Seq(Tx)) /\ DOMAIN L = 1..B + 2
      /\ \A b \in 1..B : L[b] = batches[b]
      /\ L[B + 1] = priority_lane /\ L[B + 2] = queue
  BY <1>1, LotsAt
<1>3. /\ M \in Seq(Seq(Tx)) /\ DOMAIN M = 1..B + 2
      /\ \A b \in 1..B : M[b] = batches[b]
      /\ M[B + 1] = lane /\ M[B + 2] = q
  BY <1>1, LotsAt
<1>4. OnceInOrder(L, generated)
  BY DEF LaneInv, Lots
<1> HIDE DEF L, M, B
<1>5. \A b \in DOMAIN L : b \in 1..B \/ b = B + 1 \/ b = B + 2
  BY <1>2
<1>6. B + 1 \in DOMAIN L /\ B + 2 \in DOMAIN L /\ B + 1 # B + 2
  BY <1>2
<1>7. CASE IsFast(tx) /\ lane = Append(priority_lane, tx) /\ q = queue
  <2>1. \A b \in DOMAIN L : b # B + 1 => M[b] = L[b]
    BY <1>2, <1>3, <1>5, <1>7
  <2>2. M[B + 1] = Append(L[B + 1], tx)
    BY <1>2, <1>3, <1>7
  <2>3. \A b \in DOMAIN L : B + 1 < b =>
          \A i \in DOMAIN L[b] : IsFast(L[b][i]) <=> ~IsFast(tx)
    <3> SUFFICES ASSUME NEW b \in DOMAIN L, B + 1 < b, NEW i \in DOMAIN L[b]
                 PROVE  IsFast(L[b][i]) <=> ~IsFast(tx)
      OBVIOUS
    <3>1. b = B + 2
      BY <1>2
    <3>2. ~IsFast(L[b][i])
      BY <1>2, <3>1 DEF LaneInv
    <3> QED
      BY <1>7, <3>2
  <2>4. OnceInOrder(M, generated + 1)
    <3>1. PutAt(L, M, B + 1, tx)
      BY <1>2, <1>3, <1>6, <2>1, <2>2, <2>3 DEF PutAt
    <3> QED
      BY <1>1, <1>2, <1>3, <1>4, <3>1, Extended
  <2>5. \A i \in DOMAIN lane : IsFast(lane[i])
    <3>1. /\ Len(lane) = Len(priority_lane) + 1
          /\ \A i \in 1..Len(priority_lane) : lane[i] = priority_lane[i]
          /\ lane[Len(priority_lane) + 1] = tx
      BY <1>1, <1>7, AppendProperties
    <3>2. /\ Len(priority_lane) \in Nat /\ DOMAIN priority_lane = 1..Len(priority_lane)
          /\ DOMAIN lane = 1..Len(lane)
      BY <1>1
    <3>3. \A i \in DOMAIN lane : i \in 1..Len(priority_lane) \/ i = Len(priority_lane) + 1
      BY <3>1, <3>2
    <3> QED
      BY <1>7, <3>1, <3>2, <3>3 DEF LaneInv
  <2> QED
    BY <1>7, <2>4, <2>5 DEF LaneInv, M
<1>8. CASE ~IsFast(tx) /\ lane = priority_lane /\ q = Append(queue, tx)
  <2>1. \A b \in DOMAIN L : b # B + 2 => M[b] = L[b]
    BY <1>2, <1>3, <1>5, <1>8
  <2>2. M[B + 2] = Append(L[B + 2], tx)
    BY <1>2, <1>3, <1>8
  <2>3. \A b \in DOMAIN L : B + 2 < b =>
          \A i \in DOMAIN L[b] : IsFast(L[b][i]) <=> ~IsFast(tx)
    BY <1>2
  <2>4. OnceInOrder(M, generated + 1)
    <3>1. PutAt(L, M, B + 2, tx)
      BY <1>2, <1>3, <1>6, <2>1, <2>2, <2>3 DEF PutAt
    <3> QED
      BY <1>1, <1>2, <1>3, <1>4, <3>1, Extended
  <2>5. \A i \in DOMAIN q : ~IsFast(q[i])
    <3>1. /\ Len(q) = Len(queue) + 1
          /\ \A i \in 1..Len(queue) : q[i] = queue[i]
          /\ q[Len(queue) + 1] = tx
      BY <1>1, <1>8, AppendProperties
    <3>2. /\ Len(queue) \in Nat /\ DOMAIN queue = 1..Len(queue)
          /\ DOMAIN q = 1..Len(q)
      BY <1>1
    <3>3. \A i \in DOMAIN q : i \in 1..Len(queue) \/ i = Len(queue) + 1
      BY <3>1, <3>2
    <3> QED
      BY <1>8, <3>1, <3>2, <3>3 DEF LaneInv
  <2> QED
    BY <1>8, <2>4, <2>5 DEF LaneInv, M
<1> QED
  BY <1>7, <1>8 DEF Routed

\* A seal of lanes that are in order.
LEMMA SealLanes ==
  ASSUME TypeInv, NEW lane \in Seq(Tx), NEW q \in Seq(Tx), NEW now,
         seal_and_process(lane, q, now),
         OnceInOrder(batches \o <<lane, q>>, generated'),
         \A b \in DOMAIN batches : FastFirst(batches[b]),
         \A i \in DOMAIN lane : IsFast(lane[i]),
         \A i \in DOMAIN q : ~IsFast(q[i])
  PROVE  LaneInv'
<1>1. /\ queue' = <<>> /\ priority_lane' = <<>> /\ batches' = Append(batches, lane \o q)
  BY SealFacts
<1>2. batches \in Seq(Seq(Tx))
  BY DEF TypeInv, TypeOK
<1>3. OnceInOrder(Append(batches, lane \o q) \o <<<<>>, <<>>>>, generated')
  BY <1>2, SealedLots
<1>4. FastFirst(lane \o q)
  <2>1. /\ lane \o q \in Seq(Tx)
        /\ Len(lane \o q) = Len(lane) + Len(q)
        /\ \A i \in 1..Len(lane) + Len(q) :
              (lane \o q)[i] = IF i <= Len(lane) THEN lane[i] ELSE q[i - Len(lane)]
    BY ConcatProperties
  <2>2. /\ DOMAIN (lane \o q) = 1..Len(lane) + Len(q)
        /\ DOMAIN lane = 1..Len(lane) /\ DOMAIN q = 1..Len(q)
        /\ Len(lane) \in Nat /\ Len(q) \in Nat
    BY <2>1, LenProperties
  <2> SUFFICES ASSUME NEW i \in DOMAIN (lane \o q), NEW j \in DOMAIN (lane \o q),
                      i < j, IsFast((lane \o q)[j])
               PROVE  IsFast((lane \o q)[i])
    BY DEF FastFirst
  <2>3. j <= Len(lane)
    <3> SUFFICES ASSUME ~(j <= Len(lane))
                 PROVE  FALSE
      OBVIOUS
    <3>1. j - Len(lane) \in DOMAIN q
      BY <2>2
    <3>2. (lane \o q)[j] = q[j - Len(lane)]
      BY <2>1, <2>2
    <3> QED
      BY <3>1, <3>2
  <2>4. i \in DOMAIN lane /\ i <= Len(lane)
    BY <2>2, <2>3
  <2>5. (lane \o q)[i] = lane[i]
    BY <2>1, <2>2, <2>4
  <2> QED
    BY <2>4, <2>5
<1>5. \A b \in DOMAIN batches' : FastFirst(batches'[b])
  <2>1. lane \o q \in Seq(Tx)
    BY ConcatProperties
  <2>2. /\ Append(batches, lane \o q) \in Seq(Seq(Tx))
        /\ Len(Append(batches, lane \o q)) = Len(batches) + 1
        /\ \A b \in 1..Len(batches) : Append(batches, lane \o q)[b] = batches[b]
        /\ Append(batches, lane \o q)[Len(batches) + 1] = lane \o q
    BY <1>2, <2>1, AppendProperties
  <2>3. /\ DOMAIN batches' = 1..Len(batches) + 1 /\ DOMAIN batches = 1..Len(batches)
        /\ Len(batches) \in Nat
    BY <1>1, <1>2, <2>2, LenProperties
  <2>4. \A b \in DOMAIN batches' : b \in DOMAIN batches \/ b = Len(batches) + 1
    BY <2>3
  <2> QED
    BY <1>1, <1>4, <2>2, <2>3, <2>4
<1>6. DOMAIN <<>> = {}
  OBVIOUS
<1>7. Lots' = Append(batches, lane \o q) \o <<<<>>, <<>>>>
  BY <1>1 DEF Lots
<1> QED
  BY <1>1, <1>3, <1>5, <1>6, <1>7 DEF LaneInv

\* Steps keep every transaction once and in order.
LEMMA LaneStep ==
  ASSUME TypeInv, LaneInv, [Next]_vars
  PROVE  LaneInv'
<1>1. CASE ingest
  <2>1. PICK d \in Draw, tx \in Tx, lane \in Seq(Tx), q \in Seq(Tx), now \in Nat :
          /\ Drawn(d, tx) /\ Routed(tx, lane, q) /\ Generates(d, tx)
          /\ \/ seal_and_process(lane, q, now)
             \/ Keeps(lane, q, now)
    BY <1>1, IngestFacts
  <2>2. tx.tx_id = generated /\ generated' = generated + 1
    BY <2>1 DEF Drawn, Generates
  <2>3. /\ OnceInOrder(batches \o <<lane, q>>, generated')
        /\ \A i \in DOMAIN lane : IsFast(lane[i])
        /\ \A i \in DOMAIN q : ~IsFast(q[i])
    BY <2>1, <2>2, RoutedLots
  <2>4. \A b \in DOMAIN batches : FastFirst(batches[b])
    BY DEF LaneInv
  <2>5. CASE seal_and_process(lane, q, now)
    BY <2>3, <2>4, <2>5, SealLanes
  <2>6. CASE Keeps(lane, q, now)
    BY <2>3, <2>4, <2>6 DEF LaneInv, Lots, Keeps
  <2> QED
    BY <2>1, <2>5, <2>6
<1>2. CASE flush
  <2>1. PICK lane \in Seq(Tx), q \in Seq(Tx), now \in Nat :
          lane = priority_lane /\ q = queue /\ now = clock
    BY DEF TypeInv, TypeOK
  <2>2. seal_and_process(lane, q, now) /\ generated' = generated
    BY <1>2, <2>1 DEF flush, generator
  <2>3. /\ OnceInOrder(batches \o <<lane, q>>, generated')
        /\ \A i \in DOMAIN lane : IsFast(lane[i])
        /\ \A i \in DOMAIN q : ~IsFast(q[i])
        /\ \A b \in DOMAIN batches : FastFirst(batches[b])
    BY <2>1, <2>2 DEF LaneInv, Lots
  <2> QED
    BY <2>2, <2>3, SealLanes
<1>3. CASE finalize
  <2>1. CASE Len(results) + 1 = Len(plan)
    BY <1>3, <2>1 DEF finalize, engine, LaneInv, Lots
  <2>2. CASE Len(results) + 1 # Len(plan)
    <3>1. /\ generated' = 0 /\ queue' = <<>> /\ priority_lane' = <<>> /\ batches' = <<>>
      BY <1>3, <2>2 DEF finalize, NewSimulation
    <3>2. DOMAIN <<>> = {}
      OBVIOUS
    <3>3. OnceInOrder(Lots', generated')
      BY <3>1, NoLots DEF Lots
    <3> QED
      BY <3>1, <3>2, <3>3 DEF LaneInv
  <2> QED
    BY <2>1, <2>2
<1>4. CASE UNCHANGED vars
  BY <1>4 DEF LaneInv, Lots, vars, generator, engine
<1> QED
  BY <1>1, <1>2, <1>3, <1>4 DEF Next

\* Every generated transaction is in one batch or lane, fast ones first in a
\* batch and each lane in the order of arrival, whatever sealed.
THEOREM SealedOnce == Spec => []SealedOnceInOrder
<1>1. Init => LaneInv
  <2> SUFFICES ASSUME Init
               PROVE  LaneInv
    OBVIOUS
  <2>1. generated = 0 /\ queue = <<>> /\ priority_lane = <<>> /\ batches = <<>>
    BY DEF Init
  <2>2. DOMAIN <<>> = {}
    OBVIOUS
  <2> QED
    BY <2>1, <2>2, NoLots DEF LaneInv, Lots
<1>2. Init => TypeInv
  BY TypeInit
<1>3. TypeInv /\ LaneInv /\ [Next]_vars => TypeInv' /\ LaneInv'
  BY TypeStep, LaneStep
<1>4. LaneInv => SealedOnceInOrder
  BY DEF LaneInv, SealedOnceInOrder, FastFirst
<1> QED
  BY <1>1, <1>2, <1>3, <1>4, PTL DEF Spec

-----------------------------------------------------------------------------
(* Waiting.                                                                *)

\* What waits in a lane arrived between oldest_arrival and the last arrival.
Waits(lane, oldest, latest) ==
  \A i \in DOMAIN lane : /\ lane[i].arrival_ts \in Nat
                         /\ oldest <= lane[i].arrival_ts
                         /\ lane[i].arrival_ts <= latest

\* The times are in order, and under a policy with a time bound the oldest
\* arrival is younger than the bound while anything waits.
TimeInv ==
  /\ last_seal_time <= clock
  /\ oldest_arrival <= current_time_ms
  /\ current_time_ms <= clock
  /\ Waits(priority_lane, oldest_arrival, current_time_ms)
  /\ Waits(queue, oldest_arrival, current_time_ms)
  /\ status = "running" /\ HasTimeBound /\ (priority_lane # <<>> \/ queue # <<>>) =>
       clock - oldest_arrival < TimeThreshold

\* A policy with a time bound that does not seal: the wait is below it.
LEMMA UnsealedWait ==
  ASSUME NEW len \in Nat, len # 0, NEW now \in Nat, NEW oldest \in Nat,
         oldest <= now, HasTimeBound, ~SealsNow(len, now, oldest)
  PROVE  now - oldest < TimeThreshold
<1> DEFINE policy == create_policy(policy_name)
           wait == SaturatingSub(now, oldest)
<1>1. wait = now - oldest
  BY DEF SaturatingSub
<1>2. policy \in {"Time", "Hybrid", "Adaptive", "PriorityAware"}
  BY DEF HasTimeBound, create_policy
<1>3. len > 0 /\ wait \in Int /\ TimeThreshold \in Int
  BY <1>1, PipelineAssumptions
<1>4. ~(wait >= TimeThreshold)
  <2> HIDE DEF wait, policy
  <2> SUFFICES ASSUME wait >= TimeThreshold
               PROVE  FALSE
    OBVIOUS
  <2>1. PICK fast :
          ~should_seal(policy, len, wait, fast, CountThreshold, TimeThreshold,
                       5 * CountThreshold, LatencyBudget)
    BY DEF SealsNow, policy, wait
  <2>2. FixedTimeSeals(len, wait, TimeThreshold)
    BY <1>3 DEF FixedTimeSeals
  <2>3. HybridSeals(len, wait, CountThreshold, TimeThreshold)
    BY <1>3 DEF HybridSeals
  <2>4. AdaptiveSeals(len, wait, fast, InitialThreshold(CountThreshold, 5 * CountThreshold),
                      TimeThreshold, LatencyBudget)
    BY <1>3 DEF AdaptiveSeals
  <2> QED
    BY <1>2, <2>1, <2>2, <2>3, <2>4 DEF should_seal
<1> HIDE DEF wait
<1> QED
  BY <1>1, <1>3, <1>4

\* A seal at time now leaves nothing waiting.
LEMMA SealTimes ==
  ASSUME TypeInv, NEW lane, NEW q, NEW now \in Nat, seal_and_process(lane, q, now),
         last_seal_time <= now, oldest_arrival' <= current_time_ms',
         current_time_ms' <= now, current_time_ms' \in Nat
  PROVE  TimeInv'
<1>1. last_seal_time \in Nat
  BY DEF TypeInv, TypeOK
<1>2. queue' = <<>> /\ priority_lane' = <<>>
  BY SealFacts
<1>3. /\ \/ clock' = now \/ \E pr \in ProveMs : clock' = now + pr
         \/ \E pr \in ProveMs, ve \in VerifyMs : clock' = now + pr + ve
      /\ last_seal_time' = clock' \/ last_seal_time' = last_seal_time
  BY SealFacts
<1>4. clock' \in Nat /\ now <= clock'
  BY <1>3, PipelineAssumptions
<1>5. last_seal_time' <= clock' /\ current_time_ms' <= clock'
  BY <1>1, <1>3, <1>4
<1>6. DOMAIN <<>> = {}
  OBVIOUS
<1> QED
  BY <1>2, <1>5, <1>6 DEF TimeInv, Waits

\* Steps keep the times in order.
LEMMA TimeStep ==
  ASSUME TypeInv, TimeInv, [Next]_vars
  PROVE  TimeInv'
<1>1. CASE ingest
  <2>1. status = "running"
    BY <1>1, IngestFacts
  <2>2. PICK d \in Draw, tx \in Tx, lane \in Seq(Tx), q \in Seq(Tx), now \in Nat :
          /\ Drawn(d, tx) /\ Routed(tx, lane, q) /\ Generates(d, tx)
          /\ now = ClockAt(tx.arrival_ts)
          /\ \/ seal_and_process(lane, q, now)
             \/ /\ ~SealsNow(Len(lane) + Len(q), now, OldestAfter(tx.arrival_ts))
                /\ Keeps(lane, q, now)
    BY <1>1, IngestFacts
  <2>3. /\ clock \in Nat /\ oldest_arrival \in Nat /\ current_time_ms \in Nat
        /\ last_seal_time \in Nat /\ tx.arrival_ts \in Nat
        /\ priority_lane \in Seq(Tx) /\ queue \in Seq(Tx)
    BY DEF TypeInv, TypeOK, Tx
  <2>4. /\ last_seal_time <= clock /\ oldest_arrival <= current_time_ms
        /\ current_time_ms <= clock /\ current_time_ms <= tx.arrival_ts
    BY <2>2 DEF TimeInv, Drawn
  <2>5. PICK oldest \in Nat : oldest = OldestAfter(tx.arrival_ts)
    BY <2>3 DEF OldestAfter
  <2>6. current_time_ms' = tx.arrival_ts /\ oldest_arrival' = oldest /\ plan' = plan
    BY <2>2, <2>5 DEF Generates
  <2>7. clock <= now /\ tx.arrival_ts <= now
    BY <2>2, <2>3 DEF ClockAt, Later
  <2>8. oldest <= tx.arrival_ts
    BY <2>3, <2>4, <2>5 DEF OldestAfter
  <2>9. last_seal_time <= now
    BY <2>3, <2>4, <2>7
  <2>10. CASE seal_and_process(lane, q, now)
    BY <2>3, <2>6, <2>7, <2>8, <2>9, <2>10, SealTimes
  <2>11. CASE /\ ~SealsNow(Len(lane) + Len(q), now, OldestAfter(tx.arrival_ts))
              /\ Keeps(lane, q, now)
    <3>1. /\ clock' = now /\ priority_lane' = lane /\ queue' = q
          /\ last_seal_time' = last_seal_time /\ status' = status /\ results' = results
      BY <2>11 DEF Keeps
    <3>2. \A s \in {priority_lane, queue} : \A i \in DOMAIN s :
             /\ s[i].arrival_ts \in Nat
             /\ oldest <= s[i].arrival_ts /\ s[i].arrival_ts <= tx.arrival_ts
      <4> SUFFICES ASSUME NEW s \in {priority_lane, queue}, NEW i \in DOMAIN s
                   PROVE  /\ s[i].arrival_ts \in Nat
                          /\ oldest <= s[i].arrival_ts /\ s[i].arrival_ts <= tx.arrival_ts
        OBVIOUS
      <4>1. /\ s[i].arrival_ts \in Nat /\ oldest_arrival <= s[i].arrival_ts
            /\ s[i].arrival_ts <= current_time_ms
        BY DEF TimeInv, Waits
      <4>2. ~(queue = <<>> /\ priority_lane = <<>>)
        OBVIOUS
      <4>3. oldest = oldest_arrival
        BY <2>5, <4>2 DEF OldestAfter
      <4> QED
        BY <2>3, <2>4, <4>1, <4>3
    <3>3. ASSUME NEW s \in {priority_lane, queue}
          PROVE  /\ Waits(s, oldest, tx.arrival_ts)
                 /\ Waits(Append(s, tx), oldest, tx.arrival_ts)
      <4>1. s \in Seq(Tx)
        BY <2>3
      <4>2. /\ Append(s, tx) \in Seq(Tx)
            /\ Len(Append(s, tx)) = Len(s) + 1
            /\ \A i \in 1..Len(s) : Append(s, tx)[i] = s[i]
            /\ Append(s, tx)[Len(s) + 1] = tx
        BY <4>1, AppendProperties
      <4>3. /\ DOMAIN Append(s, tx) = 1..Len(s) + 1 /\ DOMAIN s = 1..Len(s) /\ Len(s) \in Nat
        BY <4>1, <4>2, LenProperties
      <4>4. \A i \in DOMAIN Append(s, tx) : i \in DOMAIN s \/ i = Len(s) + 1
        BY <4>3
      <4>5. Waits(s, oldest, tx.arrival_ts)
        BY <3>2 DEF Waits
      <4>6. tx.arrival_ts <= tx.arrival_ts
        BY <2>3
      <4> QED
        BY <2>3, <2>8, <4>2, <4>3, <4>4, <4>5, <4>6 DEF Waits
    <3>4. Waits(lane, oldest, tx.arrival_ts) /\ Waits(q, oldest, tx.arrival_ts)
      BY <2>2, <3>3 DEF Routed
    <3>5. Len(lane) + Len(q) \in Nat /\ Len(lane) + Len(q) # 0
      <4>1. lane # <<>> \/ q # <<>>
        BY <2>2, <2>3, AppendProperties DEF Routed
      <4> QED
        BY <4>1, EmptySeq
    <3>6. HasTimeBound => now - oldest < TimeThreshold
      <4>1. oldest <= now
        BY <2>3, <2>7, <2>8
      <4>2. ~SealsNow(Len(lane) + Len(q), now, oldest)
        BY <2>5, <2>11
      <4>3. PICK len \in Nat : len = Len(lane) + Len(q)
        BY <3>5
      <4> QED
        BY <3>5, <4>1, <4>2, <4>3, UnsealedWait
    <3>7. HasTimeBound' = HasTimeBound
      BY <2>6, <3>1 DEF HasTimeBound, policy_name, Current
    <3> QED
      BY <2>6, <2>7, <2>8, <2>9, <3>1, <3>4, <3>6, <3>7 DEF TimeInv
  <2> QED
    BY <2>2, <2>10, <2>11
<1>2. CASE flush
  <2>1. /\ clock \in Nat /\ current_time_ms \in Nat
    BY DEF TypeInv, TypeOK
  <2>2. PICK lane \in Seq(Tx), q \in Seq(Tx), now \in Nat :
          lane = priority_lane /\ q = queue /\ now = clock
    BY DEF TypeInv, TypeOK
  <2>3. /\ seal_and_process(lane, q, now)
        /\ current_time_ms' = current_time_ms /\ oldest_arrival' = oldest_arrival
    BY <1>2, <2>2 DEF flush, generator
  <2>4. /\ last_seal_time <= now /\ oldest_arrival' <= current_time_ms'
        /\ current_time_ms' <= now /\ current_time_ms' \in Nat
    BY <2>1, <2>2, <2>3 DEF TimeInv
  <2> QED
    BY <2>3, <2>4, SealTimes
<1>3. CASE finalize
  <2>1. CASE Len(results) + 1 = Len(plan)
    <3>1. status' = "done" /\ UNCHANGED <<current_time_ms, engine>>
      BY <1>3, <2>1 DEF finalize
    <3> QED
      BY <3>1 DEF engine, TimeInv
  <2>2. CASE Len(results) + 1 # Len(plan)
    <3>1. /\ current_time_ms' = 0 /\ clock' = 0 /\ oldest_arrival' = 0
          /\ last_seal_time' = 0 /\ queue' = <<>> /\ priority_lane' = <<>>
      BY <1>3, <2>2 DEF finalize, NewSimulation
    <3>2. DOMAIN <<>> = {}
      OBVIOUS
    <3> QED
      BY <3>1, <3>2 DEF TimeInv, Waits
  <2> QED
    BY <2>1, <2>2
<1>4. CASE UNCHANGED vars
  BY <1>4 DEF TimeInv, vars, generator, engine, HasTimeBound, policy_name, Current
<1> QED
  BY <1>1, <1>2, <1>3, <1>4 DEF Next

\* TimeInv holds throughout.
LEMMA TimeInvariance == Spec => [](TypeInv /\ TimeInv)
<1>1. Init => TypeInv
  BY TypeInit
<1>2. Init => TimeInv
  <2> SUFFICES ASSUME Init
               PROVE  TimeInv
    OBVIOUS
  <2>1. /\ current_time_ms = 0 /\ clock = 0 /\ oldest_arrival = 0
        /\ last_seal_time = 0 /\ queue = <<>> /\ priority_lane = <<>>
    BY DEF Init
  <2>2. DOMAIN <<>> = {}
    OBVIOUS
  <2> QED
    BY <2>1, <2>2 DEF TimeInv, Waits
<1>3. TypeInv /\ TimeInv /\ [Next]_vars => TypeInv' /\ TimeInv'
  BY TypeStep, TimeStep
<1> QED
  BY <1>1, <1>2, <1>3, PTL DEF Spec

\* The differences try_seal takes are never negative, and what waits has
\* arrived and not before oldest_arrival, which both lanes share.
THEOREM TimesStayInOrder == Spec => []TimesInOrder
<1>1. TypeInv /\ TimeInv => TimesInOrder
  <2> SUFFICES ASSUME TypeInv, TimeInv
               PROVE  TimesInOrder
    OBVIOUS
  <2>1. /\ clock \in Nat /\ oldest_arrival \in Nat /\ current_time_ms \in Nat
    BY DEF TypeInv, TypeOK
  <2>2. /\ last_seal_time <= clock /\ oldest_arrival <= current_time_ms
        /\ current_time_ms <= clock
    BY DEF TimeInv
  <2>3. oldest_arrival <= clock
    BY <2>1, <2>2
  <2>4. ASSUME NEW lane \in {priority_lane, queue}, NEW i \in DOMAIN lane
        PROVE  lane[i].arrival_ts \in oldest_arrival..clock
    <3>1. /\ lane[i].arrival_ts \in Nat /\ oldest_arrival <= lane[i].arrival_ts
          /\ lane[i].arrival_ts <= current_time_ms
      BY DEF TimeInv, Waits
    <3> QED
      BY <2>1, <2>2, <3>1
  <2> QED
    BY <2>2, <2>3, <2>4 DEF TimesInOrder
<1> QED
  BY <1>1, TimeInvariance, PTL

\* How late a policy with a time bound seals: what it drains has waited for
\* less than the threshold and the gap before the last arrival together, for
\* every threshold, workload, and duration of proving and verifying.
THEOREM SealsWithinGap == Spec => SealedWithinGap
<1>1. ASSUME TypeInv, TimeInv, Next, status = "running", HasTimeBound,
             NEW lane \in {priority_lane, queue}, NEW i \in DOMAIN lane
      PROVE  ClockAt(current_time_ms') - lane[i].arrival_ts
               < TimeThreshold + (current_time_ms' - current_time_ms)
  <2>1. /\ clock \in Nat /\ oldest_arrival \in Nat /\ current_time_ms \in Nat
        /\ TimeThreshold \in Nat
    BY <1>1, PipelineAssumptions DEF TypeInv, TypeOK
  <2>2. PICK arrival \in Nat : arrival = lane[i].arrival_ts
    BY <1>1 DEF TimeInv, Waits
  <2>3. /\ oldest_arrival <= arrival /\ arrival <= current_time_ms
        /\ current_time_ms <= clock
    BY <1>1, <2>2 DEF TimeInv, Waits
  <2>4. priority_lane # <<>> \/ queue # <<>>
    BY <1>1
  <2>5. clock - oldest_arrival < TimeThreshold
    BY <1>1, <2>4 DEF TimeInv
  <2>6. current_time_ms' \in Nat /\ current_time_ms <= current_time_ms'
    <3>1. CASE ingest
      <4>1. PICK d \in Draw, tx \in Tx : Drawn(d, tx) /\ Generates(d, tx)
        BY <1>1, <3>1, IngestFacts
      <4> QED
        BY <4>1 DEF Drawn, Generates, Tx
    <3>2. CASE flush
      BY <2>1, <3>2 DEF flush, generator
    <3>3. CASE finalize
      BY <2>4, <3>3 DEF finalize, Unflushed
    <3> QED
      BY <1>1, <3>1, <3>2, <3>3 DEF Next
  <2>7. PICK later \in Nat : later = current_time_ms' /\ current_time_ms <= later
    BY <2>6
  <2>8. clock - arrival < TimeThreshold
    BY <2>1, <2>2, <2>3, <2>5
  <2>9. clock - arrival < TimeThreshold + (later - current_time_ms)
    BY <2>1, <2>2, <2>3, <2>7, <2>8
  <2>10. later - arrival < TimeThreshold + (later - current_time_ms)
    BY <2>1, <2>2, <2>3, <2>7, <2>8
  <2>11. ClockAt(later) = clock \/ ClockAt(later) = later
    BY DEF ClockAt, Later
  <2> QED
    BY <2>2, <2>7, <2>9, <2>10, <2>11
<1>2. TypeInv /\ TimeInv /\ [Next]_vars =>
        [ status = "running" /\ HasTimeBound /\ batches' # batches =>
            \A lane \in {priority_lane, queue} : \A i \in DOMAIN lane :
               ClockAt(current_time_ms') - lane[i].arrival_ts
                 < TimeThreshold + (current_time_ms' - current_time_ms) ]_vars
  BY <1>1
<1> QED
  BY <1>2, TimeInvariance, PTL DEF Spec, SealedWithinGap

-----------------------------------------------------------------------------
(* The report.                                                             *)

Sizes(bm) == [i \in DOMAIN bm |-> bm[i].batch_size]
Computes(bm) == [i \in DOMAIN bm |-> bm[i].total_compute_used]

\* The first n draws of a scenario's seed.
FirstDraws(n) == [i \in 1..n |-> rng[scenario][i]]

\* The recorded batches and the lanes account for every transaction that was
\* generated, and for its compute.
CountInv ==
  status = "running" =>
    /\ generated <= Len(rng[scenario])
    /\ Total(Sizes(batch_metrics)) + Len(priority_lane) + Len(queue) = generated
    /\ Total(Computes(batch_metrics)) + Compute(priority_lane) + Compute(queue)
         = Compute(FirstDraws(generated))

\* A result stands for the whole workload of its scenario, which is thus
\* drawn.
Reported(r) ==
  /\ r.total_transactions = TxCount
  /\ Len(rng[r.scenario_name]) = TxCount
  /\ r.total_compute_used = Compute(rng[r.scenario_name])

ResultInv ==
  /\ \A k \in DOMAIN results :
        /\ <<results[k].policy_name, results[k].scenario_name>> = plan[k]
        /\ Reported(results[k])
  /\ status = "done" => Len(results) = Len(plan)
  /\ status = "failed" => results = <<>>

\* Transactions and draws have opcodes.
LEMMA OpsAreOpcodes == (\A x \in Tx : x.op \in Opcodes) /\ (\A x \in Draw : x.op \in Opcodes)
BY DrawFacts DEF Tx

\* The compute of nothing.
LEMMA ComputeEmpty == Compute(<<>>) = 0
<1>1. DOMAIN <<>> = {}
  OBVIOUS
<1>2. [i \in DOMAIN <<>> |-> ComputeUnits[<<>>[i].op]] = <<>>
  BY <1>1
<1> QED
  BY <1>2, TotalEmpty DEF Compute

\* The compute with one more.
LEMMA ComputeAppend ==
  ASSUME NEW T, NEW s \in Seq(T), NEW x \in T, \A y \in T : y.op \in Opcodes
  PROVE  Compute(Append(s, x)) = Compute(s) + ComputeUnits[x.op]
<1> DEFINE u == Append(s, x)
           c == [i \in DOMAIN s |-> ComputeUnits[s[i].op]]
           e == [i \in DOMAIN u |-> ComputeUnits[u[i].op]]
<1>1. /\ u \in Seq(T) /\ Len(u) = Len(s) + 1
      /\ \A i \in 1..Len(s) : u[i] = s[i]
      /\ u[Len(s) + 1] = x
  BY AppendProperties
<1>2. c \in Seq(Int) /\ Len(c) = Len(s)
  BY ComputeType
<1>3. e \in Seq(Int) /\ Len(e) = Len(u)
  BY <1>1, ComputeType
<1>4. ComputeUnits[x.op] \in Int
  BY ComputeUnitsType
<1>5. /\ DOMAIN s = 1..Len(s) /\ DOMAIN u = 1..Len(s) + 1 /\ Len(s) \in Nat
  BY <1>1, LenProperties
<1>6. /\ \A i \in 1..Len(s) : c[i] = ComputeUnits[s[i].op]
      /\ \A i \in 1..Len(s) + 1 : e[i] = ComputeUnits[u[i].op]
  BY <1>5
<1> HIDE DEF u, c, e
<1>7. /\ Append(c, ComputeUnits[x.op]) \in Seq(Int)
      /\ Len(Append(c, ComputeUnits[x.op])) = Len(s) + 1
      /\ \A i \in 1..Len(s) : Append(c, ComputeUnits[x.op])[i] = c[i]
      /\ Append(c, ComputeUnits[x.op])[Len(s) + 1] = ComputeUnits[x.op]
  BY <1>2, <1>4, AppendProperties
<1>8. \A i \in 1..Len(s) + 1 : e[i] = Append(c, ComputeUnits[x.op])[i]
  <2> SUFFICES ASSUME NEW i \in 1..Len(s) + 1
               PROVE  e[i] = Append(c, ComputeUnits[x.op])[i]
    OBVIOUS
  <2>1. i \in 1..Len(s) \/ i = Len(s) + 1
    BY <1>5
  <2> QED
    BY <1>1, <1>6, <1>7, <2>1
<1>9. e = Append(c, ComputeUnits[x.op])
  BY <1>1, <1>3, <1>7, <1>8, SeqEqual
<1>10. Total(e) = Total(c) + ComputeUnits[x.op]
  BY <1>2, <1>4, <1>9, TotalAppend
<1> QED
  BY <1>10 DEF c, e, u, Compute

\* The compute of two sequences.
LEMMA ComputeConcat ==
  ASSUME NEW T, NEW s \in Seq(T), NEW t \in Seq(T), \A y \in T : y.op \in Opcodes
  PROVE  Compute(s \o t) = Compute(s) + Compute(t)
<1> DEFINE u == s \o t
           c == [i \in DOMAIN s |-> ComputeUnits[s[i].op]]
           d == [i \in DOMAIN t |-> ComputeUnits[t[i].op]]
           e == [i \in DOMAIN u |-> ComputeUnits[u[i].op]]
<1>1. /\ u \in Seq(T) /\ Len(u) = Len(s) + Len(t)
      /\ \A i \in 1..Len(s) + Len(t) : u[i] = IF i <= Len(s) THEN s[i] ELSE t[i - Len(s)]
  BY ConcatProperties
<1>2. c \in Seq(Int) /\ Len(c) = Len(s) /\ d \in Seq(Int) /\ Len(d) = Len(t)
  BY ComputeType
<1>3. e \in Seq(Int) /\ Len(e) = Len(u)
  BY <1>1, ComputeType
<1>4. /\ DOMAIN s = 1..Len(s) /\ DOMAIN t = 1..Len(t) /\ DOMAIN u = 1..Len(s) + Len(t)
      /\ Len(s) \in Nat /\ Len(t) \in Nat
  BY <1>1, LenProperties
<1>5. /\ \A i \in 1..Len(s) : c[i] = ComputeUnits[s[i].op]
      /\ \A i \in 1..Len(t) : d[i] = ComputeUnits[t[i].op]
      /\ \A i \in 1..Len(s) + Len(t) : e[i] = ComputeUnits[u[i].op]
  BY <1>4
<1> HIDE DEF u, c, d, e
<1>6. /\ c \o d \in Seq(Int) /\ Len(c \o d) = Len(s) + Len(t)
      /\ \A i \in 1..Len(s) + Len(t) : (c \o d)[i] = IF i <= Len(s) THEN c[i] ELSE d[i - Len(s)]
  <2>1. /\ c \o d \in Seq(Int) /\ Len(c \o d) = Len(c) + Len(d)
        /\ \A i \in 1..Len(c) + Len(d) :
              (c \o d)[i] = IF i <= Len(c) THEN c[i] ELSE d[i - Len(c)]
    BY <1>2, ConcatProperties
  <2>2. Len(c) = Len(s) /\ Len(d) = Len(t)
    BY <1>2
  <2> QED
    BY <2>1, <2>2, Zenon
<1>7. \A i \in 1..Len(s) + Len(t) : e[i] = (c \o d)[i]
  <2> SUFFICES ASSUME NEW i \in 1..Len(s) + Len(t)
               PROVE  e[i] = (c \o d)[i]
    OBVIOUS
  <2>1. CASE i <= Len(s)
    <3>1. i \in 1..Len(s)
      BY <1>4, <2>1
    <3>2. u[i] = s[i]
      BY <1>1, <2>1
    <3>3. (c \o d)[i] = c[i]
      BY <1>6, <2>1
    <3> QED
      BY <1>5, <3>1, <3>2, <3>3
  <2>2. CASE ~(i <= Len(s))
    <3>1. i - Len(s) \in 1..Len(t)
      BY <1>4, <2>2
    <3>2. u[i] = t[i - Len(s)]
      BY <1>1, <2>2
    <3>3. (c \o d)[i] = d[i - Len(s)]
      BY <1>6, <2>2
    <3> QED
      BY <1>5, <3>1, <3>2, <3>3
  <2> QED
    BY <2>1, <2>2
<1>8. e = c \o d
  BY <1>1, <1>3, <1>6, <1>7, SeqEqual
<1>9. Total(e) = Total(c) + Total(d)
  BY <1>2, <1>8, TotalConcat
<1> QED
  BY <1>9 DEF c, d, e, u, Compute

\* The sums of the recorded batches with one more.
LEMMA RecordSums ==
  ASSUME NEW bm \in Seq(BatchMetrics), NEW m \in BatchMetrics
  PROVE  /\ Total(Sizes(bm)) \in Int /\ Total(Computes(bm)) \in Int
         /\ Total(Sizes(Append(bm, m))) = Total(Sizes(bm)) + m.batch_size
         /\ Total(Computes(Append(bm, m))) = Total(Computes(bm)) + m.total_compute_used
<1> DEFINE u == Append(bm, m)
<1>1. /\ u \in Seq(BatchMetrics) /\ Len(u) = Len(bm) + 1
      /\ \A i \in 1..Len(bm) : u[i] = bm[i]
      /\ u[Len(bm) + 1] = m
  BY AppendProperties
<1>2. /\ DOMAIN bm = 1..Len(bm) /\ DOMAIN u = 1..Len(bm) + 1 /\ Len(bm) \in Nat
  BY <1>1, LenProperties
<1>3. \A x \in BatchMetrics : x.batch_size \in Int /\ x.total_compute_used \in Int
  BY DEF BatchMetrics
<1>4. \A i \in 1..Len(bm) : bm[i] \in BatchMetrics
  OBVIOUS
<1> HIDE DEF u
<1>5. Sizes(bm) \in Seq(Int) /\ Computes(bm) \in Seq(Int)
  BY <1>2, <1>3, <1>4 DEF Sizes, Computes
<1>6. Len(Sizes(bm)) = Len(bm) /\ Len(Computes(bm)) = Len(bm)
  BY <1>2, <1>5 DEF Sizes, Computes
<1>7. Sizes(u) = Append(Sizes(bm), m.batch_size)
  <2>1. /\ Append(Sizes(bm), m.batch_size) \in Seq(Int)
        /\ Len(Append(Sizes(bm), m.batch_size)) = Len(bm) + 1
        /\ \A i \in 1..Len(bm) : Append(Sizes(bm), m.batch_size)[i] = Sizes(bm)[i]
        /\ Append(Sizes(bm), m.batch_size)[Len(bm) + 1] = m.batch_size
    BY <1>3, <1>5, <1>6, AppendProperties
  <2>2. /\ Sizes(u) \in Seq(Int) /\ Len(Sizes(u)) = Len(bm) + 1
    <3>1. \A i \in 1..Len(bm) + 1 : u[i].batch_size \in Int
      BY <1>1, <1>2, <1>3
    <3> QED
      BY <1>2, <3>1 DEF Sizes
  <2>3. \A i \in 1..Len(bm) + 1 : Sizes(u)[i] = Append(Sizes(bm), m.batch_size)[i]
    <3> SUFFICES ASSUME NEW i \in 1..Len(bm) + 1
                 PROVE  Sizes(u)[i] = Append(Sizes(bm), m.batch_size)[i]
      OBVIOUS
    <3>1. i \in 1..Len(bm) \/ i = Len(bm) + 1
      BY <1>2
    <3>2. Sizes(u)[i] = u[i].batch_size
      BY <1>2 DEF Sizes
    <3>3. i \in 1..Len(bm) => Sizes(bm)[i] = bm[i].batch_size
      BY <1>2 DEF Sizes
    <3> QED
      BY <1>1, <2>1, <3>1, <3>2, <3>3
  <2> QED
    BY <2>1, <2>2, <2>3, SeqEqual
<1>8. Computes(u) = Append(Computes(bm), m.total_compute_used)
  <2>1. /\ Append(Computes(bm), m.total_compute_used) \in Seq(Int)
        /\ Len(Append(Computes(bm), m.total_compute_used)) = Len(bm) + 1
        /\ \A i \in 1..Len(bm) : Append(Computes(bm), m.total_compute_used)[i] = Computes(bm)[i]
        /\ Append(Computes(bm), m.total_compute_used)[Len(bm) + 1] = m.total_compute_used
    BY <1>3, <1>5, <1>6, AppendProperties
  <2>2. /\ Computes(u) \in Seq(Int) /\ Len(Computes(u)) = Len(bm) + 1
    <3>1. \A i \in 1..Len(bm) + 1 : u[i].total_compute_used \in Int
      BY <1>1, <1>2, <1>3
    <3> QED
      BY <1>2, <3>1 DEF Computes
  <2>3. \A i \in 1..Len(bm) + 1 : Computes(u)[i] = Append(Computes(bm), m.total_compute_used)[i]
    <3> SUFFICES ASSUME NEW i \in 1..Len(bm) + 1
                 PROVE  Computes(u)[i] = Append(Computes(bm), m.total_compute_used)[i]
      OBVIOUS
    <3>1. i \in 1..Len(bm) \/ i = Len(bm) + 1
      BY <1>2
    <3>2. Computes(u)[i] = u[i].total_compute_used
      BY <1>2 DEF Computes
    <3>3. i \in 1..Len(bm) => Computes(bm)[i] = bm[i].total_compute_used
      BY <1>2 DEF Computes
    <3> QED
      BY <1>1, <2>1, <3>1, <3>2, <3>3
  <2> QED
    BY <2>1, <2>2, <2>3, SeqEqual
<1>9. m.batch_size \in Int /\ m.total_compute_used \in Int
  BY <1>3
<1>10. /\ Total(Sizes(u)) = Total(Sizes(bm)) + m.batch_size
       /\ Total(Computes(u)) = Total(Computes(bm)) + m.total_compute_used
  BY <1>5, <1>7, <1>8, <1>9, TotalAppend
<1>11. Total(Sizes(bm)) \in Int /\ Total(Computes(bm)) \in Int
  BY <1>5, TotalType
<1> QED
  BY <1>10, <1>11 DEF u

\* The sums are numbers.
LEMMA RecordTotals ==
  ASSUME NEW bm \in Seq(BatchMetrics)
  PROVE  Total(Sizes(bm)) \in Int /\ Total(Computes(bm)) \in Int
<1>1. [batch_size |-> 0, total_compute_used |-> 0, execution_time_ms |-> 0,
       proving_time_ms |-> 0, verification_time_ms |-> 0,
       end_to_end_latency_ms |-> 0, proof_size_bytes |-> 1,
       verification_passed |-> TRUE] \in BatchMetrics
  BY DEF BatchMetrics
<1> QED
  BY <1>1, RecordSums

\* Without batches the sums are 0.
LEMMA SumsEmpty == Total(Sizes(<<>>)) = 0 /\ Total(Computes(<<>>)) = 0
<1>1. DOMAIN <<>> = {}
  OBVIOUS
<1>2. Sizes(<<>>) = <<>> /\ Computes(<<>>) = <<>>
  BY <1>1 DEF Sizes, Computes
<1> QED
  BY <1>2, TotalEmpty

\* A routed transaction and its compute are counted in one of the lanes.
LEMMA RoutedCounts ==
  ASSUME TypeInv, NEW tx \in Tx, NEW lane \in Seq(Tx), NEW q \in Seq(Tx),
         Routed(tx, lane, q)
  PROVE  /\ Len(lane) + Len(q) = Len(priority_lane) + Len(queue) + 1
         /\ Compute(lane) + Compute(q)
              = Compute(priority_lane) + Compute(queue) + ComputeUnits[tx.op]
<1>1. priority_lane \in Seq(Tx) /\ queue \in Seq(Tx)
  BY DEF TypeInv, TypeOK
<1>2. /\ Len(priority_lane) \in Nat /\ Len(queue) \in Nat
      /\ Len(Append(priority_lane, tx)) = Len(priority_lane) + 1
      /\ Len(Append(queue, tx)) = Len(queue) + 1
  BY <1>1, AppendProperties, LenProperties
<1>3. /\ Compute(priority_lane) \in Int /\ Compute(queue) \in Int
      /\ ComputeUnits[tx.op] \in Int
  BY <1>1, OpsAreOpcodes, ComputeType, ComputeUnitsType
<1>4. /\ Compute(Append(priority_lane, tx)) = Compute(priority_lane) + ComputeUnits[tx.op]
      /\ Compute(Append(queue, tx)) = Compute(queue) + ComputeUnits[tx.op]
  BY <1>1, OpsAreOpcodes, ComputeAppend
<1>5. CASE lane = Append(priority_lane, tx) /\ q = queue
  BY <1>2, <1>3, <1>4, <1>5
<1>6. CASE lane = priority_lane /\ q = Append(queue, tx)
  BY <1>2, <1>3, <1>4, <1>6
<1> QED
  BY <1>5, <1>6 DEF Routed

\* A seal that succeeds moves what the lanes hold to the records.
LEMMA SealCounts ==
  ASSUME TypeInv, NEW lane \in Seq(Tx), NEW q \in Seq(Tx), NEW now \in Nat,
         seal_and_process(lane, q, now), status' = "running"
  PROVE  /\ results' = results
         /\ Total(Sizes(batch_metrics')) + Len(priority_lane') + Len(queue')
              = Total(Sizes(batch_metrics)) + Len(lane) + Len(q)
         /\ Total(Computes(batch_metrics')) + Compute(priority_lane') + Compute(queue')
              = Total(Computes(batch_metrics)) + Compute(lane) + Compute(q)
<1>1. queue' = <<>> /\ priority_lane' = <<>>
  BY SealFacts
<1>2. /\ results' = results
      /\ \E pr \in ProveMs, ve \in VerifyMs :
            batch_metrics' = Append(batch_metrics, MetricsOf(lane \o q, pr, ve))
  BY SealFacts
<1>3. PICK pr \in ProveMs, ve \in VerifyMs :
        batch_metrics' = Append(batch_metrics, MetricsOf(lane \o q, pr, ve))
  BY <1>2
<1>4. /\ lane \o q \in Seq(Tx) /\ Len(lane \o q) = Len(lane) + Len(q)
      /\ Len(lane) \in Nat /\ Len(q) \in Nat
  BY ConcatProperties, LenProperties
<1>5. PICK m \in BatchMetrics : m = MetricsOf(lane \o q, pr, ve)
  BY <1>4, MetricsOfType
<1>6. m.batch_size = Len(lane) + Len(q) /\ m.total_compute_used = Compute(lane \o q)
  BY <1>4, <1>5, MetricsOfType
<1>7. batch_metrics \in Seq(BatchMetrics)
  BY DEF TypeInv
<1>8. /\ Total(Sizes(batch_metrics)) \in Int /\ Total(Computes(batch_metrics)) \in Int
      /\ Total(Sizes(batch_metrics')) = Total(Sizes(batch_metrics)) + m.batch_size
      /\ Total(Computes(batch_metrics'))
           = Total(Computes(batch_metrics)) + m.total_compute_used
  BY <1>3, <1>5, <1>7, RecordSums
<1>9. /\ Compute(lane) \in Int /\ Compute(q) \in Int
      /\ Compute(lane \o q) = Compute(lane) + Compute(q)
  BY OpsAreOpcodes, ComputeType, ComputeConcat
<1>10. Len(<<>>) = 0 /\ Compute(<<>>) = 0
  BY ComputeEmpty
<1>11. Total(Sizes(batch_metrics')) + Len(priority_lane') + Len(queue')
         = Total(Sizes(batch_metrics)) + Len(lane) + Len(q)
  BY <1>1, <1>4, <1>6, <1>8, <1>10
<1>12. Total(Computes(batch_metrics')) + Compute(priority_lane') + Compute(queue')
         = Total(Computes(batch_metrics)) + Compute(lane) + Compute(q)
  BY <1>1, <1>6, <1>8, <1>9, <1>10
<1> QED
  BY <1>2, <1>11, <1>12

\* The draws before a transaction and its own.
LEMMA NextDraw ==
  ASSUME TypeInv, status = "running", generated < TxCount,
         generated <= Len(rng[scenario]),
         NEW d \in Draw, NEW tx \in Tx, Drawn(d, tx), Generates(d, tx),
         results' = results
  PROVE  /\ generated' <= Len(rng[scenario])'
         /\ Compute(FirstDraws(generated))'
              = Compute(FirstDraws(generated)) + ComputeUnits[tx.op]
<1>1. scenario' = scenario
  BY DEF scenario, Current, Generates
<1>2. scenario \in Range(Scenarios)
  BY CurrentFacts
<1>3. PICK s \in Seq(Draw) : s = rng[scenario]
  BY <1>2 DEF TypeInv, TypeOK
<1>4. PICK u \in Seq(Draw) : u = rng'[scenario]
  BY <1>2, DrawnTypes
<1>5. u = IF generated < Len(s) THEN s ELSE Append(s, d)
  BY <1>3, <1>4, DrawnTypes
<1>6. PICK g \in Nat : g = generated
  BY DEF TypeInv, TypeOK
<1>7. /\ Len(Append(s, d)) = Len(s) + 1
      /\ \A i \in 1..Len(s) : Append(s, d)[i] = s[i]
      /\ Append(s, d)[Len(s) + 1] = d
  BY AppendProperties
<1>8. Len(s) \in Nat /\ g <= Len(s)
  BY <1>3, <1>6
<1>9. g + 1 <= Len(u) /\ u[g + 1] = d /\ \A i \in 1..g : u[i] = s[i]
  <2>1. CASE g < Len(s)
    <3>1. d = s[g + 1]
      BY <1>3, <1>6, <2>1 DEF Drawn
    <3> QED
      BY <1>5, <1>6, <1>8, <2>1, <3>1
  <2>2. CASE ~(g < Len(s))
    <3>1. g = Len(s)
      BY <1>8, <2>2
    <3> QED
      BY <1>5, <1>6, <1>7, <1>8, <2>2, <3>1
  <2> QED
    BY <2>1, <2>2
<1> DEFINE f == [i \in 1..g |-> s[i]]
           h == [i \in 1..g + 1 |-> u[i]]
<1>10. f \in Seq(Draw) /\ Len(f) = g
  <2>1. \A i \in 1..g : s[i] \in Draw
    BY <1>8, ElementOfSeq
  <2> QED
    BY <2>1
<1>11. h \in Seq(Draw) /\ Len(h) = g + 1
  <2>1. Len(u) \in Nat
    OBVIOUS
  <2>2. \A i \in 1..g + 1 : i \in 1..Len(u)
    BY <1>9, <2>1
  <2>3. \A i \in 1..g + 1 : u[i] \in Draw
    BY <2>2, ElementOfSeq
  <2> QED
    BY <2>3
<1>12. (\A i \in 1..g : f[i] = s[i]) /\ \A i \in 1..g + 1 : h[i] = u[i]
  OBVIOUS
<1> HIDE DEF f, h
<1>13. h = Append(f, d)
  <2>1. /\ Append(f, d) \in Seq(Draw) /\ Len(Append(f, d)) = g + 1
        /\ \A i \in 1..g : Append(f, d)[i] = f[i]
        /\ Append(f, d)[g + 1] = d
    BY <1>10, AppendProperties
  <2>2. \A i \in 1..g + 1 : h[i] = Append(f, d)[i]
    <3> SUFFICES ASSUME NEW i \in 1..g + 1
                 PROVE  h[i] = Append(f, d)[i]
      OBVIOUS
    <3>1. i \in 1..g \/ i = g + 1
      OBVIOUS
    <3> QED
      BY <1>9, <1>12, <2>1, <3>1
  <2> QED
    BY <1>11, <2>1, <2>2, SeqEqual
<1>14. Compute(h) = Compute(f) + ComputeUnits[d.op]
  BY <1>10, <1>13, OpsAreOpcodes, ComputeAppend
<1>15. FirstDraws(generated) = f
  BY <1>3, <1>6 DEF FirstDraws, f
<1>16. generated' = g + 1 /\ tx.op = d.op
  BY <1>6 DEF Generates, Drawn
<1>17. FirstDraws(generated)' = h
  BY <1>1, <1>4, <1>16 DEF FirstDraws, h
<1> QED
  BY <1>1, <1>4, <1>9, <1>14, <1>15, <1>16, <1>17

\* Arithmetic of the accounts.
LEMMA SumMoves ==
  ASSUME NEW a \in Int, NEW b \in Int, NEW c \in Int, NEW d \in Int, NEW e \in Int,
         NEW x \in Int, b + c = d + e + x
  PROVE  a + b + c = (a + d + e) + x
OBVIOUS

\* Steps keep the accounts.
LEMMA CountStep ==
  ASSUME TypeInv, CountInv, [Next]_vars
  PROVE  CountInv'
<1> SUFFICES ASSUME status' = "running"
             PROVE  /\ (generated <= Len(rng[scenario]))'
                    /\ Total(Sizes(batch_metrics')) + Len(priority_lane') + Len(queue')
                         = generated'
                    /\ Total(Computes(batch_metrics')) + Compute(priority_lane')
                         + Compute(queue') = Compute(FirstDraws(generated))'
  BY DEF CountInv
<1>0. /\ priority_lane \in Seq(Tx) /\ queue \in Seq(Tx) /\ generated \in Nat
      /\ Total(Sizes(batch_metrics)) \in Int /\ Total(Computes(batch_metrics)) \in Int
      /\ Compute(priority_lane) \in Int /\ Compute(queue) \in Int
      /\ Len(priority_lane) \in Nat /\ Len(queue) \in Nat
  <2>1. /\ priority_lane \in Seq(Tx) /\ queue \in Seq(Tx) /\ generated \in Nat
        /\ batch_metrics \in Seq(BatchMetrics)
    BY DEF TypeInv, TypeOK
  <2>2. Total(Sizes(batch_metrics)) \in Int /\ Total(Computes(batch_metrics)) \in Int
    BY <2>1, RecordTotals
  <2> QED
    BY <2>1, <2>2, OpsAreOpcodes, ComputeType, LenProperties
<1>1. CASE ingest
  <2>1. status = "running" /\ generated < TxCount
    BY <1>1, IngestFacts
  <2>2. PICK d \in Draw, tx \in Tx, lane \in Seq(Tx), q \in Seq(Tx), now \in Nat :
          /\ Drawn(d, tx) /\ Routed(tx, lane, q) /\ Generates(d, tx)
          /\ \/ seal_and_process(lane, q, now)
             \/ Keeps(lane, q, now)
    BY <1>1, IngestFacts
  <2>3. /\ generated <= Len(rng[scenario])
        /\ Total(Sizes(batch_metrics)) + Len(priority_lane) + Len(queue) = generated
        /\ Total(Computes(batch_metrics)) + Compute(priority_lane) + Compute(queue)
             = Compute(FirstDraws(generated))
    BY <2>1 DEF CountInv
  <2>4. /\ results' = results
        /\ Total(Sizes(batch_metrics')) + Len(priority_lane') + Len(queue')
             = Total(Sizes(batch_metrics)) + Len(lane) + Len(q)
        /\ Total(Computes(batch_metrics')) + Compute(priority_lane') + Compute(queue')
             = Total(Computes(batch_metrics)) + Compute(lane) + Compute(q)
    <3>1. CASE seal_and_process(lane, q, now)
      BY <3>1, SealCounts
    <3>2. CASE Keeps(lane, q, now)
      BY <3>2 DEF Keeps
    <3> QED
      BY <2>2, <3>1, <3>2
  <2>5. /\ Len(lane) + Len(q) = Len(priority_lane) + Len(queue) + 1
        /\ Compute(lane) + Compute(q)
             = Compute(priority_lane) + Compute(queue) + ComputeUnits[tx.op]
    BY <2>2, RoutedCounts
  <2>6. /\ generated' <= Len(rng[scenario])'
        /\ Compute(FirstDraws(generated))'
             = Compute(FirstDraws(generated)) + ComputeUnits[tx.op]
    BY <2>1, <2>2, <2>3, <2>4, NextDraw
  <2>7. /\ Len(lane) \in Nat /\ Len(q) \in Nat /\ Compute(lane) \in Int /\ Compute(q) \in Int
        /\ ComputeUnits[tx.op] \in Int /\ generated' = generated + 1
    BY <2>2, OpsAreOpcodes, ComputeType, ComputeUnitsType, LenProperties DEF Generates
  <2>8. Total(Sizes(batch_metrics')) + Len(priority_lane') + Len(queue') = generated'
    <3>1. Total(Sizes(batch_metrics)) + Len(lane) + Len(q)
            = (Total(Sizes(batch_metrics)) + Len(priority_lane) + Len(queue)) + 1
      <4>1. /\ Total(Sizes(batch_metrics)) \in Int
            /\ Len(priority_lane) \in Int /\ Len(queue) \in Int
            /\ Len(lane) \in Int /\ Len(q) \in Int
        BY <1>0, <2>7
      <4> QED
        BY ONLY <2>5, <4>1, SumMoves
    <3> QED
      BY <2>3, <2>4, <2>7, <3>1
  <2>9. Total(Computes(batch_metrics')) + Compute(priority_lane') + Compute(queue')
          = Compute(FirstDraws(generated))'
    <3>1. Total(Computes(batch_metrics)) + Compute(lane) + Compute(q)
            = (Total(Computes(batch_metrics)) + Compute(priority_lane) + Compute(queue))
                + ComputeUnits[tx.op]
      <4>1. /\ Total(Computes(batch_metrics)) \in Int
            /\ Compute(priority_lane) \in Int /\ Compute(queue) \in Int
            /\ Compute(lane) \in Int /\ Compute(q) \in Int /\ ComputeUnits[tx.op] \in Int
        BY <1>0, <2>7
      <4>2. Compute(lane) + Compute(q)
              = Compute(priority_lane) + Compute(queue) + ComputeUnits[tx.op]
        BY <2>5
      <4>3. PICK a \in Int, b \in Int, c \in Int, e \in Int, f \in Int, x \in Int :
              /\ a = Total(Computes(batch_metrics)) /\ b = Compute(lane) /\ c = Compute(q)
              /\ e = Compute(priority_lane) /\ f = Compute(queue) /\ x = ComputeUnits[tx.op]
        BY <4>1, Zenon
      <4>4. b + c = e + f + x
        BY <4>2, <4>3, Zenon
      <4>5. a + b + c = (a + e + f) + x
        BY <4>4, SumMoves
      <4> QED
        BY <4>3, <4>5, Zenon
    <3> QED
      BY <2>3, <2>4, <2>6, <3>1
  <2> QED
    BY <2>6, <2>8, <2>9
<1>2. CASE flush
  <2>1. PICK lane \in Seq(Tx), q \in Seq(Tx), now \in Nat :
          lane = priority_lane /\ q = queue /\ now = clock
    BY DEF TypeInv, TypeOK
  <2>2. /\ status = "running" /\ seal_and_process(lane, q, now)
        /\ UNCHANGED <<plan, rng, generated>>
    BY <1>2, <2>1 DEF flush, generator
  <2>3. /\ results' = results
        /\ Total(Sizes(batch_metrics')) + Len(priority_lane') + Len(queue')
             = Total(Sizes(batch_metrics)) + Len(lane) + Len(q)
        /\ Total(Computes(batch_metrics')) + Compute(priority_lane') + Compute(queue')
             = Total(Computes(batch_metrics)) + Compute(lane) + Compute(q)
    BY <2>2, SealCounts
  <2>4. scenario' = scenario /\ FirstDraws(generated)' = FirstDraws(generated)
    BY <2>2, <2>3 DEF scenario, Current, FirstDraws
  <2> QED
    BY <2>1, <2>2, <2>3, <2>4 DEF CountInv
<1>3. CASE finalize
  <2>1. /\ status = "running" /\ results' = Append(results, Report)
        /\ plan' = plan /\ rng' = rng
    BY <1>3 DEF finalize
  <2>2. Len(results) + 1 # Len(plan) /\ NewSimulation
    BY <1>3 DEF finalize
  <2>3. /\ generated' = 0 /\ queue' = <<>> /\ priority_lane' = <<>> /\ batch_metrics' = <<>>
    BY <2>2 DEF NewSimulation
  <2>4. /\ Len(results) \in Nat /\ Len(plan) \in Nat /\ Len(results) + 1 <= Len(plan)
        /\ Len(results') = Len(results) + 1
    BY <2>1, CurrentFacts, AppendAny DEF TypeInv
  <2>5. Len(results') + 1 \in 1..Len(plan)
    BY <2>2, <2>4
  <2>6. plan \in Seq(STRING \X Range(Scenarios))
    BY PipelineAssumptions DEF TypeInv, TypeOK
  <2>7. plan[Len(results') + 1] \in STRING \X Range(Scenarios)
    BY <2>5, <2>6, ElementOfSeq
  <2>8. scenario' \in Range(Scenarios)
    BY <2>1, <2>7 DEF scenario, Current
  <2>9. Len(rng[scenario])' \in Nat
    BY <2>1, <2>8 DEF TypeInv, TypeOK
  <2>10. FirstDraws(generated)' = <<>>
    BY <2>3 DEF FirstDraws
  <2>11. Len(<<>>) = 0
    OBVIOUS
  <2> QED
    BY <2>3, <2>9, <2>10, <2>11, SumsEmpty, ComputeEmpty
<1>4. CASE UNCHANGED vars
  BY <1>4 DEF CountInv, vars, generator, engine, scenario, Current, FirstDraws
<1> QED
  BY <1>1, <1>2, <1>3, <1>4 DEF Next

\* What a report says of a simulation that has been flushed.
LEMMA FlushedReport ==
  ASSUME TypeInv, CountInv, status = "running", generated = TxCount, ~Unflushed
  PROVE  /\ <<Report.policy_name, Report.scenario_name>> = plan[Len(results) + 1]
         /\ Reported(Report)
<1>1. generated = TxCount /\ queue = <<>> /\ priority_lane = <<>>
  BY DEF Unflushed
<1>2. /\ generated <= Len(rng[scenario])
      /\ Total(Sizes(batch_metrics)) + Len(priority_lane) + Len(queue) = generated
      /\ Total(Computes(batch_metrics)) + Compute(priority_lane) + Compute(queue)
           = Compute(FirstDraws(generated))
  BY DEF CountInv
<1>3. Current = <<policy_name, scenario>> /\ scenario \in Range(Scenarios)
  BY CurrentFacts
<1>4. PICK s \in Seq(Draw) : s = rng[scenario] /\ Len(s) <= TxCount
  BY <1>3 DEF TypeInv, TypeOK
<1>5. TxCount \in Nat /\ Len(s) \in Nat
  BY PipelineAssumptions
<1>6. Len(s) = TxCount
  BY <1>1, <1>2, <1>4, <1>5
<1>7. FirstDraws(generated) = s
  <2>1. s = [i \in 1..TxCount |-> s[i]]
    BY <1>6
  <2> QED
    BY <1>1, <1>4, <2>1 DEF FirstDraws
<1>8. Total(Sizes(batch_metrics)) \in Int /\ Total(Computes(batch_metrics)) \in Int
  BY RecordTotals DEF TypeInv
<1>9. Len(<<>>) = 0 /\ Compute(<<>>) = 0
  BY ComputeEmpty
<1>10. Total(Sizes(batch_metrics)) = TxCount
  BY <1>1, <1>2, <1>8, <1>9
<1>11. Total(Computes(batch_metrics)) = Compute(s)
  BY <1>1, <1>2, <1>7, <1>8, <1>9
<1>12. /\ Report.policy_name = policy_name /\ Report.scenario_name = scenario
       /\ Report.total_transactions = Total(Sizes(batch_metrics))
       /\ Report.total_compute_used = Total(Computes(batch_metrics))
  BY DEF Report, aggregate_metrics, SumOf, Sizes, Computes
<1> QED
  BY <1>3, <1>4, <1>6, <1>10, <1>11, <1>12 DEF Reported, Current

\* A result keeps standing for its workload, whose draws are complete.
LEMMA DrawsKept ==
  ASSUME TypeInv, ResultInv, status = "running", generated < TxCount,
         NEW d \in Draw, NEW tx \in Tx, Generates(d, tx), results' = results
  PROVE  \A k \in DOMAIN results : Reported(results[k])'
<1> SUFFICES ASSUME NEW k \in DOMAIN results
             PROVE  Reported(results[k])'
  OBVIOUS
<1>1. PICK r : r = results[k]
  OBVIOUS
<1>2. Reported(r) /\ <<r.policy_name, r.scenario_name>> = plan[k]
  BY <1>1 DEF ResultInv
<1>3. r.scenario_name \in Range(Scenarios)
  <2>1. plan \in Seq(STRING \X Range(Scenarios))
    BY PipelineAssumptions DEF TypeInv, TypeOK
  <2>2. Len(plan) \in Nat
    BY <2>1
  <2>3. DOMAIN results = 1..Len(results) /\ Len(results) \in Nat /\ Len(results) <= Len(plan)
    BY DEF TypeInv, TypeOK
  <2>4. k \in 1..Len(plan)
    BY <2>2, <2>3
  <2>5. plan[k] \in STRING \X Range(Scenarios)
    BY <2>1, <2>4, ElementOfSeq
  <2> QED
    BY <1>2, <2>5
<1>4. rng'[r.scenario_name] = rng[r.scenario_name]
  <2>1. CASE r.scenario_name # scenario
    BY <1>3, <2>1, DrawnTypes
  <2>2. CASE r.scenario_name = scenario
    <3>1. generated < Len(rng[scenario])
      BY <1>2, <2>2 DEF Reported
    <3> QED
      BY <2>2, <3>1, DrawnTypes
  <2> QED
    BY <2>1, <2>2
<1>5. results'[k] = r
  BY <1>1
<1> QED
  BY <1>2, <1>4, <1>5 DEF Reported

\* Steps keep the results.
LEMMA ResultStep ==
  ASSUME TypeInv, CountInv, ResultInv, [Next]_vars
  PROVE  ResultInv'
<1>0. DOMAIN <<>> = {}
  OBVIOUS
<1>1. CASE ingest
  <2>1. status = "running" /\ generated < TxCount
    BY <1>1, IngestFacts
  <2>2. PICK d \in Draw, tx \in Tx, lane \in Seq(Tx), q \in Seq(Tx), now \in Nat :
          /\ Generates(d, tx)
          /\ \/ seal_and_process(lane, q, now)
             \/ Keeps(lane, q, now)
    BY <1>1, IngestFacts
  <2>3. plan' = plan
    BY <2>2 DEF Generates
  <2>4. \/ status' = "running" /\ results' = results
        \/ status' = "failed" /\ results' = <<>>
    <3>1. CASE seal_and_process(lane, q, now)
      BY <2>1, <3>1, SealFacts
    <3>2. CASE Keeps(lane, q, now)
      BY <2>1, <3>2 DEF Keeps
    <3> QED
      BY <2>2, <3>1, <3>2
  <2>5. CASE status' = "running" /\ results' = results
    <3>1. \A k \in DOMAIN results : Reported(results[k])'
      BY <2>1, <2>2, <2>5, DrawsKept
    <3> QED
      BY <2>3, <2>5, <3>1 DEF ResultInv
  <2>6. CASE status' = "failed" /\ results' = <<>>
    BY <1>0, <2>6 DEF ResultInv
  <2> QED
    BY <2>4, <2>5, <2>6
<1>2. CASE flush
  <2>1. PICK lane \in Seq(Tx), q \in Seq(Tx), now \in Nat :
          lane = priority_lane /\ q = queue /\ now = clock
    BY DEF TypeInv, TypeOK
  <2>2. /\ status = "running" /\ seal_and_process(lane, q, now)
        /\ UNCHANGED <<plan, rng>>
    BY <1>2, <2>1 DEF flush, generator
  <2>3. \/ status' = "running" /\ results' = results
        \/ status' = "failed" /\ results' = <<>>
    BY <2>2, SealFacts
  <2>4. CASE status' = "running" /\ results' = results
    BY <2>2, <2>4 DEF ResultInv, Reported
  <2>5. CASE status' = "failed" /\ results' = <<>>
    BY <1>0, <2>5 DEF ResultInv
  <2> QED
    BY <2>3, <2>4, <2>5
<1>3. CASE finalize
  <2>1. PICK r : r = Report
    OBVIOUS
  <2>2. /\ status = "running" /\ results' = Append(results, r)
        /\ plan' = plan /\ rng' = rng /\ generated = TxCount /\ ~Unflushed
    BY <1>3, <2>1 DEF finalize
  <2>3. <<r.policy_name, r.scenario_name>> = plan[Len(results) + 1] /\ Reported(r)
    BY <2>1, <2>2, FlushedReport
  <2>4. /\ results' \in Seq(Range(results'))
        /\ Len(results') = Len(results) + 1
        /\ \A i \in 1..Len(results) : results'[i] = results[i]
        /\ results'[Len(results) + 1] = r
    BY <2>2, AppendAny DEF TypeInv
  <2>5. /\ DOMAIN results = 1..Len(results) /\ Len(results) \in Nat
        /\ DOMAIN results' = 1..Len(results) + 1
    BY <2>4, LenProperties DEF TypeInv
  <2>6. \A k \in DOMAIN results' : k \in DOMAIN results \/ k = Len(results) + 1
    BY <2>5
  <2>7. \A k \in DOMAIN results' :
           /\ <<results'[k].policy_name, results'[k].scenario_name>> = plan[k]
           /\ Reported(results'[k])
    BY <2>3, <2>4, <2>5, <2>6 DEF ResultInv
  <2>8. \A k \in DOMAIN results' : Reported(results[k])'
    BY <2>2, <2>7 DEF Reported
  <2>9. status' = "running" \/ (status' = "done" /\ Len(results') = Len(plan'))
    BY <1>3, <2>2, <2>4 DEF finalize
  <2> QED
    BY <2>2, <2>7, <2>8, <2>9 DEF ResultInv
<1>4. CASE UNCHANGED vars
  BY <1>4 DEF ResultInv, Reported, vars, generator
<1> QED
  BY <1>1, <1>2, <1>3, <1>4 DEF Next

\* The invariants of the accounts hold initially.
LEMMA CountInit == Init => CountInv /\ ResultInv
<1> SUFFICES ASSUME Init
             PROVE  CountInv /\ ResultInv
  OBVIOUS
<1>1. /\ generated = 0 /\ queue = <<>> /\ priority_lane = <<>> /\ batch_metrics = <<>>
      /\ results = <<>> /\ status = IF plan = <<>> THEN "done" ELSE "running"
  BY DEF Init
<1>2. Len(<<>>) = 0 /\ DOMAIN <<>> = {}
  OBVIOUS
<1>3. ResultInv
  BY <1>1, <1>2 DEF ResultInv
<1>4. FirstDraws(generated) = <<>>
  BY <1>1 DEF FirstDraws
<1>5. status = "running" => generated <= Len(rng[scenario])
  <2> SUFFICES ASSUME status = "running"
               PROVE  generated <= Len(rng[scenario])
    OBVIOUS
  <2>1. scenario \in Range(Scenarios)
    BY TypeInit, CurrentFacts
  <2>2. rng[scenario] = <<>>
    BY <2>1 DEF Init
  <2> QED
    BY <1>1, <1>2, <2>2
<1> QED
  BY <1>1, <1>2, <1>3, <1>4, <1>5, SumsEmpty, ComputeEmpty DEF CountInv

\* Every simulation that was finalized accounts for the whole workload, those
\* of one scenario for the same compute however it was batched, and the
\* report is all of the plan or nothing.
THEOREM ReportsComplete == Spec => []ReportComplete
<1>1. Init => TypeInv /\ CountInv /\ ResultInv
  BY TypeInit, CountInit
<1>2. TypeInv /\ CountInv /\ ResultInv /\ [Next]_vars => TypeInv' /\ CountInv' /\ ResultInv'
  BY TypeStep, CountStep, ResultStep
<1>3. ResultInv => ReportComplete
  BY DEF ResultInv, ReportComplete, Reported
<1> QED
  BY <1>1, <1>2, <1>3, PTL DEF Spec

-----------------------------------------------------------------------------
(* The latency figures.                                                    *)

\* The counts of LatencyFiguresAgree, over the latencies alone.
CountsOver(lat) ==
  /\ lat \in Seq(Int) /\ Len(lat) = Len(batch_metrics)
  /\ DOMAIN batch_metrics = 1..Len(lat)
  /\ \A i \in 1..Len(lat) : lat[i] = batch_metrics[i].end_to_end_latency_ms
  /\ \A v : Below(v) = Cardinality({i \in 1..Len(lat) : lat[i] < v})
  /\ \A v : AtMost(v) = Cardinality({i \in 1..Len(lat) : lat[i] <= v})
  /\ Report.total_batches = Len(lat)
  /\ Report.sla_violations = Cardinality({i \in 1..Len(lat) : lat[i] > sla_latency_ms})

\* They are the same counts.
LEMMA LatencyCounts ==
  ASSUME TypeInv, NEW lat, lat = Latencies(batch_metrics)
  PROVE  CountsOver(lat)
<1>1. batch_metrics \in Seq(BatchMetrics)
  BY DEF TypeInv
<1>2. \A m \in BatchMetrics : m.end_to_end_latency_ms \in Int
  BY DEF BatchMetrics
<1>3. /\ DOMAIN batch_metrics = 1..Len(batch_metrics) /\ Len(batch_metrics) \in Nat
      /\ \A i \in 1..Len(batch_metrics) : batch_metrics[i].end_to_end_latency_ms \in Int
  BY <1>1, <1>2
<1>4. lat = [i \in 1..Len(batch_metrics) |-> batch_metrics[i].end_to_end_latency_ms]
  BY <1>3 DEF Latencies
<1>5. lat \in Seq(Int) /\ Len(lat) = Len(batch_metrics)
  BY <1>3, <1>4
<1>6. DOMAIN batch_metrics = 1..Len(lat)
  BY <1>3, <1>5
<1>7. \A i \in 1..Len(lat) : lat[i] = batch_metrics[i].end_to_end_latency_ms
  BY <1>4, <1>5
<1>8. ASSUME NEW v
      PROVE  /\ Below(v) = Cardinality({i \in 1..Len(lat) : lat[i] < v})
             /\ AtMost(v) = Cardinality({i \in 1..Len(lat) : lat[i] <= v})
  <2>1. {i \in DOMAIN batch_metrics : batch_metrics[i].end_to_end_latency_ms < v}
          = {i \in 1..Len(lat) : lat[i] < v}
    BY <1>6, <1>7
  <2>2. {i \in DOMAIN batch_metrics : batch_metrics[i].end_to_end_latency_ms <= v}
          = {i \in 1..Len(lat) : lat[i] <= v}
    BY <1>6, <1>7
  <2> QED
    BY <2>1, <2>2 DEF Below, AtMost, CountOf
<1>9. Report.total_batches = Len(lat)
  BY <1>5 DEF Report, aggregate_metrics
<1>10. Report.sla_violations = Cardinality({i \in 1..Len(lat) : lat[i] > sla_latency_ms})
  <2>1. {i \in DOMAIN batch_metrics : batch_metrics[i].end_to_end_latency_ms > sla_latency_ms}
          = {i \in 1..Len(lat) : lat[i] > sla_latency_ms}
    BY <1>6, <1>7
  <2>2. Report.sla_violations
          = CountOf(batch_metrics, LAMBDA m : ViolatesSla(m, sla_latency_ms))
    BY DEF Report, aggregate_metrics
  <2> QED
    BY <2>1, <2>2 DEF CountOf, ViolatesSla
<1> QED
  BY <1>5, <1>6, <1>7, <1>8, <1>9, <1>10 DEF CountsOver

\* The percentiles of a report have the rank they stand for and agree with
\* its count of SLA violations, for any number of batches.
THEOREM FiguresAgree == Spec => []LatencyFiguresAgree
<1>1. TypeInv => LatencyFiguresAgree
  <2> SUFFICES ASSUME TypeInv, batch_metrics # <<>>, NEW pv \in Percentiles
               PROVE  LET target == 2 * pv[1] * (Len(batch_metrics) - 1)
                      IN  /\ \E i \in DOMAIN batch_metrics :
                                batch_metrics[i].end_to_end_latency_ms = pv[2]
                          /\ 200 * Below(pv[2]) <= target + 100
                          /\ 200 * (AtMost(pv[2]) - 1) > target - 100
                          /\ IF pv[2] > sla_latency_ms
                             THEN Report.sla_violations
                                    >= Report.total_batches - Below(pv[2])
                             ELSE Report.sla_violations
                                    <= Report.total_batches - AtMost(pv[2])
    BY DEF LatencyFiguresAgree
  <2>1. PICK lat : lat = Latencies(batch_metrics)
    OBVIOUS
  <2>2. CountsOver(lat)
    BY <2>1, LatencyCounts
  <2>3. lat # <<>>
    <3>1. Len(batch_metrics) # 0
      BY EmptySeq DEF TypeInv
    <3> QED
      BY <2>2, <3>1 DEF CountsOver
  <2>4. PICK p \in Ranks : pv[1] = p /\ pv[2] = percentile(sort(lat), p)
    <3>1. /\ Report.p50_latency_ms = percentile(sort(lat), 50)
          /\ Report.p95_latency_ms = percentile(sort(lat), 95)
          /\ Report.p99_latency_ms = percentile(sort(lat), 99)
      BY <2>1 DEF Report, aggregate_metrics, SortedLatencies
    <3>2. \/ pv = <<50, Report.p50_latency_ms>>
          \/ pv = <<95, Report.p95_latency_ms>>
          \/ pv = <<99, Report.p99_latency_ms>>
      BY DEF Percentiles
    <3> QED
      BY <3>1, <3>2 DEF Ranks
  <2> DEFINE v == pv[2]
  <2> HIDE DEF v
  <2>5. HasRank(lat, p, v)
    <3>1. lat \in Seq(Int) /\ v = percentile(sort(lat), p)
      BY <2>2, <2>4 DEF v, CountsOver
    <3> QED
      BY <2>3, <3>1, PercentileRank
  <2>6. IF v > sla_latency_ms
        THEN Cardinality({i \in 1..Len(lat) : lat[i] > sla_latency_ms})
               >= Len(lat) - Cardinality({i \in 1..Len(lat) : lat[i] < v})
        ELSE Cardinality({i \in 1..Len(lat) : lat[i] > sla_latency_ms})
               <= Len(lat) - Cardinality({i \in 1..Len(lat) : lat[i] <= v})
    <3>1. lat \in [1..Len(lat) -> Int] /\ Len(lat) \in Nat /\ sla_latency_ms \in Int
      BY <2>2, PipelineAssumptions DEF CountsOver, sla_latency_ms
    <3>2. v \in Int
      BY <2>5 DEF HasRank
    <3> QED
      BY <3>1, <3>2, ExceedingCount
  <2>7. \E i \in DOMAIN batch_metrics : batch_metrics[i].end_to_end_latency_ms = v
    BY <2>2, <2>5 DEF CountsOver, HasRank
  <2>8. /\ Below(v) = Cardinality({i \in 1..Len(lat) : lat[i] < v})
        /\ AtMost(v) = Cardinality({i \in 1..Len(lat) : lat[i] <= v})
    BY <2>2 DEF CountsOver
  <2> QED
    BY <2>2, <2>4, <2>5, <2>6, <2>7, <2>8 DEF v, CountsOver, HasRank
<1>2. Init => TypeInv
  BY TypeInit
<1>3. TypeInv /\ [Next]_vars => TypeInv'
  BY TypeStep
<1> QED
  BY <1>1, <1>2, <1>3, PTL DEF Spec
=============================================================================
