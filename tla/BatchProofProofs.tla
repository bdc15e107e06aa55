-------------------------- MODULE BatchProofProofs --------------------------
(***************************************************************************)
(* Proofs about a batch on its way to a verdict, for batches of any        *)
(* length, words of any width and any two commitment functions: nothing is *)
(* assumed about hashing.                                                  *)
(***************************************************************************)
EXTENDS BatchProof, FiniteSetTheorems, NaturalsInduction, WellFoundedInduction, TLAPS

-----------------------------------------------------------------------------
(* The instruction set.                                                    *)

\* Reading a missing key yields 0, so Get is total.
LEMMA GetType ==
  ASSUME NEW s \in State, NEW k PROVE Get(s, k) \in U64
BY InstructionAssumptions DEF State, Get, U64

\* BTreeMap::insert.
LEMMA PutType ==
  ASSUME NEW s \in State, NEW k \in Keys, NEW v \in U64
  PROVE  Put(s, k, v) \in State
<1>1. PICK K \in SUBSET Keys : s \in [K -> U64]
  BY DEF State
<1>2. Put(s, k, v) \in [K \cup {k} -> U64]
  BY <1>1 DEF Put
<1> QED
  BY <1>2 DEF State

\* Neither addition leaves the word.
LEMMA AddType ==
  ASSUME NEW a \in U64, NEW b \in U64
  PROVE  WrappingAdd(a, b) \in U64 /\ SaturatingAdd(a, b) \in U64
BY InstructionAssumptions DEF U64, WrappingAdd, SaturatingAdd

\* The host's outcome has the declared type, whatever the instruction.
LEMMA HostType ==
  ASSUME NEW s \in State, NEW sender \in Keys, NEW data \in Instruction
  PROVE  HostExecute(s, sender, data) \in Outcome
<1> USE InstructionAssumptions
<1>1. HostErr(s) \in Outcome
  BY DEF HostErr, Outcome
<1>2. <<>> \in Seq(Keys)
  OBVIOUS
<1>3. data.key \in Keys /\ data.val \in U64
  BY DEF Instruction
<1>4. CASE ~data.empty /\ data.op = "Transfer"
  <2>1. CASE ~data.full \/ Get(s, sender) < data.val
    BY <1>1, <1>4, <2>1 DEF HostExecute, execute_transfer
  <2>2. CASE ~(~data.full \/ Get(s, sender) < data.val)
    <3> DEFINE debited == Put(s, sender, Get(s, sender) - data.val)
    <3>1. Get(s, sender) - data.val \in U64
      BY <1>3, <2>2, GetType DEF U64
    <3>2. debited \in State
      BY <3>1, PutType
    <3>3. Put(debited, data.key, WrappingAdd(Get(debited, data.key), data.val)) \in State
      BY <1>3, <3>2, GetType, AddType, PutType
    <3>4. <<sender, data.key>> \in Seq(Keys)
      BY <1>3
    <3>5. HostExecute(s, sender, data) =
            HostOk(Put(debited, data.key, WrappingAdd(Get(debited, data.key), data.val)),
                   <<sender, data.key>>, <<sender, data.key>>, 5000)
      BY <1>4, <2>2 DEF HostExecute, execute_transfer
    <3> HIDE DEF debited
    <3> QED
      BY <3>3, <3>4, <3>5 DEF HostOk, Outcome
  <2> QED
    BY <2>1, <2>2
<1>5. CASE ~data.empty /\ data.op = "SetData"
  <2>1. Put(s, data.key, data.val) \in State /\ <<data.key>> \in Seq(Keys)
    BY <1>3, PutType
  <2>2. HostExecute(s, sender, data) =
          IF ~data.full THEN HostErr(s)
          ELSE HostOk(Put(s, data.key, data.val), <<>>, <<data.key>>, 3000)
    BY <1>5 DEF HostExecute, execute_set_data
  <2> QED
    BY <1>1, <1>2, <2>1, <2>2 DEF HostOk, Outcome
<1>6. CASE ~data.empty /\ data.op = "Increment"
  <2>1. /\ Put(s, data.key, SaturatingAdd(Get(s, data.key), data.val)) \in State
        /\ <<data.key>> \in Seq(Keys)
    BY <1>3, GetType, AddType, PutType
  <2>2. HostExecute(s, sender, data) =
          IF ~data.full THEN HostErr(s)
          ELSE HostOk(Put(s, data.key, SaturatingAdd(Get(s, data.key), data.val)),
                      <<data.key>>, <<data.key>>, 2000)
    BY <1>6 DEF HostExecute, execute_increment
  <2> QED
    BY <1>1, <2>1, <2>2 DEF HostOk, Outcome
<1>7. CASE ~data.empty /\ data.op = "Noop"
  <2>1. HostExecute(s, sender, data) = HostOk(s, <<>>, <<>>, 1000)
    BY <1>7 DEF HostExecute
  <2> QED
    BY <1>2, <2>1 DEF HostOk, Outcome
<1>8. CASE data.empty \/ data.op = "Invalid"
  BY <1>1, <1>8 DEF HostExecute, Instruction
<1> QED
  BY <1>4, <1>5, <1>6, <1>7, <1>8 DEF Instruction, Opcodes

\* An instruction the host reports as failed left the state alone.
LEMMA HostFailure ==
  ASSUME NEW s \in State, NEW sender \in Keys, NEW data \in Instruction,
         ~HostExecute(s, sender, data).success
  PROVE  HostExecute(s, sender, data).state = s
BY DEF HostExecute, HostErr, HostOk, execute_transfer, execute_set_data,
       execute_increment, Instruction, Opcodes

\* The two copies of the instruction set reach the same state; where they
\* report a failure differently the guest charges more, and everywhere else
\* they report the same.
LEMMA CopiesAgree ==
  ASSUME NEW s \in State, NEW sender \in Keys, NEW data \in Instruction
  PROVE  LET h == HostExecute(s, sender, data)
             g == GuestExecute(s, sender, data)
         IN  /\ g.state = h.state
             /\ g.cu \in Nat
             /\ h.cu \in Nat
             /\ ReportedDifferently(s, sender, data) => g.cu > h.cu
             /\ ~ReportedDifferently(s, sender, data) => g = h
<1> USE InstructionAssumptions
<1>1. CASE data.empty
  BY <1>1 DEF HostExecute, GuestExecute, HostErr, GuestResult, ReportedDifferently
<1>2. CASE ~data.empty /\ data.op = "Transfer"
  BY <1>2 DEF HostExecute, GuestExecute, HostErr, HostOk, GuestResult,
              execute_transfer, GuestTransfer, ReportedDifferently
<1>3. CASE ~data.empty /\ data.op = "SetData"
  BY <1>3 DEF HostExecute, GuestExecute, HostErr, HostOk, GuestResult,
              execute_set_data, GuestSetData, ReportedDifferently
<1>4. CASE ~data.empty /\ data.op = "Increment"
  BY <1>4 DEF HostExecute, GuestExecute, HostErr, HostOk, GuestResult,
              execute_increment, GuestIncrement, ReportedDifferently
<1>5. CASE ~data.empty /\ data.op \in {"Noop", "Invalid"}
  BY <1>5 DEF HostExecute, GuestExecute, HostErr, HostOk, GuestResult,
              ReportedDifferently
<1> QED
  BY <1>1, <1>2, <1>3, <1>4, <1>5 DEF Instruction, Opcodes

\* The guest's outcome has the declared type too.
LEMMA GuestType ==
  ASSUME NEW s \in State, NEW sender \in Keys, NEW data \in Instruction
  PROVE  GuestExecute(s, sender, data) \in Outcome
<1>1. CASE ~data.empty /\ data.op = "Invalid"
  <2>1. GuestExecute(s, sender, data) = GuestResult(s, <<>>, <<>>, 500, FALSE)
    BY <1>1 DEF GuestExecute
  <2>2. <<>> \in Seq(Keys)
    OBVIOUS
  <2> QED
    BY <2>1, <2>2 DEF GuestResult, Outcome
<1>2. CASE ~data.empty /\ data.op = "Transfer" /\ data.full /\ Get(s, sender) < data.val
  <2>1. GuestExecute(s, sender, data) = GuestResult(s, <<sender>>, <<>>, 5000, FALSE)
    BY <1>2 DEF GuestExecute, GuestTransfer
  <2>2. <<>> \in Seq(Keys) /\ <<sender>> \in Seq(Keys)
    OBVIOUS
  <2> QED
    BY <2>1, <2>2 DEF GuestResult, Outcome
<1>3. CASE ~ReportedDifferently(s, sender, data)
  BY <1>3, CopiesAgree, HostType
<1> QED
  BY <1>1, <1>2, <1>3 DEF ReportedDifferently

-----------------------------------------------------------------------------
(* The sum of a function over a finite set.                                *)

\* A set of numbers has a least one.
LEMMA LeastNumber ==
  ASSUME NEW S \in SUBSET Nat, S # {}
  PROVE  \E i \in S : \A j \in S : i <= j
<1>1. \E i \in S : \A j \in S : ~(<<j, i>> \in OpToRel(<, Nat))
  BY NatLessThanWellFounded, WFMin, Zenon
<1>2. \A i, j \in Nat : j < i => <<j, i>> \in OpToRel(<, Nat)
  BY DEF OpToRel
<1>3. \A i, j \in Nat : ~(j < i) => i <= j
  OBVIOUS
<1> QED
  BY <1>1, <1>2, <1>3

\* The element a fold takes next.
Chosen(S) == CHOOSE x \in S : TRUE

\* The partial sums a fold over the subsets of D of at most n elements computes.
Small(D, n) == {S \in SUBSET D : Cardinality(S) <= n}

Sums(f, subsets, g) ==
  /\ g \in [subsets -> Int]
  /\ g[{}] = 0
  /\ \A S \in subsets : S # {} => g[S] = f[Chosen(S)] + g[S \ {Chosen(S)}]

\* Integers over D.
IntOn(f, D) == IsFiniteSet(D) /\ \A x \in D : f[x] \in Int

\* What removing an element does to a subset.
LEMMA OneLess ==
  ASSUME NEW D, IsFiniteSet(D), NEW S \in SUBSET D, NEW x \in S
  PROVE  /\ IsFiniteSet(S) /\ S \ {x} \in SUBSET D
         /\ Cardinality(S) \in Nat \ {0}
         /\ Cardinality(S \ {x}) = Cardinality(S) - 1
<1>1. IsFiniteSet(S)
  BY FS_Subset
<1>2. Cardinality(S) \in Nat /\ Cardinality(S) # 0
  BY <1>1, FS_CardinalityType, FS_EmptySet
<1>3. Cardinality(S \ {x}) = Cardinality(S) - 1
  BY <1>1, FS_RemoveElement
<1> QED
  BY <1>1, <1>2, <1>3

\* The chosen element is one of the set.
LEMMA ChosenIn == ASSUME NEW S, S # {} PROVE Chosen(S) \in S
BY DEF Chosen

\* The partial sums exist.
LEMMA SmallSums ==
  ASSUME NEW D, NEW f, IntOn(f, D), NEW n \in Nat
  PROVE  \E g : Sums(f, Small(D, n), g)
<1> DEFINE Bad == {m \in Nat : ~ \E g : Sums(f, Small(D, m), g)}
<1> SUFFICES ASSUME Bad # {} PROVE FALSE
  OBVIOUS
<1>1. IsFiniteSet(D) /\ \A x \in D : f[x] \in Int
  BY DEF IntOn
<1>2. PICK m \in Bad : \A j \in Bad : m <= j
  <2>1. Bad \in SUBSET Nat
    OBVIOUS
  <2> HIDE DEF Bad
  <2> QED
    BY <2>1, LeastNumber
<1>3. m \in Nat /\ ~ \E g : Sums(f, Small(D, m), g)
  OBVIOUS
<1>4. \A k \in Nat : {} \in Small(D, k)
  BY FS_EmptySet DEF Small
<1>5. CASE m = 0
  <2>1. \A S \in Small(D, 0) : S = {}
    <3> SUFFICES ASSUME NEW S \in Small(D, 0), S # {} PROVE FALSE
      OBVIOUS
    <3>1. PICK x : x \in S
      OBVIOUS
    <3>2. S \in SUBSET D /\ Cardinality(S) <= 0
      BY DEF Small
    <3>3. Cardinality(S) \in Nat \ {0}
      BY <1>1, <3>1, <3>2, OneLess
    <3> QED
      BY <3>2, <3>3
  <2>2. Sums(f, Small(D, 0), [S \in Small(D, 0) |-> 0])
    BY <1>4, <2>1 DEF Sums
  <2> QED
    BY <1>3, <1>5, <2>2
<1>6. CASE m # 0
  <2>1. m - 1 \in Nat /\ m - 1 \notin Bad
    BY <1>2, <1>3, <1>6
  <2>2. PICK g : Sums(f, Small(D, m - 1), g)
    BY <2>1
  <2> DEFINE h == [S \in Small(D, m) |->
                     IF S = {} THEN 0 ELSE f[Chosen(S)] + g[S \ {Chosen(S)}]]
  <2>3. ASSUME NEW S \in Small(D, m), S # {}
        PROVE  /\ S \ {Chosen(S)} \in Small(D, m - 1)
               /\ S \ {Chosen(S)} \in Small(D, m)
               /\ f[Chosen(S)] \in Int
    <3>1. Chosen(S) \in S /\ S \in SUBSET D /\ Cardinality(S) <= m
      BY <2>3, ChosenIn DEF Small
    <3>2. /\ Cardinality(S) \in Nat \ {0} /\ S \ {Chosen(S)} \in SUBSET D
          /\ Cardinality(S \ {Chosen(S)}) = Cardinality(S) - 1
      BY <1>1, <3>1, OneLess
    <3>3. /\ Cardinality(S \ {Chosen(S)}) <= m - 1
          /\ Cardinality(S \ {Chosen(S)}) <= m
      BY <1>3, <3>1, <3>2
    <3> QED
      BY <1>1, <3>1, <3>2, <3>3 DEF Small
  <2>4. ASSUME NEW S \in Small(D, m - 1) PROVE S \in Small(D, m) /\ h[S] = g[S]
    <3>1. S \in Small(D, m)
      <4>1. S \in SUBSET D /\ Cardinality(S) <= m - 1
        BY DEF Small
      <4>2. Cardinality(S) \in Nat
        BY <1>1, <4>1, FS_Subset, FS_CardinalityType
      <4>3. Cardinality(S) <= m
        BY <1>3, <4>1, <4>2
      <4> QED
        BY <4>1, <4>3 DEF Small
    <3>2. h[S] = g[S]
      BY <2>2, <3>1 DEF Sums
    <3> QED
      BY <3>1, <3>2
  <2>5. \A S \in Small(D, m) : h[S] \in Int
    <3> TAKE S \in Small(D, m)
    <3>1. CASE S = {}
      BY <3>1
    <3>2. CASE S # {}
      <4>1. f[Chosen(S)] \in Int /\ g[S \ {Chosen(S)}] \in Int
        BY <2>2, <2>3, <3>2 DEF Sums
      <4>2. h[S] = f[Chosen(S)] + g[S \ {Chosen(S)}]
        BY <3>2
      <4> QED
        BY <4>1, <4>2
    <3> QED
      BY <3>1, <3>2
  <2>6. h \in [Small(D, m) -> Int]
    BY <2>5
  <2>7. \A S \in Small(D, m) : S # {} => h[S] = f[Chosen(S)] + h[S \ {Chosen(S)}]
    <3> TAKE S \in Small(D, m)
    <3> HAVE S # {}
    <3>1. h[S] = f[Chosen(S)] + g[S \ {Chosen(S)}]
      OBVIOUS
    <3>2. h[S \ {Chosen(S)}] = g[S \ {Chosen(S)}]
      BY <2>3, <2>4
    <3> QED
      BY <3>1, <3>2
  <2>8. h[{}] = 0
    BY <1>3, <1>4
  <2>9. Sums(f, Small(D, m), h)
    <3> HIDE DEF h
    <3> QED
      BY <2>6, <2>7, <2>8 DEF Sums
  <2> QED
    BY <1>3, <2>9
<1> QED
  BY <1>5, <1>6

\* So do those of all subsets.
LEMMA SumsExist ==
  ASSUME NEW D, NEW f, IntOn(f, D)
  PROVE  \E g : Sums(f, SUBSET D, g)
<1>1. Cardinality(D) \in Nat
  BY FS_CardinalityType DEF IntOn
<1>2. Small(D, Cardinality(D)) = SUBSET D
  BY FS_Subset DEF Small, IntOn
<1>3. \E g : Sums(f, Small(D, Cardinality(D)), g)
  BY <1>1, SmallSums
<1> QED
  BY <1>2, <1>3

\* A statement about finite sets that fails for one fails for a smallest one.
LEMMA SmallestSubset ==
  ASSUME NEW D, IsFiniteSet(D), NEW Bad \in SUBSET (SUBSET D), Bad # {}
  PROVE  \E S \in Bad : \A T \in SUBSET D : Cardinality(T) < Cardinality(S) => T \notin Bad
<1> DEFINE sizes == {Cardinality(S) : S \in Bad}
<1>1. \A S \in SUBSET D : Cardinality(S) \in Nat
  BY FS_Subset, FS_CardinalityType
<1>2. sizes \in SUBSET Nat /\ sizes # {}
  BY <1>1
<1>3. PICK n \in sizes : \A k \in sizes : n <= k
  <2> HIDE DEF sizes
  <2> QED
    BY <1>2, LeastNumber
<1>4. PICK S \in Bad : Cardinality(S) = n
  OBVIOUS
<1>5. ASSUME NEW T \in SUBSET D, Cardinality(T) < Cardinality(S) PROVE T \notin Bad
  <2> SUFFICES ASSUME T \in Bad PROVE FALSE
    OBVIOUS
  <2>1. Cardinality(T) \in sizes
    OBVIOUS
  <2>2. n <= Cardinality(T) /\ Cardinality(T) \in Nat /\ n \in Nat
    BY <1>1, <1>2, <1>3, <2>1
  <2> QED
    BY <1>4, <1>5, <2>2
<1> QED
  BY <1>4, <1>5

\* The library's sum over a subset is the partial sum.
LEMMA SumIsPartial ==
  ASSUME NEW D, NEW f, IntOn(f, D), NEW g, Sums(f, SUBSET D, g), NEW S \in SUBSET D
  PROVE  SumFunctionOnSet(f, S) = g[S]
<1> DEFINE Eq(h) == h = [s \in SUBSET S |->
                           IF s = {} THEN 0 ELSE f[Chosen(s)] + h[s \ {Chosen(s)}]]
           it == CHOOSE h : Eq(h)
           restricted == [s \in SUBSET S |-> g[s]]
<1>1. SumFunctionOnSet(f, S) = it[S]
  BY DEF SumFunctionOnSet, FoldFunctionOnSet, MapThenFoldSet, Chosen
<1>2. \A s \in SUBSET S : s \in SUBSET D /\ s \ {Chosen(s)} \in SUBSET S
  OBVIOUS
<1>3. \A s \in SUBSET S : s # {} =>
         restricted[s] = f[Chosen(s)] + restricted[s \ {Chosen(s)}]
  <2> TAKE s \in SUBSET S
  <2> HAVE s # {}
  <2>1. g[s] = f[Chosen(s)] + g[s \ {Chosen(s)}]
    BY <1>2 DEF Sums
  <2> QED
    BY <1>2, <2>1
<1>4. restricted[{}] = 0
  BY DEF Sums
<1>5. Eq(restricted)
  <2>1. restricted = [s \in SUBSET S |-> restricted[s]]
    OBVIOUS
  <2> HIDE DEF restricted
  <2> QED
    BY <1>3, <1>4, <2>1
<1>6. Eq(it)
  <2> HIDE DEF restricted
  <2> QED
    BY <1>5
<1> HIDE DEF it
<1>7. /\ it[{}] = 0
      /\ \A s \in SUBSET S : s # {} => it[s] = f[Chosen(s)] + it[s \ {Chosen(s)}]
  BY <1>6
<1> DEFINE Bad == {s \in SUBSET S : it[s] # g[s]}
<1>8. Bad = {}
  <2> SUFFICES ASSUME Bad # {} PROVE FALSE
    OBVIOUS
  <2>1. IsFiniteSet(S)
    BY FS_Subset DEF IntOn
  <2>2. Bad \in SUBSET (SUBSET S)
    OBVIOUS
  <2>3. PICK s \in Bad : \A T \in SUBSET S : Cardinality(T) < Cardinality(s) => T \notin Bad
    <3> HIDE DEF Bad
    <3> QED
      BY <2>1, <2>2, SmallestSubset
  <2>4. s \in SUBSET S /\ it[s] # g[s]
    OBVIOUS
  <2>5. s # {}
    BY <1>7, <2>4 DEF Sums
  <2>6. Chosen(s) \in s
    BY <2>5, ChosenIn
  <2>7. /\ s \ {Chosen(s)} \in SUBSET S /\ Cardinality(s) \in Nat
        /\ Cardinality(s \ {Chosen(s)}) = Cardinality(s) - 1
    BY <2>1, <2>4, <2>6, OneLess
  <2>8. Cardinality(s \ {Chosen(s)}) < Cardinality(s)
    BY <2>7
  <2>9. it[s \ {Chosen(s)}] = g[s \ {Chosen(s)}]
    BY <2>3, <2>7, <2>8
  <2>10. it[s] = f[Chosen(s)] + it[s \ {Chosen(s)}]
    BY <1>7, <2>4, <2>5
  <2>11. g[s] = f[Chosen(s)] + g[s \ {Chosen(s)}]
    BY <1>2, <2>4, <2>5 DEF Sums
  <2> QED
    BY <2>4, <2>9, <2>10, <2>11
<1> QED
  BY <1>1, <1>8

\* The order of a sum does not matter: any element may be taken out first.
LEMMA SumsTakeAny ==
  ASSUME NEW D, NEW f, IntOn(f, D), NEW g, Sums(f, SUBSET D, g),
         NEW S \in SUBSET D, NEW x \in S
  PROVE  g[S] = f[x] + g[S \ {x}]
<1> DEFINE Bad == {s \in SUBSET D : \E y \in s : g[s] # f[y] + g[s \ {y}]}
<1> SUFFICES Bad = {}
  OBVIOUS
<1> SUFFICES ASSUME Bad # {} PROVE FALSE
  OBVIOUS
<1>1. IsFiniteSet(D)
  BY DEF IntOn
<1>2. PICK s \in Bad : \A T \in SUBSET D : Cardinality(T) < Cardinality(s) => T \notin Bad
  <2>1. Bad \in SUBSET (SUBSET D)
    OBVIOUS
  <2> HIDE DEF Bad
  <2> QED
    BY <1>1, <2>1, SmallestSubset
<1>3. s \in SUBSET D
  OBVIOUS
<1>4. PICK y \in s : g[s] # f[y] + g[s \ {y}]
  OBVIOUS
<1> DEFINE c == Chosen(s)
<1>5. c \in s /\ g[s] = f[c] + g[s \ {c}]
  BY <1>3, <1>4, ChosenIn DEF Sums
<1> HIDE DEF c
<1>6. y # c
  BY <1>4, <1>5
<1>7. ASSUME NEW z \in s, NEW w \in s, z # w
      PROVE  g[s \ {z}] = f[w] + g[(s \ {z}) \ {w}]
  <2>1. /\ s \ {z} \in SUBSET D /\ Cardinality(s) \in Nat
        /\ Cardinality(s \ {z}) = Cardinality(s) - 1
    BY <1>1, <1>3, OneLess
  <2>2. Cardinality(s \ {z}) < Cardinality(s)
    BY <2>1
  <2>3. s \ {z} \notin Bad
    BY <1>2, <2>1, <2>2
  <2>4. w \in s \ {z}
    BY <1>7
  <2> QED
    BY <2>1, <2>3, <2>4
<1>8. /\ g[s \ {c}] = f[y] + g[(s \ {c}) \ {y}]
      /\ g[s \ {y}] = f[c] + g[(s \ {y}) \ {c}]
  BY <1>5, <1>6, <1>7
<1>9. (s \ {c}) \ {y} = (s \ {y}) \ {c}
  OBVIOUS
<1>10. /\ f[c] \in Int /\ f[y] \in Int /\ g[(s \ {y}) \ {c}] \in Int
       /\ g[s] \in Int
  <2>1. c \in D /\ y \in D /\ (s \ {y}) \ {c} \in SUBSET D
    BY <1>3, <1>5
  <2> QED
    BY <1>3, <2>1 DEF IntOn, Sums
<1>11. PICK i \in Int : i = f[c]
  BY <1>10
<1>12. PICK j \in Int : j = f[y]
  BY <1>10
<1>13. PICK k \in Int : k = g[(s \ {y}) \ {c}]
  BY <1>10
<1>14. g[s] = i + (j + k) /\ g[s \ {y}] = i + k
  BY <1>5, <1>8, <1>9, <1>11, <1>12, <1>13
<1>15. i + (j + k) = j + (i + k)
  OBVIOUS
<1> QED
  BY <1>4, <1>12, <1>14, <1>15

\* The laws of the library's sum over a finite set.
LEMMA SumLaws ==
  ASSUME NEW D, NEW f, IntOn(f, D)
  PROVE  /\ SumFunctionOnSet(f, D) \in Int
         /\ \A x \in D : SumFunctionOnSet(f, D) = f[x] + SumFunctionOnSet(f, D \ {x})
         /\ \A h : (\A x \in D : h[x] = f[x]) => SumFunctionOnSet(h, D) = SumFunctionOnSet(f, D)
<1>1. PICK g : Sums(f, SUBSET D, g)
  BY SumsExist
<1>2. \A S \in SUBSET D : SumFunctionOnSet(f, S) = g[S]
  BY <1>1, SumIsPartial
<1>3. SumFunctionOnSet(f, D) = g[D] /\ g[D] \in Int
  BY <1>1, <1>2 DEF Sums
<1>4. ASSUME NEW x \in D
      PROVE  SumFunctionOnSet(f, D) = f[x] + SumFunctionOnSet(f, D \ {x})
  <2>1. g[D] = f[x] + g[D \ {x}]
    BY <1>1, SumsTakeAny
  <2>2. D \ {x} \in SUBSET D
    OBVIOUS
  <2> QED
    BY <1>2, <1>3, <2>1, <2>2
<1>5. ASSUME NEW h, \A x \in D : h[x] = f[x]
      PROVE  SumFunctionOnSet(h, D) = SumFunctionOnSet(f, D)
  <2>1. IntOn(h, D)
    BY <1>5 DEF IntOn
  <2>2. \A S \in SUBSET D : S # {} => h[Chosen(S)] = f[Chosen(S)]
    BY <1>5, ChosenIn
  <2>3. Sums(h, SUBSET D, g)
    BY <1>1, <2>2 DEF Sums
  <2>4. SumFunctionOnSet(h, D) = g[D]
    BY <2>1, <2>3, SumIsPartial
  <2> QED
    BY <1>3, <2>4
<1> QED
  BY <1>3, <1>4, <1>5

-----------------------------------------------------------------------------
(* Transfers.                                                              *)

\* BTreeMap::insert changes the sum by the difference at the key.
LEMMA PutSum ==
  ASSUME NEW s, s = [k \in DOMAIN s |-> s[k]], IntOn(s, DOMAIN s), NEW k, NEW v \in Int
  PROVE  /\ IntOn(Put(s, k, v), DOMAIN Put(s, k, v))
         /\ Put(s, k, v) = [x \in DOMAIN Put(s, k, v) |-> Put(s, k, v)[x]]
         /\ SumFunction(s) \in Int
         /\ SumFunction(Put(s, k, v)) = SumFunction(s) - Get(s, k) + v
<1> DEFINE D == DOMAIN s
           p == Put(s, k, v)
           rest == D \ {k}
<1>1. /\ DOMAIN p = D \cup {k} /\ p[k] = v /\ \A x \in rest : p[x] = s[x]
      /\ p = [x \in DOMAIN p |-> p[x]]
  BY DEF Put
<1>2. IsFiniteSet(D) /\ IsFiniteSet(D \cup {k}) /\ IsFiniteSet(rest)
  BY FS_AddElement, FS_RemoveElement DEF IntOn
<1>3. IntOn(p, DOMAIN p)
  <2>1. \A x \in D \cup {k} : p[x] \in Int
    BY <1>1 DEF IntOn
  <2> QED
    BY <1>1, <1>2, <2>1 DEF IntOn
<1>4. IntOn(s, rest)
  BY <1>2 DEF IntOn
<1>5. /\ SumFunction(s) = SumFunctionOnSet(s, D) /\ SumFunction(s) \in Int
      /\ SumFunction(p) = SumFunctionOnSet(p, DOMAIN p)
  BY SumLaws DEF SumFunction
<1>6. SumFunction(p) = v + SumFunctionOnSet(s, rest)
  <2> HIDE DEF p
  <2>1. SumFunctionOnSet(p, DOMAIN p) = p[k] + SumFunctionOnSet(p, (DOMAIN p) \ {k})
    BY <1>1, <1>3, SumLaws
  <2>2. (DOMAIN p) \ {k} = rest
    BY <1>1
  <2>3. SumFunctionOnSet(p, rest) = SumFunctionOnSet(s, rest)
    BY <1>1, <1>4, SumLaws
  <2> QED
    BY <1>1, <1>5, <2>1, <2>2, <2>3
<1>7. SumFunctionOnSet(s, rest) \in Int
  BY <1>4, SumLaws
<1>8. Get(s, k) \in Int /\ SumFunction(s) = Get(s, k) + SumFunctionOnSet(s, rest)
  <2>1. CASE k \in D
    <3>1. SumFunctionOnSet(s, D) = s[k] + SumFunctionOnSet(s, rest)
      BY <2>1, SumLaws
    <3> QED
      BY <1>5, <2>1, <3>1 DEF Get, IntOn
  <2>2. CASE k \notin D
    <3>1. rest = D
      BY <2>2
    <3>2. Get(s, k) = 0
      BY <2>2 DEF Get
    <3>3. SumFunctionOnSet(s, rest) = 0 + SumFunctionOnSet(s, rest)
      BY <1>7
    <3> QED
      BY <1>5, <3>1, <3>2, <3>3
  <2> QED
    BY <2>1, <2>2
<1>9. \A a, b, c \in Int : (b + a) - b + c = c + a
  OBVIOUS
<1>10. SumFunction(p) = SumFunction(s) - Get(s, k) + v
  BY <1>6, <1>7, <1>8, <1>9
<1> QED
  BY <1>1, <1>3, <1>5, <1>10

\* A whole word more or less is the same number modulo the word.
LEMMA SameModulo ==
  ASSUME NEW m \in Nat \ {0}, NEW a \in Int
  PROVE  (a - m) % m = a % m
<1> DEFINE q == a \div m
           r == a % m
           p == (a - m) \div m
           t == (a - m) % m
<1>1. a = m * q + r /\ q \in Int /\ r \in 0..m - 1
  OBVIOUS
<1>2. a - m = m * p + t /\ p \in Int /\ t \in 0..m - 1
  <2>1. a - m \in Int
    OBVIOUS
  <2> DEFINE b == a - m
  <2>2. b \in Int
    BY <2>1
  <2> HIDE DEF b
  <2>3. b = m * (b \div m) + (b % m) /\ b \div m \in Int /\ b % m \in 0..m - 1
    BY <2>2
  <2> QED
    BY <2>3 DEF b
<1> HIDE DEF q, r, p, t
<1>3. m * (q - p - 1) = t - r
  BY <1>1, <1>2
<1>4. q - p - 1 = 0
  <2> DEFINE d == q - p - 1
  <2>1. d \in Int /\ m * d = t - r
    BY <1>1, <1>2, <1>3
  <2>2. t - r \in Int /\ t - r < m /\ t - r > -m
    BY <1>1, <1>2
  <2> HIDE DEF d
  <2>3. ~(d >= 1)
    <3> SUFFICES ASSUME d >= 1 PROVE FALSE
      OBVIOUS
    <3>1. m * d >= m
      BY <2>1
    <3> QED
      BY <2>1, <2>2, <3>1
  <2>4. ~(d <= -1)
    <3> SUFFICES ASSUME d <= -1 PROVE FALSE
      OBVIOUS
    <3>1. m * d <= -m
      BY <2>1
    <3> QED
      BY <2>1, <2>2, <3>1
  <2>5. d = 0
    BY <2>1, <2>3, <2>4
  <2> QED
    BY <2>5 DEF d
<1>5. t = r
  <2>1. m * (q - p - 1) = 0
    BY <1>4
  <2> QED
    BY <1>1, <1>2, <1>3, <2>1
<1> QED
  BY <1>5 DEF t, r

\* A wrapping addition loses at most one word.
LEMMA WrapsOnce ==
  ASSUME NEW a \in U64, NEW b \in U64
  PROVE  \/ WrappingAdd(a, b) = a + b
         \/ WrappingAdd(a, b) = a + b - (MaxU64 + 1)
BY InstructionAssumptions DEF WrappingAdd, U64

\* A transfer the host executes neither makes nor destroys value.
LEMMA TransferSum ==
  ASSUME NEW s \in State, IsFiniteSet(DOMAIN s), NEW sender \in Keys,
         NEW data \in Instruction,
         data.op = "Transfer", HostExecute(s, sender, data).success
  PROVE  SumFunction(HostExecute(s, sender, data).state) % (MaxU64 + 1)
           = SumFunction(s) % (MaxU64 + 1)
<1> DEFINE bal == Get(s, sender)
           debited == Put(s, sender, bal - data.val)
           old == Get(debited, data.key)
           new == WrappingAdd(old, data.val)
           m == MaxU64 + 1
<1>1. ~data.empty /\ HostExecute(s, sender, data) = execute_transfer(s, sender, data)
  <2>1. ~HostErr(s).success
    BY DEF HostErr
  <2> QED
    BY <2>1 DEF HostExecute
<1>2. /\ data.full /\ ~(bal < data.val)
      /\ HostExecute(s, sender, data).state = Put(debited, data.key, new)
  BY <1>1 DEF execute_transfer, HostErr, HostOk
<1>3. /\ bal \in U64 /\ data.val \in U64 /\ data.key \in Keys /\ m \in Nat \ {0}
      /\ MaxU64 \in Nat
  BY GetType, InstructionAssumptions DEF Instruction
<1>4. bal - data.val \in U64 /\ bal - data.val \in Int
  BY <1>2, <1>3 DEF U64
<1>5. debited \in State
  BY <1>4, PutType
<1>6. old \in U64 /\ new \in U64
  BY <1>3, <1>5, GetType, AddType
<1>7. s = [x \in DOMAIN s |-> s[x]] /\ IntOn(s, DOMAIN s)
  BY <1>3 DEF State, IntOn, U64
<1>8. /\ IntOn(debited, DOMAIN debited) /\ debited = [x \in DOMAIN debited |-> debited[x]]
      /\ SumFunction(s) \in Int
      /\ SumFunction(debited) = SumFunction(s) - bal + (bal - data.val)
  <2> HIDE DEF bal
  <2>1. Get(s, sender) = bal
    BY DEF bal
  <2> QED
    BY <1>4, <1>7, <2>1, PutSum
<1>9. SumFunction(Put(debited, data.key, new)) = SumFunction(debited) - old + new
  <2>1. new \in Int
    BY <1>3, <1>6 DEF U64
  <2> HIDE DEF debited, new
  <2> QED
    BY <1>8, <2>1, PutSum
<1> DEFINE total == SumFunction(s)
           after == SumFunction(Put(debited, data.key, new))
<1>10. new = old + data.val \/ new = old + data.val - m
  BY <1>3, <1>6, WrapsOnce
<1>11. after = total \/ after = total - m
  <2>1. /\ after = (total - bal + (bal - data.val)) - old + new
        /\ total \in Int /\ bal \in Int /\ data.val \in Int /\ old \in Int /\ m \in Int
    BY <1>3, <1>6, <1>8, <1>9 DEF U64
  <2> HIDE DEF after, total, bal, old, new, m
  <2> QED
    BY <1>10, <2>1
<1>12. after % m = total % m
  <2>1. total \in Int
    BY <1>8
  <2> HIDE DEF after, total, m
  <2> QED
    BY <1>3, <1>11, <2>1, SameModulo
<1> QED
  BY <1>2, <1>12

-----------------------------------------------------------------------------
(***************************************************************************)
(* The inductive invariant.  The executor's part says that the history is  *)
(* the run of the batch and the entries its record; the trace's part that  *)
(* the built trace is what the builder held; the guest's part that the     *)
(* guest is in the state the host was in after as many transactions, that  *)
(* it has charged no less, and strictly more as soon as one of them was    *)
(* reported differently: that difference is what the compute assertion     *)
(* catches whatever the hash functions do.                                 *)
(***************************************************************************)
StateRoots == {StateRoot(s) : s \in State}

Entry == [tx_id : TxIds, pre : StateRoots, post : StateRoots,
          reads : Seq(Keys), writes : Seq(Keys), cu : Nat, success : BOOLEAN]

EntryHashes ==
  {hash_trace_entry(e) :
     e \in [tx_id : TxIds, success : BOOLEAN, cu : Nat, reads : Seq(Keys),
            writes : Seq(Keys)]}

HistoryPoint == [state : State, compute : Nat]

TxAt(i) == Effective(batch[i])
ResultAt(i) == HostExecute(history[i].state, TxAt(i).sender, TxAt(i).ins)

HostInv ==
  /\ mode \in {"full", "deterministic"}
  /\ batch \in Seq(Transaction)
  /\ history \in Seq(HistoryPoint)
  /\ builder = [entries |-> builder.entries,
                pre_state_root |-> StateRoot(InitialState),
                total_compute |-> builder.total_compute,
                success_count |-> builder.success_count,
                failure_count |-> builder.failure_count]
  /\ builder.entries \in Seq(Entry)
  /\ builder.success_count \in Nat /\ builder.failure_count \in Nat
  /\ builder.success_count + builder.failure_count = Len(builder.entries)
  /\ Len(builder.entries) <= Len(batch)
  /\ Len(history) = Len(builder.entries) + 1
  /\ history[1] = [state |-> InitialState, compute |-> 0]
  /\ state = history[Len(history)].state
  /\ builder.total_compute = history[Len(history)].compute
  /\ \A i \in 1..Len(builder.entries) :
        /\ builder.entries[i] = TraceEntry(TxAt(i), history[i].state, ResultAt(i))
        /\ history[i + 1] = [state |-> ResultAt(i).state,
                             compute |-> history[i].compute + ResultAt(i).cu]

TraceInv ==
  phase # "executing" =>
    /\ Len(builder.entries) = Len(batch)
    /\ trace = [entries |-> builder.entries,
                state_root_pre |-> StateRoot(InitialState),
                state_root_post |-> StateRoot(state),
                trace_hash |-> TraceRoot([i \in DOMAIN builder.entries |->
                                              hash_trace_entry(builder.entries[i])]),
                total_compute |-> builder.total_compute,
                success_count |-> builder.success_count,
                failure_count |-> builder.failure_count]

GuestPhases == {"replaying", "proved", "guest_panicked", "verified"}

GuestInv ==
  phase \in GuestPhases =>
    /\ stdin = [state_root_pre |-> trace.state_root_pre,
                state_root_post |-> trace.state_root_post,
                trace_hash |-> trace.trace_hash,
                total_compute |-> trace.total_compute,
                tx_count |-> Len(trace.entries),
                transactions |-> stdin.transactions,
                initial_state |-> InitialState]
    /\ DOMAIN stdin.transactions = 1..Len(batch)
    /\ Len(stdin.transactions) = Len(batch)
    /\ \A i \in 1..Len(batch) : stdin.transactions[i] = TxAt(i)
    /\ guest = [state |-> guest.state, entry_hashes |-> guest.entry_hashes,
                total_compute |-> guest.total_compute]
    /\ guest.entry_hashes \in Seq(EntryHashes)
    /\ Len(guest.entry_hashes) <= Len(batch)
    /\ guest.state = history[Len(guest.entry_hashes) + 1].state
    /\ guest.total_compute \in Nat
    /\ IF Diverges(Len(guest.entry_hashes))
       THEN guest.total_compute > history[Len(guest.entry_hashes) + 1].compute
       ELSE /\ guest.total_compute = history[Len(guest.entry_hashes) + 1].compute
            /\ \A i \in 1..Len(guest.entry_hashes) :
                  guest.entry_hashes[i] = hash_trace_entry(builder.entries[i])

VerdictInv ==
  /\ phase \in {"proved", "verified"} =>
       /\ ~Diverges(Len(batch))
       /\ public.trace_hash = trace.trace_hash
       /\ public.state_root_pre = trace.state_root_pre
       /\ public.state_root_post = trace.state_root_post
       /\ public.total_compute = trace.total_compute
  /\ phase = "guest_panicked" => Diverges(Len(batch))
  /\ phase = "verified" => is_valid = TRUE
  /\ is_valid \in BOOLEAN
  /\ phase \in Phases

Inv == HostInv /\ TraceInv /\ GuestInv /\ VerdictInv

\* The transaction an executor runs is well formed in both modes.
LEMMA EffectiveType ==
  ASSUME mode \in {"full", "deterministic"}, NEW tx \in Transaction
  PROVE  Effective(tx) \in [tx_id : TxIds, sender : Keys, ins : Instruction]
<1>1. CASE mode = "full"
  BY <1>1, BatchAssumptions DEF Effective, Transaction
<1>2. CASE mode # "full"
  <2>1. (CHOOSE k \in AccountKeys \cup DataKeys : TRUE) \in AccountKeys \cup DataKeys
    BY BatchAssumptions
  <2>2. NoopIns \in Instruction
    BY <2>1, InstructionAssumptions DEF NoopIns, Instruction, Opcodes, U64
  <2>3. SenderOf[tx.tx_id] \in Keys /\ tx.tx_id \in TxIds
    BY BatchAssumptions DEF Transaction
  <2> QED
    BY <1>2, <2>2, <2>3 DEF Effective
<1> QED
  BY <1>1, <1>2

\* or_insert(1_000_000) for every sender yields a state.
LEMMA InitialStateType ==
  ASSUME mode \in {"full", "deterministic"}, batch \in Seq(Transaction)
  PROVE  InitialState \in State
<1> DEFINE senders == {Effective(batch[i]).sender : i \in DOMAIN batch}
<1>1. senders \in SUBSET Keys
  BY EffectiveType
<1>2. InitialState = BalancesOf(senders)
  BY DEF InitialState
<1> HIDE DEF senders
<1>3. BalancesOf(senders) \in [senders -> U64]
  BY BatchAssumptions DEF BalancesOf
<1> QED
  BY <1>1, <1>2, <1>3 DEF State

\* The invariant holds before the first transaction.
LEMMA InitInv == Init => Inv
<1> SUFFICES ASSUME Init PROVE Inv
  OBVIOUS
<1>1. batch \in Seq(Transaction)
  <2>1. PICK n \in 0..MaxBatch :
          \E txs \in [1..n -> [sender : Senders, ins : Instrs]] :
            batch = [i \in 1..n |-> [tx_id |-> i, sender |-> txs[i].sender,
                                     ins |-> txs[i].ins]]
    BY DEF Init
  <2>2. \A i \in 1..n : i \in TxIds
    BY <2>1, BatchAssumptions DEF TxIds
  <2>3. n \in Nat
    BY BatchAssumptions
  <2> QED
    BY <2>1, <2>2, <2>3 DEF Transaction
<1>2. InitialState \in State
  BY <1>1, InitialStateType DEF Init
<1>3. history \in Seq(HistoryPoint) /\ Len(history) = 1
  BY <1>2 DEF Init, HistoryPoint
<1>4. HostInv
  BY <1>1, <1>3 DEF Init, HostInv
<1> QED
  BY <1>4 DEF Init, Inv, TraceInv, GuestInv, VerdictInv, GuestPhases, Phases
\* The batch and the executor never change, so neither do the transactions
\* the executor runs nor the state it starts from.
LEMMA SameBatch ==
  ASSUME UNCHANGED <<mode, batch>>
  PROVE  /\ InitialState' = InitialState
         /\ \A i : TxAt(i)' = TxAt(i)
BY DEF InitialState, TxAt, Effective

\* What each position of the run yields is well typed.
LEMMA ResultType ==
  ASSUME HostInv, NEW i \in 1..Len(batch), i <= Len(history)
  PROVE  /\ TxAt(i) \in [tx_id : TxIds, sender : Keys, ins : Instruction]
         /\ history[i] \in HistoryPoint
         /\ ResultAt(i) \in Outcome
<1>1. TxAt(i) \in [tx_id : TxIds, sender : Keys, ins : Instruction]
  BY EffectiveType DEF TxAt, HostInv
<1>2. history[i] \in HistoryPoint
  <2>1. history \in Seq(HistoryPoint) /\ batch \in Seq(Transaction)
    BY DEF HostInv
  <2> QED
    BY <2>1
<1> QED
  BY <1>1, <1>2, HostType DEF ResultAt, HistoryPoint

\* The entry of a position is an entry.
LEMMA EntryType ==
  ASSUME HostInv, NEW i \in 1..Len(batch), i <= Len(history)
  PROVE  TraceEntry(TxAt(i), history[i].state, ResultAt(i)) \in Entry
<1>1. /\ TxAt(i).tx_id \in TxIds
      /\ history[i].state \in State
      /\ ResultAt(i) \in Outcome
  BY ResultType DEF HistoryPoint
<1>2. ResultAt(i).state \in State
  BY <1>1 DEF Outcome
<1>3. /\ StateRoot(history[i].state) \in StateRoots
      /\ StateRoot(ResultAt(i).state) \in StateRoots
  BY <1>1, <1>2 DEF StateRoots
<1> HIDE DEF ResultAt
<1> QED
  BY <1>1, <1>3 DEF TraceEntry, Entry, Outcome

\* One loop iteration of the executor extends history and entries by one.
LEMMA ExecuteTxInv ==
  ASSUME Inv, ExecuteTx PROVE Inv'
<1> DEFINE n == Len(builder.entries) + 1
           entry == TraceEntry(TxAt(n), history[n].state, ResultAt(n))
           point == [state |-> ResultAt(n).state,
                     compute |-> history[n].compute + ResultAt(n).cu]
<1>1. n \in 1..Len(batch) /\ n = Len(history) /\ n \in Nat \ {0}
  BY DEF Inv, HostInv, ExecuteTx
<1>2. /\ TxAt(n) \in [tx_id : TxIds, sender : Keys, ins : Instruction]
      /\ history[n] \in HistoryPoint
      /\ ResultAt(n) \in Outcome
      /\ entry \in Entry
  BY <1>1, ResultType, EntryType DEF Inv
<1>3. state = history[n].state /\ builder.total_compute = history[n].compute
  BY <1>1 DEF Inv, HostInv
<1>4. /\ state' = ResultAt(n).state
      /\ builder' = add_entry(builder, entry)
      /\ history' = Append(history, point)
  BY <1>3 DEF ExecuteTx, TxAt, ResultAt
<1>5. /\ UNCHANGED <<mode, batch, phase, trace, stdin, guest, public, is_valid>>
      /\ phase = "executing"
      /\ InitialState' = InitialState
      /\ \A i : TxAt(i)' = TxAt(i)
  BY SameBatch DEF ExecuteTx
<1>6. point \in HistoryPoint
  BY <1>2 DEF Outcome, HistoryPoint
<1>7. /\ history' \in Seq(HistoryPoint)
      /\ Len(history') = n + 1
      /\ \A i \in 1..n : history'[i] = history[i]
      /\ history'[n + 1] = point
  BY <1>1, <1>4, <1>6 DEF Inv, HostInv
<1>8. /\ builder'.entries = Append(builder.entries, entry)
      /\ builder'.pre_state_root = builder.pre_state_root
      /\ builder'.total_compute = builder.total_compute + entry.cu
      /\ builder'.success_count =
           IF entry.success THEN builder.success_count + 1 ELSE builder.success_count
      /\ builder'.failure_count =
           IF entry.success THEN builder.failure_count ELSE builder.failure_count + 1
      /\ builder' = [entries |-> builder'.entries,
                     pre_state_root |-> builder'.pre_state_root,
                     total_compute |-> builder'.total_compute,
                     success_count |-> builder'.success_count,
                     failure_count |-> builder'.failure_count]
  BY <1>4 DEF add_entry, Inv, HostInv
<1>9. builder.pre_state_root = StateRoot(InitialState)
  BY DEF Inv, HostInv
<1>10. entry.cu = ResultAt(n).cu
  BY DEF TraceEntry
<1> HIDE DEF entry, point
<1>11. /\ builder'.entries \in Seq(Entry)
       /\ Len(builder'.entries) = n
       /\ \A i \in 1..(n - 1) : builder'.entries[i] = builder.entries[i]
       /\ builder'.entries[n] = entry
  BY <1>1, <1>2, <1>8 DEF Inv, HostInv
<1>12. /\ builder'.success_count \in Nat /\ builder'.failure_count \in Nat
       /\ builder'.success_count + builder'.failure_count = Len(builder'.entries)
  BY <1>8, <1>11 DEF Inv, HostInv
<1>13. \A i \in 1..n : ResultAt(i)' = ResultAt(i)
  BY <1>5, <1>7 DEF ResultAt
<1>14. ASSUME NEW i \in 1..n
       PROVE  /\ builder'.entries[i] = TraceEntry(TxAt(i), history[i].state, ResultAt(i))
              /\ history'[i + 1] = [state |-> ResultAt(i).state,
                                    compute |-> history[i].compute + ResultAt(i).cu]
  <2>1. CASE i = n
    BY <2>1, <1>7, <1>11 DEF entry, point
  <2>2. CASE i # n
    <3>1. i \in 1..Len(builder.entries) /\ i + 1 \in 1..n /\ i \in 1..(n - 1)
      BY <1>1, <2>2
    <3> QED
      BY <3>1, <1>7, <1>11 DEF Inv, HostInv
  <2> QED
    BY <2>1, <2>2
<1>15. \A i \in 1..n :
          /\ builder'.entries[i] = TraceEntry(TxAt(i)', history'[i].state, ResultAt(i)')
          /\ history'[i + 1] = [state |-> ResultAt(i)'.state,
                                compute |-> history'[i].compute + ResultAt(i)'.cu]
  BY <1>5, <1>7, <1>13, <1>14
<1>16. HostInv'
  <2>0. history[1] = [state |-> InitialState, compute |-> 0] /\ 1 \in 1..n
    BY <1>1 DEF Inv, HostInv
  <2> HIDE DEF n
  <2>1. /\ history'[1] = [state |-> InitialState', compute |-> 0]
        /\ Len(history') = Len(builder'.entries) + 1
        /\ Len(builder'.entries) <= Len(batch')
    <3>1. history'[1] = history[1]
      BY <2>0, <1>7
    <3> QED
      BY <2>0, <3>1, <1>1, <1>5, <1>7, <1>11
  <2>2. /\ state' = history'[Len(history')].state
        /\ builder'.total_compute = history'[Len(history')].compute
    BY <1>3, <1>4, <1>7, <1>8, <1>10 DEF point
  <2>3. \A i \in 1..Len(builder'.entries) :
          /\ builder'.entries[i] = TraceEntry(TxAt(i), history[i].state, ResultAt(i))'
          /\ history'[i + 1] = [state |-> ResultAt(i)'.state,
                                compute |-> history'[i].compute + ResultAt(i)'.cu]
    BY <1>11, <1>15 DEF TraceEntry
  <2>4. mode' \in {"full", "deterministic"} /\ batch' \in Seq(Transaction)
    BY <1>5 DEF Inv, HostInv
  <2>5. builder' = [entries |-> builder'.entries,
                    pre_state_root |-> StateRoot(InitialState'),
                    total_compute |-> builder'.total_compute,
                    success_count |-> builder'.success_count,
                    failure_count |-> builder'.failure_count]
    BY <1>5, <1>8, <1>9
  <2> QED
    BY <1>7, <1>11, <1>12, <2>1, <2>2, <2>3, <2>4, <2>5 DEF HostInv
<1>17. TraceInv' /\ GuestInv'
  BY <1>5 DEF TraceInv, GuestInv, GuestPhases
<1>18. VerdictInv'
  BY <1>5 DEF Inv, VerdictInv
<1> QED
  BY <1>16, <1>17, <1>18 DEF Inv
\* The executor's part of the invariant only reads the executor's variables.
LEMMA HostUnchanged ==
  ASSUME HostInv, UNCHANGED <<mode, batch, state, builder, history>>
  PROVE  HostInv'
<1>1. InitialState' = InitialState /\ \A i : TxAt(i)' = TxAt(i)
  BY SameBatch
<1>2. \A i : ResultAt(i)' = ResultAt(i)
  BY <1>1 DEF ResultAt
<1>3. \A i : TraceEntry(TxAt(i), history[i].state, ResultAt(i))'
             = TraceEntry(TxAt(i), history[i].state, ResultAt(i))
  BY <1>1, <1>2 DEF TraceEntry
<1> QED
  BY <1>1, <1>2, <1>3 DEF HostInv

\* The built trace is only written by build.
LEMMA TraceUnchanged ==
  ASSUME TraceInv, phase # "executing", UNCHANGED <<mode, batch, state, builder, trace>>
  PROVE  TraceInv'
<1>1. InitialState' = InitialState
  BY SameBatch
<1> QED
  BY <1>1 DEF TraceInv, hash_trace_entry

\* Once the guest has stopped, its part of the invariant stays.
LEMMA GuestUnchanged ==
  ASSUME GuestInv, phase \in GuestPhases,
         UNCHANGED <<mode, batch, builder, history, trace, stdin, guest>>
  PROVE  GuestInv'
<1>1. InitialState' = InitialState /\ \A i : TxAt(i)' = TxAt(i)
  BY SameBatch
<1>2. Diverges(Len(guest.entry_hashes))' <=> Diverges(Len(guest.entry_hashes))
  BY DEF Diverges, Effective, ReportedDifferently, Get
<1>3. \A i : hash_trace_entry(builder.entries[i])' = hash_trace_entry(builder.entries[i])
  BY DEF hash_trace_entry
<1> QED
  BY <1>1, <1>2, <1>3 DEF GuestInv

LEMMA BuildInv ==
  ASSUME Inv, Build PROVE Inv'
<1>1. HostInv'
  BY HostUnchanged DEF Inv, Build
<1>2. InitialState' = InitialState
  BY SameBatch DEF Build
<1>3. builder.pre_state_root = StateRoot(InitialState)
  BY DEF Inv, HostInv
<1>4. TraceInv'
  BY <1>2, <1>3 DEF Build, TraceInv, hash_trace_entry
<1>5. phase' = "built" /\ is_valid' \in BOOLEAN
  BY DEF Build, Inv, VerdictInv
<1> QED
  BY <1>1, <1>4, <1>5 DEF Inv, GuestInv, VerdictInv, GuestPhases, Phases

\* What the prover hands to the guest is what the executor ran, whether the
\* transactions were given or reconstructed from the trace.
LEMMA ProverReplaysBatch ==
  ASSUME Inv, phase = "built", trace.entries # <<>>
  PROVE  /\ DOMAIN ProverTransactions = 1..Len(batch)
         /\ Len(ProverTransactions) = Len(batch)
         /\ \A i \in 1..Len(batch) : ProverTransactions[i] = TxAt(i)
<1>1. /\ batch \in Seq(Transaction) /\ mode \in {"full", "deterministic"}
      /\ builder.entries \in Seq(Entry)
      /\ trace.entries = builder.entries
      /\ Len(builder.entries) = Len(batch)
  BY DEF Inv, HostInv, TraceInv
<1>2. CASE mode = "full"
  <2>1. batch # <<>>
    BY <1>1
  <2>2. ProverTransactions = batch
    BY <1>2, <2>1 DEF ProverTransactions
  <2> QED
    BY <1>1, <1>2, <2>2 DEF TxAt, Effective
<1>3. CASE mode # "full"
  <2>1. ProverTransactions = Reconstruct(trace.entries)
    BY <1>3 DEF ProverTransactions
  <2>2. DOMAIN trace.entries = 1..Len(batch) /\ Len(batch) \in Nat
    BY <1>1
  <2>3. ASSUME NEW i \in 1..Len(batch)
        PROVE  trace.entries[i].tx_id = batch[i].tx_id
    <3>1. trace.entries[i] = TraceEntry(TxAt(i), history[i].state, ResultAt(i))
      BY <1>1 DEF Inv, HostInv
    <3>2. trace.entries[i].tx_id = TxAt(i).tx_id
      BY <3>1 DEF TraceEntry
    <3> QED
      BY <3>2, <1>3 DEF TxAt, Effective
  <2>4. \A i \in 1..Len(batch) : Reconstruct(trace.entries)[i] = TxAt(i)
    BY <1>3, <2>2, <2>3 DEF Reconstruct, TxAt, Effective
  <2>5. /\ DOMAIN Reconstruct(trace.entries) = 1..Len(batch)
        /\ Len(Reconstruct(trace.entries)) = Len(batch)
    BY <2>2 DEF Reconstruct
  <2> QED
    BY <2>1, <2>4, <2>5
<1> QED
  BY <1>2, <1>3

\* Sp1Prover::prove starts the guest where the executor started.
LEMMA ProveInv ==
  ASSUME Inv, Prove PROVE Inv'
<1>1. HostInv' /\ TraceInv'
  BY HostUnchanged, TraceUnchanged DEF Inv, Prove
<1>2. is_valid' \in BOOLEAN
  BY DEF Prove, Inv, VerdictInv
<1>3. CASE trace.entries = <<>>
  <2>1. phase' = "prove_error"
    BY <1>3 DEF Prove
  <2> QED
    BY <1>1, <1>2, <2>1 DEF Inv, GuestInv, VerdictInv, GuestPhases, Phases
<1>4. CASE trace.entries # <<>>
  <2> DEFINE txs == ProverTransactions
             init == BalancesOf({txs[i].sender : i \in DOMAIN txs})
  <2>1. /\ phase' = "replaying"
        /\ stdin' = [state_root_pre |-> trace.state_root_pre,
                     state_root_post |-> trace.state_root_post,
                     trace_hash |-> trace.trace_hash,
                     total_compute |-> trace.total_compute,
                     tx_count |-> Len(trace.entries),
                     transactions |-> txs,
                     initial_state |-> init]
        /\ guest' = [state |-> init, entry_hashes |-> <<>>, total_compute |-> 0]
        /\ UNCHANGED <<mode, batch, state, builder, trace, public, is_valid, history>>
    BY <1>4 DEF Prove
  <2>2. /\ DOMAIN txs = 1..Len(batch)
        /\ Len(txs) = Len(batch)
        /\ \A i \in 1..Len(batch) : txs[i] = TxAt(i)
    BY <1>4, ProverReplaysBatch DEF Prove
  <2>3. init = InitialState
    <3>1. DOMAIN batch = 1..Len(batch)
      BY DEF Inv, HostInv
    <3>2. {txs[i].sender : i \in DOMAIN txs}
            = {Effective(batch[i]).sender : i \in DOMAIN batch}
      BY <3>1, <2>2 DEF TxAt
    <3> QED
      BY <3>2 DEF InitialState
  <2> HIDE DEF txs, init
  <2>4. InitialState' = InitialState /\ \A i : TxAt(i)' = TxAt(i)
    BY <2>1, SameBatch
  <2>5. /\ history'[1].state = InitialState /\ history'[1].compute = 0
        /\ Len(batch) \in Nat
    BY <2>1 DEF Inv, HostInv
  <2>6. ~Diverges(0)'
    BY DEF Diverges
  <2>7. /\ guest'.state = InitialState /\ guest'.entry_hashes = <<>>
        /\ guest'.total_compute = 0 /\ Len(guest'.entry_hashes) = 0
        /\ guest'.entry_hashes \in Seq(EntryHashes)
    BY <2>1, <2>3
  <2>8. /\ stdin' = [state_root_pre |-> trace'.state_root_pre,
                     state_root_post |-> trace'.state_root_post,
                     trace_hash |-> trace'.trace_hash,
                     total_compute |-> trace'.total_compute,
                     tx_count |-> Len(trace'.entries),
                     transactions |-> stdin'.transactions,
                     initial_state |-> InitialState']
        /\ DOMAIN stdin'.transactions = 1..Len(batch')
        /\ Len(stdin'.transactions) = Len(batch')
        /\ \A i \in 1..Len(batch') : stdin'.transactions[i] = TxAt(i)'
    BY <2>1, <2>2, <2>3, <2>4
  <2>9. guest' = [state |-> guest'.state, entry_hashes |-> guest'.entry_hashes,
                  total_compute |-> guest'.total_compute]
    BY <2>1
  <2>10. GuestInv'
    <3>1. /\ Len(guest'.entry_hashes) <= Len(batch')
          /\ guest'.state = history'[Len(guest'.entry_hashes) + 1].state
          /\ guest'.total_compute = history'[Len(guest'.entry_hashes) + 1].compute
          /\ guest'.total_compute \in Nat
      BY <2>1, <2>5, <2>7
    <3>2. ~Diverges(Len(guest.entry_hashes))'
      BY <2>6, <2>7
    <3>3. \A i \in 1..Len(guest'.entry_hashes) :
             guest'.entry_hashes[i] = hash_trace_entry(builder.entries[i])'
      BY <2>7
    <3> QED
      BY <2>7, <2>8, <2>9, <3>1, <3>2, <3>3 DEF GuestInv
  <2> QED
    BY <1>1, <1>2, <2>1, <2>10 DEF Inv, VerdictInv, Phases
<1> QED
  BY <1>3, <1>4
\* The SDK failing ends the attempt and changes nothing else.
LEMMA ProveFailsInv ==
  ASSUME Inv, ProveFails PROVE Inv'
<1>1. HostInv' /\ TraceInv'
  BY HostUnchanged, TraceUnchanged DEF Inv, ProveFails
<1>2. phase' = "prove_error" /\ is_valid' \in BOOLEAN
  BY DEF ProveFails, Inv, VerdictInv
<1> QED
  BY <1>1, <1>2 DEF Inv, GuestInv, VerdictInv, GuestPhases, Phases

\* One loop iteration of the guest moves to the host's next state, and its
\* charge catches up with the host's or falls behind for good.
LEMMA GuestStepInv ==
  ASSUME Inv, GuestStep PROVE Inv'
<1> DEFINE k == Len(guest.entry_hashes)
           n == k + 1
           tx == TxAt(n)
           res == GuestExecute(history[n].state, tx.sender, tx.ins)
           hash == hash_trace_entry([tx_id |-> tx.tx_id, success |-> res.success,
                                     cu |-> res.cu, reads |-> res.reads,
                                     writes |-> res.writes])
           reported == ReportedDifferently(history[n].state, tx.sender, tx.ins)
<1>1. phase = "replaying" /\ phase \in GuestPhases
  BY DEF GuestStep, GuestPhases
<1>2. HostInv' /\ TraceInv'
  BY <1>1, HostUnchanged, TraceUnchanged DEF Inv, GuestStep
<1>3. /\ guest.entry_hashes \in Seq(EntryHashes)
      /\ guest.state = history[n].state
      /\ guest.total_compute \in Nat
      /\ Len(stdin.transactions) = Len(batch)
      /\ \A i \in 1..Len(batch) : stdin.transactions[i] = TxAt(i)
  BY <1>1 DEF Inv, GuestInv
<1>4. /\ batch \in Seq(Transaction) /\ Len(builder.entries) = Len(batch)
      /\ Len(history) = Len(batch) + 1
  BY <1>1 DEF Inv, HostInv, TraceInv
<1>5. k \in Nat /\ n \in 1..Len(batch) /\ n \in 1..Len(history)
      /\ n + 1 \in 1..Len(history) /\ n \in 1..Len(builder.entries) /\ 1..n = 1..k \cup {n}
  BY <1>3, <1>4 DEF GuestStep
<1>6. /\ tx \in [tx_id : TxIds, sender : Keys, ins : Instruction]
      /\ history[n] \in HistoryPoint
      /\ ResultAt(n) \in Outcome
  BY <1>5, ResultType DEF Inv
<1>7. /\ res.state = ResultAt(n).state
      /\ res.cu \in Nat /\ ResultAt(n).cu \in Nat
      /\ reported => res.cu > ResultAt(n).cu
      /\ ~reported => res = ResultAt(n)
  BY <1>6, CopiesAgree DEF ResultAt, HistoryPoint
<1>8. res \in Outcome
  BY <1>6, GuestType DEF HistoryPoint
<1>9. /\ builder.entries[n] = TraceEntry(tx, history[n].state, ResultAt(n))
      /\ history[n + 1] = [state |-> ResultAt(n).state,
                           compute |-> history[n].compute + ResultAt(n).cu]
  BY <1>5 DEF Inv, HostInv
<1>10. /\ guest' = [state |-> res.state,
                    entry_hashes |-> Append(guest.entry_hashes, hash),
                    total_compute |-> guest.total_compute + res.cu]
       /\ UNCHANGED <<mode, batch, phase, state, builder, trace, stdin, public,
                      is_valid, history>>
  BY <1>3, <1>5 DEF GuestStep
<1>11. hash \in EntryHashes
  <2>1. [tx_id |-> tx.tx_id, success |-> res.success, cu |-> res.cu,
         reads |-> res.reads, writes |-> res.writes]
         \in [tx_id : TxIds, success : BOOLEAN, cu : Nat, reads : Seq(Keys),
              writes : Seq(Keys)]
    <3> HIDE DEF tx, res
    <3> QED
      BY <1>6, <1>8 DEF Outcome
  <2> QED
    BY <2>1 DEF EntryHashes
<1>12. ~reported => hash = hash_trace_entry(builder.entries[n])
  BY <1>7, <1>9 DEF hash_trace_entry, TraceEntry
<1>13. Diverges(n) <=> Diverges(k) \/ reported
  BY <1>5 DEF Diverges, TxAt
<1> HIDE DEF tx, res, hash, reported, n
<1>14. /\ guest'.entry_hashes = Append(guest.entry_hashes, hash)
       /\ guest'.state = res.state
       /\ guest'.total_compute = guest.total_compute + res.cu
       /\ guest' = [state |-> guest'.state, entry_hashes |-> guest'.entry_hashes,
                    total_compute |-> guest'.total_compute]
  BY <1>10
<1>15. /\ guest'.entry_hashes \in Seq(EntryHashes)
       /\ Len(guest'.entry_hashes) = n
       /\ \A i \in 1..k : guest'.entry_hashes[i] = guest.entry_hashes[i]
       /\ guest'.entry_hashes[n] = hash
  BY <1>3, <1>11, <1>14 DEF n
<1>16. history[n].compute \in Nat
  BY <1>6 DEF HistoryPoint
<1>17. /\ history[n + 1].compute = history[n].compute + ResultAt(n).cu
       /\ history[n + 1].state = ResultAt(n).state
  BY <1>9
<1>18. /\ Diverges(n) => guest'.total_compute > history[n + 1].compute
       /\ ~Diverges(n) => guest'.total_compute = history[n + 1].compute
  <2>1. /\ Diverges(k) => guest.total_compute > history[n].compute
        /\ ~Diverges(k) => guest.total_compute = history[n].compute
    BY <1>1 DEF Inv, GuestInv, n
  <2>2. res.cu >= ResultAt(n).cu
    BY <1>7
  <2>3. CASE Diverges(k)
    BY <1>3, <1>7, <1>13, <1>14, <1>16, <1>17, <2>1, <2>2, <2>3
  <2>4. CASE ~Diverges(k) /\ reported
    BY <1>3, <1>7, <1>13, <1>14, <1>16, <1>17, <2>1, <2>4
  <2>5. CASE ~Diverges(k) /\ ~reported
    BY <1>3, <1>7, <1>13, <1>14, <1>16, <1>17, <2>1, <2>5
  <2> QED
    BY <2>3, <2>4, <2>5
<1>19. ASSUME ~Diverges(n), NEW i \in 1..n
       PROVE  guest'.entry_hashes[i] = hash_trace_entry(builder.entries[i])
  <2>1. CASE i = n
    BY <1>12, <1>13, <1>15, <1>19, <2>1
  <2>2. CASE i \in 1..k
    <3>1. ~Diverges(k)
      BY <1>13, <1>19
    <3>2. guest.entry_hashes[i] = hash_trace_entry(builder.entries[i])
      BY <1>1, <2>2, <3>1 DEF Inv, GuestInv
    <3> QED
      BY <1>15, <2>2, <3>2
  <2> QED
    BY <1>5, <1>19, <2>1, <2>2
<1>20. InitialState' = InitialState /\ \A i : TxAt(i)' = TxAt(i)
  BY <1>10, SameBatch
<1>21. Diverges(Len(guest.entry_hashes))' <=> Diverges(n)
  BY <1>10, <1>15 DEF Diverges, Effective, ReportedDifferently, Get
<1>22. \A i : hash_trace_entry(builder.entries[i])' = hash_trace_entry(builder.entries[i])
  BY <1>10 DEF hash_trace_entry
<1>23. GuestInv'
  <2>1. /\ stdin' = [state_root_pre |-> trace'.state_root_pre,
                     state_root_post |-> trace'.state_root_post,
                     trace_hash |-> trace'.trace_hash,
                     total_compute |-> trace'.total_compute,
                     tx_count |-> Len(trace'.entries),
                     transactions |-> stdin'.transactions,
                     initial_state |-> InitialState']
        /\ DOMAIN stdin'.transactions = 1..Len(batch')
        /\ Len(stdin'.transactions) = Len(batch')
        /\ \A i \in 1..Len(batch') : stdin'.transactions[i] = TxAt(i)'
    BY <1>1, <1>10, <1>20 DEF Inv, GuestInv
  <2>2. /\ Len(guest'.entry_hashes) <= Len(batch')
        /\ guest'.state = history'[Len(guest'.entry_hashes) + 1].state
        /\ guest'.total_compute \in Nat
    <3>1. Len(guest'.entry_hashes) <= Len(batch')
      BY <1>4, <1>5, <1>10, <1>15
    <3>2. guest'.state = history'[Len(guest'.entry_hashes) + 1].state
      BY <1>7, <1>10, <1>14, <1>15, <1>17
    <3>3. guest'.total_compute \in Nat
      BY <1>3, <1>7, <1>14
    <3> QED
      BY <3>1, <3>2, <3>3
  <2>3. IF Diverges(Len(guest.entry_hashes))'
        THEN guest'.total_compute > history'[Len(guest'.entry_hashes) + 1].compute
        ELSE /\ guest'.total_compute = history'[Len(guest'.entry_hashes) + 1].compute
             /\ \A i \in 1..Len(guest'.entry_hashes) :
                   guest'.entry_hashes[i] = hash_trace_entry(builder.entries[i])'
    BY <1>10, <1>15, <1>18, <1>19, <1>21, <1>22
  <2> QED
    BY <1>14, <1>15, <2>1, <2>2, <2>3 DEF GuestInv
<1>24. VerdictInv'
  BY <1>1, <1>10 DEF Inv, VerdictInv
<1> QED
  BY <1>2, <1>23, <1>24 DEF Inv
\* The assertions at the end of main hold exactly when nothing was reported
\* differently: the compute assertion fails otherwise, and all of them hold
\* when the guest has seen what the host recorded.
LEMMA AssertionsIffAligned ==
  ASSUME Inv, phase = "replaying", Len(guest.entry_hashes) = Len(batch)
  PROVE  GuestAssertions <=> ~Diverges(Len(batch))
<1>1. /\ batch \in Seq(Transaction) /\ Len(builder.entries) = Len(batch)
      /\ builder.entries \in Seq(Entry)
      /\ Len(history) = Len(batch) + 1
      /\ state = history[Len(batch) + 1].state
      /\ builder.total_compute = history[Len(batch) + 1].compute
      /\ history \in Seq(HistoryPoint)
  BY DEF Inv, HostInv, TraceInv
<1>2. /\ stdin.state_root_pre = StateRoot(InitialState)
      /\ stdin.state_root_post = StateRoot(state)
      /\ stdin.trace_hash = TraceRoot([i \in DOMAIN builder.entries |->
                                           hash_trace_entry(builder.entries[i])])
      /\ stdin.total_compute = builder.total_compute
      /\ stdin.tx_count = Len(builder.entries)
      /\ stdin.initial_state = InitialState
      /\ Len(stdin.transactions) = Len(batch)
  <2>1. /\ trace.entries = builder.entries
        /\ trace.state_root_pre = StateRoot(InitialState)
        /\ trace.state_root_post = StateRoot(state)
        /\ trace.trace_hash = TraceRoot([i \in DOMAIN builder.entries |->
                                             hash_trace_entry(builder.entries[i])])
        /\ trace.total_compute = builder.total_compute
    BY DEF Inv, TraceInv
  <2>2. /\ stdin.state_root_pre = trace.state_root_pre
        /\ stdin.state_root_post = trace.state_root_post
        /\ stdin.trace_hash = trace.trace_hash
        /\ stdin.total_compute = trace.total_compute
        /\ stdin.tx_count = Len(trace.entries)
        /\ stdin.initial_state = InitialState
        /\ Len(stdin.transactions) = Len(batch)
    BY DEF Inv, GuestInv, GuestPhases
  <2> QED
    BY <2>1, <2>2
<1>3. guest.state = state
  BY <1>1 DEF Inv, GuestInv, GuestPhases
<1>4. ASSUME Diverges(Len(batch)) PROVE ~GuestAssertions
  <2>1. guest.total_compute > builder.total_compute
    BY <1>1, <1>4 DEF Inv, GuestInv, GuestPhases
  <2>2. guest.total_compute \in Nat
    BY DEF Inv, GuestInv, GuestPhases
  <2>3. history[Len(batch) + 1] \in HistoryPoint
    BY <1>1
  <2>4. builder.total_compute \in Nat
    BY <1>1, <2>3 DEF HistoryPoint
  <2> QED
    BY <1>2, <2>1, <2>2, <2>4 DEF GuestAssertions
<1>5. ASSUME ~Diverges(Len(batch)) PROVE GuestAssertions
  <2>1. /\ guest.total_compute = builder.total_compute
        /\ guest.entry_hashes \in Seq(EntryHashes)
        /\ \A i \in 1..Len(batch) :
              guest.entry_hashes[i] = hash_trace_entry(builder.entries[i])
    BY <1>1, <1>5 DEF Inv, GuestInv, GuestPhases
  <2>2. guest.entry_hashes = [i \in DOMAIN builder.entries |->
                                hash_trace_entry(builder.entries[i])]
    <3>1. DOMAIN guest.entry_hashes = 1..Len(batch) /\ DOMAIN builder.entries = 1..Len(batch)
      BY <1>1, <2>1
    <3>2. guest.entry_hashes = [i \in 1..Len(batch) |-> guest.entry_hashes[i]]
      BY <2>1, <3>1
    <3> QED
      BY <2>1, <3>1, <3>2
  <2> QED
    BY <1>1, <1>2, <1>3, <2>1, <2>2 DEF GuestAssertions
<1> QED
  BY <1>4, <1>5

LEMMA GuestCommitInv ==
  ASSUME Inv, GuestCommit PROVE Inv'
<1>1. phase = "replaying" /\ Len(guest.entry_hashes) = Len(batch)
  BY DEF GuestCommit, Inv, GuestInv, GuestPhases
<1>2. HostInv' /\ TraceInv'
  BY <1>1, HostUnchanged, TraceUnchanged DEF Inv, GuestCommit
<1>3. GuestInv'
  BY <1>1, GuestUnchanged DEF Inv, GuestCommit, GuestPhases
<1>4. Diverges(Len(batch))' <=> Diverges(Len(batch))
  BY DEF GuestCommit, Diverges, Effective, ReportedDifferently, Get
<1>5. is_valid' \in BOOLEAN
  BY DEF GuestCommit, Inv, VerdictInv
<1>6. CASE GuestAssertions
  <2>1. ~Diverges(Len(batch))
    BY <1>1, <1>6, AssertionsIffAligned
  <2>2. /\ stdin.state_root_pre = trace.state_root_pre
        /\ stdin.state_root_post = trace.state_root_post
        /\ stdin.trace_hash = trace.trace_hash
        /\ stdin.total_compute = trace.total_compute
    BY <1>1 DEF Inv, GuestInv, GuestPhases
  <2>3. /\ phase' = "proved" /\ trace' = trace
        /\ public'.state_root_pre = StateRoot(stdin.initial_state)
        /\ public'.state_root_post = StateRoot(guest.state)
        /\ public'.trace_hash = TraceRoot(guest.entry_hashes)
        /\ public'.total_compute = guest.total_compute
    BY <1>6 DEF GuestCommit
  <2>4. VerdictInv'
    BY <1>4, <1>5, <1>6, <2>1, <2>2, <2>3 DEF VerdictInv, GuestAssertions, Phases
  <2> QED
    BY <1>2, <1>3, <2>4 DEF Inv
<1>7. CASE ~GuestAssertions
  <2>1. Diverges(Len(batch)) /\ phase' = "guest_panicked"
    BY <1>1, <1>7, AssertionsIffAligned DEF GuestCommit
  <2>2. VerdictInv'
    BY <1>4, <1>5, <2>1 DEF VerdictInv, Phases
  <2> QED
    BY <1>2, <1>3, <2>2 DEF Inv
<1> QED
  BY <1>6, <1>7

LEMMA VerifyInv ==
  ASSUME Inv, Verify PROVE Inv'
<1>1. phase = "proved" /\ phase' = "verified" /\ public' = public /\ trace' = trace
  BY DEF Verify
<1>2. HostInv' /\ TraceInv' /\ GuestInv'
  BY <1>1, HostUnchanged, TraceUnchanged, GuestUnchanged DEF Inv, Verify, GuestPhases
<1>3. Diverges(Len(batch))' <=> Diverges(Len(batch))
  BY DEF Verify, Diverges, Effective, ReportedDifferently, Get
<1>4. PublicInputsMatch
  BY <1>1 DEF Inv, VerdictInv, PublicInputsMatch
<1>5. is_valid' = TRUE
  BY <1>4 DEF Verify, PublicInputsMatch
<1> QED
  BY <1>1, <1>2, <1>3, <1>5 DEF Inv, VerdictInv, Phases

LEMMA StutterInv ==
  ASSUME Inv, UNCHANGED vars PROVE Inv'
<1>1. HostInv'
  BY HostUnchanged DEF Inv, vars
<1>2. TraceInv'
  <2>1. CASE phase = "executing"
    BY <2>1 DEF vars, TraceInv
  <2>2. CASE phase # "executing"
    BY <2>2, TraceUnchanged DEF Inv, vars
  <2> QED
    BY <2>1, <2>2
<1>3. GuestInv'
  <2>1. CASE phase \in GuestPhases
    BY <2>1, GuestUnchanged DEF Inv, vars
  <2>2. CASE phase \notin GuestPhases
    BY <2>2 DEF vars, GuestInv, GuestPhases
  <2> QED
    BY <2>1, <2>2
<1>4. Diverges(Len(batch))' <=> Diverges(Len(batch))
  BY DEF vars, Diverges, Effective, ReportedDifferently, Get
<1>5. VerdictInv'
  BY <1>4 DEF Inv, VerdictInv, vars
<1> QED
  BY <1>1, <1>2, <1>3, <1>5 DEF Inv

\* The invariant holds in every reachable state.
THEOREM Invariance == Spec => []Inv
<1>1. Init => Inv
  BY InitInv
<1>2. Inv /\ [Next]_vars => Inv'
  <2> SUFFICES ASSUME Inv, [Next]_vars PROVE Inv'
    OBVIOUS
  <2>1. CASE ExecuteTx
    BY <2>1, ExecuteTxInv
  <2>2. CASE Build
    BY <2>2, BuildInv
  <2>3. CASE Prove
    BY <2>3, ProveInv
  <2>4. CASE ProveFails
    BY <2>4, ProveFailsInv
  <2>5. CASE GuestStep
    BY <2>5, GuestStepInv
  <2>6. CASE GuestCommit
    BY <2>6, GuestCommitInv
  <2>7. CASE Verify
    BY <2>7, VerifyInv
  <2>8. CASE UNCHANGED vars
    BY <2>8, StutterInv
  <2> QED
    BY <2>1, <2>2, <2>3, <2>4, <2>5, <2>6, <2>7, <2>8 DEF Next
<1> QED
  BY <1>1, <1>2, PTL DEF Spec

-----------------------------------------------------------------------------
(* The properties of the runs, for every batch.                            *)

\* The state map holds words, and the builder's counters add up to the
\* number of entries.
THEOREM TypeCorrect == Spec => []TypeOK
<1>1. Inv => TypeOK
  <2> SUFFICES ASSUME Inv PROVE TypeOK
    OBVIOUS
  <2>1. history \in Seq(HistoryPoint) /\ Len(history) = Len(builder.entries) + 1
    BY DEF Inv, HostInv
  <2>2. builder.entries \in Seq(Entry) /\ batch \in Seq(Transaction)
    BY DEF Inv, HostInv
  <2>3. history[Len(history)] \in HistoryPoint
    BY <2>1, <2>2
  <2>4. state \in State /\ builder.total_compute \in Nat
    BY <2>3 DEF Inv, HostInv, HistoryPoint
  <2>5. Len(builder.entries) \in 0..Len(batch)
    BY <2>2 DEF Inv, HostInv
  <2> QED
    BY <2>4, <2>5 DEF Inv, HostInv, VerdictInv, TypeOK
<1> QED
  BY <1>1, Invariance, PTL

\* Where an entry's two hashes come from.
LEMMA EntryRoots ==
  ASSUME HostInv, NEW i \in 1..Len(builder.entries)
  PROVE  /\ builder.entries[i].pre = StateRoot(history[i].state)
         /\ builder.entries[i].post = StateRoot(history[i + 1].state)
         /\ builder.entries[i].success = ResultAt(i).success
         /\ history[i + 1].state = ResultAt(i).state
<1>1. /\ builder.entries[i] = TraceEntry(TxAt(i), history[i].state, ResultAt(i))
      /\ history[i + 1] = [state |-> ResultAt(i).state,
                           compute |-> history[i].compute + ResultAt(i).cu]
  BY DEF HostInv
<1> QED
  BY <1>1 DEF TraceEntry

\* The entries of a trace form a chain from the pre-state root to the
\* post-state root, for every batch the executor runs.
THEOREM TraceIsChained == Spec => []TraceChained
<1>1. Inv => TraceChained
  <2> SUFFICES ASSUME Inv PROVE TraceChained
    OBVIOUS
  <2>1. /\ HostInv /\ builder.entries \in Seq(Entry)
        /\ builder.pre_state_root = StateRoot(InitialState)
        /\ history[1].state = InitialState
    BY DEF Inv, HostInv
  <2>2. ASSUME NEW i \in DOMAIN builder.entries
        PROVE  builder.entries[i].pre =
                 IF i = 1 THEN builder.pre_state_root ELSE builder.entries[i - 1].post
    <3>1. i \in 1..Len(builder.entries)
      BY <2>1
    <3>2. CASE i = 1
      BY <2>1, <3>1, <3>2, EntryRoots
    <3>3. CASE i # 1
      <4>1. i - 1 \in 1..Len(builder.entries) /\ (i - 1) + 1 = i
        BY <2>1, <3>1, <3>3
      <4>2. builder.entries[i - 1].post = StateRoot(history[(i - 1) + 1].state)
        BY <2>1, <4>1, EntryRoots
      <4>3. builder.entries[i].pre = StateRoot(history[i].state)
        BY <2>1, <3>1, EntryRoots
      <4> QED
        BY <3>3, <4>1, <4>2, <4>3
    <3> QED
      BY <3>2, <3>3
  <2>3. ASSUME phase # "executing", trace.entries # <<>>
        PROVE  trace.state_root_post = trace.entries[Len(trace.entries)].post
    <3>1. /\ trace.entries = builder.entries
          /\ trace.state_root_post = StateRoot(state)
          /\ state = history[Len(builder.entries) + 1].state
      BY <2>3 DEF Inv, TraceInv, HostInv
    <3>2. Len(builder.entries) \in 1..Len(builder.entries)
      BY <2>1, <2>3, <3>1
    <3> QED
      BY <2>1, <3>1, <3>2, EntryRoots
  <2> QED
    BY <2>2, <2>3 DEF TraceChained
<1> QED
  BY <1>1, Invariance, PTL

\* No failing instruction leaves a trace in the state map.
THEOREM FailuresLeaveState == Spec => []FailedTxLeavesState
<1>1. Inv => FailedTxLeavesState
  <2> SUFFICES ASSUME Inv, NEW i \in DOMAIN builder.entries,
                      ~builder.entries[i].success
               PROVE  builder.entries[i].post = builder.entries[i].pre
    BY DEF FailedTxLeavesState
  <2>1. /\ HostInv /\ builder.entries \in Seq(Entry) /\ batch \in Seq(Transaction)
        /\ Len(builder.entries) <= Len(batch)
        /\ Len(history) = Len(builder.entries) + 1
    BY DEF Inv, HostInv
  <2>2. /\ i \in 1..Len(builder.entries) /\ i \in 1..Len(batch)
        /\ i <= Len(history)
    BY <2>1
  <2>3. ~ResultAt(i).success
    BY <2>1, <2>2, EntryRoots
  <2>4. /\ TxAt(i) \in [tx_id : TxIds, sender : Keys, ins : Instruction]
        /\ history[i] \in HistoryPoint
    BY <2>1, <2>2, ResultType
  <2>5. ResultAt(i).state = history[i].state
    BY <2>3, <2>4, HostFailure DEF ResultAt, HistoryPoint
  <2> QED
    BY <2>1, <2>2, <2>5, EntryRoots
<1> QED
  BY <1>1, Invariance, PTL

\* The two copies of the instruction set go through the same states, for
\* every batch, and whatever the transactions do.
THEOREM CopiesStayTogether == Spec => []GuestTracksHost
<1>1. Inv => GuestTracksHost
  <2> SUFFICES ASSUME Inv, phase \in GuestPhases
               PROVE  /\ guest.state = history[Len(guest.entry_hashes) + 1].state
                      /\ \A i \in DOMAIN guest.entry_hashes :
                            trace.entries[i].post = StateRoot(history[i + 1].state)
    BY DEF GuestTracksHost, GuestPhases
  <2>1. /\ HostInv /\ guest.entry_hashes \in Seq(EntryHashes)
        /\ Len(guest.entry_hashes) <= Len(batch)
        /\ guest.state = history[Len(guest.entry_hashes) + 1].state
    BY DEF Inv, GuestInv
  <2>2. /\ trace.entries = builder.entries /\ Len(builder.entries) = Len(batch)
        /\ batch \in Seq(Transaction)
    BY DEF Inv, HostInv, TraceInv, GuestPhases
  <2>3. \A i \in DOMAIN guest.entry_hashes : i \in 1..Len(builder.entries)
    BY <2>1, <2>2
  <2> QED
    BY <2>1, <2>2, <2>3, EntryRoots
<1> QED
  BY <1>1, Invariance, PTL

\* The guest commits exactly for the batches on which the two copies report
\* alike, whatever the hash functions are: the compute assertion alone
\* catches every other batch.
THEOREM ProvableBatches == Spec => []ProvesIffAligned
<1>1. Inv => ProvesIffAligned
  BY DEF Inv, VerdictInv, ProvesIffAligned
<1> QED
  BY <1>1, Invariance, PTL

\* Sp1Verifier::verify accepts every proof the guest committed for the trace
\* of its batch.
THEOREM HonestProofsVerify == Spec => []HonestProofVerifies
<1>1. Inv => HonestProofVerifies
  BY DEF Inv, VerdictInv, HonestProofVerifies
<1> QED
  BY <1>1, Invariance, PTL

\* Every transaction adds at most two keys to a map.
LEMMA HostFinite ==
  ASSUME NEW s \in State, IsFiniteSet(DOMAIN s), NEW sender \in Keys,
         NEW data \in Instruction
  PROVE  IsFiniteSet(DOMAIN HostExecute(s, sender, data).state)
<1>1. \A p, k, v : DOMAIN Put(p, k, v) = DOMAIN p \cup {k}
  BY DEF Put
<1>2. \A p, k, v : IsFiniteSet(DOMAIN p) => IsFiniteSet(DOMAIN Put(p, k, v))
  <2> TAKE p, k, v
  <2> HAVE IsFiniteSet(DOMAIN p)
  <2>1. IsFiniteSet(DOMAIN p \cup {k})
    BY FS_AddElement
  <2> QED
    BY <1>1, <2>1
<1>3. HostErr(s).state = s /\ \A p, r, w, c : HostOk(p, r, w, c).state = p
  BY DEF HostErr, HostOk
<1>4. \/ HostExecute(s, sender, data) = HostErr(s)
      \/ HostExecute(s, sender, data) = execute_transfer(s, sender, data)
      \/ HostExecute(s, sender, data) = execute_set_data(s, data)
      \/ HostExecute(s, sender, data) = execute_increment(s, data)
      \/ HostExecute(s, sender, data) = HostOk(s, <<>>, <<>>, 1000)
  BY DEF HostExecute, Instruction, Opcodes
<1>5. IsFiniteSet(DOMAIN execute_transfer(s, sender, data).state)
  BY <1>2, <1>3 DEF execute_transfer
<1>6. IsFiniteSet(DOMAIN execute_set_data(s, data).state)
  BY <1>2, <1>3 DEF execute_set_data
<1>7. IsFiniteSet(DOMAIN execute_increment(s, data).state)
  BY <1>2, <1>3 DEF execute_increment
<1> QED
  BY <1>3, <1>4, <1>5, <1>6, <1>7

FiniteState == IsFiniteSet(DOMAIN state)

\* The map the executor starts from has a key for each sender of the batch.
LEMMA InitFinite ==
  ASSUME Inv, state = InitialState PROVE FiniteState
<1> DEFINE f == [i \in DOMAIN batch |-> Effective(batch[i]).sender]
           senders == {Effective(batch[i]).sender : i \in DOMAIN batch}
<1>1. IsFiniteSet(DOMAIN batch)
  <2>1. batch \in Seq(Transaction)
    BY DEF Inv, HostInv
  <2>2. DOMAIN batch = 1..Len(batch) /\ Len(batch) \in Int
    BY <2>1
  <2> QED
    BY <2>2, FS_Interval
<1>2. f \in Surjection(DOMAIN batch, senders)
  BY DEF Surjection
<1>3. IsFiniteSet(senders)
  <2> HIDE DEF f, senders
  <2> QED
    BY <1>1, <1>2, FS_Surjection
<1>4. DOMAIN InitialState = senders
  BY DEF InitialState, BalancesOf
<1> QED
  BY <1>3, <1>4 DEF FiniteState

\* What the next transaction of the executor does to the map.
LEMMA ExecuteTxState ==
  ASSUME Inv, ExecuteTx
  PROVE  LET n == Len(builder.entries) + 1
         IN  /\ Len(builder'.entries) = n
             /\ builder'.entries[n].success
                  = HostExecute(state, TxAt(n).sender, TxAt(n).ins).success
             /\ state' = HostExecute(state, TxAt(n).sender, TxAt(n).ins).state
             /\ TxAt(n).sender \in Keys /\ TxAt(n).ins \in Instruction
             /\ state \in State
<1> DEFINE n == Len(builder.entries) + 1
           tx == TxAt(n)
           res == HostExecute(state, tx.sender, tx.ins)
           entry == TraceEntry(tx, state, res)
<1>1. /\ n \in 1..Len(batch) /\ n = Len(history) /\ HostInv
      /\ builder.entries \in Seq(Entry)
  BY DEF Inv, HostInv, ExecuteTx
<1>2. /\ tx \in [tx_id : TxIds, sender : Keys, ins : Instruction]
      /\ history[n] \in HistoryPoint
  BY <1>1, ResultType
<1>3. state = history[n].state /\ state \in State
  BY <1>1, <1>2 DEF HostInv, HistoryPoint
<1>4. /\ state' = res.state
      /\ builder' = add_entry(builder, entry)
  BY DEF ExecuteTx, TxAt
<1>5. builder = [entries |-> builder.entries,
                 pre_state_root |-> StateRoot(InitialState),
                 total_compute |-> builder.total_compute,
                 success_count |-> builder.success_count,
                 failure_count |-> builder.failure_count]
  BY <1>1 DEF HostInv
<1>6. builder'.entries = Append(builder.entries, entry)
  <2> HIDE DEF entry
  <2> QED
    BY <1>4, <1>5 DEF add_entry
<1>7. Len(builder'.entries) = n /\ builder'.entries[n] = entry
  <2> HIDE DEF entry
  <2> QED
    BY <1>1, <1>6
<1>8. entry.success = res.success
  BY DEF TraceEntry
<1> QED
  BY <1>2, <1>3, <1>4, <1>7, <1>8

\* The map stays finite.
LEMMA FiniteInductive == Inv /\ FiniteState /\ [Next]_vars => FiniteState'
<1> SUFFICES ASSUME Inv, FiniteState, [Next]_vars PROVE FiniteState'
  OBVIOUS
<1>1. CASE ExecuteTx
  BY <1>1, ExecuteTxState, HostFinite DEF FiniteState
<1>2. CASE UNCHANGED state
  BY <1>2 DEF FiniteState
<1> QED
  BY <1>1, <1>2 DEF Next, Build, Prove, ProveFails, GuestStep, GuestCommit, Verify, vars

\* A transfer that succeeds moves value and neither makes nor destroys any,
\* modulo the word: for every state map, self-transfers and credits that wrap
\* included.
THEOREM TransfersConserve == Spec => TransferConserves
<1>1. Init => FiniteState
  <2> SUFFICES ASSUME Init PROVE FiniteState
    OBVIOUS
  <2>1. Inv
    BY InitInv
  <2> QED
    BY <2>1, InitFinite DEF Init
<1>2. Spec => []FiniteState
  BY <1>1, FiniteInductive, Invariance, PTL DEF Spec
<1> DEFINE n == Len(builder'.entries)
           Conserves ==
             (/\ n > Len(builder.entries)
              /\ builder'.entries[n].success
              /\ Effective(batch[n]).ins.op = "Transfer")
             => SumFunction(state') % (MaxU64 + 1) = SumFunction(state) % (MaxU64 + 1)
<1>3. ASSUME Inv, FiniteState, [Next]_vars PROVE Conserves
  <2>1. CASE ExecuteTx
    <3> SUFFICES ASSUME builder'.entries[n].success, Effective(batch[n]).ins.op = "Transfer"
                 PROVE  SumFunction(state') % (MaxU64 + 1)
                          = SumFunction(state) % (MaxU64 + 1)
      OBVIOUS
    <3> DEFINE k == Len(builder.entries) + 1
               tx == TxAt(k)
               res == HostExecute(state, tx.sender, tx.ins)
    <3>1. /\ n = k /\ builder'.entries[k].success = res.success /\ state' = res.state
          /\ tx.sender \in Keys /\ tx.ins \in Instruction /\ state \in State
      BY <1>3, <2>1, ExecuteTxState
    <3>2. tx.ins.op = "Transfer" /\ res.success
      BY <3>1 DEF TxAt
    <3>3. IsFiniteSet(DOMAIN state)
      BY <1>3 DEF FiniteState
    <3> HIDE DEF k, tx
    <3>4. SumFunction(res.state) % (MaxU64 + 1) = SumFunction(state) % (MaxU64 + 1)
      BY <3>1, <3>2, <3>3, TransferSum
    <3> QED
      BY <3>1, <3>4
  <2>2. CASE UNCHANGED builder
    <3>1. n \in Nat /\ n = Len(builder.entries)
      BY <1>3, <2>2 DEF Inv, HostInv
    <3> QED
      BY <3>1
  <2> QED
    BY <1>3, <2>1, <2>2 DEF Next, Build, Prove, ProveFails, GuestStep, GuestCommit, Verify, vars
<1>4. Inv /\ FiniteState /\ [Next]_vars => [Conserves]_vars
  BY <1>3
<1> QED
  BY <1>2, <1>4, Invariance, PTL DEF Spec, TransferConserves
=============================================================================
