--------------------------- MODULE OrderingProofs ---------------------------
(***************************************************************************)
(* What the other proofs take from: induction on sets in place of a         *)
(* predicate, which no prover here instantiates, what the operators of      *)
(* Ordering return, and counting.                                           *)
(***************************************************************************)
EXTENDS Ordering, SequenceTheorems, FiniteSetTheorems, TLAPS

-----------------------------------------------------------------------------
(* Induction, over finite sets and over the numbers up to a bound: on a set, of subsets   *)
(* or of numbers, in place of a predicate.                                                *)

LEMMA SmallestSet ==
  ASSUME NEW S, IsFiniteSet(S), NEW F, F \subseteq SUBSET S, F # {}
  PROVE  \E T \in F : \A U \in F : ~(U \subseteq T /\ U # T)
<1>1. F \subseteq FiniteSubsetsOf(S)
  BY FS_FiniteSubsetsOfFinite
<1>2. \E T \in F : \A U \in F : ~(<<U, T>> \in StrictSubsetOrdering(S))
  BY <1>1, FS_StrictSubsetOrderingWellFounded, WFMin
<1> QED
  BY <1>2 DEF StrictSubsetOrdering

LEMMA SmallestNumber ==
  ASSUME NEW T, T \subseteq Nat, T # {}
  PROVE  \E m \in T : \A n \in T : m <= n
<1>1. PICK k \in T : TRUE
  OBVIOUS
<1>2. PICK F : F = {0..m : m \in {n \in T : n <= k}}
  OBVIOUS
<1>3. PICK K : K = 0..k
  OBVIOUS
<1>4. F \subseteq SUBSET K /\ F # {} /\ IsFiniteSet(K)
  <2>1. IsFiniteSet(K)
    BY <1>1, <1>3, FS_Interval
  <2>2. ASSUME NEW U \in F PROVE U \in SUBSET K
    <3>1. PICK m \in T : m <= k /\ U = 0..m
      BY <1>2
    <3> QED
      BY <1>1, <1>3, <3>1
  <2>3. 0..k \in F
    BY <1>1, <1>2
  <2> QED
    BY <2>1, <2>2, <2>3
<1>5. PICK U \in F : \A V \in F : ~(V \subseteq U /\ V # U)
  BY <1>4, SmallestSet
<1>6. PICK m \in T : m <= k /\ U = 0..m
  BY <1>2, <1>5
<1>7. ASSUME NEW n \in T, n < m PROVE FALSE
  <2>1. 0..n \in F /\ 0..n \subseteq 0..m /\ 0..n # 0..m
    BY <1>1, <1>2, <1>6, <1>7
  <2> QED
    BY <1>5, <1>6, <2>1
<1> QED
  BY <1>6, <1>7

LEMMA UpTo ==
  ASSUME NEW N \in Nat, NEW P, 0 \in P, \A n \in 0..N : n \in P /\ n < N => n + 1 \in P
  PROVE  0..N \subseteq P
<1>1. SUFFICES ASSUME (0..N) \ P # {} PROVE FALSE
  OBVIOUS
<1>2. PICK m \in (0..N) \ P : \A n \in (0..N) \ P : m <= n
  <2>1. (0..N) \ P \subseteq Nat
    OBVIOUS
  <2> QED
    BY <1>1, <2>1, SmallestNumber
<1>3. m - 1 \in 0..N /\ m - 1 < N
  BY <1>2
<1>4. m - 1 \in P
  BY <1>2, <1>3
<1> QED
  BY <1>2, <1>3, <1>4

\* What a step of a loop over the first numbers makes of any accumulator, the loop makes.
IsLoop(f, n, S, init, step) ==
  f \in [0..n -> S] /\ f[0] = init /\ \A m \in 1..n : f[m] = step[m][f[m - 1]]

LEMMA Loops ==
  ASSUME NEW N \in Nat, NEW S, NEW init \in S, NEW step \in [1..N -> [S -> S]]
  PROVE  \E f : IsLoop(f, N, S, init, step)
<1>1. PICK P : P = {n \in 0..N : \E f : IsLoop(f, n, S, init, step)}
  OBVIOUS
<1>2. 0 \in P
  <2>1. PICK f : f = [m \in 0..0 |-> init]
    OBVIOUS
  <2>2. IsLoop(f, 0, S, init, step)
    BY <2>1 DEF IsLoop
  <2> QED
    BY <1>1, <2>2
<1>3. ASSUME NEW n \in 0..N, n \in P, n < N PROVE n + 1 \in P
  <2>1. PICK f : f \in [0..n -> S] /\ f[0] = init /\ \A m \in 1..n : f[m] = step[m][f[m - 1]]
    BY <1>1, <1>3 DEF IsLoop
  <2>2. n \in Nat /\ n + 1 \in 1..N /\ n + 1 \in 0..N
    BY <1>3
  <2>3. PICK g : g = [m \in 0..(n + 1) |-> IF m <= n THEN f[m] ELSE step[n + 1][f[n]]]
    OBVIOUS
  <2>4. f[n] \in S
    BY <2>1, <2>2
  <2>5. step[n + 1][f[n]] \in S
    BY <2>2, <2>4
  <2>6. g \in [0..(n + 1) -> S]
    BY <2>1, <2>2, <2>3, <2>5
  <2>7. \A m \in 0..n : g[m] = f[m]
    BY <2>2, <2>3
  <2>8. ASSUME NEW m \in 1..(n + 1) PROVE g[m] = step[m][g[m - 1]]
    <3>1. CASE m <= n
      <4>1. m \in 1..n /\ m \in 0..n /\ m - 1 \in 0..n
        BY <2>2, <2>8, <3>1
      <4> QED
        BY <2>1, <2>7, <4>1
    <3>2. CASE m = n + 1
      <4>1. m - 1 = n /\ n \in 0..n /\ m \in 0..(n + 1) /\ ~(m <= n)
        BY <2>2, <3>2
      <4> QED
        BY <2>3, <2>7, <3>2, <4>1
    <3> QED
      BY <2>2, <2>8, <3>1, <3>2
  <2>9. 0 \in 0..n /\ g[0] = init
    BY <2>1, <2>2, <2>7
  <2>10. IsLoop(g, n + 1, S, init, step)
    BY <2>6, <2>8, <2>9 DEF IsLoop
  <2> QED
    BY <1>1, <2>2, <2>10
<1>4. 0..N \subseteq P
  BY <1>2, <1>3, UpTo
<1>5. N \in P
  BY <1>4
<1> QED
  BY <1>1, <1>5

-----------------------------------------------------------------------------
(* Ordering. *)

IsOrder(S, before) ==
  /\ \A i \in S : <<i, i>> \notin before
  /\ \A i, j \in S : i = j \/ <<i, j>> \in before \/ <<j, i>> \in before
  /\ \A i, j, k \in S : <<i, j>> \in before /\ <<j, k>> \in before => <<i, k>> \in before

\* In an order every number of predecessors up to the last is that of one member, so that
\* the list has every member once, and those before another at its left.
LEMMA Ordered ==
  ASSUME NEW S, IsFiniteSet(S), NEW before, IsOrder(S, before),
         NEW s, s = InOrder(S, before)
  PROVE  /\ DOMAIN s = 1..Cardinality(S) /\ Cardinality(S) \in Nat
         /\ s \in Seq(S) /\ Len(s) = Cardinality(S)
         /\ \A i \in S : \E n \in DOMAIN s : s[n] = i
         /\ \A m, n \in DOMAIN s : m < n => <<s[m], s[n]>> \in before
         /\ \A m, n \in DOMAIN s : s[m] = s[n] => m = n
<1> DEFINE Left(i) == {j \in S : <<j, i>> \in before}
<1>0. PICK N, rank : N = Cardinality(S) /\ rank = [i \in S |-> Cardinality(Left(i))]
  OBVIOUS
<1>1. N \in Nat
  BY <1>0, FS_CardinalityType
<1>2. ASSUME NEW i \in S
      PROVE  IsFiniteSet(Left(i)) /\ rank[i] \in 0..(N - 1) /\ Left(i) \in SUBSET S
  <2>1. Left(i) \in SUBSET S /\ Left(i) # S
    BY <1>2 DEF IsOrder
  <2>2. IsFiniteSet(Left(i)) /\ Cardinality(Left(i)) <= N /\ Cardinality(Left(i)) # N
    BY <1>0, <2>1, FS_Subset
  <2>3. Cardinality(Left(i)) \in Nat
    BY <2>2, FS_CardinalityType
  <2> QED
    BY <1>0, <1>1, <2>1, <2>2, <2>3
<1>3. ASSUME NEW i \in S, NEW j \in S, <<i, j>> \in before
      PROVE  rank[i] < rank[j]
  <2>1. Left(i) \in SUBSET Left(j) /\ i \in Left(j) /\ i \notin Left(i)
    BY <1>3 DEF IsOrder
  <2>2. Cardinality(Left(i)) <= Cardinality(Left(j)) /\ Cardinality(Left(i)) # Cardinality(Left(j))
    BY <2>1, <1>2, FS_Subset
  <2>3. rank[i] = Cardinality(Left(i)) /\ rank[j] = Cardinality(Left(j))
    BY <1>0
  <2> HIDE DEF Left
  <2> QED
    BY <2>2, <2>3, <1>2
<1>4. ASSUME NEW i \in S, NEW j \in S, rank[i] = rank[j] PROVE i = j
  <2>1. i = j \/ <<i, j>> \in before \/ <<j, i>> \in before
    BY DEF IsOrder
  <2>2. rank[i] \in Nat
    <3>1. rank[i] \in 0..(N - 1)
      BY <1>2
    <3> QED
      BY <1>1, <3>1
  <2> QED
    BY <1>3, <1>4, <2>1, <2>2
<1>5. \A n \in 0..(N - 1) : \E i \in S : rank[i] = n
  <2>1. rank \in [S -> 0..(N - 1)]
    BY <1>0, <1>2
  <2>2. rank \in Injection(S, 0..(N - 1))
    BY <1>4, <2>1 DEF Injection, IsInjective
  <2>3. IsFiniteSet(0..(N - 1)) /\ Cardinality(0..(N - 1)) = N
    BY <1>1, FS_Interval
  <2>4. rank \in Surjection(S, 0..(N - 1))
    BY <1>0, <2>2, <2>3, FS_Injection
  <2> QED
    BY <2>4 DEF Surjection
<1>6. DOMAIN s = 1..N
  BY <1>0 DEF InOrder
<1>7. ASSUME NEW n \in 1..N PROVE s[n] \in S /\ rank[s[n]] = n - 1
  <2>1. s[n] = CHOOSE i \in S : Cardinality(Left(i)) = n - 1
    BY <1>0, <1>7 DEF InOrder
  <2>2. n - 1 \in 0..(N - 1)
    BY <1>1, <1>7
  <2>3. PICK i \in S : rank[i] = n - 1
    BY <1>5, <2>2
  <2>4. s[n] \in S /\ Cardinality(Left(s[n])) = n - 1
    BY <2>1, <2>3, <1>0
  <2> QED
    BY <2>4, <1>0
<1>8. \A i \in S : \E n \in DOMAIN s : s[n] = i
  <2> TAKE i \in S
  <2>0. rank[i] \in 0..(N - 1)
    BY <1>2
  <2>1. rank[i] + 1 \in 1..N /\ (rank[i] + 1) - 1 = rank[i]
    BY <1>1, <2>0
  <2>2. s[rank[i] + 1] \in S /\ rank[s[rank[i] + 1]] = rank[i]
    BY <1>7, <2>1
  <2> QED
    BY <1>4, <1>6, <2>1, <2>2
<1>9. ASSUME NEW m \in 1..N, NEW n \in 1..N, m < n PROVE <<s[m], s[n]>> \in before
  <2>1. s[m] \in S /\ s[n] \in S /\ rank[s[m]] < rank[s[n]]
    BY <1>1, <1>7, <1>9
  <2>2. <<s[n], s[m]>> \notin before /\ s[m] # s[n]
    <3>1. rank[s[m]] \in Nat /\ rank[s[n]] \in Nat
      <4>1. rank[s[m]] \in 0..(N - 1) /\ rank[s[n]] \in 0..(N - 1)
        BY <1>2, <2>1
      <4> QED
        BY <1>1, <4>1
    <3> QED
      BY <1>3, <2>1, <3>1
  <2> QED
    BY <2>1, <2>2 DEF IsOrder
<1>10. ASSUME NEW m \in 1..N, NEW n \in 1..N, s[m] = s[n] PROVE m = n
  <2>1. m - 1 = n - 1
    BY <1>7, <1>10
  <2> QED
    BY <2>1
<1>11. s \in Seq(S) /\ Len(s) = N
  <2>1. s \in [1..N -> S]
    BY <1>0, <1>6, <1>7 DEF InOrder
  <2> QED
    BY <1>1, <1>6, <2>1, SeqDef, LenProperties
<1> QED
  BY <1>0, <1>1, <1>6, <1>8, <1>9, <1>10, <1>11

LEMMA ListedOrders ==
  ASSUME NEW S, S \subseteq Int
  PROVE  IsOrder(S, Listed(S))
BY DEF IsOrder, Listed

LEMMA DescendingOrders ==
  ASSUME NEW S, S \subseteq Int, NEW key, \A i \in S : key[i] \in Int
  PROVE  IsOrder(S, Descending(S, key))
BY DEF IsOrder, Descending

LEMMA AscendingOrders ==
  ASSUME NEW S, S \subseteq Int, NEW key, \A i \in S : key[i] \in Int
  PROVE  IsOrder(S, Ascending(S, key))
BY DEF IsOrder, Ascending

LEMMA Arranges ==
  ASSUME NEW S, NEW T, NEW list, \A i \in S : list[i] \in T, NEW order \in Seq(S)
  PROVE  /\ Arranged(list, order) \in Seq(T) /\ Len(Arranged(list, order)) = Len(order)
         /\ DOMAIN Arranged(list, order) = DOMAIN order /\ DOMAIN order = 1..Len(order)
         /\ \A n \in DOMAIN order : order[n] \in S /\ Arranged(list, order)[n] = list[order[n]]
<1>1. Len(order) \in Nat /\ DOMAIN order = 1..Len(order) /\ \A n \in DOMAIN order : order[n] \in S
  BY LenProperties, ElementOfSeq
<1>2. PICK s : s = Arranged(list, order)
  OBVIOUS
<1>3. DOMAIN s = 1..Len(order) /\ \A n \in 1..Len(order) : s[n] = list[order[n]]
  BY <1>1, <1>2 DEF Arranged
<1>4. s \in [1..Len(order) -> T]
  BY <1>1, <1>2, <1>3 DEF Arranged
<1>5. s \in Seq(T)
  BY <1>1, <1>4, SeqDef
<1>6. Len(s) = Len(order)
  BY <1>1, <1>3, <1>5, LenProperties
<1> QED
  BY <1>1, <1>2, <1>3, <1>5, <1>6

LEMMA Positions ==
  ASSUME NEW T, NEW list \in Seq(T), NEW S, S \subseteq DOMAIN list
  PROVE  S \subseteq Int /\ IsFiniteSet(S) /\ \A i \in S : list[i] \in T
<1>1. Len(list) \in Nat /\ DOMAIN list = 1..Len(list) /\ \A i \in 1..Len(list) : list[i] \in T
  BY LenProperties, ElementOfSeq
<1>2. IsFiniteSet(1..Len(list))
  BY <1>1, FS_Interval
<1> QED
  BY <1>1, <1>2, FS_Subset

\* What is selected keeps its order; every selected position is there, once.
LEMMA Selects ==
  ASSUME NEW T, NEW list \in Seq(T), NEW S, S \subseteq DOMAIN list
  PROVE  \E order \in Seq(S) :
           /\ Selected(list, S) = Arranged(list, order)
           /\ Selected(list, S) \in Seq(T) /\ Len(order) = Cardinality(S)
           /\ Len(Selected(list, S)) = Cardinality(S)
           /\ DOMAIN Selected(list, S) = DOMAIN order
           /\ \A n \in DOMAIN order : order[n] \in S /\ Selected(list, S)[n] = list[order[n]]
           /\ \A i \in S : \E n \in DOMAIN order : order[n] = i
           /\ \A m, n \in DOMAIN order : m < n => order[m] < order[n]
<1>1. PICK order : order = InOrder(S, Listed(S))
  OBVIOUS
<1>2. S \subseteq Int /\ IsFiniteSet(S) /\ \A i \in S : list[i] \in T
  BY Positions
<1>3. PICK before : before = Listed(S)
  OBVIOUS
<1>4. IsOrder(S, before)
  BY <1>2, <1>3, ListedOrders
<1>5. /\ order \in Seq(S) /\ Len(order) = Cardinality(S)
      /\ \A i \in S : \E n \in DOMAIN order : order[n] = i
      /\ \A m, n \in DOMAIN order : m < n => <<order[m], order[n]>> \in before
  BY <1>1, <1>2, <1>3, <1>4, Ordered
<1>6. \A m, n \in DOMAIN order : m < n => order[m] < order[n]
  BY <1>3, <1>5 DEF Listed
<1>7. Selected(list, S) = Arranged(list, order)
  BY <1>1 DEF Selected
<1>8. /\ Arranged(list, order) \in Seq(T) /\ Len(Arranged(list, order)) = Len(order)
      /\ DOMAIN Arranged(list, order) = DOMAIN order
      /\ \A n \in DOMAIN order : order[n] \in S /\ Arranged(list, order)[n] = list[order[n]]
  <2>1. order \in Seq(S)
    BY <1>5
  <2>2. \A i \in S : list[i] \in T
    BY <1>2
  <2> QED
    BY <2>1, <2>2, Arranges
<1> QED
  BY <1>5, <1>6, <1>7, <1>8

-----------------------------------------------------------------------------
(* Counting. *)

LEMMA CountUnion ==
  ASSUME NEW A, NEW B, IsFiniteSet(A), IsFiniteSet(B), A \cap B = {}
  PROVE  IsFiniteSet(A \cup B) /\ Cardinality(A \cup B) = Cardinality(A) + Cardinality(B)
<1>1. Cardinality(A \cap B) = 0
  BY FS_EmptySet
<1> QED
  BY <1>1, FS_Union, FS_CardinalityType

LEMMA SameCount ==
  ASSUME NEW A, NEW B, IsFiniteSet(A), NEW f \in [A -> B],
         \A b \in B : \E a \in A : f[a] = b, \A x, y \in A : f[x] = f[y] => x = y
  PROVE  IsFiniteSet(B) /\ Cardinality(B) = Cardinality(A)
<1>1. f \in Bijection(A, B)
  BY DEF Bijection, Injection, Surjection, IsInjective
<1>2. ExistsBijection(A, B)
  BY <1>1 DEF ExistsBijection
<1> QED
  BY <1>2, FS_Bijection

\* The parts of a finite set add up to it.
LEMMA PartsAddUp ==
  ASSUME NEW T, IsFiniteSet(T), NEW D, IsFiniteSet(D), NEW g \in [T -> D],
         NEW f, f = [d \in D |-> Cardinality({i \in T : g[i] = d})]
  PROVE  SumFunction(f) = Cardinality(T)
<1> DEFINE In(s) == {i \in T : g[i] \in s}
           Sums(iter) == iter = [s \in SUBSET D |->
                           IF s = {} THEN 0 ELSE f[CHOOSE x \in s : TRUE] + iter[s \ {CHOOSE x \in s : TRUE}]]
<1>1. PICK W : W = [s \in SUBSET D |-> Cardinality(In(s))]
  OBVIOUS
<1>2. \A s : IsFiniteSet(In(s)) /\ Cardinality(In(s)) \in Nat
  BY FS_Subset, FS_CardinalityType
<1>3. ASSUME NEW s \in SUBSET D, s # {}
      PROVE  W[s] = f[CHOOSE x \in s : TRUE] + W[s \ {CHOOSE x \in s : TRUE}]
  <2>1. PICK c : c = CHOOSE x \in s : TRUE
    OBVIOUS
  <2>2. c \in s /\ c \in D
    BY <1>3, <2>1
  <2>3. In(s) = In({c}) \cup In(s \ {c}) /\ In({c}) \cap In(s \ {c}) = {}
    BY <2>2
  <2>4. W[s] = Cardinality(In({c})) + Cardinality(In(s \ {c}))
    <3> HIDE DEF In
    <3>1. W[s] = Cardinality(In(s))
      BY <1>1
    <3> QED
      BY <1>2, <2>3, <3>1, CountUnion
  <2>5. f[c] = Cardinality(In({c}))
    <3>1. {i \in T : g[i] = c} = In({c})
      OBVIOUS
    <3> QED
      BY <2>2, <3>1
  <2>6. W[s \ {c}] = Cardinality(In(s \ {c}))
    BY <1>1
  <2> QED
    BY <2>1, <2>4, <2>5, <2>6
<1>4. W[{}] = 0
  <2>1. In({}) = {}
    OBVIOUS
  <2> QED
    BY <1>1, <2>1, FS_EmptySet
<1>5. Sums(W)
  BY <1>1, <1>3, <1>4
<1>6. PICK iter : iter = (CHOOSE it : Sums(it))
  OBVIOUS
<1>7. Sums(iter)
  BY <1>5, <1>6
<1>8. \A s \in SUBSET D : iter[s] = W[s]
  <2>1. PICK F : F = {s \in SUBSET D : iter[s] # W[s]}
    OBVIOUS
  <2>2. SUFFICES ASSUME F # {} PROVE FALSE
    BY <2>1
  <2>3. PICK s \in F : \A u \in F : ~(u \subseteq s /\ u # s)
    BY <2>1, <2>2, SmallestSet
  <2>4. s # {}
    BY <1>4, <1>7, <2>1, <2>3
  <2>5. PICK c : c = CHOOSE x \in s : TRUE
    OBVIOUS
  <2>6. c \in s /\ s \in SUBSET D
    BY <2>1, <2>3, <2>4, <2>5
  <2>7. iter[s \ {c}] = W[s \ {c}]
    BY <2>1, <2>3, <2>6
  <2>8. iter[s] = f[c] + iter[s \ {c}] /\ W[s] = f[c] + W[s \ {c}]
    <3>1. iter[s] = f[CHOOSE x \in s : TRUE] + iter[s \ {CHOOSE x \in s : TRUE}]
      BY <1>7, <2>4, <2>6
    <3>2. W[s] = f[CHOOSE x \in s : TRUE] + W[s \ {CHOOSE x \in s : TRUE}]
      BY <1>3, <2>4, <2>6
    <3> QED
      BY <2>5, <3>1, <3>2
  <2> QED
    BY <2>1, <2>3, <2>7, <2>8
<1>9. DOMAIN f = D
  OBVIOUS
<1>10. SumFunction(f) = iter[D]
  BY <1>6, <1>9 DEF SumFunction, SumFunctionOnSet, FoldFunctionOnSet, MapThenFoldSet
<1>11. In(D) = T
  OBVIOUS
<1> QED
  BY <1>1, <1>8, <1>10, <1>11

Matching(list, kind) == {n \in DOMAIN list : list[n] \in kind}

\* What is selected has every item of the selected positions once.
LEMMA SelectedCounts ==
  ASSUME NEW T, NEW list \in Seq(T), NEW S, S \subseteq DOMAIN list, NEW kind
  PROVE  Cardinality(Matching(Selected(list, S), kind)) = Cardinality(S \cap Matching(list, kind))
<1>1. PICK line : line = Selected(list, S)
  OBVIOUS
<1>2. PICK order \in Seq(S) :
        /\ DOMAIN line = DOMAIN order
        /\ \A n \in DOMAIN order : order[n] \in S /\ line[n] = list[order[n]]
        /\ \A i \in S : \E n \in DOMAIN order : order[n] = i
        /\ \A m, n \in DOMAIN order : m < n => order[m] < order[n]
  BY <1>1, Selects
<1>3. Len(order) \in Nat /\ DOMAIN order = 1..Len(order)
  BY <1>2, LenProperties
<1>4. PICK shown, there : shown = Matching(line, kind) /\ there = S \cap Matching(list, kind)
  OBVIOUS
<1>5. shown \subseteq DOMAIN order /\ \A n \in DOMAIN order : n \in shown <=> order[n] \in there
  BY <1>2, <1>4 DEF Matching
<1>6. PICK f : f = [n \in shown |-> order[n]]
  OBVIOUS
<1>7. f \in [shown -> there]
  BY <1>5, <1>6
<1>8. \A i \in there : \E n \in shown : f[n] = i
  BY <1>2, <1>4, <1>5, <1>6
<1>9. ASSUME NEW m \in shown, NEW n \in shown, f[m] = f[n] PROVE m = n
  <2>1. m \in Int /\ n \in Int /\ order[m] \in Int /\ order[n] \in Int
    BY <1>2, <1>3, <1>5, Positions
  <2>2. order[m] = order[n]
    BY <1>6, <1>9
  <2> QED
    BY <1>2, <1>5, <2>1, <2>2
<1>10. IsFiniteSet(shown)
  <2>1. IsFiniteSet(DOMAIN order)
    BY <1>3, FS_Interval
  <2> QED
    BY <1>5, <2>1, FS_Subset
<1>11. Cardinality(there) = Cardinality(shown)
  BY <1>7, <1>8, <1>9, <1>10, SameCount
<1> QED
  BY <1>1, <1>4, <1>11
=============================================================================
