--------------------------- MODULE MetricsProofs ----------------------------
(***************************************************************************)
(* Proofs about Metrics, for every set of applications, every number of     *)
(* deployments, every range and every bar.  MetricsInv, the inductive       *)
(* invariant, is short: stored deployments, newest first.  The theorems are *)
(* what the figures and charts make of any such list.                       *)
(***************************************************************************)
EXTENDS Metrics, OrderingProofs

MetricsSpec == MetricsInit /\ [][MetricsNext]_history

\* The list the figures are drawn from: stored deployments, newest first.
MetricsInv ==
  /\ history \in Seq(Record)
  /\ \A i, j \in DOMAIN history : i < j => At(i) >= At(j)

LEMMA Instants == \A t \in Instant : t \in Nat /\ t <= NOW
<1> TAKE t \in Instant
<1>1. t \in 0..NOW
  BY TimeAssumption
<1> QED
  BY <1>1, TimeAssumption

LEMMA RecordTimes == \A r \in Record : r.deployedAt \in Instant /\ r.deployedAt \in Nat /\ r.app \in Charted
<1> TAKE r \in Record
<1>1. r.deployedAt \in Instant /\ r.app \in Charted
  BY DEF Record
<1> QED
  BY <1>1, Instants

LEMMA Stored ==
  ASSUME MetricsInv
  PROVE  /\ Len(history) \in Nat /\ All = 1..Len(history) /\ IsFiniteSet(All)
         /\ \A i \in All : /\ history[i] \in Record /\ At(i) \in Instant /\ At(i) \in Nat /\ At(i) <= NOW
                           /\ history[i].app \in Charted
         /\ \A i, j \in All : i < j => At(i) >= At(j)
<1>1. history \in Seq(Record) /\ \A i, j \in DOMAIN history : i < j => At(i) >= At(j)
  BY DEF MetricsInv
<1>2. /\ Len(history) \in Nat /\ All = 1..Len(history)
      /\ \A i \in All : history[i] \in Record
  BY <1>1, LenProperties, ElementOfSeq DEF All
<1>3. IsFiniteSet(All)
  BY <1>2, FS_Interval
<1>4. ASSUME NEW i \in All
      PROVE  /\ At(i) \in Instant /\ At(i) \in Nat /\ At(i) <= NOW
             /\ history[i].app \in Charted
  BY <1>2, RecordTimes, Instants DEF At
<1> QED
  BY <1>1, <1>2, <1>3, <1>4 DEF All

LEMMA MetricsSteps == MetricsInv /\ [MetricsNext]_history => MetricsInv'
<1> SUFFICES ASSUME MetricsInv, MetricsNext PROVE MetricsInv'
  BY DEF MetricsInv, At
<1>1. PICK r \in Record, i \in 1..(Len(history) + 1) :
        /\ \A j \in DOMAIN history :
             IF j < i THEN history[j].deployedAt >= r.deployedAt
             ELSE history[j].deployedAt <= r.deployedAt
        /\ history' = SubSeq(history, 1, i - 1) \o <<r>> \o SubSeq(history, i, Len(history))
  BY DEF MetricsNext
<1>2. PICK N : N = Len(history)
  OBVIOUS
<1>3. N \in Nat /\ DOMAIN history = 1..N /\ history \in Seq(Record) /\ \A j \in 1..N : history[j] \in Record
  BY <1>2, Stored DEF MetricsInv, All
<1>4. PICK a, b, c : a = SubSeq(history, 1, i - 1) /\ b = <<r>> /\ c = SubSeq(history, i, N)
  OBVIOUS
<1>5. /\ a \in Seq(Record) /\ Len(a) = i - 1 /\ \A j \in 1..(i - 1) : a[j] = history[j]
  <2>1. i - 1 \in Int /\ \A j \in 1..(i - 1) : history[j] \in Record
    BY <1>1, <1>2, <1>3
  <2>2. /\ a \in Seq(Record) /\ Len(a) = IF 1 <= i - 1 THEN (i - 1) - 1 + 1 ELSE 0
        /\ \A j \in 1..((i - 1) - 1 + 1) : a[j] = history[1 + j - 1]
    BY <1>4, <2>1, SubSeqProperties
  <2> QED
    BY <1>1, <1>2, <1>3, <2>2
<1>6. /\ c \in Seq(Record) /\ Len(c) = N - i + 1 /\ \A j \in 1..(N - i + 1) : c[j] = history[i + j - 1]
  <2>1. i \in Int /\ N \in Int /\ \A j \in i..N : history[j] \in Record
    BY <1>1, <1>2, <1>3
  <2>2. /\ c \in Seq(Record) /\ Len(c) = IF i <= N THEN N - i + 1 ELSE 0
        /\ \A j \in 1..(N - i + 1) : c[j] = history[i + j - 1]
    BY <1>4, <2>1, SubSeqProperties
  <2> QED
    BY <1>1, <1>2, <1>3, <2>2
<1>7. b \in Seq(Record) /\ Len(b) = 1 /\ b[1] = r
  BY <1>1, <1>4
<1>8. PICK ab : ab = a \o b
  OBVIOUS
<1>9. ab \in Seq(Record) /\ Len(ab) = i /\ \A j \in 1..i : ab[j] = IF j < i THEN history[j] ELSE r
  <2>1. /\ ab \in Seq(Record) /\ Len(ab) = Len(a) + Len(b)
        /\ \A j \in 1..(Len(a) + Len(b)) : ab[j] = IF j <= Len(a) THEN a[j] ELSE b[j - Len(a)]
    BY <1>5, <1>7, <1>8, ConcatProperties
  <2> QED
    BY <1>1, <1>5, <1>7, <2>1
<1>10. /\ history' \in Seq(Record) /\ Len(history') = N + 1
       /\ \A j \in 1..(N + 1) : history'[j] = IF j < i THEN history[j] ELSE IF j = i THEN r ELSE history[j - 1]
  <2>1. history' = ab \o c /\ i \in Nat
    BY <1>1, <1>2, <1>4, <1>8
  <2>2. /\ history' \in Seq(Record) /\ Len(history') = Len(ab) + Len(c)
        /\ \A j \in 1..(Len(ab) + Len(c)) : history'[j] = IF j <= Len(ab) THEN ab[j] ELSE c[j - Len(ab)]
    BY <1>6, <1>9, <2>1, ConcatProperties
  <2>3. Len(ab) = i /\ Len(c) = N - i + 1 /\ Len(ab) + Len(c) = N + 1
    BY <1>1, <1>2, <1>3, <1>6, <1>9
  <2>4. ASSUME NEW j \in 1..(N + 1), j < i PROVE history'[j] = history[j]
    <3>1. j \in 1..i /\ j <= Len(ab) /\ j \in 1..(Len(ab) + Len(c))
      BY <1>1, <1>2, <1>3, <2>3, <2>4
    <3>2. history'[j] = ab[j]
      BY <2>2, <3>1
    <3> QED
      BY <1>9, <2>4, <3>1, <3>2
  <2>5. history'[i] = r
    <3>1. i \in 1..(N + 1) /\ i \in 1..i /\ i <= Len(ab)
      BY <1>1, <1>2, <1>3, <2>3
    <3>2. history'[i] = ab[i]
      BY <2>2, <2>3, <3>1
    <3>3. ab[i] = r
      BY <1>9, <3>1
    <3> QED
      BY <3>2, <3>3
  <2>6. ASSUME NEW j \in 1..(N + 1), j > i PROVE history'[j] = history[j - 1]
    <3>1. j - i \in 1..(N - i + 1) /\ ~(j <= Len(ab)) /\ i + (j - i) - 1 = j - 1
      BY <1>1, <1>2, <1>3, <2>3, <2>6
    <3>2. history'[j] = c[j - i]
      BY <2>2, <2>3, <3>1
    <3> QED
      BY <1>6, <3>1, <3>2
  <2>7. history' \in Seq(Record) /\ Len(history') = N + 1
    BY <2>2, <2>3
  <2>8. \A j \in 1..(N + 1) : j < i \/ j = i \/ j > i
    BY <1>1, <1>2, <1>3
  <2>9. \A j \in 1..(N + 1) : history'[j] = IF j < i THEN history[j] ELSE IF j = i THEN r ELSE history[j - 1]
    BY <1>1, <1>2, <1>3, <2>4, <2>5, <2>6, <2>8
  <2> QED
    BY <2>7, <2>9
<1>11. DOMAIN history' = 1..(N + 1)
  BY <1>10, LenProperties
<1>12. ASSUME NEW j \in 1..(N + 1), NEW k \in 1..(N + 1), j < k
       PROVE  history'[j].deployedAt >= history'[k].deployedAt
  <2>1. \A x \in Record : x.deployedAt \in Int
    BY RecordTimes
  <2>2. \A x, y \in 1..N : x < y => history[x].deployedAt >= history[y].deployedAt
    BY <1>3 DEF MetricsInv, At
  <2>3. /\ \A x \in 1..N : x < i => history[x].deployedAt >= r.deployedAt
        /\ \A x \in 1..N : x >= i => history[x].deployedAt <= r.deployedAt
    BY <1>1, <1>3
  <2>4. i \in 1..(N + 1)
    BY <1>1, <1>2
  <2>5. CASE j < i /\ k < i
    BY <1>3, <1>10, <1>12, <2>2, <2>4, <2>5
  <2>6. CASE j < i /\ k = i
    BY <1>3, <1>10, <1>12, <2>3, <2>4, <2>6
  <2>7. CASE j = i /\ k > i
    <3>1. k - 1 \in 1..N /\ k - 1 >= i
      BY <1>3, <1>12, <2>4, <2>7
    <3>2. history[k - 1].deployedAt <= r.deployedAt /\ history[k - 1].deployedAt \in Int /\ r.deployedAt \in Int
      BY <1>1, <1>3, <2>1, <2>3, <3>1
    <3> QED
      BY <1>3, <1>10, <1>12, <2>7, <3>1, <3>2
  <2>8. CASE j > i
    <3>1. k - 1 \in 1..N /\ j - 1 \in 1..N /\ j - 1 < k - 1
      BY <1>3, <1>12, <2>4, <2>8
    <3> QED
      BY <1>3, <1>10, <1>12, <2>2, <2>4, <2>8, <3>1
  <2>9. CASE j < i /\ k > i
    <3>1. k - 1 \in 1..N /\ j \in 1..N
      BY <1>3, <1>12, <2>4, <2>9
    <3>2. k - 1 >= i /\ j < i
      BY <1>3, <1>12, <2>4, <2>9
    <3>3. j < k - 1
      BY <1>12, <2>4, <3>2
    <3> QED
      BY <1>3, <1>10, <1>12, <2>2, <2>4, <2>9, <3>1, <3>3
  <2> QED
    BY <1>12, <2>4, <2>5, <2>6, <2>7, <2>8, <2>9
<1> QED
  BY <1>10, <1>11, <1>12 DEF MetricsInv, At

LEMMA MetricsInvHolds == MetricsSpec => []MetricsInv
<1>1. MetricsInit => MetricsInv
  BY EmptySeq, LenProperties DEF MetricsInit, MetricsInv
<1> QED
  BY <1>1, MetricsSteps, PTL DEF MetricsSpec

-----------------------------------------------------------------------------
(* Days and weeks. *)

LEMMA Divides ==
  ASSUME NEW d \in Nat \ {0}, NEW t \in Nat
  PROVE  t \div d \in Nat /\ \E r \in 0..(d - 1) : t = d * (t \div d) + r
<1>1. t \div d \in Int /\ t % d \in 0..(d - 1) /\ t = d * (t \div d) + (t % d)
  OBVIOUS
<1>2. t \div d >= 0
  OBVIOUS
<1> QED
  BY <1>1, <1>2

LEMMA NextMultiple ==
  ASSUME NEW d \in Nat \ {0}, NEW p \in Nat, NEW q \in Nat, p + 1 <= q
  PROVE  d * p + d <= d * q
OBVIOUS

LEMMA DaysInOrder ==
  ASSUME NEW t \in Nat, NEW u \in Nat
  PROVE  /\ DayOf(t) \in Nat
         /\ t <= u => DayOf(t) <= DayOf(u)
         /\ u <= t + RANGE * DAY => DayOf(u) <= DayOf(t) + RANGE
<1>1. DAY \in Nat \ {0} /\ RANGE \in Nat \ {0}
  BY RangeAssumption
<1>2. PICK p : p = DayOf(t)
  OBVIOUS
<1>3. PICK q : q = DayOf(u)
  OBVIOUS
<1>4. p \in Nat /\ \E r \in 0..(DAY - 1) : t = DAY * p + r
  BY <1>1, <1>2, Divides DEF DayOf
<1>5. q \in Nat /\ \E r \in 0..(DAY - 1) : u = DAY * q + r
  BY <1>1, <1>3, Divides DEF DayOf
<1>6. DAY * p \in Nat /\ DAY * q \in Nat /\ RANGE * DAY \in Nat
  BY <1>1, <1>4, <1>5
<1>7. PICK a, b, c : a = DAY * p /\ b = DAY * q /\ c = RANGE * DAY
  OBVIOUS
<1>10. a \in Nat /\ b \in Nat /\ c \in Nat /\ a <= t /\ t < a + DAY /\ b <= u /\ u < b + DAY
  BY <1>1, <1>4, <1>5, <1>6, <1>7
<1>8. ASSUME t <= u PROVE p <= q
  <2>1. SUFFICES ASSUME q + 1 <= p PROVE FALSE
    BY <1>4, <1>5
  <2>2. b + DAY <= a
    BY <1>1, <1>4, <1>5, <1>7, <2>1, NextMultiple
  <2> QED
    BY <1>1, <1>8, <1>10, <2>2
<1>9. ASSUME u <= t + RANGE * DAY PROVE q <= p + RANGE
  <2>1. SUFFICES ASSUME p + RANGE + 1 <= q PROVE FALSE
    BY <1>1, <1>4, <1>5
  <2>2. DAY * (p + RANGE) + DAY <= b
    BY <1>1, <1>4, <1>5, <1>7, <2>1, NextMultiple
  <2>3. DAY * (p + RANGE) = a + c
    BY <1>1, <1>4, <1>7
  <2>4. u <= t + c
    BY <1>7, <1>9
  <2> QED
    BY <1>1, <1>10, <2>2, <2>3, <2>4
<1> QED
  BY <1>2, <1>3, <1>4, <1>8, <1>9

\* Each day of a span of days is in one week, the last that begins no later.
WeekOf(w, d, weeks) ==
  w \in weeks /\ \A v \in weeks : v = w <=> v <= d /\ \A x \in weeks : x <= v \/ x > d

LEMMA OneWeek ==
  ASSUME NEW first \in Nat, NEW last \in Nat, NEW d \in first..last,
         NEW weeks, weeks \subseteq first..last, first \in weeks
  PROVE  \E w \in weeks : WeekOf(w, d, weeks)
<1>2. PICK E : E = {n \in 0..(d - first) : d - n \in weeks}
  OBVIOUS
<1>3. E \subseteq Nat /\ E # {}
  <2>1. d - first \in 0..(d - first) /\ d - (d - first) = first
    OBVIOUS
  <2>2. d - first \in E
    BY <1>2, <2>1
  <2>3. \A n \in 0..(d - first) : n \in Nat
    OBVIOUS
  <2> QED
    BY <1>2, <2>2, <2>3
<1>4. PICK n \in E : \A m \in E : n <= m
  BY <1>3, SmallestNumber
<1>5. PICK w : w = d - n
  OBVIOUS
<1>6. w \in weeks /\ w \in Int /\ w <= d
  BY <1>2, <1>3, <1>4, <1>5
<1>7. ASSUME NEW x \in weeks, x <= d PROVE x <= w
  <2>1. x \in first..last /\ d - x \in 0..(d - first) /\ d - (d - x) = x
    BY <1>7
  <2>2. d - x \in E
    BY <1>2, <1>7, <2>1
  <2>3. n <= d - x /\ n \in Nat
    BY <1>3, <1>4, <2>2
  <2> QED
    BY <1>5, <2>1, <2>3
<1>8. \A x \in weeks : x \in Int
  OBVIOUS
<1>9. ASSUME NEW v \in weeks PROVE v = w <=> v <= d /\ \A x \in weeks : x <= v \/ x > d
  <2>1. v \in Int /\ (v <= d => v <= w)
    BY <1>7, <1>8, <1>9
  <2>2. ASSUME v <= d, \A x \in weeks : x <= v \/ x > d PROVE v = w
    BY <1>6, <2>1, <2>2
  <2>3. ASSUME v = w, NEW x \in weeks PROVE x <= v \/ x > d
    BY <1>6, <1>7, <1>8, <2>3
  <2> QED
    BY <1>6, <2>2, <2>3
<1>10. WeekOf(w, d, weeks)
  BY <1>6, <1>9 DEF WeekOf
<1> QED
  BY <1>6, <1>10

-----------------------------------------------------------------------------
(* The trend. *)

LEMMA SomeFinite ==
  ASSUME MetricsInv, NEW some, some \subseteq All
  PROVE  IsFiniteSet(some) /\ Cardinality(some) \in Nat
BY Stored, FS_Subset, FS_CardinalityType

\* The bars of a series over days or weeks: what falls in one of them is counted once.
LEMMA BarsAddUp ==
  ASSUME MetricsInv, NEW some, some \subseteq All, NEW D, IsFiniteSet(D), NEW g \in [some -> D],
         NEW f, DOMAIN f = D, f = [d \in D |-> f[d]],
         \A d \in D : f[d] = Cardinality({i \in some : g[i] = d})
  PROVE  Total(f) = Cardinality(some)
<1>1. IsFiniteSet(some)
  BY SomeFinite
<1>2. f = [d \in D |-> Cardinality({i \in some : g[i] = d})]
  OBVIOUS
<1>3. SumFunction(f) = Cardinality(some)
  BY <1>1, <1>2, PartsAddUp
<1> QED
  BY <1>3 DEF Total

LEMMA DailyAddsUp ==
  ASSUME MetricsInv, NEW some, some \subseteq All, NEW first \in Int, NEW last \in Int,
         \A i \in some : DayOf(At(i)) \in first..last
  PROVE  Total(fillDaily(some, first, last)) = Cardinality(some)
<1>1. PICK g : g = [i \in some |-> DayOf(At(i))]
  OBVIOUS
<1>2. PICK D : D = first..last
  OBVIOUS
<1>3. PICK f : f = fillDaily(some, first, last)
  OBVIOUS
<1>4. g \in [some -> D] /\ IsFiniteSet(D)
  BY <1>1, <1>2, FS_Interval
<1>5. DOMAIN f = D /\ f = [d \in D |-> f[d]]
  BY <1>2, <1>3 DEF fillDaily
<1>6. ASSUME NEW d \in D PROVE f[d] = Cardinality({i \in some : g[i] = d})
  <2>1. {i \in some : g[i] = d} = {i \in some : DayOf(At(i)) = d}
    BY <1>1
  <2> QED
    BY <1>2, <1>3, <2>1 DEF fillDaily
<1> QED
  BY <1>3, <1>4, <1>5, <1>6, BarsAddUp

LEMMA WeeklyAddsUp ==
  ASSUME MetricsInv, NEW some, some \subseteq All, NEW first \in Nat, NEW last \in Nat,
         \A i \in some : DayOf(At(i)) \in first..last
  PROVE  Total(fillWeekly(some, first, last)) = Cardinality(some)
<1>1. PICK weeks : weeks = {w \in first..last : (w - first) % WEEK = 0}
  OBVIOUS
<1>2. ASSUME NEW i \in some
      PROVE  \E w \in weeks : WeekOf(w, DayOf(At(i)), weeks)
  <2>1. PICK d \in first..last : d = DayOf(At(i))
    BY <1>2
  <2>2. \E w \in weeks : WeekOf(w, d, weeks)
    <3>1. weeks \subseteq first..last
      BY <1>1
    <3>2. first \in weeks
      <4>1. WEEK \in Nat \ {0} /\ 0 % WEEK = 0
        BY RangeAssumption
      <4>2. first \in first..last
        BY <2>1
      <4> QED
        BY <1>1, <4>1, <4>2
    <3> QED
      BY <2>1, <3>1, <3>2, OneWeek
  <2> QED
    BY <2>1, <2>2
<1>3. PICK g : g = [i \in some |-> CHOOSE w \in weeks : WeekOf(w, DayOf(At(i)), weeks)]
  OBVIOUS
<1>4. ASSUME NEW i \in some
      PROVE  /\ g[i] \in weeks
             /\ \A v \in weeks :
                  v = g[i] <=> v <= DayOf(At(i)) /\ \A x \in weeks : x <= v \/ x > DayOf(At(i))
  <2>1. WeekOf(g[i], DayOf(At(i)), weeks)
    BY <1>2, <1>3
  <2> QED
    BY <2>1 DEF WeekOf
<1>5. PICK f : f = fillWeekly(some, first, last)
  OBVIOUS
<1>6. /\ DOMAIN f = weeks /\ f = [w \in weeks |-> f[w]]
      /\ \A w \in weeks : f[w] = Cardinality({i \in some : /\ w <= DayOf(At(i))
                                                           /\ \A v \in weeks : v <= w \/ v > DayOf(At(i))})
  BY <1>1, <1>5 DEF fillWeekly
<1>7. g \in [some -> weeks]
  BY <1>3, <1>4
<1>8. IsFiniteSet(weeks)
  <2>1. IsFiniteSet(first..last) /\ weeks \in SUBSET (first..last)
    BY <1>1, FS_Interval
  <2> QED
    BY <2>1, FS_Subset
<1>9. ASSUME NEW w \in weeks PROVE f[w] = Cardinality({i \in some : g[i] = w})
  <2>1. {i \in some : g[i] = w} =
          {i \in some : w <= DayOf(At(i)) /\ \A v \in weeks : v <= w \/ v > DayOf(At(i))}
    BY <1>4, <1>9
  <2> QED
    BY <1>6, <2>1
<1> QED
  BY <1>5, <1>6, <1>7, <1>8, <1>9, BarsAddUp

\* Every deployment of the list is in one bar of the series of all time.
LEMMA AllTimeAddsUp ==
  ASSUME MetricsInv, NEW some, some \subseteq All
  PROVE  Total(buildOutcomeSeries("all", some)) = Cardinality(some)
<1>1. CASE All = {}
  <2>1. PICK f : f = buildOutcomeSeries("all", some)
    OBVIOUS
  <2>2. f = <<>> /\ some = {}
    BY <1>1, <2>1 DEF buildOutcomeSeries
  <2>3. f \in [1..0 -> {}]
    BY <2>2
  <2>4. PICK D : D = 1..0
    OBVIOUS
  <2>5. D = {} /\ IsFiniteSet(D) /\ DOMAIN f = D /\ f = [d \in D |-> f[d]] /\ f \in [some -> D]
    BY <2>2, <2>3, <2>4, FS_EmptySet
  <2> QED
    BY <2>1, <2>5, BarsAddUp
<1>2. CASE All # {}
  <2>1. PICK first, last : first = DayOf(At(Len(history))) /\ last = DayOf(At(1))
    OBVIOUS
  <2>2. Len(history) \in All /\ 1 \in All
    BY <1>2, Stored
  <2>3. first \in Nat /\ last \in Nat
    BY <2>1, <2>2, Stored, DaysInOrder
  <2>4. ASSUME NEW i \in some PROVE DayOf(At(i)) \in first..last
    <3>1. i \in All /\ At(i) \in Nat /\ At(1) \in Nat /\ At(Len(history)) \in Nat
      BY <2>2, Stored
    <3>2. At(Len(history)) <= At(i) /\ At(i) <= At(1)
      <4>1. i = 1 \/ 1 < i
        BY <3>1, Stored
      <4>2. i = Len(history) \/ i < Len(history)
        BY <3>1, Stored
      <4> QED
        BY <2>2, <3>1, <4>1, <4>2, Stored
    <3>3. first <= DayOf(At(i)) /\ DayOf(At(i)) <= last /\ DayOf(At(i)) \in Nat
      BY <2>1, <3>1, <3>2, DaysInOrder
    <3> QED
      BY <2>3, <3>3
  <2>5. buildOutcomeSeries("all", some) =
          IF last - first + 1 <= SPAN THEN fillDaily(some, first, last) ELSE fillWeekly(some, first, last)
    BY <1>2, <2>1 DEF buildOutcomeSeries
  <2> QED
    BY <2>3, <2>4, <2>5, DailyAddsUp, WeeklyAddsUp
<1> QED
  BY <1>1, <1>2

\* Of the deployments of the last RANGE times 24 hours, those of the first day are cut off.
LEMMA RangeAddsUp ==
  ASSUME MetricsInv, NEW some, some \subseteq inWindow("range"),
         NEW cut, cut = {i \in some : DayOf(At(i)) + RANGE = DayOf(NOW)}
  PROVE  Total(buildOutcomeSeries("range", some)) + Cardinality(cut) = Cardinality(some)
<1>1. PICK today : today = DayOf(NOW)
  OBVIOUS
<1>2. PICK first : first = IF today < RANGE THEN 0 ELSE today - RANGE + 1
  OBVIOUS
<1>3. buildOutcomeSeries("range", some) = fillDaily(some, first, today)
  BY <1>1, <1>2 DEF buildOutcomeSeries
<1>4. RANGE \in Nat \ {0} /\ today \in Nat /\ NOW \in Nat
  BY <1>1, RangeAssumption, TimeAssumption, DaysInOrder
<1>5. first \in Int
  BY <1>2, <1>4
<1>6. some \subseteq All /\ \A i \in some : At(i) + RANGE * DAY >= NOW
  BY DEF inWindow
<1>7. ASSUME NEW i \in some
      PROVE  DayOf(At(i)) \in Nat /\ DayOf(At(i)) <= today /\ today <= DayOf(At(i)) + RANGE
  <2>1. At(i) \in Nat /\ At(i) <= NOW /\ NOW <= At(i) + RANGE * DAY
    <3>1. i \in All /\ At(i) + RANGE * DAY >= NOW
      BY <1>6
    <3>2. RANGE * DAY \in Nat
      BY RangeAssumption
    <3> QED
      BY <1>4, <3>1, <3>2, Stored
  <2> QED
    BY <1>1, <1>4, <2>1, DaysInOrder
<1>8. PICK shown : shown = some \ cut
  OBVIOUS
<1>9. \A i \in some : DayOf(At(i)) \in first..today <=> i \in shown
  BY <1>1, <1>2, <1>4, <1>7, <1>8
<1>10. fillDaily(some, first, today) = fillDaily(shown, first, today)
  <2>1. ASSUME NEW d \in first..today
        PROVE  {i \in some : DayOf(At(i)) = d} = {i \in shown : DayOf(At(i)) = d}
    BY <1>8, <1>9, <2>1
  <2> QED
    BY <2>1 DEF fillDaily
<1>11. Total(fillDaily(shown, first, today)) = Cardinality(shown)
  BY <1>4, <1>5, <1>6, <1>8, <1>9, DailyAddsUp
<1>12. cut \subseteq some /\ shown \cap cut = {} /\ some = shown \cup cut
  BY <1>8
<1>13. Cardinality(some) = Cardinality(shown) + Cardinality(cut)
  BY <1>6, <1>12, SomeFinite, CountUnion
<1> QED
  BY <1>3, <1>10, <1>11, <1>13, SomeFinite, <1>6, <1>12

LEMMA DirectionAddsUp ==
  ASSUME MetricsInv, NEW range, NEW d \in failureDirection(range)
  PROVE  d.earlier + d.later = WindowCounts(range).failed
<1>1. PICK earlier : /\ earlier \subseteq inWindow(range)
                     /\ d.earlier = Cardinality(earlier \cap FailedOnPage)
                     /\ d.later = Cardinality((inWindow(range) \ earlier) \cap FailedOnPage)
  <2> DEFINE times == {At(i) : i \in inWindow(range)}
             start == CHOOSE t \in times : \A u \in times : t <= u
             end == CHOOSE t \in times : \A u \in times : t >= u
  <2>1. PICK earlier : earlier = {i \in inWindow(range) : 2 * At(i) < start + end}
    OBVIOUS
  <2>2. d = [earlier |-> Cardinality(earlier \cap FailedOnPage),
             later |-> Cardinality((inWindow(range) \ earlier) \cap FailedOnPage)]
    BY <2>1 DEF failureDirection
  <2> QED
    BY <2>1, <2>2
<1>2. PICK A, B : A = earlier \cap FailedOnPage /\ B = (inWindow(range) \ earlier) \cap FailedOnPage
  OBVIOUS
<1>3. A \subseteq All /\ B \subseteq All /\ A \cap B = {} /\ A \cup B = inWindow(range) \cap FailedOnPage
  BY <1>1, <1>2 DEF FailedOnPage
<1>4. Cardinality(A \cup B) = Cardinality(A) + Cardinality(B)
  BY <1>3, SomeFinite, CountUnion
<1> QED
  BY <1>1, <1>2, <1>3, <1>4 DEF WindowCounts

LEMMA Trend == MetricsInv => TrendMatches
<1> SUFFICES ASSUME MetricsInv PROVE TrendMatches
  OBVIOUS
<1>1. inWindow("all") = All
  BY DEF inWindow
<1>2. SucceededOnPage \subseteq All /\ FailedOnPage \subseteq All
  BY DEF SucceededOnPage, FailedOnPage
<1>3. ASSUME NEW some, some \subseteq All
      PROVE  Total(buildOutcomeSeries("all", inWindow("all") \cap some)) = Cardinality(inWindow("all") \cap some)
  <2>1. inWindow("all") \cap some = some
    BY <1>1, <1>3
  <2> QED
    BY <1>3, <2>1, AllTimeAddsUp
<1>4. Total(buildOutcomeSeries("range", inWindow("range") \cap FailedOnPage))
        + Cardinality({i \in inWindow("range") : DayOf(At(i)) + RANGE = DayOf(NOW)} \cap FailedOnPage)
        = Cardinality(inWindow("range") \cap FailedOnPage)
  <2>1. PICK some : some = inWindow("range") \cap FailedOnPage
    OBVIOUS
  <2>2. PICK cut : cut = {i \in some : DayOf(At(i)) + RANGE = DayOf(NOW)}
    OBVIOUS
  <2>3. {i \in inWindow("range") : DayOf(At(i)) + RANGE = DayOf(NOW)} \cap FailedOnPage = cut
    BY <2>1, <2>2
  <2>4. some \subseteq inWindow("range")
    BY <2>1
  <2> QED
    BY <2>1, <2>2, <2>3, <2>4, RangeAddsUp
<1>5. \A range \in {"all", "range"} : \A d \in failureDirection(range) :
        d.earlier + d.later = WindowCounts(range).failed
  BY DirectionAddsUp
<1>6. \A range : /\ WindowCounts(range).succeeded = Cardinality(inWindow(range) \cap SucceededOnPage)
                 /\ WindowCounts(range).failed = Cardinality(inWindow(range) \cap FailedOnPage)
  BY DEF WindowCounts
<1> QED
  BY <1>2, <1>3, <1>4, <1>5, <1>6 DEF TrendMatches

\* Whatever deployments are stored, the trend, the counts and the direction of the page
\* of deployment intelligence count the same ones (lib/intelligence.ts).
THEOREM TrendMatchesHolds == MetricsSpec => []TrendMatches
BY MetricsInvHolds, Trend, PTL

-----------------------------------------------------------------------------
(* The panels: the outcomes, and the newest deployment. *)

LEMMA SameOutcome == \A r : classifyOnPage(r) = classifyDeployment(r)
BY DEF classifyOnPage, classifyDeployment

LEMMA SameRows ==
  /\ FailedOnPage = Failed /\ SucceededOnPage = Succeeded
  /\ Failed \subseteq All /\ Succeeded \subseteq All /\ Failed \cap Succeeded = {}
BY SameOutcome DEF FailedOnPage, Failed, SucceededOnPage, Succeeded

LEMMA OfCharted ==
  ASSUME MetricsInv, NEW a
  PROVE  Of(a) \subseteq All /\ Of(a) \subseteq Nat /\ IsFiniteSet(Of(a))
<1>1. Of(a) \subseteq All
  BY DEF Of
<1>2. Of(a) \subseteq Nat
  BY <1>1, Stored
<1> QED
  BY <1>1, <1>2, SomeFinite

\* The newest is the first of the list.
LEMMA NewestIsFirst ==
  ASSUME MetricsInv, NEW a, Of(a) # {}
  PROVE  /\ Newest(a) \in Of(a) /\ Newest(a) \in Nat \ {0}
         /\ \A j \in Of(a) : Newest(a) <= j /\ At(j) <= At(Newest(a))
<1>1. PICK m \in Of(a) : \A j \in Of(a) : m <= j
  BY OfCharted, SmallestNumber
<1>2. /\ \A j \in Of(a) : j \in Nat \ {0} /\ At(j) \in Nat
      /\ \A i, j \in Of(a) : i < j => At(i) >= At(j)
  BY OfCharted, Stored
<1>3. \A j \in Of(a) : At(j) < At(m) \/ (At(j) = At(m) /\ m <= j)
  <2> TAKE j \in Of(a)
  <2>1. j = m \/ m < j
    BY <1>1, <1>2
  <2> QED
    BY <1>1, <1>2, <2>1
<1>4. PICK k : k = Newest(a)
  OBVIOUS
<1>5. k \in Of(a) /\ \A j \in Of(a) : At(j) < At(k) \/ (At(j) = At(k) /\ k <= j)
  BY <1>1, <1>3, <1>4 DEF Newest
<1>6. k = m
  BY <1>1, <1>2, <1>3, <1>5
<1> QED
  BY <1>1, <1>2, <1>3, <1>4, <1>6

LEMMA NewerIsNewest ==
  ASSUME MetricsInv, NEW a
  PROVE  newerOnPage(a) = IF Of(a) = {} THEN 0 ELSE Newest(a)
<1> DEFINE Reads(it) == it = [n \in 0..Len(history) |->
              IF n = 0 THEN 0
              ELSE IF history[n].app = a /\ (it[n - 1] = 0 \/ At(n) > At(it[n - 1])) THEN n
              ELSE it[n - 1]]
<1>1. PICK N : N = Len(history)
  OBVIOUS
<1>2. N \in Nat /\ All = 1..N /\ \A n \in 1..N : At(n) \in Nat
  BY <1>1, Stored
<1>3. PICK W : W = [n \in 0..N |-> IF \A i \in Of(a) : i > n THEN 0 ELSE Newest(a)]
  OBVIOUS
<1>4. \A i : i \in Of(a) <=> i \in 1..N /\ history[i].app = a
  BY <1>2 DEF Of
<1>5. ASSUME NEW n \in 1..N
      PROVE  W[n] = IF history[n].app = a /\ (W[n - 1] = 0 \/ At(n) > At(W[n - 1])) THEN n ELSE W[n - 1]
  <2>1. n - 1 \in 0..N /\ n \in 0..N /\ n \in Nat /\ n # 0
    BY <1>2
  <2>2. CASE \A i \in Of(a) : i > n - 1
    <3>1. W[n - 1] = 0
      BY <1>3, <2>1, <2>2
    <3>2. CASE n \in Of(a)
      <4>1. Newest(a) \in Of(a) /\ Newest(a) <= n /\ Newest(a) \in Nat
        BY <3>2, NewestIsFirst
      <4>2. Newest(a) = n
        BY <2>1, <2>2, <4>1
      <4>3. W[n] = n
        BY <1>3, <2>1, <3>2, <4>2
      <4> QED
        BY <1>4, <3>1, <3>2, <4>3
    <3>3. CASE n \notin Of(a)
      <4>1. \A i \in Of(a) : i > n
        BY <1>2, <1>4, <2>1, <2>2, <3>3
      <4>2. W[n] = 0
        BY <1>3, <2>1, <4>1
      <4> QED
        BY <1>4, <3>1, <3>3, <4>2
    <3> QED
      BY <3>2, <3>3
  <2>3. CASE ~(\A i \in Of(a) : i > n - 1)
    <3>1. Of(a) # {} /\ W[n - 1] = Newest(a)
      BY <1>3, <2>1, <2>3
    <3>2. ~(\A i \in Of(a) : i > n)
      BY <1>2, <1>4, <2>1, <2>3
    <3>3. W[n] = Newest(a)
      BY <1>3, <2>1, <3>2
    <3>4. Newest(a) # 0 /\ Newest(a) \in 1..N /\ \A j \in Of(a) : At(j) <= At(Newest(a))
      BY <1>4, <3>1, NewestIsFirst
    <3>5. ~(history[n].app = a /\ At(n) > At(Newest(a)))
      BY <1>2, <1>4, <3>4
    <3> QED
      BY <3>1, <3>3, <3>4, <3>5
  <2> QED
    BY <2>2, <2>3
<1>6. W[0] = 0
  <2>1. 0 \in 0..N /\ \A i \in Of(a) : i > 0
    BY <1>2, <1>4
  <2> QED
    BY <1>3, <2>1
<1>7. Reads(W)
  <2>1. ASSUME NEW n \in 0..N
        PROVE  W[n] = IF n = 0 THEN 0
                      ELSE IF history[n].app = a /\ (W[n - 1] = 0 \/ At(n) > At(W[n - 1])) THEN n
                      ELSE W[n - 1]
    BY <1>2, <1>5, <1>6
  <2>2. DOMAIN W = 0..N /\ W = [n \in 0..N |-> W[n]]
    BY <1>3
  <2> QED
    BY <1>1, <2>1, <2>2
<1>8. PICK it : it = (CHOOSE f : Reads(f))
  OBVIOUS
<1>9. Reads(it)
  BY <1>7, <1>8
<1>10. newerOnPage(a) = it[N]
  BY <1>1, <1>8 DEF newerOnPage
<1>11. 0..N \subseteq {n \in 0..N : it[n] = W[n]}
  <2>1. PICK P : P = {n \in 0..N : it[n] = W[n]}
    OBVIOUS
  <2>2. 0 \in P
    BY <1>1, <1>2, <1>6, <1>9, <2>1
  <2>3. ASSUME NEW n \in 0..N, n \in P, n < N PROVE n + 1 \in P
    <3>1. n + 1 \in 1..N /\ (n + 1) - 1 = n /\ n + 1 \in 0..N /\ n + 1 # 0
      BY <1>2, <2>3
    <3>2. it[n + 1] = IF history[n + 1].app = a /\ (it[n] = 0 \/ At(n + 1) > At(it[n])) THEN n + 1 ELSE it[n]
      BY <1>1, <1>9, <3>1
    <3>3. W[n + 1] = IF history[n + 1].app = a /\ (W[n] = 0 \/ At(n + 1) > At(W[n])) THEN n + 1 ELSE W[n]
      BY <1>5, <3>1
    <3>4. it[n] = W[n]
      BY <2>1, <2>3
    <3> QED
      BY <2>1, <3>1, <3>2, <3>3, <3>4
  <2> QED
    BY <1>2, <2>1, <2>2, <2>3, UpTo
<1>12. it[N] = W[N] /\ N \in 0..N
  BY <1>2, <1>11
<1>13. (\A i \in Of(a) : i > N) <=> Of(a) = {}
  BY <1>2, <1>4
<1> QED
  BY <1>3, <1>10, <1>12, <1>13

LEMMA SameNewest ==
  ASSUME MetricsInv
  PROVE  latestByApp = latestDeploymentMap
<1>1. \A a \in Seen : newerOnPage(a) = Newest(a)
  BY NewerIsNewest DEF Seen
<1> QED
  BY <1>1 DEF latestByApp, latestDeploymentMap

-----------------------------------------------------------------------------
(* The counts of applications add up to those of the list. *)

LEMMA ByApplication ==
  ASSUME MetricsInv, NEW some, some \subseteq All, NEW apps, apps \subseteq Charted,
         \A i \in some : history[i].app \in apps,
         NEW f, DOMAIN f = apps, f = [a \in apps |-> f[a]],
         \A a \in apps : f[a] = Cardinality(Of(a) \cap some)
  PROVE  Total(f) = Cardinality(some)
<1>1. PICK g : g = [i \in some |-> history[i].app]
  OBVIOUS
<1>2. g \in [some -> apps]
  BY <1>1
<1>3. IsFiniteSet(apps)
  BY ChartedAssumption, FS_Subset
<1>4. ASSUME NEW a \in apps PROVE f[a] = Cardinality({i \in some : g[i] = a})
  <2>1. {i \in some : g[i] = a} = Of(a) \cap some
    BY <1>1 DEF Of
  <2> QED
    BY <2>1
<1> QED
  BY <1>2, <1>3, <1>4, BarsAddUp

LEMMA FiguresAddUp ==
  ASSUME MetricsInv
  PROVE  /\ metrics.failed = Total([a \in Charted |-> getStats(a).failed])
         /\ metrics.succeeded = Total([a \in Charted |-> getStats(a).healthy])
<1>1. Failed \subseteq All /\ Succeeded \subseteq All /\ \A i \in All : history[i].app \in Charted
  BY SameRows, Stored
<1>2. PICK f : f = [a \in Charted |-> getStats(a).failed]
  OBVIOUS
<1>3. PICK s : s = [a \in Charted |-> getStats(a).healthy]
  OBVIOUS
<1>4. DOMAIN f = Charted /\ f = [a \in Charted |-> f[a]] /\ \A a \in Charted : f[a] = Cardinality(Of(a) \cap Failed)
  BY <1>2 DEF getStats
<1>5. DOMAIN s = Charted /\ s = [a \in Charted |-> s[a]] /\ \A a \in Charted : s[a] = Cardinality(Of(a) \cap Succeeded)
  BY <1>3 DEF getStats
<1>6. \A i \in Failed : history[i].app \in Charted
  BY <1>1
<1>7. \A i \in Succeeded : history[i].app \in Charted
  BY <1>1
<1>8. Total(f) = Cardinality(Failed)
  BY <1>1, <1>4, <1>6, ByApplication
<1>9. Total(s) = Cardinality(Succeeded)
  BY <1>1, <1>5, <1>7, ByApplication
<1>10. metrics.failed = Cardinality(Failed) /\ metrics.succeeded = Cardinality(Succeeded)
  BY DEF metrics
<1> QED
  BY <1>2, <1>3, <1>8, <1>9, <1>10

\* A project's card counts what the figures of its applications count.
LEMMA CardsAddUp ==
  ASSUME MetricsInv, NEW apps \in SUBSET Charted, NEW card, card = projectCard(apps)
  PROVE  /\ card.deployments = Total([a \in apps |-> getStats(a).total])
         /\ card.healthy = Cardinality(metrics.healthy \cap apps)
         /\ \A t \in card.lastActivity, a \in apps : Of(a) # {} => At(Newest(a)) <= t
<1> DEFINE shown(a) == IF a \in Unobserved THEN {r.health : r \in enrichApplications(a, Absent)} ELSE {"Healthy"}
<1>1. PICK own : own = {i \in All : history[i].app \in apps}
  OBVIOUS
<1>2. card = [deployments |-> Cardinality(own), healthy |-> Cardinality({a \in apps : "Healthy" \in shown(a)}),
              lastActivity |-> {t \in {At(i) : i \in own} : \A i \in own : At(i) <= t}]
  BY <1>1 DEF projectCard
<1>3. card.deployments = Total([a \in apps |-> getStats(a).total])
  <2>1. PICK f : f = [a \in apps |-> getStats(a).total]
    OBVIOUS
  <2>2. own \subseteq All /\ apps \subseteq Charted /\ \A i \in own : history[i].app \in apps
    BY <1>1
  <2>3. DOMAIN f = apps /\ f = [a \in apps |-> f[a]]
    BY <2>1
  <2>4. ASSUME NEW a \in apps PROVE f[a] = Cardinality(Of(a) \cap own)
    <3>1. Of(a) \cap own = Of(a)
      BY <1>1 DEF Of
    <3> QED
      BY <2>1, <3>1 DEF getStats
  <2>5. Total(f) = Cardinality(own)
    BY <2>2, <2>3, <2>4, ByApplication
  <2> QED
    BY <1>2, <2>1, <2>5
<1>4. ASSUME NEW a \in apps PROVE "Healthy" \in shown(a) <=> a \in metrics.healthy
  <2>1. a \in metrics.healthy <=> (a \in Unobserved => a \in Seen /\ history[Newest(a)].health = "Healthy")
    BY <1>4 DEF metrics, HealthyApplications, latestDeploymentMap
  <2>2. CASE a \notin Unobserved
    BY <2>1, <2>2
  <2>3. CASE a \in Unobserved /\ Of(a) = {}
    <3>1. newerOnPage(a) = 0
      BY <2>3, NewerIsNewest
    <3>2. enrichApplications(a, Absent) = {}
      BY <3>1 DEF enrichApplications
    <3> QED
      BY <2>1, <2>3, <3>2 DEF Seen
  <2>4. CASE a \in Unobserved /\ Of(a) # {}
    <3>1. newerOnPage(a) = Newest(a) /\ Newest(a) # 0 /\ Newest(a) \in Of(a)
      BY <2>4, NewerIsNewest, NewestIsFirst
    <3>2. PICK r : r = history[Newest(a)]
      OBVIOUS
    <3>3. r \in Record
      BY <3>1, <3>2, OfCharted, Stored
    <3>4. enrichApplications(a, Absent) = {[r EXCEPT !.health = r.health]}
      BY <3>1, <3>2 DEF enrichApplications, Else
    <3>5. [r EXCEPT !.health = r.health].health = r.health
      BY <3>3 DEF Record
    <3>6. shown(a) = {r.health}
      BY <2>4, <3>4, <3>5
    <3>7. a \in Seen
      BY <1>4, <2>4 DEF Seen
    <3> QED
      BY <2>1, <2>4, <3>2, <3>6, <3>7
  <2> QED
    BY <2>2, <2>3, <2>4
<1>5. {a \in apps : "Healthy" \in shown(a)} = metrics.healthy \cap apps
  BY <1>4
<1>6. card.healthy = Cardinality(metrics.healthy \cap apps)
  <2>1. card.healthy = Cardinality({a \in apps : "Healthy" \in shown(a)})
    <3> HIDE DEF shown
    <3> QED
      BY <1>2
  <2> QED
    BY <1>5, <2>1
<1>7. ASSUME NEW t \in card.lastActivity, NEW a \in apps, Of(a) # {} PROVE At(Newest(a)) <= t
  <2>1. Newest(a) \in Of(a)
    BY <1>7, NewestIsFirst
  <2>2. Newest(a) \in own
    BY <1>1, <2>1 DEF Of
  <2> QED
    BY <1>2, <1>7, <2>2
<1> QED
  BY <1>3, <1>6, <1>7

-----------------------------------------------------------------------------
(* One application. *)

LEMMA CountIn ==
  ASSUME MetricsInv, NEW a, NEW some, some \subseteq Of(a)
  PROVE  IsFiniteSet(some) /\ Cardinality(some) \in Nat
BY OfCharted, FS_Subset, FS_CardinalityType

LEMMA OverviewCounts ==
  ASSUME MetricsInv, NEW a, NEW o, o = applicationOverview(a)
  PROVE  /\ o = getStats(a) /\ o.total = Cardinality(Of(a))
         /\ o.failed = Cardinality(Of(a) \cap Failed) /\ o.healthy = Cardinality(Of(a) \cap Succeeded)
<1> DEFINE outcomes == [i \in Of(a) |-> classifyDeployment(history[i])]
<1>1. {i \in Of(a) : outcomes[i] = "success"} = Of(a) \cap Succeeded
  BY OfCharted DEF Succeeded
<1>2. {i \in Of(a) : outcomes[i] = "failed"} = Of(a) \cap Failed
  BY OfCharted DEF Failed
<1>3. o = [total |-> Cardinality(Of(a)), healthy |-> Cardinality({i \in Of(a) : outcomes[i] = "success"}),
           failed |-> Cardinality({i \in Of(a) : outcomes[i] = "failed"})]
  BY DEF applicationOverview
<1> HIDE DEF outcomes
<1> QED
  BY <1>1, <1>2, <1>3 DEF getStats

LEMMA TimelineCounts ==
  ASSUME MetricsInv, NEW a, NEW outcome
  PROVE  Cardinality({n \in DOMAIN getTimeline(a) : classifyOnPage(getTimeline(a)[n]) = outcome})
           = Cardinality({i \in Of(a) : classifyDeployment(history[i]) = outcome})
<1>1. PICK list, S, kind : list = history /\ S = Of(a) /\ kind = {r \in Record : classifyOnPage(r) = outcome}
  OBVIOUS
<1>2. PICK line : line = getTimeline(a)
  OBVIOUS
<1>3. line = Selected(list, S)
  BY <1>1, <1>2 DEF getTimeline
<1>4. list \in Seq(Record) /\ S \subseteq DOMAIN list
  BY <1>1, OfCharted DEF MetricsInv, All
<1>5. line \in Seq(Record)
  BY <1>3, <1>4, Selects
<1>6. \A n \in DOMAIN line : line[n] \in Record
  BY <1>5, LenProperties, ElementOfSeq
<1>7. {n \in DOMAIN line : classifyOnPage(line[n]) = outcome} = Matching(line, kind)
  BY <1>1, <1>6 DEF Matching
<1>8. {i \in Of(a) : classifyDeployment(history[i]) = outcome} = S \cap Matching(list, kind)
  BY <1>1, OfCharted, Stored, SameOutcome DEF Matching, All
<1>9. Cardinality(Matching(line, kind)) = Cardinality(S \cap Matching(list, kind))
  BY <1>3, <1>4, SelectedCounts
<1> QED
  BY <1>2, <1>7, <1>8, <1>9

LEMMA OverviewsAgree ==
  ASSUME MetricsInv, NEW a, NEW revision \in BOOLEAN, NEW o, o = applicationOverview(a),
         NEW d, d = dashboardOverview(a, revision)
  PROVE  /\ d.stats = o /\ d.frequency = o.total
         /\ d.failureRate = [total |-> o.total, failed |-> o.failed]
         /\ Cardinality({n \in DOMAIN d.timeline : classifyOnPage(d.timeline[n]) = "failed"}) = o.failed
         /\ o.total # 0 =>
              Cardinality({n \in DOMAIN d.timeline : classifyOnPage(d.timeline[n]) = "success"}) = o.healthy
<1>1. /\ o = getStats(a) /\ o.total = Cardinality(Of(a))
      /\ o.failed = Cardinality(Of(a) \cap Failed) /\ o.healthy = Cardinality(Of(a) \cap Succeeded)
  BY OverviewCounts
<1>2. PICK line : line = IF Of(a) = {} /\ revision
                           THEN <<[app |-> a, deployedAt |-> NOW, result |-> "Succeeded", health |-> Absent]>>
                           ELSE getTimeline(a)
  OBVIOUS
<1>3. d = [stats |-> getStats(a), failureRate |-> getFailureRate(a), frequency |-> getDeploymentFrequency(a),
           timeline |-> line]
  BY <1>2 DEF dashboardOverview
<1>4. d.stats = o /\ d.frequency = o.total /\ d.failureRate = [total |-> o.total, failed |-> o.failed]
  BY <1>1, <1>3 DEF getFailureRate, getDeploymentFrequency
<1>5. d.timeline = line
  BY <1>3
<1>6. CASE Of(a) = {} /\ revision
  <2>1. PICK r : r = [app |-> a, deployedAt |-> NOW, result |-> "Succeeded", health |-> Absent]
    OBVIOUS
  <2>2. line = <<r>>
    BY <1>2, <1>6, <2>1
  <2>3. \A n \in DOMAIN line : classifyOnPage(line[n]) = "success"
    <3>1. classifyOnPage(r) = "success"
      BY <2>1 DEF classifyOnPage
    <3>2. \A n \in DOMAIN line : line[n] = r
      BY <2>2
    <3> QED
      BY <3>1, <3>2
  <2>4. {n \in DOMAIN line : classifyOnPage(line[n]) = "failed"} = {} /\ Of(a) \cap Failed = {}
    BY <1>6, <2>3
  <2>5. o.total = 0 /\ Cardinality({}) = 0
    BY <1>1, <1>6, FS_EmptySet
  <2> QED
    BY <1>1, <1>4, <1>5, <2>4, <2>5
<1>7. CASE ~(Of(a) = {} /\ revision)
  <2>1. line = getTimeline(a)
    BY <1>2, <1>7
  <2>2. /\ Of(a) \cap Failed = {i \in Of(a) : classifyDeployment(history[i]) = "failed"}
        /\ Of(a) \cap Succeeded = {i \in Of(a) : classifyDeployment(history[i]) = "success"}
    BY OfCharted DEF Failed, Succeeded
  <2>3. Cardinality({n \in DOMAIN line : classifyOnPage(line[n]) = "failed"}) = o.failed
    <3>1. Cardinality({n \in DOMAIN getTimeline(a) : classifyOnPage(getTimeline(a)[n]) = "failed"})
            = Cardinality({i \in Of(a) : classifyDeployment(history[i]) = "failed"})
      BY TimelineCounts
    <3> QED
      BY <1>1, <2>1, <2>2, <3>1
  <2>4. Cardinality({n \in DOMAIN line : classifyOnPage(line[n]) = "success"}) = o.healthy
    <3>1. Cardinality({n \in DOMAIN getTimeline(a) : classifyOnPage(getTimeline(a)[n]) = "success"})
            = Cardinality({i \in Of(a) : classifyDeployment(history[i]) = "success"})
      BY TimelineCounts
    <3> QED
      BY <1>1, <2>1, <2>2, <3>1
  <2> QED
    BY <1>1, <1>4, <1>5, <2>3, <2>4
<1> QED
  BY <1>6, <1>7

\* The bell and the server's notices differ only where a health decides.
LEMMA NoticesAgree ==
  ASSUME MetricsInv, NEW a, NEW stored \in StoredHealth
  PROVE  \/ buildNotifications(a, stored) = syncDerivedNotifications(a)
         \/ /\ Of(a) # {} /\ history[Newest(a)].result \notin {"Succeeded", "Failed"} /\ stored # Absent
            /\ buildNotifications(a, stored) <=> stored = "Degraded"
<1>1. CASE Of(a) = {}
  <2>1. newerOnPage(a) = 0
    BY <1>1, NewerIsNewest
  <2>2. \A r \in enrichApplications(a, stored) : classifyOnPage(r) # "failed"
    BY <2>1 DEF enrichApplications, classifyOnPage
  <2> QED
    BY <1>1, <2>2 DEF buildNotifications, syncDerivedNotifications
<1>2. CASE Of(a) # {}
  <2>1. newerOnPage(a) = Newest(a) /\ Newest(a) # 0 /\ Newest(a) \in Of(a)
    BY <1>2, NewerIsNewest, NewestIsFirst
  <2>2. PICK r : r = history[Newest(a)]
    OBVIOUS
  <2>3. r \in Record /\ Newest(a) \in All
    BY <2>1, <2>2, OfCharted, Stored
  <2>4. PICK e : e = [r EXCEPT !.health = Else(stored, r.health)]
    OBVIOUS
  <2>5. enrichApplications(a, stored) = {e}
    BY <2>1, <2>2, <2>4 DEF enrichApplications
  <2>6. e.result = r.result /\ e.health = Else(stored, r.health)
    BY <2>3, <2>4 DEF Record
  <2>7. buildNotifications(a, stored) <=> classifyOnPage(e) = "failed"
    BY <2>5 DEF buildNotifications
  <2>8. syncDerivedNotifications(a) <=> classifyOnPage(r) = "failed"
    BY <1>2, <2>2, <2>3, SameOutcome DEF syncDerivedNotifications, Failed
  <2>9. CASE r.result \notin {"Succeeded", "Failed"} /\ stored # Absent
    BY <1>2, <2>2, <2>6, <2>7, <2>9 DEF classifyOnPage, Else
  <2>10. CASE stored = Absent
    BY <2>6, <2>7, <2>8, <2>10 DEF classifyOnPage, Else, buildNotifications, syncDerivedNotifications
  <2>11. CASE r.result \in {"Succeeded", "Failed"}
    <3>1. classifyOnPage(e) = classifyOnPage(r)
      BY <2>6, <2>11 DEF classifyOnPage
    <3> QED
      BY <2>7, <2>8, <3>1 DEF buildNotifications, syncDerivedNotifications
  <2> QED
    BY <2>9, <2>10, <2>11
<1> QED
  BY <1>1, <1>2

LEMMA StoriesAgree == ASSUME MetricsInv, NEW a PROVE OneStory(a)
BY OverviewsAgree, NoticesAgree DEF OneStory

\* The page sorts as the server picks.
LEMMA NewestComesFirst ==
  ASSUME MetricsInv, NEW a, Of(a) # {}, NEW rows, rows = newestFirst(a)
  PROVE  /\ rows[1] = Newest(a) /\ Len(rows) \in Nat /\ rows \in Seq(Of(a))
         /\ \A n \in DOMAIN rows : rows[n] \in Of(a)
         /\ DOMAIN rows = 1..Len(rows)
<1>1. PICK S, key, before : S = Of(a) /\ key = Times /\ before = Descending(S, key)
  OBVIOUS
<1>2. rows = InOrder(S, before)
  BY <1>1 DEF newestFirst
<1>3. \A i \in S : i \in Nat /\ key[i] = At(i) /\ key[i] \in Nat
  BY <1>1, OfCharted, Stored DEF Times
<1>4. IsFiniteSet(S) /\ S \subseteq Int /\ \A i \in S : key[i] \in Int
  BY <1>1, <1>3, OfCharted
<1>5. IsOrder(S, before)
  BY <1>1, <1>4, DescendingOrders
<1>6. /\ rows \in Seq(S)
      /\ \A i \in S : \E n \in DOMAIN rows : rows[n] = i
      /\ \A m, n \in DOMAIN rows : m < n => <<rows[m], rows[n]>> \in before
  BY <1>2, <1>4, <1>5, Ordered
<1>7. Len(rows) \in Nat /\ DOMAIN rows = 1..Len(rows) /\ \A n \in DOMAIN rows : rows[n] \in S
  BY <1>6, LenProperties, ElementOfSeq
<1>8. PICK k : k = Newest(a)
  OBVIOUS
<1>9. k \in S /\ \A j \in S : k <= j /\ At(j) <= At(k)
  BY <1>1, <1>8, NewestIsFirst
<1>10. PICK n \in DOMAIN rows : rows[n] = k
  BY <1>6, <1>9
<1>11. 1 \in DOMAIN rows /\ (n = 1 \/ 1 < n)
  BY <1>7, <1>10
<1>12. ASSUME 1 < n PROVE FALSE
  <2>1. <<rows[1], k>> \in Descending(S, key)
    BY <1>1, <1>6, <1>10, <1>11, <1>12
  <2>2. key[rows[1]] > key[k] \/ (key[rows[1]] = key[k] /\ rows[1] < k)
    BY <2>1 DEF Descending
  <2>3. rows[1] \in S
    BY <1>7, <1>11
  <2>4. k <= rows[1] /\ At(rows[1]) <= At(k)
    BY <1>9, <2>3
  <2> QED
    BY <1>3, <1>9, <2>2, <2>3, <2>4
<1> QED
  BY <1>1, <1>6, <1>7, <1>8, <1>10, <1>11, <1>12

LEMMA SummaryBounds ==
  ASSUME MetricsInv, NEW a, NEW summary, summary = deploymentOutcomeSummary(a)
  PROVE  summary.failed <= getStats(a).failed /\ getStats(a).failed <= summary.failed + summary.degraded
<1>1. PICK F, D, G : /\ F = {i \in Of(a) : history[i].result = "Failed"}
                     /\ D = {i \in Of(a) : history[i].health = "Degraded"}
                     /\ G = Of(a) \cap Failed
  OBVIOUS
<1>2. F \subseteq Of(a) /\ D \subseteq Of(a) /\ G \subseteq Of(a)
  BY <1>1
<1>3. F \subseteq G /\ G \subseteq F \cup D
  BY <1>1, OfCharted DEF Failed, classifyDeployment
<1>4. /\ IsFiniteSet(F) /\ IsFiniteSet(D) /\ IsFiniteSet(G)
      /\ Cardinality(F) \in Nat /\ Cardinality(D) \in Nat /\ Cardinality(G) \in Nat
  BY <1>2, CountIn
<1>5. Cardinality(F) <= Cardinality(G)
  BY <1>3, <1>4, FS_Subset
<1>6. PICK E : E = D \ F
  OBVIOUS
<1>7. IsFiniteSet(E) /\ Cardinality(E) <= Cardinality(D) /\ Cardinality(E) \in Nat
  BY <1>4, <1>6, FS_Subset, FS_CardinalityType
<1>8. F \cap E = {} /\ G \subseteq F \cup E
  BY <1>3, <1>6
<1>9. IsFiniteSet(F \cup E) /\ Cardinality(F \cup E) = Cardinality(F) + Cardinality(E)
  BY <1>4, <1>7, <1>8, CountUnion
<1>10. Cardinality(G) <= Cardinality(F \cup E)
  BY <1>8, <1>9, FS_Subset
<1>11. summary.failed = Cardinality(F) /\ summary.degraded = Cardinality(D) /\ getStats(a).failed = Cardinality(G)
  BY <1>1 DEF deploymentOutcomeSummary, getStats
<1> QED
  BY <1>4, <1>5, <1>7, <1>9, <1>10, <1>11

LEMMA NewestAgree == ASSUME MetricsInv, NEW a \in Seen PROVE OneNewest(a)
<1>1. PICK rows : rows = newestFirst(a)
  OBVIOUS
<1>2. Of(a) # {}
  BY DEF Seen
<1>3. /\ rows[1] = Newest(a) /\ Len(rows) \in Nat
      /\ \A n \in DOMAIN rows : rows[n] \in Of(a)
      /\ DOMAIN rows = 1..Len(rows)
  BY <1>1, <1>2, NewestComesFirst
<1>4. PICK summary : summary = deploymentOutcomeSummary(a)
  OBVIOUS
<1>5. summary.failed <= getStats(a).failed /\ getStats(a).failed <= summary.failed + summary.degraded
  BY <1>4, SummaryBounds
<1> DEFINE latest(k) == {history[rows[n]][k] : n \in {1, 2}}
<1>6. ASSUME Len(rows) > 1, classifyOnPage(history[rows[1]]) # classifyOnPage(history[rows[2]])
      PROVE  \/ compareLatestDeployments(a) # {}
             \/ Absent \in latest("result")
             \/ latest("result") = {"Running"} /\ Absent \in latest("health")
  <2>1. PICK r, q : r = history[rows[1]] /\ q = history[rows[2]]
    OBVIOUS
  <2>2. 1 \in DOMAIN rows /\ 2 \in DOMAIN rows
    BY <1>3, <1>6
  <2>3. r \in Record /\ q \in Record
    BY <1>3, <2>1, <2>2, OfCharted, Stored
  <2>4. \A k : latest(k) = {r[k], q[k]}
    BY <2>1
  <2>5. compareLatestDeployments(a) = {k \in {"result", "health"} :
          r[k] # Absent /\ q[k] # Absent /\ r[k] # q[k]}
    BY <1>1, <1>3, <1>6, <2>1 DEF compareLatestDeployments, concrete
  <2>6. SUFFICES ASSUME r.result # Absent, q.result # Absent, compareLatestDeployments(a) = {}
                 PROVE  latest("result") = {"Running"} /\ Absent \in latest("health")
    BY <2>4
  <2>7. r.result = q.result /\ (r.health = Absent \/ q.health = Absent \/ r.health = q.health)
    BY <2>5, <2>6
  <2>8. r.result = "Running" /\ r.health # q.health
    BY <1>6, <2>1, <2>3, <2>6, <2>7 DEF classifyOnPage, Record, Result, Recorded
  <2> QED
    BY <2>4, <2>7, <2>8
<1>7. newestDeployment(a) = Newest(a)
  BY <1>1, <1>3 DEF newestDeployment
<1>8. summary = deploymentOutcomeSummary(a) /\ rows = newestFirst(a)
  BY <1>1, <1>4
<1> HIDE DEF latest
<1>9. latest("result") = {history[newestFirst(a)[n]].result : n \in {1, 2}}
  BY <1>8 DEF latest
<1>10. latest("health") = {history[newestFirst(a)[n]].health : n \in {1, 2}}
  BY <1>8 DEF latest
<1> QED
  BY <1>5, <1>6, <1>7, <1>8, <1>9, <1>10 DEF OneNewest

LEMMA HealthsAgree ==
  ASSUME NEW stored \in StoredHealth, NEW answer \in getArgoData
  PROVE  \/ dashboardHealth(stored, answer) = applicationHealth(stored, answer)
         \/ \E live \in answer : live = Absent /\ applicationHealth(stored, answer) = "Unknown"
<1>1. answer = {} \/ \E live : answer = {live}
  BY DEF getArgoData
<1>2. CASE answer = {}
  BY <1>2 DEF dashboardHealth, applicationHealth, Else
<1>3. ASSUME NEW live, answer = {live}
      PROVE  \/ dashboardHealth(stored, answer) = applicationHealth(stored, answer)
             \/ live \in answer /\ live = Absent /\ applicationHealth(stored, answer) = "Unknown"
  <2>1. (CHOOSE x \in answer : TRUE) = live /\ answer # {}
    BY <1>3
  <2> QED
    BY <1>3, <2>1 DEF dashboardHealth, applicationHealth, Else
<1> QED
  BY <1>1, <1>2, <1>3

-----------------------------------------------------------------------------
(* The restore intervals. *)

RecoveryAfter(acc, i, failed, succeeded, later) ==
  IF i \in failed THEN [acc EXCEPT !.since = At(i)]
  ELSE IF acc.since # Absent /\ i \in succeeded /\ (later => At(i) > acc.since)
    THEN [since |-> Absent, sum |-> acc.sum + (At(i) - acc.since), count |-> acc.count + 1]
  ELSE acc

Recovery == [since : Instant \cup {Absent}, sum : Int, count : Nat]

\* The successive accumulators over the deployments, oldest first.
IsRun(it, failed, succeeded, later) ==
  /\ it \in [0..Len(history) -> Recovery]
  /\ it[0] = [since |-> Absent, sum |-> 0, count |-> 0]
  /\ \A n \in 1..Len(history) : it[n] = RecoveryAfter(it[n - 1], Oldest1st[n], failed, succeeded, later)

LEMMA OldestFirst ==
  ASSUME MetricsInv
  PROVE  /\ \A n \in 1..Len(history) : Oldest1st[n] \in All /\ At(Oldest1st[n]) \in Instant /\ At(Oldest1st[n]) \in Nat
         /\ \A m, n \in 1..Len(history) : m < n => At(Oldest1st[m]) <= At(Oldest1st[n])
<1>1. PICK S, key, before, rows : /\ S = All /\ key = Times /\ before = Ascending(S, key)
                                  /\ rows = InOrder(S, before)
  OBVIOUS
<1>2. rows = Oldest1st
  BY <1>1 DEF Oldest1st
<1>3. \A i \in S : i \in Nat /\ key[i] = At(i) /\ key[i] \in Nat
  BY <1>1, Stored DEF Times
<1>4. IsFiniteSet(S) /\ S \subseteq Int /\ \A i \in S : key[i] \in Int
  BY <1>1, <1>3, Stored
<1>5. IsOrder(S, before)
  BY <1>1, <1>4, AscendingOrders
<1>6. /\ rows \in Seq(S) /\ DOMAIN rows = 1..Cardinality(S)
      /\ \A m, n \in DOMAIN rows : m < n => <<rows[m], rows[n]>> \in before
  BY <1>1, <1>4, <1>5, Ordered
<1>7. Cardinality(S) = Len(history)
  <2>1. PICK N : N = Len(history)
    OBVIOUS
  <2>2. S = 1..N /\ N \in Nat
    BY <1>1, <2>1, Stored
  <2>3. Cardinality(1..N) = N
    BY <2>2, FS_Interval
  <2> QED
    BY <2>1, <2>2, <2>3
<1>8. DOMAIN rows = 1..Len(history) /\ \A n \in DOMAIN rows : rows[n] \in S
  BY <1>6, <1>7, LenProperties, ElementOfSeq
<1>9. ASSUME NEW m \in DOMAIN rows, NEW n \in DOMAIN rows, m < n PROVE At(rows[m]) <= At(rows[n])
  <2>1. <<rows[m], rows[n]>> \in Ascending(S, key)
    BY <1>1, <1>6, <1>9
  <2>2. key[rows[m]] < key[rows[n]] \/ key[rows[m]] = key[rows[n]]
    BY <2>1 DEF Ascending
  <2> QED
    BY <1>3, <1>8, <2>2
<1>10. \A n \in 1..Len(history) : Oldest1st[n] \in All /\ At(Oldest1st[n]) \in Instant /\ At(Oldest1st[n]) \in Nat
  BY <1>1, <1>2, <1>8, Stored
<1> QED
  BY <1>2, <1>8, <1>9, <1>10

LEMMA RecoveryTyped ==
  ASSUME MetricsInv, NEW acc \in Recovery, NEW n \in 1..Len(history), NEW failed, NEW succeeded,
         NEW later \in BOOLEAN
  PROVE  RecoveryAfter(acc, Oldest1st[n], failed, succeeded, later) \in Recovery
<1>1. PICK i : i = Oldest1st[n]
  OBVIOUS
<1>2. At(i) \in Instant /\ At(i) \in Int
  BY <1>1, OldestFirst
<1>3. acc.since \in Instant \cup {Absent} /\ acc.sum \in Int /\ acc.count \in Nat
  BY DEF Recovery
<1>4. [acc EXCEPT !.since = At(i)] \in Recovery
  BY <1>2 DEF Recovery
<1>5. ASSUME acc.since # Absent
      PROVE  [since |-> Absent, sum |-> acc.sum + (At(i) - acc.since), count |-> acc.count + 1] \in Recovery
  <2>1. acc.since \in Int
    BY <1>3, <1>5, Instants
  <2>2. acc.sum + (At(i) - acc.since) \in Int /\ acc.count + 1 \in Nat
    BY <1>2, <1>3, <2>1
  <2> QED
    BY <2>2 DEF Recovery
<1> QED
  BY <1>1, <1>4, <1>5 DEF RecoveryAfter

LEMMA RunsExist ==
  ASSUME MetricsInv, NEW failed, NEW succeeded, NEW later \in BOOLEAN
  PROVE  \E it : IsRun(it, failed, succeeded, later) /\ Recoveries(failed, succeeded, later) = it[Len(history)]
<1> DEFINE Loop(it) == it = [n \in 0..Len(history) |->
              IF n = 0 THEN [since |-> Absent, sum |-> 0, count |-> 0]
              ELSE LET acc == it[n - 1]
                       i == Oldest1st[n]
                   IN  IF i \in failed THEN [acc EXCEPT !.since = At(i)]
                       ELSE IF acc.since # Absent /\ i \in succeeded /\ (later => At(i) > acc.since)
                         THEN [since |-> Absent, sum |-> acc.sum + (At(i) - acc.since),
                               count |-> acc.count + 1]
                       ELSE acc]
<1>1. PICK N, zero : N = Len(history) /\ zero = [since |-> Absent, sum |-> 0, count |-> 0]
  OBVIOUS
<1>2. N \in Nat /\ zero \in Recovery
  BY <1>1, Stored DEF Recovery
<1>3. PICK step : step = [n \in 1..N |-> [acc \in Recovery |->
                            RecoveryAfter(acc, Oldest1st[n], failed, succeeded, later)]]
  OBVIOUS
<1>4. step \in [1..N -> [Recovery -> Recovery]]
  BY <1>1, <1>3, RecoveryTyped
<1>5. PICK W \in [0..N -> Recovery] : W[0] = zero /\ \A n \in 1..N : W[n] = step[n][W[n - 1]]
  <2>1. PICK S : S = Recovery
    OBVIOUS
  <2>2. N \in Nat /\ zero \in S /\ step \in [1..N -> [S -> S]]
    BY <1>2, <1>4, <2>1
  <2>3. \E f : IsLoop(f, N, S, zero, step)
    BY <2>2, Loops
  <2> QED
    BY <2>1, <2>3 DEF IsLoop
<1>6. ASSUME NEW n \in 1..N PROVE W[n] = RecoveryAfter(W[n - 1], Oldest1st[n], failed, succeeded, later)
  <2>1. n - 1 \in 0..N
    BY <1>2
  <2> QED
    BY <1>3, <1>5, <2>1
<1>7. Loop(W)
  <2>1. ASSUME NEW n \in 0..N
        PROVE  W[n] = IF n = 0 THEN zero ELSE RecoveryAfter(W[n - 1], Oldest1st[n], failed, succeeded, later)
    BY <1>2, <1>5, <1>6
  <2>2. W = [n \in 0..N |-> IF n = 0 THEN zero
                            ELSE RecoveryAfter(W[n - 1], Oldest1st[n], failed, succeeded, later)]
    BY <1>5, <2>1
  <2> QED
    BY <1>1, <2>2 DEF RecoveryAfter
<1>8. PICK it : it = (CHOOSE f : Loop(f))
  OBVIOUS
<1>9. Loop(it)
  BY <1>7, <1>8
<1>10. Recoveries(failed, succeeded, later) = it[N]
  BY <1>1, <1>8 DEF Recoveries
<1>11. /\ it[0] = zero
       /\ \A n \in 1..N : it[n] = RecoveryAfter(it[n - 1], Oldest1st[n], failed, succeeded, later)
  <2>1. it = [n \in 0..N |-> IF n = 0 THEN zero
                              ELSE RecoveryAfter(it[n - 1], Oldest1st[n], failed, succeeded, later)]
    BY <1>1, <1>9 DEF RecoveryAfter
  <2>2. 0 \in 0..N /\ \A n \in 1..N : n \in 0..N /\ n # 0
    BY <1>2
  <2> QED
    BY <2>1, <2>2
<1>12. it = [n \in 0..N |-> it[n]]
  BY <1>1, <1>9
<1>13. it \in [0..N -> Recovery]
  <2>1. PICK P : P = {n \in 0..N : it[n] \in Recovery}
    OBVIOUS
  <2>2. 0 \in P
    BY <1>2, <1>11, <2>1
  <2>3. ASSUME NEW n \in 0..N, n \in P, n < N PROVE n + 1 \in P
    <3>1. n + 1 \in 1..N /\ n + 1 \in 0..N /\ (n + 1) - 1 = n
      BY <1>2, <2>3
    <3>2. it[n] \in Recovery /\ it[n + 1] = RecoveryAfter(it[n], Oldest1st[n + 1], failed, succeeded, later)
      BY <1>11, <2>1, <2>3, <3>1
    <3>3. it[n + 1] \in Recovery
      BY <1>1, <3>1, <3>2, RecoveryTyped
    <3> QED
      BY <2>1, <3>1, <3>3
  <2>4. 0..N \subseteq P
    BY <1>2, <2>2, <2>3, UpTo
  <2> QED
    BY <1>12, <2>1, <2>4
<1>14. IsRun(it, failed, succeeded, later)
  BY <1>1, <1>11, <1>13 DEF IsRun
<1> QED
  BY <1>1, <1>10, <1>14

\* Without a failure and a success of one instant, a later success is any success.
LEMMA SameRestores ==
  ASSUME MetricsInv, \A i \in Failed, j \in Succeeded : At(i) # At(j)
  PROVE  Recoveries(Failed, Succeeded, TRUE) = Recoveries(Failed, Succeeded, FALSE)
<1>1. PICK e : IsRun(e, Failed, Succeeded, TRUE) /\ Recoveries(Failed, Succeeded, TRUE) = e[Len(history)]
  BY RunsExist
<1>2. PICK a : IsRun(a, Failed, Succeeded, FALSE) /\ Recoveries(Failed, Succeeded, FALSE) = a[Len(history)]
  BY RunsExist
<1>3. PICK N : N = Len(history)
  OBVIOUS
<1>4. N \in Nat
  BY <1>3, Stored
<1>5. PICK P : P = {n \in 0..N : /\ e[n] = a[n]
                                 /\ \/ a[n].since = Absent
                                    \/ \E m \in 1..n : Oldest1st[m] \in Failed /\ a[n].since = At(Oldest1st[m])}
  OBVIOUS
<1>6. 0 \in P
  BY <1>1, <1>2, <1>4, <1>5 DEF IsRun
<1>7. ASSUME NEW n \in 0..N, n \in P, n < N PROVE n + 1 \in P
  <2>1. n \in Nat /\ n + 1 \in 1..N /\ n + 1 \in 0..N /\ (n + 1) - 1 = n
    BY <1>4, <1>7
  <2>2. PICK i : i = Oldest1st[n + 1]
    OBVIOUS
  <2>3. PICK acc : acc = a[n]
    OBVIOUS
  <2>4. e[n + 1] = RecoveryAfter(acc, i, Failed, Succeeded, TRUE)
    BY <1>1, <1>3, <1>5, <1>7, <2>1, <2>2, <2>3 DEF IsRun
  <2>5. a[n + 1] = RecoveryAfter(acc, i, Failed, Succeeded, FALSE)
    BY <1>2, <1>3, <2>1, <2>2, <2>3 DEF IsRun
  <2>6. acc \in Recovery
    BY <1>2, <1>3, <1>7, <2>3 DEF IsRun
  <2>7. /\ acc.since = Absent \/ \E m \in 1..n : Oldest1st[m] \in Failed /\ acc.since = At(Oldest1st[m])
        /\ \A m \in 1..n : m \in 1..(n + 1)
    BY <1>5, <1>7, <2>1, <2>3
  <2>8. CASE i \in Failed
    <3>1. e[n + 1] = a[n + 1] /\ a[n + 1] = [acc EXCEPT !.since = At(i)]
      BY <2>4, <2>5, <2>8 DEF RecoveryAfter
    <3>2. a[n + 1].since = At(i)
      BY <2>6, <3>1 DEF Recovery
    <3>3. n + 1 \in 1..(n + 1)
      BY <2>1
    <3> QED
      BY <1>5, <2>1, <2>2, <2>8, <3>1, <3>2, <3>3
  <2>9. CASE i \notin Failed /\ acc.since # Absent /\ i \in Succeeded
    <3>1. PICK m \in 1..n : Oldest1st[m] \in Failed /\ acc.since = At(Oldest1st[m])
      BY <2>7, <2>9
    <3>2. m \in 1..N /\ m < n + 1
      BY <1>4, <2>1, <3>1
    <3>3. At(Oldest1st[m]) <= At(i) /\ At(Oldest1st[m]) \in Int /\ At(i) \in Int
      BY <1>3, <2>1, <2>2, <3>2, OldestFirst
    <3>4. At(Oldest1st[m]) # At(i)
      BY <2>9, <3>1
    <3>5. At(i) > acc.since
      BY <3>1, <3>3, <3>4
    <3>6. /\ e[n + 1] = a[n + 1]
          /\ a[n + 1] = [since |-> Absent, sum |-> acc.sum + (At(i) - acc.since), count |-> acc.count + 1]
      BY <2>4, <2>5, <2>9, <3>5 DEF RecoveryAfter
    <3>7. a[n + 1].since = Absent
      BY <3>6
    <3> QED
      BY <1>5, <2>1, <3>6, <3>7
  <2>10. CASE i \notin Failed /\ ~(acc.since # Absent /\ i \in Succeeded)
    <3>1. e[n + 1] = a[n + 1] /\ a[n + 1] = acc
      BY <2>4, <2>5, <2>10 DEF RecoveryAfter
    <3>2. \/ a[n + 1].since = Absent
          \/ \E m \in 1..(n + 1) : Oldest1st[m] \in Failed /\ a[n + 1].since = At(Oldest1st[m])
      BY <2>7, <3>1
    <3> QED
      BY <1>5, <2>1, <3>1, <3>2
  <2> QED
    BY <2>8, <2>9, <2>10
<1>8. 0..N \subseteq P /\ N \in 0..N
  BY <1>4, <1>6, <1>7, UpTo
<1>9. e[N] = a[N]
  BY <1>5, <1>8
<1> QED
  BY <1>1, <1>2, <1>3, <1>9

\* The pages, which wait for a later success, never count more restores than the API.
LEMMA FewerRestores ==
  ASSUME MetricsInv
  PROVE  Recoveries(Failed, Succeeded, TRUE).count <= Recoveries(Failed, Succeeded, FALSE).count
<1>1. PICK e : IsRun(e, Failed, Succeeded, TRUE) /\ Recoveries(Failed, Succeeded, TRUE) = e[Len(history)]
  BY RunsExist
<1>2. PICK a : IsRun(a, Failed, Succeeded, FALSE) /\ Recoveries(Failed, Succeeded, FALSE) = a[Len(history)]
  BY RunsExist
<1>3. PICK N : N = Len(history)
  OBVIOUS
<1>4. N \in Nat /\ \A n \in 0..N : e[n] \in Recovery /\ a[n] \in Recovery
  BY <1>1, <1>2, <1>3, Stored DEF IsRun
<1>5. PICK P : P = {n \in 0..N : /\ e[n].count <= a[n].count
                                 /\ e[n].since # Absent /\ a[n].since = Absent => e[n].count < a[n].count}
  OBVIOUS
<1>6. 0 \in P
  BY <1>1, <1>2, <1>4, <1>5 DEF IsRun
<1>7. ASSUME NEW n \in 0..N, n \in P, n < N PROVE n + 1 \in P
  <2>1. n \in Nat /\ n + 1 \in 1..N /\ n + 1 \in 0..N /\ (n + 1) - 1 = n
    BY <1>4, <1>7
  <2>2. PICK i : i = Oldest1st[n + 1]
    OBVIOUS
  <2>3. PICK x, y, u, v : x = e[n] /\ y = a[n] /\ u = e[n + 1] /\ v = a[n + 1]
    OBVIOUS
  <2>4. u = RecoveryAfter(x, i, Failed, Succeeded, TRUE) /\ v = RecoveryAfter(y, i, Failed, Succeeded, FALSE)
    BY <1>1, <1>2, <1>3, <2>1, <2>2, <2>3 DEF IsRun
  <2>5. x \in Recovery /\ y \in Recovery /\ x.count \in Nat /\ y.count \in Nat
    BY <1>4, <2>3 DEF Recovery
  <2>6. x.count <= y.count /\ (x.since # Absent /\ y.since = Absent => x.count < y.count)
    BY <1>5, <1>7, <2>3
  <2>7. SUFFICES u.count <= v.count /\ (u.since # Absent /\ v.since = Absent => u.count < v.count)
    BY <1>5, <2>1, <2>3
  <2>8. CASE i \in Failed
    <3>1. u = [x EXCEPT !.since = At(i)] /\ v = [y EXCEPT !.since = At(i)]
      BY <2>4, <2>8 DEF RecoveryAfter
    <3>2. u.since = At(i) /\ v.since = At(i) /\ u.count = x.count /\ v.count = y.count
      BY <2>5, <3>1 DEF Recovery
    <3> QED
      BY <2>6, <3>2
  <2>9. CASE i \notin Failed /\ i \in Succeeded
    <3>1. \/ u = x
          \/ x.since # Absent /\ u.since = Absent /\ u.count = x.count + 1
      BY <2>4, <2>9 DEF RecoveryAfter
    <3>2. \/ y.since = Absent /\ v = y
          \/ y.since # Absent /\ v.since = Absent /\ v.count = y.count + 1
      BY <2>4, <2>9 DEF RecoveryAfter
    <3> QED
      BY <2>5, <2>6, <3>1, <3>2
  <2>10. CASE i \notin Failed /\ i \notin Succeeded
    <3>1. u = x /\ v = y
      BY <2>4, <2>10 DEF RecoveryAfter
    <3> QED
      BY <2>6, <3>1
  <2> QED
    BY <2>8, <2>9, <2>10
<1>8. 0..N \subseteq P /\ N \in 0..N
  BY <1>4, <1>6, <1>7, UpTo
<1>9. e[N].count <= a[N].count
  BY <1>5, <1>8
<1> QED
  BY <1>1, <1>2, <1>3, <1>9

LEMMA Panels == MetricsInv => PanelsAgree
<1> SUFFICES ASSUME MetricsInv PROVE PanelsAgree
  OBVIOUS
<1>1. FailedOnPage = Failed /\ SucceededOnPage = Succeeded /\ latestByApp = latestDeploymentMap
  BY SameRows, SameNewest
<1>2. buildWorkspaceMetrics = metrics /\ buildHealthBreakdown = health
  BY <1>1 DEF buildWorkspaceMetrics, metrics, buildHealthBreakdown, health
<1>3. buildActivitySeries = buildActivity /\ buildSuccessFailureSeries = buildSuccessFailure
  BY <1>1 DEF buildActivitySeries, buildActivity, buildSuccessFailureSeries, buildSuccessFailure
<1>4. buildEnvironmentComparison = environmentMetrics
  BY <1>1 DEF buildEnvironmentComparison, environmentMetrics
<1>5. ASSUME \A i \in Failed, j \in Succeeded : At(i) # At(j)
      PROVE  buildDoraMetrics = buildDora
  <2>1. estimateMttrHours = averageMttrHours
    BY <1>1, <1>5, SameRestores DEF estimateMttrHours, averageMttrHours
  <2> QED
    BY <1>1, <2>1 DEF buildDoraMetrics, buildDora
<1>6. estimateMttrHours.count <= averageMttrHours.count
  BY <1>1, FewerRestores DEF estimateMttrHours, averageMttrHours
<1>7. /\ metrics.failed = Total([a \in Charted |-> getStats(a).failed])
      /\ metrics.succeeded = Total([a \in Charted |-> getStats(a).healthy])
  BY FiguresAddUp
<1>8. (\A a \in Charted : OneStory(a)) /\ (\A a \in Seen : OneNewest(a))
  BY StoriesAgree, NewestAgree
<1>9. \A stored \in StoredHealth, answer \in getArgoData :
         \/ dashboardHealth(stored, answer) = applicationHealth(stored, answer)
         \/ \E live \in answer : live = Absent /\ applicationHealth(stored, answer) = "Unknown"
  BY HealthsAgree
<1>10. \A apps \in SUBSET Charted :
         LET card == projectCard(apps)
         IN  /\ card.deployments = Total([a \in apps |-> getStats(a).total])
             /\ card.healthy = Cardinality(metrics.healthy \cap apps)
             /\ \A t \in card.lastActivity, a \in apps : Of(a) # {} => At(Newest(a)) <= t
  BY CardsAddUp
<1>11. /\ Cardinality(deploymentRows("failed")) = metrics.failed
       /\ Cardinality(deploymentRows("succeeded")) = metrics.succeeded
  <2>1. deploymentRows("failed") = Failed /\ deploymentRows("succeeded") = Succeeded
    BY <1>1, SameRows DEF deploymentRows
  <2> QED
    BY <2>1 DEF metrics
<1> QED
  BY <1>2, <1>3, <1>4, <1>5, <1>6, <1>7, <1>8, <1>9, <1>10, <1>11 DEF PanelsAgree

\* Whatever deployments are stored, the pages show the figures that the API serves
\* (workspace-metrics.ts, lib/metrics.ts, dora.ts, analytics.ts).
THEOREM PanelsAgreeHolds == MetricsSpec => []PanelsAgree
BY MetricsInvHolds, Panels, PTL
=============================================================================
