------------------------- MODULE FlowDirection_proofs -------------------------
(***************************************************************************)
(* The samples of a direction, for packets of any lengths at any times and *)
(* for every width of the clock: no byte is lost or counted twice, and     *)
(* at a rate of whole seconds no period goes without its row.              *)
(***************************************************************************)
EXTENDS FlowDirection, Arithmetic_proofs

R == to_usec(sampling_rate)

-----------------------------------------------------------------------------
(* Words of any kind, and those a time was packed into. *)

LEMMA RateIsPositive == R \in Nat \ {0}
<1>1. USECS \in Nat /\ sampling_rate.sec \in Nat /\ sampling_rate.usec \in Nat
  BY ClockAssumption, SamplingAssumption DEF Word
<1>2. R \in Int
  BY <1>1, SMT DEF R, to_usec
<1> QED
  BY <1>2, SamplingAssumption DEF R

\* A number of periods is never negative.
LEMMA PeriodsPassed ==
  ASSUME NEW d \in Word
  PROVE  Div(d, sampling_rate) \in Nat
<1>1. USECS \in Nat /\ d.sec \in Nat /\ d.usec \in Nat
  BY ClockAssumption DEF Word
<1>2. to_usec(d) \in Nat
  BY <1>1, SMT DEF to_usec
<1> DEFINE x == to_usec(d)
<1>3. \A n \in Nat \ {0}, y \in Nat : y \div n \in Nat
  BY SMT
<1> QED
  BY <1>2, <1>3, RateIsPositive DEF Div, R

LEMMA ModOfSum ==
  ASSUME NEW n \in Nat \ {0}, NEW x \in Int, NEW y \in Int
  PROVE  ((x % n) + (y % n)) % n = (x + y) % n
<1> DEFINE p == x \div n
           q == y \div n
           r == x % n
           s == y % n
<1>1. p \in Int /\ r \in Int /\ x = n * p + r
  BY DivMod
<1>2. q \in Int /\ s \in Int /\ y = n * q + s
  BY DivMod
<1> SUFFICES (r + s) % n = (x + y) % n
  OBVIOUS
<1> HIDE DEF p, q, r, s
<1>3. x + y = (r + s) + n * (p + q)
  BY <1>1, <1>2, SMT
<1>4. x + y \in Int /\ r + s \in Int /\ p + q \in Int
  BY <1>1, <1>2
<1> QED
  BY <1>3, <1>4, ModOfTurns

\* Adding whole seconds never carries: operator+ is exact.
LEMMA PlusWholeSeconds ==
  ASSUME NEW x \in Int, NEW k \in Int
  PROVE  Plus(Packed(x), Packed(k * USECS)) = Packed(x + k * USECS)
<1>1. /\ SECS \in Nat \ {0} /\ USECS \in Nat \ {0} /\ USEC_RANGE \in Nat
      /\ USECS < USEC_RANGE
  BY ClockAssumption, SMT
<1> DEFINE p == x \div USECS
           r == x % USECS
           y == k * USECS
<1>2. p \in Int /\ r \in 0..(USECS - 1) /\ x = USECS * p + r
  BY <1>1, DivMod
<1>3. y \div USECS = k /\ y % USECS = 0
  <2>1. y \in Int /\ 0 \in 0..(USECS - 1) /\ y = USECS * k + 0
    BY <1>1, SMT
  <2> HIDE DEF y
  <2> QED
    BY <1>1, <2>1, DivModUnique
<1>4. (x + y) \div USECS = p + k /\ (x + y) % USECS = r
  <2> HIDE DEF p, r
  <2>1. x + y \in Int /\ p + k \in Int /\ x + y = USECS * (p + k) + r
    BY <1>1, <1>2, SMT
  <2> HIDE DEF y
  <2> QED
    BY <1>1, <1>2, <2>1, DivModUnique
<1>5. /\ Packed(x) = [sec |-> p % SECS, usec |-> r]
      /\ Packed(y) = [sec |-> k % SECS, usec |-> 0]
      /\ Packed(x + y) = [sec |-> (p + k) % SECS, usec |-> r]
  BY <1>3, <1>4 DEF Packed
<1> SUFFICES Plus(Packed(x), Packed(y)) = Packed(x + y)
  OBVIOUS
<1> HIDE DEF p, r, y
<1>6. Plus(Packed(x), Packed(y)) = TimeOffset((p % SECS) + (k % SECS), r)
  <2>1. r + 0 = r /\ ~(r >= USEC_RANGE)
    BY <1>1, <1>2, SMT
  <2> QED
    BY <1>5, <2>1 DEF Plus
<1>7. r >= 0
  BY <1>1, <1>2
<1>8. ((p % SECS) + (k % SECS)) % SECS = (p + k) % SECS
  BY <1>1, <1>2, ModOfSum
<1> QED
  BY <1>5, <1>6, <1>7, <1>8 DEF TimeOffset

-----------------------------------------------------------------------------
(* What the rows add up to. *)

ThroughputOf(rows) == FoldLeft(LAMBDA sum, row : sum + row.throughput, 0, rows)
GoodputOf(rows) == FoldLeft(LAMBDA sum, row : sum + row.goodput, 0, rows)

LEMMA IntegralsOfRates ==
  /\ Integral(LAMBDA r : r.throughput) = ThroughputOf(rates) * R
  /\ Integral(LAMBDA r : r.goodput) = GoodputOf(rates) * R
BY DEF Integral, ThroughputOf, GoodputOf, R

\* The folds take the last row first: a set of places has a last one.
LEMMA LastPlace ==
  ASSUME NEW n \in Nat, NEW s \in SUBSET (1..n), s # {}
  PROVE  Max(s) \in s
<1> DEFINE HasLast(t) == \E x \in t : \A y \in t : x >= y
           N == {m \in Nat : \A t \in SUBSET (1..m) : t # {} => HasLast(t)}
<1>1. 0 \in N
  <2>1. 1..0 = {}
    BY SMT
  <2> HIDE DEF HasLast
  <2> QED
    BY <2>1
<1>2. ASSUME NEW m \in N PROVE m + 1 \in N
  <2>1. m \in Nat /\ \A t \in SUBSET (1..m) : t # {} => HasLast(t)
    OBVIOUS
  <2>2. ASSUME NEW t \in SUBSET (1..(m + 1)), t # {} PROVE HasLast(t)
    <3>1. CASE m + 1 \in t
      <4>1. \A y \in t : m + 1 >= y
        BY <2>1
      <4> QED
        BY <3>1, <4>1
    <3>2. CASE m + 1 \notin t
      <4>1. t \in SUBSET (1..m)
        BY <2>1, <3>2
      <4> QED
        BY <2>1, <2>2, <4>1
    <3> QED
      BY <3>1, <3>2
  <2>3. m + 1 \in Nat
    BY <2>1
  <2> HIDE DEF HasLast
  <2> QED
    BY <2>2, <2>3
<1>3. N = Nat
  <2> HIDE DEF N
  <2>1. N \in SUBSET Nat
    BY DEF N
  <2> QED
    BY <1>1, <1>2, <2>1, NatSet
<1>4. HasLast(s)
  <2> HIDE DEF HasLast
  <2> QED
    BY <1>3
<1> QED
  BY <1>4 DEF Max

\* A fold that takes the last place first.
LastFirst(g, v, s) == g[s] = IF s = {} THEN 0 ELSE g[s \ {Max(s)}] + v[Max(s)]

LEMMA MaxChooses ==
  ASSUME NEW n \in Nat, NEW c, c = [s \in SUBSET (1..n) |-> Max(s)]
  PROVE  IsFiniteSet(1..n) /\ Chooses(c, 1..n)
<1>1. IsFiniteSet(1..n)
  BY FS_Interval
<1>2. ASSUME NEW s \in SUBSET (1..n), s # {} PROVE c[s] \in s
  BY <1>2, LastPlace
<1> QED
  BY <1>1, <1>2 DEF Chooses

LEMMA LastFirstExists ==
  ASSUME NEW n \in Nat, NEW v, Values(v, 1..n)
  PROVE  \E g \in [SUBSET (1..n) -> Int] : \A s \in SUBSET (1..n) : LastFirst(g, v, s)
<1>1. PICK c : c = [s \in SUBSET (1..n) |-> Max(s)]
  OBVIOUS
<1>2. HasTaker(v, c, 1..n)
  BY <1>1, MaxChooses, TakerExists
<1>3. PICK g \in [SUBSET (1..n) -> Int] : \A s \in SUBSET (1..n) : Takes(g, v, c, s)
  BY <1>2 DEF HasTaker
<1> QED
  BY <1>1, <1>3 DEF Takes, LastFirst

LEMMA LastFirstIsSum ==
  ASSUME NEW n \in Nat, NEW v, Values(v, 1..n),
         NEW g, g = [s \in SUBSET (1..n) |-> g[s]],
         \A s \in SUBSET (1..n) : LastFirst(g, v, s)
  PROVE  IsSum(g[1..n], v, 1..n)
<1>1. PICK c : c = [s \in SUBSET (1..n) |-> Max(s)]
  OBVIOUS
<1>2. g[{}] = 0 /\ \A s \in SUBSET (1..n) : s # {} => g[s] = g[s \ {c[s]}] + v[c[s]]
  BY <1>1 DEF LastFirst
<1>3. Iterates(g, v, c, 1..n)
  BY <1>2 DEF Iterates
<1>4. Adds(g, v, 1..n)
  BY <1>1, <1>3, MaxChooses, TakerAdds
<1> QED
  BY <1>4 DEF IsSum

\* The columns of the rows, and the places they have.
Throughputs(rows) == [i \in DOMAIN rows |-> rows[i].throughput]
Goodputs(rows) == [i \in DOMAIN rows |-> rows[i].goodput]

LEMMA Columns ==
  ASSUME NEW rows \in Seq(RatePair)
  PROVE  /\ Len(rows) \in Nat /\ DOMAIN rows = 1..Len(rows)
         /\ Values(Throughputs(rows), 1..Len(rows))
         /\ Values(Goodputs(rows), 1..Len(rows))
<1>1. Len(rows) \in Nat /\ DOMAIN rows = 1..Len(rows)
  OBVIOUS
<1>2. \A i \in 1..Len(rows) : rows[i] \in RatePair
  OBVIOUS
<1> QED
  BY <1>1, <1>2 DEF Values, Throughputs, Goodputs, RatePair

\* The folds add up the columns.
LEMMA ThroughputIsSum ==
  ASSUME NEW rows \in Seq(RatePair)
  PROVE  IsSum(ThroughputOf(rows), Throughputs(rows), 1..Len(rows))
<1>1. PICK n \in Nat : n = Len(rows) /\ DOMAIN rows = 1..n
  BY Columns
<1>2. PICK v : v = Throughputs(rows)
  OBVIOUS
<1> DEFINE Is(g) == g = [s \in SUBSET (1..n) |->
                           IF s = {} THEN 0 ELSE g[s \ {Max(s)}] + rows[Max(s)].throughput]
<1>3. \A s \in SUBSET (1..n) : s # {} => v[Max(s)] = rows[Max(s)].throughput
  BY <1>1, <1>2, LastPlace DEF Throughputs
<1>4. \E g : Is(g)
  <2>1. PICK g \in [SUBSET (1..n) -> Int] : \A s \in SUBSET (1..n) : LastFirst(g, v, s)
    BY <1>1, <1>2, Columns, LastFirstExists
  <2>2. Is(g)
    BY <1>3, <2>1 DEF LastFirst
  <2> QED
    BY <2>2
<1>5. PICK g : g = (CHOOSE h : Is(h))
  OBVIOUS
<1>6. Is(g)
  <2> HIDE DEF Is
  <2> QED
    BY <1>4, <1>5
<1>7. ThroughputOf(rows) = g[1..n]
  BY <1>1, <1>5 DEF ThroughputOf, FoldLeft, MapThenFoldSet
<1>8. g = [s \in SUBSET (1..n) |-> g[s]] /\ \A s \in SUBSET (1..n) : LastFirst(g, v, s)
  BY <1>3, <1>6 DEF LastFirst
<1>9. Values(v, 1..n)
  BY <1>1, <1>2, Columns
<1>10. IsSum(g[1..n], v, 1..n)
  BY <1>8, <1>9, LastFirstIsSum
<1> QED
  BY <1>1, <1>2, <1>7, <1>10

LEMMA GoodputIsSum ==
  ASSUME NEW rows \in Seq(RatePair)
  PROVE  IsSum(GoodputOf(rows), Goodputs(rows), 1..Len(rows))
<1>1. PICK n \in Nat : n = Len(rows) /\ DOMAIN rows = 1..n
  BY Columns
<1>2. PICK v : v = Goodputs(rows)
  OBVIOUS
<1> DEFINE Is(g) == g = [s \in SUBSET (1..n) |->
                           IF s = {} THEN 0 ELSE g[s \ {Max(s)}] + rows[Max(s)].goodput]
<1>3. \A s \in SUBSET (1..n) : s # {} => v[Max(s)] = rows[Max(s)].goodput
  BY <1>1, <1>2, LastPlace DEF Goodputs
<1>4. \E g : Is(g)
  <2>1. PICK g \in [SUBSET (1..n) -> Int] : \A s \in SUBSET (1..n) : LastFirst(g, v, s)
    BY <1>1, <1>2, Columns, LastFirstExists
  <2>2. Is(g)
    BY <1>3, <2>1 DEF LastFirst
  <2> QED
    BY <2>2
<1>5. PICK g : g = (CHOOSE h : Is(h))
  OBVIOUS
<1>6. Is(g)
  <2> HIDE DEF Is
  <2> QED
    BY <1>4, <1>5
<1>7. GoodputOf(rows) = g[1..n]
  BY <1>1, <1>5 DEF GoodputOf, FoldLeft, MapThenFoldSet
<1>8. g = [s \in SUBSET (1..n) |-> g[s]] /\ \A s \in SUBSET (1..n) : LastFirst(g, v, s)
  BY <1>3, <1>6 DEF LastFirst
<1>9. Values(v, 1..n)
  BY <1>1, <1>2, Columns
<1>10. IsSum(g[1..n], v, 1..n)
  BY <1>8, <1>9, LastFirstIsSum
<1> QED
  BY <1>1, <1>2, <1>7, <1>10

LEMMA SumsAreIntegers ==
  ASSUME NEW rows \in Seq(RatePair)
  PROVE  Len(rows) \in Nat /\ ThroughputOf(rows) \in Int /\ GoodputOf(rows) \in Int
<1>1. Len(rows) \in Nat
  BY Columns
<1>2. \A t, v : IsSum(t, v, 1..Len(rows)) => t \in Int
  BY DEF IsSum, Adds
<1> QED
  BY <1>1, <1>2, ThroughputIsSum, GoodputIsSum

\* Behind a row, rows of zeros add nothing.
LEMMA SumWithZeros ==
  ASSUME NEW n \in Nat, NEW m \in Nat, NEW v, Values(v, 1..n), NEW w, w[n + 1] \in Int,
         \A i \in 1..n : w[i] = v[i],
         \A i \in (n + 2)..(n + 1 + m) : w[i] = 0,
         NEW t, IsSum(t, v, 1..n)
  PROVE  t \in Int /\ IsSum(t + w[n + 1], w, 1..(n + 1 + m))
<1> DEFINE K == {k \in Nat : k <= m => IsSum(t + w[n + 1], w, 1..(n + 1 + k))}
<1>0. t \in Int /\ IsSum(t + w[n + 1], w, (1..n) \cup {n + 1})
  <2>1. IsFiniteSet(1..n) /\ n + 1 \notin 1..n
    BY FS_Interval
  <2> QED
    BY <2>1, SumWith
<1>1. 0 \in K
  <2>1. (1..n) \cup {n + 1} = 1..(n + 1 + 0)
    OBVIOUS
  <2> QED
    BY <1>0, <2>1
<1>2. ASSUME NEW k \in K PROVE k + 1 \in K
  <2>1. k \in Nat /\ k + 1 \in Nat
    OBVIOUS
  <2>2. ASSUME k + 1 <= m PROVE IsSum(t + w[n + 1], w, 1..(n + 1 + (k + 1)))
    <3> DEFINE S == 1..(n + 1 + k)
               y == n + 2 + k
               total == t + w[n + 1]
    <3>1. IsSum(total, w, S)
      BY <2>1, <2>2
    <3>2. IsFiniteSet(S) /\ y \notin S /\ S \cup {y} = 1..(n + 1 + (k + 1))
      <4>1. IsFiniteSet(S)
        <5>1. n + 1 + k \in Int /\ 1 \in Int
          BY <2>1
        <5> QED
          BY <5>1, FS_Interval
      <4>2. \A i : i \in S \cup {y} <=> i \in 1..(n + 1 + (k + 1))
        BY <2>1
      <4>3. y \notin S
        BY <2>1
      <4> QED
        BY <4>1, <4>2, <4>3
    <3>3. w[y] = 0 /\ w[y] \in Int /\ \A x \in S : w[x] = w[x]
      <4>1. y \in (n + 2)..(n + 1 + m)
        BY <2>1, <2>2
      <4> HIDE DEF y
      <4> QED
        BY <4>1
    <3>4. Values(w, S)
      <4>1. ASSUME NEW i \in S PROVE w[i] \in Int
        <5>1. i \in 1..n \/ i = n + 1 \/ i \in (n + 2)..(n + 1 + m)
          BY <2>1, <2>2
        <5>2. i \in 1..n => v[i] \in Int
          BY DEF Values
        <5> QED
          BY <5>1, <5>2
      <4> QED
        BY <4>1 DEF Values
    <3>5. total \in Int /\ total + 0 = total
      BY <1>0
    <3> HIDE DEF S, y, total
    <3>6. IsSum(total + w[y], w, S \cup {y})
      BY <3>1, <3>2, <3>3, <3>4, SumWith
    <3>7. IsSum(total, w, 1..(n + 1 + (k + 1)))
      BY <3>2, <3>3, <3>5, <3>6
    <3> QED
      BY <3>7 DEF total
  <2> QED
    BY <2>1, <2>2
<1>3. K = Nat
  <2> HIDE DEF K
  <2>1. K \in SUBSET Nat
    BY DEF K
  <2> QED
    BY <1>1, <1>2, <2>1, NatSet
<1>4. m \in K
  BY <1>3
<1> QED
  BY <1>0, <1>4

\* What take_sample adds to the integrals: what its first row carries.
LEMMA SampleAdds ==
  ASSUME NEW rows \in Seq(RatePair), NEW more \in Seq(RatePair), Len(more) > 0,
         \A i \in 2..Len(more) : more[i].throughput = 0 /\ more[i].goodput = 0
  PROVE  /\ ThroughputOf(rows) \in Int /\ GoodputOf(rows) \in Int
         /\ ThroughputOf(rows \o more) = ThroughputOf(rows) + more[1].throughput
         /\ GoodputOf(rows \o more) = GoodputOf(rows) + more[1].goodput
<1>1. PICK all : all = rows \o more
  OBVIOUS
<1>2. PICK n \in Nat, m \in Nat : n = Len(rows) /\ m = Len(more) - 1
  <2>1. Len(rows) \in Nat /\ Len(more) - 1 \in Nat
    OBVIOUS
  <2> QED
    BY <2>1
<1>3. all \in Seq(RatePair) /\ Len(all) = n + 1 + m
  BY <1>1, <1>2
<1>4. /\ \A i \in 1..n : all[i] = rows[i]
      /\ all[n + 1] = more[1]
      /\ \A i \in (n + 2)..(n + 1 + m) : i - n \in 2..Len(more) /\ all[i] = more[i - n]
  BY <1>1, <1>2
<1>5. more[1] \in RatePair /\ DOMAIN all = 1..(n + 1 + m) /\ DOMAIN rows = 1..n
  BY <1>2, <1>3
<1>6. IsFiniteSet(1..(n + 1 + m))
  BY FS_Interval
<1>7. ThroughputOf(rows) \in Int /\ ThroughputOf(all) = ThroughputOf(rows) + more[1].throughput
  <2>1. PICK v : v = Throughputs(rows)
    OBVIOUS
  <2>2. PICK w : w = Throughputs(all)
    OBVIOUS
  <2>3. Values(v, 1..n) /\ Values(w, 1..(n + 1 + m))
    BY <1>2, <1>3, <2>1, <2>2, Columns
  <2>4. /\ \A i \in 1..n : w[i] = v[i]
        /\ w[n + 1] = more[1].throughput /\ w[n + 1] \in Int
        /\ \A i \in (n + 2)..(n + 1 + m) : w[i] = 0
    <3>1. \A i \in 1..(n + 1 + m) : w[i] = all[i].throughput
      BY <1>5, <2>2 DEF Throughputs
    <3>2. \A i \in 1..n : w[i] = v[i]
      <4>1. \A i \in 1..n : i \in 1..(n + 1 + m) /\ v[i] = rows[i].throughput
        BY <1>5, <2>1 DEF Throughputs
      <4> QED
        BY <1>4, <3>1, <4>1
    <3>3. w[n + 1] = more[1].throughput /\ w[n + 1] \in Int
      <4>1. n + 1 \in 1..(n + 1 + m) /\ more[1].throughput \in Nat
        BY <1>5 DEF RatePair
      <4> QED
        BY <1>4, <3>1, <4>1
    <3>4. \A i \in (n + 2)..(n + 1 + m) : w[i] = 0
      <4>1. \A i \in (n + 2)..(n + 1 + m) : i \in 1..(n + 1 + m)
        OBVIOUS
      <4>2. \A i \in 2..Len(more) : more[i].throughput = 0
        OBVIOUS
      <4> QED
        BY <1>4, <3>1, <4>1, <4>2
    <3> QED
      BY <3>2, <3>3, <3>4
  <2>5. IsSum(ThroughputOf(rows), v, 1..n) /\ IsSum(ThroughputOf(all), w, 1..(n + 1 + m))
    BY <1>2, <1>3, <2>1, <2>2, ThroughputIsSum
  <2>6. /\ ThroughputOf(rows) \in Int
        /\ IsSum(ThroughputOf(rows) + w[n + 1], w, 1..(n + 1 + m))
    BY <2>3, <2>4, <2>5, SumWithZeros
  <2>7. ThroughputOf(all) = ThroughputOf(rows) + w[n + 1]
    BY <1>6, <2>3, <2>5, <2>6, SumIsUnique
  <2> QED
    BY <2>4, <2>6, <2>7
<1>8. GoodputOf(rows) \in Int /\ GoodputOf(all) = GoodputOf(rows) + more[1].goodput
  <2>1. PICK v : v = Goodputs(rows)
    OBVIOUS
  <2>2. PICK w : w = Goodputs(all)
    OBVIOUS
  <2>3. Values(v, 1..n) /\ Values(w, 1..(n + 1 + m))
    BY <1>2, <1>3, <2>1, <2>2, Columns
  <2>4. /\ \A i \in 1..n : w[i] = v[i]
        /\ w[n + 1] = more[1].goodput /\ w[n + 1] \in Int
        /\ \A i \in (n + 2)..(n + 1 + m) : w[i] = 0
    <3>1. \A i \in 1..(n + 1 + m) : w[i] = all[i].goodput
      BY <1>5, <2>2 DEF Goodputs
    <3>2. \A i \in 1..n : w[i] = v[i]
      <4>1. \A i \in 1..n : i \in 1..(n + 1 + m) /\ v[i] = rows[i].goodput
        BY <1>5, <2>1 DEF Goodputs
      <4> QED
        BY <1>4, <3>1, <4>1
    <3>3. w[n + 1] = more[1].goodput /\ w[n + 1] \in Int
      <4>1. n + 1 \in 1..(n + 1 + m) /\ more[1].goodput \in Nat
        BY <1>5 DEF RatePair
      <4> QED
        BY <1>4, <3>1, <4>1
    <3>4. \A i \in (n + 2)..(n + 1 + m) : w[i] = 0
      <4>1. \A i \in (n + 2)..(n + 1 + m) : i \in 1..(n + 1 + m)
        OBVIOUS
      <4>2. \A i \in 2..Len(more) : more[i].goodput = 0
        OBVIOUS
      <4> QED
        BY <1>4, <3>1, <4>1, <4>2
    <3> QED
      BY <3>2, <3>3, <3>4
  <2>5. IsSum(GoodputOf(rows), v, 1..n) /\ IsSum(GoodputOf(all), w, 1..(n + 1 + m))
    BY <1>2, <1>3, <2>1, <2>2, GoodputIsSum
  <2>6. /\ GoodputOf(rows) \in Int
        /\ IsSum(GoodputOf(rows) + w[n + 1], w, 1..(n + 1 + m))
    BY <2>3, <2>4, <2>5, SumWithZeros
  <2>7. GoodputOf(all) = GoodputOf(rows) + w[n + 1]
    BY <1>6, <2>3, <2>5, <2>6, SumIsUnique
  <2> QED
    BY <2>4, <2>6, <2>7
<1> QED
  BY <1>1, <1>7, <1>8

-----------------------------------------------------------------------------
(* Types. *)

\* The rows of take_sample.
LEMMA SamplesRows ==
  ASSUME TypeOK, NEW t \in Word, NEW n \in Nat \ {0}
  PROVE  /\ Samples(t, n) \in Seq(RatePair) /\ Len(Samples(t, n)) = n
         /\ Samples(t, n)[1].throughput = PerSecond(sample_bytes)
         /\ Samples(t, n)[1].goodput = PerSecond(sample_tcp_bytes)
         /\ \A i \in 2..n : Samples(t, n)[i].throughput = 0 /\ Samples(t, n)[i].goodput = 0
<1>1. PICK first : first = [time |-> t, throughput |-> PerSecond(sample_bytes),
                            goodput |-> PerSecond(sample_tcp_bytes)]
  OBVIOUS
<1>2. PICK idle : idle = [i \in 1..(n - 1) |-> [time |-> t, throughput |-> 0, goodput |-> 0]]
  OBVIOUS
<1>3. PerSecond(sample_bytes) \in Nat /\ PerSecond(sample_tcp_bytes) \in Nat
  <2>1. \A x \in Nat, d \in Nat \ {0} : x \div d \in Nat
    BY SMT
  <2>2. sample_bytes * USECS \in Nat /\ sample_tcp_bytes * USECS \in Nat
    <3>1. \A x, y \in Nat : x * y \in Nat
      BY SMT
    <3> QED
      BY <3>1, ClockAssumption DEF TypeOK
  <2> QED
    BY <2>1, <2>2, RateIsPositive DEF PerSecond, R
<1>4. first \in RatePair
  BY <1>1, <1>3 DEF RatePair
<1>5. idle \in Seq(RatePair) /\ Len(idle) = n - 1
  <2>1. [time |-> t, throughput |-> 0, goodput |-> 0] \in RatePair
    BY DEF RatePair
  <2> QED
    BY <1>2, <2>1
<1>6. Samples(t, n) = <<first>> \o idle
  BY <1>1, <1>2 DEF Samples
<1>7. <<first>> \o idle \in Seq(RatePair) /\ Len(<<first>> \o idle) = n
      /\ (<<first>> \o idle)[1] = first
      /\ \A i \in 2..n : (<<first>> \o idle)[i] = idle[i - 1]
  BY <1>4, <1>5
<1>8. \A i \in 2..n : idle[i - 1].throughput = 0 /\ idle[i - 1].goodput = 0
  BY <1>2
<1> QED
  BY <1>1, <1>6, <1>7, <1>8

\* The time a packet is measured from, and the periods since then.
Since(time) == IF num_packets = 0 THEN from_usec(time) ELSE last_sample_t
Passed(time) == Div(Minus(from_usec(time), Since(time)), sampling_rate)

LEMMA PassedIsNat ==
  ASSUME TypeOK, NEW time \in Nat
  PROVE  from_usec(time) \in Word /\ Since(time) \in Word /\ Passed(time) \in Nat
<1>1. from_usec(time) \in Word
  BY FromUsec, PackedIsWord
<1>2. Since(time) \in Word
  BY <1>1 DEF Since, TypeOK
<1> QED
  BY <1>1, <1>2, MinusIsWord, PeriodsPassed DEF Passed

LEMMA AddPacket ==
  ASSUME NEW pkt, NEW time, add_packet(pkt, time)
  PROVE  /\ sample(Since(time), from_usec(time), Passed(time))
         /\ num_packets' = num_packets + 1
         /\ bytes' = bytes + pkt.datagram_len
         /\ tcp_bytes' = tcp_bytes + pkt.tcp_data_len
         /\ sample_bytes' = Carried(Passed(time), sample_bytes) + pkt.datagram_len
         /\ sample_tcp_bytes' = Carried(Passed(time), sample_tcp_bytes) + pkt.tcp_data_len
BY DEF add_packet, Since, Passed

LEMMA TypeInit == Init => TypeOK
<1>1. from_usec(0) \in Word
  BY FromUsec, PackedIsWord
<1> QED
  BY <1>1, SamplingAssumption DEF Init, TypeOK

LEMMA TypeStep ==
  ASSUME TypeOK, [Next]_vars
  PROVE  TypeOK'
<1>1. CASE UNCHANGED vars
  BY <1>1 DEF vars, TypeOK
<1>2. CASE Next
  <2>1. PICK pkt \in Packets, gap \in Gaps :
          /\ num_packets < MaxPackets
          /\ clock' = clock + gap
          /\ start' = IF num_packets = 0 THEN clock' ELSE start
          /\ add_packet(pkt, clock')
    BY <1>2 DEF Next
  <2>2. /\ pkt.datagram_len \in Nat /\ pkt.tcp_data_len \in Nat /\ gap \in Nat
        /\ clock' \in Nat /\ start' \in Nat
    BY <2>1, SamplingAssumption DEF TypeOK
  <2>3. PICK time \in Nat : time = clock'
    BY <2>2
  <2>4. PICK m \in Nat : m = Passed(time)
    BY PassedIsNat
  <2>5. /\ sample(Since(time), from_usec(time), m)
        /\ num_packets' = num_packets + 1
        /\ bytes' = bytes + pkt.datagram_len
        /\ tcp_bytes' = tcp_bytes + pkt.tcp_data_len
        /\ sample_bytes' = Carried(m, sample_bytes) + pkt.datagram_len
        /\ sample_tcp_bytes' = Carried(m, sample_tcp_bytes) + pkt.tcp_data_len
    BY <2>1, <2>3, <2>4, AddPacket
  <2>6. Carried(m, sample_bytes) \in Nat /\ Carried(m, sample_tcp_bytes) \in Nat
    BY DEF Carried, TypeOK
  <2>7. rates' \in Seq(RatePair) /\ last_sample_t' \in Word
    <3>1. from_usec(time) \in Word /\ Since(time) \in Word
      BY PassedIsNat
    <3>2. CASE m = 0
      BY <2>5, <3>1, <3>2 DEF sample, TypeOK
    <3>3. CASE m # 0
      <4>1. Samples(from_usec(time), m) \in Seq(RatePair) /\ rates \in Seq(RatePair)
        BY <3>1, <3>3, SamplesRows DEF TypeOK
      <4>2. Times(m, sampling_rate) \in Word
        <5>1. m * R \in Int
          BY RateIsPositive
        <5> QED
          BY <5>1, FromUsec, PackedIsWord DEF Times, R
      <4>3. Plus(Since(time), Times(m, sampling_rate)) \in Word
        BY <3>1, <4>2, PlusIsWord
      <4>4. /\ rates' = rates \o Samples(from_usec(time), m)
            /\ last_sample_t' = Plus(Since(time), Times(m, sampling_rate))
        BY <2>5, <3>3, Zenon DEF sample
      <4>5. rates \o Samples(from_usec(time), m) \in Seq(RatePair)
        BY <4>1
      <4> QED
        BY <4>3, <4>4, <4>5
    <3> QED
      BY <3>2, <3>3
  <2>8. num_packets' \in 0..MaxPackets
    BY <2>1, <2>5, SamplingAssumption DEF TypeOK
  <2>9. bytes' \in Nat /\ tcp_bytes' \in Nat
    <3>1. bytes \in Nat /\ tcp_bytes \in Nat
      BY DEF TypeOK
    <3> QED
      BY <2>2, <2>5, <3>1
  <2>10. sample_bytes' \in Nat /\ sample_tcp_bytes' \in Nat
    BY <2>2, <2>5, <2>6
  <2> QED
    BY <2>2, <2>7, <2>8, <2>9, <2>10 DEF TypeOK
<1> QED
  BY <1>1, <1>2

-----------------------------------------------------------------------------
(* Every byte is in a sample, or waits for one. *)

\* A sample takes what waited, and rounds down.
LEMMA SampleRounds ==
  ASSUME NEW r \in Nat \ {0}, NEW u \in Nat, NEW sum \in Int, NEW len \in Nat,
         NEW m \in Nat \ {0}, NEW total \in Nat, NEW latest \in Nat,
         sum * r <= (total - latest) * u,
         (total - latest) * u <= sum * r + len * (r - 1)
  PROVE  LET p == (latest * u) \div r
         IN  /\ (sum + p) * r <= total * u
             /\ total * u <= (sum + p) * r + (len + m) * (r - 1)
<1> DEFINE x == latest * u
           p == x \div r
           rest == x % r
<1>1. x \in Nat
  <2>1. \A a, b \in Nat : a * b \in Nat
    BY SMT
  <2> QED
    BY <2>1
<1>2. p \in Int /\ rest \in 0..(r - 1) /\ x = r * p + rest
  <2>1. x \in Int
    BY <1>1
  <2> HIDE DEF x
  <2> QED
    BY <2>1, DivMod, Zenon
<1>3. total * u = (total - latest) * u + x
  BY SMT
<1>4. (sum + p) * r = sum * r + r * p
  BY <1>2, SMT
<1>5. (len + m) * (r - 1) >= len * (r - 1) + (r - 1)
  <2>1. (len + m) * (r - 1) = len * (r - 1) + m * (r - 1)
    BY SMT
  <2>2. (m - 1) * (r - 1) >= 0 /\ m * (r - 1) = (m - 1) * (r - 1) + (r - 1)
    <3>1. \A a, b \in Nat : a * b >= 0
      BY SMT
    <3>2. m - 1 \in Nat /\ r - 1 \in Nat
      BY SMT
    <3>3. m * (r - 1) = (m - 1) * (r - 1) + (r - 1)
      BY SMT
    <3> QED
      BY <3>1, <3>2, <3>3
  <2>3. len * (r - 1) \in Int /\ m * (r - 1) \in Int
    BY SMT
  <2> QED
    BY <2>1, <2>2, <2>3, SMT
<1> SUFFICES /\ (sum + p) * r <= total * u
             /\ total * u <= (sum + p) * r + (len + m) * (r - 1)
  OBVIOUS
<1> HIDE DEF x, p, rest
<1>6. PICK a \in Int : a = sum * r
  BY SMT
<1>7. PICK b \in Int : b = (total - latest) * u
  BY SMT
<1>8. PICK c \in Int : c = r * p
  BY <1>2, SMT
<1>9. PICK d \in Int : d = len * (r - 1)
  BY SMT
<1>10. PICK e \in Int : e = (len + m) * (r - 1)
  BY SMT
<1>11. /\ a <= b /\ b <= a + d /\ x = c + rest /\ e >= d + (r - 1)
       /\ total * u = b + x /\ (sum + p) * r = a + c
  BY <1>2, <1>3, <1>4, <1>5, <1>6, <1>7, <1>8, <1>9, <1>10
<1> QED
  BY <1>1, <1>2, <1>10, <1>11

\* One of the two counts of a direction, its sum after a sample of its rate.
Counted(total, latest, sum, len) ==
  /\ sum * R <= (total - latest) * USECS
  /\ (total - latest) * USECS <= sum * R + len * (R - 1)

LEMMA CountedIsAccounted ==
  BytesAccounted <=> /\ Counted(bytes, sample_bytes, ThroughputOf(rates), Len(rates))
                     /\ Counted(tcp_bytes, sample_tcp_bytes, GoodputOf(rates), Len(rates))
BY IntegralsOfRates DEF BytesAccounted, Accounted, Counted, R

\* A packet of len bytes after m periods.
LEMMA CountedStep ==
  ASSUME NEW total \in Nat, NEW latest \in Nat, NEW sum \in Int, NEW n \in Nat,
         Counted(total, latest, sum, n), NEW m \in Nat, NEW len \in Nat
  PROVE  IF m = 0
         THEN Counted(total + len, Carried(m, latest) + len, sum, n)
         ELSE Counted(total + len, Carried(m, latest) + len, sum + PerSecond(latest), n + m)
<1>1. USECS \in Nat /\ R \in Nat \ {0}
  BY ClockAssumption, RateIsPositive
<1>2. CASE m = 0
  <2>1. Carried(m, latest) = latest
    BY <1>2 DEF Carried
  <2>2. (total + len) - (latest + len) = total - latest
    OBVIOUS
  <2> QED
    BY <1>2, <2>1, <2>2 DEF Counted
<1>3. CASE m # 0
  <2>1. Carried(m, latest) = 0
    BY <1>3 DEF Carried
  <2>2. (total + len) - (0 + len) = total
    OBVIOUS
  <2>3. /\ sum * R <= (total - latest) * USECS
        /\ (total - latest) * USECS <= sum * R + n * (R - 1)
        /\ m \in Nat \ {0}
    BY <1>3 DEF Counted
  <2>4. /\ (sum + ((latest * USECS) \div R)) * R <= total * USECS
        /\ total * USECS <= (sum + ((latest * USECS) \div R)) * R + (n + m) * (R - 1)
    BY <1>1, <2>3, SampleRounds
  <2>5. PerSecond(latest) = (latest * USECS) \div R
    BY DEF PerSecond, R
  <2> QED
    BY <1>3, <2>1, <2>2, <2>4, <2>5 DEF Counted
<1> QED
  BY <1>2, <1>3

\* Samples are counted as the rows they add.
LEMMA AccountedStep ==
  ASSUME TypeOK, TypeOK', BytesAccounted, [Next]_vars
  PROVE  BytesAccounted'
<1> DEFINE Both(b, s, tb, ts, rows) == /\ Counted(b, s, ThroughputOf(rows), Len(rows))
                                       /\ Counted(tb, ts, GoodputOf(rows), Len(rows))
<1>0. /\ Both(bytes, sample_bytes, tcp_bytes, sample_tcp_bytes, rates)
      /\ BytesAccounted' <=> Both(bytes', sample_bytes', tcp_bytes', sample_tcp_bytes', rates')
  <2>1. BytesAccounted <=> Both(bytes, sample_bytes, tcp_bytes, sample_tcp_bytes, rates)
    BY CountedIsAccounted
  <2>2. BytesAccounted' <=> Both(bytes, sample_bytes, tcp_bytes, sample_tcp_bytes, rates)'
    BY <2>1, CountedIsAccounted, PTL
  <2> QED
    BY <2>1, <2>2
<1>1. CASE UNCHANGED vars
  BY <1>0, <1>1 DEF vars
<1>2. CASE Next
  <2>1. PICK pkt \in Packets, gap \in Gaps :
          clock' = clock + gap /\ add_packet(pkt, clock')
    BY <1>2 DEF Next
  <2>2. PICK time \in Nat : time = clock'
    BY DEF TypeOK
  <2>3. PICK m \in Nat : m = Passed(time)
    BY PassedIsNat
  <2>4. /\ sample(Since(time), from_usec(time), m)
        /\ bytes' = bytes + pkt.datagram_len
        /\ tcp_bytes' = tcp_bytes + pkt.tcp_data_len
        /\ sample_bytes' = Carried(m, sample_bytes) + pkt.datagram_len
        /\ sample_tcp_bytes' = Carried(m, sample_tcp_bytes) + pkt.tcp_data_len
    BY <2>1, <2>2, <2>3, AddPacket
  <2>5. /\ pkt.datagram_len \in Nat /\ pkt.tcp_data_len \in Nat
        /\ bytes \in Nat /\ tcp_bytes \in Nat
        /\ sample_bytes \in Nat /\ sample_tcp_bytes \in Nat
        /\ rates \in Seq(RatePair)
    BY SamplingAssumption DEF TypeOK
  <2>6. Len(rates) \in Nat /\ ThroughputOf(rates) \in Int /\ GoodputOf(rates) \in Int
    BY <2>5, SumsAreIntegers
  <2>7. /\ IF m = 0
           THEN Counted(bytes', sample_bytes', ThroughputOf(rates), Len(rates))
           ELSE Counted(bytes', sample_bytes',
                        ThroughputOf(rates) + PerSecond(sample_bytes), Len(rates) + m)
        /\ IF m = 0
           THEN Counted(tcp_bytes', sample_tcp_bytes', GoodputOf(rates), Len(rates))
           ELSE Counted(tcp_bytes', sample_tcp_bytes',
                        GoodputOf(rates) + PerSecond(sample_tcp_bytes), Len(rates) + m)
    BY <1>0, <2>4, <2>5, <2>6, CountedStep
  <2>8. CASE m = 0
    <3>1. rates' = rates
      BY <2>4, <2>8 DEF sample
    <3> QED
      BY <1>0, <2>7, <2>8, <3>1
  <2>9. CASE m # 0
    <3>1. PICK more : more = Samples(from_usec(time), m)
      OBVIOUS
    <3>2. rates' = rates \o more
      BY <2>4, <2>9, <3>1 DEF sample
    <3>3. /\ more \in Seq(RatePair) /\ Len(more) = m
          /\ more[1].throughput = PerSecond(sample_bytes)
          /\ more[1].goodput = PerSecond(sample_tcp_bytes)
          /\ \A i \in 2..m : more[i].throughput = 0 /\ more[i].goodput = 0
      <4>1. from_usec(time) \in Word /\ m \in Nat \ {0}
        BY <2>9, PassedIsNat
      <4> QED
        BY <3>1, <4>1, SamplesRows
    <3>4. /\ ThroughputOf(rates') = ThroughputOf(rates) + PerSecond(sample_bytes)
          /\ GoodputOf(rates') = GoodputOf(rates) + PerSecond(sample_tcp_bytes)
      <4>1. Len(more) > 0
        BY <2>9, <3>3
      <4> QED
        BY <2>5, <3>2, <3>3, <4>1, SampleAdds
    <3>5. Len(rates') = Len(rates) + m
      <4>1. rates \in Seq(RatePair) /\ more \in Seq(RatePair)
        BY <2>5, <3>3
      <4>2. Len(rates \o more) = Len(rates) + Len(more)
        BY <4>1
      <4> QED
        BY <3>2, <3>3, <4>2
    <3> QED
      BY <1>0, <2>7, <2>9, <3>4, <3>5
  <2> QED
    BY <2>8, <2>9
<1> QED
  BY <1>1, <1>2

LEMMA AccountedInit == Init => BytesAccounted
<1> SUFFICES ASSUME Init PROVE BytesAccounted
  OBVIOUS
<1>1. rates = <<>> /\ rates \in Seq(RatePair) /\ Len(rates) = 0
  BY DEF Init
<1>2. ThroughputOf(rates) = 0 /\ GoodputOf(rates) = 0
  <2>1. 1..Len(rates) = {} /\ IsFiniteSet({})
    BY <1>1, FS_EmptySet
  <2>2. \A v : IsSum(0, v, {}) /\ Values(v, {})
    BY SumOfNone DEF Values
  <2>3. IsSum(ThroughputOf(rates), Throughputs(rates), {})
        /\ IsSum(GoodputOf(rates), Goodputs(rates), {})
    BY <1>1, <2>1, ThroughputIsSum, GoodputIsSum
  <2> QED
    BY <2>1, <2>2, <2>3, SumIsUnique
<1>3. \A r \in Nat, u \in Nat : 0 * r <= (0 - 0) * u /\ (0 - 0) * u <= 0 * r + 0 * (r - 1)
  BY SMT
<1>4. R \in Nat /\ USECS \in Nat
  BY RateIsPositive, ClockAssumption
<1>5. Counted(0, 0, 0, 0)
  BY <1>3, <1>4 DEF Counted
<1>6. bytes = 0 /\ sample_bytes = 0 /\ tcp_bytes = 0 /\ sample_tcp_bytes = 0
  BY DEF Init
<1> QED
  BY <1>1, <1>2, <1>5, <1>6, CountedIsAccounted

\* However packets share periods or leave them idle, whatever the rate, and however the
\* clock turns (add_packet and take_sample in FlowDirection.cpp): the rows of a rate say
\* what was carried, less what rounding each of them down can lose, and the counters of
\* the current period hold the rest.
THEOREM AllBytesAccounted == Spec => []BytesAccounted
BY TypeInit, TypeStep, AccountedInit, AccountedStep, PTL DEF Spec

-----------------------------------------------------------------------------
(* A row for each period, at a rate of whole seconds. *)

\* A rate of whole seconds, at which the packed clock tells a gap between two packets and
\* the rest of a period before it.  At a rate with a fraction of a second operator+
\* misses carries, and there are too few or too many rows (run fifth).
WholeSeconds ==
  /\ sampling_rate.usec = 0
  /\ \A gap \in Gaps : gap + R <= SECS * USECS

\* The end of the last sampled period is so many periods after the first packet, and the
\* clock is within the period that follows.
Sampled(last, q) ==
  /\ last = Packed(start + q * R)
  /\ start + q * R <= clock /\ clock < start + q * R + R

SampledInv ==
  IF num_packets = 0 THEN rates = <<>> ELSE Sampled(last_sample_t, Len(rates))

\* The periods that have passed when a packet comes later than the last sample.
LEMMA PeriodsSince ==
  ASSUME WholeSeconds, NEW last \in Int, NEW time \in Int,
         time - last \in 0..(SECS * USECS - 1)
  PROVE  LET m == Div(Minus(from_usec(time), Packed(last)), sampling_rate)
         IN  /\ m \in Nat
             /\ last + m * R <= time /\ time < last + m * R + R
             /\ Plus(Packed(last), Times(m, sampling_rate)) = Packed(last + m * R)
<1>1. R \in Nat \ {0}
  BY RateIsPositive
<1> DEFINE d == time - last
           m == Div(Minus(from_usec(time), Packed(last)), sampling_rate)
<1>2. Minus(from_usec(time), Packed(last)) = from_usec(d)
  <2>1. d \in Int
    OBVIOUS
  <2> QED
    BY <2>1, FromUsec, MinusIsExact
<1>3. m = d \div R
  BY <1>2, ToUsecFromUsec DEF Div, R
<1>4. d \in Nat
  <2>1. SECS * USECS - 1 \in Int
    BY ClockAssumption, SMT
  <2> QED
    BY <2>1
<1>5. m \in Nat /\ d % R \in 0..(R - 1) /\ d = R * m + (d % R)
  <2> HIDE DEF d, m
  <2>1. \A x \in Nat, n \in Nat \ {0} : x \div n \in Nat
    BY SMT
  <2>2. d \div R \in Nat /\ d % R \in 0..(R - 1) /\ d = R * (d \div R) + (d % R)
    <3>1. d \in Int
      BY <1>4
    <3> QED
      BY <1>1, <1>4, <2>1, <3>1, DivMod, Zenon
  <2> QED
    BY <1>3, <2>2
<1>6. last + m * R <= time /\ time < last + m * R + R
  <2>1. PICK x \in Int : x = m * R
    <3>1. \A a, b \in Nat : a * b \in Int
      BY SMT
    <3> QED
      BY <1>1, <1>5, <3>1
  <2>2. R * m = x
    BY <1>1, <1>5, <2>1, SMT
  <2> HIDE DEF m
  <2>3. time = last + d
    OBVIOUS
  <2> HIDE DEF d
  <2> QED
    BY <1>1, <1>4, <1>5, <2>1, <2>2, <2>3
<1>7. Plus(Packed(last), Times(m, sampling_rate)) = Packed(last + m * R)
  <2> HIDE DEF m
  <2>1. USECS \in Nat /\ sampling_rate.sec \in Nat /\ sampling_rate.usec = 0
    BY ClockAssumption, SamplingAssumption DEF Word, WholeSeconds
  <2>2. R = sampling_rate.sec * USECS
    BY <2>1, SMT DEF R, to_usec
  <2>3. PICK k \in Int : k = m * sampling_rate.sec
    BY <1>5, <2>1, SMT
  <2>4. m * R = k * USECS
    BY <1>5, <2>1, <2>2, <2>3, SMT
  <2>5. Times(m, sampling_rate) = Packed(k * USECS)
    <3>1. k * USECS \in Int
      BY <2>1, SMT
    <3> QED
      BY <2>4, <3>1, FromUsec DEF Times, R
  <2> QED
    BY <2>4, <2>5, PlusWholeSeconds
<1> QED
  BY <1>5, <1>6, <1>7

\* No time passes before the first packet of a direction.
LEMMA FirstSample ==
  ASSUME NEW time \in Int
  PROVE  Div(Minus(from_usec(time), from_usec(time)), sampling_rate) = 0
<1>1. Minus(from_usec(time), from_usec(time)) = from_usec(0)
  <2>1. time - time = 0 /\ 0 \in Int
    OBVIOUS
  <2> QED
    BY <2>1, FromUsec, MinusIsExact
<1>2. to_usec(from_usec(0)) = 0
  <2>1. 0 \in 0..(SECS * USECS - 1)
    <3>1. \A a, b \in Nat \ {0} : 0 \in 0..(a * b - 1)
      BY SMT
    <3>2. SECS \in Nat \ {0} /\ USECS \in Nat \ {0}
      BY ClockAssumption, SMT
    <3> QED
      BY <3>1, <3>2
  <2> QED
    BY <2>1, ToUsecFromUsec
<1>3. \A n \in Nat \ {0} : 0 \div n = 0
  BY SMT
<1> QED
  BY <1>1, <1>2, <1>3, RateIsPositive DEF Div, R

LEMMA SampledStep ==
  ASSUME WholeSeconds, TypeOK, TypeOK', SampledInv, [Next]_vars
  PROVE  SampledInv'
<1>1. CASE UNCHANGED vars
  BY <1>1 DEF vars, SampledInv, Sampled
<1>2. CASE Next
  <2>1. PICK pkt \in Packets, gap \in Gaps :
          /\ clock' = clock + gap
          /\ start' = IF num_packets = 0 THEN clock' ELSE start
          /\ add_packet(pkt, clock')
    BY <1>2 DEF Next
  <2>2. PICK time \in Nat : time = clock'
    BY DEF TypeOK
  <2>3. PICK m \in Nat : m = Passed(time)
    BY PassedIsNat
  <2>4. sample(Since(time), from_usec(time), m) /\ num_packets' = num_packets + 1
    BY <2>1, <2>2, <2>3, AddPacket
  <2>5. num_packets' # 0 /\ R \in Nat \ {0} /\ clock \in Nat /\ start \in Nat
        /\ gap \in Nat /\ rates \in Seq(RatePair)
    BY <2>4, RateIsPositive, SamplingAssumption DEF TypeOK
  <2>6. CASE num_packets = 0
    <3>1. Since(time) = from_usec(time) /\ m = 0 /\ rates = <<>> /\ start' = time
      BY <2>1, <2>2, <2>3, <2>6, FirstSample DEF Since, Passed, SampledInv
    <3>2. rates' = <<>> /\ Len(rates') = 0 /\ last_sample_t' = Packed(time)
      BY <2>4, <3>1, FromUsec DEF sample
    <3>3. time + 0 * R = time /\ time < time + 0 * R + R
      BY <2>5, SMT
    <3>4. start' + Len(rates') * R = time
      BY <3>1, <3>2, <3>3
    <3>5. time <= time /\ time < time + R
      BY <2>5
    <3>6. Sampled(last_sample_t, Len(rates))'
      BY <2>2, <3>2, <3>4, <3>5 DEF Sampled
    <3> QED
      BY <2>5, <3>6 DEF SampledInv
  <2>7. CASE num_packets # 0
    <3>1. PICK q \in Nat : q = Len(rates)
      BY <2>5
    <3>2. PICK last \in Int : last = start + q * R
      <4>1. \A a, b \in Nat : a * b \in Int
        BY SMT
      <4> QED
        BY <2>5, <4>1
    <3>3. last_sample_t = Packed(last) /\ last <= clock /\ clock < last + R
      BY <2>7, <3>1, <3>2 DEF SampledInv, Sampled
    <3>4. m = Div(Minus(from_usec(time), Packed(last)), sampling_rate)
      BY <2>3, <2>7, <3>3 DEF Passed, Since
    <3>5. time - last \in 0..(SECS * USECS - 1)
      <4>1. PICK reach \in Int : reach = SECS * USECS
        BY ClockAssumption, SMT
      <4>2. gap + R <= reach
        BY <4>1 DEF WholeSeconds
      <4>3. time - last \in 0..(reach - 1)
        BY <2>1, <2>2, <2>5, <3>3, <4>2
      <4> QED
        BY <4>1, <4>3
    <3>6. /\ last + m * R <= time /\ time < last + m * R + R
          /\ Plus(Packed(last), Times(m, sampling_rate)) = Packed(last + m * R)
      BY <3>4, <3>5, PeriodsSince
    <3>7. start' = start /\ start + (q + m) * R = last + m * R
      <4>1. (q + m) * R = q * R + m * R
        BY <2>5, SMT
      <4>2. \A a, b \in Nat : a * b \in Int
        BY SMT
      <4> QED
        BY <2>1, <2>5, <2>7, <3>2, <4>1, <4>2
    <3>8. Len(rates') = q + m /\ last_sample_t' = Packed(last + m * R)
      <4>1. CASE m = 0
        <5>1. rates' = rates /\ last_sample_t' = Packed(last)
          BY <2>4, <2>7, <3>3, <4>1 DEF sample, Since
        <5>2. last + 0 * R = last
          BY <2>5, SMT
        <5> QED
          BY <3>1, <4>1, <5>1, <5>2
      <4>2. CASE m # 0
        <5>1. /\ rates' = rates \o Samples(from_usec(time), m)
              /\ last_sample_t' = Plus(Packed(last), Times(m, sampling_rate))
          BY <2>4, <2>7, <3>3, <4>2 DEF sample, Since
        <5>2. /\ Samples(from_usec(time), m) \in Seq(RatePair)
              /\ Len(Samples(from_usec(time), m)) = m
          <6>1. from_usec(time) \in Word /\ m \in Nat \ {0}
            BY <4>2, PassedIsNat
          <6> QED
            BY <6>1, SamplesRows
        <5>3. Len(rates') = Len(rates) + m
          <6>1. PICK more : more = Samples(from_usec(time), m)
            OBVIOUS
          <6>2. more \in Seq(RatePair) /\ rates \in Seq(RatePair) /\ Len(more) = m
            BY <2>5, <5>2, <6>1
          <6>3. Len(rates \o more) = Len(rates) + m
            BY <6>2
          <6> QED
            BY <5>1, <6>1, <6>3
        <5> QED
          BY <3>1, <3>6, <5>1, <5>3
      <4> QED
        BY <4>1, <4>2
    <3>9. Sampled(last_sample_t, Len(rates))'
      BY <2>2, <3>6, <3>7, <3>8 DEF Sampled
    <3> QED
      BY <2>5, <3>9 DEF SampledInv
  <2> QED
    BY <2>6, <2>7
<1> QED
  BY <1>1, <1>2

\* So the periods between the first packet and the clock are as many as the rows.
LEMMA SampledIsRowPerPeriod ==
  ASSUME TypeOK, SampledInv
  PROVE  RowPerPeriod
<1> SUFFICES ASSUME num_packets > 0
             PROVE  Len(rates) = (clock - start) \div R
  BY DEF RowPerPeriod, R
<1>1. PICK q \in Nat : q = Len(rates)
  BY DEF TypeOK
<1>2. R \in Nat \ {0} /\ clock \in Nat /\ start \in Nat /\ num_packets \in Nat
  BY RateIsPositive, SamplingAssumption DEF TypeOK
<1>3. start + q * R <= clock /\ clock < start + q * R + R
  BY <1>1, <1>2 DEF SampledInv, Sampled
<1>4. PICK x \in Int : x = R * q /\ q * R = x
  BY <1>2, SMT
<1>5. PICK d \in Int : d = clock - start
  BY <1>2
<1>6. d - x \in 0..(R - 1) /\ d = x + (d - x)
  BY <1>2, <1>3, <1>4, <1>5
<1>7. d \div R = q
  <2>1. q \in Int /\ d = R * q + (d - x)
    BY <1>4, <1>6
  <2> QED
    BY <1>2, <1>5, <1>6, <2>1, DivModUnique
<1> QED
  BY <1>1, <1>5, <1>7

\* One row for each sampling period since the first packet of the direction, idle ones
\* included (check_if_time_for_rate_sample in FlowDirection.cpp), for rates of whole
\* seconds and any number of turns of the clock.
THEOREM RowForEachPeriod ==
  ASSUME WholeSeconds
  PROVE  Spec => []RowPerPeriod
<1>1. Init => TypeOK /\ SampledInv
  BY TypeInit DEF Init, SampledInv
<1>2. TypeOK /\ SampledInv /\ [Next]_vars => TypeOK' /\ SampledInv'
  BY TypeStep, SampledStep
<1>3. TypeOK /\ SampledInv => RowPerPeriod
  BY SampledIsRowPerPeriod
<1> QED
  BY <1>1, <1>2, <1>3, PTL DEF Spec
===============================================================================
