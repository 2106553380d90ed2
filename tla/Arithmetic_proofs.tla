--------------------------- MODULE Arithmetic_proofs ---------------------------
(***************************************************************************)
(* Arithmetic that the proofs of several components need.  The packed      *)
(* clock, for every width: on words made from times, subtraction is        *)
(* subtraction of the times, up to whole turns of the clock.  And sums     *)
(* over finite sets, as the folds of the community modules compute them.   *)
(***************************************************************************)
EXTENDS TimeOffset, FiniteSetTheorems, TLAPS

-----------------------------------------------------------------------------
(* The packed clock. *)

\* The word of a time, which may lie before the start of the clock.
Packed(x) == [sec |-> (x \div USECS) % SECS, usec |-> x % USECS]

LEMMA DivMod ==
  ASSUME NEW n \in Nat \ {0}, NEW x \in Int
  PROVE  x % n \in 0..(n - 1) /\ x \div n \in Int /\ x = n * (x \div n) + (x % n)
  BY SMT

\* Quotient and remainder are the only ones.
LEMMA DivModUnique ==
  ASSUME NEW n \in Nat \ {0}, NEW x \in Int, NEW q \in Int, NEW r \in 0..(n - 1),
         x = n * q + r
  PROVE  x \div n = q /\ x % n = r
<1> DEFINE p == x \div n
           s == x % n
<1>1. p \in Int /\ s \in 0..(n - 1) /\ x = n * p + s
  BY DivMod
<1> HIDE DEF p, s
<1>2. n * (p - q) = r - s
  BY <1>1, SMT
<1>3. p - q \in Int /\ n * (p - q) > -n /\ n * (p - q) < n
  BY <1>1, <1>2, SMT
<1>4. ~(p - q >= 1) /\ ~(p - q <= -1)
  BY <1>3, SMT
<1>5. p = q /\ s = r
  BY <1>1, <1>2, <1>3, <1>4, SMT
<1> QED
  BY <1>5 DEF p, s

\* Whole turns do not change a remainder.
LEMMA ModOfTurns ==
  ASSUME NEW n \in Nat \ {0}, NEW x \in Int, NEW y \in Int, NEW k \in Int, x = y + n * k
  PROVE  x % n = y % n
<1>1. y % n \in 0..(n - 1) /\ y \div n \in Int /\ y = n * (y \div n) + (y % n)
  BY DivMod
<1>2. (y \div n) + k \in Int /\ x = n * ((y \div n) + k) + (y % n)
  BY <1>1, SMT
<1> QED
  BY <1>1, <1>2, DivModUnique

LEMMA ModOfDifference ==
  ASSUME NEW n \in Nat \ {0}, NEW x \in Int, NEW y \in Int, NEW c \in Int
  PROVE  ((x % n) - (y % n) - c) % n = (x - y - c) % n
<1>1. x % n \in Int /\ x \div n \in Int /\ x = n * (x \div n) + (x % n)
  BY DivMod
<1>2. y % n \in Int /\ y \div n \in Int /\ y = n * (y \div n) + (y % n)
  BY DivMod
<1> DEFINE a == (x % n) - (y % n) - c
           b == x - y - c
           k == (y \div n) - (x \div n)
<1>3. a \in Int /\ b \in Int /\ k \in Int /\ a = b + n * k
  BY <1>1, <1>2, SMT
<1> SUFFICES a % n = b % n
  OBVIOUS
<1> HIDE DEF a, b, k
<1> QED
  BY <1>3, ModOfTurns

\* Subtracting seconds and fractions apart, with a borrow.
LEMMA Borrow ==
  ASSUME NEW n \in Nat \ {0}, NEW x \in Int, NEW y \in Int
  PROVE  IF x % n < y % n
         THEN /\ (x - y) \div n = (x \div n) - (y \div n) - 1
              /\ (x - y) % n = (x % n) + n - (y % n)
         ELSE /\ (x - y) \div n = (x \div n) - (y \div n)
              /\ (x - y) % n = (x % n) - (y % n)
<1> DEFINE p == x \div n
           q == y \div n
           r == x % n
           s == y % n
<1>1. p \in Int /\ r \in 0..(n - 1) /\ x = n * p + r
  BY DivMod
<1>2. q \in Int /\ s \in 0..(n - 1) /\ y = n * q + s
  BY DivMod
<1> SUFFICES IF r < s
             THEN (x - y) \div n = p - q - 1 /\ (x - y) % n = r + n - s
             ELSE (x - y) \div n = p - q /\ (x - y) % n = r - s
  OBVIOUS
<1> HIDE DEF p, q, r, s
<1>3. CASE r < s
  <2>1. /\ p - q - 1 \in Int /\ r + n - s \in 0..(n - 1) /\ x - y \in Int
        /\ x - y = n * (p - q - 1) + (r + n - s)
    BY <1>1, <1>2, <1>3, SMT
  <2> QED
    BY <2>1, <1>3, DivModUnique
<1>4. CASE ~(r < s)
  <2>1. /\ p - q \in Int /\ r - s \in 0..(n - 1) /\ x - y \in Int
        /\ x - y = n * (p - q) + (r - s)
    BY <1>1, <1>2, <1>4, SMT
  <2> QED
    BY <2>1, <1>4, DivModUnique
<1> QED
  BY <1>3, <1>4

LEMMA PackedIsWord ==
  ASSUME NEW x \in Int
  PROVE  Packed(x) \in Word /\ Normal(Packed(x))
<1>1. USECS \in Nat \ {0} /\ SECS \in Nat \ {0} /\ USECS < USEC_RANGE /\ USEC_RANGE \in Nat
  BY ClockAssumption, SMT
<1>2. x % USECS \in 0..(USECS - 1) /\ x \div USECS \in Int
  BY <1>1, DivMod
<1>3. (x \div USECS) % SECS \in 0..(SECS - 1)
  BY <1>1, <1>2, DivMod
<1> QED
  BY <1>1, <1>2, <1>3, SMT DEF Packed, Word, Normal

\* from_usec packs, and loses nothing of a time within the clock.
LEMMA FromUsec ==
  ASSUME NEW x \in Int
  PROVE  from_usec(x) = Packed(x)
<1>1. USECS \in Nat \ {0}
  BY ClockAssumption, SMT
<1>2. x % USECS \in 0..(USECS - 1) /\ x \div USECS \in Int
  BY <1>1, DivMod
<1> QED
  BY <1>1, <1>2, SMT DEF from_usec, TimeOffset, Packed

LEMMA WithinTheClock ==
  ASSUME NEW x \in 0..(SECS * USECS - 1)
  PROVE  x \div USECS \in 0..(SECS - 1) /\ (x \div USECS) % SECS = x \div USECS
<1>1. USECS \in Nat \ {0} /\ SECS \in Nat \ {0} /\ x \in Int
  BY ClockAssumption, SMT
<1> DEFINE q == x \div USECS
           r == x % USECS
<1>2. q \in Int /\ r \in 0..(USECS - 1) /\ x = USECS * q + r
  BY <1>1, DivMod
<1> HIDE DEF q, r
<1>3. USECS * (SECS - q) > 0 /\ USECS * (q + 1) > 0
  BY <1>1, <1>2, SMT
<1>4. ~(SECS - q <= 0) /\ ~(q + 1 <= 0)
  BY <1>1, <1>2, <1>3, SMT
<1>5. q \in 0..(SECS - 1) /\ q = SECS * 0 + q /\ 0 \in Int
  BY <1>1, <1>2, <1>4, SMT
<1>6. q % SECS = q
  BY <1>1, <1>2, <1>5, DivModUnique
<1> QED
  BY <1>5, <1>6 DEF q

LEMMA ToUsecFromUsec ==
  ASSUME NEW x \in 0..(SECS * USECS - 1)
  PROVE  to_usec(from_usec(x)) = x
<1>1. USECS \in Nat \ {0} /\ x \in Int
  BY ClockAssumption, SMT
<1>2. from_usec(x) = [sec |-> x \div USECS, usec |-> x % USECS]
  BY <1>1, FromUsec, WithinTheClock DEF Packed
<1>3. x % USECS \in Int /\ x \div USECS \in Int /\ x = USECS * (x \div USECS) + (x % USECS)
  BY <1>1, DivMod
<1> QED
  BY <1>1, <1>2, <1>3, SMT DEF to_usec

\* operator- (TimeOffset.cpp): the difference of two packed times is the packed
\* difference, whatever they were measured from, and however the borrow and the turns
\* of the clock fall.
THEOREM MinusIsExact ==
  ASSUME NEW x \in Int, NEW y \in Int
  PROVE  Minus(Packed(x), Packed(y)) = Packed(x - y)
<1> DEFINE p == x \div USECS
           q == y \div USECS
           r == x % USECS
           s == y % USECS
<1>1. USECS \in Nat \ {0} /\ SECS \in Nat \ {0}
  BY ClockAssumption, SMT
<1>2. p \in Int /\ r \in 0..(USECS - 1) /\ q \in Int /\ s \in 0..(USECS - 1)
  BY <1>1, DivMod
<1>3. IF r < s THEN (x - y) \div USECS = p - q - 1 /\ (x - y) % USECS = r + USECS - s
      ELSE (x - y) \div USECS = p - q /\ (x - y) % USECS = r - s
  BY <1>1, Borrow
<1>4. Packed(x) = [sec |-> p % SECS, usec |-> r] /\ Packed(y) = [sec |-> q % SECS, usec |-> s]
  BY DEF Packed
<1>7. Packed(x - y) = [sec |-> ((x - y) \div USECS) % SECS, usec |-> (x - y) % USECS]
  BY DEF Packed
<1> HIDE DEF p, q, r, s
<1>5. /\ ((p % SECS) - (q % SECS) - 1) % SECS = (p - q - 1) % SECS
      /\ ((p % SECS) - (q % SECS) - 0) % SECS = (p - q - 0) % SECS
  <2>1. SECS \in Nat \ {0} /\ p \in Int /\ q \in Int /\ 0 \in Int /\ 1 \in Int
    BY <1>1, <1>2
  <2>2. \A c \in Int : ((p % SECS) - (q % SECS) - c) % SECS = (p - q - c) % SECS
    BY <2>1, ModOfDifference, Zenon
  <2> QED
    BY <2>1, <2>2, Zenon
<1>6. p % SECS \in Int /\ q % SECS \in Int
  BY <1>1, <1>2, DivMod
<1>8. CASE r < s
  <2>1. Minus(Packed(x), Packed(y)) = TimeOffset((p % SECS) - (q % SECS) - 1, r + USECS - s)
    BY <1>4, <1>8 DEF Minus
  <2>2. r + USECS - s >= 0
    BY <1>1, <1>2, SMT
  <2>3. Minus(Packed(x), Packed(y)) = [sec |-> (p - q - 1) % SECS, usec |-> r + USECS - s]
    BY <2>1, <2>2, <1>5 DEF TimeOffset
  <2> QED
    BY <2>3, <1>3, <1>7, <1>8
<1>9. CASE ~(r < s)
  <2>1. Minus(Packed(x), Packed(y)) = TimeOffset((p % SECS) - (q % SECS), r - s)
    BY <1>4, <1>9 DEF Minus
  <2>2. r - s >= 0
    BY <1>2, <1>9, SMT
  <2>3. ((p % SECS) - (q % SECS)) % SECS = (p - q) % SECS
    BY <1>5, <1>6, <1>2, SMT
  <2>4. Minus(Packed(x), Packed(y)) = [sec |-> (p - q) % SECS, usec |-> r - s]
    BY <2>1, <2>2, <2>3 DEF TimeOffset
  <2> QED
    BY <2>4, <1>3, <1>7, <1>9
<1> QED
  BY <1>8, <1>9

\* The operators stay within the word, also on words that no time was packed into.
LEMMA MinusIsWord ==
  ASSUME NEW t1 \in Word, NEW t2 \in Word
  PROVE  Minus(t1, t2) \in Word
<1>1. /\ SECS \in Nat \ {0} /\ USECS \in Nat \ {0} /\ USEC_RANGE \in Nat
      /\ USECS < USEC_RANGE /\ USEC_RANGE < 2 * USECS
  BY ClockAssumption, SMT
<1>2. /\ t1.sec \in Int /\ t2.sec \in Int
      /\ t1.usec \in 0..(USEC_RANGE - 1) /\ t2.usec \in 0..(USEC_RANGE - 1)
  BY DEF Word
<1>3. \A sec \in Int : sec % SECS \in 0..(SECS - 1)
  BY <1>1, DivMod
<1>4. SECS - 1 \in 0..(SECS - 1)
  BY <1>1
<1>5. ASSUME NEW sec \in Int, NEW usec \in Int, usec < USEC_RANGE, usec >= -USEC_RANGE
      PROVE  TimeOffset(sec, usec) \in Word
  BY <1>1, <1>3, <1>4, <1>5, SMT DEF TimeOffset, Word
<1>6. CASE t1.usec < t2.usec
  <2>1. /\ t1.sec - t2.sec - 1 \in Int /\ t1.usec + USECS - t2.usec \in Int
        /\ t1.usec + USECS - t2.usec < USEC_RANGE
        /\ t1.usec + USECS - t2.usec >= -USEC_RANGE
    BY <1>1, <1>2, <1>6, SMT
  <2> QED
    BY <1>5, <1>6, <2>1 DEF Minus
<1>7. CASE ~(t1.usec < t2.usec)
  <2>1. /\ t1.sec - t2.sec \in Int /\ t1.usec - t2.usec \in Int
        /\ t1.usec - t2.usec < USEC_RANGE /\ t1.usec - t2.usec >= -USEC_RANGE
    BY <1>1, <1>2, <1>7, SMT
  <2> QED
    BY <1>5, <1>7, <2>1 DEF Minus
<1> QED
  BY <1>6, <1>7

LEMMA PlusIsWord ==
  ASSUME NEW t \in Word, NEW d \in Word
  PROVE  Plus(t, d) \in Word
<1>1. /\ SECS \in Nat \ {0} /\ USECS \in Nat \ {0} /\ USEC_RANGE \in Nat
      /\ USECS < USEC_RANGE
  BY ClockAssumption, SMT
<1>2. t.sec + d.sec \in Int /\ t.usec + d.usec \in Nat
  BY DEF Word
<1>3. \A sec \in Int : sec % SECS \in 0..(SECS - 1)
  BY <1>1, DivMod
<1>4. (t.usec + d.usec) % USECS \in 0..(USECS - 1)
  BY <1>1, <1>2, DivMod
<1>5. ASSUME NEW sec \in Int, NEW usec \in 0..(USEC_RANGE - 1)
      PROVE  TimeOffset(sec, usec) \in Word
  BY <1>1, <1>3, <1>5, SMT DEF TimeOffset, Word
<1>6. CASE t.usec + d.usec >= USEC_RANGE
  <2>1. t.sec + d.sec + 1 \in Int /\ (t.usec + d.usec) % USECS \in 0..(USEC_RANGE - 1)
    BY <1>1, <1>2, <1>4, SMT
  <2> QED
    BY <1>5, <1>6, <2>1 DEF Plus
<1>7. CASE ~(t.usec + d.usec >= USEC_RANGE)
  <2>1. t.usec + d.usec \in 0..(USEC_RANGE - 1)
    BY <1>1, <1>2, <1>7, SMT
  <2> QED
    BY <1>2, <1>5, <1>7, <2>1 DEF Plus
<1> QED
  BY <1>6, <1>7

-----------------------------------------------------------------------------
(* Sums over finite sets, which the folds of the community modules add up. *)

\* Induction, over a set of numbers.
LEMMA NatSet ==
  ASSUME NEW S \in SUBSET Nat, 0 \in S, \A n \in S : n + 1 \in S
  PROVE  S = Nat
<1> SUFFICES ASSUME Nat \ S # {} PROVE FALSE
  OBVIOUS
<1>1. PICK T : T = Nat \ S
  OBVIOUS
<1>2. PICK R : R = OpToRel(<, Nat)
  OBVIOUS
<1>3. IsWellFoundedOn(R, Nat)
  BY <1>2, NatLessThanWellFounded
<1>4. T \subseteq Nat /\ T # {}
  BY <1>1
<1>5. PICK x \in T : \A y \in T : ~(<<y, x>> \in R)
  BY <1>3, <1>4, WFMin, Zenon
<1>6. x \in Nat /\ x # 0
  BY <1>1, <1>5
<1>7. x - 1 \in Nat /\ x = (x - 1) + 1 /\ x - 1 < x
  BY <1>6
<1>8. x - 1 \notin S
  BY <1>1, <1>5, <1>7
<1>9. <<x - 1, x>> \in R
  BY <1>2, <1>6, <1>7 DEF OpToRel
<1> QED
  BY <1>1, <1>5, <1>7, <1>8, <1>9

\* v has a number for each member of S, and c chooses a member of each subset.
Values(v, S) == \A x \in S : v[x] \in Int
Chooses(c, S) == \A s \in SUBSET S : s # {} => c[s] \in s

\* g tells for each subset of S what v adds up to.
Adds(g, v, S) ==
  /\ g \in [SUBSET S -> Int]
  /\ g[{}] = 0
  /\ \A s \in SUBSET S : \A x \in s : g[s] = g[s \ {x}] + v[x]

IsSum(total, v, S) == \E g : Adds(g, v, S) /\ total = g[S]

\* g takes the chosen member first, and leaves the rest to itself.
Takes(g, v, c, s) == g[s] = IF s = {} THEN 0 ELSE g[s \ {c[s]}] + v[c[s]]


\* So does g, on one side or the other, and is defined on nothing else.
Iterates(g, v, c, S) ==
  /\ g = [s \in SUBSET S |-> g[s]]
  /\ g[{}] = 0
  /\ \A s \in SUBSET S : s # {} =>
       g[s] \in {g[s \ {c[s]}] + v[c[s]], v[c[s]] + g[s \ {c[s]}]}

HasTaker(v, c, S) == \E g \in [SUBSET S -> Int] : \A s \in SUBSET S : Takes(g, v, c, s)

\* Any member can be taken first.
Splits(g, v, s) == g[s] \in Int /\ \A x \in s : g[s] = g[s \ {x}] + v[x]

UpTo(n, S) == {s \in SUBSET S : Cardinality(s) <= n}

LEMMA Smaller ==
  ASSUME NEW S, IsFiniteSet(S), NEW n \in Nat, NEW s \in UpTo(n + 1, S), NEW x \in s
  PROVE  /\ s \ {x} \in UpTo(n, S)
         /\ s \ {x} \in SUBSET S /\ s \in SUBSET S /\ x \in S
<1>1. s \in SUBSET S /\ Cardinality(s) <= n + 1
  BY DEF UpTo
<1>2. IsFiniteSet(s)
  BY <1>1, FS_Subset
<1>3. Cardinality(s) \in Nat /\ Cardinality(s \ {x}) = Cardinality(s) - 1
  BY <1>2, FS_CardinalityType, FS_RemoveElement
<1> QED
  BY <1>1, <1>3 DEF UpTo

\* Every subset is reached.
LEMMA UpToAll ==
  ASSUME NEW S, IsFiniteSet(S)
  PROVE  Cardinality(S) \in Nat /\ UpTo(Cardinality(S), S) = SUBSET S
<1>1. Cardinality(S) \in Nat
  BY FS_CardinalityType
<1>2. ASSUME NEW s \in SUBSET S PROVE s \in UpTo(Cardinality(S), S)
  <2>1. Cardinality(s) <= Cardinality(S)
    BY FS_Subset
  <2> QED
    BY <2>1 DEF UpTo
<1> QED
  BY <1>1, <1>2 DEF UpTo

LEMMA UpToGrows ==
  ASSUME NEW S, IsFiniteSet(S), NEW n \in Nat, NEW s \in UpTo(n, S)
  PROVE  s \in UpTo(n + 1, S)
<1>1. IsFiniteSet(s) /\ s \in SUBSET S /\ Cardinality(s) <= n
  BY FS_Subset DEF UpTo
<1>2. Cardinality(s) \in Nat
  BY <1>1, FS_CardinalityType
<1> QED
  BY <1>1, <1>2 DEF UpTo

LEMMA UpToNone ==
  ASSUME NEW S, IsFiniteSet(S), NEW s \in UpTo(0, S)
  PROVE  s = {}
<1>1. s \in SUBSET S /\ Cardinality(s) <= 0
  BY DEF UpTo
<1>2. IsFiniteSet(s)
  BY <1>1, FS_Subset
<1>3. Cardinality(s) \in Nat /\ (Cardinality(s) = 0 <=> s = {})
  BY <1>2, FS_CardinalityType, FS_EmptySet
<1> QED
  BY <1>1, <1>3

\* A function that takes the members one by one exists.
LEMMA TakerExists ==
  ASSUME NEW S, IsFiniteSet(S), NEW v, Values(v, S), NEW c, Chooses(c, S)
  PROVE  HasTaker(v, c, S)
<1> DEFINE Taker(g, n) == g \in [SUBSET S -> Int] /\ \A s \in UpTo(n, S) : Takes(g, v, c, s)
           N == {n \in Nat : \E g : Taker(g, n)}
<1>1. 0 \in N
  <2>1. PICK g : g = [s \in SUBSET S |-> 0]
    OBVIOUS
  <2>2. \A s \in UpTo(0, S) : s = {} /\ s \in SUBSET S
    BY UpToNone DEF UpTo
  <2>3. Taker(g, 0)
    BY <2>1, <2>2 DEF Takes
  <2> QED
    BY <2>3
<1>2. ASSUME NEW n \in N PROVE n + 1 \in N
  <2>1. PICK g : Taker(g, n)
    OBVIOUS
  <2>2. PICK h : h = [s \in SUBSET S |-> IF s = {} THEN 0 ELSE g[s \ {c[s]}] + v[c[s]]]
    OBVIOUS
  <2>3. ASSUME NEW s \in SUBSET S, s # {}
        PROVE  g[s \ {c[s]}] \in Int /\ v[c[s]] \in Int /\ h[s] = g[s \ {c[s]}] + v[c[s]]
    <3>1. c[s] \in S /\ s \ {c[s]} \in SUBSET S
      BY <2>3 DEF Chooses
    <3> QED
      BY <2>1, <2>2, <2>3, <3>1 DEF Values
  <2>4. h \in [SUBSET S -> Int]
    <3>1. ASSUME NEW s \in SUBSET S
          PROVE  (IF s = {} THEN 0 ELSE g[s \ {c[s]}] + v[c[s]]) \in Int
      <4>1. CASE s = {}
        BY <4>1
      <4>2. CASE s # {}
        <5>1. g[s \ {c[s]}] \in Int /\ v[c[s]] \in Int
          BY <2>3, <4>2
        <5> QED
          BY <4>2, <5>1
      <4> QED
        BY <4>1, <4>2
    <3> QED
      BY <2>2, <3>1
  <2>5. ASSUME NEW s \in UpTo(n, S) PROVE h[s] = g[s]
    <3>1. s \in SUBSET S
      BY DEF UpTo
    <3> QED
      BY <2>1, <2>2, <3>1 DEF Takes
  <2>6. ASSUME NEW s \in UpTo(n + 1, S) PROVE Takes(h, v, c, s)
    <3>1. CASE s = {}
      BY <2>2, <3>1 DEF Takes
    <3>2. CASE s # {}
      <4>1. s \in SUBSET S /\ c[s] \in s
        BY <3>2 DEF UpTo, Chooses
      <4>2. s \ {c[s]} \in UpTo(n, S)
        BY <4>1, Smaller
      <4> QED
        BY <2>3, <2>5, <3>2, <4>1, <4>2 DEF Takes
    <3> QED
      BY <3>1, <3>2
  <2>7. Taker(h, n + 1) /\ n + 1 \in Nat
    BY <2>4, <2>6
  <2> HIDE DEF Taker
  <2> QED
    BY <2>7
<1>3. N = Nat
  <2> HIDE DEF N
  <2>1. N \in SUBSET Nat
    BY DEF N
  <2> QED
    BY <1>1, <1>2, <2>1, NatSet
<1>4. Cardinality(S) \in N
  BY <1>3, UpToAll
<1>5. PICK g : Taker(g, Cardinality(S))
  BY <1>4
<1>6. \A s \in SUBSET S : Takes(g, v, c, s)
  BY <1>5, UpToAll
<1> QED
  BY <1>5, <1>6 DEF HasTaker

\* Such a function is the sum, in whatever order it takes the members, and on
\* whichever side it adds.
LEMMA TakerAdds ==
  ASSUME NEW S, IsFiniteSet(S), NEW v, Values(v, S), NEW c, Chooses(c, S),
         NEW g, Iterates(g, v, c, S)
  PROVE  Adds(g, v, S)
<1> DEFINE N == {n \in Nat : \A s \in UpTo(n, S) : Splits(g, v, s)}
<1>0. Splits(g, v, {})
  BY DEF Splits, Iterates
<1>1. 0 \in N
  BY <1>0, UpToNone
<1>2. ASSUME NEW n \in N PROVE n + 1 \in N
  <2>1. n \in Nat /\ \A s \in UpTo(n, S) : Splits(g, v, s)
    OBVIOUS
  <2>2. ASSUME NEW s \in UpTo(n + 1, S) PROVE Splits(g, v, s)
    <3>1. CASE s = {}
      BY <1>0, <3>1
    <3>2. CASE s # {}
      <4>1. PICK y : y = c[s]
        OBVIOUS
      <4>2. s \in SUBSET S /\ y \in s
        BY <3>2, <4>1 DEF UpTo, Chooses
      <4>3. \A x \in s : s \ {x} \in UpTo(n, S) /\ x \in S /\ v[x] \in Int /\ g[s \ {x}] \in Int
        BY <2>1, Smaller DEF Values, Splits
      <4>4. g[s] = g[s \ {y}] + v[y]
        <5>1. g[s] \in {g[s \ {y}] + v[y], v[y] + g[s \ {y}]}
          BY <3>2, <4>1, <4>2 DEF Iterates
        <5>2. g[s \ {y}] \in Int /\ v[y] \in Int
          BY <4>2, <4>3
        <5> QED
          BY <5>1, <5>2
      <4>5. ASSUME NEW x \in s, x # y PROVE g[s] = g[s \ {x}] + v[x]
        <5> DEFINE rest == s \ {y}
                   other == s \ {x}
        <5>1. PICK t : t = s \ {x, y}
          OBVIOUS
        <5>2. x \in rest /\ y \in other /\ rest \ {x} = t /\ other \ {y} = t
          BY <4>2, <4>5, <5>1
        <5>3. rest \in UpTo(n, S) /\ other \in UpTo(n, S)
          BY <4>2, <4>3
        <5>4. g[s] = g[rest] + v[y]
          BY <4>4
        <5> HIDE DEF rest, other
        <5>5. g[rest] = g[t] + v[x] /\ g[other] = g[t] + v[y]
          <6>1. (\A z \in rest : g[rest] = g[rest \ {z}] + v[z])
                /\ (\A z \in other : g[other] = g[other \ {z}] + v[z])
            BY <2>1, <5>3 DEF Splits
          <6> QED
            BY <5>2, <6>1
        <5>6. g[t] \in Int
          <6>1. rest \in UpTo(n + 1, S)
            BY <2>1, <5>3, UpToGrows
          <6>2. t \in UpTo(n, S)
            BY <2>1, <5>2, <6>1, Smaller
          <6> QED
            BY <2>1, <6>2 DEF Splits
        <5>7. g[s] = g[other] + v[x]
          <6>1. v[x] \in Int /\ v[y] \in Int
            BY <4>2, <4>3
          <6> QED
            BY <5>4, <5>5, <5>6, <6>1
        <5> QED
          BY <5>7 DEF other
      <4>6. \A x \in s : g[s] = g[s \ {x}] + v[x]
        BY <4>4, <4>5
      <4>7. g[s \ {y}] \in Int /\ v[y] \in Int
        BY <4>2, <4>3
      <4>8. g[s] \in Int
        BY <4>4, <4>7
      <4> QED
        BY <4>6, <4>8 DEF Splits
    <3> QED
      BY <3>1, <3>2
  <2>3. n + 1 \in Nat
    BY <2>1
  <2> QED
    BY <2>2, <2>3
<1>3. N = Nat
  <2> HIDE DEF N
  <2>1. N \in SUBSET Nat
    BY DEF N
  <2> QED
    BY <1>1, <1>2, <2>1, NatSet
<1>4. \A s \in SUBSET S : Splits(g, v, s)
  <2>1. Cardinality(S) \in N
    BY <1>3, UpToAll
  <2>2. \A s \in UpTo(Cardinality(S), S) : Splits(g, v, s)
    BY <2>1
  <2> QED
    BY <2>2, UpToAll
<1>5. g = [s \in SUBSET S |-> g[s]] /\ g[{}] = 0
  BY DEF Iterates
<1>6. g \in [SUBSET S -> Int]
  <2>1. \A s \in SUBSET S : g[s] \in Int
    BY <1>4 DEF Splits
  <2> QED
    BY <1>5, <2>1
<1> QED
  BY <1>4, <1>5, <1>6 DEF Adds, Splits

\* Two sums of the same values agree.
LEMMA SameSums ==
  ASSUME NEW S, IsFiniteSet(S), NEW T, S \subseteq T, NEW v, Values(v, S),
         NEW w, \A x \in S : v[x] = w[x],
         NEW g, Adds(g, v, S), NEW h, Adds(h, w, T)
  PROVE  \A s \in SUBSET S : g[s] = h[s]
<1> DEFINE N == {n \in Nat : \A s \in UpTo(n, S) : g[s] = h[s]}
<1>1. 0 \in N
  BY UpToNone DEF Adds
<1>2. ASSUME NEW n \in N PROVE n + 1 \in N
  <2>1. n \in Nat /\ \A s \in UpTo(n, S) : g[s] = h[s]
    OBVIOUS
  <2>2. ASSUME NEW s \in UpTo(n + 1, S) PROVE g[s] = h[s]
    <3>1. CASE s = {}
      BY <3>1 DEF Adds
    <3>2. CASE s # {}
      <4>1. PICK x \in s : TRUE
        BY <3>2
      <4>2. s \ {x} \in UpTo(n, S) /\ s \in SUBSET S /\ s \in SUBSET T /\ x \in S
        BY <2>1, Smaller
      <4>3. g[s] = g[s \ {x}] + v[x] /\ h[s] = h[s \ {x}] + w[x]
        BY <4>2 DEF Adds
      <4> QED
        BY <2>1, <4>2, <4>3
    <3> QED
      BY <3>1, <3>2
  <2>3. n + 1 \in Nat
    BY <2>1
  <2> QED
    BY <2>2, <2>3
<1>3. N = Nat
  <2> HIDE DEF N
  <2>1. N \in SUBSET Nat
    BY DEF N
  <2> QED
    BY <1>1, <1>2, <2>1, NatSet
<1>4. Cardinality(S) \in N
  BY <1>3, UpToAll
<1>5. \A s \in UpTo(Cardinality(S), S) : g[s] = h[s]
  BY <1>4
<1> QED
  BY <1>5, UpToAll

\* So a sum is one number, which only depends on the values.
LEMMA SumIsUnique ==
  ASSUME NEW S, IsFiniteSet(S), NEW v, Values(v, S), NEW w, \A x \in S : v[x] = w[x],
         NEW t, IsSum(t, v, S), NEW u, IsSum(u, w, S)
  PROVE  t = u
<1>1. PICK g : Adds(g, v, S) /\ t = g[S]
  BY DEF IsSum
<1>2. PICK h : Adds(h, w, S) /\ u = h[S]
  BY DEF IsSum
<1>3. \A s \in SUBSET S : g[s] = h[s]
  BY <1>1, <1>2, SameSums
<1> QED
  BY <1>1, <1>2, <1>3

LEMMA SumExists ==
  ASSUME NEW S, IsFiniteSet(S), NEW v, Values(v, S)
  PROVE  \E g : Adds(g, v, S)
<1>1. PICK c : c = [s \in SUBSET S |-> CHOOSE x \in s : TRUE]
  OBVIOUS
<1>2. Chooses(c, S)
  BY <1>1 DEF Chooses
<1>6. HasTaker(v, c, S)
  BY <1>2, TakerExists
<1>3. PICK g \in [SUBSET S -> Int] : \A s \in SUBSET S : Takes(g, v, c, s)
  BY <1>6 DEF HasTaker
<1>4. g[{}] = 0 /\ \A s \in SUBSET S : s # {} => g[s] = g[s \ {c[s]}] + v[c[s]]
  BY <1>3 DEF Takes
<1>5. g = [s \in SUBSET S |-> g[s]]
  BY <1>3
<1>7. Iterates(g, v, c, S)
  BY <1>4, <1>5 DEF Iterates
<1> QED
  BY <1>2, <1>7, TakerAdds

LEMMA SumOfSame ==
  ASSUME NEW S, IsFiniteSet(S), NEW v, Values(v, S), NEW w, \A x \in S : w[x] = v[x],
         NEW t, IsSum(t, v, S)
  PROVE  IsSum(t, w, S)
<1>1. Values(w, S)
  BY DEF Values
<1>2. PICK h : Adds(h, w, S)
  BY <1>1, SumExists
<1>3. IsSum(h[S], w, S)
  BY <1>2 DEF IsSum
<1>4. t = h[S]
  BY <1>3, SumIsUnique
<1> QED
  BY <1>3, <1>4

LEMMA SumOfNone ==
  ASSUME NEW v
  PROVE  IsSum(0, v, {})
<1>1. PICK g : g = [s \in SUBSET {} |-> 0]
  OBVIOUS
<1>2. g \in [SUBSET {} -> Int] /\ g[{}] = 0
  BY <1>1
<1>3. Adds(g, v, {})
  BY <1>2 DEF Adds
<1> QED
  BY <1>2, <1>3 DEF IsSum

\* One more value.
LEMMA SumWith ==
  ASSUME NEW S, IsFiniteSet(S), NEW v, NEW w, NEW y, y \notin S, w[y] \in Int,
         Values(v, S), \A x \in S : w[x] = v[x],
         NEW t, IsSum(t, v, S)
  PROVE  t \in Int /\ IsSum(t + w[y], w, S \cup {y})
<1>1. PICK g : Adds(g, v, S) /\ t = g[S]
  BY DEF IsSum
<1>2. IsFiniteSet(S \cup {y}) /\ Values(w, S \cup {y})
  BY FS_AddElement DEF Values
<1>3. PICK h : Adds(h, w, S \cup {y})
  BY <1>2, SumExists
<1>4. \A s \in SUBSET S : g[s] = h[s]
  <2>1. S \subseteq S \cup {y} /\ \A x \in S : v[x] = w[x]
    OBVIOUS
  <2> QED
    BY <1>1, <1>3, <2>1, SameSums
<1>5. h[S \cup {y}] = h[S] + w[y]
  <2>1. (S \cup {y}) \ {y} = S
    OBVIOUS
  <2>2. h[S \cup {y}] = h[(S \cup {y}) \ {y}] + w[y]
    BY <1>3 DEF Adds
  <2> QED
    BY <2>1, <2>2
<1>6. t = h[S] /\ t \in Int
  BY <1>1, <1>4 DEF Adds
<1> QED
  BY <1>3, <1>5, <1>6 DEF IsSum

LEMMA SumOfZeros ==
  ASSUME NEW S, IsFiniteSet(S), NEW v, \A x \in S : v[x] = 0, NEW t, IsSum(t, v, S)
  PROVE  t = 0
<1>1. PICK h : h = [s \in SUBSET S |-> 0]
  OBVIOUS
<1>2. Adds(h, v, S)
  <2>1. h \in [SUBSET S -> Int] /\ h[{}] = 0
    BY <1>1
  <2>2. ASSUME NEW s \in SUBSET S, NEW x \in s PROVE h[s] = h[s \ {x}] + v[x]
    <3>1. h[s] = 0 /\ h[s \ {x}] = 0 /\ v[x] = 0
      BY <1>1
    <3> QED
      BY <3>1
  <2> QED
    BY <2>1, <2>2 DEF Adds
<1>3. IsSum(0, v, S)
  BY <1>1, <1>2 DEF IsSum
<1>4. Values(v, S)
  BY DEF Values
<1> QED
  BY <1>3, <1>4, SumIsUnique

LEMMA SumOfNaturals ==
  ASSUME NEW S, IsFiniteSet(S), NEW v, \A x \in S : v[x] \in Nat, NEW t, IsSum(t, v, S)
  PROVE  t \in Nat
<1>1. PICK g : Adds(g, v, S) /\ t = g[S]
  BY DEF IsSum
<1> DEFINE N == {n \in Nat : \A s \in UpTo(n, S) : g[s] \in Nat}
<1>2. 0 \in N
  <2>1. g[{}] = 0
    BY <1>1 DEF Adds
  <2>2. \A s \in UpTo(0, S) : s = {}
    BY UpToNone
  <2> QED
    BY <2>1, <2>2
<1>3. ASSUME NEW n \in N PROVE n + 1 \in N
  <2>1. n \in Nat /\ \A s \in UpTo(n, S) : g[s] \in Nat
    OBVIOUS
  <2>2. ASSUME NEW s \in UpTo(n + 1, S) PROVE g[s] \in Nat
    <3>1. CASE s = {}
      BY <1>1, <3>1 DEF Adds
    <3>2. CASE s # {}
      <4>1. PICK x \in s : TRUE
        BY <3>2
      <4>2. s \ {x} \in UpTo(n, S) /\ s \in SUBSET S /\ x \in S
        BY <2>1, Smaller
      <4>3. g[s] = g[s \ {x}] + v[x]
        BY <1>1, <4>2 DEF Adds
      <4>4. g[s \ {x}] \in Nat /\ v[x] \in Nat
        BY <2>1, <4>2
      <4> QED
        BY <4>3, <4>4
    <3> QED
      BY <3>1, <3>2
  <2>3. n + 1 \in Nat
    BY <2>1
  <2> QED
    BY <2>2, <2>3
<1>4. N = Nat
  <2> HIDE DEF N
  <2>1. N \in SUBSET Nat
    BY DEF N
  <2> QED
    BY <1>2, <1>3, <2>1, NatSet
<1>5. Cardinality(S) \in N
  BY <1>4, UpToAll
<1>6. \A s \in UpTo(Cardinality(S), S) : g[s] \in Nat
  BY <1>5
<1> QED
  BY <1>1, <1>6, UpToAll

\* Smaller values of fewer members.
LEMMA SumOfLess ==
  ASSUME NEW S, IsFiniteSet(S), NEW T \in SUBSET S, NEW v, \A x \in S : v[x] \in Nat,
         NEW w, \A x \in T : w[x] \in Nat /\ w[x] <= v[x],
         NEW t, IsSum(t, v, S), NEW u, IsSum(u, w, T)
  PROVE  u <= t
<1>1. PICK g : Adds(g, v, S) /\ t = g[S]
  BY DEF IsSum
<1>2. PICK h : Adds(h, w, T) /\ u = h[T]
  BY DEF IsSum
<1> DEFINE N == {n \in Nat : \A s \in UpTo(n, S) : h[s \cap T] <= g[s]}
<1>3. 0 \in N
  <2>1. g[{}] = 0 /\ h[{}] = 0
    BY <1>1, <1>2 DEF Adds
  <2>2. \A s \in UpTo(0, S) : s = {}
    BY UpToNone
  <2> QED
    BY <2>1, <2>2
<1>4. ASSUME NEW n \in N PROVE n + 1 \in N
  <2>1. n \in Nat /\ \A s \in UpTo(n, S) : h[s \cap T] <= g[s]
    OBVIOUS
  <2>2. ASSUME NEW s \in UpTo(n + 1, S) PROVE h[s \cap T] <= g[s]
    <3>1. CASE s = {}
      BY <1>1, <1>2, <3>1 DEF Adds
    <3>2. CASE s # {}
      <4>1. PICK x \in s : TRUE
        BY <3>2
      <4>2. s \ {x} \in UpTo(n, S) /\ s \ {x} \in SUBSET S /\ s \in SUBSET S /\ x \in S
        BY <2>1, Smaller
      <4>3. PICK rest : rest = s \ {x}
        OBVIOUS
      <4>4. g[s] = g[rest] + v[x] /\ g[rest] \in Int /\ v[x] \in Nat
        BY <1>1, <4>2, <4>3 DEF Adds
      <4>5. h[rest \cap T] <= g[rest] /\ h[rest \cap T] \in Int
        <5>1. rest \cap T \in SUBSET T
          OBVIOUS
        <5> QED
          BY <1>2, <2>1, <4>2, <4>3, <5>1 DEF Adds
      <4>6. CASE x \in T
        <5>1. s \cap T \in SUBSET T /\ x \in s \cap T /\ (s \cap T) \ {x} = rest \cap T
          BY <4>3, <4>6
        <5>2. h[s \cap T] = h[rest \cap T] + w[x]
          BY <1>2, <5>1 DEF Adds
        <5>3. w[x] \in Nat /\ w[x] <= v[x]
          BY <4>6
        <5> QED
          BY <4>4, <4>5, <5>2, <5>3
      <4>7. CASE x \notin T
        <5>1. s \cap T = rest \cap T
          BY <4>3, <4>7
        <5>2. PICK a \in Int, b \in Int, c \in Nat : a = h[rest \cap T] /\ b = g[rest] /\ c = v[x]
          BY <4>4, <4>5
        <5>3. a <= b + c
          BY <4>5, <5>2
        <5> QED
          BY <4>4, <5>1, <5>2, <5>3, Zenon
      <4> QED
        BY <4>6, <4>7
    <3> QED
      BY <3>1, <3>2
  <2>3. n + 1 \in Nat
    BY <2>1
  <2> QED
    BY <2>2, <2>3
<1>5. N = Nat
  <2> HIDE DEF N
  <2>1. N \in SUBSET Nat
    BY DEF N
  <2> QED
    BY <1>3, <1>4, <2>1, NatSet
<1>6. Cardinality(S) \in N
  BY <1>5, UpToAll
<1>7. \A s \in UpTo(Cardinality(S), S) : h[s \cap T] <= g[s]
  BY <1>6
<1>8. S \in UpTo(Cardinality(S), S) /\ S \cap T = T
  BY UpToAll
<1> QED
  BY <1>1, <1>2, <1>7, <1>8

\* A fold that adds the values of a function, in whatever order, is their sum.
LEMMA FoldIsSum ==
  ASSUME NEW S, IsFiniteSet(S), NEW v, Values(v, S)
  PROVE  IsSum(FoldFunctionOnSet(+, 0, v, S), v, S)
<1>1. PICK c : c = [s \in SUBSET S |-> CHOOSE x \in s : TRUE]
  OBVIOUS
<1>2. Chooses(c, S)
  BY <1>1 DEF Chooses
<1> DEFINE Is(g) == g = [s \in SUBSET S |->
                           IF s = {} THEN 0
                           ELSE v[CHOOSE x \in s : TRUE] + g[s \ {CHOOSE x \in s : TRUE}]]
<1>3. \E g : Is(g)
  <2>1. HasTaker(v, c, S)
    BY <1>2, TakerExists
  <2>2. PICK g \in [SUBSET S -> Int] : \A s \in SUBSET S : Takes(g, v, c, s)
    BY <2>1 DEF HasTaker
  <2>3. ASSUME NEW s \in SUBSET S
        PROVE  g[s] = IF s = {} THEN 0 ELSE v[c[s]] + g[s \ {c[s]}]
    <3>1. CASE s = {}
      BY <2>2, <3>1 DEF Takes
    <3>2. CASE s # {}
      <4>1. g[s] = g[s \ {c[s]}] + v[c[s]]
        BY <2>2, <3>2 DEF Takes
      <4>2. c[s] \in S
        BY <1>2, <3>2 DEF Chooses
      <4>3. g[s \ {c[s]}] \in Int /\ v[c[s]] \in Int
        BY <2>2, <4>2 DEF Values
      <4> QED
        BY <3>2, <4>1, <4>3
    <3> QED
      BY <3>1, <3>2
  <2>4. Is(g)
    BY <1>1, <2>2, <2>3
  <2> QED
    BY <2>4
<1>4. PICK g : g = (CHOOSE h : Is(h))
  OBVIOUS
<1>5. Is(g)
  <2> HIDE DEF Is
  <2> QED
    BY <1>3, <1>4
<1>6. FoldFunctionOnSet(+, 0, v, S) = g[S]
  BY <1>4 DEF FoldFunctionOnSet, MapThenFoldSet
<1>7. Iterates(g, v, c, S)
  <2>1. g = [s \in SUBSET S |-> g[s]] /\ g[{}] = 0
    BY <1>5
  <2>2. ASSUME NEW s \in SUBSET S, s # {}
        PROVE  g[s] = v[c[s]] + g[s \ {c[s]}]
    BY <1>1, <1>5, <2>2
  <2> QED
    BY <2>1, <2>2 DEF Iterates
<1>8. Adds(g, v, S)
  BY <1>2, <1>7, TakerAdds
<1> QED
  BY <1>6, <1>8 DEF IsSum
===============================================================================
