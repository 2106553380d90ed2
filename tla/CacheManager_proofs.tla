-------------------------- MODULE CacheManager_proofs --------------------------
(***************************************************************************)
(* The cache of inter-arrival times, for any number of directions and      *)
(* packets and any limit of the memory: every pair of packets has its time *)
(* in the cache or in the database, once, although what the next times are *)
(* computed from may have been flushed; and the cache fits, but for one    *)
(* direction.                                                              *)
(***************************************************************************)
EXTENDS CacheManager, Arithmetic_proofs, SequenceTheorems

-----------------------------------------------------------------------------
(* push_back, and the sum of two words. *)

\* The capacity after each push_back.
Grows(g, capacity, size, n) ==
  g = [i \in 0..n |->
        IF i = 0 THEN capacity
        ELSE LET c == g[i - 1]
             IN  IF size + i <= c THEN c ELSE IF c = 0 THEN 1 ELSE 2 * c]

LEMMA GrowthExists ==
  ASSUME NEW capacity \in Nat, NEW size \in Nat
  PROVE  \A n \in Nat : \E g \in [0..n -> Nat] : Grows(g, capacity, size, n)
<1> DEFINE N == {n \in Nat : \E g \in [0..n -> Nat] : Grows(g, capacity, size, n)}
<1>1. 0 \in N
  <2>1. Grows([i \in 0..0 |-> capacity], capacity, size, 0)
    BY DEF Grows
  <2>2. [i \in 0..0 |-> capacity] \in [0..0 -> Nat]
    OBVIOUS
  <2> QED
    BY <2>1, <2>2
<1>2. ASSUME NEW n \in N PROVE n + 1 \in N
  <2>1. n \in Nat /\ n + 1 \in Nat
    OBVIOUS
  <2>2. PICK g \in [0..n -> Nat] : Grows(g, capacity, size, n)
    OBVIOUS
  <2>3. PICK last \in Nat :
          last = IF size + (n + 1) <= g[n] THEN g[n] ELSE IF g[n] = 0 THEN 1 ELSE 2 * g[n]
    BY <2>1
  <2>4. PICK h : h = [i \in 0..(n + 1) |-> IF i = n + 1 THEN last ELSE g[i]]
    OBVIOUS
  <2>5. h \in [0..(n + 1) -> Nat]
    BY <2>1, <2>3, <2>4
  <2>6. ASSUME NEW i \in 0..(n + 1)
        PROVE  h[i] = IF i = 0 THEN capacity
                      ELSE LET c == h[i - 1]
                           IN  IF size + i <= c THEN c ELSE IF c = 0 THEN 1 ELSE 2 * c
    <3>1. CASE i = n + 1
      <4>1. h[i] = last /\ h[i - 1] = g[n] /\ i # 0
        BY <2>1, <2>4, <3>1
      <4> QED
        BY <2>3, <3>1, <4>1
    <3>2. CASE i # n + 1
      <4>1. i \in 0..n
        BY <2>1, <3>2
      <4>2. h[i] = g[i] /\ (i # 0 => h[i - 1] = g[i - 1])
        BY <2>1, <2>4, <3>2, <4>1
      <4> QED
        BY <2>2, <4>1, <4>2 DEF Grows
    <3> QED
      BY <3>1, <3>2
  <2>7. Grows(h, capacity, size, n + 1)
    BY <2>4, <2>6 DEF Grows
  <2> QED
    BY <2>1, <2>5, <2>7
<1>3. N = Nat
  <2> HIDE DEF N
  <2>1. N \in SUBSET Nat
    BY DEF N
  <2> QED
    BY <1>1, <1>2, <2>1, NatSet
<1> QED
  BY <1>3

LEMMA GrownIsNat ==
  ASSUME NEW capacity \in Nat, NEW size \in Nat, NEW n \in Nat, NEW g, Grows(g, capacity, size, n)
  PROVE  g[n] \in Nat
<1> DEFINE N == {m \in Nat : m <= n => g[m] \in Nat}
<1>1. 0 \in N
  BY DEF Grows
<1>2. ASSUME NEW m \in N PROVE m + 1 \in N
  <2>1. m \in Nat /\ m + 1 \in Nat
    OBVIOUS
  <2>2. ASSUME m + 1 <= n PROVE g[m + 1] \in Nat
    <3>1. m + 1 \in 0..n /\ m + 1 # 0 /\ m + 1 - 1 = m /\ m <= n
      BY <2>1, <2>2
    <3>2. g[m] \in Nat
      BY <3>1
    <3>3. g[m + 1] = IF size + (m + 1) <= g[m] THEN g[m] ELSE IF g[m] = 0 THEN 1 ELSE 2 * g[m]
      BY <3>1 DEF Grows
    <3> QED
      BY <3>2, <3>3
  <2> QED
    BY <2>1, <2>2
<1>3. N = Nat
  <2> HIDE DEF N
  <2>1. N \in SUBSET Nat
    BY DEF N
  <2> QED
    BY <1>1, <1>2, <2>1, NatSet
<1> QED
  BY <1>3

LEMMA GrowIsNat ==
  ASSUME NEW capacity \in Nat, NEW size \in Nat, NEW n \in Nat
  PROVE  Grow(capacity, size, n) \in Nat
<1>1. PICK g : g = (CHOOSE h : Grows(h, capacity, size, n))
  OBVIOUS
<1>2. Grows(g, capacity, size, n)
  BY <1>1, GrowthExists
<1>3. Grow(capacity, size, n) = g[n]
  BY <1>1 DEF Grow, Grows
<1> QED
  BY <1>2, <1>3, GrownIsNat

\* What the packed clock can tell apart.
OneTurn == SECS * USECS

\* The sum of two words is the sum of their times, unless it has two seconds' worth of
\* microseconds, of which operator+ carries one, or is beyond the clock.
LEMMA PlusIsSum ==
  ASSUME NEW t \in Word, NEW d \in Word, t.usec + d.usec < 2 * USECS,
         to_usec(t) + to_usec(d) < OneTurn
  PROVE  to_usec(Plus(t, d)) = to_usec(t) + to_usec(d)
<1>1. /\ SECS \in Nat \ {0} /\ USECS \in Nat \ {0} /\ USEC_RANGE \in Nat
      /\ USECS < USEC_RANGE
  BY ClockAssumption, SMT
<1>2. PICK s \in Nat : s = t.sec + d.sec
  BY DEF Word
<1>3. PICK u \in Nat : u = t.usec + d.usec
  BY DEF Word
<1>4. s * USECS + u = to_usec(t) + to_usec(d)
  BY <1>1, <1>2, <1>3, SMT DEF to_usec, Word
<1>5. s * USECS + u < SECS * USECS /\ u < 2 * USECS
  BY <1>3, <1>4 DEF OneTurn
<1>6. \A sec \in Nat : sec * USECS < SECS * USECS => sec % SECS = sec
  <2> SUFFICES ASSUME NEW sec \in Nat, sec * USECS < SECS * USECS PROVE sec % SECS = sec
    OBVIOUS
  <2>1. (SECS - sec) * USECS > 0
    BY <1>1, SMT
  <2>2. sec < SECS
    BY <1>1, <2>1, SMT
  <2> QED
    BY <1>1, <2>2
<1>7. CASE u >= USEC_RANGE
  <2>1. u % USECS = u - USECS
    <3>1. u - USECS \in 0..(USECS - 1) /\ u = USECS * 1 + (u - USECS) /\ u \in Int /\ 1 \in Int
      BY <1>1, <1>5, <1>7
    <3> QED
      BY <1>1, <3>1, DivModUnique
  <2>2. (s + 1) * USECS < SECS * USECS
    <3>1. (s + 1) * USECS = s * USECS + USECS
      BY <1>1, SMT
    <3>2. s * USECS \in Int /\ SECS * USECS \in Int
      BY <1>1
    <3> QED
      BY <1>1, <1>5, <1>7, <3>1, <3>2, SMT
  <2>3. (s + 1) % SECS = s + 1
    BY <1>6, <2>2
  <2>4. Plus(t, d) = [sec |-> s + 1, usec |-> u - USECS]
    BY <1>1, <1>2, <1>3, <1>7, <2>1, <2>3 DEF Plus, TimeOffset
  <2> QED
    BY <1>1, <1>4, <2>4, SMT DEF to_usec
<1>8. CASE ~(u >= USEC_RANGE)
  <2>1. s * USECS < SECS * USECS
    <3>1. s * USECS \in Int /\ SECS * USECS \in Int
      BY <1>1
    <3> QED
      BY <1>5, <3>1, SMT
  <2>2. s % SECS = s
    BY <1>6, <2>1
  <2>3. Plus(t, d) = [sec |-> s, usec |-> u]
    BY <1>1, <1>2, <1>3, <1>8, <2>2 DEF Plus, TimeOffset
  <2> QED
    BY <1>4, <2>3 DEF to_usec
<1> QED
  BY <1>7, <1>8

-----------------------------------------------------------------------------
(* The pairs that the times K of a direction belong to, place by place.  *)

LEMMA Joined ==
  ASSUME NEW S, NEW K \in Seq(S), NEW M \in Seq(S)
  PROVE  /\ K \o M \in Seq(S)
         /\ Len(K \o M) = Len(K) + Len(M)
         /\ \A i \in 1..Len(K) : (K \o M)[i] = K[i]
         /\ \A i \in 1..Len(M) : (K \o M)[Len(K) + i] = M[i]
  OBVIOUS

\* K has a place for each pair of the first k packets, and the last of them are for
\* the pairs of packet k: those the times of the next packet are computed from.
Matches(K, k, early, late) ==
  /\ k - 1 <= Len(K)
  /\ \A i \in 1..Len(K) : early[i] \in 1..k /\ late[i] \in 1..k /\ early[i] < late[i]
  /\ \A i, j \in 1..Len(K) : early[i] = early[j] /\ late[i] = late[j] => i = j
  /\ \A x, y \in 1..k : x < y => \E i \in 1..Len(K) : early[i] = x /\ late[i] = y
  /\ \A i \in 1..Len(K) : late[i] = k <=> i > Len(K) - (k - 1)

\* They are the times between the packets of the pairs.
Right(K, arrived, early, late) ==
  \A i \in 1..Len(K) : to_usec(K[i]) = arrived[late[i]] - arrived[early[i]]

\* No sum of the time t and one of packet k has two seconds' worth of microseconds.
NoSecondLost(K, k, t) ==
  \A i \in 1..Len(K) : i > Len(K) - (k - 1) => K[i].usec + t.usec < 2 * USECS

\* The packets are all within one turn of the packed clock before the latest.
WithinATurn(arrived) ==
  \A i \in 1..Len(arrived) : arrived[Len(arrived)] - arrived[i] < OneTurn

\* src tells for each earlier packet the place of its time to packet k.
Sources(src, K, k) ==
  /\ \A i \in 1..(k - 1) : src[i] \in 1..Len(K) /\ src[i] > Len(K) - (k - 1)
  /\ \A i, j \in 1..(k - 1) : src[i] = src[j] => i = j
  /\ \A n \in 1..Len(K) : n > Len(K) - (k - 1) => \E i \in 1..(k - 1) : src[i] = n

\* The times of packet k + 1, given its time t to packet k.
AddedTimes(added, src, K, k, t) ==
  /\ added \in Seq(Word) /\ Len(added) = k
  /\ \A i \in 1..(k - 1) : added[i] = Plus(t, K[src[i]])
  /\ added[k] = t

EarlyWith(early, src, n, k) ==
  [i \in 1..(n + k) |-> IF i <= n THEN early[i] ELSE IF i < n + k THEN early[src[i - n]] ELSE k]
LateWith(late, n, k) == [i \in 1..(n + k) |-> IF i <= n THEN late[i] ELSE k + 1]

\* With the times of packet k + 1, all its pairs have a place, and no other pair gets one.
LEMMA MatchesGrow ==
  ASSUME NEW k \in Nat \ {0}, NEW n \in Nat, NEW K, Len(K) = n, NEW L, Len(L) = n + k,
         NEW early, NEW late, Matches(K, k, early, late), NEW src, Sources(src, K, k)
  PROVE  Matches(L, k + 1, EarlyWith(early, src, n, k), LateWith(late, n, k))
<1>1. PICK e : e = EarlyWith(early, src, n, k)
  OBVIOUS
<1>2. PICK l : l = LateWith(late, n, k)
  OBVIOUS
<1>3. /\ \A i \in 1..n : early[i] \in 1..k /\ late[i] \in 1..k /\ early[i] < late[i]
      /\ \A i, j \in 1..n : early[i] = early[j] /\ late[i] = late[j] => i = j
      /\ \A x, y \in 1..k : x < y => \E i \in 1..n : early[i] = x /\ late[i] = y
      /\ \A i \in 1..n : late[i] = k <=> i > n - (k - 1)
  BY DEF Matches
<1>4. /\ \A i \in 1..(k - 1) : src[i] \in 1..n /\ src[i] > n - (k - 1)
      /\ \A i, j \in 1..(k - 1) : src[i] = src[j] => i = j
      /\ \A m \in 1..n : m > n - (k - 1) => \E i \in 1..(k - 1) : src[i] = m
  BY DEF Sources
<1>5. \A i \in 1..n : i \in 1..(n + k) /\ e[i] = early[i] /\ l[i] = late[i]
  BY <1>1, <1>2 DEF EarlyWith, LateWith
<1>6. \A i \in 1..(k - 1) : n + i \in 1..(n + k) /\ e[n + i] = early[src[i]] /\ l[n + i] = k + 1
  <2> SUFFICES ASSUME NEW i \in 1..(k - 1)
               PROVE  n + i \in 1..(n + k) /\ e[n + i] = early[src[i]] /\ l[n + i] = k + 1
    OBVIOUS
  <2>1. n + i \in 1..(n + k) /\ ~(n + i <= n) /\ n + i < n + k /\ n + i - n = i
    OBVIOUS
  <2> QED
    BY <1>1, <1>2, <2>1 DEF EarlyWith, LateWith
<1>7. n + k \in 1..(n + k) /\ e[n + k] = k /\ l[n + k] = k + 1
  <2>1. n + k \in 1..(n + k) /\ ~(n + k <= n) /\ ~(n + k < n + k)
    OBVIOUS
  <2> QED
    BY <1>1, <1>2, <2>1 DEF EarlyWith, LateWith
<1>8. \A i \in 1..(k - 1) : src[i] \in 1..n /\ early[src[i]] \in 1..(k - 1) /\ late[src[i]] = k
  <2> SUFFICES ASSUME NEW i \in 1..(k - 1)
               PROVE  src[i] \in 1..n /\ early[src[i]] \in 1..(k - 1) /\ late[src[i]] = k
    OBVIOUS
  <2>1. src[i] \in 1..n /\ src[i] > n - (k - 1)
    BY <1>4
  <2>2. late[src[i]] = k /\ early[src[i]] \in 1..k /\ early[src[i]] < late[src[i]]
    BY <1>3, <2>1
  <2> QED
    BY <2>1, <2>2
<1>9. ASSUME NEW i \in 1..(n + k)
      PROVE  i \in 1..n \/ (\E m \in 1..(k - 1) : i = n + m) \/ i = n + k
  <2>1. CASE i > n /\ i < n + k
    <3>1. i - n \in 1..(k - 1) /\ i = n + (i - n)
      BY <2>1
    <3> QED
      BY <3>1
  <2> QED
    BY <2>1
<1>10. ASSUME NEW i \in 1..(n + k)
       PROVE  e[i] \in 1..(k + 1) /\ l[i] \in 1..(k + 1) /\ e[i] < l[i]
  <2>1. CASE i \in 1..n
    <3>1. e[i] = early[i] /\ l[i] = late[i]
      BY <1>5, <2>1, Zenon
    <3>2. early[i] \in 1..k /\ late[i] \in 1..k /\ early[i] < late[i]
      BY <1>3, <2>1, Zenon
    <3> QED
      BY <3>1, <3>2
  <2>2. ASSUME NEW m \in 1..(k - 1), i = n + m
        PROVE  e[i] \in 1..(k + 1) /\ l[i] \in 1..(k + 1) /\ e[i] < l[i]
    <3>1. e[i] \in 1..(k - 1) /\ l[i] = k + 1
      BY <1>6, <1>8, <2>2, Zenon
    <3> QED
      BY <3>1
  <2>3. CASE i = n + k
    <3>1. e[i] = k /\ l[i] = k + 1
      BY <1>7, <2>3, Zenon
    <3> QED
      BY <3>1
  <2> QED
    BY <1>9, <2>1, <2>2, <2>3
<1>11. ASSUME NEW i \in 1..(n + k)
       PROVE  (l[i] = k + 1) <=> i > n
  <2>1. CASE i \in 1..n
    <3>1. l[i] = late[i]
      BY <1>5, <2>1, Zenon
    <3>2. late[i] \in 1..k
      BY <1>3, <2>1, Zenon
    <3>3. l[i] # k + 1
      BY <3>1, <3>2
    <3>4. ~(i > n)
      BY <2>1
    <3> QED
      BY <3>3, <3>4
  <2>2. ASSUME NEW m \in 1..(k - 1), i = n + m
        PROVE  (l[i] = k + 1) <=> i > n
    <3>1. l[i] = k + 1
      BY <1>6, <2>2, Zenon
    <3>2. i > n
      BY <2>2
    <3> QED
      BY <3>1, <3>2
  <2>3. CASE i = n + k
    <3>1. l[i] = k + 1
      BY <1>7, <2>3, Zenon
    <3>2. i > n
      BY <2>3
    <3> QED
      BY <3>1, <3>2
  <2> QED
    BY <1>9, <2>1, <2>2, <2>3
<1>12. ASSUME NEW i \in 1..(n + k), NEW j \in 1..(n + k), e[i] = e[j], l[i] = l[j]
       PROVE  i = j
  <2>1. (i > n) <=> (j > n)
    BY <1>11, <1>12
  <2>2. CASE i <= n
    <3>1. i \in 1..n /\ j \in 1..n
      BY <2>1, <2>2
    <3> QED
      BY <1>3, <1>5, <1>12, <3>1
  <2>3. CASE i = n + k /\ j > n /\ j # n + k
    <3>1. PICK m \in 1..(k - 1) : j = n + m
      BY <1>9, <2>3
    <3>2. e[j] \in 1..(k - 1) /\ e[i] = k
      BY <1>6, <1>7, <1>8, <2>3, <3>1
    <3> QED
      BY <1>12, <3>2
  <2>4. CASE j = n + k /\ i > n /\ i # n + k
    <3>1. PICK m \in 1..(k - 1) : i = n + m
      BY <1>9, <2>4
    <3>2. e[i] \in 1..(k - 1) /\ e[j] = k
      BY <1>6, <1>7, <1>8, <2>4, <3>1
    <3> QED
      BY <1>12, <3>2
  <2>5. CASE i > n /\ j > n /\ i # n + k /\ j # n + k
    <3>1. PICK m \in 1..(k - 1) : i = n + m
      BY <1>9, <2>5
    <3>2. PICK o \in 1..(k - 1) : j = n + o
      BY <1>9, <2>5
    <3>3. early[src[m]] = early[src[o]] /\ late[src[m]] = late[src[o]]
      BY <1>6, <1>8, <1>12, <3>1, <3>2
    <3>4. src[m] = src[o]
      BY <1>3, <1>8, <3>3
    <3>5. m = o
      BY <1>4, <3>4
    <3> QED
      BY <3>1, <3>2, <3>5
  <2> QED
    BY <2>1, <2>2, <2>3, <2>4, <2>5
<1>13. ASSUME NEW x \in 1..(k + 1), NEW y \in 1..(k + 1), x < y
       PROVE  \E i \in 1..(n + k) : e[i] = x /\ l[i] = y
  <2>1. CASE y <= k
    <3>1. x \in 1..k /\ y \in 1..k
      BY <1>13, <2>1
    <3>2. PICK i \in 1..n : early[i] = x /\ late[i] = y
      BY <1>3, <1>13, <3>1
    <3> QED
      BY <1>5, <3>2
  <2>2. CASE y = k + 1 /\ x = k
    BY <1>7, <2>2
  <2>3. CASE y = k + 1 /\ x < k
    <3>1. x \in 1..k /\ k \in 1..k
      BY <2>3
    <3>2. PICK i \in 1..n : early[i] = x /\ late[i] = k
      BY <1>3, <2>3, <3>1
    <3>3. i > n - (k - 1)
      BY <1>3, <3>2
    <3>4. PICK m \in 1..(k - 1) : src[m] = i
      BY <1>4, <3>3
    <3> QED
      BY <1>6, <2>3, <3>2, <3>4
  <2> QED
    BY <1>13, <2>1, <2>2, <2>3
<1>14. (k + 1) - 1 <= Len(L) /\ \A i \in 1..(n + k) : (i > Len(L) - ((k + 1) - 1)) <=> i > n
  OBVIOUS
<1> QED
  BY <1>1, <1>2, <1>10, <1>11, <1>12, <1>13, <1>14 DEF Matches

\* And the times are those of the packets, if no sum loses a second.
LEMMA RightGrows ==
  ASSUME NEW k \in Nat \ {0}, NEW K \in Seq(Word), NEW added, NEW src, NEW t \in Word,
         Sources(src, K, k), AddedTimes(added, src, K, k, t),
         NEW early, NEW late, Matches(K, k, early, late),
         NEW arrived \in Seq(Nat), Len(arrived) = k + 1, Right(K, arrived, early, late),
         to_usec(t) = arrived[k + 1] - arrived[k],
         WithinATurn(arrived),
         NoSecondLost(K, k, t)
  PROVE  Right(K \o added, arrived, EarlyWith(early, src, Len(K), k), LateWith(late, Len(K), k))
<1>1. PICK n \in Nat : n = Len(K)
  OBVIOUS
<1>2. PICK e : e = EarlyWith(early, src, n, k)
  OBVIOUS
<1>3. PICK l : l = LateWith(late, n, k)
  OBVIOUS
<1>4. added \in Seq(Word) /\ Len(added) = k
  BY DEF AddedTimes
<1>5. PICK L : L = K \o added
  OBVIOUS
<1>6. /\ Len(L) = n + k
      /\ \A i \in 1..n : L[i] = K[i]
      /\ \A i \in 1..k : L[n + i] = added[i]
  <2>1. /\ L \in Seq(Word) /\ Len(L) = Len(K) + Len(added)
        /\ \A i \in 1..Len(K) : L[i] = K[i]
        /\ \A i \in 1..Len(added) : L[Len(K) + i] = added[i]
    <3>1. K \in Seq(Word) /\ added \in Seq(Word)
      BY <1>4
    <3> HIDE DEF Word
    <3>2. K \o added \in Seq(Word)
      BY <3>1, Joined
    <3>3. Len(K \o added) = Len(K) + Len(added)
      BY <3>1, Joined
    <3>4. \A i \in 1..Len(K) : (K \o added)[i] = K[i]
      BY <3>1, Joined
    <3>5. \A i \in 1..Len(added) : (K \o added)[Len(K) + i] = added[i]
      BY <3>1, Joined
    <3> QED
      BY <1>5, <3>2, <3>3, <3>4, <3>5, Zenon
  <2> QED
    BY <1>1, <1>4, <2>1
<1>7. \A i \in 1..(k + 1) : arrived[i] \in Nat
  <2>1. Len(arrived) = k + 1 /\ arrived \in Seq(Nat)
    OBVIOUS
  <2> QED
    BY <2>1, ElementOfSeq
<1>8. \A i \in 1..n : K[i] \in Word
  BY <1>1, ElementOfSeq
<1>9. ASSUME NEW i \in 1..(n + k)
      PROVE  to_usec(L[i]) = arrived[l[i]] - arrived[e[i]]
  <2>1. CASE i \in 1..n
    <3>1. L[i] = K[i] /\ e[i] = early[i] /\ l[i] = late[i]
      BY <1>2, <1>3, <1>6, <2>1 DEF EarlyWith, LateWith
    <3> QED
      BY <1>1, <2>1, <3>1 DEF Right
  <2>2. CASE i = n + k
    <3>1. ~(i <= n) /\ ~(i < n + k) /\ k \in 1..k
      BY <2>2
    <3>2. L[i] = t /\ e[i] = k /\ l[i] = k + 1
      BY <1>2, <1>3, <1>6, <2>2, <3>1 DEF EarlyWith, LateWith, AddedTimes
    <3> QED
      BY <3>2
  <2>3. CASE i > n /\ i < n + k
    <3>1. PICK m \in 1..(k - 1) : m = i - n
      BY <2>3
    <3>2. m \in 1..k /\ i = n + m /\ ~(i <= n)
      BY <2>3, <3>1
    <3>3. L[i] = Plus(t, K[src[m]]) /\ e[i] = early[src[m]] /\ l[i] = k + 1
      BY <1>2, <1>3, <1>6, <2>3, <3>1, <3>2 DEF EarlyWith, LateWith, AddedTimes
    <3>4. /\ src[m] \in 1..n /\ late[src[m]] = k /\ early[src[m]] \in 1..k
          /\ src[m] > n - (k - 1)
      BY <1>1 DEF Sources, Matches
    <3>5. PICK w \in Word : w = K[src[m]]
      BY <1>8, <3>4, Zenon
    <3>6. t.usec + w.usec < 2 * USECS
      <4>1. w.usec + t.usec < 2 * USECS
        BY <1>1, <3>4, <3>5 DEF NoSecondLost
      <4> QED
        BY <4>1 DEF Word
    <3>7. PICK x \in Nat : x = arrived[early[src[m]]]
      <4>1. early[src[m]] \in 1..(k + 1)
        BY <3>4
      <4> QED
        BY <1>7, <4>1, Zenon
    <3>8. PICK y \in Nat, z \in Nat : y = arrived[k] /\ z = arrived[k + 1]
      BY <1>7
    <3>9. to_usec(w) = y - x /\ to_usec(t) = z - y
      BY <1>1, <3>4, <3>5, <3>7, <3>8 DEF Right
    <3>10. to_usec(t) + to_usec(w) = z - x
      BY <3>9
    <3>11. to_usec(t) + to_usec(w) < OneTurn
      <4>1. early[src[m]] \in 1..Len(arrived)
        BY <3>4
      <4>2. arrived[Len(arrived)] - arrived[early[src[m]]] < OneTurn
        BY <4>1 DEF WithinATurn
      <4> QED
        BY <3>7, <3>8, <3>10, <4>2
    <3>12. to_usec(Plus(t, w)) = z - x
      BY <3>6, <3>10, <3>11, PlusIsSum
    <3> QED
      BY <3>3, <3>5, <3>7, <3>8, <3>12
  <2> QED
    BY <2>1, <2>2, <2>3
<1> QED
  BY <1>1, <1>2, <1>3, <1>5, <1>6, <1>9 DEF Right

-----------------------------------------------------------------------------
(* The invariant. *)

Cached(d) ==
  IF d \in DOMAIN inter_arrival_times THEN inter_arrival_times[d].times ELSE <<>>

\* The packets of d whose times have been added: not yet the one that store works at.
Timed(d) ==
  IF phase # "idle" /\ d = id THEN Len(arrivals[d]) - 1 ELSE Len(arrivals[d])

\* K has the times of k packets, and exact says that they are right.
AllTimed(K, arrived, k, exact) ==
  \E early, late : Matches(K, k, early, late) /\ (exact => Right(K, arrived, early, late))

\* The times of the latest packet are cached all or none.
LatestTogether(cached, k) == cached = <<>> \/ k - 1 <= Len(cached)

InOrder ==
  \A d \in Dir_ids : \A i, j \in 1..Len(arrivals[d]) :
    i <= j => arrivals[d][i] <= arrivals[d][j] /\ arrivals[d][j] <= clock

PairsTimed(exact) ==
  \A d \in Dir_ids : /\ AllTimed(Kept(d), arrivals[d], Timed(d), exact)
                     /\ LatestTogether(Cached(d), Timed(d))

IInv(exact) == TypeOK /\ InOrder /\ PairsTimed(exact)

LEMMA KeptIsBoth == \A d : Kept(d) = stored[d] \o Cached(d)
BY DEF Kept, Cached

\* What is kept of a direction, and what of it is cached.
LEMMA KeptIsSeq ==
  ASSUME TypeOK, NEW d \in Dir_ids
  PROVE  /\ Cached(d) \in Seq(Word) /\ stored[d] \in Seq(Word) /\ Kept(d) \in Seq(Word)
         /\ arrivals[d] \in Seq(Nat) /\ Len(arrivals[d]) \in Nat
<1>1. stored[d] \in Seq(Word) /\ arrivals[d] \in Seq(Nat)
  BY DEF TypeOK
<1>2. Cached(d) \in Seq(Word)
  <2>1. CASE d \in DOMAIN inter_arrival_times
    <3>1. inter_arrival_times[d] \in Entry
      BY <2>1 DEF TypeOK
    <3> QED
      BY <2>1, <3>1 DEF Cached, Entry
  <2>2. CASE d \notin DOMAIN inter_arrival_times
    BY <2>2 DEF Cached
  <2> QED
    BY <2>1, <2>2
<1>3. stored[d] \o Cached(d) \in Seq(Word)
  BY <1>1, <1>2, Joined
<1>4. Kept(d) \in Seq(Word)
  BY <1>3, KeptIsBoth, Zenon
<1>5. Len(arrivals[d]) \in Nat
  BY <1>1
<1> QED
  BY <1>1, <1>2, <1>4, <1>5, Zenon

LEMMA PairsTimedInit == ASSUME NEW exact \in BOOLEAN PROVE Init => IInv(exact)
<1> SUFFICES ASSUME Init PROVE IInv(exact)
  OBVIOUS
<1>1. inter_arrival_times = <<>> /\ DOMAIN inter_arrival_times = {}
  BY DEF Init
<1>2. /\ stored = [d \in Dir_ids |-> <<>>] /\ arrivals = [d \in Dir_ids |-> <<>>]
      /\ clock = 0 /\ phase = "idle" /\ oldest_age = AGE_MAX
  BY DEF Init
<1>3. inter_arrival_times \in [{} -> Entry]
  BY <1>1
<1>4. TypeOK
  <2>1. AGE_MAX \in Nat
    BY CacheAssumption
  <2>2. stored \in [Dir_ids -> Seq(Word)] /\ arrivals \in [Dir_ids -> Seq(Nat)]
    BY <1>2
  <2> QED
    BY <1>1, <1>2, <1>3, <2>1, <2>2 DEF TypeOK
<1>5. InOrder
  BY <1>2 DEF InOrder
<1>6. ASSUME NEW d \in Dir_ids
      PROVE  AllTimed(Kept(d), arrivals[d], Timed(d), exact) /\ LatestTogether(Cached(d), Timed(d))
  <2>1. Kept(d) = <<>> /\ Timed(d) = 0 /\ Cached(d) = <<>>
    BY <1>1, <1>2 DEF Kept, Timed, Cached
  <2>2. Matches(<<>>, 0, <<>>, <<>>) /\ Right(<<>>, arrivals[d], <<>>, <<>>)
    BY DEF Matches, Right
  <2> QED
    BY <2>1, <2>2 DEF AllTimed, LatestTogether
<1> QED
  BY <1>4, <1>5, <1>6 DEF IInv, PairsTimed

\* A step that only moves times from the cache to the database.
OnlyMoves ==
  /\ TypeOK' /\ UNCHANGED <<arrivals, clock>>
  /\ \A d \in Dir_ids : /\ Kept(d)' = Kept(d) /\ Timed(d)' = Timed(d)
                        /\ Cached(d)' = Cached(d) \/ Cached(d)' = <<>>

LEMMA SameTimes ==
  ASSUME NEW exact \in BOOLEAN, IInv(exact), OnlyMoves
  PROVE  IInv(exact)'
<1>0. /\ TypeOK' /\ UNCHANGED <<arrivals, clock>>
      /\ \A d \in Dir_ids : /\ Kept(d)' = Kept(d) /\ Timed(d)' = Timed(d)
                            /\ Cached(d)' = Cached(d) \/ Cached(d)' = <<>>
  BY DEF OnlyMoves
<1>1. InOrder'
  BY <1>0 DEF IInv, InOrder
<1>2. PairsTimed(exact)'
  <2>1. ASSUME NEW d \in Dir_ids
        PROVE  /\ AllTimed(Kept(d)', arrivals'[d], Timed(d)', exact)
               /\ LatestTogether(Cached(d)', Timed(d)')
    <3>1. AllTimed(Kept(d), arrivals[d], Timed(d), exact) /\ LatestTogether(Cached(d), Timed(d))
      BY DEF IInv, PairsTimed
    <3>2. LatestTogether(<<>>, Timed(d))
      BY DEF LatestTogether
    <3> QED
      BY <1>0, <3>1, <3>2
  <2> QED
    BY <2>1 DEF PairsTimed
<1> QED
  BY <1>0, <1>1, <1>2 DEF IInv

LEMMA BeginMoves ==
  ASSUME NEW exact \in BOOLEAN, IInv(exact), begin
  PROVE  OnlyMoves
<1> DEFINE m == inter_arrival_times
           m2 == update_age_byte(m)
<1>1. /\ phase = "age" /\ inter_arrival_times' = m2 /\ phase' \in {"flush", "add"}
      /\ oldest_age' = AGE_MAX /\ UNCHANGED <<stored, arrivals, clock, id>>
  BY DEF begin
<1>2. DOMAIN m2 = DOMAIN m /\ \A d \in DOMAIN m : m2[d].times = m[d].times /\ m2[d] \in Entry
  <2>1. \A d \in DOMAIN m : m[d] \in Entry
    BY DEF IInv, TypeOK
  <2>2. AGE_MAX \in Nat
    BY CacheAssumption
  <2> QED
    BY <2>1, <2>2 DEF update_age_byte, Entry
<1>3. TypeOK'
  <2>1. m2 \in [DOMAIN m2 -> Entry]
    BY <1>2 DEF update_age_byte
  <2>2. AGE_MAX \in 0..AGE_MAX
    BY CacheAssumption
  <2> HIDE DEF m2
  <2> QED
    BY <1>1, <1>2, <2>1, <2>2 DEF IInv, TypeOK
<1>4. ASSUME NEW d \in Dir_ids
      PROVE  Kept(d)' = Kept(d) /\ Timed(d)' = Timed(d) /\ Cached(d)' = Cached(d)
  <2> HIDE DEF m2
  <2>1. Cached(d)' = Cached(d)
    BY <1>1, <1>2 DEF Cached
  <2>2. Kept(d)' = Kept(d)
    BY <1>1, <2>1, KeptIsBoth DEF Kept, Cached
  <2>3. Timed(d)' = Timed(d)
    BY <1>1 DEF Timed
  <2> QED
    BY <2>1, <2>2, <2>3
<1> QED
  BY <1>1, <1>3, <1>4 DEF OnlyMoves

LEMMA ShrunkEntry ==
  ASSUME NEW e \in Entry
  PROVE  LET f == [e EXCEPT !.times = <<>>, !.capacity = 0]
         IN  f \in Entry /\ f.times = <<>> /\ f.capacity = 0 /\ f.age = e.age
<1>1. PICK f : f = [e EXCEPT !.times = <<>>, !.capacity = 0]
  OBVIOUS
<1>2. f = [age |-> e.age, times |-> <<>>, capacity |-> 0]
  BY <1>1 DEF Entry
<1>3. e.age \in 0..AGE_MAX /\ <<>> \in Seq(Word) /\ 0 \in Nat
  BY DEF Entry
<1>4. f \in Entry
  BY <1>2, <1>3 DEF Entry
<1> QED
  BY <1>1, <1>2, <1>4

LEMMA RoundMoves ==
  ASSUME NEW exact \in BOOLEAN, IInv(exact), round
  PROVE  OnlyMoves
<1> DEFINE m == inter_arrival_times
           out == OfAge(m, oldest_age)
           m2 == Shrunk(m, out)
<1>1. /\ phase = "flush" /\ inter_arrival_times' = m2 /\ oldest_age' = NextAge(oldest_age)
      /\ stored' = [d \in Dir_ids |-> IF d \in out THEN stored[d] \o m[d].times ELSE stored[d]]
      /\ UNCHANGED <<arrivals, clock, phase, id>>
  BY DEF round
<1>2. \A d \in DOMAIN m : m[d] \in Entry
  BY DEF IInv, TypeOK
<1>3. /\ DOMAIN m2 = DOMAIN m
      /\ \A d \in DOMAIN m : m2[d] \in Entry
      /\ \A d \in DOMAIN m : m2[d].times = IF d \in out THEN <<>> ELSE m[d].times
  <2> HIDE DEF out
  <2>2. DOMAIN m2 = DOMAIN m
    BY DEF Shrunk
  <2>3. ASSUME NEW d \in DOMAIN m
        PROVE  m2[d] \in Entry /\ m2[d].times = IF d \in out THEN <<>> ELSE m[d].times
    <3>1. m[d] \in Entry
      BY <1>2
    <3>2. CASE d \in out
      BY <3>1, <3>2, ShrunkEntry DEF Shrunk
    <3>3. CASE d \notin out
      BY <3>1, <3>3 DEF Shrunk
    <3> QED
      BY <3>2, <3>3
  <2> QED
    BY <2>2, <2>3
<1>4. out \subseteq DOMAIN m
  BY DEF OfAge
<1> HIDE DEF m2, out
<1>5. ASSUME NEW d \in Dir_ids
      PROVE  /\ stored'[d] \in Seq(Word)
             /\ Kept(d)' = Kept(d) /\ Timed(d)' = Timed(d)
             /\ Cached(d)' = Cached(d) \/ Cached(d)' = <<>>
  <2>1. /\ stored[d] \in Seq(Word) /\ Cached(d) \in Seq(Word)
        /\ Kept(d) = stored[d] \o Cached(d)
    BY KeptIsSeq, KeptIsBoth DEF IInv
  <2>2. Kept(d)' = stored'[d] \o Cached(d)'
    BY DEF Kept, Cached
  <2>3. CASE d \in out
    <3>1. Cached(d) = m[d].times /\ Cached(d)' = <<>>
      BY <1>1, <1>3, <1>4, <2>3 DEF Cached
    <3>2. stored'[d] = stored[d] \o Cached(d)
      BY <1>1, <2>3, <3>1
    <3>3. (stored[d] \o Cached(d)) \o <<>> = stored[d] \o Cached(d)
      BY <2>1
    <3>4. stored[d] \o Cached(d) \in Seq(Word)
      BY <2>1, Joined
    <3> QED
      BY <1>1, <2>1, <2>2, <3>1, <3>2, <3>3, <3>4 DEF Timed
  <2>4. CASE d \notin out
    <3>1. Cached(d)' = Cached(d)
      BY <1>1, <1>3, <2>4 DEF Cached
    <3>2. stored'[d] = stored[d]
      BY <1>1, <2>4
    <3> QED
      BY <1>1, <2>1, <2>2, <3>1, <3>2 DEF Timed
  <2> QED
    BY <2>3, <2>4
<1>6. NextAge(oldest_age) \in 0..AGE_MAX
  <2>1. oldest_age \in 0..AGE_MAX /\ AGE_MAX \in Nat
    BY CacheAssumption DEF IInv, TypeOK
  <2>2. PICK a \in Int : a = oldest_age - 1
    BY <2>1
  <2>3. PICK n \in Nat \ {0} : n = AGE_MAX + 1
    BY <2>1
  <2>4. a % n \in 0..(n - 1)
    BY DivMod
  <2>5. 0..(n - 1) = 0..AGE_MAX
    BY <2>1, <2>3
  <2> QED
    BY <2>2, <2>3, <2>4, <2>5 DEF NextAge
<1>7. TypeOK'
  <2>1. m2 \in [DOMAIN m2 -> Entry]
    BY <1>3 DEF m2, Shrunk
  <2>2. stored' \in [Dir_ids -> Seq(Word)]
    BY <1>1, <1>5
  <2> QED
    BY <1>1, <1>3, <1>6, <2>1, <2>2 DEF IInv, TypeOK
<1> QED
  BY <1>1, <1>5, <1>7 DEF OnlyMoves

LEMMA FlushedMoves ==
  ASSUME NEW exact \in BOOLEAN, IInv(exact), flushed
  PROVE  OnlyMoves
<1>1. /\ phase = "flush" /\ phase' = "add"
      /\ UNCHANGED <<inter_arrival_times, stored, arrivals, clock, id, oldest_age>>
  BY DEF flushed
<1>2. TypeOK'
  BY <1>1 DEF IInv, TypeOK
<1>3. ASSUME NEW d \in Dir_ids
      PROVE  Kept(d)' = Kept(d) /\ Timed(d)' = Timed(d) /\ Cached(d)' = Cached(d)
  BY <1>1 DEF Kept, Timed, Cached
<1> QED
  BY <1>1, <1>2, <1>3 DEF OnlyMoves

\* The times of a direction are as right when another packet has come.
LEMMA RightWithMore ==
  ASSUME NEW K, NEW k \in Nat, NEW early, NEW late, Matches(K, k, early, late),
         NEW arrived, NEW more, \A i \in 1..k : more[i] = arrived[i],
         Right(K, arrived, early, late)
  PROVE  Right(K, more, early, late)
<1>1. \A i \in 1..Len(K) : early[i] \in 1..k /\ late[i] \in 1..k
  BY DEF Matches
<1>2. ASSUME NEW i \in 1..Len(K)
      PROVE  to_usec(K[i]) = more[late[i]] - more[early[i]]
  <2>1. early[i] \in 1..k /\ late[i] \in 1..k
    BY <1>1
  <2>2. more[early[i]] = arrived[early[i]] /\ more[late[i]] = arrived[late[i]]
    BY <2>1
  <2>3. to_usec(K[i]) = arrived[late[i]] - arrived[early[i]]
    BY DEF Right
  <2> QED
    BY <2>2, <2>3
<1> QED
  BY <1>2 DEF Right

\* No pair, no time.
LEMMA FirstPacket ==
  ASSUME NEW K \in Seq(Word), NEW arrived, NEW more, NEW exact \in BOOLEAN,
         AllTimed(K, arrived, 0, exact)
  PROVE  AllTimed(K, more, 1, exact)
<1>1. PICK early, late : Matches(K, 0, early, late)
  BY DEF AllTimed
<1>2. \A i \in 1..Len(K) : early[i] \in 1..0
  BY <1>1 DEF Matches
<1>3. \A i \in 1..Len(K) : FALSE
  BY <1>2
<1>4. Matches(K, 1, early, late) /\ Right(K, more, early, late)
  <2>1. Len(K) = 0
    BY <1>3
  <2> QED
    BY <2>1 DEF Matches, Right
<1> QED
  BY <1>4 DEF AllTimed

LEMMA AddPacketInvariant ==
  ASSUME NEW exact \in BOOLEAN, IInv(exact), NEW d \in Dir_ids, NEW gap \in Gaps,
         add_packet(d, gap)
  PROVE  IInv(exact)'
<1>1. /\ phase = "idle" /\ clock' = clock + gap
      /\ arrivals' = [arrivals EXCEPT ![d] = Append(@, clock')]
      /\ UNCHANGED <<inter_arrival_times, stored, oldest_age>>
  BY DEF add_packet
<1>2. IF arrivals[d] = <<>> THEN UNCHANGED <<phase, id>> ELSE phase' = "age" /\ id' = d
  BY DEF add_packet
<1>3. clock \in Nat /\ clock' \in Nat /\ clock <= clock'
  BY <1>1, CacheAssumption DEF IInv, TypeOK
<1>4. arrivals \in [Dir_ids -> Seq(Nat)]
  BY DEF IInv, TypeOK
<1>5. PICK n \in Nat : n = Len(arrivals[d])
  BY <1>4
<1>6. /\ arrivals'[d] \in Seq(Nat) /\ Len(arrivals'[d]) = n + 1
      /\ \A i \in 1..n : arrivals'[d][i] = arrivals[d][i]
      /\ arrivals'[d][n + 1] = clock'
  <2>1. arrivals'[d] = Append(arrivals[d], clock') /\ arrivals[d] \in Seq(Nat)
    BY <1>1, <1>4
  <2> QED
    BY <1>3, <1>5, <2>1
<1>7. \A x \in Dir_ids : x # d => arrivals'[x] = arrivals[x]
  BY <1>1, <1>4
<1>8. TypeOK'
  <2>1. arrivals' \in [Dir_ids -> Seq(Nat)]
    BY <1>1, <1>4, <1>6
  <2>2. phase' \in {"idle", "age", "flush", "add"}
    BY <1>1, <1>2 DEF IInv, TypeOK
  <2>3. phase' # "idle" => id' \in Dir_ids /\ Len(arrivals'[id']) > 1
    <3> SUFFICES ASSUME phase' # "idle" PROVE id' \in Dir_ids /\ Len(arrivals'[id']) > 1
      OBVIOUS
    <3>1. arrivals[d] # <<>> /\ id' = d
      BY <1>1, <1>2
    <3>2. n > 0
      BY <1>4, <1>5, <3>1
    <3> QED
      BY <1>6, <3>1, <3>2
  <2> QED
    BY <1>1, <1>3, <2>1, <2>2, <2>3 DEF IInv, TypeOK
<1>9. InOrder'
  <2>1. ASSUME NEW x \in Dir_ids, NEW i \in 1..Len(arrivals'[x]), NEW j \in 1..Len(arrivals'[x]),
               i <= j
        PROVE  arrivals'[x][i] <= arrivals'[x][j] /\ arrivals'[x][j] <= clock'
    <3>1. \A a, b \in 1..Len(arrivals[x]) :
            a <= b => arrivals[x][a] <= arrivals[x][b] /\ arrivals[x][b] <= clock
      BY DEF IInv, InOrder
    <3>2. \A a \in 1..Len(arrivals[x]) : arrivals[x][a] \in Nat
      BY <1>4
    <3>3. CASE x # d
      <4>1. i \in 1..Len(arrivals[x]) /\ j \in 1..Len(arrivals[x])
        BY <1>7, <3>3
      <4>2. arrivals[x][i] <= arrivals[x][j] /\ arrivals[x][j] <= clock /\ arrivals[x][j] \in Nat
        BY <2>1, <3>1, <3>2, <4>1
      <4> QED
        BY <1>3, <1>7, <3>3, <4>2
    <3>4. CASE x = d /\ j = n + 1
      <4>1. arrivals'[x][j] = clock'
        BY <1>6, <3>4
      <4>2. CASE i = n + 1
        BY <1>3, <3>4, <4>1, <4>2
      <4>3. CASE i # n + 1
        <5>1. i \in 1..n
          BY <1>5, <1>6, <3>4, <4>3
        <5>2. arrivals'[x][i] = arrivals[x][i] /\ arrivals[x][i] <= clock /\ arrivals[x][i] \in Nat
          BY <1>5, <1>6, <3>1, <3>2, <3>4, <5>1
        <5> QED
          BY <1>3, <4>1, <5>2
      <4> QED
        BY <4>2, <4>3
    <3>5. CASE x = d /\ j # n + 1
      <4>1. i \in 1..n /\ j \in 1..n
        BY <1>5, <1>6, <2>1, <3>5
      <4>2. arrivals'[x][i] = arrivals[x][i] /\ arrivals'[x][j] = arrivals[x][j]
        BY <1>6, <3>5, <4>1
      <4>3. arrivals[x][i] <= arrivals[x][j] /\ arrivals[x][j] <= clock /\ arrivals[x][j] \in Nat
        BY <1>5, <2>1, <3>1, <3>2, <3>5, <4>1
      <4> QED
        BY <1>3, <4>2, <4>3
    <3> QED
      BY <3>3, <3>4, <3>5
  <2> QED
    BY <2>1 DEF InOrder
<1>10. ASSUME NEW x \in Dir_ids
       PROVE  /\ AllTimed(Kept(x)', arrivals'[x], Timed(x)', exact)
              /\ LatestTogether(Cached(x)', Timed(x)')
  <2>1. /\ AllTimed(Kept(x), arrivals[x], Len(arrivals[x]), exact)
        /\ LatestTogether(Cached(x), Len(arrivals[x]))
    BY <1>1 DEF IInv, PairsTimed, Timed
  <2>2. Kept(x)' = Kept(x) /\ Cached(x)' = Cached(x)
    BY <1>1 DEF Kept, Cached
  <2>3. CASE x # d
    <3>1. Timed(x)' = Len(arrivals[x])
      BY <1>1, <1>2, <1>7, <2>3 DEF Timed
    <3> QED
      BY <1>7, <2>1, <2>2, <2>3, <3>1
  <2>4. CASE x = d /\ arrivals[d] = <<>>
    <3>1. n = 0 /\ Timed(x)' = 1
      BY <1>1, <1>2, <1>5, <1>6, <2>4 DEF Timed
    <3>2. Kept(x) \in Seq(Word) /\ Cached(x) \in Seq(Word)
      BY KeptIsSeq DEF IInv
    <3>3. AllTimed(Kept(x), arrivals'[x], 1, exact)
      BY <1>5, <2>1, <2>4, <3>1, <3>2, FirstPacket
    <3>4. LatestTogether(Cached(x), 1)
      BY <3>2 DEF LatestTogether
    <3> QED
      BY <2>2, <3>1, <3>3, <3>4
  <2>5. CASE x = d /\ arrivals[d] # <<>>
    <3>1. Timed(x)' = n
      BY <1>1, <1>2, <1>5, <1>6, <2>5 DEF Timed
    <3>2. PICK early, late : /\ Matches(Kept(x), n, early, late)
                             /\ exact => Right(Kept(x), arrivals[x], early, late)
      BY <1>5, <2>1, <2>5 DEF AllTimed
    <3>3. exact => Right(Kept(x), arrivals'[x], early, late)
      BY <1>6, <2>5, <3>2, RightWithMore
    <3>4. AllTimed(Kept(x), arrivals'[x], n, exact)
      BY <3>2, <3>3 DEF AllTimed
    <3> QED
      BY <1>5, <2>1, <2>2, <2>5, <3>1, <3>4
  <2> QED
    BY <2>3, <2>4, <2>5
<1> QED
  BY <1>8, <1>9, <1>10 DEF IInv, PairsTimed

-----------------------------------------------------------------------------
(* store. *)

\* The times that store computes with, and those it adds.
Needed(cached, db, k) ==
  IF k - 1 > Len(cached) THEN fetch_last_n(cached, db, (k - 1) - Len(cached)) ELSE cached
Computed(times, k, t) ==
  [i \in 1..(k - 1) |-> Plus(t, times[Len(times) - (k - 1) + i])] \o <<t>>

LEMMA Fetched ==
  ASSUME NEW S, NEW db \in Seq(S), NEW n \in Nat, n <= Len(db)
  PROVE  /\ fetch_last_n(<<>>, db, n) \in Seq(S)
         /\ Len(fetch_last_n(<<>>, db, n)) = n
         /\ \A i \in 1..n : fetch_last_n(<<>>, db, n)[i] = db[Len(db) - i + 1]
<1>1. PICK r : r = Reverse(db)
  OBVIOUS
<1>2. r \in Seq(S) /\ Len(r) = Len(db) /\ \A i \in 1..Len(db) : r[i] = db[Len(db) - i + 1]
  BY <1>1 DEF Reverse
<1>3. PICK f : f = SubSeq(r, 1, n)
  OBVIOUS
<1>4. f \in Seq(S) /\ Len(f) = n /\ \A i \in 1..n : f[i] = r[i]
  BY <1>2, <1>3
<1>5. n = IF n < Len(db) THEN n ELSE Len(db)
  OBVIOUS
<1>6. fetch_last_n(<<>>, db, n) = <<>> \o f
  BY <1>1, <1>3, <1>5, Zenon DEF fetch_last_n
<1>7. <<>> \o f = f
  BY <1>4
<1>8. \A i \in 1..n : f[i] = db[Len(db) - i + 1]
  BY <1>2, <1>4
<1> QED
  BY <1>4, <1>6, <1>7, <1>8, Zenon

\* One more member.
LEMMA OneMore ==
  ASSUME NEW S, NEW c \in Seq(S), NEW t \in S
  PROVE  /\ c \o <<t>> \in Seq(S)
         /\ Len(c \o <<t>>) = Len(c) + 1
         /\ \A i \in 1..Len(c) : (c \o <<t>>)[i] = c[i]
         /\ (c \o <<t>>)[Len(c) + 1] = t
  OBVIOUS

\* The last members.
LEMMA LastOnes ==
  ASSUME NEW S, NEW s \in Seq(S), NEW n \in Nat, NEW k \in Nat \ {0}, Len(s) = n + k
  PROVE  /\ SubSeq(s, n + 1, n + k) \in Seq(S)
         /\ Len(SubSeq(s, n + 1, n + k)) = k
         /\ \A i \in 1..k : SubSeq(s, n + 1, n + k)[i] = s[n + i]
<1>1. \A i \in (n + 1)..(n + k) : s[i] \in S
  BY ElementOfSeq
<1>2. SubSeq(s, n + 1, n + k) \in Seq(S)
  OBVIOUS
<1>3. Len(SubSeq(s, n + 1, n + k)) = k
  OBVIOUS
<1>4. ASSUME NEW i \in 1..k
      PROVE  SubSeq(s, n + 1, n + k)[i] = s[n + i]
  OBVIOUS
<1> QED
  BY <1>2, <1>3, <1>4

\* The times that store takes for its sums are those of the packet before.
TakenFrom(times, src, K, k) ==
  \A i \in 1..(k - 1) : /\ src[i] \in 1..Len(K)
                        /\ times[Len(times) - (k - 1) + i] = K[src[i]]

\* What is computed for a packet, from the places src of the times kept.
LEMMA ComputedTimes ==
  ASSUME NEW K \in Seq(Word), NEW k \in Nat \ {0}, NEW t \in Word,
         NEW times, NEW src, TakenFrom(times, src, K, k)
  PROVE  AddedTimes(Computed(times, k, t), src, K, k, t)
<1>1. PICK n \in Nat : n = k - 1
  OBVIOUS
<1>2. PICK c : c = [i \in 1..n |-> Plus(t, times[Len(times) - n + i])]
  OBVIOUS
<1>3. \A i \in 1..n : src[i] \in 1..Len(K) /\ times[Len(times) - n + i] = K[src[i]]
  BY <1>1 DEF TakenFrom
<1>4. ASSUME NEW i \in 1..n
      PROVE  c[i] = Plus(t, K[src[i]]) /\ c[i] \in Word
  <2>1. src[i] \in 1..Len(K)
    BY <1>3
  <2>2. K[src[i]] \in Word
    BY <2>1, ElementOfSeq
  <2>3. c[i] = Plus(t, K[src[i]])
    BY <1>2, <1>3
  <2> QED
    BY <2>2, <2>3, PlusIsWord
<1>5. c \in Seq(Word) /\ Len(c) = n
  <2>1. c \in [1..n -> Word]
    BY <1>2, <1>4
  <2> HIDE DEF Word
  <2> QED
    BY <2>1
<1>6. Computed(times, k, t) = c \o <<t>>
  BY <1>1, <1>2 DEF Computed
<1>7. /\ c \o <<t>> \in Seq(Word) /\ Len(c \o <<t>>) = Len(c) + 1
      /\ \A i \in 1..Len(c) : (c \o <<t>>)[i] = c[i]
      /\ (c \o <<t>>)[Len(c) + 1] = t
  <2> HIDE DEF Word
  <2>1. c \o <<t>> \in Seq(Word)
    BY <1>5, OneMore
  <2>2. Len(c \o <<t>>) = Len(c) + 1
    BY <1>5, OneMore
  <2>3. \A i \in 1..Len(c) : (c \o <<t>>)[i] = c[i]
    BY <1>5, OneMore
  <2>4. (c \o <<t>>)[Len(c) + 1] = t
    BY <1>5, OneMore
  <2> QED
    BY <2>1, <2>2, <2>3, <2>4
<1>8. PICK added : added = c \o <<t>>
  OBVIOUS
<1>9. n + 1 = k
  BY <1>1
<1>10. added \in Seq(Word) /\ Len(added) = k /\ added[k] = t
  BY <1>5, <1>7, <1>8, <1>9, Zenon
<1>11. \A i \in 1..(k - 1) : added[i] = Plus(t, K[src[i]])
  BY <1>1, <1>4, <1>5, <1>7, <1>8, Zenon
<1> QED
  BY <1>6, <1>8, <1>10, <1>11, Zenon DEF AddedTimes

\* The entry of the direction after that.  The times that were fetched back are the
\* latest ones of an empty cache, and leave it again.
Stays(cached, times, added, k) ==
  IF Len(times) > Len(cached)
  THEN SubSeq(times \o added, k, Len(times \o added))
  ELSE times \o added

LEMMA FetchedTimes ==
  ASSUME NEW db \in Seq(Word), NEW k \in Nat \ {0}, k - 1 <= Len(db), NEW t \in Word,
         k - 1 > 0
  PROVE  LET times == Needed(<<>>, db, k)
             added == Computed(times, k, t)
         IN  /\ \E src : Sources(src, db, k) /\ AddedTimes(added, src, db, k, t)
             /\ Stays(<<>>, times, added, k) = added
             /\ Len(times \o added) \in Nat
<1>1. PICK n \in Nat : n = k - 1
  OBVIOUS
<1>2. PICK times : times = Needed(<<>>, db, k)
  OBVIOUS
<1>3. times = fetch_last_n(<<>>, db, n)
  <2>1. k - 1 > Len(<<>>) /\ (k - 1) - Len(<<>>) = n
    BY <1>1
  <2> QED
    BY <1>2, <2>1 DEF Needed
<1>4. /\ times \in Seq(Word) /\ Len(times) = n
      /\ \A i \in 1..n : times[i] = db[Len(db) - i + 1]
  BY <1>1, <1>3, Fetched
<1>5. PICK src : src = [i \in 1..n |-> Len(db) - i + 1]
  OBVIOUS
<1>6. ASSUME NEW i \in 1..n
      PROVE  src[i] \in 1..Len(db) /\ src[i] > Len(db) - n /\ src[i] = Len(db) - i + 1
  BY <1>1, <1>5
<1>7. Sources(src, db, k)
  <2>1. \A i, j \in 1..n : src[i] = src[j] => i = j
    BY <1>5
  <2>2. ASSUME NEW p \in 1..Len(db), p > Len(db) - n
        PROVE  \E i \in 1..n : src[i] = p
    <3>1. Len(db) - p + 1 \in 1..n
      BY <1>1, <2>2
    <3>2. src[Len(db) - p + 1] = p
      BY <1>5, <3>1
    <3> QED
      BY <3>1, <3>2
  <2> QED
    BY <1>1, <1>6, <2>1, <2>2 DEF Sources
<1>8. TakenFrom(times, src, db, k)
  <2>1. ASSUME NEW i \in 1..(k - 1)
        PROVE  src[i] \in 1..Len(db) /\ times[Len(times) - (k - 1) + i] = db[src[i]]
    <3>1. i \in 1..n /\ Len(times) - (k - 1) + i = i
      BY <1>1, <1>4
    <3> QED
      BY <1>4, <1>6, <3>1
  <2> QED
    BY <2>1 DEF TakenFrom
<1>9. PICK added : added = Computed(times, k, t)
  OBVIOUS
<1>10. AddedTimes(added, src, db, k, t)
  BY <1>8, <1>9, ComputedTimes
<1>11. added \in Seq(Word) /\ Len(added) = k
  BY <1>10 DEF AddedTimes
<1>12. /\ times \o added \in Seq(Word) /\ Len(times \o added) = n + k
       /\ \A i \in 1..k : (times \o added)[n + i] = added[i]
  <2>1. times \o added \in Seq(Word)
    BY <1>4, <1>11, Joined
  <2>2. Len(times \o added) = n + k
    BY <1>4, <1>11, Joined
  <2>3. \A i \in 1..k : (times \o added)[n + i] = added[i]
    BY <1>4, <1>11, Joined
  <2> QED
    BY <2>1, <2>2, <2>3
<1>13. SubSeq(times \o added, k, Len(times \o added)) = added
  <2>1. PICK all : all = times \o added
    OBVIOUS
  <2>2. all \in Seq(Word) /\ Len(all) = n + k /\ k = n + 1
    BY <1>1, <1>12, <2>1
  <2>3. PICK last : last = SubSeq(all, n + 1, n + k)
    OBVIOUS
  <2>4. last \in Seq(Word) /\ Len(last) = k /\ \A i \in 1..k : last[i] = all[n + i]
    <3> HIDE DEF Word
    <3>1. last \in Seq(Word)
      BY <1>1, <2>2, <2>3, LastOnes
    <3>2. Len(last) = k
      BY <1>1, <2>2, <2>3, LastOnes
    <3>3. \A i \in 1..k : last[i] = all[n + i]
      BY <1>1, <2>2, <2>3, LastOnes
    <3> QED
      BY <3>1, <3>2, <3>3
  <2>5. \A i \in 1..k : last[i] = added[i]
    BY <1>12, <2>1, <2>4
  <2>6. last = added
    <3> HIDE DEF Word
    <3> QED
      BY <1>11, <2>4, <2>5
  <2> QED
    BY <2>1, <2>2, <2>3, <2>6
<1>14. Len(times) > Len(<<>>)
  BY <1>1, <1>4
<1>15. Stays(<<>>, times, added, k) = added /\ Len(times \o added) \in Nat
  BY <1>1, <1>12, <1>13, <1>14 DEF Stays
<1> QED
  BY <1>2, <1>7, <1>9, <1>10, <1>15

LEMMA CachedTimes ==
  ASSUME NEW db \in Seq(Word), NEW cached \in Seq(Word), NEW k \in Nat \ {0},
         k - 1 <= Len(cached), NEW t \in Word
  PROVE  LET added == Computed(cached, k, t)
         IN  /\ \E src : /\ Sources(src, db \o cached, k)
                         /\ AddedTimes(added, src, db \o cached, k, t)
             /\ Needed(cached, db, k) = cached
             /\ Stays(cached, cached, added, k) = cached \o added
             /\ Len(cached \o added) - Len(cached) \in Nat
<1>1. PICK n \in Nat : n = k - 1
  OBVIOUS
<1>2. PICK K : K = db \o cached
  OBVIOUS
<1>3. /\ K \in Seq(Word) /\ Len(K) = Len(db) + Len(cached)
      /\ \A i \in 1..Len(cached) : K[Len(db) + i] = cached[i]
  <2>1. db \o cached \in Seq(Word)
    BY Joined
  <2>2. Len(db \o cached) = Len(db) + Len(cached)
    BY Joined
  <2>3. \A i \in 1..Len(cached) : (db \o cached)[Len(db) + i] = cached[i]
    BY Joined
  <2> QED
    BY <1>2, <2>1, <2>2, <2>3
<1>4. PICK src : src = [i \in 1..n |-> Len(K) - n + i]
  OBVIOUS
<1>5. ASSUME NEW i \in 1..n
      PROVE  src[i] \in 1..Len(K) /\ src[i] > Len(K) - n /\ src[i] = Len(K) - n + i
  <2>1. Len(db) \in Nat /\ Len(cached) \in Nat
    OBVIOUS
  <2>2. src[i] = Len(K) - n + i
    BY <1>4
  <2> QED
    BY <1>1, <1>3, <2>1, <2>2
<1>6. Sources(src, K, k)
  <2>1. Len(K) \in Nat
    BY <1>3
  <2>2. \A i, j \in 1..n : src[i] = src[j] => i = j
    BY <1>4, <2>1
  <2>3. ASSUME NEW p \in 1..Len(K), p > Len(K) - n
        PROVE  \E i \in 1..n : src[i] = p
    <3>1. p - (Len(K) - n) \in 1..n
      BY <1>1, <2>1, <2>3
    <3>2. src[p - (Len(K) - n)] = p
      BY <1>4, <2>1, <3>1
    <3> QED
      BY <3>1, <3>2
  <2> QED
    BY <1>1, <1>5, <2>2, <2>3 DEF Sources
<1>7. TakenFrom(cached, src, K, k)
  <2>1. ASSUME NEW i \in 1..(k - 1)
        PROVE  src[i] \in 1..Len(K) /\ cached[Len(cached) - (k - 1) + i] = K[src[i]]
    <3>1. Len(db) \in Nat /\ Len(cached) \in Nat
      OBVIOUS
    <3>2. i \in 1..n /\ Len(cached) - n + i \in 1..Len(cached)
      BY <1>1, <3>1
    <3>3. K[Len(db) + (Len(cached) - n + i)] = cached[Len(cached) - n + i]
      BY <1>3, <3>2
    <3>4. src[i] = Len(db) + (Len(cached) - n + i)
      BY <1>1, <1>3, <1>5, <3>1, <3>2
    <3> QED
      BY <1>1, <1>5, <3>2, <3>3, <3>4
  <2> QED
    BY <2>1 DEF TakenFrom
<1>8. PICK added : added = Computed(cached, k, t)
  OBVIOUS
<1>9. AddedTimes(added, src, K, k, t)
  BY <1>3, <1>7, <1>8, ComputedTimes
<1>10. Needed(cached, db, k) = cached
  <2>1. ~(k - 1 > Len(cached))
    BY <1>1
  <2> QED
    BY <2>1 DEF Needed
<1>11. Stays(cached, cached, added, k) = cached \o added
  <2>1. ~(Len(cached) > Len(cached))
    OBVIOUS
  <2> QED
    BY <2>1 DEF Stays
<1>12. Len(cached \o added) - Len(cached) \in Nat
  <2>1. added \in Seq(Word) /\ Len(added) = k
    BY <1>9 DEF AddedTimes
  <2>2. Len(cached \o added) = Len(cached) + Len(added)
    BY <2>1, Joined
  <2> QED
    BY <2>1, <2>2
<1> QED
  BY <1>2, <1>6, <1>8, <1>9, <1>10, <1>11, <1>12

\* Either way the times of a packet are added behind those kept, and are cached.
LEMMA NextTimes ==
  ASSUME NEW db \in Seq(Word), NEW cached \in Seq(Word), NEW k \in Nat \ {0},
         LatestTogether(cached, k), k - 1 <= Len(db \o cached), NEW t \in Word
  PROVE  LET times == Needed(cached, db, k)
             added == Computed(times, k, t)
             stays == Stays(cached, times, added, k)
         IN  /\ \E src : /\ Sources(src, db \o cached, k)
                         /\ AddedTimes(added, src, db \o cached, k, t)
             /\ stays \in Seq(Word) /\ k <= Len(stays)
             /\ db \o stays = (db \o cached) \o added
             /\ Len(times \o added) - Len(cached) \in Nat
<1>1. CASE k - 1 <= Len(cached)
  <2>1. PICK added : added = Computed(cached, k, t)
    OBVIOUS
  <2>2. /\ \E src : /\ Sources(src, db \o cached, k)
                    /\ AddedTimes(added, src, db \o cached, k, t)
        /\ Needed(cached, db, k) = cached
        /\ Stays(cached, cached, added, k) = cached \o added
        /\ Len(cached \o added) - Len(cached) \in Nat
    BY <1>1, <2>1, CachedTimes
  <2>3. added \in Seq(Word) /\ Len(added) = k
    BY <2>2 DEF AddedTimes
  <2>4. cached \o added \in Seq(Word)
    BY <2>3, Joined
  <2>5. Len(cached \o added) = Len(cached) + k
    BY <2>3, Joined
  <2>6. k <= Len(cached \o added)
    BY <2>5
  <2>7. db \o (cached \o added) = (db \o cached) \o added
    <3> HIDE DEF Word
    <3> QED
      BY <2>3
  <2> QED
    BY <2>1, <2>2, <2>4, <2>6, <2>7, Zenon
<1>2. CASE ~(k - 1 <= Len(cached))
  <2>1. cached = <<>> /\ Len(cached) = 0
    BY <1>2 DEF LatestTogether
  <2>2. db \o cached = db
    BY <2>1
  <2>3. k - 1 > 0 /\ k - 1 <= Len(db)
    BY <1>2, <2>1, <2>2
  <2>4. PICK times : times = Needed(cached, db, k)
    OBVIOUS
  <2>5. PICK added : added = Computed(times, k, t)
    OBVIOUS
  <2>6. /\ \E src : Sources(src, db, k) /\ AddedTimes(added, src, db, k, t)
        /\ Stays(cached, times, added, k) = added
        /\ Len(times \o added) \in Nat
    BY <2>1, <2>3, <2>4, <2>5, FetchedTimes
  <2>7. added \in Seq(Word) /\ Len(added) = k
    BY <2>6 DEF AddedTimes
  <2>8. k <= Len(added)
    BY <2>7
  <2>9. Len(times \o added) - Len(cached) \in Nat
    BY <2>1, <2>6
  <2> QED
    BY <2>2, <2>4, <2>5, <2>6, <2>7, <2>8, <2>9, Zenon
<1> QED
  BY <1>1, <1>2

\* The entry that store writes.
LEMMA NewEntryWritten ==
  ASSUME NEW e \in Entry, NEW k \in Nat \ {0}, NEW times,
         Stays(e.times, times, Computed(times, k, new_time), k) \in Seq(Word),
         Len(times \o Computed(times, k, new_time)) - Len(e.times) \in Nat
  PROVE  /\ With_new_time(e, times, k - 1) \in Entry
         /\ With_new_time(e, times, k - 1).times
              = Stays(e.times, times, Computed(times, k, new_time), k)
<1>1. PICK added : added = Computed(times, k, new_time)
  OBVIOUS
<1>2. PICK stays : stays = Stays(e.times, times, added, k)
  OBVIOUS
<1>3. PICK n \in Nat : n = Len(times \o added) - Len(e.times)
  BY <1>1
<1>4. PICK c : c = Grow(e.capacity, Len(e.times), n)
  OBVIOUS
<1>5. /\ e.age \in 0..AGE_MAX /\ e.times \in Seq(Word) /\ e.capacity \in Nat
      /\ e = [age |-> e.age, times |-> e.times, capacity |-> e.capacity]
  BY DEF Entry
<1>6. c \in Nat
  <2>1. Len(e.times) \in Nat
    BY <1>5
  <2> QED
    BY <1>4, <1>5, <2>1, GrowIsNat
<1>7. With_new_time(e, times, k - 1) = [e EXCEPT !.times = stays, !.capacity = c]
  <2>1. (k - 1) + 1 = k
    OBVIOUS
  <2> QED
    BY <1>1, <1>2, <1>3, <1>4, <2>1 DEF With_new_time, Computed, Stays
<1>8. With_new_time(e, times, k - 1) = [age |-> e.age, times |-> stays, capacity |-> c]
  BY <1>5, <1>7
<1> QED
  BY <1>1, <1>2, <1>5, <1>6, <1>8 DEF Entry

\* The distance of the packet that store works at to the one before.
LEMMA NewTimeIsDistance ==
  ASSUME TypeOK, InOrder, phase # "idle", NEW k \in Nat \ {0}, Len(arrivals[id]) = k + 1
  PROVE  /\ new_time \in Word
         /\ WithinATurn(arrivals[id]) =>
              to_usec(new_time) = arrivals[id][k + 1] - arrivals[id][k]
<1>1. PICK a \in Seq(Nat) : a = arrivals[id]
  BY DEF TypeOK
<1>2. id \in Dir_ids
  BY DEF TypeOK
<1>3. Len(a) = k + 1 /\ Len(a) - 1 = k
  BY <1>1
<1>4. PICK x \in Nat : x = a[k]
  <2>1. k \in 1..Len(a)
    <3>1. k \in 1..(k + 1)
      BY <1>3
    <3> QED
      BY <1>3, <3>1
  <2> QED
    BY <2>1, ElementOfSeq
<1>5. PICK y \in Nat : y = a[k + 1]
  <2>1. k + 1 \in 1..Len(a)
    BY <1>3
  <2> QED
    BY <2>1, ElementOfSeq
<1>6. x <= y /\ y <= clock
  <2>1. k \in 1..Len(arrivals[id]) /\ k + 1 \in 1..Len(arrivals[id]) /\ k <= k + 1
    <3>1. k \in 1..(k + 1) /\ k + 1 \in 1..(k + 1) /\ k <= k + 1
      BY <1>3
    <3>2. Len(arrivals[id]) = k + 1
      OBVIOUS
    <3> QED
      BY <3>1, <3>2
  <2> QED
    BY <1>1, <1>2, <1>4, <1>5, <2>1 DEF InOrder
<1>7. new_time = Minus(from_usec(y), from_usec(x))
  BY <1>1, <1>3, <1>4, <1>5 DEF new_time
<1>8. new_time = Packed(y - x)
  <2>1. from_usec(y) = Packed(y) /\ from_usec(x) = Packed(x)
    BY FromUsec
  <2> QED
    BY <1>7, <2>1, MinusIsExact
<1>9. y - x \in Int /\ y - x >= 0
  BY <1>6
<1>10. new_time \in Word
  BY <1>8, <1>9, PackedIsWord
<1>11. ASSUME WithinATurn(a)
       PROVE  to_usec(new_time) = y - x
  <2>1. OneTurn \in Int
    BY ClockAssumption DEF OneTurn
  <2>2. k \in 1..Len(a)
    <3>1. k \in 1..(k + 1)
      OBVIOUS
    <3> QED
      BY <1>3, <3>1
  <2>3. y - x < OneTurn
    BY <1>3, <1>4, <1>5, <1>11, <2>2 DEF WithinATurn
  <2>4. y - x \in 0..(SECS * USECS - 1)
    BY <1>9, <2>1, <2>3 DEF OneTurn
  <2>5. to_usec(from_usec(y - x)) = y - x
    BY <2>4, ToUsecFromUsec
  <2>6. from_usec(y - x) = new_time
    BY <1>8, <1>9, FromUsec
  <2> QED
    BY <2>5, <2>6
<1> QED
  BY <1>1, <1>4, <1>5, <1>10, <1>11

\* No sum that store makes is of two seconds' worth of microseconds, or more than a
\* turn of the packed clock.
SumsFit ==
  phase = "add" => /\ NoSecondLost(Kept(id), Len(arrivals[id]) - 1, new_time)
                   /\ WithinATurn(arrivals[id])

\* What store does to the times kept.
LEMMA StoreEffect ==
  ASSUME NEW exact \in BOOLEAN, IInv(exact), store
  PROVE  /\ TypeOK' /\ phase = "add" /\ phase' = "idle" /\ id \in Dir_ids
         /\ UNCHANGED <<stored, arrivals, clock, id, oldest_age>>
         /\ \A d \in Dir_ids : d # id => Kept(d)' = Kept(d) /\ Cached(d)' = Cached(d)
         /\ \E k \in Nat \ {0} : \E added, src :
              /\ Len(arrivals[id]) = k + 1
              /\ Sources(src, Kept(id), k)
              /\ AddedTimes(added, src, Kept(id), k, new_time)
              /\ Kept(id)' = Kept(id) \o added
              /\ LatestTogether(Cached(id)', k + 1)
<1>1. TypeOK /\ InOrder /\ PairsTimed(exact)
  BY DEF IInv
<1>2. phase = "add" /\ phase' = "idle" /\ UNCHANGED <<stored, arrivals, clock, id, oldest_age>>
  BY DEF store
<1>3. id \in Dir_ids /\ arrivals[id] \in Seq(Nat) /\ Len(arrivals[id]) > 1
  BY <1>1, <1>2 DEF TypeOK
<1>4. PICK t : t = new_time
  OBVIOUS
<1>6. PICK k \in Nat \ {0} : /\ Len(arrivals[id]) = k + 1
                             /\ Len(arrivals[id]) - 1 = k
                             /\ Len(arrivals[id]) - 2 = k - 1
  <2>1. PICK n \in Nat : n = Len(arrivals[id])
    BY <1>3
  <2>2. n > 1
    BY <1>3, <2>1
  <2>3. n - 1 \in Nat \ {0} /\ n = (n - 1) + 1 /\ n - 2 = (n - 1) - 1
    BY <2>2
  <2> QED
    BY <2>1, <2>3
<1>5. k \in Nat \ {0} /\ t \in Word
  BY <1>1, <1>2, <1>4, <1>6, NewTimeIsDistance
<1>7. PICK m : m = inter_arrival_times
  OBVIOUS
<1>8. DOMAIN m \subseteq Dir_ids /\ m \in [DOMAIN m -> Entry]
  BY <1>1, <1>7 DEF TypeOK
<1>9. PICK e : e = IF id \in DOMAIN m THEN m[id] ELSE NewEntry
  OBVIOUS
<1>10. e \in Entry /\ e.times = Cached(id)
  <2>1. CASE id \in DOMAIN m
    BY <1>7, <1>8, <1>9, <2>1 DEF Cached
  <2>2. CASE id \notin DOMAIN m
    <3>1. NewEntry \in Entry /\ NewEntry.times = <<>>
      <4>1. 0 \in 0..AGE_MAX /\ 0 \in Nat /\ <<>> \in Seq(Word)
        BY CacheAssumption
      <4> QED
        BY <4>1 DEF NewEntry, Entry
    <3> QED
      BY <1>7, <1>9, <2>2, <3>1 DEF Cached
  <2> QED
    BY <2>1, <2>2
<1>11. PICK db : db = stored[id]
  OBVIOUS
<1>12. PICK cached : cached = Cached(id)
  OBVIOUS
<1>13. PICK K : K = db \o cached
  OBVIOUS
<1>14. /\ db \in Seq(Word) /\ cached \in Seq(Word) /\ K \in Seq(Word) /\ Kept(id) = K
  BY <1>1, <1>3, <1>11, <1>12, <1>13, KeptIsSeq, KeptIsBoth
<1>15. AllTimed(K, arrivals[id], k, exact) /\ LatestTogether(cached, k)
  <2>1. Timed(id) = k
    BY <1>2, <1>6 DEF Timed
  <2> QED
    BY <1>1, <1>3, <1>12, <1>14, <2>1 DEF PairsTimed
<1>17. k - 1 <= Len(K)
  <2>1. PICK early, late : Matches(K, k, early, late)
    BY <1>15 DEF AllTimed
  <2> QED
    BY <2>1 DEF Matches
<1>18. PICK times : times = Needed(cached, db, k)
  OBVIOUS
<1>19. PICK added : added = Computed(times, k, t)
  OBVIOUS
<1>20. PICK stays : stays = Stays(cached, times, added, k)
  OBVIOUS
<1>21. /\ \E src : Sources(src, K, k) /\ AddedTimes(added, src, K, k, t)
       /\ stays \in Seq(Word) /\ k <= Len(stays)
       /\ db \o stays = K \o added
       /\ Len(times \o added) - Len(cached) \in Nat
  <2>1. /\ db \in Seq(Word) /\ cached \in Seq(Word) /\ k \in Nat \ {0} /\ t \in Word
        /\ LatestTogether(cached, k) /\ k - 1 <= Len(db \o cached)
    BY <1>5, <1>13, <1>14, <1>15, <1>17
  <2> HIDE DEF Word
  <2>2. \E src : /\ Sources(src, db \o cached, k)
                 /\ AddedTimes(Computed(Needed(cached, db, k), k, t), src, db \o cached, k, t)
    BY <2>1, NextTimes
  <2>3. stays \in Seq(Word)
    BY <1>18, <1>19, <1>20, <2>1, NextTimes
  <2>4. k <= Len(stays)
    BY <1>18, <1>19, <1>20, <2>1, NextTimes
  <2>5. db \o stays = (db \o cached) \o added
    BY <1>18, <1>19, <1>20, <2>1, NextTimes
  <2>6. Len(times \o added) - Len(cached) \in Nat
    BY <1>18, <1>19, <2>1, NextTimes
  <2> QED
    BY <1>13, <1>18, <1>19, <2>2, <2>3, <2>4, <2>5, <2>6, Zenon
<1>22. PICK written : written = With_new_time(e, times, k - 1)
  OBVIOUS
<1>23. written \in Entry /\ written.times = stays
  BY <1>4, <1>5, <1>10, <1>12, <1>19, <1>20, <1>21, <1>22, NewEntryWritten
<1>24. inter_arrival_times'
         = [d \in DOMAIN m \cup {id} |-> IF d = id THEN written ELSE m[d]]
  <2>1. times = IF k - 1 > Len(e.times)
                THEN fetch_last_n(e.times, stored[id], (k - 1) - Len(e.times))
                ELSE e.times
    BY <1>10, <1>11, <1>12, <1>18 DEF Needed
  <2> QED
    BY <1>6, <1>7, <1>9, <1>22, <2>1 DEF store
<1>25. TypeOK'
  <2>1. DOMAIN inter_arrival_times' = DOMAIN m \cup {id}
    BY <1>24
  <2>2. inter_arrival_times' \in [DOMAIN inter_arrival_times' -> Entry]
    BY <1>8, <1>23, <1>24
  <2>3. DOMAIN inter_arrival_times' \subseteq Dir_ids
    BY <1>3, <1>8, <2>1
  <2> QED
    BY <1>1, <1>2, <2>2, <2>3 DEF TypeOK
<1>26. ASSUME NEW d \in Dir_ids, d # id
       PROVE  Kept(d)' = Kept(d) /\ Cached(d)' = Cached(d)
  <2>1. Cached(d)' = Cached(d)
    BY <1>7, <1>24, <1>26 DEF Cached
  <2>2. Kept(d)' = stored'[d] \o Cached(d)'
    BY DEF Kept, Cached
  <2> QED
    BY <1>2, <2>1, <2>2, KeptIsBoth
<1>27. Cached(id)' = stays
  BY <1>2, <1>23, <1>24 DEF Cached
<1>28. Kept(id)' = Kept(id) \o added
  <2>1. Kept(id)' = stored'[id'] \o Cached(id)'
    BY DEF Kept, Cached
  <2> QED
    BY <1>2, <1>11, <1>14, <1>21, <1>27, <2>1
<1>29. LatestTogether(Cached(id)', k + 1)
  BY <1>5, <1>21, <1>27 DEF LatestTogether
<1>30. PICK src : Sources(src, K, k) /\ AddedTimes(added, src, K, k, t)
  BY <1>21
<1>31. /\ Len(arrivals[id]) = k + 1
       /\ Sources(src, Kept(id), k)
       /\ AddedTimes(added, src, Kept(id), k, new_time)
  BY <1>4, <1>6, <1>14, <1>30
<1> QED
  BY <1>2, <1>3, <1>25, <1>26, <1>28, <1>29, <1>31, Zenon

LEMMA StoreInvariant ==
  ASSUME NEW exact \in BOOLEAN, IInv(exact), exact => SumsFit, store
  PROVE  IInv(exact)'
<1>1. TypeOK /\ InOrder /\ PairsTimed(exact)
  BY DEF IInv
<1>2. /\ TypeOK' /\ phase = "add" /\ phase' = "idle" /\ id \in Dir_ids
      /\ UNCHANGED <<stored, arrivals, clock, id, oldest_age>>
      /\ \A d \in Dir_ids : d # id => Kept(d)' = Kept(d) /\ Cached(d)' = Cached(d)
  BY StoreEffect, Zenon
<1>33. PICK k \in Nat \ {0} : \E added, src :
         /\ Len(arrivals[id]) = k + 1
         /\ Sources(src, Kept(id), k)
         /\ AddedTimes(added, src, Kept(id), k, new_time)
         /\ Kept(id)' = Kept(id) \o added
         /\ LatestTogether(Cached(id)', k + 1)
  BY StoreEffect, Zenon
<1>3. PICK added, src :
        /\ Len(arrivals[id]) = k + 1
        /\ Sources(src, Kept(id), k)
        /\ AddedTimes(added, src, Kept(id), k, new_time)
        /\ Kept(id)' = Kept(id) \o added
        /\ LatestTogether(Cached(id)', k + 1)
  BY <1>33, Zenon
<1>4. PICK t : t = new_time
  OBVIOUS
<1>5. t \in Word /\ (WithinATurn(arrivals[id]) =>
                       to_usec(t) = arrivals[id][k + 1] - arrivals[id][k])
  BY <1>1, <1>2, <1>3, <1>4, NewTimeIsDistance
<1>6. PICK K : K = Kept(id)
  OBVIOUS
<1>7. K \in Seq(Word) /\ arrivals[id] \in Seq(Nat)
  BY <1>1, <1>2, <1>6, KeptIsSeq
<1>8. PICK early, late : /\ Matches(K, k, early, late)
                         /\ exact => Right(K, arrivals[id], early, late)
  <2>1. Timed(id) = Len(arrivals[id]) - 1
    BY <1>2 DEF Timed
  <2>2. Len(arrivals[id]) - 1 = k
    BY <1>3
  <2> QED
    BY <1>1, <1>2, <1>6, <2>1, <2>2 DEF PairsTimed, AllTimed
<1>9. PICK n \in Nat : n = Len(K)
  BY <1>7
<1>10. added \in Seq(Word) /\ Len(added) = k
  BY <1>3 DEF AddedTimes
<1>11. Len(K \o added) = n + k
  BY <1>7, <1>9, <1>10, Joined
<1>12. Matches(K \o added, k + 1, EarlyWith(early, src, n, k), LateWith(late, n, k))
  BY <1>3, <1>6, <1>8, <1>9, <1>11, MatchesGrow
<1>13. exact => Right(K \o added, arrivals[id], EarlyWith(early, src, n, k), LateWith(late, n, k))
  <2> SUFFICES ASSUME exact
               PROVE  Right(K \o added, arrivals[id], EarlyWith(early, src, n, k),
                            LateWith(late, n, k))
    OBVIOUS
  <2>1. NoSecondLost(K, k, t) /\ WithinATurn(arrivals[id])
    <3>1. Len(arrivals[id]) - 1 = k
      BY <1>3
    <3> QED
      BY <1>2, <1>4, <1>6, <3>1 DEF SumsFit
  <2>2. to_usec(t) = arrivals[id][k + 1] - arrivals[id][k]
    BY <1>5, <2>1
  <2>3. Right(K, arrivals[id], early, late) /\ Matches(K, k, early, late)
    BY <1>8
  <2>4. AddedTimes(added, src, K, k, t) /\ Sources(src, K, k) /\ Len(arrivals[id]) = k + 1
    BY <1>3, <1>4, <1>6
  <2> QED
    BY <1>5, <1>7, <1>9, <2>1, <2>2, <2>3, <2>4, RightGrows
<1>14. AllTimed(K \o added, arrivals[id], k + 1, exact)
  BY <1>12, <1>13 DEF AllTimed
<1>15. InOrder'
  BY <1>1, <1>2 DEF InOrder
<1>16. ASSUME NEW d \in Dir_ids
       PROVE  /\ AllTimed(Kept(d)', arrivals'[d], Timed(d)', exact)
              /\ LatestTogether(Cached(d)', Timed(d)')
  <2>1. Timed(d)' = Len(arrivals[d])
    BY <1>2 DEF Timed
  <2>2. CASE d # id
    <3>1. Timed(d) = Len(arrivals[d])
      BY <2>2 DEF Timed
    <3> QED
      BY <1>1, <1>2, <2>1, <2>2, <3>1 DEF PairsTimed
  <2>3. CASE d = id
    <3>1. Timed(d)' = k + 1
      BY <1>3, <2>1, <2>3
    <3>2. Kept(d)' = Kept(id)' /\ Cached(d)' = Cached(id)'
      BY <1>2, <2>3 DEF Kept, Cached
    <3>3. Kept(d)' = K \o added /\ LatestTogether(Cached(d)', k + 1)
      BY <1>3, <1>6, <3>2
    <3> QED
      BY <1>2, <1>14, <2>3, <3>1, <3>3
  <2> QED
    BY <2>2, <2>3
<1> QED
  BY <1>2, <1>15, <1>16 DEF IInv, PairsTimed

\* Every step but those of add_packet and store.
LEMMA OtherMoves ==
  ASSUME NEW exact \in BOOLEAN, IInv(exact), begin \/ round \/ flushed \/ UNCHANGED vars
  PROVE  OnlyMoves
<1>1. CASE UNCHANGED vars
  <2>1. UNCHANGED <<inter_arrival_times, stored, arrivals, clock, phase, id, oldest_age>>
    BY <1>1 DEF vars
  <2>2. TypeOK'
    BY <2>1 DEF IInv, TypeOK
  <2>3. ASSUME NEW d \in Dir_ids
        PROVE  Kept(d)' = Kept(d) /\ Timed(d)' = Timed(d) /\ Cached(d)' = Cached(d)
    BY <2>1 DEF Kept, Timed, Cached
  <2> QED
    BY <2>1, <2>2, <2>3 DEF OnlyMoves
<1> QED
  BY <1>1, BeginMoves, RoundMoves, FlushedMoves

LEMMA StepInvariant ==
  ASSUME NEW exact \in BOOLEAN, IInv(exact), exact => SumsFit, [Next]_vars
  PROVE  IInv(exact)'
<1>1. CASE begin \/ round \/ flushed \/ UNCHANGED vars
  BY <1>1, OtherMoves, SameTimes
<1>2. CASE store
  BY <1>2, StoreInvariant
<1>3. ASSUME NEW d \in Dir_ids, NEW gap \in Gaps, add_packet(d, gap)
      PROVE  IInv(exact)'
  BY <1>3, AddPacketInvariant
<1> QED
  BY <1>1, <1>2, <1>3 DEF Next

LEMMA InvariantAlways == Spec => []IInv(FALSE)
<1>1. Init => IInv(FALSE)
  BY PairsTimedInit
<1>2. IInv(FALSE) /\ [Next]_vars => IInv(FALSE)'
  BY StepInvariant
<1> QED
  BY <1>1, <1>2, PTL DEF Spec

LEMMA ExactAlways == Spec /\ []SumsFit => []IInv(TRUE)
<1>1. Init => IInv(TRUE)
  BY PairsTimedInit
<1>2. IInv(TRUE) /\ SumsFit /\ [Next]_vars => IInv(TRUE)'
  BY StepInvariant
<1> QED
  BY <1>1, <1>2, PTL DEF Spec

\* The types hold, whatever the trace and the memory: an age stays a byte, the times
\* stay words, and a call of store is only open for a packet that has one before it.
THEOREM TypeCorrect == Spec => []TypeOK
<1>1. IInv(FALSE) => TypeOK
  BY DEF IInv
<1> QED
  BY <1>1, InvariantAlways, PTL

-----------------------------------------------------------------------------
(* Counting: a place for each pair, and a pair for each place. *)

\* b names each member of T once.
Names(b, n, T) ==
  /\ \A i \in 1..n : b[i] \in T
  /\ \A i, j \in 1..n : b[i] = b[j] => i = j
  /\ \A p \in T : \E i \in 1..n : b[i] = p

\* So the places of some members are as many as these.
LEMMA AsMany ==
  ASSUME NEW n \in Nat, NEW b, NEW T, Names(b, n, T), NEW A \in SUBSET (1..n),
         NEW B \in SUBSET T, \A i \in 1..n : i \in A <=> b[i] \in B
  PROVE  Cardinality(A) = Cardinality(B)
<1>1. IsFiniteSet(A)
  <2>1. IsFiniteSet(1..n)
    BY FS_Interval
  <2> QED
    BY <2>1, FS_Subset
<1>2. PICK f : f = [i \in A |-> b[i]]
  OBVIOUS
<1>3. f \in [A -> B] /\ DOMAIN f = A
  BY <1>2
<1>4. \A i, j \in A : f[i] = f[j] => i = j
  BY <1>2 DEF Names
<1>5. \A p \in B : \E i \in A : f[i] = p
  <2> SUFFICES ASSUME NEW p \in B PROVE \E i \in A : f[i] = p
    OBVIOUS
  <2>1. PICK i \in 1..n : b[i] = p
    BY DEF Names
  <2> QED
    BY <1>2, <2>1
<1>6. f \in Bijection(A, B)
  BY <1>3, <1>4, <1>5 DEF Bijection, Injection, Surjection, IsInjective
<1>7. ExistsBijection(A, B)
  BY <1>6 DEF ExistsBijection
<1> QED
  BY <1>1, <1>7, FS_Bijection

PairsUpTo(k) == {p \in (1..k) \X (1..k) : p[1] < p[2]}

LEMMA MatchesNames ==
  ASSUME NEW K \in Seq(Word), NEW k \in Nat, NEW early, NEW late, Matches(K, k, early, late),
         NEW b, b = [i \in 1..Len(K) |-> <<early[i], late[i]>>]
  PROVE  Names(b, Len(K), PairsUpTo(k))
<1>1. \A i \in 1..Len(K) : b[i] \in PairsUpTo(k)
  BY DEF Matches, PairsUpTo
<1>2. \A i, j \in 1..Len(K) : b[i] = b[j] => i = j
  BY DEF Matches
<1>3. ASSUME NEW p \in PairsUpTo(k) PROVE \E i \in 1..Len(K) : b[i] = p
  <2>1. p \in (1..k) \X (1..k) /\ p[1] < p[2]
    BY DEF PairsUpTo
  <2>2. PICK x \in 1..k, y \in 1..k : p = <<x, y>> /\ x < y
    BY <2>1
  <2>3. \A v, w \in 1..k : v < w => \E i \in 1..Len(K) : early[i] = v /\ late[i] = w
    BY DEF Matches
  <2>4. PICK i \in 1..Len(K) : early[i] = x /\ late[i] = y
    BY <2>2, <2>3, Zenon
  <2> QED
    BY <2>2, <2>4
<1> QED
  BY <1>1, <1>2, <1>3 DEF Names

\* As many times as pairs.
LEMMA TimesAndPairs ==
  ASSUME NEW K \in Seq(Word), NEW k \in Nat, NEW early, NEW late, Matches(K, k, early, late)
  PROVE  Len(K) = Cardinality(PairsUpTo(k))
<1>1. PICK b : b = [i \in 1..Len(K) |-> <<early[i], late[i]>>]
  OBVIOUS
<1>2. Names(b, Len(K), PairsUpTo(k))
  BY <1>1, MatchesNames
<1>3. \A i \in 1..Len(K) : b[i] \in PairsUpTo(k)
  BY <1>2 DEF Names
<1>4. Len(K) \in Nat
  OBVIOUS
<1>5. Cardinality(1..Len(K)) = Cardinality(PairsUpTo(k))
  <2>1. PICK n \in Nat : n = Len(K)
    BY <1>4
  <2> QED
    BY <1>2, <1>3, <2>1, AsMany
<1>6. Cardinality(1..Len(K)) = Len(K)
  <2>1. PICK n \in Nat : n = Len(K)
    BY <1>4
  <2>2. Cardinality(1..n) = IF 1 > n THEN 0 ELSE n - 1 + 1
    BY FS_Interval
  <2> QED
    BY <2>1, <2>2
<1> QED
  BY <1>5, <1>6

\* The times of a distance, and the pairs.
OfDistance(K, x) == {i \in 1..Len(K) : to_usec(K[i]) = x}
AtDistance(k, arrived, x) == {q \in PairsUpTo(k) : arrived[q[2]] - arrived[q[1]] = x}

\* And as many of each distance.
LEMMA TimesOfADistance ==
  ASSUME NEW K \in Seq(Word), NEW k \in Nat, NEW early, NEW late, Matches(K, k, early, late),
         NEW arrived, Right(K, arrived, early, late), NEW x
  PROVE  Cardinality(OfDistance(K, x)) = Cardinality(AtDistance(k, arrived, x))
<1>1. PICK b : b = [i \in 1..Len(K) |-> <<early[i], late[i]>>]
  OBVIOUS
<1>2. PICK n \in Nat : n = Len(K)
  OBVIOUS
<1>3. Names(b, n, PairsUpTo(k))
  BY <1>1, <1>2, MatchesNames
<1>4. PICK A : A = {i \in 1..n : to_usec(K[i]) = x}
  OBVIOUS
<1>5. PICK B : B = {q \in PairsUpTo(k) : arrived[q[2]] - arrived[q[1]] = x}
  OBVIOUS
<1>6. ASSUME NEW i \in 1..n PROVE i \in A <=> b[i] \in B
  <2>1. b[i] \in PairsUpTo(k)
    BY <1>3 DEF Names
  <2>2. b[i][1] = early[i] /\ b[i][2] = late[i]
    BY <1>1, <1>2
  <2>3. to_usec(K[i]) = arrived[late[i]] - arrived[early[i]]
    BY <1>2 DEF Right
  <2> QED
    BY <1>4, <1>5, <2>1, <2>2, <2>3
<1>7. A \in SUBSET (1..n) /\ B \in SUBSET PairsUpTo(k)
  BY <1>4, <1>5
<1>8. Cardinality(A) = Cardinality(B)
  BY <1>3, <1>6, <1>7, AsMany
<1>9. OfDistance(K, x) = A /\ AtDistance(k, arrived, x) = B
  BY <1>2, <1>4, <1>5 DEF OfDistance, AtDistance
<1> QED
  BY <1>8, <1>9

LEMMA EveryPairHasATime ==
  ASSUME NEW exact \in BOOLEAN, IInv(exact), phase = "idle", NEW d \in Dir_ids
  PROVE  /\ Len(Kept(d)) = Cardinality(Pairs(d))
         /\ exact => \A p \in Pairs(d) :
              Cardinality({i \in DOMAIN Kept(d) : to_usec(Kept(d)[i]) = Apart(d, p)})
              = Cardinality({q \in Pairs(d) : Apart(d, q) = Apart(d, p)})
<1>1. PICK a \in Seq(Nat) : a = arrivals[d]
  BY DEF IInv, TypeOK
<1>2. PICK k \in Nat : k = Len(a) /\ 1..k = DOMAIN a
  BY <1>1
<1>3. PICK K \in Seq(Word) : K = Kept(d)
  BY KeptIsSeq DEF IInv
<1>4. PICK early, late : Matches(K, k, early, late) /\ (exact => Right(K, a, early, late))
  <2>1. AllTimed(Kept(d), arrivals[d], Timed(d), exact)
    BY DEF IInv, PairsTimed
  <2>2. Timed(d) = k
    BY <1>1, <1>2 DEF Timed
  <2> QED
    BY <1>1, <1>3, <2>1, <2>2 DEF AllTimed
<1>5. Pairs(d) = PairsUpTo(k)
  BY <1>1, <1>2 DEF Pairs, PairsUpTo
<1>6. Len(Kept(d)) = Cardinality(Pairs(d))
  BY <1>3, <1>4, <1>5, TimesAndPairs
<1>7. ASSUME exact, NEW p \in Pairs(d)
      PROVE  Cardinality({i \in DOMAIN Kept(d) : to_usec(Kept(d)[i]) = Apart(d, p)})
             = Cardinality({q \in Pairs(d) : Apart(d, q) = Apart(d, p)})
  <2>1. PICK x : x = Apart(d, p)
    OBVIOUS
  <2>2. Cardinality(OfDistance(K, x)) = Cardinality(AtDistance(k, a, x))
    <3>1. Matches(K, k, early, late) /\ Right(K, a, early, late)
      BY <1>4, <1>7
    <3> QED
      BY <3>1, TimesOfADistance
  <2>3. DOMAIN Kept(d) = 1..Len(K)
    BY <1>3
  <2>4. {i \in DOMAIN Kept(d) : to_usec(Kept(d)[i]) = Apart(d, p)}
        = OfDistance(K, x)
    BY <1>3, <2>1, <2>3, Zenon DEF OfDistance
  <2>5. {q \in Pairs(d) : Apart(d, q) = Apart(d, p)}
        = AtDistance(k, a, x)
    <3>1. \A q : Apart(d, q) = a[q[2]] - a[q[1]]
      BY <1>1 DEF Apart
    <3> QED
      BY <1>5, <2>1, <3>1, Zenon DEF AtDistance
  <2> QED
    BY <2>2, <2>4, <2>5, Zenon
<1> QED
  BY <1>6, <1>7

\* For any trace, with times of any kind: between two packets there are as many times
\* of a direction, cached and stored, as pairs of its packets.
AsManyTimesAsPairs ==
  phase = "idle" => \A d \in Dir_ids : Len(Kept(d)) = Cardinality(Pairs(d))

\* No flush, and no fetch after it, loses or doubles a time.
THEOREM NoTimeLostOrDoubled == Spec => []AsManyTimesAsPairs
<1>1. IInv(FALSE) => AsManyTimesAsPairs
  BY EveryPairHasATime DEF AsManyTimesAsPairs
<1> QED
  BY <1>1, InvariantAlways, PTL

\* The times are the distances of the pairs, each once, as long as no sum of two times
\* loses a second: operator+ (TimeOffset.cpp) carries one second at most, and only when
\* the microseconds overflow their bits.
THEOREM EveryPairAlwaysOnce == Spec /\ []SumsFit => []EveryPairOnce
<1>1. IInv(TRUE) => EveryPairOnce
  BY EveryPairHasATime DEF EveryPairOnce
<1> QED
  BY <1>1, ExactAlways, PTL

-----------------------------------------------------------------------------
(* Times of a trace for which no sum loses a second. *)

Multiple(u, x) == \E n \in Int : x = u * n

\* The clock of the capture only shows multiples of u, of which the bits that the
\* microseconds have to spare hold at most one: in the program, a twentieth of a second.
CoarseClock(u) ==
  /\ USEC_RANGE <= USECS + u
  /\ Multiple(u, USECS)
  /\ \A gap \in Gaps : Multiple(u, gap)

LEMMA SumOfMultiples ==
  ASSUME NEW u \in Nat \ {0}, NEW x, Multiple(u, x), NEW y, Multiple(u, y)
  PROVE  x \in Int /\ y \in Int /\ Multiple(u, x + y) /\ Multiple(u, x - y)
<1>1. PICK n \in Int, m \in Int : x = u * n /\ y = u * m
  BY DEF Multiple
<1>2. x \in Int /\ y \in Int
  BY <1>1
<1>3. x + y = u * (n + m) /\ x - y = u * (n - m)
  BY <1>1, SMT
<1>4. n + m \in Int /\ n - m \in Int
  BY <1>1
<1>5. Multiple(u, x + y)
  BY <1>3, <1>4 DEF Multiple
<1>6. Multiple(u, x - y)
  BY <1>3, <1>4 DEF Multiple
<1> QED
  BY <1>2, <1>5, <1>6

LEMMA ModOfMultiple ==
  ASSUME NEW u \in Nat \ {0}, NEW x \in Int, Multiple(u, x), NEW y \in Nat \ {0}, Multiple(u, y)
  PROVE  Multiple(u, x % y)
<1>1. PICK n \in Int, m \in Int : x = u * n /\ y = u * m
  BY DEF Multiple
<1>2. PICK q \in Int, r \in Int : r = x % y /\ x = y * q + r
  <2>1. x % y \in 0..(y - 1) /\ x \div y \in Int /\ x = y * (x \div y) + (x % y)
    BY DivMod
  <2>2. x % y \in Int
    BY <2>1
  <2> QED
    BY <2>1, <2>2, Zenon
<1>3. r = u * n - (u * m) * q
  BY <1>1, <1>2, SMT
<1>4. (u * m) * q = u * (m * q)
  BY <1>1, <1>2, SMT
<1>5. PICK p \in Int : p = m * q
  BY <1>1, <1>2
<1>6. r = u * (n - p) /\ n - p \in Int
  BY <1>1, <1>3, <1>4, <1>5, SMT
<1> QED
  BY <1>2, <1>6 DEF Multiple

\* The last multiple the word has room for is a whole second.
LEMMA CoarseWord ==
  ASSUME NEW u \in Nat \ {0}, CoarseClock(u), NEW x \in Nat, x < USEC_RANGE, Multiple(u, x)
  PROVE  x <= USECS
<1>1. USECS \in Nat /\ USEC_RANGE \in Nat
  BY ClockAssumption, SMT
<1>2. PICK n \in Int, m \in Int : x = u * n /\ USECS = u * m
  BY DEF Multiple, CoarseClock
<1>3. u * n < u * m + u
  <2>1. x < USECS + u
    BY <1>1 DEF CoarseClock
  <2> QED
    BY <1>2, <2>1
<1>4. u * (n - m) = u * n - u * m
  BY <1>2, SMT
<1>5. n - m \in Int /\ u * (n - m) < u
  BY <1>2, <1>3, <1>4, SMT
<1>6. ~(n - m >= 1)
  BY <1>5, SMT
<1>7. u * (n - m) <= 0
  BY <1>5, <1>6, SMT
<1> QED
  BY <1>1, <1>2, <1>4, <1>7, SMT

\* Every time of the trace, captured or kept, is a multiple.
CoarseKept(u, K) == \A i \in 1..Len(K) : Multiple(u, K[i].usec)
CoarseArrivals(u, arrived) == \A i \in 1..Len(arrived) : Multiple(u, arrived[i])
CoarseInv(u) ==
  /\ Multiple(u, clock)
  /\ \A d \in Dir_ids : CoarseArrivals(u, arrivals[d]) /\ CoarseKept(u, Kept(d))

LEMMA CoarsePlus ==
  ASSUME NEW u \in Nat \ {0}, CoarseClock(u), NEW t \in Word, Multiple(u, t.usec),
         NEW w \in Word, Multiple(u, w.usec)
  PROVE  Multiple(u, Plus(t, w).usec)
<1>1. /\ SECS \in Nat \ {0} /\ USECS \in Nat \ {0} /\ USEC_RANGE \in Nat /\ Multiple(u, USECS)
  BY ClockAssumption, SMT DEF CoarseClock
<1>2. PICK x \in Nat : x = t.usec + w.usec
  BY DEF Word
<1>3. Multiple(u, x)
  BY <1>2, SumOfMultiples
<1>4. Multiple(u, x % USECS) /\ x % USECS >= 0
  BY <1>1, <1>3, ModOfMultiple, DivMod
<1>5. CASE x >= USEC_RANGE
  <2>1. Plus(t, w).usec = x % USECS
    BY <1>2, <1>4, <1>5 DEF Plus, TimeOffset
  <2> QED
    BY <1>4, <2>1
<1>6. CASE ~(x >= USEC_RANGE)
  <2>1. Plus(t, w).usec = x
    BY <1>2, <1>6 DEF Plus, TimeOffset
  <2> QED
    BY <1>3, <2>1
<1> QED
  BY <1>5, <1>6

LEMMA CoarseNewTime ==
  ASSUME NEW u \in Nat \ {0}, CoarseClock(u), TypeOK, phase # "idle", CoarseInv(u)
  PROVE  new_time \in Word /\ new_time.usec < USECS /\ Multiple(u, new_time.usec)
<1>1. PICK a \in Seq(Nat) : a = arrivals[id]
  BY DEF TypeOK
<1>2. id \in Dir_ids /\ Len(a) > 1
  BY <1>1 DEF TypeOK
<1>3. Len(a) \in 1..Len(a) /\ Len(a) - 1 \in 1..Len(a)
  <2>1. PICK n \in Nat : n = Len(a)
    BY <1>1
  <2>2. n > 1
    BY <1>2, <2>1
  <2>3. n \in 1..n /\ n - 1 \in 1..n
    BY <2>2
  <2> QED
    BY <2>1, <2>3
<1>4. PICK x \in Nat : x = a[Len(a) - 1] /\ Multiple(u, x)
  <2>1. a[Len(a) - 1] \in Nat
    BY <1>3, ElementOfSeq
  <2>2. Multiple(u, a[Len(a) - 1])
    BY <1>1, <1>2, <1>3 DEF CoarseInv, CoarseArrivals
  <2> QED
    BY <2>1, <2>2
<1>5. PICK y \in Nat : y = a[Len(a)] /\ Multiple(u, y)
  <2>1. a[Len(a)] \in Nat
    BY <1>3, ElementOfSeq
  <2>2. Multiple(u, a[Len(a)])
    BY <1>1, <1>2, <1>3 DEF CoarseInv, CoarseArrivals
  <2> QED
    BY <2>1, <2>2
<1>6. new_time = Minus(from_usec(y), from_usec(x))
  BY <1>1, <1>4, <1>5 DEF new_time
<1>7. new_time = Packed(y - x)
  <2>1. from_usec(y) = Packed(y) /\ from_usec(x) = Packed(x)
    BY FromUsec
  <2> QED
    BY <1>6, <2>1, MinusIsExact
<1>8. y - x \in Int /\ Multiple(u, y - x)
  BY <1>4, <1>5, SumOfMultiples
<1>9. new_time \in Word /\ new_time.usec < USECS
  BY <1>7, <1>8, PackedIsWord DEF Normal
<1>10. Multiple(u, new_time.usec)
  <2>1. USECS \in Nat \ {0} /\ Multiple(u, USECS)
    BY ClockAssumption, SMT DEF CoarseClock
  <2>2. Multiple(u, (y - x) % USECS)
    BY <1>8, <2>1, ModOfMultiple
  <2>3. new_time.usec = (y - x) % USECS
    BY <1>7 DEF Packed
  <2> QED
    BY <2>2, <2>3
<1> QED
  BY <1>9, <1>10

LEMMA CoarseStep ==
  ASSUME NEW u \in Nat \ {0}, CoarseClock(u), IInv(FALSE), CoarseInv(u), [Next]_vars
  PROVE  CoarseInv(u)'
<1>0. TypeOK
  BY DEF IInv
<1>1. CASE begin \/ round \/ flushed \/ UNCHANGED vars
  <2>1. UNCHANGED <<arrivals, clock>> /\ \A d \in Dir_ids : Kept(d)' = Kept(d)
    <3>1. OnlyMoves
      BY <1>1, OtherMoves
    <3> QED
      BY <3>1 DEF OnlyMoves
  <2> QED
    BY <2>1 DEF CoarseInv
<1>2. CASE store
  <2>1. /\ phase = "add" /\ id \in Dir_ids /\ UNCHANGED <<arrivals, clock, id>>
        /\ \A d \in Dir_ids : d # id => Kept(d)' = Kept(d)
    BY <1>2, StoreEffect, Zenon
  <2>22. PICK k \in Nat \ {0} : \E added, src :
          /\ Sources(src, Kept(id), k)
          /\ AddedTimes(added, src, Kept(id), k, new_time)
          /\ Kept(id)' = Kept(id) \o added
    BY <1>2, StoreEffect, Zenon
  <2>2. PICK added, src :
          /\ Sources(src, Kept(id), k)
          /\ AddedTimes(added, src, Kept(id), k, new_time)
          /\ Kept(id)' = Kept(id) \o added
    BY <2>22, Zenon
  <2>3. PICK t : t = new_time
    OBVIOUS
  <2>4. t \in Word /\ Multiple(u, t.usec)
    BY <1>0, <2>1, <2>3, CoarseNewTime
  <2>5. PICK K \in Seq(Word) : K = Kept(id)
    BY <1>0, <2>1, KeptIsSeq
  <2>6. CoarseKept(u, K)
    BY <2>1, <2>5 DEF CoarseInv
  <2>7. added \in Seq(Word) /\ Len(added) = k
    BY <2>2 DEF AddedTimes
  <2>8. ASSUME NEW i \in 1..k PROVE Multiple(u, added[i].usec)
    <3>1. CASE i = k
      BY <2>2, <2>3, <2>4, <3>1 DEF AddedTimes
    <3>2. CASE i # k
      <4>1. i \in 1..(k - 1)
        BY <3>2
      <4>2. added[i] = Plus(t, K[src[i]]) /\ src[i] \in 1..Len(K)
        BY <2>2, <2>3, <2>5, <4>1 DEF AddedTimes, Sources
      <4>3. K[src[i]] \in Word /\ Multiple(u, K[src[i]].usec)
        BY <2>6, <4>2, ElementOfSeq DEF CoarseKept
      <4> QED
        BY <2>4, <4>2, <4>3, CoarsePlus
    <3> QED
      BY <3>1, <3>2
  <2>9. CoarseKept(u, K \o added)
    <3>1. \A i \in 1..Len(K) : (K \o added)[i] = K[i]
      BY <2>7, Joined
    <3>2. \A i \in 1..Len(added) : (K \o added)[Len(K) + i] = added[i]
      BY <2>7, Joined
    <3>3. PICK n \in Nat : n = Len(K)
      BY <2>5
    <3>4. Len(K \o added) = n + k
      BY <2>7, <3>3, Joined
    <3>5. ASSUME NEW i \in 1..(n + k) PROVE Multiple(u, (K \o added)[i].usec)
      <4>1. CASE i <= n
        BY <2>6, <3>1, <3>3, <4>1 DEF CoarseKept
      <4>2. CASE i > n
        <5>1. PICK j \in 1..k : i = n + j
          <6>1. i - n \in 1..k /\ i = n + (i - n)
            BY <4>2
          <6> QED
            BY <6>1
        <5>2. (K \o added)[i] = added[j]
          BY <2>7, <3>2, <3>3, <5>1
        <5>3. Multiple(u, added[j].usec)
          BY <2>8, Zenon
        <5> QED
          BY <5>2, <5>3, Zenon
      <4>3. i <= n \/ i > n
        OBVIOUS
      <4> QED
        BY <4>1, <4>2, <4>3, Zenon
    <3> QED
      BY <3>4, <3>5 DEF CoarseKept
  <2>10. ASSUME NEW d \in Dir_ids PROVE CoarseKept(u, Kept(d)')
    <3>1. CASE d = id
      <4>1. Kept(d)' = Kept(id)'
        BY <2>1, <3>1 DEF Kept
      <4> QED
        BY <2>2, <2>5, <2>9, <4>1
    <3>2. CASE d # id
      BY <2>1, <3>2 DEF CoarseInv
    <3> QED
      BY <3>1, <3>2
  <2> QED
    BY <2>1, <2>10 DEF CoarseInv
<1>3. ASSUME NEW d \in Dir_ids, NEW gap \in Gaps, add_packet(d, gap)
      PROVE  CoarseInv(u)'
  <2>1. /\ clock' = clock + gap /\ arrivals' = [arrivals EXCEPT ![d] = Append(@, clock')]
        /\ UNCHANGED <<inter_arrival_times, stored>>
    BY <1>3 DEF add_packet
  <2>2. Multiple(u, clock')
    BY <2>1, SumOfMultiples DEF CoarseInv, CoarseClock
  <2>3. \A x \in Dir_ids : Kept(x)' = Kept(x)
    BY <2>1 DEF Kept
  <2>4. ASSUME NEW x \in Dir_ids PROVE CoarseArrivals(u, arrivals'[x])
    <3>1. CoarseArrivals(u, arrivals[x]) /\ arrivals[x] \in Seq(Nat)
      BY <1>0 DEF CoarseInv, TypeOK
    <3>2. CASE x # d
      BY <1>0, <2>1, <3>1, <3>2 DEF TypeOK
    <3>3. CASE x = d
      <4>1. PICK a \in Seq(Nat) : a = arrivals[d]
        BY <3>1, <3>3
      <4>2. PICK c \in Nat : c = clock'
        BY <1>0, <2>1, CacheAssumption DEF TypeOK
      <4>3. arrivals'[d] = Append(a, c)
        BY <1>0, <2>1, <4>1, <4>2 DEF TypeOK
      <4>4. \A i \in 1..Len(Append(a, c)) :
              Append(a, c)[i] = c \/ (i \in 1..Len(a) /\ Append(a, c)[i] = a[i])
        OBVIOUS
      <4>5. \A i \in 1..Len(a) : Multiple(u, a[i])
        BY <3>1, <3>3, <4>1 DEF CoarseArrivals
      <4> QED
        BY <2>2, <3>3, <4>2, <4>3, <4>4, <4>5 DEF CoarseArrivals
    <3> QED
      BY <3>2, <3>3
  <2> QED
    BY <2>2, <2>3, <2>4 DEF CoarseInv
<1> QED
  BY <1>1, <1>2, <1>3 DEF Next

\* Then no sum is of two seconds' worth of microseconds.
LEMMA CoarseSumsFit ==
  ASSUME NEW u \in Nat \ {0}, CoarseClock(u), TypeOK, CoarseInv(u),
         phase = "add" => WithinATurn(arrivals[id])
  PROVE  SumsFit
<1> SUFFICES ASSUME phase = "add"
             PROVE  NoSecondLost(Kept(id), Len(arrivals[id]) - 1, new_time)
  BY DEF SumsFit
<1>1. PICK t : t = new_time
  OBVIOUS
<1>2. id \in Dir_ids
  BY DEF TypeOK
<1>3. t \in Word /\ t.usec < USECS
  BY <1>1, CoarseNewTime
<1>4. PICK K \in Seq(Word) : K = Kept(id)
  BY <1>2, KeptIsSeq
<1>5. ASSUME NEW i \in 1..Len(K) PROVE K[i].usec + t.usec < 2 * USECS
  <2>1. PICK w \in Word : w = K[i]
    BY ElementOfSeq
  <2>2. Multiple(u, w.usec)
    BY <1>2, <1>4, <2>1 DEF CoarseInv, CoarseKept
  <2>3. w.usec \in Nat /\ w.usec < USEC_RANGE /\ t.usec \in Nat /\ USECS \in Nat
    BY <1>3, ClockAssumption DEF Word
  <2>4. w.usec <= USECS
    BY <2>2, <2>3, CoarseWord
  <2> QED
    BY <1>3, <2>1, <2>3, <2>4
<1> QED
  BY <1>1, <1>4, <1>5 DEF NoSecondLost

\* No direction lasts a turn of the packed clock (68 minutes).
NoFullTurn == phase = "add" => WithinATurn(arrivals[id])

\* If the capture's clock is as coarse as that, and no direction lasts a turn of the
\* packed clock, the times are always those of the pairs, each once.  The run has such
\* a clock.
THEOREM CoarseTimesAlwaysOnce ==
  ASSUME NEW CONSTANT u \in Nat \ {0}, CoarseClock(u)
  PROVE  Spec /\ []NoFullTurn => []EveryPairOnce
<1>1. Init => CoarseInv(u)
  <2> SUFFICES ASSUME Init PROVE CoarseInv(u)
    OBVIOUS
  <2>1. Multiple(u, 0)
    <3>1. 0 = u * 0 /\ 0 \in Int
      OBVIOUS
    <3> QED
      BY <3>1 DEF Multiple
  <2>2. \A d \in Dir_ids : arrivals[d] = <<>> /\ Kept(d) = <<>>
    BY DEF Init, Kept
  <2> QED
    BY <2>1, <2>2 DEF Init, CoarseInv, CoarseArrivals, CoarseKept
<1>2. IInv(FALSE) /\ CoarseInv(u) /\ [Next]_vars => CoarseInv(u)'
  BY CoarseStep
<1>3. IInv(FALSE) /\ CoarseInv(u) /\ NoFullTurn => SumsFit
  BY CoarseSumsFit DEF IInv, NoFullTurn
<1>4. Spec => []CoarseInv(u)
  BY <1>1, <1>2, InvariantAlways, PTL DEF Spec
<1> QED
  BY <1>3, <1>4, InvariantAlways, EveryPairAlwaysOnce, PTL

-----------------------------------------------------------------------------
(* The size of the cache. *)

\* What a direction takes.
Sizes(m) == [d \in DOMAIN m |-> ENTRY + m[d].capacity]

Vectors(m) == IsFiniteSet(DOMAIN m) /\ \A d \in DOMAIN m : m[d].capacity \in Nat

\* As real_size adds them up.
AddsUp(g, m) ==
  g = [s \in SUBSET DOMAIN m |->
        IF s = {} THEN 0
        ELSE LET x == CHOOSE y \in s : TRUE IN g[s \ {x}] + ENTRY + m[x].capacity]

LEMMA SizesAreNat ==
  ASSUME NEW m, Vectors(m)
  PROVE  /\ \A d \in DOMAIN m : Sizes(m)[d] \in Nat /\ Sizes(m)[d] = ENTRY + m[d].capacity
         /\ Values(Sizes(m), DOMAIN m)
  BY CacheAssumption DEF Sizes, Vectors, Values

LEMMA AddsUpExists ==
  ASSUME NEW m, Vectors(m)
  PROVE  \E g : AddsUp(g, m)
<1>1. PICK S : S = DOMAIN m
  OBVIOUS
<1>2. PICK v : v = Sizes(m)
  OBVIOUS
<1>3. IsFiniteSet(S) /\ Values(v, S)
  BY <1>1, <1>2, SizesAreNat DEF Vectors
<1>4. PICK c : c = [s \in SUBSET S |-> CHOOSE x \in s : TRUE]
  OBVIOUS
<1>5. Chooses(c, S)
  BY <1>4 DEF Chooses
<1>6. PICK g \in [SUBSET S -> Int] : \A s \in SUBSET S : Takes(g, v, c, s)
  <2>1. HasTaker(v, c, S)
    BY <1>3, <1>5, TakerExists
  <2> QED
    BY <2>1 DEF HasTaker
<1>7. ASSUME NEW s \in SUBSET S
      PROVE  g[s] = IF s = {} THEN 0
                    ELSE LET x == CHOOSE y \in s : TRUE IN g[s \ {x}] + ENTRY + m[x].capacity
  <2>1. CASE s = {}
    BY <1>6, <2>1 DEF Takes
  <2>2. CASE s # {}
    <3>1. PICK x : x = c[s]
      OBVIOUS
    <3>2. x \in s /\ x \in S /\ x = CHOOSE y \in s : TRUE
      BY <1>4, <1>5, <2>2, <3>1 DEF Chooses
    <3>3. g[s] = g[s \ {x}] + v[x]
      BY <1>6, <2>2, <3>1 DEF Takes
    <3>4. PICK n \in Int : n = g[s \ {x}]
      BY <1>6
    <3>5. v[x] = ENTRY + m[x].capacity /\ m[x].capacity \in Nat
      BY <1>1, <1>2, <3>2, SizesAreNat DEF Vectors
    <3>6. n + (ENTRY + m[x].capacity) = n + ENTRY + m[x].capacity
      BY <3>5, CacheAssumption
    <3>7. g[s] = g[s \ {x}] + ENTRY + m[x].capacity
      BY <3>3, <3>4, <3>5, <3>6, Zenon
    <3> QED
      BY <2>2, <3>2, <3>7
  <2> QED
    BY <2>1, <2>2
<1>8. AddsUp(g, m)
  BY <1>1, <1>6, <1>7 DEF AddsUp
<1> QED
  BY <1>8

\* Whatever adds them up so is the sum of the sizes.
LEMMA AddsUpToSum ==
  ASSUME NEW m, Vectors(m), NEW g, AddsUp(g, m)
  PROVE  IsSum(g[DOMAIN m], Sizes(m), DOMAIN m)
<1>1. PICK S : S = DOMAIN m
  OBVIOUS
<1>2. PICK v : v = Sizes(m)
  OBVIOUS
<1>3. IsFiniteSet(S) /\ Values(v, S)
  BY <1>1, <1>2, SizesAreNat DEF Vectors
<1>4. PICK c : c = [s \in SUBSET S |-> CHOOSE x \in s : TRUE]
  OBVIOUS
<1>5. Chooses(c, S)
  BY <1>4 DEF Chooses
<1>6. g = [s \in SUBSET S |-> g[s]] /\ g[{}] = 0
  BY <1>1 DEF AddsUp
<1>7. ASSUME NEW s \in SUBSET S, s # {}
      PROVE  /\ c[s] \in s /\ c[s] \in S
             /\ g[s] = g[s \ {c[s]}] + ENTRY + m[c[s]].capacity
             /\ v[c[s]] = ENTRY + m[c[s]].capacity /\ m[c[s]].capacity \in Nat
  <2>1. PICK x : x = c[s]
    OBVIOUS
  <2>2. x \in s /\ x \in S /\ x = CHOOSE y \in s : TRUE
    BY <1>4, <1>5, <1>7, <2>1 DEF Chooses
  <2>3. g[s] = g[s \ {x}] + ENTRY + m[x].capacity
    BY <1>1, <1>7, <2>2 DEF AddsUp
  <2>4. v[x] = ENTRY + m[x].capacity /\ m[x].capacity \in Nat
    BY <1>1, <1>2, <2>2, SizesAreNat DEF Vectors
  <2> QED
    BY <2>1, <2>2, <2>3, <2>4
<1> DEFINE N == {n \in Nat : \A s \in UpTo(n, S) : g[s] \in Int}
<1>8. 0 \in N
  <2>1. \A s \in UpTo(0, S) : s = {}
    BY <1>3, UpToNone
  <2>2. \A s \in UpTo(0, S) : g[s] = 0
    BY <1>6, <2>1, Zenon
  <2> QED
    BY <2>2
<1>9. ASSUME NEW n \in N PROVE n + 1 \in N
  <2>1. n \in Nat /\ \A s \in UpTo(n, S) : g[s] \in Int
    OBVIOUS
  <2>2. ASSUME NEW s \in UpTo(n + 1, S) PROVE g[s] \in Int
    <3>1. CASE s = {}
      BY <1>6, <3>1
    <3>2. CASE s # {}
      <4>1. s \in SUBSET S
        BY DEF UpTo
      <4>2. /\ c[s] \in s /\ g[s] = g[s \ {c[s]}] + ENTRY + m[c[s]].capacity
            /\ m[c[s]].capacity \in Nat
        BY <1>7, <3>2, <4>1
      <4>3. s \ {c[s]} \in UpTo(n, S)
        BY <1>3, <2>1, <4>2, Smaller
      <4>4. g[s \ {c[s]}] \in Int
        BY <2>1, <4>3
      <4> QED
        BY <4>2, <4>4, CacheAssumption
    <3> QED
      BY <3>1, <3>2
  <2>3. n + 1 \in Nat
    BY <2>1
  <2> QED
    BY <2>2, <2>3
<1>10. N = Nat
  <2> HIDE DEF N
  <2>1. N \in SUBSET Nat
    BY DEF N
  <2> QED
    BY <1>8, <1>9, <2>1, NatSet
<1>11. \A s \in SUBSET S : g[s] \in Int
  <2>1. Cardinality(S) \in N
    BY <1>3, <1>10, UpToAll
  <2>2. \A s \in UpTo(Cardinality(S), S) : g[s] \in Int
    BY <2>1
  <2> QED
    BY <1>3, <2>2, UpToAll
<1> HIDE DEF N
<1>12. ASSUME NEW s \in SUBSET S, s # {}
       PROVE  g[s] = g[s \ {c[s]}] + v[c[s]]
  <2>1. PICK x : x = c[s]
    OBVIOUS
  <2>2. PICK n \in Int : n = g[s \ {x}]
    BY <1>11
  <2>3. PICK p \in Nat : p = m[x].capacity
    BY <1>7, <1>12, <2>1
  <2>4. n + (ENTRY + p) = n + ENTRY + p
    BY CacheAssumption
  <2>5. g[s] = n + ENTRY + p /\ v[x] = ENTRY + p
    BY <1>7, <1>12, <2>1, <2>2, <2>3
  <2> QED
    BY <2>1, <2>2, <2>4, <2>5
<1>13. Iterates(g, v, c, S)
  BY <1>6, <1>12 DEF Iterates
<1>14. Adds(g, v, S)
  BY <1>3, <1>5, <1>13, TakerAdds
<1> QED
  BY <1>1, <1>2, <1>14 DEF IsSum

LEMMA RealSizeIsSum ==
  ASSUME NEW m, Vectors(m)
  PROVE  IsSum(real_size(m), Sizes(m), DOMAIN m)
<1>1. PICK g : g = (CHOOSE h : AddsUp(h, m))
  OBVIOUS
<1>2. AddsUp(g, m)
  BY <1>1, AddsUpExists
<1>3. real_size(m) = g[DOMAIN m]
  BY <1>1 DEF real_size, FoldSet, MapThenFoldSet, AddsUp
<1> QED
  BY <1>2, <1>3, AddsUpToSum

\* A cache of fewer directions, none of which takes more, is no larger.
LEMMA NoLarger ==
  ASSUME NEW m, Vectors(m), NEW n, Vectors(n), DOMAIN n \subseteq DOMAIN m,
         \A d \in DOMAIN n : n[d].capacity <= m[d].capacity
  PROVE  real_size(n) <= real_size(m)
<1>1. \A d \in DOMAIN m : Sizes(m)[d] \in Nat /\ Sizes(m)[d] = ENTRY + m[d].capacity
  BY SizesAreNat
<1>2. \A d \in DOMAIN n : Sizes(n)[d] \in Nat /\ Sizes(n)[d] = ENTRY + n[d].capacity
  BY SizesAreNat
<1>3. \A d \in DOMAIN n : Sizes(n)[d] <= Sizes(m)[d]
  <2> SUFFICES ASSUME NEW d \in DOMAIN n PROVE Sizes(n)[d] <= Sizes(m)[d]
    OBVIOUS
  <2>1. PICK a \in Nat, b \in Nat : a = n[d].capacity /\ b = m[d].capacity /\ a <= b
    BY DEF Vectors
  <2>2. ENTRY + a <= ENTRY + b
    BY <2>1, CacheAssumption
  <2> QED
    BY <1>1, <1>2, <2>1, <2>2
<1>4. IsSum(real_size(m), Sizes(m), DOMAIN m) /\ IsSum(real_size(n), Sizes(n), DOMAIN n)
  BY RealSizeIsSum
<1>5. IsFiniteSet(DOMAIN m)
  BY DEF Vectors
<1> QED
  BY <1>1, <1>2, <1>3, <1>4, <1>5, SumOfLess

\* All but one fit, and when a time is added all do.
FitsInv == FitsButForOne /\ (phase = "add" => real_size(inter_arrival_times) <= ONE_GiB)

Without(m, d) == [x \in DOMAIN m \ {d} |-> m[x]]

LEMMA CacheHasVectors ==
  ASSUME NEW m, DOMAIN m \subseteq Dir_ids, m \in [DOMAIN m -> Entry]
  PROVE  Vectors(m)
<1>1. IsFiniteSet(DOMAIN m)
  BY CacheAssumption, FS_Subset
<1>2. ASSUME NEW d \in DOMAIN m PROVE m[d].capacity \in Nat
  <2>1. m[d] \in Entry
    OBVIOUS
  <2> QED
    BY <2>1 DEF Entry
<1> QED
  BY <1>1, <1>2 DEF Vectors

LEMMA WithoutIsVectors ==
  ASSUME NEW m, Vectors(m), NEW d
  PROVE  /\ Vectors(Without(m, d)) /\ DOMAIN Without(m, d) = DOMAIN m \ {d}
         /\ \A x \in DOMAIN m \ {d} : Without(m, d)[x] = m[x]
<1>1. IsFiniteSet(DOMAIN m \ {d})
  BY FS_Subset DEF Vectors
<1>2. DOMAIN Without(m, d) = DOMAIN m \ {d} /\ \A x \in DOMAIN m \ {d} : Without(m, d)[x] = m[x]
  BY DEF Without
<1> QED
  BY <1>1, <1>2 DEF Vectors

LEMMA RealSizeIsInt ==
  ASSUME NEW m, Vectors(m)
  PROVE  real_size(m) \in Nat
<1>1. IsSum(real_size(m), Sizes(m), DOMAIN m) /\ IsFiniteSet(DOMAIN m)
  BY RealSizeIsSum DEF Vectors
<1>2. \A d \in DOMAIN m : Sizes(m)[d] \in Nat
  BY SizesAreNat
<1> QED
  BY <1>1, <1>2, SumOfNaturals

\* A step that adds no direction to the cache, and no capacity.
LEMMA NoGrowthFits ==
  ASSUME TypeOK, TypeOK', FitsButForOne,
         DOMAIN inter_arrival_times' = DOMAIN inter_arrival_times,
         \A d \in DOMAIN inter_arrival_times :
           inter_arrival_times'[d].capacity <= inter_arrival_times[d].capacity
  PROVE  FitsButForOne'
<1>1. PICK m : m = inter_arrival_times
  OBVIOUS
<1>2. PICK n : n = inter_arrival_times'
  OBVIOUS
<1>3. Vectors(m)
  BY <1>1, CacheHasVectors DEF TypeOK
<1>4. Vectors(n)
  BY <1>2, CacheHasVectors DEF TypeOK
<1>5. CASE m = <<>>
  <2>1. DOMAIN n = {}
    BY <1>1, <1>2, <1>5
  <2>2. n = <<>>
    <3>1. n \in [DOMAIN n -> Entry]
      BY <1>2 DEF TypeOK
    <3> QED
      BY <2>1, <3>1
  <2> QED
    BY <1>2, <2>2 DEF FitsButForOne
<1>6. ASSUME NEW d \in DOMAIN m, real_size(Without(m, d)) <= ONE_GiB
      PROVE  FitsButForOne'
  <2>1. real_size(Without(n, d)) <= real_size(Without(m, d))
    <3>1. /\ Vectors(Without(m, d)) /\ DOMAIN Without(m, d) = DOMAIN m \ {d}
          /\ \A x \in DOMAIN m \ {d} : Without(m, d)[x] = m[x]
      BY <1>3, WithoutIsVectors
    <3>2. /\ Vectors(Without(n, d)) /\ DOMAIN Without(n, d) = DOMAIN n \ {d}
          /\ \A x \in DOMAIN n \ {d} : Without(n, d)[x] = n[x]
      BY <1>4, WithoutIsVectors
    <3>3. /\ DOMAIN Without(n, d) \subseteq DOMAIN Without(m, d)
          /\ \A x \in DOMAIN Without(n, d) :
               Without(n, d)[x].capacity <= Without(m, d)[x].capacity
      BY <1>1, <1>2, <3>1, <3>2
    <3> QED
      BY <3>1, <3>2, <3>3, NoLarger
  <2>2. real_size(Without(n, d)) \in Nat /\ real_size(Without(m, d)) \in Nat
    BY <1>3, <1>4, WithoutIsVectors, RealSizeIsInt
  <2>3. real_size(Without(n, d)) <= ONE_GiB
    BY <1>6, <2>1, <2>2, CacheAssumption
  <2> QED
    BY <1>1, <1>2, <2>3 DEF FitsButForOne, Without
<1> QED
  BY <1>1, <1>5, <1>6 DEF FitsButForOne, Without

LEMMA FitsStep ==
  ASSUME TypeOK, TypeOK', FitsInv, [Next]_vars
  PROVE  FitsInv'
<1>1. FitsButForOne /\ (phase = "add" => real_size(inter_arrival_times) <= ONE_GiB)
  BY DEF FitsInv
<1>8. Vectors(inter_arrival_times) /\ Vectors(inter_arrival_times')
  BY CacheHasVectors DEF TypeOK
<1>2. CASE begin
  <2>1. /\ inter_arrival_times' = update_age_byte(inter_arrival_times)
        /\ phase' = IF real_size(inter_arrival_times') > ONE_GiB THEN "flush" ELSE "add"
    BY <1>2 DEF begin
  <2>2. real_size(inter_arrival_times') \in Nat
    BY <1>8, RealSizeIsInt
  <2>3. phase' = "add" => real_size(inter_arrival_times') <= ONE_GiB
    BY <2>1, <2>2, CacheAssumption
  <2>4. /\ DOMAIN inter_arrival_times' = DOMAIN inter_arrival_times
        /\ \A d \in DOMAIN inter_arrival_times :
             inter_arrival_times'[d].capacity = inter_arrival_times[d].capacity
    BY <2>1 DEF TypeOK, update_age_byte, Entry
  <2>5. \A d \in DOMAIN inter_arrival_times : inter_arrival_times[d].capacity \in Nat
    BY <1>8 DEF Vectors
  <2>6. FitsButForOne'
    BY <1>1, <2>4, <2>5, NoGrowthFits
  <2> QED
    BY <2>3, <2>6 DEF FitsInv
<1>3. CASE round
  <2> DEFINE out == OfAge(inter_arrival_times, oldest_age)
  <2>1. inter_arrival_times' = Shrunk(inter_arrival_times, out) /\ phase' = "flush"
    BY <1>3 DEF round
  <2> HIDE DEF out
  <2>2. DOMAIN inter_arrival_times' = DOMAIN inter_arrival_times
    BY <2>1 DEF Shrunk
  <2>3. ASSUME NEW d \in DOMAIN inter_arrival_times
        PROVE  inter_arrival_times'[d].capacity <= inter_arrival_times[d].capacity
    <3>1. PICK e \in Entry : e = inter_arrival_times[d]
      BY DEF TypeOK
    <3>2. e.capacity \in Nat
      BY DEF Entry
    <3>3. CASE d \in out
      <4>1. inter_arrival_times'[d] = [e EXCEPT !.times = <<>>, !.capacity = 0]
        BY <2>1, <3>1, <3>3 DEF Shrunk
      <4>2. inter_arrival_times'[d].capacity = 0
        BY <4>1, ShrunkEntry
      <4> QED
        BY <3>1, <3>2, <4>2
    <3>4. CASE d \notin out
      <4>1. inter_arrival_times'[d] = e
        BY <2>1, <3>1, <3>4 DEF Shrunk
      <4> QED
        BY <3>1, <3>2, <4>1
    <3> QED
      BY <3>3, <3>4
  <2>4. FitsButForOne'
    BY <1>1, <2>2, <2>3, NoGrowthFits
  <2> QED
    BY <2>1, <2>4 DEF FitsInv
<1>4. CASE flushed
  <2>1. /\ real_size(inter_arrival_times) <= SIZE_AFTER_FLUSH
        /\ UNCHANGED inter_arrival_times
    BY <1>4 DEF flushed
  <2>2. real_size(inter_arrival_times) \in Nat
    BY <1>8, RealSizeIsInt
  <2>3. real_size(inter_arrival_times) <= ONE_GiB
    BY <2>1, <2>2, CacheAssumption
  <2> QED
    BY <1>1, <2>1, <2>3 DEF FitsInv, FitsButForOne
<1>5. CASE store
  <2>1. PICK m : m = inter_arrival_times
    OBVIOUS
  <2>2. phase = "add" /\ phase' = "idle"
    BY <1>5 DEF store
  <2>3. PICK n : n = inter_arrival_times'
    OBVIOUS
  <2>4. DOMAIN n = DOMAIN m \cup {id} /\ \A d \in DOMAIN m \ {id} : n[d] = m[d]
    BY <1>5, <2>1, <2>3 DEF store
  <2>5. Without(n, id) = Without(m, id)
    <3>1. DOMAIN n \ {id} = DOMAIN m \ {id}
      BY <2>4
    <3> QED
      BY <2>4, <3>1 DEF Without
  <2>6. Vectors(m)
    BY <1>8, <2>1
  <2>7. /\ Vectors(Without(m, id)) /\ DOMAIN Without(m, id) = DOMAIN m \ {id}
        /\ \A x \in DOMAIN m \ {id} : Without(m, id)[x] = m[x]
    BY <2>6, WithoutIsVectors
  <2>8. real_size(Without(m, id)) <= real_size(m)
    <3>1. \A x \in DOMAIN Without(m, id) : Without(m, id)[x].capacity <= m[x].capacity
      BY <2>6, <2>7 DEF Vectors
    <3> QED
      BY <2>6, <2>7, <3>1, NoLarger
  <2>9. real_size(Without(m, id)) \in Nat /\ real_size(m) \in Nat
    BY <2>6, <2>7, RealSizeIsInt
  <2>10. real_size(Without(m, id)) <= ONE_GiB
    BY <1>1, <2>1, <2>2, <2>8, <2>9, CacheAssumption
  <2>11. id' = id /\ id \in DOMAIN n
    BY <1>5, <2>4 DEF store
  <2>12. FitsButForOne'
    BY <2>3, <2>5, <2>10, <2>11 DEF FitsButForOne, Without
  <2> QED
    BY <2>2, <2>12 DEF FitsInv
<1>6. ASSUME NEW d \in Dir_ids, NEW gap \in Gaps, add_packet(d, gap)
      PROVE  FitsInv'
  <2>1. UNCHANGED inter_arrival_times /\ phase = "idle" /\ phase' \in {"idle", "age"}
    BY <1>6 DEF add_packet
  <2> QED
    BY <1>1, <2>1 DEF FitsInv, FitsButForOne
<1>7. CASE UNCHANGED vars
  BY <1>1, <1>7 DEF vars, FitsInv, FitsButForOne
<1> QED
  BY <1>2, <1>3, <1>4, <1>5, <1>6, <1>7 DEF Next

\* The cache exceeds its memory by no more than one direction, whatever the sizes are:
\* flush_to_db does not end before the rest fits, and store adds to one direction only
\* before the cache is measured again.
THEOREM FitsAlwaysButForOne == Spec => []FitsButForOne
<1>1. Init => FitsInv
  BY DEF Init, FitsInv, FitsButForOne
<1>2. TypeOK /\ TypeOK' /\ FitsInv /\ [Next]_vars => FitsInv'
  BY FitsStep
<1>3. FitsInv => FitsButForOne
  BY DEF FitsInv
<1> QED
  BY <1>1, <1>2, <1>3, TypeCorrect, PTL DEF Spec
===============================================================================
