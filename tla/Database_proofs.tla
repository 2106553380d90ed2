---------------------------- MODULE Database_proofs ----------------------------
(***************************************************************************)
(* The write-behind caches are invisible: for any tables, capacities and   *)
(* runs of the program, Database implements RowLog.                        *)
(***************************************************************************)
EXTENDS Database, TLAPS, SequenceTheorems, FiniteSetTheorems

\* While the program runs, the rows of a table in the file and behind them those in
\* its cache are the rows that were handed over.
Complete ==
  phase = "open" => \A t \in Table : table[t] \o cache[t] = handed[t]

\* Only the table of inter-arrival times has rows waiting.
PendingTimes == pending # <<>> => "inter_arrival_time" \in Table

IInv == TypeOK /\ Complete /\ PendingTimes /\ FlagMatchesFile

-----------------------------------------------------------------------------
(* Lemmas on the caches. *)

BufferType(t) == [table : Seq(Row), cache : {c \in Seq(Row) : Len(c) <= Capacity[t]}]

\* Putting a row into a cache, written first if it is full, keeps the type and puts
\* the row behind all rows of the table.
LEMMA PutAppends ==
  ASSUME NEW t \in Table, NEW b \in BufferType(t), NEW row \in Row
  PROVE  /\ Put(b, row, t) \in BufferType(t)
         /\ Put(b, row, t).table \o Put(b, row, t).cache = Append(b.table \o b.cache, row)
<1>1. /\ b.table \in Seq(Row) /\ b.cache \in Seq(Row)
      /\ Len(b.cache) <= Capacity[t] /\ b = [table |-> b.table, cache |-> b.cache]
  BY DEF BufferType
<1>2. Capacity[t] \in Nat /\ Capacity[t] > 0
  BY CapacityAssumption
<1>3. CASE is_full(b, t)
  <2>1. Put(b, row, t) = [table |-> b.table \o b.cache, cache |-> Append(<<>>, row)]
    <3>1. Put(b, row, t) = push_back(write_cache(b), row)
      BY <1>3 DEF Put
    <3> QED
      BY <3>1 DEF push_back, write_cache
  <2>2. b.table \o b.cache \in Seq(Row)
    BY <1>1, ConcatProperties
  <2>3. Append(<<>>, row) \in Seq(Row) /\ Len(Append(<<>>, row)) = 1
    OBVIOUS
  <2>4. (b.table \o b.cache) \o Append(<<>>, row) = Append(b.table \o b.cache, row)
    <3>1. Append(b.table \o b.cache, row) = (b.table \o b.cache) \o <<row>>
      BY <2>2, AppendIsConcat
    <3> QED
      BY <3>1
  <2> QED
    BY <1>2, <2>1, <2>2, <2>3, <2>4 DEF BufferType
<1>4. CASE ~is_full(b, t)
  <2>1. Put(b, row, t) = [table |-> b.table, cache |-> Append(b.cache, row)]
    <3>1. Put(b, row, t) = push_back(b, row)
      BY <1>4 DEF Put
    <3>2. b \in [table : Seq(Row), cache : Seq(Row)]
      BY <1>1 DEF BufferType
    <3> QED
      BY <3>1, <3>2 DEF push_back
  <2>2. Append(b.cache, row) \in Seq(Row) /\ Len(Append(b.cache, row)) = Len(b.cache) + 1
    BY <1>1
  <2>3. Len(b.cache) < Capacity[t]
    BY <1>1, <1>2, <1>4 DEF is_full
  <2>4. b.table \o Append(b.cache, row) = Append(b.table \o b.cache, row)
    BY <1>1
  <2> QED
    BY <1>1, <1>2, <2>1, <2>2, <2>3, <2>4 DEF BufferType
<1> QED
  BY <1>3, <1>4

LEMMA BufferTyped ==
  ASSUME TypeOK, NEW t \in Table
  PROVE  Buffer(t) \in BufferType(t)
BY DEF TypeOK, Buffer, BufferType

\* The step of the stores of one row.
LEMMA StoreRow ==
  ASSUME IInv, phase = "open", NEW t \in Table, NEW row \in Row, store_row(t, row)
  PROVE  /\ table' \in [Table -> Seq(Row)] /\ cache' \in [Table -> Seq(Row)]
         /\ \A u \in Table : Len(cache'[u]) <= Capacity[u]
         /\ handed' \in [Table -> Seq(Row)]
         /\ \A u \in Table : table'[u] \o cache'[u] = handed'[u]
<1> DEFINE b == Buffer(t)
           c == Put(b, row, t)
<1>1. b \in BufferType(t) /\ b.table = table[t] /\ b.cache = cache[t]
  BY BufferTyped DEF IInv, Buffer
<1>2. c \in BufferType(t) /\ c.table \o c.cache = Append(b.table \o b.cache, row)
  BY <1>1, PutAppends
<1>3. /\ table \in [Table -> Seq(Row)] /\ cache \in [Table -> Seq(Row)]
      /\ handed \in [Table -> Seq(Row)]
      /\ \A u \in Table : Len(cache[u]) <= Capacity[u]
      /\ \A u \in Table : table[u] \o cache[u] = handed[u]
  BY DEF IInv, TypeOK, Complete
<1>4. /\ handed' = [handed EXCEPT ![t] = Append(@, row)]
      /\ table' = [table EXCEPT ![t] = c.table]
      /\ cache' = [cache EXCEPT ![t] = c.cache]
  BY DEF store_row, SetBuffer
<1>5. c.table \in Seq(Row) /\ c.cache \in Seq(Row) /\ Len(c.cache) <= Capacity[t]
  BY <1>2 DEF BufferType
<1>6. c.table \o c.cache = Append(handed[t], row)
  BY <1>1, <1>2, <1>3
<1> HIDE DEF b, c
<1>7. \A u \in Table \ {t} :
        table'[u] = table[u] /\ cache'[u] = cache[u] /\ handed'[u] = handed[u]
  BY <1>3, <1>4
<1>8. table'[t] = c.table /\ cache'[t] = c.cache /\ handed'[t] = Append(handed[t], row)
  BY <1>3, <1>4
<1>9. Append(handed[t], row) \in Seq(Row)
  BY <1>3
<1>10. /\ table' \in [Table -> Seq(Row)] /\ cache' \in [Table -> Seq(Row)]
       /\ handed' \in [Table -> Seq(Row)]
  BY <1>3, <1>4, <1>5, <1>9
<1>11. \A u \in Table : Len(cache'[u]) <= Capacity[u]
  BY <1>3, <1>5, <1>7, <1>8
<1>12. \A u \in Table : table'[u] \o cache'[u] = handed'[u]
  BY <1>3, <1>6, <1>7, <1>8
<1> QED
  BY <1>10, <1>11, <1>12

-----------------------------------------------------------------------------
(* Lemmas on the readers. *)

LEMMA PlacesFinite ==
  ASSUME NEW s \in Seq(Row), NEW d
  PROVE  /\ Cardinality(OfDir(s, d)) \in Nat
         /\ OfDir(s, d) \subseteq 1..Len(s)
<1>1. OfDir(s, d) \subseteq 1..Len(s)
  BY DEF OfDir
<1>2. IsFiniteSet(1..Len(s))
  BY FS_Interval
<1> QED
  BY <1>1, <1>2, FS_Subset, FS_CardinalityType

\* A reader gets rows.
LEMMA SelectedRows ==
  ASSUME NEW t, NEW s \in Seq(Row), NEW d, NEW n \in Nat, NEW q \in Selected(t, s, d, n)
  PROVE  q \in Seq(Row)
<1>1. Cardinality(OfDir(s, d)) \in Nat /\ OfDir(s, d) \subseteq 1..Len(s)
  BY PlacesFinite
<1>2. ASSUME NEW m \in Nat, NEW p \in [1..m -> OfDir(s, d)]
      PROVE  [k \in 1..m |-> s[p[k]]] \in Seq(Row)
  BY <1>1
<1>3. CASE t = "inter_arrival_time"
  <2>1. PICK m \in Nat :
          \E p \in [1..m -> OfDir(s, d)] : q = [k \in 1..m |-> s[p[k]]]
    BY <1>1, <1>3 DEF Selected, LatestFirst
  <2> QED
    BY <1>2, <2>1
<1>4. CASE t # "inter_arrival_time"
  <2>1. PICK p \in [1..Cardinality(OfDir(s, d)) -> OfDir(s, d)] :
          q = [k \in 1..Cardinality(OfDir(s, d)) |-> s[p[k]]]
    BY <1>4 DEF Selected, OrderedBy
  <2> QED
    BY <1>1, <1>2, <2>1
<1> QED
  BY <1>3, <1>4

\* Up to half the clock, SQLite's order of the times is the order of the times.
LEMMA SelectedIsOwed ==
  ASSUME MaxTime < HALF, NEW t, NEW s \in Seq(Row), NEW d, NEW n,
         NEW q \in Selected(t, s, d, n)
  PROVE  q \in Owed(t, s, d, n)
<1>1. CASE t = "inter_arrival_time"
  BY <1>1 DEF Selected, Owed
<1>2. CASE t # "inter_arrival_time"
  <2> DEFINE m == Cardinality(OfDir(s, d))
  <2>1. m \in Nat /\ OfDir(s, d) \subseteq 1..Len(s)
    BY PlacesFinite
  <2>2. PICK p \in {f \in [1..m -> OfDir(s, d)] : IsInjective(f)} :
          q = [k \in 1..m |-> s[p[k]]]
    BY <1>2 DEF Selected, OrderedBy
  <2>3. \A j, k \in 1..m : j < k => Signed(q[j].time) <= Signed(q[k].time)
    BY <1>2 DEF Selected, OrderedBy
  <2>4. ASSUME NEW k \in 1..m PROVE Signed(q[k].time) = q[k].time
    <3>1. q[k] \in Row
      BY <2>1, <2>2
    <3>2. q[k].time \in 0..MaxTime
      BY <3>1 DEF Row
    <3> QED
      BY <3>2, BoundsAssumption DEF Signed
  <2>5. \A j, k \in 1..m : j < k => q[j].time <= q[k].time
    BY <2>3, <2>4
  <2>6. q \in {r \in {[k \in 1..m |-> s[f[k]]] : f \in {g \in [1..m -> OfDir(s, d)] : IsInjective(g)}} :
                 \A j, k \in 1..m : j < k => r[j].time <= r[k].time}
    BY <2>2, <2>5
  <2> QED
    BY <1>2, <2>6 DEF Owed, OrderedBy
<1> QED
  BY <1>1, <1>2

-----------------------------------------------------------------------------
(* The invariant. *)

LEMMA TypeInit == Init => IInv
<1> SUFFICES ASSUME Init PROVE IInv
  OBVIOUS
<1>1. <<>> \in Seq(Row) /\ Len(<<>>) = 0 /\ \A t \in Table : 0 <= Capacity[t]
  BY CapacityAssumption
<1>2. \A t \in Table : table[t] = <<>> /\ cache[t] = <<>>
  BY DEF Init
<1>3. \A t \in Table : Len(cache[t]) <= Capacity[t]
  BY <1>1, <1>2
<1>4. 0 \in 0..MaxTime /\ 0 \in 0..MaxOpens
  BY BoundsAssumption
<1>5. TypeOK
  BY <1>1, <1>3, <1>4 DEF Init, TypeOK
<1>6. Complete /\ PendingTimes /\ FlagMatchesFile
  BY DEF Init, Complete, PendingTimes, FlagMatchesFile
<1> QED
  BY <1>5, <1>6 DEF IInv

\* A reader finds the rows that were handed over, and all of them in the file.
LEMMA GetComplete ==
  ASSUME IInv, NEW t \in Table, NEW d \in Dir_ids, NEW n \in Asked(t), get(t, d, n)
  PROVE  /\ phase = "open" /\ phase' = "open" /\ ~IndexError
         /\ table' = [table EXCEPT ![t] = handed[t]]
         /\ cache' = [cache EXCEPT ![t] = <<>>]
         /\ answer' \in Selected(t, handed[t], d, n)
         /\ n \in 0..MaxRows
<1>1. phase = "open"
  BY DEF get
<1>2. ~IndexError
  BY <1>1 DEF IInv, FlagMatchesFile, IndexError
<1>3. /\ SetBuffer(t, write_cache(Buffer(t))) /\ phase' = phase
      /\ answer' \in Selected(t, table'[t], d, n)
  BY <1>2 DEF get
<1>4. table[t] \o cache[t] = handed[t] /\ table \in [Table -> Seq(Row)]
  BY <1>1 DEF IInv, TypeOK, Complete
<1>5. /\ table' = [table EXCEPT ![t] = table[t] \o cache[t]]
      /\ cache' = [cache EXCEPT ![t] = <<>>]
  BY <1>3 DEF SetBuffer, write_cache, Buffer
<1>6. table'[t] = handed[t]
  BY <1>4, <1>5
<1>7. n \in 0..MaxRows
  BY BoundsAssumption DEF Asked
<1> QED
  BY <1>1, <1>2, <1>3, <1>4, <1>5, <1>6, <1>7

LEMMA GetInvariant ==
  ASSUME IInv, NEW t \in Table, NEW d \in Dir_ids, NEW n \in Asked(t), get(t, d, n)
  PROVE  IInv'
<1>1. /\ phase = "open" /\ phase' = "open" /\ ~IndexError
      /\ table' = [table EXCEPT ![t] = handed[t]]
      /\ cache' = [cache EXCEPT ![t] = <<>>]
      /\ answer' \in Selected(t, handed[t], d, n) /\ n \in 0..MaxRows
  BY GetComplete
<1>2. /\ indexed' = TRUE /\ indexes_created' = TRUE
      /\ pending' = pending /\ now' = now /\ opens' = opens /\ handed' = handed
  BY <1>1 DEF get
<1>3. /\ table \in [Table -> Seq(Row)] /\ cache \in [Table -> Seq(Row)]
      /\ handed \in [Table -> Seq(Row)] /\ handed[t] \in Seq(Row)
      /\ \A u \in Table : Len(cache[u]) <= Capacity[u]
      /\ \A u \in Table : table[u] \o cache[u] = handed[u]
  BY <1>1 DEF IInv, TypeOK, Complete
<1>4. /\ table' \in [Table -> Seq(Row)] /\ cache' \in [Table -> Seq(Row)]
  <2>1. <<>> \in Seq(Row)
    OBVIOUS
  <2> QED
    BY <1>1, <1>3, <2>1
<1>5. \A u \in Table \ {t} : table'[u] = table[u] /\ cache'[u] = cache[u]
  BY <1>1, <1>3
<1>6. table'[t] = handed[t] /\ cache'[t] = <<>>
  BY <1>1, <1>3
<1>7. \A u \in Table : Len(cache'[u]) <= Capacity[u]
  <2>1. Len(cache'[t]) <= Capacity[t]
    BY <1>6, CapacityAssumption
  <2> QED
    BY <1>3, <1>5, <2>1
<1>8. \A u \in Table : table'[u] \o cache'[u] = handed'[u]
  <2>1. handed[t] \o <<>> = handed[t]
    BY <1>3, ConcatEmptySeq
  <2> QED
    BY <1>2, <1>3, <1>5, <1>6, <2>1
<1>9. answer' \in Seq(Row)
  BY <1>1, <1>3, BoundsAssumption, SelectedRows
<1>10. TypeOK'
  BY <1>1, <1>2, <1>4, <1>7, <1>9 DEF IInv, TypeOK
<1> QED
  BY <1>1, <1>2, <1>8, <1>10 DEF IInv, Complete, PendingTimes, FlagMatchesFile

\* A failure leaves a beginning of what was handed over: what was in the file, and
\* some of the cache behind it.
LEMMA FailInvariant ==
  ASSUME IInv, NEW t \in Table, fail(t)
  PROVE  IInv'
<1>1. PICK n \in 0..Len(cache[t]) : table' = [table EXCEPT ![t] = @ \o SubSeq(cache[t], 1, n)]
  BY DEF fail
<1>2. /\ phase' = "failed"
      /\ UNCHANGED <<cache, indexed, indexes_created, pending, now, opens, handed, answer>>
  BY DEF fail
<1>3. cache[t] \in Seq(Row) /\ table \in [Table -> Seq(Row)] /\ table[t] \in Seq(Row)
  BY DEF IInv, TypeOK
<1>4. SubSeq(cache[t], 1, n) \in Seq(Row)
  BY <1>3, SubSeqProperties
<1>5. table[t] \o SubSeq(cache[t], 1, n) \in Seq(Row)
  BY <1>3, <1>4, ConcatProperties
<1>6. table' \in [Table -> Seq(Row)]
  BY <1>1, <1>3, <1>5
<1>7. TypeOK'
  BY <1>2, <1>6 DEF IInv, TypeOK
<1> QED
  BY <1>2, <1>7 DEF IInv, Complete, PendingTimes, FlagMatchesFile

LEMMA StoreInvariant ==
  ASSUME IInv, (\E t \in Table : store(t)) \/ store_inter_arrival_times \/ store_next_time
  PROVE  IInv'
<1>1. ASSUME NEW t \in Table, NEW row \in Row, phase = "open", store_row(t, row),
             pending' \in Seq(Row), pending' # <<>> => pending # <<>>
      PROVE  IInv'
  <2>1. /\ table' \in [Table -> Seq(Row)] /\ cache' \in [Table -> Seq(Row)]
        /\ \A u \in Table : Len(cache'[u]) <= Capacity[u]
        /\ handed' \in [Table -> Seq(Row)]
        /\ \A u \in Table : table'[u] \o cache'[u] = handed'[u]
    BY <1>1, StoreRow
  <2>2. UNCHANGED <<indexed, indexes_created, phase, now, opens, answer>>
    BY <1>1 DEF store_row
  <2>3. TypeOK'
    BY <1>1, <2>1, <2>2 DEF IInv, TypeOK
  <2> QED
    BY <1>1, <2>1, <2>2, <2>3 DEF IInv, Complete, PendingTimes, FlagMatchesFile
<1>2. ASSUME NEW t \in Table, store(t) PROVE IInv'
  <2>1. PICK d \in Dir_ids : store_row(t, [dir_id |-> d, time |-> now])
    BY <1>2 DEF store
  <2>2. [dir_id |-> d, time |-> now] \in Row
    BY DEF IInv, TypeOK, Row
  <2>3. phase = "open" /\ pending' = pending /\ pending \in Seq(Row)
    BY <1>2 DEF store, IInv, TypeOK
  <2> QED
    BY <1>1, <2>1, <2>2, <2>3
<1>3. CASE store_inter_arrival_times
  <2>1. PICK rows \in Batches : pending' = rows
    BY <1>3 DEF store_inter_arrival_times
  <2>2. rows \in Seq(Row)
    <3>1. PICK n \in 1..MaxBatch : rows \in [1..n -> Row]
      BY <2>1 DEF Batches
    <3> QED
      BY <3>1, BoundsAssumption
  <2>3. /\ phase = "open" /\ "inter_arrival_time" \in Table
        /\ UNCHANGED <<table, cache, indexed, indexes_created, phase, now, opens, handed, answer>>
    BY <1>3 DEF store_inter_arrival_times
  <2>4. TypeOK'
    BY <2>1, <2>2, <2>3 DEF IInv, TypeOK
  <2> QED
    BY <2>3, <2>4 DEF IInv, Complete, PendingTimes, FlagMatchesFile
<1>4. CASE store_next_time
  <2>1. /\ phase = "open" /\ pending # <<>> /\ pending' = Tail(pending)
        /\ store_row("inter_arrival_time", Head(pending))
    BY <1>4 DEF store_next_time
  <2>2. "inter_arrival_time" \in Table /\ pending \in Seq(Row)
    BY <2>1 DEF IInv, PendingTimes, TypeOK
  <2>3. Head(pending) \in Row /\ Tail(pending) \in Seq(Row)
    BY <2>1, <2>2, HeadTailProperties
  <2> QED
    BY <1>1, <2>1, <2>2, <2>3
<1> QED
  BY <1>2, <1>3, <1>4

LEMMA StepInvariant ==
  ASSUME IInv, [Next]_vars
  PROVE  IInv'
<1>1. CASE open
  <2>1. <<>> \in Seq(Row) /\ Len(<<>>) = 0 /\ \A t \in Table : 0 <= Capacity[t]
    BY CapacityAssumption
  <2>2. opens' \in 0..MaxOpens /\ 0 \in 0..MaxTime
    BY <1>1, BoundsAssumption DEF open, IInv, TypeOK
  <2>3. \A t \in Table : table'[t] = <<>> /\ cache'[t] = <<>>
    BY <1>1 DEF open
  <2>4. \A t \in Table : Len(cache'[t]) <= Capacity[t]
    BY <2>1, <2>3
  <2>5. TypeOK'
    BY <1>1, <2>1, <2>2, <2>4 DEF open, IInv, TypeOK
  <2>6. Complete'
    <3>1. \A t \in Table : handed'[t] = <<>>
      BY <1>1 DEF open
    <3>2. <<>> \o <<>> = <<>>
      BY <2>1, ConcatEmptySeq
    <3> QED
      BY <2>3, <3>1, <3>2 DEF Complete
  <2> QED
    BY <1>1, <2>5, <2>6 DEF open, IInv, PendingTimes, FlagMatchesFile
<1>2. CASE close
  BY <1>2 DEF close, IInv, TypeOK, Complete, PendingTimes, FlagMatchesFile
<1>3. CASE tick
  <2>1. now' \in 0..MaxTime
    BY <1>3, BoundsAssumption DEF tick, IInv, TypeOK
  <2>2. TypeOK'
    BY <1>3, <2>1 DEF tick, IInv, TypeOK
  <2> QED
    BY <1>3, <2>2 DEF tick, IInv, Complete, PendingTimes, FlagMatchesFile
<1>4. CASE (\E t \in Table : store(t)) \/ store_inter_arrival_times \/ store_next_time
  BY <1>4, StoreInvariant
<1>5. CASE \E t \in Table, d \in Dir_ids : \E n \in Asked(t) : get(t, d, n)
  BY <1>5, GetInvariant
<1>6. CASE \E t \in Table : fail(t)
  BY <1>6, FailInvariant
<1>7. CASE UNCHANGED vars
  BY <1>7 DEF vars, IInv, TypeOK, Complete, PendingTimes, FlagMatchesFile
<1> QED
  BY <1>1, <1>2, <1>3, <1>4, <1>5, <1>6, <1>7 DEF Next

\* The caches never grow beyond their pages, whatever is stored and read.
THEOREM TypeCorrect == Spec => []TypeOK
<1>1. IInv => TypeOK
  BY DEF IInv
<1> QED
  BY <1>1, TypeInit, StepInvariant, PTL DEF Spec

\* CREATE INDEX never fails on an index that is there, in any run of the program.
THEOREM FlagAlwaysMatches == Spec => []FlagMatchesFile
<1>1. IInv => FlagMatchesFile
  BY DEF IInv
<1> QED
  BY <1>1, TypeInit, StepInvariant, PTL DEF Spec

-----------------------------------------------------------------------------
(* The refinement: the steps of the database are those of the row log. *)

\* The log of an open database is what was handed over, of another one the file.
LEMMA LogIs ==
  /\ phase = "open" => log = [t \in Table |-> handed[t]]
  /\ phase # "open" => log = [t \in Table |-> table[t]]
BY DEF log

LEMMA InitRefines == Init => Promise!Init
<1> SUFFICES ASSUME Init PROVE Promise!Init
  OBVIOUS
<1>1. phase # "open" /\ answer = <<>> /\ log = [t \in Table |-> <<>>]
  BY DEF Init, log
<1> QED
  BY <1>1 DEF Promise!Init

\* A beginning: the file keeps of the log all but rows of the cache.
LEMMA PrefixSurvives ==
  ASSUME NEW t \in Table, NEW file \in Seq(Row), NEW c \in Seq(Row),
         Len(c) <= Capacity[t], NEW n \in 0..Len(c)
  PROVE  Promise!Survives(file \o SubSeq(c, 1, n), file \o c, Capacity[t])
<1> DEFINE part == SubSeq(c, 1, n)
           s == file \o part
           r == file \o c
<1>1. part \in Seq(Row) /\ Len(part) = n /\ \A i \in 1..n : part[i] = c[i]
  BY SubSeqProperties
<1>2. /\ s \in Seq(Row) /\ Len(s) = Len(file) + n
      /\ \A i \in 1..(Len(file) + n) :
           s[i] = IF i <= Len(file) THEN file[i] ELSE part[i - Len(file)]
  BY <1>1, ConcatProperties
<1>3. /\ r \in Seq(Row) /\ Len(r) = Len(file) + Len(c)
      /\ \A i \in 1..(Len(file) + Len(c)) :
           r[i] = IF i <= Len(file) THEN file[i] ELSE c[i - Len(file)]
  BY ConcatProperties
<1> HIDE DEF part, s, r
<1>4. Len(file) \in Nat /\ Len(c) \in Nat /\ n \in Nat /\ n <= Len(c)
  OBVIOUS
<1>5. ASSUME NEW i \in 1..Len(s) PROVE s[i] = r[i]
  <2>1. i \in 1..(Len(file) + n) /\ i \in 1..(Len(file) + Len(c))
    BY <1>2, <1>4
  <2>2. CASE i <= Len(file)
    BY <1>2, <1>3, <2>1, <2>2
  <2>3. CASE ~(i <= Len(file))
    <3>1. i - Len(file) \in 1..n
      BY <1>4, <2>1, <2>3
    <3>2. s[i] = part[i - Len(file)] /\ r[i] = c[i - Len(file)]
      BY <1>2, <1>3, <2>1, <2>3
    <3> QED
      BY <1>1, <3>1, <3>2
  <2> QED
    BY <2>2, <2>3
<1>6. Len(s) <= Len(r)
  BY <1>2, <1>3, <1>4
<1>7. /\ SubSeq(r, 1, Len(s)) \in Seq(Row) /\ Len(SubSeq(r, 1, Len(s))) = Len(s)
      /\ \A i \in 1..Len(s) : SubSeq(r, 1, Len(s))[i] = r[i]
  <2>1. \A i \in 1..Len(s) : r[i] \in Row
    BY <1>3, <1>6, ElementOfSeq
  <2>2. Len(s) \in Nat
    BY <1>2, <1>4
  <2> QED
    BY <2>1, <2>2, SubSeqProperties
<1>8. s = SubSeq(r, 1, Len(s))
  BY <1>2, <1>5, <1>7, SeqEqual
<1>9. Len(r) <= Len(s) + Capacity[t]
  BY <1>2, <1>3, <1>4, CapacityAssumption
<1> QED
  BY <1>6, <1>8, <1>9 DEF Promise!Survives, s, r, part

\* Closing the database keeps the beginning that is in the file, and so does failing.
LEMMA StopRefines ==
  ASSUME IInv, close \/ \E t \in Table : fail(t)
  PROVE  Promise!Stop
<1>1. /\ phase = "open" /\ phase' # "open" /\ answer' = answer
  BY DEF close, fail
<1>2. log = [t \in Table |-> handed[t]]
  BY <1>1, LogIs
<1>3. log' = [t \in Table |-> table'[t]]
  BY <1>1 DEF log
<1>4. ASSUME NEW t \in Table PROVE Promise!Survives(table'[t], handed[t], Capacity[t])
  <2>1. /\ table[t] \in Seq(Row) /\ cache[t] \in Seq(Row) /\ Len(cache[t]) <= Capacity[t]
        /\ handed[t] = table[t] \o cache[t] /\ table \in [Table -> Seq(Row)]
    BY <1>1 DEF IInv, TypeOK, Complete
  <2>2. PICK n \in 0..Len(cache[t]) : table'[t] = table[t] \o SubSeq(cache[t], 1, n)
    <3>1. table[t] \o SubSeq(cache[t], 1, 0) = table[t]
      <4>1. SubSeq(cache[t], 1, 0) = <<>>
        BY SubSeqEmpty
      <4> QED
        BY <2>1, <4>1, ConcatEmptySeq
    <3>2. 0 \in 0..Len(cache[t])
      BY <2>1
    <3>3. CASE close
      BY <3>1, <3>2, <3>3 DEF close
    <3>4. ASSUME NEW u \in Table, fail(u)
          PROVE  \E n \in 0..Len(cache[t]) : table'[t] = table[t] \o SubSeq(cache[t], 1, n)
      <4>1. PICK n \in 0..Len(cache[u]) :
              table' = [table EXCEPT ![u] = @ \o SubSeq(cache[u], 1, n)]
        BY <3>4 DEF fail
      <4> QED
        BY <2>1, <3>1, <3>2, <4>1
    <3> QED
      BY <3>3, <3>4
  <2> QED
    BY <2>1, <2>2, PrefixSurvives
<1> QED
  BY <1>1, <1>2, <1>3, <1>4 DEF Promise!Stop

\* Storing a row adds it to the log, wherever it goes.
LEMMA StoreRefines ==
  ASSUME IInv, phase = "open", NEW t \in Table, NEW row \in Row, store_row(t, row)
  PROVE  Promise!Add(t, row)
<1>1. /\ handed' = [handed EXCEPT ![t] = Append(@, row)]
      /\ phase' = phase /\ answer' = answer
  BY DEF store_row
<1>2. log = [u \in Table |-> handed[u]]
  BY LogIs
<1>3. log' = [u \in Table |-> handed'[u]]
  BY <1>1 DEF log
<1>4. handed \in [Table -> Seq(Row)]
  BY DEF IInv, TypeOK
<1>5. log' = [log EXCEPT ![t] = Append(@, row)]
  BY <1>1, <1>2, <1>3, <1>4
<1> QED
  BY <1>1, <1>5 DEF Promise!Add

\* Reading answers from the whole log and leaves it alone.
LEMMA GetRefines ==
  ASSUME IInv, MaxTime < HALF,
         NEW t \in Table, NEW d \in Dir_ids, NEW n \in Asked(t), get(t, d, n)
  PROVE  Promise!Ask(t, d, n) /\ n \in 0..MaxRows
<1>1. /\ phase = "open" /\ phase' = "open"
      /\ answer' \in Selected(t, handed[t], d, n) /\ n \in 0..MaxRows
  BY GetComplete
<1>2. handed' = handed
  BY DEF get
<1>3. handed[t] \in Seq(Row)
  BY DEF IInv, TypeOK
<1>4. answer' \in Owed(t, handed[t], d, n)
  BY <1>1, <1>3, SelectedIsOwed
<1>5. log = [u \in Table |-> handed[u]]
  BY <1>1, LogIs
<1>6. log' = [u \in Table |-> handed'[u]]
  BY <1>1 DEF log
<1>7. log' = log /\ log[t] = handed[t]
  BY <1>2, <1>5, <1>6
<1> QED
  BY <1>1, <1>4, <1>7 DEF Promise!Ask

LEMMA StepRefines ==
  ASSUME IInv, MaxTime < HALF, [Next]_vars
  PROVE  [Promise!Next]_<<log, answer, phase = "open">>
<1>1. CASE open
  <2>1. phase # "open" /\ phase' = "open" /\ answer' = answer
    BY <1>1 DEF open
  <2>2. log' = [t \in Table |-> <<>>]
    BY <1>1, <2>1 DEF log, open
  <2>3. Promise!Start
    BY <2>1, <2>2 DEF Promise!Start
  <2> QED
    BY <2>3 DEF Promise!Next
<1>2. CASE close \/ \E t \in Table : fail(t)
  BY <1>2, StopRefines DEF Promise!Next
<1>3. CASE tick \/ store_inter_arrival_times
  <2>1. phase = "open" /\ UNCHANGED <<phase, handed, answer>>
    BY <1>3 DEF tick, store_inter_arrival_times
  <2>2. log' = log
    BY <2>1 DEF log
  <2> QED
    BY <2>1, <2>2
<1>4. ASSUME NEW t \in Table, store(t)
      PROVE  Promise!Next
  <2>1. PICK d \in Dir_ids : store_row(t, [dir_id |-> d, time |-> now])
    BY <1>4 DEF store
  <2>2. phase = "open" /\ [dir_id |-> d, time |-> now] \in Row
    BY <1>4 DEF store, IInv, TypeOK, Row
  <2> QED
    BY <2>1, <2>2, StoreRefines DEF Promise!Next
<1>5. CASE store_next_time
  <2>1. /\ phase = "open" /\ pending # <<>> /\ "inter_arrival_time" \in Table
        /\ store_row("inter_arrival_time", Head(pending))
    BY <1>5 DEF store_next_time, IInv, PendingTimes
  <2>2. Head(pending) \in Row
    BY <2>1, HeadTailProperties DEF IInv, TypeOK
  <2> QED
    BY <2>1, <2>2, StoreRefines DEF Promise!Next
<1>6. ASSUME NEW t \in Table, NEW d \in Dir_ids, NEW n \in Asked(t), get(t, d, n)
      PROVE  Promise!Next
  BY <1>6, GetRefines DEF Promise!Next
<1>7. CASE UNCHANGED vars
  BY <1>7 DEF vars, log
<1> QED
  BY <1>1, <1>2, <1>3, <1>4, <1>5, <1>6, <1>7 DEF Next

\* Nobody sees the caches: as long as the times stay below half the clock, every
\* order of stores, reads, failures and runs is one of an append-only log per
\* table, answered from all its rows, that is emptied at a start and loses at most
\* a cache of its last rows at the end.
THEOREM PromiseKept ==
  ASSUME MaxTime < HALF
  PROVE  Spec => KeepsThePromise
<1>1. IInv /\ [Next]_vars => [Promise!Next]_<<log, answer, phase = "open">>
  BY StepRefines
<1> QED
  BY <1>1, TypeInit, StepInvariant, InitRefines, PTL DEF Spec, KeepsThePromise, Promise!Spec
===============================================================================
