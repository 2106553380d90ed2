------------------------------- MODULE Database -------------------------------
(***************************************************************************)
(* The results database: one write-behind cache per table in front of      *)
(* SQLite (src/Database.cpp, DatabaseWriter.cpp, DatabaseReader.cpp).      *)
(*                                                                         *)
(* A row keeps what the readers select and order by: its direction and its *)
(* time_offset.  SQLite is external: a table is the sequence of its rows   *)
(* in rowid order, and a reader gets the rows its statement selects, in an *)
(* order that satisfies its ORDER BY.  time_offset and time are bound with *)
(* sqlite3_bind_int, so SQLite compares them as signed numbers.            *)
(*                                                                         *)
(* The program that opens the database, fills it and closes it may be run  *)
(* again on the same file.  Any SQLite call may fail; the program then     *)
(* exits on the spot (macro DB, exit_with).                                *)
(***************************************************************************)
EXTENDS Naturals, Integers, Sequences, FiniteSets, SequencesExt

CONSTANTS
  Table,     \* subset of the four tables
  Capacity,  \* rows that fit into the cache of a table: page_size / sizeof(row)
  Dir_ids,   \* flow directions
  HALF,      \* half the range of a packed time (2^31)
  MaxTime,   \* bound: latest capture time
  MaxBatch,  \* bound: inter-arrival times flushed by one call
  MaxRows,   \* bound: rows stored in a run of the program
  MaxOpens   \* bound: runs of the program

ASSUME TableAssumption ==
  Table \subseteq {"packet", "rates", "rtt", "inter_arrival_time"}
ASSUME CapacityAssumption == Capacity \in [Table -> Nat \ {0}]
ASSUME BoundsAssumption ==
  /\ HALF \in Nat \ {0} /\ MaxTime \in 0..(2 * HALF - 1)
  /\ MaxBatch \in Nat \ {0} /\ MaxRows \in Nat /\ MaxOpens \in Nat

VARIABLES
  table,    \* what SQLite holds
  cache,    \* the rows of a table that were stored and not written
  indexed,  \* the file has the four indexes
  indexes_created,  \* the flag of that name
  phase,    \* "closed", "open", or "failed": the program has exited on an error
  pending,  \* inter-arrival times that store_inter_arrival_times has yet to store
  now,      \* time_offset of the latest packet
  opens,    \* runs of the program so far
  handed,   \* history: the rows this run has handed to the store calls of a table
  answer    \* the rows the latest reader got

vars == <<table, cache, indexed, indexes_created, phase, pending, now, opens, handed, answer>>

Row == [dir_id : Dir_ids, time : 0..MaxTime]

TypeOK ==
  /\ table \in [Table -> Seq(Row)]
  /\ cache \in [Table -> Seq(Row)]
  /\ \A t \in Table : Len(cache[t]) <= Capacity[t]  \* the vectors stay in their page
  /\ indexed \in BOOLEAN /\ indexes_created \in BOOLEAN
  /\ phase \in {"closed", "open", "failed"}
  /\ pending \in Seq(Row)
  /\ pending # <<>> => phase # "closed"
  /\ now \in 0..MaxTime
  /\ opens \in 0..MaxOpens
  /\ handed \in [Table -> Seq(Row)]
  /\ answer \in Seq(Row)

Init ==
  /\ table = [t \in Table |-> <<>>]
  /\ cache = [t \in Table |-> <<>>]
  /\ indexed = FALSE /\ indexes_created = FALSE
  /\ phase = "closed" /\ pending = <<>>
  /\ now = 0 /\ opens = 0
  /\ handed = [t \in Table |-> <<>>]
  /\ answer = <<>>

-----------------------------------------------------------------------------
(* Writing.  b is the pair of a table and its cache. *)

Buffer(t) == [table |-> table[t], cache |-> cache[t]]

\* Mutant: off by one.
is_full_Late(b, t) == Len(b.cache) > Capacity[t]

is_full(b, t) == Len(b.cache) = Capacity[t]

\* Mutant: the cache is written but not cleared.
write_cache_NotCleared(b) == [table |-> b.table \o b.cache, cache |-> b.cache]

write_cache(b) == [table |-> b.table \o b.cache, cache |-> <<>>]
push_back(b, row) == [b EXCEPT !.cache = Append(@, row)]

\* Mutant: the row that finds the cache full is forgotten.
Put_DropsRow(b, row, t) == IF is_full(b, t) THEN write_cache(b) ELSE push_back(b, row)

\* One row into the cache, which is written out first if it is full.
Put(b, row, t) == push_back(IF is_full(b, t) THEN write_cache(b) ELSE b, row)

SetBuffer(t, b) ==
  /\ table' = [table EXCEPT ![t] = b.table]
  /\ cache' = [cache EXCEPT ![t] = b.cache]

\* The bound on a run: rows handed over so far, and n more.
Room(n) == FoldSet(LAMBDA t, sum : sum + Len(handed[t]), n, Table) <= MaxRows

store_row(t, row) ==
  /\ handed' = [handed EXCEPT ![t] = Append(@, row)]
  /\ SetBuffer(t, Put(Buffer(t), row, t))
  /\ UNCHANGED <<indexed, indexes_created, phase, now, opens, answer>>

\* store_packet, store_rates and store_RTT: one row, of the packet at hand.
store(t) ==
  /\ phase = "open" /\ pending = <<>>
  /\ t # "inter_arrival_time"
  /\ Room(1)
  /\ \E d \in Dir_ids : store_row(t, [dir_id |-> d, time |-> now])
  /\ UNCHANGED pending

\* store_inter_arrival_times is called with the times of one direction, which are
\* durations and come in any order, and stores them one after the other.
Batches ==
  {rows \in UNION {[1..n -> Row] : n \in 1..MaxBatch} :
     \A i \in DOMAIN rows : rows[i].dir_id = rows[1].dir_id}

store_inter_arrival_times ==
  /\ phase = "open" /\ pending = <<>>
  /\ "inter_arrival_time" \in Table
  /\ \E rows \in Batches : Room(Len(rows)) /\ pending' = rows
  /\ UNCHANGED <<table, cache, indexed, indexes_created, phase, now, opens, handed, answer>>

store_next_time ==
  /\ phase = "open" /\ pending # <<>>
  /\ store_row("inter_arrival_time", Head(pending))
  /\ pending' = Tail(pending)

-----------------------------------------------------------------------------
(* Reading. *)

\* The value SQLite orders by.
Signed(time) == IF time < HALF THEN time ELSE time - 2 * HALF

\* The places of the rows of a direction.
OfDir(s, d) == {i \in 1..Len(s) : s[i].dir_id = d}

\* What a statement with ORDER BY key may return: the rows in an order of the key.
OrderedBy(s, d, key(_)) ==
  LET n == Cardinality(OfDir(s, d))
  IN  {q \in {[k \in 1..n |-> s[p[k]]] : p \in {f \in [1..n -> OfDir(s, d)] : IsInjective(f)}} :
         \A j, k \in 1..n : j < k => key(q[j]) <= key(q[k])}

\* What ORDER BY _rowid_ DESC LIMIT limit returns: the last rows, the latest first.
LatestFirst(s, d, limit) ==
  LET all == Cardinality(OfDir(s, d))
      n == IF limit < all THEN limit ELSE all
  IN  {[k \in 1..n |-> s[p[k]]] :
         p \in {f \in [1..n -> OfDir(s, d)] :
                  /\ \A j, k \in 1..n : j < k => f[j] > f[k]
                  /\ \A i \in OfDir(s, d) \ Range(f), k \in 1..n : i < f[k]}}

\* What the SELECT of a table returns for direction d.
Selected(t, s, d, n) ==
  IF t = "inter_arrival_time" THEN LatestFirst(s, d, n)
  ELSE OrderedBy(s, d, LAMBDA r : Signed(r.time))

\* CREATE INDEX fails on an index that is there, and the program exits.
IndexError == ~indexes_created /\ indexed

\* get_packets, get_rates, get_RTTs, get_inter_arrival_times (no limit) and
\* fetch_last_n: create the indexes once, write the cache, read the table.
get(t, d, n) ==
  /\ phase = "open" /\ pending = <<>>
  /\ IF IndexError
     THEN phase' = "failed" /\ UNCHANGED <<indexed, indexes_created, table, cache, answer>>
     ELSE /\ indexed' = TRUE /\ indexes_created' = TRUE
          /\ SetBuffer(t, write_cache(Buffer(t)))
          /\ answer' \in Selected(t, table'[t], d, n)
          /\ UNCHANGED phase
  /\ UNCHANGED <<pending, now, opens, handed>>

Asked(t) == IF t = "inter_arrival_time" THEN 1..MaxRows ELSE {MaxRows}

-----------------------------------------------------------------------------
(* The life of the program. *)

\* Mutant: the tables of the last run are emptied instead of dropped.
open_DeletesRows ==
  /\ phase # "open"
  /\ opens < MaxOpens
  /\ opens' = opens + 1
  /\ table' = [t \in Table |-> <<>>]
  /\ cache' = [t \in Table |-> <<>>]
  /\ indexes_created' = FALSE
  /\ phase' = "open" /\ pending' = <<>>
  /\ now' = 0
  /\ handed' = [t \in Table |-> <<>>]
  /\ UNCHANGED <<indexed, answer>>

\* DROP TABLE takes the index of a table with it.  The flag and the caches are
\* those of a new process.
open ==
  /\ phase # "open"
  /\ opens < MaxOpens
  /\ opens' = opens + 1
  /\ table' = [t \in Table |-> <<>>]
  /\ cache' = [t \in Table |-> <<>>]
  /\ indexed' = FALSE /\ indexes_created' = FALSE
  /\ phase' = "open" /\ pending' = <<>>
  /\ now' = 0
  /\ handed' = [t \in Table |-> <<>>]
  /\ UNCHANGED answer

\* close finalizes the statements and the connection, and nothing else.  What is
\* in the caches then goes with the process; cache keeps it here, to show it.
close ==
  /\ phase = "open" /\ pending = <<>>
  /\ phase' = "closed"
  /\ UNCHANGED <<table, cache, indexed, indexes_created, pending, now, opens, handed, answer>>

\* A call to SQLite fails: in write_cache of table t, which a store calls when the
\* cache is full and a reader at any time, or elsewhere (nothing more is written).
\* With journal_mode = OFF nothing is rolled back: some of the rows of the
\* transaction stay.
fail(t) ==
  /\ phase = "open"
  /\ pending # <<>> => t = "inter_arrival_time" /\ is_full(Buffer(t), t)
  /\ \E n \in 0..Len(cache[t]) :
       table' = [table EXCEPT ![t] = @ \o SubSeq(cache[t], 1, n)]
  /\ phase' = "failed"
  /\ UNCHANGED <<cache, indexed, indexes_created, pending, now, opens, handed, answer>>

\* The next packet of the trace is later by a tick.
tick ==
  /\ phase = "open" /\ pending = <<>>
  /\ now < MaxTime
  /\ now' = now + 1
  /\ UNCHANGED <<table, cache, indexed, indexes_created, phase, pending, opens, handed, answer>>

Next ==
  \/ open \/ close \/ tick
  \/ store_inter_arrival_times \/ store_next_time
  \/ \E t \in Table :
       \/ store(t) \/ fail(t)
       \/ \E d \in Dir_ids, n \in Asked(t) : get(t, d, n)

Spec == Init /\ [][Next]_vars

-----------------------------------------------------------------------------
(* Properties. *)

\* The log of a table: while the program runs, every row handed over, wherever it
\* is; then what is in the file.
log == [t \in Table |-> IF phase = "open" THEN handed[t] ELSE table[t]]

\* What a reader is owed: the rows of the direction in the order of their capture
\* times; for inter-arrival times the latest n, newest first.
Owed(t, s, d, n) ==
  IF t = "inter_arrival_time" THEN LatestFirst(s, d, n)
  ELSE OrderedBy(s, d, LAMBDA r : r.time)

Promise == INSTANCE RowLog WITH
  running <- (phase = "open"),
  Answers <- Owed,
  Limits <- 0..MaxRows,
  MaxLost <- Capacity

\* The caches are invisible: whatever the order of stores and reads, a reader gets
\* exactly the rows stored so far, in order, and a run of the program that ends
\* or gives up, also within a call, leaves a beginning of each log behind, short of
\* at most what its cache holds (Database.cpp, "flush the cache (if needed) before
\* reading").
KeepsThePromise == Promise!Spec

\* A second run of the program on the same file does not trip over the indexes of
\* the first: the flag tells whether CREATE INDEX would fail.
FlagMatchesFile == phase = "open" => (indexes_created <=> indexed)

\* "The data stored are those needed to plot various things" (Database.cpp), in a
\* "database file for storing data" (CmdLineParser.cpp): once the database is
\* closed, every row stored is in the file.
AllWrittenAtClose == phase = "closed" => table = handed

===============================================================================
