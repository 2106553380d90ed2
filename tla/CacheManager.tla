----------------------------- MODULE CacheManager -----------------------------
(***************************************************************************)
(* The cache of inter-arrival times (src/CacheManager.cpp), with the table *)
(* it flushes to and fetches from.                                         *)
(*                                                                         *)
(* A direction's k-th packet adds its distance to each of the k - 1        *)
(* packets before it: the last distance, and that plus each distance of    *)
(* the packet before.  Those may have been flushed to the database, so the *)
(* cache fetches them back, in whatever order the reader returns them.     *)
(*                                                                         *)
(* A call of store takes several steps, since the flush is a loop: it      *)
(* counts an age byte down, which wraps, and tests the size of the cache   *)
(* only between two rounds.                                                *)
(*                                                                         *)
(* The table of module Database is seen through its readers: per direction *)
(* the log of the rows stored.  Memory is counted in words.  The vector is *)
(* libstdc++'s: it doubles its capacity when it is full, and shrink_vector *)
(* frees it.                                                               *)
(***************************************************************************)
EXTENDS TimeOffset, Sequences, FiniteSets, SequencesExt

CONSTANTS
  Dir_ids,      \* the directions of the trace
  Gaps,         \* microseconds between two packets of the trace
  MaxPackets,   \* bound: length of the trace
  ENTRY,        \* words of an empty vector object
  ONE_GiB,      \* words the cache may use
  SIZE_AFTER_FLUSH,  \* words it may still use after a flush
  AGE_MAX       \* largest value of an age byte (255)

ASSUME CacheAssumption ==
  /\ Gaps \subseteq Nat /\ MaxPackets \in Nat /\ AGE_MAX \in Nat
  /\ ENTRY \in Nat /\ ONE_GiB \in Nat /\ SIZE_AFTER_FLUSH \in 0..ONE_GiB
  /\ IsFiniteSet(Dir_ids)

\* flush_to_db only ends when empty vectors fit: up to some forty million
\* directions they do.
EmptyVectors == Cardinality(Dir_ids) * ENTRY
ASSUME EntriesFit == EmptyVectors <= SIZE_AFTER_FLUSH

VARIABLES
  inter_arrival_times,  \* direction -> [age, times, capacity], the std::map
  stored,     \* direction -> the times in the database, in the order they came
  arrivals,   \* direction -> capture times of its packets
  clock,      \* capture time of the latest packet
  phase,      \* "idle", or where the call of store is: "age", "flush", "add"
  id,         \* the direction it stores a time of
  oldest_age  \* the age byte of flush_to_db

vars == <<inter_arrival_times, stored, arrivals, clock, phase, id, oldest_age>>

Entry == [age : 0..AGE_MAX, times : Seq(Word), capacity : Nat]

TypeOK ==
  /\ DOMAIN inter_arrival_times \subseteq Dir_ids
  /\ inter_arrival_times \in [DOMAIN inter_arrival_times -> Entry]
  /\ stored \in [Dir_ids -> Seq(Word)]
  /\ arrivals \in [Dir_ids -> Seq(Nat)]
  /\ clock \in Nat
  /\ phase \in {"idle", "age", "flush", "add"}
  /\ phase # "idle" => id \in Dir_ids /\ Len(arrivals[id]) > 1
  /\ oldest_age \in 0..AGE_MAX

Init ==
  /\ inter_arrival_times = <<>>  \* the function of no direction
  /\ stored = [d \in Dir_ids |-> <<>>]
  /\ arrivals = [d \in Dir_ids |-> <<>>]
  /\ clock = 0
  /\ phase = "idle" /\ id = 0 /\ oldest_age = AGE_MAX

-----------------------------------------------------------------------------
(* FlowDirection::add_packet calls store for every packet of a direction but *)
(* its first.                                                                *)

add_packet(d, gap) ==
  /\ phase = "idle"
  /\ FoldSet(LAMBDA x, n : n + Len(arrivals[x]), 0, Dir_ids) < MaxPackets
  /\ clock' = clock + gap
  /\ arrivals' = [arrivals EXCEPT ![d] = Append(@, clock')]
  /\ IF arrivals[d] = <<>> THEN UNCHANGED <<phase, id>> ELSE phase' = "age" /\ id' = d
  /\ UNCHANGED <<inter_arrival_times, stored, oldest_age>>

-----------------------------------------------------------------------------
(* store ages the cache and measures it. *)

\* Mutant: the age is not kept within a byte.
update_age_byte_NoLimit(m) == [d \in DOMAIN m |-> [m[d] EXCEPT !.age = @ + 1]]

update_age_byte(m) ==
  [d \in DOMAIN m |-> [m[d] EXCEPT !.age = IF @ = AGE_MAX THEN @ ELSE @ + 1]]

real_size(m) ==
  FoldSet(LAMBDA d, size : size + ENTRY + m[d].capacity, 0, DOMAIN m)

begin ==
  /\ phase = "age"
  /\ inter_arrival_times' = update_age_byte(inter_arrival_times)
  /\ phase' = IF real_size(inter_arrival_times') > ONE_GiB THEN "flush" ELSE "add"
  /\ oldest_age' = AGE_MAX
  /\ UNCHANGED <<stored, arrivals, clock, id>>

-----------------------------------------------------------------------------
(* flush_to_db. *)

OfAge(m, age) == {d \in DOMAIN m : m[d].age = age}
Shrunk(m, D) ==
  [d \in DOMAIN m |->
     IF d \in D THEN [m[d] EXCEPT !.times = <<>>, !.capacity = 0] ELSE m[d]]

\* Mutant: the age is not counted down.
NextAge_Stays(age) == age

\* oldest_age-- of a byte.
NextAge(age) == (age - 1) % (AGE_MAX + 1)

round ==
  LET m == inter_arrival_times
      out == OfAge(m, oldest_age)
  IN  /\ phase = "flush"
      /\ real_size(m) > SIZE_AFTER_FLUSH
      /\ stored' =
           [d \in Dir_ids |-> IF d \in out THEN stored[d] \o m[d].times ELSE stored[d]]
      /\ inter_arrival_times' = Shrunk(m, out)
      /\ oldest_age' = NextAge(oldest_age)
      /\ UNCHANGED <<arrivals, clock, phase, id>>

\* Mutant: the loop ends after any round.
flushed_Early ==
  /\ phase = "flush"
  /\ phase' = "add"
  /\ UNCHANGED <<inter_arrival_times, stored, arrivals, clock, id, oldest_age>>

flushed ==
  /\ phase = "flush"
  /\ real_size(inter_arrival_times) <= SIZE_AFTER_FLUSH
  /\ phase' = "add"
  /\ UNCHANGED <<inter_arrival_times, stored, arrivals, clock, id, oldest_age>>

-----------------------------------------------------------------------------
(* store adds the times of the packet. *)

\* push_back, n times.
Grow(capacity, size, n) ==
  LET grown[i \in 0..n] ==
        IF i = 0 THEN capacity
        ELSE LET c == grown[i - 1]
             IN  IF size + i <= c THEN c ELSE IF c = 0 THEN 1 ELSE 2 * c
  IN  grown[n]

\* fetch_last_n: appended newest first.
fetch_last_n(times, db, n) ==
  times \o SubSeq(Reverse(db), 1, IF n < Len(db) THEN n ELSE Len(db))

\* The packet before and the packet whose times are stored.
new_time == LET a == arrivals[id] IN Minus(from_usec(a[Len(a)]), from_usec(a[Len(a) - 1]))

\* Mutant: what was fetched stays in the vector.
With_new_time_KeepsFetched(e, times, num_needed) ==
  LET size == Len(times)
      all == times \o [i \in 1..num_needed |-> Plus(new_time, times[size - num_needed + i])]
             \o <<new_time>>
  IN  [e EXCEPT !.times = all, !.capacity = Grow(@, Len(e.times), Len(all) - Len(e.times))]

\* The entry of a direction after a new time, given the times before it.
With_new_time(e, times, num_needed) ==
  LET size == Len(times)
      fetched == Len(times) > Len(e.times)
      added == [i \in 1..num_needed |-> Plus(new_time, times[size - num_needed + i])]
               \o <<new_time>>
      all == times \o added
  IN  [e EXCEPT
        !.times = IF fetched THEN SubSeq(all, num_needed + 1, Len(all)) ELSE all,
        !.capacity = Grow(@, Len(e.times), Len(all) - Len(e.times))]

NewEntry == [age |-> 0, times |-> <<>>, capacity |-> 0]

store ==
  LET m == inter_arrival_times
      num_needed == Len(arrivals[id]) - 2
      e == IF id \in DOMAIN m THEN m[id] ELSE NewEntry
      times == IF num_needed > Len(e.times)
               THEN fetch_last_n(e.times, stored[id], num_needed - Len(e.times))
               ELSE e.times
  IN  /\ phase = "add"
      /\ inter_arrival_times' =
           [d \in DOMAIN m \cup {id} |->
              IF d = id THEN With_new_time(e, times, num_needed) ELSE m[d]]
      /\ phase' = "idle"
      /\ UNCHANGED <<stored, arrivals, clock, id, oldest_age>>

Next ==
  \/ begin \/ round \/ flushed \/ store
  \/ \E d \in Dir_ids, gap \in Gaps : add_packet(d, gap)

\* The program's only thread stays with the loop it is in.
Spec == Init /\ [][Next]_vars /\ WF_vars(round \/ flushed)

-----------------------------------------------------------------------------
(* Properties. *)

\* The pairs of packets of a direction, and how far apart they were captured.
Pairs(d) == {p \in (DOMAIN arrivals[d]) \X (DOMAIN arrivals[d]) : p[1] < p[2]}
Apart(d, p) == arrivals[d][p[2]] - arrivals[d][p[1]]

\* Every time of a direction, wherever it is now.
Kept(d) ==
  stored[d] \o IF d \in DOMAIN inter_arrival_times
               THEN inter_arrival_times[d].times ELSE <<>>

\* The times of a direction, cached and stored, are the distances of all pairs of
\* its packets, each exactly once: no flush between two packets loses or doubles
\* one, although the next packet's times are computed from what was flushed.
EveryPairOnce ==
  phase = "idle" => \A d \in Dir_ids :
    /\ Len(Kept(d)) = Cardinality(Pairs(d))
    /\ \A p \in Pairs(d) :
         Cardinality({i \in DOMAIN Kept(d) : to_usec(Kept(d)[i]) = Apart(d, p)})
         = Cardinality({q \in Pairs(d) : Apart(d, q) = Apart(d, p)})

\* The cache exceeds its gigabyte by no more than one direction: the memory of
\* some direction aside, all fits.
FitsButForOne ==
  \/ inter_arrival_times = <<>>
  \/ \E d \in DOMAIN inter_arrival_times :
       LET m == inter_arrival_times
       IN  real_size([x \in DOMAIN m \ {d} |-> m[x]]) <= ONE_GiB

\* A flush ends, because empty vectors fit: before the age byte wraps, every direction
\* has been emptied.
FlushEnds == (phase = "flush") ~> (phase = "add")
===============================================================================
