# TLA+ models of tcp-analysis-tool

tcp-analysis-tool reads packet traces, sorts the TCP packets into conversations,
and writes packets, rates and inter-arrival times of each direction into a SQLite
database. These modules model its own logic (`src/src`, `src/include`); the
vendored SQLite and TCLAP, and libpcap, are taken from how they are used.

    CmdLineParser --> usr_opt
                        |
    traces --> read_trace --> process_packet --> FlowMap --> Flow (state) --> FlowDirection --+--> Database --> SQLite
              (PCapReader)  (IpData, TcpData)    FiveTuple                    TimeOffset      |       ^
                                                                                              +--> CacheManager

The program is one thread with no callbacks into itself: `pcap_dispatch` calls
`process_packet` for each packet, and each call runs to its end. What varies is
the command line, the traces, the failures of libpcap and SQLite, and how often the
program is run on the same file. So a step of a model is a call, or one turn of a
loop whose end is in question, and the nondeterminism is in what comes in.

## Inventory

| Component | State | Operations | What is hard | What makes it correct |
|---|---|---|---|---|
| FiveTuple | - | reverse, operator< | the key is unseparated text | different connections have different keys |
| Flow, FlowState | state, SYNs seen, last packet time | handle_packet in six states, add_packet | tuples reused, half-open and half-closed flows, any order of flags, idle flows | handshakes never mix, ends are final, idle flows hang up |
| FlowMap | map from tuple to flows, currentTuple | map_to_flow, try_new_flow | ids and rows spent before a flow is kept; direction read from a global | every row belongs to one kept flow, in the right direction |
| FlowDirection | counters, latest sample | add_packet, take_sample | samples taken late, idle periods | each byte in one sample, one row per period |
| TimeOffset | one packed word | + - / * < | carries and borrows at different limits, wrap | arithmetic agrees with time |
| CacheManager | map from direction to times | store, flush, fetch | times needed again after they were flushed; a flush that counts an age down | every pair of packets timed once, memory bounded, the flush ends |
| Database | four caches, SQLite file, index flag | open, store_*, get_*, fetch_last_n, close | write-behind, failures without journal, second runs | readers see every row in order; what is left is a prefix |
| PCapReader, IpData, Stats | start time, counters, packets left to read | read_trace, process_packet | one count over several traces, fragments, short captures, traces out of order | as much is read as asked for, offsets tell elapsed time |
| TcpData | options, position in them | option loop | truncated and malformed options | the loop ends; what is reported was captured |
| TimeStamp | - | comparison | modulo 2^32 | the later timestamp is the greater |
| CmdLineParser | options | parse_count, parse_timeout, check_args | units, widths, absent traces | options are what was asked for |
| main, test main | all of the above | open, read, test, close | failures anywhere; reading back while writing behind | the file is a beginning of what the map stored |

Components interact by direct calls and by globals: `flow_map`, `currentTuple`,
`db`, `cache_manager`, `usr_opt`, `stats`, `global_dir_id`, `capture_start_time`.

## Modules

**FiveTuple** - the tuple, its reverse and `to_string`, the text `operator<`
compares. An address is an opaque token (always four bytes); ports keep their
decimal digits, since the missing separator is what can make two keys equal.

**Flow** - `Flow::handle_packet` and the six states. The code mutates the flow and
returns a decision; here a handler returns the record `[decision, flow]`.
`Dir_A_Closed` and `Dir_B_Closed` are one operator with the closed direction as a
parameter. Time is in ticks, of which the packed clock tells `WRAP` apart.

**FlowMap** - the component's state machine. `internal_map` is the `std::map`, with
keys up to equality of their text, as the code finds them. One packet is one step:
`DeliverToLast` (the latest flow keeps or drops it), `RetryAsNew` (it refuses, so
`try_new_flow` runs) or `FirstOfTuple`. `packet_table` is what
`FlowDirection::add_packet` hands to the database, `now` the capture time, both
unbounded in the proofs. `currentTuple` is set before it is read in every call, so
it is an operator and not a variable.

**ConversationLog** - what the flow map owes whoever reads the database, without
states, ids or texts: the packets that are stored are divided into conversations,
sets of places in the packet table; a connection has its conversations one after the
other, and only the latest of them may still take packets. `Promise` in FlowMap maps
it: the conversations are the rows found by the ids of each flow, a conversation is
over when its flow is closed, and their number is the `num_flows` that is reported.

**TimeOffset** - the packed word with its seconds and microseconds, constructors
that shift and or (a negative microsecond fills the seconds), and the operators.
The widths are constants; the assumptions keep what matters: the microseconds of
the word hold more than one second and less than two.

**FlowDirection** - rate sampling, over TimeOffset: `sample` is
`check_if_time_for_rate_sample` with `take_sample`.

**CacheManager** - the cache of inter-arrival times with vector capacities and age
bytes. `store` is cut where its loop is: `age` counts the age byte down, `flush`
empties one direction of that age, `add` puts the new time in, so that whether
`flush_to_db` ends is a question about the model. The database is seen through
what its module promises, per direction the log of rows stored.

**RowLog** - what the database owes the program: an append-only log per table,
answered in order, emptied by `open`, and cut to a prefix when the program stops.

**Database** - the caches, the file, the index flag, and the calls, with a run of
the program following another on the same file. `fail` stops the program inside a
call: in the middle of `write_cache` a part of the cache is in the file, since the
journal is off. `Promise` maps it to RowLog: while the program runs the log is
`handed`, a history of the rows passed to the store calls, so that a reader's answer
must show all of them; when it has stopped, the log is the file. SQLite is external:
a table is the sequence of its rows, and a reader gets any order that satisfies its
`ORDER BY`.

**TraceReader** - the loop over the traces in `main`, `read_trace`, and
`process_packet` with the filtering by capture length, version and fragment offset,
the statistics, the start time, and the subtraction that gives a packet its offset.
`num_pkts_to_read` is the shared budget, `cnt` its conversion to the `int` of
`pcap_dispatch`. libpcap is external: a file is the number of its packets still
unread, and what they hold is chosen when they are read. `captured` and `handed` are
histories of what came in and what went on to the flow map.

**TcpData** - `extract_tcp_options`, one turn of the loop per step, over a segment
given by its options and cut by the capture at any byte; then what the accessors of
`Packet` and `tcp_options_to_str` make of the result. A field of `TcpOptions` that was
never written holds any junk value.

**TimeStamp** - construction and comparison modulo the range; operators only, as the
program constructs timestamps and does not compare them yet.

**CmdLineParser** - the parse of each option with its unit and its width, and
`check_args`. The arithmetic limits are constants (`U16`, `INT_MAX`, `U64`, `EXACT`, `SECS`).
The loops over a letter's units run at most four times and are written out (`by_1e3`, `by_60`).
`count *= 1e3` is a product of doubles: beyond `EXACT` it is rounded to the nearest one, and
if it does not fit a `u64`, its conversion is undefined and the count is any. stoul and stoi
take negative numbers, which wrap.

**TcpAnalysisTool** - the whole run: TraceReader, FlowMap and Database as instances
under the names of the program's objects. A packet is read, mapped to its flow and
stored in one step, as in the code; opening, closing, the steps of the loop over the
traces and the failures of each are the others. `WRAP` is the packed clock as FlowMap
sees it, all the microseconds that `SECS` and `USECS` leave, and twice `HALF`.

**TestTool** - the test build over the same run: `compare_with_tcpdump` after each
trace and, at the end, `test_db_values`, a direction at a time. `test_packets` is the global
of that name, which `add_packet` fills beside the database and the test compares with.

**MC modules** give the constants their values. Operators named `X_Something`
beside an `X` and commented "Mutant" are broken variants of `X`; nothing uses them,
and replacing `X` by one shows that a property notices.

**_proofs modules** hold the theorems: FlowMap (with Flow, the flow map against its
abstraction, and the history of a flow), Database, TcpData (with TimeStamp),
FlowDirection, TraceReader and CacheManager; Program (the command line and both programs)
builds on FlowMap; Arithmetic has what TcpData and the last four need of the packed clock
and of sums.

## Runs

| Run | Checks | Bounds, and why they are enough |
|---|---|---|
| flow_trace | TypeOK, BackIsDefined, DirIdsUnique, RowsMatchCounters, DirectionsMatch, HandshakeFirst, ResetIsFinal, FinsInARowClose, IdleFlowsHangUp, SupersededFlowsEnded, EndedFlowsFrozen, KeepsThePromise (of ConversationLog) | two connections between the same hosts, 4 packets of 11 kinds (every combination a handler distinguishes), gaps of 1 and 3 ticks around a timeout of 2 on a clock of 4: every state is entered and left, flows follow each other, dropped packets have spent ids, sums pass the wrap |
| database_log | TypeOK, FlagMatchesFile, KeepsThePromise (of RowLog) | tables `packet` (cache of 1) and `inter_arrival_time` (cache of 2), batches of 2, 3 rows, 2 runs of the program, two times: caches fill within a call and between calls; the other two tables are handled by the same code shape as `packet` |
| rates_seconds | RowPerPeriod, BytesAccounted | second of 5 ticks in a word of 8, clock of 4 s, period of 2 s, 5 packets, gaps within and across periods and idle ones |
| cache_pairs | TypeOK, EveryPairOnce, FitsButForOne, FlushEnds | two directions, 8 packets, a limit of five words: overflows from the third packet of a direction on, so times are fetched back again and again; ages up to 4 saturate and wrap in the loop |
| trace_reads | CountObeyed, ReadsAsAsked, StatsComplete, OffsetsTellElapsedTime, OffsetsFromFirstPacket, PrintedWhenCaptured | three traces of up to two packets with a count of 3: the budget ends inside, at the end of, and after a trace; headers for each test of process_packet; times in any order, zero among them, on a clock that wraps |
| cmdline_args | CountAsAsked, TimeoutAsAsked | counts and timeouts around each limit, with each unit, none and a wrong one, negative and unreadable ones, and every combination of files that exist or not; the timeout has the program's widths, while for counts a thousand is 3, a double is exact up to 128 and a `u64` ends at 256, so that products are exact, rounded and undefined in few steps |
| tcp_options | TypeOK, PrintedAsSent, TimestampsKnown, CompleteUnlessTruncated, Progress, LoopEnds | option lists as senders send them: any two options of known and unknown kinds (19, 30, 254) and some longer lists, padded, cut at every byte; longer ones are left to the theorems, malformed ones to TypeCorrect and LoopProgresses |
| test_run | CountersMatchFile, DatabaseTestPasses, DifferencesExplained, FileFollowsMap, TestEnds | two traces of up to two packets, count 3, a cache of one row, failures anywhere, capture times within half of the clock, beyond half of it, and beyond all of it |
| flow_same_text | DirectionsMatch is violated | finding 1 |
| database_close | AllWrittenAtClose is violated | finding 2 |
| rates_fifth | RowPerPeriod is violated | finding 3 |
| tool_read_run | ReadRunKeepsData is violated | finding 4 |

`CHECK_DEADLOCK FALSE` in the configurations says only that the program ends, or
that the model stops at its bounds.

The limits of the cache scale down the gigabyte; the gaps of cache_pairs have
fractions whose sums overflow the word's microseconds but never reach two seconds'
worth, where `operator+` would lose a second (finding 3 is about the same carry).

### Fairness and liveness

TraceReader, TcpData, CacheManager, TcpAnalysisTool and TestTool state weak fairness.
The program is one thread that waits for nobody: there is no lock, no other process
and no input that may fail to come, so as long as it can take its next step it takes
it, and `WF_vars(Next)` says no more than that. In CacheManager the fairness is only
of the rounds within a call of `store`; whether another packet comes is up to the
trace. The liveness properties ask whether the loops end, which is not clear from
reading them:

* `FlushEnds` - the age counted down in `flush_to_db` is a byte that wraps, and the
  loop's condition is on the size of the whole cache;
* `LoopEnds` - the option loop advances by a length taken from the packet;
* `TestEnds` - the whole test run, over all traces and directions.

### What the violations show

1. *Two connections, one key* (`FiveTuple.cpp:15`). Port pairs 1, 12 and 11, 2
   print alike, so `Packet.cpp:89-90`, "each tuple is included only once in map, it
   follows that all packets seen will have either the direction of the tuple (dirA)
   or the opposite", is not so. `DirectionsAlwaysMatch` proves that this is the only way.
2. *Rows lost at close* (`Database.cpp:44`). `flush_caches` exists and is called
   nowhere, so the last rows of each table never reach the "database file for storing data".
3. *Unnormalised times* (`TimeOffset.cpp:57`). With the default 200 ms,
   `last_sample_t` reaches 1000000 us without a carry; the next subtraction goes
   wrong, by wrapping, and the direction does not get one row per period.
4. *A read run drops what it should read* (`CmdLineParser.cpp:125`, `Database.cpp:16`).
   Without traces the program is to read a database, and `db.open` drops the tables
   of the file before anything is read.

### Conditions that stand for deviations

Some properties and theorems hold only under a condition that the code does not
establish. Each condition marks a place where the program departs from what one
would expect of it:

| Condition | Where | What happens without it |
|---|---|---|
| `FinsInARowClose`: no packet between the two FINs | `FlowState.cpp:181` | `handle_regular_pkts` sets ESTABLISHED "either way", and the flow stays half closed |
| `WithinHalf`, `NoneNegative`, and the assumption of the database's `PromiseKept` on times | `DatabaseWriter.cpp:50` | times from 2048 s on are stored negative, and sort first |
| `WithinHalf` again | `TimeOffset.h:14` | a trace longer than the clock is stored with times that start again at 0, and read back in that order |
| `count < INT_HALF` in `ReadsAsAsked`, `CountAlwaysObeyed`, `DifferencesExplained` and `FileAlwaysFollowsMap` | `PCapReader.cpp:62` | the count becomes a negative or a smaller `int` |
| `StartIsSet` | `PCapReader.cpp:116` | a first packet at time zero does not set the start |
| `WholeSeconds` in `RowForEachPeriod` | `TimeOffset.cpp:57` | finding 3: `operator+` misses carries |
| `SumsFit` in `EveryPairAlwaysOnce`, `CoarseClock` in `CoarseTimesAlwaysOnce` | `TimeOffset.cpp:57` | the same missed carries: a time between two packets that are kept can be a second short, and the times of later packets with it |
| `WithinATurn` in the same | `TimeOffset.h:14` | from 4096 s on, the times between two packets of a direction start again at 0 |
| less than half the range apart in `StampsFollowClock` | `TimeStamp.cpp:10-20` | exactly half apart, each stamp is less than the other (`LessBothWaysAtHalf`) |
| `AskedCount <= EXACT` in `CountAsAsked`, unless there is no letter | `CmdLineParser.cpp:85` | the product is computed in `double`: rounded above 2^53, undefined from 2^64 on |
| no negative number in `CountAsAsked` and `TimeoutAsAsked` | `CmdLineParser.cpp:72`, `:99` | stoul and stoi take it, and it wraps: `-c -1` is 2^64 - 1 packets |
| modulo `SECS` in `TimeoutAsAsked` | `CmdLineParser.cpp:112` | a timeout of 4096 s or more loses its upper bits |
| the exception in `DifferencesExplained` | `common_debug.cpp:31` | tcpdump is given the whole count for each trace, so differences are reported that are none |
| `AsSent` in `OptionsPrintedAsSent` and its companions | `TcpData.cpp:54-97` | a kind with one place in `TcpOptions`, sent twice, is printed twice with its last value; a value of the wrong length puts the loop at a byte where no option begins |
| an unknown option of length 0 in `Progress` | `TcpData.cpp:95` | the position stays where it is, and the loop does not end |

Others are outside the properties: a rate of 0 ms divides by zero
(`FlowDirection.cpp:49`); the test of inter-arrival times compares with a map that
nothing fills (`common_debug.cpp:20,61`); and the inter-arrival times still cached
at the end are not written (`CacheManager.cpp:20`), like the rows of finding 2.

## Proofs

The theorems hold for all constants that satisfy the named assumptions of the
modules, and for traces of every length.

**The flow map** (`FlowMap_proofs`)

* `TypeCorrect`, `BackAlwaysDefined`. The inductive invariant is
  `IInv == TypeOK /\ BackIsDefined`: the type of the latest flow of an entry only
  follows when the entry has a flow, so neither is inductive without the other.
* `StepEffect` is the lemma the others rest on. Whatever the flags and states, one
  packet either leaves the map alone or grows the flows of one tuple: the earlier
  flows stay, the latest may change but keeps its ids, a closed one does not
  change at all, and a new one may follow with the next two ids if the latest has
  ended. Its proof has one lemma per action (`DeliverEffect`, `RetryEffect`,
  `FirstEffect`), over lemmas on the handlers of a flow.
* `EndedFlowsAlwaysFrozen`, `SupersededAlwaysEnded` and `DirIdsAlwaysUnique` follow
  from the effect.
* `RowsAlwaysMatchCounters` rests on a second account of a step, `RowTaken`: either
  no row is written and nothing stored is said, or one row is written and the one flow
  that has its id, old or fresh, has taken it, in the state its handler gives; `RowCounted`
  is what it means for the counters. With unique ids no other flow gains the
  row, and a fresh flow starts with none. No assumption on the tuples is needed.
* `HandshakeAlwaysFirst`, `ResetAlwaysFinal`, `FinsInARowAlwaysClose` and
  `IdleFlowsAlwaysHangUp` speak of the order of a flow's rows, of
  which the flow itself keeps very little. The invariant `HInv` says what: `Remembers`
  ties the state, the SYNs seen and the time of the last packet to the flow's rows (a flow in
  OPENING has one row, a plain SYN in the direction it has noted; a flow whose latest row
  is a FIN is closed, or half closed in that direction), and the four properties are
  carried along in a form that also says where the latest row is. One lemma
  (`PastOfStored`) has the step that matters, a flow that takes a row, handler by handler.
* `PromiseKept`: the flow map implements ConversationLog, if
  `KeysDistinct(Oriented)`. The invariant `CInv` adds to the ones above that a
  connection is in the map under one name only (`OneName`), and that a kept flow has
  its first packet (`FlowsBegun`), so that a conversation is counted when it begins
  and at no other step. Each action is shown to continue, begin or end a conversation
  or to change nothing that can be seen (`DeliverRefines`, `RetryRefines`, `FirstRefines`).
* `DirectionsAlwaysMatch` assumes `KeysDistinct(Oriented)`: no two tuples of the trace,
  in either orientation, print alike. It is proved with `RowsBelow` (every row's id has been
  given out): a new flow's ids then match no old row.

**The database** (`Database_proofs`) - `TypeCorrect` and `FlagAlwaysMatches` by
induction, and `PromiseKept`: every step of the database with its caches is a step of
RowLog or leaves it alone. The invariant behind it is that file and cache together
are what was handed over; a reader gets the file, after writing the cache, in an order
that is the order of storing as long as times are below half the clock.

**The rates** (`FlowDirection_proofs`)

* `AllBytesAccounted` holds for every rate and clock, also where samples go wrong: the
  invariant `Counted` is `BytesAccounted` before rounding. What is in the rows, times the rate,
  is at most what was carried less what is still counted, and short of it by less than
  the rate for each row that can have rounded anything off.
* `RowForEachPeriod` assumes `WholeSeconds`: a rate without a fraction of a second, and a
  clock that does not turn within a gap and a period. Finding 3 is what happens at the default
  rate, so the first half cannot be dropped. The property says how many rows there are; what is
  inductive is where they end: `SampledInv` says that `last_sample_t` is the packed
  time so many periods after the first packet, and that the clock is in the period that follows.

**The cache** (`CacheManager_proofs`)

* EveryPairOnce only counts: as many times of each distance as pairs. That is not inductive,
  since what the next packet adds depends on *which* times are the last ones. The
  invariant `PairsTimed` gives every place of `Kept(d)`, the times stored followed by those cached,
  a pair of packets (`Matches`): no pair twice, none left out, and the last places those of the
  latest packet, which the next packet's times are computed from. With it goes
  `LatestTogether`: of the latest packet's times all are in the cache or none, so that
  `fetch_last_n` into an empty vector fetches just these. They come back newest first, and the
  sources of the new times are then in the reverse order (`FetchedTimes`) of that of cached
  ones (`CachedTimes`), which only a correspondence of places can tell.
* A round of the flush moves times from the one side of `Kept(d)` to the other (`OnlyMoves`),
  and a `store` appends the new packet's (`StoreEffect`); `MatchesGrow` extends the
  correspondence to them. `TypeCorrect` and `NoTimeLostOrDoubled` follow for every trace. Counting is
  left to the end: the correspondence is a bijection (`AsMany`).
* `EveryPairAlwaysOnce` adds that the times are right (`Right`). It needs `SumsFit`, since `operator+`
  misses carries (finding 3): a sum with two seconds' worth of microseconds comes out a second short.
  `CoarseTimesAlwaysOnce` has instead a condition on the capture: all its times are multiples of
  some `u` of which the bits that the microseconds have to spare hold at most one (a twentieth
  of a second does); the run `cache_pairs` has `u = 2`.
* `FitsAlwaysButForOne`: when a time is added, everything fits (`FitsInv`), and without the
  direction that grows the cache is no larger than before (`NoLarger`).

**Sums** (`Arithmetic_proofs`) - the properties of bytes are sums over any number of
packets, and the folds of the community modules, through which they are written, are
choices of a function defined by recursion on sets. `FoldIsSum` shows that such a fold is *the* sum
of its values: there is exactly one function that takes elements out one by one
(`TakerExists`, `SumIsUnique`), whatever element comes first. The inductions are on a set
of numbers, `NatSet`, since the theorems of the library that take a predicate cannot
be used with the provers at hand. The size of the cache is a sum in the same way (`RealSizeIsSum`),
and so are the offset of an option in its segment and the place of an unknown one's value.

**TCP options** (`TcpData_proofs`)

* `TypeCorrect` and `LoopProgresses` hold for segments of any kind, also malformed and
  truncated ones. The invariant `InStep` says that `raw_data` and `bytes_left` move together.
* `OptionsPrintedAsSent`, `TimestampsAreKnown` and `CompleteIfNotTruncated` are about
  segments as a sender may send them, with any number of options of any kinds, cut anywhere:
  `AsSent` says that the bytes are those of the options, padded to the length the header
  tells, each value with the numbers its kind has, and none of the four kinds with a value
  twice. TLC checks that it is true of the segments of tcp_options (`SegmentsAsSent`).
  PrintedAsSent speaks of the end of the loop only. What is inductive is `SoFar`, that the
  loop is at the beginning of an option and has listed those before it, and `ValuesKept`,
  that each of these would be printed as it was captured. The proof has a lemma for the
  turns that keep no value (`EmptyTurn`), for those that keep a whole one (`FullTurn`), and
  for the two that may keep a part (`SackTurn`, `UnknownTurn`); `TurnLeaves` is why later
  turns leave what was kept: the kinds that share a field, the unknown ones, have
  their values there one behind the other, the place of each a sum of lengths.

**TCP timestamps** (`TcpData_proofs`) - `StampsFollowClock` for clocks less than
half the range apart, across any number of wraps, and `LessBothWaysAtHalf`, that the
condition cannot be dropped.

**Packed time** (`Arithmetic_proofs`) - `MinusIsExact`: the difference of two packed
times is the packed difference of the times, wherever the borrow and the turns of
the clock fall. It rests on `DivModUnique`, that quotient and remainder are the only
pair of their kind, so that a word is known by its seconds and microseconds.

**The trace reader** (`TraceReader_proofs`) - `CountAlwaysObeyed` for counts that fit
an `int`. CountObeyed says nothing of what is left of the budget; the invariant
`BudgetInv` does: between calls the packets counted and `num_pkts_to_read` add up to
the count, and within a call of `pcap_dispatch` they do so short of the `n` packets
of the call. `OffsetsAlwaysFromFirstPacket`, `OffsetsAlwaysTellElapsedTime` and
`AlwaysPrintedWhenCaptured` follow from `StartInv` (once a packet is kept, the start
time is that of the first, unless that was zero) and `MinusIsExact`.

`AlwaysReadsAsAsked` needs more than the budget: `DrainedInv` says that the traces before
the current one are empty unless the budget is spent, and that what was in a trace is what
is left in it and what was read from it. `StatsAlwaysComplete` has as its invariant that the
statistics are the sums (`IsSum`) over the packets seen so far.

**The command line** (`Program_proofs`) - `CountAlwaysAsAsked` and `TimeoutAlwaysAsAsked`, for
every letter and every number that is not negative. Both rest on no factor being larger than the
product, unless the product is 0. If a double holds the count asked for, it holds every
product on the way, and none is rounded (`ProductExact`, `ProductGrows`). The timeout is cut to 16 bits before
and after each product, which changes nothing if the last product fits (`CutOnce`, `CutTwice`).

**The programs** (`Program_proofs`) - theorems about the whole test build, which contains
the program. They assume `ToolAssumption` (a cache of at least one row, a clock of
`SECS * USECS` microseconds that has a half) and `PartsAssumption`, what the parts assume
(capture times are numbers; a tuple is what the constructor of FiveTuple makes).

* `CountersAlwaysMatchFile`, and `ProgramCountersMatchFile` of the program alone. The flow map
  inside the program (`flow_map`) is the one of FlowMap_proofs (`Map`, by the lemmas `Same...`), so that a packet has the effect
  `RowTaken` there too. The invariant `ToolInv` carries the flow map's own (`MapInv`), and
  `TableHolds`: as long as nothing failed, file and cache in that order are the rows of the flow
  map, column by column. A reader's early
  `write_cache` moves the boundary and nothing else. Counting rows is left to the end (`HoldsIsMatch`).
* `DatabaseTestAlwaysPasses`. A reader gets the rows of a direction in any order that ascends in
  their *signed packed* times; that it is the order in which they were stored needs these times to ascend
  with the places of the rows. The invariant `TestInv` adds to `ToolInv`:
  `ExpectedInv`, that `test_packets` lists the rows of each direction in order (`Lists`);
  `TimesInv`, that capture times ascend, that the start time, once set, is no later than
  any packet, and with `WithinHalf` that the packed times of the rows ascend below `HALF`; and
  `AnswerInv`, that an answer waiting to be compared is what is expected. `NotAhead`
  is the reason why list and answer agree: of two ascending enumerations of the same rows
  neither can be behind the other, by the pigeonhole principle, so that they have the same times
  at each place, and rows of one direction are equal when their times are.
* `DifferencesAlwaysExplained`. The invariant `BudgetInv` is about the place between two calls where
  the comparison happens: the reader stands behind the trace it has read, what is left
  of the count and the trace's packets are together no more than the count (`ComparedInv`),
  and all of it when it was the first trace; a difference already reported stays explained since
  the traces before the current one are not read again.
* `FileAlwaysFollowsMap`: the composition of reader, flow map and database, in both its ways of
  ending, implements RowLog, whose log are the rows of the flow map while the database is open and then the
  file. It is about a run on a new file (`Leftover` holds only the empty table) with a count that fits
  an `int`. Each step is shown to open the log, to add a row, to answer from it, to stop, or to change
  nothing that can be seen (`Follows`). That the rows added are rows of RowLog needs bounds that no
  single part has: the ids given out are at most two for each packet kept (`IdsInv`), packets
  are no more than the count (`CountInv`, with `BudgetInv`), and a packed time fits the clock (`TimeFits`). A
  stop loses no more than a cache (`SizeInv`, `BeginningSurvives`), wherever `write_cache` breaks off. An
  answer is in the order of the times since each row has the offset of a packet that was kept
  (`OffsetsInv`), which `NoneNegative` is about.

What the attempts to prove these found: two properties of the test build were false as they
had been stated, and the bounds of the run had hidden it. DatabaseTestPasses had as its
condition that the *packed* times are in the lower half, which a trace that is longer than the
whole clock satisfies although its times start again at 0; the condition is now on the
capture times, and the run has a trace that long. DifferencesExplained lacked the condition
that the count fits an `int`. And the packed clock was not said to have an integer half.

Only model-checked is what is outside the prover: liveness (that a flush, the option loop
and the test run end: `FlushEnds`, `LoopEnds`, `TestEnds`) and `ENABLED`. The properties of
the four runs that expect a violation are false, and the theorems say under which
conditions what they state is true.

## Assumptions

* Packets come in capture order, as `common.h` demands ("traces must be continuous in
  time"), in the runs of FlowMap and of the whole program. TraceReader does without.
* The machine is little-endian, and the headers of the trace files are in its byte order,
  so that `bswap32` leaves them as they are (`PCapReader.cpp:57`). Files of the other
  order are left out.
* Packet and byte counters do not overflow; the sampling rate is positive.
* A failing SQLite call leaves a prefix of the transaction's rows. Ties of an
  `ORDER BY` may come in any order.
* The caches of the database have a capacity of at least one row (`reserve` of a
  page), and vectors double when they grow.
* Fewer than some forty million directions (`EntriesFit`), so that a flush ends.
* A segment carries each known option that has a value at most once, for the properties
  about what is printed.
* Columns that only travel through (`ip_id`, `seq`, `ack`, flags, rates) are left out of Database.

## Not modelled

* SQLite and TCLAP (`src/include/sqlite`, `src/include/tclap`) are vendored. They are
  some 14000 of the 17185 lines of the repository, which is why no model of the
  program's own code reaches a third of all lines. Of the 3200 own lines,
  two thirds of those not blank are mapped to a definition.
* The layout of the printed packet line, of the statistics and of error messages.
* Temporary files and the contents of tcpdump's output: the comparison is modelled by
  the number of lines. That diff itself is in trouble (status 2, which
  `common_debug.cpp:38` does not tell from no difference) is left out.
* The tests of rates and RTTs in the debug build, which have the same code as the
  tests that are modelled; no RTT is ever stored.

## Plan

Done: FiveTuple, Flow, FlowMap; ConversationLog; RowLog and Database; TimeOffset and FlowDirection;
CacheManager; TraceReader; TcpData and TimeStamp; CmdLineParser; both programs.

Every safety property that a run checks and finds true is stated by a
theorem; some of the theorems have conditions, which the table above lists.

Left: the tests of rates and RTTs of the debug build.
