---------------------------- MODULE TcpAnalysisTool ----------------------------
(***************************************************************************)
(* A run of the program (src/tcp_analysis_tool.cpp): main opens the        *)
(* database, reads the traces and closes the database.  A packet that the  *)
(* reader keeps goes through the flow map, and, if a flow stores it, into  *)
(* the packet table of the database, all in the call of process_packet.    *)
(*                                                                         *)
(* The three parts are instances, under the names of the program's         *)
(* objects.  Of the four tables there is one: rates and inter-arrival      *)
(* times have modules of their own.                                        *)
(***************************************************************************)
EXTENDS TimeOffset, Sequences, FiniteSets

CONSTANTS
  count, NumTraces, MaxLength, Headers, CaptureTimes,  \* of TraceReader
  HEADER, INT_HALF, COUNT_RANGE,
  Tuples, Kinds, TIMEOUT,  \* of FlowMap, the timeout in microseconds
  CAPACITY,  \* rows in the cache of the packet table
  WRAP,      \* microseconds the packed clock can tell apart
  HALF,      \* half of them
  Leftover   \* packet tables that may be in the database file beforehand

ASSUME ToolAssumption ==
  /\ CAPACITY \in Nat \ {0} /\ TIMEOUT \in Nat /\ HALF \in Nat
  /\ WRAP = SECS * USECS /\ WRAP = 2 * HALF
  /\ Kinds \subseteq [flags : SUBSET {"FIN", "SYN", "RST", "ACK"}, data : BOOLEAN]

VARIABLES
  unread, iter, phase, num_pkts_to_read, cnt, n, num_pkts, num_bytes,  \* of TraceReader
  num_frag_pkts, capture_start_time, captured, handed,
  internal_map, global_dir_id, packet_table, num_flows,  \* of FlowMap
  table, cache, indexed, indexes_created, db_phase, opens, answer  \* of Database

reader_vars == <<unread, iter, phase, num_pkts_to_read, cnt, n, num_pkts, num_bytes,
                 num_frag_pkts, capture_start_time, captured, handed>>
map_vars == <<internal_map, global_dir_id, packet_table, num_flows>>
db_vars == <<table, cache, indexed, indexes_created, db_phase, opens, answer>>
vars == <<reader_vars, map_vars, db_vars>>

Segments == {[tuple |-> t, flags |-> k.flags, data |-> k.data] : t \in Tuples, k \in Kinds}
Dir_ids == 0..(2 * count)

\* The row of a packet: the columns a reader selects and orders by.
RowOf(r) == [dir_id |-> r.dir_id, time |-> r.pkt.time]
rows == [t \in {"packet"} |-> [i \in DOMAIN packet_table |-> RowOf(packet_table[i])]]

PCapReader == INSTANCE TraceReader
flow_map == INSTANCE FlowMap WITH
  Kinds <- Segments, Gaps <- Nat, MaxPackets <- count,
  num_pkts <- Len(handed), now <- 0
db == INSTANCE Database WITH
  Table <- {"packet"}, Capacity <- [t \in {"packet"} |-> CAPACITY],
  MaxTime <- WRAP - 1, MaxBatch <- 1, MaxRows <- count, MaxOpens <- 1,
  phase <- db_phase, pending <- <<>>, now <- 0, handed <- rows

\* What the reader and the flow map assume of their constants.
ASSUME PartsAssumption ==
  /\ PCapReader!CountAssumption /\ PCapReader!TracesAssumption
  /\ flow_map!TuplesAssumption

TypeOK ==
  /\ PCapReader!TypeOK
  /\ flow_map!TypeOK
  /\ db!TypeOK

Init ==
  /\ PCapReader!Init
  /\ flow_map!Init
  /\ table \in [{"packet"} -> Leftover] /\ cache = [t \in {"packet"} |-> <<>>]
  /\ indexed \in BOOLEAN /\ indexes_created = FALSE
  /\ db_phase = "closed" /\ opens = 0 /\ answer = <<>>

-----------------------------------------------------------------------------
(* main. *)

db_open ==
  /\ db_phase = "closed" /\ opens = 0
  /\ UNCHANGED <<reader_vars, map_vars>>
  /\ db!open

\* The file cannot be opened, or a later call fails, before or after the table of
\* packets has been made anew.
open_fails ==
  /\ db_phase = "closed" /\ opens = 0
  /\ phase' = "failed" /\ db_phase' = "failed" /\ opens' = 1
  /\ table' \in {table, [t \in {"packet"} |-> <<>>]}
  /\ UNCHANGED <<unread, iter, num_pkts_to_read, cnt, n, num_pkts, num_bytes,
                 num_frag_pkts, capture_start_time, captured, handed, map_vars,
                 cache, indexed, indexes_created, answer>>

\* A step of the loop over the traces.  If it fails, the program exits, and the
\* caches go with it.
traces ==
  /\ db_phase = "open"
  /\ \/ PCapReader!skip_trace \/ PCapReader!read_trace \/ PCapReader!dispatched
     \/ PCapReader!dispatch_fails \/ PCapReader!finish
  /\ db_phase' = IF phase' = "failed" THEN "failed" ELSE db_phase
  /\ UNCHANGED <<map_vars, table, cache, indexed, indexes_created, opens, answer>>

\* Mutant: everything is written again.
db_close_WritesAll ==
  /\ phase = "done"
  /\ UNCHANGED <<reader_vars, map_vars>>
  /\ db_phase = "open" /\ db_phase' = "closed"
  /\ table' = [table EXCEPT !["packet"] = @ \o rows["packet"]]
  /\ UNCHANGED <<cache, indexed, indexes_created, opens, answer>>

db_close ==
  /\ phase = "done"
  /\ UNCHANGED <<reader_vars, map_vars>>
  /\ db!close

-----------------------------------------------------------------------------
(* process_packet. *)

\* Packets come in the order of their capture times ("obv traces must be continuous
\* in time", common.h).
InOrder(p) == captured # <<>> => captured[Len(captured)].time <= p.time

\* The Packet of a captured packet.
PacketOf(p) ==
  [tuple |-> p.segment.tuple, flags |-> p.segment.flags, data |-> p.segment.data,
   time |-> to_usec(PCapReader!Subtract(p.time, PCapReader!start_time(p.time)))]

\* Mutant: a packet refused by all flows is stored in the latest direction.
store_packet_Always ==
  IF handed' # handed
  THEN db!SetBuffer("packet",
         db!Put(db!Buffer("packet"),
                [dir_id |-> global_dir_id, time |-> to_usec(handed'[Len(handed')].t_off)], "packet"))
  ELSE UNCHANGED <<table, cache>>

\* What the flow map has stored goes into the cache of the table.
store_packet ==
  IF packet_table' # packet_table
  THEN db!SetBuffer("packet",
         db!Put(db!Buffer("packet"), RowOf(packet_table'[Len(packet_table')]), "packet"))
  ELSE UNCHANGED <<table, cache>>

process_packet(p) ==
  /\ db_phase = "open"
  /\ InOrder(p)
  /\ PCapReader!process_packet(p)
  /\ IF PCapReader!Kept(p.header)
     THEN flow_map!map_to_flow(PacketOf(p))
     ELSE UNCHANGED map_vars
  /\ store_packet
  /\ db_phase' = IF phase' = "failed" THEN "failed" ELSE db_phase
  /\ UNCHANGED <<indexed, indexes_created, opens, answer>>

\* write_cache fails while a packet is stored; the flow map goes with the program.
write_fails ==
  /\ phase = "dispatch" /\ unread[iter] > 0 /\ (cnt > 0 => n < cnt)
  /\ db!is_full(db!Buffer("packet"), "packet")
  /\ UNCHANGED map_vars
  /\ phase' = "failed"
  /\ db!fail("packet")
  /\ UNCHANGED <<unread, iter, num_pkts_to_read, cnt, n, num_pkts, num_bytes,
                 num_frag_pkts, capture_start_time, captured, handed>>

Next ==
  \/ db_open \/ open_fails \/ traces \/ db_close \/ write_fails
  \/ \E p \in PCapReader!Captured : process_packet(p)

\* The program is one thread that waits for nobody.
Spec == Init /\ [][Next]_vars /\ WF_vars(Next)

-----------------------------------------------------------------------------
(* Properties. *)

\* From the traces to the file: the packet table is a log of the packets the flow
\* map has stored, in their order, and a run that ends or gives up at any point
\* leaves a beginning of it, short of at most a cache.  As long as no packed time is in
\* the upper half of the clock, a reader gets it in the order of these times.
NoneNegative == \A i \in DOMAIN handed : to_usec(handed[i].t_off) < HALF
FileFollowsMap ==
  /\ db!Promise!Init
  /\ [][NoneNegative => db!Promise!Next]_<<db!log, answer, db_phase = "open">>

\* Every direction of every flow in the map has exactly as many rows in the file
\* and the cache as its packet counter says, and no row belongs to a flow that is
\* not in the map.
CountersMatchFile ==
  LET all == table["packet"] \o cache["packet"]
      dirs == flow_map!FlowsInMap \X flow_map!Dir
      Id(x) == flow_map!FlowAt(x[1]).id[x[2]]
  IN  opens = 1 /\ phase # "failed" =>
        /\ \A i \in DOMAIN all : \E x \in dirs : all[i].dir_id = Id(x)
        /\ \A x \in dirs :
             Cardinality({i \in DOMAIN all : all[i].dir_id = Id(x)})
             = flow_map!FlowAt(x[1]).num_packets[x[2]]

\* A run without traces is one that reads a database ("read_from_db", common.h; "this
\* should also check for existence of actual db in file", CmdLineParser.cpp): it
\* leaves the data in it alone.
ReadRunKeepsData == [][NumTraces = 0 => UNCHANGED table]_vars
===============================================================================
