------------------------------ MODULE TraceReader ------------------------------
(***************************************************************************)
(* From trace files to the packets the flow map is handed: the loop over   *)
(* the traces (src/tcp_analysis_tool.cpp), read_trace and process_packet   *)
(* (src/PCapReader.cpp), the IP header (src/IpData.cpp), the statistics    *)
(* (src/Stats.cpp) and the subtraction of capture times                    *)
(* (src/timeval_ops.cpp).                                                  *)
(*                                                                         *)
(* libpcap is external: pcap_dispatch(cnt) calls process_packet for each   *)
(* matching packet of the file, at most cnt times if cnt is positive, and  *)
(* returns how often, or fails.  A file is the number of its matching      *)
(* packets still unread; what they hold is chosen when they are read.      *)
(***************************************************************************)
EXTENDS TimeOffset, Sequences, FiniteSets, Functions

CONSTANTS
  count,       \* usr_opt.count, "max packets to read"
  NumTraces,   \* traces on the command line
  MaxLength,   \* bound: packets of a trace
  Headers,     \* the IP headers of captured packets
  Segments,    \* their TCP segments, which are passed on as they are
  CaptureTimes,  \* in microseconds
  HEADER,      \* length of an IP and of a TCP header without options (20)
  INT_HALF,    \* half the range of int (2^31)
  COUNT_RANGE  \* range of the count, a u64

ASSUME CountAssumption ==
  /\ INT_HALF \in Nat \ {0} /\ COUNT_RANGE \in Nat /\ COUNT_RANGE >= INT_HALF
  /\ count \in 0..(COUNT_RANGE - 1)
ASSUME TracesAssumption ==
  /\ NumTraces \in Nat /\ MaxLength \in Nat
  /\ HEADER \in Nat /\ CaptureTimes \subseteq Nat

\* A captured packet: the bytes captured behind the data link header, and the
\* fields of its IP header.
Header == [captured : Int, version : {4, 6}, frag_offset : Nat, MF : BOOLEAN,
           ihl_bytes : Nat, datagram_len : Nat]
ASSUME HeadersAssumption == Headers \subseteq Header

VARIABLES
  unread,            \* matching packets of each trace that are not read yet
  iter,              \* the trace at hand
  phase,             \* "main", "dispatch", or the program has ended: "done", "failed"
  num_pkts_to_read,
  cnt, n,            \* argument of pcap_dispatch, and packets it has processed
  num_pkts, num_bytes, num_frag_pkts,  \* stats
  capture_start_time,  \* in microseconds; 0 is not set
  captured,          \* history: the packets process_packet was called with
  handed             \* history: what went to flow_map

stats == <<num_pkts, num_bytes, num_frag_pkts>>
vars == <<unread, iter, phase, num_pkts_to_read, cnt, n, stats,
          capture_start_time, captured, handed>>

Traces == 1..NumTraces
Captured == [header : Headers, segment : Segments, time : CaptureTimes]
Handed == [segment : Segments, time : CaptureTimes, t_off : Word]

TypeOK ==
  /\ unread \in [Traces -> 0..MaxLength]
  /\ iter \in 1..(NumTraces + 1)
  /\ phase \in {"main", "dispatch", "done", "failed"}
  /\ phase = "dispatch" => iter \in Traces
  /\ num_pkts_to_read \in 0..(COUNT_RANGE - 1)
  /\ cnt \in (-INT_HALF)..(INT_HALF - 1) /\ n \in Nat
  /\ num_pkts \in Nat /\ num_bytes \in Nat /\ num_frag_pkts \in Nat
  /\ capture_start_time \in CaptureTimes \cup {0}
  /\ captured \in Seq(Captured)
  /\ handed \in Seq(Handed)

Init ==
  /\ unread \in [Traces -> 0..MaxLength]
  /\ iter = 1 /\ phase = "main"
  /\ num_pkts_to_read = count
  /\ cnt = 0 /\ n = 0
  /\ num_pkts = 0 /\ num_bytes = 0 /\ num_frag_pkts = 0
  /\ capture_start_time = 0
  /\ captured = <<>> /\ handed = <<>>

-----------------------------------------------------------------------------
(* main, and read_trace around its call of pcap_dispatch. *)

\* The conversion of a u64 argument to int.
to_int(x) == ((x + INT_HALF) % (2 * INT_HALF)) - INT_HALF

skip_trace ==
  /\ phase = "main" /\ iter <= NumTraces
  /\ num_pkts_to_read = 0
  /\ iter' = iter + 1
  /\ UNCHANGED <<unread, phase, num_pkts_to_read, cnt, n, stats,
                 capture_start_time, captured, handed>>

\* Opening the file and setting the filter may fail, and the program exits.
read_trace ==
  /\ phase = "main" /\ iter <= NumTraces
  /\ num_pkts_to_read > 0
  /\ \/ phase' = "dispatch" /\ cnt' = to_int(num_pkts_to_read) /\ n' = 0
     \/ phase' = "failed" /\ UNCHANGED <<cnt, n>>
  /\ UNCHANGED <<unread, iter, num_pkts_to_read, stats,
                 capture_start_time, captured, handed>>

\* Mutant: what is left over for the next trace is not counted down.
dispatched_KeepsCount ==
  /\ phase = "dispatch"
  /\ unread[iter] = 0 \/ (cnt > 0 /\ n = cnt)
  /\ phase' = "main" /\ iter' = iter + 1
  /\ UNCHANGED <<unread, num_pkts_to_read, cnt, n, stats,
                 capture_start_time, captured, handed>>

\* Mutant: all the packets read so far are taken off.
dispatched_CountsAll ==
  /\ phase = "dispatch"
  /\ unread[iter] = 0 \/ (cnt > 0 /\ n = cnt)
  /\ phase' = "main" /\ iter' = iter + 1
  /\ num_pkts_to_read' = (num_pkts_to_read - num_pkts) % COUNT_RANGE
  /\ UNCHANGED <<unread, cnt, n, stats, capture_start_time, captured, handed>>

\* pcap_dispatch returns at the end of the file or when cnt packets are read.
dispatched ==
  /\ phase = "dispatch"
  /\ unread[iter] = 0 \/ (cnt > 0 /\ n = cnt)
  /\ phase' = "main" /\ iter' = iter + 1
  /\ num_pkts_to_read' = (num_pkts_to_read - n) % COUNT_RANGE
  /\ UNCHANGED <<unread, cnt, n, stats, capture_start_time, captured, handed>>

\* It returns -1, for a damaged file; or datalink_header_size meets a link type it
\* does not know, before the packet is counted.
dispatch_fails ==
  /\ phase = "dispatch"
  /\ phase' = "failed"
  /\ UNCHANGED <<unread, iter, num_pkts_to_read, cnt, n, stats,
                 capture_start_time, captured, handed>>

finish ==
  /\ phase = "main" /\ iter > NumTraces
  /\ phase' = "done"
  /\ UNCHANGED <<unread, iter, num_pkts_to_read, cnt, n, stats,
                 capture_start_time, captured, handed>>

-----------------------------------------------------------------------------
(* process_packet: each test drops the packet or passes it on. *)

HasIpHeader(h) == h.captured >= HEADER
IsFragment(h) == h.frag_offset > 0 \/ h.MF
\* offset_to_tcp is the length of the IP header, or 0 for a later fragment.
HasTcpHeader(h) == h.captured - h.ihl_bytes >= HEADER
Kept(h) == HasIpHeader(h) /\ h.version = 4 /\ h.frag_offset = 0 /\ HasTcpHeader(h)

\* Mutant: the microseconds do not borrow.
Subtract_NoBorrow(t1, t2) ==
  LET sec == (t1 \div USECS) - (t2 \div USECS)
      usec == (t1 % USECS) - (t2 % USECS)
  IN  IF usec < 0 THEN TimeOffset(sec, usec + USECS) ELSE TimeOffset(sec, usec)

\* timersub, and the Duration made of it: seconds that are negative wrap.
Subtract(t1, t2) ==
  LET sec == (t1 \div USECS) - (t2 \div USECS)
      usec == (t1 % USECS) - (t2 % USECS)
  IN  IF usec < 0 THEN TimeOffset(sec - 1, usec + USECS) ELSE TimeOffset(sec, usec)

\* Mutant: a later fragment that announces more fragments is counted twice.
FragmentCount_Twice(h) ==
  (IF h.frag_offset > 0 THEN 1 ELSE 0) + (IF h.MF THEN 1 ELSE 0)

FragmentCount(h) == IF IsFragment(h) THEN 1 ELSE 0

\* Mutant: later packets are measured from the packet before.
start_time_Latest(time) == time

\* capture_start_time once the packet captured at time is kept: timerisset tells
\* only whether the time is zero.
start_time(time) == IF capture_start_time = 0 THEN time ELSE capture_start_time

IpVersionKnown(h) == HasIpHeader(h) => h.version = 4

process_packet(p) ==
  LET h == p.header
      counted == HasIpHeader(h) /\ h.version = 4
  IN  /\ phase = "dispatch"
      /\ unread[iter] > 0 /\ (cnt > 0 => n < cnt)
      /\ unread' = [unread EXCEPT ![iter] = @ - 1]
      /\ n' = n + 1
      /\ num_pkts' = num_pkts + 1
      /\ num_bytes' = IF counted THEN num_bytes + h.datagram_len ELSE num_bytes
      /\ num_frag_pkts' = IF counted THEN num_frag_pkts + FragmentCount(h) ELSE num_frag_pkts
      /\ captured' = Append(captured, p)
      /\ IF Kept(h)
         THEN /\ capture_start_time' = start_time(p.time)
              /\ handed' = Append(handed,
                   [segment |-> p.segment, time |-> p.time,
                    t_off |-> Subtract(p.time, start_time(p.time))])
         ELSE UNCHANGED <<capture_start_time, handed>>
      /\ phase' = IF IpVersionKnown(h) THEN phase ELSE "failed"
      /\ UNCHANGED <<iter, num_pkts_to_read, cnt>>

\* Mutant: the microseconds do not carry.
timeradd_NoCarry(t, t_off) == [sec |-> t.sec + t_off.sec, usec |-> t.usec + t_off.usec]

timeradd(t, t_off) ==
  LET usec == t.usec + t_off.usec
  IN  IF usec >= USECS THEN [sec |-> t.sec + t_off.sec + 1, usec |-> usec - USECS]
      ELSE [sec |-> t.sec + t_off.sec, usec |-> usec]

\* A capture time as a timeval, and the time a packet is printed with.
timeval(time) == [sec |-> time \div USECS, usec |-> time % USECS]
real_time(t_off) == timeradd(timeval(capture_start_time), t_off)

Next ==
  \/ skip_trace \/ read_trace \/ dispatched \/ dispatch_fails \/ finish
  \/ \E p \in Captured : process_packet(p)

\* The program is one thread that waits for nobody: as long as it can take its
\* next step, it takes it.
Fairness == WF_vars(Next)

Spec == Init /\ [][Next]_vars /\ Fairness

-----------------------------------------------------------------------------
(* Properties. *)

\* The first packet kept sets the start time, unless it was captured at the time zero,
\* which timerisset takes for no time.
StartIsSet == handed # <<>> => handed[1].time # 0

InAllTraces == num_pkts + FoldFunction(+, 0, unread)

\* "max packets to read" (CmdLineParser.cpp) is a limit over all the traces: they
\* share one budget, and a trace that is shorter than what is left gives the rest
\* to the next.
CountObeyed == num_pkts <= count

\* A run that is not stopped by an error reads as much as it was asked for, all
\* packets of all traces or count of them, if pcap_dispatch can be told the count: a
\* count beyond the range of its int reads every packet, or as many as are left of it
\* in an int.
ReadsAsAsked ==
  phase = "done" /\ count < INT_HALF =>
    num_pkts = IF count < InAllTraces THEN count ELSE InAllTraces

\* What print_stats reports: each fragment is counted once, whichever of the two
\* tests of process_packet sees it, and each datagram's length is in the bytes;
\* only packets whose IP header was not captured are left out of both.
StatsComplete ==
  LET seen == {i \in DOMAIN captured : HasIpHeader(captured[i].header)
                                       /\ captured[i].header.version = 4}
  IN  /\ num_pkts = Len(captured)
      /\ num_frag_pkts = Cardinality({i \in seen : IsFragment(captured[i].header)})
      /\ num_bytes = FoldFunctionOnSet(+, 0,
                       [i \in DOMAIN captured |-> captured[i].header.datagram_len], seen)

\* The flow map computes with differences of time offsets (timeouts, samples,
\* inter-arrival times): for any two packets in capture order the difference is
\* the time between them, as far as the packed clock reaches, and however the
\* start time was chosen, also when both were captured before it.
OffsetsTellElapsedTime ==
  StartIsSet => \A i, j \in DOMAIN handed :
    LET elapsed == handed[j].time - handed[i].time
    IN  elapsed \in 0..(SECS * USECS - 1) =>
          Minus(handed[j].t_off, handed[i].t_off) = from_usec(elapsed)

\* "Time of first packet of first trace read" (common.h): every time offset is
\* measured from the first packet that was kept, if that has set the start time.
OffsetsFromFirstPacket ==
  StartIsSet =>
    \A i \in DOMAIN handed : handed[i].t_off = Subtract(handed[i].time, handed[1].time)

\* The test build compares the packets it prints with those of tcpdump: a packet is
\* printed with the time it was captured at, although only
\* its offset is kept, as far as the packed clock reaches.
PrintedWhenCaptured ==
  \A i \in DOMAIN handed :
    handed[i].time - capture_start_time \in 0..(SECS * USECS - 1) =>
      real_time(handed[i].t_off) = timeval(handed[i].time)
===============================================================================
