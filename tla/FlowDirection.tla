----------------------------- MODULE FlowDirection -----------------------------
(***************************************************************************)
(* Rate sampling in one direction of a flow: the counters and the samples  *)
(* of FlowDirection::add_packet (src/FlowDirection.cpp).                   *)
(*                                                                         *)
(* Directions share nothing but the options, so one is enough.  The packet *)
(* and inter-arrival rows that add_packet also writes are in FlowMap and   *)
(* CacheManager.  clock is the capture time in microseconds; the code only *)
(* has t_off, the packed word made from it.                                *)
(***************************************************************************)
EXTENDS TimeOffset, Sequences, SequencesExt

CONSTANTS
  sampling_rate,  \* usr_opt.sampling_rate, a duration
  Packets,        \* lengths of a packet: [datagram_len, tcp_data_len]
  Gaps,           \* microseconds between two packets of the direction
  MaxPackets      \* bound: length of the trace

ASSUME SamplingAssumption ==
  /\ sampling_rate \in Word /\ Normal(sampling_rate) /\ to_usec(sampling_rate) > 0
  /\ Packets \subseteq [datagram_len : Nat, tcp_data_len : Nat]
  /\ Gaps \subseteq Nat /\ MaxPackets \in Nat

VARIABLES
  clock,         \* capture time of the latest packet
  num_packets, bytes, tcp_bytes,
  last_sample_t,                   \* end of the last sampled period
  sample_bytes, sample_tcp_bytes,  \* counted since then
  rates,         \* rows handed to db.store_rates
  start          \* capture time of the first packet of the direction

vars == <<clock, num_packets, bytes, tcp_bytes, last_sample_t,
          sample_bytes, sample_tcp_bytes, rates, start>>

RatePair == [time : Word, throughput : Nat, goodput : Nat]

TypeOK ==
  /\ clock \in Nat /\ start \in Nat
  /\ num_packets \in 0..MaxPackets
  /\ bytes \in Nat /\ tcp_bytes \in Nat
  /\ last_sample_t \in Word
  /\ sample_bytes \in Nat /\ sample_tcp_bytes \in Nat
  /\ rates \in Seq(RatePair)

Init ==
  /\ clock = 0 /\ start = 0
  /\ num_packets = 0 /\ bytes = 0 /\ tcp_bytes = 0
  /\ last_sample_t = from_usec(0)
  /\ sample_bytes = 0 /\ sample_tcp_bytes = 0
  /\ rates = <<>>

\* A byte count over the sampling rate in seconds, truncated.
PerSecond(n) == (n * USECS) \div to_usec(sampling_rate)

\* take_sample: one row for what was counted, and a row of zeros for each further
\* period that passed without a packet.
Samples(t_off, n) ==
  <<[time |-> t_off, throughput |-> PerSecond(sample_bytes),
     goodput |-> PerSecond(sample_tcp_bytes)]>>
  \o [i \in 1..(n - 1) |-> [time |-> t_off, throughput |-> 0, goodput |-> 0]]

\* check_if_time_for_rate_sample, from the number of periods that have passed.
sample(since, t_off, needed) ==
  IF needed = 0
  THEN UNCHANGED rates /\ last_sample_t' = since
  ELSE /\ rates' = rates \o Samples(t_off, needed)
       /\ last_sample_t' = Plus(since, Times(needed, sampling_rate))

\* Mutant: the counters of the period are not reset.
Carried_NeverReset(needed, n) == n

\* What a counter of the period still holds when the packet is added to it.
Carried(needed, n) == IF needed > 0 THEN 0 ELSE n

add_packet(pkt, time) ==
  LET t_off == from_usec(time)
      since == IF num_packets = 0 THEN t_off ELSE last_sample_t
      needed == Div(Minus(t_off, since), sampling_rate)
  IN  /\ sample(since, t_off, needed)
      /\ num_packets' = num_packets + 1
      /\ bytes' = bytes + pkt.datagram_len
      /\ tcp_bytes' = tcp_bytes + pkt.tcp_data_len
      /\ sample_bytes' = Carried(needed, sample_bytes) + pkt.datagram_len
      /\ sample_tcp_bytes' = Carried(needed, sample_tcp_bytes) + pkt.tcp_data_len

Next ==
  \E pkt \in Packets, gap \in Gaps :
    /\ num_packets < MaxPackets
    /\ clock' = clock + gap
    /\ start' = IF num_packets = 0 THEN clock' ELSE start
    /\ add_packet(pkt, clock')

Spec == Init /\ [][Next]_vars

-----------------------------------------------------------------------------
(* Properties. *)

\* "sample every X ms" (CmdLineParser.cpp): the database has one row for each
\* sampling period that has passed since the first packet, idle ones included.
RowPerPeriod ==
  num_packets > 0 => Len(rates) = (clock - start) \div to_usec(sampling_rate)

\* What the rows of a rate say was carried, to the byte rate they are rounded to.
Integral(rate(_)) ==
  FoldLeft(LAMBDA sum, row : sum + rate(row), 0, rates) * to_usec(sampling_rate)

\* total bytes were counted, of which latest wait for their sample.
Accounted(total, latest, integral) ==
  LET sampled == (total - latest) * USECS
  IN  integral <= sampled /\ sampled <= integral + Len(rates) * (to_usec(sampling_rate) - 1)

\* Every byte of the direction is in exactly one sample or in the counters of the
\* current period, whatever packets share a period or leave periods idle.
BytesAccounted ==
  /\ Accounted(bytes, sample_bytes, Integral(LAMBDA r : r.throughput))
  /\ Accounted(tcp_bytes, sample_tcp_bytes, Integral(LAMBDA r : r.goodput))

===============================================================================
