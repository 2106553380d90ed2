----------------------------- MODULE MCTraceReader -----------------------------
(* Small instances of TraceReader for TLC: headers of 2 bytes. *)
EXTENDS TraceReader

MCHeader(captured_len, version, frag_offset, MF) ==
  [captured |-> captured_len, version |-> version, frag_offset |-> frag_offset,
   MF |-> MF, ihl_bytes |-> 2, datagram_len |-> 3]

MCPlain == MCHeader(4, 4, 0, FALSE)

\* A packet for every outcome of process_packet: kept; IP header cut off; TCP
\* header cut off; the first and a middle fragment; IPv6.
MCHeaders ==
  {MCPlain, MCHeader(1, 4, 0, FALSE), MCHeader(3, 4, 0, FALSE),
   MCHeader(4, 4, 0, TRUE), MCHeader(4, 4, 1, TRUE), MCHeader(4, 6, 0, FALSE)}
MCSegments == {"segment"}

\* With SECS = 4 and USECS = 3: on both sides of the seconds, in any order, and zero.
MCTimes == {0, 2, 7, 12}
===============================================================================
