------------------------------ MODULE MCTestTool ------------------------------
(* Small instances of TestTool for TLC: headers of 2 bytes. *)
EXTENDS TestTool

CONSTANTS a, b  \* two hosts

MCHeader(captured_len, frag_offset) ==
  [captured |-> captured_len, version |-> 4, frag_offset |-> frag_offset,
   MF |-> FALSE, ihl_bytes |-> 2, datagram_len |-> 3]

\* A packet that is kept, and a later fragment, which is not.
MCHeaders == {MCHeader(4, 0), MCHeader(4, 1)}

MCHost(x, y, p, q) == [src_addr |-> x, dst_addr |-> y, src_port |-> p, dst_port |-> q]
MCTuples == {MCHost(a, b, 1, 2), MCHost(b, a, 2, 1)}
MCKinds == {[flags |-> {"SYN"}, data |-> FALSE], [flags |-> {"RST", "ACK"}, data |-> FALSE]}

\* Seconds apart: the packed clock is in its upper half when 14 follows 3, and has gone
\* round when it follows 1.
MCTimes == {1, 3, 14}
MCNothing == {<<>>}
===============================================================================
