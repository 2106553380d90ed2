--------------------------- MODULE MCTcpAnalysisTool ---------------------------
(* Small instances of TcpAnalysisTool for TLC: headers of 2 bytes. *)
EXTENDS TcpAnalysisTool

CONSTANTS a, b  \* two hosts

MCHeader(captured_len, frag_offset) ==
  [captured |-> captured_len, version |-> 4, frag_offset |-> frag_offset,
   MF |-> FALSE, ihl_bytes |-> 2, datagram_len |-> 3]

\* A packet that is kept, and a later fragment, which is not.
MCHeaders == {MCHeader(4, 0), MCHeader(4, 1)}

Host(x, y, p, q) == [src_addr |-> x, dst_addr |-> y, src_port |-> p, dst_port |-> q]
MCTuples == {Host(a, b, 1, 2), Host(b, a, 2, 1)}
MCKinds == {[flags |-> {"SYN"}, data |-> FALSE], [flags |-> {"RST", "ACK"}, data |-> FALSE]}
MCTimes == {1, 3}
MCNothing == {<<>>}
MCOldRows == {<<[dir_id |-> 0, time |-> 0]>>}
===============================================================================
