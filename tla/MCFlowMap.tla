------------------------------ MODULE MCFlowMap ------------------------------
(* Small instances of FlowMap for TLC. *)
EXTENDS FlowMap

CONSTANTS a, b  \* two hosts

Both(p, q) == {FiveTuple(a, b, p, q), FiveTuple(b, a, q, p)}
Pkt(tuples, flags, data) == {[tuple |-> t, flags |-> flags, data |-> data] : t \in tuples}

\* Every way a handler tells packets apart: handshake, data, pure ACKs, the two
\* ends of a flow with and without ACK, and a SYN that carries another end.
AllKinds(tuples) == UNION
  {Pkt(tuples, {"SYN"}, FALSE), Pkt(tuples, {"SYN", "ACK"}, FALSE),
   Pkt(tuples, {"SYN", "RST"}, FALSE), Pkt(tuples, {"ACK"}, FALSE),
   Pkt(tuples, {"ACK"}, TRUE), Pkt(tuples, {}, TRUE), Pkt(tuples, {"FIN"}, FALSE),
   Pkt(tuples, {"FIN", "ACK"}, FALSE), Pkt(tuples, {"FIN", "SYN", "ACK"}, FALSE),
   Pkt(tuples, {"RST"}, FALSE), Pkt(tuples, {"RST", "ACK"}, FALSE)}
FewKinds(tuples) ==
  Pkt(tuples, {"SYN"}, FALSE) \cup Pkt(tuples, {"RST", "ACK"}, FALSE)

\* Two connections between the same hosts, seen in both directions, whose texts
\* differ: one of all kinds of packets, one that opens and closes.
MCTuples == Both(1, 2) \cup Both(2, 1)
MCKinds == AllKinds(Both(1, 2)) \cup FewKinds(Both(2, 1))

\* Ports 1 and 12 print like ports 11 and 2.
MCSameText == Both(1, 12) \cup Both(11, 2)
MCSameTextKinds == FewKinds(MCSameText)

\* Within and beyond the timeout; together they turn the packed clock.
MCGaps == {1, 3}
MCNoGaps == {0}
=============================================================================
