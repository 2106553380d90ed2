--------------------------- MODULE MCFlowDirection ---------------------------
(* Small instances of FlowDirection: a clock of four seconds of five ticks, *)
(* of which the word can hold eight.                                        *)
EXTENDS FlowDirection

MCPackets == {[datagram_len |-> 1, tcp_data_len |-> 0], [datagram_len |-> 3, tcp_data_len |-> 2]}

\* -s 2000: whole seconds.  -s 200: the default, a fifth of a second.
MCTwoSeconds == [sec |-> 2, usec |-> 0]
MCFifth == [sec |-> 0, usec |-> 1]

\* Less than a second, across a second, and across idle periods.
MCGaps == {0, 4, 7, 10}
MCShortGaps == {1, 4, 5}
===============================================================================
