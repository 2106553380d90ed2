------------------------------- MODULE TestTool -------------------------------
(***************************************************************************)
(* The test build of the program (src/test_tcp_tool.cpp): the same run,    *)
(* which compares what it printed of each trace with what tcpdump prints,  *)
(* and at the end what the database returns for every direction with what  *)
(* was stored in it (src/common_debug.cpp).                                *)
(*                                                                         *)
(* tcpdump and diff are external.  Of the printed packets it matters here  *)
(* how many there are.                                                     *)
(***************************************************************************)
EXTENDS TcpAnalysisTool

VARIABLES
  test_packets,  \* direction -> the rows store_packet was called with
  to_compare,  \* a trace has been read and not compared yet
  differ,      \* traces for which "Differences found" was reported
  asked,       \* the direction test_db_values has just read, or none
  tested,      \* directions that were found right
  incorrect    \* the program has exited with "Database values are not correct!"

debug_vars == <<test_packets, to_compare, differ, asked, tested, incorrect>>
test_vars == <<vars, debug_vars>>

none == -1
MapDirs == {flow_map!FlowAt(x).id[d] : x \in flow_map!FlowsInMap, d \in flow_map!Dir}

\* test_packets[d], where operator[] makes an empty vector of an entry that is not
\* there, and test_packets after add_packet has pushed a row to it.
Expected(d) == IF d \in DOMAIN test_packets THEN test_packets[d] ELSE <<>>
Pushed(row) ==
  [d \in DOMAIN test_packets \cup {row.dir_id} |->
     IF d = row.dir_id THEN Append(Expected(d), row) ELSE test_packets[d]]

TestInit ==
  /\ Init
  /\ test_packets = [d \in {} |-> <<>>]
  /\ to_compare = FALSE /\ differ = {}
  /\ asked = none /\ tested = {} /\ incorrect = FALSE

\* What the test build shares with the program.
run ==
  /\ ~to_compare
  /\ \/ db_open \/ open_fails \/ write_fails
     \/ \E p \in PCapReader!Captured : process_packet(p)
  /\ test_packets' = IF packet_table' # packet_table
                      THEN Pushed(RowOf(packet_table'[Len(packet_table')]))
                      ELSE test_packets
  /\ UNCHANGED <<to_compare, differ, asked, tested, incorrect>>

test_traces ==
  /\ ~to_compare
  /\ traces
  /\ to_compare' = (phase = "dispatch" /\ phase' = "main")
  /\ UNCHANGED <<test_packets, differ, asked, tested, incorrect>>

-----------------------------------------------------------------------------
(* compare_with_tcpdump, after a trace of which n packets were read.  That   *)
(* diff itself is in trouble (status 2, which passes for no difference) is   *)
(* left out: it can only take a difference away.                             *)

\* Mutant: test_file is not made anew for each trace.
ReadLast_OfAllTraces == DOMAIN captured

ReadLast == {i \in DOMAIN captured : i > Len(captured) - n}

\* Lines of test_file, and of tcpdump -c count.
Printed == Cardinality({i \in ReadLast : PCapReader!Kept(captured[i].header)})
TcpdumpLines ==
  LET length == n + unread[iter - 1]
  IN  IF count < length THEN count ELSE length

compare_with_tcpdump ==
  /\ to_compare /\ phase = "main"
  /\ to_compare' = FALSE
  /\ differ' = IF Printed # TcpdumpLines THEN differ \cup {iter - 1} ELSE differ
  /\ UNCHANGED <<vars, test_packets, asked, tested, incorrect>>

\* A command fails (EXIT_ON_FAIL), and the program exits.
command_fails ==
  /\ to_compare /\ phase = "main"
  /\ to_compare' = FALSE
  /\ phase' = "failed" /\ db_phase' = "failed"
  /\ UNCHANGED <<unread, iter, num_pkts_to_read, cnt, n, num_pkts, num_bytes,
                 num_frag_pkts, capture_start_time, captured, handed, map_vars,
                 table, cache, indexed, indexes_created, opens, answer,
                 test_packets, differ, asked, tested, incorrect>>

-----------------------------------------------------------------------------
(* test_db_values, for the directions of all flows, whatever the order of the map. *)

get_packets(d) ==
  /\ phase = "done" /\ asked = none
  /\ d \in MapDirs \ tested
  /\ UNCHANGED map_vars
  /\ db!get("packet", d, count)
  /\ asked' = d
  /\ phase' = IF db_phase' = "failed" THEN "failed" ELSE phase
  /\ UNCHANGED <<unread, iter, num_pkts_to_read, cnt, n, num_pkts, num_bytes,
                 num_frag_pkts, capture_start_time, captured, handed,
                 test_packets, to_compare, differ, tested, incorrect>>

get_packets_fails ==
  /\ phase = "done" /\ asked = none /\ MapDirs \ tested # {}
  /\ phase' = "failed"
  /\ UNCHANGED map_vars
  /\ db!fail("packet")
  /\ UNCHANGED <<unread, iter, num_pkts_to_read, cnt, n, num_pkts, num_bytes,
                 num_frag_pkts, capture_start_time, captured, handed, debug_vars>>

\* Mutant: the loop stays at its direction.
values_correct_Stays ==
  /\ phase = "done" /\ asked # none
  /\ answer = Expected(asked)
  /\ asked' = none
  /\ UNCHANGED <<vars, test_packets, to_compare, differ, tested, incorrect>>

values_correct ==
  /\ phase = "done" /\ asked # none
  /\ answer = Expected(asked)
  /\ tested' = tested \cup {asked} /\ asked' = none
  /\ UNCHANGED <<vars, test_packets, to_compare, differ, incorrect>>

values_not_correct ==
  /\ phase = "done" /\ asked # none
  /\ answer # Expected(asked)
  /\ incorrect' = TRUE
  /\ phase' = "failed" /\ db_phase' = "failed"
  /\ UNCHANGED <<unread, iter, num_pkts_to_read, cnt, n, num_pkts, num_bytes,
                 num_frag_pkts, capture_start_time, captured, handed, map_vars,
                 table, cache, indexed, indexes_created, opens, answer,
                 test_packets, to_compare, differ, asked, tested>>

test_close ==
  /\ asked = none /\ MapDirs \ tested = {}
  /\ db_close
  /\ UNCHANGED debug_vars

TestNext ==
  \/ run \/ test_traces \/ compare_with_tcpdump \/ command_fails
  \/ \E d \in Dir_ids : get_packets(d)
  \/ get_packets_fails \/ values_correct \/ values_not_correct \/ test_close

TestSpec == TestInit /\ [][TestNext]_test_vars /\ WF_test_vars(TestNext)

-----------------------------------------------------------------------------
(* Properties. *)

\* The trace is no longer than half of the packed clock, which then does not go round.
WithinHalf == \A i \in DOMAIN handed : handed[i].time - capture_start_time < HALF

\* "Database values are read and written correctly" (test_tcp_tool.cpp): for traces
\* no longer than half of the packed clock, every direction of every flow is answered with
\* its packets, in order, whatever was cached when and however often a reader has
\* written a cache and found the indexes.
DatabaseTestPasses == WithinHalf => ~incorrect

\* The test comes to its end, having tested every direction, if nothing fails.
TestEnds ==
  <>(phase = "failed" \/ (phase = "done" /\ db_phase = "closed" /\ tested = MapDirs))

\* "Differences found, please check './diffs.txt'" (common_debug.cpp) is a test of the
\* reader: if every packet read was also printed, it is only reported of the trace in
\* which the count ran out after earlier traces had used some of it, since tcpdump is
\* given the whole count for each trace.  (A count beyond int is another to
\* pcap_dispatch.)
DifferencesExplained ==
  count < INT_HALF /\ (\A i \in DOMAIN captured : PCapReader!Kept(captured[i].header)) =>
    \A i \in differ : i > 1 /\ num_pkts_to_read = 0 /\ unread[i] > 0
===============================================================================
