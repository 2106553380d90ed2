------------------------------- MODULE FlowMap -------------------------------
(***************************************************************************)
(* The flow map: which packets of a trace belong to the same conversation  *)
(* (src/FlowMap.cpp), over the state machine of module Flow.               *)
(*                                                                         *)
(* The program is sequential: map_to_flow runs to completion for each      *)
(* packet of the trace, so one call is one step.  What varies is the       *)
(* trace: any sequence of packets of the Kinds, in capture order.          *)
(*                                                                         *)
(* currentTuple is a global that each call sets before it is read, so it   *)
(* is a local definition here.  packet_table is the sequence of rows       *)
(* FlowDirection::add_packet hands to db.store_packet; a row keeps the     *)
(* whole packet, of which the database has the columns of DB_Packet.       *)
(***************************************************************************)
EXTENDS Flow, FiveTuple, FiniteSets

CONSTANTS
  Tuples,     \* the five-tuples a packet of the trace may carry
  Kinds,      \* the packets a trace may hold, apart from their times
  Gaps,       \* ticks that may pass between two packets of the trace
  MaxPackets  \* bound: length of the trace

ASSUME TuplesAssumption ==
  \A t \in Tuples : t = FiveTuple(t.src_addr, t.dst_addr, t.src_port, t.dst_port)
ASSUME KindsAssumption ==
  Kinds \subseteq [tuple : Tuples, flags : SUBSET Flag, data : BOOLEAN]
ASSUME GapsAssumption == Gaps \subseteq Nat
ASSUME MaxPacketsAssumption == MaxPackets \in Nat

VARIABLES
  internal_map,   \* text of a tuple -> [tuple, flows], the std::map
  global_dir_id,  \* next id of a flow direction
  packet_table,   \* the packets stored, each with the id of its direction
  num_flows,      \* stats.num_flows
  num_pkts,       \* stats.num_pkts
  now             \* capture time of the latest packet, in ticks

vars == <<internal_map, global_dir_id, packet_table, num_flows, num_pkts, now>>

Packet == [tuple : Tuples, flags : SUBSET Flag, data : BOOLEAN, time : Nat]
Entry == [tuple : Tuples, flows : Seq(FlowType)]
Row == [dir_id : Nat, pkt : Packet]

TypeOK ==
  /\ DOMAIN internal_map \subseteq {to_string(t) : t \in Tuples}
  /\ internal_map \in [DOMAIN internal_map -> Entry]
  /\ global_dir_id \in Nat
  /\ packet_table \in Seq(Row)
  /\ num_flows \in Nat
  /\ num_pkts \in 0..MaxPackets
  /\ now \in Nat

Init ==
  /\ internal_map = [k \in {} |-> {}]
  /\ global_dir_id = 0
  /\ packet_table = <<>>
  /\ num_flows = 0
  /\ num_pkts = 0
  /\ now = 0

-----------------------------------------------------------------------------
(* Finding the entry of a packet. *)

Found(t) == to_string(t) \in DOMAIN internal_map
Known(t) == Found(t) \/ Found(reverse(t))
KeyOf(t) == IF Found(t) THEN to_string(t) ELSE to_string(reverse(t))

\* Mutant: currentTuple is not set from the entry found.
currentTuple_OfPacket(p) == p.tuple

\* iter->first, or the tuple of the packet when neither lookup succeeds.
currentTuple(p) == IF Known(p.tuple) THEN internal_map[KeyOf(p.tuple)].tuple
                                     ELSE p.tuple

\* has_dirA / has_dirB: whatever is not the direction of the tuple is dirB.
Direction(p) == IF p.tuple = currentTuple(p) THEN "A" ELSE "B"

back(s) == s[Len(s)]
LastFlow(p) == back(internal_map[KeyOf(p.tuple)].flows)

\* The outcome of offering p to the latest flow of its tuple, and to a new one.
Offered(p) == handle_packet(LastFlow(p), p, Direction(p))
Tried(p) == handle_packet(Flow(global_dir_id), p, Direction(p))

IsStored(o) == o.decision = "PKT_STORED"

\* Mutant: num_flows counts the first packet of each direction.
Record_CountsDirections(o, p) ==
  IF IsStored(o)
  THEN /\ packet_table' = Append(packet_table,
                            [dir_id |-> o.flow.id[Direction(p)], pkt |-> p])
       /\ num_flows' = IF o.flow.num_packets[Direction(p)] = 1
                         THEN num_flows + 1 ELSE num_flows
  ELSE UNCHANGED <<packet_table, num_flows>>

\* What Flow::add_packet does outside the flow: count it when this is its first
\* packet, and send the row to the database.
Record(o, p) ==
  IF IsStored(o)
  THEN /\ packet_table' = Append(packet_table,
                            [dir_id |-> o.flow.id[Direction(p)], pkt |-> p])
       /\ num_flows' = IF num_packets(o.flow) = 1 THEN num_flows + 1 ELSE num_flows
  ELSE UNCHANGED <<packet_table, num_flows>>

\* Mutant: the new flow replaces the flows before it.
NewFlows_Replace(s, p) == IF IsStored(Tried(p)) THEN <<Tried(p).flow>> ELSE s

\* try_new_flow: the flow is kept only when it stores the packet, but its two
\* direction ids are spent either way.  s are the flows of the tuple so far.
NewFlows(s, p) == IF IsStored(Tried(p)) THEN Append(s, Tried(p).flow) ELSE s

-----------------------------------------------------------------------------
(* map_to_flow: the latest flow keeps or drops the packet, or refuses it and *)
(* a new flow is tried, or the tuple is seen for the first time.             *)

DeliverToLast(p) ==
  /\ Known(p.tuple)
  /\ Offered(p).decision # "PKT_NOT_FOR_ME"
  /\ internal_map' =
       [internal_map EXCEPT ![KeyOf(p.tuple)].flows =
          [@ EXCEPT ![Len(@)] = Offered(p).flow]]
  /\ Record(Offered(p), p)
  /\ UNCHANGED global_dir_id

\* Mutant: a flow takes one id for its two directions.
RetryAsNew_OneId(p) ==
  /\ Known(p.tuple)
  /\ Offered(p).decision = "PKT_NOT_FOR_ME"
  /\ internal_map' =
       [internal_map EXCEPT ![KeyOf(p.tuple)].flows =
          NewFlows([@ EXCEPT ![Len(@)] = Offered(p).flow], p)]
  /\ Record(Tried(p), p)
  /\ global_dir_id' = global_dir_id + 1

RetryAsNew(p) ==
  /\ Known(p.tuple)
  /\ Offered(p).decision = "PKT_NOT_FOR_ME"
  /\ internal_map' =
       [internal_map EXCEPT ![KeyOf(p.tuple)].flows =
          NewFlows([@ EXCEPT ![Len(@)] = Offered(p).flow], p)]
  /\ Record(Tried(p), p)
  /\ global_dir_id' = global_dir_id + 2

\* Mutant: operator[] makes the entry before the flow has stored the packet.
FirstOfTuple_EntryFirst(p) ==
  /\ ~Known(p.tuple)
  /\ internal_map' =
       [k \in DOMAIN internal_map \cup {to_string(p.tuple)} |->
          IF k = to_string(p.tuple)
          THEN [tuple |-> p.tuple, flows |-> NewFlows(<<>>, p)]
          ELSE internal_map[k]]
  /\ Record(Tried(p), p)
  /\ global_dir_id' = global_dir_id + 2

FirstOfTuple(p) ==
  /\ ~Known(p.tuple)
  /\ internal_map' =
       IF IsStored(Tried(p))
       THEN [k \in DOMAIN internal_map \cup {to_string(p.tuple)} |->
               IF k = to_string(p.tuple)
               THEN [tuple |-> p.tuple, flows |-> NewFlows(<<>>, p)]
               ELSE internal_map[k]]
       ELSE internal_map
  /\ Record(Tried(p), p)
  /\ global_dir_id' = global_dir_id + 2

map_to_flow(p) == DeliverToLast(p) \/ RetryAsNew(p) \/ FirstOfTuple(p)

\* The next packet of the trace; the trace may end anywhere.
Next ==
  \E k \in Kinds, gap \in Gaps :
    /\ num_pkts < MaxPackets
    /\ num_pkts' = num_pkts + 1
    /\ now' = now + gap
    /\ map_to_flow([tuple |-> k.tuple, flags |-> k.flags, data |-> k.data,
                    time |-> now + gap])

Spec == Init /\ [][Next]_vars

-----------------------------------------------------------------------------
(* Safety. *)

Keys == DOMAIN internal_map
Flows(k) == internal_map[k].flows
FlowsInMap == UNION {{<<k, i>> : i \in 1..Len(Flows(k))} : k \in Keys}
FlowAt(x) == Flows(x[1])[x[2]]

\* The places in a table of the rows of a flow with these ids, and those of a flow
\* in packet_table; m and n are neighbours when no other place is between them.
RowsIn(table, id) == {n \in 1..Len(table) : \E d \in Dir : table[n].dir_id = id[d]}
Places(f) == RowsIn(packet_table, f.id)
Neighbours(places, m, n) == m < n /\ \A k \in places : k <= m \/ n <= k

\* map_to_flow calls back() on the vector of flows it found, which is undefined
\* behaviour on an empty vector: every entry of the map has a flow, and sits
\* under the text of its own tuple.
BackIsDefined ==
  \A k \in Keys : Flows(k) # <<>> /\ k = to_string(internal_map[k].tuple)

\* A row of the database finds its flow by the direction id alone, and
\* try_new_flow spends ids on flows it throws away and copies flows into a
\* vector: still no two directions in the map share an id, and none has an id
\* that a later direction will be given.
DirIdsUnique ==
  \A k, l \in Keys : \A i \in 1..Len(Flows(k)), j \in 1..Len(Flows(l)) : \A d, e \in Dir :
    /\ Flows(k)[i].id[d] < global_dir_id
    /\ Flows(k)[i].id[d] = Flows(l)[j].id[e] => k = l /\ i = j /\ d = e

\* add_packet writes the row before try_new_flow decides whether the flow is
\* kept: every row belongs to a flow of the map, and every direction has exactly
\* as many rows as its packet counter says.
RowsMatchCounters ==
  /\ \A i \in 1..Len(packet_table) : \E x \in FlowsInMap : \E d \in Dir :
       FlowAt(x).id[d] = packet_table[i].dir_id
  /\ \A x \in FlowsInMap : \A d \in Dir :
       FlowAt(x).num_packets[d] =
         Cardinality({i \in 1..Len(packet_table) :
                        packet_table[i].dir_id = FlowAt(x).id[d]})

\* "It follows that all packets seen will have either the direction of the tuple
\* (dirA) or the opposite (dirB)" (Packet.cpp): a packet stored in direction A of
\* a flow carries the flow's tuple, one stored in direction B its reverse.
DirectionsMatch ==
  \A k \in Keys : \A i \in 1..Len(Flows(k)), n \in 1..Len(packet_table) :
    LET f == Flows(k)[i]
        r == packet_table[n]
    IN  /\ r.dir_id = f.id["A"] => r.pkt.tuple = internal_map[k].tuple
        /\ r.dir_id = f.id["B"] => r.pkt.tuple = reverse(internal_map[k].tuple)

\* A SYN is a sync point: within a flow it is the first packet, or it is the
\* second and answers, with ACK, a plain SYN of the other direction.  So a flow
\* never mixes two handshakes of a reused tuple.  (A SYN with FIN counts as FIN.)
HandshakeFirst ==
  \A x \in FlowsInMap :
    LET places == Places(FlowAt(x))
        r == packet_table
        Plain(n) == "ACK" \notin r[n].pkt.flags
    IN  \A n \in places : Decisive(r[n].pkt) = "SYN" =>
          \/ \A k \in places : n <= k
          \/ \E m \in places :
               /\ {k \in places : k < n} = {m}
               /\ Decisive(r[m].pkt) = "SYN" /\ Plain(m) /\ ~Plain(n)
               /\ r[m].dir_id # r[n].dir_id

\* "SYN ... data ... RST done" (FlowState.h): nothing is stored in a flow after a
\* reset, whatever the peers still send on the tuple.
ResetIsFinal ==
  \A x \in FlowsInMap :
    LET places == Places(FlowAt(x))
    IN  \A m, n \in places : Decisive(packet_table[m].pkt) = "RST" => n <= m

\* "FIN ... data ... FIN" ends a flow (FlowState.h), but a regular packet takes a
\* half-closed flow back to ESTABLISHED "either way" (FlowState.cpp): it is ended by
\* the FINs of both directions if it stores nothing in between but FINs, and then it
\* is closed for good.
FinsInARowClose ==
  \A x \in FlowsInMap :
    LET f == FlowAt(x)
        places == Places(f)
        r == packet_table
    IN  \A m, n \in places :
          /\ Neighbours(places, m, n) /\ r[m].dir_id # r[n].dir_id
          /\ Decisive(r[m].pkt) = "FIN" /\ Decisive(r[n].pkt) = "FIN"
          => f.state = "CLOSED" /\ \A k \in places : k <= n

\* HANG_UP "if no new data for some time" (FlowState.h): two neighbouring packets
\* of a flow are never further apart than the timeout, unless by so much that
\* the packed clock has wrapped in between.
IdleFlowsHangUp ==
  TIMEOUT > 0 =>
    \A x \in FlowsInMap :
      LET places == Places(FlowAt(x))
      IN  \A m, n \in places : Neighbours(places, m, n) =>
            LET idle == packet_table[n].pkt.time - packet_table[m].pkt.time
            IN  idle <= TIMEOUT \/ idle >= WRAP

\* A flow gives way to a new flow of its tuple only after an end of it was seen:
\* it is closed, or half closed.
SupersededFlowsEnded ==
  \A k \in Keys : \A i \in 1..(Len(Flows(k)) - 1) :
    Flows(k)[i].state \in Ended

-----------------------------------------------------------------------------
(* Action properties. *)

\* Only the latest flow of a tuple is ever offered a packet, and a closed one
\* refuses it: an earlier or closed flow never changes, and none is lost.
FrozenUnchanged ==
  \A k \in Keys :
    /\ k \in Keys'
    /\ Len(Flows(k)') >= Len(Flows(k))
    /\ \A i \in 1..Len(Flows(k)) :
         (i < Len(Flows(k)) \/ Flows(k)[i].state = "CLOSED")
           => Flows(k)'[i] = Flows(k)[i]
EndedFlowsFrozen == [][FrozenUnchanged]_vars

-----------------------------------------------------------------------------
(* The abstract specification: what module ConversationLog promises. *)

StoredTuples == [n \in 1..Len(packet_table) |-> packet_table[n].pkt.tuple]

Conversations ==
  [k \in Keys |-> [i \in 1..Len(Flows(k)) |-> RowsIn(packet_table, Flows(k)[i].id)]]
Finished == {k \in Keys : back(Flows(k)).state = "CLOSED"}

Names(t) == {to_string(t), to_string(reverse(t))}
Promise == INSTANCE ConversationLog WITH
  Packet <- Tuples, stored <- StoredTuples, conversations <- Conversations,
  over <- Finished, total <- num_flows

\* Whoever reads the database finds a conversation by the ids of its two directions:
\* read that way, the rows are divided into conversations that only grow at their
\* end, one after the other for each connection, and print_stats reports their number.
\* No row is in two of them or in none, although the direction ids are spent, the row
\* written and the flow counted before it is decided whether the flow is kept.
KeepsThePromise == Promise!Spec

=============================================================================
