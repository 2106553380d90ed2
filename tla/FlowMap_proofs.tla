---------------------------- MODULE FlowMap_proofs ----------------------------
(***************************************************************************)
(* Theorems about the flow map, for every trace and every value of the     *)
(* constants, over lemmas on the handlers of a flow (module Flow): its     *)
(* entries and ids, the rows it hands to the database, the conversations a *)
(* reader finds in them (it implements ConversationLog), and what the      *)
(* packets of one conversation are: how it begins, what ends it, and when  *)
(* it is given up.                                                         *)
(***************************************************************************)
EXTENDS FlowMap, SequenceTheorems, FiniteSetTheorems, TLAPS

-----------------------------------------------------------------------------
(* What a flow does with one packet, for every flow, packet and direction. *)

\* What the handlers read of a packet.
Segment(p) ==
  /\ p.flags \in SUBSET Flag
  /\ p.data \in BOOLEAN
  /\ p.time \in Nat

\* The constructor yields a well-formed, empty flow with the next two ids.
LEMMA NewFlowType ==
  ASSUME NEW n \in Nat
  PROVE  /\ Flow(n) \in FlowType
         /\ Flow(n).id["A"] = n /\ Flow(n).id["B"] = n + 1
         /\ Flow(n).state = "UNKNOWN_STATE"
         /\ num_packets(Flow(n)) = 0
  BY SMT DEF Flow, FlowType, Dir, State, num_packets

LEMMA OffsetType ==
  ASSUME NEW p, Segment(p)
  PROVE  t_off(p) \in Nat
  BY WrapAssumption, SMT DEF Segment, t_off

\* add_packet keeps a flow well formed and leaves its ids and state alone.
LEMMA AddPacketType ==
  ASSUME NEW f \in FlowType, NEW p, Segment(p), NEW d \in Dir
  PROVE  /\ add_packet(f, p, d) \in FlowType
         /\ add_packet(f, p, d).id = f.id
         /\ add_packet(f, p, d).state = f.state
         /\ num_packets(add_packet(f, p, d)) = num_packets(f) + 1
<1> DEFINE g == add_packet(f, p, d)
           n == [f.num_packets EXCEPT ![d] = @ + 1]
<1>1. t_off(p) \in Nat
  BY OffsetType
<1>2. f.num_packets \in [Dir -> Nat]
  BY DEF FlowType
<1>3. n \in [Dir -> Nat] /\ n["A"] + n["B"] = f.num_packets["A"] + f.num_packets["B"] + 1
  BY <1>2, SMT DEF Dir
<1>4. g = [f EXCEPT !.num_packets = n, !.last_packet_time_offset = t_off(p)]
  BY DEF add_packet, FlowType
<1>5. g \in FlowType /\ g.id = f.id /\ g.state = f.state /\ g.num_packets = n
  BY <1>1, <1>3, <1>4 DEF FlowType
<1> QED
  BY <1>3, <1>5 DEF num_packets

LEMMA SetStateType ==
  ASSUME NEW f \in FlowType, NEW s \in State
  PROVE  /\ set_state(f, s) \in FlowType
         /\ set_state(f, s).id = f.id
         /\ set_state(f, s).state = s
         /\ num_packets(set_state(f, s)) = num_packets(f)
<1>1. /\ set_state(f, s) \in FlowType /\ set_state(f, s).id = f.id
      /\ set_state(f, s).state = s /\ set_state(f, s).num_packets = f.num_packets
  BY DEF set_state, FlowType
<1> QED
  BY <1>1 DEF num_packets

\* The flow of an outcome is well formed and has kept the direction ids of f; it
\* has one packet more and is past its first state if the packet was stored, is
\* untouched if it was dropped, and has ended if the packet was refused: then it has
\* just been closed, or is as it was.
GoodOutcome(o, f) ==
  /\ o.decision \in pkt_decision
  /\ o.flow \in FlowType
  /\ o.flow.id = f.id
  /\ o.decision = "PKT_STORED" =>
       /\ o.flow.state # "UNKNOWN_STATE"
       /\ num_packets(o.flow) = num_packets(f) + 1
  /\ o.decision = "PKT_DROPPED" => o.flow = f
  /\ o.decision = "PKT_NOT_FOR_ME" =>
       /\ o.flow.state \in Ended
       /\ num_packets(o.flow) = num_packets(f)
       /\ o.flow.state = "CLOSED" \/ o.flow = f

LEMMA DroppedGood ==
  ASSUME NEW f \in FlowType
  PROVE  GoodOutcome(Dropped(f), f)
  BY DEF GoodOutcome, Dropped, pkt_decision

LEMMA RefusedGood ==
  ASSUME NEW f \in FlowType
  PROVE  GoodOutcome(NotForMe(set_state(f, "CLOSED")), f)
  BY SetStateType DEF GoodOutcome, NotForMe, pkt_decision, Ended, State

\* g is f after the handler changed its state, before add_packet.
LEMMA StoredGood ==
  ASSUME NEW f \in FlowType, NEW g \in FlowType, g.id = f.id,
         g.state # "UNKNOWN_STATE", num_packets(g) = num_packets(f),
         NEW p, Segment(p), NEW d \in Dir
  PROVE  GoodOutcome(Stored(g, p, d), f)
<1>1. Stored(g, p, d).decision = "PKT_STORED" /\ Stored(g, p, d).flow = add_packet(g, p, d)
  BY DEF Stored
<1> QED
  BY <1>1, AddPacketType DEF GoodOutcome, pkt_decision

LEMMA StoredInStateGood ==
  ASSUME NEW f \in FlowType, NEW s \in State \ {"UNKNOWN_STATE"},
         NEW p, Segment(p), NEW d \in Dir
  PROVE  GoodOutcome(Stored(set_state(f, s), p, d), f)
  BY SetStateType, StoredGood

\* The shared handlers.
LEMMA SharedHandlersGood ==
  ASSUME NEW f \in FlowType, NEW p, Segment(p), NEW d \in Dir
  PROVE  /\ GoodOutcome(handle_FIN(f, p, d), f)
         /\ GoodOutcome(handle_RST(f, p, d), f)
         /\ GoodOutcome(handle_regular_pkts(f, p, d), f)
         /\ GoodOutcome(StoreSYN(f, p, d), f)
<1>1. GoodOutcome(handle_FIN(f, p, d), f)
  <2>1. ClosedState(d) \in State \ {"UNKNOWN_STATE"} /\ "CLOSED" \in State \ {"UNKNOWN_STATE"}
    BY DEF ClosedState, State
  <2> QED
    BY <2>1, DroppedGood, StoredInStateGood DEF handle_FIN
<1>2. GoodOutcome(handle_RST(f, p, d), f)
  BY DroppedGood, StoredInStateGood DEF handle_RST, State
<1>3. GoodOutcome(handle_regular_pkts(f, p, d), f)
  BY DroppedGood, StoredInStateGood DEF handle_regular_pkts, State
<1>4. GoodOutcome(StoreSYN(f, p, d), f)
  <2> DEFINE G(s, x) == [f EXCEPT !.state = s, !.additional_state = @ \cup {<<d, x>>}]
  <2>1. ASSUME NEW s \in {"OPENING", "ESTABLISHED"}, NEW x \in {"SYN", "SYNACK"}
        PROVE  GoodOutcome(Stored(G(s, x), p, d), f)
    <3>1. <<d, x>> \in SynSeen
      BY DEF SynSeen
    <3>2. /\ G(s, x) \in FlowType /\ G(s, x).id = f.id /\ G(s, x).state = s
          /\ G(s, x).num_packets = f.num_packets
      BY <3>1 DEF FlowType, State
    <3>3. num_packets(G(s, x)) = num_packets(f)
      BY <3>2 DEF num_packets
    <3> HIDE DEF G
    <3> QED
      BY <3>2, <3>3, StoredGood
  <2> QED
    BY <2>1 DEF StoreSYN
<1> QED
  BY <1>1, <1>2, <1>3, <1>4

\* Every state treats the flow and the packet as GoodOutcome says.
LEMMA StatesGood ==
  ASSUME NEW f \in FlowType, NEW p, Segment(p), NEW d \in Dir
  PROVE  GoodOutcome(HandleInState(f, p, d), f)
<1>1. GoodOutcome(NotForMe(set_state(f, "CLOSED")), f)
  BY RefusedGood
<1>2. ASSUME f.state \in Ended
      PROVE  GoodOutcome(NotForMe(f), f)
  BY <1>2 DEF GoodOutcome, NotForMe, pkt_decision
<1>3. Decisive(p) \in {"FIN", "SYN", "RST", "none"}
  BY DEF Decisive
<1>4. GoodOutcome(Unknown_State(f, p, d), f)
  BY DroppedGood, SharedHandlersGood DEF Unknown_State
<1>5. GoodOutcome(Opening(f, p, d), f)
  BY <1>1, <1>3, SharedHandlersGood DEF Opening
<1>6. GoodOutcome(Established(f, p, d), f)
  BY <1>1, <1>3, SharedHandlersGood DEF Established
<1>7. ASSUME NEW c \in Dir, f.state = ClosedState(c)
      PROVE  GoodOutcome(Dir_Closed(c, f, p, d), f)
  <2>1. GoodOutcome(NotForMe(f), f)
    BY <1>2, <1>7 DEF ClosedState, Ended
  <2> QED
    BY <2>1, <1>1, <1>3, DroppedGood, SharedHandlersGood DEF Dir_Closed
<1>8. f.state = "CLOSED" => GoodOutcome(Closed(f), f)
  BY <1>2 DEF Closed, Ended
<1>9. f.state = "DIR_A_CLOSED" => GoodOutcome(Dir_Closed("A", f, p, d), f)
  BY <1>7 DEF ClosedState, Dir
<1>10. f.state = "DIR_B_CLOSED" => GoodOutcome(Dir_Closed("B", f, p, d), f)
  BY <1>7 DEF ClosedState, Dir
<1>11. f.state \in State
  BY DEF FlowType
<1> QED
  BY <1>4, <1>5, <1>6, <1>8, <1>9, <1>10, <1>11 DEF HandleInState, State

LEMMA HandlePacketGood ==
  ASSUME NEW f \in FlowType, NEW p, Segment(p), NEW d \in Dir
  PROVE  GoodOutcome(handle_packet(f, p, d), f)
  BY StatesGood, RefusedGood DEF handle_packet

\* A closed flow takes nothing, and is left as it was.
LEMMA ClosedRefuses ==
  ASSUME NEW f \in FlowType, f.state = "CLOSED", NEW p, NEW d
  PROVE  handle_packet(f, p, d) = NotForMe(f)
<1>1. set_state(f, "CLOSED") = f
  BY DEF set_state, FlowType
<1>2. HandleInState(f, p, d) = NotForMe(f)
  BY DEF HandleInState, Closed
<1> QED
  BY <1>1, <1>2 DEF handle_packet

\* A flow tried for a packet it stores is open.
LEMMA NewFlowOpens ==
  ASSUME NEW n \in Nat, NEW p, Segment(p), NEW d \in Dir,
         handle_packet(Flow(n), p, d).decision = "PKT_STORED"
  PROVE  /\ handle_packet(Flow(n), p, d).flow.state # "CLOSED"
         /\ num_packets(handle_packet(Flow(n), p, d).flow) = 1
<1> DEFINE f == Flow(n)
<1>1. /\ f \in FlowType /\ f.state = "UNKNOWN_STATE" /\ num_packets(f) = 0
  BY NewFlowType
<1>2. handle_packet(f, p, d) = Unknown_State(f, p, d)
  BY <1>1 DEF handle_packet, TimedOut, HandleInState
<1>3. num_packets(handle_packet(f, p, d).flow) = 1
  BY <1>1, HandlePacketGood DEF GoodOutcome
<1> HIDE DEF f
<1>4. ASSUME NEW g \in FlowType, g.state # "CLOSED"
      PROVE  Stored(g, p, d).flow.state # "CLOSED"
  BY <1>4, AddPacketType DEF Stored
<1>5. CASE Unknown_State(f, p, d) = handle_regular_pkts(f, p, d)
  <2>1. set_state(f, "ESTABLISHED") \in FlowType /\ set_state(f, "ESTABLISHED").state # "CLOSED"
    BY <1>1, SetStateType DEF State
  <2>2. handle_regular_pkts(f, p, d).decision = "PKT_STORED"
    BY <1>2, <1>5 DEF f
  <2>3. handle_regular_pkts(f, p, d) = Stored(set_state(f, "ESTABLISHED"), p, d)
    BY <2>2 DEF handle_regular_pkts, Dropped
  <2> QED
    BY <1>2, <1>4, <1>5, <2>1, <2>3, <1>3 DEF f
<1>6. CASE Unknown_State(f, p, d) = StoreSYN(f, p, d)
  <2> DEFINE G(s, x) == [f EXCEPT !.state = s, !.additional_state = @ \cup {<<d, x>>}]
  <2>1. ASSUME NEW s \in {"OPENING", "ESTABLISHED"}, NEW x \in {"SYN", "SYNACK"}
        PROVE  G(s, x) \in FlowType /\ G(s, x).state # "CLOSED"
    <3>1. <<d, x>> \in SynSeen
      BY DEF SynSeen
    <3> QED
      BY <1>1, <3>1 DEF FlowType, State
  <2>2. PICK s \in {"OPENING", "ESTABLISHED"}, x \in {"SYN", "SYNACK"} :
          StoreSYN(f, p, d) = Stored(G(s, x), p, d)
    BY DEF StoreSYN
  <2> HIDE DEF G
  <2> QED
    BY <1>2, <1>3, <1>4, <1>6, <2>1, <2>2 DEF f
<1>7. CASE Unknown_State(f, p, d) = Dropped(f)
  BY <1>2, <1>7 DEF Dropped, f
<1> QED
  BY <1>5, <1>6, <1>7 DEF Unknown_State, f

\* A packet is counted in its direction if it is stored, and else not at all.
Counts(o, f, d) ==
  o.flow.num_packets =
    IF o.decision = "PKT_STORED" THEN [f.num_packets EXCEPT ![d] = @ + 1] ELSE f.num_packets

LEMMA StoredCounts ==
  ASSUME NEW f \in FlowType, NEW g \in FlowType, g.num_packets = f.num_packets, NEW p, NEW d \in Dir
  PROVE  Counts(Stored(g, p, d), f, d)
<1>1. add_packet(g, p, d).num_packets = [g.num_packets EXCEPT ![d] = @ + 1]
  BY DEF add_packet, FlowType
<1> QED
  BY <1>1 DEF Counts, Stored

\* An outcome of f that only changes its state.
LEMMA StateOnlyCounts ==
  ASSUME NEW f \in FlowType, NEW s \in State, NEW p, NEW d \in Dir
  PROVE  /\ Counts(Dropped(f), f, d)
         /\ Counts(NotForMe(f), f, d)
         /\ Counts(NotForMe(set_state(f, s)), f, d)
         /\ Counts(Stored(set_state(f, s), p, d), f, d)
<1>1. set_state(f, s) \in FlowType /\ set_state(f, s).num_packets = f.num_packets
  BY DEF set_state, FlowType
<1> QED
  BY <1>1, StoredCounts DEF Counts, Dropped, NotForMe

LEMMA SharedHandlersCount ==
  ASSUME NEW f \in FlowType, NEW p, NEW d \in Dir
  PROVE  /\ Counts(handle_FIN(f, p, d), f, d)
         /\ Counts(handle_RST(f, p, d), f, d)
         /\ Counts(handle_regular_pkts(f, p, d), f, d)
         /\ Counts(StoreSYN(f, p, d), f, d)
<1>1. ClosedState(d) \in State /\ "CLOSED" \in State /\ "ESTABLISHED" \in State
  BY DEF ClosedState, State
<1>2. /\ Counts(handle_FIN(f, p, d), f, d)
      /\ Counts(handle_RST(f, p, d), f, d)
      /\ Counts(handle_regular_pkts(f, p, d), f, d)
  BY <1>1, StateOnlyCounts DEF handle_FIN, handle_RST, handle_regular_pkts
<1>3. ASSUME NEW s \in {"OPENING", "ESTABLISHED"}, NEW x \in {"SYN", "SYNACK"},
             NEW g, g = [f EXCEPT !.state = s, !.additional_state = @ \cup {<<d, x>>}]
      PROVE  Counts(Stored(g, p, d), f, d)
  <2>1. <<d, x>> \in SynSeen
    BY DEF SynSeen
  <2>2. g \in FlowType /\ g.num_packets = f.num_packets
    BY <1>3, <2>1 DEF FlowType, State
  <2> QED
    BY <2>2, StoredCounts
<1> QED
  BY <1>2, <1>3 DEF StoreSYN

LEMMA StatesCount ==
  ASSUME NEW f \in FlowType, NEW p, NEW d \in Dir
  PROVE  Counts(HandleInState(f, p, d), f, d)
<1>0. "CLOSED" \in State /\ f.state \in State
  BY DEF State, FlowType
<1>1. /\ Counts(Dropped(f), f, d) /\ Counts(NotForMe(f), f, d)
      /\ Counts(NotForMe(set_state(f, "CLOSED")), f, d)
  BY <1>0, StateOnlyCounts
<1>2. Decisive(p) \in {"FIN", "SYN", "RST", "none"}
  BY DEF Decisive
<1>3. Counts(Unknown_State(f, p, d), f, d)
  BY <1>1, SharedHandlersCount DEF Unknown_State
<1>4. Counts(Opening(f, p, d), f, d)
  BY <1>1, <1>2, SharedHandlersCount DEF Opening
<1>5. Counts(Established(f, p, d), f, d)
  BY <1>1, <1>2, SharedHandlersCount DEF Established
<1>6. \A c : Counts(Dir_Closed(c, f, p, d), f, d)
  BY <1>1, <1>2, SharedHandlersCount DEF Dir_Closed
<1> QED
  BY <1>0, <1>1, <1>3, <1>4, <1>5, <1>6 DEF HandleInState, State, Closed

LEMMA HandlePacketCounts ==
  ASSUME NEW f \in FlowType, NEW p, NEW d \in Dir
  PROVE  Counts(handle_packet(f, p, d), f, d)
<1>1. Counts(NotForMe(set_state(f, "CLOSED")), f, d)
  BY StateOnlyCounts DEF State
<1> QED
  BY <1>1, StatesCount DEF handle_packet

-----------------------------------------------------------------------------
(* What a flow must be to store a packet, and what it is then: the lemma    *)
(* behind the properties of the packets of a flow.                          *)

PlainSYN(p) == Decisive(p) = "SYN" /\ "ACK" \notin p.flags

\* If the packet is stored, the flow was not closed, and is no longer unknown; a
\* reset has closed it; a FIN has closed the direction, or the flow if the other
\* direction was closed; a SYN is the first packet, or the answer to a SYN of the
\* other direction; and the flow is opening only after a plain SYN as first packet.
StoresDuly(o, f, p, d) ==
  o.decision = "PKT_STORED" =>
    /\ f.state # "CLOSED" /\ o.flow.state # "UNKNOWN_STATE"
    /\ o.flow.last_packet_time_offset = t_off(p)
    /\ Decisive(p) = "RST" => o.flow.state = "CLOSED"
    /\ Decisive(p) = "FIN" =>
         o.flow.state = IF f.state = ClosedState(Opposite(d)) THEN "CLOSED" ELSE ClosedState(d)
    /\ Decisive(p) = "SYN" =>
         \/ f.state = "UNKNOWN_STATE"
         \/ f.state = "OPENING" /\ "ACK" \in p.flags /\ <<d, "SYN">> \notin f.additional_state
    /\ o.flow.state = "OPENING" =>
         /\ f.state = "UNKNOWN_STATE" /\ PlainSYN(p)
         /\ o.flow.additional_state = f.additional_state \cup {<<d, "SYN">>}

\* A packet that is not stored leaves the flow as it was, or closes it.
OnlyCloses(o, f) == o.decision # "PKT_STORED" => o.flow \in {f, set_state(f, "CLOSED")}

LEMMA NotStored ==
  ASSUME NEW f, NEW p, NEW d
  PROVE  /\ StoresDuly(Dropped(f), f, p, d) /\ OnlyCloses(Dropped(f), f)
         /\ StoresDuly(NotForMe(f), f, p, d) /\ OnlyCloses(NotForMe(f), f)
         /\ StoresDuly(NotForMe(set_state(f, "CLOSED")), f, p, d)
         /\ OnlyCloses(NotForMe(set_state(f, "CLOSED")), f)
  BY DEF StoresDuly, OnlyCloses, Dropped, NotForMe

LEMMA StoredFields ==
  ASSUME NEW f \in FlowType, NEW g \in FlowType, NEW p, NEW d
  PROVE  /\ Stored(g, p, d).decision = "PKT_STORED"
         /\ Stored(g, p, d).flow.state = g.state
         /\ Stored(g, p, d).flow.additional_state = g.additional_state
         /\ Stored(g, p, d).flow.last_packet_time_offset = t_off(p)
         /\ OnlyCloses(Stored(g, p, d), f)
  BY DEF Stored, add_packet, FlowType, OnlyCloses

\* The handlers the states share, called in a state that accepts the packet.
LEMMA SharedHandlersStoreDuly ==
  ASSUME NEW f \in FlowType, f.state # "CLOSED", NEW p, NEW d \in Dir
  PROVE  /\ Decisive(p) = "FIN" => StoresDuly(handle_FIN(f, p, d), f, p, d)
         /\ Decisive(p) = "RST" => StoresDuly(handle_RST(f, p, d), f, p, d)
         /\ Decisive(p) = "none" => StoresDuly(handle_regular_pkts(f, p, d), f, p, d)
         /\ OnlyCloses(handle_FIN(f, p, d), f) /\ OnlyCloses(handle_RST(f, p, d), f)
         /\ OnlyCloses(handle_regular_pkts(f, p, d), f)
<1>1. ASSUME NEW s \in State
      PROVE  /\ Stored(set_state(f, s), p, d).decision = "PKT_STORED"
             /\ Stored(set_state(f, s), p, d).flow.state = s
             /\ Stored(set_state(f, s), p, d).flow.last_packet_time_offset = t_off(p)
             /\ OnlyCloses(Stored(set_state(f, s), p, d), f)
  BY SetStateType, StoredFields
<1>2. /\ ClosedState(d) \in State \ {"UNKNOWN_STATE", "OPENING"} /\ "CLOSED" \in State
      /\ "ESTABLISHED" \in State
  BY DEF ClosedState, State
<1>3. ASSUME NEW s \in State \ {"UNKNOWN_STATE", "OPENING"}, Decisive(p) # "SYN",
             Decisive(p) = "RST" => s = "CLOSED",
             Decisive(p) = "FIN" =>
               s = IF f.state = ClosedState(Opposite(d)) THEN "CLOSED" ELSE ClosedState(d)
      PROVE  StoresDuly(Stored(set_state(f, s), p, d), f, p, d)
  BY <1>1, <1>3 DEF StoresDuly
<1>4. Decisive(p) = "FIN" => StoresDuly(handle_FIN(f, p, d), f, p, d)
  <2>1. CASE f.state = ClosedState(Opposite(d))
    <3>1. Decisive(p) = "FIN" => StoresDuly(Stored(set_state(f, "CLOSED"), p, d), f, p, d)
      BY <1>2, <1>3, <2>1
    <3> QED
      BY <2>1, <3>1, NotStored DEF handle_FIN
  <2>2. CASE f.state # ClosedState(Opposite(d))
    <3>1. Decisive(p) = "FIN" => StoresDuly(Stored(set_state(f, ClosedState(d)), p, d), f, p, d)
      BY <1>2, <1>3, <2>2
    <3> QED
      BY <2>2, <3>1, NotStored DEF handle_FIN
  <2> QED
    BY <2>1, <2>2
<1>5. Decisive(p) = "RST" => StoresDuly(handle_RST(f, p, d), f, p, d)
  <2>1. Decisive(p) = "RST" => StoresDuly(Stored(set_state(f, "CLOSED"), p, d), f, p, d)
    BY <1>2, <1>3
  <2> QED
    BY <2>1, NotStored DEF handle_RST
<1>6. Decisive(p) = "none" => StoresDuly(handle_regular_pkts(f, p, d), f, p, d)
  <2>1. Decisive(p) = "none" => StoresDuly(Stored(set_state(f, "ESTABLISHED"), p, d), f, p, d)
    BY <1>2, <1>3
  <2> QED
    BY <2>1, NotStored DEF handle_regular_pkts
<1>7. /\ OnlyCloses(handle_FIN(f, p, d), f) /\ OnlyCloses(handle_RST(f, p, d), f)
      /\ OnlyCloses(handle_regular_pkts(f, p, d), f)
  BY <1>1, <1>2, NotStored DEF handle_FIN, handle_RST, handle_regular_pkts
<1> QED
  BY <1>4, <1>5, <1>6, <1>7

LEMMA StoreSYNStoresDuly ==
  ASSUME NEW f \in FlowType, NEW p, Decisive(p) = "SYN", NEW d \in Dir,
         \/ f.state = "UNKNOWN_STATE"
         \/ f.state = "OPENING" /\ "ACK" \in p.flags /\ <<d, "SYN">> \notin f.additional_state
  PROVE  StoresDuly(StoreSYN(f, p, d), f, p, d) /\ OnlyCloses(StoreSYN(f, p, d), f)
<1> DEFINE G(s, x) == [f EXCEPT !.state = s, !.additional_state = @ \cup {<<d, x>>}]
<1>1. ASSUME NEW s \in {"OPENING", "ESTABLISHED"}, NEW x \in {"SYN", "SYNACK"}
      PROVE  /\ G(s, x) \in FlowType /\ G(s, x).state = s
             /\ G(s, x).additional_state = f.additional_state \cup {<<d, x>>}
  <2>1. <<d, x>> \in SynSeen
    BY DEF SynSeen
  <2> QED
    BY <2>1 DEF FlowType, State
<1>2. StoreSYN(f, p, d) = IF "ACK" \in p.flags THEN Stored(G("ESTABLISHED", "SYNACK"), p, d)
                                               ELSE Stored(G("OPENING", "SYN"), p, d)
  BY DEF StoreSYN
<1> HIDE DEF G
<1>3. CASE "ACK" \in p.flags
  <2>1. G("ESTABLISHED", "SYNACK") \in FlowType /\ G("ESTABLISHED", "SYNACK").state = "ESTABLISHED"
    BY <1>1
  <2> QED
    BY <1>2, <1>3, <2>1, StoredFields DEF StoresDuly
<1>4. CASE "ACK" \notin p.flags
  <2>1. /\ G("OPENING", "SYN") \in FlowType /\ G("OPENING", "SYN").state = "OPENING"
        /\ G("OPENING", "SYN").additional_state = f.additional_state \cup {<<d, "SYN">>}
    BY <1>1
  <2> QED
    BY <1>2, <1>4, <2>1, StoredFields DEF StoresDuly, PlainSYN
<1> QED
  BY <1>3, <1>4

\* Flow::handle_packet, in whatever state the flow is.
LEMMA HandlePacketStoresDuly ==
  ASSUME NEW f \in FlowType, NEW p, NEW d \in Dir
  PROVE  /\ StoresDuly(handle_packet(f, p, d), f, p, d)
         /\ OnlyCloses(handle_packet(f, p, d), f)
         /\ handle_packet(f, p, d).decision = "PKT_STORED" => ~TimedOut(f, p)
<1> DEFINE Duly(o) == StoresDuly(o, f, p, d) /\ OnlyCloses(o, f)
<1>1. /\ Duly(Dropped(f)) /\ Duly(NotForMe(f)) /\ Duly(NotForMe(set_state(f, "CLOSED")))
  BY NotStored
<1>2. Decisive(p) \in {"FIN", "SYN", "RST", "none"}
  BY DEF Decisive
<1>3. f.state # "CLOSED" =>
        /\ Decisive(p) = "FIN" => Duly(handle_FIN(f, p, d))
        /\ Decisive(p) = "RST" => Duly(handle_RST(f, p, d))
        /\ Decisive(p) = "none" => Duly(handle_regular_pkts(f, p, d))
  BY SharedHandlersStoreDuly
<1>4. Decisive(p) = "SYN" /\ f.state = "UNKNOWN_STATE" => Duly(StoreSYN(f, p, d))
  BY StoreSYNStoresDuly
<1>5. /\ Decisive(p) = "SYN" /\ f.state = "OPENING"
      /\ "ACK" \in p.flags /\ <<d, "SYN">> \notin f.additional_state
      => Duly(StoreSYN(f, p, d))
  BY StoreSYNStoresDuly
<1> HIDE DEF Duly
<1>6. f.state = "UNKNOWN_STATE" => Duly(Unknown_State(f, p, d))
  <2>1. p.flags \cap {"FIN", "RST"} = {} =>
          Decisive(p) = IF "SYN" \in p.flags THEN "SYN" ELSE "none"
    BY DEF Decisive
  <2> QED
    BY <1>1, <1>3, <1>4, <2>1 DEF Unknown_State
<1>7. f.state = "OPENING" => Duly(Opening(f, p, d))
  BY <1>1, <1>2, <1>3, <1>5 DEF Opening
<1>8. f.state # "CLOSED" => Duly(Established(f, p, d))
  BY <1>1, <1>2, <1>3 DEF Established
<1>9. f.state # "CLOSED" => \A c : Duly(Dir_Closed(c, f, p, d))
  BY <1>1, <1>2, <1>3 DEF Dir_Closed
<1>10. f.state \in State
  BY DEF FlowType
<1>11. Duly(HandleInState(f, p, d))
  BY <1>1, <1>6, <1>7, <1>8, <1>9, <1>10 DEF HandleInState, State, Closed
<1>12. Duly(handle_packet(f, p, d))
  BY <1>1, <1>11 DEF handle_packet
<1>13. handle_packet(f, p, d).decision = "PKT_STORED" => ~TimedOut(f, p)
  BY DEF handle_packet, NotForMe
<1> QED
  BY <1>12, <1>13 DEF Duly

-----------------------------------------------------------------------------
(* The packed clock. *)

\* A remainder is the only one.
LEMMA RemainderOnly ==
  ASSUME NEW n \in Nat \ {0}, NEW x \in Nat, NEW q \in Nat, NEW r \in 0..(n - 1), x = n * q + r
  PROVE  x % n = r
<1> DEFINE p == x \div n
           s == x % n
<1>1. p \in Nat /\ s \in 0..(n - 1) /\ x = n * p + s
  BY SMT
<1> SUFFICES s = r
  OBVIOUS
<1> HIDE DEF p, s
<1>2. n * (p - q) = r - s
  BY <1>1, SMT
<1>3. ~(p - q >= 1) /\ ~(q - p >= 1)
  BY <1>1, <1>2, SMT
<1> QED
  BY <1>1, <1>2, <1>3, SMT

\* Times less than a turn of the clock apart: their distance is read exactly.
LEMMA ElapsedExact ==
  ASSUME NEW x \in Nat, NEW y \in Nat, y <= x, x - y < WRAP
  PROVE  Elapsed(x % WRAP, y % WRAP) = x - y
<1>1. WRAP \in Nat \ {0}
  BY WrapAssumption
<1> DEFINE p == x \div WRAP
           q == y \div WRAP
           r == x % WRAP
           s == y % WRAP
<1>2. p \in Nat /\ r \in 0..(WRAP - 1) /\ x = WRAP * p + r
  BY <1>1, SMT
<1>3. q \in Nat /\ s \in 0..(WRAP - 1) /\ y = WRAP * q + s
  BY <1>1, SMT
<1> SUFFICES (r + WRAP - s) % WRAP = x - y
  BY DEF Elapsed
<1> HIDE DEF p, q, r, s
<1>4. WRAP * (p - q) = (x - y) - (r - s)
  BY <1>1, <1>2, <1>3, SMT
<1>5. ~(q - p >= 1) /\ ~(p - q >= 2)
  BY <1>1, <1>2, <1>3, <1>4, SMT
<1>6. CASE p - q = 0
  <2>1. r + WRAP - s = WRAP * 1 + (x - y) /\ x - y \in 0..(WRAP - 1)
    BY <1>1, <1>2, <1>3, <1>4, <1>6, SMT
  <2> QED
    BY <1>1, <2>1, RemainderOnly, SMT
<1>7. CASE p - q = 1
  <2>1. r + WRAP - s = WRAP * 0 + (x - y) /\ x - y \in 0..(WRAP - 1)
    BY <1>1, <1>2, <1>3, <1>4, <1>7, SMT
  <2> QED
    BY <1>1, <2>1, RemainderOnly, SMT
<1> QED
  BY <1>2, <1>3, <1>5, <1>6, <1>7, SMT

-----------------------------------------------------------------------------
(* What a packet does to the map. *)

\* How one packet may change the flows s of its tuple into t: the earlier flows
\* stay, the latest may change in place, and a new flow may follow it, with the
\* next two ids, once the latest has ended.
Grows(s, t) ==
  /\ t \in Seq(FlowType) /\ t # <<>>
  /\ Len(s) <= Len(t) /\ Len(t) <= Len(s) + 1
  /\ \A i \in 1..Len(s) : t[i].id = s[i].id
  /\ \A i \in 1..Len(s) : i < Len(s) \/ s[i].state = "CLOSED" => t[i] = s[i]
  /\ Len(t) = Len(s) + 1 =>
       /\ t[Len(t)].id["A"] = global_dir_id
       /\ t[Len(t)].id["B"] = global_dir_id + 1
       /\ global_dir_id' = global_dir_id + 2
       /\ Len(s) > 0 => t[Len(s)].state \in Ended

\* The flows already known under a key.
Before(k) == IF k \in Keys THEN Flows(k) ELSE <<>>

\* The effect of one packet: nothing, or the flows of one tuple u have grown to t.
Grown(u, t) ==
  /\ u \in Tuples
  /\ to_string(u) \in Keys => internal_map[to_string(u)].tuple = u
  /\ Grows(Before(to_string(u)), t)
  /\ internal_map' = [k \in Keys \cup {to_string(u)} |->
       IF k = to_string(u) THEN [tuple |-> u, flows |-> t] ELSE internal_map[k]]

Effect ==
  /\ global_dir_id' \in Nat /\ global_dir_id' >= global_dir_id
  /\ \/ UNCHANGED internal_map
     \/ \E u \in Tuples, t \in Seq(FlowType) : Grown(u, t)

\* The type of the map, and that of the trace.
MapTypeOK ==
  /\ DOMAIN internal_map \subseteq {to_string(t) : t \in Tuples}
  /\ internal_map \in [DOMAIN internal_map -> Entry]
  /\ global_dir_id \in Nat
  /\ packet_table \in Seq(Row)
  /\ num_flows \in Nat

TraceTypeOK == num_pkts \in 0..MaxPackets /\ now \in Nat

\* The lemmas on a packet are about map_to_flow and the map alone, so that they hold
\* whoever calls it, and whatever the trace: IInv says nothing of the trace.
IInv == MapTypeOK /\ BackIsDefined

-----------------------------------------------------------------------------

LEMMA PacketIsSegment ==
  ASSUME NEW p \in Packet
  PROVE  Segment(p) /\ p.tuple \in Tuples
  BY DEF Packet, Segment

LEMMA DirectionType ==
  ASSUME NEW p
  PROVE  Direction(p) \in Dir
  BY DEF Direction, Dir

\* A flow tried for a packet is well formed, with the next two ids.
LEMMA TriedGood ==
  ASSUME MapTypeOK, NEW p \in Packet
  PROVE  /\ Tried(p).decision \in pkt_decision
         /\ Tried(p).flow \in FlowType
         /\ Tried(p).flow.id["A"] = global_dir_id
         /\ Tried(p).flow.id["B"] = global_dir_id + 1
<1>1. global_dir_id \in Nat
  BY DEF MapTypeOK
<1>2. GoodOutcome(Tried(p), Flow(global_dir_id))
  BY <1>1, NewFlowType, PacketIsSegment, DirectionType, HandlePacketGood DEF Tried
<1> QED
  BY <1>1, <1>2, NewFlowType DEF GoodOutcome

\* The entry of a known tuple, and its latest flow.
LEMMA EntryOfKnown ==
  ASSUME IInv, NEW p \in Packet, Known(p.tuple)
  PROVE  LET k == KeyOf(p.tuple)
         IN  /\ k \in Keys
             /\ internal_map[k] = [tuple |-> internal_map[k].tuple, flows |-> Flows(k)]
             /\ internal_map[k].tuple \in Tuples
             /\ k = to_string(internal_map[k].tuple)
             /\ Flows(k) \in Seq(FlowType)
             /\ Len(Flows(k)) \in Nat \ {0}
             /\ LastFlow(p) = Flows(k)[Len(Flows(k))]
             /\ LastFlow(p) \in FlowType
<1> DEFINE k == KeyOf(p.tuple)
<1>1. k \in Keys
  BY DEF KeyOf, Known, Found, Keys
<1>2. internal_map[k] \in Entry
  BY <1>1 DEF IInv, MapTypeOK, Keys
<1>3. Flows(k) \in Seq(FlowType) /\ internal_map[k].tuple \in Tuples
  BY <1>2 DEF Entry, Flows
<1>4. Flows(k) # <<>> /\ k = to_string(internal_map[k].tuple)
  BY <1>1 DEF IInv, BackIsDefined
<1>5. Len(Flows(k)) \in Nat \ {0} /\ Flows(k)[Len(Flows(k))] \in FlowType
  BY <1>3, <1>4
<1>6. LastFlow(p) = Flows(k)[Len(Flows(k))]
  BY DEF LastFlow, back, Flows
<1>7. internal_map[k] = [tuple |-> internal_map[k].tuple, flows |-> Flows(k)]
  BY <1>2 DEF Entry, Flows
<1> QED
  BY <1>1, <1>3, <1>4, <1>5, <1>6, <1>7

LEMMA OfferedGood ==
  ASSUME IInv, NEW p \in Packet, Known(p.tuple)
  PROVE  /\ GoodOutcome(Offered(p), LastFlow(p))
         /\ LastFlow(p).state = "CLOSED" => Offered(p) = NotForMe(LastFlow(p))
<1>1. LastFlow(p) \in FlowType
  BY EntryOfKnown
<1> QED
  BY <1>1, PacketIsSegment, DirectionType, HandlePacketGood, ClosedRefuses DEF Offered

\* Replacing the latest flow by what an outcome left of it.
LEMMA ReplaceLast ==
  ASSUME NEW s \in Seq(FlowType), s # <<>>, NEW f \in FlowType,
         f.id = s[Len(s)].id, s[Len(s)].state = "CLOSED" => f = s[Len(s)],
         NEW t, t = [s EXCEPT ![Len(s)] = f]
  PROVE  /\ t \in Seq(FlowType) /\ t # <<>> /\ Len(t) = Len(s) /\ t[Len(s)] = f
         /\ \A i \in 1..Len(s) : t[i].id = s[i].id
         /\ \A i \in 1..Len(s) : i < Len(s) \/ s[i].state = "CLOSED" => t[i] = s[i]
<1>1. Len(s) \in Nat \ {0}
  OBVIOUS
<1>2. t \in Seq(FlowType) /\ Len(t) = Len(s)
  BY <1>1, ExceptSeq
<1>3. t[Len(s)] = f /\ \A i \in 1..Len(s) : i < Len(s) => t[i] = s[i]
  BY <1>1
<1>4. \A i \in 1..Len(s) : i = Len(s) \/ i < Len(s)
  BY <1>1
<1>5. t # <<>>
  BY <1>1, <1>2
<1> QED
  BY <1>1, <1>2, <1>3, <1>4, <1>5

\* Keeping the flow tried for a packet when it stored the packet.
LEMMA NewFlowsGrow ==
  ASSUME MapTypeOK, NEW p \in Packet, NEW s \in Seq(FlowType)
  PROVE  /\ NewFlows(s, p) \in Seq(FlowType)
         /\ Len(s) <= Len(NewFlows(s, p)) /\ Len(NewFlows(s, p)) <= Len(s) + 1
         /\ \A i \in 1..Len(s) : NewFlows(s, p)[i] = s[i]
         /\ IsStored(Tried(p)) => Len(NewFlows(s, p)) = Len(s) + 1
         /\ Len(NewFlows(s, p)) = Len(s) + 1 =>
              NewFlows(s, p)[Len(s) + 1] = Tried(p).flow
<1>1. Tried(p).flow \in FlowType
  BY TriedGood
<1>2. CASE IsStored(Tried(p))
  <2>1. NewFlows(s, p) = Append(s, Tried(p).flow)
    BY <1>2 DEF NewFlows
  <2> QED
    BY <1>1, <2>1
<1>3. CASE ~IsStored(Tried(p))
  BY <1>3 DEF NewFlows
<1> QED
  BY <1>2, <1>3

-----------------------------------------------------------------------------
(* Each action has the effect that Effect describes. *)

LEMMA DeliverEffect ==
  ASSUME IInv, NEW p \in Packet, DeliverToLast(p)
  PROVE  Effect
<1> DEFINE k == KeyOf(p.tuple)
           u == internal_map[k].tuple
           s == Flows(k)
           f == Offered(p).flow
           t == [s EXCEPT ![Len(s)] = f]
<1>1. Known(p.tuple)
  BY DEF DeliverToLast
<1>2. /\ k \in Keys /\ u \in Tuples /\ k = to_string(u) /\ s \in Seq(FlowType)
      /\ internal_map[k] = [tuple |-> u, flows |-> s]
      /\ Len(s) \in Nat \ {0} /\ LastFlow(p) = s[Len(s)]
  BY <1>1, EntryOfKnown
<1>3. f \in FlowType /\ f.id = s[Len(s)].id /\ (s[Len(s)].state = "CLOSED" => f = s[Len(s)])
  BY <1>1, <1>2, OfferedGood DEF GoodOutcome, NotForMe
<1>4. s # <<>>
  BY <1>2
<1>5. /\ t \in Seq(FlowType) /\ t # <<>> /\ Len(t) = Len(s)
      /\ \A i \in 1..Len(s) : t[i].id = s[i].id
      /\ \A i \in 1..Len(s) : i < Len(s) \/ s[i].state = "CLOSED" => t[i] = s[i]
  BY <1>2, <1>3, <1>4, ReplaceLast
<1>6. Grows(s, t)
  BY <1>2, <1>5 DEF Grows
<1>7. internal_map' = [x \in Keys \cup {k} |->
                         IF x = k THEN [tuple |-> u, flows |-> t] ELSE internal_map[x]]
  <2>1. internal_map' = [internal_map EXCEPT ![k] = [@ EXCEPT !.flows = t]]
    BY DEF DeliverToLast, Flows
  <2>2. [internal_map[k] EXCEPT !.flows = t] = [tuple |-> u, flows |-> t]
    BY <1>2
  <2>3. internal_map \in [Keys -> Entry]
    BY DEF IInv, MapTypeOK, Keys
  <2> HIDE DEF k, t, u, s
  <2>4. Keys \cup {k} = Keys /\ DOMAIN internal_map = Keys
    BY <1>2 DEF Keys
  <2> QED
    BY <1>2, <2>1, <2>2, <2>3, <2>4
<1>8. Before(k) = s
  BY <1>2 DEF Before
<1>9. global_dir_id \in Nat /\ global_dir_id' = global_dir_id
  BY DEF IInv, MapTypeOK, DeliverToLast
<1> HIDE DEF k, s, t, u
<1>10. Grown(u, t)
  BY <1>2, <1>6, <1>7, <1>8 DEF Grown
<1> QED
  BY <1>2, <1>5, <1>9, <1>10 DEF Effect

LEMMA RetryEffect ==
  ASSUME IInv, NEW p \in Packet, RetryAsNew(p)
  PROVE  Effect
<1> DEFINE k == KeyOf(p.tuple)
           u == internal_map[k].tuple
           s == Flows(k)
           f == Offered(p).flow
           r == [s EXCEPT ![Len(s)] = f]
           t == NewFlows(r, p)
<1>1. Known(p.tuple) /\ Offered(p).decision = "PKT_NOT_FOR_ME"
  BY DEF RetryAsNew
<1>2. /\ k \in Keys /\ u \in Tuples /\ k = to_string(u) /\ s \in Seq(FlowType)
      /\ internal_map[k] = [tuple |-> u, flows |-> s]
      /\ Len(s) \in Nat \ {0} /\ LastFlow(p) = s[Len(s)]
  BY <1>1, EntryOfKnown
<1>3. /\ f \in FlowType /\ f.id = s[Len(s)].id /\ f.state \in Ended
      /\ s[Len(s)].state = "CLOSED" => f = s[Len(s)]
  BY <1>1, <1>2, OfferedGood DEF GoodOutcome, NotForMe
<1>4. s # <<>>
  BY <1>2
<1>5. /\ r \in Seq(FlowType) /\ Len(r) = Len(s) /\ r[Len(s)] = f
      /\ \A i \in 1..Len(s) : r[i].id = s[i].id
      /\ \A i \in 1..Len(s) : i < Len(s) \/ s[i].state = "CLOSED" => r[i] = s[i]
  BY <1>2, <1>3, <1>4, ReplaceLast
<1>6. MapTypeOK
  BY DEF IInv
<1>7. /\ t \in Seq(FlowType) /\ Len(s) <= Len(t) /\ Len(t) <= Len(s) + 1
      /\ \A i \in 1..Len(s) : t[i] = r[i]
      /\ Len(t) = Len(s) + 1 => t[Len(s) + 1] = Tried(p).flow
  <2> HIDE DEF r, s
  <2> QED
    BY <1>5, <1>6, NewFlowsGrow
<1>8. global_dir_id \in Nat /\ global_dir_id' = global_dir_id + 2
  BY DEF IInv, MapTypeOK, RetryAsNew
<1>9. Grows(s, t)
  <2>1. t # <<>> /\ t[Len(s)] = f
    BY <1>2, <1>5, <1>7
  <2>2. Tried(p).flow.id["A"] = global_dir_id /\ Tried(p).flow.id["B"] = global_dir_id + 1
    BY <1>6, TriedGood
  <2> HIDE DEF t, s, r, f
  <2>3. \A i \in 1..Len(s) : t[i].id = s[i].id
    BY <1>5, <1>7
  <2>4. \A i \in 1..Len(s) : i < Len(s) \/ s[i].state = "CLOSED" => t[i] = s[i]
    BY <1>5, <1>7
  <2> QED
    BY <1>2, <1>3, <1>7, <1>8, <2>1, <2>2, <2>3, <2>4 DEF Grows
<1>10. internal_map' = [x \in Keys \cup {k} |->
                          IF x = k THEN [tuple |-> u, flows |-> t] ELSE internal_map[x]]
  <2>1. internal_map' = [internal_map EXCEPT ![k] = [@ EXCEPT !.flows = t]]
    BY DEF RetryAsNew, Flows
  <2>2. [internal_map[k] EXCEPT !.flows = t] = [tuple |-> u, flows |-> t]
    BY <1>2
  <2>3. internal_map \in [Keys -> Entry]
    BY DEF IInv, MapTypeOK, Keys
  <2> HIDE DEF k, t, u, s
  <2>4. Keys \cup {k} = Keys /\ DOMAIN internal_map = Keys
    BY <1>2 DEF Keys
  <2> QED
    BY <1>2, <2>1, <2>2, <2>3, <2>4
<1>11. Before(k) = s
  BY <1>2 DEF Before
<1> HIDE DEF k, s, t, u
<1>12. Grown(u, t)
  BY <1>2, <1>9, <1>10, <1>11 DEF Grown
<1> QED
  BY <1>2, <1>7, <1>8, <1>12 DEF Effect

LEMMA FirstEffect ==
  ASSUME IInv, NEW p \in Packet, FirstOfTuple(p)
  PROVE  Effect
<1> DEFINE e == <<>>
           u == p.tuple
           t == NewFlows(e, p)
<1>0. e \in Seq(FlowType) /\ Len(e) = 0
  OBVIOUS
<1>1. MapTypeOK /\ u \in Tuples
  BY PacketIsSegment DEF IInv
<1>2. to_string(u) \notin Keys
  BY DEF FirstOfTuple, Known, Found, Keys
<1>3. global_dir_id \in Nat /\ global_dir_id' = global_dir_id + 2
  BY <1>1 DEF MapTypeOK, FirstOfTuple
<1>4. CASE ~IsStored(Tried(p))
  <2>1. UNCHANGED internal_map
    BY <1>4 DEF FirstOfTuple
  <2> QED
    BY <1>3, <2>1 DEF Effect
<1>5. CASE IsStored(Tried(p))
  <2>1. internal_map' = [k \in Keys \cup {to_string(u)} |->
          IF k = to_string(u) THEN [tuple |-> u, flows |-> t] ELSE internal_map[k]]
    BY <1>5 DEF FirstOfTuple, Keys
  <2>2. t \in Seq(FlowType) /\ Len(t) = 1 /\ t[1] = Tried(p).flow
    <3> HIDE DEF e
    <3>1. t \in Seq(FlowType) /\ Len(t) = Len(e) + 1
      BY <1>0, <1>1, <1>5, NewFlowsGrow
    <3>2. t[Len(e) + 1] = Tried(p).flow
      BY <1>0, <1>1, <3>1, NewFlowsGrow
    <3> HIDE DEF t
    <3> QED
      BY <1>0, <3>1, <3>2
  <2>3. Tried(p).flow.id["A"] = global_dir_id /\ Tried(p).flow.id["B"] = global_dir_id + 1
    BY <1>1, TriedGood
  <2>4. Before(to_string(u)) = e
    BY <1>2 DEF Before
  <2>5. t # <<>>
    BY <2>2
  <2> HIDE DEF e, t, u
  <2>6. Grows(e, t)
    BY <1>0, <1>3, <2>2, <2>3, <2>5 DEF Grows
  <2>7. Grown(u, t)
    BY <1>1, <1>2, <2>1, <2>4, <2>6 DEF Grown
  <2> QED
    BY <1>1, <1>3, <2>2, <2>7 DEF Effect
<1> QED
  BY <1>4, <1>5

\* The packet of a step of Next, and what the step does with it.
LEMMA NextIsPacket ==
  ASSUME TraceTypeOK, Next
  PROVE  /\ TraceTypeOK'
         /\ \E p \in Packet : map_to_flow(p) /\ p.time = now' /\ now <= p.time
<1>1. PICK k \in Kinds, gap \in Gaps :
        /\ num_pkts < MaxPackets
        /\ num_pkts' = num_pkts + 1
        /\ now' = now + gap
        /\ map_to_flow([tuple |-> k.tuple, flags |-> k.flags, data |-> k.data,
                        time |-> now + gap])
  BY DEF Next
<1>2. gap \in Nat /\ k.tuple \in Tuples /\ k.flags \in SUBSET Flag /\ k.data \in BOOLEAN
  BY KindsAssumption, GapsAssumption
<1>3. now \in Nat /\ num_pkts \in 0..MaxPackets
  BY DEF TraceTypeOK
<1>4. [tuple |-> k.tuple, flags |-> k.flags, data |-> k.data, time |-> now + gap] \in Packet
  BY <1>2, <1>3 DEF Packet
<1> QED
  BY <1>1, <1>2, <1>3, <1>4, MaxPacketsAssumption DEF TraceTypeOK

LEMMA PacketEffect ==
  ASSUME IInv, NEW p \in Packet, map_to_flow(p)
  PROVE  Effect
  BY DeliverEffect, RetryEffect, FirstEffect DEF map_to_flow

\* The map after the flows of u have grown to t.
LEMMA GrownMap ==
  ASSUME NEW u, NEW t, Grown(u, t)
  PROVE  /\ Keys' = Keys \cup {to_string(u)}
         /\ \A k \in Keys' :
              /\ Flows(k)' = IF k = to_string(u) THEN t ELSE Flows(k)
              /\ internal_map'[k].tuple =
                   IF k = to_string(u) THEN u ELSE internal_map[k].tuple
  BY DEF Grown, Keys, Flows

\* The row of a stored packet is well formed.
LEMMA RecordType ==
  ASSUME MapTypeOK, NEW p \in Packet, NEW o, o.flow \in FlowType, Record(o, p)
  PROVE  packet_table' \in Seq(Row) /\ num_flows' \in Nat
<1>1. o.flow.id[Direction(p)] \in Nat
  BY DirectionType DEF FlowType
<1>2. [dir_id |-> o.flow.id[Direction(p)], pkt |-> p] \in Row
  BY <1>1 DEF Row
<1>3. packet_table \in Seq(Row) /\ num_flows \in Nat
  BY DEF MapTypeOK
<1> QED
  BY <1>2, <1>3 DEF Record

LEMMA StepRecordsType ==
  ASSUME IInv, NEW p \in Packet, map_to_flow(p)
  PROVE  packet_table' \in Seq(Row) /\ num_flows' \in Nat
<1>0. MapTypeOK
  BY DEF IInv
<1>1. CASE DeliverToLast(p)
  <2>1. Known(p.tuple) /\ Record(Offered(p), p)
    BY <1>1 DEF DeliverToLast
  <2>2. Offered(p).flow \in FlowType
    BY <2>1, OfferedGood DEF GoodOutcome
  <2> QED
    BY <1>0, <2>1, <2>2, RecordType
<1>2. CASE RetryAsNew(p) \/ FirstOfTuple(p)
  <2>1. Record(Tried(p), p)
    BY <1>2 DEF RetryAsNew, FirstOfTuple
  <2> QED
    BY <1>0, <2>1, TriedGood, RecordType
<1> QED
  BY <1>1, <1>2 DEF map_to_flow

-----------------------------------------------------------------------------
(* Type correctness.  BackIsDefined strengthens it: the type of the latest   *)
(* flow of an entry needs the entry not to be empty.                         *)

LEMMA InitIInv == Init => IInv
<1> SUFFICES ASSUME Init PROVE IInv
  OBVIOUS
<1>1. DOMAIN internal_map = {}
  BY DEF Init
<1>2. internal_map \in [DOMAIN internal_map -> Entry]
  BY <1>1 DEF Init
<1>3. packet_table \in Seq(Row)
  BY DEF Init
<1>4. MapTypeOK
  BY <1>1, <1>2, <1>3 DEF Init, MapTypeOK
<1>5. BackIsDefined
  BY <1>1 DEF BackIsDefined, Keys
<1> QED
  BY <1>4, <1>5 DEF IInv

LEMMA PacketIInv ==
  ASSUME IInv, NEW p \in Packet, map_to_flow(p)
  PROVE  IInv'
<1>2. packet_table' \in Seq(Row) /\ num_flows' \in Nat
  BY StepRecordsType
<1>3. Effect
  BY PacketEffect
<1>4. global_dir_id' \in Nat
  BY <1>3 DEF Effect
<1>5. CASE UNCHANGED internal_map
  BY <1>2, <1>4, <1>5 DEF IInv, MapTypeOK, BackIsDefined, Keys, Flows
<1>6. CASE \E u \in Tuples, t \in Seq(FlowType) : Grown(u, t)
  <2>1. PICK u \in Tuples, t \in Seq(FlowType) : Grown(u, t)
    BY <1>6
  <2>2. [tuple |-> u, flows |-> t] \in Entry
    BY DEF Entry
  <2>3. DOMAIN internal_map' \subseteq {to_string(x) : x \in Tuples}
    <3>1. Keys' = Keys \cup {to_string(u)}
      BY <2>1, GrownMap
    <3>2. Keys \subseteq {to_string(x) : x \in Tuples}
      BY DEF IInv, MapTypeOK, Keys
    <3>3. Keys' \subseteq {to_string(x) : x \in Tuples}
      BY <3>1, <3>2
    <3> QED
      BY <3>3 DEF Keys
  <2>4. internal_map' \in [DOMAIN internal_map' -> Entry]
    <3>1. internal_map \in [Keys -> Entry]
      BY DEF IInv, MapTypeOK, Keys
    <3> QED
      BY <2>1, <2>2, <3>1 DEF Grown
  <2>5. BackIsDefined'
    <3>1. t # <<>>
      BY <2>1 DEF Grown, Grows
    <3>2. ASSUME NEW k \in Keys'
          PROVE  Flows(k)' # <<>> /\ k = to_string(internal_map'[k].tuple)
      <4>1. CASE k = to_string(u)
        BY <2>1, <3>1, <4>1, GrownMap
      <4>2. CASE k # to_string(u)
        <5>1. k \in Keys
          BY <2>1, <4>2, GrownMap
        <5>2. Flows(k) # <<>> /\ k = to_string(internal_map[k].tuple)
          BY <5>1 DEF IInv, BackIsDefined
        <5> QED
          BY <2>1, <4>2, <5>2, GrownMap
      <4> QED
        BY <4>1, <4>2
    <3> QED
      BY <3>2 DEF BackIsDefined
  <2> QED
    BY <1>2, <1>4, <2>3, <2>4, <2>5 DEF IInv, MapTypeOK
<1> QED
  BY <1>3, <1>5, <1>6 DEF Effect

LEMMA StutterIInv ==
  ASSUME IInv, UNCHANGED vars
  PROVE  IInv'
  BY DEF IInv, MapTypeOK, BackIsDefined, Keys, Flows, vars

LEMMA InvHolds == Spec => [](IInv /\ TraceTypeOK)
<1>1. Init => IInv /\ TraceTypeOK
  BY InitIInv, MaxPacketsAssumption DEF Init, TraceTypeOK
<1>2. IInv /\ TraceTypeOK /\ [Next]_vars => IInv' /\ TraceTypeOK'
  <2>1. ASSUME TraceTypeOK, UNCHANGED vars PROVE TraceTypeOK'
    BY <2>1 DEF TraceTypeOK, vars
  <2> QED
    BY <2>1, NextIsPacket, PacketIInv, StutterIInv
<1> QED
  BY <1>1, <1>2, PTL DEF Spec

LEMMA IInvHolds == Spec => []IInv
  BY InvHolds, PTL

\* The state of the flow map is well formed in every trace.
THEOREM TypeCorrect == Spec => []TypeOK
<1>1. IInv /\ TraceTypeOK => TypeOK
  BY DEF IInv, MapTypeOK, TraceTypeOK, TypeOK
<1> QED
  BY <1>1, InvHolds, PTL

\* back() is never called on an empty vector, and an entry is where the text of
\* its tuple says: for every set of tuples and every trace.
THEOREM BackAlwaysDefined == Spec => []BackIsDefined
<1>1. IInv => BackIsDefined
  BY DEF IInv
<1> QED
  BY <1>1, IInvHolds, PTL

-----------------------------------------------------------------------------
(* The flows of the map, before and after a packet. *)

\* Where a flow that is in the map after a step comes from: it was there with
\* the same ids, or it is the new last flow of its entry.
Kept(k, i) == k \in Keys /\ i \in 1..Len(Flows(k)) /\ Flows(k)'[i].id = Flows(k)[i].id
Fresh(k, i) ==
  /\ i = Len(Flows(k)')
  /\ Flows(k)'[i].id["A"] = global_dir_id
  /\ Flows(k)'[i].id["B"] = global_dir_id + 1
  /\ global_dir_id' = global_dir_id + 2

LEMMA BeforeType ==
  ASSUME IInv, NEW k
  PROVE  Before(k) \in Seq(FlowType) /\ Len(Before(k)) \in Nat
<1>1. CASE k \in Keys
  <2>1. internal_map[k] \in Entry
    BY <1>1 DEF IInv, MapTypeOK, Keys
  <2> QED
    BY <1>1, <2>1 DEF Before, Entry, Flows
<1>2. CASE k \notin Keys
  BY <1>2 DEF Before
<1> QED
  BY <1>1, <1>2

\* At most one flow is fresh: only the entry of the packet grows.
LEMMA WhereFlowsComeFrom ==
  ASSUME IInv, NEW u \in Tuples, NEW t \in Seq(FlowType), Grown(u, t),
         NEW k \in Keys', NEW i \in 1..Len(Flows(k)')
  PROVE  Kept(k, i) \/ (Fresh(k, i) /\ k = to_string(u))
<1>1. CASE k # to_string(u)
  BY <1>1, GrownMap DEF Kept
<1>2. CASE k = to_string(u)
  <2> DEFINE s == Before(k)
  <2>1. Flows(k)' = t /\ Grows(s, t)
    BY <1>2, GrownMap DEF Grown
  <2>2. Len(s) \in Nat /\ Len(t) \in Nat
    BY BeforeType
  <2>3. CASE i \in 1..Len(s)
    <3>1. k \in Keys /\ s = Flows(k)
      <4>1. k \notin Keys => Len(s) = 0
        BY DEF Before
      <4> QED
        BY <2>3, <4>1 DEF Before
    <3> QED
      BY <2>1, <2>3, <3>1 DEF Grows, Kept
  <2>4. CASE i \notin 1..Len(s)
    <3> HIDE DEF s
    <3>1. i = Len(t) /\ Len(t) = Len(s) + 1
      BY <2>1, <2>2, <2>4 DEF Grows
    <3> QED
      BY <1>2, <2>1, <3>1 DEF Grows, Fresh
  <2> QED
    BY <2>3, <2>4
<1> QED
  BY <1>1, <1>2

-----------------------------------------------------------------------------
(* Direction ids. *)

LEMMA NextDirIds ==
  ASSUME IInv, DirIdsUnique, Effect
  PROVE  DirIdsUnique'
<1>1. Effect /\ global_dir_id \in Nat
  BY DEF IInv, MapTypeOK
<1>2. CASE UNCHANGED internal_map
  <2> SUFFICES ASSUME NEW k \in Keys, NEW l \in Keys, NEW i \in 1..Len(Flows(k)),
                      NEW j \in 1..Len(Flows(l)), NEW d \in Dir, NEW e \in Dir
               PROVE  /\ Flows(k)[i].id[d] < global_dir_id'
                      /\ Flows(k)[i].id[d] = Flows(l)[j].id[e] => k = l /\ i = j /\ d = e
    BY <1>2 DEF DirIdsUnique, Keys, Flows
  <2>1. Flows(k)[i].id[d] \in Nat
    <3>1. Flows(k) \in Seq(FlowType)
      BY DEF IInv, MapTypeOK, Keys, Entry, Flows
    <3>2. Flows(k)[i] \in FlowType
      BY <3>1
    <3> QED
      BY <3>2 DEF FlowType
  <2> QED
    BY <1>1, <2>1 DEF Effect, DirIdsUnique
<1>3. CASE \E u \in Tuples, t \in Seq(FlowType) : Grown(u, t)
  <2>1. PICK u \in Tuples, t \in Seq(FlowType) : Grown(u, t)
    BY <1>3
  <2> SUFFICES ASSUME NEW k \in Keys', NEW l \in Keys', NEW i \in 1..Len(Flows(k)'),
                      NEW j \in 1..Len(Flows(l)'), NEW d \in Dir, NEW e \in Dir
               PROVE  /\ Flows(k)'[i].id[d] < global_dir_id'
                      /\ Flows(k)'[i].id[d] = Flows(l)'[j].id[e] => k = l /\ i = j /\ d = e
    BY DEF DirIdsUnique
  <2>2. Kept(k, i) \/ (Fresh(k, i) /\ k = to_string(u))
    BY <2>1, WhereFlowsComeFrom
  <2>3. Kept(l, j) \/ (Fresh(l, j) /\ l = to_string(u))
    BY <2>1, WhereFlowsComeFrom
  <2>4. global_dir_id' \in Nat /\ global_dir_id' >= global_dir_id
    BY <1>1 DEF Effect
  <2>5. Kept(k, i) => Flows(k)'[i].id[d] < global_dir_id /\ Flows(k)'[i].id[d] \in Nat
    <3>1. ASSUME k \in Keys, i \in 1..Len(Flows(k))
          PROVE  Flows(k)[i].id[d] < global_dir_id /\ Flows(k)[i].id[d] \in Nat
      <4>1. Flows(k) \in Seq(FlowType)
        BY <3>1 DEF IInv, MapTypeOK, Keys, Entry, Flows
      <4>2. Flows(k)[i] \in FlowType
        BY <3>1, <4>1
      <4> QED
        BY <3>1, <4>2 DEF FlowType, DirIdsUnique
    <3> QED
      BY <3>1 DEF Kept
  <2>6. Kept(l, j) => Flows(l)'[j].id[e] < global_dir_id /\ Flows(l)'[j].id[e] \in Nat
    <3>1. ASSUME l \in Keys, j \in 1..Len(Flows(l))
          PROVE  Flows(l)[j].id[e] < global_dir_id /\ Flows(l)[j].id[e] \in Nat
      <4>1. Flows(l) \in Seq(FlowType)
        BY <3>1 DEF IInv, MapTypeOK, Keys, Entry, Flows
      <4>2. Flows(l)[j] \in FlowType
        BY <3>1, <4>1
      <4> QED
        BY <3>1, <4>2 DEF FlowType, DirIdsUnique
    <3> QED
      BY <3>1 DEF Kept
  <2>7. CASE Kept(k, i) /\ Kept(l, j)
    <3>1. Flows(k)[i].id[d] = Flows(l)[j].id[e] => k = l /\ i = j /\ d = e
      BY <2>7 DEF Kept, DirIdsUnique
    <3> QED
      BY <1>1, <2>4, <2>5, <2>7, <3>1 DEF Kept
  <2>8. CASE Kept(k, i) /\ Fresh(l, j)
    BY <1>1, <2>4, <2>5, <2>8 DEF Fresh, Dir
  <2>9. CASE Fresh(k, i) /\ Kept(l, j)
    BY <1>1, <2>4, <2>6, <2>9 DEF Fresh, Dir
  <2>10. CASE Fresh(k, i) /\ k = to_string(u) /\ Fresh(l, j) /\ l = to_string(u)
    BY <1>1, <2>10 DEF Fresh, Dir
  <2> QED
    BY <2>2, <2>3, <2>7, <2>8, <2>9, <2>10
<1> QED
  BY <1>1, <1>2, <1>3 DEF Effect

\* No two directions in the map share an id, and none has an id still to be
\* given out, however many flows are tried and thrown away.
THEOREM DirIdsAlwaysUnique == Spec => []DirIdsUnique
<1>1. Init => DirIdsUnique
  BY DEF Init, DirIdsUnique, Keys
<1>2. IInv /\ TraceTypeOK /\ DirIdsUnique /\ [Next]_vars => DirIdsUnique'
  <2>1. ASSUME UNCHANGED vars PROVE DirIdsUnique' <=> DirIdsUnique
    BY <2>1 DEF vars, DirIdsUnique, Keys, Flows
  <2> QED
    BY <2>1, NextIsPacket, PacketEffect, NextDirIds
<1> QED
  BY <1>1, <1>2, InvHolds, PTL DEF Spec

-----------------------------------------------------------------------------
(* What happens to the flows that are in the map before a packet. *)

\* A flow of the map keeps its place, its ids and its entry, and does not change
\* if it is closed or no longer the latest of its tuple.
LEMMA OldFlowsStay ==
  ASSUME IInv, Effect, NEW k \in Keys
  PROVE  /\ k \in Keys' /\ internal_map'[k].tuple = internal_map[k].tuple
         /\ Len(Flows(k)) <= Len(Flows(k)')
         /\ \A i \in 1..Len(Flows(k)) :
              /\ Flows(k)'[i].id = Flows(k)[i].id
              /\ i < Len(Flows(k)) \/ Flows(k)[i].state = "CLOSED"
                   => Flows(k)'[i] = Flows(k)[i]
<1>0. Len(Flows(k)) \in Nat
  BY DEF IInv, MapTypeOK, Keys, Entry, Flows
<1>1. CASE UNCHANGED internal_map
  BY <1>0, <1>1 DEF Keys, Flows
<1>2. CASE \E u \in Tuples, t \in Seq(FlowType) : Grown(u, t)
  <2>1. PICK u \in Tuples, t \in Seq(FlowType) : Grown(u, t)
    BY <1>2
  <2>2. k \in Keys'
    BY <2>1, GrownMap
  <2>3. CASE k # to_string(u)
    BY <1>0, <2>1, <2>2, <2>3, GrownMap
  <2>4. CASE k = to_string(u)
    <3>1. internal_map[k].tuple = u /\ Grows(Flows(k), t)
      BY <2>1, <2>4 DEF Grown, Before
    <3>2. Flows(k)' = t /\ internal_map'[k].tuple = u
      BY <2>1, <2>2, <2>4, GrownMap
    <3> QED
      BY <2>2, <3>1, <3>2 DEF Grows
  <2> QED
    BY <2>3, <2>4
<1> QED
  BY <1>1, <1>2 DEF Effect

\* In no trace does a packet change, move or remove a flow that is closed or no
\* longer the latest of its tuple.
THEOREM EndedFlowsAlwaysFrozen == Spec => EndedFlowsFrozen
<1>1. IInv /\ TraceTypeOK /\ [Next]_vars => [FrozenUnchanged]_vars
  <2>1. ASSUME IInv, TraceTypeOK, Next PROVE FrozenUnchanged
    <3>1. Effect
      BY <2>1, NextIsPacket, PacketEffect
    <3> QED
      BY <2>1, <3>1, OldFlowsStay DEF FrozenUnchanged
  <2> QED
    BY <2>1
<1> QED
  BY <1>1, InvHolds, PTL DEF Spec, EndedFlowsFrozen

LEMMA NextSuperseded ==
  ASSUME IInv, SupersededFlowsEnded, Effect
  PROVE  SupersededFlowsEnded'
<1>1. Effect
  OBVIOUS
<1>2. CASE UNCHANGED internal_map
  BY <1>2 DEF SupersededFlowsEnded, Keys, Flows
<1>3. CASE \E u \in Tuples, t \in Seq(FlowType) : Grown(u, t)
  <2>1. PICK u \in Tuples, t \in Seq(FlowType) : Grown(u, t)
    BY <1>3
  <2> SUFFICES ASSUME NEW k \in Keys', NEW i \in 1..(Len(Flows(k)') - 1)
               PROVE  Flows(k)'[i].state \in Ended
    BY DEF SupersededFlowsEnded
  <2>2. CASE k # to_string(u)
    BY <2>1, <2>2, GrownMap DEF SupersededFlowsEnded
  <2>3. CASE k = to_string(u)
    <3> DEFINE s == Before(k)
    <3>1. Flows(k)' = t /\ Grows(s, t)
      BY <2>1, <2>3, GrownMap DEF Grown
    <3>2. Len(s) \in Nat /\ Len(t) \in Nat
      BY BeforeType
    <3>3. \A j \in 1..(Len(s) - 1) : s[j].state \in Ended
      <4>1. k \notin Keys => Len(s) = 0
        BY DEF Before
      <4> QED
        BY <4>1 DEF Before, SupersededFlowsEnded
    <3> HIDE DEF s
    <3>4. i \in 1..Len(s) /\ (i < Len(s) \/ (i = Len(s) /\ Len(t) = Len(s) + 1))
      BY <3>1, <3>2 DEF Grows
    <3>5. CASE i < Len(s)
      BY <3>1, <3>2, <3>3, <3>4, <3>5 DEF Grows
    <3>6. CASE i = Len(s) /\ Len(t) = Len(s) + 1
      BY <3>1, <3>2, <3>4, <3>6 DEF Grows
    <3> QED
      BY <3>4, <3>5, <3>6
  <2> QED
    BY <2>2, <2>3
<1> QED
  BY <1>1, <1>2, <1>3 DEF Effect

\* In every trace, a flow gives way to a new flow of its tuple only once it is
\* closed or half closed.
THEOREM SupersededAlwaysEnded == Spec => []SupersededFlowsEnded
<1>1. Init => SupersededFlowsEnded
  BY DEF Init, SupersededFlowsEnded, Keys
<1>2. IInv /\ TraceTypeOK /\ SupersededFlowsEnded /\ [Next]_vars => SupersededFlowsEnded'
  <2>1. ASSUME UNCHANGED vars PROVE SupersededFlowsEnded' <=> SupersededFlowsEnded
    BY <2>1 DEF vars, SupersededFlowsEnded, Keys, Flows
  <2> QED
    BY <2>1, NextIsPacket, PacketEffect, NextSuperseded
<1> QED
  BY <1>1, <1>2, InvHolds, PTL DEF Spec

-----------------------------------------------------------------------------
(* Directions.  The text of a tuple must tell it from the other tuples and   *)
(* from their reverses; then a packet goes one way or the other.             *)

Oriented == Tuples \cup {reverse(t) : t \in Tuples}

LEMMA ReverseTwice ==
  ASSUME NEW t \in Tuples
  PROVE  reverse(reverse(t)) = t
  BY TuplesAssumption DEF reverse, FiveTuple

\* The tuple of a packet, from the tuple of the entry found and its direction.
Carries(p, d, t) == p.tuple = IF d = "A" THEN t ELSE reverse(t)

LEMMA KnownCarries ==
  ASSUME IInv, KeysDistinct(Oriented), NEW p \in Packet, Known(p.tuple)
  PROVE  Carries(p, Direction(p), internal_map[KeyOf(p.tuple)].tuple)
<1> DEFINE t == internal_map[KeyOf(p.tuple)].tuple
<1>1. t \in Tuples /\ KeyOf(p.tuple) = to_string(t) /\ p.tuple \in Tuples
  BY EntryOfKnown, PacketIsSegment
<1>2. currentTuple(p) = t
  BY DEF currentTuple
<1>3. CASE p.tuple = t
  BY <1>2, <1>3 DEF Direction, Carries
<1>4. CASE p.tuple # t
  <2>1. t \in Oriented /\ p.tuple \in Oriented /\ reverse(p.tuple) \in Oriented
    BY <1>1 DEF Oriented
  <2>2. KeyOf(p.tuple) = to_string(p.tuple) \/ KeyOf(p.tuple) = to_string(reverse(p.tuple))
    BY DEF KeyOf
  <2>3. t = reverse(p.tuple)
    BY <1>1, <1>4, <2>1, <2>2 DEF KeysDistinct
  <2>4. reverse(t) = p.tuple
    BY <1>1, <2>3, ReverseTwice
  <2>5. Direction(p) = "B"
    BY <1>2, <1>4 DEF Direction
  <2> QED
    BY <2>4, <2>5 DEF Carries
<1> QED
  BY <1>3, <1>4

LEMMA NewCarries ==
  ASSUME NEW p \in Packet, ~Known(p.tuple)
  PROVE  Carries(p, Direction(p), p.tuple)
  BY DEF currentTuple, Direction, Carries

\* A packet adds no row, or one row with an id of a flow that is in the map
\* afterwards and whose tuple the packet carries, in that direction.
RowFor(p, k, i, d) ==
  /\ packet_table' = Append(packet_table, [dir_id |-> Flows(k)'[i].id[d], pkt |-> p])
  /\ Carries(p, d, internal_map'[k].tuple)

RowWritten ==
  \/ UNCHANGED packet_table
  \/ \E p \in Packet, k \in Keys' : \E i \in 1..Len(Flows(k)'), d \in Dir :
       RowFor(p, k, i, d)

LEMMA FlowsReplaced ==
  ASSUME IInv, NEW k \in Keys, NEW t, internal_map' = [internal_map EXCEPT ![k].flows = t]
  PROVE  Flows(k)' = t
<1>1. internal_map \in [Keys -> Entry]
  BY DEF IInv, MapTypeOK, Keys
<1>2. internal_map'[k] = [internal_map[k] EXCEPT !.flows = t]
  BY <1>1
<1>3. internal_map[k] \in Entry
  BY <1>1
<1> QED
  BY <1>2, <1>3 DEF Flows, Entry

LEMMA DeliverRow ==
  ASSUME IInv, KeysDistinct(Oriented), NEW p \in Packet, DeliverToLast(p)
  PROVE  RowWritten
<1>0. PICK k, i, d : k = KeyOf(p.tuple) /\ i = Len(Flows(k)) /\ d = Direction(p)
  OBVIOUS
<1>1. Known(p.tuple) /\ Record(Offered(p), p)
  BY DEF DeliverToLast
<1>2. k \in Keys /\ i \in Nat \ {0} /\ LastFlow(p) = Flows(k)[i]
  BY <1>0, <1>1, EntryOfKnown
<1>3. Offered(p).flow.id = Flows(k)[i].id
  BY <1>1, <1>2, OfferedGood DEF GoodOutcome
<1>4. Effect
  BY DeliverEffect
<1>5. /\ k \in Keys' /\ internal_map'[k].tuple = internal_map[k].tuple
      /\ i \in 1..Len(Flows(k)') /\ Flows(k)'[i].id = Flows(k)[i].id
  <2>1. Len(Flows(k)') \in Nat
    <3>1. Flows(k)' = [Flows(k) EXCEPT ![i] = Offered(p).flow]
      <4>1. internal_map' = [internal_map EXCEPT ![k].flows =
              [Flows(k) EXCEPT ![i] = Offered(p).flow]]
        BY <1>0 DEF DeliverToLast, Flows
      <4> QED
        BY <1>2, <4>1, FlowsReplaced
    <3>2. Offered(p).flow \in FlowType /\ Flows(k) \in Seq(FlowType)
      BY <1>0, <1>1, OfferedGood, EntryOfKnown DEF GoodOutcome
    <3> QED
      BY <1>0, <1>2, <3>1, <3>2, ExceptSeq
  <2> QED
    BY <1>0, <1>2, <1>4, <2>1, OldFlowsStay
<1>6. d \in Dir /\ Carries(p, d, internal_map[k].tuple)
  BY <1>0, <1>1, KnownCarries, DirectionType
<1>7. \/ UNCHANGED packet_table
      \/ packet_table' = Append(packet_table, [dir_id |-> Offered(p).flow.id[d], pkt |-> p])
  BY <1>0, <1>1 DEF Record
<1>8. UNCHANGED packet_table \/ RowFor(p, k, i, d)
  BY <1>3, <1>5, <1>6, <1>7 DEF RowFor
<1> QED
  BY <1>5, <1>6, <1>8 DEF RowWritten

LEMMA RetryRow ==
  ASSUME IInv, KeysDistinct(Oriented), NEW p \in Packet, RetryAsNew(p)
  PROVE  RowWritten
<1>0. PICK k, r, i, d :
        /\ k = KeyOf(p.tuple) /\ r = [Flows(k) EXCEPT ![Len(Flows(k))] = Offered(p).flow]
        /\ i = Len(r) + 1 /\ d = Direction(p)
  OBVIOUS
<1>1. Known(p.tuple) /\ Record(Tried(p), p)
  BY DEF RetryAsNew
<1>2. CASE ~IsStored(Tried(p))
  BY <1>1, <1>2 DEF Record, RowWritten
<1>3. CASE IsStored(Tried(p))
  <2>1. k \in Keys /\ Flows(k) \in Seq(FlowType) /\ Len(Flows(k)) \in Nat \ {0}
    BY <1>0, <1>1, EntryOfKnown
  <2>2. Offered(p).flow \in FlowType /\ MapTypeOK
    BY <1>1, OfferedGood DEF GoodOutcome, IInv
  <2>3. r \in Seq(FlowType) /\ Len(r) = Len(Flows(k))
    BY <1>0, <2>1, <2>2, ExceptSeq
  <2>4. Flows(k)' = NewFlows(r, p)
    <3>1. internal_map' = [internal_map EXCEPT ![k].flows = NewFlows(r, p)]
      BY <1>0 DEF RetryAsNew, Flows
    <3> QED
      BY <2>1, <3>1, FlowsReplaced
  <2>5. Len(Flows(k)') = i /\ Flows(k)'[i] = Tried(p).flow
    BY <1>0, <1>3, <2>2, <2>3, <2>4, NewFlowsGrow
  <2>6. k \in Keys' /\ internal_map'[k].tuple = internal_map[k].tuple
    BY <2>1, RetryEffect, OldFlowsStay
  <2>7. d \in Dir /\ Carries(p, d, internal_map[k].tuple)
    BY <1>0, <1>1, KnownCarries, DirectionType
  <2>8. i \in 1..Len(Flows(k)')
    BY <1>0, <2>1, <2>3, <2>5
  <2>9. packet_table' = Append(packet_table, [dir_id |-> Tried(p).flow.id[d], pkt |-> p])
    BY <1>0, <1>1, <1>3 DEF Record
  <2>10. RowFor(p, k, i, d)
    BY <2>5, <2>6, <2>7, <2>9 DEF RowFor
  <2> QED
    BY <2>6, <2>7, <2>8, <2>10 DEF RowWritten
<1> QED
  BY <1>2, <1>3

LEMMA FirstRow ==
  ASSUME IInv, NEW p \in Packet, FirstOfTuple(p)
  PROVE  RowWritten
<1> DEFINE k == to_string(p.tuple)
           e == <<>>
           d == Direction(p)
<1>0. e \in Seq(FlowType) /\ Len(e) = 0 /\ MapTypeOK
  BY DEF IInv
<1>1. ~Known(p.tuple) /\ Record(Tried(p), p)
  BY DEF FirstOfTuple
<1>2. CASE ~IsStored(Tried(p))
  BY <1>1, <1>2 DEF Record, RowWritten
<1>3. CASE IsStored(Tried(p))
  <2>1. /\ k \in Keys' /\ internal_map'[k].tuple = p.tuple
        /\ Flows(k)' = NewFlows(e, p)
    BY <1>3 DEF FirstOfTuple, Keys, Flows
  <2> HIDE DEF e
  <2>2. Len(NewFlows(e, p)) = Len(e) + 1
    BY <1>0, <1>3, NewFlowsGrow
  <2>3. NewFlows(e, p)[Len(e) + 1] = Tried(p).flow
    BY <1>0, <2>2, NewFlowsGrow
  <2>4. 1 \in 1..Len(Flows(k)') /\ Flows(k)'[1] = Tried(p).flow
    BY <1>0, <2>1, <2>2, <2>3
  <2>5. d \in Dir /\ Carries(p, d, p.tuple)
    BY <1>1, NewCarries, DirectionType
  <2>6. packet_table' = Append(packet_table, [dir_id |-> Tried(p).flow.id[d], pkt |-> p])
    BY <1>1, <1>3 DEF Record
  <2> HIDE DEF k, d
  <2>7. RowFor(p, k, 1, d)
    BY <2>1, <2>4, <2>5, <2>6 DEF RowFor
  <2> QED
    BY <2>1, <2>4, <2>5, <2>7 DEF RowWritten
<1> QED
  BY <1>2, <1>3

\* Every row has an id that was given out: with it, a fresh flow owns no old row.
RowsBelow == \A n \in 1..Len(packet_table) : packet_table[n].dir_id < global_dir_id

\* The row of a packet is the last; the rows before it are the old ones.
LEMMA RowsAfter ==
  ASSUME MapTypeOK, NEW r, packet_table' = Append(packet_table, r)
  PROVE  /\ \A n \in 1..Len(packet_table') :
              n \in 1..Len(packet_table) \/ n = Len(packet_table) + 1
         /\ \A n \in 1..Len(packet_table) : packet_table'[n] = packet_table[n]
         /\ packet_table'[Len(packet_table) + 1] = r
  BY DEF MapTypeOK

LEMMA RowId ==
  ASSUME MapTypeOK, NEW n \in 1..Len(packet_table)
  PROVE  packet_table[n].dir_id \in Nat
<1>1. packet_table[n] \in Row
  BY DEF MapTypeOK
<1> QED
  BY <1>1 DEF Row

LEMMA NextRowsBelow ==
  ASSUME IInv, RowsBelow, DirIdsUnique', Effect, RowWritten
  PROVE  RowsBelow'
<1>1. /\ global_dir_id \in Nat /\ global_dir_id' \in Nat /\ global_dir_id' >= global_dir_id
      /\ packet_table \in Seq(Row) /\ MapTypeOK
  BY DEF IInv, MapTypeOK, Effect
<1>2. \A n \in 1..Len(packet_table) : packet_table[n].dir_id < global_dir_id'
  BY <1>1, RowId DEF RowsBelow
<1>3. CASE UNCHANGED packet_table
  BY <1>2, <1>3 DEF RowsBelow
<1>4. ASSUME NEW p \in Packet, NEW k \in Keys', NEW i \in 1..Len(Flows(k)'), NEW d \in Dir,
             RowFor(p, k, i, d)
      PROVE  RowsBelow'
  <2>1. Flows(k)'[i].id[d] < global_dir_id'
    BY DEF DirIdsUnique
  <2> QED
    BY <1>1, <1>2, <1>4, <2>1, RowsAfter DEF RowFor, RowsBelow
<1> QED
  BY <1>3, <1>4 DEF RowWritten

\* A flow of the map after a step was there before, under the same tuple, or has
\* ids that no row has yet.
LEMMA OldOrFresh ==
  ASSUME IInv, Effect, NEW k \in Keys', NEW i \in 1..Len(Flows(k)')
  PROVE  \/ Kept(k, i) /\ internal_map'[k].tuple = internal_map[k].tuple
         \/ Fresh(k, i)
<1>1. CASE UNCHANGED internal_map
  BY <1>1 DEF Kept, Keys, Flows
<1>2. CASE \E u \in Tuples, t \in Seq(FlowType) : Grown(u, t)
  <2>1. Kept(k, i) \/ Fresh(k, i)
    BY <1>2, WhereFlowsComeFrom
  <2>2. Kept(k, i) => internal_map'[k].tuple = internal_map[k].tuple
    BY OldFlowsStay DEF Kept
  <2> QED
    BY <2>1, <2>2
<1> QED
  BY <1>1, <1>2 DEF Effect

\* What DirectionsMatch says of one flow and one row.
Match(f, r, t) ==
  /\ r.dir_id = f.id["A"] => r.pkt.tuple = t
  /\ r.dir_id = f.id["B"] => r.pkt.tuple = reverse(t)

LEMMA NextDirections ==
  ASSUME IInv, DirectionsMatch, RowsBelow, DirIdsUnique', Effect, RowWritten
  PROVE  DirectionsMatch'
<1>0. MapTypeOK /\ global_dir_id \in Nat /\ packet_table \in Seq(Row)
  BY DEF IInv, MapTypeOK
<1> SUFFICES ASSUME NEW k \in Keys', NEW i \in 1..Len(Flows(k)'),
                    NEW n \in 1..Len(packet_table')
             PROVE  Match(Flows(k)'[i], packet_table'[n], internal_map'[k].tuple)
  BY DEF DirectionsMatch, Match
<1>1. ASSUME n \in 1..Len(packet_table)
      PROVE  Match(Flows(k)'[i], packet_table[n], internal_map'[k].tuple)
  <2>1. CASE Kept(k, i) /\ internal_map'[k].tuple = internal_map[k].tuple
    BY <1>1, <2>1 DEF Kept, Match, DirectionsMatch
  <2>2. CASE Fresh(k, i)
    <3>1. packet_table[n].dir_id \in Nat /\ packet_table[n].dir_id < global_dir_id
      BY <1>0, <1>1, RowId DEF RowsBelow
    <3> QED
      BY <1>0, <2>2, <3>1 DEF Fresh, Match
  <2> QED
    BY <2>1, <2>2, OldOrFresh
<1>2. CASE UNCHANGED packet_table
  BY <1>1, <1>2
<1>3. ASSUME NEW p \in Packet, NEW l \in Keys', NEW j \in 1..Len(Flows(l)'), NEW d \in Dir,
             RowFor(p, l, j, d)
      PROVE  Match(Flows(k)'[i], packet_table'[n], internal_map'[k].tuple)
  <2> DEFINE r == [dir_id |-> Flows(l)'[j].id[d], pkt |-> p]
  <2>1. packet_table' = Append(packet_table, r) /\ Carries(p, d, internal_map'[l].tuple)
    BY <1>3 DEF RowFor
  <2>2. CASE n \in 1..Len(packet_table)
    BY <1>0, <1>1, <2>1, <2>2, RowsAfter
  <2>3. CASE n = Len(packet_table) + 1
    <3>1. packet_table'[n] = r
      BY <1>0, <2>1, <2>3, RowsAfter
    <3>2. \A e \in Dir : Flows(l)'[j].id[d] = Flows(k)'[i].id[e] => l = k /\ d = e
      BY DEF DirIdsUnique
    <3> QED
      BY <2>1, <3>1, <3>2 DEF Match, Carries, Dir
  <2> QED
    BY <1>0, <2>1, <2>2, <2>3, RowsAfter
<1> QED
  BY <1>2, <1>3 DEF RowWritten

\* If the texts of the tuples tell them and their reverses apart, every stored
\* packet carries the tuple of its flow, in the direction its row says.  The
\* run on equal texts shows that the hypothesis cannot be dropped.
THEOREM DirectionsAlwaysMatch ==
  ASSUME KeysDistinct(Oriented)
  PROVE  Spec => []DirectionsMatch
<1> DEFINE J == DirectionsMatch /\ RowsBelow
<1>1. Init => J
  BY DEF Init, DirectionsMatch, RowsBelow, Keys
<1>2. IInv /\ TraceTypeOK /\ DirIdsUnique' /\ J /\ [Next]_vars => J'
  <2>1. ASSUME UNCHANGED vars PROVE J' <=> J
    BY <2>1 DEF vars, DirectionsMatch, RowsBelow, Keys, Flows
  <2>2. ASSUME IInv, TraceTypeOK, DirIdsUnique', J, Next PROVE J'
    <3>1. PICK p \in Packet : map_to_flow(p)
      BY <2>2, NextIsPacket
    <3>2. RowWritten
      BY <2>2, <3>1, DeliverRow, RetryRow, FirstRow DEF map_to_flow
    <3>3. Effect
      BY <2>2, <3>1, PacketEffect
    <3> QED
      BY <2>2, <3>2, <3>3, NextRowsBelow, NextDirections
  <2> QED
    BY <2>1, <2>2
<1>3. J => DirectionsMatch
  OBVIOUS
<1> HIDE DEF J
<1> QED
  BY <1>1, <1>2, <1>3, InvHolds, DirIdsAlwaysUnique, PTL DEF Spec

-----------------------------------------------------------------------------
(* Rows and counters.  A flow that is tried and thrown away has written no   *)
(* row, and one that is kept has counted each of its rows once.              *)

LEMMA KeysFlowsType ==
  ASSUME MapTypeOK, NEW k \in Keys
  PROVE  Flows(k) \in Seq(FlowType) /\ Len(Flows(k)) \in Nat
<1>1. internal_map[k] \in Entry
  BY DEF MapTypeOK, Keys
<1> QED
  BY <1>1 DEF Entry, Flows

LEMMA MapReplaced ==
  ASSUME IInv, NEW k \in Keys, NEW t, internal_map' = [internal_map EXCEPT ![k].flows = t]
  PROVE  /\ Keys' = Keys /\ Flows(k)' = t
         /\ \A l \in Keys \ {k} : Flows(l)' = Flows(l)
<1>1. internal_map \in [Keys -> Entry]
  BY DEF IInv, MapTypeOK, Keys
<1>2. /\ DOMAIN internal_map' = DOMAIN internal_map
      /\ \A l \in Keys \ {k} : internal_map'[l] = internal_map[l]
  BY <1>1
<1> QED
  BY <1>2, FlowsReplaced DEF Keys, Flows

\* The places in s of the rows with this id.
IdRows(s, id) == {n \in 1..Len(s) : s[n].dir_id = id}

\* Every row has the id of a flow of the map.
RowsOwned ==
  \A n \in 1..Len(packet_table) :
    \E k \in Keys : \E i \in 1..Len(Flows(k)), d \in Dir :
      Flows(k)[i].id[d] = packet_table[n].dir_id

\* Every direction of the map has counted its rows.
RowsCounted ==
  \A k \in Keys : \A i \in 1..Len(Flows(k)), d \in Dir :
    Flows(k)[i].num_packets[d] = Cardinality(IdRows(packet_table, Flows(k)[i].id[d]))

LEMMA MatchIsOwnedAndCounted == RowsOwned /\ RowsCounted => RowsMatchCounters
<1> SUFFICES ASSUME RowsOwned, RowsCounted PROVE RowsMatchCounters
  OBVIOUS
<1>1. ASSUME NEW n \in 1..Len(packet_table)
      PROVE  \E x \in FlowsInMap : \E d \in Dir : FlowAt(x).id[d] = packet_table[n].dir_id
  <2>1. PICK k \in Keys : \E i \in 1..Len(Flows(k)), d \in Dir :
               Flows(k)[i].id[d] = packet_table[n].dir_id
    BY DEF RowsOwned
  <2>2. PICK i \in 1..Len(Flows(k)), d \in Dir : Flows(k)[i].id[d] = packet_table[n].dir_id
    BY <2>1
  <2>3. <<k, i>> \in FlowsInMap /\ FlowAt(<<k, i>>) = Flows(k)[i]
    BY DEF FlowsInMap, FlowAt
  <2> QED
    BY <2>2, <2>3
<1>2. ASSUME NEW x \in FlowsInMap, NEW d \in Dir
      PROVE  FlowAt(x).num_packets[d] =
               Cardinality({n \in 1..Len(packet_table) : packet_table[n].dir_id = FlowAt(x).id[d]})
  <2>1. PICK k \in Keys : x \in {<<k, i>> : i \in 1..Len(Flows(k))}
    BY DEF FlowsInMap
  <2>2. PICK i \in 1..Len(Flows(k)) : x = <<k, i>>
    BY <2>1
  <2>3. FlowAt(x) = Flows(k)[i]
    BY <2>2 DEF FlowAt
  <2> QED
    BY <2>3 DEF RowsCounted, IdRows
<1> QED
  BY <1>1, <1>2 DEF RowsMatchCounters

LEMMA IdRowsAppend ==
  ASSUME NEW s \in Seq(Row), NEW r \in Row, NEW id
  PROVE  /\ Cardinality(IdRows(s, id)) \in Nat
         /\ Cardinality(IdRows(Append(s, r), id)) =
              IF r.dir_id = id THEN Cardinality(IdRows(s, id)) + 1
                               ELSE Cardinality(IdRows(s, id))
<1> DEFINE t == Append(s, r)
<1>1. /\ Len(s) \in Nat /\ Len(t) = Len(s) + 1 /\ t[Len(s) + 1] = r
      /\ \A n \in 1..Len(s) : t[n] = s[n]
  OBVIOUS
<1> HIDE DEF t
<1>2. IdRows(t, id) = IF r.dir_id = id THEN IdRows(s, id) \cup {Len(s) + 1} ELSE IdRows(s, id)
  <2>1. 1..Len(t) = 1..Len(s) \cup {Len(s) + 1}
    BY <1>1
  <2> QED
    BY <1>1, <2>1 DEF IdRows
<1>3. IsFiniteSet(1..Len(s)) /\ IdRows(s, id) \in SUBSET (1..Len(s)) /\ Len(s) + 1 \notin 1..Len(s)
  BY <1>1, FS_Interval DEF IdRows
<1>4. IsFiniteSet(IdRows(s, id)) /\ Len(s) + 1 \notin IdRows(s, id)
  BY <1>3, FS_Subset
<1>5. /\ Cardinality(IdRows(s, id)) \in Nat
      /\ Cardinality(IdRows(s, id) \cup {Len(s) + 1}) = Cardinality(IdRows(s, id)) + 1
  BY <1>4, FS_AddElement, FS_CardinalityType
<1> QED
  BY <1>2, <1>5 DEF t

\* After a step a flow is one of those before, as it was or just closed, or
Stays(k, i) ==
  /\ k \in Keys /\ i \in 1..Len(Flows(k))
  /\ Flows(k)'[i] \in {Flows(k)[i], set_state(Flows(k)[i], "CLOSED")}

\* it is what the flow f became when it stored p, in direction d.
Took(f, p, d, g) == IsStored(handle_packet(f, p, d)) /\ g = handle_packet(f, p, d).flow

RowTakenBy(p, k, i, d) ==
  /\ packet_table' = Append(packet_table, [dir_id |-> Flows(k)'[i].id[d], pkt |-> p])
  /\ \A l \in Keys' : \A j \in 1..Len(Flows(l)') : Stays(l, j) \/ (l = k /\ j = i)
  /\ \/ Kept(k, i) /\ Took(Flows(k)[i], p, d, Flows(k)'[i])
     \/ Fresh(k, i) /\ Took(Flow(global_dir_id), p, d, Flows(k)'[i])

\* The whole of a step, for the rows: no row and no flow but perhaps a closed one,
\* or one row, of the flow that stored it.
RowTaken(p) ==
  \/ /\ UNCHANGED packet_table
     /\ \A l \in Keys' : \A j \in 1..Len(Flows(l)') : Stays(l, j)
  \/ \E k \in Keys' : \E i \in 1..Len(Flows(k)'), d \in Dir : RowTakenBy(p, k, i, d)

LEMMA OfferedCloses ==
  ASSUME IInv, NEW p \in Packet, Known(p.tuple)
  PROVE  /\ Offered(p).flow \in FlowType /\ Offered(p).flow.id = LastFlow(p).id
         /\ Offered(p) = handle_packet(LastFlow(p), p, Direction(p))
         /\ ~IsStored(Offered(p)) =>
              Offered(p).flow \in {LastFlow(p), set_state(LastFlow(p), "CLOSED")}
<1>1. LastFlow(p) \in FlowType
  BY EntryOfKnown
<1>2. OnlyCloses(Offered(p), LastFlow(p))
  BY <1>1, DirectionType, HandlePacketStoresDuly DEF Offered
<1> QED
  BY <1>1, <1>2, OfferedGood DEF GoodOutcome, Offered, OnlyCloses, IsStored

LEMMA DeliverTakes ==
  ASSUME IInv, NEW p \in Packet, DeliverToLast(p)
  PROVE  RowTaken(p)
<1>0. PICK k, s, m, f, d : /\ k = KeyOf(p.tuple) /\ s = Flows(k) /\ m = Len(s)
                           /\ f = Offered(p).flow /\ d = Direction(p)
  OBVIOUS
<1>1. Known(p.tuple) /\ Record(Offered(p), p)
  BY DEF DeliverToLast
<1>2. /\ k \in Keys /\ s \in Seq(FlowType) /\ m \in Nat \ {0} /\ LastFlow(p) = s[m]
  BY <1>0, <1>1, EntryOfKnown
<1>3. /\ f \in FlowType /\ f.id = s[m].id /\ d \in Dir
      /\ Offered(p) = handle_packet(s[m], p, d)
      /\ ~IsStored(Offered(p)) => f \in {s[m], set_state(s[m], "CLOSED")}
  BY <1>0, <1>1, <1>2, OfferedCloses, DirectionType
<1>4. internal_map' = [internal_map EXCEPT ![k].flows = [s EXCEPT ![m] = f]]
  BY <1>0 DEF DeliverToLast, Flows
<1>5. /\ Keys' = Keys /\ Flows(k)' = [s EXCEPT ![m] = f]
      /\ \A l \in Keys \ {k} : Flows(l)' = Flows(l)
  BY <1>2, <1>4, MapReplaced
<1>6. Len(Flows(k)') = m /\ Flows(k)'[m] = f /\ \A j \in 1..m : j # m => Flows(k)'[j] = s[j]
  BY <1>0, <1>2, <1>3, <1>5
<1>7. ASSUME NEW l \in Keys', NEW j \in 1..Len(Flows(l)')
      PROVE  Stays(l, j) \/ (l = k /\ j = m)
  <2>1. CASE l = k
    BY <1>0, <1>2, <1>3, <1>5, <1>6, <2>1 DEF Stays
  <2>2. CASE l # k
    BY <1>5, <2>2 DEF Stays
  <2> QED
    BY <2>1, <2>2
<1>8. CASE IsStored(Offered(p))
  <2>1. packet_table' = Append(packet_table, [dir_id |-> Flows(k)'[m].id[d], pkt |-> p])
    BY <1>0, <1>1, <1>6, <1>8 DEF Record
  <2>2. Kept(k, m) /\ Took(Flows(k)[m], p, d, Flows(k)'[m])
    BY <1>0, <1>2, <1>3, <1>6, <1>8 DEF Kept, Took
  <2>3. k \in Keys' /\ m \in 1..Len(Flows(k)')
    BY <1>2, <1>5, <1>6
  <2>4. RowTakenBy(p, k, m, d)
    BY <1>7, <2>1, <2>2 DEF RowTakenBy
  <2> QED
    BY <1>3, <2>3, <2>4 DEF RowTaken
<1>9. CASE ~IsStored(Offered(p))
  <2>1. UNCHANGED packet_table
    BY <1>1, <1>9 DEF Record
  <2>2. m \in 1..Len(Flows(k)') => Stays(k, m)
    BY <1>0, <1>2, <1>3, <1>6, <1>9 DEF Stays
  <2> QED
    BY <1>7, <2>1, <2>2 DEF RowTaken
<1> QED
  BY <1>8, <1>9

LEMMA RetryTakes ==
  ASSUME IInv, NEW p \in Packet, RetryAsNew(p)
  PROVE  RowTaken(p)
<1>0. PICK k, s, m, f, r, d : /\ k = KeyOf(p.tuple) /\ s = Flows(k) /\ m = Len(s)
                           /\ f = Offered(p).flow /\ d = Direction(p) /\ r = [s EXCEPT ![m] = f]
  OBVIOUS
<1>1. Known(p.tuple) /\ Record(Tried(p), p) /\ Offered(p).decision = "PKT_NOT_FOR_ME" /\ MapTypeOK
  BY DEF RetryAsNew, IInv
<1>2. /\ k \in Keys /\ s \in Seq(FlowType) /\ m \in Nat \ {0} /\ LastFlow(p) = s[m]
  BY <1>0, <1>1, EntryOfKnown
<1>3. f \in FlowType /\ f \in {s[m], set_state(s[m], "CLOSED")} /\ d \in Dir
  BY <1>0, <1>1, <1>2, OfferedCloses, DirectionType DEF IsStored
<1>4. internal_map' = [internal_map EXCEPT ![k].flows = NewFlows(r, p)]
  BY <1>0 DEF RetryAsNew, Flows
<1>5. /\ Keys' = Keys /\ Flows(k)' = NewFlows(r, p)
      /\ \A l \in Keys \ {k} : Flows(l)' = Flows(l)
  BY <1>2, <1>4, MapReplaced
<1>6. r \in Seq(FlowType) /\ Len(r) = m /\ r[m] = f /\ \A j \in 1..m : j # m => r[j] = s[j]
  BY <1>0, <1>2, <1>3
<1>7. ASSUME NEW j \in 1..m
      PROVE  r[j] \in {s[j], set_state(s[j], "CLOSED")}
  BY <1>3, <1>6
<1>8. CASE IsStored(Tried(p))
  <2>1. /\ Len(Flows(k)') = m + 1 /\ Flows(k)'[m + 1] = Tried(p).flow
        /\ \A j \in 1..m : Flows(k)'[j] = r[j]
    <3>1. /\ \A j \in 1..Len(r) : NewFlows(r, p)[j] = r[j]
          /\ Len(NewFlows(r, p)) = Len(r) + 1
          /\ NewFlows(r, p)[Len(r) + 1] = Tried(p).flow
      BY <1>1, <1>6, <1>8, NewFlowsGrow
    <3> QED
      BY <1>5, <1>6, <3>1
  <2>2. ASSUME NEW l \in Keys', NEW j \in 1..Len(Flows(l)')
        PROVE  Stays(l, j) \/ (l = k /\ j = m + 1)
    <3>1. CASE l = k
      BY <1>0, <1>2, <1>7, <2>1, <3>1 DEF Stays
    <3>2. CASE l # k
      BY <1>5, <3>2 DEF Stays
    <3> QED
      BY <3>1, <3>2
  <2>3. packet_table' = Append(packet_table, [dir_id |-> Flows(k)'[m + 1].id[d], pkt |-> p])
    BY <1>0, <1>1, <1>8, <2>1 DEF Record
  <2>4. Fresh(k, m + 1)
    BY <1>1, <2>1, TriedGood DEF Fresh, RetryAsNew
  <2>5. Took(Flow(global_dir_id), p, d, Flows(k)'[m + 1])
    BY <1>0, <1>8, <2>1 DEF Took, Tried
  <2>6. k \in Keys' /\ m + 1 \in 1..Len(Flows(k)')
    BY <1>2, <1>5, <2>1
  <2>7. RowTakenBy(p, k, m + 1, d)
    BY <2>2, <2>3, <2>4, <2>5 DEF RowTakenBy
  <2> QED
    BY <1>3, <2>6, <2>7 DEF RowTaken
<1>9. CASE ~IsStored(Tried(p))
  <2>1. UNCHANGED packet_table /\ Flows(k)' = r
    BY <1>1, <1>5, <1>9 DEF Record, NewFlows
  <2>2. ASSUME NEW l \in Keys', NEW j \in 1..Len(Flows(l)')
        PROVE  Stays(l, j)
    <3>1. CASE l = k
      BY <1>0, <1>2, <1>6, <1>7, <2>1, <3>1 DEF Stays
    <3>2. CASE l # k
      BY <1>5, <3>2 DEF Stays
    <3> QED
      BY <3>1, <3>2
  <2> QED
    BY <2>1, <2>2 DEF RowTaken
<1> QED
  BY <1>8, <1>9

LEMMA FirstTakes ==
  ASSUME IInv, NEW p \in Packet, FirstOfTuple(p)
  PROVE  RowTaken(p)
<1>0. PICK k, e, d : k = to_string(p.tuple) /\ e = <<>> /\ d = Direction(p)
  OBVIOUS
<1>1. ~Known(p.tuple) /\ Record(Tried(p), p) /\ MapTypeOK /\ d \in Dir
  BY <1>0, DirectionType DEF FirstOfTuple, IInv
<1>2. k \notin Keys
  BY <1>0, <1>1 DEF Known, Found, Keys
<1>3. CASE IsStored(Tried(p))
  <2>1. internal_map' = [x \in Keys \cup {k} |->
          IF x = k THEN [tuple |-> p.tuple, flows |-> NewFlows(e, p)] ELSE internal_map[x]]
    BY <1>0, <1>3 DEF FirstOfTuple, Keys
  <2>2. /\ Keys' = Keys \cup {k} /\ Flows(k)' = NewFlows(e, p)
        /\ \A l \in Keys : Flows(l)' = Flows(l)
    BY <1>2, <2>1 DEF Keys, Flows
  <2>3. e \in Seq(FlowType) /\ Len(e) = 0
    BY <1>0
  <2>4. Len(Flows(k)') = 1 /\ Flows(k)'[1] = Tried(p).flow
    <3>1. Len(NewFlows(e, p)) = Len(e) + 1
      BY <1>1, <1>3, <2>3, NewFlowsGrow
    <3>2. NewFlows(e, p)[Len(e) + 1] = Tried(p).flow
      BY <1>1, <2>3, <3>1, NewFlowsGrow
    <3> QED
      BY <2>2, <2>3, <3>1, <3>2
  <2>5. ASSUME NEW l \in Keys', NEW j \in 1..Len(Flows(l)')
        PROVE  Stays(l, j) \/ (l = k /\ j = 1)
    <3>1. CASE l = k
      <4>1. j \in 1..1
        BY <2>4, <3>1
      <4> QED
        BY <3>1, <4>1
    <3>2. CASE l # k
      BY <2>2, <3>2 DEF Stays
    <3> QED
      BY <3>1, <3>2
  <2>6. packet_table' = Append(packet_table, [dir_id |-> Flows(k)'[1].id[d], pkt |-> p])
    BY <1>0, <1>1, <1>3, <2>4 DEF Record
  <2>7. Fresh(k, 1)
    BY <1>1, <2>4, TriedGood DEF Fresh, FirstOfTuple
  <2>8. Took(Flow(global_dir_id), p, d, Flows(k)'[1])
    BY <1>0, <1>3, <2>4 DEF Took, Tried
  <2>9. k \in Keys' /\ 1 \in 1..Len(Flows(k)')
    BY <2>2, <2>4
  <2>10. RowTakenBy(p, k, 1, d)
    BY <2>5, <2>6, <2>7, <2>8 DEF RowTakenBy
  <2> QED
    BY <1>1, <2>9, <2>10 DEF RowTaken
<1>4. CASE ~IsStored(Tried(p))
  <2>1. UNCHANGED packet_table /\ UNCHANGED internal_map
    BY <1>1, <1>4 DEF Record, FirstOfTuple
  <2> QED
    BY <2>1 DEF RowTaken, Stays, Keys, Flows
<1> QED
  BY <1>3, <1>4


LEMMA MapToFlowTakes ==
  ASSUME IInv, NEW p \in Packet, map_to_flow(p)
  PROVE  RowTaken(p)
  BY DeliverTakes, RetryTakes, FirstTakes DEF map_to_flow

\* After a step: the flow is one of those before, with the same counters, or
Same(k, i) == Kept(k, i) /\ Flows(k)'[i].num_packets = Flows(k)[i].num_packets

\* it is the flow that stored p and has counted it.
RowCountedFor(p, k, i, d) ==
  /\ packet_table' = Append(packet_table, [dir_id |-> Flows(k)'[i].id[d], pkt |-> p])
  /\ \A l \in Keys' : \A j \in 1..Len(Flows(l)') : Same(l, j) \/ (l = k /\ j = i)
  /\ \/ Kept(k, i) /\ Flows(k)'[i].num_packets = [Flows(k)[i].num_packets EXCEPT ![d] = @ + 1]
     \/ Fresh(k, i) /\ Flows(k)'[i].num_packets = [e \in Dir |-> IF e = d THEN 1 ELSE 0]

RowCounted ==
  \/ /\ UNCHANGED packet_table
     /\ \A l \in Keys' : \A j \in 1..Len(Flows(l)') : Same(l, j)
  \/ \E p \in Packet, k \in Keys' : \E i \in 1..Len(Flows(k)'), d \in Dir :
       RowCountedFor(p, k, i, d)

LEMMA FlowOfMap ==
  ASSUME IInv, NEW k \in Keys, NEW i \in 1..Len(Flows(k))
  PROVE  Flows(k)[i] \in FlowType
  BY KeysFlowsType DEF IInv

LEMMA StaysIsSame ==
  ASSUME IInv, NEW k, NEW i, Stays(k, i)
  PROVE  Same(k, i)
<1>1. Flows(k)[i] \in FlowType
  BY FlowOfMap DEF Stays
<1>2. /\ set_state(Flows(k)[i], "CLOSED").id = Flows(k)[i].id
      /\ set_state(Flows(k)[i], "CLOSED").num_packets = Flows(k)[i].num_packets
  BY <1>1 DEF set_state, FlowType
<1> QED
  BY <1>2 DEF Stays, Same, Kept

LEMMA TakenIsCounted ==
  ASSUME IInv, NEW p \in Packet, RowTaken(p)
  PROVE  RowCounted
<1>1. CASE /\ UNCHANGED packet_table
           /\ \A l \in Keys' : \A j \in 1..Len(Flows(l)') : Stays(l, j)
  BY <1>1, StaysIsSame DEF RowCounted
<1>2. ASSUME NEW k \in Keys', NEW i \in 1..Len(Flows(k)'), NEW d \in Dir, RowTakenBy(p, k, i, d)
      PROVE  RowCounted
  <2>1. \A l \in Keys' : \A j \in 1..Len(Flows(l)') : Same(l, j) \/ (l = k /\ j = i)
    BY <1>2, StaysIsSame DEF RowTakenBy
  <2>2. ASSUME NEW f \in FlowType, Took(f, p, d, Flows(k)'[i])
        PROVE  Flows(k)'[i].num_packets = [f.num_packets EXCEPT ![d] = @ + 1]
    BY <2>2, HandlePacketCounts DEF Took, IsStored, Counts
  <2>3. CASE Kept(k, i) /\ Took(Flows(k)[i], p, d, Flows(k)'[i])
    <3>1. Flows(k)[i] \in FlowType
      BY <2>3, FlowOfMap DEF Kept
    <3>2. Flows(k)'[i].num_packets = [Flows(k)[i].num_packets EXCEPT ![d] = @ + 1]
      BY <2>2, <2>3, <3>1
    <3>3. RowCountedFor(p, k, i, d)
      BY <1>2, <2>1, <2>3, <3>2 DEF RowTakenBy, RowCountedFor
    <3> QED
      BY <3>3 DEF RowCounted
  <2>4. CASE Fresh(k, i) /\ Took(Flow(global_dir_id), p, d, Flows(k)'[i])
    <3>1. Flow(global_dir_id) \in FlowType
      BY NewFlowType DEF IInv, MapTypeOK
    <3>2. Flows(k)'[i].num_packets = [Flow(global_dir_id).num_packets EXCEPT ![d] = @ + 1]
      BY <2>2, <2>4, <3>1
    <3>3. Flow(global_dir_id).num_packets = [e \in Dir |-> 0]
      BY DEF Flow
    <3>4. Flows(k)'[i].num_packets = [e \in Dir |-> IF e = d THEN 1 ELSE 0]
      BY <3>2, <3>3
    <3>5. RowCountedFor(p, k, i, d)
      BY <1>2, <2>1, <2>4, <3>4 DEF RowTakenBy, RowCountedFor
    <3> QED
      BY <3>5 DEF RowCounted
  <2> QED
    BY <1>2, <2>3, <2>4 DEF RowTakenBy
<1> QED
  BY <1>1, <1>2 DEF RowTaken

-----------------------------------------------------------------------------

LEMMA OwnedBelow ==
  ASSUME DirIdsUnique, RowsOwned
  PROVE  RowsBelow
<1> SUFFICES ASSUME NEW n \in 1..Len(packet_table)
             PROVE  packet_table[n].dir_id < global_dir_id
  BY DEF RowsBelow
<1>1. PICK k \in Keys : \E i \in 1..Len(Flows(k)), d \in Dir :
             Flows(k)[i].id[d] = packet_table[n].dir_id
  BY DEF RowsOwned
<1>2. PICK i \in 1..Len(Flows(k)), d \in Dir : Flows(k)[i].id[d] = packet_table[n].dir_id
  BY <1>1
<1>3. Flows(k)[i].id[d] < global_dir_id
  BY DEF DirIdsUnique
<1> QED
  BY <1>2, <1>3

LEMMA NextOwned ==
  ASSUME IInv, IInv', RowsOwned, Effect, RowCounted
  PROVE  RowsOwned'
<1> DEFINE Owner(k, i, d, id) ==
             k \in Keys' /\ i \in 1..Len(Flows(k)') /\ d \in Dir /\ Flows(k)'[i].id[d] = id
<1> SUFFICES ASSUME NEW n \in 1..Len(packet_table')
             PROVE  \E k, i, d : Owner(k, i, d, packet_table'[n].dir_id)
  BY DEF RowsOwned
<1>0. MapTypeOK
  BY DEF IInv
<1>1. ASSUME n \in 1..Len(packet_table), packet_table'[n] = packet_table[n]
      PROVE  \E k, i, d : Owner(k, i, d, packet_table'[n].dir_id)
  <2>1. PICK k \in Keys : \E i \in 1..Len(Flows(k)), d \in Dir :
               Flows(k)[i].id[d] = packet_table[n].dir_id
    BY <1>1 DEF RowsOwned
  <2>2. PICK i \in 1..Len(Flows(k)), d \in Dir : Flows(k)[i].id[d] = packet_table[n].dir_id
    BY <2>1
  <2>3. k \in Keys' /\ Len(Flows(k)) <= Len(Flows(k)') /\ Flows(k)'[i].id = Flows(k)[i].id
    BY OldFlowsStay
  <2>4. i \in 1..Len(Flows(k)')
    <3>1. Len(Flows(k)) \in Nat /\ Len(Flows(k)') \in Nat
      <4>1. MapTypeOK'
        BY DEF IInv
      <4> QED
        BY <1>0, <2>3, KeysFlowsType
    <3> QED
      BY <2>3, <3>1
  <2>5. Owner(k, i, d, packet_table'[n].dir_id)
    BY <1>1, <2>2, <2>3, <2>4
  <2> HIDE DEF Owner
  <2> QED
    BY <2>5
<1>2. CASE UNCHANGED packet_table
  BY <1>1, <1>2
<1>3. ASSUME NEW p \in Packet, NEW k \in Keys', NEW i \in 1..Len(Flows(k)'), NEW d \in Dir,
             RowCountedFor(p, k, i, d)
      PROVE  \E l, j, e : Owner(l, j, e, packet_table'[n].dir_id)
  <2>1. packet_table' = Append(packet_table, [dir_id |-> Flows(k)'[i].id[d], pkt |-> p])
    BY <1>3 DEF RowCountedFor
  <2>2. CASE n = Len(packet_table) + 1
    <3>1. packet_table'[n].dir_id = Flows(k)'[i].id[d]
      BY <1>0, <2>1, <2>2, RowsAfter
    <3> QED
      BY <3>1
  <2> QED
    BY <1>0, <1>1, <2>1, <2>2, RowsAfter
<1> QED
  BY <1>2, <1>3 DEF RowCounted
LEMMA NextCounted ==
  ASSUME IInv, IInv', DirIdsUnique', RowsBelow, RowsCounted, RowCounted
  PROVE  RowsCounted'
<1> DEFINE C(table, id) == Cardinality(IdRows(table, id))
<1> SUFFICES ASSUME NEW l \in Keys', NEW j \in 1..Len(Flows(l)'), NEW e \in Dir
             PROVE  Flows(l)'[j].num_packets[e] = C(packet_table', Flows(l)'[j].id[e])
  BY DEF RowsCounted
<1>0. MapTypeOK /\ packet_table \in Seq(Row)
  BY DEF IInv, MapTypeOK
<1>1. ASSUME Same(l, j)
      PROVE  Flows(l)'[j].num_packets[e] = C(packet_table, Flows(l)'[j].id[e])
  BY <1>1 DEF Same, Kept, RowsCounted
<1>2. CASE UNCHANGED packet_table /\ Same(l, j)
  BY <1>1, <1>2
<1>3. ASSUME NEW p \in Packet, NEW k \in Keys', NEW i \in 1..Len(Flows(k)'), NEW d \in Dir,
             RowCountedFor(p, k, i, d)
      PROVE  Flows(l)'[j].num_packets[e] = C(packet_table', Flows(l)'[j].id[e])
  <2> DEFINE r == [dir_id |-> Flows(k)'[i].id[d], pkt |-> p]
  <2>1. Flows(k)'[i] \in FlowType
    <3>1. internal_map'[k] \in Entry
      BY DEF IInv, MapTypeOK, Keys
    <3>2. Flows(k)' \in Seq(FlowType)
      BY <3>1 DEF Entry, Flows
    <3> QED
      BY <3>2
  <2>2. r \in Row
    BY <2>1 DEF FlowType, Row
  <2>3. packet_table' = Append(packet_table, r)
    BY <1>3 DEF RowCountedFor
  <2>4. /\ C(packet_table, Flows(l)'[j].id[e]) \in Nat
        /\ C(packet_table', Flows(l)'[j].id[e]) =
             IF Flows(k)'[i].id[d] = Flows(l)'[j].id[e]
             THEN C(packet_table, Flows(l)'[j].id[e]) + 1 ELSE C(packet_table, Flows(l)'[j].id[e])
    BY <1>0, <2>2, <2>3, IdRowsAppend
  <2>5. Flows(k)'[i].id[d] = Flows(l)'[j].id[e] => k = l /\ i = j /\ d = e
    BY DEF DirIdsUnique
  <2> HIDE DEF C, r
  <2>6. CASE l # k \/ j # i
    <3>1. Same(l, j)
      BY <1>3, <2>6 DEF RowCountedFor
    <3> QED
      BY <1>1, <2>4, <2>5, <2>6, <3>1
  <2>7. CASE l = k /\ j = i
    <3>1. CASE Kept(k, i) /\ Flows(k)'[i].num_packets = [Flows(k)[i].num_packets EXCEPT ![d] = @ + 1]
      <4>1. Flows(k)[i].num_packets \in [Dir -> Nat]
        <5>1. Flows(k) \in Seq(FlowType) /\ i \in 1..Len(Flows(k))
          BY <1>0, <3>1, KeysFlowsType DEF Kept
        <5>2. Flows(k)[i] \in FlowType
          BY <5>1
        <5> QED
          BY <5>2 DEF FlowType
      <4>2. Flows(k)[i].num_packets[e] = C(packet_table, Flows(l)'[j].id[e])
        BY <2>7, <3>1 DEF Kept, RowsCounted, C
      <4> QED
        BY <2>4, <2>5, <2>7, <3>1, <4>1, <4>2
    <3>2. CASE Fresh(k, i) /\ Flows(k)'[i].num_packets = [x \in Dir |-> IF x = d THEN 1 ELSE 0]
      <4>1. Flows(l)'[j].id[e] \in {global_dir_id, global_dir_id + 1} /\ global_dir_id \in Nat
        BY <2>7, <3>2 DEF Fresh, Dir, IInv, MapTypeOK
      <4>2. IdRows(packet_table, Flows(l)'[j].id[e]) = {}
        BY <1>0, <4>1, RowId DEF IdRows, RowsBelow
      <4>3. C(packet_table, Flows(l)'[j].id[e]) = 0
        BY <4>2, FS_EmptySet DEF C
      <4> QED
        BY <2>4, <2>5, <2>7, <3>2, <4>3
    <3> QED
      BY <1>3, <3>1, <3>2 DEF RowCountedFor
  <2> QED
    BY <2>6, <2>7 DEF C
<1> QED
  BY <1>2, <1>3 DEF RowCounted

\* Every row has its flow, and every direction as many rows as it has counted, in
\* every trace.
THEOREM RowsAlwaysMatchCounters == Spec => []RowsMatchCounters
<1> DEFINE J == RowsOwned /\ RowsCounted
<1>1. Init => J
  BY DEF Init, RowsOwned, RowsCounted, Keys
<1>2. IInv /\ TraceTypeOK /\ IInv' /\ DirIdsUnique /\ DirIdsUnique' /\ J /\ [Next]_vars => J'
  <2>1. ASSUME UNCHANGED vars
        PROVE  J <=> J'
    BY <2>1 DEF vars, RowsOwned, RowsCounted, Keys, Flows
  <2>2. ASSUME IInv, TraceTypeOK, IInv', DirIdsUnique, DirIdsUnique', J, Next
        PROVE  J'
    <3>1. PICK p \in Packet : map_to_flow(p)
      BY <2>2, NextIsPacket
    <3>2. RowCounted /\ Effect
      BY <2>2, <3>1, MapToFlowTakes, TakenIsCounted, PacketEffect
    <3> QED
      BY <2>2, <3>2, OwnedBelow, NextOwned, NextCounted
  <2> QED
    BY <2>1, <2>2
<1>3. J => RowsMatchCounters
  BY MatchIsOwnedAndCounted
<1> QED
  BY <1>1, <1>2, <1>3, InvHolds, DirIdsAlwaysUnique, PTL DEF Spec

-----------------------------------------------------------------------------
(* The flow map keeps the promise of ConversationLog, if the texts of the    *)
(* tuples tell them apart.                                                   *)

\* A connection is in the map under one name only.
OneName == \A t \in Tuples : \A k, l \in Names(t) \cap Keys : k = l

\* A flow is kept with the packet it was made for: its first packet counts it.
FlowsBegun == \A k \in Keys : \A i \in 1..Len(Flows(k)) : num_packets(Flows(k)[i]) \in Nat \ {0}

CInv == IInv /\ DirIdsUnique /\ RowsBelow /\ OneName /\ FlowsBegun

\* One more row: it is a row of those flows that have its id.
LEMMA RowsInAppend ==
  ASSUME NEW s \in Seq(Row), NEW r \in Row, NEW id
  PROVE  /\ (\E d \in Dir : r.dir_id = id[d]) =>
              RowsIn(Append(s, r), id) = RowsIn(s, id) \cup {Len(s) + 1}
         /\ (\A d \in Dir : r.dir_id # id[d]) => RowsIn(Append(s, r), id) = RowsIn(s, id)
<1> DEFINE t == Append(s, r)
<1>1. /\ Len(s) \in Nat /\ Len(t) = Len(s) + 1 /\ t[Len(s) + 1] = r
      /\ \A n \in 1..Len(s) : t[n] = s[n]
  OBVIOUS
<1> HIDE DEF t
<1>2. 1..Len(t) = 1..Len(s) \cup {Len(s) + 1} /\ Len(s) + 1 \notin 1..Len(s)
  BY <1>1
<1>3. ASSUME \E d \in Dir : r.dir_id = id[d]
      PROVE  RowsIn(t, id) = RowsIn(s, id) \cup {Len(s) + 1}
  BY <1>1, <1>2, <1>3 DEF RowsIn
<1>4. ASSUME \A d \in Dir : r.dir_id # id[d]
      PROVE  RowsIn(t, id) = RowsIn(s, id)
  BY <1>1, <1>2, <1>4 DEF RowsIn
<1> QED
  BY <1>3, <1>4 DEF t

LEMMA RowTuple ==
  ASSUME MapTypeOK, NEW n \in 1..Len(packet_table)
  PROVE  packet_table[n].pkt.tuple \in Tuples
<1>1. packet_table[n] \in Row
  BY DEF MapTypeOK
<1> QED
  BY <1>1 DEF Row, Packet

LEMMA StoredAfter ==
  ASSUME MapTypeOK, NEW p \in Packet, NEW id, packet_table' = Append(packet_table, [dir_id |-> id, pkt |-> p])
  PROVE  /\ StoredTuples' = Append(StoredTuples, p.tuple)
         /\ Len(StoredTuples') = Len(packet_table) + 1
<1>1. /\ Len(packet_table) \in Nat /\ Len(packet_table') = Len(packet_table) + 1
      /\ \A n \in 1..Len(packet_table) : packet_table'[n] = packet_table[n]
      /\ packet_table'[Len(packet_table) + 1].pkt = p
  BY DEF MapTypeOK
<1> DEFINE s == [n \in 1..Len(packet_table) |-> packet_table[n].pkt.tuple]
           t == [n \in 1..Len(packet_table') |-> packet_table'[n].pkt.tuple]
<1>2. s \in Seq(Tuples)
  <2>1. \A n \in 1..Len(packet_table) : packet_table[n].pkt.tuple \in Tuples
    BY RowTuple
  <2> QED
    BY <1>1, <2>1
<1>3. Len(s) = Len(packet_table) /\ DOMAIN s = 1..Len(packet_table)
  BY <1>1
<1>4. t \in Seq(Tuples) /\ Len(t) = Len(packet_table) + 1
  <2>1. p.tuple \in Tuples
    BY PacketIsSegment
  <2>2. \A n \in 1..Len(packet_table') : packet_table'[n].pkt.tuple \in Tuples
    <3>1. \A n \in 1..Len(packet_table) : packet_table[n].pkt.tuple \in Tuples
      BY RowTuple
    <3>2. \A n \in 1..Len(packet_table') : n \in 1..Len(packet_table) \/ n = Len(packet_table) + 1
      BY <1>1
    <3> QED
      BY <1>1, <2>1, <3>1, <3>2
  <2> QED
    BY <1>1, <2>2
<1>5. \A n \in 1..Len(t) : t[n] = Append(s, p.tuple)[n]
  <2>1. \A n \in 1..Len(packet_table) : t[n] = s[n] /\ Append(s, p.tuple)[n] = s[n]
    BY <1>1, <1>2, <1>3
  <2>2. t[Len(packet_table) + 1] = p.tuple /\ Append(s, p.tuple)[Len(packet_table) + 1] = p.tuple
    BY <1>1, <1>2, <1>3
  <2> QED
    BY <1>1, <1>4, <2>1, <2>2
<1>6. t = Append(s, p.tuple)
  <2>1. Append(s, p.tuple) \in Seq(Tuples) /\ Len(Append(s, p.tuple)) = Len(packet_table) + 1
    BY <1>2, <1>3, PacketIsSegment
  <2> HIDE DEF s, t
  <2> QED
    BY <1>4, <1>5, <2>1, SeqEqual
<1> QED
  BY <1>4, <1>6 DEF StoredTuples

LEMMA RowIsRow ==
  ASSUME NEW f \in FlowType, NEW d \in Dir, NEW p \in Packet
  PROVE  [dir_id |-> f.id[d], pkt |-> p] \in Row
<1>1. f.id[d] \in Nat
  BY DEF FlowType
<1> QED
  BY <1>1 DEF Row

\* What a stored packet does to the conversations, when it goes to the latest flow of k.
LEMMA ConversationContinues ==
  ASSUME CInv, NEW k \in Keys, NEW p \in Packet, NEW d \in Dir, NEW m, m = Len(Flows(k)), m > 0,
         Keys' = Keys,
         \A l \in Keys : /\ Len(Flows(l)') = Len(Flows(l))
                         /\ \A i \in 1..Len(Flows(l)) : Flows(l)'[i].id = Flows(l)[i].id,
         packet_table' = Append(packet_table, [dir_id |-> Flows(k)[m].id[d], pkt |-> p])
  PROVE  Conversations' =
           [Conversations EXCEPT ![k][Len(Conversations[k])] = @ \cup {Len(StoredTuples')}]
<1> DEFINE N == Len(packet_table) + 1
           R(l, i) == RowsIn(packet_table, Flows(l)[i].id)
           C(l, i) == IF l = k /\ i = m THEN R(l, i) \cup {N} ELSE R(l, i)
           r == [dir_id |-> Flows(k)[m].id[d], pkt |-> p]
<1>1. MapTypeOK /\ m \in 1..m
  BY KeysFlowsType DEF CInv, IInv
<1>2. packet_table \in Seq(Row) /\ r \in Row /\ packet_table' = Append(packet_table, r)
  <2>1. Flows(k)[m] \in FlowType
    BY <1>1, KeysFlowsType
  <2> QED
    BY <1>1, <2>1, RowIsRow DEF MapTypeOK
<1>3. Conversations' = [l \in Keys |-> [i \in 1..Len(Flows(l)) |-> C(l, i)]]
  <2>1. \A l \in Keys : \A i \in 1..Len(Flows(l)) :
          RowsIn(packet_table', Flows(l)[i].id) = C(l, i)
    <3> TAKE l \in Keys
    <3> TAKE i \in 1..Len(Flows(l))
    <3>1. r.dir_id = Flows(k)[m].id[d]
      OBVIOUS
    <3>2. (\E e \in Dir : Flows(k)[m].id[d] = Flows(l)[i].id[e]) <=> l = k /\ i = m
      BY <1>1 DEF CInv, DirIdsUnique
    <3> HIDE DEF r, N, R
    <3>3. CASE l = k /\ i = m
      <4>1. RowsIn(packet_table', Flows(l)[i].id) = R(l, i) \cup {N}
        BY <1>2, <3>1, <3>2, <3>3, RowsInAppend DEF N, R
      <4> QED
        BY <3>3, <4>1
    <3>4. CASE ~(l = k /\ i = m)
      <4>1. \A e \in Dir : r.dir_id # Flows(l)[i].id[e]
        BY <3>1, <3>2, <3>4
      <4>2. RowsIn(packet_table', Flows(l)[i].id) = R(l, i)
        <5>1. packet_table \in Seq(Row) /\ r \in Row
          BY <1>2
        <5>2. RowsIn(Append(packet_table, r), Flows(l)[i].id) = RowsIn(packet_table, Flows(l)[i].id)
          BY <4>1, <5>1, RowsInAppend, Zenon
        <5> QED
          BY <1>2, <5>2 DEF R
      <4> QED
        BY <3>4, <4>2
    <3> QED
      BY <3>3, <3>4
  <2> HIDE DEF C, r
  <2>2. Conversations' = [l \in Keys' |-> [i \in 1..Len(Flows(l)') |->
                            RowsIn(packet_table', Flows(l)'[i].id)]]
    BY DEF Conversations
  <2> QED
    BY <2>1, <2>2
<1>4. Len(StoredTuples') = N
  BY <1>1, StoredAfter
<1>5. Len(Conversations[k]) = m
  <2>1. Conversations[k] = [i \in 1..m |-> R(k, i)]
    BY DEF Conversations
  <2> QED
    BY <1>1, <2>1, KeysFlowsType
<1>6. [Conversations EXCEPT ![k][m] = @ \cup {N}] = [l \in Keys |-> [i \in 1..Len(Flows(l)) |-> C(l, i)]]
  <2> HIDE DEF N
  <2> QED
    BY <1>1 DEF Conversations
<1> HIDE DEF N, C, R, r
<1> QED
  BY <1>3, <1>4, <1>5, <1>6

\* And when it is the first packet of a new flow of k.
LEMMA ConversationBegins ==
  ASSUME CInv, NEW k, NEW p \in Packet, NEW d \in Dir,
         Keys' = Keys \cup {k},
         \A l \in Keys \ {k} : Flows(l)' = Flows(l),
         Len(Flows(k)') = Len(Before(k)) + 1,
         \A i \in 1..Len(Before(k)) : Flows(k)'[i].id = Before(k)[i].id,
         NEW g, g = Flows(k)'[Len(Before(k)) + 1],
         g.id["A"] = global_dir_id, g.id["B"] = global_dir_id + 1,
         packet_table' = Append(packet_table, [dir_id |-> g.id[d], pkt |-> p])
  PROVE  Conversations' = [c \in Keys \cup {k} |->
           IF c # k THEN Conversations[c]
           ELSE Append(IF k \in Keys THEN Conversations[k] ELSE <<>>, {Len(StoredTuples')})]
<1> DEFINE N == Len(packet_table) + 1
           B == Before(k)
           D(l, i) == RowsIn(packet_table', Flows(l)'[i].id)
           r == [dir_id |-> g.id[d], pkt |-> p]
<1>1. MapTypeOK /\ B \in Seq(FlowType) /\ Len(B) \in Nat /\ global_dir_id \in Nat
  BY BeforeType DEF CInv, IInv, MapTypeOK
<1>2. /\ r.dir_id = g.id[d] /\ g.id[d] \in {global_dir_id, global_dir_id + 1}
      /\ packet_table \in Seq(Row) /\ r \in Row /\ packet_table' = Append(packet_table, r)
  BY <1>1 DEF Dir, MapTypeOK, Row
<1> HIDE DEF r
<1>3. ASSUME NEW l \in Keys, NEW i \in 1..Len(Flows(l)), Flows(l)'[i].id = Flows(l)[i].id
      PROVE  D(l, i) = RowsIn(packet_table, Flows(l)[i].id)
  <2>1. \A e \in Dir : Flows(l)[i].id[e] < global_dir_id /\ Flows(l)[i].id[e] \in Nat
    <3>1. Flows(l)[i] \in FlowType
      BY <1>1, KeysFlowsType
    <3> QED
      BY <3>1 DEF CInv, DirIdsUnique, FlowType
  <2>2. \A e \in Dir : r.dir_id # Flows(l)[i].id[e]
    BY <1>1, <1>2, <2>1
  <2>3. PICK id : id = Flows(l)[i].id
    OBVIOUS
  <2>4. RowsIn(Append(packet_table, r), id) = RowsIn(packet_table, id)
    <3>1. \A e \in Dir : r.dir_id # id[e]
      BY <2>2, <2>3
    <3> QED
      BY <1>2, <3>1, RowsInAppend
  <2>5. D(l, i) = RowsIn(Append(packet_table, r), id)
    BY <1>2, <1>3, <2>3
  <2> QED
    BY <2>3, <2>4, <2>5
<1>4. D(k, Len(B) + 1) = {N}
  <2>1. RowsIn(packet_table', g.id) = RowsIn(packet_table, g.id) \cup {N}
    BY <1>2, RowsInAppend
  <2>2. RowsIn(packet_table, g.id) = {}
    <3>1. \A n \in 1..Len(packet_table) :
            packet_table[n].dir_id \in Nat /\ packet_table[n].dir_id < global_dir_id
      BY <1>1, RowId DEF CInv, RowsBelow
    <3> QED
      BY <1>1, <3>1 DEF RowsIn, Dir
  <2> QED
    BY <2>1, <2>2
<1>5. Len(StoredTuples') = N
  BY <1>1, StoredAfter
<1>6. Conversations' = [l \in Keys \cup {k} |-> [i \in 1..Len(Flows(l)') |-> D(l, i)]]
  BY DEF Conversations
<1>7. ASSUME NEW l \in Keys \ {k}
      PROVE  [i \in 1..Len(Flows(l)') |-> D(l, i)] = Conversations[l]
  <2>1. \A i \in 1..Len(Flows(l)) : D(l, i) = RowsIn(packet_table, Flows(l)[i].id)
    BY <1>3, <1>7
  <2> HIDE DEF D
  <2> QED
    BY <1>7, <2>1 DEF Conversations
<1>8. [i \in 1..Len(Flows(k)') |-> D(k, i)]
      = Append(IF k \in Keys THEN Conversations[k] ELSE <<>>, {N})
  <2> DEFINE s == IF k \in Keys THEN Conversations[k] ELSE <<>>
             t == [i \in 1..(Len(B) + 1) |-> D(k, i)]
             S == SUBSET Int
  <2>1. s \in Seq(S) /\ Len(s) = Len(B) /\ \A i \in 1..Len(B) : s[i] = D(k, i)
    <3>1. CASE k \in Keys
      <4>1. B = Flows(k) /\ s = [i \in 1..Len(B) |-> RowsIn(packet_table, Flows(k)[i].id)]
        BY <3>1 DEF Before, Conversations
      <4>2. \A i \in 1..Len(B) : D(k, i) = RowsIn(packet_table, Flows(k)[i].id)
        BY <1>3, <3>1, <4>1
      <4>3. \A i \in 1..Len(B) : RowsIn(packet_table, Flows(k)[i].id) \in S
        BY DEF RowsIn
      <4> HIDE DEF D, s, S
      <4> QED
        BY <1>1, <4>1, <4>2, <4>3
    <3>2. CASE k \notin Keys
      BY <3>2 DEF Before
    <3> QED
      BY <3>1, <3>2
  <2>2. {N} \in S
    BY <1>1 DEF MapTypeOK
  <2> HIDE DEF s, S, D, B, N
  <2>3. Append(s, {N}) \in Seq(S) /\ Len(Append(s, {N})) = Len(B) + 1
        /\ \A i \in 1..Len(B) : Append(s, {N})[i] = s[i]
        /\ Append(s, {N})[Len(B) + 1] = {N}
    BY <1>1, <2>1, <2>2, AppendProperties
  <2>4. \A i \in 1..(Len(B) + 1) : D(k, i) = Append(s, {N})[i]
    BY <1>1, <1>4, <2>1, <2>3
  <2>5. t \in Seq(S) /\ Len(t) = Len(B) + 1
    <3>1. \A i \in 1..(Len(B) + 1) : Append(s, {N})[i] \in S
      BY <1>1, <2>3, ElementOfSeq
    <3>2. \A i \in 1..(Len(B) + 1) : D(k, i) \in S
      BY <2>4, <3>1
    <3> QED
      BY <1>1, <3>2
  <2>6. t = Append(s, {N})
    <3>1. \A i \in 1..Len(t) : t[i] = Append(s, {N})[i]
      BY <2>4, <2>5
    <3> HIDE DEF t
    <3> QED
      BY <2>3, <2>5, <3>1, SeqEqual
  <2>7. Len(Flows(k)') = Len(B) + 1
    BY DEF B
  <2> QED
    BY <2>6, <2>7 DEF s
<1> HIDE DEF N, D, B
<1> QED
  BY <1>5, <1>6, <1>7, <1>8

-----------------------------------------------------------------------------
(* Each action is a step of ConversationLog, or changes nothing of it.       *)

Refines ==
  Promise!Next \/ UNCHANGED <<StoredTuples, Conversations, Finished, num_flows>>

\* A packet's connection is in the map under at most the name it is found by.
LEMMA NameFound ==
  ASSUME CInv, NEW p \in Packet, Known(p.tuple)
  PROVE  /\ KeyOf(p.tuple) \in Names(p.tuple)
         /\ Names(p.tuple) \cap Keys \subseteq {KeyOf(p.tuple)}
<1>1. KeyOf(p.tuple) \in Names(p.tuple) /\ KeyOf(p.tuple) \in Keys
  BY EntryOfKnown DEF CInv, KeyOf, Names
<1> QED
  BY <1>1, PacketIsSegment DEF CInv, OneName

\* The latest flows and who of them is closed, when those of k become t.
LEMMA FinishedAfter ==
  ASSUME NEW k, NEW t, t # <<>>, Keys' = Keys \cup {k}, Flows(k)' = t,
         \A l \in Keys \ {k} : Flows(l)' = Flows(l)
  PROVE  /\ t[Len(t)].state = "CLOSED" => Finished' = Finished \cup {k}
         /\ t[Len(t)].state # "CLOSED" => Finished' = Finished \ {k}
<1>1. Finished' = {l \in Keys \cup {k} : back(Flows(l)').state = "CLOSED"}
  BY DEF Finished
<1>2. back(Flows(k)') = t[Len(t)] /\ \A l \in Keys \ {k} : back(Flows(l)') = back(Flows(l))
  BY DEF back
<1> QED
  BY <1>1, <1>2 DEF Finished

\* The names of an abstract step.
LEMMA AbstractStep ==
  ASSUME NEW p \in Packet, NEW c \in Names(p.tuple), Names(p.tuple) \cap Keys \subseteq {c},
         Promise!Continue(p.tuple, c) \/ Promise!Begin(p.tuple, c) \/ Promise!End(c)
  PROVE  Refines
<1>1. Promise!Connections = Keys
  BY DEF Promise!Connections, Conversations
<1>2. p.tuple \in Tuples /\ Promise!NameOf(p.tuple, c)
  BY <1>1, PacketIsSegment DEF Promise!NameOf
<1> QED
  BY <1>2 DEF Promise!Next, Refines

\* Nothing is stored, and the latest flow of k becomes f.
LEMMA NothingStored ==
  ASSUME CInv, NEW p \in Packet, Known(p.tuple), NEW k, k = KeyOf(p.tuple),
         NEW f \in FlowType, f.id = LastFlow(p).id, f.state = "CLOSED" \/ f = LastFlow(p),
         internal_map' = [internal_map EXCEPT ![k].flows = [@ EXCEPT ![Len(@)] = f]],
         UNCHANGED <<packet_table, num_flows>>
  PROVE  Refines
<1> DEFINE m == Len(Flows(k))
           t == [Flows(k) EXCEPT ![m] = f]
<1>0. IInv
  BY DEF CInv
<1>1. /\ k \in Keys /\ Flows(k) \in Seq(FlowType) /\ m \in Nat \ {0}
      /\ LastFlow(p) = Flows(k)[m]
  BY <1>0, EntryOfKnown
<1>2. Keys' = Keys /\ Flows(k)' = t /\ \A l \in Keys \ {k} : Flows(l)' = Flows(l)
  <2>1. internal_map' = [internal_map EXCEPT ![k].flows = t]
    BY DEF Flows
  <2> HIDE DEF t
  <2> QED
    BY <1>0, <1>1, <2>1, MapReplaced
<1>3. /\ t \in Seq(FlowType) /\ Len(t) = m /\ t[m] = f
      /\ \A i \in 1..m : t[i].id = Flows(k)[i].id
  BY <1>1
<1>4. t # <<>> /\ Keys' = Keys \cup {k}
  BY <1>1, <1>2, <1>3
<1> HIDE DEF t
<1>5. UNCHANGED <<StoredTuples, Conversations>>
  <2>1. \A l \in Keys : /\ Len(Flows(l)') = Len(Flows(l))
                         /\ \A i \in 1..Len(Flows(l)) : Flows(l)'[i].id = Flows(l)[i].id
    BY <1>2, <1>3
  <2>2. Conversations' = [l \in Keys' |-> [i \in 1..Len(Flows(l)') |->
                            RowsIn(packet_table', Flows(l)'[i].id)]]
    BY DEF Conversations
  <2>3. UNCHANGED Conversations
    BY <1>2, <2>1, <2>2 DEF Conversations
  <2> QED
    BY <2>3 DEF StoredTuples
<1>6. CASE f.state = "CLOSED" /\ k \notin Finished
  <2>1. Finished' = Finished \cup {k}
    BY <1>2, <1>3, <1>4, <1>6, FinishedAfter
  <2>2. Promise!End(k)
    BY <1>1, <1>5, <1>6, <2>1 DEF Promise!End, Promise!Connections, Conversations
  <2> QED
    BY <2>2, NameFound, AbstractStep
<1>7. CASE f.state = "CLOSED" /\ k \in Finished
  <2>1. Finished' = Finished \cup {k}
    BY <1>2, <1>3, <1>4, <1>7, FinishedAfter
  <2> QED
    BY <1>5, <1>7, <2>1 DEF Refines
<1>8. CASE f.state # "CLOSED"
  <2>1. k \notin Finished
    BY <1>1, <1>8 DEF Finished, back
  <2>2. Finished' = Finished \ {k}
    BY <1>2, <1>3, <1>4, <1>8, FinishedAfter
  <2> QED
    BY <1>5, <2>1, <2>2 DEF Refines
<1> QED
  BY <1>6, <1>7, <1>8

LEMMA DeliverRefines ==
  ASSUME CInv, NEW p \in Packet, DeliverToLast(p)
  PROVE  Refines
<1>k. PICK k : k = KeyOf(p.tuple)
  OBVIOUS
<1> DEFINE d == Direction(p)
           m == Len(Flows(k))
           f == Offered(p).flow
           t == [Flows(k) EXCEPT ![m] = f]
<1>0. IInv /\ MapTypeOK
  BY DEF CInv, IInv
<1>1. Known(p.tuple) /\ Record(Offered(p), p) /\ Offered(p).decision # "PKT_NOT_FOR_ME"
  BY DEF DeliverToLast
<1>2. /\ k \in Keys /\ Flows(k) \in Seq(FlowType) /\ m \in Nat \ {0}
      /\ LastFlow(p) = Flows(k)[m] /\ d \in Dir
  BY <1>0, <1>1, <1>k, EntryOfKnown, DirectionType
<1>3. GoodOutcome(Offered(p), Flows(k)[m]) /\ Flows(k)[m].state # "CLOSED"
  BY <1>0, <1>1, <1>2, OfferedGood DEF NotForMe
<1>4. internal_map' = [internal_map EXCEPT ![k].flows = [@ EXCEPT ![Len(@)] = f]]
  BY <1>k DEF DeliverToLast
<1>5. CASE Offered(p).decision = "PKT_DROPPED"
  <2>1. f = LastFlow(p) /\ f \in FlowType /\ UNCHANGED <<packet_table, num_flows>>
    BY <1>1, <1>2, <1>3, <1>5 DEF GoodOutcome, Record, IsStored
  <2> HIDE DEF f
  <2> QED
    BY <1>1, <1>2, <1>3, <1>k, <1>4, <2>1, NothingStored
<1>6. CASE Offered(p).decision = "PKT_STORED"
  <2>1. /\ f \in FlowType /\ f.id = Flows(k)[m].id
        /\ num_packets(f) = num_packets(Flows(k)[m]) + 1
    BY <1>3, <1>6 DEF GoodOutcome
  <2>2. /\ packet_table' = Append(packet_table, [dir_id |-> Flows(k)[m].id[d], pkt |-> p])
        /\ num_flows' = IF num_packets(f) = 1 THEN num_flows + 1 ELSE num_flows
    BY <1>1, <1>6, <2>1 DEF Record, IsStored
  <2>3. Keys' = Keys /\ Flows(k)' = t /\ \A l \in Keys \ {k} : Flows(l)' = Flows(l)
    <3>1. internal_map' = [internal_map EXCEPT ![k].flows = t]
      BY <1>4 DEF Flows
    <3> HIDE DEF t
    <3> QED
      BY <1>0, <1>2, <3>1, MapReplaced
  <2>4. /\ t \in Seq(FlowType) /\ Len(t) = m /\ t[m] = f /\ t # <<>>
        /\ \A i \in 1..m : t[i].id = Flows(k)[i].id
    <3>1. t \in Seq(FlowType) /\ Len(t) = m /\ t[m] = f
          /\ \A i \in 1..m : t[i].id = Flows(k)[i].id
      BY <1>2, <2>1
    <3> HIDE DEF t
    <3> QED
      BY <1>2, <3>1
  <2>5. \A l \in Keys : /\ Len(Flows(l)') = Len(Flows(l))
                         /\ \A i \in 1..Len(Flows(l)) : Flows(l)'[i].id = Flows(l)[i].id
    BY <2>3, <2>4
  <2> HIDE DEF t, f, d
  <2>6. UNCHANGED num_flows
    <3>1. num_packets(Flows(k)[m]) \in Nat \ {0}
      BY <1>2 DEF CInv, FlowsBegun
    <3> QED
      BY <2>1, <2>2, <3>1
  <2>7. Conversations' =
          [Conversations EXCEPT ![k][Len(Conversations[k])] = @ \cup {Len(StoredTuples')}]
    BY <1>2, <2>2, <2>3, <2>5, ConversationContinues
  <2>8. StoredTuples' = Append(StoredTuples, p.tuple)
    BY <1>0, <2>2, StoredAfter
  <2>9. k \in Keys \ Finished
    BY <1>2, <1>3 DEF Finished, back
  <2>10. Finished' \in {Finished, Finished \cup {k}}
    <3>1. Keys' = Keys \cup {k}
      BY <1>2, <2>3
    <3>2. Finished' = Finished \cup {k} \/ Finished' = Finished \ {k}
      BY <2>3, <2>4, <3>1, FinishedAfter
    <3> QED
      BY <2>9, <3>2
  <2>11. Promise!Continue(p.tuple, k)
    BY <2>6, <2>7, <2>8, <2>9, <2>10
       DEF Promise!Continue, Promise!Connections, Conversations
  <2> QED
    BY <1>1, <1>k, <2>11, NameFound, AbstractStep
<1> QED
  BY <1>1, <1>3, <1>5, <1>6 DEF GoodOutcome, pkt_decision

\* A flow tried for a packet that it stores becomes the latest of k, after the flows t.
LEMMA FlowBegins ==
  ASSUME CInv, NEW p \in Packet, IsStored(Tried(p)), Record(Tried(p), p),
         NEW k \in Names(p.tuple), Names(p.tuple) \cap Keys \subseteq {k},
         NEW t \in Seq(FlowType), Len(t) = Len(Before(k)),
         \A i \in 1..Len(t) : t[i].id = Before(k)[i].id,
         Keys' = Keys \cup {k}, Flows(k)' = Append(t, Tried(p).flow),
         \A l \in Keys \ {k} : Flows(l)' = Flows(l)
  PROVE  Refines
<1>1. PICK d, g : d = Direction(p) /\ g = Tried(p).flow
  OBVIOUS
<1>2. /\ MapTypeOK /\ IInv /\ global_dir_id \in Nat /\ num_flows \in Nat
      /\ d \in Dir /\ Before(k) \in Seq(FlowType) /\ Len(Before(k)) \in Nat
  BY <1>1, DirectionType, BeforeType DEF CInv, IInv, MapTypeOK
<1>3. g \in FlowType /\ g.id["A"] = global_dir_id /\ g.id["B"] = global_dir_id + 1
  BY <1>1, <1>2, TriedGood
<1>4. g.state # "CLOSED" /\ num_packets(g) = 1
  BY <1>1, <1>2, NewFlowOpens, PacketIsSegment DEF Tried, IsStored
<1>5. /\ packet_table' = Append(packet_table, [dir_id |-> g.id[d], pkt |-> p])
      /\ num_flows' = num_flows + 1
  BY <1>1, <1>4 DEF Record
<1> DEFINE s == Append(t, g)
<1>6. /\ Flows(k)' = s /\ s # <<>> /\ Len(s) = Len(Before(k)) + 1 /\ s[Len(s)] = g
      /\ s[Len(Before(k)) + 1] = g
      /\ \A i \in 1..Len(Before(k)) : s[i].id = Before(k)[i].id
  <2>1. /\ s \in Seq(FlowType) /\ Len(s) = Len(t) + 1 /\ s[Len(t) + 1] = g
        /\ \A i \in 1..Len(t) : s[i] = t[i]
    BY <1>3, AppendProperties
  <2>2. Flows(k)' = s
    BY <1>1
  <2> HIDE DEF s
  <2> QED
    BY <1>2, <2>1, <2>2
<1> HIDE DEF s
<1>7. Conversations' = [c \in Keys \cup {k} |->
        IF c # k THEN Conversations[c]
        ELSE Append(IF k \in Keys THEN Conversations[k] ELSE <<>>, {Len(StoredTuples')})]
  BY <1>2, <1>3, <1>5, <1>6, ConversationBegins
<1>8. StoredTuples' = Append(StoredTuples, p.tuple)
  BY <1>2, <1>5, StoredAfter
<1>9. Finished' = Finished \ {k}
  BY <1>4, <1>6, FinishedAfter
<1>10. Promise!Begin(p.tuple, k)
  <2>1. Promise!Connections = Keys
    BY DEF Promise!Connections, Conversations
  <2> QED
    BY <1>5, <1>7, <1>8, <1>9, <2>1 DEF Promise!Begin
<1> QED
  BY <1>10, AbstractStep

LEMMA RetryRefines ==
  ASSUME CInv, NEW p \in Packet, RetryAsNew(p)
  PROVE  Refines
<1>1. PICK k, f : k = KeyOf(p.tuple) /\ f = Offered(p).flow
  OBVIOUS
<1>2. /\ Known(p.tuple) /\ Record(Tried(p), p)
      /\ Offered(p).decision = "PKT_NOT_FOR_ME" /\ IInv
  BY DEF RetryAsNew, CInv, IInv
<1> DEFINE m == Len(Flows(k))
           t == [Flows(k) EXCEPT ![m] = f]
<1>3. /\ k \in Keys /\ Flows(k) \in Seq(FlowType) /\ m \in Nat \ {0}
      /\ LastFlow(p) = Flows(k)[m] /\ Before(k) = Flows(k)
  BY <1>1, <1>2, EntryOfKnown DEF Before
<1>4. /\ f \in FlowType /\ f.id = LastFlow(p).id
      /\ f.state = "CLOSED" \/ f = LastFlow(p)
  BY <1>1, <1>2, OfferedGood DEF GoodOutcome
<1>5. internal_map' = [internal_map EXCEPT ![k].flows = NewFlows([@ EXCEPT ![Len(@)] = f], p)]
  BY <1>1 DEF RetryAsNew
<1>6. CASE ~IsStored(Tried(p))
  <2>1. internal_map' = [internal_map EXCEPT ![k].flows = [@ EXCEPT ![Len(@)] = f]]
    BY <1>5, <1>6 DEF NewFlows
  <2>2. UNCHANGED <<packet_table, num_flows>>
    BY <1>2, <1>6 DEF Record
  <2> QED
    BY <1>1, <1>2, <1>4, <2>1, <2>2, NothingStored
<1>7. CASE IsStored(Tried(p))
  <2>1. /\ t \in Seq(FlowType) /\ Len(t) = Len(Before(k))
        /\ \A i \in 1..Len(t) : t[i].id = Before(k)[i].id
    <3>1. /\ t \in Seq(FlowType) /\ Len(t) = m
          /\ \A i \in 1..m : t[i].id = Flows(k)[i].id
      BY <1>3, <1>4
    <3> HIDE DEF t
    <3> QED
      BY <1>3, <3>1
  <2>2. /\ Keys' = Keys /\ Flows(k)' = Append(t, Tried(p).flow)
        /\ \A l \in Keys \ {k} : Flows(l)' = Flows(l)
    <3>1. internal_map' = [internal_map EXCEPT ![k].flows = Append(t, Tried(p).flow)]
      BY <1>5, <1>7 DEF NewFlows, Flows
    <3> HIDE DEF t
    <3> QED
      BY <1>2, <1>3, <3>1, MapReplaced
  <2>3. Keys' = Keys \cup {k}
    BY <1>3, <2>2
  <2>4. k \in Names(p.tuple) /\ Names(p.tuple) \cap Keys \subseteq {k}
    BY <1>1, <1>2, NameFound
  <2> HIDE DEF t
  <2> QED
    BY <1>2, <1>7, <2>1, <2>2, <2>3, <2>4, FlowBegins
<1> QED
  BY <1>6, <1>7

LEMMA FirstRefines ==
  ASSUME CInv, NEW p \in Packet, FirstOfTuple(p)
  PROVE  Refines
<1>1. PICK k, t : k = to_string(p.tuple) /\ t = <<>>
  OBVIOUS
<1>2. ~Known(p.tuple) /\ Record(Tried(p), p)
  BY DEF FirstOfTuple
<1>3. k \in Names(p.tuple) /\ Names(p.tuple) \cap Keys = {}
  BY <1>1, <1>2 DEF Names, Known, Found, Keys
<1>4. CASE ~IsStored(Tried(p))
  <2>1. UNCHANGED <<internal_map, packet_table, num_flows>>
    BY <1>2, <1>4 DEF FirstOfTuple, Record
  <2> QED
    BY <2>1 DEF Refines, StoredTuples, Conversations, Finished, Keys, Flows
<1>5. CASE IsStored(Tried(p))
  <2>1. t \in Seq(FlowType) /\ Len(t) = 0 /\ Before(k) = t
    BY <1>1, <1>3 DEF Before
  <2>2. internal_map' = [l \in Keys \cup {k} |->
          IF l = k THEN [tuple |-> p.tuple, flows |-> Append(t, Tried(p).flow)]
          ELSE internal_map[l]]
    BY <1>1, <1>5 DEF FirstOfTuple, Keys, NewFlows
  <2>3. /\ Keys' = Keys \cup {k} /\ Flows(k)' = Append(t, Tried(p).flow)
        /\ \A l \in Keys \ {k} : Flows(l)' = Flows(l)
    BY <2>2 DEF Keys, Flows
  <2> QED
    BY <1>2, <1>3, <1>5, <2>1, <2>3, FlowBegins
<1> QED
  BY <1>4, <1>5

-----------------------------------------------------------------------------
(* The two invariants that are new. *)

\* The tuple a new entry was made for is not in the map by any name.
LEMMA NextOneName ==
  ASSUME CInv, KeysDistinct(Oriented), NEW p \in Packet, map_to_flow(p)
  PROVE  OneName'
<1>1. ASSUME NEW u \in Tuples, Names(u) \cap Keys = {},
             NEW t \in Tuples, NEW l \in Names(t) \cap Keys, to_string(u) \in Names(t)
      PROVE  FALSE
  <2>1. {t, u, reverse(t), reverse(u)} \subseteq Oriented
    BY DEF Oriented
  <2>2. u = t \/ u = reverse(t)
    BY <1>1, <2>1 DEF Names, KeysDistinct
  <2>3. Names(u) = Names(t)
    BY <2>2, ReverseTwice DEF Names
  <2> QED
    BY <1>1, <2>3
<1>2. CASE Keys' = Keys
  BY <1>2 DEF CInv, OneName
<1>3. CASE FirstOfTuple(p) /\ Keys' # Keys
  <2>1. p.tuple \in Tuples /\ Names(p.tuple) \cap Keys = {}
    BY <1>3, PacketIsSegment DEF FirstOfTuple, Names, Known, Found, Keys
  <2>2. Keys' = Keys \cup {to_string(p.tuple)}
    BY <1>3 DEF FirstOfTuple, Keys
  <2> SUFFICES ASSUME NEW t \in Tuples, NEW k \in Names(t) \cap Keys', NEW l \in Names(t) \cap Keys'
               PROVE  k = l
    BY DEF OneName
  <2>3. CASE k \in Keys /\ l \in Keys
    BY <2>3 DEF CInv, OneName
  <2>4. CASE k \notin Keys \/ l \notin Keys
    BY <1>1, <2>1, <2>2, <2>4
  <2> QED
    BY <2>3, <2>4
<1>4. ASSUME DeliverToLast(p) \/ RetryAsNew(p)
      PROVE  Keys' = Keys
  BY <1>4 DEF DeliverToLast, RetryAsNew, Keys
<1> QED
  BY <1>2, <1>3, <1>4 DEF map_to_flow

LEMMA ReplacedBegun ==
  ASSUME CInv, NEW p \in Packet, Known(p.tuple), NEW k, k = KeyOf(p.tuple),
         NEW t, t = [Flows(k) EXCEPT ![Len(Flows(k))] = Offered(p).flow]
  PROVE  t \in Seq(FlowType) /\ \A i \in 1..Len(t) : num_packets(t[i]) \in Nat \ {0}
<1>1. /\ IInv /\ k \in Keys /\ Flows(k) \in Seq(FlowType) /\ Len(Flows(k)) \in Nat \ {0}
      /\ LastFlow(p) = Flows(k)[Len(Flows(k))]
  BY EntryOfKnown DEF CInv
<1>2. \A i \in 1..Len(Flows(k)) : num_packets(Flows(k)[i]) \in Nat \ {0}
  BY <1>1 DEF CInv, FlowsBegun
<1>3. num_packets(LastFlow(p)) \in Nat \ {0}
  BY <1>1, <1>2
<1>4. Offered(p).flow \in FlowType /\ num_packets(Offered(p).flow) \in Nat \ {0}
  BY <1>1, <1>3, OfferedGood DEF GoodOutcome, pkt_decision
<1>5. /\ t \in Seq(FlowType) /\ Len(t) = Len(Flows(k)) /\ t[Len(t)] = Offered(p).flow
      /\ \A i \in 1..Len(t) : i # Len(t) => t[i] = Flows(k)[i]
  BY <1>1, <1>4
<1> QED
  BY <1>2, <1>4, <1>5

LEMMA NewFlowsBegun ==
  ASSUME MapTypeOK, NEW p \in Packet, NEW s \in Seq(FlowType),
         \A i \in 1..Len(s) : num_packets(s[i]) \in Nat \ {0}
  PROVE  \A i \in 1..Len(NewFlows(s, p)) : num_packets(NewFlows(s, p)[i]) \in Nat \ {0}
<1>1. CASE ~IsStored(Tried(p))
  BY <1>1 DEF NewFlows
<1>2. CASE IsStored(Tried(p))
  <2>1. num_packets(Tried(p).flow) = 1
    BY <1>2, NewFlowOpens, PacketIsSegment, DirectionType DEF Tried, IsStored, MapTypeOK
  <2>2. Tried(p).flow \in FlowType /\ NewFlows(s, p) = Append(s, Tried(p).flow)
    BY <1>2, TriedGood DEF NewFlows
  <2> QED
    BY <2>1, <2>2
<1> QED
  BY <1>1, <1>2

LEMMA NextBegun ==
  ASSUME CInv, NEW p \in Packet, map_to_flow(p)
  PROVE  FlowsBegun'
<1>0. IInv /\ MapTypeOK
  BY DEF CInv, IInv
<1>1. ASSUME NEW k \in Keys, NEW t, \A i \in 1..Len(t) : num_packets(t[i]) \in Nat \ {0},
             internal_map' = [internal_map EXCEPT ![k].flows = t]
      PROVE  FlowsBegun'
  <2>1. Keys' = Keys /\ Flows(k)' = t /\ \A l \in Keys \ {k} : Flows(l)' = Flows(l)
    BY <1>0, <1>1, MapReplaced
  <2> QED
    BY <1>1, <2>1 DEF CInv, FlowsBegun
<1>2. ASSUME Known(p.tuple), DeliverToLast(p) \/ RetryAsNew(p)
      PROVE  FlowsBegun'
  <2>1. PICK k, t : k = KeyOf(p.tuple) /\ t = [Flows(k) EXCEPT ![Len(Flows(k))] = Offered(p).flow]
    OBVIOUS
  <2>2. k \in Keys
    BY <1>0, <1>2, <2>1, EntryOfKnown
  <2>3. t \in Seq(FlowType) /\ \A i \in 1..Len(t) : num_packets(t[i]) \in Nat \ {0}
    BY <1>2, <2>1, ReplacedBegun
  <2>4. CASE DeliverToLast(p)
    <3>1. internal_map' = [internal_map EXCEPT ![k].flows = t]
      BY <2>1, <2>4 DEF DeliverToLast, Flows
    <3> QED
      BY <1>1, <2>2, <2>3, <3>1
  <2>5. CASE RetryAsNew(p)
    <3>1. internal_map' = [internal_map EXCEPT ![k].flows = NewFlows(t, p)]
      BY <2>1, <2>5 DEF RetryAsNew, Flows
    <3>2. \A i \in 1..Len(NewFlows(t, p)) : num_packets(NewFlows(t, p)[i]) \in Nat \ {0}
      BY <1>0, <2>3, NewFlowsBegun
    <3> QED
      BY <1>1, <2>2, <3>1, <3>2
  <2> QED
    BY <1>2, <2>4, <2>5
<1>3. CASE FirstOfTuple(p)
  <2>1. PICK e : e = <<>>
    OBVIOUS
  <2>2. \A i \in 1..Len(NewFlows(e, p)) : num_packets(NewFlows(e, p)[i]) \in Nat \ {0}
    <3>1. e \in Seq(FlowType) /\ \A i \in 1..Len(e) : num_packets(e[i]) \in Nat \ {0}
      BY <2>1
    <3> QED
      BY <1>0, <3>1, NewFlowsBegun
  <2>3. CASE UNCHANGED internal_map
    BY <2>3 DEF CInv, FlowsBegun, Keys, Flows
  <2>4. CASE internal_map' = [k \in Keys \cup {to_string(p.tuple)} |->
               IF k = to_string(p.tuple) THEN [tuple |-> p.tuple, flows |-> NewFlows(e, p)]
               ELSE internal_map[k]]
    <3>1. /\ Keys' = Keys \cup {to_string(p.tuple)}
          /\ \A k \in Keys' : Flows(k)' =
               IF k = to_string(p.tuple) THEN NewFlows(e, p) ELSE Flows(k)
      BY <2>4 DEF Keys, Flows
    <3> QED
      BY <2>2, <3>1 DEF CInv, FlowsBegun
  <2> QED
    BY <1>3, <2>1, <2>3, <2>4 DEF FirstOfTuple, Keys
<1> QED
  BY <1>2, <1>3 DEF map_to_flow, DeliverToLast, RetryAsNew

LEMMA CInvHolds ==
  ASSUME KeysDistinct(Oriented)
  PROVE  Spec => []CInv
<1>1. Init => OneName /\ FlowsBegun /\ RowsBelow
  BY DEF Init, OneName, FlowsBegun, RowsBelow, Keys
<1>2. /\ IInv /\ IInv' /\ DirIdsUnique /\ DirIdsUnique'
      /\ OneName /\ FlowsBegun /\ RowsBelow /\ TraceTypeOK /\ [Next]_vars
      => (OneName /\ FlowsBegun /\ RowsBelow)'
  <2>1. ASSUME UNCHANGED vars
        PROVE  (OneName /\ FlowsBegun /\ RowsBelow)' <=> (OneName /\ FlowsBegun /\ RowsBelow)
    BY <2>1 DEF vars, OneName, FlowsBegun, RowsBelow, Keys, Flows
  <2>2. ASSUME CInv, TraceTypeOK, DirIdsUnique', Next
        PROVE  (OneName /\ FlowsBegun /\ RowsBelow)'
    <3>1. PICK p \in Packet : map_to_flow(p)
      BY <2>2, NextIsPacket
    <3>2. RowWritten /\ Effect
      BY <2>2, <3>1, DeliverRow, RetryRow, FirstRow, PacketEffect DEF map_to_flow, CInv
    <3> QED
      BY <2>2, <3>1, <3>2, NextOneName, NextBegun, NextRowsBelow DEF CInv
  <2> QED
    BY <2>1, <2>2 DEF CInv
<1>3. IInv /\ DirIdsUnique /\ OneName /\ FlowsBegun /\ RowsBelow => CInv
  BY DEF CInv
<1> QED
  BY <1>1, <1>2, <1>3, InvHolds, DirIdsAlwaysUnique, PTL DEF Spec

\* If the texts of the tuples tell them and their reverses apart, the flow map divides
\* the stored packets into conversations as ConversationLog says, for every trace.
THEOREM PromiseKept ==
  ASSUME KeysDistinct(Oriented)
  PROVE  Spec => KeepsThePromise
<1>1. Init => Promise!Init
  BY DEF Init, Promise!Init, StoredTuples, Conversations, Finished, Keys
<1>2. CInv /\ TraceTypeOK /\ [Next]_vars
      => [Promise!Next]_<<StoredTuples, Conversations, Finished, num_flows>>
  <2>1. ASSUME UNCHANGED vars
        PROVE  UNCHANGED <<StoredTuples, Conversations, Finished, num_flows>>
    BY <2>1 DEF vars, StoredTuples, Conversations, Finished, Keys, Flows
  <2>2. ASSUME CInv, TraceTypeOK, Next PROVE Refines
    <3>1. PICK p \in Packet : map_to_flow(p)
      BY <2>2, NextIsPacket
    <3> QED
      BY <2>2, <3>1, DeliverRefines, RetryRefines, FirstRefines DEF map_to_flow
  <2> QED
    BY <2>1, <2>2 DEF Refines
<1> QED
  BY <1>1, <1>2, CInvHolds, InvHolds, PTL DEF Spec, KeepsThePromise, Promise!Spec

-----------------------------------------------------------------------------
(* The packets of a conversation: what the latest of them says of the state  *)
(* of the flow, and so which packet may be stored after it.                  *)

LatestOf(places, m) == \A k \in places : k <= m

\* What the properties of the flow map say of the rows of one flow f in a table T.
SynsFirst(T, f) ==
  LET P == RowsIn(T, f.id)
  IN  \A n \in P : Decisive(T[n].pkt) = "SYN" =>
        \/ \A k \in P : n <= k
        \/ \E m \in P :
             /\ {k \in P : k < n} = {m}
             /\ PlainSYN(T[m].pkt) /\ "ACK" \in T[n].pkt.flags
             /\ T[m].dir_id # T[n].dir_id
FinsClose(T, f) ==
  LET P == RowsIn(T, f.id)
  IN  \A m, n \in P :
        /\ Neighbours(P, m, n) /\ T[m].dir_id # T[n].dir_id
        /\ Decisive(T[m].pkt) = "FIN" /\ Decisive(T[n].pkt) = "FIN"
        => f.state = "CLOSED" /\ LatestOf(P, n)
NeverIdle(T, f) ==
  LET P == RowsIn(T, f.id)
  IN  \A m, n \in P : TIMEOUT > 0 /\ Neighbours(P, m, n) =>
        T[n].pkt.time - T[m].pkt.time <= TIMEOUT \/ T[n].pkt.time - T[m].pkt.time >= WRAP
ResetLast(T, f) ==
  LET P == RowsIn(T, f.id)
  IN  \A m \in P : Decisive(T[m].pkt) = "RST" => LatestOf(P, m) /\ f.state = "CLOSED"

\* What the flow remembers of its rows, P: whether there are any; in OPENING, the
\* one plain SYN and its direction; when the latest came, and whether it was a FIN.
Remembers(T, f, P) ==
  /\ f.state = "UNKNOWN_STATE" => P = {} /\ f.additional_state = {}
  /\ P # {} => num_packets(f) > 0
  /\ f.state = "OPENING" => \E m \in P, d \in Dir :
       /\ P = {m} /\ PlainSYN(T[m].pkt)
       /\ T[m].dir_id = f.id[d] /\ f.additional_state = {<<d, "SYN">>}
  /\ \A m \in P : LatestOf(P, m) => f.last_packet_time_offset = t_off(T[m].pkt)
  /\ \A m \in P, d \in Dir :
       LatestOf(P, m) /\ Decisive(T[m].pkt) = "FIN" /\ T[m].dir_id = f.id[d] =>
         f.state \in {ClosedState(d), "CLOSED"}

Past(T, f) ==
  /\ Remembers(T, f, RowsIn(T, f.id))
  /\ SynsFirst(T, f) /\ FinsClose(T, f) /\ NeverIdle(T, f) /\ ResetLast(T, f)

\* A flow without rows has nothing to remember.
LEMMA NoPast ==
  ASSUME NEW T, NEW f, RowsIn(T, f.id) = {}, f.state = "UNKNOWN_STATE", f.additional_state = {}
  PROVE  Past(T, f)
  BY DEF Past, Remembers, SynsFirst, FinsClose, NeverIdle, ResetLast

\* Closing a flow changes nothing in its past.
LEMMA PastOfClosed ==
  ASSUME NEW T, NEW f \in FlowType, Past(T, f)
  PROVE  Past(T, set_state(f, "CLOSED"))
<1> DEFINE g == set_state(f, "CLOSED")
           P == RowsIn(T, f.id)
<1>1. /\ g.id = f.id /\ g.state = "CLOSED" /\ g.num_packets = f.num_packets
      /\ g.last_packet_time_offset = f.last_packet_time_offset
  BY DEF set_state, FlowType
<1>2. num_packets(g) = num_packets(f)
  BY <1>1 DEF num_packets
<1> HIDE DEF g
<1>3. Remembers(T, g, P)
  <2>1. Remembers(T, f, P)
    BY DEF Past
  <2> HIDE DEF P
  <2> QED
    BY <1>1, <1>2, <2>1 DEF Remembers
<1>4. SynsFirst(T, g) /\ NeverIdle(T, g)
  BY <1>1 DEF Past, SynsFirst, NeverIdle
<1>5. FinsClose(T, g) /\ ResetLast(T, g)
  BY <1>1 DEF Past, FinsClose, ResetLast
<1> QED
  BY <1>1, <1>3, <1>4, <1>5 DEF Past, g

\* Nor does a row of another flow.
LEMMA PastOfOthers ==
  ASSUME NEW T, NEW U, NEW f, RowsIn(U, f.id) = RowsIn(T, f.id),
         \A n \in RowsIn(T, f.id) : U[n] = T[n], Past(T, f)
  PROVE  Past(U, f)
<1> DEFINE P == RowsIn(T, f.id)
<1>1. RowsIn(U, f.id) = P /\ \A n \in P : U[n] = T[n]
  OBVIOUS
<1>2. Remembers(U, f, P)
  <2>1. Remembers(T, f, P)
    BY DEF Past
  <2> HIDE DEF P
  <2> QED
    BY <1>1, <2>1 DEF Remembers
<1>3. SynsFirst(U, f)
  <2>1. SynsFirst(T, f)
    BY DEF Past
  <2> QED
    BY <1>1, <2>1 DEF SynsFirst
<1>4. FinsClose(U, f) /\ NeverIdle(U, f) /\ ResetLast(U, f)
  BY <1>1 DEF Past, FinsClose, NeverIdle, ResetLast
<1> QED
  BY <1>1, <1>2, <1>3, <1>4 DEF Past

\* The step that matters: f stores p and becomes g, in the direction d.
LEMMA PastOfStored ==
  ASSUME NEW T \in Seq(Row), NEW f \in FlowType, Past(T, f), f.id["A"] # f.id["B"],
         NEW p \in Packet, NEW d \in Dir, NEW g, Took(f, p, d, g),
         \A n \in 1..Len(T) : T[n].pkt.time <= p.time,
         NEW r, r = [dir_id |-> g.id[d], pkt |-> p]
  PROVE  Past(Append(T, r), g)
<1> DEFINE P == RowsIn(T, f.id)
           N == Len(T) + 1
           U == Append(T, r)
           Q == RowsIn(U, g.id)
<1>1. /\ g \in FlowType /\ g.id = f.id /\ num_packets(g) = num_packets(f) + 1
      /\ StoresDuly(handle_packet(f, p, d), f, p, d) /\ ~TimedOut(f, p)
  BY PacketIsSegment, HandlePacketGood, HandlePacketStoresDuly DEF Took, IsStored, GoodOutcome
<1>2. /\ f.state # "CLOSED" /\ g.state # "UNKNOWN_STATE"
      /\ g.last_packet_time_offset = t_off(p)
      /\ Decisive(p) = "RST" => g.state = "CLOSED"
      /\ Decisive(p) = "FIN" =>
           g.state = IF f.state = ClosedState(Opposite(d)) THEN "CLOSED" ELSE ClosedState(d)
      /\ Decisive(p) = "SYN" =>
           \/ f.state = "UNKNOWN_STATE"
           \/ f.state = "OPENING" /\ "ACK" \in p.flags /\ <<d, "SYN">> \notin f.additional_state
      /\ g.state = "OPENING" =>
           /\ f.state = "UNKNOWN_STATE" /\ PlainSYN(p)
           /\ g.additional_state = f.additional_state \cup {<<d, "SYN">>}
  BY <1>1 DEF StoresDuly, Took, IsStored
<1>3. r \in Row /\ r.pkt = p /\ r.dir_id = f.id[d]
  BY <1>1 DEF Row, FlowType
<1>4. /\ Len(T) \in Nat /\ U[N] = r /\ \A n \in 1..Len(T) : U[n] = T[n]
  BY <1>3
<1>5. Q = P \cup {N}
  BY <1>1, <1>3, RowsInAppend
<1>6. P \subseteq 1..Len(T) /\ \A n \in P : n \in Nat /\ n < N /\ U[n] = T[n]
  BY <1>4 DEF RowsIn
<1>7. \A n \in P : n \in 1..Len(T) /\ T[n].pkt \in Packet /\ \E e \in Dir : T[n].dir_id = f.id[e]
  <2> TAKE n \in P
  <2>1. n \in 1..Len(T) /\ \E e \in Dir : T[n].dir_id = f.id[e]
    BY DEF RowsIn
  <2>2. T[n] \in Row
    BY <2>1
  <2> QED
    BY <2>1, <2>2 DEF Row
<1>8. /\ N \in Nat /\ N \notin P /\ LatestOf(Q, N)
      /\ \A m \in Q : LatestOf(Q, m) => m = N
  BY <1>4, <1>5, <1>6 DEF LatestOf
<1>9. \A e \in Dir : f.id[e] = f.id[d] => e = d
  BY DEF Dir
<1>10. num_packets(f) \in Nat
  BY DEF num_packets, FlowType, Dir
<1>11. Remembers(T, f, P) /\ SynsFirst(T, f) /\ FinsClose(T, f) /\ NeverIdle(T, f) /\ ResetLast(T, f)
  BY DEF Past
<1>12. U[N].pkt = p /\ U[N].dir_id = f.id[d] /\ N \in Q
  BY <1>3, <1>4, <1>5
<1> USE DEF LatestOf
<1> HIDE DEF N, U, Q, P
<1>13. Remembers(U, g, Q)
  <2>1. g.state = "OPENING" => \E m \in Q, e \in Dir :
          /\ Q = {m} /\ PlainSYN(U[m].pkt)
          /\ U[m].dir_id = g.id[e] /\ g.additional_state = {<<e, "SYN">>}
    <3>1. f.state = "UNKNOWN_STATE" => Q = {N} /\ f.additional_state = {}
      BY <1>5, <1>11 DEF Remembers
    <3> QED
      BY <1>1, <1>2, <1>12, <3>1
  <2>2. \A m \in Q : (\A k \in Q : k <= m) => g.last_packet_time_offset = t_off(U[m].pkt)
    BY <1>2, <1>8, <1>12
  <2>3. ASSUME NEW m \in Q, NEW e \in Dir, \A k \in Q : k <= m, Decisive(U[m].pkt) = "FIN",
               U[m].dir_id = g.id[e]
        PROVE  g.state \in {ClosedState(e), "CLOSED"}
    <3>1. m = N
      BY <1>8, <2>3
    <3>2. e = d /\ Decisive(p) = "FIN"
      BY <1>1, <1>9, <1>12, <2>3, <3>1
    <3> QED
      BY <1>2, <3>2
  <2>4. num_packets(g) > 0
    BY <1>1, <1>10
  <2> QED
    BY <1>2, <2>1, <2>2, <2>3, <2>4 DEF Remembers
<1>14. SynsFirst(U, g)
  <2> SUFFICES ASSUME NEW n \in Q, Decisive(U[n].pkt) = "SYN"
               PROVE  \/ \A k \in Q : n <= k
                      \/ \E m \in Q :
                           /\ {k \in Q : k < n} = {m}
                           /\ PlainSYN(U[m].pkt) /\ "ACK" \in U[n].pkt.flags
                           /\ U[m].dir_id # U[n].dir_id
    BY DEF SynsFirst, Q
  <2>1. CASE n \in P
    <3>1. {k \in Q : k < n} = {k \in P : k < n}
      BY <1>5, <1>6, <1>8, <2>1
    <3>2. n < N /\ U[n] = T[n]
      BY <1>6, <2>1
    <3>3. CASE \A k \in P : n <= k
      <4>1. n <= N
        BY <1>6, <1>8, <2>1
      <4> QED
        BY <1>5, <3>3, <4>1
    <3>4. CASE \E m \in P :
             /\ {k \in P : k < n} = {m}
             /\ PlainSYN(T[m].pkt) /\ "ACK" \in T[n].pkt.flags
             /\ T[m].dir_id # T[n].dir_id
      BY <1>5, <1>6, <3>1, <3>2, <3>4
    <3>5. Decisive(T[n].pkt) = "SYN"
      BY <3>2
    <3> QED
      BY <1>11, <2>1, <3>3, <3>4, <3>5 DEF SynsFirst, P
  <2>2. CASE n = N
    <3>1. Decisive(p) = "SYN" /\ n \in Nat
      BY <1>8, <1>12, <2>2
    <3>2. CASE f.state = "UNKNOWN_STATE"
      <4>1. Q = {N}
        BY <1>5, <1>11, <3>2 DEF Remembers
      <4> QED
        BY <1>8, <2>2, <4>1
    <3>3. CASE /\ f.state = "OPENING" /\ "ACK" \in p.flags
               /\ <<d, "SYN">> \notin f.additional_state
      <4>1. PICK m \in P, e \in Dir :
              /\ P = {m} /\ PlainSYN(T[m].pkt)
              /\ T[m].dir_id = f.id[e] /\ f.additional_state = {<<e, "SYN">>}
        BY <1>11, <3>3 DEF Remembers
      <4>2. {k \in Q : k < n} = {m}
        BY <1>5, <1>6, <1>8, <2>2, <4>1
      <4>3. e # d
        BY <3>3, <4>1
      <4>4. U[m].dir_id # U[n].dir_id
        BY <1>6, <1>9, <1>12, <2>2, <4>1, <4>3
      <4>5. PlainSYN(U[m].pkt) /\ "ACK" \in U[n].pkt.flags /\ m \in Q
        BY <1>5, <1>6, <1>12, <2>2, <3>3, <4>1
      <4> QED
        BY <4>2, <4>4, <4>5
    <3> QED
      BY <1>2, <3>1, <3>2, <3>3
  <2> QED
    BY <1>5, <2>1, <2>2
<1>15. ASSUME NEW m \in Q, NEW n \in P, Neighbours(Q, m, n)
       PROVE  m \in P /\ Neighbours(P, m, n)
  BY <1>5, <1>6, <1>8, <1>15 DEF Neighbours
<1>16. ASSUME NEW m \in Q, Neighbours(Q, m, N)
       PROVE  m \in P /\ \A k \in P : k <= m
  BY <1>5, <1>6, <1>8, <1>16 DEF Neighbours
<1>17. FinsClose(U, g)
  <2> SUFFICES ASSUME NEW m \in Q, NEW n \in Q, Neighbours(Q, m, n), U[m].dir_id # U[n].dir_id,
                      Decisive(U[m].pkt) = "FIN", Decisive(U[n].pkt) = "FIN"
               PROVE  g.state = "CLOSED" /\ LatestOf(Q, n)
    BY DEF FinsClose, Q
  <2>1. CASE n \in P
    <3>1. m \in P /\ Neighbours(P, m, n)
      BY <1>15, <2>1
    <3>2. U[m] = T[m] /\ U[n] = T[n]
      BY <1>6, <2>1, <3>1
    <3>3. f.state = "CLOSED"
      BY <1>11, <2>1, <3>1, <3>2 DEF FinsClose, P
    <3> QED
      BY <1>2, <3>3
  <2>2. CASE n = N
    <3>1. m \in P /\ \A k \in P : k <= m
      BY <1>16, <2>2
    <3>2. U[m] = T[m]
      BY <1>6, <3>1
    <3>3. PICK e \in Dir : T[m].dir_id = f.id[e]
      BY <1>7, <3>1
    <3>4. e # d
      BY <1>12, <2>2, <3>2, <3>3
    <3>5. f.state \in {ClosedState(e), "CLOSED"}
      BY <1>11, <3>1, <3>2, <3>3 DEF Remembers
    <3>6. e = Opposite(d)
      BY <3>4 DEF Opposite, Dir
    <3>7. f.state = ClosedState(Opposite(d)) /\ Decisive(p) = "FIN"
      BY <1>2, <1>12, <2>2, <3>5, <3>6
    <3> QED
      BY <1>2, <1>8, <2>2, <3>7
  <2> QED
    BY <1>5, <2>1, <2>2
<1>18. NeverIdle(U, g)
  <2> SUFFICES ASSUME NEW m \in Q, NEW n \in Q, TIMEOUT > 0, Neighbours(Q, m, n)
               PROVE  \/ U[n].pkt.time - U[m].pkt.time <= TIMEOUT
                      \/ U[n].pkt.time - U[m].pkt.time >= WRAP
    BY DEF NeverIdle, Q
  <2>1. CASE n \in P
    <3>1. m \in P /\ Neighbours(P, m, n)
      BY <1>15, <2>1
    <3>2. U[m] = T[m] /\ U[n] = T[n]
      BY <1>6, <2>1, <3>1
    <3> QED
      BY <1>11, <2>1, <3>1, <3>2 DEF NeverIdle, P
  <2>2. CASE n = N
    <3>1. m \in P /\ \A k \in P : k <= m
      BY <1>16, <2>2
    <3>2. U[m] = T[m] /\ T[m].pkt.time <= p.time /\ T[m].pkt \in Packet
      BY <1>6, <1>7, <3>1
    <3>3. f.last_packet_time_offset = T[m].pkt.time % WRAP
      BY <1>11, <3>1 DEF Remembers, t_off
    <3>4. num_packets(f) > 0
      BY <1>11, <3>1 DEF Remembers
    <3>5. ~(Elapsed(p.time % WRAP, T[m].pkt.time % WRAP) > TIMEOUT)
      BY <1>1, <3>3, <3>4 DEF TimedOut, t_off
    <3>6. p.time \in Nat /\ T[m].pkt.time \in Nat
      BY <3>2 DEF Packet
    <3> DEFINE x == p.time
               y == T[m].pkt.time
    <3>7. x - y < WRAP => Elapsed(x % WRAP, y % WRAP) = x - y
      BY <3>2, <3>6, ElapsedExact
    <3>8. x - y < WRAP => x - y <= TIMEOUT
      BY <3>2, <3>5, <3>6, <3>7, TimeoutAssumption
    <3> QED
      BY <1>12, <2>2, <3>2, <3>6, <3>8, WrapAssumption
  <2> QED
    BY <1>5, <2>1, <2>2
<1>19. ResetLast(U, g)
  <2> SUFFICES ASSUME NEW m \in Q, Decisive(U[m].pkt) = "RST"
               PROVE  LatestOf(Q, m) /\ g.state = "CLOSED"
    BY DEF ResetLast, Q
  <2>1. CASE m \in P
    <3>1. f.state = "CLOSED"
      BY <1>6, <1>11, <2>1 DEF ResetLast, P
    <3> QED
      BY <1>2, <3>1
  <2>2. CASE m = N
    BY <1>2, <1>8, <1>12, <2>2
  <2> QED
    BY <1>5, <2>1, <2>2
<1> QED
  BY <1>13, <1>14, <1>17, <1>18, <1>19 DEF Past, Q, U

-----------------------------------------------------------------------------
(* Every flow of the map has such a past, whatever the trace.               *)

FlowsPast == \A k \in Keys : \A i \in 1..Len(Flows(k)) : Past(packet_table, Flows(k)[i])
TimesPast == \A n \in 1..Len(packet_table) : packet_table[n].pkt.time <= now

HInv == FlowsPast /\ TimesPast

LEMMA FlowsPastIsSafe ==
  FlowsPast => HandshakeFirst /\ ResetIsFinal /\ FinsInARowClose /\ IdleFlowsHangUp
<1> SUFFICES ASSUME FlowsPast
             PROVE  HandshakeFirst /\ ResetIsFinal /\ FinsInARowClose /\ IdleFlowsHangUp
  OBVIOUS
<1>1. \A x \in FlowsInMap : Past(packet_table, FlowAt(x))
  BY DEF FlowsPast, FlowsInMap, FlowAt
<1>2. HandshakeFirst
  BY <1>1 DEF Past, SynsFirst, HandshakeFirst, PlainSYN, Places
<1>3. ResetIsFinal
  BY <1>1 DEF Past, ResetLast, LatestOf, ResetIsFinal, Places
<1>4. FinsInARowClose
  BY <1>1 DEF Past, FinsClose, LatestOf, FinsInARowClose, Places
<1>5. IdleFlowsHangUp
  BY <1>1 DEF Past, NeverIdle, IdleFlowsHangUp, Places
<1> QED
  BY <1>2, <1>3, <1>4, <1>5

LEMMA PastOfStaying ==
  ASSUME IInv, NEW T, NEW k, NEW i, Stays(k, i), Past(T, Flows(k)[i])
  PROVE  Past(T, Flows(k)'[i])
<1>1. Flows(k)[i] \in FlowType
  BY FlowOfMap DEF Stays
<1> QED
  BY <1>1, PastOfClosed DEF Stays

LEMMA NextFlowsPast ==
  ASSUME IInv, IInv', DirIdsUnique, DirIdsUnique', RowsBelow, HInv,
         NEW p \in Packet, now \in Nat, now <= p.time, RowTaken(p)
  PROVE  FlowsPast'
<1>0. MapTypeOK /\ packet_table \in Seq(Row) /\ global_dir_id \in Nat /\ now \in Nat /\ p.time \in Nat
  BY DEF IInv, MapTypeOK, Packet
<1> SUFFICES ASSUME NEW l \in Keys', NEW j \in 1..Len(Flows(l)')
             PROVE  Past(packet_table', Flows(l)'[j])
  BY DEF FlowsPast
<1>1. CASE UNCHANGED packet_table /\ Stays(l, j)
  BY <1>1, PastOfStaying DEF HInv, FlowsPast, Stays
<1>2. ASSUME NEW k \in Keys', NEW i \in 1..Len(Flows(k)'), NEW d \in Dir, RowTakenBy(p, k, i, d)
      PROVE  Past(packet_table', Flows(l)'[j])
  <2>0. PICK r : r = [dir_id |-> Flows(k)'[i].id[d], pkt |-> p]
    OBVIOUS
  <2>1. packet_table' = Append(packet_table, r)
    BY <1>2, <2>0 DEF RowTakenBy
  <2>2. \A n \in 1..Len(packet_table) : packet_table[n].pkt.time <= p.time
    <3> SUFFICES ASSUME NEW n \in 1..Len(packet_table)
                 PROVE  packet_table[n].pkt.time <= p.time
      OBVIOUS
    <3>1. packet_table[n] \in Row
      BY <1>0
    <3>2. packet_table[n].pkt.time \in Nat /\ packet_table[n].pkt.time <= now
      BY <3>1 DEF Row, Packet, HInv, TimesPast
    <3> QED
      BY <1>0, <3>2
  <2>3. ASSUME NEW f \in FlowType, Past(packet_table, f), f.id["A"] # f.id["B"],
               Took(f, p, d, Flows(k)'[i])
        PROVE  Past(packet_table', Flows(k)'[i])
    BY <1>0, <2>0, <2>1, <2>2, <2>3, PastOfStored
  <2>4. CASE l = k /\ j = i
    <3>1. CASE Kept(k, i) /\ Took(Flows(k)[i], p, d, Flows(k)'[i])
      <4>1. k \in Keys /\ i \in 1..Len(Flows(k))
        BY <3>1 DEF Kept
      <4>2. Flows(k)[i] \in FlowType
        BY <4>1, FlowOfMap
      <4>3. Past(packet_table, Flows(k)[i])
        BY <4>1 DEF HInv, FlowsPast
      <4>4. Flows(k)[i].id["A"] # Flows(k)[i].id["B"]
        BY <4>1 DEF DirIdsUnique, Dir
      <4> QED
        BY <2>3, <2>4, <3>1, <4>2, <4>3, <4>4
    <3>2. CASE Took(Flow(global_dir_id), p, d, Flows(k)'[i])
      <4> DEFINE f == Flow(global_dir_id)
      <4>1. /\ f \in FlowType /\ f.state = "UNKNOWN_STATE"
            /\ f.id["A"] = global_dir_id /\ f.id["B"] = global_dir_id + 1
        BY <1>0, NewFlowType
      <4>2. f.additional_state = {}
        BY DEF Flow
      <4> HIDE DEF f
      <4>3. RowsIn(packet_table, f.id) = {}
        BY <1>0, <4>1, RowId DEF RowsIn, RowsBelow, Dir
      <4>4. Past(packet_table, f)
        BY <4>1, <4>2, <4>3, NoPast
      <4>5. f.id["A"] # f.id["B"]
        BY <1>0, <4>1
      <4>6. Took(f, p, d, Flows(k)'[i])
        BY <3>2 DEF f
      <4> QED
        BY <2>3, <2>4, <4>1, <4>4, <4>5, <4>6
    <3> QED
      BY <1>2, <3>1, <3>2 DEF RowTakenBy
  <2>5. CASE ~(l = k /\ j = i)
    <3>1. Stays(l, j)
      BY <1>2, <2>5 DEF RowTakenBy
    <3>2. PICK f : f = Flows(l)[j]
      OBVIOUS
    <3>3. f \in FlowType /\ Past(packet_table, f)
      BY <3>1, <3>2, FlowOfMap DEF Stays, HInv, FlowsPast
    <3>4. Flows(l)'[j].id = f.id
      BY <3>1, <3>2, StaysIsSame DEF Same, Kept
    <3>5. \A e \in Dir : r.dir_id # f.id[e]
      <4>1. \A e \in Dir : Flows(k)'[i].id[d] = Flows(l)'[j].id[e] => k = l /\ i = j
        BY DEF DirIdsUnique
      <4> QED
        BY <2>0, <2>5, <3>4, <4>1
    <3>6. r \in Row
      <4>1. Flows(k)'[i] \in FlowType
        <5>1. internal_map'[k] \in Entry
          BY DEF IInv, MapTypeOK, Keys
        <5>2. Flows(k)' \in Seq(FlowType)
          BY <5>1 DEF Entry, Flows
        <5> QED
          BY <5>2
      <4> QED
        BY <2>0, <4>1 DEF FlowType, Row
    <3>7. RowsIn(packet_table', f.id) = RowsIn(packet_table, f.id)
      BY <1>0, <2>1, <3>5, <3>6, RowsInAppend
    <3>8. \A n \in RowsIn(packet_table, f.id) : packet_table'[n] = packet_table[n]
      BY <1>0, <2>1, RowsAfter DEF RowsIn
    <3>9. Past(packet_table', f)
      BY <3>3, <3>7, <3>8, PastOfOthers
    <3>10. Flows(l)'[j] \in {f, set_state(f, "CLOSED")}
      BY <3>1, <3>2 DEF Stays
    <3> QED
      BY <3>3, <3>9, <3>10, PastOfClosed
  <2> QED
    BY <2>4, <2>5
<1> QED
  BY <1>1, <1>2 DEF RowTaken

LEMMA NextTimesPast ==
  ASSUME IInv, TimesPast, NEW p \in Packet, now \in Nat, now <= now', p.time = now', RowTaken(p)
  PROVE  TimesPast'
<1>0. MapTypeOK /\ packet_table \in Seq(Row) /\ now \in Nat /\ now' \in Nat
  BY DEF IInv, MapTypeOK, Packet
<1>1. \A n \in 1..Len(packet_table) : packet_table[n].pkt.time <= now'
  <2> SUFFICES ASSUME NEW n \in 1..Len(packet_table)
               PROVE  packet_table[n].pkt.time <= now'
    OBVIOUS
  <2>1. packet_table[n] \in Row
    BY <1>0
  <2>2. packet_table[n].pkt.time \in Nat /\ packet_table[n].pkt.time <= now
    BY <2>1 DEF Row, Packet, TimesPast
  <2> QED
    BY <1>0, <2>2
<1>2. CASE UNCHANGED packet_table
  BY <1>1, <1>2 DEF TimesPast
<1>3. ASSUME NEW id, packet_table' = Append(packet_table, [dir_id |-> id, pkt |-> p])
      PROVE  TimesPast'
  <2> SUFFICES ASSUME NEW n \in 1..Len(packet_table')
               PROVE  packet_table'[n].pkt.time <= now'
    BY DEF TimesPast
  <2>1. CASE n \in 1..Len(packet_table)
    BY <1>0, <1>1, <1>3, <2>1, RowsAfter
  <2>2. CASE n = Len(packet_table) + 1
    <3>1. packet_table'[n].pkt = p
      BY <1>0, <1>3, <2>2, RowsAfter
    <3> QED
      BY <1>0, <3>1
  <2> QED
    BY <1>0, <1>3, <2>1, <2>2, RowsAfter
<1> QED
  BY <1>2, <1>3 DEF RowTaken, RowTakenBy

LEMMA HInvHolds == Spec => [](FlowsPast /\ TimesPast)
<1> DEFINE J == HInv /\ RowsOwned
<1>1. Init => J
  BY DEF Init, HInv, FlowsPast, TimesPast, RowsOwned, Keys
<1>2. IInv /\ TraceTypeOK /\ IInv' /\ DirIdsUnique /\ DirIdsUnique' /\ J /\ [Next]_vars => J'
  <2>1. ASSUME UNCHANGED vars
        PROVE  J <=> J'
    BY <2>1 DEF vars, HInv, FlowsPast, TimesPast, RowsOwned, Keys, Flows
  <2>2. ASSUME IInv, TraceTypeOK, IInv', DirIdsUnique, DirIdsUnique', J, Next
        PROVE  J'
    <3>1. PICK p \in Packet : map_to_flow(p) /\ p.time = now' /\ now <= p.time
      BY <2>2, NextIsPacket
    <3>2. RowTaken(p) /\ Effect
      BY <2>2, <3>1, MapToFlowTakes, PacketEffect
    <3>3. RowsOwned'
      BY <2>2, <3>2, TakenIsCounted, NextOwned
    <3>4. FlowsPast'
      BY <2>2, <3>1, <3>2, OwnedBelow, NextFlowsPast DEF TraceTypeOK
    <3>5. TimesPast'
      BY <2>2, <3>1, <3>2, NextTimesPast DEF HInv, TraceTypeOK
    <3> QED
      BY <3>3, <3>4, <3>5 DEF HInv
  <2> QED
    BY <2>1, <2>2
<1>3. J => FlowsPast /\ TimesPast
  BY DEF HInv
<1> HIDE DEF J
<1> QED
  BY <1>1, <1>2, <1>3, InvHolds, DirIdsAlwaysUnique, PTL DEF Spec

\* In every trace, and with every timeout: a flow stores a SYN only as its first
\* packet, or as the answer to a plain SYN that was its only packet before.
THEOREM HandshakeAlwaysFirst == Spec => []HandshakeFirst
<1>1. FlowsPast => HandshakeFirst
  BY FlowsPastIsSafe
<1> QED
  BY <1>1, HInvHolds, PTL

\* In every trace, a flow stores nothing after a reset.
THEOREM ResetAlwaysFinal == Spec => []ResetIsFinal
<1>1. FlowsPast => ResetIsFinal
  BY FlowsPastIsSafe
<1> QED
  BY <1>1, HInvHolds, PTL

\* In every trace, a FIN that follows, in its flow, a FIN of the other direction
\* closes the flow for good.
THEOREM FinsInARowAlwaysClose == Spec => []FinsInARowClose
<1>1. FlowsPast => FinsInARowClose
  BY FlowsPastIsSafe
<1> QED
  BY <1>1, HInvHolds, PTL

\* For every timeout and every turn of the packed clock: packets next to each other
\* in a flow are no further apart than the timeout, or by a whole turn at least.
THEOREM IdleFlowsAlwaysHangUp == Spec => []IdleFlowsHangUp
<1>1. FlowsPast => IdleFlowsHangUp
  BY FlowsPastIsSafe
<1> QED
  BY <1>1, HInvHolds, PTL

===============================================================================
