-------------------------------- MODULE Flow --------------------------------
(***************************************************************************)
(* One flow and the state machine that decides what becomes of a packet    *)
(* handed to it (src/Flow.cpp, src/FlowState.cpp).                         *)
(*                                                                         *)
(* A handler of the code mutates the flow it is given and returns a        *)
(* pkt_decision.  Here it is an operator that returns both, as the record  *)
(* [decision |-> ..., flow |-> ...].  Every path that stores a packet ends *)
(* in add_packet; the row it sends to the database is written by the       *)
(* caller, from the decision.                                              *)
(*                                                                         *)
(* The packet p is [tuple, flags, data, time].  time is the capture time   *)
(* in ticks since the first packet; the code only keeps t_off, the same    *)
(* time in a packed clock that wraps after WRAP ticks (4096 s).  d is the  *)
(* direction of the packet, has_dirA / has_dirB of the code.               *)
(***************************************************************************)
EXTENDS Naturals

CONSTANTS
  TIMEOUT,  \* usr_opt.timeout in ticks; 0 never hangs up
  WRAP      \* number of ticks the packed clock can tell apart

ASSUME TimeoutAssumption == TIMEOUT \in Nat
ASSUME WrapAssumption == WRAP \in Nat \ {0}

Flag == {"FIN", "SYN", "RST", "ACK"}
Dir == {"A", "B"}
State == {"UNKNOWN_STATE", "OPENING", "ESTABLISHED",
          "DIR_A_CLOSED", "DIR_B_CLOSED", "CLOSED"}
SynSeen == Dir \X {"SYN", "SYNACK"}
Ended == {"CLOSED", "DIR_A_CLOSED", "DIR_B_CLOSED"}
pkt_decision == {"PKT_STORED", "PKT_DROPPED", "PKT_NOT_FOR_ME"}

\* Flow with its two FlowDirection members, reduced to the fields the state
\* machine and the flow map read; id and num_packets are indexed by direction.
FlowType ==
  [state : State, additional_state : SUBSET SynSeen,
   id : [Dir -> Nat], num_packets : [Dir -> Nat],
   last_packet_time_offset : Nat]

\* Mutant: the ids are counted down.
Flow_IdsCountDown(next_id) ==
  [state |-> "UNKNOWN_STATE", additional_state |-> {},
   id |-> [d \in Dir |-> IF d = "A" THEN next_id ELSE next_id - 1],
   num_packets |-> [d \in Dir |-> 0],
   last_packet_time_offset |-> 0]

\* The constructor: dirA and then dirB take the next two values of global_dir_id.
Flow(next_id) ==
  [state |-> "UNKNOWN_STATE", additional_state |-> {},
   id |-> [d \in Dir |-> IF d = "A" THEN next_id ELSE next_id + 1],
   num_packets |-> [d \in Dir |-> 0],
   last_packet_time_offset |-> 0]

num_packets(f) == f.num_packets["A"] + f.num_packets["B"]

t_off(p) == p.time % WRAP

\* Mutant: the operands are swapped.
Elapsed_Swapped(later, earlier) == (earlier + WRAP - later) % WRAP

\* operator- of TimeOffset, at the granularity of a tick: it wraps.
Elapsed(later, earlier) == (later + WRAP - earlier) % WRAP

set_state(f, s) == [f EXCEPT !.state = s]

\* Mutant: everything is counted in direction A.
add_packet_OneDirection(f, p, d) ==
  [f EXCEPT !.num_packets["A"] = @ + 1, !.last_packet_time_offset = t_off(p)]

add_packet(f, p, d) ==
  [f EXCEPT !.num_packets[d] = @ + 1, !.last_packet_time_offset = t_off(p)]

Stored(f, p, d) == [decision |-> "PKT_STORED", flow |-> add_packet(f, p, d)]
Dropped(f) == [decision |-> "PKT_DROPPED", flow |-> f]
NotForMe(f) == [decision |-> "PKT_NOT_FOR_ME", flow |-> f]

-----------------------------------------------------------------------------
(* The handlers all states share. *)

ClosedState(d) == IF d = "A" THEN "DIR_A_CLOSED" ELSE "DIR_B_CLOSED"
Opposite(d) == IF d = "A" THEN "B" ELSE "A"

\* Mutant: the FIN of the other direction is not looked at.
handle_FIN_OneSide(f, p, d) ==
  IF "ACK" \notin p.flags THEN Dropped(f)
  ELSE Stored(set_state(f, ClosedState(d)), p, d)

handle_FIN(f, p, d) ==
  IF "ACK" \notin p.flags THEN Dropped(f)
  ELSE IF f.state = ClosedState(Opposite(d))
       THEN Stored(set_state(f, "CLOSED"), p, d)
       ELSE Stored(set_state(f, ClosedState(d)), p, d)

\* Mutant: a reset does not close the flow.
handle_RST_StaysOpen(f, p, d) ==
  IF "ACK" \in p.flags THEN Stored(f, p, d) ELSE Dropped(f)

handle_RST(f, p, d) ==
  IF "ACK" \in p.flags THEN Stored(set_state(f, "CLOSED"), p, d) ELSE Dropped(f)

handle_regular_pkts(f, p, d) ==
  IF "ACK" \in p.flags THEN Stored(set_state(f, "ESTABLISHED"), p, d)
  ELSE Dropped(f)

\* What Unknown_State and Opening do with a SYN they accept.
StoreSYN(f, p, d) ==
  IF "ACK" \in p.flags
  THEN Stored([f EXCEPT !.state = "ESTABLISHED",
                        !.additional_state = @ \cup {<<d, "SYNACK">>}], p, d)
  ELSE Stored([f EXCEPT !.state = "OPENING",
                        !.additional_state = @ \cup {<<d, "SYN">>}], p, d)

-----------------------------------------------------------------------------
(* One operator per state; Dir_A_Closed and Dir_B_Closed differ only in the *)
(* direction c that is closed.                                              *)

\* The flag that decides: after the first handshake packet the handlers test
\* FIN, then SYN, then RST, and ignore the flags behind the first they find.
Decisive(p) ==
  IF "FIN" \in p.flags THEN "FIN"
  ELSE IF "SYN" \in p.flags THEN "SYN"
  ELSE IF "RST" \in p.flags THEN "RST" ELSE "none"

Unknown_State(f, p, d) ==
  IF p.flags \cap {"FIN", "RST"} # {} THEN Dropped(f)
  ELSE IF "SYN" \in p.flags THEN StoreSYN(f, p, d)
  ELSE handle_regular_pkts(f, p, d)

Opening(f, p, d) ==
  CASE Decisive(p) = "FIN" -> handle_FIN(f, p, d)
    [] Decisive(p) = "SYN" ->
         IF "ACK" \notin p.flags \/ <<d, "SYN">> \in f.additional_state
         THEN NotForMe(set_state(f, "CLOSED"))
         ELSE StoreSYN(f, p, d)
    [] Decisive(p) = "RST" -> handle_RST(f, p, d)
    [] Decisive(p) = "none" -> handle_regular_pkts(f, p, d)

\* Mutant: no case for SYN.
Established_SYNIsRegular(f, p, d) ==
  CASE Decisive(p) = "FIN" -> handle_FIN(f, p, d)
    [] Decisive(p) = "RST" -> handle_RST(f, p, d)
    [] Decisive(p) \in {"SYN", "none"} -> handle_regular_pkts(f, p, d)

\* Mutant: a SYN is refused without closing the flow.
Established_SYNLeavesOpen(f, p, d) ==
  CASE Decisive(p) = "FIN" -> handle_FIN(f, p, d)
    [] Decisive(p) = "SYN" -> NotForMe(f)
    [] Decisive(p) = "RST" -> handle_RST(f, p, d)
    [] Decisive(p) = "none" -> handle_regular_pkts(f, p, d)

Established(f, p, d) ==
  CASE Decisive(p) = "FIN" -> handle_FIN(f, p, d)
    [] Decisive(p) = "SYN" -> NotForMe(set_state(f, "CLOSED"))
    [] Decisive(p) = "RST" -> handle_RST(f, p, d)
    [] Decisive(p) = "none" -> handle_regular_pkts(f, p, d)

Dir_Closed(c, f, p, d) ==
  CASE Decisive(p) = "FIN" -> IF d = c THEN Dropped(f) ELSE handle_FIN(f, p, d)
    [] Decisive(p) = "SYN" -> NotForMe(set_state(f, "CLOSED"))
    [] Decisive(p) = "RST" -> handle_RST(f, p, d)
    [] Decisive(p) = "none" ->
         IF d = c /\ p.data THEN NotForMe(f) ELSE handle_regular_pkts(f, p, d)

Closed(f) == NotForMe(f)

-----------------------------------------------------------------------------

TimedOut(f, p) ==
  /\ num_packets(f) > 0
  /\ TIMEOUT > 0
  /\ Elapsed(t_off(p), f.last_packet_time_offset) > TIMEOUT

\* The virtual call state->handle_packet.
HandleInState(f, p, d) ==
  CASE f.state = "UNKNOWN_STATE" -> Unknown_State(f, p, d)
    [] f.state = "OPENING" -> Opening(f, p, d)
    [] f.state = "ESTABLISHED" -> Established(f, p, d)
    [] f.state = "DIR_A_CLOSED" -> Dir_Closed("A", f, p, d)
    [] f.state = "DIR_B_CLOSED" -> Dir_Closed("B", f, p, d)
    [] f.state = "CLOSED" -> Closed(f)

\* Flow::handle_packet: hang up on a flow that was idle for too long, else let
\* the current state decide.
handle_packet(f, p, d) ==
  IF TimedOut(f, p) THEN NotForMe(set_state(f, "CLOSED"))
  ELSE HandleInState(f, p, d)

=============================================================================
