------------------------------ MODULE FiveTuple ------------------------------
(***************************************************************************)
(* The five-tuple of a TCP packet and the text the flow map orders it by   *)
(* (include/FiveTuple.h, src/FiveTuple.cpp).                               *)
(*                                                                         *)
(* The address family is always AF_INET and an address is always four      *)
(* bytes, so an address is one opaque token here.  A port is printed in    *)
(* decimal with no padding and no separator, so its digits are kept: they  *)
(* decide which tuples std::map takes for the same key.                    *)
(***************************************************************************)
EXTENDS Naturals, Sequences

\* A tuple as its constructor fills it in.
FiveTuple(src, dst, sport, dport) ==
  [src_addr |-> src, dst_addr |-> dst, src_port |-> sport, dst_port |-> dport]

reverse(t) == FiveTuple(t.dst_addr, t.src_addr, t.dst_port, t.src_port)

\* What operator<< writes for an unsigned integer, most significant digit first.
digits[n \in Nat] ==
  IF n < 10 THEN <<n>> ELSE Append(digits[n \div 10], n % 10)

\* operator< compares these texts, so two tuples with the same text are one key.
to_string(t) ==
  <<t.src_addr, t.dst_addr>> \o digits[t.src_port] \o digits[t.dst_port]

\* No two tuples of T share a text: what the map needs in order to keep their
\* flows apart, and what to_string does not ensure by itself.
KeysDistinct(T) == \A t, u \in T : to_string(t) = to_string(u) => t = u

=============================================================================
