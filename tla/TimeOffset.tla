------------------------------ MODULE TimeOffset ------------------------------
(***************************************************************************)
(* The packed clock (src/TimeOffset.cpp): a 32-bit word with 20 bits for   *)
(* microseconds and 12 bits for seconds, used for times and durations.     *)
(* The widths are constants, so that small clocks have the same corners:   *)
(* 20 bits hold more than a second of microseconds, but not two.           *)
(***************************************************************************)
EXTENDS Integers

CONSTANTS
  SECS,       \* seconds the word can hold, a power of two (2^12)
  USECS,      \* microseconds in a second (10^6)
  USEC_RANGE  \* microseconds the word can hold (2^20)

ASSUME ClockAssumption ==
  /\ SECS \in Nat /\ USECS \in Nat /\ USEC_RANGE \in Nat
  /\ SECS >= 2
  /\ USECS > 0 /\ USECS < USEC_RANGE /\ USEC_RANGE < 2 * USECS

Word == [sec : 0..(SECS - 1), usec : 0..(USEC_RANGE - 1)]

\* Mutant: the seconds keep the bits the word has no room for.
TimeOffset_WideSeconds(sec, usec) == [sec |-> sec, usec |-> usec]

\* The constructor shifts sec and ors usec into the word.  A usec below zero is a
\* huge unsigned number: its upper bits set every bit of the seconds.
TimeOffset(sec, usec) ==
  IF usec >= 0 THEN [sec |-> sec % SECS, usec |-> usec]
  ELSE [sec |-> SECS - 1, usec |-> usec + USEC_RANGE]

to_usec(t) == t.sec * USECS + t.usec
from_usec(n) == TimeOffset(n \div USECS, n % USECS)

\* A word as the constructors make it from a time: less than a second of usec.
Normal(t) == t.usec < USECS

\* operator+ carries when the usec overflow their 20 bits, not when they make a
\* second, and never carries more than one.
Plus(t, d) ==
  LET usec == t.usec + d.usec
      sec == t.sec + d.sec
  IN  IF usec >= USEC_RANGE THEN TimeOffset(sec + 1, usec % USECS)
      ELSE TimeOffset(sec, usec)

\* Mutant: no borrow from the seconds.
Minus_NoBorrow(t1, t2) ==
  TimeOffset(t1.sec - t2.sec,
             IF t1.usec < t2.usec THEN t1.usec + USECS - t2.usec ELSE t1.usec - t2.usec)

\* operator-
Minus(t1, t2) ==
  IF t1.usec < t2.usec
  THEN TimeOffset(t1.sec - t2.sec - 1, t1.usec + USECS - t2.usec)
  ELSE TimeOffset(t1.sec - t2.sec, t1.usec - t2.usec)

\* operator/: whole number of times d1 is larger than d2.
Div(d1, d2) == to_usec(d1) \div to_usec(d2)

\* operator*
Times(n, d) == from_usec(n * to_usec(d))
===============================================================================
