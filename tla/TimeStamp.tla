------------------------------- MODULE TimeStamp -------------------------------
(***************************************************************************)
(* The order of TCP timestamps (src/TimeStamp.cpp): words that tick round, *)
(* of which one is later than another if it is less than half the range    *)
(* ahead of it.                                                            *)
(*                                                                         *)
(* A sender stamps each segment with its clock; a stamp is what is left of *)
(* that clock in a word.                                                   *)
(***************************************************************************)
EXTENDS Integers

CONSTANT HALF  \* half the range of a timestamp (2^31)

TimeStamp(clock) == clock % (2 * HALF)

\* operator>: the difference of two u32 is a u32.
Greater(t1, t2) == LET diff == (t1 - t2) % (2 * HALF) IN diff > 0 /\ diff < HALF

\* operator<
Less(t1, t2) == ~Greater(t1, t2) /\ t1 # t2

-----------------------------------------------------------------------------
(* What the operators promise. *)

\* Of two stamps of one sender, less than half a turn of its clock apart, the
\* later one is the greater, and only that one, wherever the clock wraps.
LaterIsGreater(earlier, later) ==
  LET old == TimeStamp(earlier)
      new == TimeStamp(later)
  IN  later - earlier \in 1..(HALF - 1) =>
        Greater(new, old) /\ ~Greater(old, new) /\ Less(old, new) /\ ~Less(new, old)

\* Of any two different stamps one is less, and only one, unless they are exactly
\* half a turn apart: then both are, where "straight from rfc1323" (TimeStamp.cpp)
\* neither is.
LessUpToHalf(t1, t2) ==
  t1 # t2 =>
    IF (t1 - t2) % (2 * HALF) = HALF
    THEN Less(t1, t2) /\ Less(t2, t1)
    ELSE Less(t1, t2) # Less(t2, t1)
===============================================================================
