---------------------------- MODULE MCCmdLineParser ----------------------------
(* Instances of CmdLineParser for TLC: the timeout with the program's widths;    *)
(* the range of a count, the integers a double holds, a thousand and the         *)
(* fractions of a second scaled down.                                            *)
EXTENDS CmdLineParser

MCNumber(num, unit, upper) == [number |-> TRUE, num |-> num, unit |-> unit, upper |-> upper]
MCNotANumber == [number |-> FALSE, num |-> 0, unit |-> "none", upper |-> FALSE]

\* A double holds every integer up to 128, a u64 those up to 255, and a thousand is 3:
\* products that are exact in every unit, that are rounded (43k, 15m, 5g, 3t) and that
\* are out of range (85k, 4t, -1k), and the ends of what stoul takes.
MCCountArgs ==
  {MCNumber(num, "none", FALSE) : num \in {0, 1, 255, 256, -255, -256}}
  \cup {MCNumber(num, "k", FALSE) : num \in {0, 1, 42, 43, 85, -1, -255}}
  \cup {MCNumber(num, "m", FALSE) : num \in {1, 14, 15}}
  \cup {MCNumber(num, "g", FALSE) : num \in {1, 4, 5}}
  \cup {MCNumber(num, "t", FALSE) : num \in {0, 1, 2, 3, 4}}
  \cup {MCNumber(5, "k", TRUE), MCNumber(1, "t", TRUE), MCNumber(7, "h", FALSE), MCNotANumber}

\* On both sides of the ends of the 12 bits, in every unit.
MCTimeoutArgs ==
  {MCNumber(num, unit, FALSE) : num \in {0, 1, 2, 68, 69, 1092, 1093, 4095, 4096, 65535, 65536},
                                unit \in {"none", "s", "m", "h"}}
  \cup {MCNumber(num, "none", FALSE) : num \in {65537, -1, -65537, -65538}}
  \cup {MCNumber(1, "h", TRUE), MCNumber(1, "k", FALSE), MCNotANumber}

\* A second is 10 ms here.
MCRates == {13, 40960}
MCFiles == {"db", "trace"}
MCTraceArgs == {<<>>, <<"trace">>}
===============================================================================
