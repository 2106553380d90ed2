----------------------------- MODULE CmdLineParser -----------------------------
(***************************************************************************)
(* The command line (src/CmdLineParser.cpp): numbers with a unit, their    *)
(* widths, and the test that the files are there.  TCLAP is external: it   *)
(* hands over the value of each argument, or its default.                  *)
(*                                                                         *)
(* The text of a number is [number, num, unit, upper]: whether it begins   *)
(* with one, which, and the letter behind it; what follows the letter is   *)
(* never looked at.  Both stoul and stoi take a minus sign.                *)
(***************************************************************************)
EXTENDS TimeOffset, Sequences

CONSTANTS
  CountArgs, TimeoutArgs,  \* texts of -c and -t
  Rates,     \* values of -s, in milliseconds
  Files,     \* names of files
  TraceArgs, \* sequences of traces
  db_file,   \* the value of --db
  THOUSAND,  \* what the letters of a count stand for powers of (10^3)
  SIXTY,
  MSEC,      \* microseconds in a millisecond
  U16,       \* range of a u16
  INT_MAX,   \* largest int
  U64,       \* range of a u64
  EXACT      \* up to here a double holds every integer (2^53)

NumberText ==
  [number : BOOLEAN, num : Int,
   unit : {"none", "k", "m", "g", "t", "s", "h", "other"}, upper : BOOLEAN]

\* The units behind a count and behind a timeout, smallest first.
kmgt == <<"k", "m", "g", "t">>
smh == <<"s", "m", "h">>

ASSUME ArgsAssumption ==
  /\ CountArgs \subseteq NumberText /\ TimeoutArgs \subseteq NumberText
  /\ Rates \subseteq Nat
  /\ db_file \in Files /\ TraceArgs \subseteq Seq(Files)
  /\ THOUSAND \in Nat \ {0} /\ SIXTY \in Nat /\ MSEC \in Nat \ {0}
  /\ U16 \in Nat \ {0} /\ INT_MAX \in Nat
  /\ U64 \in Nat \ {0} /\ EXACT \in 1..(U64 - 1)

VARIABLES
  existing,  \* the files that are there
  argv,      \* the arguments
  usr_opt,   \* the options
  parser     \* "start", "parsed", or "exited" with a message

cmdline_vars == <<existing, argv, usr_opt, parser>>

Options == [count : Nat, timeout : Word, sampling_rate : Word,
            traces : Seq(Files), read_from_db : BOOLEAN]
no_options == [count |-> 0, timeout |-> from_usec(0), sampling_rate |-> from_usec(0),
               traces |-> <<>>, read_from_db |-> FALSE]

CmdLineTypeOK ==
  /\ existing \subseteq Files
  /\ argv \in [count : CountArgs, timeout : TimeoutArgs, rate : Rates, traces : TraceArgs]
  /\ usr_opt \in Options
  /\ parser \in {"start", "parsed", "exited"}

CmdLineInit ==
  /\ existing \in SUBSET Files
  /\ argv \in [count : CountArgs, timeout : TimeoutArgs, rate : Rates, traces : TraceArgs]
  /\ usr_opt = no_options
  /\ parser = "start"

-----------------------------------------------------------------------------

IsUnit(unit, units) == \E i \in DOMAIN units : units[i] = unit
Rank(unit, units) == CHOOSE i \in DOMAIN units : units[i] = unit

\* Mutant: off by one.
count_steps_OneLess(a) == IF a.unit = "none" THEN 0 ELSE Rank(a.unit, kmgt) - 1

\* How often parse_count multiplies by a thousand.
count_steps(a) == IF a.unit = "none" THEN 0 ELSE Rank(a.unit, kmgt)

\* parse_count: stoul throws beyond the range of a u64, and takes a negative number
\* from that range; the letter may be upper case.
CountParses(a) ==
  /\ a.number /\ a.num \in (1 - U64)..(U64 - 1)
  /\ a.unit = "none" \/ IsUnit(a.unit, kmgt)

\* The double nearest to n, a tie going to the even one.
Rounded(n) ==
  IF n <= EXACT THEN n
  ELSE LET k == CHOOSE k \in 1..n : EXACT * 2^(k - 1) <= n /\ n < EXACT * 2^k
           unit == 2^k
           down == n \div unit
           rest == 2 * (n % unit)
       IN  unit * IF rest < unit \/ (rest = unit /\ down % 2 = 0) THEN down ELSE down + 1

\* count *= 1e3 is a product of doubles.  Its conversion back is undefined when it is
\* out of range: the count is anything then.
Product(count) == Rounded(Rounded(count) * THOUSAND)
by_1e3(counts) ==
  UNION {IF Product(c) < U64 THEN {Product(c)} ELSE 0..(U64 - 1) : c \in counts}

\* What parse_count may return.
parse_count(a) ==
  LET steps == count_steps(a)
      read == {a.num % U64}
  IN  CASE steps = 0 -> read
        [] steps = 1 -> by_1e3(read)
        [] steps = 2 -> by_1e3(by_1e3(read))
        [] steps = 3 -> by_1e3(by_1e3(by_1e3(read)))
        [] steps = 4 -> by_1e3(by_1e3(by_1e3(by_1e3(read))))

\* Mutant: off by one.
timeout_steps_OneLess(a) == IF a.unit \in {"none", "s"} THEN 0 ELSE Rank(a.unit, smh) - 2

timeout_steps(a) == IF a.unit = "none" THEN 0 ELSE Rank(a.unit, smh) - 1

\* parse_timeout: stoi reads an int; the letter must be lower case; the number and
\* each product of it are cut to a u16.
TimeoutParses(a) ==
  /\ a.number /\ a.num \in (-INT_MAX - 1)..INT_MAX
  /\ a.unit = "none" \/ (IsUnit(a.unit, smh) /\ ~a.upper)
by_60(secs) == (secs * SIXTY) % U16
parse_timeout(a) ==
  LET steps == timeout_steps(a)
      secs == a.num % U16
  IN  CASE steps = 0 -> secs
        [] steps = 1 -> by_60(secs)
        [] steps = 2 -> by_60(by_60(secs))

\* The u16 becomes a Duration: 12 bits of it are kept.
Timeout(a) == TimeOffset(parse_timeout(a), 0)

from_msec(ms) == from_usec(ms * MSEC)

Parses == CountParses(argv.count) /\ TimeoutParses(argv.timeout)

options(count) ==
  [count |-> count,
   timeout |-> Timeout(argv.timeout),
   sampling_rate |-> from_msec(argv.rate),
   traces |-> argv.traces,
   read_from_db |-> argv.traces = <<>>]

\* The files the run will read.
Needed == IF argv.traces = <<>> THEN {db_file} ELSE {argv.traces[i] : i \in DOMAIN argv.traces}

parse_cmdline ==
  /\ parser = "start"
  /\ Parses
  /\ \E count \in parse_count(argv.count) : usr_opt' = options(count)
  /\ parser' = IF Needed \subseteq existing THEN "parsed" ELSE "exited"
  /\ UNCHANGED <<existing, argv>>

parse_error ==
  /\ parser = "start"
  /\ ~Parses
  /\ parser' = "exited"
  /\ UNCHANGED <<existing, argv, usr_opt>>

CmdLineNext == parse_cmdline \/ parse_error

CmdLineSpec == CmdLineInit /\ [][CmdLineNext]_cmdline_vars

-----------------------------------------------------------------------------
(* Properties. *)

\* What the texts ask for, in packets and in seconds.
AskedCount ==
  argv.count.num *
    CASE argv.count.unit = "none" -> 1
      [] argv.count.unit = "k" -> THOUSAND
      [] argv.count.unit = "m" -> THOUSAND * THOUSAND
      [] argv.count.unit = "g" -> THOUSAND * THOUSAND * THOUSAND
      [] argv.count.unit = "t" -> THOUSAND * THOUSAND * THOUSAND * THOUSAND
AskedTimeout ==
  argv.timeout.num *
    CASE argv.timeout.unit \in {"none", "s"} -> 1
      [] argv.timeout.unit = "m" -> SIXTY
      [] argv.timeout.unit = "h" -> SIXTY * SIXTY

\* "max packets to read": k, m, g and t are powers of a thousand, in either case, and
\* the number of packets is the one asked for as long as a double holds it exactly
\* (2^53); without a letter, up to the range of a u64.  A negative number asks for none.
CountAsAsked ==
  /\ parser = "parsed" /\ argv.count.num >= 0
  /\ argv.count.unit = "none" \/ AskedCount <= EXACT
  => usr_opt.count = AskedCount

\* "Up to 65535 secs (1092 minutes or 18hrs), if larger overflows" (CmdLineParser.cpp):
\* a timeout in seconds, minutes or hours that is not negative and fits 16 bits is the
\* timeout asked for, less the turns of the packed clock it is put into (4096 s).
TimeoutAsAsked ==
  parser = "parsed" /\ argv.timeout.num >= 0 /\ AskedTimeout < U16 =>
    usr_opt.timeout = TimeOffset(AskedTimeout % SECS, 0)
===============================================================================
