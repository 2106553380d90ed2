---------------------------- MODULE Program_proofs ----------------------------
(***************************************************************************)
(* Theorems about the program as a whole: the options it makes of its      *)
(* command line, and the runs of the two builds, in which the trace        *)
(* reader, the flow map and the database work together.                    *)
(***************************************************************************)
EXTENDS CmdLineParser, TestTool, Arithmetic_proofs, SequenceTheorems

-----------------------------------------------------------------------------
(* The command line.                                                        *)

\* The place of a unit among its units is the only one where it is.
LEMMA RankIs ==
  ASSUME NEW units, NEW i \in DOMAIN units, \A j \in DOMAIN units : units[j] = units[i] => j = i
  PROVE  Rank(units[i], units) = i
  BY Zenon DEF Rank

LEMMA RankOfTimeout ==
  /\ Rank("s", smh) = 1
  /\ Rank("m", smh) = 2
  /\ Rank("h", smh) = 3
<1> DEFINE units == <<"s", "m", "h">>
<1>1. /\ DOMAIN units = {1, 2, 3}
      /\ units[1] = "s" /\ units[2] = "m" /\ units[3] = "h"
  OBVIOUS
<1>2. smh = units
  BY DEF smh
<1> HIDE DEF units
<1>3. \A i \in DOMAIN units : \A j \in DOMAIN units : units[j] = units[i] => j = i
  BY <1>1
<1>4. \A i \in DOMAIN units : Rank(units[i], units) = i
  BY <1>3, RankIs, Zenon
<1> QED
  BY <1>1, <1>2, <1>4

LEMMA RankOfCount ==
  /\ Rank("k", kmgt) = 1
  /\ Rank("m", kmgt) = 2
  /\ Rank("g", kmgt) = 3
  /\ Rank("t", kmgt) = 4
<1> DEFINE units == <<"k", "m", "g", "t">>
<1>1. /\ DOMAIN units = {1, 2, 3, 4}
      /\ units[1] = "k" /\ units[2] = "m" /\ units[3] = "g" /\ units[4] = "t"
  OBVIOUS
<1>2. kmgt = units
  BY DEF kmgt
<1> HIDE DEF units
<1>3. \A i \in DOMAIN units : \A j \in DOMAIN units : units[j] = units[i] => j = i
  BY <1>1
<1>4. \A i \in DOMAIN units : Rank(units[i], units) = i
  BY <1>3, RankIs, Zenon
<1> QED
  BY <1>1, <1>2, <1>4

\* A product that a double holds exactly is not rounded, and fits a u64.
LEMMA ProductExact ==
  ASSUME NEW x \in Nat, x * THOUSAND <= EXACT
  PROVE  by_1e3({x}) = {x * THOUSAND}
<1> DEFINE y == x * THOUSAND
<1>1. /\ THOUSAND \in Nat \ {0} /\ EXACT \in Nat /\ EXACT < U64 /\ U64 \in Nat
      /\ y \in Nat /\ y <= EXACT
  BY ArgsAssumption
<1>2. x <= y
  BY <1>1
<1> HIDE DEF y
<1>3. Rounded(x) = x /\ Rounded(y) = y
  BY <1>1, <1>2 DEF Rounded
<1>4. Product(x) = y /\ Product(x) < U64
  BY <1>1, <1>3 DEF Product, y
<1> QED
  BY <1>4, Zenon DEF by_1e3, y

\* No factor of a product is larger than the product, here.
LEMMA ProductGrows ==
  ASSUME NEW x \in Nat
  PROVE  x * THOUSAND \in Nat /\ x <= x * THOUSAND
  BY ArgsAssumption

\* The packets a text asks for.
Packets(a) ==
  a.num * CASE a.unit = "none" -> 1
            [] a.unit = "k" -> THOUSAND
            [] a.unit = "m" -> THOUSAND * THOUSAND
            [] a.unit = "g" -> THOUSAND * THOUSAND * THOUSAND
            [] a.unit = "t" -> THOUSAND * THOUSAND * THOUSAND * THOUSAND

\* A count is multiplied as often as its letter says, and each product is exact if the
\* last is.
LEMMA CountParsed ==
  ASSUME NEW a \in CountArgs, CountParses(a), a.num >= 0,
         a.unit = "none" \/ Packets(a) <= EXACT
  PROVE  parse_count(a) = {Packets(a)}
<1> DEFINE x == a.num
           T == THOUSAND
           unit == a.unit
           steps == count_steps(a)
           xT == x * T
           xTT == xT * T
           xTTT == xTT * T
           xTTTT == xTTT * T
<1>1. a \in NumberText /\ x \in (1 - U64)..(U64 - 1) /\ x >= 0
  BY ArgsAssumption DEF CountParses
<1>2. x \in Nat /\ x % U64 = x /\ T \in Nat
  BY <1>1, ArgsAssumption DEF NumberText
<1>3. unit = "none" \/ unit \in {"k", "m", "g", "t"}
  BY DEF CountParses, IsUnit, kmgt
<1>4. steps = IF unit = "none" THEN 0 ELSE Rank(unit, kmgt)
  BY DEF count_steps
<1>5. parse_count(a) =
        CASE steps = 0 -> {x}
          [] steps = 1 -> by_1e3({x})
          [] steps = 2 -> by_1e3(by_1e3({x}))
          [] steps = 3 -> by_1e3(by_1e3(by_1e3({x})))
          [] steps = 4 -> by_1e3(by_1e3(by_1e3(by_1e3({x}))))
  BY <1>2, Zenon DEF parse_count
<1>6. /\ xT \in Nat /\ xTT \in Nat /\ xTTT \in Nat /\ xTTTT \in Nat
      /\ xT <= xTT /\ xTT <= xTTT /\ xTTT <= xTTTT
  BY <1>2, ProductGrows
<1>7. EXACT \in Nat
  BY ArgsAssumption
<1>8. /\ xT <= EXACT => by_1e3({x}) = {xT}
      /\ xTT <= EXACT => by_1e3({xT}) = {xTT}
      /\ xTTT <= EXACT => by_1e3({xTT}) = {xTTT}
      /\ xTTTT <= EXACT => by_1e3({xTTT}) = {xTTTT}
  BY <1>2, <1>6, ProductExact
<1>9. CASE unit = "none"
  <2>1. steps = 0 /\ 0 # 1 /\ 0 # 2 /\ 0 # 3 /\ 0 # 4
    <3> HIDE DEF unit, steps
    <3> QED
      BY <1>4, <1>9
  <2>2. parse_count(a) = {x}
    BY <1>5, <2>1, Zenon
  <2>3. Packets(a) = x * 1
    BY <1>9, Zenon DEF Packets
  <2>4. x * 1 = x
    BY <1>2
  <2> QED
    BY <2>2, <2>3, <2>4, Zenon
<1>10. CASE unit = "k"
  <2>1. steps = 1 /\ 1 # 0 /\ 1 # 2 /\ 1 # 3 /\ 1 # 4
    <3> HIDE DEF unit, steps
    <3> QED
      BY <1>4, <1>10, RankOfCount
  <2>2. parse_count(a) = by_1e3({x})
    BY <1>5, <2>1, Zenon
  <2>3. Packets(a) = xT
    <3>1. unit # "none" /\ unit # "m" /\ unit # "g" /\ unit # "t"
      BY <1>10
    <3> QED
      BY <1>10, <3>1, Zenon DEF Packets
  <2>4. Packets(a) <= EXACT
    <3>1. unit # "none"
      BY <1>10
    <3> QED
      BY <3>1, Zenon
  <2> QED
    BY <1>8, <2>2, <2>3, <2>4, Zenon
<1>11. CASE unit = "m"
  <2>1. steps = 2 /\ 2 # 0 /\ 2 # 1 /\ 2 # 3 /\ 2 # 4
    <3> HIDE DEF unit, steps
    <3> QED
      BY <1>4, <1>11, RankOfCount
  <2>2. parse_count(a) = by_1e3(by_1e3({x}))
    BY <1>5, <2>1, Zenon
  <2>3. Packets(a) = x * (T * T)
    <3>1. unit # "none" /\ unit # "k" /\ unit # "g" /\ unit # "t"
      BY <1>11
    <3> QED
      BY <1>11, <3>1, Zenon DEF Packets
  <2>4. x * (T * T) = xTT
    BY <1>2
  <2>5. Packets(a) <= EXACT
    <3>1. unit # "none"
      BY <1>11
    <3> QED
      BY <3>1, Zenon
  <2> HIDE DEF xT, xTT
  <2>6. xTT <= EXACT /\ xT <= EXACT
    BY <1>6, <1>7, <2>3, <2>4, <2>5
  <2> QED
    BY <1>8, <2>2, <2>3, <2>4, <2>6, Zenon
<1>12. CASE unit = "g"
  <2>1. steps = 3 /\ 3 # 0 /\ 3 # 1 /\ 3 # 2 /\ 3 # 4
    <3> HIDE DEF unit, steps
    <3> QED
      BY <1>4, <1>12, RankOfCount
  <2>2. parse_count(a) = by_1e3(by_1e3(by_1e3({x})))
    BY <1>5, <2>1, Zenon
  <2>3. Packets(a) = x * (T * T * T)
    <3>1. unit # "none" /\ unit # "k" /\ unit # "m" /\ unit # "t"
      BY <1>12
    <3> QED
      BY <1>12, <3>1, Zenon DEF Packets
  <2>4. x * (T * T * T) = xTTT
    BY <1>2
  <2>5. Packets(a) <= EXACT
    <3>1. unit # "none"
      BY <1>12
    <3> QED
      BY <3>1, Zenon
  <2> HIDE DEF xT, xTT, xTTT
  <2>6. xTTT <= EXACT /\ xTT <= EXACT /\ xT <= EXACT
    BY <1>6, <1>7, <2>3, <2>4, <2>5
  <2> QED
    BY <1>8, <2>2, <2>3, <2>4, <2>6, Zenon
<1>13. CASE unit = "t"
  <2>1. steps = 4 /\ 4 # 0 /\ 4 # 1 /\ 4 # 2 /\ 4 # 3
    <3> HIDE DEF unit, steps
    <3> QED
      BY <1>4, <1>13, RankOfCount
  <2>2. parse_count(a) = by_1e3(by_1e3(by_1e3(by_1e3({x}))))
    BY <1>5, <2>1, Zenon
  <2>3. Packets(a) = x * (T * T * T * T)
    <3>1. unit # "none" /\ unit # "k" /\ unit # "m" /\ unit # "g"
      BY <1>13
    <3> QED
      BY <1>13, <3>1, Zenon DEF Packets
  <2>4. x * (T * T * T * T) = xTTTT
    BY <1>2
  <2>5. Packets(a) <= EXACT
    <3>1. unit # "none"
      BY <1>13
    <3> QED
      BY <3>1, Zenon
  <2> HIDE DEF xT, xTT, xTTT, xTTTT
  <2>6. xTTTT <= EXACT /\ xTTT <= EXACT /\ xTT <= EXACT /\ xT <= EXACT
    BY <1>6, <1>7, <2>3, <2>4, <2>5
  <2> QED
    BY <1>8, <2>2, <2>3, <2>4, <2>6, Zenon
<1> QED
  BY <1>3, <1>9, <1>10, <1>11, <1>12, <1>13

\* Cutting the number and the products of it to a u16 does nothing to a product that
\* fits.
LEMMA CutOnce ==
  ASSUME NEW x \in Nat, NEW s \in Nat, NEW u \in Nat \ {0}, x * s < u
  PROVE  ((x % u) * s) % u = x * s
<1>1. CASE s = 0
  <2>1. x % u \in Nat
    OBVIOUS
  <2>2. (x % u) * s = 0 /\ x * s = 0
    BY <1>1, <2>1
  <2> QED
    BY <2>2
<1>2. CASE s # 0
  <2>1. x <= x * s
    BY <1>2
  <2>2. x * s \in Nat
    OBVIOUS
  <2>3. x % u = x
    BY <2>1, <2>2
  <2>4. (x * s) % u = x * s
    BY <2>2
  <2> QED
    BY <2>3, <2>4
<1> QED
  BY <1>1, <1>2

LEMMA CutTwice ==
  ASSUME NEW x \in Nat, NEW s \in Nat, NEW u \in Nat \ {0}, x * (s * s) < u
  PROVE  ((((x % u) * s) % u) * s) % u = x * (s * s)
<1> DEFINE y == x * s
<1>1. y \in Nat /\ y * s = x * (s * s)
  OBVIOUS
<1>2. CASE s = 0
  <2>1. ((x % u) * s) % u \in Nat
    OBVIOUS
  <2>2. (((x % u) * s) % u) * s = 0 /\ x * (s * s) = 0
    BY <1>2, <2>1
  <2> QED
    BY <2>2
<1>3. CASE s # 0
  <2> HIDE DEF y
  <2>1. y <= y * s
    BY <1>1, <1>3
  <2>2. y < u /\ y * s < u
    BY <1>1, <2>1
  <2>3. ((x % u) * s) % u = y
    BY <2>2, CutOnce DEF y
  <2>4. y % u = y /\ ((y % u) * s) % u = y * s
    BY <1>1, <2>2, CutOnce
  <2> QED
    BY <1>1, <2>3, <2>4
<1> QED
  BY <1>2, <1>3

\* The seconds a text asks for.
Seconds(a) ==
  a.num * CASE a.unit \in {"none", "s"} -> 1
            [] a.unit = "m" -> SIXTY
            [] a.unit = "h" -> SIXTY * SIXTY

\* A timeout that is not negative and fits a u16 is multiplied as often as its letter says, and not cut.
LEMMA TimeoutParsed ==
  ASSUME NEW a \in TimeoutArgs, TimeoutParses(a), a.num >= 0, Seconds(a) < U16
  PROVE  Seconds(a) \in Nat /\ parse_timeout(a) = Seconds(a)
<1> DEFINE x == a.num
           unit == a.unit
           steps == timeout_steps(a)
<1>1. a \in NumberText /\ x >= 0 /\ SIXTY \in Nat /\ U16 \in Nat \ {0}
  BY ArgsAssumption
<1>2. x \in Nat
  BY <1>1 DEF NumberText
<1>3. unit = "none" \/ unit \in {"s", "m", "h"}
  BY DEF TimeoutParses, IsUnit, smh
<1>4. steps = IF unit = "none" THEN 0 ELSE Rank(unit, smh) - 1
  BY DEF timeout_steps
<1>5. parse_timeout(a) =
        CASE steps = 0 -> x % U16
          [] steps = 1 -> ((x % U16) * SIXTY) % U16
          [] steps = 2 -> ((((x % U16) * SIXTY) % U16) * SIXTY) % U16
  BY Zenon DEF parse_timeout, by_60
<1>6. CASE unit \in {"none", "s"}
  <2>1. Seconds(a) = x * 1
    BY <1>6, Zenon DEF Seconds
  <2>2. steps = 0 /\ 0 # 1 /\ 0 # 2
    <3> HIDE DEF unit, steps
    <3> QED
      BY <1>4, <1>6, RankOfTimeout
  <2>3. parse_timeout(a) = x % U16
    BY <1>5, <2>2, Zenon
  <2> HIDE DEF x
  <2> QED
    BY <1>1, <1>2, <2>1, <2>3
<1>7. CASE unit = "m"
  <2>1. Seconds(a) = x * SIXTY
    <3>1. unit \notin {"none", "s"} /\ "m" # "h"
      BY <1>7
    <3> QED
      BY <1>7, <3>1, Zenon DEF Seconds
  <2>2. steps = 1 /\ 0 # 1 /\ 1 # 2
    <3> HIDE DEF unit, steps
    <3> QED
      BY <1>4, <1>7, RankOfTimeout
  <2>3. parse_timeout(a) = ((x % U16) * SIXTY) % U16
    BY <1>5, <2>2, Zenon
  <2> HIDE DEF x
  <2>4. x * SIXTY < U16 /\ x * SIXTY \in Nat
    BY <1>1, <1>2, <2>1
  <2>5. parse_timeout(a) = x * SIXTY
    BY <1>1, <1>2, <2>3, <2>4, CutOnce
  <2> QED
    BY <2>1, <2>4, <2>5
<1>8. CASE unit = "h"
  <2>1. Seconds(a) = x * (SIXTY * SIXTY)
    <3>1. unit \notin {"none", "s"} /\ unit # "m"
      BY <1>8
    <3> QED
      BY <1>8, <3>1, Zenon DEF Seconds
  <2>2. steps = 2 /\ 0 # 2 /\ 1 # 2
    <3> HIDE DEF unit, steps
    <3> QED
      BY <1>4, <1>8, RankOfTimeout
  <2>3. parse_timeout(a) = ((((x % U16) * SIXTY) % U16) * SIXTY) % U16
    BY <1>5, <2>2, Zenon
  <2> HIDE DEF x
  <2>4. x * (SIXTY * SIXTY) < U16 /\ x * (SIXTY * SIXTY) \in Nat
    BY <1>1, <1>2, <2>1
  <2>5. parse_timeout(a) = x * (SIXTY * SIXTY)
    BY <1>1, <1>2, <2>3, <2>4, CutTwice
  <2> QED
    BY <2>1, <2>4, <2>5
<1> QED
  BY <1>3, <1>6, <1>7, <1>8

\* The options are those of the arguments, which stay as they are.
ParsedInv ==
  /\ argv.count \in CountArgs /\ argv.timeout \in TimeoutArgs
  /\ parser = "parsed" =>
       Parses /\ \E c \in parse_count(argv.count) : usr_opt = options(c)

LEMMA ParsedInvHolds == CmdLineSpec => []ParsedInv
<1>1. CmdLineInit => ParsedInv
  BY DEF CmdLineInit, ParsedInv
<1>2. ParsedInv /\ [CmdLineNext]_cmdline_vars => ParsedInv'
  <2>1. ASSUME ParsedInv, parse_cmdline PROVE ParsedInv'
    BY <2>1 DEF ParsedInv, parse_cmdline, Parses, options, Timeout
  <2>2. ASSUME ParsedInv, parse_error PROVE ParsedInv'
    BY <2>2 DEF ParsedInv, parse_error
  <2>3. ASSUME ParsedInv, UNCHANGED cmdline_vars PROVE ParsedInv'
    BY <2>3 DEF ParsedInv, cmdline_vars, Parses, options, Timeout
  <2> QED
    BY <2>1, <2>2, <2>3 DEF CmdLineNext
<1> QED
  BY <1>1, <1>2, PTL DEF CmdLineSpec

\* For every number the parser takes that is not negative, and every letter: the count
\* is the number times the power of a thousand that the letter stands for, if there is
\* no letter or a double holds that product exactly.
THEOREM CountAlwaysAsAsked == CmdLineSpec => []CountAsAsked
<1>1. ParsedInv => CountAsAsked
  <2> SUFFICES ASSUME ParsedInv, parser = "parsed", argv.count.num >= 0,
                      argv.count.unit = "none" \/ AskedCount <= EXACT
               PROVE  usr_opt.count = AskedCount
    BY DEF CountAsAsked
  <2>1. PICK c \in parse_count(argv.count) : usr_opt = options(c)
    BY DEF ParsedInv
  <2>2. usr_opt.count = c
    BY <2>1 DEF options
  <2>3. argv.count \in CountArgs /\ CountParses(argv.count)
    BY DEF ParsedInv, Parses
  <2>4. AskedCount = Packets(argv.count)
    BY Zenon DEF AskedCount, Packets
  <2>5. parse_count(argv.count) = {AskedCount}
    BY <2>3, <2>4, CountParsed
  <2> QED
    BY <2>1, <2>2, <2>5
<1> QED
  BY <1>1, ParsedInvHolds, PTL

\* For every number the parser takes that is not negative, and every letter: a timeout
\* that fits a u16 is the time asked for, as far as the packed clock it is put into
\* reaches.
THEOREM TimeoutAlwaysAsAsked == CmdLineSpec => []TimeoutAsAsked
<1>1. ParsedInv => TimeoutAsAsked
  <2> SUFFICES ASSUME ParsedInv, parser = "parsed", argv.timeout.num >= 0, AskedTimeout < U16
               PROVE  usr_opt.timeout = TimeOffset(AskedTimeout % SECS, 0)
    BY DEF TimeoutAsAsked
  <2>1. usr_opt.timeout = TimeOffset(parse_timeout(argv.timeout), 0)
    BY DEF ParsedInv, options, Timeout
  <2>2. argv.timeout \in TimeoutArgs /\ TimeoutParses(argv.timeout)
    BY DEF ParsedInv, Parses
  <2>3. PICK secs : secs = AskedTimeout /\ secs = Seconds(argv.timeout)
    BY Zenon DEF AskedTimeout, Seconds
  <2>4. secs \in Nat /\ parse_timeout(argv.timeout) = secs
    BY <2>2, <2>3, TimeoutParsed
  <2>5. (secs % SECS) % SECS = secs % SECS
    BY <2>4, ClockAssumption
  <2>6. TimeOffset(secs, 0) = TimeOffset(secs % SECS, 0)
    BY <2>5 DEF TimeOffset
  <2> QED
    BY <2>1, <2>3, <2>4, <2>6
<1> QED
  BY <1>1, ParsedInvHolds, PTL

-----------------------------------------------------------------------------
(* The two builds.  The flow map of the program is flow_map; the theorems   *)
(* of FlowMap_proofs are about Map, which is the same flow map.             *)

Map == INSTANCE FlowMap_proofs WITH
  Kinds <- {}, Gaps <- Nat, MaxPackets <- 0,
  num_pkts <- Len(handed), now <- 0

LEMMA SameHandlePacket ==
  ASSUME NEW f, NEW p, NEW d
  PROVE  flow_map!handle_packet(f, p, d) = Map!handle_packet(f, p, d)
  BY Zenon
     DEF flow_map!handle_packet, Map!handle_packet, flow_map!TimedOut, Map!TimedOut,
         flow_map!num_packets, Map!num_packets, flow_map!Elapsed, Map!Elapsed,
         flow_map!HandleInState, Map!HandleInState, flow_map!Unknown_State,
         Map!Unknown_State, flow_map!Opening, Map!Opening, flow_map!Established,
         Map!Established, flow_map!Dir_Closed, Map!Dir_Closed, flow_map!Closed,
         Map!Closed, flow_map!StoreSYN, Map!StoreSYN, flow_map!handle_regular_pkts,
         Map!handle_regular_pkts, flow_map!handle_FIN, Map!handle_FIN,
         flow_map!handle_RST, Map!handle_RST, flow_map!Stored, Map!Stored,
         flow_map!Dropped, Map!Dropped, flow_map!NotForMe, Map!NotForMe,
         flow_map!set_state, Map!set_state, flow_map!ClosedState, Map!ClosedState,
         flow_map!Opposite, Map!Opposite, flow_map!Decisive, Map!Decisive,
         flow_map!add_packet, Map!add_packet, flow_map!t_off, Map!t_off

LEMMA SameDigits == flow_map!digits = Map!digits
  BY Zenon DEF flow_map!digits, Map!digits

LEMMA SameText ==
  ASSUME NEW t
  PROVE  /\ flow_map!to_string(t) = Map!to_string(t)
         /\ flow_map!reverse(t) = Map!reverse(t)
<1>1. flow_map!to_string(t) = Map!to_string(t)
  BY SameDigits, Zenon DEF flow_map!to_string, Map!to_string
<1>2. flow_map!reverse(t) = Map!reverse(t)
  BY Zenon DEF flow_map!reverse, Map!reverse, flow_map!FiveTuple, Map!FiveTuple
<1> QED
  BY <1>1, <1>2

LEMMA SameLookup ==
  ASSUME NEW p
  PROVE  /\ flow_map!Known(p.tuple) <=> Map!Known(p.tuple)
         /\ flow_map!KeyOf(p.tuple) = Map!KeyOf(p.tuple)
         /\ flow_map!Direction(p) = Map!Direction(p)
         /\ flow_map!LastFlow(p) = Map!LastFlow(p)
<1>1. \A t : flow_map!Found(t) <=> Map!Found(t)
  BY SameText, Zenon DEF flow_map!Found, Map!Found
<1>2. \A t : flow_map!Known(t) <=> Map!Known(t)
  BY <1>1, SameText, Zenon DEF flow_map!Known, Map!Known
<1>3. \A t : flow_map!KeyOf(t) = Map!KeyOf(t)
  BY <1>1, SameText, Zenon DEF flow_map!KeyOf, Map!KeyOf
<1>4. flow_map!Direction(p) = Map!Direction(p)
  BY <1>2, <1>3, Zenon DEF flow_map!Direction, Map!Direction,
     flow_map!currentTuple, Map!currentTuple
<1>5. flow_map!LastFlow(p) = Map!LastFlow(p)
  BY <1>3, Zenon DEF flow_map!LastFlow, Map!LastFlow, flow_map!back, Map!back
<1> QED
  BY <1>2, <1>3, <1>4, <1>5

LEMMA SameOutcomes ==
  ASSUME NEW p
  PROVE  /\ flow_map!Offered(p) = Map!Offered(p)
         /\ flow_map!Tried(p) = Map!Tried(p)
<1>1. flow_map!Offered(p) = Map!Offered(p)
  BY SameHandlePacket, SameLookup, SMT DEF flow_map!Offered, Map!Offered
<1>2. flow_map!Flow(global_dir_id) = Map!Flow(global_dir_id)
  BY Zenon DEF flow_map!Flow, Map!Flow, flow_map!Dir, Map!Dir
<1>3. flow_map!Tried(p) = Map!Tried(p)
  BY <1>2, SameHandlePacket, SameLookup, SMT DEF flow_map!Tried, Map!Tried
<1> QED
  BY <1>1, <1>3

LEMMA SameMapToFlow ==
  ASSUME NEW p
  PROVE  flow_map!map_to_flow(p) <=> Map!map_to_flow(p)
<1>1. \A o : flow_map!IsStored(o) <=> Map!IsStored(o)
  BY Zenon DEF flow_map!IsStored, Map!IsStored
<1>2. \A o : flow_map!Record(o, p) <=> Map!Record(o, p)
  BY <1>1, SameLookup, Zenon DEF flow_map!Record, Map!Record,
     flow_map!num_packets, Map!num_packets
<1>3. \A s : flow_map!NewFlows(s, p) = Map!NewFlows(s, p)
  BY <1>1, SameOutcomes, SMT DEF flow_map!NewFlows, Map!NewFlows
<1>4. flow_map!DeliverToLast(p) <=> Map!DeliverToLast(p)
  BY <1>2, SameLookup, SameOutcomes, SMT DEF flow_map!DeliverToLast, Map!DeliverToLast
<1>5. flow_map!RetryAsNew(p) <=> Map!RetryAsNew(p)
  BY <1>2, <1>3, SameLookup, SameOutcomes, Zenon DEF flow_map!RetryAsNew, Map!RetryAsNew
<1>6. flow_map!FirstOfTuple(p) <=> Map!FirstOfTuple(p)
  <2>1. /\ flow_map!to_string(p.tuple) = Map!to_string(p.tuple)
        /\ flow_map!NewFlows(<<>>, p) = Map!NewFlows(<<>>, p)
    BY <1>3, SameText
  <2>2. /\ flow_map!IsStored(flow_map!Tried(p)) <=> Map!IsStored(Map!Tried(p))
        /\ flow_map!Record(flow_map!Tried(p), p) <=> Map!Record(Map!Tried(p), p)
    BY <1>1, <1>2, SameOutcomes, SMT
  <2> QED
    BY <2>1, <2>2, SameLookup, SMT DEF flow_map!FirstOfTuple, Map!FirstOfTuple
<1> QED
  BY <1>4, <1>5, <1>6 DEF flow_map!map_to_flow, Map!map_to_flow

LEMMA SameFlows ==
  /\ flow_map!FlowsInMap = Map!FlowsInMap
  /\ \A x : flow_map!FlowAt(x) = Map!FlowAt(x)
  /\ flow_map!Dir = Map!Dir
  BY Zenon
     DEF flow_map!FlowsInMap, Map!FlowsInMap, flow_map!FlowAt, Map!FlowAt,
         flow_map!Flows, Map!Flows, flow_map!Keys, Map!Keys, flow_map!Dir, Map!Dir

-----------------------------------------------------------------------------
(* The flow map in the program. *)

MapInv == Map!IInv /\ Map!DirIdsUnique /\ Map!RowsOwned /\ Map!RowsCounted

LEMMA MapStarts == flow_map!Init => MapInv /\ packet_table = <<>>
<1> SUFFICES ASSUME flow_map!Init PROVE MapInv /\ packet_table = <<>>
  OBVIOUS
<1>1. /\ internal_map = [k \in {} |-> {}] /\ global_dir_id = 0
      /\ packet_table = <<>> /\ num_flows = 0
  BY DEF flow_map!Init
<1>2. DOMAIN internal_map = {} /\ packet_table \in Seq(Map!Row)
  BY <1>1
<1>3. internal_map \in [DOMAIN internal_map -> Map!Entry]
  BY <1>1
<1>4. Map!IInv
  BY <1>1, <1>2, <1>3 DEF Map!IInv, Map!MapTypeOK, Map!BackIsDefined, Map!Keys
<1>5. Map!DirIdsUnique /\ Map!RowsCounted
  BY <1>2 DEF Map!DirIdsUnique, Map!RowsCounted, Map!Keys
<1>6. Map!RowsOwned
  BY <1>1 DEF Map!RowsOwned
<1> QED
  BY <1>1, <1>4, <1>5, <1>6 DEF MapInv

LEMMA MapStays ==
  ASSUME MapInv, UNCHANGED map_vars
  PROVE  MapInv'
  BY DEF MapInv, map_vars, Map!IInv, Map!MapTypeOK, Map!BackIsDefined, Map!DirIdsUnique, Map!RowsOwned,
     Map!RowsCounted, Map!Keys, Map!Flows

\* What the flow map assumes of its constants.
LEMMA MapAssumptions ==
  /\ 0 \in Nat /\ Nat \subseteq Nat
  /\ {} \subseteq [tuple : Tuples, flags : SUBSET Map!Flag, data : BOOLEAN]
  /\ \A t \in Tuples : t = Map!FiveTuple(t.src_addr, t.dst_addr, t.src_port, t.dst_port)
  /\ WRAP \in Nat \ {0} /\ TIMEOUT \in Nat
<1>1. \A t \in Tuples : t = Map!FiveTuple(t.src_addr, t.dst_addr, t.src_port, t.dst_port)
  BY PartsAssumption, Zenon
     DEF flow_map!TuplesAssumption, flow_map!FiveTuple, Map!FiveTuple
<1>2. WRAP \in Nat \ {0}
  BY ToolAssumption, ClockAssumption
<1> QED
  BY <1>1, <1>2, ToolAssumption

\* A packet leaves the map well formed, and the rows as they are or with one more.
LEMMA MapTakes ==
  ASSUME MapInv, NEW p \in Map!Packet, Map!map_to_flow(p)
  PROVE  /\ MapInv'
         /\ packet_table' = packet_table
            \/ \E r \in Map!Row : packet_table' = Append(packet_table, r) /\ r.pkt = p
<1>1. Map!IInv' /\ Map!RowTaken(p) /\ Map!Effect
  BY Map!PacketIInv, Map!MapToFlowTakes, Map!PacketEffect, MapAssumptions DEF MapInv
<1>2. Map!RowCounted
  BY <1>1, Map!TakenIsCounted, MapAssumptions DEF MapInv
<1>3. Map!DirIdsUnique'
  BY <1>1, Map!NextDirIds, MapAssumptions DEF MapInv
<1>4. Map!RowsBelow
  BY Map!OwnedBelow, MapAssumptions DEF MapInv
<1>5. Map!RowsOwned'
  BY <1>1, <1>2, Map!NextOwned, MapAssumptions DEF MapInv
<1>6. Map!RowsCounted'
  BY <1>1, <1>2, <1>3, <1>4, Map!NextCounted, MapAssumptions DEF MapInv
<1>7. \/ packet_table' = packet_table
      \/ \E r \in Map!Row : packet_table' = Append(packet_table, r) /\ r.pkt = p
  <2>1. packet_table' \in Seq(Map!Row) /\ packet_table \in Seq(Map!Row)
    BY <1>1 DEF MapInv, Map!IInv, Map!MapTypeOK
  <2>2. CASE \E r : packet_table' = Append(packet_table, r) /\ r.pkt = p
    <3>1. PICK r : packet_table' = Append(packet_table, r) /\ r.pkt = p
      BY <2>2
    <3>2. Len(packet_table') \in 1..Len(packet_table') /\ packet_table'[Len(packet_table')] = r
      BY <2>1, <3>1
    <3> QED
      BY <2>1, <3>1, <3>2
  <2>3. CASE \E k \in Map!Keys' : \E i \in 1..Len(Map!Flows(k)'), d \in Map!Dir : Map!RowTakenBy(p, k, i, d)
    <3>1. PICK r : packet_table' = Append(packet_table, r) /\ r.pkt = p
      BY <2>3 DEF Map!RowTakenBy
    <3> QED
      BY <2>2, <3>1
  <2> QED
    BY <1>1, <2>3 DEF Map!RowTaken
<1> QED
  BY <1>1, <1>3, <1>5, <1>6, <1>7 DEF MapInv

ToolHypotheses == ToolAssumption /\ PCapReader!TracesAssumption

LEMMA ToolHypothesesHold == ToolHypotheses
  BY ToolAssumption, PartsAssumption DEF ToolHypotheses

\* What the reader hands to the flow map is a packet.
LEMMA PacketOfCaptured ==
  ASSUME ToolHypotheses, NEW p \in PCapReader!Captured, capture_start_time \in Nat
  PROVE  /\ PacketOf(p) \in Map!Packet
         /\ p.time \in Nat
<1>1. /\ p.segment \in Segments /\ p.time \in CaptureTimes
  BY DEF PCapReader!Captured
<1>2. p.time \in Nat
  BY <1>1 DEF ToolHypotheses, PCapReader!TracesAssumption
<1>3. /\ p.segment.tuple \in Tuples /\ p.segment.flags \in SUBSET Map!Flag
      /\ p.segment.data \in BOOLEAN
  BY <1>1 DEF Segments, ToolHypotheses, ToolAssumption, Map!Flag
<1>4. PCapReader!start_time(p.time) \in Nat
  BY <1>2 DEF PCapReader!start_time
<1>5. ASSUME NEW sec \in Int, NEW usec \in Nat
      PROVE  to_usec(PCapReader!TimeOffset(sec, usec)) \in Nat
  <2>1. sec % SECS \in Nat
    BY DivMod, ClockAssumption
  <2>2. PCapReader!TimeOffset(sec, usec) = [sec |-> sec % SECS, usec |-> usec]
    BY DEF PCapReader!TimeOffset
  <2>3. (sec % SECS) * USECS + usec \in Nat
    BY <2>1, ClockAssumption
  <2> QED
    BY <2>2, <2>3 DEF to_usec
<1>6. ASSUME NEW t1 \in Nat, NEW t2 \in Nat
      PROVE  to_usec(PCapReader!Subtract(t1, t2)) \in Nat
  <2> DEFINE sec == (t1 \div USECS) - (t2 \div USECS)
             usec == (t1 % USECS) - (t2 % USECS)
  <2>1. /\ sec \in Int /\ sec - 1 \in Int
        /\ usec \in Int /\ usec + USECS \in Nat
    BY DivMod, ClockAssumption
  <2>2. PCapReader!Subtract(t1, t2) =
          IF usec < 0 THEN PCapReader!TimeOffset(sec - 1, usec + USECS)
          ELSE PCapReader!TimeOffset(sec, usec)
    BY DEF PCapReader!Subtract
  <2> HIDE DEF sec, usec
  <2>3. CASE usec < 0
    BY <1>5, <2>1, <2>2, <2>3
  <2>4. CASE ~(usec < 0)
    <3>1. usec \in Nat
      BY <2>1, <2>4
    <3> QED
      BY <1>5, <2>1, <2>2, <2>4, <3>1
  <2> QED
    BY <2>3, <2>4
<1> QED
  BY <1>2, <1>3, <1>4, <1>6 DEF PacketOf, Map!Packet

-----------------------------------------------------------------------------
(* The table and its cache, one after the other, hold the rows.             *)

\* The columns of the rows of packets.
DbRow == [dir_id : Nat, time : Nat]
Columns(s) == [i \in DOMAIN s |-> RowOf(s[i])]

LEMMA RowColumns ==
  ASSUME NEW r \in Map!Row
  PROVE  RowOf(r) \in DbRow
  BY DEF Map!Row, Map!Packet, DbRow, RowOf

LEMMA ColumnsType ==
  ASSUME NEW s \in Seq(Map!Row)
  PROVE  /\ Columns(s) \in Seq(DbRow) /\ Len(Columns(s)) = Len(s)
         /\ \A i \in 1..Len(s) : Columns(s)[i] = RowOf(s[i])
<1>1. PICK k \in Nat : k = Len(s)
  OBVIOUS
<1>2. DOMAIN s = 1..k /\ \A i \in 1..k : s[i] \in Map!Row
  BY <1>1
<1>3. Columns(s) = [i \in 1..k |-> RowOf(s[i])]
  BY <1>2 DEF Columns
<1>4. \A i \in 1..k : RowOf(s[i]) \in DbRow
  BY <1>2, RowColumns
<1>5. Columns(s) \in [1..k -> DbRow]
  BY <1>3, <1>4
<1> QED
  BY <1>1, <1>3, <1>5

LEMMA ColumnsAppend ==
  ASSUME NEW s \in Seq(Map!Row), NEW r \in Map!Row
  PROVE  Columns(Append(s, r)) = Append(Columns(s), RowOf(r))
<1> DEFINE t == Append(s, r)
<1>1. PICK k \in Nat : k = Len(s)
  OBVIOUS
<1>2. /\ t \in Seq(Map!Row) /\ Len(t) = k + 1 /\ t[k + 1] = r
      /\ \A i \in 1..k : t[i] = s[i]
  BY <1>1
<1> HIDE DEF t
<1>3. /\ Columns(t) \in Seq(DbRow) /\ Len(Columns(t)) = k + 1
      /\ \A i \in 1..(k + 1) : Columns(t)[i] = RowOf(t[i])
  BY <1>2, ColumnsType
<1>4. /\ Columns(s) \in Seq(DbRow) /\ Len(Columns(s)) = k
      /\ \A i \in 1..k : Columns(s)[i] = RowOf(s[i])
  BY <1>1, ColumnsType
<1>5. PICK a : a = Append(Columns(s), RowOf(r))
  OBVIOUS
<1>6. RowOf(r) \in DbRow
  BY RowColumns
<1>7. /\ a \in Seq(DbRow) /\ Len(a) = k + 1 /\ a[k + 1] = RowOf(r)
      /\ \A i \in 1..k : a[i] = Columns(s)[i]
  BY <1>4, <1>5, <1>6
<1>8. \A i \in 1..(k + 1) : Columns(t)[i] = a[i]
  BY <1>2, <1>3, <1>4, <1>7
<1>9. Columns(t) = a
  BY <1>3, <1>7, <1>8, SeqEqual
<1> QED
  BY <1>5, <1>9 DEF t

LEMMA ConcatAppend ==
  ASSUME NEW s \in Seq(DbRow), NEW t \in Seq(DbRow), NEW r \in DbRow
  PROVE  /\ s \o Append(t, r) = Append(s \o t, r)
         /\ s \o <<>> = s
  OBVIOUS

\* The pair of a table and its cache holds the rows s.
Holds(b, s) == b.table \in Seq(DbRow) /\ b.cache \in Seq(DbRow) /\ b.table \o b.cache = s

LEMMA PutHolds ==
  ASSUME NEW b, DOMAIN b = {"table", "cache"}, NEW s \in Seq(DbRow), Holds(b, s), NEW r \in DbRow
  PROVE  Holds(db!Put(b, r, "packet"), Append(s, r))
<1>1. ASSUME NEW c, c.table \in Seq(DbRow), c.cache \in Seq(DbRow), DOMAIN c = {"table", "cache"},
             c.table \o c.cache = s
      PROVE  Holds(db!push_back(c, r), Append(s, r))
  <2>1. /\ db!push_back(c, r).table = c.table
        /\ db!push_back(c, r).cache = Append(c.cache, r)
    BY <1>1 DEF db!push_back
  <2>2. c.table \o Append(c.cache, r) = Append(c.table \o c.cache, r)
    BY <1>1, ConcatAppend, Zenon
  <2> QED
    BY <1>1, <2>1, <2>2 DEF Holds
<1>2. /\ db!write_cache(b).table = s /\ db!write_cache(b).cache = <<>>
      /\ DOMAIN db!write_cache(b) = {"table", "cache"}
  BY DEF db!write_cache, Holds
<1>3. <<>> \in Seq(DbRow) /\ s \o <<>> = s
  BY ConcatAppend
<1>4. Holds(db!push_back(db!write_cache(b), r), Append(s, r))
  <2>1. PICK c : c = db!write_cache(b)
    OBVIOUS
  <2>2. /\ c.table \in Seq(DbRow) /\ c.cache \in Seq(DbRow) /\ DOMAIN c = {"table", "cache"}
        /\ c.table \o c.cache = s
    BY <1>2, <1>3, <2>1
  <2> QED
    BY <1>1, <2>1, <2>2
<1>5. Holds(db!push_back(b, r), Append(s, r))
  BY <1>1 DEF Holds
<1> QED
  BY <1>4, <1>5 DEF db!Put

TableHolds == Holds(db!Buffer("packet"), Columns(packet_table))

ToolInv ==
  /\ MapInv
  /\ capture_start_time \in Nat
  /\ DOMAIN table = {"packet"} /\ DOMAIN cache = {"packet"}
  /\ opens \in {0, 1}
  /\ db_phase = "open" => opens = 1
  /\ opens = 0 => packet_table = <<>>
  /\ opens = 1 /\ phase # "failed" => TableHolds

LEMMA SetBufferHolds ==
  ASSUME DOMAIN table = {"packet"}, DOMAIN cache = {"packet"}, NEW b,
         db!SetBuffer("packet", b)
  PROVE  /\ DOMAIN table' = {"packet"} /\ DOMAIN cache' = {"packet"}
         /\ \A s : Holds(b, s) => Holds(db!Buffer("packet")', s)
<1>1. /\ table' = [table EXCEPT !["packet"] = b.table]
      /\ cache' = [cache EXCEPT !["packet"] = b.cache]
  BY DEF db!SetBuffer
<1>2. /\ DOMAIN table' = {"packet"} /\ DOMAIN cache' = {"packet"}
      /\ table'["packet"] = b.table /\ cache'["packet"] = b.cache
  BY <1>1
<1>3. PICK c : c = db!Buffer("packet")'
  OBVIOUS
<1>4. c = [table |-> b.table, cache |-> b.cache]
  BY <1>2, <1>3 DEF db!Buffer
<1>5. \A s : Holds(b, s) => Holds(c, s)
  BY <1>4 DEF Holds
<1> QED
  BY <1>2, <1>3, <1>5

LEMMA ToolStarts == PCapReader!TracesAssumption /\ Init => ToolInv
<1> SUFFICES ASSUME Init PROVE ToolInv
  OBVIOUS
<1>1. MapInv /\ packet_table = <<>>
  BY MapStarts DEF Init
<1>2. capture_start_time \in Nat
  BY DEF Init, PCapReader!Init
<1>3. /\ DOMAIN table = {"packet"} /\ DOMAIN cache = {"packet"}
      /\ db_phase = "closed" /\ opens = 0
  BY DEF Init
<1> QED
  BY <1>1, <1>2, <1>3 DEF ToolInv

\* A step that leaves the flow map, the table and the cache alone, and does not bring
\* the program back to life.
LEMMA QuietStep ==
  ASSUME ToolInv, UNCHANGED map_vars, UNCHANGED <<capture_start_time, table, cache, opens>>,
         phase = "failed" => phase' = "failed",
         db_phase' = "open" => db_phase = "open"
  PROVE  ToolInv'
<1>1. MapInv' /\ packet_table' = packet_table
  BY MapStays DEF ToolInv, map_vars
<1>2. TableHolds => TableHolds'
  BY <1>1 DEF TableHolds, db!Buffer
<1> QED
  BY <1>1, <1>2 DEF ToolInv

\* A step that fails.
LEMMA FailingStep ==
  ASSUME ToolInv, UNCHANGED map_vars, UNCHANGED capture_start_time, phase' = "failed",
         DOMAIN table' = {"packet"}, DOMAIN cache' = {"packet"}, opens' = 1
  PROVE  ToolInv'
<1>1. MapInv'
  BY MapStays DEF ToolInv
<1> QED
  BY <1>1 DEF ToolInv

LEMMA OpenStep ==
  ASSUME ToolInv, db_open
  PROVE  ToolInv'
<1>1. /\ UNCHANGED map_vars /\ UNCHANGED capture_start_time /\ opens = 0
      /\ opens' = opens + 1
      /\ table' = [t \in {"packet"} |-> <<>>] /\ cache' = [t \in {"packet"} |-> <<>>]
  BY DEF db_open, db!open, reader_vars
<1>2. MapInv' /\ packet_table' = <<>>
  BY <1>1, MapStays DEF ToolInv, map_vars
<1>3. table'["packet"] = <<>> /\ cache'["packet"] = <<>>
  BY <1>1
<1>4. PICK b : b = db!Buffer("packet")'
  OBVIOUS
<1>5. b.table = <<>> /\ b.cache = <<>>
  BY <1>3, <1>4 DEF db!Buffer
<1>6. Holds(b, Columns(<<>>))
  BY <1>5 DEF Holds, Columns
<1>7. TableHolds'
  BY <1>2, <1>4, <1>6 DEF TableHolds
<1> QED
  BY <1>1, <1>2, <1>7 DEF ToolInv

LEMMA OpenFailsStep ==
  ASSUME ToolInv, open_fails
  PROVE  ToolInv'
<1>1. /\ UNCHANGED map_vars /\ UNCHANGED capture_start_time
      /\ phase' = "failed" /\ opens' = 1 /\ UNCHANGED cache
      /\ table' \in {table, [t \in {"packet"} |-> <<>>]}
  BY DEF open_fails, map_vars
<1>2. DOMAIN table' = {"packet"} /\ DOMAIN cache' = {"packet"}
  BY <1>1 DEF ToolInv
<1> QED
  BY <1>1, <1>2, FailingStep

LEMMA TracesStep ==
  ASSUME ToolInv, traces
  PROVE  ToolInv'
<1>1. /\ UNCHANGED map_vars /\ UNCHANGED <<table, cache, opens>> /\ db_phase = "open"
  BY DEF traces, map_vars
<1>2. UNCHANGED capture_start_time /\ (phase = "failed" => phase' = "failed")
  BY DEF traces, PCapReader!skip_trace, PCapReader!read_trace,
     PCapReader!dispatched, PCapReader!dispatch_fails, PCapReader!finish
<1> QED
  BY <1>1, <1>2, QuietStep

LEMMA CloseStep ==
  ASSUME ToolInv, db_close
  PROVE  ToolInv'
<1>1. /\ UNCHANGED map_vars
      /\ UNCHANGED <<capture_start_time, phase, table, cache, opens>> /\ db_phase' = "closed"
  BY DEF db_close, db!close, reader_vars
<1> QED
  BY <1>1, QuietStep

LEMMA DbFailStep ==
  ASSUME ToolInv, UNCHANGED map_vars, UNCHANGED capture_start_time, phase' = "failed",
         db!fail("packet")
  PROVE  ToolInv'
<1>1. /\ db_phase = "open" /\ UNCHANGED <<cache, opens>>
      /\ \E k \in 0..Len(cache["packet"]) :
           table' = [table EXCEPT !["packet"] = @ \o SubSeq(cache["packet"], 1, k)]
  BY DEF db!fail
<1>2. DOMAIN table' = {"packet"} /\ DOMAIN cache' = {"packet"} /\ opens' = 1
  BY <1>1 DEF ToolInv
<1> QED
  BY <1>2, FailingStep

LEMMA WriteFailsStep ==
  ASSUME ToolInv, write_fails
  PROVE  ToolInv'
  BY DbFailStep DEF write_fails

\* What the flow map has stored is in the cache, or in the table.
LEMMA StoreHolds ==
  ASSUME ToolInv, MapInv', TableHolds, store_packet,
         packet_table' = packet_table
         \/ \E r \in Map!Row : packet_table' = Append(packet_table, r)
  PROVE  TableHolds' /\ DOMAIN table' = {"packet"} /\ DOMAIN cache' = {"packet"}
<1>1. packet_table \in Seq(Map!Row)
  BY DEF ToolInv, MapInv, Map!IInv, Map!MapTypeOK
<1>2. CASE packet_table' = packet_table
  <2>1. UNCHANGED <<table, cache>>
    BY <1>2 DEF store_packet
  <2> QED
    BY <1>2, <2>1 DEF TableHolds, ToolInv, db!Buffer
<1>3. CASE \E r \in Map!Row : packet_table' = Append(packet_table, r)
  <2>1. PICK r \in Map!Row : packet_table' = Append(packet_table, r)
    BY <1>3
  <2>2. packet_table'[Len(packet_table')] = r /\ packet_table' # packet_table
    BY <1>1, <2>1
  <2>3. PICK row : row = RowOf(r)
    OBVIOUS
  <2>4. PICK b : b = db!Put(db!Buffer("packet"), row, "packet")
    OBVIOUS
  <2>5. db!SetBuffer("packet", b)
    BY <2>2, <2>3, <2>4 DEF store_packet
  <2>6. row \in DbRow /\ Columns(packet_table) \in Seq(DbRow)
    BY <1>1, <2>3, RowColumns, ColumnsType
  <2>7. DOMAIN db!Buffer("packet") = {"table", "cache"}
    BY DEF db!Buffer
  <2>8. Holds(b, Append(Columns(packet_table), row))
    BY <2>4, <2>6, <2>7, PutHolds DEF TableHolds
  <2>9. Append(Columns(packet_table), row) = Columns(packet_table')
    BY <1>1, <2>1, <2>3, ColumnsAppend
  <2>10. /\ DOMAIN table' = {"packet"} /\ DOMAIN cache' = {"packet"}
         /\ Holds(db!Buffer("packet")', Columns(packet_table'))
    BY <2>5, <2>8, <2>9, SetBufferHolds DEF ToolInv
  <2> QED
    BY <2>10 DEF TableHolds
<1> QED
  BY <1>2, <1>3

\* A packet goes through the map if it is kept.
LEMMA ProcessMaps ==
  ASSUME ToolHypotheses, MapInv, capture_start_time \in Nat,
         NEW p \in PCapReader!Captured, process_packet(p)
  PROVE  /\ MapInv'
         /\ \/ packet_table' = packet_table
            \/ \E r \in Map!Row : /\ packet_table' = Append(packet_table, r)
                              /\ r.pkt = PacketOf(p) /\ PCapReader!Kept(p.header)
<1>1. CASE PCapReader!Kept(p.header)
  <2>1. flow_map!map_to_flow(PacketOf(p))
    BY <1>1 DEF process_packet
  <2>2. Map!map_to_flow(PacketOf(p))
    BY <2>1, SameMapToFlow
  <2> QED
    BY <1>1, <2>2, PacketOfCaptured, MapTakes
<1>2. CASE ~PCapReader!Kept(p.header)
  <2>1. UNCHANGED map_vars
    BY <1>2 DEF process_packet
  <2> QED
    BY <2>1, MapStays DEF map_vars
<1> QED
  BY <1>1, <1>2

LEMMA ProcessStep ==
  ASSUME ToolHypotheses, ToolInv, NEW p \in PCapReader!Captured, process_packet(p)
  PROVE  ToolInv'
<1>1. /\ db_phase = "open" /\ UNCHANGED opens /\ phase = "dispatch"
      /\ store_packet
  BY DEF process_packet, PCapReader!process_packet
<1>2. opens = 1 /\ TableHolds /\ MapInv /\ capture_start_time \in Nat
  BY <1>1 DEF ToolInv
<1>3. /\ PacketOf(p) \in Map!Packet
      /\ p.time \in Nat
  BY <1>2, PacketOfCaptured
<1>4. capture_start_time' \in Nat
  <2>1. \/ UNCHANGED capture_start_time
        \/ capture_start_time' = PCapReader!start_time(p.time)
    BY DEF process_packet, PCapReader!process_packet
  <2> QED
    BY <1>2, <1>3, <2>1 DEF PCapReader!start_time
<1>5. MapInv' /\ (packet_table' = packet_table
                  \/ \E r \in Map!Row : packet_table' = Append(packet_table, r))
  BY <1>2, ProcessMaps
<1>6. TableHolds' /\ DOMAIN table' = {"packet"} /\ DOMAIN cache' = {"packet"}
  BY <1>1, <1>2, <1>5, StoreHolds
<1>7. opens' = 1
  BY <1>1, <1>2
<1> QED
  BY <1>4, <1>5, <1>6, <1>7 DEF ToolInv

LEMMA ProgramStep ==
  ASSUME ToolHypotheses, ToolInv, Next
  PROVE  ToolInv'
  BY OpenStep, OpenFailsStep, TracesStep, CloseStep, WriteFailsStep, ProcessStep DEF Next

LEMMA ProgramStutters ==
  ASSUME ToolInv, UNCHANGED vars
  PROVE  ToolInv'
<1>1. /\ UNCHANGED map_vars
      /\ UNCHANGED <<capture_start_time, phase, table, cache, opens, db_phase>>
  BY DEF vars, reader_vars, db_vars
<1> QED
  BY <1>1, QuietStep

LEMMA ConcatType ==
  ASSUME NEW s \in Seq(DbRow), NEW t \in Seq(DbRow)
  PROVE  s \o t \in Seq(DbRow)
  OBVIOUS

\* A reader writes the cache into the table.
LEMMA GetStep ==
  ASSUME ToolInv, NEW d, get_packets(d)
  PROVE  ToolInv'
<1>1. /\ UNCHANGED map_vars /\ UNCHANGED capture_start_time /\ db_phase = "open"
      /\ phase = "done"
      /\ UNCHANGED opens
  BY DEF get_packets, db!get
<1>2. MapInv' /\ opens' = 1 /\ TableHolds
  BY <1>1, MapStays DEF ToolInv
<1>3. CASE db!IndexError
  <2>1. phase' = "failed" /\ UNCHANGED <<table, cache>>
    BY <1>3 DEF get_packets, db!get
  <2> QED
    BY <1>1, <1>2, <2>1, FailingStep DEF ToolInv
<1>4. CASE ~db!IndexError
  <2>1. PICK b : b = db!write_cache(db!Buffer("packet"))
    OBVIOUS
  <2>2. db!SetBuffer("packet", b)
    BY <1>4, <2>1 DEF get_packets, db!get
  <2>3. PICK s : s = Columns(packet_table)
    OBVIOUS
  <2>4. PICK c : c = db!Buffer("packet")
    OBVIOUS
  <2>5. c.table \in Seq(DbRow) /\ c.cache \in Seq(DbRow) /\ c.table \o c.cache = s
    BY <1>2, <2>3, <2>4 DEF TableHolds, Holds
  <2>6. b.table = s /\ b.cache = <<>>
    BY <2>1, <2>4, <2>5 DEF db!write_cache
  <2>7. s \in Seq(DbRow) /\ <<>> \in Seq(DbRow) /\ s \o <<>> = s
    <3>1. s \in Seq(DbRow)
      BY <2>5, ConcatType
    <3> QED
      BY <3>1, ConcatAppend
  <2>8. Holds(b, s)
    BY <2>6, <2>7 DEF Holds
  <2>9. /\ DOMAIN table' = {"packet"} /\ DOMAIN cache' = {"packet"}
        /\ Holds(db!Buffer("packet")', s)
    BY <2>2, <2>8, SetBufferHolds DEF ToolInv
  <2>10. packet_table' = packet_table
    BY <1>1 DEF map_vars
  <2>11. TableHolds'
    BY <2>3, <2>9, <2>10 DEF TableHolds
  <2> QED
    BY <1>1, <1>2, <2>9, <2>11 DEF ToolInv
<1> QED
  BY <1>3, <1>4

LEMMA DebugStep ==
  ASSUME ToolInv,
         \/ compare_with_tcpdump \/ command_fails
         \/ values_correct \/ values_not_correct
  PROVE  ToolInv'
<1>1. CASE compare_with_tcpdump \/ values_correct
  <2>1. UNCHANGED vars
    BY <1>1 DEF compare_with_tcpdump, values_correct
  <2> QED
    BY <2>1, ProgramStutters
<1>2. CASE command_fails \/ values_not_correct
  <2>1. /\ UNCHANGED map_vars
        /\ UNCHANGED <<capture_start_time, table, cache, opens>>
        /\ phase' = "failed" /\ db_phase' = "failed"
    BY <1>2 DEF command_fails, values_not_correct, map_vars
  <2> QED
    BY <2>1, QuietStep
<1> QED
  BY <1>1, <1>2

LEMMA TestStep ==
  ASSUME ToolHypotheses, ToolInv, TestNext
  PROVE  ToolInv'
<1>1. CASE run
  BY <1>1, OpenStep, OpenFailsStep, WriteFailsStep, ProcessStep DEF run
<1>2. CASE test_traces
  BY <1>2, TracesStep DEF test_traces
<1>3. CASE \/ compare_with_tcpdump \/ command_fails
           \/ values_correct \/ values_not_correct
  BY <1>3, DebugStep
<1>4. ASSUME NEW d, get_packets(d)
      PROVE  ToolInv'
  BY <1>4, GetStep
<1>5. CASE get_packets_fails
  <2>1. /\ UNCHANGED map_vars /\ UNCHANGED capture_start_time /\ phase' = "failed"
        /\ db!fail("packet")
    BY <1>5 DEF get_packets_fails
  <2> QED
    BY <2>1, DbFailStep
<1>6. CASE test_close
  BY <1>6, CloseStep DEF test_close
<1> QED
  BY <1>1, <1>2, <1>3, <1>4, <1>5, <1>6 DEF TestNext

LEMMA SameCardinality == \A S : Map!Cardinality(S) = Cardinality(S)
  BY Zenon DEF Map!Cardinality, Cardinality, Map!IsFiniteSet, IsFiniteSet

LEMMA HoldsIsMatch == ToolInv => CountersMatchFile
<1> DEFINE all == table["packet"] \o cache["packet"]
           Id(x) == flow_map!FlowAt(x[1]).id[x[2]]
           dirs == flow_map!FlowsInMap \X flow_map!Dir
<1> SUFFICES ASSUME ToolInv, opens = 1, phase # "failed"
             PROVE  /\ \A i \in DOMAIN all : \E x \in dirs : all[i].dir_id = Id(x)
                    /\ \A x \in dirs :
                         Cardinality({i \in DOMAIN all : all[i].dir_id = Id(x)})
                         = flow_map!FlowAt(x[1]).num_packets[x[2]]
  BY DEF CountersMatchFile
<1>1. MapInv /\ packet_table \in Seq(Map!Row)
  BY DEF ToolInv, MapInv, Map!IInv, Map!MapTypeOK
<1>2. all = Columns(packet_table)
  BY DEF ToolInv, TableHolds, Holds, db!Buffer
<1>3. /\ DOMAIN all = 1..Len(packet_table)
      /\ \A i \in 1..Len(packet_table) : all[i].dir_id = packet_table[i].dir_id
  <2>1. /\ Columns(packet_table) \in Seq(DbRow) /\ Len(Columns(packet_table)) = Len(packet_table)
        /\ \A i \in 1..Len(packet_table) : Columns(packet_table)[i] = RowOf(packet_table[i])
    BY <1>1, ColumnsType
  <2>2. \A r : RowOf(r).dir_id = r.dir_id
    BY DEF RowOf
  <2>3. DOMAIN Columns(packet_table) = 1..Len(packet_table)
    BY <2>1
  <2> QED
    BY <1>2, <2>1, <2>2, <2>3
<1>4. Map!RowsMatchCounters
  BY <1>1, Map!MatchIsOwnedAndCounted, MapAssumptions DEF MapInv
<1>5. /\ dirs = Map!FlowsInMap \X Map!Dir
      /\ \A x : flow_map!FlowAt(x) = Map!FlowAt(x)
  BY SameFlows
<1> HIDE DEF all
<1>6. ASSUME NEW i \in DOMAIN all
      PROVE  \E x \in dirs : all[i].dir_id = Id(x)
  <2>1. PICK f \in Map!FlowsInMap, d \in Map!Dir : Map!FlowAt(f).id[d] = packet_table[i].dir_id
    BY <1>3, <1>4 DEF Map!RowsMatchCounters
  <2>2. <<f, d>> \in dirs /\ Id(<<f, d>>) = all[i].dir_id
    BY <1>3, <1>5, <2>1
  <2> QED
    BY <2>2
<1>7. ASSUME NEW x \in dirs
      PROVE  Cardinality({i \in DOMAIN all : all[i].dir_id = Id(x)})
             = flow_map!FlowAt(x[1]).num_packets[x[2]]
  <2>1. PICK f \in Map!FlowsInMap, d \in Map!Dir : x[1] = f /\ x[2] = d
    BY <1>5
  <2>2. Map!FlowAt(f).num_packets[d] =
          Cardinality({i \in 1..Len(packet_table) : packet_table[i].dir_id = Map!FlowAt(f).id[d]})
    BY <1>4, SameCardinality, Zenon DEF Map!RowsMatchCounters
  <2>3. Id(x) = Map!FlowAt(f).id[d]
    BY <1>5, <2>1
  <2>4. {i \in DOMAIN all : all[i].dir_id = Id(x)}
        = {i \in 1..Len(packet_table) : packet_table[i].dir_id = Map!FlowAt(f).id[d]}
    BY <1>3, <2>3
  <2> QED
    BY <1>5, <2>1, <2>2, <2>4
<1> QED
  BY <1>6, <1>7

LEMMA ToolInvHolds ==
  ASSUME ToolHypotheses
  PROVE  TestSpec => []ToolInv
<1>1. TestInit => ToolInv
  BY ToolStarts DEF TestInit, ToolHypotheses
<1>2. ToolInv /\ [TestNext]_test_vars => ToolInv'
  BY TestStep, ProgramStutters DEF test_vars
<1> QED
  BY <1>1, <1>2, PTL DEF TestSpec

\* From the trace to the file, through three components, and in every run of the test
\* build, whatever is captured, cached, read back and failing: every direction of every
\* flow has exactly as many rows in the file and the cache as it has counted packets.
THEOREM CountersAlwaysMatchFile == TestSpec => []CountersMatchFile
  BY ToolHypothesesHold, HoldsIsMatch, ToolInvHolds, PTL

\* The same for the program that is not the test build.
THEOREM ProgramCountersMatchFile == Spec => []CountersMatchFile
<1>1. ToolHypotheses
  BY ToolHypothesesHold
<1>2. Init => ToolInv
  BY <1>1, ToolStarts DEF ToolHypotheses
<1>3. ToolInv /\ [Next]_vars => ToolInv'
  BY <1>1, ProgramStep, ProgramStutters
<1> QED
  BY <1>2, <1>3, HoldsIsMatch, PTL DEF Spec

-----------------------------------------------------------------------------
(* Lists of the rows of a direction, and what ORDER BY makes of them.       *)

Distinct(p, m) == \A j, k \in 1..m : p[j] = p[k] => j = k
Ascends(key, f, m) == \A j, k \in 1..m : j < k => key[f[j]] <= key[f[k]]
Misses(e, m, P) == {i \in P : \A k \in 1..m : e[k] # i}

LEMMA LeqLess ==
  ASSUME NEW a \in Int, NEW b \in Int, NEW c \in Int, a <= b, b < c
  PROVE  a < c
OBVIOUS

LEMMA FromOneTo ==
  ASSUME NEW k \in Nat
  PROVE  IsFiniteSet(1..k) /\ Cardinality(1..k) = k
<1>1. 1 \in Int /\ k \in Int /\ (IF 1 > k THEN 0 ELSE k - 1 + 1) = k
  OBVIOUS
<1>2. IsFiniteSet(1..k) /\ Cardinality(1..k) = IF 1 > k THEN 0 ELSE k - 1 + 1
  BY <1>1, FS_Interval, Zenon
<1>3. PICK v : v = IF 1 > k THEN 0 ELSE k - 1 + 1
  OBVIOUS
<1>4. v = k /\ IsFiniteSet(1..k) /\ Cardinality(1..k) = v
  BY <1>1, <1>2, <1>3, SMT
<1> QED
  BY <1>4, Zenon

\* Two enumerations of a set by a key, one without repetition and one that misses
\* nothing, come to the same keys: at no place is the first behind the second,
\* because what it has passed would not fit into what the second has passed.
LEMMA NotAhead ==
  ASSUME NEW P, NEW m \in Nat, NEW key \in [P -> Int],
         NEW p \in [1..m -> P], NEW e \in [1..m -> P],
         Distinct(p, m), Misses(e, m, P) = {}, Ascends(key, p, m), Ascends(key, e, m),
         NEW k \in 1..m
  PROVE  key[e[k]] <= key[p[k]]
<1> SUFFICES ASSUME key[p[k]] < key[e[k]]
             PROVE  FALSE
  <2>1. key[p[k]] \in Int /\ key[e[k]] \in Int
    OBVIOUS
  <2> QED
    BY <2>1
<1>1. ASSUME NEW j \in 1..k
      PROVE  \E i \in 1..(k - 1) : e[i] = p[j]
  <2>1. j \in 1..m
    OBVIOUS
  <2>2. PICK i \in 1..m : e[i] = p[j]
    BY <2>1 DEF Misses
  <2>3. key[p[j]] <= key[p[k]]
    <3>1. key[p[j]] \in Int
      BY <2>1
    <3>2. j < k \/ j = k
      OBVIOUS
    <3>3. ASSUME j < k PROVE key[p[j]] <= key[p[k]]
      BY <2>1, <3>3, Zenon DEF Ascends
    <3> QED
      BY <3>1, <3>2, <3>3
  <2>4. key[e[i]] < key[e[k]]
    <3>1. key[p[j]] \in Int /\ key[p[k]] \in Int /\ key[e[k]] \in Int
      BY <2>1
    <3>2. key[p[j]] < key[e[k]]
      BY <2>3, <3>1, LeqLess, Zenon
    <3> QED
      BY <2>2, <3>2, Zenon
  <2>5. ~(k <= i)
    <3>1. key[e[i]] \in Int /\ key[e[k]] \in Int
      OBVIOUS
    <3>2. ASSUME k < i PROVE FALSE
      <4>1. key[e[k]] <= key[e[i]]
        BY <3>2, Zenon DEF Ascends
      <4>2. key[e[k]] < key[e[k]]
        BY <2>4, <3>1, <4>1, LeqLess, Zenon
      <4> QED
        BY <3>1, <4>2
    <3>3. k # i
      BY <2>4, <3>1
    <3> QED
      BY <3>2, <3>3
  <2>6. i \in 1..(k - 1)
    BY <2>5
  <2> QED
    BY <2>2, <2>6
<1> DEFINE f == [j \in 1..k |-> CHOOSE i \in 1..(k - 1) : e[i] = p[j]]
<1>2. f \in [1..k -> 1..(k - 1)] /\ \A j \in 1..k : e[f[j]] = p[j]
  BY <1>1
<1>3. k \in Nat /\ k - 1 \in Nat /\ k - 1 < k
  OBVIOUS
<1>4. /\ IsFiniteSet(1..k) /\ Cardinality(1..k) = k
      /\ IsFiniteSet(1..(k - 1)) /\ Cardinality(1..(k - 1)) = k - 1
  BY <1>3, FromOneTo, Zenon
<1> HIDE DEF f
<1>5. Cardinality(1..(k - 1)) < Cardinality(1..k)
  BY <1>3, <1>4
<1>6. \E x, y \in 1..k : x # y /\ f[x] = f[y]
  <2>1. f \in [1..k -> 1..(k - 1)]
    BY <1>2
  <2>2. IsFiniteSet(1..k)
    BY <1>4
  <2>3. IsFiniteSet(1..(k - 1))
    BY <1>4
  <2>4. PICK S : S = 1..k
    OBVIOUS
  <2>5. PICK T : T = 1..(k - 1)
    OBVIOUS
  <2>6. f \in [S -> T] /\ IsFiniteSet(S) /\ IsFiniteSet(T) /\ Cardinality(T) < Cardinality(S)
    BY <1>5, <2>1, <2>2, <2>3, <2>4, <2>5, Zenon
  <2>7. \E x, y \in S : x # y /\ f[x] = f[y]
    BY <2>6, FS_PigeonHole
  <2> QED
    BY <2>4, <2>7, Zenon
<1>7. PICK x, y \in 1..k : x # y /\ f[x] = f[y]
  BY <1>6
<1>8. p[x] = p[y]
  BY <1>2, <1>7
<1>9. x \in 1..m /\ y \in 1..m
  OBVIOUS
<1> QED
  BY <1>7, <1>8, <1>9, Zenon DEF Distinct

\* e enumerates, in their order, the places of direction d in s; x lists its rows.
Places(e, m, s, d) ==
  /\ e \in [1..m -> Map!IdRows(s, d)]
  /\ \A j, k \in 1..m : j < k => e[j] < e[k]
  /\ Misses(e, m, Map!IdRows(s, d)) = {}
Lists(x, s, d) ==
  \E m \in Nat : \E e : Places(e, m, s, d) /\ x = [k \in 1..m |-> s[e[k]]]

LEMMA NothingListed == \A d : Lists(<<>>, <<>>, d)
<1> SUFFICES ASSUME NEW d PROVE Lists(<<>>, <<>>, d)
  OBVIOUS
<1>1. Map!IdRows(<<>>, d) = {}
  BY DEF Map!IdRows
<1>2. PICK e : e = [k \in 1..0 |-> k]
  OBVIOUS
<1>3. Places(e, 0, <<>>, d)
  BY <1>1, <1>2 DEF Places, Misses
<1>4. <<>> = [k \in 1..0 |-> (<<>>)[e[k]]]
  OBVIOUS
<1> QED
  BY <1>3, <1>4 DEF Lists

LEMMA AppendListed ==
  ASSUME NEW s \in Seq(DbRow), NEW r \in DbRow, NEW x, NEW d, Lists(x, s, d)
  PROVE  Lists(IF r.dir_id = d THEN Append(x, r) ELSE x, Append(s, r), d)
<1>1. PICK N \in Nat : N = Len(s)
  OBVIOUS
<1>2. PICK t : t = Append(s, r)
  OBVIOUS
<1>3. /\ Len(t) = N + 1 /\ t[N + 1] = r
      /\ \A i \in 1..N : t[i] = s[i] /\ s[i] \in DbRow
  BY <1>1, <1>2
<1>4. Map!IdRows(s, d) \subseteq 1..N
  BY <1>1 DEF Map!IdRows
<1>5. Map!IdRows(t, d) = IF r.dir_id = d THEN Map!IdRows(s, d) \cup {N + 1} ELSE Map!IdRows(s, d)
  <2>1. 1..(N + 1) = 1..N \cup {N + 1} /\ N + 1 \notin 1..N
    OBVIOUS
  <2> QED
    BY <1>1, <1>3, <2>1 DEF Map!IdRows
<1>6. PICK m \in Nat : \E e : Places(e, m, s, d) /\ x = [k \in 1..m |-> s[e[k]]]
  BY DEF Lists
<1>7. PICK e : Places(e, m, s, d) /\ x = [k \in 1..m |-> s[e[k]]]
  BY <1>6
<1>8. e \in [1..m -> Map!IdRows(s, d)]
  BY <1>7 DEF Places
<1>9. CASE r.dir_id # d
  <2>1. x = [k \in 1..m |-> t[e[k]]]
    BY <1>3, <1>4, <1>7, <1>8
  <2>2. Places(e, m, t, d)
    BY <1>5, <1>7, <1>9 DEF Places
  <2>3. Lists(x, t, d)
    BY <2>1, <2>2 DEF Lists
  <2> QED
    BY <1>2, <1>9, <2>3
<1>10. CASE r.dir_id = d
  <2>1. PICK f : f = [k \in 1..(m + 1) |-> IF k = m + 1 THEN N + 1 ELSE e[k]]
    OBVIOUS
  <2>2. Map!IdRows(t, d) = Map!IdRows(s, d) \cup {N + 1}
    BY <1>5, <1>10
  <2>3. /\ \A k \in 1..m : k \in 1..(m + 1) /\ k # m + 1
        /\ \A k \in 1..(m + 1) : k \in 1..m \/ k = m + 1
        /\ m + 1 \in 1..(m + 1)
    OBVIOUS
  <2>4. f[m + 1] = N + 1 /\ \A k \in 1..m : f[k] = e[k] /\ e[k] \in 1..N
    BY <1>4, <1>8, <2>1, <2>3
  <2>5. f \in [1..(m + 1) -> Map!IdRows(t, d)]
    BY <1>8, <2>1, <2>2, <2>3
  <2>6. ASSUME NEW j \in 1..(m + 1), NEW k \in 1..(m + 1), j < k
        PROVE  f[j] < f[k]
    <3>1. j \in 1..m /\ f[j] = e[j] /\ e[j] \in 1..N
      <4>1. j \in 1..m
        BY <2>6
      <4> QED
        BY <2>4, <4>1
    <3>2. CASE k = m + 1
      BY <2>4, <3>1, <3>2
    <3>3. CASE k \in 1..m
      <4>1. e[j] < e[k]
        BY <1>7, <2>6, <3>1, <3>3 DEF Places
      <4> QED
        BY <2>4, <3>1, <3>3, <4>1
    <3> QED
      BY <2>3, <3>2, <3>3
  <2>7. Misses(f, m + 1, Map!IdRows(t, d)) = {}
    <3> SUFFICES ASSUME NEW i \in Map!IdRows(t, d) PROVE \E k \in 1..(m + 1) : f[k] = i
      BY DEF Misses
    <3>1. CASE i = N + 1
      BY <2>3, <2>4, <3>1
    <3>2. CASE i \in Map!IdRows(s, d)
      <4>1. PICK k \in 1..m : e[k] = i
        BY <1>7, <3>2 DEF Places, Misses
      <4> QED
        BY <2>3, <2>4, <4>1
    <3> QED
      BY <2>2, <3>1, <3>2
  <2>8. Append(x, r) = [k \in 1..(m + 1) |-> t[f[k]]]
    <3>1. x \in Seq(DbRow) /\ Len(x) = m
      BY <1>3, <1>4, <1>7, <1>8
    <3>2. PICK y : y = Append(x, r)
      OBVIOUS
    <3>3. y \in Seq(DbRow) /\ Len(y) = m + 1 /\ y[m + 1] = r
      BY <3>1, <3>2
    <3>4. \A k \in 1..m : y[k] = x[k]
      BY <3>1, <3>2
    <3>5. \A k \in 1..m : x[k] = t[f[k]]
      BY <1>3, <1>7, <2>4
    <3>6. \A k \in 1..(m + 1) : y[k] = t[f[k]]
      BY <1>3, <2>3, <2>4, <3>3, <3>4, <3>5
    <3>7. y = [k \in 1..(m + 1) |-> y[k]]
      BY <3>3
    <3> QED
      BY <3>2, <3>6, <3>7
  <2>9. m + 1 \in Nat
    OBVIOUS
  <2>10. Places(f, m + 1, t, d)
    BY <2>5, <2>6, <2>7 DEF Places
  <2>11. Lists(Append(x, r), t, d)
    BY <2>8, <2>9, <2>10 DEF Lists
  <2> QED
    BY <1>2, <1>10, <2>11
<1> QED
  BY <1>9, <1>10

LEMMA SameDbCardinality == \A S : db!Cardinality(S) = Cardinality(S)
  BY Zenon DEF db!Cardinality, Cardinality, db!IsFiniteSet, IsFiniteSet

\* There are as many places as the enumeration has.
LEMMA PlacesCounted ==
  ASSUME NEW s \in Seq(DbRow), NEW d, NEW m \in Nat, NEW e, Places(e, m, s, d)
  PROVE  Cardinality(Map!IdRows(s, d)) = m /\ IsFiniteSet(Map!IdRows(s, d))
<1> DEFINE P == Map!IdRows(s, d)
<1>1. e \in [1..m -> P]
  BY DEF Places
<1>2. \A i \in P : \E k \in 1..m : e[k] = i
  BY DEF Places, Misses
<1>3. \A j, k \in 1..m : e[j] = e[k] => j = k
  <2> SUFFICES ASSUME NEW j \in 1..m, NEW k \in 1..m, j # k PROVE e[j] # e[k]
    OBVIOUS
  <2>1. e[j] \in Int /\ e[k] \in Int
    BY <1>1 DEF Map!IdRows
  <2>2. j < k => e[j] < e[k]
    BY Zenon DEF Places
  <2>3. k < j => e[k] < e[j]
    BY Zenon DEF Places
  <2> QED
    BY <2>1, <2>2, <2>3
<1> HIDE DEF P
<1>4. e \in Surjection(1..m, P) /\ e \in Injection(1..m, P)
  BY <1>1, <1>2, <1>3 DEF Surjection, Injection, IsInjective
<1>5. IsFiniteSet(1..m) /\ Cardinality(1..m) = m
  BY FromOneTo
<1>6. IsFiniteSet(P) /\ Cardinality(P) = Cardinality(1..m)
  BY <1>4, <1>5, FS_Surjection
<1> QED
  BY <1>5, <1>6 DEF P

LEMMA SameRow ==
  ASSUME NEW a \in DbRow, NEW b \in DbRow, a.dir_id = b.dir_id, a.time = b.time
  PROVE  a = b
  BY DEF DbRow

TimesAscend(s) == \A i, j \in 1..Len(s) : i < j => s[i].time <= s[j].time
TimesPositive(s) == \A i \in 1..Len(s) : s[i].time < HALF

\* A reader who asks for rows that were stored in the order of their times, none of
\* them in the upper half of the clock, gets them in that order, and can get no other
\* answer: rows of the same time and direction look the same.
LEMMA AnswerIsList ==
  ASSUME NEW s \in Seq(DbRow), TimesAscend(s), TimesPositive(s),
         NEW x, NEW d, Lists(x, s, d), NEW limit,
         NEW q \in db!Selected("packet", s, d, limit)
  PROVE  q = x
<1> DEFINE P == Map!IdRows(s, d)
<1>1. PICK m \in Nat : \E e : Places(e, m, s, d) /\ x = [k \in 1..m |-> s[e[k]]]
  BY DEF Lists
<1>2. PICK e : Places(e, m, s, d) /\ x = [k \in 1..m |-> s[e[k]]]
  BY <1>1
<1>3. Cardinality(P) = m /\ IsFiniteSet(P)
  BY <1>2, PlacesCounted
<1>4. db!OfDir(s, d) = P /\ db!Cardinality(db!OfDir(s, d)) = m
  BY <1>3, SameDbCardinality, Zenon DEF db!OfDir, Map!IdRows
<1>5. PICK p \in {f \in [1..m -> P] : db!IsInjective(f)} : q = [k \in 1..m |-> s[p[k]]]
  BY <1>4 DEF db!Selected, db!OrderedBy
<1>6. \A j, k \in 1..m : j < k => db!Signed(q[j].time) <= db!Signed(q[k].time)
  BY <1>4 DEF db!Selected, db!OrderedBy
<1>7. p \in [1..m -> P] /\ e \in [1..m -> P] /\ Misses(e, m, P) = {}
      /\ \A j, k \in 1..m : j < k => e[j] < e[k]
  BY <1>2, <1>5 DEF Places
<1>8. \A i \in P : i \in 1..Len(s) /\ i \in Int /\ s[i] \in DbRow /\ s[i].time \in Int
                   /\ s[i].time < HALF /\ s[i].dir_id = d
  <2> SUFFICES ASSUME NEW i \in P
               PROVE  i \in 1..Len(s) /\ i \in Int /\ s[i] \in DbRow /\ s[i].time \in Int
                      /\ s[i].time < HALF /\ s[i].dir_id = d
    OBVIOUS
  <2>1. i \in 1..Len(s) /\ s[i].dir_id = d
    BY DEF Map!IdRows
  <2>2. s[i].time < HALF
    BY <2>1 DEF TimesPositive
  <2>3. s[i] \in DbRow
    BY <2>1
  <2> QED
    BY <2>1, <2>2, <2>3 DEF DbRow
<1>9. Distinct(p, m) /\ p \in Injection(1..m, P)
  BY <1>5, <1>7 DEF Distinct, Injection, IsInjective, db!IsInjective
<1> DEFINE key == [i \in P |-> s[i].time]
<1>10. key \in [P -> Int] /\ \A i \in P : key[i] = s[i].time
  BY <1>8
<1>11. Distinct(e, m)
  <2> SUFFICES ASSUME NEW j \in 1..m, NEW k \in 1..m, j # k PROVE e[j] # e[k]
    BY DEF Distinct
  <2>1. e[j] \in Int /\ e[k] \in Int
    BY <1>7, <1>8
  <2>2. j < k => e[j] < e[k]
    BY <1>7, Zenon
  <2>3. k < j => e[k] < e[j]
    BY <1>7, Zenon
  <2> QED
    BY <2>1, <2>2, <2>3
<1>12. Misses(p, m, P) = {}
  <2>1. IsFiniteSet(1..m) /\ Cardinality(1..m) = m
    BY FromOneTo
  <2>2. p \in Surjection(1..m, P)
    BY <1>3, <1>9, <2>1, FS_Injection
  <2> HIDE DEF P
  <2> QED
    BY <2>2 DEF Misses, Surjection
<1>13. Ascends(key, p, m)
  <2> SUFFICES ASSUME NEW j \in 1..m, NEW k \in 1..m, j < k
               PROVE  key[p[j]] <= key[p[k]]
    BY DEF Ascends
  <2>1. db!Signed(q[j].time) <= db!Signed(q[k].time)
    BY <1>6, Zenon
  <2>2. q[j].time = key[p[j]] /\ q[k].time = key[p[k]]
    BY <1>5, <1>7, <1>10
  <2>3. key[p[j]] < HALF /\ key[p[k]] < HALF
    BY <1>7, <1>8, <1>10
  <2> HIDE DEF key
  <2> QED
    BY <2>1, <2>2, <2>3 DEF db!Signed
<1>14. Ascends(key, e, m)
  <2> SUFFICES ASSUME NEW j \in 1..m, NEW k \in 1..m, j < k
               PROVE  key[e[j]] <= key[e[k]]
    BY DEF Ascends
  <2>1. e[j] < e[k]
    BY <1>7, Zenon
  <2>2. e[j] \in P /\ e[k] \in P
    BY <1>7
  <2>3. e[j] \in 1..Len(s) /\ e[k] \in 1..Len(s)
    BY <1>8, <2>2, Zenon
  <2>4. s[e[j]].time <= s[e[k]].time
    BY <2>1, <2>3, Zenon DEF TimesAscend
  <2> HIDE DEF key
  <2> QED
    BY <1>10, <2>2, <2>4, SMT
<1> HIDE DEF key, P
<1>15. ASSUME NEW k \in 1..m
       PROVE  s[p[k]] = s[e[k]]
  <2>1. key[e[k]] <= key[p[k]]
    BY <1>7, <1>9, <1>10, <1>13, <1>14, NotAhead, Zenon
  <2>2. key[p[k]] <= key[e[k]]
    BY <1>7, <1>10, <1>11, <1>12, <1>13, <1>14, NotAhead, Zenon
  <2>3. p[k] \in P /\ e[k] \in P
    BY <1>7
  <2>4. key[p[k]] \in Int /\ key[e[k]] \in Int
    BY <1>10, <2>3
  <2>5. s[p[k]].time = s[e[k]].time
    BY <1>10, <2>1, <2>2, <2>3, <2>4
  <2>6. /\ s[p[k]] \in DbRow /\ s[e[k]] \in DbRow
        /\ s[p[k]].dir_id = d /\ s[e[k]].dir_id = d
    BY <1>8, <2>3, Zenon
  <2> QED
    BY <2>5, <2>6, SameRow, Zenon
<1> QED
  BY <1>2, <1>5, <1>15

-----------------------------------------------------------------------------
(* The times of the rows.  From the trace to the row they go through the    *)
(* packed clock.                                                            *)

LEMMA SameClock ==
  /\ PCapReader!Word = Word
  /\ \A sec, usec : PCapReader!TimeOffset(sec, usec) = TimeOffset(sec, usec)
  BY Zenon DEF PCapReader!Word, Word, PCapReader!TimeOffset, TimeOffset

\* timersub, in the program: the packed difference.
LEMMA SubtractIsPacked ==
  ASSUME NEW t1 \in Nat, NEW t2 \in Nat
  PROVE  PCapReader!Subtract(t1, t2) = Packed(t1 - t2)
<1> DEFINE p == t1 \div USECS
           q == t2 \div USECS
           r == t1 % USECS
           s == t2 % USECS
<1>1. USECS \in Nat \ {0} /\ t1 \in Int /\ t2 \in Int
  BY ClockAssumption, SMT
<1>2. p \in Int /\ r \in 0..(USECS - 1) /\ q \in Int /\ s \in 0..(USECS - 1)
  BY <1>1, DivMod
<1>3. IF r < s THEN (t1 - t2) \div USECS = p - q - 1 /\ (t1 - t2) % USECS = r + USECS - s
      ELSE (t1 - t2) \div USECS = p - q /\ (t1 - t2) % USECS = r - s
  BY <1>1, Borrow
<1>4. PCapReader!Subtract(t1, t2) =
        IF r - s < 0 THEN TimeOffset(p - q - 1, r - s + USECS) ELSE TimeOffset(p - q, r - s)
  BY SameClock, Zenon DEF PCapReader!Subtract
<1>5. Packed(t1 - t2) = [sec |-> ((t1 - t2) \div USECS) % SECS, usec |-> (t1 - t2) % USECS]
  BY DEF Packed
<1> HIDE DEF p, q, r, s
<1>6. CASE r < s
  <2>1. r - s < 0 /\ r - s + USECS >= 0 /\ r - s + USECS = r + USECS - s
    BY <1>1, <1>2, <1>6, SMT
  <2>2. PCapReader!Subtract(t1, t2) = [sec |-> (p - q - 1) % SECS, usec |-> r + USECS - s]
    BY <2>1, <1>4 DEF TimeOffset
  <2> QED
    BY <2>2, <1>3, <1>5, <1>6
<1>7. CASE ~(r < s)
  <2>1. ~(r - s < 0) /\ r - s >= 0
    BY <1>2, <1>7, SMT
  <2>2. PCapReader!Subtract(t1, t2) = [sec |-> (p - q) % SECS, usec |-> r - s]
    BY <2>1, <1>4 DEF TimeOffset
  <2> QED
    BY <2>2, <1>3, <1>5, <1>7
<1> QED
  BY <1>6, <1>7

\* Half the clock is less than the clock.
LEMMA HalfOfClock ==
  ASSUME ToolAssumption
  PROVE  HALF \in Int /\ HALF > 0 /\ HALF < SECS * USECS
<1>1. SECS * USECS \in Nat /\ SECS * USECS > 0
  BY ClockAssumption
<1>2. SECS * USECS = 2 * HALF
  BY DEF ToolAssumption
<1>3. HALF \in Nat
  BY DEF ToolAssumption
<1> QED
  BY <1>1, <1>2, <1>3

\* The time of a packet is what has passed since the start, if that is not too much.
LEMMA TimeOfPacket ==
  ASSUME ToolAssumption, NEW p, p.time \in Nat, NEW start \in Nat,
         start = PCapReader!start_time(p.time),
         start <= p.time, p.time - start < HALF
  PROVE  PacketOf(p).time = p.time - start
<1>1. PICK x : x = p.time - start
  OBVIOUS
<1>2. x \in 0..(SECS * USECS - 1) /\ x \in Int
  BY <1>1, HalfOfClock
<1>3. PacketOf(p).time = to_usec(Packed(x))
  <2>1. PacketOf(p).time = to_usec(PCapReader!Subtract(p.time, start))
    BY DEF PacketOf
  <2>2. PCapReader!Subtract(p.time, start) = Packed(x)
    BY <1>1, SubtractIsPacked
  <2> QED
    BY <2>1, <2>2, SameClock
<1>4. to_usec(Packed(x)) = x
  <2>1. to_usec(from_usec(x)) = x /\ from_usec(x) = Packed(x)
    BY <1>2, ToUsecFromUsec, FromUsec
  <2> QED
    BY <2>1
<1> QED
  BY <1>1, <1>3, <1>4

\* Packets are kept in the order of their capture times, and none before the start;
\* as long as the trace is no longer than half of the clock, the rows are in that
\* order too, and none is later than a packet that was kept.
RowsInOrder ==
  \A j, k \in 1..Len(packet_table) :
    j < k => packet_table[j].pkt.time <= packet_table[k].pkt.time
NotLater(k) ==
  \E i \in 1..Len(handed) : packet_table[k].pkt.time <= handed[i].time - capture_start_time
CapturedBy(time) == \A i \in 1..Len(handed) : handed[i].time <= time
TimesInv ==
  /\ captured \in Seq(PCapReader!Captured) /\ handed \in Seq(PCapReader!Handed)
  /\ handed # <<>> => captured # <<>>
  /\ captured # <<>> => CapturedBy(captured[Len(captured)].time)
  /\ capture_start_time = 0 => CapturedBy(0)
  /\ capture_start_time # 0 =>
       \E i \in 1..Len(handed) : capture_start_time <= handed[i].time
  /\ WithinHalf => RowsInOrder /\ \A k \in 1..Len(packet_table) : NotLater(k)

LEMMA HandedTime ==
  ASSUME PCapReader!TracesAssumption, handed \in Seq(PCapReader!Handed),
         NEW i \in 1..Len(handed)
  PROVE  handed[i].time \in Nat
<1>1. handed[i] \in PCapReader!Handed
  OBVIOUS
<1> QED
  BY <1>1 DEF PCapReader!Handed, PCapReader!TracesAssumption

\* What is kept next is no earlier than what was kept, and the start is set by then.
LEMMA LaterThanAll ==
  ASSUME ToolHypotheses, TimesInv, capture_start_time \in Nat,
         NEW p, p.time \in Nat, InOrder(p)
  PROVE  /\ CapturedBy(p.time)
         /\ PCapReader!start_time(p.time) \in Nat
         /\ PCapReader!start_time(p.time) <= p.time
<1>1. CapturedBy(p.time)
  <2>1. SUFFICES ASSUME NEW i \in 1..Len(handed) PROVE handed[i].time <= p.time
    BY DEF CapturedBy
  <2>2. captured # <<>> /\ captured \in Seq(PCapReader!Captured)
    <3>1. handed # <<>>
      BY DEF TimesInv
    <3> QED
      BY <3>1 DEF TimesInv
  <2>3. PICK last : last = captured[Len(captured)]
    OBVIOUS
  <2>4. last.time \in Nat
    <3>1. last \in PCapReader!Captured
      BY <2>2, <2>3
    <3> QED
      BY <3>1 DEF PCapReader!Captured, ToolHypotheses, PCapReader!TracesAssumption
  <2>5. last.time <= p.time
    BY <2>2, <2>3 DEF InOrder
  <2>6. handed[i].time <= last.time
    BY <2>2, <2>3 DEF TimesInv, CapturedBy
  <2>7. handed[i].time \in Nat
    BY HandedTime DEF TimesInv, ToolHypotheses
  <2> QED
    BY <2>4, <2>5, <2>6, <2>7
<1>2. CASE capture_start_time = 0
  BY <1>1, <1>2 DEF PCapReader!start_time
<1>3. CASE capture_start_time # 0
  <2>1. PICK i \in 1..Len(handed) : capture_start_time <= handed[i].time
    BY <1>3 DEF TimesInv
  <2>2. handed[i].time <= p.time /\ handed[i].time \in Nat
    BY <1>1, <2>1, HandedTime DEF TimesInv, ToolHypotheses, CapturedBy
  <2> QED
    BY <1>1, <1>3, <2>1, <2>2 DEF PCapReader!start_time
<1> QED
  BY <1>2, <1>3

LEMMA TimesStart == TestInit => TimesInv
<1> SUFFICES ASSUME TestInit PROVE TimesInv
  OBVIOUS
<1>1. captured = <<>> /\ handed = <<>> /\ capture_start_time = 0
  BY DEF TestInit, Init, PCapReader!Init
<1>2. packet_table = <<>>
  BY MapStarts DEF TestInit, Init
<1> QED
  BY <1>1, <1>2 DEF TimesInv, CapturedBy, RowsInOrder

LEMMA TimesStay ==
  ASSUME TimesInv, UNCHANGED <<captured, handed, capture_start_time, packet_table>>
  PROVE  TimesInv' /\ (WithinHalf' <=> WithinHalf)
  BY DEF TimesInv, CapturedBy, RowsInOrder, NotLater, WithinHalf

\* A packet that is not kept.
LEMMA TimesDropped ==
  ASSUME ToolHypotheses, TimesInv, capture_start_time \in Nat,
         NEW p \in PCapReader!Captured, p.time \in Nat, InOrder(p),
         captured' = Append(captured, p),
         UNCHANGED <<handed, capture_start_time, packet_table>>
  PROVE  TimesInv'
<1>1. captured \in Seq(PCapReader!Captured)
  BY DEF TimesInv
<1>2. PICK c : c = captured'
  OBVIOUS
<1>3. c \in Seq(PCapReader!Captured) /\ c # <<>> /\ c[Len(c)] = p
  BY <1>1, <1>2
<1>4. CapturedBy(p.time)
  BY LaterThanAll
<1>5. CapturedBy(p.time)'
  BY <1>4 DEF CapturedBy
<1>6. (captured # <<>> => CapturedBy(captured[Len(captured)].time))'
  BY <1>2, <1>3, <1>5
<1>7. captured' \in Seq(PCapReader!Captured) /\ captured' # <<>>
  BY <1>2, <1>3
<1>8. /\ handed' \in Seq(PCapReader!Handed)
      /\ (capture_start_time = 0 => CapturedBy(0))'
      /\ (capture_start_time # 0 =>
            \E i \in 1..Len(handed) : capture_start_time <= handed[i].time)'
      /\ (WithinHalf => RowsInOrder /\ \A k \in 1..Len(packet_table) : NotLater(k))'
  BY DEF TimesInv, CapturedBy, RowsInOrder, NotLater, WithinHalf
<1> QED
  BY <1>6, <1>7, <1>8 DEF TimesInv

\* A packet that is kept: it is measured from the start it may have set.
LEMMA TimesKept ==
  ASSUME ToolHypotheses, TimesInv, MapInv, MapInv', capture_start_time \in Nat,
         NEW p \in PCapReader!Captured, p.time \in Nat, InOrder(p),
         captured' = Append(captured, p),
         capture_start_time' = PCapReader!start_time(p.time),
         NEW h \in PCapReader!Handed, h.time = p.time, handed' = Append(handed, h),
         \/ packet_table' = packet_table
         \/ \E r \in Map!Row : packet_table' = Append(packet_table, r) /\ r.pkt = PacketOf(p)
  PROVE  TimesInv'
<1>0. PICK start, m, len, q : start = capture_start_time' /\ m = Len(handed) + 1
                              /\ len = Len(packet_table) /\ q = handed'
  OBVIOUS
<1>1. captured \in Seq(PCapReader!Captured) /\ handed \in Seq(PCapReader!Handed)
  BY DEF TimesInv
<1>2. /\ q \in Seq(PCapReader!Handed) /\ q # <<>> /\ Len(q) = m /\ q[m] = h
      /\ m \in Nat \ {0} /\ m \in 1..m
      /\ \A i \in 1..Len(handed) : q[i] = handed[i] /\ i \in 1..m
      /\ \A i \in 1..m : i = m \/ i \in 1..Len(handed)
  BY <1>0, <1>1
<1>3. captured' \in Seq(PCapReader!Captured) /\ captured' # <<>>
      /\ captured'[Len(captured')] = p
  <2>1. PICK c : c = captured'
    OBVIOUS
  <2>2. c \in Seq(PCapReader!Captured) /\ c # <<>> /\ c[Len(c)] = p
    BY <1>1, <2>1
  <2> QED
    BY <2>1, <2>2
<1>4. CapturedBy(p.time) /\ start \in Nat /\ start <= p.time
  BY <1>0, LaterThanAll
<1>5. \A i \in 1..m : q[i].time <= p.time
  <2>1. \A i \in 1..Len(handed) : handed[i].time <= p.time
    BY <1>4 DEF CapturedBy
  <2>2. h.time <= p.time
    OBVIOUS
  <2> QED
    BY <1>2, <2>1, <2>2
<1>6. CapturedBy(p.time)'
  BY <1>0, <1>2, <1>5 DEF CapturedBy
<1>7. start = IF capture_start_time = 0 THEN p.time ELSE capture_start_time
  BY <1>0 DEF PCapReader!start_time
<1>8. start = 0 => \A i \in 1..m : q[i].time <= 0
  BY <1>5, <1>7
<1>9. (capture_start_time = 0 => CapturedBy(0))'
  BY <1>0, <1>2, <1>8 DEF CapturedBy
<1>10. start <= q[m].time
  BY <1>2, <1>4
<1>11. (capture_start_time # 0 =>
          \E i \in 1..Len(handed) : capture_start_time <= handed[i].time)'
  BY <1>0, <1>2, <1>10
<1>12. ASSUME WithinHalf'
       PROVE  (RowsInOrder /\ \A k \in 1..Len(packet_table) : NotLater(k))'
  <2>1. PICK x : x = p.time - start
    OBVIOUS
  <2>2. x \in Nat
    BY <1>4, <2>1
  <2>3. \A i \in 1..m : q[i].time - start < HALF
    <3>1. \A i \in DOMAIN q : q[i].time - start < HALF
      BY <1>0, <1>12 DEF WithinHalf
    <3>2. DOMAIN q = 1..m
      BY <1>2
    <3> QED
      BY <3>1, <3>2
  <2>4. x < HALF
    BY <1>2, <2>1, <2>3
  <2>5. \A i \in 1..Len(handed) : handed[i].time \in Nat
    BY <1>1, HandedTime DEF ToolHypotheses
  <2>6. WithinHalf
    <3>1. SUFFICES ASSUME NEW i \in 1..Len(handed) PROVE handed[i].time - capture_start_time < HALF
      <4>1. DOMAIN handed = 1..Len(handed)
        BY <1>1
      <4> QED
        BY <4>1, Zenon DEF WithinHalf
    <3>2. CASE capture_start_time = 0
      <4>1. handed[i].time <= 0
        BY <3>2 DEF TimesInv, CapturedBy
      <4> QED
        BY <2>5, <3>2, <4>1, HalfOfClock DEF ToolHypotheses
    <3>3. CASE capture_start_time # 0
      BY <1>2, <1>7, <2>3, <3>3
    <3> QED
      BY <3>2, <3>3
  <2>7. \A k \in 1..len : packet_table[k].pkt.time <= x
    <3>1. SUFFICES ASSUME NEW k \in 1..len PROVE packet_table[k].pkt.time <= x
      OBVIOUS
    <3>2. NotLater(k)
      BY <1>0, <2>6 DEF TimesInv
    <3>3. PICK i \in 1..Len(handed) :
            packet_table[k].pkt.time <= handed[i].time - capture_start_time
      BY <3>2 DEF NotLater
    <3>4. PICK y : y = packet_table[k].pkt.time
      OBVIOUS
    <3>5. y \in Nat
      <4>1. packet_table[k] \in Map!Row
        BY <1>0 DEF MapInv, Map!IInv, Map!MapTypeOK
      <4> QED
        BY <3>4, <4>1 DEF Map!Row, Map!Packet
    <3>6. handed[i].time - capture_start_time <= x
      <4>1. CASE capture_start_time = 0
        <5>1. handed[i].time <= 0
          BY <4>1 DEF TimesInv, CapturedBy
        <5> QED
          BY <2>2, <2>5, <4>1, <5>1
      <4>2. CASE capture_start_time # 0
        <5>1. handed[i].time <= p.time
          BY <1>4 DEF CapturedBy
        <5> QED
          BY <1>7, <2>1, <2>5, <4>2, <5>1
      <4> QED
        BY <4>1, <4>2
    <3> QED
      BY <2>2, <2>5, <3>3, <3>4, <3>5, <3>6
  <2>8. RowsInOrder
    BY <2>6 DEF TimesInv
  <2>9. PICK s : s = packet_table'
    OBVIOUS
  <2>10. packet_table \in Seq(Map!Row) /\ len \in Nat
    BY <1>0 DEF MapInv, Map!IInv, Map!MapTypeOK
  <2>11. /\ \A j, k \in 1..Len(s) : j < k => s[j].pkt.time <= s[k].pkt.time
         /\ \A k \in 1..Len(s) : s[k].pkt.time <= x
    <3>1. CASE s = packet_table
      BY <1>0, <2>7, <2>8, <3>1 DEF RowsInOrder
    <3>2. CASE \E r \in Map!Row : s = Append(packet_table, r) /\ r.pkt = PacketOf(p)
      <4>1. PICK r \in Map!Row : s = Append(packet_table, r) /\ r.pkt = PacketOf(p)
        BY <3>2
      <4>2. r.pkt.time = x
        BY <1>0, <1>4, <2>1, <2>4, <4>1, TimeOfPacket DEF ToolHypotheses
      <4>3. /\ Len(s) = len + 1 /\ s[len + 1] = r
            /\ \A k \in 1..len : s[k] = packet_table[k]
        BY <1>0, <2>10, <4>1
      <4>4. \A k \in 1..(len + 1) : k = len + 1 \/ k \in 1..len
        BY <2>10
      <4>5. ASSUME NEW k \in 1..(len + 1)
            PROVE  s[k].pkt.time <= x
        <5>1. CASE k = len + 1
          BY <2>2, <4>2, <4>3, <5>1
        <5>2. CASE k \in 1..len
          BY <2>7, <4>3, <5>2
        <5> QED
          BY <4>4, <5>1, <5>2
      <4>6. ASSUME NEW j \in 1..(len + 1), NEW k \in 1..(len + 1), j < k
            PROVE  s[j].pkt.time <= s[k].pkt.time
        <5>1. CASE k = len + 1
          BY <4>2, <4>3, <4>5, <5>1
        <5>2. CASE k \in 1..len
          <6>1. j \in 1..len
            BY <2>10, <4>6, <5>2
          <6>2. packet_table[j].pkt.time <= packet_table[k].pkt.time
            BY <1>0, <2>8, <4>6, <5>2, <6>1, Zenon DEF RowsInOrder
          <6> QED
            BY <4>3, <5>2, <6>1, <6>2
        <5> QED
          BY <4>4, <5>1, <5>2
      <4> QED
        BY <4>3, <4>5, <4>6
    <3> QED
      BY <2>9, <3>1, <3>2
  <2>12. RowsInOrder'
    BY <2>9, <2>11 DEF RowsInOrder
  <2>13. \A k \in 1..Len(s) : \E i \in 1..m : s[k].pkt.time <= q[i].time - start
    BY <1>2, <2>1, <2>11
  <2>14. (\A k \in 1..Len(packet_table) : NotLater(k))'
    BY <1>0, <1>2, <2>9, <2>13 DEF NotLater
  <2> QED
    BY <2>12, <2>14
<1>13. handed' \in Seq(PCapReader!Handed)
  BY <1>0, <1>2
<1>14. (captured # <<>> => CapturedBy(captured[Len(captured)].time))'
  BY <1>3, <1>6
<1> QED
  BY <1>3, <1>9, <1>11, <1>12, <1>13, <1>14 DEF TimesInv

LEMMA TimesProcess ==
  ASSUME ToolHypotheses, ToolInv, ToolInv', TimesInv,
         NEW p \in PCapReader!Captured, process_packet(p)
  PROVE  TimesInv'
<1>1. capture_start_time \in Nat /\ MapInv /\ MapInv'
  BY DEF ToolInv
<1>2. p.time \in Nat /\ InOrder(p) /\ captured' = Append(captured, p)
  BY <1>1, PacketOfCaptured DEF process_packet, PCapReader!process_packet
<1>3. \/ packet_table' = packet_table
      \/ \E r \in Map!Row : /\ packet_table' = Append(packet_table, r)
                        /\ r.pkt = PacketOf(p) /\ PCapReader!Kept(p.header)
  BY <1>1, ProcessMaps
<1>4. CASE PCapReader!Kept(p.header)
  <2>1. PICK start : start = PCapReader!start_time(p.time)
    OBVIOUS
  <2>2. PICK h : h = [segment |-> p.segment, time |-> p.time,
                      t_off |-> PCapReader!Subtract(p.time, start)]
    OBVIOUS
  <2>3. capture_start_time' = start /\ handed' = Append(handed, h)
    BY <1>4, <2>1, <2>2 DEF process_packet, PCapReader!process_packet
  <2>4. start \in Nat
    BY <1>1, <1>2, <2>1, LaterThanAll
  <2>5. PCapReader!Subtract(p.time, start) \in PCapReader!Word
    <3>1. p.time - start \in Int
      BY <1>2, <2>4
    <3> QED
      BY <1>2, <2>4, <3>1, SubtractIsPacked, PackedIsWord, SameClock
  <2>6. h \in PCapReader!Handed /\ h.time = p.time
    BY <2>2, <2>5 DEF PCapReader!Handed, PCapReader!Captured
  <2> QED
    BY <1>1, <1>2, <1>3, <2>1, <2>3, <2>6, TimesKept
<1>5. CASE ~PCapReader!Kept(p.header)
  <2>1. UNCHANGED <<handed, capture_start_time, packet_table>>
    BY <1>5 DEF process_packet, PCapReader!process_packet, map_vars
  <2> QED
    BY <1>1, <1>2, <2>1, TimesDropped
<1> QED
  BY <1>4, <1>5

-----------------------------------------------------------------------------
(* test_db_values. *)

\* What the test expects of a direction is the list of its rows.
ExpectedInv == \A d : Lists(Expected(d), Columns(packet_table), d)

LEMMA ExpectedStart == TestInit => ExpectedInv
<1> SUFFICES ASSUME TestInit, NEW d PROVE Lists(Expected(d), Columns(packet_table), d)
  BY DEF ExpectedInv
<1>1. packet_table = <<>>
  BY MapStarts DEF TestInit, Init
<1>2. Columns(packet_table) = <<>>
  BY <1>1 DEF Columns
<1>3. Expected(d) = <<>>
  BY DEF TestInit, Expected
<1> QED
  BY <1>2, <1>3, NothingListed

LEMMA ExpectedStays ==
  ASSUME ExpectedInv, UNCHANGED <<packet_table, test_packets>>
  PROVE  ExpectedInv'
<1>1. Columns(packet_table)' = Columns(packet_table)
  BY DEF Columns
<1>2. \A d : Expected(d)' = Expected(d)
  BY DEF Expected
<1> QED
  BY <1>1, <1>2 DEF ExpectedInv

LEMMA ExpectedPushed ==
  ASSUME ExpectedInv, MapInv, NEW r \in Map!Row, packet_table' = Append(packet_table, r),
         test_packets' = Pushed(RowOf(r))
  PROVE  ExpectedInv'
<1> SUFFICES ASSUME NEW d
             PROVE  Lists(Expected(d)', Columns(packet_table'), d)
  BY DEF ExpectedInv
<1>1. PICK row, s : row = RowOf(r) /\ s = Columns(packet_table)
  OBVIOUS
<1>2. packet_table \in Seq(Map!Row)
  BY DEF MapInv, Map!IInv, Map!MapTypeOK
<1>3. row \in DbRow /\ s \in Seq(DbRow) /\ Columns(packet_table') = Append(s, row)
  BY <1>1, <1>2, RowColumns, ColumnsType, ColumnsAppend
<1>4. PICK x : x = Expected(d)
  OBVIOUS
<1>5. Lists(x, s, d)
  BY <1>1, <1>4 DEF ExpectedInv
<1>6. Expected(d)' = IF row.dir_id = d THEN Append(x, row) ELSE x
  BY <1>1, <1>4, Zenon DEF Expected, Pushed
<1>7. Lists(IF row.dir_id = d THEN Append(x, row) ELSE x, Append(s, row), d)
  BY <1>3, <1>5, AppendListed
<1> QED
  BY <1>3, <1>6, <1>7

\* A direction that has just been read was answered with what is expected of it.
AnswerInv ==
  /\ asked # none => phase \in {"done", "failed"}
  /\ asked # none /\ phase = "done" /\ WithinHalf => answer = Expected(asked)
  /\ incorrect => phase = "failed" /\ ~WithinHalf

LEMMA AnswerStays ==
  ASSUME AnswerInv, UNCHANGED <<handed, capture_start_time, test_packets, asked, incorrect, answer>>,
         phase \in {"done", "failed"} => phase' \in {phase, "failed"}
  PROVE  AnswerInv'
<1>1. WithinHalf' <=> WithinHalf
  BY DEF WithinHalf
<1>2. Expected(asked)' = Expected(asked)
  BY DEF Expected
<1>3. none' = none
  BY DEF none
<1> QED
  BY <1>1, <1>2, <1>3 DEF AnswerInv

\* What a reader gets, if the index can be made.
\* A reader gets the rows of its direction from a table that has all of them.
LEMMA GetReads ==
  ASSUME ToolInv, NEW d, get_packets(d), ~db!IndexError
  PROVE  /\ table'["packet"] = Columns(packet_table)
         /\ answer' \in db!Selected("packet", Columns(packet_table), d, count)
<1>1. PICK s : s = Columns(packet_table)
  OBVIOUS
<1>2. table'["packet"] = s
  <2>1. TableHolds
    BY DEF ToolInv, get_packets, db!get
  <2>2. PICK c : c = db!Buffer("packet")
    OBVIOUS
  <2>3. c.table \o c.cache = s
    BY <1>1, <2>1, <2>2 DEF TableHolds, Holds
  <2>4. db!write_cache(c).table = s
    BY <2>3 DEF db!write_cache
  <2>5. db!SetBuffer("packet", db!write_cache(c))
    BY <2>2 DEF get_packets, db!get
  <2>6. table' = [table EXCEPT !["packet"] = s] /\ DOMAIN table = {"packet"}
    BY <2>4, <2>5 DEF db!SetBuffer, ToolInv
  <2> QED
    BY <2>6
<1>3. answer' \in db!Selected("packet", s, d, count)
  BY <1>2 DEF get_packets, db!get
<1> QED
  BY <1>1, <1>2, <1>3

LEMMA ReaderGets ==
  ASSUME ToolHypotheses, ToolInv, ToolInv', ExpectedInv, TimesInv, NEW d, get_packets(d),
         phase' = "done", WithinHalf
  PROVE  answer' = Expected(d)
<1>1. ~db!IndexError
  BY DEF get_packets, db!get
<1>2. PICK s : s = Columns(packet_table)
  OBVIOUS
<1>3. packet_table \in Seq(Map!Row) /\ UNCHANGED packet_table
  BY DEF ToolInv, MapInv, Map!IInv, Map!MapTypeOK, get_packets, map_vars
<1>4. answer' \in db!Selected("packet", s, d, count)
  BY <1>1, <1>2, GetReads
<1>5. /\ s \in Seq(DbRow) /\ Len(s) = Len(packet_table)
      /\ \A i \in 1..Len(s) : s[i].time = packet_table[i].pkt.time
  <2>1. /\ s \in Seq(DbRow) /\ Len(s) = Len(packet_table)
        /\ \A i \in 1..Len(packet_table) : s[i] = RowOf(packet_table[i])
    BY <1>2, <1>3, ColumnsType
  <2>2. \A r : RowOf(r).time = r.pkt.time
    BY DEF RowOf
  <2> QED
    BY <2>1, <2>2
<1>6. RowsInOrder /\ \A k \in 1..Len(packet_table) : NotLater(k)
  BY DEF TimesInv
<1>7. TimesAscend(s)
  BY <1>5, <1>6, Zenon DEF TimesAscend, RowsInOrder
<1>8. TimesPositive(s)
  <2> SUFFICES ASSUME NEW k \in 1..Len(packet_table)
               PROVE  packet_table[k].pkt.time < HALF
    BY <1>5 DEF TimesPositive
  <2>1. PICK i \in 1..Len(handed) :
          packet_table[k].pkt.time <= handed[i].time - capture_start_time
    BY <1>6 DEF NotLater
  <2>2. handed \in Seq(PCapReader!Handed)
    BY DEF TimesInv
  <2>3. handed[i].time - capture_start_time < HALF
    BY <2>2 DEF WithinHalf
  <2>4. handed[i].time \in Nat /\ capture_start_time \in Nat
    BY <2>2, HandedTime DEF ToolHypotheses, ToolInv
  <2>5. packet_table[k] \in Map!Row
    BY <1>3
  <2>6. packet_table[k].pkt.time \in Nat
    BY <2>5 DEF Map!Row, Map!Packet
  <2> QED
    BY <2>1, <2>3, <2>4, <2>6, HalfOfClock DEF ToolHypotheses
<1>9. Lists(Expected(d), s, d)
  BY <1>2 DEF ExpectedInv
<1> QED
  BY <1>4, <1>5, <1>7, <1>8, <1>9, AnswerIsList

TestInv == ToolInv /\ ExpectedInv /\ TimesInv /\ AnswerInv

\* Steps that let the rows, the packets and what was asked and answered be.
LEMMA OtherStep ==
  ASSUME TestInv, ToolInv',
         UNCHANGED <<captured, handed, capture_start_time, packet_table, test_packets,
                     asked, incorrect, answer>>,
         phase \in {"done", "failed"} => phase' \in {phase, "failed"}
  PROVE  TestInv'
<1>1. TimesInv'
  BY TimesStay DEF TestInv
<1>2. ExpectedInv'
  BY ExpectedStays DEF TestInv
<1>3. AnswerInv'
  BY AnswerStays DEF TestInv
<1> QED
  BY <1>1, <1>2, <1>3 DEF TestInv

LEMMA RunStep ==
  ASSUME ToolHypotheses, TestInv, ToolInv', run
  PROVE  TestInv'
<1>1. ToolInv /\ TimesInv /\ ExpectedInv /\ AnswerInv
  BY DEF TestInv
<1>2. UNCHANGED <<asked, incorrect>>
      /\ test_packets' = IF packet_table' # packet_table
                          THEN Pushed(RowOf(packet_table'[Len(packet_table')]))
                          ELSE test_packets
  BY DEF run
<1>3. CASE db_open \/ open_fails \/ write_fails
  <2>1. /\ UNCHANGED <<captured, handed, capture_start_time, packet_table, answer>>
        /\ phase' \in {phase, "failed"}
    BY <1>3 DEF db_open, db!open, open_fails, write_fails, db!fail,
       map_vars, reader_vars
  <2> QED
    BY <1>2, <2>1, OtherStep
<1>4. ASSUME NEW p \in PCapReader!Captured, process_packet(p)
      PROVE  TestInv'
  <2>1. TimesInv'
    BY <1>1, <1>4, TimesProcess
  <2>2. ExpectedInv'
    <3>1. \/ packet_table' = packet_table
          \/ \E r \in Map!Row : packet_table' = Append(packet_table, r)
      BY <1>1, <1>4, ProcessMaps DEF ToolInv
    <3>2. CASE packet_table' = packet_table
      BY <1>1, <1>2, <3>2, ExpectedStays
    <3>3. CASE \E r \in Map!Row : packet_table' = Append(packet_table, r)
      <4>1. PICK r \in Map!Row : packet_table' = Append(packet_table, r)
        BY <3>3
      <4>2. packet_table \in Seq(Map!Row)
        BY <1>1 DEF ToolInv, MapInv, Map!IInv, Map!MapTypeOK
      <4>3. packet_table' # packet_table /\ packet_table'[Len(packet_table')] = r
        BY <4>1, <4>2
      <4>4. test_packets' = Pushed(RowOf(r))
        BY <1>2, <4>3
      <4> QED
        BY <1>1, <4>1, <4>4, ExpectedPushed DEF ToolInv
    <3> QED
      BY <3>1, <3>2, <3>3
  <2>3. AnswerInv'
    <3>1. phase = "dispatch"
      BY <1>4 DEF process_packet, PCapReader!process_packet
    <3>2. asked = none /\ ~incorrect
      BY <1>1, <3>1 DEF AnswerInv
    <3> QED
      BY <1>2, <3>2 DEF AnswerInv, none
  <2> QED
    BY <2>1, <2>2, <2>3 DEF TestInv
<1> QED
  BY <1>3, <1>4 DEF run

LEMMA AskStep ==
  ASSUME ToolHypotheses, TestInv, ToolInv', NEW d, get_packets(d)
  PROVE  TestInv'
<1>1. ToolInv /\ TimesInv /\ ExpectedInv /\ AnswerInv
  BY DEF TestInv
<1>2. /\ UNCHANGED <<captured, handed, capture_start_time, packet_table, test_packets, incorrect>>
      /\ phase = "done" /\ asked' = d /\ phase' \in {"done", "failed"}
  BY DEF get_packets, map_vars
<1>3. TimesInv' /\ (WithinHalf' <=> WithinHalf) /\ ExpectedInv'
  BY <1>1, <1>2, TimesStay, ExpectedStays
<1>4. ~incorrect
  BY <1>1, <1>2 DEF AnswerInv
<1>5. Expected(asked)' = Expected(d)
  BY <1>2 DEF Expected
<1>6. phase' = "done" /\ WithinHalf => answer' = Expected(d)
  BY <1>1, ReaderGets
<1>7. AnswerInv'
  BY <1>2, <1>3, <1>4, <1>5, <1>6 DEF AnswerInv
<1> QED
  BY <1>3, <1>7 DEF TestInv

LEMMA ValueStep ==
  ASSUME TestInv, ToolInv', values_correct \/ values_not_correct
  PROVE  TestInv'
<1>1. ToolInv /\ TimesInv /\ ExpectedInv /\ AnswerInv
  BY DEF TestInv
<1>2. UNCHANGED <<captured, handed, capture_start_time, packet_table, test_packets>>
  BY DEF values_correct, values_not_correct, vars, reader_vars, map_vars
<1>3. TimesInv' /\ (WithinHalf' <=> WithinHalf) /\ ExpectedInv'
  BY <1>1, <1>2, TimesStay, ExpectedStays
<1>4. CASE values_correct
  <2>1. asked' = none /\ UNCHANGED <<phase, incorrect>>
    BY <1>4 DEF values_correct, vars, reader_vars
  <2> QED
    BY <1>1, <1>3, <2>1 DEF TestInv, AnswerInv, none
<1>5. CASE values_not_correct
  <2>1. /\ phase = "done" /\ asked # none /\ answer # Expected(asked)
        /\ phase' = "failed"
    BY <1>5 DEF values_not_correct
  <2>2. ~WithinHalf
    BY <1>1, <2>1 DEF AnswerInv
  <2> QED
    BY <1>1, <1>3, <2>1, <2>2 DEF TestInv, AnswerInv
<1> QED
  BY <1>4, <1>5

LEMMA TestInvStep ==
  ASSUME ToolHypotheses, TestInv, TestNext
  PROVE  TestInv'
<1>1. ToolInv'
  BY TestStep DEF TestInv
<1>2. CASE run
  BY <1>1, <1>2, RunStep
<1>3. CASE test_traces
  <2>1. /\ UNCHANGED <<captured, handed, capture_start_time, packet_table, test_packets,
                       asked, incorrect, answer>>
        /\ phase \notin {"done", "failed"}
    BY <1>3 DEF test_traces, traces, PCapReader!skip_trace,
       PCapReader!read_trace, PCapReader!dispatched, PCapReader!dispatch_fails,
       PCapReader!finish, map_vars
  <2> QED
    BY <1>1, <2>1, OtherStep
<1>4. CASE compare_with_tcpdump \/ command_fails
  <2>1. /\ UNCHANGED <<captured, handed, capture_start_time, packet_table, test_packets,
                       asked, incorrect, answer>>
        /\ phase' \in {phase, "failed"}
    BY <1>4 DEF compare_with_tcpdump, command_fails, vars, reader_vars,
       map_vars, db_vars
  <2> QED
    BY <1>1, <2>1, OtherStep
<1>5. CASE get_packets_fails \/ test_close
  <2>1. /\ UNCHANGED <<captured, handed, capture_start_time, packet_table, test_packets,
                       asked, incorrect, answer>>
        /\ phase' \in {phase, "failed"}
    BY <1>5 DEF get_packets_fails, test_close, db_close, db!close,
       db!fail, debug_vars, reader_vars, map_vars
  <2> QED
    BY <1>1, <2>1, OtherStep
<1>6. ASSUME NEW d, get_packets(d)
      PROVE  TestInv'
  BY <1>1, <1>6, AskStep
<1>7. CASE values_correct \/ values_not_correct
  BY <1>1, <1>7, ValueStep
<1> QED
  BY <1>2, <1>3, <1>4, <1>5, <1>6, <1>7 DEF TestNext

LEMMA TestInvStutters ==
  ASSUME TestInv, UNCHANGED test_vars
  PROVE  TestInv'
<1>1. /\ UNCHANGED vars
      /\ UNCHANGED <<captured, handed, capture_start_time, packet_table, test_packets,
                     asked, incorrect, answer, phase>>
  BY DEF test_vars, vars, debug_vars, reader_vars, map_vars, db_vars
<1> QED
  BY <1>1, ProgramStutters, OtherStep DEF TestInv

LEMMA TestInvStarts ==
  ASSUME ToolHypotheses, TestInit
  PROVE  TestInv
<1>1. AnswerInv
  BY DEF AnswerInv, TestInit
<1>2. ToolInv
  BY ToolStarts DEF TestInit, ToolHypotheses
<1> QED
  BY <1>1, <1>2, TimesStart, ExpectedStart DEF TestInv

\* "Database values are read and written correctly": whatever is captured, in however
\* many traces, and however small the cache of the table, a direction is answered with
\* the packets that were stored for it and in their order, if the trace is no longer
\* than half of the packed clock and the capture times ascend.
THEOREM DatabaseTestAlwaysPasses == TestSpec => []DatabaseTestPasses
<1>1. ToolHypotheses
  BY ToolHypothesesHold
<1>2. TestInit => TestInv
  BY <1>1, TestInvStarts
<1>3. TestInv /\ [TestNext]_test_vars => TestInv'
  BY <1>1, TestInvStep, TestInvStutters
<1>4. TestInv => DatabaseTestPasses
  BY DEF TestInv, AnswerInv, DatabaseTestPasses
<1> QED
  BY <1>2, <1>3, <1>4, PTL DEF TestSpec

-----------------------------------------------------------------------------
(* compare_with_tcpdump. *)

ReaderHypotheses ==
  /\ PCapReader!CountAssumption /\ PCapReader!TracesAssumption
  /\ count < INT_HALF

\* What is left of the count, and of the trace that has just been read.
LeftInv ==
  /\ captured \in Seq(PCapReader!Captured)
  /\ unread \in [1..NumTraces -> Nat] /\ iter \in Nat \ {0}
  /\ num_pkts_to_read \in 0..count /\ n \in 0..Len(captured)
  /\ iter = 1 => num_pkts_to_read = count
  /\ phase = "dispatch" => /\ iter \in 1..NumTraces
                           /\ cnt = num_pkts_to_read /\ cnt > 0 /\ n <= cnt

\* Until a trace is compared, the reader stands behind it.
ComparedInv ==
  to_compare =>
    /\ phase = "main" /\ iter - 1 \in 1..NumTraces
    /\ num_pkts_to_read + n <= count
    /\ unread[iter - 1] > 0 => num_pkts_to_read = 0
    /\ iter = 2 => num_pkts_to_read + n = count

AllKept == \A i \in DOMAIN captured : PCapReader!Kept(captured[i].header)
DifferInv ==
  AllKept => \A i \in differ :
    i \in 1..NumTraces /\ i > 1 /\ i < iter /\ num_pkts_to_read = 0 /\ unread[i] > 0

BudgetInv == LeftInv /\ ComparedInv /\ DifferInv

LEMMA BudgetStarts ==
  ASSUME ReaderHypotheses, TestInit
  PROVE  BudgetInv
<1>1. /\ unread \in [1..NumTraces -> 0..MaxLength] /\ iter = 1 /\ phase = "main"
      /\ num_pkts_to_read = count /\ n = 0 /\ captured = <<>>
  BY DEF TestInit, Init, PCapReader!Init, PCapReader!Traces
<1>2. ~to_compare /\ differ = {}
  BY DEF TestInit
<1>3. count \in Nat /\ MaxLength \in Nat
  BY DEF ReaderHypotheses, PCapReader!CountAssumption, PCapReader!TracesAssumption
<1>4. unread \in [1..NumTraces -> Nat]
  BY <1>1, <1>3
<1> QED
  BY <1>1, <1>2, <1>3, <1>4 DEF BudgetInv, LeftInv, ComparedInv, DifferInv

\* A step that reads nothing and compares nothing.
LEMMA BudgetStays ==
  ASSUME BudgetInv, UNCHANGED <<unread, iter, num_pkts_to_read, n, cnt, captured, differ>>,
         phase' \in {phase, "failed"}, to_compare' => to_compare /\ phase' = phase
  PROVE  BudgetInv'
<1>1. LeftInv'
  BY DEF BudgetInv, LeftInv
<1>2. ComparedInv'
  BY DEF BudgetInv, ComparedInv
<1>3. DifferInv'
  BY DEF BudgetInv, DifferInv, AllKept
<1> QED
  BY <1>1, <1>2, <1>3 DEF BudgetInv

\* pcap_dispatch is told what is left of the count.
LEMMA CountFits ==
  ASSUME ReaderHypotheses, NEW x \in 0..count
  PROVE  PCapReader!to_int(x) = x
<1>1. INT_HALF \in Nat /\ x \in Nat /\ x < INT_HALF
  BY DEF ReaderHypotheses, PCapReader!CountAssumption
<1>2. x + INT_HALF \in 0..(2 * INT_HALF - 1) /\ 2 * INT_HALF \in Nat \ {0}
  BY <1>1
<1>3. (x + INT_HALF) % (2 * INT_HALF) = x + INT_HALF
  <2>1. PICK u, y : u = 2 * INT_HALF /\ y = x + INT_HALF
    OBVIOUS
  <2>2. u \in Nat \ {0} /\ y \in 0..(u - 1)
    BY <1>2, <2>1
  <2>3. y % u = y
    BY <2>2
  <2> QED
    BY <2>1, <2>3
<1> QED
  BY <1>1, <1>3 DEF PCapReader!to_int

LEMMA CountLeft ==
  ASSUME ReaderHypotheses, NEW x \in 0..count
  PROVE  x % COUNT_RANGE = x
<1>1. COUNT_RANGE \in Nat \ {0} /\ x \in 0..(COUNT_RANGE - 1)
  BY DEF ReaderHypotheses, PCapReader!CountAssumption
<1> QED
  BY <1>1

LEMMA BudgetProcess ==
  ASSUME ReaderHypotheses, BudgetInv, NEW p \in PCapReader!Captured,
         PCapReader!process_packet(p), UNCHANGED <<to_compare, differ>>, ~to_compare
  PROVE  BudgetInv'
<1>1. /\ phase = "dispatch" /\ unread[iter] > 0 /\ (cnt > 0 => n < cnt)
      /\ unread' = [unread EXCEPT ![iter] = @ - 1] /\ n' = n + 1
      /\ captured' = Append(captured, p)
      /\ UNCHANGED <<iter, num_pkts_to_read, cnt>>
      /\ phase' \in {phase, "failed"}
  BY DEF PCapReader!process_packet
<1>2. LeftInv
  BY DEF BudgetInv
<1>3. /\ iter \in 1..NumTraces /\ cnt = num_pkts_to_read /\ cnt > 0 /\ n <= cnt
      /\ unread \in [1..NumTraces -> Nat] /\ num_pkts_to_read \in Int /\ n \in Nat
  <2>1. count \in Nat
    BY DEF ReaderHypotheses, PCapReader!CountAssumption
  <2> QED
    BY <1>1, <1>2, <2>1 DEF LeftInv
<1>4. PICK c : c = captured'
  OBVIOUS
<1>5. /\ c \in Seq(PCapReader!Captured) /\ Len(c) = Len(captured) + 1
      /\ Len(captured) \in Nat
      /\ \A i \in DOMAIN captured : i \in DOMAIN c /\ c[i] = captured[i]
  BY <1>1, <1>2, <1>4 DEF LeftInv
<1>6. unread' \in [1..NumTraces -> Nat]
  BY <1>1, <1>3
<1>7. LeftInv'
  <2>1. n' \in 0..Len(c) /\ n' <= cnt
    BY <1>1, <1>2, <1>3, <1>5 DEF LeftInv
  <2> QED
    BY <1>1, <1>2, <1>3, <1>4, <1>5, <1>6, <2>1 DEF LeftInv
<1>8. ComparedInv'
  BY DEF ComparedInv
<1>9. DifferInv'
  <2> SUFFICES ASSUME AllKept', NEW i \in differ
               PROVE  (i \in 1..NumTraces /\ i > 1 /\ i < iter /\ num_pkts_to_read = 0 /\ unread[i] > 0)'
    BY DEF DifferInv
  <2>1. AllKept
    BY <1>4, <1>5 DEF AllKept
  <2>2. i \in 1..NumTraces /\ i > 1 /\ i < iter /\ num_pkts_to_read = 0 /\ unread[i] > 0
    BY <2>1 DEF BudgetInv, DifferInv
  <2>3. unread'[i] = unread[i]
    BY <1>1, <1>3, <2>2
  <2> QED
    BY <1>1, <2>2, <2>3
<1> QED
  BY <1>7, <1>8, <1>9 DEF BudgetInv

LEMMA BudgetTraces ==
  ASSUME ReaderHypotheses, BudgetInv, test_traces
  PROVE  BudgetInv'
<1>1. /\ ~to_compare /\ UNCHANGED differ
      /\ to_compare' = (phase = "dispatch" /\ phase' = "main")
  BY DEF test_traces
<1>2. LeftInv /\ DifferInv /\ count \in Nat
  BY DEF BudgetInv, ReaderHypotheses, PCapReader!CountAssumption
<1>3. CASE PCapReader!dispatch_fails \/ PCapReader!finish
  <2>1. /\ UNCHANGED <<unread, iter, num_pkts_to_read, n, cnt, captured>>
        /\ phase' \in {"failed", "done"} /\ phase \in {"main", "dispatch"}
    BY <1>3 DEF PCapReader!dispatch_fails, PCapReader!finish
  <2>2. LeftInv' /\ ComparedInv' /\ DifferInv'
    BY <1>1, <1>2, <2>1 DEF LeftInv, ComparedInv, DifferInv, AllKept
  <2> QED
    BY <2>2 DEF BudgetInv
<1>4. CASE PCapReader!skip_trace
  <2>1. /\ phase = "main" /\ num_pkts_to_read = 0 /\ iter' = iter + 1
        /\ UNCHANGED <<unread, phase, num_pkts_to_read, n, cnt, captured>>
    BY <1>4 DEF PCapReader!skip_trace
  <2>2. LeftInv' /\ ComparedInv'
    <3>1. iter \in Nat \ {0}
      BY <1>2 DEF LeftInv
    <3>2. iter' \in Nat \ {0} /\ iter' # 1
      BY <2>1, <3>1
    <3>3. LeftInv'
      BY <1>2, <2>1, <3>2 DEF LeftInv
    <3> QED
      BY <1>1, <2>1, <3>3 DEF ComparedInv
  <2>3. iter \in Nat
    BY <1>2 DEF LeftInv
  <2>4. DifferInv'
    BY <1>1, <1>2, <2>1, <2>3 DEF DifferInv, AllKept
  <2> QED
    BY <2>2, <2>4 DEF BudgetInv
<1>5. CASE PCapReader!read_trace
  <2>1. /\ phase = "main" /\ iter <= NumTraces /\ num_pkts_to_read > 0
        /\ UNCHANGED <<unread, iter, num_pkts_to_read, captured>>
        /\ \/ phase' = "dispatch" /\ cnt' = PCapReader!to_int(num_pkts_to_read) /\ n' = 0
           \/ phase' = "failed" /\ UNCHANGED <<cnt, n>>
    BY <1>5 DEF PCapReader!read_trace
  <2>2. PCapReader!to_int(num_pkts_to_read) = num_pkts_to_read
    BY <1>2, CountFits DEF LeftInv
  <2>3. iter \in Nat \ {0} /\ NumTraces \in Nat /\ num_pkts_to_read \in Nat /\ Len(captured) \in Nat
    BY <1>2 DEF LeftInv, ReaderHypotheses, PCapReader!TracesAssumption
  <2>4. LeftInv'
    BY <1>2, <2>1, <2>2, <2>3 DEF LeftInv
  <2>5. ComparedInv' /\ DifferInv'
    BY <1>1, <1>2, <2>1 DEF ComparedInv, DifferInv, AllKept
  <2> QED
    BY <2>4, <2>5 DEF BudgetInv
<1>6. CASE PCapReader!dispatched
  <2>1. /\ phase = "dispatch" /\ phase' = "main" /\ iter' = iter + 1
        /\ unread[iter] = 0 \/ (cnt > 0 /\ n = cnt)
        /\ num_pkts_to_read' = (num_pkts_to_read - n) % COUNT_RANGE
        /\ UNCHANGED <<unread, cnt, n, captured>>
    BY <1>6 DEF PCapReader!dispatched
  <2>2. /\ iter \in 1..NumTraces /\ cnt = num_pkts_to_read /\ cnt > 0 /\ n <= cnt
        /\ n \in Nat /\ num_pkts_to_read \in 0..count /\ unread[iter] \in Nat
        /\ NumTraces \in Nat
    BY <1>2, <2>1 DEF LeftInv, ReaderHypotheses, PCapReader!TracesAssumption
  <2>3. num_pkts_to_read' = num_pkts_to_read - n /\ num_pkts_to_read' \in 0..count
    <3>1. num_pkts_to_read - n \in 0..count
      BY <1>2, <2>2
    <3> QED
      BY <2>1, <3>1, CountLeft
  <2>4. LeftInv'
    <3>1. iter' \in Nat \ {0} /\ iter' # 1
      BY <2>1, <2>2
    <3> QED
      BY <1>2, <2>1, <2>3, <3>1 DEF LeftInv
  <2>5. ComparedInv'
    <3>1. iter' - 1 = iter
      BY <2>1, <2>2
    <3>2. num_pkts_to_read' + n <= count
      BY <1>2, <2>2, <2>3
    <3>3. unread[iter] > 0 => num_pkts_to_read' = 0
      BY <2>1, <2>2, <2>3
    <3>4. iter' = 2 => num_pkts_to_read' + n = count
      <4>1. iter' = 2 => iter = 1
        BY <2>1, <2>2
      <4>2. iter = 1 => num_pkts_to_read = count
        BY <1>2 DEF LeftInv
      <4> QED
        BY <1>2, <2>2, <2>3, <4>1, <4>2
    <3> QED
      BY <2>1, <2>2, <3>1, <3>2, <3>3, <3>4 DEF ComparedInv
  <2>6. DifferInv'
    <3>1. AllKept' => AllKept
      BY <2>1 DEF AllKept
    <3>2. AllKept => differ = {}
      BY <1>2, <2>2 DEF DifferInv
    <3> QED
      BY <1>1, <3>1, <3>2 DEF DifferInv
  <2> QED
    BY <2>4, <2>5, <2>6 DEF BudgetInv
<1> QED
  BY <1>3, <1>4, <1>5, <1>6 DEF test_traces, traces

\* Every packet of the trace was printed if it was kept.
LEMMA AllPrinted ==
  ASSUME LeftInv, AllKept
  PROVE  Printed = n
<1>1. PICK k : k = Len(captured)
  OBVIOUS
<1>2. k \in Nat /\ n \in 0..k /\ DOMAIN captured = 1..k
  BY <1>1 DEF LeftInv
<1>3. {i \in ReadLast : PCapReader!Kept(captured[i].header)} = (k - n + 1)..k
  <2>1. {i \in ReadLast : PCapReader!Kept(captured[i].header)} = ReadLast
    BY DEF AllKept, ReadLast
  <2>2. ReadLast = {i \in 1..k : i > k - n}
    BY <1>1, <1>2, Zenon DEF ReadLast
  <2>3. {i \in 1..k : i > k - n} = (k - n + 1)..k
    BY <1>2
  <2> QED
    BY <2>1, <2>2, <2>3
<1>4. Cardinality((k - n + 1)..k) = n
  <2>1. PICK first : first = k - n + 1
    OBVIOUS
  <2>2. first \in Int /\ k \in Int /\ (IF first > k THEN 0 ELSE k - first + 1) = n
    BY <1>2, <2>1
  <2>3. Cardinality(first..k) = IF first > k THEN 0 ELSE k - first + 1
    BY <2>2, FS_Interval, Zenon
  <2>4. PICK v : v = IF first > k THEN 0 ELSE k - first + 1
    OBVIOUS
  <2>5. Cardinality(first..k) = v /\ v = n
    BY <2>2, <2>3, <2>4, SMT
  <2> QED
    BY <2>1, <2>5
<1> QED
  BY <1>3, <1>4 DEF Printed

LEMMA BudgetCompared ==
  ASSUME ReaderHypotheses, BudgetInv, compare_with_tcpdump
  PROVE  BudgetInv'
<1>1. /\ to_compare /\ ~to_compare'
      /\ differ' = IF Printed # TcpdumpLines THEN differ \cup {iter - 1} ELSE differ
      /\ UNCHANGED <<unread, iter, phase, num_pkts_to_read, n, cnt, captured>>
  BY DEF compare_with_tcpdump, vars, reader_vars
<1>2. LeftInv /\ ComparedInv /\ DifferInv /\ count \in Nat
  BY DEF BudgetInv, ReaderHypotheses, PCapReader!CountAssumption
<1>3. LeftInv' /\ ComparedInv'
  BY <1>1, <1>2 DEF LeftInv, ComparedInv
<1>4. ASSUME AllKept, Printed # TcpdumpLines
      PROVE  iter - 1 > 1 /\ num_pkts_to_read = 0 /\ unread[iter - 1] > 0
  <2>1. PICK u : u = unread[iter - 1]
    OBVIOUS
  <2>2. /\ iter \in Nat /\ iter - 1 \in 1..NumTraces /\ u \in Nat
        /\ num_pkts_to_read \in Nat /\ n \in Nat
        /\ num_pkts_to_read + n <= count /\ (u > 0 => num_pkts_to_read = 0)
        /\ iter = 2 => num_pkts_to_read + n = count
    BY <1>1, <1>2, <2>1 DEF LeftInv, ComparedInv
  <2>3. Printed = n
    BY <1>2, <1>4, AllPrinted
  <2>4. TcpdumpLines = IF count < n + u THEN count ELSE n + u
    BY <2>1 DEF TcpdumpLines
  <2>5. u > 0
    BY <1>2, <1>4, <2>2, <2>3, <2>4
  <2>6. iter # 2
    BY <1>2, <1>4, <2>2, <2>3, <2>4, <2>5
  <2> QED
    BY <2>1, <2>2, <2>5, <2>6
<1>5. DifferInv'
  <2> SUFFICES ASSUME AllKept', NEW i \in differ'
               PROVE  i \in 1..NumTraces /\ i > 1 /\ i < iter /\ num_pkts_to_read = 0 /\ unread[i] > 0
    BY <1>1 DEF DifferInv
  <2>1. AllKept
    BY <1>1 DEF AllKept
  <2>2. CASE i \in differ
    BY <1>2, <2>1, <2>2 DEF DifferInv
  <2>3. CASE i \notin differ
    <3>1. i = iter - 1 /\ Printed # TcpdumpLines
      BY <1>1, <2>3
    <3>2. iter - 1 \in 1..NumTraces /\ iter \in Nat
      BY <1>1, <1>2 DEF ComparedInv, LeftInv
    <3> QED
      BY <1>4, <2>1, <3>1, <3>2
  <2> QED
    BY <2>2, <2>3
<1> QED
  BY <1>3, <1>5 DEF BudgetInv

LEMMA BudgetNext ==
  ASSUME ReaderHypotheses, BudgetInv, TestNext
  PROVE  BudgetInv'
<1>1. CASE run
  <2>1. ~to_compare /\ UNCHANGED <<to_compare, differ>>
    BY <1>1 DEF run
  <2>2. ASSUME NEW p \in PCapReader!Captured, process_packet(p)
        PROVE  BudgetInv'
    BY <2>1, <2>2, BudgetProcess DEF process_packet
  <2>3. CASE db_open \/ open_fails \/ write_fails
    <3>1. /\ UNCHANGED <<unread, iter, num_pkts_to_read, n, cnt, captured>>
          /\ phase' \in {phase, "failed"}
      BY <2>3 DEF db_open, open_fails, write_fails, reader_vars
    <3> QED
      BY <2>1, <3>1, BudgetStays
  <2> QED
    BY <1>1, <2>2, <2>3 DEF run
<1>2. CASE test_traces
  BY <1>2, BudgetTraces
<1>3. CASE compare_with_tcpdump
  BY <1>3, BudgetCompared
<1>4. CASE command_fails
  <2>1. /\ UNCHANGED <<unread, iter, num_pkts_to_read, n, cnt, captured, differ>>
        /\ phase' = "failed" /\ ~to_compare'
    BY <1>4 DEF command_fails
  <2> QED
    BY <2>1, BudgetStays
<1>5. CASE \/ \E d \in Dir_ids : get_packets(d)
           \/ get_packets_fails \/ values_correct \/ values_not_correct
           \/ test_close
  <2>1. /\ UNCHANGED <<unread, iter, num_pkts_to_read, n, cnt, captured, differ, to_compare>>
        /\ phase = "done" /\ phase' \in {phase, "failed"}
    BY <1>5 DEF get_packets, get_packets_fails, values_correct,
       values_not_correct, test_close, db_close, reader_vars, vars,
       debug_vars
  <2>2. ~to_compare
    BY <2>1 DEF BudgetInv, ComparedInv
  <2> QED
    BY <2>1, <2>2, BudgetStays
<1> QED
  BY <1>1, <1>2, <1>3, <1>4, <1>5 DEF TestNext

\* A difference from tcpdump means something: if every packet read was also printed,
\* and the count fits an int, it is only found in a trace that the count has cut short
\* after earlier traces had used some of it.
THEOREM DifferencesAlwaysExplained == TestSpec => []DifferencesExplained
<1>1. CASE ~(count < INT_HALF)
  <2>1. DifferencesExplained
    BY <1>1 DEF DifferencesExplained
  <2> QED
    BY <2>1, PTL
<1>2. CASE count < INT_HALF
  <2>1. ReaderHypotheses
    BY <1>2, PartsAssumption DEF ReaderHypotheses
  <2>2. TestInit => BudgetInv
    BY <2>1, BudgetStarts
  <2>3. BudgetInv /\ [TestNext]_test_vars => BudgetInv'
    <3>1. ASSUME BudgetInv, UNCHANGED test_vars
          PROVE  BudgetInv'
      <4>1. UNCHANGED <<unread, iter, phase, num_pkts_to_read, n, cnt, captured, differ, to_compare>>
        BY <3>1 DEF test_vars, vars, reader_vars, debug_vars
      <4> QED
        BY <3>1, <4>1, BudgetStays
    <3> QED
      BY <2>1, <3>1, BudgetNext
  <2>4. BudgetInv => DifferencesExplained
    BY DEF BudgetInv, DifferInv, AllKept, DifferencesExplained
  <2> QED
    BY <2>2, <2>3, <2>4, PTL DEF TestSpec
<1> QED
  BY <1>1, <1>2

-----------------------------------------------------------------------------
(* The promise of the database, kept by the whole program.                  *)

LEMMA PromiseLog == db!log = [t \in {"packet"} |->
                      IF db_phase = "open" THEN rows[t] ELSE table[t]]
  BY Zenon DEF db!log

LEMMA PromiseStart ==
  ASSUME db_phase # "open", db_phase' = "open", db!log' = [t \in {"packet"} |-> <<>>],
         UNCHANGED answer
  PROVE  db!Promise!Next
<1>1. db!Promise!Start
  BY Zenon DEF db!Promise!Start
<1> QED
  BY <1>1, Zenon DEF db!Promise!Next

LEMMA PromiseAdd ==
  ASSUME db_phase = "open", UNCHANGED <<db_phase, answer>>, NEW row \in db!Row,
         db!log' = [db!log EXCEPT !["packet"] = Append(@, row)]
  PROVE  db!Promise!Next
<1>1. db!Promise!Add("packet", row)
  BY Zenon DEF db!Promise!Add
<1> QED
  BY <1>1, Zenon DEF db!Promise!Next

LEMMA PromiseAsk ==
  ASSUME db_phase = "open", UNCHANGED <<db_phase, db!log>>, NEW d \in Dir_ids,
         count \in Nat, answer' \in db!Owed("packet", db!log["packet"], d, count)
  PROVE  db!Promise!Next
<1>1. db!Promise!Ask("packet", d, count)
  BY Zenon DEF db!Promise!Ask
<1>2. count \in 0..count
  OBVIOUS
<1> QED
  BY <1>1, <1>2, Zenon DEF db!Promise!Next

LEMMA PromiseStop ==
  ASSUME db_phase = "open", db_phase' # "open", UNCHANGED answer,
         db!Promise!Survives(db!log["packet"]', db!log["packet"], CAPACITY)
  PROVE  db!Promise!Next
<1>1. db!Promise!Stop
  BY DEF db!Promise!Stop
<1> QED
  BY <1>1, Zenon DEF db!Promise!Next

FollowHypotheses == ToolHypotheses /\ ReaderHypotheses /\ Leftover = {<<>>}

\* A program that has failed has nothing open, and without a database it reads nothing.
PhaseInv ==
  /\ phase = "failed" => db_phase # "open" /\ opens = 1
  /\ phase \in {"dispatch", "done"} \/ to_compare => opens = 1

\* The cache stays in its page, and nothing is in the file that was not put there.
SizeInv ==
  /\ opens = 0 => table["packet"] = <<>>
  /\ Len(cache["packet"]) \in 0..CAPACITY

\* A kept packet makes at most one flow, and a flow takes two ids.
IdsInv == global_dir_id \in 0..(2 * Len(handed)) /\ Len(handed) \in 0..Len(captured)

\* What has been captured has been taken off the count, or will be.
CountInv ==
  /\ Len(captured) \in 0..count
  /\ phase \in {"main", "done"} => Len(captured) + num_pkts_to_read = count
  /\ phase = "dispatch" => Len(captured) + num_pkts_to_read = count + n

\* A row has the time of a packet that was kept.
OffsetsInv ==
  \A k \in 1..Len(packet_table) :
    \E i \in 1..Len(handed) : packet_table[k].pkt.time = to_usec(handed[i].t_off)

FollowInv == TestInv /\ BudgetInv /\ PhaseInv /\ SizeInv /\ IdsInv /\ CountInv /\ OffsetsInv

LEMMA FollowStarts ==
  ASSUME FollowHypotheses, TestInit
  PROVE  FollowInv
<1>1. TestInv
  BY TestInvStarts DEF FollowHypotheses
<1>2. BudgetInv
  BY BudgetStarts DEF FollowHypotheses
<1>3. /\ phase = "main" /\ num_pkts_to_read = count /\ captured = <<>> /\ handed = <<>>
      /\ db_phase = "closed" /\ opens = 0 /\ cache = [t \in {"packet"} |-> <<>>]
      /\ table \in [{"packet"} -> Leftover] /\ ~to_compare
  BY DEF TestInit, Init, PCapReader!Init
<1>4. packet_table = <<>> /\ global_dir_id = 0
  BY DEF TestInit, Init, flow_map!Init
<1>5. count \in Nat /\ CAPACITY \in Nat
  BY DEF FollowHypotheses, ReaderHypotheses, PCapReader!CountAssumption, ToolHypotheses,
     ToolAssumption
<1>6. table["packet"] = <<>> /\ cache["packet"] = <<>>
  BY <1>3 DEF FollowHypotheses
<1>7. PhaseInv /\ SizeInv
  BY <1>3, <1>5, <1>6 DEF PhaseInv, SizeInv
<1>8. IdsInv /\ CountInv /\ OffsetsInv
  BY <1>3, <1>4, <1>5 DEF IdsInv, CountInv, OffsetsInv
<1> QED
  BY <1>1, <1>2, <1>7, <1>8 DEF FollowInv

\* A step of the test build processes a packet, or leaves what the packets have made alone.
LEMMA StepKinds ==
  ASSUME TestNext
  PROVE  \/ \E p \in PCapReader!Captured : process_packet(p) /\ run
         \/ UNCHANGED <<captured, handed, packet_table, global_dir_id>>
<1>1. CASE run
  <2>1. CASE db_open \/ open_fails \/ write_fails
    BY <2>1 DEF db_open, open_fails, write_fails, reader_vars, map_vars
  <2> QED
    BY <1>1, <2>1 DEF run
<1>2. CASE test_traces
  BY <1>2 DEF test_traces, traces, PCapReader!skip_trace,
     PCapReader!read_trace, PCapReader!dispatched, PCapReader!dispatch_fails,
     PCapReader!finish, map_vars
<1>3. CASE \/ compare_with_tcpdump \/ command_fails
           \/ \E d \in Dir_ids : get_packets(d)
           \/ get_packets_fails \/ values_correct \/ values_not_correct
           \/ test_close
  BY <1>3 DEF compare_with_tcpdump, command_fails, get_packets,
     get_packets_fails, values_correct, values_not_correct, test_close,
     db_close, reader_vars, map_vars, vars
<1> QED
  BY <1>1, <1>2, <1>3 DEF TestNext

LEMMA PhaseStep ==
  ASSUME FollowInv, TestNext
  PROVE  PhaseInv'
<1>1. PhaseInv /\ opens \in {0, 1} /\ (db_phase = "open" => opens = 1)
  BY DEF FollowInv, TestInv, ToolInv
<1>2. CASE run
  <2>0. ~to_compare /\ ~to_compare'
    BY <1>2 DEF run
  <2>1. CASE db_open
    <3>1. UNCHANGED phase /\ opens = 0 /\ opens' = opens + 1
      BY <2>1 DEF db_open, db!open, reader_vars
    <3> QED
      BY <1>1, <2>0, <3>1 DEF PhaseInv
  <2>2. CASE open_fails
    BY <2>0, <2>2 DEF open_fails, PhaseInv
  <2>3. CASE write_fails
    BY <1>1, <2>0, <2>3 DEF write_fails, db!fail, PhaseInv
  <2>4. ASSUME NEW p \in PCapReader!Captured, process_packet(p)
        PROVE  PhaseInv'
    <3>1. /\ db_phase = "open" /\ UNCHANGED opens
          /\ db_phase' = IF phase' = "failed" THEN "failed" ELSE db_phase
      BY <2>4 DEF process_packet
    <3> QED
      BY <1>1, <3>1 DEF PhaseInv
  <2> QED
    BY <1>2, <2>1, <2>2, <2>3, <2>4 DEF run
<1>3. CASE test_traces
  <2>1. /\ db_phase = "open" /\ UNCHANGED opens
        /\ db_phase' = IF phase' = "failed" THEN "failed" ELSE db_phase
    BY <1>3 DEF test_traces, traces
  <2> QED
    BY <1>1, <2>1 DEF PhaseInv
<1>4. CASE compare_with_tcpdump \/ values_correct
  <2>1. UNCHANGED <<phase, db_phase, opens>> /\ (to_compare' => to_compare)
    BY <1>4 DEF compare_with_tcpdump, values_correct, vars, reader_vars,
       db_vars
  <2> QED
    BY <1>1, <2>1 DEF PhaseInv
<1>5. CASE command_fails \/ values_not_correct
  BY <1>1, <1>5 DEF command_fails, values_not_correct, PhaseInv
<1>6. ASSUME NEW d, get_packets(d)
      PROVE  PhaseInv'
  <2>1. /\ db_phase = "open" /\ UNCHANGED opens
        /\ phase' = IF db_phase' = "failed" THEN "failed" ELSE phase
        /\ db_phase' \in {db_phase, "failed"} /\ phase = "done"
    BY <1>6 DEF get_packets, db!get
  <2> QED
    BY <1>1, <2>1 DEF PhaseInv
<1>7. CASE get_packets_fails
  BY <1>1, <1>7 DEF get_packets_fails, db!fail, PhaseInv
<1>8. CASE test_close
  <2>1. UNCHANGED <<phase, opens, to_compare>> /\ db_phase' = "closed"
    BY <1>8 DEF test_close, db_close, db!close, reader_vars, debug_vars
  <2> QED
    BY <1>1, <2>1 DEF PhaseInv
<1> QED
  BY <1>2, <1>3, <1>4, <1>5, <1>6, <1>7, <1>8 DEF TestNext

LEMMA PutFits ==
  ASSUME CAPACITY \in Nat \ {0}, NEW b, DOMAIN b = {"table", "cache"},
         b.cache \in Seq(DbRow), Len(b.cache) \in 0..CAPACITY, NEW r \in DbRow
  PROVE  Len(db!Put(b, r, "packet").cache) \in 0..CAPACITY
<1>1. db!is_full(b, "packet") <=> Len(b.cache) = CAPACITY
  BY DEF db!is_full
<1>2. ASSUME NEW c, DOMAIN c = {"table", "cache"}
      PROVE  db!push_back(c, r).cache = Append(c.cache, r)
  BY <1>2 DEF db!push_back
<1>3. CASE Len(b.cache) = CAPACITY
  <2>1. PICK c : c = db!write_cache(b)
    OBVIOUS
  <2>2. DOMAIN c = {"table", "cache"} /\ c.cache = <<>>
    BY <2>1 DEF db!write_cache
  <2>3. db!Put(b, r, "packet") = db!push_back(c, r)
    BY <1>1, <1>3, <2>1 DEF db!Put
  <2>4. db!Put(b, r, "packet").cache = Append(<<>>, r)
    BY <1>2, <2>2, <2>3
  <2>5. Len(Append(<<>>, r)) = 1
    OBVIOUS
  <2>6. 1 \in 0..CAPACITY
    OBVIOUS
  <2> QED
    BY <2>4, <2>5, <2>6, Zenon
<1>4. CASE Len(b.cache) # CAPACITY
  <2>1. db!Put(b, r, "packet") = db!push_back(b, r)
    BY <1>1, <1>4 DEF db!Put
  <2>2. db!Put(b, r, "packet").cache = Append(b.cache, r)
    BY <1>2, <2>1
  <2>3. Len(Append(b.cache, r)) = Len(b.cache) + 1
    OBVIOUS
  <2> QED
    BY <1>4, <2>2, <2>3
<1> QED
  BY <1>3, <1>4

LEMMA SizeProcess ==
  ASSUME FollowHypotheses, FollowInv, NEW p \in PCapReader!Captured, process_packet(p)
  PROVE  SizeInv'
<1>1. db_phase = "open" /\ UNCHANGED opens /\ phase = "dispatch" /\ store_packet
  BY DEF process_packet, PCapReader!process_packet
<1>2. /\ opens = 1 /\ TableHolds /\ MapInv /\ capture_start_time \in Nat
      /\ DOMAIN table = {"packet"} /\ DOMAIN cache = {"packet"}
  BY <1>1 DEF FollowInv, TestInv, ToolInv
<1>3. PICK b : b = db!Buffer("packet")
  OBVIOUS
<1>4. /\ b.cache \in Seq(DbRow) /\ b.cache = cache["packet"] /\ DOMAIN b = {"table", "cache"}
  BY <1>2, <1>3 DEF TableHolds, Holds, db!Buffer
<1>5. CAPACITY \in Nat \ {0} /\ Len(cache["packet"]) \in 0..CAPACITY
  BY DEF FollowHypotheses, ToolHypotheses, ToolAssumption, FollowInv, SizeInv
<1>6. CASE packet_table' = packet_table
  <2>1. UNCHANGED cache
    BY <1>1, <1>6 DEF store_packet
  <2> QED
    BY <1>1, <1>2, <1>5, <2>1 DEF SizeInv
<1>7. CASE packet_table' # packet_table
  <2>1. PICK r \in Map!Row : packet_table' = Append(packet_table, r)
    BY <1>2, <1>7, ProcessMaps DEF FollowHypotheses
  <2>2. packet_table \in Seq(Map!Row)
    BY <1>2 DEF MapInv, Map!IInv, Map!MapTypeOK
  <2>3. packet_table'[Len(packet_table')] = r
    BY <2>1, <2>2
  <2>4. RowOf(r) \in DbRow
    BY RowColumns
  <2>5. cache' = [cache EXCEPT !["packet"] = db!Put(b, RowOf(r), "packet").cache]
    BY <1>1, <1>3, <1>7, <2>3 DEF store_packet, db!SetBuffer
  <2>6. Len(db!Put(b, RowOf(r), "packet").cache) \in 0..CAPACITY
    BY <1>4, <1>5, <2>4, PutFits
  <2>7. cache'["packet"] = db!Put(b, RowOf(r), "packet").cache
    BY <1>2, <2>5
  <2> QED
    BY <1>1, <1>2, <2>6, <2>7 DEF SizeInv
<1> QED
  BY <1>6, <1>7

LEMMA SizeStep ==
  ASSUME FollowHypotheses, FollowInv, TestNext
  PROVE  SizeInv'
<1>1. /\ SizeInv /\ (db_phase = "open" => opens = 1) /\ DOMAIN cache = {"packet"}
      /\ phase = "done" => opens = 1
  BY DEF FollowInv, TestInv, ToolInv, PhaseInv
<1>2. CAPACITY \in Nat \ {0} /\ Len(<<>>) = 0 /\ Len(<<>>) \in 0..CAPACITY
  BY DEF FollowHypotheses, ToolHypotheses, ToolAssumption
<1>3. CASE run
  <2>1. CASE db_open
    <3>1. opens = 0 /\ opens' = opens + 1 /\ cache' = [t \in {"packet"} |-> <<>>]
      BY <2>1 DEF db_open, db!open
    <3> QED
      BY <1>2, <3>1 DEF SizeInv
  <2>2. CASE open_fails
    BY <1>1, <2>2 DEF open_fails, SizeInv
  <2>3. CASE write_fails
    BY <1>1, <2>3 DEF write_fails, db!fail, SizeInv
  <2> QED
    BY <1>3, <2>1, <2>2, <2>3, SizeProcess DEF run
<1>4. CASE test_traces
  BY <1>1, <1>4 DEF test_traces, traces, SizeInv
<1>5. CASE \/ compare_with_tcpdump \/ command_fails
           \/ values_correct \/ values_not_correct
  BY <1>1, <1>5 DEF compare_with_tcpdump, command_fails, values_correct,
     values_not_correct, vars, db_vars, SizeInv
<1>6. ASSUME NEW d, get_packets(d)
      PROVE  SizeInv'
  <2>1. opens' = 1 /\ (UNCHANGED cache \/ cache' = [cache EXCEPT !["packet"] = <<>>])
    BY <1>1, <1>6 DEF get_packets, db!get, db!SetBuffer, db!write_cache
  <2> QED
    BY <1>1, <1>2, <2>1 DEF SizeInv
<1>7. CASE get_packets_fails
  BY <1>1, <1>7 DEF get_packets_fails, db!fail, SizeInv
<1>8. CASE test_close
  BY <1>1, <1>8 DEF test_close, db_close, db!close, SizeInv
<1> QED
  BY <1>3, <1>4, <1>5, <1>6, <1>7, <1>8 DEF TestNext

\* The rows of the map have ids that have been given.
LEMMA BelowHolds == MapInv => Map!RowsBelow
  BY Map!OwnedBelow, MapAssumptions DEF MapInv

LEMMA IdsProcess ==
  ASSUME FollowInv, NEW p \in PCapReader!Captured, process_packet(p)
  PROVE  IdsInv' /\ Len(captured') = Len(captured) + 1
<1>1. /\ captured \in Seq(PCapReader!Captured) /\ handed \in Seq(PCapReader!Handed)
      /\ global_dir_id \in Nat /\ IdsInv
  BY DEF FollowInv, TestInv, ToolInv, TimesInv, MapInv, Map!IInv, Map!MapTypeOK
<1>2. PICK g, a, l : g = global_dir_id /\ a = Len(handed) /\ l = Len(captured)
  OBVIOUS
<1>3. g \in 0..(2 * a) /\ a \in 0..l /\ a \in Nat /\ l \in Nat
  BY <1>1, <1>2 DEF IdsInv
<1>4. Len(captured') = l + 1
  <2>1. captured' = Append(captured, p)
    BY DEF process_packet, PCapReader!process_packet
  <2> QED
    BY <1>1, <1>2, <2>1
<1>5. CASE PCapReader!Kept(p.header)
  <2>1. Map!map_to_flow(PacketOf(p))
    BY <1>5, SameMapToFlow DEF process_packet
  <2>2. global_dir_id' \in {g, g + 2}
    BY <1>2, <2>1 DEF Map!map_to_flow, Map!DeliverToLast, Map!RetryAsNew, Map!FirstOfTuple
  <2>3. PICK h : handed' = Append(handed, h)
    BY <1>5 DEF process_packet, PCapReader!process_packet
  <2>4. Len(handed') = a + 1
    BY <1>1, <1>2, <2>3
  <2>5. g + 2 \in 0..(2 * (a + 1)) /\ g \in 0..(2 * (a + 1)) /\ a + 1 \in 0..(l + 1)
    BY <1>3
  <2> QED
    BY <1>2, <1>4, <2>2, <2>4, <2>5 DEF IdsInv
<1>6. CASE ~PCapReader!Kept(p.header)
  <2>1. UNCHANGED <<global_dir_id, handed>>
    BY <1>6 DEF process_packet, PCapReader!process_packet, map_vars
  <2>2. a \in 0..(l + 1)
    BY <1>3
  <2> QED
    BY <1>2, <1>3, <1>4, <2>1, <2>2 DEF IdsInv
<1> QED
  BY <1>5, <1>6

\* What is read is within the count, and what is stored within the ids.
LEMMA CountProcess ==
  ASSUME FollowHypotheses, FollowInv, NEW p \in PCapReader!Captured, process_packet(p)
  PROVE  CountInv'
<1>1. /\ phase = "dispatch" /\ n' = n + 1 /\ (cnt > 0 => n < cnt)
      /\ UNCHANGED num_pkts_to_read /\ phase' \in {phase, "failed"}
  BY DEF process_packet, PCapReader!process_packet
<1>2. /\ cnt = num_pkts_to_read /\ cnt > 0 /\ num_pkts_to_read \in 0..count /\ count \in Nat
      /\ Len(captured) + num_pkts_to_read = count + n /\ n \in Nat /\ Len(captured) \in Nat
  BY <1>1 DEF FollowHypotheses, ReaderHypotheses, PCapReader!CountAssumption, FollowInv,
     BudgetInv, LeftInv, CountInv
<1>3. Len(captured') = Len(captured) + 1
  BY IdsProcess
<1>4. /\ Len(captured) + 1 \in 0..count
      /\ Len(captured) + 1 + num_pkts_to_read = count + (n + 1)
  BY <1>1, <1>2
<1> QED
  BY <1>1, <1>3, <1>4 DEF CountInv

LEMMA CountStep ==
  ASSUME FollowHypotheses, FollowInv, TestNext
  PROVE  CountInv'
<1>1. /\ CountInv /\ LeftInv /\ ReaderHypotheses /\ count \in Nat
  BY DEF FollowHypotheses, ReaderHypotheses, PCapReader!CountAssumption, FollowInv, BudgetInv
<1>2. ASSUME UNCHANGED <<captured, num_pkts_to_read, n>>, phase' \in {phase, "failed"}
      PROVE  CountInv'
  BY <1>1, <1>2 DEF CountInv
<1>3. CASE run
  <2>1. CASE db_open \/ open_fails \/ write_fails
    <3>1. UNCHANGED <<captured, num_pkts_to_read, n>> /\ phase' \in {phase, "failed"}
      BY <2>1 DEF db_open, open_fails, write_fails, reader_vars
    <3> QED
      BY <1>2, <3>1
  <2> QED
    BY <1>3, <2>1, CountProcess DEF run
<1>4. CASE test_traces
  <2>1. CASE PCapReader!skip_trace \/ PCapReader!dispatch_fails
    <3>1. UNCHANGED <<captured, num_pkts_to_read, n>> /\ phase' \in {phase, "failed"}
      BY <2>1 DEF PCapReader!skip_trace, PCapReader!dispatch_fails
    <3> QED
      BY <1>2, <3>1
  <2>2. CASE PCapReader!finish
    BY <1>1, <2>2 DEF PCapReader!finish, CountInv
  <2>3. CASE PCapReader!read_trace
    <3>1. /\ UNCHANGED <<captured, num_pkts_to_read>> /\ phase = "main"
          /\ \/ phase' = "dispatch" /\ n' = 0
             \/ phase' = "failed"
      BY <2>3 DEF PCapReader!read_trace
    <3> QED
      BY <1>1, <3>1 DEF CountInv
  <2>4. CASE PCapReader!dispatched
    <3>1. /\ phase = "dispatch" /\ phase' = "main" /\ UNCHANGED captured
          /\ num_pkts_to_read' = (num_pkts_to_read - n) % COUNT_RANGE
      BY <2>4 DEF PCapReader!dispatched
    <3>2. /\ n \in Nat /\ n <= num_pkts_to_read /\ num_pkts_to_read \in 0..count
          /\ Len(captured) \in Nat /\ Len(captured) + num_pkts_to_read = count + n
      BY <1>1, <3>1 DEF LeftInv, CountInv
    <3>3. num_pkts_to_read - n \in 0..count
      BY <1>1, <3>2
    <3>4. num_pkts_to_read' = num_pkts_to_read - n
      BY <1>1, <3>1, <3>3, CountLeft
    <3>5. Len(captured) + (num_pkts_to_read - n) = count
      BY <1>1, <3>2
    <3> QED
      BY <1>1, <3>1, <3>4, <3>5 DEF CountInv
  <2> QED
    BY <1>4, <2>1, <2>2, <2>3, <2>4 DEF test_traces, traces
<1>5. CASE \/ compare_with_tcpdump \/ command_fails
           \/ \E d \in Dir_ids : get_packets(d)
           \/ get_packets_fails \/ values_correct \/ values_not_correct
           \/ test_close
  <2>1. UNCHANGED <<captured, num_pkts_to_read, n>> /\ phase' \in {phase, "failed"}
    BY <1>5 DEF compare_with_tcpdump, command_fails, get_packets, get_packets_fails,
       values_correct, values_not_correct, test_close, db_close, reader_vars, vars
  <2> QED
    BY <1>2, <2>1
<1> QED
  BY <1>3, <1>4, <1>5 DEF TestNext

\* A row that is added has the time of the packet that was handed over with it.
LEMMA OffsetsProcess ==
  ASSUME FollowHypotheses, FollowInv, NEW p \in PCapReader!Captured, process_packet(p)
  PROVE  OffsetsInv'
<1>1. /\ handed \in Seq(PCapReader!Handed) /\ packet_table \in Seq(Map!Row) /\ OffsetsInv
      /\ MapInv /\ capture_start_time \in Nat /\ ToolHypotheses
  BY DEF FollowHypotheses, FollowInv, TestInv, ToolInv, TimesInv, MapInv, Map!IInv, Map!MapTypeOK
<1>2. PICK hs, rs : hs = handed' /\ rs = packet_table'
  OBVIOUS
<1>3. CASE PCapReader!Kept(p.header)
  <2>1. PICK h : /\ h.t_off = PCapReader!Subtract(p.time, PCapReader!start_time(p.time))
                 /\ hs = Append(handed, h)
    BY <1>2, <1>3 DEF process_packet, PCapReader!process_packet
  <2>2. /\ Len(hs) = Len(handed) + 1 /\ hs[Len(handed) + 1] = h
        /\ Len(handed) \in Nat
        /\ \A i \in 1..Len(handed) : i \in 1..Len(hs) /\ hs[i] = handed[i]
    BY <1>1, <2>1
  <2>3. PacketOf(p).time = to_usec(hs[Len(handed) + 1].t_off)
    BY <2>1, <2>2 DEF PacketOf
  <2>4. ASSUME NEW k \in 1..Len(packet_table)
        PROVE  \E i \in 1..Len(hs) : packet_table[k].pkt.time = to_usec(hs[i].t_off)
    <3>1. PICK i \in 1..Len(handed) : packet_table[k].pkt.time = to_usec(handed[i].t_off)
      BY <1>1 DEF OffsetsInv
    <3> QED
      BY <2>2, <3>1
  <2>5. CASE rs = packet_table
    BY <1>2, <2>4, <2>5 DEF OffsetsInv
  <2>6. ASSUME NEW r, rs = Append(packet_table, r), r.pkt = PacketOf(p)
        PROVE  OffsetsInv'
    <3>1. /\ Len(rs) = Len(packet_table) + 1 /\ rs[Len(packet_table) + 1] = r
          /\ \A k \in 1..Len(packet_table) : rs[k] = packet_table[k]
          /\ Len(packet_table) \in Nat
      BY <1>1, <2>6
    <3>2. ASSUME NEW k \in 1..Len(rs)
          PROVE  \E i \in 1..Len(hs) : rs[k].pkt.time = to_usec(hs[i].t_off)
      <4>1. CASE k \in 1..Len(packet_table)
        BY <2>4, <3>1, <4>1
      <4>2. CASE k = Len(packet_table) + 1
        <5>1. Len(handed) + 1 \in 1..Len(hs)
          BY <2>2
        <5> QED
          BY <2>3, <2>6, <3>1, <4>2, <5>1
      <4> QED
        BY <3>1, <4>1, <4>2
    <3> QED
      BY <1>2, <3>2 DEF OffsetsInv
  <2> QED
    BY <1>1, <1>2, <2>5, <2>6, ProcessMaps
<1>4. CASE ~PCapReader!Kept(p.header)
  <2>1. UNCHANGED <<handed, packet_table>>
    BY <1>4 DEF process_packet, PCapReader!process_packet, map_vars
  <2> QED
    BY <1>1, <2>1 DEF OffsetsInv
<1> QED
  BY <1>3, <1>4

LEMMA FollowStep ==
  ASSUME FollowHypotheses, FollowInv, TestNext
  PROVE  FollowInv'
<1>1. TestInv' /\ BudgetInv' /\ PhaseInv' /\ SizeInv' /\ CountInv'
  BY TestInvStep, BudgetNext, PhaseStep, SizeStep, CountStep DEF FollowHypotheses, FollowInv
<1>2. IdsInv' /\ OffsetsInv'
  <2>1. CASE UNCHANGED <<captured, handed, packet_table, global_dir_id>>
    BY <2>1 DEF FollowInv, IdsInv, OffsetsInv
  <2> QED
    BY <2>1, StepKinds, IdsProcess, OffsetsProcess
<1> QED
  BY <1>1, <1>2 DEF FollowInv

LEMMA FollowStutters ==
  ASSUME FollowHypotheses, FollowInv, UNCHANGED test_vars
  PROVE  FollowInv'
<1>1. TestInv'
  BY TestInvStutters DEF FollowInv
<1>2. UNCHANGED <<unread, iter, phase, num_pkts_to_read, n, cnt, captured, differ, to_compare>>
  BY DEF test_vars, vars, reader_vars, debug_vars
<1>3. BudgetInv'
  BY <1>2, BudgetStays DEF FollowInv
<1>4. UNCHANGED <<db_phase, opens, table, cache, global_dir_id, handed, packet_table>>
  BY DEF test_vars, vars, reader_vars, map_vars, db_vars
<1>5. PhaseInv' /\ SizeInv' /\ IdsInv' /\ CountInv' /\ OffsetsInv'
  BY <1>2, <1>4 DEF FollowInv, PhaseInv, SizeInv, IdsInv, CountInv, OffsetsInv
<1> QED
  BY <1>1, <1>3, <1>5 DEF FollowInv

\* The beginning of the rows, up to somewhere in the cache, is short of at most the cache.
LEMMA BeginningSurvives ==
  ASSUME CAPACITY \in Nat, NEW file \in Seq(DbRow), NEW c \in Seq(DbRow),
         Len(c) <= CAPACITY, NEW k \in 0..Len(c)
  PROVE  db!Promise!Survives(file \o SubSeq(c, 1, k), file \o c, CAPACITY)
<1> DEFINE part == SubSeq(c, 1, k)
<1>1. part \in Seq(DbRow) /\ Len(part) = k /\ \A i \in 1..k : part[i] = c[i]
  BY SubSeqProperties
<1> HIDE DEF part
<1> DEFINE s == file \o part
           r == file \o c
<1>2. /\ s \in Seq(DbRow) /\ Len(s) = Len(file) + k
      /\ \A i \in 1..(Len(file) + k) :
           s[i] = IF i <= Len(file) THEN file[i] ELSE part[i - Len(file)]
  BY <1>1, ConcatProperties
<1>3. /\ r \in Seq(DbRow) /\ Len(r) = Len(file) + Len(c)
      /\ \A i \in 1..(Len(file) + Len(c)) :
           r[i] = IF i <= Len(file) THEN file[i] ELSE c[i - Len(file)]
  BY ConcatProperties
<1> HIDE DEF s, r
<1>4. Len(file) \in Nat /\ Len(c) \in Nat /\ k \in Nat /\ k <= Len(c)
  OBVIOUS
<1>5. ASSUME NEW i \in 1..Len(s) PROVE s[i] = r[i]
  <2>1. i \in 1..(Len(file) + k) /\ i \in 1..(Len(file) + Len(c))
    BY <1>2, <1>4
  <2>2. CASE i <= Len(file)
    BY <1>2, <1>3, <2>1, <2>2
  <2>3. CASE ~(i <= Len(file))
    <3>1. i - Len(file) \in 1..k
      BY <1>4, <2>1, <2>3
    <3>2. s[i] = part[i - Len(file)] /\ r[i] = c[i - Len(file)]
      BY <1>2, <1>3, <2>1, <2>3
    <3> QED
      BY <1>1, <3>1, <3>2
  <2> QED
    BY <2>2, <2>3
<1>6. s = SubSeq(r, 1, Len(s))
  <2>1. Len(s) \in 0..Len(r)
    BY <1>2, <1>3, <1>4
  <2>2. PICK q : q = SubSeq(r, 1, Len(s))
    OBVIOUS
  <2>3. q \in Seq(DbRow) /\ Len(q) = Len(s) /\ \A i \in 1..Len(s) : q[i] = r[i]
    BY <1>3, <2>1, <2>2, SubSeqProperties
  <2>4. q = s
    BY <1>2, <1>5, <2>3, SeqEqual
  <2> QED
    BY <2>2, <2>4
<1>7. Len(s) <= Len(r) /\ Len(r) <= Len(s) + CAPACITY
  BY <1>2, <1>3, <1>4
<1> QED
  BY <1>6, <1>7 DEF db!Promise!Survives, s, r, part

\* The log of the packet table: the rows, until the database is no longer open.
LEMMA LogOfTable ==
  /\ db_phase = "open" => db!log = [t \in {"packet"} |-> Columns(packet_table)]
  /\ db_phase # "open" => db!log = [t \in {"packet"} |-> table["packet"]]
  BY DEF db!log, rows, Columns

LEMMA LogOfTableNext == (db_phase = "open" => db!log = [t \in {"packet"} |-> Columns(packet_table)])'
  BY LogOfTable, PTL

\* What a step does to the log, seen from outside.
Follows ==
  (NoneNegative => db!Promise!Next) \/ UNCHANGED <<db!log, answer, db_phase = "open">>

LEMMA FollowsUnlogged ==
  ASSUME UNCHANGED <<packet_table, answer>>, table'["packet"] = table["packet"],
         db_phase' = db_phase \/ (db_phase # "open" /\ db_phase' # "open")
  PROVE  Follows
<1>1. (db_phase = "open") <=> (db_phase' = "open")
  OBVIOUS
<1>2. db!log' = db!log
  BY <1>1 DEF db!log, rows
<1> QED
  BY <1>1, <1>2 DEF Follows

\* The program ends, or gives up, with some of the cache written.
LEMMA FollowsStop ==
  ASSUME FollowHypotheses, FollowInv, db_phase = "open", db_phase' # "open", UNCHANGED answer,
         NEW k \in 0..Len(cache["packet"]),
         table'["packet"] = table["packet"] \o SubSeq(cache["packet"], 1, k)
  PROVE  Follows
<1>1. TableHolds /\ Len(cache["packet"]) \in 0..CAPACITY /\ CAPACITY \in Nat
  BY DEF FollowHypotheses, ToolHypotheses, ToolAssumption, FollowInv, TestInv, ToolInv,
     PhaseInv, SizeInv
<1>2. PICK file, c : file = table["packet"] /\ c = cache["packet"]
  OBVIOUS
<1>3. /\ file \in Seq(DbRow) /\ c \in Seq(DbRow) /\ file \o c = Columns(packet_table)
  BY <1>1, <1>2 DEF TableHolds, Holds, db!Buffer
<1>4. db!Promise!Survives(file \o SubSeq(c, 1, k), file \o c, CAPACITY)
  <2>1. Len(c) <= CAPACITY
    BY <1>1, <1>2
  <2> QED
    BY <1>1, <1>2, <1>3, <2>1, BeginningSurvives
<1>5. db!log["packet"] = file \o c
  BY <1>3, LogOfTable
<1>6. db!log["packet"]' = file \o SubSeq(c, 1, k)
  BY <1>2 DEF db!log
<1>7. db!Promise!Survives(db!log["packet"]', db!log["packet"], CAPACITY)
  BY <1>4, <1>5, <1>6, SMT
<1> QED
  BY <1>7, PromiseStop DEF Follows

LEMMA FollowsPlainStop ==
  ASSUME FollowHypotheses, FollowInv, db_phase = "open", db_phase' # "open",
         UNCHANGED <<table, answer>>
  PROVE  Follows
<1>1. TableHolds
  BY DEF FollowInv, TestInv, ToolInv, PhaseInv
<1>2. PICK file, c : file = table["packet"] /\ c = cache["packet"]
  OBVIOUS
<1>3. file \in Seq(DbRow) /\ c \in Seq(DbRow)
  BY <1>1, <1>2 DEF TableHolds, Holds, db!Buffer
<1>4. SubSeq(c, 1, 0) = <<>> /\ file \o <<>> = file /\ 0 \in 0..Len(c)
  <2>1. SubSeq(c, 1, 0) = <<>>
    BY SubSeqEmpty
  <2>2. file \o <<>> = file
    BY <1>3, ConcatEmptySeq
  <2> QED
    BY <1>3, <2>1, <2>2
<1>5. table'["packet"] = table["packet"] \o SubSeq(cache["packet"], 1, 0)
  BY <1>2, <1>4, Zenon
<1> QED
  BY <1>2, <1>4, <1>5, FollowsStop

\* As long as no time is in the upper half of the clock, SQLite compares times as they are.
LEMMA SelectedIsOwed ==
  ASSUME NEW s \in Seq(DbRow), TimesPositive(s), NEW d, NEW limit,
         NEW q \in db!Selected("packet", s, d, limit)
  PROVE  q \in db!Owed("packet", s, d, limit)
<1>1. PICK m : m = db!Cardinality(db!OfDir(s, d))
  OBVIOUS
<1>2. PICK p \in {f \in [1..m -> db!OfDir(s, d)] : db!IsInjective(f)} :
        q = [k \in 1..m |-> s[p[k]]]
  BY <1>1 DEF db!Selected, db!OrderedBy
<1>3. \A j, k \in 1..m : j < k => db!Signed(q[j].time) <= db!Signed(q[k].time)
  BY <1>1 DEF db!Selected, db!OrderedBy
<1>4. ASSUME NEW k \in 1..m PROVE db!Signed(q[k].time) = q[k].time
  <2>1. p[k] \in 1..Len(s) /\ q[k] = s[p[k]]
    BY <1>2 DEF db!OfDir
  <2>2. q[k].time < HALF
    BY <2>1 DEF TimesPositive
  <2> QED
    BY <2>2 DEF db!Signed
<1>5. \A j, k \in 1..m : j < k => q[j].time <= q[k].time
  BY <1>3, <1>4, SMT
<1>6. q \in {r \in {[k \in 1..m |-> s[f[k]]] :
                      f \in {g \in [1..m -> db!OfDir(s, d)] : db!IsInjective(g)}} :
               \A j, k \in 1..m : j < k => r[j].time <= r[k].time}
  BY <1>2, <1>5
<1> QED
  BY <1>1, <1>6 DEF db!Owed, db!OrderedBy

LEMMA ColumnsPositive ==
  ASSUME FollowInv, NoneNegative
  PROVE  Columns(packet_table) \in Seq(DbRow) /\ TimesPositive(Columns(packet_table))
<1>1. packet_table \in Seq(Map!Row) /\ handed \in Seq(PCapReader!Handed) /\ OffsetsInv
  BY DEF FollowInv, TestInv, ToolInv, TimesInv, MapInv, Map!IInv, Map!MapTypeOK
<1>2. PICK s : s = Columns(packet_table)
  OBVIOUS
<1>3. /\ s \in Seq(DbRow) /\ Len(s) = Len(packet_table)
      /\ \A i \in 1..Len(packet_table) : s[i] = RowOf(packet_table[i])
  BY <1>1, <1>2, ColumnsType
<1>4. ASSUME NEW k \in 1..Len(s) PROVE s[k].time < HALF
  <2>1. k \in 1..Len(packet_table)
    BY <1>3
  <2>2. PICK i \in 1..Len(handed) : packet_table[k].pkt.time = to_usec(handed[i].t_off)
    BY <1>1, <2>1 DEF OffsetsInv
  <2>3. to_usec(handed[i].t_off) < HALF
    BY <1>1 DEF NoneNegative
  <2>4. s[k].time = packet_table[k].pkt.time
    <3>1. \A r : RowOf(r).time = r.pkt.time
      BY DEF RowOf
    <3>2. s[k] = RowOf(packet_table[k])
      BY <1>3, <2>1
    <3> QED
      BY <3>1, <3>2
  <2> QED
    BY <2>2, <2>3, <2>4
<1> QED
  BY <1>2, <1>3, <1>4 DEF TimesPositive

LEMMA GetFollows ==
  ASSUME FollowHypotheses, FollowInv, NEW d \in Dir_ids, get_packets(d)
  PROVE  Follows
<1>1. /\ UNCHANGED map_vars /\ db_phase = "open" /\ phase = "done" /\ ToolInv
      /\ count \in Nat
  BY DEF get_packets, db!get, FollowInv, TestInv, FollowHypotheses, ReaderHypotheses,
     PCapReader!CountAssumption
<1>2. CASE db!IndexError
  <2>1. db_phase' = "failed" /\ UNCHANGED <<table, answer>>
    BY <1>2 DEF get_packets, db!get
  <2> QED
    BY <1>1, <2>1, FollowsPlainStop
<1>3. CASE ~db!IndexError
  <2>1. /\ answer' \in db!Selected("packet", Columns(packet_table), d, count)
        /\ UNCHANGED <<db_phase, packet_table>>
    BY <1>1, <1>3, GetReads DEF get_packets, db!get, map_vars
  <2>2. UNCHANGED db!log
    BY <1>1, <2>1 DEF db!log, rows
  <2>3. db!log["packet"] = Columns(packet_table)
    BY <1>1, LogOfTable
  <2>4. ASSUME NoneNegative PROVE db!Promise!Next
    <3>1. answer' \in db!Owed("packet", Columns(packet_table), d, count)
      BY <2>1, <2>4, ColumnsPositive, SelectedIsOwed
    <3>2. answer' \in db!Owed("packet", db!log["packet"], d, count)
      BY <2>3, <3>1, SMT
    <3> QED
      BY <1>1, <2>1, <2>2, <3>2, PromiseAsk
  <2> QED
    BY <2>4 DEF Follows
<1> QED
  BY <1>2, <1>3

\* A packed time fits into the words of the clock.
LEMMA TimeFits ==
  ASSUME FollowHypotheses, FollowInv, NEW p \in PCapReader!Captured, InOrder(p)
  PROVE  PacketOf(p).time \in 0..(WRAP - 1)
<1>1. /\ ToolHypotheses /\ TimesInv /\ capture_start_time \in Nat
  BY DEF FollowHypotheses, FollowInv, TestInv, ToolInv
<1>2. p.time \in Nat
  BY <1>1, PacketOfCaptured
<1>3. PCapReader!start_time(p.time) \in Nat
  BY <1>1, <1>2, LaterThanAll
<1>4. PICK x \in Int : x = p.time - PCapReader!start_time(p.time)
  BY <1>2, <1>3
<1>5. PICK w : w = Packed(x)
  OBVIOUS
<1>6. PacketOf(p).time = to_usec(w)
  <2>1. PacketOf(p).time = to_usec(PCapReader!Subtract(p.time, PCapReader!start_time(p.time)))
    BY DEF PacketOf
  <2>2. PCapReader!Subtract(p.time, PCapReader!start_time(p.time)) = w
    BY <1>2, <1>3, <1>4, <1>5, SubtractIsPacked
  <2> QED
    BY <2>1, <2>2
<1>7. w.sec \in 0..(SECS - 1) /\ w.usec \in Nat /\ w.usec < USECS
  BY <1>5, PackedIsWord DEF Word, Normal
<1>8. SECS \in Nat /\ USECS \in Nat /\ WRAP = SECS * USECS
  BY <1>1, ClockAssumption DEF ToolHypotheses, ToolAssumption
<1>9. PICK s, u : s = w.sec /\ u = w.usec
  OBVIOUS
<1>10. s * USECS + u \in 0..(SECS * USECS - 1)
  <2>1. s \in Nat /\ s + 1 <= SECS /\ u \in Nat /\ u < USECS
    BY <1>7, <1>8, <1>9
  <2>2. (s + 1) * USECS <= SECS * USECS
    BY <1>8, <2>1
  <2>3. (s + 1) * USECS = s * USECS + USECS /\ s * USECS \in Nat
    BY <1>8, <2>1
  <2>4. PICK a, b : a = s * USECS /\ b = SECS * USECS
    OBVIOUS
  <2>5. a \in Nat /\ b \in Nat /\ a + USECS <= b
    BY <1>8, <2>2, <2>3, <2>4
  <2>6. a + u \in 0..(b - 1)
    BY <1>8, <2>1, <2>5
  <2> QED
    BY <2>4, <2>6
<1> QED
  BY <1>6, <1>8, <1>9, <1>10 DEF to_usec

LEMMA BelowHoldsNext == (MapInv => Map!RowsBelow)'
  BY BelowHolds, PTL

\* There are ids for two directions per packet that may be read.
LEMMA IdFits ==
  ASSUME FollowHypotheses, FollowInv, NEW p \in PCapReader!Captured, process_packet(p),
         NEW r \in Map!Row, packet_table' = Append(packet_table, r)
  PROVE  r.dir_id \in Dir_ids
<1>1. MapInv' /\ packet_table \in Seq(Map!Row)
  <2>1. MapInv /\ capture_start_time \in Nat /\ ToolHypotheses
    BY DEF FollowHypotheses, FollowInv, TestInv, ToolInv
  <2>2. MapInv'
    BY <2>1, ProcessMaps
  <2> QED
    BY <2>1, <2>2 DEF MapInv, Map!IInv, Map!MapTypeOK
<1>2. Map!RowsBelow'
  BY <1>1, BelowHoldsNext
<1>3. PICK t : t = packet_table'
  OBVIOUS
<1>4. Len(t) \in 1..Len(t) /\ t[Len(t)] = r
  BY <1>1, <1>3
<1>5. r.dir_id < global_dir_id'
  BY <1>2, <1>3, <1>4 DEF Map!RowsBelow
<1>6. IdsInv' /\ CountInv'
  BY IdsProcess, CountProcess
<1>7. global_dir_id' \in 0..(2 * Len(handed')) /\ Len(handed') \in 0..Len(captured')
      /\ Len(captured') \in 0..count
  BY <1>6 DEF IdsInv, CountInv
<1>8. count \in Nat
  BY DEF FollowHypotheses, ReaderHypotheses, PCapReader!CountAssumption
<1>9. PICK g, a, l : g = global_dir_id' /\ a = Len(handed') /\ l = Len(captured')
  OBVIOUS
<1>10. g \in 0..(2 * count)
  BY <1>7, <1>8, <1>9
<1>11. r.dir_id \in Nat
  BY DEF Map!Row
<1> QED
  BY <1>5, <1>8, <1>9, <1>10, <1>11 DEF Dir_ids

\* A packet adds the row it has made to the log, whatever becomes of the cache.
LEMMA ProcessFollows ==
  ASSUME FollowHypotheses, FollowInv, NEW p \in PCapReader!Captured, process_packet(p)
  PROVE  Follows
<1>1. /\ ToolHypotheses /\ ToolInv /\ MapInv /\ capture_start_time \in Nat /\ TableHolds
      /\ db_phase = "open" /\ UNCHANGED answer /\ InOrder(p) /\ store_packet
      /\ phase = "dispatch" /\ phase' \in {phase, "failed"}
      /\ db_phase' = IF phase' = "failed" THEN "failed" ELSE db_phase
  BY DEF process_packet, PCapReader!process_packet, FollowHypotheses, FollowInv, TestInv,
     ToolInv
<1>2. CASE phase' = "failed"
  <2>1. ~PCapReader!Kept(p.header)
    <3>1. ~PCapReader!IpVersionKnown(p.header)
      BY <1>1, <1>2 DEF process_packet, PCapReader!process_packet
    <3> QED
      BY <3>1 DEF PCapReader!IpVersionKnown, PCapReader!Kept
  <2>2. UNCHANGED packet_table
    BY <2>1 DEF process_packet, map_vars
  <2>3. UNCHANGED table
    BY <1>1, <2>2 DEF store_packet
  <2> QED
    BY <1>1, <1>2, <2>3, FollowsPlainStop
<1>3. CASE phase' # "failed" /\ packet_table' = packet_table
  <2>1. UNCHANGED <<table, db_phase>>
    BY <1>1, <1>3 DEF store_packet
  <2> QED
    BY <1>1, <1>3, <2>1, FollowsUnlogged
<1>4. CASE phase' # "failed" /\ packet_table' # packet_table
  <2>1. PICK r \in Map!Row : packet_table' = Append(packet_table, r) /\ r.pkt = PacketOf(p)
    BY <1>1, <1>4, ProcessMaps
  <2>2. RowOf(r) \in db!Row
    <3>1. r.dir_id \in Dir_ids
      BY <2>1, IdFits
    <3>2. r.pkt.time \in 0..(WRAP - 1)
      BY <1>1, <2>1, TimeFits
    <3> QED
      BY <3>1, <3>2 DEF RowOf, db!Row
  <2>3. packet_table \in Seq(Map!Row)
    BY <1>1 DEF MapInv, Map!IInv, Map!MapTypeOK
  <2>4. Columns(packet_table') = Append(Columns(packet_table), RowOf(r))
    BY <2>1, <2>3, ColumnsAppend
  <2>5. PICK s, row : s = Columns(packet_table) /\ row = RowOf(r)
    OBVIOUS
  <2>6. db!log = [t \in {"packet"} |-> s]
    BY <1>1, <2>5, LogOfTable
  <2>7. db_phase' = "open"
    BY <1>1, <1>4
  <2>8. db!log' = [t \in {"packet"} |-> Append(s, row)]
    <3>1. (db_phase = "open" => db!log = [t \in {"packet"} |-> Columns(packet_table)])'
      BY LogOfTableNext
    <3>2. db!log' = [t \in {"packet"} |-> Columns(packet_table')]
      BY <2>7, <3>1 DEF Columns
    <3> QED
      BY <2>4, <2>5, <3>2
  <2>9. db!log' = [db!log EXCEPT !["packet"] = Append(@, row)]
    BY <2>6, <2>8, SMT
  <2> QED
    BY <1>1, <2>2, <2>5, <2>7, <2>9, PromiseAdd DEF Follows
<1> QED
  BY <1>2, <1>3, <1>4

\* The database is opened, empty.
LEMMA OpenFollows ==
  ASSUME db_open
  PROVE  Follows
<1>1. /\ db_phase # "open" /\ db_phase' = "open" /\ UNCHANGED answer
      /\ rows' = [t \in {"packet"} |-> <<>>]
  BY DEF db_open, db!open
<1>2. db!log' = [t \in {"packet"} |-> <<>>]
  BY <1>1 DEF db!log
<1> QED
  BY <1>1, <1>2, PromiseStart DEF Follows

LEMMA OpenFailsFollows ==
  ASSUME FollowInv, open_fails
  PROVE  Follows
<1>1. /\ db_phase # "open" /\ db_phase' # "open" /\ UNCHANGED <<packet_table, answer>>
      /\ opens = 0 /\ table' \in {table, [t \in {"packet"} |-> <<>>]}
  BY DEF open_fails, map_vars
<1>2. table["packet"] = <<>>
  BY <1>1 DEF FollowInv, SizeInv
<1>3. table'["packet"] = table["packet"]
  BY <1>1, <1>2
<1> QED
  BY <1>1, <1>3, FollowsUnlogged

\* A write to the database fails.
LEMMA DbFailFollows ==
  ASSUME FollowHypotheses, FollowInv, db!fail("packet"), UNCHANGED map_vars
  PROVE  Follows
<1>1. db_phase = "open" /\ db_phase' # "open" /\ UNCHANGED answer
  BY DEF db!fail
<1>2. PICK k \in 0..Len(cache["packet"]) :
        table' = [table EXCEPT !["packet"] = @ \o SubSeq(cache["packet"], 1, k)]
  BY DEF db!fail
<1>3. DOMAIN table = {"packet"}
  BY DEF FollowInv, TestInv, ToolInv
<1>4. table'["packet"] = table["packet"] \o SubSeq(cache["packet"], 1, k)
  BY <1>2, <1>3
<1> QED
  BY <1>1, <1>4, FollowsStop

\* The program goes on, or gives up, with nothing written.
LEMMA QuietFollows ==
  ASSUME FollowHypotheses, FollowInv, UNCHANGED <<packet_table, table, answer>>,
         db_phase' \in {db_phase, "closed", "failed"}
  PROVE  Follows
<1>1. CASE db_phase = "open" /\ db_phase' # "open"
  BY <1>1, FollowsPlainStop
<1>2. CASE ~(db_phase = "open" /\ db_phase' # "open")
  <2>1. db_phase' = db_phase \/ (db_phase # "open" /\ db_phase' # "open")
    BY <1>2
  <2> QED
    BY <2>1, FollowsUnlogged
<1> QED
  BY <1>1, <1>2

LEMMA NextFollows ==
  ASSUME FollowHypotheses, FollowInv, TestNext
  PROVE  Follows
<1>1. CASE run
  <2>1. CASE write_fails
    BY <2>1, DbFailFollows DEF write_fails
  <2> QED
    BY <1>1, <2>1, OpenFollows, OpenFailsFollows, ProcessFollows DEF run
<1>2. CASE test_traces
  <2>1. /\ UNCHANGED <<packet_table, table, answer>>
        /\ db_phase' \in {db_phase, "closed", "failed"}
    BY <1>2 DEF test_traces, traces, map_vars
  <2> QED
    BY <2>1, QuietFollows
<1>3. CASE compare_with_tcpdump \/ command_fails \/ values_correct \/ values_not_correct
  <2>1. /\ UNCHANGED <<packet_table, table, answer>>
        /\ db_phase' \in {db_phase, "closed", "failed"}
    BY <1>3 DEF compare_with_tcpdump, command_fails, values_correct, values_not_correct,
       vars, db_vars, map_vars
  <2> QED
    BY <2>1, QuietFollows
<1>4. CASE test_close
  <2>1. /\ UNCHANGED <<packet_table, table, answer>>
        /\ db_phase' \in {db_phase, "closed", "failed"}
    BY <1>4 DEF test_close, db_close, db!close, map_vars
  <2> QED
    BY <2>1, QuietFollows
<1>5. CASE get_packets_fails
  BY <1>5, DbFailFollows DEF get_packets_fails
<1> QED
  BY <1>1, <1>2, <1>3, <1>4, <1>5, GetFollows DEF TestNext

LEMMA FollowsStutters ==
  ASSUME UNCHANGED test_vars
  PROVE  Follows
<1>1. UNCHANGED <<packet_table, table, answer, db_phase>>
  BY DEF test_vars, vars, map_vars, db_vars
<1> QED
  BY <1>1, FollowsUnlogged

\* For every count that fits an int, every capacity of the cache, every map and clock: a
\* program that starts on a new file keeps the promise of RowLog with the rows the flow
\* map has made.
THEOREM FileAlwaysFollowsMap ==
  ASSUME count < INT_HALF, Leftover = {<<>>}
  PROVE  TestSpec => FileFollowsMap
<1>1. FollowHypotheses
  BY PartsAssumption, ToolHypothesesHold DEF FollowHypotheses, ReaderHypotheses
<1>2. TestInit => FollowInv
  BY <1>1, FollowStarts
<1>3. FollowInv /\ [TestNext]_test_vars => FollowInv'
  BY <1>1, FollowStep, FollowStutters
<1>4. TestInit => db!Promise!Init
  <2> SUFFICES ASSUME TestInit PROVE db!Promise!Init
    OBVIOUS
  <2>1. /\ db_phase = "closed" /\ answer = <<>> /\ table \in [{"packet"} -> {<<>>}]
    BY <1>1 DEF TestInit, Init, FollowHypotheses
  <2>2. db!log = [t \in {"packet"} |-> <<>>]
    BY <2>1 DEF db!log
  <2> QED
    BY <2>1, <2>2 DEF db!Promise!Init
<1>5. FollowInv /\ [TestNext]_test_vars => [NoneNegative => db!Promise!Next]_<<db!log, answer, db_phase = "open">>
  <2>1. FollowInv /\ [TestNext]_test_vars => Follows
    BY <1>1, NextFollows, FollowsStutters
  <2> QED
    BY <2>1 DEF Follows
<1> QED
  BY <1>2, <1>3, <1>4, <1>5, PTL DEF TestSpec, FileFollowsMap

===============================================================================
