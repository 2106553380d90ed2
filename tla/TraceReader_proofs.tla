--------------------------- MODULE TraceReader_proofs ---------------------------
(***************************************************************************)
(* The packet budget and the times of the packets handed on, for any       *)
(* number and length of traces, any headers, times and widths of the clock. *)
(***************************************************************************)
EXTENDS TraceReader, Arithmetic_proofs

-----------------------------------------------------------------------------
(* "max packets to read": the budget the traces share. *)

\* The packets read, those still to be read and, within a trace, those of the trace
\* that are not taken off yet add up to the count, which reaches pcap_dispatch as it is.
BudgetInv ==
  /\ num_pkts \in Nat /\ num_pkts_to_read \in Nat /\ n \in Nat
  /\ num_pkts <= count
  /\ phase = "main" => num_pkts + num_pkts_to_read = count
  /\ phase = "dispatch" =>
       /\ num_pkts_to_read > 0 /\ cnt = num_pkts_to_read /\ n <= cnt
       /\ num_pkts - n + num_pkts_to_read = count

LEMMA InRange ==
  ASSUME NEW m \in Nat \ {0}, NEW x \in 0..(m - 1)
  PROVE  x % m = x
<1>1. x \in Int /\ 0 \in Int /\ x = m * 0 + x
  BY SMT
<1> QED
  BY <1>1, DivModUnique

\* The conversion to int keeps a count below 2^31.
LEMMA ToInt ==
  ASSUME NEW x \in 0..(INT_HALF - 1)
  PROVE  to_int(x) = x
<1>1. INT_HALF \in Nat \ {0}
  BY CountAssumption
<1>2. 2 * INT_HALF \in Nat \ {0} /\ x + INT_HALF \in 0..(2 * INT_HALF - 1)
  BY <1>1, SMT
<1> DEFINE m == 2 * INT_HALF
           y == x + INT_HALF
<1>3. y % m = y
  <2> HIDE DEF m, y
  <2> QED
    BY <1>2, InRange DEF m, y
<1> QED
  BY <1>1, <1>3, SMT DEF to_int

\* What is taken off after a trace is never more than is left.
LEMMA BudgetLeft ==
  ASSUME BudgetInv, dispatched
  PROVE  num_pkts_to_read' = num_pkts_to_read - n
<1>0. COUNT_RANGE \in Nat \ {0} /\ count \in 0..(COUNT_RANGE - 1) /\ count \in Nat
  BY CountAssumption, SMT
<1>1. /\ phase = "dispatch"
      /\ num_pkts_to_read' = (num_pkts_to_read - n) % COUNT_RANGE
  BY DEF dispatched
<1>2. num_pkts_to_read - n \in 0..(COUNT_RANGE - 1)
  BY <1>0, <1>1, SMT DEF BudgetInv
<1> QED
  BY <1>0, <1>1, <1>2, InRange

LEMMA BudgetStep ==
  ASSUME count < INT_HALF, BudgetInv, [Next]_vars
  PROVE  BudgetInv'
<1>0. /\ INT_HALF \in Nat \ {0} /\ COUNT_RANGE \in Nat \ {0} /\ count \in 0..(COUNT_RANGE - 1)
      /\ count \in Nat
  BY CountAssumption, SMT
<1>1. CASE skip_trace
  BY <1>1 DEF BudgetInv, skip_trace, stats
<1>2. CASE read_trace
  <2>1. phase = "main" /\ num_pkts_to_read > 0 /\ num_pkts + num_pkts_to_read = count
    BY <1>2 DEF read_trace, BudgetInv
  <2>2. num_pkts_to_read \in 0..(INT_HALF - 1)
    BY <2>1, <1>0, SMT DEF BudgetInv
  <2>3. to_int(num_pkts_to_read) = num_pkts_to_read
    BY <2>2, ToInt
  <2>4. UNCHANGED <<num_pkts, num_pkts_to_read>>
    BY <1>2 DEF read_trace, stats
  <2>5. CASE phase' = "dispatch" /\ cnt' = to_int(num_pkts_to_read) /\ n' = 0
    BY <2>1, <2>3, <2>4, <2>5, <1>0, SMT DEF BudgetInv
  <2>6. CASE phase' = "failed" /\ UNCHANGED <<cnt, n>>
    BY <2>4, <2>6, SMT DEF BudgetInv
  <2> QED
    BY <1>2, <2>5, <2>6 DEF read_trace
<1>3. CASE dispatched
  <2>1. /\ phase = "dispatch" /\ phase' = "main"
        /\ UNCHANGED <<num_pkts, n>>
    BY <1>3 DEF dispatched, stats
  <2>2. num_pkts_to_read' = num_pkts_to_read - n
    BY <1>3, BudgetLeft
  <2> QED
    BY <2>1, <2>2, <1>0, SMT DEF BudgetInv
<1>4. CASE dispatch_fails
  BY <1>4 DEF BudgetInv, dispatch_fails, stats
<1>5. CASE finish
  BY <1>5 DEF BudgetInv, finish, stats
<1>6. ASSUME NEW p \in Captured, process_packet(p)
      PROVE  BudgetInv'
  <2>1. /\ phase = "dispatch" /\ (cnt > 0 => n < cnt)
        /\ n' = n + 1 /\ num_pkts' = num_pkts + 1
        /\ phase' \in {"dispatch", "failed"}
        /\ UNCHANGED <<num_pkts_to_read, cnt>>
    BY <1>6 DEF process_packet
  <2> QED
    BY <2>1, <1>0, SMT DEF BudgetInv
<1>7. CASE UNCHANGED vars
  BY <1>7 DEF BudgetInv, vars, stats
<1> QED
  BY <1>1, <1>2, <1>3, <1>4, <1>5, <1>6, <1>7 DEF Next

\* A count that fits the int of pcap_dispatch is never exceeded (PCapReader.cpp),
\* however the packets are spread over the traces and whatever fails.
THEOREM CountAlwaysObeyed ==
  ASSUME count < INT_HALF
  PROVE  Spec => []CountObeyed
<1>1. Init => BudgetInv
  BY CountAssumption, SMT DEF Init, BudgetInv
<1>2. BudgetInv /\ [Next]_vars => BudgetInv'
  BY BudgetStep
<1>3. BudgetInv => CountObeyed
  BY DEF BudgetInv, CountObeyed
<1> QED
  BY <1>1, <1>2, <1>3, PTL DEF Spec

\* A trace is only left behind before its end when nothing is left of the budget.
DrainedInv ==
  /\ unread \in [Traces -> Nat] /\ iter \in Nat \ {0}
  /\ phase \in {"main", "dispatch", "done"} =>
       num_pkts_to_read = 0 \/ \A i \in Traces : i < iter => unread[i] = 0
  /\ phase = "dispatch" => iter \in Traces
  /\ phase = "done" => iter > NumTraces /\ num_pkts + num_pkts_to_read = count

LEMMA DrainedInit == Init => DrainedInv
<1> SUFFICES ASSUME Init PROVE DrainedInv
  OBVIOUS
<1>1. unread \in [Traces -> 0..MaxLength] /\ iter = 1 /\ phase = "main"
  BY DEF Init
<1>2. \A m \in Nat : 0..m \subseteq Nat
  OBVIOUS
<1>3. unread \in [Traces -> Nat]
  BY <1>1, <1>2, TracesAssumption
<1>4. \A i \in Traces : ~(i < 1)
  BY TracesAssumption DEF Traces
<1> QED
  BY <1>1, <1>3, <1>4 DEF DrainedInv

LEMMA DrainedStep ==
  ASSUME count < INT_HALF, BudgetInv, DrainedInv, [Next]_vars
  PROVE  DrainedInv'
<1>0. NumTraces \in Nat /\ Traces = 1..NumTraces /\ num_pkts_to_read \in Nat
  BY TracesAssumption DEF Traces, BudgetInv
<1>1. CASE skip_trace
  BY <1>0, <1>1 DEF DrainedInv, skip_trace, stats
<1>2. CASE read_trace
  <2>1. /\ UNCHANGED <<unread, iter, num_pkts_to_read, num_pkts>>
        /\ phase = "main" /\ phase' \in {"dispatch", "failed"} /\ iter <= NumTraces
    BY <1>2 DEF read_trace, stats
  <2>2. phase' = "dispatch" => iter' \in Traces'
    <3>1. iter \in Nat \ {0}
      BY DEF DrainedInv
    <3> QED
      BY <1>0, <2>1, <3>1
  <2> QED
    BY <2>1, <2>2 DEF DrainedInv
<1>3. CASE dispatched
  <2>1. /\ phase = "dispatch" /\ phase' = "main" /\ iter' = iter + 1
        /\ unread[iter] = 0 \/ (cnt > 0 /\ n = cnt)
        /\ UNCHANGED <<unread, num_pkts, n>>
    BY <1>3 DEF dispatched, stats
  <2>2. num_pkts_to_read' = num_pkts_to_read - n
    BY <1>3, BudgetLeft
  <2>3. num_pkts_to_read > 0 /\ cnt = num_pkts_to_read /\ iter \in Nat \ {0}
    BY <2>1 DEF BudgetInv, DrainedInv
  <2>4. num_pkts_to_read' = 0 \/ \A i \in Traces : i < iter + 1 => unread[i] = 0
    <3>1. CASE unread[iter] = 0
      <4>1. \A i \in Traces : i < iter => unread[i] = 0
        BY <2>1, <2>3 DEF DrainedInv
      <4>2. \A i \in Traces : i < iter + 1 => i < iter \/ i = iter
        BY <1>0, <2>3
      <4> QED
        BY <3>1, <4>1, <4>2
    <3>2. CASE n = cnt
      BY <1>0, <2>2, <2>3, <3>2
    <3> QED
      BY <2>1, <3>1, <3>2
  <2> QED
    BY <2>1, <2>3, <2>4 DEF DrainedInv
<1>4. CASE dispatch_fails
  BY <1>4 DEF DrainedInv, dispatch_fails, stats
<1>5. CASE finish
  BY <1>0, <1>5 DEF DrainedInv, BudgetInv, finish, stats
<1>6. ASSUME NEW p \in Captured, process_packet(p)
      PROVE  DrainedInv'
  <2>1. /\ phase = "dispatch" /\ phase' \in {"dispatch", "failed"} /\ unread[iter] > 0
        /\ unread' = [unread EXCEPT ![iter] = @ - 1]
        /\ UNCHANGED <<iter, num_pkts_to_read>>
    BY <1>6 DEF process_packet
  <2>2. iter \in Traces /\ unread \in [Traces -> Nat] /\ iter \in Nat \ {0}
    BY <2>1 DEF DrainedInv
  <2>3. unread[iter] - 1 \in Nat
    BY <2>1, <2>2
  <2>4. unread' \in [Traces -> Nat]
    BY <2>1, <2>2, <2>3
  <2>5. \A i \in Traces : i < iter => unread'[i] = unread[i]
    BY <1>0, <2>1, <2>2
  <2> QED
    BY <2>1, <2>2, <2>4, <2>5 DEF DrainedInv
<1>7. CASE UNCHANGED vars
  BY <1>7 DEF DrainedInv, vars, stats
<1> QED
  BY <1>1, <1>2, <1>3, <1>4, <1>5, <1>6, <1>7 DEF Next

LEMMA UnreadInAll ==
  ASSUME DrainedInv
  PROVE  IsSum(FoldFunction(+, 0, unread), unread, Traces)
<1>1. DOMAIN unread = Traces /\ Values(unread, Traces)
  BY DEF DrainedInv, Values
<1>2. IsFiniteSet(Traces)
  <2>1. 1 \in Int /\ NumTraces \in Int
    BY TracesAssumption
  <2> QED
    BY <2>1, FS_Interval DEF Traces
<1>3. IsSum(FoldFunctionOnSet(+, 0, unread, Traces), unread, Traces)
  BY <1>1, <1>2, FoldIsSum
<1> QED
  BY <1>1, <1>3 DEF FoldFunction

\* Nothing is left unread, or nothing is left of the budget.
LEMMA DrainedReads ==
  ASSUME BudgetInv, DrainedInv
  PROVE  ReadsAsAsked
<1> SUFFICES ASSUME phase = "done"
             PROVE  num_pkts = IF count < InAllTraces THEN count ELSE InAllTraces
  BY DEF ReadsAsAsked
<1>1. PICK left : left = FoldFunction(+, 0, unread)
  OBVIOUS
<1>2. InAllTraces = num_pkts + left /\ IsSum(left, unread, Traces)
  BY <1>1, UnreadInAll DEF InAllTraces
<1>3. /\ NumTraces \in Nat /\ Traces = 1..NumTraces
      /\ iter > NumTraces /\ iter \in Nat /\ unread \in [Traces -> Nat]
      /\ num_pkts_to_read = 0 \/ \A i \in Traces : i < iter => unread[i] = 0
      /\ num_pkts \in Nat /\ num_pkts_to_read \in Nat
      /\ num_pkts + num_pkts_to_read = count
  BY TracesAssumption DEF Traces, DrainedInv, BudgetInv
<1>4. IsFiniteSet(Traces)
  <2>1. 1 \in Int /\ NumTraces \in Int
    BY <1>3
  <2> QED
    BY <1>3, <2>1, FS_Interval
<1>5. left \in Nat
  <2>1. \A i \in Traces : unread[i] \in Nat
    BY <1>3
  <2> QED
    BY <1>2, <1>4, <2>1, SumOfNaturals
<1>6. CASE num_pkts_to_read = 0
  BY <1>2, <1>3, <1>5, <1>6
<1>7. CASE num_pkts_to_read # 0
  <2>1. \A i \in Traces : unread[i] = 0
    BY <1>3, <1>7
  <2>2. left = 0
    BY <1>2, <1>4, <2>1, SumOfZeros
  <2> QED
    BY <1>2, <1>3, <2>2
<1> QED
  BY <1>6, <1>7

\* A run that no error stops reads all packets of all traces, or count of them, in
\* whatever way they are spread over the traces (the loop of tcp_analysis_tool.cpp and
\* read_trace in PCapReader.cpp).
THEOREM AlwaysReadsAsAsked == Spec => []ReadsAsAsked
<1>1. CASE count < INT_HALF
  <2>1. Init => BudgetInv /\ DrainedInv
    BY CountAssumption, DrainedInit, SMT DEF Init, BudgetInv
  <2>2. BudgetInv /\ DrainedInv /\ [Next]_vars => BudgetInv' /\ DrainedInv'
    BY <1>1, BudgetStep, DrainedStep
  <2>3. BudgetInv /\ DrainedInv => ReadsAsAsked
    BY DrainedReads
  <2> QED
    BY <2>1, <2>2, <2>3, PTL DEF Spec
<1>2. CASE ~(count < INT_HALF)
  <2>1. ReadsAsAsked
    BY <1>2 DEF ReadsAsAsked
  <2>2. Init => ReadsAsAsked
    BY <2>1
  <2>3. [Next]_vars => ReadsAsAsked'
    BY <1>2 DEF ReadsAsAsked
  <2> QED
    BY <2>2, <2>3, PTL DEF Spec
<1> QED
  BY <1>1, <1>2

-----------------------------------------------------------------------------
(* The statistics, and the packets they are of. *)

IsSeen(p) == HasIpHeader(p.header) /\ p.header.version = 4
SeenIn(c) == {i \in DOMAIN c : IsSeen(c[i])}
FragmentsIn(c) == {i \in SeenIn(c) : IsFragment(c[i].header)}
Lengths(c) == [i \in DOMAIN c |-> c[i].header.datagram_len]

StatsInv ==
  /\ captured \in Seq(Captured)
  /\ num_pkts = Len(captured)
  /\ num_frag_pkts = Cardinality(FragmentsIn(captured))
  /\ IsSum(num_bytes, Lengths(captured), SeenIn(captured))

\* The places of a trace are few enough to count.
LEMMA SeenAreFinite ==
  ASSUME NEW c \in Seq(Captured)
  PROVE  /\ Len(c) \in Nat /\ DOMAIN c = 1..Len(c)
         /\ IsFiniteSet(SeenIn(c)) /\ IsFiniteSet(FragmentsIn(c))
         /\ Values(Lengths(c), SeenIn(c))
<1>1. Len(c) \in Nat /\ DOMAIN c = 1..Len(c)
  OBVIOUS
<1>2. IsFiniteSet(1..Len(c))
  <2>1. 1 \in Int /\ Len(c) \in Int
    BY <1>1
  <2> QED
    BY <2>1, FS_Interval
<1>3. SeenIn(c) \in SUBSET (1..Len(c)) /\ FragmentsIn(c) \in SUBSET (1..Len(c))
  BY <1>1 DEF SeenIn, FragmentsIn
<1>4. IsFiniteSet(SeenIn(c)) /\ IsFiniteSet(FragmentsIn(c))
  BY <1>2, <1>3, FS_Subset
<1>5. ASSUME NEW i \in SeenIn(c) PROVE Lengths(c)[i] \in Int
  <2>1. i \in DOMAIN c /\ c[i] \in Captured
    BY <1>1, <1>3
  <2>2. c[i].header \in Header
    BY <2>1, HeadersAssumption DEF Captured
  <2> QED
    BY <2>1, <2>2 DEF Lengths, Header
<1> QED
  BY <1>1, <1>4, <1>5 DEF Values

LEMMA StatsAreComplete == StatsInv => StatsComplete
<1> SUFFICES ASSUME StatsInv PROVE StatsComplete
  OBVIOUS
<1>1. PICK seen : seen = SeenIn(captured)
  OBVIOUS
<1>2. PICK lens : lens = Lengths(captured)
  OBVIOUS
<1>3. IsFiniteSet(seen) /\ Values(lens, seen)
  BY <1>1, <1>2, SeenAreFinite DEF StatsInv
<1>4. num_bytes = FoldFunctionOnSet(+, 0, lens, seen)
  <2>1. IsSum(num_bytes, lens, seen)
    BY <1>1, <1>2 DEF StatsInv
  <2>2. IsSum(FoldFunctionOnSet(+, 0, lens, seen), lens, seen)
    BY <1>3, FoldIsSum
  <2> QED
    BY <1>3, <2>1, <2>2, SumIsUnique
<1>5. seen = {i \in DOMAIN captured : HasIpHeader(captured[i].header)
                                      /\ captured[i].header.version = 4}
  BY <1>1 DEF SeenIn, IsSeen
<1>6. lens = [i \in DOMAIN captured |-> captured[i].header.datagram_len]
  BY <1>2 DEF Lengths
<1>7. num_frag_pkts = Cardinality({i \in seen : IsFragment(captured[i].header)})
  BY <1>1 DEF StatsInv, FragmentsIn
<1> QED
  BY <1>4, <1>5, <1>6, <1>7 DEF StatsInv, StatsComplete

\* One more packet.
LEMMA SeenAppended ==
  ASSUME NEW c \in Seq(Captured), NEW p \in Captured
  PROVE  LET d == Append(c, p)
             k == Len(c) + 1
         IN  /\ d \in Seq(Captured) /\ Len(d) = k
             /\ k \notin SeenIn(c) /\ k \notin FragmentsIn(c)
             /\ SeenIn(d) = IF IsSeen(p) THEN SeenIn(c) \cup {k} ELSE SeenIn(c)
             /\ FragmentsIn(d) = IF IsSeen(p) /\ IsFragment(p.header)
                                 THEN FragmentsIn(c) \cup {k} ELSE FragmentsIn(c)
             /\ Lengths(d)[k] = p.header.datagram_len
             /\ \A i \in SeenIn(c) : Lengths(d)[i] = Lengths(c)[i]
<1>1. PICK d : d = Append(c, p)
  OBVIOUS
<1>2. PICK k \in Nat : k = Len(c) + 1 /\ k >= 1
  OBVIOUS
<1>3. /\ d \in Seq(Captured) /\ Len(d) = k /\ DOMAIN c = 1..(k - 1) /\ DOMAIN d = 1..k
      /\ d[k] = p /\ \A i \in 1..(k - 1) : d[i] = c[i]
  BY <1>1, <1>2
<1>4. /\ k \notin 1..(k - 1) /\ k \in 1..k
      /\ \A i \in 1..k : i = k \/ i \in 1..(k - 1)
      /\ \A i \in 1..(k - 1) : i \in 1..k
  BY <1>2
<1>5. k \notin SeenIn(c) /\ k \notin FragmentsIn(c)
  BY <1>3, <1>4 DEF SeenIn, FragmentsIn
<1>6. SeenIn(d) = IF IsSeen(p) THEN SeenIn(c) \cup {k} ELSE SeenIn(c)
  BY <1>3, <1>4 DEF SeenIn
<1>7. FragmentsIn(d) = IF IsSeen(p) /\ IsFragment(p.header)
                       THEN FragmentsIn(c) \cup {k} ELSE FragmentsIn(c)
  BY <1>3, <1>4 DEF SeenIn, FragmentsIn
<1>8. Lengths(d)[k] = p.header.datagram_len
  BY <1>3, <1>4 DEF Lengths
<1>9. \A i \in SeenIn(c) : Lengths(d)[i] = Lengths(c)[i]
  BY <1>3, <1>4 DEF Lengths, SeenIn
<1> QED
  BY <1>1, <1>2, <1>3, <1>5, <1>6, <1>7, <1>8, <1>9

LEMMA StatsStep ==
  ASSUME StatsInv, [Next]_vars
  PROVE  StatsInv'
<1>1. CASE UNCHANGED <<captured, stats>>
  BY <1>1 DEF StatsInv, stats
<1>2. ASSUME NEW p \in Captured, process_packet(p)
      PROVE  StatsInv'
  <2>1. PICK c \in Seq(Captured) : c = captured
    BY DEF StatsInv
  <2>2. PICK d : d = Append(c, p)
    OBVIOUS
  <2>3. PICK k \in Nat : k = Len(c) + 1
    OBVIOUS
  <2>4. /\ captured' = d /\ num_pkts' = num_pkts + 1
        /\ num_bytes' = IF IsSeen(p) THEN num_bytes + p.header.datagram_len ELSE num_bytes
        /\ num_frag_pkts' = IF IsSeen(p) THEN num_frag_pkts + FragmentCount(p.header)
                            ELSE num_frag_pkts
    BY <1>2, <2>1, <2>2 DEF process_packet, IsSeen
  <2>5. /\ d \in Seq(Captured) /\ Len(d) = k
        /\ k \notin SeenIn(c) /\ k \notin FragmentsIn(c)
        /\ SeenIn(d) = IF IsSeen(p) THEN SeenIn(c) \cup {k} ELSE SeenIn(c)
        /\ FragmentsIn(d) = IF IsSeen(p) /\ IsFragment(p.header)
                            THEN FragmentsIn(c) \cup {k} ELSE FragmentsIn(c)
        /\ Lengths(d)[k] = p.header.datagram_len
        /\ \A i \in SeenIn(c) : Lengths(d)[i] = Lengths(c)[i]
    BY <2>2, <2>3, SeenAppended
  <2>6. /\ IsFiniteSet(SeenIn(c)) /\ IsFiniteSet(FragmentsIn(c))
        /\ Values(Lengths(c), SeenIn(c))
    BY SeenAreFinite
  <2>7. num_pkts' = Len(captured')
    BY <2>1, <2>3, <2>4, <2>5 DEF StatsInv
  <2>8. num_frag_pkts' = Cardinality(FragmentsIn(captured'))
    <3>1. num_frag_pkts = Cardinality(FragmentsIn(c)) /\ num_frag_pkts \in Nat
      BY <2>1, <2>6, FS_CardinalityType DEF StatsInv
    <3>2. CASE IsSeen(p) /\ IsFragment(p.header)
      <4>1. Cardinality(FragmentsIn(c) \cup {k}) = Cardinality(FragmentsIn(c)) + 1
        BY <2>5, <2>6, FS_AddElement
      <4> QED
        BY <2>4, <2>5, <3>1, <3>2, <4>1 DEF FragmentCount
    <3>3. CASE ~(IsSeen(p) /\ IsFragment(p.header))
      BY <2>4, <2>5, <3>1, <3>3 DEF FragmentCount
    <3> QED
      BY <3>2, <3>3
  <2>9. IsSum(num_bytes', Lengths(captured'), SeenIn(captured'))
    <3>1. IsSum(num_bytes, Lengths(c), SeenIn(c))
      BY <2>1 DEF StatsInv
    <3>2. p.header \in Header /\ p.header.datagram_len \in Int
      BY HeadersAssumption DEF Captured, Header
    <3>3. CASE IsSeen(p)
      <4>1. PICK w : w = Lengths(d)
        OBVIOUS
      <4>2. w[k] = p.header.datagram_len /\ w[k] \in Int
            /\ \A i \in SeenIn(c) : w[i] = Lengths(c)[i]
        BY <2>5, <3>2, <4>1
      <4>3. IsSum(num_bytes + w[k], w, SeenIn(c) \cup {k})
        BY <2>5, <2>6, <3>1, <4>2, SumWith
      <4> QED
        BY <2>4, <2>5, <3>3, <4>1, <4>2, <4>3
    <3>4. CASE ~IsSeen(p)
      <4>1. IsSum(num_bytes, Lengths(d), SeenIn(c))
        BY <2>5, <2>6, <3>1, SumOfSame
      <4> QED
        BY <2>4, <2>5, <3>4, <4>1
    <3> QED
      BY <3>3, <3>4
  <2> QED
    BY <2>4, <2>5, <2>7, <2>8, <2>9 DEF StatsInv
<1>3. CASE \E p \in Captured : process_packet(p)
  BY <1>2, <1>3
<1>4. CASE skip_trace \/ read_trace \/ dispatched \/ dispatch_fails \/ finish
  BY <1>4, <1>1 DEF skip_trace, read_trace, dispatched, dispatch_fails, finish
<1>5. CASE UNCHANGED vars
  BY <1>5, <1>1 DEF vars
<1> QED
  BY <1>3, <1>4, <1>5 DEF Next

\* What print_stats reports (Stats.cpp) is of every packet read, in a trace of any
\* length and any headers: no fragment is counted twice by the two tests of
\* process_packet, and the bytes are those of the datagrams.
THEOREM StatsAlwaysComplete == Spec => []StatsComplete
<1>1. Init => StatsInv
  <2> SUFFICES ASSUME Init PROVE StatsInv
    OBVIOUS
  <2>1. /\ captured = <<>> /\ num_pkts = 0 /\ num_bytes = 0 /\ num_frag_pkts = 0
        /\ captured \in Seq(Captured) /\ Len(captured) = 0
    BY DEF Init
  <2>2. SeenIn(captured) = {} /\ FragmentsIn(captured) = {}
    BY <2>1 DEF SeenIn, FragmentsIn
  <2> QED
    BY <2>1, <2>2, SumOfNone, FS_EmptySet DEF StatsInv
<1>2. StatsInv /\ [Next]_vars => StatsInv'
  BY StatsStep
<1> QED
  BY <1>1, <1>2, StatsAreComplete, PTL DEF Spec

-----------------------------------------------------------------------------
(* capture_start_time and the offsets measured from it. *)

\* timersub is a subtraction of times.
LEMMA SubtractIsExact ==
  ASSUME NEW t1 \in Int, NEW t2 \in Int
  PROVE  Subtract(t1, t2) = Packed(t1 - t2)
<1> DEFINE p == t1 \div USECS
           q == t2 \div USECS
           r == t1 % USECS
           s == t2 % USECS
<1>1. USECS \in Nat \ {0}
  BY ClockAssumption, SMT
<1>2. p \in Int /\ r \in 0..(USECS - 1) /\ q \in Int /\ s \in 0..(USECS - 1)
  BY <1>1, DivMod
<1>3. IF r < s THEN (t1 - t2) \div USECS = p - q - 1 /\ (t1 - t2) % USECS = r + USECS - s
      ELSE (t1 - t2) \div USECS = p - q /\ (t1 - t2) % USECS = r - s
  BY <1>1, Borrow
<1>4. Subtract(t1, t2) = IF r - s < 0 THEN TimeOffset(p - q - 1, r - s + USECS)
                         ELSE TimeOffset(p - q, r - s)
  BY DEF Subtract
<1>5. Packed(t1 - t2) = [sec |-> ((t1 - t2) \div USECS) % SECS, usec |-> (t1 - t2) % USECS]
  BY DEF Packed
<1> HIDE DEF p, q, r, s
<1>6. CASE r < s
  <2>1. r - s < 0 /\ r - s + USECS >= 0 /\ r - s + USECS = r + USECS - s
    BY <1>1, <1>2, <1>6, SMT
  <2>2. Subtract(t1, t2) = [sec |-> (p - q - 1) % SECS, usec |-> r + USECS - s]
    BY <2>1, <1>4 DEF TimeOffset
  <2> QED
    BY <2>2, <1>3, <1>5, <1>6
<1>7. CASE ~(r < s)
  <2>1. ~(r - s < 0) /\ r - s >= 0
    BY <1>2, <1>7, SMT
  <2>2. Subtract(t1, t2) = [sec |-> (p - q) % SECS, usec |-> r - s]
    BY <2>1, <1>4 DEF TimeOffset
  <2> QED
    BY <2>2, <1>3, <1>5, <1>7
<1> QED
  BY <1>6, <1>7

\* The start time is that of the first packet kept that was not captured at zero.
\* Until it is set every packet kept was captured at zero; then every offset is
\* measured from it, but those of packets that were kept before it was set.
StartInv ==
  /\ handed \in Seq(Handed)
  /\ capture_start_time \in Nat
  /\ handed = <<>> => capture_start_time = 0
  /\ capture_start_time = 0 => \A i \in DOMAIN handed : handed[i].time = 0
  /\ StartIsSet /\ handed # <<>> => capture_start_time = handed[1].time
  /\ \A i \in DOMAIN handed :
       \/ handed[i].t_off = Subtract(handed[i].time, capture_start_time)
       \/ ~StartIsSet /\ handed[i].time < capture_start_time

LEMMA StartStep ==
  ASSUME StartInv, [Next]_vars
  PROVE  StartInv'
<1>1. CASE UNCHANGED <<handed, capture_start_time>>
  BY <1>1 DEF StartInv, StartIsSet
<1>2. ASSUME NEW p \in Captured, process_packet(p), Kept(p.header)
      PROVE  StartInv'
  <2> DEFINE c == start_time(p.time)
             x == [segment |-> p.segment, time |-> p.time, t_off |-> Subtract(p.time, c)]
  <2>1. p.time \in Nat /\ p.time \in CaptureTimes /\ p.segment \in Segments
    BY TracesAssumption DEF Captured
  <2>2. handed' = Append(handed, x) /\ capture_start_time' = c
    BY <1>2 DEF process_packet
  <2>3. c = IF capture_start_time = 0 THEN p.time ELSE capture_start_time
    BY DEF start_time
  <2>4. c \in Nat
    BY <2>1, <2>3 DEF StartInv
  <2>5. Subtract(p.time, c) \in Word
    <3>1. p.time \in Int /\ c \in Int /\ p.time - c \in Int
      BY <2>1, <2>4, SMT
    <3> QED
      BY <3>1, SubtractIsExact, PackedIsWord
  <2>6. x \in Handed
    BY <2>1, <2>5 DEF Handed
  <2> HIDE DEF c
  <2>7. handed \in Seq(Handed)
    BY DEF StartInv
  <2>8. /\ handed' \in Seq(Handed) /\ Len(handed') = Len(handed) + 1 /\ Len(handed) \in Nat
        /\ DOMAIN handed = 1..Len(handed) /\ DOMAIN handed' = 1..(Len(handed) + 1)
        /\ \A i \in 1..Len(handed) : handed'[i] = handed[i]
        /\ handed'[Len(handed) + 1] = x
        /\ handed' # <<>>
    BY <2>2, <2>6, <2>7
  <2>9. x.time = p.time /\ x.t_off = Subtract(p.time, c)
    OBVIOUS
  <2> HIDE DEF x
  <2>10. CASE handed = <<>>
    <3>1. Len(handed) = 0 /\ handed'[1] = x
      BY <2>8, <2>10
    <3>2. StartIsSet' <=> p.time # 0
      BY <2>8, <2>9, <3>1 DEF StartIsSet
    <3>3. DOMAIN handed' = {1}
      BY <2>8, <3>1, SMT
    <3> QED
      BY <2>2, <2>3, <2>4, <2>8, <2>9, <3>1, <3>2, <3>3 DEF StartInv
  <2>11. CASE handed # <<>>
    <3>1. 1 \in 1..Len(handed) /\ handed'[1] = handed[1] /\ 1 \in DOMAIN handed
      BY <2>7, <2>8, <2>11
    <3>2. StartIsSet' <=> StartIsSet
      BY <2>8, <2>11, <3>1 DEF StartIsSet
    <3>3. StartIsSet => capture_start_time # 0 /\ capture_start_time = handed[1].time
      BY <2>11 DEF StartInv, StartIsSet
    <3>4. StartIsSet => c = capture_start_time
      BY <3>3, <2>3
    <3>5. \A i \in DOMAIN handed' :
            \/ handed'[i].t_off = Subtract(handed'[i].time, c)
            \/ ~StartIsSet /\ handed'[i].time < c
      <4> TAKE i \in DOMAIN handed'
      <4>1. CASE i = Len(handed) + 1
        BY <4>1, <2>8, <2>9
      <4>2. CASE i \in 1..Len(handed)
        <5>1. /\ handed'[i] = handed[i] /\ i \in DOMAIN handed
              /\ handed[i].time \in Nat
          <6>1. handed'[i] = handed[i] /\ i \in DOMAIN handed
            BY <4>2, <2>8
          <6>2. handed[i] \in Handed
            BY <4>2, <2>7, <2>8
          <6> QED
            BY <6>1, <6>2, TracesAssumption DEF Handed
        <5>2. CASE capture_start_time # 0
          BY <5>1, <5>2, <2>3 DEF StartInv
        <5>3. CASE capture_start_time = 0
          <6>1. handed[i].time = 0 /\ ~StartIsSet
            BY <5>1, <5>3, <3>3 DEF StartInv
          <6>2. CASE c = 0
            BY <5>1, <5>3, <6>1, <6>2 DEF StartInv
          <6>3. CASE c # 0
            BY <5>1, <6>1, <6>3, <2>4, SMT
          <6> QED
            BY <6>2, <6>3
        <5> QED
          BY <5>2, <5>3
      <4> QED
        BY <4>1, <4>2, <2>8, SMT
    <3>6. c = 0 => \A i \in DOMAIN handed' : handed'[i].time = 0
      <4> SUFFICES ASSUME c = 0, NEW i \in DOMAIN handed'
                   PROVE  handed'[i].time = 0
        OBVIOUS
      <4>1. capture_start_time = 0 /\ p.time = 0
        BY <2>3
      <4>2. CASE i = Len(handed) + 1
        BY <4>1, <4>2, <2>8, <2>9
      <4>3. CASE i \in 1..Len(handed)
        BY <4>1, <4>3, <2>8 DEF StartInv
      <4> QED
        BY <4>2, <4>3, <2>8, SMT
    <3> QED
      BY <2>2, <2>4, <2>8, <3>1, <3>2, <3>3, <3>4, <3>5, <3>6 DEF StartInv
  <2> QED
    BY <2>10, <2>11
<1>3. CASE \E p \in Captured : process_packet(p)
  <2>1. PICK p \in Captured : process_packet(p)
    BY <1>3
  <2>2. Kept(p.header) \/ UNCHANGED <<handed, capture_start_time>>
    BY <2>1 DEF process_packet
  <2> QED
    BY <2>1, <2>2, <1>1, <1>2
<1>4. CASE skip_trace \/ read_trace \/ dispatched \/ dispatch_fails \/ finish
  BY <1>4, <1>1 DEF skip_trace, read_trace, dispatched, dispatch_fails, finish
<1>5. CASE UNCHANGED vars
  BY <1>5, <1>1 DEF vars
<1> QED
  BY <1>3, <1>4, <1>5 DEF Next

\* What timeradd makes of a time and an offset.
LEMMA SecondsAndFractions ==
  ASSUME NEW q, NEW s, NEW dq, NEW dr
  PROVE  timeradd([sec |-> q, usec |-> s], [sec |-> dq, usec |-> dr])
         = IF s + dr >= USECS THEN [sec |-> q + dq + 1, usec |-> (s + dr) - USECS]
           ELSE [sec |-> q + dq, usec |-> s + dr]
  BY DEF timeradd

LEMMA StartAlways == Spec => []StartInv
<1>1. Init => StartInv
  <2>1. <<>> \in Seq(Handed) /\ DOMAIN <<>> = {}
    OBVIOUS
  <2> QED
    BY <2>1 DEF Init, StartInv
<1>2. StartInv /\ [Next]_vars => StartInv'
  BY StartStep
<1> QED
  BY <1>1, <1>2, PTL DEF Spec

LEMMA HandedTimes ==
  ASSUME StartInv, NEW i \in DOMAIN handed
  PROVE  handed[i].time \in Nat /\ 1 \in DOMAIN handed /\ handed # <<>>
<1>1. handed \in Seq(Handed)
  BY DEF StartInv
<1>2. handed[i] \in Handed /\ 1 \in DOMAIN handed /\ handed # <<>>
  BY <1>1
<1> QED
  BY <1>2, TracesAssumption DEF Handed

\* Every offset is measured from the first packet kept, in whatever trace it was and
\* however the capture times are ordered, if that packet was not captured at zero
\* (PCapReader.cpp, timerisset).
THEOREM OffsetsAlwaysFromFirstPacket == Spec => []OffsetsFromFirstPacket
<1>1. StartInv => OffsetsFromFirstPacket
  <2> SUFFICES ASSUME StartInv, StartIsSet, NEW i \in DOMAIN handed
               PROVE  handed[i].t_off = Subtract(handed[i].time, handed[1].time)
    BY DEF OffsetsFromFirstPacket
  <2>1. handed # <<>>
    BY HandedTimes
  <2> QED
    BY <2>1 DEF StartInv
<1> QED
  BY <1>1, StartAlways, PTL

\* What the flow map, the sampling and the inter-arrival times compute with is
\* elapsed time: the difference of two offsets is the time between the captures, for
\* every width of the clock and also of packets captured before the first one.
THEOREM OffsetsAlwaysTellElapsedTime == Spec => []OffsetsTellElapsedTime
<1>1. StartInv => OffsetsTellElapsedTime
  <2> SUFFICES ASSUME StartInv, StartIsSet, NEW i \in DOMAIN handed, NEW j \in DOMAIN handed
               PROVE  Minus(handed[j].t_off, handed[i].t_off)
                      = from_usec(handed[j].time - handed[i].time)
    BY DEF OffsetsTellElapsedTime
  <2> DEFINE c == handed[1].time
             x == handed[i].time
             y == handed[j].time
  <2>1. x \in Nat /\ y \in Nat /\ c \in Nat
    BY HandedTimes
  <2>2. handed[i].t_off = Subtract(x, c) /\ handed[j].t_off = Subtract(y, c)
    BY HandedTimes DEF StartInv
  <2> SUFFICES Minus(handed[j].t_off, handed[i].t_off) = from_usec(y - x)
    OBVIOUS
  <2> HIDE DEF c, x, y
  <2>3. handed[i].t_off = Packed(x - c) /\ handed[j].t_off = Packed(y - c)
    BY <2>1, <2>2, SubtractIsExact, SMT
  <2>4. x - c \in Int /\ y - c \in Int /\ y - x \in Int /\ (y - c) - (x - c) = y - x
    BY <2>1, SMT
  <2>5. Minus(Packed(y - c), Packed(x - c)) = Packed(y - x)
    BY <2>4, MinusIsExact
  <2> QED
    BY <2>3, <2>4, <2>5, FromUsec
<1> QED
  BY <1>1, StartAlways, PTL

\* The time printed for a packet is the time it was captured at (Packet.cpp,
\* time_to_str): adding the start time again undoes the subtraction.
THEOREM AlwaysPrintedWhenCaptured == Spec => []PrintedWhenCaptured
<1>1. StartInv => PrintedWhenCaptured
  <2> SUFFICES ASSUME StartInv, NEW i \in DOMAIN handed,
                      handed[i].time - capture_start_time \in 0..(SECS * USECS - 1)
               PROVE  real_time(handed[i].t_off) = timeval(handed[i].time)
    BY DEF PrintedWhenCaptured
  <2> DEFINE c == capture_start_time
             x == handed[i].time
             d == x - c
  <2>1. x \in Nat /\ c \in Nat
    BY HandedTimes DEF StartInv
  <2>2. d \in 0..(SECS * USECS - 1)
    OBVIOUS
  <2>3. handed[i].t_off = Subtract(x, c)
    <3>1. ~(x < c)
      <4> HIDE DEF x, c
      <4> QED
        BY <2>1, <2>2, SMT
    <3> QED
      BY <3>1 DEF StartInv
  <2> SUFFICES real_time(handed[i].t_off) = timeval(x)
    OBVIOUS
  <2> DEFINE p == x \div USECS
             q == c \div USECS
             r == x % USECS
             s == c % USECS
             dq == d \div USECS
             dr == d % USECS
  <2>4. timeval(c) = [sec |-> q, usec |-> s] /\ timeval(x) = [sec |-> p, usec |-> r]
    BY DEF timeval
  <2>5. real_time(handed[i].t_off) = timeradd([sec |-> q, usec |-> s], handed[i].t_off)
    BY <2>4 DEF real_time
  <2> HIDE DEF x, c
  <2>6. USECS \in Nat \ {0} /\ x \in Int /\ c \in Int /\ d \in Int
    BY <2>1, ClockAssumption, SMT
  <2>7. handed[i].t_off = [sec |-> dq, usec |-> dr]
    <3>1. handed[i].t_off = Packed(d)
      BY <2>3, <2>6, SubtractIsExact
    <3> HIDE DEF d
    <3> QED
      BY <3>1, <2>2, WithinTheClock DEF Packed
  <2>8. p \in Int /\ r \in 0..(USECS - 1) /\ q \in Int /\ s \in 0..(USECS - 1)
    BY <2>6, DivMod
  <2>9. IF r < s THEN dq = p - q - 1 /\ dr = r + USECS - s
        ELSE dq = p - q /\ dr = r - s
    BY <2>6, Borrow
  <2> DEFINE sum == timeradd([sec |-> q, usec |-> s], [sec |-> dq, usec |-> dr])
  <2>10. /\ s + dr >= USECS => sum = [sec |-> q + dq + 1, usec |-> (s + dr) - USECS]
         /\ ~(s + dr >= USECS) => sum = [sec |-> q + dq, usec |-> s + dr]
    <3> HIDE DEF p, q, r, s, d, dq, dr
    <3> QED
      BY SecondsAndFractions, Zenon
  <2>11. real_time(handed[i].t_off) = sum
    BY <2>5, <2>7
  <2> HIDE DEF p, q, r, s, d, dq, dr, sum
  <2>12. CASE r < s
    <3>1. s + dr >= USECS /\ q + dq + 1 = p /\ (s + dr) - USECS = r
      BY <2>6, <2>8, <2>9, <2>12, SMT
    <3> QED
      BY <3>1, <2>4, <2>10, <2>11
  <2>13. CASE ~(r < s)
    <3>1. ~(s + dr >= USECS) /\ q + dq = p /\ s + dr = r
      BY <2>6, <2>8, <2>9, <2>13, SMT
    <3> QED
      BY <3>1, <2>4, <2>10, <2>11
  <2> QED
    BY <2>12, <2>13
<1> QED
  BY <1>1, StartAlways, PTL
===============================================================================
