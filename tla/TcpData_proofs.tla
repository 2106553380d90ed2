----------------------------- MODULE TcpData_proofs -----------------------------
(***************************************************************************)
(* The loop over TCP options, for segments of any bytes, cut anywhere: it  *)
(* stays inside the captured options and inside sacks, and it moves on.    *)
(* For segments as a sender may send them, what is printed of the options  *)
(* is what was captured of them.  The stamps of one of those options are   *)
(* then compared (TimeStamp).                                              *)
(***************************************************************************)
EXTENDS TcpData, TimeStamp, Arithmetic_proofs, SequenceTheorems

\* raw_data and bytes_left move together, so that a read that bytes_left allows is a
\* read of captured bytes.
InStep == pos >= 0 /\ pos + bytes_left = OptionBytes(segment)

IInv == TypeOK /\ segment \in Segments /\ InStep

\* The options of a header fit into 40 bytes.
LEMMA AtMost40 ==
  ASSUME segment \in Segments
  PROVE  OptionBytes(segment) \in Int /\ OptionBytes(segment) <= 40
<1>1. segment \in Segment
  BY SegmentsAssumption
<1>2. segment.data_offset \in 0..(20 + MAX_OPTIONS) /\ segment.bytes_remaining \in Nat
  BY <1>1 DEF Segment
<1>3. segment.data_offset \in Int /\ segment.data_offset <= 60
  BY <1>2, SizesAssumption
<1> QED
  BY <1>2, <1>3 DEF OptionBytes

\* A number that bytes_left has room for is read from the captured bytes.
LEMMA ReadCaptured ==
  ASSUME segment \in Segments, NEW from \in Nat, NEW k \in Nat,
         from + k <= OptionBytes(segment)
  PROVE  Read(from, k) \in Seq(Byte)
<1>1. segment \in Segment /\ OptionBytes(segment) <= Len(segment.bytes)
  BY SegmentsAssumption
<1>2. segment.bytes \in Seq(Byte)
  BY <1>1 DEF Segment
<1>3. OptionBytes(segment) \in Int
  BY AtMost40
<1>4. ASSUME NEW b \in 1..k PROVE At(from + b - 1) \in Byte
  <2>1. from + b - 1 \in Nat /\ from + b - 1 < OptionBytes(segment)
    BY <1>3
  <2>2. from + b \in 1..Len(segment.bytes)
    BY <1>1, <1>2, <1>3, <2>1
  <2>3. At(from + b - 1) = segment.bytes[from + b]
    BY <2>1 DEF At
  <2> QED
    BY <1>2, <2>2, <2>3
<1> QED
  BY <1>4 DEF Read

\* So are kind and optlen.
LEMMA ByteCaptured ==
  ASSUME segment \in Segments, NEW p \in Nat, p < OptionBytes(segment)
  PROVE  At(p) \in Byte
<1>1. segment \in Segment /\ OptionBytes(segment) <= Len(segment.bytes)
  BY SegmentsAssumption
<1>2. segment.bytes \in Seq(Byte) /\ OptionBytes(segment) \in Int
  BY <1>1, AtMost40 DEF Segment
<1>3. p + 1 \in 1..Len(segment.bytes)
  BY <1>1, <1>2
<1> QED
  BY <1>2, <1>3 DEF At

\* No more blocks are seen than the length tells, and all of them are captured.
LEMMA BlocksCaptured ==
  ASSUME NEW blocks \in Nat, NEW left \in Nat
  PROVE  /\ CapturedBlocks(blocks, left) \in Nat
         /\ 8 * CapturedBlocks(blocks, left) <= left
BY DEF CapturedBlocks

\* What every turn of the loop does to the invariant, given what it found.
LEMMA TurnKeeps ==
  ASSUME IInv, reading, bytes_left > 0,
         NEW opts \in TcpOptions, NEW length \in Byte, NEW k \in Nat,
         opts.signature = options.signature, opts.lengths = options.lengths,
         Turn(opts, length, k), reading' \in BOOLEAN
  PROVE  IInv'
<1>1. kind \in Byte
  BY ByteCaptured DEF IInv, InStep, TypeOK, kind
<1>2. options' \in TcpOptions
  <2>1. /\ Append(opts.signature, kind) \in Seq(Byte)
        /\ Append(opts.lengths, length) \in Seq(Byte)
    BY <1>1 DEF TcpOptions
  <2> QED
    BY <2>1 DEF Turn, TcpOptions
<1>3. pos' \in Int /\ bytes_left' \in Int /\ segment' = segment
  BY DEF Turn, IInv, TypeOK
<1>4. InStep'
  BY <1>3 DEF Turn, IInv, InStep, TypeOK, OptionBytes
<1> QED
  BY <1>2, <1>3, <1>4 DEF IInv, TypeOK

\* A kind, its length and k bytes of value, of which bytes_left knows.
LEMMA ValueCaptured ==
  ASSUME IInv, bytes_left > 1, NEW k \in Nat, k <= after_optlen
  PROVE  Read(pos + 2, k) \in Seq(Byte)
<1>1. pos + 2 \in Nat /\ pos + 2 + k <= OptionBytes(segment)
  BY AtMost40 DEF IInv, TypeOK, InStep, after_optlen
<1> QED
  BY <1>1, ReadCaptured DEF IInv

\* The length of an option is captured when more than a byte is left.
LEMMA OptlenIsByte ==
  ASSUME IInv, bytes_left > 1
  PROVE  optlen \in Byte
<1>1. pos + 1 \in Nat /\ pos + 1 < OptionBytes(segment)
  BY AtMost40 DEF IInv, TypeOK, InStep
<1> QED
  BY <1>1, ByteCaptured DEF IInv, optlen

\* What the turn of a SACK option does to the options.
Blocks == optlen \div 8
Seen == CapturedBlocks(Blocks, after_optlen)
Edges == [k \in DOMAIN options.sacks \cup 0..(2 * Seen - 1) |->
            IF k < 2 * Seen THEN Read(pos + 2 + 4 * k, 4) ELSE options.sacks[k]]
SackOptions == [options EXCEPT !.sacks_optlen = Blocks, !.sacks = Edges]

\* Four blocks at most fit behind a kind and a length, and sacks has room for them.
LEMMA SackFits ==
  ASSUME IInv, selective_ack
  PROVE  /\ SackOptions \in TcpOptions /\ Turn(SackOptions, Seen, 2 + 8 * Blocks)
         /\ SackOptions.signature = options.signature /\ SackOptions.lengths = options.lengths
         /\ SackOptions.sacks = Edges
         /\ Blocks \in Nat /\ Seen \in Byte /\ bytes_left > 1 /\ reading /\ reading' = reading
         /\ \A k \in 0..(2 * Seen - 1) : Edges[k] = Read(pos + 2 + 4 * k, 4)
<1>1. bytes_left > 1 /\ reading /\ reading' = reading
  BY DEF selective_ack, HasOptlen
<1>2. Blocks \in Nat /\ Blocks \in Byte
  BY <1>1, OptlenIsByte DEF Byte, Blocks
<1>3. /\ bytes_left \in Int /\ pos \in Nat /\ pos + bytes_left = OptionBytes(segment)
      /\ OptionBytes(segment) \in Int /\ OptionBytes(segment) <= 40
      /\ options \in TcpOptions
  BY AtMost40 DEF IInv, TypeOK, InStep
<1>4. after_optlen \in Nat /\ after_optlen <= 38
  BY <1>1, <1>3 DEF after_optlen
<1>5. Seen \in Nat /\ 8 * Seen <= after_optlen
  BY <1>2, <1>4, BlocksCaptured DEF Seen
<1>6. Seen <= 4
  BY <1>4, <1>5
<1>7. DOMAIN options.sacks = 0..7 /\ options.sacks \in [0..7 -> Seq(Byte)]
  BY <1>3, SizesAssumption DEF TcpOptions
<1>8. DOMAIN options.sacks \cup 0..(2 * Seen - 1) = 0..7
  <2>1. 0..(2 * Seen - 1) \subseteq 0..7
    BY <1>5, <1>6
  <2> QED
    BY <1>7, <2>1
<1>9. ASSUME NEW k \in 0..7, k < 2 * Seen
      PROVE  Read(pos + 2 + 4 * k, 4) \in Seq(Byte)
  <2>1. 4 * k + 4 <= 8 * Seen
    BY <1>5, <1>9
  <2>2. pos + 2 + 4 * k \in Nat /\ pos + 2 + 4 * k + 4 <= OptionBytes(segment)
    BY <1>3, <1>5, <2>1 DEF after_optlen
  <2>3. segment \in Segments
    BY DEF IInv
  <2> QED
    BY <2>2, <2>3, ReadCaptured
<1>10. Edges \in [0..7 -> Seq(Byte)]
  <2>1. ASSUME NEW k \in 0..7
        PROVE  (IF k < 2 * Seen THEN Read(pos + 2 + 4 * k, 4) ELSE options.sacks[k]) \in Seq(Byte)
    BY <1>7, <1>9
  <2> QED
    BY <1>8, <2>1 DEF Edges
<1>11. SackOptions \in TcpOptions /\ SackOptions.signature = options.signature
       /\ SackOptions.lengths = options.lengths /\ SackOptions.sacks = Edges
  <2>1. Edges \in [0..(SACK_SLOTS - 1) -> Seq(Byte)]
    BY <1>10, SizesAssumption
  <2> QED
    BY <1>2, <1>3, <2>1 DEF TcpOptions, SackOptions
<1>12. Turn(SackOptions, Seen, 2 + 8 * Blocks)
  BY DEF selective_ack, SackOptions, Edges, Seen, Blocks
<1>13. \A k \in 0..(2 * Seen - 1) : Edges[k] = Read(pos + 2 + 4 * k, 4)
  <2>1. \A k \in 0..(2 * Seen - 1) : k < 2 * Seen /\ k \in DOMAIN options.sacks \cup 0..(2 * Seen - 1)
    BY <1>5
  <2> QED
    BY <2>1 DEF Edges
<1>14. Seen \in Byte
  BY <1>5, <1>6 DEF Byte
<1> QED
  BY <1>1, <1>2, <1>11, <1>12, <1>13, <1>14

\* So a SACK option keeps the invariant.
LEMMA SackInvariant ==
  ASSUME IInv, selective_ack
  PROVE  IInv'
<1>1. /\ SackOptions \in TcpOptions /\ Turn(SackOptions, Seen, 2 + 8 * Blocks)
      /\ SackOptions.signature = options.signature /\ SackOptions.lengths = options.lengths
      /\ Blocks \in Nat /\ Seen \in Byte /\ bytes_left > 1 /\ reading /\ reading' = reading
  BY SackFits
<1>2. reading' \in BOOLEAN
  BY <1>1 DEF IInv, TypeOK
<1>3. 2 + 8 * Blocks \in Nat /\ bytes_left > 0
  BY <1>1 DEF IInv, TypeOK
<1> QED
  BY <1>1, <1>2, <1>3, TurnKeeps

\* What the turn of an unknown option does to the options.
UnknownOptions ==
  [options EXCEPT !.unknown_opt_vals = @ \o Read(pos + 2, UnknownBytes)]

\* The bytes that it keeps are captured.
LEMMA UnknownFits ==
  ASSUME IInv, unknown_option
  PROVE  /\ UnknownOptions \in TcpOptions /\ Turn(UnknownOptions, UnknownBytes, optlen)
         /\ UnknownOptions.signature = options.signature
         /\ UnknownOptions.lengths = options.lengths
         /\ optlen \in Nat /\ UnknownBytes \in Byte /\ bytes_left > 1
         /\ reading /\ reading' = reading
         /\ Read(pos + 2, UnknownBytes) \in Seq(Byte)
<1>1. bytes_left > 1 /\ reading /\ reading' = reading
  BY DEF unknown_option, HasOptlen
<1>2. optlen \in Byte
  BY <1>1, OptlenIsByte
<1>3. bytes_left \in Int /\ options \in TcpOptions /\ bytes_left <= 40
  BY AtMost40 DEF IInv, TypeOK, InStep
<1>4. after_optlen \in Nat /\ after_optlen <= 38
  BY <1>1, <1>3 DEF after_optlen
<1>5. UnknownBytes \in Nat /\ UnknownBytes <= after_optlen
  BY <1>2, <1>4 DEF UnknownBytes, Byte
<1>6. Read(pos + 2, UnknownBytes) \in Seq(Byte)
  BY <1>1, <1>5, ValueCaptured
<1>7. options.unknown_opt_vals \o Read(pos + 2, UnknownBytes) \in Seq(Byte)
  BY <1>3, <1>6 DEF TcpOptions
<1>8. UnknownOptions \in TcpOptions /\ UnknownOptions.signature = options.signature
      /\ UnknownOptions.lengths = options.lengths
  BY <1>3, <1>7 DEF TcpOptions, UnknownOptions
<1>9. UnknownBytes \in Byte /\ optlen \in Nat
  BY <1>2, <1>4, <1>5 DEF Byte
<1>10. Turn(UnknownOptions, UnknownBytes, optlen)
  BY DEF unknown_option, UnknownOptions
<1> QED
  BY <1>1, <1>6, <1>8, <1>9, <1>10

\* An unknown option keeps the bytes its length tells, as far as they are captured.
LEMMA UnknownInvariant ==
  ASSUME IInv, unknown_option
  PROVE  IInv'
<1>1. /\ UnknownOptions \in TcpOptions /\ Turn(UnknownOptions, UnknownBytes, optlen)
      /\ UnknownOptions.signature = options.signature
      /\ UnknownOptions.lengths = options.lengths
      /\ optlen \in Nat /\ UnknownBytes \in Byte /\ bytes_left > 1
      /\ reading /\ reading' = reading
  BY UnknownFits
<1>2. reading' \in BOOLEAN /\ bytes_left > 0
  BY <1>1 DEF IInv, TypeOK
<1> QED
  BY <1>1, <1>2, TurnKeeps

-----------------------------------------------------------------------------
(* The type invariant. *)

\* Before the first turn.
LEMMA TypeInit == Init => IInv
<1> SUFFICES ASSUME Init PROVE IInv
  OBVIOUS
<1>1. segment \in Segment /\ segment \in Segments
  BY SegmentsAssumption DEF Init
<1>2. PICK j \in Junk :
        options = [mss |-> <<j, j>>, wscale |-> <<j>>,
                   sacks |-> [k \in 0..(SACK_SLOTS - 1) |-> <<j, j, j, j>>],
                   sacks_optlen |-> j, timestamps |-> <<j, j, j, j, j, j, j, j>>,
                   signature |-> <<>>, lengths |-> <<>>, unknown_opt_vals |-> <<>>]
  BY DEF Init
<1>3. j \in Byte
  BY JunkAssumption
<1>4. options \in TcpOptions
  BY <1>2, <1>3 DEF TcpOptions
<1>5. OptionBytes(segment) \in Int
  BY <1>1, AtMost40
<1> QED
  BY <1>1, <1>4, <1>5 DEF IInv, TypeOK, InStep, Init

\* Options of one number: each turn that reads it has seen that it is captured.
LEMMA NumbersInvariant ==
  ASSUME IInv, max_segment_size \/ window_scale \/ timestamp
  PROVE  IInv'
<1>1. bytes_left > 1 /\ bytes_left > 0 /\ reading /\ reading' \in BOOLEAN
  BY DEF max_segment_size, window_scale, timestamp, HasOptlen, IInv, TypeOK
<1>2. options \in TcpOptions /\ 0 \in Byte /\ 1 \in Byte
  BY DEF IInv, TypeOK, Byte
<1>3. CASE max_segment_size
  <2>1. CASE after_optlen >= 2
    <3>1. Read(pos + 2, 2) \in Seq(Byte)
      BY <1>1, <2>1, ValueCaptured DEF IInv, TypeOK, after_optlen
    <3>2. [options EXCEPT !.mss = Read(pos + 2, 2)] \in TcpOptions
      BY <1>2, <3>1 DEF TcpOptions
    <3> QED
      BY <1>1, <1>2, <1>3, <2>1, <3>2, TurnKeeps DEF max_segment_size, TcpOptions
  <2>2. CASE ~(after_optlen >= 2)
    BY <1>1, <1>2, <1>3, <2>2, TurnKeeps DEF max_segment_size
  <2> QED
    BY <2>1, <2>2
<1>4. CASE window_scale
  <2>1. CASE after_optlen >= 1
    <3>1. Read(pos + 2, 1) \in Seq(Byte)
      BY <1>1, <2>1, ValueCaptured DEF IInv, TypeOK, after_optlen
    <3>2. [options EXCEPT !.wscale = Read(pos + 2, 1)] \in TcpOptions
      BY <1>2, <3>1 DEF TcpOptions
    <3> QED
      BY <1>1, <1>2, <1>4, <2>1, <3>2, TurnKeeps DEF window_scale, TcpOptions
  <2>2. CASE ~(after_optlen >= 1)
    BY <1>1, <1>2, <1>4, <2>2, TurnKeeps DEF window_scale
  <2> QED
    BY <2>1, <2>2
<1>5. CASE timestamp
  <2>1. CASE after_optlen >= 8
    <3>1. Read(pos + 2, 8) \in Seq(Byte)
      BY <1>1, <2>1, ValueCaptured DEF IInv, TypeOK, after_optlen
    <3>2. [options EXCEPT !.timestamps = Read(pos + 2, 8)] \in TcpOptions
      BY <1>2, <3>1 DEF TcpOptions
    <3> QED
      BY <1>1, <1>2, <1>5, <2>1, <3>2, TurnKeeps DEF timestamp, TcpOptions
  <2>2. CASE ~(after_optlen >= 8)
    BY <1>1, <1>2, <1>5, <2>2, TurnKeeps DEF timestamp
  <2> QED
    BY <2>1, <2>2
<1> QED
  BY <1>3, <1>4, <1>5

\* Each turn keeps the invariant.
LEMMA StepInvariant ==
  ASSUME IInv, [Next]_vars
  PROVE  IInv'
<1>1. CASE loop_ends
  BY <1>1 DEF loop_ends, IInv, TypeOK, InStep, OptionBytes
<1>2. CASE end_of_options \/ no_operation \/ optlen_missing
  <2>1. reading /\ reading' \in BOOLEAN /\ Turn(options, 0, 1)
    BY <1>2, Zenon DEF end_of_options, no_operation, optlen_missing, IInv, TypeOK
  <2>2. bytes_left > 0
    BY <1>2 DEF end_of_options, no_operation, optlen_missing
  <2>3. options \in TcpOptions /\ 0 \in Byte
    BY DEF IInv, TypeOK, Byte
  <2> QED
    BY <2>1, <2>2, <2>3, TurnKeeps
<1>3. CASE max_segment_size \/ window_scale \/ timestamp
  BY <1>3, NumbersInvariant
<1>4. CASE sack_permitted
  <2>1. /\ reading /\ bytes_left > 0 /\ reading' \in BOOLEAN
        /\ Turn(options, 0, 2)
    BY <1>4 DEF sack_permitted, HasOptlen, IInv, TypeOK
  <2>2. options \in TcpOptions /\ 0 \in Byte
    BY DEF IInv, TypeOK, Byte
  <2> QED
    BY <2>1, <2>2, TurnKeeps
<1>5. CASE selective_ack
  BY <1>5, SackInvariant
<1>6. CASE unknown_option
  BY <1>6, UnknownInvariant
<1>7. CASE UNCHANGED vars
  BY <1>7 DEF vars, IInv, TypeOK, InStep, OptionBytes
<1> QED
  BY <1>1, <1>2, <1>3, <1>4, <1>5, <1>6, <1>7 DEF Next

\* For any bytes, cut anywhere: the loop stays inside the captured options, keeps
\* only bytes from there, and never writes past the eight places of sacks
\* (extract_tcp_options in TcpData.cpp).
THEOREM TypeCorrect == Spec => []TypeOK
<1>1. IInv => TypeOK
  BY DEF IInv
<1> QED
  BY <1>1, TypeInit, StepInvariant, PTL DEF Spec

\* Every turn moves on, but for the unknown option of length zero.
LEMMA StepProgress ==
  ASSUME IInv, [Next]_vars
  PROVE  [\/ reading' = FALSE
          \/ bytes_left' < bytes_left
          \/ kind \notin Known /\ optlen = 0]_vars
<1>1. bytes_left \in Int
  BY DEF IInv, TypeOK
<1>2. CASE loop_ends \/ end_of_options \/ optlen_missing
  BY <1>2 DEF loop_ends, end_of_options, optlen_missing
<1>3. CASE no_operation \/ max_segment_size \/ window_scale \/ sack_permitted \/ timestamp
  BY <1>1, <1>3 DEF no_operation, max_segment_size, window_scale, sack_permitted,
                    timestamp, Turn
<1>4. CASE selective_ack
  <2>1. optlen \in Byte
    BY <1>4, OptlenIsByte DEF selective_ack, HasOptlen
  <2>2. optlen \div 8 \in Nat
    BY <2>1 DEF Byte
  <2>3. bytes_left' = bytes_left - (2 + 8 * (optlen \div 8))
    BY <1>4 DEF selective_ack, Turn
  <2> QED
    BY <1>1, <2>2, <2>3
<1>5. CASE unknown_option
  <2>1. optlen \in Byte /\ kind \notin Known
    BY <1>5, OptlenIsByte DEF unknown_option, HasOptlen
  <2>2. bytes_left' = bytes_left - optlen
    BY <1>5 DEF unknown_option, Turn
  <2> QED
    BY <1>1, <2>1, <2>2 DEF Byte
<1>6. CASE UNCHANGED vars
  BY <1>6
<1> QED
  BY <1>2, <1>3, <1>4, <1>5, <1>6 DEF Next

\* Every turn of the loop ends it or consumes a byte, unless an unknown option tells
\* a length of zero: the only way for the loop not to end.
THEOREM LoopProgresses == Spec => Progress
BY TypeInit, StepInvariant, StepProgress, PTL DEF Spec, Progress

-----------------------------------------------------------------------------
(* Where the options of a segment begin. *)

SentOption == [kind : Byte, value : Seq(Byte)]
Sizes(sent) == [j \in DOMAIN sent |-> Size(sent[j])]

\* The length of an option on the wire.
LEMMA SizeOf ==
  ASSUME NEW o \in SentOption
  PROVE  /\ Size(o) \in Nat \ {0}
         /\ o.kind \in {EOL, NOP} => Size(o) = 1
         /\ o.kind \notin {EOL, NOP} => Size(o) = 2 + Len(o.value)
<1>1. Len(o.value) \in Nat
  BY DEF SentOption
<1> QED
  BY <1>1 DEF Size

\* An offset is the sum of the lengths before it.
LEMMA OffsetIsSum ==
  ASSUME NEW sent \in Seq(SentOption), NEW i \in 1..(Len(sent) + 1)
  PROVE  /\ IsSum(Offset(sent, i), Sizes(sent), 1..(i - 1))
         /\ \A j \in 1..(i - 1) : Sizes(sent)[j] \in Nat
         /\ IsFiniteSet(1..(i - 1))
<1>1. \A j \in DOMAIN sent : Sizes(sent)[j] \in Nat
  BY SizeOf DEF Sizes
<1>2. PICK n \in Nat : n = Len(sent)
  OBVIOUS
<1>3. 1..(i - 1) \subseteq DOMAIN sent
  BY <1>2
<1>4. IsFiniteSet(1..(i - 1))
  BY FS_Interval
<1>5. Values(Sizes(sent), 1..(i - 1))
  BY <1>1, <1>3 DEF Values
<1>6. Offset(sent, i) = FoldFunctionOnSet(+, 0, Sizes(sent), 1..(i - 1))
  BY DEF Offset, Sizes
<1> QED
  BY <1>1, <1>3, <1>4, <1>5, <1>6, FoldIsSum

\* The first option begins at once.
LEMMA OffsetFirst ==
  ASSUME NEW sent \in Seq(SentOption)
  PROVE  Offset(sent, 1) = 0
<1>1. 1 \in 1..(Len(sent) + 1)
  OBVIOUS
<1>2. IsSum(Offset(sent, 1), Sizes(sent), 1..(1 - 1))
  BY <1>1, OffsetIsSum
<1>3. 1..(1 - 1) = {}
  OBVIOUS
<1>4. IsFiniteSet({}) /\ \A x \in {} : Sizes(sent)[x] = 0
  BY FS_EmptySet
<1> QED
  BY <1>2, <1>3, <1>4, SumOfZeros

\* An offset is a number of bytes.
LEMMA OffsetType ==
  ASSUME NEW sent \in Seq(SentOption), NEW i \in 1..(Len(sent) + 1)
  PROVE  Offset(sent, i) \in Nat
BY OffsetIsSum, SumOfNaturals

\* An option begins where the one before it ends.
LEMMA OffsetNext ==
  ASSUME NEW sent \in Seq(SentOption), NEW i \in DOMAIN sent
  PROVE  Offset(sent, i + 1) = Offset(sent, i) + Size(sent[i])
<1>1. PICK n \in Nat : n = Len(sent)
  OBVIOUS
<1>2. i \in 1..n /\ i \in 1..(n + 1) /\ i + 1 \in 1..(n + 1)
  BY <1>1
<1>3. i \in 1..(Len(sent) + 1) /\ i + 1 \in 1..(Len(sent) + 1)
  BY <1>1, <1>2
<1>4. PICK S : S = 1..(i - 1)
  OBVIOUS
<1>5. 1..((i + 1) - 1) = S \cup {i} /\ i \notin S
  BY <1>2, <1>4
<1>6. /\ IsSum(Offset(sent, i), Sizes(sent), S) /\ IsFiniteSet(S)
      /\ \A j \in S : Sizes(sent)[j] \in Nat
  BY <1>3, <1>4, OffsetIsSum
<1>7. IsSum(Offset(sent, i + 1), Sizes(sent), S \cup {i})
  BY <1>3, <1>5, OffsetIsSum
<1>8. Sizes(sent)[i] = Size(sent[i]) /\ Sizes(sent)[i] \in Int
  BY SizeOf DEF Sizes
<1>9. PICK t : t = Offset(sent, i)
  OBVIOUS
<1>10. PICK v : v = Sizes(sent)
  OBVIOUS
<1>11. Values(v, S) /\ Values(v, S \cup {i}) /\ IsFiniteSet(S \cup {i})
  BY <1>6, <1>8, <1>10, FS_AddElement DEF Values
<1>12. IsSum(t + v[i], v, S \cup {i})
  <2>1. v[i] \in Int /\ IsSum(t, v, S) /\ \A x \in S : v[x] = v[x]
    BY <1>6, <1>8, <1>9, <1>10
  <2> QED
    BY <1>5, <1>6, <1>11, <2>1, SumWith
<1>13. Offset(sent, i + 1) = t + v[i]
  <2>1. IsSum(Offset(sent, i + 1), v, S \cup {i}) /\ \A x \in S \cup {i} : v[x] = v[x]
    BY <1>7, <1>10
  <2> QED
    BY <1>11, <1>12, <2>1, SumIsUnique
<1> QED
  BY <1>8, <1>9, <1>10, <1>13

\* An option ends where the next one begins, or before.
LEMMA OffsetsGrow ==
  ASSUME NEW sent \in Seq(SentOption), NEW i \in 1..(Len(sent) + 1), NEW j \in 1..(i - 1)
  PROVE  Offset(sent, j) + Size(sent[j]) <= Offset(sent, i)
<1>0. PICK n \in Nat : n = Len(sent)
  OBVIOUS
<1>1. j \in 1..n /\ j \in DOMAIN sent
  BY <1>0
<1> DEFINE Grows(k) == j + 1 + k <= n + 1 =>
                         Offset(sent, j) + Size(sent[j]) <= Offset(sent, j + 1 + k)
           N == {k \in Nat : Grows(k)}
<1>2. \A k \in 1..(n + 1) : Offset(sent, k) \in Nat
  BY <1>0, OffsetType
<1>3. \A k \in 1..n : Size(sent[k]) \in Nat /\ Offset(sent, k + 1) = Offset(sent, k) + Size(sent[k])
  BY <1>0, SizeOf, OffsetNext
<1>4. 0 \in N
  <2>1. Offset(sent, j + 1) = Offset(sent, j) + Size(sent[j]) /\ Offset(sent, j + 1) \in Nat
    BY <1>1, <1>2, <1>3
  <2>2. j + 1 + 0 = j + 1
    BY <1>1
  <2> QED
    BY <2>1, <2>2
<1>5. ASSUME NEW k \in N PROVE k + 1 \in N
  <2>1. k \in Nat /\ Grows(k)
    OBVIOUS
  <2> SUFFICES ASSUME j + 1 + (k + 1) <= n + 1
               PROVE  Offset(sent, j) + Size(sent[j]) <= Offset(sent, j + 1 + (k + 1))
    BY <2>1
  <2>2. PICK m \in 1..n : m = j + 1 + k
    BY <1>1, <2>1
  <2>3. j + 1 + (k + 1) = m + 1 /\ m <= n + 1 /\ m \in 1..(n + 1)
    BY <1>1, <2>1, <2>2
  <2>4. Offset(sent, m + 1) = Offset(sent, m) + Size(sent[m]) /\ Offset(sent, m) \in Nat
        /\ Size(sent[m]) \in Nat
    BY <1>2, <1>3, <2>3
  <2>5. Offset(sent, j) + Size(sent[j]) <= Offset(sent, m)
    BY <2>1, <2>2, <2>3
  <2>6. Offset(sent, j) + Size(sent[j]) \in Nat
    BY <1>1, <1>2, <1>3
  <2>7. Offset(sent, j) + Size(sent[j]) <= Offset(sent, m + 1)
    <3>1. PICK a \in Nat, b \in Nat, c \in Nat :
            a = Offset(sent, j) + Size(sent[j]) /\ b = Offset(sent, m) /\ c = Size(sent[m])
      BY <2>4, <2>6
    <3>2. a <= b + c
      BY <2>5, <3>1
    <3> QED
      BY <2>4, <3>1, <3>2
  <2> QED
    BY <2>3, <2>7
<1>6. N = Nat
  <2> HIDE DEF N
  <2>1. N \in SUBSET Nat
    BY DEF N
  <2> QED
    BY <1>4, <1>5, <2>1, NatSet
<1>7. PICK k \in Nat : i = j + 1 + k
  <2>1. i - j - 1 \in Nat /\ i = j + 1 + (i - j - 1)
    BY <1>0
  <2> QED
    BY <2>1
<1>8. Grows(k)
  BY <1>6
<1>9. i <= n + 1
  BY <1>0
<1> QED
  BY <1>7, <1>8, <1>9

-----------------------------------------------------------------------------
(* What the packet prints of options, and that a turn leaves it as it is. *)

UnknownAmong(opts, i) == {j \in 1..(i - 1) : opts.signature[j] \notin Known}
KeptBefore(opts, i) == FoldFunctionOnSet(+, 0, opts.lengths, UnknownAmong(opts, i))
Shows(opts, i) ==
  LET k == opts.signature[i]
      length == opts.lengths[i]
  IN  CASE k \in {EOL, NOP, SACK_PERM} -> <<>>
        [] k = MSS -> IF length # 0 THEN opts.mss ELSE <<>>
        [] k = WSCALE -> IF length # 0 THEN opts.wscale ELSE <<>>
        [] k = SACK -> [b \in 1..(8 * length) |->
                          opts.sacks[(b - 1) \div 4][((b - 1) % 4) + 1]]
        [] k = TIMESTAMP -> IF length # 0 THEN opts.timestamps ELSE <<>>
        [] OTHER -> SubSeq(opts.unknown_opt_vals, KeptBefore(opts, i) + 1,
                           KeptBefore(opts, i) + length)

\* The kinds that are known are different numbers.
LEMMA KindsDiffer ==
  /\ MSS \notin {EOL, NOP, SACK_PERM}
  /\ WSCALE \notin {EOL, NOP, SACK_PERM} /\ WSCALE # MSS
  /\ SACK \notin {EOL, NOP, SACK_PERM} /\ SACK # MSS /\ SACK # WSCALE
  /\ TIMESTAMP \notin {EOL, NOP, SACK_PERM}
  /\ TIMESTAMP # MSS /\ TIMESTAMP # WSCALE /\ TIMESTAMP # SACK
BY DEF EOL, NOP, MSS, WSCALE, SACK_PERM, SACK, TIMESTAMP

\* Where the value that is printed comes from, kind by kind.
LEMMA ShowsByKind ==
  ASSUME NEW opts, NEW i
  PROVE  /\ opts.signature[i] \in {EOL, NOP, SACK_PERM} => Shows(opts, i) = <<>>
         /\ opts.signature[i] = MSS =>
              Shows(opts, i) = IF opts.lengths[i] # 0 THEN opts.mss ELSE <<>>
         /\ opts.signature[i] = WSCALE =>
              Shows(opts, i) = IF opts.lengths[i] # 0 THEN opts.wscale ELSE <<>>
         /\ opts.signature[i] = SACK =>
              Shows(opts, i) = [b \in 1..(8 * opts.lengths[i]) |->
                                  opts.sacks[(b - 1) \div 4][((b - 1) % 4) + 1]]
         /\ opts.signature[i] = TIMESTAMP =>
              Shows(opts, i) = IF opts.lengths[i] # 0 THEN opts.timestamps ELSE <<>>
         /\ opts.signature[i] \notin Known =>
              Shows(opts, i) = SubSeq(opts.unknown_opt_vals, KeptBefore(opts, i) + 1,
                                      KeptBefore(opts, i) + opts.lengths[i])
<1>1. opts.signature[i] \in {EOL, NOP, SACK_PERM} => Shows(opts, i) = <<>>
  BY KindsDiffer, Zenon DEF Shows
<1>2. opts.signature[i] = MSS =>
        Shows(opts, i) = IF opts.lengths[i] # 0 THEN opts.mss ELSE <<>>
  BY KindsDiffer, Zenon DEF Shows
<1>3. opts.signature[i] = WSCALE =>
        Shows(opts, i) = IF opts.lengths[i] # 0 THEN opts.wscale ELSE <<>>
  BY KindsDiffer, Zenon DEF Shows
<1>4. opts.signature[i] = SACK =>
        Shows(opts, i) = [b \in 1..(8 * opts.lengths[i]) |->
                            opts.sacks[(b - 1) \div 4][((b - 1) % 4) + 1]]
  BY KindsDiffer, Zenon DEF Shows
<1>5. opts.signature[i] = TIMESTAMP =>
        Shows(opts, i) = IF opts.lengths[i] # 0 THEN opts.timestamps ELSE <<>>
  BY KindsDiffer, Zenon DEF Shows
<1>6. opts.signature[i] \notin Known =>
        Shows(opts, i) = SubSeq(opts.unknown_opt_vals, KeptBefore(opts, i) + 1,
                                KeptBefore(opts, i) + opts.lengths[i])
  BY Zenon DEF Shows, Known
<1> QED
  BY <1>1, <1>2, <1>3, <1>4, <1>5, <1>6

\* Shows is what the packet prints, of any options instead of those of the state.
LEMMA ShowsIsPrinted ==
  ASSUME NEW i
  PROVE  /\ PrintedValue(i) = Shows(options, i)
         /\ UnknownBefore(i) = KeptBefore(options, i)
<1>1. UnknownBefore(i) = KeptBefore(options, i)
  BY DEF UnknownBefore, KeptBefore, UnknownAmong
<1> QED
  BY <1>1 DEF PrintedValue, Shows, UnknownValue

\* signature and lengths have one number per option.
Paired(opts, n) ==
  /\ opts \in TcpOptions /\ n \in Nat
  /\ Len(opts.signature) = n /\ Len(opts.lengths) = n

\* new has one option more than opts.
OneMore(opts, new, n, k, length) ==
  /\ Paired(opts, n) /\ Paired(new, n + 1)
  /\ \A j \in 1..n : /\ new.signature[j] = opts.signature[j]
                     /\ new.lengths[j] = opts.lengths[j]
  /\ new.signature[n + 1] = k /\ new.lengths[n + 1] = length

\* What a list has after Append.
LEMMA Appended ==
  ASSUME NEW s \in Seq(Byte), NEW e \in Byte
  PROVE  /\ Append(s, e) \in Seq(Byte) /\ Len(Append(s, e)) = Len(s) + 1
         /\ \A j \in 1..Len(s) : Append(s, e)[j] = s[j]
         /\ Append(s, e)[Len(s) + 1] = e
OBVIOUS

\* The place of an unknown option's value is the sum of the lengths of those before.
LEMMA KeptBeforeIsSum ==
  ASSUME NEW opts, NEW n, Paired(opts, n), NEW i \in 1..(n + 1)
  PROVE  /\ IsSum(KeptBefore(opts, i), opts.lengths, UnknownAmong(opts, i))
         /\ \A j \in UnknownAmong(opts, i) : j \in 1..n /\ opts.lengths[j] \in Nat
         /\ IsFiniteSet(UnknownAmong(opts, i))
         /\ KeptBefore(opts, i) \in Nat
<1>1. PICK lengths : lengths = opts.lengths
  OBVIOUS
<1>2. n \in Nat /\ lengths \in Seq(Byte) /\ Len(lengths) = n
  BY <1>1 DEF Paired, TcpOptions
<1>3. PICK S : S = UnknownAmong(opts, i)
  OBVIOUS
<1>4. S \subseteq 1..n
  BY <1>2, <1>3 DEF UnknownAmong
<1>5. IsFiniteSet(S)
  <2>1. IsFiniteSet(1..n)
    BY <1>2, FS_Interval
  <2> QED
    BY <1>4, <2>1, FS_Subset
<1>6. \A j \in S : j \in 1..n /\ lengths[j] \in Nat
  <2>1. \A j \in 1..n : lengths[j] \in Byte
    BY <1>2
  <2> QED
    BY <1>4, <2>1 DEF Byte
<1>7. Values(lengths, S)
  BY <1>6 DEF Values
<1>8. IsSum(KeptBefore(opts, i), lengths, S)
  BY <1>1, <1>3, <1>5, <1>7, FoldIsSum DEF KeptBefore
<1>9. KeptBefore(opts, i) \in Nat
  <2>1. \A x \in S : lengths[x] \in Nat
    BY <1>6
  <2> QED
    BY <1>5, <1>8, <2>1, SumOfNaturals
<1> QED
  BY <1>1, <1>3, <1>5, <1>6, <1>8, <1>9

\* The options before one more option are where they were.
LEMMA KeptBeforeStays ==
  ASSUME NEW opts, NEW new, NEW n, NEW k, NEW length, OneMore(opts, new, n, k, length),
         NEW i \in 1..(n + 1)
  PROVE  KeptBefore(new, i) = KeptBefore(opts, i)
<1>1. Paired(opts, n) /\ Paired(new, n + 1) /\ n \in Nat
  BY DEF OneMore, Paired
<1>2. i \in 1..((n + 1) + 1)
  BY <1>1
<1>3. PICK S : S = UnknownAmong(opts, i)
  OBVIOUS
<1>4. UnknownAmong(new, i) = S
  BY <1>1, <1>3 DEF UnknownAmong, OneMore
<1>5. IsSum(KeptBefore(opts, i), opts.lengths, S) /\ IsFiniteSet(S)
      /\ \A j \in S : j \in 1..n /\ opts.lengths[j] \in Nat
  BY <1>1, <1>3, KeptBeforeIsSum
<1>6. IsSum(KeptBefore(new, i), new.lengths, S)
  BY <1>1, <1>2, <1>4, KeptBeforeIsSum
<1>7. PICK v, w : v = opts.lengths /\ w = new.lengths
  OBVIOUS
<1>8. Values(v, S) /\ \A x \in S : v[x] = w[x]
  BY <1>5, <1>7 DEF Values, OneMore
<1> QED
  BY <1>5, <1>6, <1>7, <1>8, SumIsUnique

\* The value of the next unknown option comes behind the one before.
LEMMA KeptBeforeNext ==
  ASSUME NEW opts, NEW n, Paired(opts, n), NEW i \in 1..n
  PROVE  KeptBefore(opts, i + 1) = IF opts.signature[i] \notin Known
                                   THEN KeptBefore(opts, i) + opts.lengths[i]
                                   ELSE KeptBefore(opts, i)
<1>1. n \in Nat /\ i \in 1..(n + 1) /\ i + 1 \in 1..(n + 1)
  BY DEF Paired
<1>2. PICK S, T, v : S = UnknownAmong(opts, i) /\ T = UnknownAmong(opts, i + 1)
                     /\ v = opts.lengths
  OBVIOUS
<1>3. IsSum(KeptBefore(opts, i), v, S) /\ IsFiniteSet(S) /\ \A j \in S : v[j] \in Nat
  BY <1>1, <1>2, KeptBeforeIsSum
<1>4. IsSum(KeptBefore(opts, i + 1), v, T) /\ IsFiniteSet(T) /\ \A j \in T : v[j] \in Nat
  BY <1>1, <1>2, KeptBeforeIsSum
<1>5. 1..((i + 1) - 1) = 1..(i - 1) \cup {i} /\ i \notin 1..(i - 1)
  BY <1>1
<1>6. T = IF opts.signature[i] \notin Known THEN S \cup {i} ELSE S
  BY <1>2, <1>5 DEF UnknownAmong
<1>7. i \notin S
  BY <1>2, <1>5 DEF UnknownAmong
<1>8. Values(v, S) /\ Values(v, T) /\ \A x \in S \cup T : v[x] = v[x]
  BY <1>3, <1>4 DEF Values
<1>9. CASE opts.signature[i] \notin Known
  <2>1. T = S \cup {i} /\ v[i] \in Int
    BY <1>4, <1>6, <1>9
  <2>2. PICK t : t = KeptBefore(opts, i)
    OBVIOUS
  <2>3. IsSum(t + v[i], v, S \cup {i})
    <3>1. IsSum(t, v, S) /\ \A x \in S : v[x] = v[x]
      BY <1>3, <2>2
    <3> QED
      BY <1>3, <1>7, <1>8, <2>1, <3>1, SumWith
  <2>4. KeptBefore(opts, i + 1) = t + v[i]
    <3>1. IsSum(t + v[i], v, T) /\ \A x \in T : v[x] = v[x]
      BY <2>1, <2>3
    <3> QED
      BY <1>4, <1>8, <3>1, SumIsUnique
  <2> QED
    BY <1>2, <1>9, <2>2, <2>4
<1>10. CASE ~(opts.signature[i] \notin Known)
  <2>1. T = S /\ \A x \in S : v[x] = v[x]
    BY <1>6, <1>10
  <2>2. KeptBefore(opts, i + 1) = KeptBefore(opts, i)
    BY <1>3, <1>4, <1>8, <2>1, SumIsUnique
  <2> QED
    BY <1>10, <2>2
<1> QED
  BY <1>9, <1>10

\* A turn that appends an option of kind k changes nothing that an earlier option is
\* printed from: fields of another kind, and a part of unknown_opt_vals further on.
Untouched(opts, new, j) ==
  /\ opts.signature[j] = MSS => new.mss = opts.mss
  /\ opts.signature[j] = WSCALE => new.wscale = opts.wscale
  /\ opts.signature[j] = SACK => new.sacks = opts.sacks
  /\ opts.signature[j] = TIMESTAMP => new.timestamps = opts.timestamps
  /\ opts.signature[j] \notin Known =>
       /\ KeptBefore(opts, j) + opts.lengths[j] <= Len(opts.unknown_opt_vals)
       /\ \E w \in Seq(Byte) : new.unknown_opt_vals = opts.unknown_opt_vals \o w

\* A part of s is the same part of s \o w.
LEMMA PartOfJoined ==
  ASSUME NEW s \in Seq(Byte), NEW w \in Seq(Byte), NEW a \in Nat, NEW l \in Nat,
         a + l <= Len(s)
  PROVE  SubSeq(s \o w, a + 1, a + l) = SubSeq(s, a + 1, a + l)
<1>1. PICK n \in Nat, m \in Nat : n = Len(s) /\ m = Len(w)
  OBVIOUS
<1>2. s \o w \in Seq(Byte) /\ Len(s \o w) = n + m
  BY <1>1
<1>3. \A j \in 1..n : (s \o w)[j] = s[j]
  BY <1>1
<1>4. \A j \in 1..l : a + 1 + j - 1 \in 1..n
  BY <1>1
<1>5. SubSeq(s, a + 1, a + l) = [j \in 1..l |-> s[a + 1 + j - 1]]
  <2>1. (a + l) - (a + 1) + 1 = l
    OBVIOUS
  <2> QED
    BY <2>1
<1>6. SubSeq(s \o w, a + 1, a + l) = [j \in 1..l |-> (s \o w)[a + 1 + j - 1]]
  <2>1. (a + l) - (a + 1) + 1 = l
    OBVIOUS
  <2> QED
    BY <2>1
<1> QED
  BY <1>3, <1>4, <1>5, <1>6

\* One more option does not change what is printed of those before it.
LEMMA ShowsStays ==
  ASSUME NEW opts, NEW new, NEW n, NEW k, NEW length, OneMore(opts, new, n, k, length),
         NEW j \in 1..n, Untouched(opts, new, j)
  PROVE  Shows(new, j) = Shows(opts, j)
<1>1. n \in Nat /\ j \in 1..(n + 1) /\ opts \in TcpOptions /\ Paired(opts, n)
  BY DEF OneMore, Paired
<1>4. new.signature[j] = opts.signature[j] /\ new.lengths[j] = opts.lengths[j]
  BY DEF OneMore
<1>5. KeptBefore(new, j) = KeptBefore(opts, j)
  BY <1>1, KeptBeforeStays
<1>6. CASE opts.signature[j] \in {EOL, NOP, SACK_PERM}
  BY <1>4, <1>6, ShowsByKind
<1>7. CASE opts.signature[j] = MSS
  <2>1. new.mss = opts.mss
    BY <1>7 DEF Untouched
  <2> QED
    BY <1>4, <1>7, <2>1, ShowsByKind
<1>8. CASE opts.signature[j] = WSCALE
  <2>1. new.wscale = opts.wscale
    BY <1>8 DEF Untouched
  <2> QED
    BY <1>4, <1>8, <2>1, ShowsByKind
<1>9. CASE opts.signature[j] = SACK
  <2>1. new.sacks = opts.sacks
    BY <1>9 DEF Untouched
  <2>2. Shows(opts, j) = [b \in 1..(8 * opts.lengths[j]) |->
                            opts.sacks[(b - 1) \div 4][((b - 1) % 4) + 1]]
    BY <1>9, ShowsByKind
  <2>3. new.signature[j] = SACK
    BY <1>4, <1>9
  <2>4. Shows(new, j) = [b \in 1..(8 * new.lengths[j]) |->
                           new.sacks[(b - 1) \div 4][((b - 1) % 4) + 1]]
    BY <2>3, ShowsByKind
  <2> QED
    BY <1>4, <2>1, <2>2, <2>4, Zenon
<1>10. CASE opts.signature[j] = TIMESTAMP
  <2>1. new.timestamps = opts.timestamps
    BY <1>10 DEF Untouched
  <2> QED
    BY <1>4, <1>10, <2>1, ShowsByKind
<1>11. CASE opts.signature[j] \notin Known
  <2>1. PICK w \in Seq(Byte) : new.unknown_opt_vals = opts.unknown_opt_vals \o w
    BY <1>11 DEF Untouched
  <2>2. PICK a, l, s : a = KeptBefore(opts, j) /\ l = opts.lengths[j] /\ s = opts.unknown_opt_vals
    OBVIOUS
  <2>3. s \in Seq(Byte) /\ a + l <= Len(s)
    BY <1>1, <1>11, <2>2 DEF Untouched, TcpOptions
  <2>4. a \in Nat /\ l \in Nat
    <3>1. opts.lengths \in Seq(Byte) /\ Len(opts.lengths) = n
      BY <1>1 DEF Paired, TcpOptions
    <3>2. l \in Byte
      BY <2>2, <3>1
    <3>3. KeptBefore(opts, j) \in Nat
      BY <1>1, KeptBeforeIsSum
    <3>4. \A e \in Byte : e \in Nat
      BY DEF Byte
    <3> QED
      BY <2>2, <3>2, <3>3, <3>4, Zenon
  <2>5. SubSeq(s \o w, a + 1, a + l) = SubSeq(s, a + 1, a + l)
    BY <2>3, <2>4, PartOfJoined
  <2>6. Shows(opts, j) = SubSeq(s, a + 1, a + l)
    BY <1>11, <2>2, ShowsByKind
  <2>7. Shows(new, j) = SubSeq(s \o w, a + 1, a + l)
    <3>1. new.signature[j] \notin Known
      BY <1>4, <1>11
    <3>2. Shows(new, j) = SubSeq(new.unknown_opt_vals, KeptBefore(new, j) + 1,
                                 KeptBefore(new, j) + new.lengths[j])
      BY <3>1, ShowsByKind
    <3> QED
      BY <1>4, <1>5, <2>1, <2>2, <3>2
  <2> QED
    BY <2>5, <2>6, <2>7
<1> QED
  BY <1>6, <1>7, <1>8, <1>9, <1>10, <1>11 DEF Known

-----------------------------------------------------------------------------
(* The bytes read are those of the options that were sent. *)

\* The parts of a segment.
LEMMA SegmentType ==
  ASSUME segment \in Segments
  PROVE  /\ segment.sent \in Seq(SentOption) /\ segment.bytes \in Seq(Byte)
         /\ segment.data_offset \in 0..60 /\ segment.bytes_remaining \in Nat
         /\ OptionBytes(segment) \in Int /\ OptionBytes(segment) <= Len(segment.bytes)
         /\ OptionBytes(segment) <= segment.data_offset - 20
<1>1. segment \in Segment /\ OptionBytes(segment) <= Len(segment.bytes)
  BY SegmentsAssumption
<1>2. segment.data_offset \in 0..60 /\ segment.bytes_remaining \in Nat
  BY <1>1, SizesAssumption DEF Segment
<1>3. segment.sent \in Seq(SentOption) /\ segment.bytes \in Seq(Byte)
  BY <1>1 DEF Segment, SentOption
<1>4. OptionBytes(segment) \in Int /\ OptionBytes(segment) <= segment.data_offset - 20
  BY <1>2 DEF OptionBytes
<1> QED
  BY <1>1, <1>2, <1>3, <1>4

\* A byte that was captured is the byte that was sent.
LEMMA WireRead ==
  ASSUME segment \in Segments, AsSent(segment), NEW i \in DOMAIN segment.sent,
         NEW b \in 1..Size(segment.sent[i]),
         Offset(segment.sent, i) + b <= OptionBytes(segment)
  PROVE  At(Offset(segment.sent, i) + b - 1) = Wire(segment.sent[i])[b]
<1>1. segment.bytes[Offset(segment.sent, i) + b] = Wire(segment.sent[i])[b]
  BY DEF AsSent
<1>2. PICK x : x = Offset(segment.sent, i)
  OBVIOUS
<1>3. PICK c \in Int : c = OptionBytes(segment)
  BY SegmentType
<1>4. segment.sent \in Seq(SentOption) /\ i \in 1..(Len(segment.sent) + 1)
  BY SegmentType
<1>5. x \in Nat
  BY <1>2, <1>4, OffsetType
<1>6. segment.sent[i] \in SentOption
  BY <1>4
<1>7. b \in Nat
  BY <1>6, SizeOf
<1>8. x + b - 1 < c /\ (x + b - 1) + 1 = x + b
  BY <1>2, <1>3, <1>5, <1>7
<1> QED
  BY <1>1, <1>2, <1>3, <1>8 DEF At

\* Its first byte is the kind of an option, its second one the length.
LEMMA OptionRead ==
  ASSUME segment \in Segments, AsSent(segment), NEW i \in DOMAIN segment.sent
  PROVE  /\ segment.sent[i] \in SentOption /\ Offset(segment.sent, i) \in Nat
         /\ Offset(segment.sent, i) < OptionBytes(segment) =>
              At(Offset(segment.sent, i)) = segment.sent[i].kind
         /\ segment.sent[i].kind \notin {EOL, NOP} /\ Offset(segment.sent, i) + 1 < OptionBytes(segment) =>
              At(Offset(segment.sent, i) + 1) = 2 + Len(segment.sent[i].value)
<1>1. segment.sent \in Seq(SentOption) /\ i \in 1..(Len(segment.sent) + 1)
  BY SegmentType
<1>2. PICK x \in Nat : x = Offset(segment.sent, i)
  BY <1>1, OffsetType
<1>3. PICK c \in Int : c = OptionBytes(segment)
  BY SegmentType
<1>4. PICK o \in SentOption : o = segment.sent[i]
  BY <1>1
<1>5. PICK s \in Nat \ {0} : s = Size(o)
  BY SizeOf
<1>6. o.value \in Seq(Byte) /\ Len(o.value) \in Nat
  BY DEF SentOption
<1>7. x < c => At(x) = o.kind
  <2> SUFFICES ASSUME x < c PROVE At(x) = o.kind
    OBVIOUS
  <2>1. 1 \in 1..s /\ x + 1 <= c /\ x + 1 - 1 = x
    BY <1>5
  <2>2. At(x + 1 - 1) = Wire(o)[1]
    BY <1>2, <1>3, <1>4, <1>5, <2>1, WireRead
  <2>3. Wire(o)[1] = o.kind
    BY <1>6 DEF Wire
  <2> QED
    BY <2>1, <2>2, <2>3
<1>8. o.kind \notin {EOL, NOP} /\ x + 1 < c => At(x + 1) = 2 + Len(o.value)
  <2> SUFFICES ASSUME o.kind \notin {EOL, NOP}, x + 1 < c PROVE At(x + 1) = 2 + Len(o.value)
    OBVIOUS
  <2>0. s = 2 + Len(o.value)
    BY <1>5, SizeOf
  <2>1. 2 \in 1..s /\ x + 2 <= c /\ x + 2 - 1 = x + 1
    BY <1>6, <2>0
  <2>2. At(x + 2 - 1) = Wire(o)[2]
    BY <1>2, <1>3, <1>4, <1>5, <2>1, WireRead
  <2>3. Wire(o)[2] = s
    <3>1. Wire(o) = <<o.kind, s>> \o o.value
      BY <1>5 DEF Wire
    <3>2. (<<o.kind, s>> \o o.value)[2] = s
      BY <1>6
    <3> QED
      BY <3>1, <3>2
  <2> QED
    BY <2>0, <2>1, <2>2, <2>3
<1> QED
  BY <1>1, <1>2, <1>3, <1>4, <1>7, <1>8

\* A number of a value.
LEMMA ValueByteRead ==
  ASSUME segment \in Segments, AsSent(segment), NEW i \in DOMAIN segment.sent,
         segment.sent[i].kind \notin {EOL, NOP},
         NEW b \in 1..Len(segment.sent[i].value),
         Offset(segment.sent, i) + 2 + b <= OptionBytes(segment)
  PROVE  At(Offset(segment.sent, i) + 2 + b - 1) = segment.sent[i].value[b]
<1>1. PICK o \in SentOption : o = segment.sent[i]
  BY OptionRead
<1>2. PICK x \in Nat : x = Offset(segment.sent, i)
  BY OptionRead
<1>3. o.value \in Seq(Byte) /\ o.kind \notin {EOL, NOP} /\ b \in 1..Len(o.value)
  BY <1>1 DEF SentOption
<1>4. Size(o) = 2 + Len(o.value)
  BY <1>3, SizeOf
<1>5. 2 + b \in 1..Size(segment.sent[i]) /\ x + (2 + b) = x + 2 + b
  BY <1>1, <1>3, <1>4
<1>6. At(x + (2 + b) - 1) = Wire(o)[2 + b]
  BY <1>1, <1>2, <1>5, WireRead
<1>7. Wire(o) = <<o.kind, Size(o)>> \o o.value
  BY <1>3 DEF Wire
<1>8. PICK h : h = <<o.kind, Size(o)>>
  OBVIOUS
<1>9. (h \o o.value)[2 + b] = o.value[b]
  BY <1>3, <1>8
<1> QED
  BY <1>1, <1>2, <1>5, <1>6, <1>7, <1>8, <1>9

\* The first k bytes of a value, read where the option lies.
LEMMA ValueRead ==
  ASSUME segment \in Segments, AsSent(segment), NEW i \in DOMAIN segment.sent,
         segment.sent[i].kind \notin {EOL, NOP},
         NEW k \in Nat, k <= Len(segment.sent[i].value),
         Offset(segment.sent, i) + 2 + k <= OptionBytes(segment)
  PROVE  Read(Offset(segment.sent, i) + 2, k) = SubSeq(segment.sent[i].value, 1, k)
<1>1. PICK v \in Seq(Byte) : v = segment.sent[i].value
  BY OptionRead DEF SentOption
<1>2. PICK x \in Nat : x = Offset(segment.sent, i)
  BY OptionRead
<1>3. PICK c \in Int : c = OptionBytes(segment)
  BY SegmentType
<1>4. ASSUME NEW b \in 1..k PROVE At(x + 2 + b - 1) = v[b]
  <2>1. b \in 1..Len(v) /\ x + 2 + b <= c
    BY <1>1, <1>2, <1>3
  <2> QED
    BY <1>1, <1>2, <1>3, <2>1, ValueByteRead
<1>5. SubSeq(v, 1, k) = [b \in 1..k |-> v[b]]
  <2>1. SubSeq(v, 1, k) = [b \in 1..(k - 1 + 1) |-> v[1 + b - 1]]
    BY <1>1
  <2>2. k - 1 + 1 = k /\ \A b \in 1..k : 1 + b - 1 = b
    OBVIOUS
  <2> QED
    BY <2>1, <2>2
<1>6. Read(x + 2, k) = [b \in 1..k |-> At(x + 2 + b - 1)]
  BY DEF Read
<1> QED
  BY <1>1, <1>2, <1>4, <1>5, <1>6

\* What is present has room for k bytes in whole units, if it has room for k bytes.
LEMMA WholeMultiple ==
  ASSUME NEW u \in {1, 2, 8}, NEW present \in Int, NEW k \in Nat, k <= present, k % u = 0
  PROVE  (present \div u) * u >= k /\ (present \div u) * u \in Int
<1>1. CASE u = 1
  BY <1>1
<1>2. CASE u = 2
  BY <1>2
<1>3. CASE u = 8
  BY <1>3
<1> QED
  BY <1>1, <1>2, <1>3

\* The numbers of a value that are captured whole.
LEMMA CapturedPart ==
  ASSUME segment \in Segments, AsSent(segment), NEW i \in DOMAIN segment.sent,
         NEW present \in Int, present = OptionBytes(segment) - Offset(segment.sent, i) - 2,
         NEW u \in {1, 2, 8}, u = Unit(segment.sent[i]),
         NEW k \in Nat, k <= Len(segment.sent[i].value),
         \/ k = Len(segment.sent[i].value) /\ k <= present /\ k % u = 0
         \/ present < 0 /\ k = 0
         \/ present >= 0 /\ k = (present \div u) * u
  PROVE  CapturedValue(i) = SubSeq(segment.sent[i].value, 1, k)
<1>1. PICK n \in Nat : n = Len(segment.sent[i].value)
  BY OptionRead DEF SentOption
<1>2. PICK whole : whole = IF present < 0 THEN 0 ELSE (present \div u) * u
  OBVIOUS
<1>3. CapturedValue(i) = SubSeq(segment.sent[i].value, 1, IF whole < n THEN whole ELSE n)
  BY <1>1, <1>2 DEF CapturedValue
<1>4. CASE k = Len(segment.sent[i].value) /\ k <= present /\ k % u = 0
  <2>8. (present \div u) * u >= k /\ (present \div u) * u \in Int
    BY <1>4, WholeMultiple
  <2>9. present >= 0
    BY <1>4
  <2>10. PICK w \in Int : w = (present \div u) * u
    BY <2>8
  <2>11. whole = w /\ w >= k /\ k = n
    BY <1>1, <1>2, <1>4, <2>8, <2>9, <2>10
  <2>12. (IF whole < n THEN whole ELSE n) = k
    BY <2>10, <2>11
  <2> QED
    BY <1>3, <2>12
<1>5. CASE present < 0 /\ k = 0
  <2>1. whole = k
    BY <1>2, <1>5
  <2> QED
    BY <1>1, <1>3, <2>1
<1>6. CASE present >= 0 /\ k = (present \div u) * u
  <2>1. whole = k
    BY <1>2, <1>6
  <2> QED
    BY <1>1, <1>3, <2>1
<1> QED
  BY <1>4, <1>5, <1>6, Zenon

-----------------------------------------------------------------------------
(* What is true between the turns, for segments as senders send them. *)

\* The options read so far are the first ones sent, all of them begin within what was
\* captured, and when the loop has ended no other does.
SoFar ==
  LET n == Len(options.signature)
      sent == segment.sent
  IN  /\ Len(options.lengths) = n /\ n <= Len(sent)
      /\ \A j \in 1..n : /\ options.signature[j] = sent[j].kind
                         /\ Offset(sent, j) < OptionBytes(segment)
      /\ \A j \in 1..(n - 1) : sent[j].kind # EOL
      /\ reading => /\ pos = Offset(sent, n + 1)
                    /\ \A j \in 1..n : sent[j].kind # EOL
      /\ ~reading => Reached = 1..n

\* Each of them is printed with what was captured of its value, and the values of the
\* unknown ones are in unknown_opt_vals, one behind the other.
ValuesKept ==
  LET n == Len(options.signature)
      sent == segment.sent
  IN  /\ \A j \in 1..n : Shows(options, j) = CapturedValue(j)
      /\ \A j \in 1..n : sent[j].kind = TIMESTAMP /\ options.lengths[j] # 0 =>
           CapturedValue(j) = sent[j].value
      /\ KeptBefore(options, n + 1) = Len(options.unknown_opt_vals)
      /\ \A j \in 1..n : sent[j].kind \notin Known =>
           KeptBefore(options, j) + options.lengths[j] <= Len(options.unknown_opt_vals)

\* The turn reads the i-th option, o.
AtOption(i, o) ==
  /\ i \in DOMAIN segment.sent /\ i \in Nat \ {0} /\ Len(options.signature) = i - 1
  /\ Len(options.lengths) = i - 1
  /\ o = segment.sent[i] /\ o \in SentOption /\ Size(o) \in Nat \ {0}
  /\ pos = Offset(segment.sent, i) /\ pos \in Nat /\ kind = o.kind
  /\ bytes_left \in Nat \ {0} /\ bytes_left = OptionBytes(segment) - pos

\* Every option before one that begins in the captured bytes begins there, too.
LEMMA OffsetsInOrder ==
  ASSUME NEW sent \in Seq(SentOption), NEW i \in 1..(Len(sent) + 1), NEW j \in 1..i
  PROVE  Offset(sent, j) <= Offset(sent, i)
<1>0. PICK n \in Nat : n = Len(sent)
  OBVIOUS
<1>1. j \in 1..(n + 1) /\ i \in 1..(n + 1)
  BY <1>0
<1>2. Offset(sent, j) \in Nat /\ Offset(sent, i) \in Nat
  BY <1>0, <1>1, OffsetType
<1>3. CASE j = i
  BY <1>2, <1>3
<1>4. CASE j # i
  <2>1. j \in 1..(i - 1) /\ j \in DOMAIN sent
    BY <1>0, <1>1, <1>4
  <2>2. Offset(sent, j) + Size(sent[j]) <= Offset(sent, i)
    BY <2>1, OffsetsGrow
  <2>3. Size(sent[j]) \in Nat
    BY <2>1, SizeOf
  <2> QED
    BY <1>2, <2>2, <2>3
<1> QED
  BY <1>3, <1>4

\* While bytes are left, the loop is at the next of the options that were sent.
LEMMA AtNext ==
  ASSUME IInv, AsSent(segment), SoFar, reading, bytes_left > 0
  PROVE  \E i, o : AtOption(i, o)
<1>1. segment \in Segments /\ options \in TcpOptions /\ pos \in Int /\ bytes_left \in Int
      /\ pos >= 0 /\ pos + bytes_left = OptionBytes(segment)
  BY DEF IInv, TypeOK, InStep
<1>2. PICK n \in Nat, m \in Nat : n = Len(options.signature) /\ m = Len(segment.sent)
  BY <1>1, SegmentType DEF TcpOptions
<1>3. segment.sent \in Seq(SentOption)
  BY <1>1, SegmentType
<1>4. PICK i : i = n + 1
  OBVIOUS
<1>5. pos = Offset(segment.sent, i) /\ n <= m /\ Len(options.lengths) = n
  BY <1>2, <1>4 DEF SoFar
<1>6. PICK c \in Int : c = OptionBytes(segment)
  BY <1>1, SegmentType
<1>7. i <= m
  <2> SUFFICES ASSUME n = m PROVE FALSE
    BY <1>2, <1>4, <1>5
  <2>1. Offset(segment.sent, m + 1) = segment.data_offset - 20
    BY <1>2 DEF AsSent
  <2>2. pos = segment.data_offset - 20
    BY <1>4, <1>5, <2>1
  <2>3. c <= segment.data_offset - 20
    BY <1>1, <1>6, SegmentType
  <2>4. segment.data_offset \in Int
    <3>1. segment.data_offset \in 0..60
      BY <1>1, SegmentType
    <3> QED
      BY <3>1
  <2> QED
    BY <1>1, <1>6, <2>2, <2>3, <2>4
<1>8. i \in 1..m /\ i \in DOMAIN segment.sent /\ i \in Nat \ {0} /\ n = i - 1
  BY <1>2, <1>3, <1>4, <1>7
<1>9. PICK o : o = segment.sent[i]
  OBVIOUS
<1>10. o \in SentOption /\ Size(o) \in Nat \ {0}
  BY <1>3, <1>8, <1>9, SizeOf
<1>11. kind = o.kind
  <2>1. Offset(segment.sent, i) < OptionBytes(segment)
    BY <1>1, <1>5
  <2>2. At(Offset(segment.sent, i)) = segment.sent[i].kind
    BY <1>1, <1>8, <2>1, OptionRead
  <2> QED
    BY <1>5, <1>9, <2>2 DEF kind
<1>12. bytes_left \in Nat \ {0} /\ bytes_left = OptionBytes(segment) - pos /\ pos \in Nat
  BY <1>1
<1>13. AtOption(i, o)
  BY <1>2, <1>5, <1>8, <1>9, <1>10, <1>11, <1>12 DEF AtOption
<1> QED
  BY <1>13

\* What a turn does to the list of options.
LEMMA TurnMoves ==
  ASSUME IInv, AsSent(segment), SoFar, reading, NEW i, NEW o, AtOption(i, o),
         segment' = segment, NEW length, OneMore(options, options', i - 1, o.kind, length),
         \/ reading' = TRUE /\ o.kind # EOL /\ pos' = pos + Size(o)
         \/ reading' = FALSE /\ (o.kind = EOL \/ bytes_left <= Size(o))
  PROVE  SoFar'
<1>1. segment \in Segments /\ segment.sent \in Seq(SentOption)
  BY SegmentType DEF IInv
<1>2. PICK m \in Nat : m = Len(segment.sent)
  BY <1>1
<1>3. PICK sent, c : sent = segment.sent /\ c = OptionBytes(segment)
  OBVIOUS
<1>4. c \in Int /\ segment'.sent = sent /\ OptionBytes(segment') = c
  BY <1>1, <1>3, SegmentType
<1>5. i \in 1..m /\ i \in DOMAIN sent /\ i \in Nat \ {0} /\ o = sent[i] /\ Size(o) \in Nat \ {0}
      /\ pos = Offset(sent, i) /\ pos \in Nat /\ pos < c
      /\ bytes_left = c - pos /\ bytes_left \in Nat \ {0}
  BY <1>1, <1>2, <1>3, <1>4 DEF AtOption
<1>6. /\ Len(options'.signature) = i /\ Len(options'.lengths) = i
      /\ options'.signature[i] = o.kind
      /\ \A j \in 1..(i - 1) : options'.signature[j] = options.signature[j]
  BY <1>5 DEF OneMore, Paired
<1>7. \A j \in 1..(i - 1) : /\ options.signature[j] = sent[j].kind
                            /\ Offset(sent, j) < c
                            /\ sent[j].kind # EOL
  BY <1>3 DEF SoFar, AtOption
<1>8. \A j \in 1..i : options'.signature[j] = sent[j].kind /\ Offset(sent, j) < c
  <2> SUFFICES ASSUME NEW j \in 1..i
               PROVE  options'.signature[j] = sent[j].kind /\ Offset(sent, j) < c
    OBVIOUS
  <2>1. CASE j = i
    BY <1>5, <1>6, <2>1
  <2>2. CASE j # i
    <3>1. j \in 1..(i - 1)
      BY <1>5, <2>2
    <3> QED
      BY <1>6, <1>7, <3>1
  <2> QED
    BY <2>1, <2>2
<1>9. reading' = TRUE => pos' = Offset(sent, i + 1) /\ \A j \in 1..i : sent[j].kind # EOL
  <2> SUFFICES ASSUME reading' = TRUE
               PROVE  pos' = Offset(sent, i + 1) /\ \A j \in 1..i : sent[j].kind # EOL
    OBVIOUS
  <2>1. o.kind # EOL /\ pos' = pos + Size(o)
    OBVIOUS
  <2>2. Offset(sent, i + 1) = Offset(sent, i) + Size(sent[i])
    BY <1>1, <1>3, <1>5, OffsetNext
  <2>3. ASSUME NEW j \in 1..i PROVE sent[j].kind # EOL
    <3>1. j = i \/ j \in 1..(i - 1)
      BY <1>5
    <3> QED
      BY <1>5, <1>7, <2>1, <3>1
  <2> QED
    BY <1>5, <2>1, <2>2, <2>3
<1>10. reading' = FALSE => Reached' = 1..i
  <2> SUFFICES ASSUME reading' = FALSE PROVE Reached' = 1..i
    OBVIOUS
  <2>1. Reached' = {j \in DOMAIN sent : /\ Offset(sent, j) < c
                                        /\ \A k \in 1..(j - 1) : sent[k].kind # EOL}
    BY <1>4 DEF Reached
  <2>2. DOMAIN sent = 1..m
    BY <1>1, <1>2, <1>3
  <2>3. ASSUME NEW j \in 1..i
        PROVE  j \in 1..m /\ Offset(sent, j) < c /\ \A k \in 1..(j - 1) : sent[k].kind # EOL
    <3>1. \A k \in 1..(j - 1) : k \in 1..(i - 1)
      BY <1>5
    <3>2. j \in 1..m
      BY <1>5
    <3> QED
      BY <1>7, <1>8, <3>1, <3>2
  <2>4. ASSUME NEW j \in 1..m, j \notin 1..i,
               Offset(sent, j) < c, \A k \in 1..(j - 1) : sent[k].kind # EOL
        PROVE  FALSE
    <3>1. i \in 1..(j - 1) /\ j \in 1..(Len(sent) + 1)
      BY <1>2, <1>3, <1>5, <2>4
    <3>2. o.kind # EOL
      BY <1>5, <2>4, <3>1
    <3>3. bytes_left <= Size(o)
      BY <3>2
    <3>4. Offset(sent, i) + Size(sent[i]) <= Offset(sent, j)
      BY <1>1, <1>3, <3>1, OffsetsGrow
    <3>5. Offset(sent, j) \in Nat
      BY <1>1, <1>3, <3>1, OffsetType
    <3>6. PICK x \in Nat, y \in Nat, s \in Nat :
            x = Offset(sent, i) /\ y = Offset(sent, j) /\ s = Size(o)
      BY <1>5, <3>5
    <3>7. x + s <= y /\ y < c /\ c - x <= s
      BY <1>5, <2>4, <3>3, <3>4, <3>6
    <3> QED
      BY <1>4, <3>6, <3>7
  <2> QED
    BY <2>1, <2>2, <2>3, <2>4, Zenon
<1>11. reading' = TRUE \/ reading' = FALSE
  OBVIOUS
<1> QED
  BY <1>2, <1>3, <1>4, <1>5, <1>6, <1>7, <1>8, <1>9, <1>10, <1>11 DEF SoFar

\* When no byte is left, every option that begins in the captured bytes was read.
LEMMA EndMoves ==
  ASSUME IInv, AsSent(segment), SoFar, loop_ends
  PROVE  SoFar'
<1>1. segment \in Segments /\ segment.sent \in Seq(SentOption) /\ options \in TcpOptions
  BY SegmentType DEF IInv, TypeOK
<1>2. PICK m \in Nat, n \in Nat : m = Len(segment.sent) /\ n = Len(options.signature)
  BY <1>1 DEF TcpOptions
<1>3. PICK sent, c : sent = segment.sent /\ c = OptionBytes(segment)
  OBVIOUS
<1>4. c \in Int /\ UNCHANGED <<segment, options>> /\ reading /\ reading' = FALSE /\ bytes_left <= 0
  BY <1>1, <1>3, SegmentType DEF loop_ends
<1>5. pos \in Int /\ bytes_left \in Int /\ pos + bytes_left = c
  BY <1>3 DEF IInv, TypeOK, InStep
<1>6. /\ Len(options.lengths) = n /\ n <= m
      /\ \A j \in 1..n : options.signature[j] = sent[j].kind /\ Offset(sent, j) < c
      /\ \A j \in 1..n : sent[j].kind # EOL
      /\ pos = Offset(sent, n + 1)
  BY <1>2, <1>3, <1>4 DEF SoFar
<1>7. Reached' = 1..n
  <2>1. Reached' = {j \in DOMAIN sent : /\ Offset(sent, j) < c
                                        /\ \A k \in 1..(j - 1) : sent[k].kind # EOL}
    BY <1>3, <1>4 DEF Reached
  <2>2. DOMAIN sent = 1..m
    BY <1>1, <1>2, <1>3
  <2>3. ASSUME NEW j \in 1..n
        PROVE  j \in 1..m /\ Offset(sent, j) < c /\ \A k \in 1..(j - 1) : sent[k].kind # EOL
    <3>1. \A k \in 1..(j - 1) : k \in 1..n
      BY <1>2
    <3>2. j \in 1..m
      BY <1>2, <1>6
    <3> QED
      BY <1>6, <3>1, <3>2
  <2>4. ASSUME NEW j \in 1..m, j \notin 1..n, Offset(sent, j) < c
        PROVE  FALSE
    <3>1. n + 1 \in 1..j /\ j \in 1..(Len(sent) + 1)
      BY <1>2, <1>3, <2>4
    <3>2. Offset(sent, n + 1) <= Offset(sent, j)
      BY <1>1, <1>3, <3>1, OffsetsInOrder
    <3>3. PICK x \in Nat : x = Offset(sent, j)
      BY <1>1, <1>3, <3>1, OffsetType
    <3>4. pos <= x /\ x < c
      BY <1>6, <2>4, <3>2, <3>3
    <3> QED
      BY <1>4, <1>5, <3>3, <3>4
  <2> QED
    BY <2>1, <2>2, <2>3, <2>4, Zenon
<1>8. \A j \in 1..(n - 1) : j \in 1..n
  BY <1>2
<1> QED
  BY <1>2, <1>3, <1>4, <1>6, <1>7, <1>8 DEF SoFar

\* A byte is a number.
LEMMA ByteIsNat ==
  ASSUME NEW b \in Byte
  PROVE  b \in Nat
BY DEF Byte

\* opts are the options but for the field of one kind.
OnlyField(opts, k) ==
  /\ opts \in TcpOptions
  /\ opts.signature = options.signature /\ opts.lengths = options.lengths
  /\ k # MSS => opts.mss = options.mss
  /\ k # WSCALE => opts.wscale = options.wscale
  /\ k # SACK => opts.sacks = options.sacks
  /\ k # TIMESTAMP => opts.timestamps = options.timestamps
  /\ k \in Known => opts.unknown_opt_vals = options.unknown_opt_vals
  /\ \E w \in Seq(Byte) : opts.unknown_opt_vals = options.unknown_opt_vals \o w

\* new is opts with one kind more and its length.
Listed(opts, new) ==
  /\ new.mss = opts.mss /\ new.wscale = opts.wscale /\ new.sacks = opts.sacks
  /\ new.timestamps = opts.timestamps /\ new.unknown_opt_vals = opts.unknown_opt_vals

\* A turn lists one option more and leaves the rest as opts has it.
LEMMA TurnAppends ==
  ASSUME IInv, NEW i, NEW o, AtOption(i, o), NEW opts \in TcpOptions,
         opts.signature = options.signature, opts.lengths = options.lengths,
         NEW length \in Byte, NEW k, Turn(opts, length, k)
  PROVE  /\ OneMore(options, options', i - 1, o.kind, length) /\ Listed(opts, options')
         /\ segment' = segment /\ pos' = pos + k
<1>1. segment' = segment /\ pos' = pos + k
      /\ options' = [opts EXCEPT !.signature = Append(@, kind), !.lengths = Append(@, length)]
  BY DEF Turn
<1>2. kind = o.kind /\ o.kind \in Byte /\ i \in Nat \ {0}
      /\ Len(opts.signature) = i - 1 /\ Len(opts.lengths) = i - 1
  BY DEF AtOption, SentOption
<1>3. opts.signature \in Seq(Byte) /\ opts.lengths \in Seq(Byte)
  BY DEF TcpOptions
<1>4. PICK s, l : s = Append(opts.signature, o.kind) /\ l = Append(opts.lengths, length)
  OBVIOUS
<1>5. s \in Seq(Byte) /\ Len(s) = (i - 1) + 1 /\ s[i] = o.kind
      /\ \A j \in 1..(i - 1) : s[j] = opts.signature[j]
  <2>1. (i - 1) + 1 = i
    BY <1>2
  <2> QED
    BY <1>2, <1>3, <1>4, <2>1, Appended
<1>6. l \in Seq(Byte) /\ Len(l) = (i - 1) + 1 /\ l[i] = length
      /\ \A j \in 1..(i - 1) : l[j] = opts.lengths[j]
  <2>1. (i - 1) + 1 = i
    BY <1>2
  <2> QED
    BY <1>2, <1>3, <1>4, <2>1, Appended
<1>7. options' = [opts EXCEPT !.signature = s, !.lengths = l]
  BY <1>1, <1>2, <1>4
<1>8. Listed(opts, options') /\ options'.signature = s /\ options'.lengths = l
      /\ options' \in TcpOptions
  BY <1>5, <1>6, <1>7 DEF Listed, TcpOptions
<1>9. options \in TcpOptions
  BY DEF IInv, TypeOK
<1>10. Paired(options, i - 1) /\ Paired(options', (i - 1) + 1)
  <2>1. i - 1 \in Nat /\ (i - 1) + 1 \in Nat
    BY <1>2
  <2> QED
    BY <1>2, <1>5, <1>6, <1>8, <1>9, <2>1 DEF Paired
<1>11. (i - 1) + 1 = i
  BY <1>2
<1>12. OneMore(options, options', i - 1, o.kind, length)
  BY <1>2, <1>5, <1>6, <1>8, <1>10, <1>11 DEF OneMore
<1> QED
  BY <1>1, <1>8, <1>12

\* No other option is printed from the field that a turn has written.
LEMMA TurnLeaves ==
  ASSUME AsSent(segment), SoFar, ValuesKept, NEW i, NEW o, AtOption(i, o), NEW opts,
         OnlyField(opts, o.kind), Listed(opts, options')
  PROVE  \A j \in 1..(i - 1) : Untouched(options, options', j)
<1> SUFFICES ASSUME NEW j \in 1..(i - 1) PROVE Untouched(options, options', j)
  OBVIOUS
<1>1. PICK n \in Nat : n = Len(options.signature) /\ n = i - 1
  BY DEF AtOption
<1>2. i \in DOMAIN segment.sent /\ o = segment.sent[i] /\ i \in Nat
  BY DEF AtOption
<1>3. j \in DOMAIN segment.sent /\ j # i
  <2>1. Len(segment.sent) >= n
    BY <1>1 DEF SoFar
  <2>2. PICK m \in Nat : m = Len(segment.sent)
    BY DEF SoFar
  <2> QED
    BY <1>1, <1>2, <2>1, <2>2
<1>4. options.signature[j] = segment.sent[j].kind
  BY <1>1 DEF SoFar
<1>5. segment.sent[j].kind = o.kind => o.kind \notin {MSS, WSCALE, SACK, TIMESTAMP}
  BY <1>2, <1>3, Zenon DEF AsSent
<1>6. options.signature[j] \notin Known =>
        KeptBefore(options, j) + options.lengths[j] <= Len(options.unknown_opt_vals)
  BY <1>1, <1>4 DEF ValuesKept
<1>7. \E w \in Seq(Byte) : options'.unknown_opt_vals = options.unknown_opt_vals \o w
  BY DEF OnlyField, Listed
<1>8. /\ options.signature[j] = MSS => options'.mss = options.mss
      /\ options.signature[j] = WSCALE => options'.wscale = options.wscale
      /\ options.signature[j] = SACK => options'.sacks = options.sacks
      /\ options.signature[j] = TIMESTAMP => options'.timestamps = options.timestamps
  BY <1>4, <1>5 DEF OnlyField, Listed
<1> QED
  BY <1>6, <1>7, <1>8 DEF Untouched

\* A turn keeps the values, if it lets the new option print what was captured of it.
LEMMA TurnPrints ==
  ASSUME IInv, AsSent(segment), SoFar, ValuesKept, NEW i, NEW o, AtOption(i, o),
         segment' = segment, NEW length \in Byte,
         OneMore(options, options', i - 1, o.kind, length),
         \A j \in 1..(i - 1) : Untouched(options, options', j),
         Shows(options', i) = CapturedValue(i),
         o.kind = TIMESTAMP /\ length # 0 => CapturedValue(i) = o.value,
         Len(options'.unknown_opt_vals)
           = Len(options.unknown_opt_vals) + (IF o.kind \notin Known THEN length ELSE 0)
  PROVE  ValuesKept'
<1>1. PICK n \in Nat : n = i - 1 /\ i = n + 1 /\ n = Len(options.signature)
  BY DEF AtOption
<1>2. PICK new : new = options'
  OBVIOUS
<1>3. OneMore(options, new, n, o.kind, length) /\ Paired(new, n + 1) /\ Paired(options, n)
  BY <1>1, <1>2 DEF OneMore
<1>4. Len(new.signature) = i
  BY <1>1, <1>3 DEF Paired
<1>5. \A j : CapturedValue(j)' = CapturedValue(j)
  BY DEF CapturedValue, OptionBytes
<1>6. PICK sent : sent = segment.sent /\ sent = segment'.sent /\ o = sent[i]
  BY DEF AtOption
<1>7. PICK u \in Nat, v \in Nat : u = Len(options.unknown_opt_vals) /\ v = Len(new.unknown_opt_vals)
  BY <1>3 DEF Paired, TcpOptions
<1>8. v = u + (IF o.kind \notin Known THEN length ELSE 0) /\ length \in Nat
  BY <1>2, <1>7 DEF Byte
<1>9. KeptBefore(options, n + 1) = u
  BY <1>1, <1>7 DEF ValuesKept
<1>10. KeptBefore(new, i) = u
  <2>1. n + 1 \in 1..(n + 1)
    BY <1>1
  <2>2. KeptBefore(new, n + 1) = KeptBefore(options, n + 1)
    BY <1>3, <2>1, KeptBeforeStays
  <2> QED
    BY <1>1, <1>9, <2>2
<1>11. new.signature[i] = o.kind /\ new.lengths[i] = length
  BY <1>1, <1>3 DEF OneMore
<1>12. KeptBefore(new, i + 1) = v
  <2>1. Paired(new, i) /\ i \in 1..i
    BY <1>1, <1>3
  <2>2. KeptBefore(new, i + 1) = IF new.signature[i] \notin Known
                                 THEN KeptBefore(new, i) + new.lengths[i]
                                 ELSE KeptBefore(new, i)
    BY <2>1, KeptBeforeNext
  <2> QED
    BY <1>7, <1>8, <1>10, <1>11, <2>2
<1>13. ASSUME NEW j \in 1..i
       PROVE  /\ Shows(new, j) = CapturedValue(j)
              /\ sent[j].kind = TIMESTAMP /\ new.lengths[j] # 0 => CapturedValue(j) = sent[j].value
              /\ sent[j].kind \notin Known => KeptBefore(new, j) + new.lengths[j] <= v
  <2>1. CASE j = i
    <3>1. sent[j].kind \notin Known => KeptBefore(new, j) + new.lengths[j] <= v
      BY <1>6, <1>7, <1>8, <1>10, <1>11, <2>1
    <3>2. Shows(new, j) = CapturedValue(j)
      BY <1>2, <2>1
    <3>3. sent[j].kind = TIMESTAMP /\ new.lengths[j] # 0 => CapturedValue(j) = sent[j].value
      BY <1>6, <1>11, <2>1
    <3> QED
      BY <3>1, <3>2, <3>3
  <2>2. CASE j # i
    <3>1. j \in 1..n /\ j \in 1..(n + 1)
      BY <1>1, <2>2
    <3>2. Untouched(options, new, j)
      BY <1>1, <1>2, <3>1
    <3>3. Shows(new, j) = Shows(options, j)
      BY <1>3, <3>1, <3>2, ShowsStays
    <3>4. new.lengths[j] = options.lengths[j]
      BY <1>3, <3>1 DEF OneMore
    <3>5. KeptBefore(new, j) = KeptBefore(options, j)
      BY <1>3, <3>1, KeptBeforeStays
    <3>6. Shows(options, j) = CapturedValue(j)
      BY <1>1, <3>1 DEF ValuesKept
    <3>7. sent[j].kind = TIMESTAMP /\ options.lengths[j] # 0 => CapturedValue(j) = sent[j].value
      BY <1>1, <1>6, <3>1 DEF ValuesKept
    <3>8. sent[j].kind \notin Known => KeptBefore(options, j) + options.lengths[j] <= u
      BY <1>1, <1>6, <1>7, <3>1 DEF ValuesKept
    <3>9. KeptBefore(options, j) \in Nat
      BY <1>3, <3>1, KeptBeforeIsSum
    <3>10. options.lengths[j] \in Nat
      <4>1. options.lengths \in Seq(Byte) /\ j \in 1..Len(options.lengths)
        BY <1>3, <3>1 DEF Paired, TcpOptions
      <4>2. options.lengths[j] \in Byte
        BY <4>1
      <4> QED
        BY <4>2, ByteIsNat, Zenon
    <3>11. u <= v
      <4>1. PICK d \in Nat : v = u + d
        <5>1. (IF o.kind \notin Known THEN length ELSE 0) \in Nat
          BY <1>8, Zenon
        <5> QED
          BY <1>8, <5>1, Zenon
      <4> QED
        BY <1>7, <4>1
    <3>12. sent[j].kind \notin Known => KeptBefore(new, j) + new.lengths[j] <= v
      <4> SUFFICES ASSUME sent[j].kind \notin Known
                   PROVE  KeptBefore(new, j) + new.lengths[j] <= v
        OBVIOUS
      <4>1. PICK a \in Nat, b \in Nat : a = KeptBefore(options, j) /\ b = options.lengths[j]
        BY <3>9, <3>10
      <4>2. a + b <= u
        BY <3>8, <4>1
      <4>3. a + b <= v
        BY <1>7, <3>11, <4>1, <4>2
      <4> QED
        BY <3>4, <3>5, <4>1, <4>3
    <3> QED
      BY <3>3, <3>4, <3>6, <3>7, <3>12
  <2> QED
    BY <2>1, <2>2
<1> QED
  BY <1>2, <1>4, <1>5, <1>6, <1>7, <1>12, <1>13 DEF ValuesKept

\* A turn that has read an option leaves the options as they should be if the option
\* itself is.
LEMMA TurnKeepsOptions ==
  ASSUME IInv, AsSent(segment), SoFar, ValuesKept, reading,
         NEW i, NEW o, AtOption(i, o), NEW opts, OnlyField(opts, o.kind),
         NEW length \in Byte, NEW k, Turn(opts, length, k),
         \/ reading' = TRUE /\ o.kind # EOL /\ k = Size(o)
         \/ reading' = FALSE /\ (o.kind = EOL \/ bytes_left <= Size(o)),
         OneMore(options, options', i - 1, o.kind, length) /\ Listed(opts, options') =>
           Shows(options', i) = CapturedValue(i),
         o.kind = TIMESTAMP /\ length # 0 => CapturedValue(i) = o.value,
         Len(opts.unknown_opt_vals)
           = Len(options.unknown_opt_vals) + (IF o.kind \notin Known THEN length ELSE 0)
  PROVE  SoFar' /\ ValuesKept'
<1>1. /\ opts \in TcpOptions
      /\ opts.signature = options.signature /\ opts.lengths = options.lengths
  BY DEF OnlyField
<1>2. /\ OneMore(options, options', i - 1, o.kind, length) /\ Listed(opts, options')
      /\ segment' = segment /\ pos' = pos + k
  BY <1>1, TurnAppends
<1>3. \A j \in 1..(i - 1) : Untouched(options, options', j)
  BY <1>2, TurnLeaves
<1>4. SoFar'
  <2>1. \/ reading' = TRUE /\ o.kind # EOL /\ pos' = pos + Size(o)
        \/ reading' = FALSE /\ (o.kind = EOL \/ bytes_left <= Size(o))
    BY <1>2
  <2> QED
    BY <1>2, <2>1, TurnMoves
<1>5. ValuesKept'
  <2>1. Len(options'.unknown_opt_vals)
           = Len(options.unknown_opt_vals) + (IF o.kind \notin Known THEN length ELSE 0)
    BY <1>2 DEF Listed
  <2>2. Shows(options', i) = CapturedValue(i)
    BY <1>2
  <2> QED
    BY <1>2, <1>3, <2>1, <2>2, TurnPrints
<1> QED
  BY <1>4, <1>5

-----------------------------------------------------------------------------
(* The turns of each kind. *)

\* The unit of each kind, without the CASE.
LEMMA UnitOf ==
  ASSUME NEW o \in SentOption
  PROVE  /\ Unit(o) \in {1, 2, 8}
         /\ o.kind = MSS => Unit(o) = 2
         /\ o.kind \in {SACK, TIMESTAMP} => Unit(o) = 8
         /\ o.kind \notin {MSS, SACK, TIMESTAMP} => Unit(o) = 1
<1>1. o.kind = MSS => Unit(o) = 2
  BY KindsDiffer, Zenon DEF Unit
<1>2. o.kind \in {SACK, TIMESTAMP} => Unit(o) = 8
  BY KindsDiffer, Zenon DEF Unit
<1>3. o.kind \notin {MSS, SACK, TIMESTAMP} => Unit(o) = 1
  BY Zenon DEF Unit
<1> QED
  BY <1>1, <1>2, <1>3, Zenon

\* The length of each kind's value, without the CASE.
LEMMA Fits ==
  ASSUME AsSent(segment), NEW i \in DOMAIN segment.sent, NEW o, o = segment.sent[i],
         NEW n, n = Len(o.value)
  PROVE  /\ o.kind \in {EOL, NOP, SACK_PERM} => n = 0
         /\ o.kind = MSS => n = 2
         /\ o.kind = WSCALE => n = 1
         /\ o.kind = SACK => n % 8 = 0
         /\ o.kind = TIMESTAMP => n = 8
<1>1. FitsKind(o)
  BY DEF AsSent
<1>2. o.kind \in {EOL, NOP, SACK_PERM} => n = 0
  BY <1>1, KindsDiffer, Zenon DEF FitsKind
<1>3. o.kind = MSS => n = 2
  BY <1>1, KindsDiffer, Zenon DEF FitsKind
<1>4. o.kind = WSCALE => n = 1
  BY <1>1, KindsDiffer, Zenon DEF FitsKind
<1>5. o.kind = SACK => n % 8 = 0
  BY <1>1, KindsDiffer, Zenon DEF FitsKind
<1>6. o.kind = TIMESTAMP => n = 8
  BY <1>1, KindsDiffer, Zenon DEF FitsKind
<1> QED
  BY <1>2, <1>3, <1>4, <1>5, <1>6

\* What is known of an option when its turn comes.
LEMMA AtOptionFacts ==
  ASSUME IInv, AsSent(segment), NEW i, NEW o, AtOption(i, o)
  PROVE  /\ segment \in Segments /\ i \in DOMAIN segment.sent /\ o = segment.sent[i]
         /\ o \in SentOption /\ o.value \in Seq(Byte) /\ Len(o.value) \in Nat
         /\ bytes_left - 2 \in Int
         /\ bytes_left - 2 = OptionBytes(segment) - Offset(segment.sent, i) - 2
         /\ after_optlen = bytes_left - 2
         /\ pos = Offset(segment.sent, i) /\ pos \in Nat
<1>1. segment \in Segments /\ OptionBytes(segment) \in Int
  BY SegmentType DEF IInv
<1>2. /\ i \in DOMAIN segment.sent /\ o = segment.sent[i] /\ o \in SentOption
      /\ pos = Offset(segment.sent, i) /\ pos \in Nat
      /\ bytes_left \in Nat /\ bytes_left = OptionBytes(segment) - pos
  BY DEF AtOption
<1>3. o.value \in Seq(Byte) /\ Len(o.value) \in Nat
  BY <1>2 DEF SentOption
<1>4. bytes_left - 2 = OptionBytes(segment) - Offset(segment.sent, i) - 2 /\ bytes_left - 2 \in Int
  BY <1>1, <1>2
<1> QED
  BY <1>1, <1>2, <1>3, <1>4 DEF after_optlen

\* Of an option without room for one of its numbers nothing is printed.
LEMMA NothingCaptured ==
  ASSUME IInv, AsSent(segment), NEW i, NEW o, AtOption(i, o),
         bytes_left - 2 < Unit(o) \/ Len(o.value) = 0
  PROVE  CapturedValue(i) = <<>>
<1>1. /\ segment \in Segments /\ i \in DOMAIN segment.sent /\ o = segment.sent[i]
      /\ o.value \in Seq(Byte) /\ Len(o.value) \in Nat /\ o \in SentOption
  BY AtOptionFacts
<1>2. PICK present \in Int : /\ present = bytes_left - 2
                             /\ present = OptionBytes(segment) - Offset(segment.sent, i) - 2
  BY AtOptionFacts
<1>3. PICK u \in {1, 2, 8} : u = Unit(o)
  BY <1>1, UnitOf
<1>4. \/ 0 = Len(o.value) /\ 0 <= present /\ 0 % u = 0
      \/ present < 0 /\ 0 = 0
      \/ present >= 0 /\ 0 = (present \div u) * u
  <2>1. CASE Len(o.value) = 0
    <3>1. 0 % u = 0
      BY <1>3
    <3> QED
      BY <1>2, <2>1, <3>1
  <2>2. CASE present < u
    <3>1. present >= 0 => (present \div u) * u = 0
      BY <2>2
    <3> QED
      BY <3>1
  <2> QED
    BY <1>2, <1>3, <2>1, <2>2
<1>5. 0 \in Nat /\ 0 <= Len(o.value)
  BY <1>1
<1>6. PICK z \in Nat : z = 0
  OBVIOUS
<1>7. \/ z = Len(segment.sent[i].value) /\ z <= present /\ z % u = 0
      \/ present < 0 /\ z = 0
      \/ present >= 0 /\ z = (present \div u) * u
  BY <1>1, <1>4, <1>6
<1>8. z <= Len(segment.sent[i].value)
  BY <1>1, <1>6
<1>9. u = Unit(segment.sent[i])
  BY <1>1, <1>3
<1>10. CapturedValue(i) = SubSeq(segment.sent[i].value, 1, z)
  BY <1>1, <1>2, <1>7, <1>8, <1>9, CapturedPart
<1>11. SubSeq(o.value, 1, 0) = <<>>
  BY <1>1
<1> QED
  BY <1>1, <1>6, <1>10, <1>11

\* With length 0, an option is printed without a value.
LEMMA ShowsNothing ==
  ASSUME NEW opts, NEW n, Paired(opts, n), NEW i \in 1..n, opts.lengths[i] = 0
  PROVE  Shows(opts, i) = <<>>
<1>1. i \in 1..(n + 1) /\ opts \in TcpOptions
  BY DEF Paired
<1>2. PICK a \in Nat, s \in Seq(Byte) : a = KeptBefore(opts, i) /\ s = opts.unknown_opt_vals
  BY <1>1, KeptBeforeIsSum DEF TcpOptions
<1>3. SubSeq(s, a + 1, a + 0) = <<>>
  BY <1>2
<1>4. CASE opts.signature[i] \notin Known
  BY <1>2, <1>3, <1>4, ShowsByKind
<1>5. CASE opts.signature[i] = SACK
  <2>5. Shows(opts, i) = [b \in 1..(8 * opts.lengths[i]) |->
                            opts.sacks[(b - 1) \div 4][((b - 1) % 4) + 1]]
    BY <1>5, ShowsByKind
  <2>1. Shows(opts, i) = [b \in 1..(8 * 0) |->
                            opts.sacks[(b - 1) \div 4][((b - 1) % 4) + 1]]
    BY <2>5, Zenon
  <2>2. PICK f : f = [b \in 1..(8 * 0) |->
                            opts.sacks[(b - 1) \div 4][((b - 1) % 4) + 1]]
    OBVIOUS
  <2>3. 1..(8 * 0) = {}
    OBVIOUS
  <2>4. f = <<>>
    <3>1. f = [b \in {} |-> opts.sacks[(b - 1) \div 4][((b - 1) % 4) + 1]]
      BY <2>2, <2>3
    <3> QED
      BY <3>1
  <2> QED
    BY <2>1, <2>2, <2>4
<1>6. CASE opts.signature[i] \in Known \ {SACK}
  <2>1. opts.signature[i] \in {EOL, NOP, SACK_PERM} \/ opts.signature[i] \in {MSS, WSCALE, TIMESTAMP}
    BY <1>6 DEF Known
  <2> QED
    BY <2>1, ShowsByKind, Zenon
<1> QED
  BY <1>4, <1>5, <1>6

\* A turn that keeps no value, of an option of which none was captured or sent.
LEMMA EmptyTurn ==
  ASSUME IInv, AsSent(segment), SoFar, ValuesKept, reading,
         NEW i, NEW o, AtOption(i, o), NEW k, Turn(options, 0, k),
         \/ reading' = TRUE /\ o.kind # EOL /\ k = Size(o)
         \/ reading' = FALSE /\ (o.kind = EOL \/ bytes_left <= Size(o)),
         bytes_left - 2 < Unit(o) \/ Len(o.value) = 0
  PROVE  SoFar' /\ ValuesKept'
<1>1. options \in TcpOptions /\ i \in Nat \ {0}
  BY DEF IInv, TypeOK, AtOption
<1>2. OnlyField(options, o.kind)
  <2>1. options.unknown_opt_vals = options.unknown_opt_vals \o <<>> /\ <<>> \in Seq(Byte)
    BY <1>1 DEF TcpOptions
  <2> QED
    BY <1>1, <2>1 DEF OnlyField
<1>3. CapturedValue(i) = <<>>
  BY NothingCaptured
<1>4. PICK length \in Byte : length = 0
  BY DEF Byte
<1>5. Turn(options, length, k)
  BY <1>4
<1>6. ASSUME OneMore(options, options', i - 1, o.kind, length)
      PROVE  Shows(options', i) = CapturedValue(i)
  <2>1. PICK new : new = options'
    OBVIOUS
  <2>2. Paired(new, (i - 1) + 1) /\ new.lengths[(i - 1) + 1] = 0 /\ (i - 1) + 1 = i
    BY <1>1, <1>4, <1>6, <2>1 DEF OneMore
  <2>3. Paired(new, i) /\ new.lengths[i] = 0 /\ i \in 1..i
    BY <1>1, <2>2
  <2>4. Shows(new, i) = <<>>
    BY <2>3, ShowsNothing
  <2> QED
    BY <1>3, <2>1, <2>4
<1>7. Len(options.unknown_opt_vals)
        = Len(options.unknown_opt_vals) + (IF o.kind \notin Known THEN length ELSE 0)
  <2>1. Len(options.unknown_opt_vals) \in Nat
    BY <1>1 DEF TcpOptions
  <2> QED
    BY <1>4, <2>1
<1>8. o.kind = TIMESTAMP /\ length # 0 => CapturedValue(i) = o.value
  BY <1>4
<1>9. OneMore(options, options', i - 1, o.kind, length) /\ Listed(options, options') =>
           Shows(options', i) = CapturedValue(i)
  BY <1>6
<1> QED
  BY <1>2, <1>5, <1>7, <1>8, <1>9, TurnKeepsOptions

\* The turns that keep no value.
LEMMA EmptyTurns ==
  ASSUME IInv, AsSent(segment), SoFar, ValuesKept, NEW i, NEW o, AtOption(i, o),
         \/ end_of_options \/ no_operation \/ optlen_missing \/ sack_permitted
         \/ max_segment_size /\ ~(after_optlen >= 2)
         \/ window_scale /\ ~(after_optlen >= 1)
         \/ timestamp /\ ~(after_optlen >= 8)
  PROVE  SoFar' /\ ValuesKept'
<1>1. kind = o.kind /\ o \in SentOption /\ bytes_left \in Nat \ {0}
      /\ after_optlen = bytes_left - 2 /\ Len(o.value) \in Nat
  BY AtOptionFacts DEF AtOption
<1>2. PICK n \in Nat : n = Len(o.value)
  BY <1>1
<1>3. /\ o.kind \in {EOL, NOP, SACK_PERM} => n = 0
      /\ o.kind = MSS => n = 2
      /\ o.kind = WSCALE => n = 1
      /\ o.kind = TIMESTAMP => n = 8
  <2>1. i \in DOMAIN segment.sent /\ o = segment.sent[i]
    BY AtOptionFacts
  <2>2. o.kind \in {EOL, NOP, SACK_PERM} => n = 0
    BY <1>2, <2>1, Fits
  <2>3. o.kind = MSS => n = 2
    BY <1>2, <2>1, Fits
  <2>4. o.kind = WSCALE => n = 1
    BY <1>2, <2>1, Fits
  <2>5. o.kind = TIMESTAMP => n = 8
    BY <1>2, <2>1, Fits
  <2> QED
    BY <2>2, <2>3, <2>4, <2>5
<1>4. /\ o.kind \in {EOL, NOP} => Size(o) = 1
      /\ o.kind \notin {EOL, NOP} => Size(o) = 2 + n
  BY <1>1, <1>2, SizeOf
<1>5. /\ Unit(o) \in {1, 2, 8}
      /\ o.kind = MSS => Unit(o) = 2
      /\ o.kind = TIMESTAMP => Unit(o) = 8
      /\ o.kind = WSCALE => Unit(o) = 1
  BY <1>1, UnitOf, KindsDiffer
<1>6. CASE end_of_options
  <2>1. reading /\ Turn(options, 0, 1) /\ reading' = FALSE /\ o.kind = EOL
    BY <1>1, <1>6 DEF end_of_options
  <2>2. Len(o.value) = 0
    BY <1>2, <1>3, <2>1
  <2> QED
    BY <2>1, <2>2, EmptyTurn
<1>7. CASE no_operation
  <2>1. reading /\ Turn(options, 0, 1) /\ reading' = TRUE /\ o.kind = NOP /\ o.kind # EOL
    BY <1>1, <1>7 DEF no_operation, EOL, NOP, IInv, TypeOK
  <2>2. Len(o.value) = 0 /\ Size(o) = 1
    BY <1>2, <1>3, <1>4, <2>1
  <2> QED
    BY <2>1, <2>2, EmptyTurn
<1>8. CASE optlen_missing
  <2>1. reading /\ Turn(options, 0, 1) /\ reading' = FALSE /\ o.kind \notin {EOL, NOP}
        /\ bytes_left = 1
    BY <1>1, <1>8 DEF optlen_missing
  <2>2. Size(o) = 2 + n /\ bytes_left <= Size(o)
    BY <1>4, <2>1
  <2>3. bytes_left - 2 < Unit(o)
    BY <1>5, <2>1
  <2> QED
    BY <2>1, <2>2, <2>3, EmptyTurn
<1>9. CASE sack_permitted
  <2>1. reading /\ Turn(options, 0, 2) /\ reading' = TRUE /\ o.kind = SACK_PERM
        /\ o.kind \notin {EOL, NOP}
    BY <1>1, <1>9 DEF sack_permitted, HasOptlen, EOL, NOP, SACK_PERM, IInv, TypeOK
  <2>2. Len(o.value) = 0 /\ Size(o) = 2
    BY <1>2, <1>3, <1>4, <2>1
  <2> QED
    BY <2>1, <2>2, EmptyTurn
<1>10. CASE max_segment_size /\ ~(after_optlen >= 2)
  <2>1. reading /\ Turn(options, 0, 4) /\ reading' = TRUE /\ o.kind = MSS
        /\ o.kind \notin {EOL, NOP}
    BY <1>1, <1>10 DEF max_segment_size, HasOptlen, EOL, NOP, MSS, IInv, TypeOK
  <2>2. Size(o) = 4
    BY <1>3, <1>4, <2>1
  <2>3. Unit(o) = 2
    BY <1>5, <2>1
  <2>4. bytes_left - 2 < Unit(o)
    BY <1>1, <1>10, <2>3
  <2> QED
    BY <2>1, <2>2, <2>4, EmptyTurn
<1>11. CASE window_scale /\ ~(after_optlen >= 1)
  <2>1. reading /\ Turn(options, 0, 3) /\ reading' = TRUE /\ o.kind = WSCALE
        /\ o.kind \notin {EOL, NOP}
    BY <1>1, <1>11 DEF window_scale, HasOptlen, EOL, NOP, WSCALE, IInv, TypeOK
  <2>2. Size(o) = 3
    BY <1>3, <1>4, <2>1
  <2>3. Unit(o) = 1
    BY <1>5, <2>1
  <2>4. bytes_left - 2 < Unit(o)
    BY <1>1, <1>11, <2>3
  <2> QED
    BY <2>1, <2>2, <2>4, EmptyTurn
<1>12. CASE timestamp /\ ~(after_optlen >= 8)
  <2>1. reading /\ Turn(options, 0, 10) /\ reading' = TRUE /\ o.kind = TIMESTAMP
        /\ o.kind \notin {EOL, NOP}
    BY <1>1, <1>12 DEF timestamp, HasOptlen, EOL, NOP, TIMESTAMP, IInv, TypeOK
  <2>2. Size(o) = 10
    BY <1>3, <1>4, <2>1
  <2>3. Unit(o) = 8
    BY <1>5, <2>1
  <2>4. bytes_left - 2 < Unit(o)
    BY <1>1, <1>12, <2>3
  <2> QED
    BY <2>1, <2>2, <2>4, EmptyTurn
<1> QED
  BY <1>6, <1>7, <1>8, <1>9, <1>10, <1>11, <1>12

\* A value that fits into the bytes left is captured and read as it was sent.
LEMMA WholeCaptured ==
  ASSUME IInv, AsSent(segment), NEW i, NEW o, AtOption(i, o),
         NEW n \in Nat, n = Len(o.value), n % Unit(o) = 0, n <= after_optlen,
         o.kind \notin {EOL, NOP}
  PROVE  CapturedValue(i) = o.value /\ Read(pos + 2, n) = o.value
<1>1. /\ segment \in Segments /\ i \in DOMAIN segment.sent /\ o = segment.sent[i]
      /\ o.value \in Seq(Byte) /\ o \in SentOption
      /\ pos = Offset(segment.sent, i) /\ pos \in Nat
  BY AtOptionFacts
<1>2. PICK present \in Int : /\ present = bytes_left - 2 /\ n <= present
                             /\ present = OptionBytes(segment) - Offset(segment.sent, i) - 2
  BY AtOptionFacts
<1>3. PICK u \in {1, 2, 8} : u = Unit(o)
  BY <1>1, UnitOf
<1>4. SubSeq(o.value, 1, n) = o.value
  BY <1>1
<1>5. CapturedValue(i) = SubSeq(segment.sent[i].value, 1, n)
  <2>1. n = Len(segment.sent[i].value) /\ n <= present /\ n % u = 0
    BY <1>1, <1>2, <1>3
  <2>2. n <= Len(segment.sent[i].value) /\ u = Unit(segment.sent[i])
    BY <1>1, <1>3
  <2> QED
    BY <1>1, <1>2, <2>1, <2>2, CapturedPart
<1>6. Read(pos + 2, n) = SubSeq(segment.sent[i].value, 1, n)
  <2>1. n <= Len(segment.sent[i].value) /\ segment.sent[i].kind \notin {EOL, NOP}
    BY <1>1
  <2>2. Offset(segment.sent, i) + 2 + n <= OptionBytes(segment)
    <3>1. OptionBytes(segment) \in Int
      BY <1>1, SegmentType
    <3> QED
      BY <1>1, <1>2, <3>1
  <2>3. Read(Offset(segment.sent, i) + 2, n) = SubSeq(segment.sent[i].value, 1, n)
    BY <1>1, <2>1, <2>2, ValueRead
  <2> QED
    BY <1>1, <2>3
<1> QED
  BY <1>1, <1>4, <1>5, <1>6

\* x with the field of kind k set to a value.
FieldSet(opts, x, k, value) ==
  /\ opts \in TcpOptions
  /\ opts.signature = x.signature /\ opts.lengths = x.lengths
  /\ opts.sacks = x.sacks /\ opts.unknown_opt_vals = x.unknown_opt_vals
  /\ k = MSS => opts.mss = value
  /\ k = WSCALE => opts.wscale = value
  /\ k = TIMESTAMP => opts.timestamps = value
  /\ k # MSS => opts.mss = x.mss
  /\ k # WSCALE => opts.wscale = x.wscale
  /\ k # TIMESTAMP => opts.timestamps = x.timestamps

\* Setting a field leaves the others.
LEMMA FieldIsSet ==
  ASSUME NEW x \in TcpOptions, NEW value \in Seq(Byte), NEW k, NEW opts,
         \/ k = MSS /\ opts = [x EXCEPT !.mss = value]
         \/ k = WSCALE /\ opts = [x EXCEPT !.wscale = value]
         \/ k = TIMESTAMP /\ opts = [x EXCEPT !.timestamps = value]
  PROVE  FieldSet(opts, x, k, value)
<1>1. CASE k = MSS /\ opts = [x EXCEPT !.mss = value]
  BY <1>1, KindsDiffer DEF FieldSet, TcpOptions
<1>2. CASE k = WSCALE /\ opts = [x EXCEPT !.wscale = value]
  BY <1>2, KindsDiffer DEF FieldSet, TcpOptions
<1>3. CASE k = TIMESTAMP /\ opts = [x EXCEPT !.timestamps = value]
  BY <1>3, KindsDiffer DEF FieldSet, TcpOptions
<1> QED
  BY <1>1, <1>2, <1>3

\* A turn that keeps a whole value of one number or two.
LEMMA FullTurn ==
  ASSUME IInv, AsSent(segment), SoFar, ValuesKept, reading, reading' = TRUE,
         NEW i, NEW o, AtOption(i, o), NEW n \in Nat, n = Len(o.value), n % Unit(o) = 0,
         n <= after_optlen, o.kind \in {MSS, WSCALE, TIMESTAMP},
         NEW opts, NEW length \in Byte, length = 1, NEW k, k = 2 + n,
         Turn(opts, length, k),
         \/ o.kind = MSS /\ opts = [options EXCEPT !.mss = Read(pos + 2, n)]
         \/ o.kind = WSCALE /\ opts = [options EXCEPT !.wscale = Read(pos + 2, n)]
         \/ o.kind = TIMESTAMP /\ opts = [options EXCEPT !.timestamps = Read(pos + 2, n)]
  PROVE  SoFar' /\ ValuesKept'
<1>1. o.kind \notin {EOL, NOP} /\ o.kind # EOL /\ o.kind \in Known
  BY KindsDiffer DEF Known
<1>2. CapturedValue(i) = o.value /\ Read(pos + 2, n) = o.value
  BY <1>1, WholeCaptured
<1>3. o.value \in Seq(Byte) /\ o \in SentOption
  BY AtOptionFacts
<1>4. options \in TcpOptions
  BY DEF IInv, TypeOK
<1>5. FieldSet(opts, options, o.kind, o.value)
  <2>1. \/ o.kind = MSS /\ opts = [options EXCEPT !.mss = o.value]
        \/ o.kind = WSCALE /\ opts = [options EXCEPT !.wscale = o.value]
        \/ o.kind = TIMESTAMP /\ opts = [options EXCEPT !.timestamps = o.value]
    BY <1>2
  <2> QED
    BY <1>3, <1>4, <2>1, FieldIsSet
<1>6. OnlyField(opts, o.kind)
  <2>1. options.unknown_opt_vals = options.unknown_opt_vals \o <<>> /\ <<>> \in Seq(Byte)
    BY <1>4 DEF TcpOptions
  <2>2. \E w \in Seq(Byte) : opts.unknown_opt_vals = options.unknown_opt_vals \o w
    BY <1>5, <2>1 DEF FieldSet
  <2>3. o.kind # SACK => opts.sacks = options.sacks
    BY <1>5 DEF FieldSet
  <2> QED
    BY <1>5, <2>2 DEF OnlyField, FieldSet
<1>7. ASSUME OneMore(options, options', i - 1, o.kind, length), Listed(opts, options')
      PROVE  Shows(options', i) = CapturedValue(i)
  <2>1. PICK new : new = options'
    OBVIOUS
  <2>2. i \in Nat /\ (i - 1) + 1 = i
    BY DEF AtOption
  <2>3. new.signature[i] = o.kind /\ new.lengths[i] = 1
    BY <1>7, <2>1, <2>2 DEF OneMore
  <2>4. /\ o.kind = MSS => new.mss = o.value
        /\ o.kind = WSCALE => new.wscale = o.value
        /\ o.kind = TIMESTAMP => new.timestamps = o.value
    BY <1>5, <1>7, <2>1 DEF Listed, FieldSet
  <2>5. 1 # 0
    OBVIOUS
  <2>6. CASE o.kind = MSS
    <3>1. Shows(new, i) = o.value
      BY <2>3, <2>4, <2>6, ShowsByKind
    <3> QED
      BY <1>2, <2>1, <3>1
  <2>7. CASE o.kind = WSCALE
    <3>1. Shows(new, i) = o.value
      BY <2>3, <2>4, <2>7, ShowsByKind
    <3> QED
      BY <1>2, <2>1, <3>1
  <2>8. CASE o.kind = TIMESTAMP
    <3>1. Shows(new, i) = o.value
      BY <2>3, <2>4, <2>8, ShowsByKind
    <3> QED
      BY <1>2, <2>1, <3>1
  <2> QED
    BY <2>6, <2>7, <2>8
<1>8. Len(opts.unknown_opt_vals)
        = Len(options.unknown_opt_vals) + (IF o.kind \notin Known THEN length ELSE 0)
  <2>1. Len(options.unknown_opt_vals) \in Nat
    BY <1>4 DEF TcpOptions
  <2>2. \A u \in Nat : u = u + 0
    OBVIOUS
  <2>3. (IF o.kind \notin Known THEN length ELSE 0) = 0
    BY <1>1, Zenon
  <2>4. opts.unknown_opt_vals = options.unknown_opt_vals
    BY <1>5 DEF FieldSet
  <2> QED
    BY <2>1, <2>2, <2>3, <2>4, Zenon
<1>9. k = Size(o)
  BY <1>1, <1>3, SizeOf
<1>10. OneMore(options, options', i - 1, o.kind, length) /\ Listed(opts, options') =>
           Shows(options', i) = CapturedValue(i)
  BY <1>7
<1>11. o.kind = TIMESTAMP /\ length # 0 => CapturedValue(i) = o.value
  BY <1>2
<1> QED
  BY <1>1, <1>6, <1>8, <1>9, <1>10, <1>11, TurnKeepsOptions

\* The turns that keep a whole value.
LEMMA FullTurns ==
  ASSUME IInv, AsSent(segment), SoFar, ValuesKept, NEW i, NEW o, AtOption(i, o),
         \/ max_segment_size /\ after_optlen >= 2
         \/ window_scale /\ after_optlen >= 1
         \/ timestamp /\ after_optlen >= 8
  PROVE  SoFar' /\ ValuesKept'
<1>1. kind = o.kind /\ o \in SentOption
      /\ after_optlen = bytes_left - 2 /\ Len(o.value) \in Nat
      /\ i \in DOMAIN segment.sent /\ o = segment.sent[i]
  BY AtOptionFacts DEF AtOption
<1>2. PICK n \in Nat : n = Len(o.value)
  BY <1>1
<1>3. PICK length \in Byte : length = 1
  BY DEF Byte
<1>4. PICK k : k = 2 + n
  OBVIOUS
<1>5. CASE max_segment_size /\ after_optlen >= 2
  <2>1. reading /\ reading' = TRUE /\ o.kind = MSS
        /\ Turn([options EXCEPT !.mss = Read(pos + 2, 2)], 1, 4)
    BY <1>1, <1>5 DEF max_segment_size, HasOptlen, IInv, TypeOK
  <2>2. n = 2
    BY <1>1, <1>2, <2>1, Fits
  <2>3. Unit(o) = 2
    BY <1>1, <2>1, UnitOf
  <2>4. PICK opts : opts = [options EXCEPT !.mss = Read(pos + 2, n)]
    OBVIOUS
  <2>5. Turn(opts, length, k)
    BY <1>3, <1>4, <2>1, <2>2, <2>4
  <2>6. n % Unit(o) = 0 /\ n <= after_optlen
    BY <1>5, <2>2, <2>3
  <2>7. o.kind \in {MSS, WSCALE, TIMESTAMP}
    BY <2>1
  <2> QED
    BY <1>2, <1>3, <1>4, <2>1, <2>4, <2>5, <2>6, <2>7, FullTurn
<1>6. CASE window_scale /\ after_optlen >= 1
  <2>1. reading /\ reading' = TRUE /\ o.kind = WSCALE
        /\ Turn([options EXCEPT !.wscale = Read(pos + 2, 1)], 1, 3)
    BY <1>1, <1>6 DEF window_scale, HasOptlen, IInv, TypeOK
  <2>2. n = 1
    BY <1>1, <1>2, <2>1, Fits
  <2>3. Unit(o) = 1
    BY <1>1, <2>1, UnitOf, KindsDiffer
  <2>4. PICK opts : opts = [options EXCEPT !.wscale = Read(pos + 2, n)]
    OBVIOUS
  <2>5. Turn(opts, length, k)
    BY <1>3, <1>4, <2>1, <2>2, <2>4
  <2>6. n % Unit(o) = 0 /\ n <= after_optlen
    BY <1>6, <2>2, <2>3
  <2>7. o.kind \in {MSS, WSCALE, TIMESTAMP}
    BY <2>1
  <2> QED
    BY <1>2, <1>3, <1>4, <2>1, <2>4, <2>5, <2>6, <2>7, FullTurn
<1>7. CASE timestamp /\ after_optlen >= 8
  <2>1. reading /\ reading' = TRUE /\ o.kind = TIMESTAMP
        /\ Turn([options EXCEPT !.timestamps = Read(pos + 2, 8)], 1, 10)
    BY <1>1, <1>7 DEF timestamp, HasOptlen, IInv, TypeOK
  <2>2. n = 8
    BY <1>1, <1>2, <2>1, Fits
  <2>3. Unit(o) = 8
    BY <1>1, <2>1, UnitOf
  <2>4. PICK opts : opts = [options EXCEPT !.timestamps = Read(pos + 2, n)]
    OBVIOUS
  <2>5. Turn(opts, length, k)
    BY <1>3, <1>4, <2>1, <2>2, <2>4
  <2>6. n % Unit(o) = 0 /\ n <= after_optlen
    BY <1>7, <2>2, <2>3
  <2>7. o.kind \in {MSS, WSCALE, TIMESTAMP}
    BY <2>1
  <2> QED
    BY <1>2, <1>3, <1>4, <2>1, <2>4, <2>5, <2>6, <2>7, FullTurn
<1> QED
  BY <1>5, <1>6, <1>7

\* A number of bytes that makes whole blocks.
LEMMA MultipleOf8 ==
  ASSUME NEW n \in Nat, n % 8 = 0
  PROVE  \E m \in Nat : n = 8 * m
<1>1. n \div 8 \in Nat /\ n = 8 * (n \div 8)
  OBVIOUS
<1> QED
  BY <1>1

\* A SACK option keeps the blocks that are captured whole.
LEMMA SackTurn ==
  ASSUME IInv, AsSent(segment), SoFar, ValuesKept, NEW i, NEW o, AtOption(i, o),
         selective_ack
  PROVE  SoFar' /\ ValuesKept'
<1>1. /\ SackOptions \in TcpOptions /\ Turn(SackOptions, Seen, 2 + 8 * Blocks)
      /\ SackOptions.signature = options.signature /\ SackOptions.lengths = options.lengths
      /\ SackOptions.sacks = Edges
      /\ Blocks \in Nat /\ Seen \in Byte /\ bytes_left > 1 /\ reading /\ reading' = reading
      /\ \A k \in 0..(2 * Seen - 1) : Edges[k] = Read(pos + 2 + 4 * k, 4)
  BY SackFits
<1>2. /\ segment \in Segments /\ i \in DOMAIN segment.sent /\ o = segment.sent[i]
      /\ o.value \in Seq(Byte) /\ Len(o.value) \in Nat /\ o \in SentOption
      /\ pos = Offset(segment.sent, i) /\ pos \in Nat
  BY AtOptionFacts
<1>3. PICK present \in Int : /\ present = bytes_left - 2 /\ present = after_optlen
                             /\ present = OptionBytes(segment) - Offset(segment.sent, i) - 2
                             /\ present >= 0
  <2>1. /\ bytes_left - 2 \in Int /\ after_optlen = bytes_left - 2
        /\ bytes_left - 2 = OptionBytes(segment) - Offset(segment.sent, i) - 2
    BY AtOptionFacts
  <2>2. bytes_left - 2 >= 0
    BY <1>1, <2>1 DEF AtOption
  <2> QED
    BY <2>1, <2>2
<1>4. o.kind = SACK /\ o.kind \notin {EOL, NOP} /\ o.kind # EOL /\ o.kind \in Known
      /\ o.kind # TIMESTAMP /\ o.kind # MSS /\ o.kind # WSCALE
  BY KindsDiffer DEF selective_ack, HasOptlen, AtOption, Known
<1>5. PICK n \in Nat : n = Len(o.value) /\ n % 8 = 0
  BY <1>2, <1>4, Fits
<1>6. PICK m \in Nat : n = 8 * m
  <2>1. n \in Nat /\ n % 8 = 0
    BY <1>5
  <2> QED
    BY <2>1, MultipleOf8
<1>7. optlen = 2 + n
  <2>1. pos + 1 < OptionBytes(segment)
    BY <1>1 DEF IInv, TypeOK, InStep
  <2>2. At(Offset(segment.sent, i) + 1) = 2 + Len(segment.sent[i].value)
    BY <1>2, <1>4, <2>1, OptionRead
  <2> QED
    BY <1>2, <1>5, <2>2 DEF optlen
<1>8. Blocks = m
  BY <1>6, <1>7 DEF Blocks
<1>9. PICK k \in Nat, seen \in Nat : /\ seen = Seen /\ k = 8 * seen /\ k <= present /\ k <= n
                       /\ \/ k = n /\ k <= present /\ k % 8 = 0
                          \/ present >= 0 /\ k = (present \div 8) * 8
  <2>1. PICK seen : seen = Seen
    OBVIOUS
  <2>2. seen = CapturedBlocks(m, present)
    BY <1>3, <1>8, <2>1 DEF Seen
  <2>3. CASE 8 * m <= present
    <3>1. seen = m
      BY <2>2, <2>3 DEF CapturedBlocks
    <3> QED
      BY <1>5, <1>6, <2>1, <2>3, <3>1
  <2>4. CASE ~(8 * m <= present)
    <3>1. seen = present \div 8 /\ present \div 8 \in Nat /\ 8 * (present \div 8) <= present
      BY <1>3, <2>2, <2>4 DEF CapturedBlocks
    <3>2. 8 * seen = (present \div 8) * 8
      BY <3>1
    <3> QED
      BY <1>3, <1>6, <2>1, <2>4, <3>1, <3>2
  <2> QED
    BY <2>3, <2>4
<1>10. CapturedValue(i) = SubSeq(o.value, 1, k)
  <2>1. PICK u \in {1, 2, 8} : u = 8 /\ u = Unit(segment.sent[i])
    BY <1>2, <1>4, UnitOf
  <2>2. \/ k = Len(segment.sent[i].value) /\ k <= present /\ k % u = 0
        \/ present < 0 /\ k = 0
        \/ present >= 0 /\ k = (present \div u) * u
    BY <1>2, <1>5, <1>9, <2>1
  <2>3. k <= Len(segment.sent[i].value)
    BY <1>2, <1>5, <1>9
  <2>4. CapturedValue(i) = SubSeq(segment.sent[i].value, 1, k)
    BY <1>2, <1>3, <2>1, <2>2, <2>3, CapturedPart
  <2> QED
    BY <1>2, <2>4
<1>11. PICK sacks : sacks = Edges
  OBVIOUS
<1>12. ASSUME NEW b \in 1..k
       PROVE  sacks[(b - 1) \div 4][((b - 1) % 4) + 1] = o.value[b]
  <2>1. PICK q \in Nat, r \in 0..3 : /\ q = (b - 1) \div 4 /\ r = (b - 1) % 4
                                     /\ b = 4 * q + r + 1
    OBVIOUS
  <2>2. q \in 0..(2 * seen - 1)
    BY <1>9, <2>1
  <2>3. sacks[q] = Read(pos + 2 + 4 * q, 4)
    BY <1>1, <1>9, <1>11, <2>2
  <2>4. r + 1 \in 1..4
    BY <2>1
  <2>5. sacks[q][r + 1] = At(pos + 2 + 4 * q + (r + 1) - 1)
    BY <2>3, <2>4 DEF Read
  <2>6. pos + 2 + 4 * q + (r + 1) - 1 = pos + 2 + b - 1
    <3>1. PICK p \in Nat : p = pos
      BY <1>2
    <3>2. b = 4 * q + r + 1
      BY <2>1
    <3>3. p + 2 + 4 * q + (r + 1) - 1 = p + 2 + b - 1
      BY <3>2
    <3> QED
      BY <3>1, <3>3
  <2>7. b \in 1..Len(segment.sent[i].value) /\ segment.sent[i].kind \notin {EOL, NOP}
    BY <1>2, <1>4, <1>5, <1>9
  <2>8. Offset(segment.sent, i) + 2 + b <= OptionBytes(segment)
    <3>1. OptionBytes(segment) \in Int
      BY <1>2, SegmentType
    <3> QED
      BY <1>2, <1>3, <1>9, <3>1
  <2>9. At(Offset(segment.sent, i) + 2 + b - 1) = segment.sent[i].value[b]
    BY <1>2, <2>7, <2>8, ValueByteRead
  <2> QED
    BY <1>2, <2>1, <2>5, <2>6, <2>9
<1>13. SubSeq(o.value, 1, k) = [b \in 1..(8 * seen) |-> sacks[(b - 1) \div 4][((b - 1) % 4) + 1]]
  <2>1. SubSeq(o.value, 1, k) = [b \in 1..(k - 1 + 1) |-> o.value[1 + b - 1]]
    BY <1>2
  <2>2. k - 1 + 1 = k /\ \A b \in 1..k : 1 + b - 1 = b
    BY <1>9
  <2>3. SubSeq(o.value, 1, k) = [b \in 1..k |-> o.value[b]]
    BY <2>1, <2>2
  <2> QED
    BY <1>9, <1>12, <2>3
<1>14. options \in TcpOptions
  BY DEF IInv, TypeOK
<1>15. SackOptions.mss = options.mss /\ SackOptions.wscale = options.wscale
       /\ SackOptions.timestamps = options.timestamps
       /\ SackOptions.unknown_opt_vals = options.unknown_opt_vals
  BY <1>14 DEF SackOptions, TcpOptions
<1>16. PICK opts : opts = SackOptions
  OBVIOUS
<1>17. OnlyField(opts, o.kind)
  <2>1. options.unknown_opt_vals = options.unknown_opt_vals \o <<>> /\ <<>> \in Seq(Byte)
    BY <1>14 DEF TcpOptions
  <2>2. \E w \in Seq(Byte) : opts.unknown_opt_vals = options.unknown_opt_vals \o w
    BY <1>15, <1>16, <2>1
  <2> QED
    BY <1>1, <1>4, <1>15, <1>16, <2>2 DEF OnlyField
<1>18. ASSUME OneMore(options, options', i - 1, o.kind, seen), Listed(opts, options')
       PROVE  Shows(options', i) = CapturedValue(i)
  <2>1. PICK new : new = options'
    OBVIOUS
  <2>2. i \in Nat /\ (i - 1) + 1 = i
    BY DEF AtOption
  <2>3. new.signature[i] = SACK /\ new.lengths[i] = seen
    BY <1>4, <1>18, <2>1, <2>2 DEF OneMore
  <2>4. new.sacks = sacks
    BY <1>1, <1>11, <1>16, <1>18, <2>1 DEF Listed
  <2>5. Shows(new, i) = [b \in 1..(8 * new.lengths[i]) |->
                           new.sacks[(b - 1) \div 4][((b - 1) % 4) + 1]]
    BY <2>3, ShowsByKind
  <2>6. Shows(new, i) = [b \in 1..(8 * seen) |-> sacks[(b - 1) \div 4][((b - 1) % 4) + 1]]
    BY <2>3, <2>4, <2>5, Zenon
  <2> QED
    BY <1>10, <1>13, <2>1, <2>6
<1>19. Len(opts.unknown_opt_vals)
         = Len(options.unknown_opt_vals) + (IF o.kind \notin Known THEN seen ELSE 0)
  <2>1. Len(options.unknown_opt_vals) \in Nat
    BY <1>14 DEF TcpOptions
  <2>2. \A u \in Nat : u = u + 0
    OBVIOUS
  <2>3. (IF o.kind \notin Known THEN seen ELSE 0) = 0
    BY <1>4, Zenon
  <2> QED
    BY <1>15, <1>16, <2>1, <2>2, <2>3, Zenon
<1>20. Turn(opts, seen, 2 + 8 * m) /\ seen \in Byte
  BY <1>1, <1>8, <1>9, <1>16
<1>21. reading' = TRUE /\ o.kind # EOL /\ 2 + 8 * m = Size(o)
  <2>1. Size(o) = 2 + Len(o.value)
    BY <1>2, <1>4, SizeOf
  <2> QED
    BY <1>1, <1>4, <1>5, <1>6, <2>1 DEF IInv, TypeOK
<1>22. OneMore(options, options', i - 1, o.kind, seen) /\ Listed(opts, options') =>
         Shows(options', i) = CapturedValue(i)
  BY <1>18
<1>23. o.kind = TIMESTAMP /\ seen # 0 => CapturedValue(i) = o.value
  BY <1>4
<1> QED
  BY <1>1, <1>17, <1>19, <1>20, <1>21, <1>22, <1>23, TurnKeepsOptions

\* w is what s \o w has behind its first a elements.
Behind(s, w, a, l) == SubSeq(s \o w, a + 1, a + l) = w

\* Behind s, s \o w is w.
LEMMA PartBehind ==
  ASSUME NEW s \in Seq(Byte), NEW w \in Seq(Byte), NEW a \in Nat, NEW l \in Nat,
         a = Len(s), l = Len(w)
  PROVE  Behind(s, w, a, l) /\ Len(s \o w) = a + l
<1>1. s \o w \in Seq(Byte) /\ Len(s \o w) = a + l
  OBVIOUS
<1>2. \A j \in 1..l : (s \o w)[a + j] = w[j]
  OBVIOUS
<1>3. SubSeq(s \o w, a + 1, a + l) = [j \in 1..l |-> (s \o w)[a + 1 + j - 1]]
  <2>1. (a + l) - (a + 1) + 1 = l
    OBVIOUS
  <2> QED
    BY <1>1, <2>1
<1>4. \A j \in 1..l : a + 1 + j - 1 = a + j
  OBVIOUS
<1>5. w = [j \in 1..l |-> w[j]]
  OBVIOUS
<1>6. SubSeq(s \o w, a + 1, a + l) = w
  BY <1>2, <1>3, <1>4, <1>5
<1> QED
  BY <1>1, <1>6 DEF Behind

\* An unknown option keeps the bytes of its value that are captured.
LEMMA UnknownTurn ==
  ASSUME IInv, AsSent(segment), SoFar, ValuesKept, NEW i, NEW o, AtOption(i, o),
         unknown_option
  PROVE  SoFar' /\ ValuesKept'
<1>1. /\ UnknownOptions \in TcpOptions /\ Turn(UnknownOptions, UnknownBytes, optlen)
      /\ UnknownOptions.signature = options.signature
      /\ UnknownOptions.lengths = options.lengths
      /\ optlen \in Nat /\ UnknownBytes \in Byte /\ bytes_left > 1
      /\ reading /\ reading' = reading
      /\ Read(pos + 2, UnknownBytes) \in Seq(Byte)
  BY UnknownFits
<1>2. /\ segment \in Segments /\ i \in DOMAIN segment.sent /\ o = segment.sent[i]
      /\ o.value \in Seq(Byte) /\ Len(o.value) \in Nat /\ o \in SentOption
      /\ pos = Offset(segment.sent, i) /\ pos \in Nat
  BY AtOptionFacts
<1>3. PICK present \in Int : /\ present = bytes_left - 2 /\ present = after_optlen
                             /\ present = OptionBytes(segment) - Offset(segment.sent, i) - 2
                             /\ present >= 0
  <2>1. /\ bytes_left - 2 \in Int /\ after_optlen = bytes_left - 2
        /\ bytes_left - 2 = OptionBytes(segment) - Offset(segment.sent, i) - 2
    BY AtOptionFacts
  <2>2. bytes_left - 2 >= 0
    BY <1>1, <2>1 DEF AtOption
  <2> QED
    BY <2>1, <2>2
<1>4. o.kind \notin Known /\ o.kind \notin {EOL, NOP} /\ o.kind \notin {MSS, SACK, TIMESTAMP}
      /\ o.kind # EOL /\ o.kind # TIMESTAMP /\ o.kind # MSS /\ o.kind # WSCALE /\ o.kind # SACK
  BY DEF unknown_option, HasOptlen, AtOption, Known
<1>5. PICK n \in Nat : n = Len(o.value)
  BY <1>2
<1>6. optlen = 2 + n
  <2>1. pos + 1 < OptionBytes(segment)
    BY <1>1 DEF IInv, TypeOK, InStep
  <2>2. At(Offset(segment.sent, i) + 1) = 2 + Len(segment.sent[i].value)
    BY <1>2, <1>4, <2>1, OptionRead
  <2> QED
    BY <1>2, <1>5, <2>2 DEF optlen
<1>7. PICK k \in Nat : k = UnknownBytes /\ k = IF n < present THEN n ELSE present
  <2>1. optlen - 2 = n
    BY <1>6
  <2> QED
    BY <1>3, <2>1 DEF UnknownBytes
<1>8. k <= n /\ k <= present
  BY <1>3, <1>7
<1>9. CapturedValue(i) = SubSeq(o.value, 1, k)
  <2>1. PICK u \in {1, 2, 8} : u = 1 /\ u = Unit(segment.sent[i])
    BY <1>2, <1>4, UnitOf
  <2>2. \/ k = n /\ k <= present /\ k % u = 0
        \/ present < 0 /\ k = 0
        \/ present >= 0 /\ k = (present \div u) * u
    BY <1>3, <1>7, <1>8, <2>1
  <2>3. k <= Len(segment.sent[i].value) /\ n = Len(segment.sent[i].value)
    BY <1>2, <1>5, <1>8
  <2>4. \/ k = Len(segment.sent[i].value) /\ k <= present /\ k % u = 0
        \/ present < 0 /\ k = 0
        \/ present >= 0 /\ k = (present \div u) * u
    BY <2>2, <2>3, Zenon
  <2>5. CapturedValue(i) = SubSeq(segment.sent[i].value, 1, k)
    BY <1>2, <1>3, <2>1, <2>3, <2>4, CapturedPart
  <2> QED
    BY <1>2, <2>5
<1>10. PICK w \in Seq(Byte) : w = Read(pos + 2, k) /\ w = CapturedValue(i) /\ Len(w) = k
  <2>1. Read(pos + 2, k) \in Seq(Byte)
    BY <1>1, <1>7
  <2>2. Offset(segment.sent, i) + 2 + k <= OptionBytes(segment)
    <3>1. OptionBytes(segment) \in Int
      BY <1>2, SegmentType
    <3> QED
      BY <1>2, <1>3, <1>8, <3>1
  <2>3. k <= Len(segment.sent[i].value) /\ segment.sent[i].kind \notin {EOL, NOP}
    BY <1>2, <1>4, <1>5, <1>8
  <2>4. Read(Offset(segment.sent, i) + 2, k) = SubSeq(segment.sent[i].value, 1, k)
    BY <1>2, <2>2, <2>3, ValueRead
  <2>5. Read(pos + 2, k) = CapturedValue(i)
    BY <1>2, <1>9, <2>4
  <2>6. Len(Read(pos + 2, k)) = k
    BY DEF Read
  <2> QED
    BY <2>1, <2>5, <2>6
<1>11. PICK s \in Seq(Byte), a \in Nat : s = options.unknown_opt_vals /\ a = Len(s)
  <2>1. options.unknown_opt_vals \in Seq(Byte)
    BY DEF IInv, TypeOK, TcpOptions
  <2> QED
    BY <2>1
<1>12. PICK opts : opts = UnknownOptions
  OBVIOUS
<1>21. SubSeq(s \o w, a + 1, a + k) = w /\ Len(s \o w) = a + k
  <2>1. k \in Nat /\ w \in Seq(Byte) /\ s \in Seq(Byte) /\ a \in Nat
    BY <1>7, <1>10, <1>11, Zenon
  <2>2. k = Len(w) /\ a = Len(s)
    BY <1>10, <1>11, Zenon
  <2>3. SubSeq(s \o w, a + 1, a + k) = w
    <3>1. s \in Seq(Byte) /\ w \in Seq(Byte) /\ a \in Nat /\ k \in Nat
      BY <2>1, Zenon
    <3>2. a = Len(s) /\ k = Len(w)
      BY <2>2, Zenon
    <3>3. Behind(s, w, a, k)
      BY <3>1, <3>2, PartBehind, Zenon
    <3> QED
      BY <3>3, Zenon DEF Behind
  <2>4. Len(s \o w) = a + k
    BY <2>1, <2>2, PartBehind, Zenon
  <2> QED
    BY <2>3, <2>4
<1>13. /\ opts.unknown_opt_vals = s \o w /\ opts.mss = options.mss
       /\ opts.wscale = options.wscale /\ opts.sacks = options.sacks
       /\ opts.timestamps = options.timestamps
  <2>1. options \in TcpOptions
    BY DEF IInv, TypeOK
  <2>2. w = Read(pos + 2, UnknownBytes)
    BY <1>7, <1>10
  <2> QED
    BY <1>11, <1>12, <2>1, <2>2 DEF UnknownOptions, TcpOptions
<1>14. OnlyField(opts, o.kind)
  <2>1. \E v \in Seq(Byte) : opts.unknown_opt_vals = options.unknown_opt_vals \o v
    BY <1>11, <1>13
  <2> QED
    BY <1>1, <1>4, <1>12, <1>13, <2>1 DEF OnlyField
<1>15. ASSUME OneMore(options, options', i - 1, o.kind, k), Listed(opts, options')
       PROVE  Shows(options', i) = CapturedValue(i)
  <2>1. PICK new : new = options'
    OBVIOUS
  <2>2. i \in Nat /\ i - 1 \in Nat /\ (i - 1) + 1 = i /\ Len(options.signature) = i - 1
    BY DEF AtOption
  <2>3. new.signature[i] = o.kind /\ new.lengths[i] = k
    BY <1>15, <2>1, <2>2 DEF OneMore
  <2>4. new.unknown_opt_vals = s \o w
    BY <1>13, <1>15, <2>1 DEF Listed
  <2>5. KeptBefore(new, i) = a
    <3>1. KeptBefore(options, i) = a
      BY <1>11, <2>2 DEF ValuesKept
    <3>2. OneMore(options, new, i - 1, o.kind, k) /\ i \in 1..((i - 1) + 1)
      BY <1>15, <2>1, <2>2 DEF AtOption
    <3> QED
      BY <3>1, <3>2, KeptBeforeStays
  <2>6. Shows(new, i) = SubSeq(new.unknown_opt_vals, KeptBefore(new, i) + 1,
                               KeptBefore(new, i) + new.lengths[i])
    BY <1>4, <2>3, ShowsByKind
  <2>7. Shows(new, i) = SubSeq(s \o w, a + 1, a + k)
    BY <2>3, <2>4, <2>5, <2>6
  <2> QED
    BY <1>10, <1>21, <2>1, <2>7
<1>16. Len(opts.unknown_opt_vals)
         = Len(options.unknown_opt_vals) + (IF o.kind \notin Known THEN k ELSE 0)
  <2>1. (IF o.kind \notin Known THEN k ELSE 0) = k
    BY <1>4, Zenon
  <2> QED
    BY <1>11, <1>13, <1>21, <2>1, Zenon
<1>17. Turn(opts, k, optlen) /\ k \in Byte
  BY <1>1, <1>7, <1>12
<1>18. reading' = TRUE /\ o.kind # EOL /\ optlen = Size(o)
  <2>1. Size(o) = 2 + Len(o.value)
    BY <1>2, <1>4, SizeOf
  <2> QED
    BY <1>1, <1>4, <1>5, <1>6, <2>1 DEF IInv, TypeOK
<1>19. OneMore(options, options', i - 1, o.kind, k) /\ Listed(opts, options') =>
         Shows(options', i) = CapturedValue(i)
  BY <1>15
<1>20. o.kind = TIMESTAMP /\ k # 0 => CapturedValue(i) = o.value
  BY <1>4
<1> QED
  BY <1>1, <1>14, <1>16, <1>17, <1>18, <1>19, <1>20, TurnKeepsOptions

-----------------------------------------------------------------------------
(* The options printed. *)

\* Together they are inductive: what the next turn reads is the next of the options sent
\* only since those before it were read to their ends.
PrintInv == IInv /\ AsSent(segment) /\ SoFar /\ ValuesKept

\* Before the first turn nothing was read.
LEMMA PrintInit ==
  ASSUME \A seg \in Segments : AsSent(seg), Init
  PROVE  PrintInv
<1>1. IInv /\ segment \in Segments /\ reading = TRUE /\ pos = 0
  BY TypeInit DEF Init
<1>2. AsSent(segment)
  BY <1>1
<1>3. options.signature = <<>> /\ options.lengths = <<>> /\ options.unknown_opt_vals = <<>>
  BY DEF Init
<1>4. PICK opts : opts = options
  OBVIOUS
<1>5. /\ Len(opts.signature) = 0 /\ Len(opts.lengths) = 0 /\ Len(opts.unknown_opt_vals) = 0
      /\ opts \in TcpOptions
  BY <1>1, <1>3, <1>4 DEF IInv, TypeOK
<1>6. segment.sent \in Seq(SentOption)
  BY <1>1, SegmentType
<1>7. Offset(segment.sent, 0 + 1) = 0
  BY <1>6, OffsetFirst
<1>8. SoFar
  <2>1. 1..0 = {} /\ 1..(0 - 1) = {} /\ 0 <= Len(segment.sent)
    BY <1>6
  <2> QED
    BY <1>1, <1>4, <1>5, <1>7, <2>1 DEF SoFar
<1>9. KeptBefore(opts, 0 + 1) = 0
  <2>1. PICK n \in Nat : n = 0
    OBVIOUS
  <2>2. Paired(opts, n) /\ n + 1 \in 1..(n + 1)
    BY <1>5, <2>1 DEF Paired
  <2>3. UnknownAmong(opts, n + 1) = {}
    BY <2>1 DEF UnknownAmong
  <2>4. IsSum(KeptBefore(opts, n + 1), opts.lengths, {})
    BY <2>2, <2>3, KeptBeforeIsSum
  <2>5. IsFiniteSet({}) /\ \A x \in {} : opts.lengths[x] = 0
    BY FS_EmptySet
  <2>6. KeptBefore(opts, n + 1) = 0
    BY <2>4, <2>5, SumOfZeros
  <2> QED
    BY <2>1, <2>6
<1>10. ValuesKept
  <2>1. 1..0 = {}
    OBVIOUS
  <2> QED
    BY <1>4, <1>5, <1>9, <2>1 DEF ValuesKept
<1> QED
  BY <1>1, <1>2, <1>8, <1>10 DEF PrintInv

\* Each turn keeps the invariant.
LEMMA PrintStep ==
  ASSUME PrintInv, [Next]_vars
  PROVE  PrintInv'
<1>1. IInv /\ AsSent(segment) /\ SoFar /\ ValuesKept /\ IInv'
  BY StepInvariant DEF PrintInv
<1>2. segment' = segment
  BY DEF Next, vars, loop_ends, end_of_options, no_operation, optlen_missing,
         max_segment_size, window_scale, sack_permitted, selective_ack, timestamp,
         unknown_option, Turn
<1>3. AsSent(segment)'
  BY <1>1, <1>2, Zenon
<1>4. CASE loop_ends
  <2>1. SoFar'
    BY <1>1, <1>4, EndMoves
  <2>2. options' = options /\ \A j : CapturedValue(j)' = CapturedValue(j)
    BY <1>4 DEF loop_ends, CapturedValue, OptionBytes
  <2>3. ValuesKept'
    BY <1>1, <1>2, <2>2 DEF ValuesKept
  <2> QED
    BY <1>1, <1>3, <2>1, <2>3 DEF PrintInv
<1>5. CASE UNCHANGED vars
  <2>1. options' = options /\ pos' = pos /\ reading' = reading
    BY <1>5 DEF vars
  <2>2. \A j : CapturedValue(j)' = CapturedValue(j)
    BY <1>2 DEF CapturedValue, OptionBytes
  <2>3. Reached' = Reached
    BY <1>2 DEF Reached, OptionBytes
  <2>4. ValuesKept'
    BY <1>1, <1>2, <2>1, <2>2 DEF ValuesKept
  <2>5. SoFar'
    BY <1>1, <1>2, <2>1, <2>3 DEF SoFar
  <2> QED
    BY <1>1, <1>3, <2>4, <2>5 DEF PrintInv
<1>6. CASE \/ end_of_options \/ no_operation \/ optlen_missing \/ sack_permitted
           \/ max_segment_size \/ window_scale \/ timestamp \/ selective_ack \/ unknown_option
  <2>1. reading /\ bytes_left > 0
    BY <1>1, <1>6 DEF end_of_options, no_operation, optlen_missing, max_segment_size,
       window_scale, sack_permitted, selective_ack, timestamp, unknown_option, HasOptlen,
       IInv, TypeOK
  <2>2. PICK i, o : AtOption(i, o)
    BY <1>1, <2>1, AtNext
  <2>3. CASE \/ end_of_options \/ no_operation \/ optlen_missing \/ sack_permitted
             \/ max_segment_size /\ ~(after_optlen >= 2)
             \/ window_scale /\ ~(after_optlen >= 1)
             \/ timestamp /\ ~(after_optlen >= 8)
    <3>1. SoFar' /\ ValuesKept'
      BY <1>1, <2>2, <2>3, EmptyTurns
    <3> QED
      BY <1>1, <1>3, <3>1 DEF PrintInv
  <2>4. CASE \/ max_segment_size /\ after_optlen >= 2
             \/ window_scale /\ after_optlen >= 1
             \/ timestamp /\ after_optlen >= 8
    <3>1. SoFar' /\ ValuesKept'
      BY <1>1, <2>2, <2>4, FullTurns
    <3> QED
      BY <1>1, <1>3, <3>1 DEF PrintInv
  <2>5. CASE selective_ack
    <3>1. SoFar' /\ ValuesKept'
      BY <1>1, <2>2, <2>5, SackTurn
    <3> QED
      BY <1>1, <1>3, <3>1 DEF PrintInv
  <2>6. CASE unknown_option
    <3>1. SoFar' /\ ValuesKept'
      BY <1>1, <2>2, <2>6, UnknownTurn
    <3> QED
      BY <1>1, <1>3, <3>1 DEF PrintInv
  <2> QED
    BY <1>6, <2>3, <2>4, <2>5, <2>6, Zenon
<1> QED
  BY <1>4, <1>5, <1>6 DEF Next

\* When the loop has ended, the invariant says what is printed.
LEMMA PrintsAsSent ==
  ASSUME PrintInv
  PROVE  PrintedAsSent
<1> SUFFICES ASSUME ~reading
             PROVE  Printed = [i \in Reached |-> [kind |-> segment.sent[i].kind,
                                                  value |-> CapturedValue(i)]]
  BY DEF PrintedAsSent
<1>1. IInv /\ SoFar /\ ValuesKept
  BY DEF PrintInv
<1>2. PICK n \in Nat : n = Len(options.signature) /\ options.signature \in Seq(Byte)
  BY <1>1 DEF IInv, TypeOK, TcpOptions
<1>3. Reached = 1..n /\ DOMAIN options.signature = 1..n
  BY <1>1, <1>2 DEF SoFar
<1>4. ASSUME NEW i \in 1..n
      PROVE  options.signature[i] = segment.sent[i].kind /\ PrintedValue(i) = CapturedValue(i)
  <2>1. options.signature[i] = segment.sent[i].kind
    BY <1>1, <1>2 DEF SoFar
  <2>2. Shows(options, i) = CapturedValue(i)
    BY <1>1, <1>2 DEF ValuesKept
  <2> QED
    BY <2>1, <2>2, ShowsIsPrinted
<1>5. Printed = [i \in 1..n |-> [kind |-> options.signature[i], value |-> PrintedValue(i)]]
  BY <1>3 DEF Printed
<1> QED
  BY <1>3, <1>4, <1>5

\* There is one timestamp option at most, and it has a length if its value is whole.
LEMMA KnowsTimestamps ==
  ASSUME PrintInv
  PROVE  TimestampsKnown
<1> SUFFICES ASSUME ~reading
             PROVE  has_timestamps <=>
                      \E i \in Reached : /\ segment.sent[i].kind = TIMESTAMP
                                         /\ CapturedValue(i) = segment.sent[i].value
  BY DEF TimestampsKnown
<1>1. IInv /\ SoFar /\ ValuesKept /\ AsSent(segment) /\ segment \in Segments
  BY DEF PrintInv, IInv
<1>2. PICK n \in Nat : n = Len(options.signature) /\ options.signature \in Seq(Byte)
                       /\ Len(options.lengths) = n /\ options.lengths \in Seq(Byte)
  BY <1>1 DEF IInv, TypeOK, TcpOptions, SoFar
<1>3. Reached = 1..n /\ DOMAIN options.signature = 1..n /\ n <= Len(segment.sent)
  BY <1>1, <1>2 DEF SoFar
<1>4. \A i \in 1..n : options.signature[i] = segment.sent[i].kind
  BY <1>1, <1>2 DEF SoFar
<1>5. \A i \in 1..n : i \in DOMAIN segment.sent
  <2>1. segment.sent \in Seq(SentOption)
    BY <1>1, SegmentType
  <2>2. PICK m \in Nat : m = Len(segment.sent)
    BY <2>1
  <2> QED
    BY <1>3, <2>1, <2>2
\* There is one timestamp option at most.
<1>6. \A i, j \in 1..n : segment.sent[i].kind = TIMESTAMP /\ segment.sent[j].kind = TIMESTAMP => i = j
  BY <1>1, <1>5, Zenon DEF AsSent
<1>7. ASSUME NEW i \in 1..n, segment.sent[i].kind = TIMESTAMP
      PROVE  options.lengths[i] # 0 <=> CapturedValue(i) = segment.sent[i].value
  <2>1. options.lengths[i] # 0 => CapturedValue(i) = segment.sent[i].value
    BY <1>1, <1>2, <1>7 DEF ValuesKept
  <2>2. ASSUME options.lengths[i] = 0 PROVE CapturedValue(i) # segment.sent[i].value
    <3>1. Shows(options, i) = CapturedValue(i)
      BY <1>1, <1>2 DEF ValuesKept
    <3>2. Paired(options, n)
      BY <1>1, <1>2 DEF Paired, IInv, TypeOK
    <3>3. Shows(options, i) = <<>>
      BY <2>2, <3>2, ShowsNothing
    <3>4. Len(segment.sent[i].value) = 8
      BY <1>1, <1>5, <1>7, Fits
    <3>5. Len(<<>>) # 8
      OBVIOUS
    <3> QED
      BY <3>1, <3>3, <3>4, <3>5, Zenon
  <2> QED
    BY <2>1, <2>2
<1>8. CASE \E i \in 1..n : segment.sent[i].kind = TIMESTAMP
  <2>1. PICK i \in 1..n : segment.sent[i].kind = TIMESTAMP
    BY <1>8
  <2>2. get_idx_in_signature(TIMESTAMP) = i
    <3>1. TIMESTAMP \in Range(options.signature)
      BY <1>3, <1>4, <2>1 DEF Range
    <3>2. \A k \in DOMAIN options.signature :
            (/\ options.signature[k] = TIMESTAMP
             /\ \A j \in 1..(k - 1) : options.signature[j] # TIMESTAMP) <=> k = i
      <4> SUFFICES ASSUME NEW k \in 1..n
                   PROVE  (/\ options.signature[k] = TIMESTAMP
                           /\ \A j \in 1..(k - 1) : options.signature[j] # TIMESTAMP) <=> k = i
        BY <1>3
      <4>1. options.signature[k] = TIMESTAMP => k = i
        BY <1>4, <1>6, <2>1
      <4>2. options.signature[i] = TIMESTAMP
        BY <1>4, <2>1
      <4>3. ASSUME NEW j \in 1..(i - 1) PROVE options.signature[j] # TIMESTAMP
        <5>1. j \in 1..n /\ j # i
          BY <1>2
        <5> QED
          BY <1>4, <1>6, <2>1, <5>1
      <4> QED
        BY <4>1, <4>2, <4>3
    <3>3. i \in DOMAIN options.signature
      BY <1>3
    <3>4. (CHOOSE k \in DOMAIN options.signature :
             /\ options.signature[k] = TIMESTAMP
             /\ \A j \in 1..(k - 1) : options.signature[j] # TIMESTAMP) = i
      BY <3>2, <3>3
    <3> QED
      BY <3>1, <3>4 DEF get_idx_in_signature
  <2>3. has_timestamps <=> options.lengths[i] # 0
    <3>1. i <= n
      BY <1>2
    <3> QED
      BY <1>2, <2>2, <3>1 DEF has_timestamps
  <2>4. (\E j \in Reached : /\ segment.sent[j].kind = TIMESTAMP
                            /\ CapturedValue(j) = segment.sent[j].value)
          <=> CapturedValue(i) = segment.sent[i].value
    BY <1>3, <1>6, <2>1
  <2> QED
    BY <1>7, <2>1, <2>3, <2>4
<1>9. CASE \A i \in 1..n : segment.sent[i].kind # TIMESTAMP
  <2>1. TIMESTAMP \notin Range(options.signature)
    BY <1>3, <1>4, <1>9 DEF Range
  <2>2. get_idx_in_signature(TIMESTAMP) = n + 1
    BY <1>2, <2>1 DEF get_idx_in_signature
  <2>3. ~has_timestamps
    <3>1. ~(n + 1 <= n)
      OBVIOUS
    <3> QED
      BY <1>2, <2>2, <3>1 DEF has_timestamps
  <2> QED
    BY <1>3, <1>9, <2>3
<1> QED
  BY <1>8, <1>9

\* What is not truncated lies in the captured bytes with all of its options.
LEMMA AllKept ==
  ASSUME segment \in Segments, AsSent(segment)
  PROVE  CompleteUnlessTruncated
<1> SUFFICES ASSUME ~options_truncated(segment), NEW i \in DOMAIN segment.sent,
                    \A j \in 1..(i - 1) : segment.sent[j].kind # EOL
             PROVE  i \in Reached /\ CapturedValue(i) = segment.sent[i].value
  BY DEF CompleteUnlessTruncated
<1>1. /\ segment.sent \in Seq(SentOption) /\ segment.data_offset \in 0..60
      /\ segment.bytes_remaining \in Nat
  BY SegmentType
<1>2. PICK c \in Int : c = OptionBytes(segment) /\ c = segment.data_offset - 20
  <2>1. PICK d \in Nat, r \in Nat : d = segment.data_offset /\ r = segment.bytes_remaining
    <3>1. \A x \in 0..60 : x \in Nat
      OBVIOUS
    <3>2. segment.data_offset \in Nat /\ segment.bytes_remaining \in Nat
      BY <1>1, <3>1, Zenon
    <3> QED
      BY <3>2, Zenon
  <2>2. d - 20 \in Int /\ ~(d - 20 > r)
    BY <2>1 DEF options_truncated
  <2>3. OptionBytes(segment) = d - 20
    BY <2>1, <2>2 DEF OptionBytes
  <2> QED
    BY <2>1, <2>2, <2>3
<1>3. PICK m \in Nat : m = Len(segment.sent)
  BY <1>1
<1>4. i \in 1..m /\ m + 1 \in 1..(Len(segment.sent) + 1) /\ i \in 1..((m + 1) - 1)
      /\ i \in 1..(Len(segment.sent) + 1)
  BY <1>1, <1>3
<1>5. PICK o \in SentOption : o = segment.sent[i]
  BY <1>1
<1>6. PICK x \in Nat, s \in Nat \ {0} : x = Offset(segment.sent, i) /\ s = Size(o)
  BY <1>1, <1>4, OffsetType, SizeOf
<1>7. x + s <= c
  <2>1. Offset(segment.sent, m + 1) = c
    BY <1>2, <1>3 DEF AsSent
  <2>2. Offset(segment.sent, i) + Size(segment.sent[i]) <= Offset(segment.sent, m + 1)
    BY <1>1, <1>4, OffsetsGrow
  <2> QED
    BY <1>5, <1>6, <2>1, <2>2
<1>8. i \in Reached
  <2>1. Offset(segment.sent, i) < OptionBytes(segment)
    BY <1>2, <1>6, <1>7
  <2> QED
    BY <2>1 DEF Reached
<1>9. PICK n \in Nat : n = Len(o.value) /\ o.value \in Seq(Byte)
  BY DEF SentOption
<1>10. SubSeq(o.value, 1, n) = o.value
  BY <1>9
<1>11. PICK present \in Int : present = OptionBytes(segment) - Offset(segment.sent, i) - 2
                              /\ present = c - x - 2
  BY <1>2, <1>6
<1>12. PICK u \in {1, 2, 8} : u = Unit(segment.sent[i])
  BY <1>5, UnitOf
<1>13. \/ n <= present /\ n % u = 0
       \/ present < 0 /\ n = 0
  <2>1. CASE o.kind \in {EOL, NOP}
    <3>1. n = 0
      BY <1>5, <1>9, <2>1, Fits
    <3>2. 0 % u = 0
      OBVIOUS
    <3> QED
      BY <3>1, <3>2
  <2>2. CASE o.kind \notin {EOL, NOP}
    <3>1. s = 2 + n
      BY <1>6, <1>9, <2>2, SizeOf
    <3>2. n <= present
      BY <1>7, <1>11, <3>1
    <3>3. n % u = 0
      <4>1. CASE o.kind = MSS
        <5>1. n = 2 /\ u = 2
          <6>1. n = 2
            BY <1>5, <1>9, <4>1, Fits
          <6> QED
            BY <1>5, <1>12, <4>1, <6>1, UnitOf
        <5> QED
          BY <5>1
      <4>2. CASE o.kind = SACK
        <5>1. n % 8 = 0 /\ u = 8
          <6>1. n % 8 = 0
            BY <1>5, <1>9, <4>2, Fits
          <6> QED
            BY <1>5, <1>12, <4>2, <6>1, UnitOf
        <5> QED
          BY <5>1
      <4>3. CASE o.kind = TIMESTAMP
        <5>1. n = 8 /\ u = 8
          <6>1. n = 8
            BY <1>5, <1>9, <4>3, Fits
          <6> QED
            BY <1>5, <1>12, <4>3, <6>1, UnitOf
        <5> QED
          BY <5>1
      <4>4. CASE o.kind \notin {MSS, SACK, TIMESTAMP}
        <5>1. u = 1
          BY <1>5, <1>12, <4>4, UnitOf
        <5> QED
          BY <5>1
      <4> QED
        BY <4>1, <4>2, <4>3, <4>4
    <3> QED
      BY <3>2, <3>3
  <2> QED
    BY <2>1, <2>2
<1>14. \/ n = Len(segment.sent[i].value) /\ n <= present /\ n % u = 0
       \/ present < 0 /\ n = 0
       \/ present >= 0 /\ n = (present \div u) * u
  BY <1>5, <1>9, <1>13, Zenon
<1>15. n <= Len(segment.sent[i].value)
  BY <1>5, <1>9
<1>16. CapturedValue(i) = SubSeq(segment.sent[i].value, 1, n)
  BY <1>11, <1>12, <1>14, <1>15, CapturedPart
<1> QED
  BY <1>5, <1>8, <1>10, <1>16

\* For any segment as a sender may send it, of any options, cut by the capture
\* anywhere: when the loop has ended, the packet is printed with the options that were
\* captured and with what was captured of their values (Packet.cpp, tcp_options_to_str).
THEOREM OptionsPrintedAsSent ==
  ASSUME \A seg \in Segments : AsSent(seg)
  PROVE  Spec => []PrintedAsSent
<1>1. Init => PrintInv
  BY PrintInit
<1>2. PrintInv /\ [Next]_vars => PrintInv'
  BY PrintStep
<1>3. PrintInv => PrintedAsSent
  BY PrintsAsSent
<1> QED
  BY <1>1, <1>2, <1>3, PTL DEF Spec

\* The packet answers that it has timestamps exactly if both of them were captured.
THEOREM TimestampsAreKnown ==
  ASSUME \A seg \in Segments : AsSent(seg)
  PROVE  Spec => []TimestampsKnown
<1>1. Init => PrintInv
  BY PrintInit
<1>2. PrintInv /\ [Next]_vars => PrintInv'
  BY PrintStep
<1>3. PrintInv => TimestampsKnown
  BY KnowsTimestamps
<1> QED
  BY <1>1, <1>2, <1>3, PTL DEF Spec

\* A packet that is not marked as truncated is printed with every option that was sent
\* before an EOL, and with its whole value.
THEOREM CompleteIfNotTruncated ==
  ASSUME \A seg \in Segments : AsSent(seg)
  PROVE  Spec => []CompleteUnlessTruncated
<1>1. Init => PrintInv
  BY PrintInit
<1>2. PrintInv /\ [Next]_vars => PrintInv'
  BY PrintStep
<1>3. PrintInv => CompleteUnlessTruncated
  BY AllKept DEF PrintInv, IInv
<1> QED
  BY <1>1, <1>2, <1>3, PTL DEF Spec

-----------------------------------------------------------------------------
(* Timestamps: what comparing two of them means, for stamps of any width. *)

\* The remainder of a number that is less than a turn away from zero.
LEMMA ModOfSmall ==
  ASSUME NEW n \in Nat \ {0}, NEW d \in Int, -n < d, d < n
  PROVE  d % n = IF d < 0 THEN d + n ELSE d
  BY SMT

\* A difference of remainders is the difference of the numbers, or a whole turn less.
LEMMA StampDifference ==
  ASSUME NEW n \in Nat \ {0}, NEW x \in Int, NEW y \in Int, y - x \in 0..(n - 1)
  PROVE  (y % n) - (x % n) \in {y - x, y - x - n}
<1> DEFINE p == x \div n
           q == y \div n
           r == x % n
           s == y % n
<1>1. p \in Int /\ r \in 0..(n - 1) /\ x = n * p + r
  BY DivMod
<1>2. q \in Int /\ s \in 0..(n - 1) /\ y = n * q + s
  BY DivMod
<1> HIDE DEF p, q, r, s
<1>3. n * (q - p) = (y - x) - (s - r)
  BY <1>1, <1>2, SMT
<1>4. q - p \in {0, 1}
  <2>1. q - p \in Int /\ n * (q - p) > -n /\ n * (q - p) < 2 * n
    BY <1>1, <1>2, <1>3, SMT
  <2>2. ~(q - p >= 2) /\ ~(q - p <= -1)
    BY <2>1, <1>1, <1>2, SMT
  <2> QED
    BY <2>1, <2>2, <1>1, <1>2, SMT
<1>5. s - r \in {y - x, y - x - n}
  BY <1>1, <1>2, <1>3, <1>4, SMT
<1> QED
  BY <1>5 DEF r, s

\* The order of the stamps is that of the clock (TimeStamp.cpp, operator> and
\* operator<), for clocks that have turned any number of times.
THEOREM StampsFollowClock ==
  ASSUME HALF \in Nat \ {0}, NEW earlier \in Nat, NEW later \in Nat
  PROVE  LaterIsGreater(earlier, later)
<1> DEFINE n == 2 * HALF
           d == later - earlier
           old == TimeStamp(earlier)
           new == TimeStamp(later)
<1> SUFFICES ASSUME d \in 1..(HALF - 1)
             PROVE  /\ Greater(new, old) /\ ~Greater(old, new)
                    /\ Less(old, new) /\ ~Less(new, old)
  BY DEF LaterIsGreater
<1>1. n \in Nat \ {0} /\ d \in 0..(n - 1) /\ earlier \in Int /\ later \in Int
  BY SMT
<1>2. old \in 0..(n - 1) /\ new \in 0..(n - 1)
  BY <1>1, DivMod DEF TimeStamp
<1>3. new - old \in {d, d - n}
  BY <1>1, StampDifference DEF TimeStamp
<1> HIDE DEF old, new
<1>4. (new - old) % n = d
  <2>1. /\ new - old \in Int /\ -n < new - old /\ new - old < n
        /\ (new - old < 0) = (new - old = d - n)
    BY <1>1, <1>2, <1>3, SMT
  <2>2. (new - old) % n = IF new - old < 0 THEN (new - old) + n ELSE new - old
    BY <1>1, <2>1, ModOfSmall
  <2> QED
    BY <1>1, <1>2, <1>3, <2>1, <2>2, SMT
<1>5. (old - new) % n = n - d
  <2>1. /\ old - new \in Int /\ -n < old - new /\ old - new < n
        /\ old - new \in {-d, n - d}
    BY <1>1, <1>2, <1>3, SMT
  <2>2. (old - new) % n = IF old - new < 0 THEN (old - new) + n ELSE old - new
    BY <1>1, <2>1, ModOfSmall
  <2> QED
    BY <1>1, <1>2, <2>1, <2>2, SMT
<1>6. Greater(new, old)
  BY <1>4, SMT DEF Greater
<1>7. ~Greater(old, new)
  BY <1>5, SMT DEF Greater
<1>8. old # new
  BY <1>1, <1>2, <1>3, SMT
<1> QED
  BY <1>6, <1>7, <1>8 DEF Less

\* operator< orders any two different words one way, but for one distance, at which
\* it orders them both ways.
THEOREM LessBothWaysAtHalf ==
  ASSUME HALF \in Nat \ {0}, NEW t1 \in 0..(2 * HALF - 1), NEW t2 \in 0..(2 * HALF - 1)
  PROVE  LessUpToHalf(t1, t2)
<1> DEFINE n == 2 * HALF
<1> SUFFICES ASSUME t1 # t2
             PROVE  IF (t1 - t2) % n = HALF
                    THEN Less(t1, t2) /\ Less(t2, t1)
                    ELSE Less(t1, t2) # Less(t2, t1)
  BY DEF LessUpToHalf
<1>1. n \in Nat \ {0} /\ t1 - t2 \in Int /\ t2 - t1 \in Int /\ n = HALF + HALF
      /\ -n < t1 - t2 /\ t1 - t2 < n /\ -n < t2 - t1 /\ t2 - t1 < n
  BY SMT
<1>2. (t1 - t2) % n = IF t1 - t2 < 0 THEN (t1 - t2) + n ELSE t1 - t2
  BY <1>1, ModOfSmall
<1>3. (t2 - t1) % n = IF t2 - t1 < 0 THEN (t2 - t1) + n ELSE t2 - t1
  BY <1>1, ModOfSmall
<1> HIDE DEF n
<1>4. /\ (t1 - t2) % n \in 1..(n - 1)
      /\ (t2 - t1) % n = n - ((t1 - t2) % n)
  BY <1>1, <1>2, <1>3, SMT
<1>5. Greater(t1, t2) <=> (t1 - t2) % n < HALF
  BY <1>4, <1>1, SMT DEF Greater, n
<1>6. Greater(t2, t1) <=> (t1 - t2) % n > HALF
  BY <1>4, <1>1, SMT DEF Greater, n
<1>7. Less(t1, t2) <=> (t1 - t2) % n >= HALF
  BY <1>5, <1>4, <1>1, SMT DEF Less
<1>8. Less(t2, t1) <=> (t1 - t2) % n <= HALF
  BY <1>6, <1>4, <1>1, SMT DEF Less
<1>9. Less(t1, t2) \in BOOLEAN /\ Less(t2, t1) \in BOOLEAN
  BY DEF Less
<1>10. CASE (t1 - t2) % n = HALF
  BY <1>7, <1>8, <1>10, <1>1, <1>4, SMT
<1>11. CASE (t1 - t2) % n # HALF
  <2>1. Less(t1, t2) <=> ~Less(t2, t1)
    BY <1>7, <1>8, <1>11, <1>1, <1>4, SMT
  <2> QED
    BY <2>1, <1>9, <1>11
<1> QED
  BY <1>10, <1>11
===============================================================================
