-------------------------------- MODULE TcpData --------------------------------
(***************************************************************************)
(* The options of a TCP header (src/TcpData.cpp), and what the packet      *)
(* prints and answers about them (src/Packet.cpp).                         *)
(*                                                                         *)
(* The loop of extract_tcp_options reads bytes that may have been cut off  *)
(* anywhere by the capture; one step is one turn of the loop.  A number of *)
(* the header is the sequence of its bytes, most significant first.        *)
(***************************************************************************)
EXTENDS Integers, Sequences, FiniteSets, Functions

CONSTANTS
  Segments,  \* the captured segments
  Junk       \* bytes the memory of a TcpData may hold before it is written

Byte == 0..255

CONSTANTS SACK_SLOTS, MAX_OPTIONS  \* sizes of sacks (8) and of the option area (40)

ASSUME SizesAssumption == SACK_SLOTS = 8 /\ MAX_OPTIONS = 40
ASSUME JunkAssumption == Junk \subseteq Byte /\ Junk # {}

\* What of a segment is behind the fixed header: the length its header tells, the
\* bytes captured and those of them that are options; for reference, the options as
\* they were sent.
Segment == [data_offset : 0..(20 + MAX_OPTIONS), bytes_remaining : Nat,
            bytes : Seq(Byte), sent : Seq([kind : Byte, value : Seq(Byte)])]
OptionBytes(seg) ==
  IF seg.data_offset - 20 < seg.bytes_remaining THEN seg.data_offset - 20
  ELSE seg.bytes_remaining
ASSUME SegmentsAssumption ==
  /\ Segments \subseteq Segment
  /\ \A seg \in Segments : OptionBytes(seg) <= Len(seg.bytes)

VARIABLES
  segment,
  reading,     \* the loop has not ended
  pos,         \* bytes behind raw_data
  bytes_left,
  options

vars == <<segment, reading, pos, bytes_left, options>>

EOL == 0
NOP == 1
MSS == 2
WSCALE == 3
SACK_PERM == 4
SACK == 5
TIMESTAMP == 8
Known == {EOL, NOP, MSS, WSCALE, SACK_PERM, SACK, TIMESTAMP}

TcpOptions == [mss : Seq(Byte), wscale : Seq(Byte),
               sacks : [0..(SACK_SLOTS - 1) -> Seq(Byte)], sacks_optlen : Byte,
               timestamps : Seq(Byte), signature : Seq(Byte), lengths : Seq(Byte),
               unknown_opt_vals : Seq(Byte)]

\* Among the rest: no write went past the end of sacks, and no byte was kept that
\* lies behind the captured options.
TypeOK ==
  /\ segment \in Segment
  /\ reading \in BOOLEAN
  /\ pos \in Int /\ bytes_left \in Int
  /\ options \in TcpOptions

Init ==
  /\ segment \in Segments
  /\ reading = TRUE
  /\ pos = 0 /\ bytes_left = OptionBytes(segment)
  /\ \E j \in Junk :
       options = [mss |-> <<j, j>>, wscale |-> <<j>>,
                  sacks |-> [k \in 0..(SACK_SLOTS - 1) |-> <<j, j, j, j>>],
                  sacks_optlen |-> j, timestamps |-> <<j, j, j, j, j, j, j, j>>,
                  signature |-> <<>>, lengths |-> <<>>, unknown_opt_vals |-> <<>>]

-----------------------------------------------------------------------------
(* A turn of the loop: the kind, the length if the kind has one, the value. *)

\* A byte of memory; what lies behind the captured options is no Byte.
At(p) == IF p < OptionBytes(segment) THEN segment.bytes[p + 1] ELSE 256
Read(from, k) == [b \in 1..k |-> At(from + b - 1)]

kind == At(pos)
optlen == At(pos + 1)
after_optlen == bytes_left - 2

\* The turn appends the kind with a length, and moves on by k bytes; opts is what
\* it has done to the other fields.
Turn(opts, length, k) ==
  /\ options' = [opts EXCEPT !.signature = Append(@, kind), !.lengths = Append(@, length)]
  /\ pos' = pos + k
  /\ bytes_left' = bytes_left - k
  /\ UNCHANGED segment

loop_ends ==
  /\ reading /\ bytes_left <= 0
  /\ reading' = FALSE
  /\ UNCHANGED <<segment, pos, bytes_left, options>>

end_of_options ==
  /\ reading /\ bytes_left > 0
  /\ kind = EOL
  /\ Turn(options, 0, 1)
  /\ reading' = FALSE

\* Mutant: continue before the byte is counted.
no_operation_Stays ==
  /\ reading /\ bytes_left > 0
  /\ kind = NOP
  /\ UNCHANGED vars

\* Mutant: the byte looked at is not consumed.
no_operation_Peeks ==
  /\ reading /\ bytes_left > 0
  /\ kind = NOP
  /\ Turn(options, 0, 0)
  /\ UNCHANGED reading

no_operation ==
  /\ reading /\ bytes_left > 0
  /\ kind = NOP
  /\ Turn(options, 0, 1)
  /\ UNCHANGED reading

optlen_missing ==
  /\ reading /\ bytes_left = 1
  /\ kind \notin {EOL, NOP}
  /\ Turn(options, 0, 1)
  /\ reading' = FALSE

HasOptlen(kinds) == reading /\ bytes_left > 1 /\ kind \in kinds

max_segment_size ==
  /\ HasOptlen({MSS})
  /\ IF after_optlen >= 2
     THEN Turn([options EXCEPT !.mss = Read(pos + 2, 2)], 1, 4)
     ELSE Turn(options, 0, 4)
  /\ UNCHANGED reading

window_scale ==
  /\ HasOptlen({WSCALE})
  /\ IF after_optlen >= 1
     THEN Turn([options EXCEPT !.wscale = Read(pos + 2, 1)], 1, 3)
     ELSE Turn(options, 0, 3)
  /\ UNCHANGED reading

sack_permitted ==
  /\ HasOptlen({SACK_PERM})
  /\ Turn(options, 0, 2)
  /\ UNCHANGED reading

\* Mutant: a block that is cut counts.
CapturedBlocks_Cut(blocks, left) ==
  IF 8 * blocks <= left THEN blocks ELSE (left + 7) \div 8

\* The blocks that are captured whole, of those the length tells.
CapturedBlocks(blocks, left) ==
  IF 8 * blocks <= left THEN blocks ELSE IF left < 8 THEN 0 ELSE left \div 8

\* An edge of a block goes to its place in sacks, wherever that is.
selective_ack ==
  /\ HasOptlen({SACK})
  /\ LET blocks == optlen \div 8
         seen == CapturedBlocks(blocks, after_optlen)
         edges == [k \in DOMAIN options.sacks \cup 0..(2 * seen - 1) |->
                     IF k < 2 * seen THEN Read(pos + 2 + 4 * k, 4) ELSE options.sacks[k]]
     IN  Turn([options EXCEPT !.sacks_optlen = blocks, !.sacks = edges],
              seen, 2 + 8 * blocks)
  /\ UNCHANGED reading

timestamp ==
  /\ HasOptlen({TIMESTAMP})
  /\ IF after_optlen >= 8
     THEN Turn([options EXCEPT !.timestamps = Read(pos + 2, 8)], 1, 10)
     ELSE Turn(options, 0, 10)
  /\ UNCHANGED reading

\* Bytes of an unknown option that are kept: its length, or what is captured.
UnknownBytes ==
  LET n == IF optlen - 2 < after_optlen THEN optlen - 2 ELSE after_optlen
  IN  IF n < 0 THEN 0 ELSE n

\* With an optlen below two this moves back, to read a byte again.
unknown_option ==
  /\ HasOptlen(Byte \ Known)
  /\ Turn([options EXCEPT !.unknown_opt_vals = @ \o Read(pos + 2, UnknownBytes)],
          UnknownBytes, optlen)
  /\ UNCHANGED reading

Next ==
  \/ loop_ends \/ end_of_options \/ no_operation \/ optlen_missing
  \/ max_segment_size \/ window_scale \/ sack_permitted \/ selective_ack
  \/ timestamp \/ unknown_option

\* The loop runs in the program's only thread.
Spec == Init /\ [][Next]_vars /\ WF_vars(Next)

-----------------------------------------------------------------------------
(* What the packet makes of the options. *)

get_idx_in_signature(code) ==
  IF code \in Range(options.signature)
  THEN CHOOSE i \in DOMAIN options.signature :
         /\ options.signature[i] = code
         /\ \A j \in 1..(i - 1) : options.signature[j] # code
  ELSE Len(options.signature) + 1

\* Mutant: the option is enough, whether or not its value was captured.
has_timestamps_InSignature == get_idx_in_signature(TIMESTAMP) <= Len(options.signature)

has_timestamps ==
  LET idx == get_idx_in_signature(TIMESTAMP)
  IN  idx <= Len(options.signature) /\ options.lengths[idx] # 0

\* Mutant: compared with what is left to read, which is never less.
options_truncated_Late(seg) == seg.data_offset - 20 > seg.data_offset - 20

options_truncated(seg) == seg.data_offset - 20 > seg.bytes_remaining

\* The bytes of unknown options before the i-th of the signature: idx when its turn comes.
UnknownBefore(i) ==
  FoldFunctionOnSet(+, 0, options.lengths,
                    {j \in 1..(i - 1) : options.signature[j] \notin Known})

\* Mutant: every unknown option is printed from the first value on.
UnknownValue_First(i) == SubSeq(options.unknown_opt_vals, 1, options.lengths[i])

UnknownValue(i) ==
  SubSeq(options.unknown_opt_vals, UnknownBefore(i) + 1, UnknownBefore(i) + options.lengths[i])

\* The value tcp_options_to_str prints for the i-th option: a list of numbers.
PrintedValue(i) ==
  LET k == options.signature[i]
      length == options.lengths[i]
  IN  CASE k \in {EOL, NOP, SACK_PERM} -> <<>>
        [] k = MSS -> IF length # 0 THEN options.mss ELSE <<>>
        [] k = WSCALE -> IF length # 0 THEN options.wscale ELSE <<>>
        [] k = SACK -> [b \in 1..(8 * length) |->
                          options.sacks[(b - 1) \div 4][((b - 1) % 4) + 1]]
        [] k = TIMESTAMP -> IF length # 0 THEN options.timestamps ELSE <<>>
        [] OTHER -> UnknownValue(i)

Printed == [i \in DOMAIN options.signature |->
              [kind |-> options.signature[i], value |-> PrintedValue(i)]]

-----------------------------------------------------------------------------
(* Properties. *)

\* How an option is laid out: bytes of its numbers that are printed all or none,
\* and of the whole option.
Unit(o) == CASE o.kind = MSS -> 2
             [] o.kind \in {SACK, TIMESTAMP} -> 8
             [] OTHER -> 1
Size(o) == IF o.kind \in {EOL, NOP} THEN 1 ELSE 2 + Len(o.value)

Offset(sent, i) == FoldFunctionOnSet(+, 0, [j \in DOMAIN sent |-> Size(sent[j])], 1..(i - 1))

\* The bytes of an option on the wire.
Wire(o) == IF o.kind \in {EOL, NOP} THEN <<o.kind>> ELSE <<o.kind, Size(o)>> \o o.value

\* A value has the numbers its kind has.
FitsKind(o) ==
  LET n == Len(o.value)
  IN  CASE o.kind \in {EOL, NOP, SACK_PERM} -> n = 0
        [] o.kind = MSS -> n = 2
        [] o.kind = WSCALE -> n = 1
        [] o.kind = SACK -> n % 8 = 0
        [] o.kind = TIMESTAMP -> n = 8
        [] OTHER -> TRUE

\* The options of a segment as a sender may write them: padded to the length that the
\* header tells, no kind that TcpOptions has one place for twice, and the bytes that
\* were captured those of the options.
AsSent(seg) ==
  LET sent == seg.sent
  IN  /\ \A i \in DOMAIN sent : FitsKind(sent[i])
      /\ \A i, j \in DOMAIN sent :
           i # j /\ sent[i].kind = sent[j].kind =>
             sent[i].kind \notin {MSS, WSCALE, SACK, TIMESTAMP}
      /\ Offset(sent, Len(sent) + 1) = seg.data_offset - 20
      /\ \A i \in DOMAIN sent : \A b \in 1..Size(sent[i]) :
           Offset(sent, i) + b <= OptionBytes(seg) =>
             seg.bytes[Offset(sent, i) + b] = Wire(sent[i])[b]

\* The options of which the kind was captured; an EOL is the last one.
Reached ==
  LET sent == segment.sent
      cut == OptionBytes(segment)
  IN  {i \in DOMAIN sent : /\ Offset(sent, i) < cut
                           /\ \A j \in 1..(i - 1) : sent[j].kind # EOL}

\* The numbers of the i-th option sent that are captured whole.
CapturedValue(i) ==
  LET o == segment.sent[i]
      present == OptionBytes(segment) - Offset(segment.sent, i) - 2
      whole == IF present < 0 THEN 0 ELSE (present \div Unit(o)) * Unit(o)
  IN  SubSeq(o.value, 1, IF whole < Len(o.value) THEN whole ELSE Len(o.value))

\* Whatever the options and wherever the capture cuts them, a packet is printed
\* with the options that reached the file, in order, and with those of their values
\* that did, never with bytes that were not captured or that belong to another
\* option (TcpData.h, "MSS may not have its value (eg truncated due to snaplen)").
PrintedAsSent ==
  ~reading => Printed = [i \in Reached |-> [kind |-> segment.sent[i].kind,
                                            value |-> CapturedValue(i)]]

\* TS_val and TS_ecr are taken from the packet exactly if both arrived.
TimestampsKnown ==
  ~reading => (has_timestamps <=>
                 \E i \in Reached : /\ segment.sent[i].kind = TIMESTAMP
                                    /\ CapturedValue(i) = segment.sent[i].value)

\* Only a packet marked with "[|tcp]" may be printed without an option or a value
\* that was sent.
CompleteUnlessTruncated ==
  ~reading /\ ~options_truncated(segment) =>
    \A i \in DOMAIN segment.sent :
      \/ \E j \in 1..(i - 1) : segment.sent[j].kind = EOL
      \/ i \in Reached /\ CapturedValue(i) = segment.sent[i].value

\* Every turn of the loop gets closer to the end of the options or ends the loop,
\* for any bytes, except at an unknown option whose length is told to be zero.
Progress ==
  [][\/ reading' = FALSE
     \/ bytes_left' < bytes_left
     \/ kind \notin Known /\ optlen = 0]_vars

\* The loop comes to its end on the options a sender may send.
LoopEnds == <>(~reading)
===============================================================================
