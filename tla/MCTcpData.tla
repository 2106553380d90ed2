------------------------------- MODULE MCTcpData -------------------------------
(* Small instances of TcpData for TLC: lists of options as senders send them. *)
EXTENDS TcpData, TimeStamp, SequencesExt

\* The values of timestamp options are compared as TimeStamp does, with words of 4 bits.
ASSUME StampsFollowClock == \A earlier, later \in 0..40 : LaterIsGreater(earlier, later)
ASSUME LessBothWaysAtHalf == \A t1, t2 \in 0..(2 * HALF - 1) : LessUpToHalf(t1, t2)

\* The bytes of a value are small, so that they look like kinds and lengths.
MCOption(k, size) == [kind |-> k, value |-> [b \in 1..size |-> (k + b) % 11]]

MCWire(sent) == FlattenSeq([i \in DOMAIN sent |-> Wire(sent[i])])

\* They are what the proofs about the printed options assume of them.
ASSUME SegmentsAsSent == \A seg \in Segments : AsSent(seg)

\* MD5 (19) has a value of 16 bytes; 30 and 254 stand for other unknown kinds.
MCOptions ==
  {MCOption(NOP, 0), MCOption(MSS, 2), MCOption(WSCALE, 1), MCOption(SACK_PERM, 0),
   MCOption(SACK, 8), MCOption(SACK, 24), MCOption(TIMESTAMP, 8),
   MCOption(19, 16), MCOption(30, 0), MCOption(254, 3)}

\* Any two options, no kind with a number twice, and some longer lists, within 40
\* bytes and padded to whole words.
MCLists ==
  {s \in BoundedSeq(MCOptions, 2) :
     /\ Len(MCWire(s)) <= MAX_OPTIONS
     /\ Len(s) = 2 /\ s[1].kind = s[2].kind => s[1].kind \in {NOP, SACK_PERM, 19, 30, 254}}
  \cup {<<MCOption(MSS, 2), MCOption(SACK_PERM, 0), MCOption(TIMESTAMP, 8),
          MCOption(NOP, 0), MCOption(WSCALE, 1)>>,
        <<MCOption(254, 3), MCOption(NOP, 0), MCOption(19, 16), MCOption(30, 0)>>,
        <<MCOption(NOP, 0), MCOption(NOP, 0), MCOption(SACK, 32)>>}
MCPadded(s) == s \o [i \in 1..((-Len(MCWire(s))) % 4) |-> MCOption(EOL, 0)]

\* Cut anywhere, or captured with payload behind the header.
MCSegmentsOf(lists) ==
  UNION {LET sent == MCPadded(s)
             wire == MCWire(sent)
         IN  {[data_offset |-> 20 + Len(wire), bytes_remaining |-> n,
               bytes |-> SubSeq(Append(wire, MSS), 1, n), sent |-> sent] : n \in 0..(Len(wire) + 1)} :
         s \in lists}
MCSegments == MCSegmentsOf(MCLists)
MCJunk == {9}
===============================================================================
