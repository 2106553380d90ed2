---------------------------- MODULE ConversationLog ----------------------------
(***************************************************************************)
(* What the flow map owes its user, with no states, no ids and no texts    *)
(* computed from tuples: the packets that are stored are divided into      *)
(* conversations, each connection has its conversations one after the      *)
(* other, and only the latest of them may still take packets.              *)
(***************************************************************************)
EXTENDS Naturals, Sequences

CONSTANTS
  Packet,    \* the packets, apart from what is in them
  Names(_)  \* the names a packet's connection may go by

VARIABLES
  stored,         \* the packets stored, in order
  conversations,  \* of each connection: its conversations, as sets of places in stored
  over,           \* connections whose latest conversation takes no more packets
  total           \* number of conversations reported

Connections == DOMAIN conversations

\* A connection goes by one name: that of its first packet that was stored.
NameOf(p, c) ==
  /\ c \in Names(p)
  /\ Names(p) \cap Connections \subseteq {c}

\* A packet goes to the latest conversation, and may be the end of it.
Continue(p, c) ==
  /\ c \in Connections \ over
  /\ stored' = Append(stored, p)
  /\ conversations' = [conversations EXCEPT ![c][Len(conversations[c])] = @ \cup {Len(stored')}]
  /\ over' \in {over, over \cup {c}}
  /\ UNCHANGED total

\* A packet starts a conversation, and the one before takes no more.
Begin(p, c) ==
  /\ stored' = Append(stored, p)
  /\ conversations' = [k \in Connections \cup {c} |->
       IF k # c THEN conversations[k]
       ELSE Append(IF c \in Connections THEN conversations[c] ELSE <<>>, {Len(stored')})]
  /\ over' = over \ {c}
  /\ total' = total + 1

\* A conversation ends without a packet: it was idle for too long, or a handshake
\* has come that starts no other.
End(c) ==
  /\ c \in Connections \ over
  /\ over' = over \cup {c}
  /\ UNCHANGED <<stored, conversations, total>>

Init ==
  /\ stored = <<>>
  /\ conversations = [c \in {} |-> <<>>]
  /\ over = {}
  /\ total = 0

Next ==
  \E p \in Packet : \E c \in Names(p) :
    /\ NameOf(p, c)
    /\ Continue(p, c) \/ Begin(p, c) \/ End(c)

Spec == Init /\ [][Next]_<<stored, conversations, over, total>>
===============================================================================
