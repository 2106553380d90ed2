-------------------------------- MODULE RowLog --------------------------------
(***************************************************************************)
(* What the database owes the rest of the program, with no cache and no    *)
(* SQL: per table an append-only log of rows, that a program start empties *)
(* and that loses only its last rows when the program stops.               *)
(***************************************************************************)
EXTENDS Naturals, Sequences

CONSTANTS
  Table,     \* the tables
  Row,       \* the rows
  Answers(_, _, _, _),  \* what a reader may be told: table, log, direction, limit
  Dir_ids,   \* flow directions
  Limits,    \* how many rows a reader may ask for
  MaxLost    \* MaxLost[t]: rows of table t not yet saved when a call ends

VARIABLES log, answer, running

Start ==
  /\ ~running
  /\ running' = TRUE
  /\ log' = [t \in Table |-> <<>>]
  /\ UNCHANGED answer

Add(t, row) ==
  /\ running
  /\ log' = [log EXCEPT ![t] = Append(@, row)]
  /\ UNCHANGED <<answer, running>>

Ask(t, d, n) ==
  /\ running
  /\ answer' \in Answers(t, log[t], d, n)
  /\ UNCHANGED <<log, running>>

\* s is the beginning of r, short of at most n rows.
Survives(s, r, n) ==
  /\ Len(s) <= Len(r) /\ Len(r) <= Len(s) + n
  /\ s = SubSeq(r, 1, Len(s))

\* The program ends, or gives up.
Stop ==
  /\ running
  /\ running' = FALSE
  /\ \A t \in Table : Survives(log'[t], log[t], MaxLost[t])
  /\ UNCHANGED answer

Init ==
  /\ log = [t \in Table |-> <<>>]
  /\ answer = <<>>
  /\ running = FALSE

Next ==
  \/ Start \/ Stop
  \/ \E t \in Table, row \in Row : Add(t, row)
  \/ \E t \in Table, d \in Dir_ids, n \in Limits : Ask(t, d, n)

Spec == Init /\ [][Next]_<<log, answer, running>>
===============================================================================
