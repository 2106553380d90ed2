------------------------------ MODULE MCDatabase ------------------------------
(* Small instances of Database for TLC. *)
EXTENDS Database

MCTables == {"packet", "inter_arrival_time"}
MCPackets == {"packet"}

\* Caches of different sizes, so that one fills while the other does not.
MCCapacity == [t \in MCTables |-> IF t = "packet" THEN 1 ELSE 2]
MCOnePacket == [t \in MCPackets |-> 1]
===============================================================================
