--------------------------- MODULE MCParkingLocks ---------------------------
(* ParkingLocks with every lock in the same bucket. *)
EXTENDS ParkingLocks

CONSTANT t1     \* the thread that makes two calls

OneBucket == {"b"}
Collide == [l \in Locks |-> "b"]
TwoOneOne == [t \in Threads |-> IF t = t1 THEN 2 ELSE 1]
=============================================================================
