------------------------- MODULE MCPlaygroundCapacity -------------------------
(* A burst of two, a create and a retry of a task of theirs.               *)
EXTENDS PlaygroundCapacity

CONSTANTS t1, t2, t3, burst, create, retry1

Counts == [r \in Requests |-> IF r = burst THEN 2 ELSE 1]
RetryOfT1 == [r \in Requests |-> IF r = retry1 THEN t1 ELSE NoTask]
=============================================================================
