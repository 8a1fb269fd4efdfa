--------------------------- MODULE MCClientRequests ---------------------------
(* Small instances of ClientRequests: one worker, one task, and requests   *)
(* that race each other for it.                                            *)
EXTENDS ClientRequests

CONSTANTS t1, w1, p1, r1, r2, r3

OneAttempt == [t \in Tasks |-> 1]
TwoAttempts == [t \in Tasks |-> 2]
TheProc == [w \in Workers |-> p1]
OwnID == [w \in Workers |-> w]
AllRegistered == [p \in Procs |-> Tasks]

(* One cancel races two retries.                                           *)
CancelAndRetries == [r \in Requests |-> IF r = r1 THEN "cancel" ELSE "retry"]
Cancels == [r \in Requests |-> "cancel"]
ToT1 == [r \in Requests |-> t1]
=============================================================================
