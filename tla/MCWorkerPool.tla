---------------------------- MODULE MCWorkerPool -----------------------------
(* Small instances of WorkerPool for TLC.                                  *)
EXTENDS WorkerPool

CONSTANTS t1, t2, w1, w2, p1, p2

(* t1 gets one attempt written as 0, t2 gets two.                          *)
OneAndTwoAttempts == [t \in Tasks |-> IF t = t1 THEN 0 ELSE 2]
TwoAttempts == [t \in Tasks |-> 2]

(* One worker in each of two processes.                                    *)
OneWorkerEach == [w \in Workers |-> IF w = w1 THEN p1 ELSE p2]
OwnIDs == [w \in Workers |-> w]

(* Both processes run with the default WORKER_PREFIX: "dhara-worker-1".    *)
SharedID == [w \in Workers |-> w1]

AllRegistered == [p \in Procs |-> Tasks]

(* p2 was deployed without the handler for t1.                             *)
T1UnknownToP2 == [p \in Procs |-> IF p = p1 THEN Tasks ELSE Tasks \ {t1}]
=============================================================================
