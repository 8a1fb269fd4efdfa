-------------------------- MODULE PlaygroundCapacity --------------------------
(***************************************************************************)
(* The queue-depth cap of the playground (internal/playground/service.go): *)
(* CreateTask, EnqueueBurst, EnqueueFlaky and EnqueueSlow, which check the *)
(* depth and insert under enqueueMu, and RetryOwned, which reads the task  *)
(* before it takes the mutex.  Workers, reapers and cancels move tasks     *)
(* meanwhile without the mutex.                                            *)
(***************************************************************************)
EXTENDS Integers, FiniteSets

CONSTANTS
  Tasks,
  Requests,
  Count,       \* tasks a request enqueues; a retry counts as one
  Retried,     \* the task a request retries, NoTask if it enqueues
  NoTask,
  NoRequest,   \* enqueueMu is unlocked
  MaxPending

ASSUME CapacityAssumption ==
  /\ IsFiniteSet(Tasks)
  /\ IsFiniteSet(Requests)
  /\ Count \in [Requests -> Nat \ {0}]
  /\ NoTask \notin Tasks
  /\ Retried \in [Requests -> Tasks \cup {NoTask}]
  /\ \A r \in Requests : Retried[r] # NoTask => Count[r] = 1
  /\ NoRequest \notin Requests
  /\ MaxPending \in Nat

Retries == {r \in Requests : Retried[r] # NoTask}

VARIABLES
  status,   \* tasks.status; "ABSENT" before the insert, "DELETED" by retention
  mu,       \* who holds enqueueMu
  at,       \* where each request is
  left,     \* tasks it still has to enqueue
  seen,     \* RetryOwned: the status it read before it took the mutex
  result

vars == <<status, mu, at, left, seen, result>>

Statuses == {"ABSENT", "PENDING", "RUNNING", "COMPLETED", "CANCELED", "DEAD", "DELETED"}

TypeOK ==
  /\ status \in [Tasks -> Statuses]
  /\ mu \in Requests \cup {NoRequest}
  /\ at \in [Requests -> {"arrived", "read", "locked", "admitted", "answered"}]
  /\ left \in [Requests -> Nat]
  /\ seen \in [Requests -> Statuses]
  /\ result \in [Requests -> {"none", "ok", "full", "not dead", "error"}]
  /\ \A r \in Requests : at[r] \in {"locked", "admitted"} <=> mu = r

Init ==
  /\ status = [t \in Tasks |-> "ABSENT"]
  /\ mu = NoRequest
  /\ at = [r \in Requests |-> "arrived"]
  /\ left = Count
  /\ seen = [r \in Requests |-> "ABSENT"]
  /\ result = [r \in Requests |-> "none"]

Active == {t \in Tasks : status[t] \in {"PENDING", "RUNNING"}}
Depth == Cardinality(Active)
-----------------------------------------------------------------------------
(* The request returns res; the deferred Unlock runs.                      *)
Answer(r, res) ==
  /\ at' = [at EXCEPT ![r] = "answered"]
  /\ result' = [result EXCEPT ![r] = res]
  /\ mu' = NoRequest

(* GetStoredTask and requireOwned, before the mutex.  A client knows the   *)
(* id of a task that was inserted.                                         *)
Read(r) ==
  /\ r \in Retries /\ at[r] = "arrived"
  /\ status[Retried[r]] \notin {"ABSENT", "DELETED"}
  /\ seen' = [seen EXCEPT ![r] = status[Retried[r]]]
  /\ at' = [at EXCEPT ![r] = "read"]
  /\ UNCHANGED <<status, mu, left, result>>

(* The row is not found or not owned, or the query fails.                  *)
ReadFails(r) ==
  /\ r \in Retries /\ at[r] = "arrived"
  /\ status[Retried[r]] # "ABSENT"
  /\ at' = [at EXCEPT ![r] = "answered"]
  /\ result' = [result EXCEPT ![r] = "error"]
  /\ UNCHANGED <<status, mu, left, seen>>

Lock(r) ==
  /\ mu = NoRequest
  /\ at[r] = IF r \in Retries THEN "read" ELSE "arrived"
  /\ mu' = r
  /\ at' = [at EXCEPT ![r] = "locked"]
  /\ UNCHANGED <<status, left, seen, result>>

(* Mutant: the tasks of the request itself are not counted.                *)
FullWithoutRequest(n) == Depth > MaxPending

(* current + n > MaxPending                                                *)
Full(n) == Depth + n > MaxPending

(* RetryOwned checks only if the task was DEAD when it was read.           *)
Checks(r) == r \notin Retries \/ seen[r] = "DEAD"

Admit(r) ==
  /\ at[r] = "locked"
  /\ Checks(r) => ~Full(Count[r])
  /\ at' = [at EXCEPT ![r] = "admitted"]
  /\ UNCHANGED <<status, mu, left, seen, result>>

(* ErrQueueFull, or the queue depth could not be read.                     *)
Refuse(r) ==
  /\ at[r] = "locked" /\ Checks(r)
  /\ \/ Full(Count[r]) /\ Answer(r, "full")
     \/ Answer(r, "error")
  /\ UNCHANGED <<status, left, seen>>

(* One insert of the loop; the last one ends the request.                  *)
InsertOne(r) ==
  /\ at[r] = "admitted" /\ r \notin Retries
  /\ \E t \in Tasks :
       /\ status[t] = "ABSENT"
       /\ status' = [status EXCEPT ![t] = "PENDING"]
  /\ left' = [left EXCEPT ![r] = @ - 1]
  /\ IF left[r] = 1 THEN Answer(r, "ok") ELSE UNCHANGED <<mu, at, result>>
  /\ UNCHANGED seen

(* CreateTask with an idempotency key that exists: nothing is inserted.    *)
InsertReplayed(r) ==
  /\ at[r] = "admitted" /\ r \notin Retries /\ Count[r] = 1
  /\ Answer(r, "ok")
  /\ UNCHANGED <<status, left, seen>>

(* Mutant: an error inside the loop leaves the mutex locked.               *)
InsertFailsLocked(r) ==
  /\ at[r] = "admitted" /\ r \notin Retries
  /\ at' = [at EXCEPT ![r] = "answered"]
  /\ result' = [result EXCEPT ![r] = "error"]
  /\ UNCHANGED <<status, mu, left, seen>>

(* An insert fails, in one case after it took effect: the loop stops, what *)
(* was inserted stays.                                                     *)
InsertFails(r) ==
  /\ at[r] = "admitted" /\ r \notin Retries
  /\ Answer(r, "error")
  /\ \/ UNCHANGED status
     \/ \E t \in Tasks :
          /\ status[t] = "ABSENT"
          /\ status' = [status EXCEPT ![t] = "PENDING"]
  /\ UNCHANGED <<left, seen>>

(* client.RetryTask: only a DEAD task goes back to PENDING.                *)
Retry(r) ==
  /\ at[r] = "admitted" /\ r \in Retries
  /\ \/ /\ status[Retried[r]] = "DEAD"
        /\ status' = [status EXCEPT ![Retried[r]] = "PENDING"]
        /\ Answer(r, "ok") \/ Answer(r, "error")
     \/ /\ UNCHANGED status
        /\ Answer(r, "error") \/ (status[Retried[r]] # "DEAD" /\ Answer(r, "not dead"))
  /\ UNCHANGED <<left, seen>>

(* Workers, reapers, cancels and the retention sweep.                      *)
QueueMoves(t) ==
  /\ \E s \in Statuses :
       /\ \/ status[t] = "PENDING" /\ s \in {"RUNNING", "CANCELED", "DELETED"}
          \/ status[t] = "RUNNING" /\ s \in {"PENDING", "COMPLETED", "DEAD"}
          \/ status[t] \in {"COMPLETED", "CANCELED", "DEAD"} /\ s = "DELETED"
       /\ status' = [status EXCEPT ![t] = s]
  /\ UNCHANGED <<mu, at, left, seen, result>>

Serve(r) ==
  \/ Read(r) \/ ReadFails(r) \/ Lock(r) \/ Admit(r) \/ Refuse(r)
  \/ InsertOne(r) \/ InsertReplayed(r) \/ InsertFails(r) \/ Retry(r)

Next == (\E r \in Requests : Serve(r)) \/ (\E t \in Tasks : QueueMoves(t))

Spec == Init /\ [][Next]_vars
FairSpec == Spec /\ \A r \in Requests : WF_vars(Serve(r))
-----------------------------------------------------------------------------
(* Retries that skipped the capacity check and may have brought their task *)
(* back.                                                                   *)
Unchecked ==
  {r \in Retries : /\ seen[r] \notin {"ABSENT", "DEAD"}
                   /\ at[r] = "answered" /\ result[r] \in {"ok", "error"}}

(* What the mutex is for: once a request is admitted, the tasks it still   *)
(* has to insert fit, whatever workers do; only retries of tasks that died *)
(* after they were read can push the queue over its cap, one task each.    *)
CapacityReserved ==
  /\ Depth <= MaxPending + Cardinality(Unchecked)
  /\ \A r \in Requests : at[r] = "admitted" /\ Checks(r) =>
       Depth + left[r] <= MaxPending + Cardinality(Unchecked)

(* The cap of the configuration is the hard bound its comment says it is.  *)
DepthWithinCap == Depth <= MaxPending

(* No request keeps the mutex: each one that can start is answered.        *)
EveryRequestAnswered ==
  \A r \in Requests : (at[r] = "read" \/ (at[r] = "arrived" /\ r \notin Retries)) ~> at[r] = "answered"
=============================================================================
