------------------------------ MODULE TaskStore ------------------------------
(***************************************************************************)
(* The task table as internal/store/task_store.go drives it: one row per   *)
(* task with its status, attempts and lock, the dead_letters table and the *)
(* task_logs table.  Every operation below is one committed transaction of *)
(* PostgresTaskStore; an operation whose transaction fails or matches no   *)
(* row leaves the tables alone and is no step here.                        *)
(*                                                                         *)
(* Time is kept relative to now.  delay[t] is how long until run_at (0:    *)
(* due) and lockAge[t] how long since locked_at, saturating just above the *)
(* reaper's threshold because no query tells larger ages apart.            *)
(*                                                                         *)
(* SKIP LOCKED: a row that another open transaction has locked is passed   *)
(* over, so at this level Claim may take any due row and a reaper run may  *)
(* take any of the stale rows.                                             *)
(***************************************************************************)
EXTENDS Integers, Sequences, FiniteSets

CONSTANTS
  Tasks,           \* ids of the rows that may be inserted
  WorkerIDs,       \* values of locked_by
  NoWorker,        \* locked_by IS NULL
  MaxRetries,      \* max_retries of each row
  StaleThreshold,  \* age of locked_at beyond which the reaper takes a row
  MaxDelay         \* furthest run_at may lie ahead

ASSUME StoreAssumption ==
  /\ MaxRetries \in [Tasks -> Nat]
  /\ StaleThreshold \in Nat \ {0}
  /\ MaxDelay \in Nat
  /\ NoWorker \notin WorkerIDs

VARIABLES
  status,       \* tasks.status; "ABSENT" before the insert
  attempts,     \* tasks.attempts
  lockedBy,     \* tasks.locked_by
  lockAge,      \* now - locked_at
  delay,        \* run_at - now, never below 0
  deadLetters,  \* number of dead_letters rows of the task
  logs          \* statuses of the task's task_logs rows, oldest first

storeVars == <<status, attempts, lockedBy, lockAge, delay, deadLetters, logs>>

TaskStatus == {"PENDING", "RUNNING", "COMPLETED", "DEAD", "CANCELED"}

Expired == StaleThreshold + 1

StoreTypeOK ==
  /\ status \in [Tasks -> TaskStatus \cup {"ABSENT"}]
  /\ attempts \in [Tasks -> Nat]
  /\ lockedBy \in [Tasks -> WorkerIDs \cup {NoWorker}]
  /\ lockAge \in [Tasks -> 0..Expired]
  /\ delay \in [Tasks -> Nat]
  /\ deadLetters \in [Tasks -> Nat]
  /\ logs \in [Tasks -> Seq(TaskStatus)]

StoreInit ==
  /\ status = [t \in Tasks |-> "ABSENT"]
  /\ attempts = [t \in Tasks |-> 0]
  /\ lockedBy = [t \in Tasks |-> NoWorker]
  /\ lockAge = [t \in Tasks |-> 0]
  /\ delay = [t \in Tasks |-> 0]
  /\ deadLetters = [t \in Tasks |-> 0]
  /\ logs = [t \in Tasks |-> <<>>]
-----------------------------------------------------------------------------
(* The status update and the insertLog of one transaction.                 *)
SetStatus(t, s) ==
  /\ status' = [status EXCEPT ![t] = s]
  /\ logs' = [logs EXCEPT ![t] = Append(@, s)]

(* locked_by = NULL, locked_at = NULL                                      *)
Unlock(t) ==
  /\ lockedBy' = [lockedBy EXCEPT ![t] = NoWorker]
  /\ lockAge' = [lockAge EXCEPT ![t] = 0]

(* Mutant: the locked_by condition is missing.                             *)
OwnsWhateverLock(t, id) == status[t] = "RUNNING"

(* WHERE id = $1 AND status = 'RUNNING' AND locked_by = $2                 *)
Owns(t, id) == status[t] = "RUNNING" /\ lockedBy[t] = id

(* WHERE status = 'PENDING' AND run_at <= now()                            *)
Claimable(t) == status[t] = "PENDING" /\ delay[t] = 0

(* Mutant: the reaper selects only rows it can requeue.                    *)
StaleAndRetryable(t) ==
  status[t] = "RUNNING" /\ lockAge[t] > StaleThreshold /\ attempts[t] < MaxRetries[t]

(* WHERE status = 'RUNNING' AND locked_at < now() - threshold              *)
Stale(t) == status[t] = "RUNNING" /\ lockAge[t] > StaleThreshold

(* Create with a fresh (type, idempotency_key): the column defaults make   *)
(* the row PENDING with no attempts; no log row is written.                *)
Create(t, d) ==
  /\ status[t] = "ABSENT"
  /\ status' = [status EXCEPT ![t] = "PENDING"]
  /\ delay' = [delay EXCEPT ![t] = d]
  /\ UNCHANGED <<attempts, lockedBy, lockAge, deadLetters, logs>>

(* Mutant: RUNNING rows are canceled too.                                  *)
CancelRunningToo(t) ==
  /\ status[t] \in {"PENDING", "RUNNING"}
  /\ SetStatus(t, "CANCELED")
  /\ Unlock(t)
  /\ UNCHANGED <<attempts, delay, deadLetters>>

(* The UPDATE of Cancel matches PENDING rows only.                         *)
Cancel(t) ==
  /\ status[t] = "PENDING"
  /\ SetStatus(t, "CANCELED")
  /\ UNCHANGED <<attempts, lockedBy, lockAge, delay, deadLetters>>

Claim(t, id) ==
  /\ Claimable(t)
  /\ SetStatus(t, "RUNNING")
  /\ attempts' = [attempts EXCEPT ![t] = @ + 1]
  /\ lockedBy' = [lockedBy EXCEPT ![t] = id]
  /\ lockAge' = [lockAge EXCEPT ![t] = 0]
  /\ UNCHANGED <<delay, deadLetters>>

Heartbeat(t, id) ==
  /\ Owns(t, id)
  /\ lockAge' = [lockAge EXCEPT ![t] = 0]
  /\ UNCHANGED <<status, attempts, lockedBy, delay, deadLetters, logs>>

MarkCompleted(t, id) ==
  /\ Owns(t, id)
  /\ SetStatus(t, "COMPLETED")
  /\ Unlock(t)
  /\ UNCHANGED <<attempts, delay, deadLetters>>

(* Mutant: no insertLog for the retry.                                     *)
MarkPendingUnlogged(t, id, d) ==
  /\ Owns(t, id)
  /\ status' = [status EXCEPT ![t] = "PENDING"]
  /\ Unlock(t)
  /\ delay' = [delay EXCEPT ![t] = d]
  /\ UNCHANGED <<attempts, deadLetters, logs>>

MarkPending(t, id, d) ==
  /\ Owns(t, id)
  /\ SetStatus(t, "PENDING")
  /\ Unlock(t)
  /\ delay' = [delay EXCEPT ![t] = d]
  /\ UNCHANGED <<attempts, deadLetters>>

MarkDead(t, id) ==
  /\ Owns(t, id)
  /\ SetStatus(t, "DEAD")
  /\ Unlock(t)
  /\ deadLetters' = [deadLetters EXCEPT ![t] = @ + 1]
  /\ UNCHANGED <<attempts, delay>>

(* Mutant: the dead_letters row survives the retry by hand.                *)
RetryDeadKeepsLetter(t) ==
  /\ status[t] = "DEAD"
  /\ SetStatus(t, "PENDING")
  /\ Unlock(t)
  /\ attempts' = [attempts EXCEPT ![t] = 0]
  /\ delay' = [delay EXCEPT ![t] = 0]
  /\ UNCHANGED deadLetters

(* Mutant: CANCELED tasks can be retried.                                  *)
RetryCanceledToo(t) ==
  /\ status[t] \in {"DEAD", "CANCELED"}
  /\ SetStatus(t, "PENDING")
  /\ Unlock(t)
  /\ attempts' = [attempts EXCEPT ![t] = 0]
  /\ delay' = [delay EXCEPT ![t] = 0]
  /\ deadLetters' = [deadLetters EXCEPT ![t] = 0]

(* Mutant: a task that waits already is retried again.                     *)
RetryPendingToo(t) ==
  /\ status[t] \in {"DEAD", "PENDING"}
  /\ SetStatus(t, "PENDING")
  /\ Unlock(t)
  /\ attempts' = [attempts EXCEPT ![t] = 0]
  /\ delay' = [delay EXCEPT ![t] = 0]
  /\ deadLetters' = [deadLetters EXCEPT ![t] = 0]

(* A retry by hand deletes every dead_letters row of the task.             *)
RetryDead(t) ==
  /\ status[t] = "DEAD"
  /\ SetStatus(t, "PENDING")
  /\ Unlock(t)
  /\ attempts' = [attempts EXCEPT ![t] = 0]
  /\ delay' = [delay EXCEPT ![t] = 0]
  /\ deadLetters' = [deadLetters EXCEPT ![t] = 0]

(* Mutant: the budget is compared with > instead of >=.                    *)
ReapedOneMore(t) == IF attempts[t] > MaxRetries[t] THEN "DEAD" ELSE "PENDING"

(* One reaper run over the stale rows S: to_dead, insert_dead_letters and  *)
(* to_pending of the query, and one log row for each row it changed.       *)
Reaped(t) == IF attempts[t] >= MaxRetries[t] THEN "DEAD" ELSE "PENDING"

RequeueStaleRunning(S) ==
  /\ \A t \in S : Stale(t)
  /\ status' = [t \in Tasks |-> IF t \in S THEN Reaped(t) ELSE status[t]]
  /\ logs' = [t \in Tasks |-> IF t \in S THEN Append(logs[t], Reaped(t)) ELSE logs[t]]
  /\ lockedBy' = [t \in Tasks |-> IF t \in S THEN NoWorker ELSE lockedBy[t]]
  /\ lockAge' = [t \in Tasks |-> IF t \in S THEN 0 ELSE lockAge[t]]
  /\ delay' = [t \in Tasks |-> IF t \in S /\ Reaped(t) = "PENDING" THEN 0 ELSE delay[t]]
  /\ deadLetters' = [t \in Tasks |-> IF t \in S /\ Reaped(t) = "DEAD"
                                     THEN deadLetters[t] + 1 ELSE deadLetters[t]]
  /\ UNCHANGED attempts

(* One unit of time passes for every row.                                  *)
Tick ==
  /\ delay' = [t \in Tasks |-> IF delay[t] = 0 THEN 0 ELSE delay[t] - 1]
  /\ lockAge' = [t \in Tasks |-> IF status[t] = "RUNNING" /\ lockAge[t] < Expired
                                 THEN lockAge[t] + 1 ELSE lockAge[t]]
  /\ UNCHANGED <<status, attempts, lockedBy, deadLetters, logs>>

(* Any caller, with any worker id, may run any operation at any time.      *)
StoreNext ==
  \/ Tick
  \/ \E S \in SUBSET Tasks : RequeueStaleRunning(S)
  \/ \E t \in Tasks :
       \/ Cancel(t) \/ RetryDead(t)
       \/ \E d \in 0..MaxDelay : Create(t, d)
       \/ \E id \in WorkerIDs :
            \/ Claim(t, id) \/ Heartbeat(t, id)
            \/ MarkCompleted(t, id) \/ MarkDead(t, id)
            \/ \E d \in Nat : MarkPending(t, id, d)

StoreSpec == StoreInit /\ [][StoreNext]_storeVars
-----------------------------------------------------------------------------
(* What the tables say agrees, whoever calls: a row is locked exactly      *)
(* while it is RUNNING, and it has exactly one dead_letters row while it   *)
(* is DEAD and none otherwise, through reaping, dying and manual retries.  *)
TablesAgree ==
  \A t \in Tasks :
    /\ lockedBy[t] # NoWorker <=> status[t] = "RUNNING"
    /\ deadLetters[t] = IF status[t] = "DEAD" THEN 1 ELSE 0

(* The audit trail read back from task_logs.  PENDING after DEAD is a      *)
(* retry by hand, and a RUNNING that none follows counts as an attempt.    *)
Revived(log) == {i \in 2..Len(log) : log[i-1] = "DEAD" /\ log[i] = "PENDING"}
Attempted(log) == {i \in 1..Len(log) : log[i] = "RUNNING" /\ \A j \in Revived(log) : j < i}
Replay(log) ==
  [status |-> IF log = <<>> THEN "PENDING" ELSE log[Len(log)],
   attempts |-> Cardinality(Attempted(log))]

(* task_logs is a complete audit trail: replaying the log of any inserted  *)
(* task gives the status and the attempts its row has, so no operation     *)
(* changes a row without the log row that explains it.                     *)
LogExplainsRow ==
  \A t \in Tasks : status[t] # "ABSENT" =>
    Replay(logs[t]) = [status |-> status[t], attempts |-> attempts[t]]
=============================================================================
