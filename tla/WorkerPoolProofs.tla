--------------------------- MODULE WorkerPoolProofs --------------------------
(***************************************************************************)
(* Theorems about the worker pool for any number of tasks, workers and     *)
(* processes, any budgets and any bounds.                                  *)
(***************************************************************************)
EXTENDS WorkerPool, TaskStoreProofs

(* computeBackoff is never negative: run_at is never moved into the past.  *)
LEMMA BackoffIsNat ==
  ASSUME NEW a \in Nat, NEW d \in Backoff(a)
  PROVE  d \in Nat
BY DEF Backoff

(* A worker that has a result to record records it with a store operation. *)
LEMMA RecordIsStoreStep ==
  ASSUME TypeOK, NEW w \in Workers, Record(w)
  PROVE  StoreNext
<1> USE PoolAssumption
<1>1. held[w] \in Tasks /\ WorkerID[w] \in WorkerIDs /\ claimed[w] \in Nat
  BY Zenon DEF TypeOK, Executing, Record, Persisting
<1>2. CASE MarkCompleted(held[w], WorkerID[w])
  BY Zenon, <1>1, <1>2 DEF StoreNext
<1>3. CASE MarkDead(held[w], WorkerID[w])
  BY Zenon, <1>1, <1>3 DEF StoreNext
<1>4. ASSUME NEW d \in Backoff(claimed[w]), MarkPending(held[w], WorkerID[w], d)
      PROVE  StoreNext
  BY Zenon, <1>1, <1>4, BackoffIsNat DEF StoreNext
<1>5. QED
  BY Zenon, <1>2, <1>3, <1>4 DEF Record

(* The pool touches the tables only through the store's operations.        *)
LEMMA PoolStepIsStoreStep ==
  ASSUME TypeOK, [Next]_vars
  PROVE  [StoreNext]_storeVars
<1> USE PoolAssumption
<1>1. ASSUME NEW w \in Workers, NEW t \in Tasks, ClaimTask(w, t) \/ ClaimAnswerLost(w, t)
      PROVE  StoreNext
  BY Zenon, <1>1 DEF ClaimTask, ClaimAnswerLost, StoreNext
<1>2. ASSUME NEW w \in Workers, HandlerReturns(w) \/ TaskTimeout(w) \/ WorkerExit(w)
      PROVE  UNCHANGED storeVars
  BY Zenon, <1>2 DEF HandlerReturns, TaskTimeout, WorkerExit
<1>3. ASSUME NEW w \in Workers, Beat(w)
      PROVE  [StoreNext]_storeVars
  <2>1. held[w] \in Tasks /\ WorkerID[w] \in WorkerIDs
    BY Zenon, <1>3 DEF Beat, TypeOK
  <2>2. QED
    BY Zenon, <1>3, <2>1 DEF Beat, StoreNext
<1>4. ASSUME NEW w \in Workers, Persist(w)
      PROVE  [StoreNext]_storeVars
  BY Zenon, <1>4, RecordIsStoreStep DEF Persist
<1>5. ASSUME NEW p \in Procs, NEW S \in SUBSET Tasks, Reap(p, S)
      PROVE  StoreNext
  BY Zenon, <1>5 DEF Reap, StoreNext
<1>6. ASSUME NEW p \in Procs, Shutdown(p) \/ DrainEnds(p) \/ Crash(p) \/ Restart(p)
      PROVE  UNCHANGED storeVars
  BY Zenon, <1>6 DEF Shutdown, DrainEnds, Crash, Restart
<1>7. ASSUME NEW t \in Tasks, Insert(t) \/ CancelTask(t) \/ RetryTask(t)
      PROVE  StoreNext
  BY Zenon, <1>7 DEF Insert, CancelTask, RetryTask, StoreNext
<1>8. CASE TimePasses
  BY Zenon, <1>8 DEF TimePasses, StoreNext
<1>9. CASE UNCHANGED vars
  BY Zenon, <1>9 DEF vars
<1>10. QED
  BY Zenon, <1>1, <1>2, <1>3, <1>4, <1>5, <1>6, <1>7, <1>8, <1>9 DEF Next, WorkerStep, ProcStep

(* Every step of workers, processes and clients keeps the types.           *)
LEMMA TypeStep ==
  ASSUME TypeOK, [Next]_vars
  PROVE  TypeOK'
<1> USE PoolAssumption
<1>0. StoreTypeOK'
  BY Zenon, PoolStepIsStoreStep, StoreTypeStep DEF TypeOK
<1> USE DEF TypeOK, Executing, PCs, Persisting
<1>1. ASSUME NEW w \in Workers, NEW t \in Tasks, ClaimTask(w, t)
      PROVE  TypeOK'
  <2>1. attempts[t] + 1 \in Nat
    BY DEF StoreTypeOK
  <2>2. PICK s \in {"running", "unhandled"} : pc' = [pc EXCEPT ![w] = s]
    BY Zenon, <1>1 DEF ClaimTask
  <2>3. /\ held' = [held EXCEPT ![w] = t] /\ claimed' = [claimed EXCEPT ![w] = attempts[t] + 1]
        /\ beating' = [beating EXCEPT ![w] = t \in Registered[ProcOf[w]]]
        /\ UNCHANGED <<proc, outages, manualRetries>>
    BY Zenon, <1>1 DEF ClaimTask
  <2>4. \A v \in Workers : (Executing(v) <=> held[v] # NoTask)' /\ (beating[v] => Executing(v))'
    BY Zenon, <2>2, <2>3
  <2>5. /\ pc' \in [Workers -> PCs] /\ held' \in [Workers -> Tasks \cup {NoTask}]
        /\ claimed' \in [Workers -> Nat] /\ beating' \in [Workers -> BOOLEAN]
    BY <2>1, <2>2, <2>3
  <2>6. QED
    BY Zenon, <1>0, <2>3, <2>4, <2>5
<1>2. ASSUME NEW w \in Workers, NEW t \in Tasks, ClaimAnswerLost(w, t)
      PROVE  TypeOK'
  BY Zenon, <1>0, <1>2 DEF ClaimAnswerLost
<1>3. ASSUME NEW w \in Workers, HandlerReturns(w)
      PROVE  TypeOK'
  BY <1>0, <1>3 DEF HandlerReturns
<1>4. ASSUME NEW w \in Workers, TaskTimeout(w)
      PROVE  TypeOK'
  BY Zenon, <1>0, <1>4 DEF TaskTimeout
<1>5. ASSUME NEW w \in Workers, Beat(w)
      PROVE  TypeOK'
  BY Zenon, <1>0, <1>5 DEF Beat
<1>6. ASSUME NEW w \in Workers, Persist(w)
      PROVE  TypeOK'
  BY Zenon, <1>0, <1>6 DEF Persist
<1>7. ASSUME NEW w \in Workers, WorkerExit(w)
      PROVE  TypeOK'
  BY Zenon, <1>0, <1>7 DEF WorkerExit
<1>8. ASSUME NEW p \in Procs, NEW S \in SUBSET Tasks, Reap(p, S)
      PROVE  TypeOK'
  BY Zenon, <1>0, <1>8 DEF Reap, poolVars
<1>9. ASSUME NEW p \in Procs, Shutdown(p)
      PROVE  TypeOK'
  BY <1>0, <1>9 DEF Shutdown
<1>10. ASSUME NEW p \in Procs, NEW s \in {"idle", "exited"}, ResetWorkers(p, s)
      PROVE  /\ pc' \in [Workers -> PCs]
             /\ held' \in [Workers -> Tasks \cup {NoTask}]
             /\ \A w \in Workers : (Executing(w) <=> held[w] # NoTask)' /\ (beating[w] => Executing(w))'
             /\ claimed' \in [Workers -> Nat]
             /\ beating' \in [Workers -> BOOLEAN]
  BY Zenon, <1>10 DEF ResetWorkers
<1>11. ASSUME NEW p \in Procs, DrainEnds(p) \/ Crash(p) \/ Restart(p)
      PROVE  TypeOK'
  BY <1>0, <1>10, <1>11 DEF DrainEnds, Crash, Restart
<1>12. ASSUME NEW t \in Tasks, Insert(t) \/ CancelTask(t) \/ RetryTask(t)
      PROVE  TypeOK'
  BY <1>0, <1>12 DEF Insert, CancelTask, RetryTask, poolVars, workerVars
<1>13. CASE TimePasses \/ UNCHANGED vars
  BY Zenon, <1>0, <1>13 DEF TimePasses, vars, poolVars
<1>14. QED
  BY Zenon, <1>1, <1>2, <1>3, <1>4, <1>5, <1>6, <1>7, <1>8, <1>9, <1>11, <1>12, <1>13
  DEF Next, WorkerStep, ProcStep

(* Tables, processes and workers keep their types.                         *)
THEOREM TypeCorrect == Spec => []TypeOK
<1>1. Init => TypeOK
  BY StoreAssumption, PoolAssumption
  DEF Init, StoreInit, TypeOK, StoreTypeOK, Expired, Executing, PCs, Persisting
<1>2. QED
  BY <1>1, TypeStep, PTL DEF Spec

(* Workers, reapers, crashes and clients of the pool use the tables only   *)
(* through the operations of the store: what holds of the store under any  *)
(* callers holds of the pool.                                              *)
THEOREM PoolImplementsStore == Spec => StoreSpec
<1>1. Init => StoreInit
  BY Zenon DEF Init
<1>2. TypeOK /\ [Next]_vars => [StoreNext]_storeVars
  BY Zenon, PoolStepIsStoreStep
<1>3. QED
  BY <1>1, <1>2, TypeCorrect, PTL DEF Spec, StoreSpec
-----------------------------------------------------------------------------
(* The retry budget.                                                       *)

(* Lock, status and dead_letters agree in every state of the pool with its *)
(* failures.                                                               *)
THEOREM PoolTablesAgree == Spec => []TablesAgree
<1>1. Init => TablesAgree
  <2>1. ASSUME Init, NEW t \in Tasks
        PROVE  status[t] = "ABSENT" /\ lockedBy[t] = NoWorker /\ deadLetters[t] = 0
    BY Zenon, <2>1 DEF Init, StoreInit
  <2>2. QED
    BY Zenon, <2>1 DEF TablesAgree
<1>2. TypeOK /\ TablesAgree /\ [Next]_vars => TablesAgree'
  BY Zenon, PoolStepIsStoreStep, TablesAgreeStep DEF TypeOK
<1>3. QED
  BY <1>1, <1>2, TypeCorrect, PTL DEF Spec

(* Every step of the pool leaves the rows explained by their logs.         *)
THEOREM PoolLogInvariant == Spec => []LogInv
<1>1. Init => LogInv
  BY DEF Init, StoreInit, LogInv, Explained
<1>2. TypeOK /\ LogInv /\ [Next]_vars => LogInv'
  BY Zenon, PoolStepIsStoreStep, LogStep DEF TypeOK
<1>3. QED
  BY <1>1, <1>2, TypeCorrect, PTL DEF Spec

(* Workers, reapers and clients leave a complete audit trail: the log of a *)
(* task replays to its status and attempts.                                *)
THEOREM PoolLogsExplain == Spec => []LogExplainsRow
<1>1. LogInv => LogExplainsRow
  BY Zenon DEF LogInv, Explained, LogExplainsRow
<1>2. QED
  BY <1>1, PoolLogInvariant, PTL

(* What BudgetInv says of one row and one worker.                          *)
LEMMA BudgetFacts ==
  ASSUME NEW t \in Tasks
  PROVE  Budget(t) \in Nat /\ Budget(t) > 0 /\ MaxRetries[t] <= Budget(t)
BY StoreAssumption DEF Budget

(* BudgetInv without the part about the workers.                           *)
RowsWithinBudget ==
  /\ AttemptsWithinBudget
  /\ \A t \in Tasks : status[t] = "RUNNING" => attempts[t] > 0
  /\ \A t \in Tasks : status[t] = "ABSENT" => attempts[t] = 0

(* One row that changes within its budget leaves all rows within theirs.   *)
LEMMA RowStep ==
  ASSUME StoreTypeOK, RowsWithinBudget, NEW t \in Tasks, NEW s, NEW a \in Nat,
         status' = [status EXCEPT ![t] = s], attempts' = [attempts EXCEPT ![t] = a],
         a <= Budget(t), s = "PENDING" => a < Budget(t), s = "RUNNING" => a > 0, s # "ABSENT"
  PROVE  RowsWithinBudget'
<1>1. status \in [Tasks -> TaskStatus \cup {"ABSENT"}] /\ attempts \in [Tasks -> Nat]
  BY Zenon DEF StoreTypeOK
<1>2. ASSUME NEW u \in Tasks
      PROVE  /\ attempts'[u] <= Budget(u) /\ (status'[u] = "PENDING" => attempts'[u] < Budget(u))
             /\ status'[u] = "RUNNING" => attempts'[u] > 0
             /\ status'[u] = "ABSENT" => attempts'[u] = 0
  <2>1. CASE u = t
    BY Zenon, <1>1, <2>1
  <2>2. CASE u # t
    BY Zenon, <1>1, <2>2 DEF RowsWithinBudget, AttemptsWithinBudget
  <2>3. QED
    BY Zenon, <2>1, <2>2
<1>3. QED
  BY Zenon, <1>2 DEF RowsWithinBudget, AttemptsWithinBudget, Budget

(* The same for a row whose attempts stay as they are.                     *)
LEMMA StatusStep ==
  ASSUME StoreTypeOK, RowsWithinBudget, NEW t \in Tasks, NEW s,
         status' = [status EXCEPT ![t] = s], UNCHANGED attempts,
         s = "PENDING" => attempts[t] < Budget(t), s \notin {"RUNNING", "ABSENT"}
  PROVE  RowsWithinBudget'
<1>1. attempts' = [attempts EXCEPT ![t] = attempts[t]] /\ attempts[t] \in Nat
  BY Zenon DEF StoreTypeOK
<1>2. attempts[t] <= Budget(t)
  BY Zenon DEF RowsWithinBudget, AttemptsWithinBudget
<1>3. QED
  BY Zenon, <1>1, <1>2, RowStep

(* A claim uses an attempt that the row has left.                          *)
LEMMA ClaimStep ==
  ASSUME StoreTypeOK, RowsWithinBudget, NEW t \in Tasks, NEW id, Claim(t, id)
  PROVE  RowsWithinBudget'
<1>1. /\ status' = [status EXCEPT ![t] = "RUNNING"]
      /\ attempts' = [attempts EXCEPT ![t] = attempts[t] + 1]
      /\ attempts[t] < Budget(t)
  BY Zenon DEF Claim, SetStatus, Claimable, RowsWithinBudget, AttemptsWithinBudget
<1>2. /\ attempts[t] + 1 \in Nat /\ attempts[t] + 1 <= Budget(t) /\ attempts[t] + 1 > 0
  <2>1. attempts[t] \in Nat /\ Budget(t) \in Nat
    BY Zenon, BudgetFacts DEF StoreTypeOK
  <2>2. QED
    BY <1>1, <2>1
<1>3. QED
  BY Zenon, <1>1, <1>2, RowStep

(* A worker's copy of the attempts stays right if, for each worker, a row  *)
(* it still owns after the step is one it owned before, unchanged.         *)
LEMMA SnapshotStep ==
  ASSUME TypeOK, SnapshotCurrent,
         \A v \in Workers : Executing(v)' =>
           Executing(v) /\ held'[v] = held[v] /\ claimed'[v] = claimed[v],
         \A v \in Workers, t \in Tasks :
           Executing(v)' /\ held[v] = t /\ status'[t] = "RUNNING" /\ lockedBy'[t] = WorkerID[v] =>
             status[t] = "RUNNING" /\ lockedBy[t] = lockedBy'[t] /\ attempts[t] = attempts'[t]
  PROVE  SnapshotCurrent'
<1> SUFFICES ASSUME NEW v \in Workers, Executing(v)', Owns(held[v], WorkerID[v])'
             PROVE  claimed'[v] = attempts'[held'[v]]
  BY Zenon DEF SnapshotCurrent, Owns, Executing
<1>1. Executing(v) /\ held'[v] = held[v] /\ claimed'[v] = claimed[v] /\ held[v] \in Tasks
  BY Zenon DEF TypeOK
<1>2. status'[held[v]] = "RUNNING" /\ lockedBy'[held[v]] = WorkerID[v]
  BY Zenon, <1>1 DEF Owns
<1>3. Owns(held[v], WorkerID[v]) /\ attempts[held[v]] = attempts'[held[v]]
  BY Zenon, <1>1, <1>2 DEF Owns
<1>4. QED
  BY Zenon, <1>1, <1>3 DEF SnapshotCurrent

(* BudgetInv in its two parts.                                             *)
LEMMA BudgetParts == /\ BudgetInv <=> RowsWithinBudget /\ SnapshotCurrent
                     /\ BudgetInv' <=> RowsWithinBudget' /\ SnapshotCurrent'
BY Zenon DEF BudgetInv, RowsWithinBudget

(* A step that leaves statuses, attempts and locks alone and starts no     *)
(* execution keeps BudgetInv.                                              *)
LEMMA QuietStep ==
  ASSUME TypeOK, BudgetInv, UNCHANGED <<status, attempts, lockedBy>>,
         \A v \in Workers : Executing(v)' =>
           Executing(v) /\ held'[v] = held[v] /\ claimed'[v] = claimed[v]
  PROVE  BudgetInv'
<1>1. RowsWithinBudget'
  BY Zenon, BudgetParts DEF RowsWithinBudget, AttemptsWithinBudget, Budget
<1>2. SnapshotCurrent'
  BY Zenon, BudgetParts, SnapshotStep
<1>3. QED
  BY Zenon, <1>1, <1>2, BudgetParts

(* A step of the clients changes one row that nobody executes.             *)
LEMMA ClientStep ==
  ASSUME TypeOK, BudgetInv, UNCHANGED <<pc, held, claimed>>, RowsWithinBudget',
         NEW t \in Tasks, status'[t] # "RUNNING",
         \A u \in Tasks : u # t =>
           status'[u] = status[u] /\ attempts'[u] = attempts[u] /\ lockedBy'[u] = lockedBy[u]
  PROVE  BudgetInv'
<1>1. SnapshotCurrent'
  <2>1. \A v \in Workers : Executing(v)' =>
          Executing(v) /\ held'[v] = held[v] /\ claimed'[v] = claimed[v]
    BY Zenon DEF Executing
  <2>2. QED
    BY Zenon, <2>1, BudgetParts, SnapshotStep
<1>2. QED
  BY Zenon, <1>1, BudgetParts

(* What a worker records ends the attempt it claimed itself.               *)
LEMMA RecordStep ==
  ASSUME TypeOK, BudgetInv, NEW w \in Workers, pc[w] \in Persisting, Record(w)
  PROVE  /\ held[w] \in Tasks
         /\ status[held[w]] = "RUNNING" /\ claimed[w] = attempts[held[w]]
         /\ UNCHANGED attempts
         /\ lockedBy' = [lockedBy EXCEPT ![held[w]] = NoWorker]
         /\ \E s \in {"COMPLETED", "PENDING", "DEAD"} :
              /\ status' = [status EXCEPT ![held[w]] = s]
              /\ s = "PENDING" => claimed[w] < MaxRetries[held[w]]
              /\ s = "DEAD" => pc[w] = "unhandled" \/ claimed[w] >= MaxRetries[held[w]]
<1>1. held[w] \in Tasks /\ Executing(w)
  BY Zenon DEF TypeOK, Executing
<1>2. /\ Owns(held[w], WorkerID[w]) /\ UNCHANGED attempts
      /\ lockedBy' = [lockedBy EXCEPT ![held[w]] = NoWorker]
  BY Zenon DEF Record, MarkCompleted, MarkDead, MarkPending, Unlock
<1>3. status[held[w]] = "RUNNING" /\ claimed[w] = attempts[held[w]]
  BY Zenon, <1>1, <1>2 DEF BudgetInv, SnapshotCurrent, Owns
<1>4. claimed[w] \in Nat /\ MaxRetries[held[w]] \in Nat
  BY Zenon, <1>1, StoreAssumption DEF TypeOK
<1>5. CASE pc[w] = "succeeded"
  BY Zenon, <1>1, <1>2, <1>3, <1>5 DEF Record, MarkCompleted, SetStatus
<1>6. CASE pc[w] = "unhandled"
  BY Zenon, <1>1, <1>2, <1>3, <1>6 DEF Record, MarkDead, SetStatus
<1>7. CASE pc[w] = "failed"
  <2>1. CASE claimed[w] >= MaxRetries[held[w]]
    <3>1. status' = [status EXCEPT ![held[w]] = "DEAD"]
      BY Zenon, <1>7, <2>1 DEF Record, MarkDead, SetStatus
    <3>2. QED
      BY Zenon, <1>1, <1>2, <1>3, <2>1, <3>1
  <2>2. CASE ~(claimed[w] >= MaxRetries[held[w]])
    <3>1. status' = [status EXCEPT ![held[w]] = "PENDING"]
      BY Zenon, <1>7, <2>2 DEF Record, MarkPending, SetStatus
    <3>2. claimed[w] < MaxRetries[held[w]]
      BY <1>4, <2>2
    <3>3. QED
      BY Zenon, <1>1, <1>2, <1>3, <3>1, <3>2
  <2>3. QED
    BY Zenon, <2>1, <2>2
<1>8. QED
  BY Zenon, <1>5, <1>6, <1>7 DEF Persisting

(* A recorded result leaves the row within its budget and no worker that   *)
(* still owns it.                                                          *)
LEMMA PersistStep ==
  ASSUME TypeOK, BudgetInv, NEW w \in Workers, Persist(w)
  PROVE  BudgetInv'
<1>1. /\ pc[w] \in Persisting /\ pc' = [pc EXCEPT ![w] = "idle"]
      /\ held' = [held EXCEPT ![w] = NoTask] /\ claimed' = [claimed EXCEPT ![w] = 0]
  BY Zenon DEF Persist
<1>2. \A v \in Workers : Executing(v)' =>
        v # w /\ Executing(v) /\ held'[v] = held[v] /\ claimed'[v] = claimed[v]
  BY Zenon, <1>1 DEF TypeOK, Executing, Persisting
<1>3. CASE UNCHANGED storeVars
  BY Zenon, <1>2, <1>3, QuietStep DEF storeVars
<1>4. CASE Record(w)
  <2>1. /\ held[w] \in Tasks /\ claimed[w] = attempts[held[w]] /\ UNCHANGED attempts
        /\ lockedBy' = [lockedBy EXCEPT ![held[w]] = NoWorker]
    BY Zenon, <1>1, <1>4, RecordStep
  <2>2. PICK s \in {"COMPLETED", "PENDING", "DEAD"} :
          /\ status' = [status EXCEPT ![held[w]] = s]
          /\ s = "PENDING" => claimed[w] < MaxRetries[held[w]]
    BY Zenon, <1>1, <1>4, RecordStep
  <2>3. s = "PENDING" => attempts[held[w]] < Budget(held[w])
    <3>1. attempts[held[w]] \in Nat /\ MaxRetries[held[w]] \in Nat
      BY Zenon, <2>1, StoreAssumption DEF TypeOK, StoreTypeOK
    <3>2. QED
      BY SMTT(30), <2>1, <2>2, <3>1, BudgetFacts
  <2>4. StoreTypeOK /\ RowsWithinBudget
    BY Zenon, BudgetParts DEF TypeOK
  <2>5. RowsWithinBudget'
    BY Zenon, <2>1, <2>2, <2>3, <2>4, StatusStep
  <2>6. ASSUME NEW v \in Workers, NEW t \in Tasks, status'[t] = "RUNNING"
        PROVE  status[t] = "RUNNING" /\ lockedBy[t] = lockedBy'[t] /\ attempts[t] = attempts'[t]
    BY Zenon, <2>1, <2>2, <2>6 DEF TypeOK, StoreTypeOK
  <2>7. SnapshotCurrent'
    BY Zenon, <1>2, <2>6, SnapshotStep, BudgetParts
  <2>8. QED
    BY Zenon, <2>5, <2>7, BudgetParts
<1>5. QED
  BY Zenon, <1>3, <1>4 DEF Persist

(* A claim, known to the worker w or not, leaves every other worker's copy *)
(* right: with unique ids none of them owns the claimed row.               *)
LEMMA ClaimSnapshotStep ==
  ASSUME UniqueWorkerIDs, TypeOK, BudgetInv, NEW w \in Workers, NEW t \in Tasks,
         Claim(t, WorkerID[w]), pc[w] = "idle", NEW v \in Workers, v # w,
         Executing(v), Owns(held[v], WorkerID[v])'
  PROVE  held'[v] = held[v] => claimed[v] = attempts'[held[v]]
<1> SUFFICES ASSUME held'[v] = held[v]
             PROVE  claimed[v] = attempts'[held[v]]
  BY Zenon
<1>1. held[v] \in Tasks
  BY Zenon DEF TypeOK
<1>2. /\ status' = [status EXCEPT ![t] = "RUNNING"]
      /\ attempts' = [attempts EXCEPT ![t] = attempts[t] + 1]
      /\ lockedBy' = [lockedBy EXCEPT ![t] = WorkerID[w]]
  BY Zenon DEF Claim, SetStatus
<1>3. WorkerID[v] # WorkerID[w]
  BY Zenon DEF UniqueWorkerIDs
<1>4. held[v] # t
  BY Zenon, <1>1, <1>2, <1>3 DEF Owns, TypeOK, StoreTypeOK
<1>5. Owns(held[v], WorkerID[v]) /\ attempts'[held[v]] = attempts[held[v]]
  BY Zenon, <1>1, <1>2, <1>4 DEF Owns, TypeOK, StoreTypeOK
<1>6. QED
  BY Zenon, <1>5, BudgetParts DEF SnapshotCurrent

(* Every step keeps BudgetInv.  A claim is where unique ids matter: no     *)
(* other worker can be left owning the row it has just claimed.            *)
LEMMA BudgetStep ==
  ASSUME UniqueWorkerIDs, TypeOK, BudgetInv, [Next]_vars
  PROVE  BudgetInv'
<1>0. StoreTypeOK /\ RowsWithinBudget
  BY Zenon, BudgetParts DEF TypeOK
<1>1. ASSUME NEW w \in Workers, NEW t \in Tasks, ClaimTask(w, t)
      PROVE  BudgetInv'
  <2>1. /\ Claim(t, WorkerID[w]) /\ pc[w] = "idle"
        /\ held' = [held EXCEPT ![w] = t] /\ claimed' = [claimed EXCEPT ![w] = attempts[t] + 1]
        /\ attempts' = [attempts EXCEPT ![t] = attempts[t] + 1]
        /\ \A v \in Workers : v # w => pc'[v] = pc[v]
    BY Zenon, <1>1 DEF ClaimTask, Claim, TypeOK
  <2>2. ASSUME NEW v \in Workers, Executing(v)', Owns(held[v], WorkerID[v])'
        PROVE  claimed'[v] = attempts'[held'[v]]
    <3>1. CASE v = w
      BY Zenon, <2>1, <3>1 DEF TypeOK, StoreTypeOK
    <3>2. CASE v # w
      <4>1. Executing(v) /\ held'[v] = held[v] /\ claimed'[v] = claimed[v]
        BY Zenon, <2>1, <2>2, <3>2 DEF Executing, TypeOK
      <4>2. QED
        BY Zenon, <2>1, <2>2, <3>2, <4>1, ClaimSnapshotStep
    <3>3. QED
      BY Zenon, <3>1, <3>2
  <2>3. SnapshotCurrent'
    BY Zenon, <2>2 DEF SnapshotCurrent, Owns, Executing
  <2>4. QED
    BY Zenon, <1>0, <2>1, <2>3, ClaimStep, BudgetParts
<1>2. ASSUME NEW w \in Workers, NEW t \in Tasks, ClaimAnswerLost(w, t)
      PROVE  BudgetInv'
  <2>1. /\ Claim(t, WorkerID[w]) /\ pc[w] = "idle" /\ UNCHANGED <<held, claimed>>
        /\ \A v \in Workers : v # w => pc'[v] = pc[v]
        /\ pc'[w] \in {"idle", "exited"}
    BY Zenon, <1>2 DEF ClaimAnswerLost, TypeOK
  <2>2. ASSUME NEW v \in Workers, Executing(v)', Owns(held[v], WorkerID[v])'
        PROVE  claimed'[v] = attempts'[held'[v]]
    <3>1. v # w /\ Executing(v)
      BY Zenon, <2>1, <2>2 DEF Executing, Persisting
    <3>2. QED
      BY Zenon, <2>1, <2>2, <3>1, ClaimSnapshotStep
  <2>3. SnapshotCurrent'
    BY Zenon, <2>2 DEF SnapshotCurrent, Owns, Executing
  <2>4. QED
    BY Zenon, <1>0, <2>1, <2>3, ClaimStep, BudgetParts
<1>3. ASSUME NEW w \in Workers, HandlerReturns(w) \/ TaskTimeout(w) \/ WorkerExit(w) \/ Beat(w)
      PROVE  BudgetInv'
  <2>1. UNCHANGED <<status, attempts, lockedBy, held, claimed>>
    BY Zenon, <1>3 DEF HandlerReturns, TaskTimeout, WorkerExit, Beat, Heartbeat, storeVars
  <2>2. \A v \in Workers : Executing(v)' => Executing(v)
    BY Zenon, <1>3 DEF HandlerReturns, TaskTimeout, WorkerExit, Beat, TypeOK, Executing, Persisting
  <2>3. QED
    BY Zenon, <2>1, <2>2, QuietStep
<1>5. ASSUME NEW w \in Workers, Persist(w)
      PROVE  BudgetInv'
  BY Zenon, <1>5, PersistStep
<1>6. ASSUME NEW p \in Procs, NEW S \in SUBSET Tasks, Reap(p, S)
      PROVE  BudgetInv'
  <2>1. /\ UNCHANGED <<pc, held, claimed, attempts>> /\ \A t \in S : Stale(t)
        /\ status' = [t \in Tasks |-> IF t \in S THEN Reaped(t) ELSE status[t]]
        /\ lockedBy' = [t \in Tasks |-> IF t \in S THEN NoWorker ELSE lockedBy[t]]
    BY Zenon, <1>6 DEF Reap, RequeueStaleRunning, poolVars
  <2>2. ASSUME NEW t \in Tasks
        PROVE  /\ t \in S => status'[t] = Reaped(t) /\ status'[t] \in {"DEAD", "PENDING"}
               /\ t \notin S => status'[t] = status[t] /\ lockedBy'[t] = lockedBy[t]
               /\ t \in S /\ status'[t] = "PENDING" => attempts[t] < Budget(t)
    <3>1. attempts[t] \in Nat /\ MaxRetries[t] \in Nat
      BY Zenon, StoreAssumption DEF TypeOK, StoreTypeOK
    <3>2. /\ t \in S => status'[t] = Reaped(t)
          /\ t \notin S => status'[t] = status[t] /\ lockedBy'[t] = lockedBy[t]
      BY Zenon, <2>1
    <3>3. /\ Reaped(t) \in {"DEAD", "PENDING"}
          /\ Reaped(t) = "PENDING" => ~(attempts[t] >= MaxRetries[t])
      BY Zenon DEF Reaped
    <3>4. ~(attempts[t] >= MaxRetries[t]) => attempts[t] < Budget(t)
      BY <3>1, BudgetFacts
    <3>5. QED
      BY Zenon, <3>2, <3>3, <3>4
  <2>3. RowsWithinBudget'
    BY Zenon, <1>0, <2>1, <2>2 DEF RowsWithinBudget, AttemptsWithinBudget, Budget
  <2>4. SnapshotCurrent'
    <3>1. \A v \in Workers : Executing(v)' =>
            Executing(v) /\ held'[v] = held[v] /\ claimed'[v] = claimed[v]
      BY Zenon, <2>1 DEF Executing
    <3>2. \A t \in Tasks : status'[t] = "RUNNING" =>
            status[t] = "RUNNING" /\ lockedBy[t] = lockedBy'[t] /\ attempts[t] = attempts'[t]
      BY Zenon, <2>1, <2>2
    <3>3. QED
      BY Zenon, <3>1, <3>2, SnapshotStep, BudgetParts
  <2>5. QED
    BY Zenon, <2>3, <2>4, BudgetParts
<1>7. ASSUME NEW p \in Procs, Shutdown(p)
      PROVE  BudgetInv'
  BY Zenon, <1>7, QuietStep DEF Shutdown, storeVars, Executing
<1>8. ASSUME NEW p \in Procs, DrainEnds(p) \/ Crash(p) \/ Restart(p)
      PROVE  BudgetInv'
  <2>1. UNCHANGED <<status, attempts, lockedBy>>
    BY Zenon, <1>8 DEF DrainEnds, Crash, Restart, storeVars
  <2>2. PICK s \in {"idle", "exited"} : ResetWorkers(p, s)
    BY Zenon, <1>8 DEF DrainEnds, Crash, Restart
  <2>3. \A v \in Workers : Executing(v)' =>
          Executing(v) /\ held'[v] = held[v] /\ claimed'[v] = claimed[v]
    BY Zenon, <2>2 DEF ResetWorkers, Executing, Persisting
  <2>4. QED
    BY Zenon, <2>1, <2>3, QuietStep
<1>9. ASSUME NEW t \in Tasks, Insert(t) \/ CancelTask(t) \/ RetryTask(t)
      PROVE  BudgetInv'
  <2>0. UNCHANGED <<pc, held, claimed>>
    BY Zenon, <1>9 DEF Insert, CancelTask, RetryTask, poolVars, workerVars
  <2>1. \A u \in Tasks : u # t =>
          status'[u] = status[u] /\ attempts'[u] = attempts[u] /\ lockedBy'[u] = lockedBy[u]
    BY Zenon, <1>0, <1>9 DEF Insert, Create, CancelTask, Cancel, RetryTask, RetryDead, SetStatus, Unlock, StoreTypeOK
  <2>2. CASE Insert(t)
    <3>1. status' = [status EXCEPT ![t] = "PENDING"] /\ UNCHANGED attempts /\ attempts[t] = 0
      BY Zenon, <1>0, <2>2 DEF Insert, Create, RowsWithinBudget
    <3>2. RowsWithinBudget'
      BY Zenon, <1>0, <3>1, BudgetFacts, StatusStep
    <3>3. status'[t] # "RUNNING"
      BY Zenon, <1>0, <3>1 DEF StoreTypeOK
    <3>4. QED
      BY Zenon, <2>0, <2>1, <3>2, <3>3, ClientStep
  <2>3. CASE CancelTask(t)
    <3>1. status' = [status EXCEPT ![t] = "CANCELED"] /\ UNCHANGED attempts
      BY Zenon, <2>3 DEF CancelTask, Cancel, SetStatus
    <3>2. RowsWithinBudget'
      BY Zenon, <1>0, <3>1, StatusStep
    <3>3. status'[t] # "RUNNING"
      BY Zenon, <1>0, <3>1 DEF StoreTypeOK
    <3>4. QED
      BY Zenon, <2>0, <2>1, <3>2, <3>3, ClientStep
  <2>4. CASE RetryTask(t)
    <3>1. status' = [status EXCEPT ![t] = "PENDING"] /\ attempts' = [attempts EXCEPT ![t] = 0]
      BY Zenon, <2>4 DEF RetryTask, RetryDead, SetStatus
    <3>2. RowsWithinBudget'
      <4>1. 0 \in Nat /\ 0 <= Budget(t) /\ 0 < Budget(t)
        BY BudgetFacts
      <4>2. QED
        BY Zenon, <1>0, <3>1, <4>1, RowStep
    <3>3. status'[t] # "RUNNING"
      BY Zenon, <1>0, <3>1 DEF StoreTypeOK
    <3>4. QED
      BY Zenon, <2>0, <2>1, <3>2, <3>3, ClientStep
  <2>5. QED
    BY Zenon, <1>9, <2>2, <2>3, <2>4
<1>10. CASE TimePasses
  BY Zenon, <1>10, QuietStep DEF TimePasses, Tick, poolVars, Executing
<1>11. CASE UNCHANGED vars
  BY Zenon, <1>11, QuietStep DEF vars, storeVars, poolVars, Executing
<1>12. QED
  BY Zenon, <1>1, <1>2, <1>3, <1>5, <1>6, <1>7, <1>8, <1>9, <1>10, <1>11
  DEF Next, WorkerStep, ProcStep

(* The inductive invariant behind the budget holds whatever is lost,       *)
(* reaped or restarted.                                                    *)
THEOREM BudgetInvariant ==
  ASSUME UniqueWorkerIDs
  PROVE  Spec => []BudgetInv
<1>1. Init => BudgetInv
  BY StoreAssumption, BudgetFacts
  DEF Init, StoreInit, BudgetInv, AttemptsWithinBudget, SnapshotCurrent, Executing, Persisting
<1>2. TypeOK /\ BudgetInv /\ [Next]_vars => BudgetInv'
  BY Zenon, BudgetStep
<1>3. QED
  BY <1>1, <1>2, TypeCorrect, PTL DEF Spec

(* With worker ids of their own, workers never attempt a task more often   *)
(* than its max_retries allows, over lost answers, failed writes, hung     *)
(* handlers, reaped locks, crashes and restarts.                           *)
THEOREM AttemptsStayWithinBudget ==
  ASSUME UniqueWorkerIDs
  PROVE  Spec => []AttemptsWithinBudget
BY BudgetInvariant, PTL DEF BudgetInv

(* With worker ids of their own, handleFailure decides by the attempts the *)
(* row really has, however long ago its worker claimed it.                 *)
THEOREM SnapshotStaysCurrent ==
  ASSUME UniqueWorkerIDs
  PROVE  Spec => []SnapshotCurrent
BY BudgetInvariant, PTL DEF BudgetInv
-----------------------------------------------------------------------------
(* Who may end an attempt.                                                 *)

(* A step that ends a RUNNING row is the result of its current attempt or  *)
(* a reaper run over an expired lock.                                      *)
LEMMA EndsAttemptStep ==
  ASSUME TypeOK, BudgetInv, Next,
         NEW t \in Tasks, status[t] = "RUNNING", status'[t] # "RUNNING"
  PROVE  \/ \E w \in Workers : FinishesAttempt(w, t)
         \/ Stale(t) /\ UNCHANGED poolVars
<1>0. ASSUME NEW w \in Workers, pc[w] \in Persisting, Record(w)
      PROVE  /\ held[w] \in Tasks /\ claimed[w] = attempts[held[w]]
             /\ \E s : status' = [status EXCEPT ![held[w]] = s]
  BY Zenon, <1>0, RecordStep
<1> USE DEF TypeOK, StoreTypeOK
<1>1. ASSUME NEW w \in Workers, NEW u \in Tasks, ClaimTask(w, u) \/ ClaimAnswerLost(w, u)
      PROVE  FALSE
  BY Zenon, <1>1 DEF ClaimTask, ClaimAnswerLost, Claim, SetStatus
<1>2. ASSUME NEW w \in Workers, HandlerReturns(w) \/ TaskTimeout(w) \/ WorkerExit(w) \/ Beat(w)
      PROVE  FALSE
  BY Zenon, <1>2 DEF HandlerReturns, TaskTimeout, WorkerExit, Beat, Heartbeat, storeVars
<1>3. ASSUME NEW w \in Workers, Persist(w)
      PROVE  FinishesAttempt(w, t)
  <2>1. pc[w] \in Persisting /\ pc'[w] = "idle" /\ Record(w)
    BY Zenon, <1>3 DEF Persist, storeVars
  <2>2. held[w] = t /\ claimed[w] = attempts[t]
    BY Zenon, <1>0, <2>1
  <2>3. QED
    BY Zenon, <2>1, <2>2 DEF FinishesAttempt
<1>4. ASSUME NEW p \in Procs, NEW S \in SUBSET Tasks, Reap(p, S)
      PROVE  Stale(t) /\ UNCHANGED poolVars
  BY Zenon, <1>4 DEF Reap, RequeueStaleRunning
<1>5. ASSUME NEW p \in Procs, Shutdown(p) \/ DrainEnds(p) \/ Crash(p) \/ Restart(p)
      PROVE  FALSE
  BY Zenon, <1>5 DEF Shutdown, DrainEnds, Crash, Restart, storeVars
<1>6. ASSUME NEW u \in Tasks, Insert(u) \/ CancelTask(u) \/ RetryTask(u)
      PROVE  FALSE
  BY Zenon, <1>6 DEF Insert, Create, CancelTask, Cancel, RetryTask, RetryDead, SetStatus
<1>7. ~TimePasses
  BY Zenon DEF TimePasses, Tick
<1>8. QED
  BY Zenon, <1>1, <1>2, <1>3, <1>4, <1>5, <1>6, <1>7 DEF Next, WorkerStep, ProcStep

(* With worker ids of their own, only the worker that claimed the current  *)
(* attempt, or the reaper once the lock expired, takes a row out of        *)
(* RUNNING: a late result of an earlier claim changes nothing.             *)
THEOREM StaleResultsRefused ==
  ASSUME UniqueWorkerIDs
  PROVE  Spec => OnlyOwnerOrReaperEnds
<1> DEFINE Ends == \A t \in Tasks : status[t] = "RUNNING" /\ status'[t] # "RUNNING" =>
                     \/ \E w \in Workers : FinishesAttempt(w, t)
                     \/ Stale(t) /\ UNCHANGED poolVars
<1>1. TypeOK /\ BudgetInv /\ [Next]_vars => [Ends]_vars
  BY Zenon, EndsAttemptStep
<1> HIDE DEF Ends
<1>2. Spec => [][Ends]_vars
  BY <1>1, TypeCorrect, BudgetInvariant, PTL DEF Spec
<1>3. QED
  BY Zenon, <1>2 DEF OnlyOwnerOrReaperEnds, Ends
-----------------------------------------------------------------------------
(* The pool implements TaskLifecycle.                                      *)

(* A worker gives a task up unhandled only if its process does not know it.*)
UnhandledIsUnknown ==
  \A w \in Workers : pc[w] = "unhandled" => held[w] \notin Registered[ProcOf[w]]

(* No step makes a worker give up a task its process has a handler for.    *)
LEMMA UnhandledStep ==
  ASSUME TypeOK, UnhandledIsUnknown, [Next]_vars
  PROVE  UnhandledIsUnknown'
<1> USE PoolAssumption DEF UnhandledIsUnknown, TypeOK
<1>1. ASSUME NEW w \in Workers, WorkerStep(w)
      PROVE  UnhandledIsUnknown'
  <2>1. ASSUME NEW t \in Tasks, ClaimTask(w, t)
        PROVE  UnhandledIsUnknown'
    BY Zenon, <2>1 DEF ClaimTask
  <2>2. ASSUME NEW t \in Tasks, ClaimAnswerLost(w, t)
        PROVE  UnhandledIsUnknown'
    BY Zenon, <2>2 DEF ClaimAnswerLost
  <2>3. CASE HandlerReturns(w) \/ TaskTimeout(w) \/ Beat(w) \/ WorkerExit(w)
    BY Zenon, <2>3 DEF HandlerReturns, TaskTimeout, Beat, WorkerExit
  <2>4. CASE Persist(w)
    BY Zenon, <2>4 DEF Persist
  <2>5. QED
    BY Zenon, <1>1, <2>1, <2>2, <2>3, <2>4 DEF WorkerStep
<1>2. ASSUME NEW p \in Procs, ProcStep(p)
      PROVE  UnhandledIsUnknown'
  <2>1. \/ UNCHANGED <<pc, held>>
        \/ \E s \in {"idle", "exited"} : ResetWorkers(p, s)
    BY Zenon, <1>2 DEF ProcStep, Reap, Shutdown, DrainEnds, Crash, Restart, poolVars
  <2>2. QED
    BY <2>1 DEF ResetWorkers
<1>3. ASSUME UNCHANGED <<pc, held>>
      PROVE  UnhandledIsUnknown'
  BY Zenon, <1>3
<1>4. QED
  BY Zenon, <1>1, <1>2, <1>3 DEF Next, Insert, CancelTask, RetryTask, TimePasses, vars, poolVars, workerVars

(* A step in which one row changes, as Advance allows, is a lifecycle step.*)
LEMMA OneRowAdvances ==
  ASSUME StoreTypeOK, NEW t \in Tasks, NEW s, NEW a,
         status' = [status EXCEPT ![t] = s], attempts' = [attempts EXCEPT ![t] = a],
         Lifecycle!Advance(t)
  PROVE  Lifecycle!Next
BY Zenon DEF StoreTypeOK, Lifecycle!Next, Lifecycle!Becomes

(* A claim is a lifecycle step.                                            *)
LEMMA ClaimAdvances ==
  ASSUME StoreTypeOK, AttemptsWithinBudget, NEW t \in Tasks, NEW id, Claim(t, id)
  PROVE  Lifecycle!Next
<1>1. /\ status' = [status EXCEPT ![t] = "RUNNING"]
      /\ attempts' = [attempts EXCEPT ![t] = attempts[t] + 1]
  BY Zenon DEF Claim, SetStatus
<1>2. Lifecycle!Advance(t)
  BY Zenon, <1>1 DEF StoreTypeOK, AttemptsWithinBudget, Budget, Claim, Claimable,
              Lifecycle!Advance, Lifecycle!Becomes, Lifecycle!Budget
<1>3. QED
  BY Zenon, <1>1, <1>2, OneRowAdvances

(* The worker's test against max_retries is the lifecycle's test against   *)
(* the budget.                                                             *)
LEMMA BudgetTest ==
  ASSUME NEW t \in Tasks, NEW a \in Nat, a > 0, a <= Budget(t)
  PROVE  /\ a < MaxRetries[t] => a < Lifecycle!Budget(t)
         /\ a >= MaxRetries[t] => a = Lifecycle!Budget(t)
<1>1. MaxRetries[t] \in Nat
  BY Zenon, StoreAssumption
<1>2. CASE MaxRetries[t] = 0
  <2>1. Budget(t) = 1 /\ Lifecycle!Budget(t) = 1
    BY Zenon, <1>2 DEF Budget, Lifecycle!Budget
  <2>2. QED
    BY <1>2, <2>1
<1>3. CASE MaxRetries[t] # 0
  <2>1. Budget(t) = MaxRetries[t] /\ Lifecycle!Budget(t) = MaxRetries[t]
    BY Zenon, <1>3 DEF Budget, Lifecycle!Budget
  <2>2. QED
    BY <1>1, <2>1
<1>4. QED
  BY Zenon, <1>2, <1>3

(* A recorded result is a lifecycle step.                                  *)
LEMMA RecordAdvances ==
  ASSUME TypeOK, BudgetInv, UnhandledIsUnknown, NEW w \in Workers, pc[w] \in Persisting, Record(w)
  PROVE  Lifecycle!Next
<1> DEFINE t == held[w]
<1>1. /\ t \in Tasks
      /\ status[t] = "RUNNING" /\ claimed[w] = attempts[t]
      /\ attempts' = attempts
  BY Zenon, RecordStep
<1>2. PICK s \in {"COMPLETED", "PENDING", "DEAD"} :
        /\ status' = [status EXCEPT ![t] = s]
        /\ s = "PENDING" => claimed[w] < MaxRetries[t]
        /\ s = "DEAD" => pc[w] = "unhandled" \/ claimed[w] >= MaxRetries[t]
  BY Zenon, RecordStep
<1>3. /\ status'[t] = s /\ attempts'[t] = attempts[t]
      /\ attempts[t] \in Nat
  BY Zenon, <1>1, <1>2 DEF TypeOK, StoreTypeOK
<1>4. /\ attempts[t] < MaxRetries[t] => attempts[t] < Lifecycle!Budget(t)
      /\ attempts[t] >= MaxRetries[t] => attempts[t] = Lifecycle!Budget(t)
  <2>1. attempts[t] <= Budget(t) /\ attempts[t] > 0
    BY Zenon, <1>1 DEF BudgetInv, AttemptsWithinBudget
  <2>2. QED
    BY Zenon, <1>1, <1>3, <2>1, BudgetTest
<1>5. pc[w] = "unhandled" => t \in {u \in Tasks : \E p \in Procs : u \notin Registered[p]}
  BY Zenon, <1>1, PoolAssumption DEF UnhandledIsUnknown
<1>6. /\ s = "PENDING" => attempts[t] < Lifecycle!Budget(t)
      /\ s = "DEAD" => pc[w] = "unhandled" \/ attempts[t] = Lifecycle!Budget(t)
  BY Zenon, <1>1, <1>2, <1>4
<1>7. Lifecycle!Advance(t)
  BY Zenon, <1>1, <1>2, <1>3, <1>5, <1>6 DEF Lifecycle!Advance, Lifecycle!Becomes
<1>8. attempts' = [attempts EXCEPT ![t] = attempts[t]]
  BY Zenon, <1>1 DEF TypeOK, StoreTypeOK
<1>9. QED
  BY Zenon, <1>1, <1>2, <1>7, <1>8, OneRowAdvances DEF TypeOK

(* A reaper run moves each of its rows as the lifecycle allows.            *)
LEMMA ReapAdvances ==
  ASSUME TypeOK, BudgetInv, NEW S \in SUBSET Tasks, RequeueStaleRunning(S)
  PROVE  Lifecycle!Next
<1> SUFFICES ASSUME NEW t \in Tasks
             PROVE  Lifecycle!Becomes(t, status[t], attempts[t]) \/ Lifecycle!Advance(t)
  BY Zenon DEF Lifecycle!Next
<1>1. attempts' = attempts /\ status'[t] = IF t \in S THEN Reaped(t) ELSE status[t]
  BY Zenon DEF RequeueStaleRunning
<1>2. CASE t \notin S
  BY Zenon, <1>1, <1>2 DEF Lifecycle!Becomes
<1>3. CASE t \in S
  <2>1. /\ status[t] = "RUNNING" /\ attempts[t] > 0 /\ attempts[t] <= Budget(t)
        /\ attempts[t] \in Nat /\ MaxRetries[t] \in Nat
    BY Zenon, <1>3, StoreAssumption DEF RequeueStaleRunning, Stale, BudgetInv, AttemptsWithinBudget,
                                 TypeOK, StoreTypeOK
  <2>2. IF attempts[t] >= MaxRetries[t] THEN attempts[t] = Lifecycle!Budget(t)
                                        ELSE attempts[t] < Lifecycle!Budget(t)
    <3> DEFINE a == attempts[t]
               m == MaxRetries[t]
    <3>1. a \in Nat /\ m \in Nat /\ a > 0 /\ a <= (IF m = 0 THEN 1 ELSE m)
      BY Zenon, <2>1 DEF Budget
    <3> HIDE DEF a, m
    <3>2. IF a >= m THEN a = (IF m = 0 THEN 1 ELSE m) ELSE a < (IF m = 0 THEN 1 ELSE m)
      BY SMT, <3>1
    <3> QED BY Zenon, <3>2 DEF a, m, Lifecycle!Budget
  <2>3. QED
    BY Zenon, <1>1, <1>3, <2>1, <2>2 DEF Reaped, Lifecycle!Advance, Lifecycle!Becomes
<1>4. QED
  BY Zenon, <1>2, <1>3

(* Inserting, canceling and retrying by hand.                              *)
LEMMA ClientAdvances ==
  ASSUME TypeOK, BudgetInv, NEW t \in Tasks, Insert(t) \/ CancelTask(t) \/ RetryTask(t)
  PROVE  Lifecycle!Next
<1> USE DEF TypeOK, StoreTypeOK, Lifecycle!Advance, Lifecycle!Becomes
<1>1. CASE Insert(t)
  <2>1. status[t] = "ABSENT" /\ attempts[t] = 0
    BY Zenon, <1>1 DEF Insert, Create, BudgetInv
  <2>2. status' = [status EXCEPT ![t] = "PENDING"] /\ attempts' = [attempts EXCEPT ![t] = 0]
    BY Zenon, <1>1, <2>1 DEF Insert, Create
  <2>3. QED
    BY Zenon, <2>1, <2>2, OneRowAdvances
<1>2. CASE CancelTask(t)
  <2>1. /\ status' = [status EXCEPT ![t] = "CANCELED"]
        /\ attempts' = [attempts EXCEPT ![t] = attempts[t]]
    BY Zenon, <1>2 DEF CancelTask, Cancel, SetStatus
  <2>2. QED
    BY Zenon, <1>2, <2>1, OneRowAdvances DEF CancelTask, Cancel
<1>3. CASE RetryTask(t)
  <2>1. status' = [status EXCEPT ![t] = "PENDING"] /\ attempts' = [attempts EXCEPT ![t] = 0]
    BY Zenon, <1>3 DEF RetryTask, RetryDead, SetStatus
  <2>2. QED
    BY Zenon, <1>3, <2>1, OneRowAdvances DEF RetryTask, RetryDead
<1>4. QED
  BY Zenon, <1>1, <1>2, <1>3

(* Every step of the pool is a lifecycle step or leaves status and         *)
(* attempts alone.                                                         *)
LEMMA LifecycleStep ==
  ASSUME TypeOK, BudgetInv, UnhandledIsUnknown, [Next]_vars
  PROVE  [Lifecycle!Next]_<<status, attempts>>
<1>1. ASSUME NEW w \in Workers, NEW t \in Tasks, ClaimTask(w, t) \/ ClaimAnswerLost(w, t)
      PROVE  Lifecycle!Next
  BY Zenon, <1>1, ClaimAdvances DEF ClaimTask, ClaimAnswerLost, TypeOK, BudgetInv
<1>2. ASSUME NEW w \in Workers, HandlerReturns(w) \/ TaskTimeout(w) \/ WorkerExit(w) \/ Beat(w)
      PROVE  UNCHANGED <<status, attempts>>
  BY Zenon, <1>2 DEF HandlerReturns, TaskTimeout, WorkerExit, Beat, Heartbeat, storeVars
<1>3. ASSUME NEW w \in Workers, Persist(w)
      PROVE  Lifecycle!Next \/ UNCHANGED <<status, attempts>>
  BY Zenon, <1>3, RecordAdvances DEF Persist, storeVars
<1>4. ASSUME NEW p \in Procs, NEW S \in SUBSET Tasks, Reap(p, S)
      PROVE  Lifecycle!Next
  BY Zenon, <1>4, ReapAdvances DEF Reap
<1>5. ASSUME NEW p \in Procs, Shutdown(p) \/ DrainEnds(p) \/ Crash(p) \/ Restart(p)
      PROVE  UNCHANGED <<status, attempts>>
  BY Zenon, <1>5 DEF Shutdown, DrainEnds, Crash, Restart, storeVars
<1>6. CASE TimePasses \/ UNCHANGED vars
  BY Zenon, <1>6 DEF TimePasses, Tick, vars, storeVars
<1>7. QED
  BY Zenon, <1>1, <1>2, <1>3, <1>4, <1>5, <1>6, ClientAdvances DEF Next, WorkerStep, ProcStep

(* With worker ids of their own, the pool with its failures implements the *)
(* life of a task that TaskLifecycle promises.                             *)
THEOREM PoolImplementsLifecycle ==
  ASSUME UniqueWorkerIDs
  PROVE  Spec => KeepsLifecycle
<1>1. Init => Lifecycle!Init
  BY Zenon DEF Init, StoreInit, Lifecycle!Init
<1>2. Init => UnhandledIsUnknown
  BY Zenon DEF Init, UnhandledIsUnknown
<1>3. Spec => []UnhandledIsUnknown
  BY <1>2, UnhandledStep, TypeCorrect, PTL DEF Spec
<1>4. TypeOK /\ BudgetInv /\ UnhandledIsUnknown /\ [Next]_vars
        => [Lifecycle!Next]_(Lifecycle!lifeVars)
  BY Zenon, LifecycleStep DEF Lifecycle!lifeVars
<1>5. QED
  BY <1>1, <1>3, <1>4, TypeCorrect, BudgetInvariant, PTL
  DEF Spec, KeepsLifecycle, Lifecycle!Spec
-----------------------------------------------------------------------------
(* What bounds the work on a task.                                         *)

(* Claims and results that are still to come in this life of t.            *)
WorkLeft(t) ==
  IF status[t] = "PENDING" THEN 2 * (Budget(t) - attempts[t])
  ELSE IF status[t] = "RUNNING" THEN 2 * (Budget(t) - attempts[t]) + 1 ELSE 0

(* Whatever happens to the row of a task uses up its budget of claims and  *)
(* results, which is never negative: lost answers, failures, reaper runs   *)
(* and restarts cannot keep a task going for ever.  Only the insert and a  *)
(* retry of a DEAD task by hand fill the budget.                           *)
WorkShrinks ==
  \A t \in Tasks :
    /\ WorkLeft(t) \in Nat
    /\ status'[t] # status[t] => \/ WorkLeft(t)' < WorkLeft(t)
                                 \/ status[t] \in {"ABSENT", "DEAD"} /\ WorkLeft(t)' = 2 * Budget(t)
WorkRunsOut == [][WorkShrinks]_vars

(* With worker ids of their own, the work on every task runs out.          *)
THEOREM WorkIsBounded ==
  ASSUME UniqueWorkerIDs
  PROVE  Spec => WorkRunsOut
<1>1. ASSUME TypeOK, BudgetInv, [Lifecycle!Next]_(Lifecycle!lifeVars) PROVE WorkShrinks
  <2> SUFFICES ASSUME NEW t \in Tasks
               PROVE  /\ WorkLeft(t) \in Nat
                      /\ status'[t] # status[t] =>
                           \/ WorkLeft(t)' < WorkLeft(t)
                           \/ status[t] \in {"ABSENT", "DEAD"} /\ WorkLeft(t)' = 2 * Budget(t)
    BY Zenon DEF WorkShrinks
  <2>1. Budget(t) \in Nat /\ attempts[t] \in Nat /\ attempts[t] <= Budget(t) /\ Lifecycle!Budget(t) = Budget(t)
    BY Zenon, <1>1, StoreAssumption DEF Budget, Lifecycle!Budget, TypeOK, StoreTypeOK, BudgetInv,
                                           AttemptsWithinBudget
  <2>2. status[t] = "PENDING" => attempts[t] < Budget(t)
    BY Zenon, <1>1 DEF BudgetInv, AttemptsWithinBudget
  <2>3. WorkLeft(t) \in Nat
    BY SMTT(30), <2>1 DEF WorkLeft
  <2>4. WorkLeft(t)' = IF status'[t] = "PENDING" THEN 2 * (Budget(t) - attempts'[t])
                       ELSE IF status'[t] = "RUNNING" THEN 2 * (Budget(t) - attempts'[t]) + 1 ELSE 0
    BY Zenon DEF WorkLeft, Budget
  <2>5. ASSUME status'[t] # status[t] PROVE Lifecycle!Advance(t)
    BY Zenon, <1>1, <2>5 DEF Lifecycle!Next, Lifecycle!Becomes, Lifecycle!lifeVars
  <2>6. ASSUME Lifecycle!Advance(t)
        PROVE  \/ WorkLeft(t)' < WorkLeft(t)
               \/ status[t] \in {"ABSENT", "DEAD"} /\ WorkLeft(t)' = 2 * Budget(t)
    <3> DEFINE B == Budget(t)
               a == attempts[t]
               left == WorkLeft(t)
               leftAfter == WorkLeft(t)'
    <3>1. B \in Nat /\ a \in Nat /\ a <= B
      BY Zenon, <2>1
    <3>2. \/ status[t] \in {"ABSENT", "DEAD"} /\ leftAfter = 2 * (B - 0)
          \/ left = 2 * (B - a) /\ a < B /\ (leftAfter = 0 \/ leftAfter = 2 * (B - (a + 1)) + 1)
          \/ left = 2 * (B - a) + 1 /\ (leftAfter = 0 \/ leftAfter = 2 * (B - a))
      BY Zenon, <2>1, <2>2, <2>4, <2>6 DEF WorkLeft, Lifecycle!Advance, Lifecycle!Becomes
    <3> HIDE DEF B, a, left, leftAfter
    <3>3. leftAfter < left \/ (status[t] \in {"ABSENT", "DEAD"} /\ leftAfter = 2 * B)
      BY SMT, <3>1, <3>2
    <3> QED BY Zenon, <3>3 DEF B, left, leftAfter
  <2> QED BY Zenon, <2>3, <2>5, <2>6
<1>2. Spec => [][Lifecycle!Next]_(Lifecycle!lifeVars)
  BY Zenon, PoolImplementsLifecycle DEF KeepsLifecycle, Lifecycle!Spec
<1>3. TypeOK /\ BudgetInv /\ [Lifecycle!Next]_(Lifecycle!lifeVars) => [WorkShrinks]_vars
  BY Zenon, <1>1
<1> QED BY <1>2, <1>3, TypeCorrect, BudgetInvariant, PTL DEF WorkRunsOut

(* A lock is renewed only by the heartbeats of the worker that executes    *)
(* the task under that lock: with the worker gone, its task forgotten or   *)
(* its context over, the age of the lock only grows, until a reaper takes  *)
(* the row.                                                                *)
LockKept ==
  \A t \in Tasks :
    status[t] = "RUNNING" /\ status'[t] = "RUNNING" /\ lockAge'[t] < lockAge[t] =>
      \E w \in Workers : beating[w] /\ held[w] = t /\ WorkerID[w] = lockedBy[t] /\ lockedBy'[t] = lockedBy[t]
OnlyHolderKeepsLock == [][LockKept]_vars

(* Nobody else keeps a RUNNING row from getting stale.                     *)
THEOREM LocksAgeWithoutHolder == Spec => OnlyHolderKeepsLock
<1>1. ASSUME TypeOK, Next PROVE LockKept
  <2> SUFFICES ASSUME NEW t \in Tasks, status[t] = "RUNNING", status'[t] = "RUNNING", lockAge'[t] < lockAge[t]
               PROVE  \E w \in Workers : /\ beating[w] /\ held[w] = t /\ WorkerID[w] = lockedBy[t]
                                         /\ lockedBy'[t] = lockedBy[t]
    BY Zenon DEF LockKept
  <2>0. /\ lockAge \in [Tasks -> 0 .. Expired] /\ Expired \in Nat
        /\ status \in [Tasks -> TaskStatus \cup {"ABSENT"}]
    BY SMTT(30), <1>1, StoreAssumption DEF TypeOK, StoreTypeOK, Expired
  <2>1. ASSUME lockAge'[t] = lockAge[t] PROVE FALSE
    BY <2>0, <2>1
  <2>2. ASSUME NEW w \in Workers, NEW u \in Tasks, ClaimTask(w, u) \/ ClaimAnswerLost(w, u)
        PROVE  FALSE
    <3>1. u # t /\ lockAge' = [lockAge EXCEPT ![u] = 0]
      BY Zenon, <2>2 DEF ClaimTask, ClaimAnswerLost, Claim, Claimable
    <3> QED BY Zenon, <2>0, <2>1, <3>1
  <2>3. ASSUME NEW w \in Workers, HandlerReturns(w) \/ TaskTimeout(w) \/ WorkerExit(w) PROVE FALSE
    BY Zenon, <2>1, <2>3 DEF HandlerReturns, TaskTimeout, WorkerExit, storeVars
  <2>4. ASSUME NEW w \in Workers, Beat(w)
        PROVE  beating[w] /\ held[w] = t /\ WorkerID[w] = lockedBy[t] /\ lockedBy'[t] = lockedBy[t]
    <3>1. beating[w] /\ Heartbeat(held[w], WorkerID[w])
      BY Zenon, <2>1, <2>4 DEF Beat, storeVars
    <3>2. held[w] = t
      BY Zenon, <2>0, <2>1, <3>1 DEF Heartbeat
    <3> QED BY Zenon, <3>1, <3>2 DEF Heartbeat, Owns
  <2>5. ASSUME NEW w \in Workers, Persist(w) PROVE FALSE
    <3>1. Record(w)
      BY Zenon, <2>1, <2>5 DEF Persist, storeVars
    <3>2. lockAge' = [lockAge EXCEPT ![held[w]] = 0]
      BY Zenon, <3>1 DEF Record, MarkCompleted, MarkDead, MarkPending, Unlock
    <3>3. held[w] = t
      BY Zenon, <2>0, <2>1, <3>2
    <3>4. status' = [status EXCEPT ![t] = "COMPLETED"] \/ status' = [status EXCEPT ![t] = "DEAD"]
          \/ status' = [status EXCEPT ![t] = "PENDING"]
      BY Zenon, <3>1, <3>3 DEF Record, MarkCompleted, MarkDead, MarkPending, SetStatus
    <3> QED BY Zenon, <2>0, <3>4
  <2>6. ASSUME NEW p \in Procs, NEW S \in SUBSET Tasks, Reap(p, S) PROVE FALSE
    <3>1. t \notin S
      BY Zenon, <2>6 DEF Reap, RequeueStaleRunning, Reaped
    <3> QED BY Zenon, <2>1, <2>6, <3>1 DEF Reap, RequeueStaleRunning
  <2>7. ASSUME NEW p \in Procs, Shutdown(p) \/ DrainEnds(p) \/ Crash(p) \/ Restart(p) PROVE FALSE
    BY Zenon, <2>1, <2>7 DEF Shutdown, DrainEnds, Crash, Restart, storeVars
  <2>8. ASSUME NEW u \in Tasks, Insert(u) \/ CancelTask(u) \/ RetryTask(u) PROVE FALSE
    <3>1. CASE Insert(u) \/ CancelTask(u)
      BY Zenon, <2>1, <3>1 DEF Insert, Create, CancelTask, Cancel
    <3>2. CASE RetryTask(u)
      BY Zenon, <2>0, <2>1, <3>2 DEF RetryTask, RetryDead, Unlock
    <3> QED BY Zenon, <2>8, <3>1, <3>2
  <2>9. ~TimePasses
    <3>1. ASSUME TimePasses PROVE lockAge'[t] = lockAge[t] + 1 \/ lockAge'[t] = lockAge[t]
      BY Zenon, <2>0, <3>1 DEF TimePasses, Tick
    <3>2. lockAge[t] \in Nat
      BY <2>0
    <3> QED BY <3>1, <3>2
  <2> QED BY Zenon, <1>1, <2>2, <2>3, <2>4, <2>5, <2>6, <2>7, <2>8, <2>9 DEF Next, WorkerStep, ProcStep
<1>2. TypeOK /\ [Next]_vars => [LockKept]_vars
  BY Zenon, <1>1
<1> QED BY <1>2, TypeCorrect, PTL DEF Spec, OnlyHolderKeepsLock
-----------------------------------------------------------------------------
(* Who executes an attempt.                                                *)

(* Until a task is retried by hand, every attempt at it is executed by one *)
(* worker at most: a second worker that gets the task after a reaper run   *)
(* or a restart has a later attempt, while the first may still run.        *)
OneWorkerPerAttempt ==
  manualRetries = 0 =>
    \A v, w \in Workers : Executing(v) /\ Executing(w) /\ held[v] = held[w] /\ claimed[v] = claimed[w] => v = w

(* The inductive invariant: no worker is ahead of the row.                 *)
AttemptInv ==
  manualRetries = 0 =>
    /\ \A w \in Workers : held[w] # NoTask => claimed[w] <= attempts[held[w]]
    /\ \A v, w \in Workers : held[v] # NoTask /\ held[v] = held[w] /\ claimed[v] = claimed[w] => v = w

(* A step that starts no attempt keeps the attempts apart.                 *)
LEMMA AttemptsStayApart ==
  ASSUME TypeOK, TypeOK', AttemptInv, manualRetries' = manualRetries,
         \A t \in Tasks : attempts'[t] >= attempts[t],
         \A w \in Workers : held'[w] # NoTask => held'[w] = held[w] /\ claimed'[w] = claimed[w]
  PROVE  AttemptInv'
<1> SUFFICES ASSUME manualRetries = 0
             PROVE  /\ \A w \in Workers : held'[w] # NoTask => claimed'[w] <= attempts'[held'[w]]
                    /\ \A v, w \in Workers :
                         held'[v] # NoTask /\ held'[v] = held'[w] /\ claimed'[v] = claimed'[w] => v = w
  BY Zenon DEF AttemptInv
<1>1. ASSUME NEW w \in Workers, held'[w] # NoTask PROVE claimed'[w] <= attempts'[held'[w]]
  <2>1. held[w] = held'[w] /\ claimed[w] = claimed'[w] /\ held[w] \in Tasks /\ claimed[w] \in Nat
    BY Zenon, <1>1 DEF TypeOK
  <2>2. claimed[w] <= attempts[held[w]] /\ attempts[held[w]] \in Nat /\ attempts'[held[w]] \in Nat
    BY Zenon, <1>1, <2>1 DEF AttemptInv, TypeOK, StoreTypeOK
  <2>3. attempts'[held[w]] >= attempts[held[w]]
    BY Zenon, <2>1
  <2>4. claimed[w] <= attempts'[held[w]]
    <3> DEFINE c == claimed[w]
               a == attempts[held[w]]
               b == attempts'[held[w]]
    <3>1. c \in Nat /\ a \in Nat /\ b \in Nat /\ c <= a /\ b >= a
      BY Zenon, <2>1, <2>2, <2>3
    <3> HIDE DEF c, a, b
    <3>2. c <= b
      BY SMT, <3>1
    <3> QED BY Zenon, <3>2 DEF c, b
  <2> QED BY Zenon, <2>1, <2>4
<1>2. ASSUME NEW v \in Workers, NEW w \in Workers,
             held'[v] # NoTask, held'[v] = held'[w], claimed'[v] = claimed'[w]
      PROVE  v = w
  BY Zenon, <1>2 DEF AttemptInv
<1> QED BY Zenon, <1>1, <1>2

(* Every step keeps the attempts apart.                                    *)
LEMMA AttemptStep ==
  ASSUME TypeOK, TypeOK', AttemptInv, [Next]_vars
  PROVE  AttemptInv'
<1>0. /\ attempts \in [Tasks -> Nat] /\ held \in [Workers -> Tasks \cup {NoTask}]
      /\ claimed \in [Workers -> Nat] /\ manualRetries \in Nat
  BY SMTT(30), PoolAssumption DEF TypeOK, StoreTypeOK
<1>1. ASSUME UNCHANGED <<attempts, held, claimed, manualRetries>> PROVE AttemptInv'
  BY Zenon, <1>1 DEF AttemptInv
<1>2. ASSUME NEW w \in Workers, NEW t \in Tasks, ClaimTask(w, t) PROVE AttemptInv'
  <2>1. /\ held' = [held EXCEPT ![w] = t] /\ claimed' = [claimed EXCEPT ![w] = attempts[t] + 1]
        /\ attempts' = [attempts EXCEPT ![t] = @ + 1] /\ manualRetries' = manualRetries
    BY Zenon, <1>2 DEF ClaimTask, Claim
  <2>2. ASSUME manualRetries = 0, NEW v \in Workers, held'[v] # NoTask
        PROVE  claimed'[v] <= attempts'[held'[v]]
    <3>1. CASE v = w
      BY SMTT(30), <1>0, <2>1, <3>1
    <3>2. CASE v # w
      <4>1. held[v] = held'[v] /\ claimed[v] = claimed'[v] /\ held[v] \in Tasks
        BY Zenon, <1>0, <2>1, <2>2, <3>2
      <4>2. claimed[v] <= attempts[held[v]]
        BY Zenon, <2>2, <4>1 DEF AttemptInv
      <4>3. attempts'[held[v]] >= attempts[held[v]]
        BY <1>0, <2>1, <4>1
      <4>4. claimed[v] \in Nat /\ attempts[held[v]] \in Nat /\ attempts'[held[v]] \in Nat
        BY <1>0, <2>1, <4>1
      <4> QED BY <4>1, <4>2, <4>3, <4>4
    <3> QED BY Zenon, <3>1, <3>2
  <2>3. ASSUME manualRetries = 0, NEW v \in Workers, v # w, held'[v] = t
        PROVE  claimed'[v] # claimed'[w]
    <3>1. claimed'[v] = claimed[v] /\ held[v] = t /\ t # NoTask
      BY Zenon, <1>0, <2>1, <2>3, PoolAssumption
    <3>2. claimed[v] <= attempts[t]
      BY Zenon, <2>3, <3>1 DEF AttemptInv
    <3>3. claimed'[w] = attempts[t] + 1
      BY Zenon, <1>0, <2>1
    <3> QED BY SMTT(30), <1>0, <3>1, <3>2, <3>3
  <2>4. ASSUME manualRetries = 0, NEW u \in Workers, NEW v \in Workers,
               held'[v] # NoTask, held'[v] = held'[u], claimed'[v] = claimed'[u]
        PROVE  u = v
    <3>1. held'[w] = t
      BY Zenon, <1>0, <2>1
    <3>2. CASE u = w \/ v = w
      BY Zenon, <2>3, <2>4, <3>1, <3>2
    <3>3. CASE u # w /\ v # w
      BY Zenon, <1>0, <2>1, <2>4, <3>3 DEF AttemptInv
    <3> QED BY Zenon, <3>2, <3>3
  <2> QED BY Zenon, <2>1, <2>2, <2>4 DEF AttemptInv
<1>3. ASSUME NEW w \in Workers, NEW t \in Tasks, ClaimAnswerLost(w, t) PROVE AttemptInv'
  BY SMTT(30), <1>0, <1>3, AttemptsStayApart DEF ClaimAnswerLost, Claim
<1>4. ASSUME NEW w \in Workers, HandlerReturns(w) \/ TaskTimeout(w) \/ Beat(w) \/ WorkerExit(w)
      PROVE  UNCHANGED <<attempts, held, claimed, manualRetries>>
  BY Zenon, <1>4 DEF HandlerReturns, TaskTimeout, Beat, WorkerExit, Heartbeat, storeVars
<1>5. ASSUME NEW w \in Workers, Persist(w) PROVE AttemptInv'
  <2>1. attempts' = attempts /\ manualRetries' = manualRetries
    BY Zenon, <1>5 DEF Persist, Record, MarkCompleted, MarkDead, MarkPending, storeVars
  <2>2. \A v \in Workers : held'[v] # NoTask => held'[v] = held[v] /\ claimed'[v] = claimed[v]
    BY Zenon, <1>0, <1>5 DEF Persist
  <2> QED BY SMTT(30), <1>0, <2>1, <2>2, AttemptsStayApart
<1>6. ASSUME NEW p \in Procs, ProcStep(p) PROVE AttemptInv'
  <2>1. attempts' = attempts /\ manualRetries' = manualRetries
    BY Zenon, <1>6 DEF ProcStep, Reap, RequeueStaleRunning, Shutdown, DrainEnds, Crash, Restart, storeVars, poolVars
  <2>2. \A v \in Workers : held'[v] # NoTask => held'[v] = held[v] /\ claimed'[v] = claimed[v]
    BY Zenon, <1>6 DEF ProcStep, Reap, Shutdown, DrainEnds, Crash, Restart, ResetWorkers, poolVars
  <2> QED BY SMTT(30), <1>0, <2>1, <2>2, AttemptsStayApart
<1>7. ASSUME NEW t \in Tasks, Insert(t) \/ CancelTask(t)
      PROVE  UNCHANGED <<attempts, held, claimed, manualRetries>>
  BY Zenon, <1>7 DEF Insert, Create, CancelTask, Cancel, poolVars
<1>8. ASSUME NEW t \in Tasks, RetryTask(t) PROVE AttemptInv'
  BY SMTT(30), <1>0, <1>8 DEF RetryTask, AttemptInv
<1>9. ASSUME TimePasses \/ UNCHANGED vars PROVE UNCHANGED <<attempts, held, claimed, manualRetries>>
  BY Zenon, <1>9 DEF TimePasses, Tick, vars, storeVars, poolVars
<1> QED BY Zenon, <1>1, <1>2, <1>3, <1>4, <1>5, <1>6, <1>7, <1>8, <1>9 DEF Next, WorkerStep

(* No two workers run the same attempt, even with ids that are not unique. *)
THEOREM AttemptsNotShared == Spec => []OneWorkerPerAttempt
<1>1. Init => AttemptInv
  BY Zenon DEF Init, AttemptInv
<1>2. TypeOK /\ AttemptInv => OneWorkerPerAttempt
  BY Zenon DEF TypeOK, AttemptInv, OneWorkerPerAttempt
<1> QED BY <1>1, <1>2, AttemptStep, TypeCorrect, PTL DEF Spec
-----------------------------------------------------------------------------
(* What the final statuses say.                                            *)

(* A handler runs only in a process that has it registered.                *)
HandledIsKnown ==
  \A w \in Workers : pc[w] \in {"running", "succeeded", "failed"} => held[w] \in Registered[ProcOf[w]]

(* No step hands a worker a task to run that its process has no handler    *)
(* for, nor keeps a task in the hands of a worker that was restarted.      *)
LEMMA HandledStep ==
  ASSUME TypeOK, HandledIsKnown, [Next]_vars
  PROVE  HandledIsKnown'
<1>0. DOMAIN pc = Workers /\ DOMAIN held = Workers
  BY Zenon DEF TypeOK
<1>1. ASSUME UNCHANGED held,
             \A w \in Workers : pc'[w] \in {"running", "succeeded", "failed"} => pc[w] \in {"running", "succeeded", "failed"}
      PROVE  HandledIsKnown'
  BY Zenon, <1>1 DEF HandledIsKnown
<1>2. ASSUME NEW w \in Workers, NEW t \in Tasks, ClaimTask(w, t)
      PROVE  HandledIsKnown'
  BY Zenon, <1>0, <1>2 DEF ClaimTask, HandledIsKnown
<1>3. ASSUME NEW w \in Workers, NEW t \in Tasks, ClaimAnswerLost(w, t)
      PROVE  HandledIsKnown'
  <2>1. UNCHANGED held /\ \E s \in {"idle", "exited"} : pc' = [pc EXCEPT ![w] = s]
    BY Zenon, <1>3 DEF ClaimAnswerLost
  <2>2. QED
    BY Zenon, <1>0, <1>1, <2>1
<1>4. ASSUME NEW w \in Workers, HandlerReturns(w) \/ TaskTimeout(w) \/ Beat(w) \/ WorkerExit(w)
      PROVE  HandledIsKnown'
  <2>1. UNCHANGED held
    BY Zenon, <1>4 DEF HandlerReturns, TaskTimeout, Beat, WorkerExit
  <2>2. \/ pc' = pc
        \/ pc' = [pc EXCEPT ![w] = "exited"]
        \/ pc[w] = "running" /\ \E r \in {"succeeded", "failed"} : pc' = [pc EXCEPT ![w] = r]
    BY Zenon, <1>4 DEF HandlerReturns, TaskTimeout, Beat, WorkerExit
  <2>3. QED
    BY Zenon, <1>0, <1>1, <2>1, <2>2
<1>5. ASSUME NEW w \in Workers, Persist(w)
      PROVE  HandledIsKnown'
  BY Zenon, <1>0, <1>5 DEF Persist, HandledIsKnown
<1>6. ASSUME NEW p \in Procs, NEW s \in {"idle", "exited"}, ResetWorkers(p, s)
      PROVE  HandledIsKnown'
  BY Zenon, <1>6 DEF ResetWorkers, HandledIsKnown
<1>7. ASSUME NEW p \in Procs, ProcStep(p)
      PROVE  HandledIsKnown'
  <2>1. \/ UNCHANGED <<pc, held>>
        \/ \E s \in {"idle", "exited"} : ResetWorkers(p, s)
    BY Zenon, <1>7 DEF ProcStep, Reap, Shutdown, DrainEnds, Crash, Restart, poolVars
  <2>2. QED
    BY Zenon, <1>1, <1>6, <2>1
<1>8. QED
  BY Zenon, <1>1, <1>2, <1>3, <1>4, <1>5, <1>7
  DEF Next, WorkerStep, Insert, CancelTask, RetryTask, TimePasses, vars, poolVars, workerVars

(* COMPLETED means that a registered handler returned nil in the task's    *)
(* current attempt, and nothing else: no late, repeated or foreign result  *)
(* can write it.  DEAD means that the last attempt failed, that the worker *)
(* of the current attempt had no handler, or that the last attempt's lock  *)
(* expired.                                                                *)
Earned(t) ==
  /\ status[t] # "COMPLETED" /\ status'[t] = "COMPLETED" =>
       \E w \in Workers : FinishesAttempt(w, t) /\ pc[w] = "succeeded" /\ t \in Registered[ProcOf[w]]
  /\ status[t] # "DEAD" /\ status'[t] = "DEAD" =>
       \/ \E w \in Workers : FinishesAttempt(w, t) /\ pc[w] = "failed" /\ attempts[t] >= MaxRetries[t]
       \/ \E w \in Workers : FinishesAttempt(w, t) /\ pc[w] = "unhandled" /\ t \notin Registered[ProcOf[w]]
       \/ Stale(t) /\ attempts[t] >= MaxRetries[t] /\ UNCHANGED poolVars
OutcomesEarned == [][\A t \in Tasks : Earned(t)]_vars

(* The result a worker records, by what its handler did.                   *)
LEMMA RecordEarns ==
  ASSUME TypeOK, BudgetInv, HandledIsKnown, UnhandledIsUnknown,
         NEW w \in Workers, Persist(w), NEW t \in Tasks
  PROVE  Earned(t)
<1>1. CASE UNCHANGED storeVars
  BY Zenon, <1>1 DEF storeVars, Earned
<1>2. CASE Record(w)
  <2>1. pc[w] \in Persisting /\ pc'[w] = "idle"
    BY Zenon DEF Persist, TypeOK
  <2>2. held[w] \in Tasks /\ claimed[w] = attempts[held[w]] /\ DOMAIN status = Tasks
    BY Zenon, <1>2, <2>1, RecordStep DEF TypeOK, StoreTypeOK
  <2>3. held[w] = t => FinishesAttempt(w, t)
    BY Zenon, <2>1, <2>2 DEF FinishesAttempt
  <2>4. CASE pc[w] = "succeeded"
    <3>1. status' = [status EXCEPT ![held[w]] = "COMPLETED"]
      BY Zenon, <1>2, <2>4 DEF Record, MarkCompleted, SetStatus
    <3>2. held[w] \in Registered[ProcOf[w]]
      BY Zenon, <2>4 DEF HandledIsKnown
    <3>3. QED
      BY Zenon, <2>2, <2>3, <2>4, <3>1, <3>2 DEF Earned
  <2>5. CASE pc[w] = "unhandled"
    <3>1. status' = [status EXCEPT ![held[w]] = "DEAD"]
      BY Zenon, <1>2, <2>5 DEF Record, MarkDead, SetStatus
    <3>2. held[w] \notin Registered[ProcOf[w]]
      BY Zenon, <2>5 DEF UnhandledIsUnknown
    <3>3. QED
      BY Zenon, <2>2, <2>3, <2>5, <3>1, <3>2 DEF Earned
  <2>6. CASE pc[w] = "failed"
    <3>1. \/ claimed[w] >= MaxRetries[held[w]] /\ status' = [status EXCEPT ![held[w]] = "DEAD"]
          \/ status' = [status EXCEPT ![held[w]] = "PENDING"]
      BY Zenon, <1>2, <2>6 DEF Record, MarkDead, MarkPending, SetStatus
    <3>2. QED
      BY Zenon, <2>2, <2>3, <2>6, <3>1 DEF Earned
  <2>7. QED
    BY Zenon, <2>1, <2>4, <2>5, <2>6 DEF Persisting
<1>3. QED
  BY Zenon, <1>1, <1>2 DEF Persist

(* With worker ids of their own, a final status is the outcome of the      *)
(* attempt it ends.                                                        *)
THEOREM FinalStatusEarned ==
  ASSUME UniqueWorkerIDs
  PROVE  Spec => OutcomesEarned
<1>1. ASSUME TypeOK, BudgetInv, HandledIsKnown, UnhandledIsUnknown, Next, NEW t \in Tasks
      PROVE  Earned(t)
  <2>0. DOMAIN status = Tasks
    BY Zenon, <1>1 DEF TypeOK, StoreTypeOK
  <2>1. ASSUME status'[t] \in {status[t], "RUNNING", "PENDING", "CANCELED"}
        PROVE  Earned(t)
    BY Zenon, <2>1 DEF Earned
  <2>2. ASSUME NEW s \in {"RUNNING", "PENDING", "CANCELED"}, NEW u \in Tasks, status' = [status EXCEPT ![u] = s]
        PROVE  Earned(t)
    BY Zenon, <2>0, <2>1, <2>2
  <2>3. ASSUME NEW w \in Workers, NEW u \in Tasks, ClaimTask(w, u) \/ ClaimAnswerLost(w, u)
        PROVE  Earned(t)
    BY Zenon, <2>2, <2>3 DEF ClaimTask, ClaimAnswerLost, Claim, SetStatus
  <2>4. ASSUME NEW w \in Workers, HandlerReturns(w) \/ TaskTimeout(w) \/ WorkerExit(w) \/ Beat(w)
        PROVE  UNCHANGED status
    BY Zenon, <2>4 DEF HandlerReturns, TaskTimeout, WorkerExit, Beat, Heartbeat, storeVars
  <2>5. ASSUME NEW w \in Workers, Persist(w)
        PROVE  Earned(t)
    BY Zenon, <1>1, <2>5, RecordEarns
  <2>6. ASSUME NEW p \in Procs, NEW S \in SUBSET Tasks, Reap(p, S)
        PROVE  Earned(t)
    BY Zenon, <2>1, <2>6 DEF Reap, RequeueStaleRunning, Reaped, Earned
  <2>7. ASSUME NEW p \in Procs, Shutdown(p) \/ DrainEnds(p) \/ Crash(p) \/ Restart(p)
        PROVE  UNCHANGED status
    BY Zenon, <2>7 DEF Shutdown, DrainEnds, Crash, Restart, storeVars
  <2>8. ASSUME NEW u \in Tasks, Insert(u) \/ CancelTask(u) \/ RetryTask(u)
        PROVE  Earned(t)
    BY Zenon, <2>2, <2>8 DEF Insert, Create, CancelTask, Cancel, RetryTask, RetryDead, SetStatus
  <2>9. TimePasses => UNCHANGED status
    BY Zenon DEF TimePasses, Tick
  <2>10. QED
    BY Zenon, <1>1, <2>1, <2>3, <2>4, <2>5, <2>6, <2>7, <2>8, <2>9 DEF Next, WorkerStep, ProcStep
<1>2. TypeOK /\ BudgetInv /\ HandledIsKnown /\ UnhandledIsUnknown /\ [Next]_vars => [\A t \in Tasks : Earned(t)]_vars
  BY Zenon, <1>1
<1>3. Init => HandledIsKnown /\ UnhandledIsUnknown
  BY Zenon DEF Init, HandledIsKnown, UnhandledIsUnknown
<1>4. QED
  BY <1>2, <1>3, HandledStep, UnhandledStep, TypeCorrect, BudgetInvariant, PTL DEF Spec, OutcomesEarned
-----------------------------------------------------------------------------
(* What the life of a process means for its workers.                       *)

(* A worker goroutine of a live process is never gone: it is in its loop   *)
(* or has a task in hand, whatever was lost or restarted before.  Nothing  *)
(* runs in a process that is down, and locks are renewed only where no     *)
(* shutdown has begun, so what a drain does not finish goes to the reaper. *)
WorkersFollowProcess ==
  \A w \in Workers :
    /\ proc[ProcOf[w]] = "up" => pc[w] = "idle" \/ Executing(w)
    /\ proc[ProcOf[w]] = "down" => pc[w] = "exited"
    /\ beating[w] => proc[ProcOf[w]] = "up"

(* The same of one worker, by what is not possible.                        *)
InStep(w) ==
  /\ pc[w] = "exited" => proc[ProcOf[w]] # "up"
  /\ proc[ProcOf[w]] = "down" => pc[w] = "exited"
  /\ beating[w] => proc[ProcOf[w]] = "up"

(* Every step leaves workers and processes in agreement.                   *)
LEMMA KeepsInStep ==
  ASSUME TypeOK, \A w \in Workers : InStep(w), [Next]_vars, NEW v \in Workers
  PROVE  InStep(v)'
<1>0. /\ DOMAIN pc = Workers /\ DOMAIN beating = Workers /\ DOMAIN proc = Procs
      /\ ProcOf[v] \in Procs /\ InStep(v)
  BY Zenon, PoolAssumption DEF TypeOK
<1>1. ASSUME UNCHANGED <<proc, pc, beating>>
      PROVE  InStep(v)'
  BY Zenon, <1>0, <1>1 DEF InStep
<1>2. ASSUME NEW w \in Workers, NEW t \in Tasks, ClaimTask(w, t) \/ ClaimAnswerLost(w, t)
      PROVE  InStep(v)'
  BY Zenon, <1>0, <1>2 DEF ClaimTask, ClaimAnswerLost, InStep
<1>3. ASSUME NEW w \in Workers, HandlerReturns(w) \/ TaskTimeout(w) \/ Beat(w) \/ WorkerExit(w)
      PROVE  InStep(v)'
  <2>1. CASE HandlerReturns(w)
    BY Zenon, <1>0, <2>1 DEF HandlerReturns, InStep
  <2>2. CASE TaskTimeout(w) \/ Beat(w)
    <3>1. UNCHANGED <<proc, pc>> /\ (beating' = beating \/ beating' = [beating EXCEPT ![w] = FALSE])
      BY Zenon, <2>2 DEF TaskTimeout, Beat
    <3>2. beating'[v] => beating[v]
      BY Zenon, <1>0, <3>1
    <3>3. QED
      BY Zenon, <1>0, <3>1, <3>2 DEF InStep
  <2>3. CASE WorkerExit(w)
    BY Zenon, <1>0, <2>3 DEF WorkerExit, InStep
  <2>4. QED
    BY Zenon, <1>3, <2>1, <2>2, <2>3
<1>4. ASSUME NEW w \in Workers, Persist(w)
      PROVE  InStep(v)'
  BY Zenon, <1>0, <1>4 DEF Persist, Persisting, InStep
<1>5. ASSUME NEW p \in Procs, Shutdown(p)
      PROVE  InStep(v)'
  <2>1. /\ proc[p] = "up" /\ proc' = [proc EXCEPT ![p] = "draining"] /\ pc' = pc
        /\ beating'[v] = (beating[v] /\ ProcOf[v] # p)
    BY Zenon, <1>5 DEF Shutdown
  <2>2. CASE ProcOf[v] = p
    BY Zenon, <1>0, <2>1, <2>2 DEF InStep
  <2>3. CASE ProcOf[v] # p
    BY Zenon, <1>0, <2>1, <2>3 DEF InStep
  <2>4. QED
    BY Zenon, <2>2, <2>3
<1>6. ASSUME NEW p \in Procs, DrainEnds(p) \/ Crash(p) \/ Restart(p)
      PROVE  InStep(v)'
  <2>1. \/ proc' = [proc EXCEPT ![p] = "down"] /\ ResetWorkers(p, "exited")
        \/ proc' = [proc EXCEPT ![p] = "up"] /\ ResetWorkers(p, "idle")
    BY Zenon, <1>6 DEF DrainEnds, Crash, Restart
  <2>2. CASE ProcOf[v] = p
    BY Zenon, <1>0, <2>1, <2>2 DEF ResetWorkers, InStep
  <2>3. CASE ProcOf[v] # p
    <3>1. pc'[v] = pc[v] /\ (beating'[v] => beating[v])
      BY Zenon, <2>1, <2>3 DEF ResetWorkers
    <3>2. proc'[ProcOf[v]] = proc[ProcOf[v]]
      BY Zenon, <1>0, <2>1, <2>3
    <3>3. QED
      BY Zenon, <1>0, <3>1, <3>2 DEF InStep
  <2>4. QED
    BY Zenon, <2>2, <2>3
<1>7. ASSUME \/ \E p \in Procs, S \in SUBSET Tasks : Reap(p, S)
             \/ \E t \in Tasks : Insert(t) \/ CancelTask(t) \/ RetryTask(t)
             \/ TimePasses \/ UNCHANGED vars
      PROVE  UNCHANGED <<proc, pc, beating>>
  BY Zenon, <1>7 DEF Reap, Insert, CancelTask, RetryTask, TimePasses, vars, poolVars, workerVars
<1>8. QED
  BY Zenon, <1>1, <1>2, <1>3, <1>4, <1>5, <1>6, <1>7 DEF Next, WorkerStep, ProcStep

(* Workers keep to the life of their process through every shutdown, crash *)
(* and restart, with worker ids that are shared too: the other safety half *)
(* of EveryTaskSettles, that an idle or busy worker is always there.       *)
THEOREM NoWorkerLost == Spec => []WorkersFollowProcess
<1>1. Init => \A w \in Workers : InStep(w)
  BY Zenon, PoolAssumption DEF Init, InStep
<1>2. TypeOK /\ (\A w \in Workers : InStep(w)) /\ [Next]_vars => (\A w \in Workers : InStep(w))'
  BY Zenon, KeepsInStep
<1>3. TypeOK /\ (\A w \in Workers : InStep(w)) => WorkersFollowProcess
  BY Zenon DEF TypeOK, PCs, Executing, InStep, WorkersFollowProcess
<1>4. QED
  BY <1>1, <1>2, <1>3, TypeCorrect, PTL DEF Spec
=============================================================================
