--------------------------- MODULE TaskStoreProofs ---------------------------
(***************************************************************************)
(* Theorems about the task table for any set of tasks and worker ids and   *)
(* any callers (StoreSpec): its types, that its tables agree, and that the *)
(* log explains the rows.                                                  *)
(***************************************************************************)
EXTENDS TaskStore, FiniteSetTheorems, TLAPS

(* Every operation of the store keeps the columns in their types.          *)
LEMMA StoreTypeStep ==
  ASSUME StoreTypeOK, [StoreNext]_storeVars
  PROVE  StoreTypeOK'
<1> USE StoreAssumption DEF StoreTypeOK, TaskStatus, Expired
<1>1. CASE Tick
  <2>1. delay' \in [Tasks -> Nat]
    BY <1>1 DEF Tick
  <2>2. lockAge' \in [Tasks -> 0..Expired]
    BY <1>1 DEF Tick
  <2>3. QED
    BY <1>1, <2>1, <2>2 DEF Tick
<1>2. ASSUME NEW S \in SUBSET Tasks, RequeueStaleRunning(S)
      PROVE  StoreTypeOK'
  BY <1>2 DEF RequeueStaleRunning, Reaped
<1>3. ASSUME NEW t \in Tasks, Cancel(t)
      PROVE  StoreTypeOK'
  BY SMTT(30), <1>3 DEF Cancel, SetStatus
<1>4. ASSUME NEW t \in Tasks, RetryDead(t)
      PROVE  StoreTypeOK'
  BY <1>4 DEF RetryDead, SetStatus, Unlock
<1>5. ASSUME NEW t \in Tasks, NEW d \in 0..MaxDelay, Create(t, d)
      PROVE  StoreTypeOK'
  BY <1>5 DEF Create
<1>6. ASSUME NEW t \in Tasks, NEW id \in WorkerIDs, Claim(t, id)
      PROVE  StoreTypeOK'
  BY SMTT(30), <1>6 DEF Claim, SetStatus
<1>7. ASSUME NEW t \in Tasks, NEW id \in WorkerIDs, Heartbeat(t, id)
      PROVE  StoreTypeOK'
  BY <1>7 DEF Heartbeat
<1>8. ASSUME NEW t \in Tasks, NEW id \in WorkerIDs, MarkCompleted(t, id)
      PROVE  StoreTypeOK'
  BY <1>8 DEF MarkCompleted, SetStatus, Unlock
<1>9. ASSUME NEW t \in Tasks, NEW id \in WorkerIDs, MarkDead(t, id)
      PROVE  StoreTypeOK'
  BY SMTT(30), <1>9 DEF MarkDead, SetStatus, Unlock
<1>10. ASSUME NEW t \in Tasks, NEW id \in WorkerIDs, NEW d \in Nat, MarkPending(t, id, d)
      PROVE  StoreTypeOK'
  BY SMTT(30), <1>10 DEF MarkPending, SetStatus, Unlock
<1>11. CASE UNCHANGED storeVars
  BY <1>11 DEF storeVars
<1>12. QED
  BY Zenon, <1>1, <1>2, <1>3, <1>4, <1>5, <1>6, <1>7, <1>8, <1>9, <1>10, <1>11 DEF StoreNext

(* Every operation keeps the columns and the two tables well-typed.        *)
THEOREM StoreTypeCorrect == StoreSpec => []StoreTypeOK
<1>1. StoreInit => StoreTypeOK
  BY StoreAssumption DEF StoreInit, StoreTypeOK, Expired
<1>2. QED
  BY <1>1, StoreTypeStep, PTL DEF StoreSpec

(* Every operation of the store keeps lock, status and dead_letters in     *)
(* agreement.                                                              *)
LEMMA TablesAgreeStep ==
  ASSUME StoreTypeOK, TablesAgree, [StoreNext]_storeVars
  PROVE  TablesAgree'
<1> USE StoreAssumption DEF StoreTypeOK, TablesAgree, Expired
<1>1. CASE Tick
  BY <1>1 DEF Tick
<1>2. ASSUME NEW S \in SUBSET Tasks, RequeueStaleRunning(S)
      PROVE  TablesAgree'
  BY <1>2 DEF RequeueStaleRunning, Reaped, Stale
<1>3. ASSUME NEW t \in Tasks, Cancel(t)
      PROVE  TablesAgree'
  BY SMTT(30), <1>3 DEF Cancel, SetStatus
<1>4. ASSUME NEW t \in Tasks, RetryDead(t)
      PROVE  TablesAgree'
  BY SMTT(30), <1>4 DEF RetryDead, SetStatus, Unlock
<1>5. ASSUME NEW t \in Tasks, NEW d \in 0..MaxDelay, Create(t, d)
      PROVE  TablesAgree'
  BY SMTT(30), <1>5 DEF Create
<1>6. ASSUME NEW t \in Tasks, NEW id \in WorkerIDs, Claim(t, id)
      PROVE  TablesAgree'
  BY SMTT(30), <1>6 DEF Claim, SetStatus, Claimable
<1>7. ASSUME NEW t \in Tasks, NEW id \in WorkerIDs, Heartbeat(t, id)
      PROVE  TablesAgree'
  BY <1>7 DEF Heartbeat
<1>8. ASSUME NEW t \in Tasks, NEW id \in WorkerIDs, MarkCompleted(t, id)
      PROVE  TablesAgree'
  BY SMTT(30), <1>8 DEF MarkCompleted, SetStatus, Unlock, Owns
<1>9. ASSUME NEW t \in Tasks, NEW id \in WorkerIDs, MarkDead(t, id)
      PROVE  TablesAgree'
  <2>1. /\ status' = [status EXCEPT ![t] = "DEAD"] /\ lockedBy' = [lockedBy EXCEPT ![t] = NoWorker]
        /\ deadLetters' = [deadLetters EXCEPT ![t] = deadLetters[t] + 1] /\ status[t] = "RUNNING"
    BY <1>9 DEF MarkDead, SetStatus, Unlock, Owns
  <2>2. QED
    BY SMTT(30), <2>1
<1>10. ASSUME NEW t \in Tasks, NEW id \in WorkerIDs, NEW d \in Nat, MarkPending(t, id, d)
      PROVE  TablesAgree'
  BY SMTT(30), <1>10 DEF MarkPending, SetStatus, Unlock, Owns
<1>11. CASE UNCHANGED storeVars
  BY <1>11 DEF storeVars
<1>12. QED
  BY Zenon, <1>1, <1>2, <1>3, <1>4, <1>5, <1>6, <1>7, <1>8, <1>9, <1>10, <1>11 DEF StoreNext

(* Locks and dead letters agree with the status of every row, for every    *)
(* caller: MarkDead and the reaper insert one dead letter, RetryDead       *)
(* removes it, and every way out of RUNNING clears the lock.               *)
THEOREM TablesAlwaysAgree == StoreSpec => []TablesAgree
<1>1. StoreInit => TablesAgree
  BY DEF StoreInit, TablesAgree
<1>2. QED
  BY <1>1, TablesAgreeStep, StoreTypeCorrect, PTL DEF StoreSpec

-----------------------------------------------------------------------------
(* The audit trail.                                                        *)

(* The entry s turns the last entry of the log, DEAD, into a revival.      *)
Revives(log, s) == log # <<>> /\ log[Len(log)] = "DEAD" /\ s = "PENDING"

(* One more entry adds at most its own position to the revivals, and       *)
(* starts, continues or forgets the count of attempts.                     *)
LEMMA AppendedLog ==
  ASSUME NEW log \in Seq(TaskStatus), NEW s \in TaskStatus
  PROVE  /\ Revived(Append(log, s)) =
              IF Revives(log, s) THEN Revived(log) \cup {Len(log) + 1} ELSE Revived(log)
         /\ Attempted(Append(log, s)) =
              IF Revives(log, s) THEN {}
              ELSE IF s = "RUNNING" THEN Attempted(log) \cup {Len(log) + 1} ELSE Attempted(log)
<1> DEFINE new == Append(log, s)
<1>1. /\ Len(log) \in Nat /\ Len(new) = Len(log) + 1 /\ new[Len(log) + 1] = s
      /\ \A i \in 1..Len(log) : new[i] = log[i]
  OBVIOUS
<1>2. log = <<>> <=> Len(log) = 0
  OBVIOUS
<1>3. Revived(new) = IF Revives(log, s) THEN Revived(log) \cup {Len(log) + 1} ELSE Revived(log)
  BY <1>1, <1>2 DEF Revived, Revives
<1>4. \A j \in Revived(log) : j \in 1..Len(log)
  BY <1>1 DEF Revived
<1>5. CASE Revives(log, s)
  <2>1. Len(log) + 1 \in Revived(new)
    BY <1>3, <1>5
  <2>2. ASSUME NEW i \in Attempted(new)
        PROVE  FALSE
    <3>1. i \in 1..Len(log) + 1 /\ Len(log) + 1 < i
      BY <1>1, <2>1 DEF Attempted
    <3>2. QED
      BY <1>1, <3>1
  <2>3. QED
    BY Zenon, <1>5, <2>2
<1>6. CASE ~Revives(log, s)
  BY <1>1, <1>3, <1>4, <1>6 DEF Attempted
<1>7. QED
  BY <1>3, <1>5, <1>6

(* The positions counted are finitely many.                                *)
LEMMA LogCountsFinite ==
  ASSUME NEW log \in Seq(TaskStatus)
  PROVE  /\ IsFiniteSet(Revived(log)) /\ IsFiniteSet(Attempted(log))
         /\ Cardinality(Revived(log)) \in Nat /\ Cardinality(Attempted(log)) \in Nat
         /\ Len(log) + 1 \notin Revived(log) /\ Len(log) + 1 \notin Attempted(log)
<1>1. Len(log) \in Nat
  OBVIOUS
<1>2. IsFiniteSet(1..Len(log))
  BY <1>1, FS_Interval
<1>3. Revived(log) \subseteq 1..Len(log) /\ Attempted(log) \subseteq 1..Len(log)
  BY <1>1 DEF Revived, Attempted
<1>4. IsFiniteSet(Revived(log)) /\ IsFiniteSet(Attempted(log))
  BY <1>2, <1>3, FS_Subset
<1>5. QED
  BY <1>1, <1>3, <1>4, FS_CardinalityType

(* Reading one more entry back.                                            *)
LEMMA ReplayedEntry ==
  ASSUME NEW log \in Seq(TaskStatus), NEW s \in TaskStatus
  PROVE  Replay(Append(log, s)) =
           [status |-> s,
            attempts |-> IF Revives(log, s) THEN 0
                         ELSE IF s = "RUNNING" THEN Replay(log).attempts + 1
                         ELSE Replay(log).attempts]
<1>1. Append(log, s) # <<>> /\ Append(log, s)[Len(Append(log, s))] = s
  OBVIOUS
<1>2. CASE Revives(log, s)
  BY Zenon, <1>1, <1>2, AppendedLog, FS_EmptySet DEF Replay
<1>3. CASE ~Revives(log, s) /\ s = "RUNNING"
  <2>1. Attempted(Append(log, s)) = Attempted(log) \cup {Len(log) + 1}
    BY <1>3, AppendedLog
  <2>2. Cardinality(Attempted(Append(log, s))) = Cardinality(Attempted(log)) + 1
    BY Zenon, <2>1, LogCountsFinite, FS_AddElement
  <2>3. QED
    BY <1>1, <1>3, <2>2 DEF Replay
<1>4. CASE ~Revives(log, s) /\ s # "RUNNING"
  BY <1>1, <1>4, AppendedLog DEF Replay
<1>5. QED
  BY <1>2, <1>3, <1>4

(* Explained row by row; before its insert a task has no log.              *)
Explained(t) ==
  IF status[t] = "ABSENT" THEN logs[t] = <<>> /\ attempts[t] = 0
  ELSE Replay(logs[t]) = [status |-> status[t], attempts |-> attempts[t]]

LogInv == \A t \in Tasks : Explained(t)

(* A change of status that comes with its log entry, and with the attempts *)
(* that entry stands for, is explained.                                    *)
LEMMA EntryExplains ==
  ASSUME StoreTypeOK, NEW t \in Tasks, Explained(t), status[t] # "ABSENT",
         NEW s \in TaskStatus,
         status'[t] = s, logs'[t] = Append(logs[t], s),
         attempts'[t] = IF status[t] = "DEAD" /\ s = "PENDING" THEN 0
                        ELSE IF s = "RUNNING" THEN attempts[t] + 1 ELSE attempts[t]
  PROVE  Explained(t)'
<1>1. logs[t] \in Seq(TaskStatus) /\ attempts[t] \in Nat
  BY DEF StoreTypeOK
<1>2. Replay(logs[t]) = [status |-> status[t], attempts |-> attempts[t]]
  BY DEF Explained
<1>3. Revives(logs[t], s) <=> status[t] = "DEAD" /\ s = "PENDING"
  BY <1>2 DEF Replay, Revives
<1>4. Replay(logs'[t]) = [status |-> s, attempts |-> attempts'[t]]
  BY <1>1, <1>2, <1>3, ReplayedEntry
<1>5. QED
  BY <1>4 DEF Explained, TaskStatus

(* A row that is left alone stays explained.                               *)
LEMMA RowKept ==
  ASSUME NEW t \in Tasks, Explained(t),
         status'[t] = status[t], logs'[t] = logs[t], attempts'[t] = attempts[t]
  PROVE  Explained(t)'
BY DEF Explained

(* Every operation of the store writes the log entry that explains it.     *)
LEMMA LogStep ==
  ASSUME StoreTypeOK, LogInv, [StoreNext]_storeVars
  PROVE  LogInv'
<1> SUFFICES ASSUME NEW t \in Tasks
             PROVE  Explained(t)'
  BY DEF LogInv
<1>0. Explained(t) /\ (StoreTypeOK => attempts[t] \in Nat)
  BY DEF LogInv, StoreTypeOK
<1>1. CASE Tick \/ UNCHANGED storeVars
  BY <1>0, <1>1, RowKept DEF Tick, storeVars
<1>2. ASSUME NEW S \in SUBSET Tasks, RequeueStaleRunning(S)
      PROVE  Explained(t)'
  <2>1. CASE t \in S
    <3>1. /\ status[t] = "RUNNING" /\ Reaped(t) \in {"DEAD", "PENDING"}
          /\ status'[t] = Reaped(t) /\ logs'[t] = Append(logs[t], Reaped(t))
          /\ attempts'[t] = attempts[t]
      BY <1>2, <2>1 DEF RequeueStaleRunning, Stale, Reaped
    <3>2. QED
      BY <1>0, <3>1, EntryExplains DEF TaskStatus
  <2>2. CASE t \notin S
    BY <1>0, <1>2, <2>2, RowKept DEF RequeueStaleRunning
  <2>3. QED
    BY <2>1, <2>2
<1>3. ASSUME NEW u \in Tasks, NEW d \in 0..MaxDelay, Create(u, d)
      PROVE  Explained(t)'
  <2>1. CASE t = u
    <3>1. /\ status[t] = "ABSENT" /\ status'[t] = "PENDING" /\ logs'[t] = <<>> /\ attempts'[t] = 0
      BY <1>0, <1>3, <2>1 DEF Create, Explained, StoreTypeOK
    <3>2. Attempted(<<>>) = {}
      BY DEF Attempted
    <3>3. QED
      BY Zenon, <3>1, <3>2, FS_EmptySet DEF Explained, Replay
  <2>2. CASE t # u
    BY <1>0, <1>3, <2>2, RowKept DEF Create, StoreTypeOK
  <2>3. QED
    BY <2>1, <2>2
<1>4. ASSUME NEW u \in Tasks, NEW s \in TaskStatus, SetStatus(u, s), status[u] # "ABSENT",
             attempts' = [attempts EXCEPT ![u] =
                            IF status[u] = "DEAD" /\ s = "PENDING" THEN 0
                            ELSE IF s = "RUNNING" THEN attempts[u] + 1 ELSE attempts[u]]
      PROVE  Explained(t)'
  <2>1. CASE t = u
    BY Zenon, <1>0, <1>4, <2>1, EntryExplains DEF SetStatus, StoreTypeOK
  <2>2. CASE t # u
    BY <1>0, <1>4, <2>2, RowKept DEF SetStatus, StoreTypeOK
  <2>3. QED
    BY <2>1, <2>2
<1>5. ASSUME NEW u \in Tasks, Cancel(u) \/ RetryDead(u)
      PROVE  Explained(t)'
  BY <1>4, <1>5 DEF Cancel, RetryDead, TaskStatus, StoreTypeOK
<1>6. ASSUME NEW u \in Tasks, NEW id \in WorkerIDs,
             \/ Claim(u, id) \/ MarkCompleted(u, id) \/ MarkDead(u, id)
             \/ \E d \in Nat : MarkPending(u, id, d)
      PROVE  Explained(t)'
  BY <1>4, <1>6
  DEF Claim, Claimable, MarkCompleted, MarkDead, MarkPending, Owns, TaskStatus, StoreTypeOK
<1>7. ASSUME NEW u \in Tasks, NEW id \in WorkerIDs, Heartbeat(u, id)
      PROVE  Explained(t)'
  BY <1>0, <1>7, RowKept DEF Heartbeat
<1>8. QED
  BY <1>1, <1>2, <1>3, <1>5, <1>6, <1>7 DEF StoreNext

(* Whoever calls, the log of a task replays to its row: no operation       *)
(* changes a status or the attempts without the entry that explains it.    *)
THEOREM LogsAlwaysExplain == StoreSpec => []LogExplainsRow
<1>1. StoreInit => LogInv
  BY DEF StoreInit, LogInv, Explained
<1>2. LogInv => LogExplainsRow
  BY DEF LogInv, Explained, LogExplainsRow
<1>3. QED
  BY <1>1, <1>2, LogStep, StoreTypeCorrect, PTL DEF StoreSpec

-----------------------------------------------------------------------------
(* The trail as a path.                                                    *)

(* The statuses that may follow each other in the life of a task.          *)
Follows ==
  {<<"PENDING", "RUNNING">>, <<"PENDING", "CANCELED">>, <<"RUNNING", "PENDING">>,
   <<"RUNNING", "COMPLETED">>, <<"RUNNING", "DEAD">>, <<"DEAD", "PENDING">>}

(* The status before entry i: a task starts PENDING, which is not logged.  *)
Before(log, i) == IF i = 1 THEN "PENDING" ELSE log[i - 1]
Path(log) == \A i \in 1..Len(log) : <<Before(log, i), log[i]>> \in Follows

(* The log of a task never skips a status and never tells of a move no     *)
(* operation makes: what follows a claim is its end, nothing follows       *)
(* COMPLETED or CANCELED, and what follows DEAD is a retry by hand.        *)
LogsArePaths == \A t \in Tasks : Path(logs[t])

(* The log is only written at its end, with the status the row gets.       *)
LogsAppendOnly ==
  [][\A t \in Tasks : logs'[t] = logs[t] \/ logs'[t] = Append(logs[t], status'[t])]_storeVars

(* An entry that may follow the last one continues the path.               *)
LEMMA PathGrows ==
  ASSUME NEW log \in Seq(TaskStatus), NEW s \in TaskStatus, Path(log),
         <<IF log = <<>> THEN "PENDING" ELSE log[Len(log)], s>> \in Follows
  PROVE  Path(Append(log, s))
<1>1. /\ Len(log) \in Nat /\ Len(Append(log, s)) = Len(log) + 1 /\ Append(log, s)[Len(log) + 1] = s
      /\ \A i \in 1..Len(log) : Append(log, s)[i] = log[i]
      /\ log = <<>> <=> Len(log) = 0
  OBVIOUS
<1>2. ASSUME NEW i \in 1..Len(log)
      PROVE  <<Before(Append(log, s), i), Append(log, s)[i]>> \in Follows
  <2>1. Before(Append(log, s), i) = Before(log, i)
    BY <1>1 DEF Before
  <2>2. QED
    BY Zenon, <1>1, <2>1 DEF Path
<1>3. Before(Append(log, s), Len(log) + 1) = IF log = <<>> THEN "PENDING" ELSE log[Len(log)]
  BY <1>1 DEF Before
<1>4. \A i \in 1..Len(log) + 1 : i \in 1..Len(log) \/ i = Len(log) + 1
  BY <1>1
<1>5. QED
  BY Zenon, <1>1, <1>2, <1>3, <1>4 DEF Path

(* What a step does to the log of one task: nothing, or one entry, with    *)
(* the status the row gets, that may follow the status it has.             *)
Logged(t) ==
  \/ logs'[t] = logs[t]
  \/ /\ status[t] # "ABSENT" /\ status'[t] \in TaskStatus /\ logs'[t] = Append(logs[t], status'[t])
     /\ <<status[t], status'[t]>> \in Follows

(* Each operation logs the move it makes.                                  *)
LEMMA LoggedStep ==
  ASSUME StoreTypeOK, [StoreNext]_storeVars, NEW t \in Tasks
  PROVE  Logged(t)
<1>0. DOMAIN status = Tasks /\ DOMAIN logs = Tasks
  BY Zenon DEF StoreTypeOK
<1>1. CASE UNCHANGED logs
  BY Zenon, <1>1 DEF Logged
<1>2. ASSUME NEW S \in SUBSET Tasks, RequeueStaleRunning(S)
      PROVE  Logged(t)
  <2>1. CASE t \in S
    <3>1. /\ status[t] = "RUNNING" /\ Reaped(t) \in {"DEAD", "PENDING"}
          /\ status'[t] = Reaped(t) /\ logs'[t] = Append(logs[t], Reaped(t))
      BY Zenon, <1>2, <2>1 DEF RequeueStaleRunning, Stale, Reaped
    <3>2. QED
      BY <3>1 DEF Logged, Follows, TaskStatus
  <2>2. CASE t \notin S
    BY Zenon, <1>2, <2>2 DEF RequeueStaleRunning, Logged
  <2>3. QED
    BY Zenon, <2>1, <2>2
<1>3. ASSUME NEW u \in Tasks, NEW s \in TaskStatus, SetStatus(u, s), <<status[u], s>> \in Follows
      PROVE  Logged(t)
  <2>1. CASE t = u
    <3>1. status'[t] = s /\ logs'[t] = Append(logs[t], s)
      BY Zenon, <1>0, <1>3, <2>1 DEF SetStatus
    <3>2. status[t] # "ABSENT"
      BY <1>3, <2>1 DEF Follows
    <3>3. QED
      BY Zenon, <1>3, <2>1, <3>1, <3>2 DEF Logged
  <2>2. CASE t # u
    BY Zenon, <1>0, <1>3, <2>2 DEF SetStatus, Logged
  <2>3. QED
    BY Zenon, <2>1, <2>2
<1>4. /\ <<"PENDING", "CANCELED">> \in Follows /\ <<"DEAD", "PENDING">> \in Follows
      /\ <<"PENDING", "RUNNING">> \in Follows /\ <<"RUNNING", "COMPLETED">> \in Follows
      /\ <<"RUNNING", "DEAD">> \in Follows /\ <<"RUNNING", "PENDING">> \in Follows
      /\ "CANCELED" \in TaskStatus /\ "PENDING" \in TaskStatus /\ "RUNNING" \in TaskStatus
      /\ "COMPLETED" \in TaskStatus /\ "DEAD" \in TaskStatus
  BY Zenon DEF Follows, TaskStatus
<1>5. ASSUME NEW u \in Tasks, Cancel(u) \/ RetryDead(u)
      PROVE  Logged(t)
  BY Zenon, <1>3, <1>4, <1>5 DEF Cancel, RetryDead
<1>6. ASSUME NEW u \in Tasks, NEW id \in WorkerIDs,
             \/ Claim(u, id) \/ MarkCompleted(u, id) \/ MarkDead(u, id)
             \/ \E d \in Nat : MarkPending(u, id, d)
      PROVE  Logged(t)
  BY Zenon, <1>3, <1>4, <1>6 DEF Claim, Claimable, MarkCompleted, MarkDead, MarkPending, Owns
<1>7. ASSUME \/ Tick \/ UNCHANGED storeVars
             \/ \E u \in Tasks : (\E d \in 0..MaxDelay : Create(u, d)) \/ \E id \in WorkerIDs : Heartbeat(u, id)
      PROVE  UNCHANGED logs
  BY Zenon, <1>7 DEF Tick, storeVars, Create, Heartbeat
<1>8. QED
  BY Zenon, <1>1, <1>2, <1>5, <1>6, <1>7 DEF StoreNext

(* Whoever calls, the log of every task is a path of the life of a task.   *)
THEOREM TrailsArePaths == StoreSpec => []LogsArePaths
<1>1. StoreInit => LogInv /\ LogsArePaths
  BY DEF StoreInit, LogInv, Explained, LogsArePaths, Path
<1>2. ASSUME StoreTypeOK, LogInv, LogsArePaths, [StoreNext]_storeVars, NEW t \in Tasks
      PROVE  Path(logs'[t])
  <2>1. Path(logs[t]) /\ logs[t] \in Seq(TaskStatus)
    BY Zenon, <1>2 DEF LogsArePaths, StoreTypeOK
  <2>2. status[t] # "ABSENT" => status[t] = IF logs[t] = <<>> THEN "PENDING" ELSE logs[t][Len(logs[t])]
    BY <1>2 DEF LogInv, Explained, Replay
  <2>3. QED
    BY Zenon, <1>2, <2>1, <2>2, LoggedStep, PathGrows DEF Logged
<1>3. StoreTypeOK /\ LogInv /\ LogsArePaths /\ [StoreNext]_storeVars => LogsArePaths'
  BY Zenon, <1>2 DEF LogsArePaths
<1>4. QED
  BY <1>1, <1>3, LogStep, StoreTypeCorrect, PTL DEF StoreSpec

(* No operation rewrites the log of a task, or logs another status than    *)
(* the one it gives the row.                                               *)
THEOREM TrailsOnlyGrow == StoreSpec => LogsAppendOnly
<1>1. StoreTypeOK /\ [StoreNext]_storeVars =>
        [\A t \in Tasks : logs'[t] = logs[t] \/ logs'[t] = Append(logs[t], status'[t])]_storeVars
  BY Zenon, LoggedStep DEF Logged
<1>2. QED
  BY <1>1, StoreTypeCorrect, PTL DEF StoreSpec, LogsAppendOnly
=============================================================================
