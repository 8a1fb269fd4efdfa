------------------------------ MODULE Retention ------------------------------
(***************************************************************************)
(* The playground's retention sweep (DeleteOlderThan in                    *)
(* internal/playground/store.go) beside the transactions of the task store *)
(* that move the same rows.                                                *)
(*                                                                         *)
(* Transactions are READ COMMITTED and have several statements.  Each      *)
(* statement of the sweep selects again the old tasks that are not         *)
(* RUNNING; a DELETE waits for a row another transaction has locked and    *)
(* then looks at its condition again.  Foreign keys do not cascade.        *)
(* PostgreSQL ends a cycle of waiting transactions by aborting one.        *)
(***************************************************************************)
EXTENDS Integers

CONSTANTS
  Old,       \* the tasks created before the cutoff
  MaxMoves,  \* bound: transactions of the store on one task
  MaxSweeps  \* bound: sweeps

ASSUME RetentionAssumption == MaxMoves \in Nat /\ MaxSweeps \in Nat

VARIABLES
  status,   \* committed status of each task, "gone" once deleted
  letter,   \* it has a row in dead_letters
  logs,     \* its rows in task_logs
  written,  \* the log rows ever written for it
  writer,   \* the status an open transaction of the store gives it, or "none"
  settled,  \* ... and that transaction has dealt with the dead letter
  moves,    \* transactions of the store so far, on each task
  sweeps,   \* sweeps so far
  stage,    \* the sweep: "idle", or the statement it is at
  todo,     \* the rows its statement has selected and not reached yet
  sweptLetters, sweptLogs, sweptTasks   \* what it has deleted, uncommitted

rowVars == <<status, letter, logs, written>>
writerVars == <<writer, settled, moves>>
sweepVars == <<sweeps, stage, todo, sweptLetters, sweptLogs, sweptTasks>>
retVars == <<rowVars, writerVars, sweepVars>>

Statuses == {"PENDING", "RUNNING", "COMPLETED", "DEAD", "CANCELED"}

RetTypeOK ==
  /\ status \in [Old -> Statuses \cup {"gone"}]
  /\ letter \in [Old -> BOOLEAN]
  /\ logs \in [Old -> Nat] /\ written \in [Old -> Nat]
  /\ writer \in [Old -> Statuses \cup {"none"}] /\ settled \in [Old -> BOOLEAN]
  /\ moves \in [Old -> 0 .. MaxMoves] /\ sweeps \in 0 .. MaxSweeps
  /\ stage \in {"idle", "letters", "logs", "select", "tasks", "commit"}
  /\ todo \subseteq Old /\ sweptLetters \subseteq Old /\ sweptTasks \subseteq Old
  /\ sweptLogs \in [Old -> Nat]

Nothing == [t \in Old |-> 0]

(* The tasks as Create left them.                                          *)
RetInit ==
  /\ status = [t \in Old |-> "PENDING"] /\ letter = [t \in Old |-> FALSE]
  /\ logs = Nothing /\ written = Nothing
  /\ writer = [t \in Old |-> "none"] /\ settled = [t \in Old |-> FALSE]
  /\ moves = Nothing /\ sweeps = 0
  /\ stage = "idle" /\ todo = {}
  /\ sweptLetters = {} /\ sweptLogs = Nothing /\ sweptTasks = {}

-----------------------------------------------------------------------------
(* Claim, Cancel, MarkPending, MarkCompleted, MarkDead, the reaper and     *)
(* RetryDead.                                                              *)
Moves == {<<"PENDING", "RUNNING">>, <<"PENDING", "CANCELED">>, <<"RUNNING", "PENDING">>,
          <<"RUNNING", "COMPLETED">>, <<"RUNNING", "DEAD">>, <<"DEAD", "PENDING">>}

(* The UPDATE that locks the row.                                          *)
Update(t, s) ==
  /\ <<status[t], s>> \in Moves
  /\ writer[t] = "none" /\ t \notin sweptTasks
  /\ moves[t] < MaxMoves /\ moves' = [moves EXCEPT ![t] = @ + 1]
  /\ writer' = [writer EXCEPT ![t] = s]
  /\ settled' = [settled EXCEPT ![t] = FALSE]
  /\ UNCHANGED <<rowVars, sweepVars>>

(* RetryDead's DELETE waits for a sweep that deleted the letter.           *)
LetterFree(t) == status[t] = "DEAD" => t \notin sweptLetters

(* MarkDead inserts a letter, RetryDead deletes it, the others do neither. *)
SettleLetter(t) ==
  /\ writer[t] # "none" /\ ~settled[t]
  /\ LetterFree(t)
  /\ settled' = [settled EXCEPT ![t] = TRUE]
  /\ UNCHANGED <<rowVars, writer, moves, sweepVars>>

(* Mutant: RetryDead leaves the letter behind.                             *)
LetterAfterKept(t) == writer[t] = "DEAD" \/ letter[t]

LetterAfter(t) == writer[t] = "DEAD" \/ (status[t] # "DEAD" /\ letter[t])

(* insertLog and the commit.  A letter that was deleted is none the sweep  *)
(* will reach, whether or not there is a new one by then.                  *)
CommitWriter(t) ==
  /\ writer[t] # "none" /\ settled[t]
  /\ status' = [status EXCEPT ![t] = writer[t]]
  /\ letter' = [letter EXCEPT ![t] = LetterAfter(t)]
  /\ logs' = [logs EXCEPT ![t] = @ + 1] /\ written' = [written EXCEPT ![t] = @ + 1]
  /\ writer' = [writer EXCEPT ![t] = "none"]
  /\ todo' = IF stage = "letters" /\ status[t] = "DEAD" THEN todo \ {t} ELSE todo
  /\ UNCHANGED <<settled, moves, sweeps, stage, sweptLetters, sweptLogs, sweptTasks>>

(* A lost connection, a canceled context or the deadlock detector.         *)
AbortWriter(t) ==
  /\ writer[t] # "none"
  /\ writer' = [writer EXCEPT ![t] = "none"]
  /\ UNCHANGED <<rowVars, settled, moves, sweepVars>>

-----------------------------------------------------------------------------
(* Mutant: RUNNING tasks are not excluded.                                 *)
SweepableAny(t) == status[t] # "gone"

(* created_at < cutoff AND status <> 'RUNNING'                             *)
Sweepable(t) == status[t] \notin {"RUNNING", "gone"}

(* ... as a statement sees it when it starts.                              *)
OldTasks == {t \in Old : Sweepable(t)}

(* DELETE FROM dead_letters: the rows there are when it starts, ...        *)
SweepBegin ==
  /\ stage = "idle" /\ stage' = "letters"
  /\ sweeps < MaxSweeps /\ sweeps' = sweeps + 1
  /\ todo' = {t \in OldTasks : letter[t]}
  /\ UNCHANGED <<rowVars, writerVars, sweptLetters, sweptLogs, sweptTasks>>

(* ... each that no retry has deleted, or is about to.                     *)
SweepLetter(t) ==
  /\ stage = "letters" /\ t \in todo
  /\ ~(writer[t] # "none" /\ settled[t] /\ status[t] = "DEAD")
  /\ todo' = todo \ {t}
  /\ sweptLetters' = sweptLetters \cup {t}
  /\ UNCHANGED <<rowVars, writerVars, sweeps, stage, sweptLogs, sweptTasks>>

LettersDone ==
  /\ stage = "letters" /\ todo = {} /\ stage' = "logs"
  /\ UNCHANGED <<rowVars, writerVars, sweeps, todo, sweptLetters, sweptLogs, sweptTasks>>

(* Mutant: the logs of RUNNING tasks are swept as well.                    *)
SweepLogsOfAll ==
  /\ stage = "logs" /\ stage' = "select"
  /\ sweptLogs' = logs
  /\ UNCHANGED <<rowVars, writerVars, sweeps, todo, sweptLetters, sweptTasks>>

(* DELETE FROM task_logs: nobody else updates or deletes log rows.         *)
SweepLogs ==
  /\ stage = "logs" /\ stage' = "select"
  /\ sweptLogs' = [t \in Old |-> IF t \in OldTasks THEN logs[t] ELSE 0]
  /\ UNCHANGED <<rowVars, writerVars, sweeps, todo, sweptLetters, sweptTasks>>

(* DELETE FROM tasks: the rows there are when it starts, ...               *)
SweepSelect ==
  /\ stage = "select" /\ stage' = "tasks"
  /\ todo' = OldTasks
  /\ UNCHANGED <<rowVars, writerVars, sweeps, sweptLetters, sweptLogs, sweptTasks>>

(* ... each once it is not locked, if its condition still holds.           *)
SweepTask(t) ==
  /\ stage = "tasks" /\ t \in todo
  /\ writer[t] = "none"
  /\ todo' = todo \ {t}
  /\ sweptTasks' = IF Sweepable(t) THEN sweptTasks \cup {t} ELSE sweptTasks
  /\ UNCHANGED <<rowVars, writerVars, sweeps, stage, sweptLetters, sweptLogs>>

(* Mutant: dead_letters.task_id is no foreign key.                         *)
KeysHoldForLogs == \A t \in sweptTasks : sweptLogs[t] = logs[t]

(* Nothing refers to the deleted tasks any more.                           *)
KeysHold ==
  \A t \in sweptTasks : sweptLogs[t] = logs[t] /\ (letter[t] => t \in sweptLetters)

TasksDone ==
  /\ stage = "tasks" /\ todo = {} /\ KeysHold
  /\ stage' = "commit"
  /\ UNCHANGED <<rowVars, writerVars, sweeps, todo, sweptLetters, sweptLogs, sweptTasks>>

Closed ==
  /\ stage' = "idle" /\ todo' = {}
  /\ sweptLetters' = {} /\ sweptLogs' = Nothing /\ sweptTasks' = {}

SweepCommit ==
  /\ stage = "commit"
  /\ status' = [t \in Old |-> IF t \in sweptTasks THEN "gone" ELSE status[t]]
  /\ letter' = [t \in Old |-> letter[t] /\ t \notin sweptLetters]
  /\ logs' = [t \in Old |-> logs[t] - sweptLogs[t]]
  /\ Closed
  /\ UNCHANGED <<written, writerVars, sweeps>>

(* Mutant: the failed transaction is not rolled back.                      *)
ForeignKeyLeaksTx ==
  /\ stage = "tasks" /\ todo = {} /\ ~KeysHold
  /\ stage' = "failed"
  /\ UNCHANGED <<rowVars, writerVars, sweeps, todo, sweptLetters, sweptLogs, sweptTasks>>

(* A foreign key is violated: the deferred Rollback undoes the sweep.      *)
ForeignKeyFails ==
  /\ stage = "tasks" /\ todo = {} /\ ~KeysHold
  /\ Closed
  /\ UNCHANGED <<rowVars, writerVars, sweeps>>

(* The timeout of cleanup, a lost connection: any time before the commit.  *)
SweepFails ==
  /\ stage # "idle"
  /\ Closed
  /\ UNCHANGED <<rowVars, writerVars, sweeps>>

(* The sweep waits for the task a retry has locked, and the retry for the  *)
(* letter the sweep has deleted.                                           *)
Cycle(t) ==
  /\ stage = "tasks" /\ t \in todo
  /\ writer[t] # "none" /\ ~settled[t] /\ ~LetterFree(t)

DetectDeadlock(t) ==
  /\ Cycle(t)
  /\ AbortWriter(t) \/ SweepFails

Write(t) == SettleLetter(t) \/ CommitWriter(t)

Sweep ==
  \/ LettersDone \/ SweepLogs \/ SweepSelect \/ TasksDone \/ ForeignKeyFails \/ SweepCommit
  \/ \E t \in Old : SweepLetter(t) \/ SweepTask(t)

RetNext ==
  \/ SweepBegin \/ Sweep \/ SweepFails
  \/ \E t \in Old : \/ Write(t) \/ AbortWriter(t) \/ DetectDeadlock(t)
                    \/ \E s \in Statuses : Update(t, s)

RetSpec == RetInit /\ [][RetNext]_retVars

(* A transaction that can go on with its next statement does, and the      *)
(* deadlock detector runs.                                                 *)
RetFairSpec ==
  /\ RetSpec
  /\ WF_retVars(Sweep \/ \E t \in Old : Write(t) \/ DetectDeadlock(t))

-----------------------------------------------------------------------------
(* The dead_letters table and the tasks table agree through sweeps that    *)
(* commit, fail or race a retry or a death: a task that is there has a     *)
(* letter exactly when it is DEAD, and a task that is gone has neither     *)
(* letter nor log rows.                                                    *)
TablesStayJoined ==
  \A t \in Old : /\ letter[t] <=> status[t] = "DEAD"
                 /\ status[t] = "gone" => logs[t] = 0

(* The sweep never takes a task from under a worker: a deleted task was    *)
(* not RUNNING, and no transaction was about to change it.                 *)
OnlyIdleDeleted ==
  [][\A t \in Old : status[t] # "gone" /\ status'[t] = "gone" =>
                      status[t] # "RUNNING" /\ writer[t] = "none"]_retVars

(* A sweep may cut the log of a task that is claimed between its           *)
(* statements and survives, but never all of it: the row that explains the *)
(* present status stays.                                                   *)
LatestLogKept ==
  \A t \in Old : status[t] # "gone" /\ written[t] > 0 => logs[t] > 0

Archive == INSTANCE TaskArchive

(* Although a sweep selects its rows anew in each statement, to a reader   *)
(* of tasks and dead_letters the sweep and each transaction of the store   *)
(* happen at one moment: a sweep takes idle tasks with their letters and   *)
(* touches no other task and no other letter.  Of task_logs that is not    *)
(* true (LatestLogKept): no serial sweep cuts the log of a task it leaves. *)
ActsAtOnce == Archive!ArchiveSpec

(* Neither a sweep nor a transaction of the store is left waiting,         *)
(* although they take their locks in opposite orders.                      *)
NobodyWaitsForever ==
  <>[](stage = "idle" /\ \A t \in Old : writer[t] = "none")
=============================================================================
