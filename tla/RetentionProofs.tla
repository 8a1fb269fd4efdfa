--------------------------- MODULE RetentionProofs ---------------------------
(***************************************************************************)
(* What the retention sweep keeps, for any set of old tasks and any number *)
(* of transactions beside it.                                              *)
(***************************************************************************)
EXTENDS Retention, TLAPS

(* An open transaction of the store has locked a row it may move.          *)
Writers == \A t \in Old : writer[t] # "none" => <<status[t], writer[t]>> \in Moves

(* What the sweep has deleted stays as it was when it deleted it: the      *)
(* letters are those of DEAD tasks that no retry can move before the sweep *)
(* ends, and the tasks are locked.                                         *)
Locks ==
  /\ \A t \in sweptLetters : status[t] = "DEAD" /\ (writer[t] # "none" => ~settled[t])
  /\ \A t \in sweptTasks : writer[t] = "none" /\ Sweepable(t)
  /\ stage = "letters" => \A t \in todo : status[t] = "DEAD"
  /\ stage = "idle" => sweptLetters = {}
  /\ stage \notin {"tasks", "commit"} => sweptTasks = {}
  /\ stage \notin {"select", "tasks", "commit"} => sweptLogs = Nothing

(* The whole log of t is deleted: it has not moved since.                  *)
Emptied(t) == sweptLogs[t] = logs[t] /\ sweptLogs[t] > 0

(* A task whose letter or whole log is deleted goes with them.             *)
Cuts ==
  /\ \A t \in Old : sweptLogs[t] <= logs[t]
  /\ \A t \in Old : Emptied(t) => Sweepable(t)
  /\ stage \in {"tasks", "commit"} =>
       \A t \in Old : t \in sweptLetters \/ Emptied(t) => t \in todo \cup sweptTasks

(* A sweep commits only after its foreign keys were checked.               *)
Checked == stage = "commit" => todo = {} /\ KeysHold

RetInv ==
  /\ RetTypeOK /\ TablesStayJoined /\ LatestLogKept
  /\ Writers /\ Locks /\ Cuts /\ Checked

-----------------------------------------------------------------------------
(* Subtraction of a smaller number.                                        *)
LEMMA Difference ==
  ASSUME NEW a \in Nat, NEW b \in Nat, b <= a
  PROVE a - b \in Nat /\ (a = b => a - b = 0)
OBVIOUS

(* A transaction of the store locks a row the sweep has not deleted.       *)
LEMMA UpdateKeeps ==
  ASSUME RetInv, NEW t \in Old, NEW s \in Statuses, Update(t, s)
  PROVE RetInv'
<1>1. RetTypeOK'
  BY RetentionAssumption DEF RetInv, RetTypeOK, Nothing, Statuses, Update, Moves, rowVars,
     writerVars, sweepVars
<1>2. TablesStayJoined'
  BY DEF RetInv, TablesStayJoined, RetTypeOK, Update, Moves, rowVars, writerVars, sweepVars
<1>3. LatestLogKept'
  BY DEF RetInv, LatestLogKept, RetTypeOK, Update, Moves, rowVars, writerVars, sweepVars
<1>4. Writers'
  BY DEF RetInv, Writers, RetTypeOK, Update, Moves, rowVars, writerVars, sweepVars
<1>5. Locks'
  BY DEF RetInv, Locks, RetTypeOK, Sweepable, Update, Moves, rowVars, writerVars, sweepVars
<1>6. Cuts'
  BY DEF RetInv, Cuts, RetTypeOK, Emptied, Sweepable, Update, Moves, rowVars, writerVars,
     sweepVars
<1>7. Checked'
  BY DEF RetInv, Checked, RetTypeOK, KeysHold, Update, Moves, rowVars, writerVars, sweepVars
<1> QED BY <1>1, <1>2, <1>3, <1>4, <1>5, <1>6, <1>7 DEF RetInv

(* A retry waits for a letter the sweep has deleted.                       *)
LEMMA SettleLetterKeeps ==
  ASSUME RetInv, NEW t \in Old, SettleLetter(t)
  PROVE RetInv'
<1>1. RetTypeOK'
  BY RetentionAssumption DEF RetInv, RetTypeOK, Nothing, SettleLetter, LetterFree, rowVars,
     writerVars, sweepVars
<1>2. TablesStayJoined'
  BY DEF RetInv, TablesStayJoined, RetTypeOK, SettleLetter, LetterFree, rowVars, writerVars,
     sweepVars
<1>3. LatestLogKept'
  BY DEF RetInv, LatestLogKept, RetTypeOK, SettleLetter, LetterFree, rowVars, writerVars,
     sweepVars
<1>4. Writers'
  BY DEF RetInv, Writers, RetTypeOK, SettleLetter, LetterFree, rowVars, writerVars, sweepVars
<1>5. Locks'
  BY DEF RetInv, Locks, RetTypeOK, Sweepable, Writers, Moves, SettleLetter, LetterFree, rowVars,
     writerVars, sweepVars
<1>6. Cuts'
  BY DEF RetInv, Cuts, RetTypeOK, Emptied, Sweepable, SettleLetter, LetterFree, rowVars,
     writerVars, sweepVars
<1>7. Checked'
  BY DEF RetInv, Checked, RetTypeOK, KeysHold, SettleLetter, LetterFree, rowVars, writerVars,
     sweepVars
<1> QED BY <1>1, <1>2, <1>3, <1>4, <1>5, <1>6, <1>7 DEF RetInv

(* A commit adds the log row that keeps the log from being empty.          *)
LEMMA CommitWriterKeeps ==
  ASSUME RetInv, NEW t \in Old, CommitWriter(t)
  PROVE RetInv'
<1>1. RetTypeOK'
  BY RetentionAssumption DEF RetInv, RetTypeOK, Nothing, CommitWriter, LetterAfter, Moves,
     rowVars, writerVars, sweepVars
<1>2. TablesStayJoined'
  BY Zenon DEF RetInv, TablesStayJoined, RetTypeOK, Writers, CommitWriter, LetterAfter, Moves,
     rowVars, writerVars, sweepVars
<1>3. LatestLogKept'
  BY DEF RetInv, LatestLogKept, RetTypeOK, CommitWriter, LetterAfter, Moves, rowVars,
     writerVars, sweepVars
<1>4. Writers'
  BY DEF RetInv, Writers, RetTypeOK, Statuses, CommitWriter, LetterAfter, Moves, rowVars,
     writerVars, sweepVars
<1>5. Locks'
  BY DEF RetInv, Locks, RetTypeOK, Sweepable, Writers, CommitWriter, LetterAfter, Moves,
     rowVars, writerVars, sweepVars
<1>6. Cuts'
  BY DEF RetInv, Cuts, RetTypeOK, Emptied, Sweepable, Locks, Writers, CommitWriter, LetterAfter,
     Moves, rowVars, writerVars, sweepVars
<1>7. Checked'
  BY DEF RetInv, Checked, RetTypeOK, KeysHold, Locks, CommitWriter, LetterAfter, Moves, rowVars,
     writerVars, sweepVars
<1> QED BY <1>1, <1>2, <1>3, <1>4, <1>5, <1>6, <1>7 DEF RetInv

(* An aborted transaction changes no row.                                  *)
LEMMA AbortWriterKeeps ==
  ASSUME RetInv, NEW t \in Old, AbortWriter(t)
  PROVE RetInv'
<1>1. RetTypeOK'
  BY RetentionAssumption DEF RetInv, RetTypeOK, Nothing, AbortWriter, rowVars, writerVars,
     sweepVars
<1>2. TablesStayJoined'
  BY DEF RetInv, TablesStayJoined, RetTypeOK, AbortWriter, rowVars, writerVars, sweepVars
<1>3. LatestLogKept'
  BY DEF RetInv, LatestLogKept, RetTypeOK, AbortWriter, rowVars, writerVars, sweepVars
<1>4. Writers'
  BY DEF RetInv, Writers, RetTypeOK, AbortWriter, rowVars, writerVars, sweepVars
<1>5. Locks'
  BY DEF RetInv, Locks, RetTypeOK, Sweepable, AbortWriter, rowVars, writerVars, sweepVars
<1>6. Cuts'
  BY DEF RetInv, Cuts, RetTypeOK, Emptied, Sweepable, AbortWriter, rowVars, writerVars,
     sweepVars
<1>7. Checked'
  BY DEF RetInv, Checked, RetTypeOK, KeysHold, AbortWriter, rowVars, writerVars, sweepVars
<1> QED BY <1>1, <1>2, <1>3, <1>4, <1>5, <1>6, <1>7 DEF RetInv

(* The sweep starts.                                                       *)
LEMMA SweepBeginKeeps ==
  ASSUME RetInv, SweepBegin
  PROVE RetInv'
<1>1. RetTypeOK'
  BY RetentionAssumption DEF RetInv, RetTypeOK, Nothing, SweepBegin, OldTasks, rowVars,
     writerVars, sweepVars
<1>2. TablesStayJoined'
  BY DEF RetInv, TablesStayJoined, RetTypeOK, SweepBegin, OldTasks, rowVars, writerVars,
     sweepVars
<1>3. LatestLogKept'
  BY DEF RetInv, LatestLogKept, RetTypeOK, SweepBegin, OldTasks, rowVars, writerVars, sweepVars
<1>4. Writers'
  BY DEF RetInv, Writers, RetTypeOK, SweepBegin, OldTasks, rowVars, writerVars, sweepVars
<1>5. Locks'
  BY DEF RetInv, Locks, RetTypeOK, Sweepable, TablesStayJoined, SweepBegin, OldTasks, rowVars,
     writerVars, sweepVars
<1>6. Cuts'
  BY DEF RetInv, Cuts, RetTypeOK, Emptied, Sweepable, SweepBegin, OldTasks, rowVars, writerVars,
     sweepVars
<1>7. Checked'
  BY DEF RetInv, Checked, RetTypeOK, KeysHold, SweepBegin, OldTasks, rowVars, writerVars,
     sweepVars
<1> QED BY <1>1, <1>2, <1>3, <1>4, <1>5, <1>6, <1>7 DEF RetInv

(* The sweep deletes the letter of a task that is DEAD.                    *)
LEMMA SweepLetterKeeps ==
  ASSUME RetInv, NEW t \in Old, SweepLetter(t)
  PROVE RetInv'
<1>1. RetTypeOK'
  BY RetentionAssumption DEF RetInv, RetTypeOK, Nothing, SweepLetter, rowVars, writerVars,
     sweepVars
<1>2. TablesStayJoined'
  BY DEF RetInv, TablesStayJoined, RetTypeOK, SweepLetter, rowVars, writerVars, sweepVars
<1>3. LatestLogKept'
  BY DEF RetInv, LatestLogKept, RetTypeOK, SweepLetter, rowVars, writerVars, sweepVars
<1>4. Writers'
  BY DEF RetInv, Writers, RetTypeOK, SweepLetter, rowVars, writerVars, sweepVars
<1>5. Locks'
  BY DEF RetInv, Locks, RetTypeOK, Sweepable, SweepLetter, rowVars, writerVars, sweepVars
<1>6. Cuts'
  BY DEF RetInv, Cuts, RetTypeOK, Emptied, Sweepable, SweepLetter, rowVars, writerVars,
     sweepVars
<1>7. Checked'
  BY DEF RetInv, Checked, RetTypeOK, KeysHold, SweepLetter, rowVars, writerVars, sweepVars
<1> QED BY <1>1, <1>2, <1>3, <1>4, <1>5, <1>6, <1>7 DEF RetInv

(* The first statement ends.                                               *)
LEMMA LettersDoneKeeps ==
  ASSUME RetInv, LettersDone
  PROVE RetInv'
<1>1. RetTypeOK'
  BY RetentionAssumption DEF RetInv, RetTypeOK, Nothing, LettersDone, rowVars, writerVars,
     sweepVars
<1>2. TablesStayJoined'
  BY DEF RetInv, TablesStayJoined, RetTypeOK, LettersDone, rowVars, writerVars, sweepVars
<1>3. LatestLogKept'
  BY DEF RetInv, LatestLogKept, RetTypeOK, LettersDone, rowVars, writerVars, sweepVars
<1>4. Writers'
  BY DEF RetInv, Writers, RetTypeOK, LettersDone, rowVars, writerVars, sweepVars
<1>5. Locks'
  BY DEF RetInv, Locks, RetTypeOK, Sweepable, LettersDone, rowVars, writerVars, sweepVars
<1>6. Cuts'
  BY DEF RetInv, Cuts, RetTypeOK, Emptied, Sweepable, LettersDone, rowVars, writerVars,
     sweepVars
<1>7. Checked'
  BY DEF RetInv, Checked, RetTypeOK, KeysHold, LettersDone, rowVars, writerVars, sweepVars
<1> QED BY <1>1, <1>2, <1>3, <1>4, <1>5, <1>6, <1>7 DEF RetInv

(* The sweep deletes log rows.                                             *)
LEMMA SweepLogsKeeps ==
  ASSUME RetInv, SweepLogs
  PROVE RetInv'
<1>1. RetTypeOK'
  BY RetentionAssumption DEF RetInv, RetTypeOK, Nothing, SweepLogs, OldTasks, rowVars,
     writerVars, sweepVars
<1>2. TablesStayJoined'
  BY DEF RetInv, TablesStayJoined, RetTypeOK, SweepLogs, OldTasks, rowVars, writerVars,
     sweepVars
<1>3. LatestLogKept'
  BY DEF RetInv, LatestLogKept, RetTypeOK, SweepLogs, OldTasks, rowVars, writerVars, sweepVars
<1>4. Writers'
  BY DEF RetInv, Writers, RetTypeOK, SweepLogs, OldTasks, rowVars, writerVars, sweepVars
<1>5. Locks'
  BY DEF RetInv, Locks, RetTypeOK, Sweepable, SweepLogs, OldTasks, rowVars, writerVars,
     sweepVars
<1>6. Cuts'
  BY DEF RetInv, Cuts, RetTypeOK, Emptied, Sweepable, Locks, SweepLogs, OldTasks, rowVars,
     writerVars, sweepVars
<1>7. Checked'
  BY DEF RetInv, Checked, RetTypeOK, KeysHold, SweepLogs, OldTasks, rowVars, writerVars,
     sweepVars
<1> QED BY <1>1, <1>2, <1>3, <1>4, <1>5, <1>6, <1>7 DEF RetInv

(* The last statement selects every task it has emptied.                   *)
LEMMA SweepSelectKeeps ==
  ASSUME RetInv, SweepSelect
  PROVE RetInv'
<1>1. RetTypeOK'
  BY RetentionAssumption DEF RetInv, RetTypeOK, Nothing, SweepSelect, OldTasks, rowVars,
     writerVars, sweepVars
<1>2. TablesStayJoined'
  BY DEF RetInv, TablesStayJoined, RetTypeOK, SweepSelect, OldTasks, rowVars, writerVars,
     sweepVars
<1>3. LatestLogKept'
  BY DEF RetInv, LatestLogKept, RetTypeOK, SweepSelect, OldTasks, rowVars, writerVars, sweepVars
<1>4. Writers'
  BY DEF RetInv, Writers, RetTypeOK, SweepSelect, OldTasks, rowVars, writerVars, sweepVars
<1>5. Locks'
  BY DEF RetInv, Locks, RetTypeOK, Sweepable, SweepSelect, OldTasks, rowVars, writerVars,
     sweepVars
<1>6. Cuts'
  BY DEF RetInv, Cuts, RetTypeOK, Emptied, Sweepable, Locks, SweepSelect, OldTasks, rowVars,
     writerVars, sweepVars
<1>7. Checked'
  BY DEF RetInv, Checked, RetTypeOK, KeysHold, SweepSelect, OldTasks, rowVars, writerVars,
     sweepVars
<1> QED BY <1>1, <1>2, <1>3, <1>4, <1>5, <1>6, <1>7 DEF RetInv

(* The sweep passes over a task only if it was claimed meanwhile.          *)
LEMMA SweepTaskKeeps ==
  ASSUME RetInv, NEW t \in Old, SweepTask(t)
  PROVE RetInv'
<1>1. RetTypeOK'
  BY RetentionAssumption DEF RetInv, RetTypeOK, Nothing, SweepTask, rowVars, writerVars,
     sweepVars
<1>2. TablesStayJoined'
  BY DEF RetInv, TablesStayJoined, RetTypeOK, SweepTask, rowVars, writerVars, sweepVars
<1>3. LatestLogKept'
  BY DEF RetInv, LatestLogKept, RetTypeOK, SweepTask, rowVars, writerVars, sweepVars
<1>4. Writers'
  BY DEF RetInv, Writers, RetTypeOK, SweepTask, rowVars, writerVars, sweepVars
<1>5. Locks'
  BY DEF RetInv, Locks, RetTypeOK, Sweepable, SweepTask, rowVars, writerVars, sweepVars
<1>6. Cuts'
  BY DEF RetInv, Cuts, RetTypeOK, Emptied, Sweepable, Locks, SweepTask, rowVars, writerVars,
     sweepVars
<1>7. Checked'
  BY DEF RetInv, Checked, RetTypeOK, KeysHold, SweepTask, rowVars, writerVars, sweepVars
<1> QED BY <1>1, <1>2, <1>3, <1>4, <1>5, <1>6, <1>7 DEF RetInv

(* The foreign keys are checked.                                           *)
LEMMA TasksDoneKeeps ==
  ASSUME RetInv, TasksDone
  PROVE RetInv'
<1>1. RetTypeOK'
  BY RetentionAssumption DEF RetInv, RetTypeOK, Nothing, TasksDone, rowVars, writerVars,
     sweepVars
<1>2. TablesStayJoined'
  BY DEF RetInv, TablesStayJoined, RetTypeOK, TasksDone, rowVars, writerVars, sweepVars
<1>3. LatestLogKept'
  BY DEF RetInv, LatestLogKept, RetTypeOK, TasksDone, rowVars, writerVars, sweepVars
<1>4. Writers'
  BY DEF RetInv, Writers, RetTypeOK, TasksDone, rowVars, writerVars, sweepVars
<1>5. Locks'
  BY DEF RetInv, Locks, RetTypeOK, Sweepable, TasksDone, rowVars, writerVars, sweepVars
<1>6. Cuts'
  BY DEF RetInv, Cuts, RetTypeOK, Emptied, Sweepable, TasksDone, rowVars, writerVars, sweepVars
<1>7. Checked'
  BY DEF RetInv, Checked, RetTypeOK, KeysHold, TasksDone, rowVars, writerVars, sweepVars
<1> QED BY <1>1, <1>2, <1>3, <1>4, <1>5, <1>6, <1>7 DEF RetInv

(* What the commit leaves is consistent.                                   *)
LEMMA SweepCommitKeeps ==
  ASSUME RetInv, SweepCommit
  PROVE RetInv'
<1>1. RetTypeOK'
  <2>1. \A t \in Old : logs[t] - sweptLogs[t] \in Nat
    <3> SUFFICES ASSUME NEW t \in Old PROVE logs[t] - sweptLogs[t] \in Nat
      OBVIOUS
    <3>1. logs[t] \in Nat /\ sweptLogs[t] \in Nat /\ sweptLogs[t] <= logs[t]
      BY DEF RetInv, RetTypeOK, Cuts
    <3> QED BY <3>1, Difference
  <2>2. logs' \in [Old -> Nat]
    BY <2>1 DEF SweepCommit
  <2>3. status' \in [Old -> Statuses \cup {"gone"}] /\ letter' \in [Old -> BOOLEAN]
    BY DEF RetInv, RetTypeOK, SweepCommit
  <2>4. sweptLogs' \in [Old -> Nat]
    BY DEF SweepCommit, Closed, Nothing
  <2> QED BY <2>2, <2>3, <2>4 DEF RetInv, RetTypeOK, SweepCommit, Closed, writerVars
<1>2. TablesStayJoined'
  <2> SUFFICES ASSUME NEW t \in Old
               PROVE (letter[t] <=> status[t] = "DEAD")' /\ (status[t] = "gone" => logs[t] = 0)'
    BY DEF TablesStayJoined
  <2>1. letter'[t] = (letter[t] /\ t \notin sweptLetters) /\ logs'[t] = logs[t] - sweptLogs[t]
    BY DEF SweepCommit
  <2>2. logs[t] \in Nat /\ sweptLogs[t] \in Nat /\ sweptLogs[t] <= logs[t]
    BY DEF RetInv, RetTypeOK, Cuts
  <2>3. CASE t \in sweptTasks
    <3>1. status'[t] = "gone"
      BY <2>3 DEF SweepCommit
    <3>2. sweptLogs[t] = logs[t] /\ (letter[t] => t \in sweptLetters)
      BY <2>3 DEF RetInv, Checked, KeysHold, SweepCommit
    <3>3. logs[t] - sweptLogs[t] = 0
      BY <2>2, <3>2, Difference
    <3> QED BY Zenon, <2>1, <3>1, <3>2, <3>3
  <2>4. CASE t \notin sweptTasks
    <3>1. status'[t] = status[t]
      BY <2>4 DEF SweepCommit
    <3>2. t \notin sweptLetters
      BY <2>4 DEF RetInv, Checked, Cuts, SweepCommit
    <3>3. (letter[t] <=> status[t] = "DEAD") /\ (status[t] = "gone" => logs[t] = 0)
      BY DEF RetInv, TablesStayJoined
    <3>4. status[t] = "gone" => logs[t] - sweptLogs[t] = 0
      <4> SUFFICES ASSUME status[t] = "gone" PROVE logs[t] - sweptLogs[t] = 0
        OBVIOUS
      <4>1. logs[t] = 0 /\ logs[t] = sweptLogs[t]
        BY <2>2, <3>3
      <4> QED BY <2>2, <4>1, Difference
    <3> QED BY Zenon, <2>1, <3>1, <3>2, <3>3, <3>4
  <2> QED BY <2>3, <2>4
<1>3. LatestLogKept'
  <2> SUFFICES ASSUME NEW t \in Old, status'[t] # "gone", written'[t] > 0
               PROVE logs'[t] > 0
    BY DEF LatestLogKept
  <2>1. t \notin sweptTasks /\ status[t] # "gone" /\ written[t] > 0
    BY DEF SweepCommit
  <2>2. logs[t] > 0
    BY <2>1 DEF RetInv, LatestLogKept
  <2>3. ~Emptied(t)
    BY <2>1 DEF RetInv, Checked, Cuts, SweepCommit
  <2>4. logs[t] \in Nat /\ sweptLogs[t] \in Nat /\ sweptLogs[t] <= logs[t]
    BY DEF RetInv, RetTypeOK, Cuts
  <2>5. logs[t] - sweptLogs[t] > 0
    BY <2>2, <2>3, <2>4 DEF Emptied
  <2> QED BY <2>5 DEF SweepCommit
<1>4. Writers'
  BY DEF RetInv, Writers, RetTypeOK, Locks, SweepCommit, Closed, Nothing, rowVars, writerVars,
     sweepVars
<1>5. Locks'
  BY DEF RetInv, Locks, RetTypeOK, Sweepable, SweepCommit, Closed, Nothing, rowVars, writerVars,
     sweepVars
<1>6. Cuts'
  BY DEF RetInv, Cuts, RetTypeOK, Emptied, Sweepable, SweepCommit, Closed, Nothing, rowVars,
     writerVars, sweepVars
<1>7. Checked'
  BY DEF RetInv, Checked, RetTypeOK, KeysHold, SweepCommit, Closed, Nothing, rowVars,
     writerVars, sweepVars
<1> QED BY <1>1, <1>2, <1>3, <1>4, <1>5, <1>6, <1>7 DEF RetInv

(* A rollback changes no row.                                              *)
LEMMA ForeignKeyFailsKeeps ==
  ASSUME RetInv, ForeignKeyFails
  PROVE RetInv'
<1>1. RetTypeOK'
  BY RetentionAssumption DEF RetInv, RetTypeOK, Nothing, ForeignKeyFails, Closed, rowVars,
     writerVars, sweepVars
<1>2. TablesStayJoined'
  BY DEF RetInv, TablesStayJoined, RetTypeOK, ForeignKeyFails, Closed, Nothing, rowVars,
     writerVars, sweepVars
<1>3. LatestLogKept'
  BY DEF RetInv, LatestLogKept, RetTypeOK, ForeignKeyFails, Closed, Nothing, rowVars,
     writerVars, sweepVars
<1>4. Writers'
  BY DEF RetInv, Writers, RetTypeOK, ForeignKeyFails, Closed, Nothing, rowVars, writerVars,
     sweepVars
<1>5. Locks'
  BY DEF RetInv, Locks, RetTypeOK, Sweepable, ForeignKeyFails, Closed, Nothing, rowVars,
     writerVars, sweepVars
<1>6. Cuts'
  BY DEF RetInv, Cuts, RetTypeOK, Emptied, Sweepable, ForeignKeyFails, Closed, Nothing, rowVars,
     writerVars, sweepVars
<1>7. Checked'
  BY DEF RetInv, Checked, RetTypeOK, KeysHold, ForeignKeyFails, Closed, Nothing, rowVars,
     writerVars, sweepVars
<1> QED BY <1>1, <1>2, <1>3, <1>4, <1>5, <1>6, <1>7 DEF RetInv

(* A rollback changes no row.                                              *)
LEMMA SweepFailsKeeps ==
  ASSUME RetInv, SweepFails
  PROVE RetInv'
<1>1. RetTypeOK'
  BY RetentionAssumption DEF RetInv, RetTypeOK, Nothing, SweepFails, Closed, rowVars,
     writerVars, sweepVars
<1>2. TablesStayJoined'
  BY DEF RetInv, TablesStayJoined, RetTypeOK, SweepFails, Closed, Nothing, rowVars, writerVars,
     sweepVars
<1>3. LatestLogKept'
  BY DEF RetInv, LatestLogKept, RetTypeOK, SweepFails, Closed, Nothing, rowVars, writerVars,
     sweepVars
<1>4. Writers'
  BY DEF RetInv, Writers, RetTypeOK, SweepFails, Closed, Nothing, rowVars, writerVars, sweepVars
<1>5. Locks'
  BY DEF RetInv, Locks, RetTypeOK, Sweepable, SweepFails, Closed, Nothing, rowVars, writerVars,
     sweepVars
<1>6. Cuts'
  BY DEF RetInv, Cuts, RetTypeOK, Emptied, Sweepable, SweepFails, Closed, Nothing, rowVars,
     writerVars, sweepVars
<1>7. Checked'
  BY DEF RetInv, Checked, RetTypeOK, KeysHold, SweepFails, Closed, Nothing, rowVars, writerVars,
     sweepVars
<1> QED BY <1>1, <1>2, <1>3, <1>4, <1>5, <1>6, <1>7 DEF RetInv

(* Neither does the choice of the deadlock detector.                       *)
LEMMA DetectDeadlockKeeps ==
  ASSUME RetInv, NEW t \in Old, DetectDeadlock(t)
  PROVE RetInv'
BY AbortWriterKeeps, SweepFailsKeeps DEF DetectDeadlock

(* The invariant holds initially and every step keeps it.                  *)
THEOREM RetInvariant == RetSpec => []RetInv
<1>1. RetInit => RetInv
  <2> SUFFICES ASSUME RetInit PROVE RetInv
    OBVIOUS
  <2>1. RetTypeOK
    BY RetentionAssumption DEF RetInit, RetTypeOK, Nothing, Statuses
  <2>2. TablesStayJoined /\ LatestLogKept /\ Writers /\ Checked
    BY DEF RetInit, TablesStayJoined, LatestLogKept, Writers, Checked, Nothing
  <2>3. Locks /\ Cuts
    BY DEF RetInit, Locks, Cuts, Emptied, Nothing
  <2> QED BY <2>1, <2>2, <2>3 DEF RetInv
<1>2. RetInv /\ [RetNext]_retVars => RetInv'
  <2> SUFFICES ASSUME RetInv, [RetNext]_retVars PROVE RetInv'
    OBVIOUS
  <2>1. CASE SweepBegin \/ SweepFails
    BY <2>1, SweepBeginKeeps, SweepFailsKeeps
  <2>2. CASE Sweep
    BY <2>2, LettersDoneKeeps, SweepLogsKeeps, SweepSelectKeeps, TasksDoneKeeps, ForeignKeyFailsKeeps,
       SweepCommitKeeps, SweepLetterKeeps, SweepTaskKeeps DEF Sweep
  <2>3. ASSUME NEW t \in Old, Write(t) \/ AbortWriter(t) \/ DetectDeadlock(t) PROVE RetInv'
    BY <2>3, SettleLetterKeeps, CommitWriterKeeps, AbortWriterKeeps, DetectDeadlockKeeps DEF Write
  <2>4. ASSUME NEW t \in Old, NEW s \in Statuses, Update(t, s) PROVE RetInv'
    BY <2>4, UpdateKeeps
  <2>5. CASE UNCHANGED retVars
    BY <2>5 DEF RetInv, RetTypeOK, TablesStayJoined, LatestLogKept, Writers, Locks, Cuts, Checked, KeysHold,
       Emptied, Sweepable, retVars, rowVars, writerVars, sweepVars
  <2> QED BY <2>1, <2>2, <2>3, <2>4, <2>5 DEF RetNext
<1> QED BY <1>1, <1>2, PTL DEF RetSpec

(* Every variable keeps its type.                                          *)
THEOREM RetTypesCorrect == RetSpec => []RetTypeOK
<1>1. RetInv => RetTypeOK
  BY DEF RetInv
<1> QED BY RetInvariant, <1>1, PTL

(* Tasks, dead letters and log rows agree, whatever the sweep races.       *)
THEOREM SweepsKeepTablesJoined == RetSpec => []TablesStayJoined
<1>1. RetInv => TablesStayJoined
  BY DEF RetInv
<1> QED BY RetInvariant, <1>1, PTL

(* A surviving task keeps the log row that explains its status.            *)
THEOREM SweepsKeepLatestLog == RetSpec => []LatestLogKept
<1>1. RetInv => LatestLogKept
  BY DEF RetInv
<1> QED BY RetInvariant, <1>1, PTL

(* A task is deleted only while it is not RUNNING and nobody changes it:   *)
(* only the commit of a sweep deletes, and it deletes rows it has locked.  *)
THEOREM SweepsSpareRunning == RetSpec => OnlyIdleDeleted
<1>1. RetInv /\ [RetNext]_retVars =>
        [\A t \in Old : status[t] # "gone" /\ status'[t] = "gone" =>
                         status[t] # "RUNNING" /\ writer[t] = "none"]_retVars
  <2> SUFFICES ASSUME RetInv, RetNext, NEW t \in Old, status[t] # "gone", status'[t] = "gone"
               PROVE status[t] # "RUNNING" /\ writer[t] = "none"
    OBVIOUS
  <2>1. CASE SweepCommit
    <3>1. t \in sweptTasks
      BY <2>1 DEF SweepCommit
    <3> QED BY <3>1 DEF RetInv, Locks, Sweepable
  <2>2. ASSUME NEW x \in Old, CommitWriter(x) PROVE FALSE
    <3>1. <<status[x], writer[x]>> \in Moves
      BY SMTT(30), <2>2 DEF RetInv, Writers, CommitWriter
    <3>2. writer[x] # "gone"
      BY <3>1 DEF Moves
    <3> QED BY <2>2, <3>2 DEF CommitWriter, RetInv, RetTypeOK
  <2>3. \/ SweepCommit
        \/ \E x \in Old : CommitWriter(x)
        \/ UNCHANGED status
    BY Zenon DEF RetNext, Sweep, Write, SweepBegin, SweepFails, LettersDone, SweepLogs, SweepSelect, TasksDone,
       ForeignKeyFails, SweepLetter, SweepTask, SettleLetter, AbortWriter, DetectDeadlock, Update, rowVars
  <2> QED BY <2>1, <2>2, <2>3
<1> QED BY RetInvariant, <1>1, PTL DEF RetSpec, OnlyIdleDeleted

-----------------------------------------------------------------------------
(* What readers see changes only when a transaction commits.               *)
LEMMA OnlyCommitsShow ==
  ASSUME RetNext
  PROVE SweepCommit \/ (\E t \in Old : CommitWriter(t)) \/ UNCHANGED <<status, letter>>
BY Zenon DEF RetNext, Sweep, Write, SweepBegin, SweepFails, LettersDone, SweepLogs, SweepSelect, TasksDone,
   ForeignKeyFails, SweepLetter, SweepTask, SettleLetter, AbortWriter, DetectDeadlock, Update, rowVars

(* The commit of a transaction of the store is a move of its task: the row *)
(* it locked has kept the status it moves from.                            *)
LEMMA CommitIsMove ==
  ASSUME RetInv, NEW t \in Old, CommitWriter(t)
  PROVE Archive!Move(t)
<1>1. <<status[t], writer[t]>> \in Moves
  BY DEF RetInv, Writers, CommitWriter
<1>2. writer[t] \in Archive!MovesFrom(status[t])
  BY <1>1 DEF Moves, Archive!MovesFrom
<1>3. LetterAfter(t) = (writer[t] = "DEAD")
  BY DEF LetterAfter, RetInv, TablesStayJoined
<1> QED BY Zenon, <1>2, <1>3 DEF CommitWriter, Archive!Move

(* The commit of a sweep deletes whole tasks: by then no letter is deleted *)
(* whose task is not.                                                      *)
LEMMA SweepIsDelete ==
  ASSUME RetInv, SweepCommit
  PROVE Archive!Delete(sweptTasks)
<1>1. /\ \A t \in sweptTasks : Sweepable(t) /\ (letter[t] => t \in sweptLetters)
      /\ \A t \in Old : t \in sweptLetters => t \in sweptTasks
  BY DEF RetInv, Locks, Cuts, Checked, KeysHold, SweepCommit
<1>2. \A t \in sweptTasks : status[t] \notin {"RUNNING", "gone"}
  BY <1>1 DEF Sweepable
<1>3. \A t \in Old : (letter[t] /\ t \notin sweptLetters) = (letter[t] /\ t \notin sweptTasks)
  BY <1>1
<1>4. letter' = [t \in Old |-> letter[t] /\ t \notin sweptTasks]
  BY <1>3 DEF SweepCommit
<1>5. status' = [t \in Old |-> IF t \in sweptTasks THEN "gone" ELSE status[t]]
  BY DEF SweepCommit
<1> QED BY <1>2, <1>4, <1>5 DEF Archive!Delete

(* The statements of sweeps and transactions, interleaved as they may be,  *)
(* implement sweeps and moves of tasks and dead_letters that happen at     *)
(* once.                                                                   *)
THEOREM SweepsSerializable == RetSpec => ActsAtOnce
<1>1. RetInit => Archive!ArchiveInit
  BY DEF RetInit, Nothing, Archive!ArchiveInit
<1>2. RetInv /\ [RetNext]_retVars => [Archive!ArchiveNext]_(Archive!archiveVars)
  <2> SUFFICES ASSUME RetInv, [RetNext]_retVars
               PROVE Archive!ArchiveNext \/ UNCHANGED <<status, letter>>
    BY DEF Archive!archiveVars
  <2>1. CASE SweepCommit
    <3>1. sweptTasks \in SUBSET Old
      BY DEF RetInv, RetTypeOK
    <3> QED BY <2>1, <3>1, SweepIsDelete DEF Archive!ArchiveNext
  <2>2. ASSUME NEW t \in Old, CommitWriter(t) PROVE Archive!ArchiveNext
    BY <2>2, CommitIsMove DEF Archive!ArchiveNext
  <2>3. CASE UNCHANGED retVars
    BY <2>3 DEF retVars, rowVars
  <2> QED BY <2>1, <2>2, <2>3, OnlyCommitsShow
<1> QED BY <1>1, <1>2, RetInvariant, PTL DEF RetSpec, ActsAtOnce, Archive!ArchiveSpec

-----------------------------------------------------------------------------
(* The guards of the steps that end a wait: the next statement of the      *)
(* sweep, and the next one of the transaction on t.                        *)
CanSweep ==
  \/ stage \in {"logs", "select", "commit"}
  \/ stage \in {"letters", "tasks"} /\ todo = {}
  \/ stage = "letters" /\ \E t \in todo : ~(writer[t] # "none" /\ settled[t] /\ status[t] = "DEAD")
  \/ stage = "tasks" /\ \E t \in todo : writer[t] = "none"
CanWrite(t) == writer[t] # "none" /\ (settled[t] \/ LetterFree(t))

(* Nobody waits for nothing.  The sweep can go on, or waits for a task     *)
(* whose transaction can, or forms a cycle with it that the database       *)
(* finds; a transaction can go on, or waits for a sweep of which that is   *)
(* true.                                                                   *)
SweepGoesOn == CanSweep \/ \E t \in todo : CanWrite(t) \/ Cycle(t)
NobodyStuck ==
  /\ stage # "idle" => SweepGoesOn
  /\ \A t \in Old : writer[t] # "none" => CanWrite(t) \/ (stage # "idle" /\ SweepGoesOn)

(* The opposite lock orders of sweep and retry leave nobody waiting        *)
(* outside a cycle of the two, for any number of tasks and transactions.   *)
THEOREM SweepsNeverStuck == RetSpec => []NobodyStuck
<1>1. ASSUME RetInv PROVE NobodyStuck
  <2>1. ASSUME stage # "idle" PROVE SweepGoesOn
    <3>1. stage \in {"letters", "logs", "select", "tasks", "commit"}
      BY <1>1, <2>1 DEF RetInv, RetTypeOK
    <3>2. CASE stage = "letters" /\ todo # {}
      BY <3>2 DEF SweepGoesOn, CanSweep, CanWrite
    <3>3. CASE stage = "tasks" /\ todo # {}
      BY <3>3 DEF SweepGoesOn, CanSweep, CanWrite, Cycle
    <3> QED BY <3>1, <3>2, <3>3 DEF SweepGoesOn, CanSweep
  <2>2. ASSUME NEW t \in Old, writer[t] # "none" PROVE CanWrite(t) \/ stage # "idle"
    BY <1>1, <2>2 DEF CanWrite, LetterFree, RetInv, Locks
  <2> QED BY <2>1, <2>2 DEF NobodyStuck
<1> QED BY <1>1, RetInvariant, PTL

(* How far the sweep and the transaction on t have come.                   *)
Stage == [letters |-> 1, logs |-> 2, select |-> 3, tasks |-> 4, commit |-> 5, idle |-> 6]
Written(t) == IF writer[t] = "none" THEN 3 ELSE IF settled[t] THEN 2 ELSE 1

SweepNew == stage = "idle" /\ sweeps' = sweeps + 1
SweepFurther ==
  sweeps' = sweeps /\ (Stage[stage'] > Stage[stage] \/ (stage' = stage /\ todo' \subseteq todo /\ todo' # todo))
WriterNew(t) == writer[t] = "none" /\ moves'[t] = moves[t] + 1
WriterFurther(t) == moves'[t] = moves[t] /\ Written(t)' > Written(t)

RetForward ==
  /\ SweepNew \/ SweepFurther \/ UNCHANGED <<sweeps, stage, todo>>
  /\ \A t \in Old : WriterNew(t) \/ WriterFurther(t) \/ (moves'[t] = moves[t] /\ Written(t)' = Written(t))
  /\ SweepNew \/ SweepFurther \/ \E t \in Old : WriterNew(t) \/ WriterFurther(t)

(* Sweeps and transactions end after a bounded number of steps of theirs:  *)
(* none repeats a statement, and every step takes one of them further or   *)
(* begins a new one.                                                       *)
SweepsOnlyForward == [][RetForward]_retVars

(* A step of the sweep leaves the transactions alone.                      *)
LEMMA SweepStepForward ==
  ASSUME UNCHANGED writerVars, SweepNew \/ SweepFurther
  PROVE RetForward
BY DEF RetForward, writerVars, Written

(* A step of one transaction leaves the others alone, and the sweep, but   *)
(* for the row it takes from it.                                           *)
LEMMA WriterStepForward ==
  ASSUME RetInv, NEW t \in Old, WriterNew(t) \/ WriterFurther(t),
         \A u \in Old : u # t => moves'[u] = moves[u] /\ writer'[u] = writer[u] /\ settled'[u] = settled[u],
         UNCHANGED <<sweeps, stage>>, todo' \subseteq todo
  PROVE RetForward
<1>1. SweepFurther \/ UNCHANGED <<sweeps, stage, todo>>
  BY DEF SweepFurther
<1>2. \A u \in Old : u # t => moves'[u] = moves[u] /\ Written(u)' = Written(u)
  BY DEF Written
<1> QED BY <1>1, <1>2 DEF RetForward

(* Every step takes a sweep or a transaction further.                      *)
THEOREM SweepsAdvance == RetSpec => SweepsOnlyForward
<1>1. ASSUME RetInv, RetNext PROVE RetForward
  <2>0. /\ writer \in [Old -> Statuses \cup {"none"}] /\ settled \in [Old -> BOOLEAN]
        /\ moves \in [Old -> 0 .. MaxMoves]
    BY <1>1 DEF RetInv, RetTypeOK
  <2>1. CASE SweepBegin
    BY <2>1, SweepStepForward DEF SweepBegin, SweepNew
  <2>2. CASE SweepFails \/ ForeignKeyFails \/ SweepCommit
    <3>1. stage \in {"letters", "logs", "select", "tasks", "commit"} /\ stage' = "idle"
          /\ UNCHANGED <<sweeps, writerVars>>
      BY <1>1, <2>2 DEF SweepFails, ForeignKeyFails, SweepCommit, Closed, RetInv, RetTypeOK
    <3> QED BY <3>1, SweepStepForward DEF SweepFurther, Stage
  <2>3. CASE LettersDone \/ SweepLogs \/ SweepSelect \/ TasksDone
    BY <2>3, SweepStepForward DEF LettersDone, SweepLogs, SweepSelect, TasksDone, SweepFurther, Stage
  <2>4. ASSUME NEW t \in Old, SweepLetter(t) \/ SweepTask(t) PROVE RetForward
    BY SMTT(30), <2>4, SweepStepForward DEF SweepLetter, SweepTask, SweepFurther
  <2>5. ASSUME NEW t \in Old, SettleLetter(t) PROVE RetForward
    <3>1. settled' = [settled EXCEPT ![t] = TRUE] /\ ~settled[t] /\ writer[t] # "none"
          /\ UNCHANGED <<writer, moves, sweeps, stage, todo>>
      BY <2>5 DEF SettleLetter, sweepVars
    <3>2. settled'[t] = TRUE /\ \A u \in Old : u # t => settled'[u] = settled[u]
      BY Zenon, <2>0, <3>1
    <3>3. Written(t) = 1 /\ Written(t)' = 2
      BY <3>1, <3>2 DEF Written
    <3>4. WriterFurther(t)
      BY <3>1, <3>3 DEF WriterFurther
    <3> QED BY Zenon, <1>1, <3>1, <3>2, <3>4, WriterStepForward
  <2>6. ASSUME NEW t \in Old, CommitWriter(t) PROVE RetForward
    BY <1>1, <2>0, <2>6, WriterStepForward DEF CommitWriter, WriterFurther, Written
  <2>7. ASSUME NEW t \in Old, AbortWriter(t) PROVE RetForward
    BY <1>1, <2>0, <2>7, WriterStepForward DEF AbortWriter, WriterFurther, Written, sweepVars
  <2>8. ASSUME NEW t \in Old, NEW s \in Statuses, Update(t, s) PROVE RetForward
    BY Zenon, <1>1, <2>0, <2>8, WriterStepForward DEF Update, WriterNew, sweepVars
  <2> QED BY <1>1, <2>1, <2>2, <2>3, <2>4, <2>5, <2>6, <2>7, <2>8 DEF RetNext, Sweep, Write, DetectDeadlock
<1>2. RetInv /\ [RetNext]_retVars => [RetForward]_retVars
  BY <1>1
<1> QED BY <1>2, RetInvariant, PTL DEF RetSpec, SweepsOnlyForward
=============================================================================
