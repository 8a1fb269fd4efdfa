----------------------------- MODULE TaskArchive -----------------------------
(***************************************************************************)
(* What the retention sweep promises the readers of tasks and              *)
(* dead_letters: that each transaction of the task store moves one task,   *)
(* and each sweep deletes some whole and leaves the others alone, at one   *)
(* moment, whatever statements they really consist of.  Which of the old   *)
(* tasks a sweep takes is left open, and nothing is said of task_logs.     *)
(***************************************************************************)
EXTENDS Naturals

CONSTANT Old   \* the tasks created before the cutoff

VARIABLES
  status,   \* of each task, "gone" once deleted
  letter    \* it has a row in dead_letters

archiveVars == <<status, letter>>

ArchiveInit ==
  /\ status = [t \in Old |-> "PENDING"]
  /\ letter = [t \in Old |-> FALSE]

MovesFrom(s) ==
  CASE s = "PENDING" -> {"RUNNING", "CANCELED"}
    [] s = "RUNNING" -> {"PENDING", "COMPLETED", "DEAD"}
    [] s = "DEAD" -> {"PENDING"}
    [] OTHER -> {}

(* One task moves; a letter exists from its death to its revival.          *)
Move(t) ==
  \E s \in MovesFrom(status[t]) :
     /\ status' = [status EXCEPT ![t] = s]
     /\ letter' = [letter EXCEPT ![t] = (s = "DEAD")]

(* The tasks S go, none of them RUNNING, with their letters.               *)
Delete(S) ==
  /\ \A t \in S : status[t] \notin {"RUNNING", "gone"}
  /\ status' = [t \in Old |-> IF t \in S THEN "gone" ELSE status[t]]
  /\ letter' = [t \in Old |-> letter[t] /\ t \notin S]

ArchiveNext == (\E t \in Old : Move(t)) \/ (\E S \in SUBSET Old : Delete(S))

ArchiveSpec == ArchiveInit /\ [][ArchiveNext]_archiveVars
=============================================================================
