---------------------------- MODULE TaskLifecycle ----------------------------
(***************************************************************************)
(* What the queue promises about one task, whatever its workers, its       *)
(* processes and its database connections do: the life of its status and   *)
(* its attempts.  Several tasks may move in one step (a reaper run).       *)
(***************************************************************************)
EXTENDS Naturals

CONSTANTS
  Tasks,
  MaxRetries,   \* attempts each task may use, the first included
  Refusable     \* tasks some process has no handler for

VARIABLES status, attempts

lifeVars == <<status, attempts>>

(* max_retries 0 still means one attempt.                                  *)
Budget(t) == IF MaxRetries[t] = 0 THEN 1 ELSE MaxRetries[t]

Init ==
  /\ status = [t \in Tasks |-> "ABSENT"]
  /\ attempts = [t \in Tasks |-> 0]

Becomes(t, s, a) == status'[t] = s /\ attempts'[t] = a

(* One move of one task.  COMPLETED and CANCELED have no moves; a failed   *)
(* attempt goes back to PENDING exactly while the budget lasts, and to     *)
(* DEAD when it is spent or when nobody could handle the task.  There is   *)
(* no move from RUNNING to CANCELED: the diagram of the repository's       *)
(* README.md (line 35) draws one, but Cancel takes PENDING rows only, as   *)
(* README.md:354 and client.go:112 say.                                    *)
Advance(t) ==
  \/ status[t] = "ABSENT" /\ Becomes(t, "PENDING", 0)
  \/ status[t] = "PENDING" /\ Becomes(t, "CANCELED", attempts[t])
  \/ status[t] = "PENDING" /\ attempts[t] < Budget(t) /\ Becomes(t, "RUNNING", attempts[t] + 1)
  \/ status[t] = "RUNNING" /\ Becomes(t, "COMPLETED", attempts[t])
  \/ status[t] = "RUNNING" /\ attempts[t] < Budget(t) /\ Becomes(t, "PENDING", attempts[t])
  \/ /\ status[t] = "RUNNING"
     /\ attempts[t] = Budget(t) \/ t \in Refusable
     /\ Becomes(t, "DEAD", attempts[t])
  \/ status[t] = "DEAD" /\ Becomes(t, "PENDING", 0)

Next == \A t \in Tasks : Becomes(t, status[t], attempts[t]) \/ Advance(t)

Spec == Init /\ [][Next]_lifeVars
=============================================================================
