----------------------------- MODULE WorkerPool ------------------------------
(***************************************************************************)
(* Worker processes over one task table: the claim loop of each worker     *)
(* goroutine (internal/worker/worker.go), its heartbeat goroutine, the     *)
(* reaper goroutine of each process (reaper.go), start, drain and death of *)
(* a process (worker_pool.go, worker.go), and the clients of the table.    *)
(*                                                                         *)
(* Store calls may fail: before they take effect, or after (the commit is  *)
(* done and its answer lost).  A worker reacts to both the same way.       *)
(***************************************************************************)
EXTENDS TaskStore

CONSTANTS
  Procs,             \* processes that run a worker pool
  Workers,           \* worker goroutines of all processes
  ProcOf,            \* the process of each worker
  WorkerID,          \* the id each worker signs locked_by with
  Registered,        \* the tasks each process has a handler for
  BaseBackoff, MaxBackoff,
  NoTask,            \* a worker without a task
  MaxOutages,        \* bound: how often a process is stopped or killed
  MaxManualRetries   \* bound: how often DEAD tasks are retried by hand

ASSUME PoolAssumption ==
  /\ ProcOf \in [Workers -> Procs]
  /\ WorkerID \in [Workers -> WorkerIDs]
  /\ Registered \in [Procs -> SUBSET Tasks]
  /\ BaseBackoff \in Nat /\ MaxBackoff \in Nat
  /\ NoTask \notin Tasks
  /\ MaxOutages \in Nat /\ MaxManualRetries \in Nat

(* Worker ids are prefix-number: unique only if no two processes share a   *)
(* prefix.                                                                 *)
UniqueWorkerIDs == \A v, w \in Workers : WorkerID[v] = WorkerID[w] => v = w

VARIABLES
  proc,      \* "up", "draining" (its context is canceled) or "down"
  pc,        \* where each worker goroutine is
  held,      \* the task it executes: task.ID of the claimed row
  claimed,   \* task.Attempts of the claimed row
  beating,   \* whether its heartbeat goroutine runs
  outages, manualRetries

workerVars == <<pc, held, claimed, beating>>
poolVars == <<proc, pc, held, claimed, beating, outages, manualRetries>>
vars == <<storeVars, poolVars>>

(* After the handler (or with no handler) a result waits to be persisted.  *)
Persisting == {"succeeded", "failed", "unhandled"}
PCs == {"idle", "running", "exited"} \cup Persisting
Executing(w) == pc[w] \in Persisting \cup {"running"}

TypeOK ==
  /\ StoreTypeOK
  /\ proc \in [Procs -> {"up", "draining", "down"}]
  /\ pc \in [Workers -> PCs]
  /\ held \in [Workers -> Tasks \cup {NoTask}]
  /\ \A w \in Workers : (Executing(w) <=> held[w] # NoTask) /\ (beating[w] => Executing(w))
  /\ claimed \in [Workers -> Nat]
  /\ beating \in [Workers -> BOOLEAN]
  /\ outages \in 0..MaxOutages
  /\ manualRetries \in 0..MaxManualRetries

Init ==
  /\ StoreInit
  /\ proc = [p \in Procs |-> "up"]
  /\ pc = [w \in Workers |-> "idle"]
  /\ held = [w \in Workers |-> NoTask]
  /\ claimed = [w \in Workers |-> 0]
  /\ beating = [w \in Workers |-> FALSE]
  /\ outages = 0
  /\ manualRetries = 0
-----------------------------------------------------------------------------
(* The worker loop (Start, claim, execute, handleFailure).                 *)

(* Mutant: the worker keeps the attempts from before the claim.            *)
ClaimTaskOldAttempts(w, t) ==
  /\ pc[w] = "idle" /\ proc[ProcOf[w]] = "up"
  /\ Claim(t, WorkerID[w])
  /\ held' = [held EXCEPT ![w] = t]
  /\ claimed' = [claimed EXCEPT ![w] = attempts[t]]
  /\ pc' = [pc EXCEPT ![w] = IF t \in Registered[ProcOf[w]] THEN "running" ELSE "unhandled"]
  /\ beating' = [beating EXCEPT ![w] = t \in Registered[ProcOf[w]]]
  /\ UNCHANGED <<proc, outages, manualRetries>>

ClaimTask(w, t) ==
  /\ pc[w] = "idle" /\ proc[ProcOf[w]] = "up"
  /\ Claim(t, WorkerID[w])
  /\ held' = [held EXCEPT ![w] = t]
  /\ claimed' = [claimed EXCEPT ![w] = attempts[t] + 1]
  /\ pc' = [pc EXCEPT ![w] = IF t \in Registered[ProcOf[w]] THEN "running" ELSE "unhandled"]
  /\ beating' = [beating EXCEPT ![w] = t \in Registered[ProcOf[w]]]
  /\ UNCHANGED <<proc, outages, manualRetries>>

(* The claim commits but Claim returns an error: nobody executes the task. *)
(* With the context canceled the worker returns.                           *)
ClaimAnswerLost(w, t) ==
  /\ pc[w] = "idle" /\ proc[ProcOf[w]] \in {"up", "draining"}
  /\ Claim(t, WorkerID[w])
  /\ pc' = [pc EXCEPT ![w] = IF proc[ProcOf[w]] = "up" THEN "idle" ELSE "exited"]
  /\ UNCHANGED <<proc, held, claimed, beating, outages, manualRetries>>

(* The handler returns nil, or an error or a panic.                        *)
HandlerReturns(w) ==
  /\ pc[w] = "running"
  /\ \E r \in {"succeeded", "failed"} : pc' = [pc EXCEPT ![w] = r]
  /\ UNCHANGED <<storeVars, proc, held, claimed, beating, outages, manualRetries>>

(* Mutant: heartbeats do not end with taskCtx.                             *)
TaskTimeoutKeepsBeating(w) == FALSE

(* taskCtx passes handlerTimeout: the heartbeat goroutine returns, whether *)
(* or not the handler does.                                                *)
TaskTimeout(w) ==
  /\ Executing(w) /\ beating[w]
  /\ beating' = [beating EXCEPT ![w] = FALSE]
  /\ UNCHANGED <<storeVars, proc, pc, held, claimed, outages, manualRetries>>

(* A heartbeat renews the lock; told that it lost the task the goroutine   *)
(* stops, and leaves the handler running.                                  *)
Beat(w) ==
  /\ beating[w]
  /\ \/ /\ Heartbeat(held[w], WorkerID[w])
        /\ UNCHANGED beating
     \/ /\ ~Owns(held[w], WorkerID[w])
        /\ beating' = [beating EXCEPT ![w] = FALSE]
        /\ UNCHANGED storeVars
  /\ UNCHANGED <<proc, pc, held, claimed, outages, manualRetries>>

Min(a, b) == IF a < b THEN a ELSE b

(* computeBackoff: full jitter below base * 2^(attempts-1), capped.        *)
Backoff(a) == 0 .. Min(MaxBackoff, BaseBackoff * 2 ^ (IF a > 1 THEN a - 1 ELSE 0))

(* The store call that records w's result.  handleFailure decides between  *)
(* retry and death by the attempts it saw when it claimed.                 *)
Record(w) ==
  \/ pc[w] = "succeeded" /\ MarkCompleted(held[w], WorkerID[w])
  \/ pc[w] = "unhandled" /\ MarkDead(held[w], WorkerID[w])
  \/ /\ pc[w] = "failed"
     /\ IF claimed[w] >= MaxRetries[held[w]]
        THEN MarkDead(held[w], WorkerID[w])
        ELSE \E d \in Backoff(claimed[w]) : MarkPending(held[w], WorkerID[w], d)

(* Back in the loop, heartbeat stopped, after the result is recorded, or   *)
(* ErrTaskOwnershipLost, or the store failed and the row stays RUNNING.    *)
Persist(w) ==
  /\ pc[w] \in Persisting
  /\ Record(w) \/ UNCHANGED storeVars
  /\ pc' = [pc EXCEPT ![w] = "idle"]
  /\ held' = [held EXCEPT ![w] = NoTask]
  /\ claimed' = [claimed EXCEPT ![w] = 0]
  /\ beating' = [beating EXCEPT ![w] = FALSE]
  /\ UNCHANGED <<proc, outages, manualRetries>>

(* Claim fails on the canceled context and Start returns.                  *)
WorkerExit(w) ==
  /\ pc[w] = "idle" /\ proc[ProcOf[w]] = "draining"
  /\ pc' = [pc EXCEPT ![w] = "exited"]
  /\ UNCHANGED <<storeVars, proc, held, claimed, beating, outages, manualRetries>>
-----------------------------------------------------------------------------
(* The reaper and the life of a process.                                   *)

Reap(p, S) ==
  /\ proc[p] = "up" /\ S # {}
  /\ RequeueStaleRunning(S)
  /\ UNCHANGED poolVars

(* Stop or a canceled context: taskCtx of every worker ends with it, and   *)
(* the heartbeats with taskCtx.                                            *)
Shutdown(p) ==
  /\ proc[p] = "up" /\ outages < MaxOutages
  /\ outages' = outages + 1
  /\ proc' = [proc EXCEPT ![p] = "draining"]
  /\ beating' = [w \in Workers |-> beating[w] /\ ProcOf[w] # p]
  /\ UNCHANGED <<storeVars, pc, held, claimed, manualRetries>>

(* All workers of p are at s and have nothing in hand.                     *)
ResetWorkers(p, s) ==
  /\ pc' = [w \in Workers |-> IF ProcOf[w] = p THEN s ELSE pc[w]]
  /\ held' = [w \in Workers |-> IF ProcOf[w] = p THEN NoTask ELSE held[w]]
  /\ claimed' = [w \in Workers |-> IF ProcOf[w] = p THEN 0 ELSE claimed[w]]
  /\ beating' = [w \in Workers |-> beating[w] /\ ProcOf[w] # p]

(* The process ends after its drain: every worker returned, or             *)
(* shutdownTimeout passed and the goroutines die with the process.         *)
DrainEnds(p) ==
  /\ proc[p] = "draining"
  /\ proc' = [proc EXCEPT ![p] = "down"]
  /\ ResetWorkers(p, "exited")
  /\ UNCHANGED <<storeVars, outages, manualRetries>>

Crash(p) ==
  /\ proc[p] = "up" /\ outages < MaxOutages
  /\ outages' = outages + 1
  /\ proc' = [proc EXCEPT ![p] = "down"]
  /\ ResetWorkers(p, "exited")
  /\ UNCHANGED <<storeVars, manualRetries>>

(* A new process in the same place: same prefix, so the same worker ids.   *)
Restart(p) ==
  /\ proc[p] = "down"
  /\ proc' = [proc EXCEPT ![p] = "up"]
  /\ ResetWorkers(p, "idle")
  /\ UNCHANGED <<storeVars, outages, manualRetries>>
-----------------------------------------------------------------------------
(* Clients.                                                                *)

Insert(t) ==
  /\ \E d \in 0..MaxDelay : Create(t, d)
  /\ UNCHANGED poolVars

CancelTask(t) == Cancel(t) /\ UNCHANGED poolVars

RetryTask(t) ==
  /\ manualRetries < MaxManualRetries
  /\ manualRetries' = manualRetries + 1
  /\ RetryDead(t)
  /\ UNCHANGED <<proc, workerVars, outages>>

TimePasses == Tick /\ UNCHANGED poolVars

WorkerStep(w) ==
  \/ \E t \in Tasks : ClaimTask(w, t) \/ ClaimAnswerLost(w, t)
  \/ HandlerReturns(w) \/ TaskTimeout(w) \/ Beat(w) \/ Persist(w) \/ WorkerExit(w)

ProcStep(p) ==
  \/ \E S \in SUBSET Tasks : Reap(p, S)
  \/ Shutdown(p) \/ DrainEnds(p) \/ Crash(p) \/ Restart(p)

Next ==
  \/ \E w \in Workers : WorkerStep(w)
  \/ \E p \in Procs : ProcStep(p)
  \/ \E t \in Tasks : Insert(t) \/ CancelTask(t) \/ RetryTask(t)
  \/ TimePasses

Spec == Init /\ [][Next]_vars
-----------------------------------------------------------------------------
(* What the code schedules: worker and reaper goroutines keep running,     *)
(* contexts expire, drains end, a supervisor restarts what is down.  The   *)
(* store does not lock a stale row for ever.  Clients and crashes are free.*)
Fairness ==
  /\ WF_vars(TimePasses)
  /\ \A t \in Tasks : WF_vars(\E p \in Procs, S \in SUBSET Tasks : t \in S /\ Reap(p, S))
  /\ \A p \in Procs : WF_vars(DrainEnds(p)) /\ WF_vars(Restart(p))
  /\ \A w \in Workers :
       /\ WF_vars(\E t \in Tasks : ClaimTask(w, t))
       /\ WF_vars(TaskTimeout(w))
       /\ WF_vars(Persist(w))

(* Nothing is assumed of handlers: they may hang for ever.                 *)
FairSpec == Spec /\ Fairness
-----------------------------------------------------------------------------
Budget(t) == IF MaxRetries[t] = 0 THEN 1 ELSE MaxRetries[t]

(* A task is never attempted more often than max_retries allows (once if   *)
(* it is 0), and one that waits for another attempt has one left, whatever *)
(* is lost, reaped or restarted between claim and result.                  *)
AttemptsWithinBudget ==
  \A t \in Tasks :
    /\ attempts[t] <= Budget(t)
    /\ status[t] = "PENDING" => attempts[t] < Budget(t)

(* While the row still bears a worker's id, the attempts that worker read  *)
(* when it claimed are the row's: handleFailure may decide by its copy.    *)
SnapshotCurrent ==
  \A w \in Workers :
    Executing(w) /\ Owns(held[w], WorkerID[w]) => claimed[w] = attempts[held[w]]

(* The inductive invariant behind the two: a RUNNING row has used at least *)
(* one attempt, and an attempt is claimed only while one is left.          *)
BudgetInv ==
  /\ AttemptsWithinBudget
  /\ SnapshotCurrent
  /\ \A t \in Tasks : status[t] = "RUNNING" => attempts[t] > 0
  /\ \A t \in Tasks : status[t] = "ABSENT" => attempts[t] = 0

(* The worker that finishes the current attempt at t in this step.         *)
FinishesAttempt(w, t) ==
  /\ held[w] = t /\ pc[w] \in Persisting /\ pc'[w] = "idle"
  /\ claimed[w] = attempts[t]

(* A RUNNING row is ended only by the worker whose claim made the current  *)
(* attempt, or by a reaper after its lock expired: the result of a worker  *)
(* whose task was requeued meanwhile is refused (ErrTaskOwnershipLost).    *)
OnlyOwnerOrReaperEnds ==
  [][\A t \in Tasks : status[t] = "RUNNING" /\ status'[t] # "RUNNING" =>
       \/ \E w \in Workers : FinishesAttempt(w, t)
       \/ Stale(t) /\ UNCHANGED poolVars]_vars

Lifecycle == INSTANCE TaskLifecycle
  WITH Refusable <- {t \in Tasks : \E p \in Procs : t \notin Registered[p]}

(* The pool implements the promised life of every task: final states stay  *)
(* final, retries stay within the budget, a task dies only with its budget *)
(* spent or unhandled, and is canceled only while PENDING (against the     *)
(* diagram at README.md:35, which cancels RUNNING tasks too).              *)
KeepsLifecycle == Lifecycle!Spec

(* No task stays RUNNING for ever: not when its worker dies, its claim's   *)
(* answer is lost, its result cannot be saved, or its handler hangs.       *)
NoTaskStuckRunning ==
  \A t \in Tasks : []<>(status[t] # "RUNNING")

(* If every handler returns in the end, every task that was inserted ends  *)
(* COMPLETED, DEAD or CANCELED and stays there, once retries by hand stop. *)
EveryTaskSettles ==
  (\A w \in Workers : WF_vars(HandlerReturns(w))) =>
  <>[](\A t \in Tasks : status[t] \notin {"PENDING", "RUNNING"})
=============================================================================
