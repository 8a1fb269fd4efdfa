# A TLA+ model of dhara

dhara is a task queue on PostgreSQL: clients insert tasks, worker processes claim
and execute them, failed attempts are retried with backoff until a budget is spent,
and reapers take back the tasks of workers that stopped giving signs of life. A
playground process shows the queue to visitors: it limits what they may do, kills a
worker on request to demonstrate the recovery, and deletes old tasks. These modules
model the queue, the requests that act on it and the concurrent parts of the
playground; TLC checks them on small instances and TLAPS proves the safety properties
for every value of the constants. File names below are relative to the repository.

## The system and what models it

| Part | Source | Modules | State |
|---|---|---|---|
| Task store | `internal/store/task_store.go`, `migrations/` | `TaskStore`, `TaskStoreProofs` | every transaction that changes rows |
| Worker pool | `internal/worker/`, `worker.go` | `WorkerPool`, `WorkerPoolProofs` | complete up to real time |
| Promise to the user | `types.go`, README lifecycle | `TaskLifecycle` | abstract specification |
| Cancel and retry requests | `client.go`, `cmd/server/task_handler.go` | `ClientRequests`, `ClientRequestsProofs` | from the request to its answer, with the connection pool |
| Enqueue and idempotency | `client.go`, `types.go`, `internal/store/task_store.go` | `Enqueue`, `TaskTable`, `EnqueueProofs` | from the parameters to the commit, own and caller-owned transactions; `TaskTable` is the abstract specification |
| Payload hash | `internal/store/hash_utils.go` | `PayloadHash` | the canonical text; SHA-256 is taken as injective |
| Playground depth cap | `internal/playground/service.go` | `PlaygroundCapacity`, `PlaygroundCapacityProofs` | complete |
| Rate limiter | `internal/playground/ratelimit.go` | `RateLimiter`, `TokenBucket`, `AdmissionProofs` | complete; `TokenBucket` is its abstract specification |
| Admission of mutations | `internal/playground/http.go`, `session.go` | `Admission`, `AdmissionProofs` | both limiters, header, input checks, service call |
| Crash demonstration | `internal/playground/crash.go`, `app.go` | `CrashDemo`, `CrashDemoProofs` | demo, child processes, watchers, reaper, shutdown |
| Retention | `internal/playground/store.go` | `Retention`, `TaskArchive`, `RetentionProofs` | the sweep statement by statement; `TaskArchive` is its abstract specification |
| Listing, metrics export, configuration, mains, migrations | `cmd/`, `internal/config/`, ... | - | see "Not modelled" |

`TaskStore` is the bottom. `WorkerPool` extends it: its actions conjoin a store
action with the change of a goroutine. `ClientRequests` extends `WorkerPool` and
replaces its two client actions, each one step there, by what the code really does
over several. `WorkerPool` implements `TaskLifecycle` (`KeepsLifecycle`), and
`ClientRequests` implements `WorkerPool` (`RequestsImplementPool`). `Admission`
extends `RateLimiter`, uses two limiters and implements their specification
(`AdmissionRefinesLimiters`); `RateLimiter` implements `TokenBucket`
(`ActsAsBucket`). `Retention` implements `TaskArchive` (`ActsAtOnce`) and `Enqueue`
implements `TaskTable` (`SubmitsAtOnce`).
`MCEnqueue` composes `Enqueue` with `PayloadHash`. The other modules
stand alone and keep of the queue only what they need: `PlaygroundCapacity` the
statuses, `CrashDemo` the tasks of the demos, `Retention` statuses, letters and logs.
`Enqueue` and `Retention` open up transactions that are one step in `TaskStore`.

### TaskStore

One row per task: `status`, `attempts`, `lockedBy`; `lockAge` and `delay` stand for
`locked_at` and `run_at` relative to now. `deadLetters` counts the `dead_letters`
rows of the task and `logs` lists the statuses of its `task_logs` rows. Each
operation is one committed transaction with everything it writes: `Create`,
`Cancel`, `Claim`, `Heartbeat`, `MarkCompleted`, `MarkPending`, `MarkDead`,
`RetryDead`, `RequeueStaleRunning`. A transaction that rolls back is no step.
PostgreSQL keeps the row locked from the UPDATE to the commit, which is why one step
per transaction is sound for these: each one writes rows it has locked, and its
WHERE clause is evaluated on the row as it is when the lock is granted.
`FOR UPDATE SKIP LOCKED` lets a query pass over rows, so `Claim` may take any due
row (priority order is a preference among unlocked rows) and a reaper run may take any
subset of the stale rows. The audit trail is read back by `Replay`: the last status of
the log, and the claims since the last revival.

### WorkerPool

Per worker goroutine: `pc`, `held` (the claimed task), `claimed` (the attempts the
claim returned) and `beating` (the heartbeat goroutine). `ClaimTask` is the loop of
`Start` up to the handler, `HandlerReturns` is `runTaskHandler`, `Persist` the store
call and the way back to the loop; heartbeats, the end of `taskCtx`, and time run in
between. A store call may fail before or after it takes effect: `ClaimAnswerLost`
is a claim whose commit succeeded without the worker learning it, and `Persist` may
leave the row alone or record the result, with the same consequences for the worker.
Per process: `up`, `draining` (the context is canceled: no more heartbeats, results
still saved because `persistContext` is fresh), `down`. `Crash` may happen at any
time; a restarted process has the same worker ids.

### ClientRequests

`Cancel` and `RetryDead` begin a transaction (one connection), run the UPDATE and,
if it matched no row, call `GetById` through the pool, which needs a second
connection, keeps it for its SELECT and sees a later snapshot. Requests go through
`unsent`, `arriving`, `begun`, `lookup` (waiting for the second connection), `reading`
(holding both), `answered`; `free` counts the idle connections; `HTTPStatus` is
the switch of the two handlers. Workers use a pool of their own in another process.

### PlaygroundCapacity

A request locks `enqueueMu`, reads the depth and inserts its tasks one by one; a
retry reads its task before it locks, and checks the depth only if the task was DEAD
then. `QueueMoves` is everything else that changes a status, retention included.

### Enqueue and PayloadHash

A call of `Insert` or `InsertTx` normalises and validates its parameters, hashes the
payload, sends the INSERT and, if that returns no row, looks the existing task up in the
same transaction. `tx` is the transaction of each call: `Create` opens one for a single
call (`Own`), callers share one among several. A row goes from `written` to `stored` or
`undone` with its transaction, and may be `deleted` later. The unique index is external:
an INSERT waits while another transaction has written its key, goes on with what that
transaction left, and a cycle of waits ends with a failure of one statement. Most errors
abort the transaction, but pgx can also give a statement up before it sends it, because
the context of the call is done, and leave the transaction as it was (`GiveUp`).
`InsertFails` follows the code: an error that is not ErrNoRows counts and reports a
created task. `HashFails` is the early return for a payload that cannot be hashed; one
that jsonb refuses fails at the INSERT. `answer` is what the owner of the transaction
learns from its commit, which may fail after it took effect. `enqueued` is
`TasksEnqueuedTotal`. `TaskTable` is what is left for those who look from outside: a
transaction ends once, and in that step its tasks appear and its callers are told of
theirs or of the stored one they repeat. Statements, waits, conflicts and failures
before that are stutters.

`PayloadHash` defines the canonical text of a JSON value as a sequence of tokens:
objects become maps (the last of repeated keys wins), keys are sorted, and numbers are
rounded to a mantissa of `Mantissa` bits as float64 rounds to 53; one beyond `MaxFloat`
is an error. `SameValue` is the reference definition, stated without any text and
without rounding: numbers are equal when they are the same number.

### RateLimiter, TokenBucket and Admission

`Grant` and `Deny` are the two outcomes of `Allow`, each with the collection of idle
buckets, the creation of a missing one and the refill that precede it; `mu` makes them
one step. Tokens are counted in fractions so that refills are whole numbers.
`TokenBucket` has a bucket for every key from the start; one that nobody asked for
during more than a window may be forgotten, and is then full. Nothing in `config.go`
makes the rate fill the burst within the window, so forgetting can be a gift, and
`Allowance` counts it: a burst, the rate, and for each idle window that fits into the
period what a forgotten bucket can have lacked (`Surplus`, nothing with the default
limits). An observer may start to count at any moment (`Observe`), so that `WithinBurst`
is about every period and not only about those that start at zero.

`Admission` follows a request of a client through `checkMutation` (IP, header,
session) to the handler's input checks and the service; requests interleave between
the two limiters.

### CrashDemo

Goroutines: each demo (`pc`, `held`), the watcher of each child, the reaper loop,
`App.Run` and `Close` (`app`, `closing`). `killWorker` is three steps (taking the
handle, the signal, the wait), `waitFor` any poll that matches or its deadline. A
demo clears `m.running` before its deferred respawn, so the next demo can start in
between. Children claim, complete and fail; they share one worker id, so a write is
guarded by the status alone, and a failure is judged by the attempts the child read at
its claim (`seen`). A killed child may still have a statement on its way, and children
survive the playground. `mishaps` counts what need not happen: a child that exits or
cannot be spawned, a failed handler, a statement that fails or whose answer is lost, a
lease that gets stale under a living child, a request that outlives `server.Shutdown`
and reaches `Start` after `Close`.

### Retention

The sweep runs DELETE on `dead_letters`, `task_logs` and `tasks`; each statement takes
its own snapshot, waits for locked rows and looks at them again. A transaction of the
store locks its task (`Update`), deals with the dead letter (`SettleLetter`) and
commits with its log row (`CommitWriter`). `ForeignKeyFails` is the DELETE of a task
that still has a log row or a letter; `DetectDeadlock` is PostgreSQL's. `TaskArchive`
is what readers of `tasks` and `dead_letters` see: a task moves along its lifecycle
with its letter, or a sweep deletes some tasks with their letters and leaves the others
alone, in one step. It says nothing of `task_logs`, where no such promise holds: a
task that is claimed between the statements of a sweep survives without its earlier
log rows, which no serial order of the transactions gives. `LatestLogKept` is what
remains true there.

## What TLC checks

| Run | Shows | Bounds |
|---|---|---|
| `pool` | Locks, statuses and dead letters agree (`TablesAgree`); the log explains the row (`LogExplainsRow`); `AttemptsWithinBudget`; `SnapshotCurrent`; late results are refused (`OnlyOwnerOrReaperEnds`); refinement of `TaskLifecycle` (`KeepsLifecycle`); `NoTaskStuckRunning` although handlers may hang; `EveryTaskSettles` if they return | 2 tasks (`max_retries` 0 and 2), 2 processes with 1 worker each, one of them without a handler for the first task, 1 outage, 1 manual retry |
| `shared_prefix` | violation: two processes with one prefix exceed the budget | 1 task |
| `requests` | `ConnectionsBalance`, `CanceledForGood`, `OneRetryPerDeath`; with more connections than requests `EveryRequestAnswered`, although lookups may wait for each other | 1 task, 1 worker, a cancel and two retries, 4 connections |
| `cancel_race` | violation: a cancel is answered 500 | 1 cancel |
| `pool_exhausted` | violation: cancels wait for each other's connections | 2 cancels, 2 connections |
| `capacity` | `CapacityReserved`, `EveryRequestAnswered` | burst of 2, a create, a retry, cap 2, 3 tasks |
| `cap_exceeded` | violation: an unchecked retry exceeds the cap | the same |
| `admission` | `ActsAsBucket` (refinement), `WithinBurst`, `RetryAfterHonest`, `MutationsLimited` | 2 clients, 1 IP (burst 2), 1 session (burst 1), 4 ticks, collection after more than 1 idle one |
| `enqueue` | `OneTaskPerKey`, `AcknowledgedIsStored`, `ReplaysAgree`, `CountNeverBehind`, `OnlyFaultsFail`, `ReplaysNeverAbort`, `ReplayMeansSameValue`; refinement of `TaskTable` (`SubmitsAtOnce`); `EveryCallReturns` | 6 calls in 3 transactions, 2 keys, 6 payloads, 1 transaction that meets faults, 1 deletion |
| `enqueue_error` | violation: a caller's transaction commits without the task it was told is created | the same |
| `crash_demo` | `SingleFlight`, `EveryChildTracked`, `CompletedMeansRecovered`, `WorkerLeft`, `OnlyLateFailuresOverdraw`, `ShutdownStaysClean`; `EveryDemoEnds` | 2 demos, 3 children, 1 mishap, a shutdown |
| `retention` | `TablesStayJoined`, `LatestLogKept`, `OnlyIdleDeleted`; refinement of `TaskArchive` (`ActsAtOnce`); `NobodyWaitsForever` | 2 tasks, 5 transactions on each, 1 sweep |

Why the bounds are enough for the questions asked:

- `pool`: ownership and the budget need two workers that take turns at one task with a
  reaper between them, which two workers and a budget of two allow; the boundary is
  covered by `max_retries` 0, which means one attempt. A second task lets a worker go
  on while its earlier task is reaped. One outage is a crash or a drain at every point
  of an execution, and the manual retry makes a task die twice. Ages saturate above
  the reaper's threshold because no query tells larger ones apart.
- `requests`: three requests for one task give every pair of kinds that can race, and
  with four connections all three can wait for a lookup at once, with one to share.
  Requests for an unknown id are possible in the model and in the proofs; the run
  leaves them out because they only add an answer.
- `admission`: four ticks are more than a refill of the session's bucket and than the
  window after which an idle bucket is collected, so that a key comes back just before
  and just after its bucket is old enough. The window fills the bucket of the session
  and is too short for that of the IP, so both kinds of collection happen.
- `enqueue`: caller transactions that take two keys in opposite orders are the smallest
  deadlock; one of them inserts a key twice, the POST replays or conflicts with either.
  The payloads differ in member order and repetition, in a number that rounds to its
  neighbour, in array order and type; one cannot be hashed, one not stored. The POST's
  parameters are unset, at their limits or past one.
- `crash_demo`: two demos are needed for the deferred part of one to meet the other;
  three children let both complete, or a late respawn of the first replace the child
  that the second has killed. One mishap is each of the failures above at every moment;
  several are left to the theorems.
- `retention`: five transactions let a task be claimed, die, be retried and be claimed
  again within a sweep. A second sweep starts from a state that the first one left
  consistent; the theorems do not bound the sweeps.

The theorems below hold without any of these bounds. The deadlock check is off where
the system stops for good: finitely many requests, calls, demos or transactions, or the
end of the clock's bound.

### Fairness

`WorkerPool!Fairness`: time passes; tickers keep worker loops and reapers going
(weak fairness of claiming, of saving a result, and of some reaper taking a row that
stays stale: SKIP LOCKED passes over a row only while another transaction has it);
contexts reach their deadline; a drain ends by its timeout; a process that is down is
started again by its supervisor. Nothing is assumed of clients, crashes, heartbeats or
handlers; that handlers return is a premise of `EveryTaskSettles` alone.
In `ClientRequests` a request proceeds when it can; clients need not give up and the
server sets no deadline. In `PlaygroundCapacity` a request proceeds when it can;
`sync.Mutex` hands over to a waiter that has starved.
`EnqFairSpec`: statements end and transactions are ended by their owners (`Create`
defers a Rollback); a call need not be made. `CrashFairSpec`: the goroutines of the
demos run and their timers fire; nothing is assumed of children, watchers, the reaper
or the shutdown. `RetFairSpec`: a transaction that can go on does, and PostgreSQL's
deadlock detector runs; nobody has to start one.

## What the violations show

- `shared_prefix`: `worker_pool.go:73` builds worker ids from prefix and number. With
  one prefix, the late failure of a reaped attempt passes for the failure of the
  current one and is judged by the old attempt count: the task waits for an attempt
  that `max_retries` does not allow. The theorems on the budget assume
  `UniqueWorkerIDs`, and this run shows that they need to. What holds without it is
  `AttemptsNotShared`: until a retry by hand, no two workers execute the same attempt.
- `cancel_race`: `Cancel` misses a RUNNING row, the row returns to PENDING, and the
  lookup finds it so; the handler has no case for it and answers 500. `OnlyRaceSurprises`
  proves that behind every 500 to a cancel that did not fail is a task that had been
  claimed before and was back in the queue at the lookup.
- `pool_exhausted`: every connection is held by a request that waits for another one.
  `OnlyLookupsDeadlock` proves that requests block each other in no other way. With more
  connections than requests one can always go on, which `requests` checks.
- `cap_exceeded`: `RetryOwned` decides by a status it read before the mutex. By
  `CapHardWithoutRetries` nothing else exceeds the cap.
- `enqueue_error`: `insertTask` takes every error but ErrNoRows for success, so that
  `InsertTx` hands out a created task without id. If the INSERT reached the database the
  caller learns of it at the latest when its commit fails. If it was never sent, because
  the context of that call was done, the commit succeeds and the task is missing.
  `AcknowledgedIsStored` names this as the only exception, and `FalseCreatedExplained`
  proves that such a result always has a cause and never survives the commit of `Insert`.

More disagreements with comments and documents, which the models show or decide and
for which there is no run of their own:

- `crash.go:183-184` says of a shutdown that "Close handles the child". A spawn that
  passed its look at the context before `Close` took the handle leaves a child that
  nobody kills; so does a demo that took the handle and is gone before it signals.
  `ShutdownStaysClean` bounds this: once no demo is past its last look at the context,
  `Close` controls every living child, and `ShutdownLeavesNone` proves that none is
  alive after a `Close` that began so, as long as no request that outlived
  `server.Shutdown` starts another demo.
- The diagram in the repository's `README.md` (line 35) has `RUNNING --> CANCELED :
  Canceled via API`. The code cancels only PENDING rows (`task_store.go:250`), as
  `README.md:354` ("Returns `409 Conflict` if the task is currently `RUNNING`") and
  `client.go:112` ("CancelTask cancels a PENDING task.") say. `TaskLifecycle` follows the
  code, so `KeepsLifecycle` contradicts the diagram.
- `types.go:187-189` and `errors.go:7-8` promise ErrTaskConflict for a different payload.
  `hashPayload` reads numbers as float64, so payloads that differ only in integers beyond
  2^53 that round alike replay instead. `ReplayMeansSameValue` excepts exactly these.
- The children of the crash demonstration share one worker id, as the processes of
  `shared_prefix` do, with the same effect: a late failure of a child whose claim was
  superseded can requeue a task whose attempts are spent. `OnlyLateFailuresOverdraw`
  says that nothing else can.
- The migration calls `task_logs` an append-only audit trail. A task that is PENDING
  when the sweep deletes log rows and RUNNING when it deletes tasks survives without
  its earlier rows; `LatestLogKept` is what remains true.

## What is proved

For all sets of tasks, workers, processes and keys, finite sets of requests, calls and
clients, any budgets, thresholds and bounds (the assumptions are the named `ASSUME`s of
the modules):

- `TaskStoreProofs`: `StoreTypeCorrect`, `TablesAlwaysAgree` and `LogsAlwaysExplain`,
  for callers that make the store calls in any order with any worker id. The last one
  avoids recursion over the log: `Replay` counts positions, and the lemmas
  `AppendedLog` and `ReplayedEntry` say what one more entry does to the count.
  `TrailsArePaths`: read from its beginning, a log is a path through the state machine
  of the migration; the invariant adds that its last entry is the row's status.
  `TrailsOnlyGrow`: nothing but the end of a log is ever written. Both hold of the pool
  by `PoolImplementsStore`.
- `WorkerPoolProofs`: `TypeCorrect`, `PoolTablesAgree`, `PoolLogsExplain`; and, with
  `UniqueWorkerIDs`, `AttemptsStayWithinBudget`, `SnapshotStaysCurrent`,
  `StaleResultsRefused`, `PoolImplementsLifecycle`. The invariant behind the last four
  is `BudgetInv`. The budget alone is not inductive: `handleFailure` puts a row back to
  PENDING because of the attempts the worker remembers, so the proof needs that they are
  the row's attempts whenever the store accepts the result, i.e. whenever the row is
  RUNNING under that worker's id. That holds because only a claim by this worker could
  have written the id again, and it is where unique ids are used. `PoolImplementsStore`:
  every step of the pool is an operation of the store or leaves the tables alone.
  `WorkIsBounded` (unique ids): `WorkLeft` counts the moves a row has left within its
  budget, and every change of a status but an insert or a retry by hand lowers it.
  `LocksAgeWithoutHolder`: while a row stays RUNNING its lock gets younger only by a
  heartbeat of the worker that holds the task. `AttemptsNotShared` needs no unique ids:
  by `AttemptInv` a worker that executes a task remembers an attempt count that the row
  has reached, and a claim always passes it. `FinalStatusEarned` (unique ids) says what
  a final status stands for: COMPLETED is written only when a registered handler
  returned nil in the current attempt, DEAD only when the last attempt failed or its
  lock expired, or the worker had no handler; it combines `BudgetInv` with where the
  worker took its task from (`HandledIsKnown`). `NoWorkerLost` needs no unique ids: a
  process that is up has no worker missing, nothing runs in one that is down, and
  heartbeats end with the beginning of a shutdown.
- `ClientRequestsProofs`: `RequestsImplementPool` (every step of the requests is a step
  of the pool or leaves it alone), `RequestsKeepPromises` (so the pool's properties hold
  with requests; unique ids), `RequestTypesCorrect`, `ConnectionsAlwaysBalance`,
  `CancelIsForGood`, `RetriesMatchDeaths` (a confirmed retry and the revival in the log
  come in one step, and no other step removes a revival), `OnlyLookupsDeadlock` (by
  counting the connections that waiting requests hold), `RequestsAnsweredOnce`,
  `OnlyRaceSurprises` (a lookup follows an UPDATE that missed, so the row had left
  PENDING, and its log shows the claim).
- `PlaygroundCapacityProofs`: `CapacityTypesCorrect`, `CapacityAlwaysReserved`, for
  requests of any size. `CapInv` adds to the types that a request that was not
  admitted has all its tasks left and that an admitted one has some; the depth grows
  by at most one task per step, and a retry that skipped the check adds itself to
  `Unchecked` in the step in which it brings its task back. `CapHardWithoutRetries`
  follows for requests that are no retries. `RequestsAdvance`: a request goes
  forward only, and in the mutex each insert lowers the number of tasks it has left.
- `AdmissionProofs`, for any bursts, rates and windows: `LimiterRefines` (what is
  collected had been idle for more than the window), `LimiterBounded` (a collected bucket
  lacks at most `Surplus`, and the key has to stay away for a window to gain it again),
  `CollectionUnnoticed` (a rate that fills the burst within the window makes that
  nothing), `LimiterHonest`, `RefusalsDeserved` (a
  refused key has itself spent the tokens it lacks), and for the handlers
  `AdmissionRefinesLimiters`, `AdmissionTypesCorrect`, `ServedLimited`: what was served,
  plus the requests that were charged and not answered, is covered by what the
  limiters granted.
- `EnqueueProofs`: `EnqTypesCorrect`, `KeysUnique`, `ReplaysHarmless`,
  `AcknowledgementsHold`, `ReplaysSound`, `FailuresCaused`, `CounterCovers`, from
  `EnqInv`, which says of every result what it tells about the row: a created task
  is written in its transaction, or the transaction is aborted, or a fault of a caller's
  transaction kept the statement from being sent; and a replay was handed a row that was
  stored or of its own transaction. From the same invariant `BatchesAtomic` and
  `FalseCreatedExplained`. `ReplaysJudged`: if payloads with the same value have the same
  hash they never conflict, and if equal hashes make payloads alike, a replay is of a
  payload like its own.
  `SubmissionsAdvance`, and `SubmissionsNeverStuck` for any number of transactions and
  keys: if every transaction waits for another, a smallest set of transactions that wait
  for one of the set is a circle (`CycleFound`), which the database ends.
  `SubmissionsImplementTable`: only the end of a transaction and a deletion show in
  `TaskTable`. The step that ends one needs from `EnqInv` that two written or stored rows
  never share a key, and that the task of an acknowledged caller has the caller's key
  and is stored, or was stored and has been deleted (`Relied`).
- `CrashDemoProofs`: `CrashTypesCorrect`, `DemosSingleFlight`, `ChildrenTracked`,
  `CompletionsRecovered`, `DemosLeaveWorker`. `CrashInv` adds who may hold which
  handle, and what each stage of a demo has already established: after the wait the
  killed child is gone, so a task that is claimed later is claimed by another.
  `OverdraftsExplained` needs `SnapshotsInStep`: what a child remembers of its claim is
  the row's attempts while it is the last to have claimed the task, and never more
  than these; so a failure that requeues with the attempts spent is a late one.
  `DemosAdvance` orders the stages of
  `runDemo`, at most 13 steps of a demo; `KillsSpareCurrent` says that taking the handle
  clears `m.proc`, so that a late kill hits only the child that was taken.
  `CloseStaysInCharge`: after the context is canceled a demo reaches a spawn or a handle
  only from where it had already looked, so `CloseOwnsAll` is never lost while no demo
  is started;
  `ShutdownLeavesNone` follows, since at its beginning every living child that no demo
  holds is in `m.proc`.
- `RetentionProofs`: `RetTypesCorrect`, `SweepsKeepTablesJoined`,
  `SweepsKeepLatestLog`, `SweepsSpareRunning`. `RetInv` adds which rows the sweep has
  locked at each stage, that a log it has emptied belongs to a task that was not RUNNING,
  and that it deletes a task only with its letter and its last log row.
  `SweepsSerializable`: tasks and letters as committed transactions left them change as in
  `TaskArchive`; a statement of an open transaction is a stutter, since the rows it
  touched stay locked until the commit. `SweepsNeverStuck`: whoever waits does so for
  somebody who can go on, or in a cycle of the sweep and one transaction, which
  the detector ends. `SweepsAdvance`: sweep and transactions go forward only.

Only model-checked: all liveness (`EveryTaskSettles`, `NoTaskStuckRunning`,
`EveryRequestAnswered`, `EveryCallReturns`, `EveryDemoEnds`, `NobodyWaitsForever`):
fairness and ENABLED are out of the prover's reach. Of most of them the part that is a
safety property is proved, for every instance: that steps only go forward or use up a
bounded amount of work (`WorkIsBounded`, `RequestsAnsweredOnce`, `RequestsAdvance`,
`SubmissionsAdvance`, `DemosAdvance`, `SweepsAdvance`), and that somebody can always
go on (`SubmissionsNeverStuck`, `SweepsNeverStuck`, `OnlyLookupsDeadlock`) or is there
to do so (`NoWorkerLost`). What is left
to TLC is that fair scheduling turns these into progress. `ReplayMeansSameValue` is
reduced by `ReplaysJudged` to the hash telling values apart; that it does is checked by
TLC, because the canonical text is defined by recursion over JSON. Only proved: the
type invariant of every module, and the properties defined in the `*Proofs` modules,
which no run repeats.

## Abstractions

- In the queue payloads, types, keys, messages and durations are left out; a task is
  its id. `Enqueue` keeps keys and payload hashes, and of parameters their lengths.
- Backoff is any delay up to the cap of `computeBackoff`.
- The clock is the database's: `locked_at` and `now()` come from it. `run_at` of a
  retry comes from the worker's clock; skew is not modelled.
- Intervals are not compared: a healthy worker may be reaped here, whatever
  `config.Validate` demands of heartbeat and threshold. The properties hold all the same.
  In `CrashDemo` a lease gets stale at any time when no living child executes the
  task, and as a mishap when one does.
- The status of an answer is modelled where a property is about it (`HTTPStatus`), not
  in `Admission`.
- Operators named in a comment as `Mutant` are faulty variants of the definition that
  follows them. No specification uses them; each shows that a property can fail.

## Not modelled

- `List`, `GetById` on its own, the queue gauges and the playground's snapshots: SELECTs
  that change nothing, whose content is their SQL text and the view they format.
- The order in which `Claim` prefers due rows: with SKIP LOCKED it is no guarantee when
  claims overlap, and no property of the queue rests on it.
- Metrics other than `tasks_enqueued_total`: counted after a call returned, and read
  only by the exporter.
- Configuration, validation of playground payloads, session identifiers, demo
  handlers: checks on strings and numbers without state.
- The mains of server, worker, playground and migrate, logging and connection setup:
  wiring and I/O. What their signals do is in `WorkerPool` and `CrashDemo`.
- Migrations: a thin layer over the library `vow`, where their state lives.
- `readLimiter`: a third limiter of the same kind, asked alone.
