------------------------------ MODULE CrashDemo ------------------------------
(***************************************************************************)
(* The playground's crash demonstration (internal/playground/crash.go) and *)
(* the shutdown of the playground that closes it (app.go).                 *)
(*                                                                         *)
(* Goroutines of the manager interleave: each demo (runDemo, whose         *)
(* deferred part outlives its claim to be the running demo), the watcher   *)
(* of each child process, the reaper loop, and Close.  Children are        *)
(* processes: they work on the tasks until they are gone, and may outlive  *)
(* the manager.  A child that was sent a kill may still have a statement   *)
(* on its way.  Time is abstract: a timer may fire whenever it is awaited, *)
(* and a lease is stale when nobody renews it, or when the heartbeats of   *)
(* whoever does were lost.                                                 *)
(***************************************************************************)
EXTENDS Naturals

CONSTANTS
  MaxDemos,     \* bound: demos started
  MaxChildren,  \* bound: child processes spawned
  MaxMishaps    \* bound: failed spawns, statements and handlers, lost
                \* heartbeats and children, a request that outlives Shutdown

ASSUME CrashAssumption ==
  MaxDemos \in Nat /\ MaxChildren \in Nat /\ MaxMishaps \in Nat

Demos == 1 .. MaxDemos
Children == 1 .. MaxChildren
Nobody == 0        \* no child, no demo
MaxRetries == 2    \* of the demo's task

VARIABLES
  app,       \* the playground: "serving", "stopping", then Close: "closing",
             \* "signaling", "closed", and "exited"
  canceled,  \* m.ctx is canceled
  running,   \* m.running
  started,   \* demos started; the last one is the one status shows
  phase,     \* m.status.Phase
  pc,        \* where the goroutine of each demo is
  held,      \* the handle each demo took from m.proc in killWorker
  closing,   \* the handle Close took
  proc,      \* m.proc
  spawned, child,           \* children spawned, and each: "alive", "killed", "gone"
  status, attempts, owner,  \* the task of each demo
  exec, seen,               \* the demo whose task each child executes, and the
                            \* attempts its claim returned
  mishaps

procVars == <<proc, spawned, child>>
taskVars == <<status, attempts, owner, exec, seen>>
appVars == <<app, canceled, closing>>
crashVars == <<app, canceled, running, started, phase, pc, held, closing, proc, spawned, child,
               status, attempts, owner, exec, seen, mishaps>>

(* Between Start and the deferred function that clears m.running.          *)
Running(d) == pc[d] \in {"spawn", "insert", "claim", "swap", "signal", "wait", "reap", "respawn", "finish",
                         "ending"}

CrashTypeOK ==
  /\ app \in {"serving", "stopping", "closing", "signaling", "closed", "exited"}
  /\ canceled \in BOOLEAN /\ running \in BOOLEAN
  /\ started \in 0 .. MaxDemos
  /\ phase \in {"idle", "starting", "working", "completed", "failed"}
  /\ pc \in [Demos -> {"none", "spawn", "insert", "claim", "swap", "signal", "wait", "reap", "respawn", "finish",
                       "ending", "tail", "tailspawn", "done"}]
  /\ held \in [Demos -> Children \cup {Nobody}]
  /\ closing \in Children \cup {Nobody}
  /\ spawned \in 0 .. MaxChildren
  /\ proc \in 0 .. spawned
  /\ child \in [Children -> {"none", "alive", "killed", "gone"}]
  /\ status \in [Demos -> {"ABSENT", "PENDING", "RUNNING", "COMPLETED", "DEAD"}]
  /\ attempts \in [Demos -> Nat]
  /\ owner \in [Demos -> Children \cup {Nobody}]
  /\ exec \in [Children -> Demos \cup {Nobody}]
  /\ seen \in [Children -> Nat]
  /\ mishaps \in Nat

CrashInit ==
  /\ app = "serving" /\ canceled = FALSE
  /\ running = FALSE /\ started = 0 /\ phase = "idle"
  /\ pc = [d \in Demos |-> "none"]
  /\ held = [d \in Demos |-> Nobody] /\ closing = Nobody
  /\ proc = Nobody /\ spawned = 0
  /\ child = [k \in Children |-> "none"]
  /\ status = [d \in Demos |-> "ABSENT"]
  /\ attempts = [d \in Demos |-> 0]
  /\ owner = [d \in Demos |-> Nobody]
  /\ exec = [k \in Children |-> Nobody] /\ seen = [k \in Children |-> 0]
  /\ mishaps = 0

Goto(d, label) == pc' = [pc EXCEPT ![d] = label]
Mishap == mishaps < MaxMishaps /\ mishaps' = mishaps + 1

(* fail(message): the demo ends.                                           *)
Fail(d) == Goto(d, "ending") /\ phase' = "failed"

-----------------------------------------------------------------------------
(* A request can reach Start until Close: server.Shutdown waits for the    *)
(* handlers.  Only when Shutdown times out may one still be on its way.    *)
Visited ==
  \/ app \in {"serving", "stopping"} /\ UNCHANGED mishaps
  \/ app \in {"closing", "signaling", "closed"} /\ Mishap

(* Mutant: Start does not look at m.running.                               *)
StartAlways(d) ==
  /\ Visited
  /\ d = started + 1
  /\ started' = d /\ running' = TRUE /\ phase' = "starting"
  /\ Goto(d, "spawn")
  /\ UNCHANGED <<appVars, held, procVars, taskVars>>

(* Start refuses while a demo is running (ErrCrashBusy).                   *)
Start(d) ==
  /\ Visited
  /\ d = started + 1 /\ ~running
  /\ started' = d /\ running' = TRUE /\ phase' = "starting"
  /\ Goto(d, "spawn")
  /\ UNCHANGED <<appVars, held, procVars, taskVars>>

(* Mutant: spawnWorker does not look at m.proc.                            *)
SpawnWorkerAlways ==
  /\ spawned < MaxChildren
  /\ spawned' = spawned + 1 /\ proc' = spawned + 1
  /\ child' = [child EXCEPT ![spawned + 1] = "alive"]

(* spawnWorker: nothing to do if there is a child.                         *)
SpawnWorker ==
  \/ proc # Nobody /\ UNCHANGED procVars
  \/ /\ proc = Nobody /\ spawned < MaxChildren
     /\ spawned' = spawned + 1 /\ proc' = spawned + 1
     /\ child' = [child EXCEPT ![spawned + 1] = "alive"]

SpawnError ==
  /\ proc = Nobody
  /\ mishaps < MaxMishaps \/ spawned = MaxChildren
  /\ mishaps' = mishaps + 1
  /\ UNCHANGED procVars

Spawn(d) ==
  /\ \/ pc[d] = "spawn" /\ Goto(d, "insert")
     \/ pc[d] = "respawn" /\ Goto(d, "finish")
  /\ SpawnWorker
  /\ phase' = "working"
  /\ UNCHANGED <<appVars, running, started, held, taskVars, mishaps>>

SpawnFails(d) ==
  /\ pc[d] \in {"spawn", "respawn"}
  /\ SpawnError
  /\ Fail(d)
  /\ UNCHANGED <<appVars, running, started, held, taskVars>>

InsertTask(d) ==
  /\ pc[d] = "insert" /\ ~canceled
  /\ Goto(d, "claim")
  /\ status' = [status EXCEPT ![d] = "PENDING"]
  /\ UNCHANGED <<appVars, running, started, phase, held, procVars, attempts, owner, exec, seen, mishaps>>

(* Insert reports an error: the task is stored only if the answer was lost. *)
InsertTaskFails(d) ==
  /\ pc[d] = "insert"
  /\ (canceled /\ UNCHANGED mishaps) \/ (~canceled /\ Mishap)
  /\ status' \in {status, [status EXCEPT ![d] = "PENDING"]}
  /\ Fail(d)
  /\ UNCHANGED <<appVars, running, started, held, procVars, attempts, owner, exec, seen>>

(* waitFor: a poll that matches.  The states awaited, and where they lead. *)
Awaited(d) ==
  CASE pc[d] = "claim" -> [RUNNING |-> "swap", COMPLETED |-> "failed", DEAD |-> "failed"]
    [] pc[d] = "reap" -> [PENDING |-> "respawn", DEAD |-> "failed"]
    [] pc[d] = "finish" -> [COMPLETED |-> "completed", DEAD |-> "failed"]

Waiting(d) == pc[d] \in {"claim", "reap", "finish"}

Poll(d) ==
  /\ Waiting(d) /\ ~canceled
  /\ status[d] \in DOMAIN Awaited(d)
  /\ LET next == Awaited(d)[status[d]] IN
     IF next \in {"completed", "failed"} THEN Goto(d, "ending") /\ phase' = next
                                         ELSE Goto(d, next) /\ UNCHANGED phase
  /\ UNCHANGED <<appVars, running, started, held, procVars, taskVars, mishaps>>

(* Mutant: waitFor has no deadline.                                        *)
TimeoutNever(d) ==
  /\ Waiting(d) /\ canceled
  /\ Fail(d)
  /\ UNCHANGED <<appVars, running, started, held, procVars, taskVars, mishaps>>

(* waitFor: its deadline or the context.                                   *)
Timeout(d) ==
  /\ Waiting(d)
  /\ Fail(d)
  /\ UNCHANGED <<appVars, running, started, held, procVars, taskVars, mishaps>>

-----------------------------------------------------------------------------
(* killWorker takes the handle, then sends the kill, then waits.           *)
KillSwap(d) ==
  /\ pc[d] = "swap"
  /\ held' = [held EXCEPT ![d] = proc]
  /\ proc' = Nobody
  /\ IF proc = Nobody THEN Fail(d) ELSE Goto(d, "signal") /\ UNCHANGED phase
  /\ UNCHANGED <<appVars, running, started, spawned, child, taskVars, mishaps>>

(* Process.Kill of a process already waited for is an error.               *)
Signal(k) == child' = [child EXCEPT ![k] = IF @ = "gone" THEN "gone" ELSE "killed"]

KillSignal(d) ==
  /\ pc[d] = "signal"
  /\ Signal(held[d])
  /\ IF child[held[d]] = "gone" THEN Fail(d) ELSE Goto(d, "wait") /\ UNCHANGED phase
  /\ UNCHANGED <<appVars, running, started, held, proc, spawned, taskVars, mishaps>>

(* Mutant: killWorker returns without waiting for the process to exit.     *)
KillWaitNot(d) ==
  /\ pc[d] = "wait"
  /\ Goto(d, "reap")
  /\ UNCHANGED <<appVars, running, started, phase, held, procVars, taskVars, mishaps>>

KillWait(d) ==
  /\ pc[d] = "wait"
  /\ \/ child[held[d]] = "gone" /\ Goto(d, "reap") /\ UNCHANGED phase
     \/ Fail(d)      \* after three seconds
  /\ UNCHANGED <<appVars, running, started, held, procVars, taskVars, mishaps>>

(* The deferred function of runDemo.                                       *)
End(d) ==
  /\ pc[d] = "ending"
  /\ running' = FALSE
  /\ Goto(d, "tail")
  /\ UNCHANGED <<appVars, started, phase, held, procVars, taskVars, mishaps>>

(* Mutant: the respawn is left to the next demo.                           *)
TailCheckNone(d) ==
  /\ pc[d] = "tail"
  /\ Goto(d, "done")
  /\ UNCHANGED <<appVars, running, started, phase, held, procVars, taskVars, mishaps>>

(* Mutant: the deferred function does not look at the context.             *)
TailCheckAnyway(d) ==
  /\ pc[d] = "tail"
  /\ Goto(d, IF proc = Nobody THEN "tailspawn" ELSE "done")
  /\ UNCHANGED <<appVars, running, started, phase, held, procVars, taskVars, mishaps>>

TailCheck(d) ==
  /\ pc[d] = "tail"
  /\ Goto(d, IF ~canceled /\ proc = Nobody THEN "tailspawn" ELSE "done")
  /\ UNCHANGED <<appVars, running, started, phase, held, procVars, taskVars, mishaps>>

TailSpawn(d) ==
  /\ pc[d] = "tailspawn"
  /\ (SpawnWorker /\ UNCHANGED mishaps) \/ SpawnError
  /\ Goto(d, "done")
  /\ UNCHANGED <<appVars, running, started, phase, held, taskVars>>

-----------------------------------------------------------------------------
(* A child: claims, and what it persists.  All children sign with one      *)
(* worker id, so the WHERE clause only checks that the task is RUNNING.    *)
Works(k) == child[k] \in {"alive", "killed"}

(* The commit of a claim may succeed while its answer is lost.             *)
Claim(k, d) ==
  /\ Works(k) /\ exec[k] = Nobody
  /\ status[d] = "PENDING"
  /\ status' = [status EXCEPT ![d] = "RUNNING"]
  /\ attempts' = [attempts EXCEPT ![d] = @ + 1]
  /\ owner' = [owner EXCEPT ![d] = k]
  /\ \/ /\ exec' = [exec EXCEPT ![k] = d] /\ seen' = [seen EXCEPT ![k] = attempts[d] + 1]
        /\ UNCHANGED mishaps
     \/ Mishap /\ UNCHANGED <<exec, seen>>
  /\ UNCHANGED <<appVars, running, started, phase, pc, held, procVars>>

(* Mutant: no attempt budget.                                              *)
RequeueAlways(d, used) ==
  /\ status' = [status EXCEPT ![d] = "PENDING"]
  /\ owner' = [owner EXCEPT ![d] = Nobody]

(* Another attempt, or none is left: of the reaper, which reads the row,   *)
(* and of a failed handler, which goes by the attempts of its claim.       *)
Requeue(d, used) ==
  /\ status' = [status EXCEPT ![d] = IF used >= MaxRetries THEN "DEAD" ELSE "PENDING"]
  /\ owner' = [owner EXCEPT ![d] = Nobody]

HandlerReturns(k, d) ==
  /\ Works(k) /\ exec[k] = d
  /\ exec' = [exec EXCEPT ![k] = Nobody] /\ seen' = [seen EXCEPT ![k] = 0]
  /\ UNCHANGED <<appVars, running, started, phase, pc, held, procVars, attempts>>

(* MarkCompleted, which may also fail and leave the row to the reaper.     *)
Complete(k, d) ==
  /\ HandlerReturns(k, d)
  /\ \/ /\ status' = [status EXCEPT ![d] = IF @ = "RUNNING" THEN "COMPLETED" ELSE @]
        /\ UNCHANGED mishaps
     \/ Mishap /\ UNCHANGED status
  /\ UNCHANGED owner

(* handleFailure, whose statement may fail as well.                        *)
HandlerFails(k, d) ==
  /\ HandlerReturns(k, d)
  /\ Mishap
  /\ \/ status[d] = "RUNNING" /\ Requeue(d, seen[k])
     \/ UNCHANGED <<status, owner>>

(* A killed child dies; a child may also exit on its own.                  *)
Exits(k) ==
  /\ (child[k] = "killed" /\ UNCHANGED mishaps) \/ (child[k] = "alive" /\ Mishap)
  /\ child' = [child EXCEPT ![k] = "gone"]
  /\ exec' = [exec EXCEPT ![k] = Nobody] /\ seen' = [seen EXCEPT ![k] = 0]
  /\ UNCHANGED <<appVars, running, started, phase, pc, held, proc, spawned, status, attempts, owner>>

(* The watcher of a child clears m.proc if it is still the child's.        *)
Watch(k) ==
  /\ app # "exited"
  /\ child[k] = "gone" /\ proc = k
  /\ proc' = Nobody
  /\ UNCHANGED <<appVars, running, started, phase, pc, held, spawned, child, taskVars, mishaps>>

(* A child that lives and executes the task renews its lease, and with one *)
(* worker id for all it need not be the one that claimed it last.          *)
Renewed(d) == \E k \in Children : child[k] = "alive" /\ exec[k] = d

(* reaperLoop: RequeueStaleRunning.  It only sees the age of the lease.    *)
Reap(d) ==
  /\ app # "exited" /\ ~canceled
  /\ status[d] = "RUNNING"
  /\ (~Renewed(d) /\ UNCHANGED mishaps) \/ (Renewed(d) /\ Mishap)
  /\ Requeue(d, attempts[d])
  /\ UNCHANGED <<appVars, running, started, phase, pc, held, procVars, attempts, exec, seen>>

-----------------------------------------------------------------------------
(* App.Run leaves its select: on a signal, which cancels m.ctx too, or     *)
(* because the worker or the server stopped.                               *)
Stop ==
  /\ app = "serving" /\ app' = "stopping"
  /\ canceled' \in BOOLEAN
  /\ UNCHANGED <<running, started, phase, pc, held, closing, procVars, taskVars, mishaps>>

Close ==
  /\ app = "stopping" /\ app' = "closing"
  /\ canceled' = TRUE
  /\ UNCHANGED <<running, started, phase, pc, held, closing, procVars, taskVars, mishaps>>

CloseSwap ==
  /\ app = "closing"
  /\ closing' = proc /\ proc' = Nobody
  /\ app' = IF proc = Nobody THEN "closed" ELSE "signaling"
  /\ UNCHANGED <<canceled, running, started, phase, pc, held, spawned, child, taskVars, mishaps>>

(* ... and Close waits for the child, three seconds at most.               *)
CloseSignal ==
  /\ app = "signaling"
  /\ Signal(closing)
  /\ app' = "closed"
  /\ UNCHANGED <<canceled, running, started, phase, pc, held, closing, proc, spawned, taskVars, mishaps>>

(* main returns: the goroutines of the manager are gone, children are not. *)
Exit ==
  /\ app = "closed" /\ app' = "exited"
  /\ UNCHANGED <<canceled, running, started, phase, pc, held, closing, procVars, taskVars, mishaps>>

Demo(d) ==
  /\ app # "exited"
  /\ \/ Spawn(d) \/ SpawnFails(d) \/ InsertTask(d) \/ InsertTaskFails(d) \/ Poll(d) \/ Timeout(d)
     \/ KillSwap(d) \/ KillSignal(d) \/ KillWait(d) \/ End(d) \/ TailCheck(d) \/ TailSpawn(d)

Work(k) == \E d \in Demos : Claim(k, d) \/ Complete(k, d) \/ HandlerFails(k, d)

CrashNext ==
  \/ \E d \in Demos : Start(d) \/ Demo(d) \/ Reap(d)
  \/ \E k \in Children : Work(k) \/ Exits(k) \/ Watch(k)
  \/ Stop \/ Close \/ CloseSwap \/ CloseSignal \/ Exit

CrashSpec == CrashInit /\ [][CrashNext]_crashVars

(* The goroutines of the demos run, and their timers fire.                 *)
CrashFairSpec == CrashSpec /\ WF_crashVars(\E d \in Demos : Demo(d))

-----------------------------------------------------------------------------
(* One demo at a time: m.running is set exactly while one demo is between  *)
(* its Start and its deferred function, and it is the last one started,    *)
(* the one whose phase status shows.                                       *)
SingleFlight ==
  /\ running <=> \E d \in Demos : Running(d)
  /\ \A d \in Demos : Running(d) => d = started

(* A child that is alive can be reached by whoever has to kill it: it is   *)
(* m.proc, or a demo or Close has taken it from there and is about to      *)
(* signal it.  No sequence of spawns, kills, exits and late deferred       *)
(* functions leaves two children that both think they are current.         *)
EveryChildTracked ==
  \A k \in Children :
     child[k] = "alive" => \/ proc = k
                           \/ \E d \in Demos : pc[d] = "signal" /\ held[d] = k
                           \/ app = "signaling" /\ closing = k

(* A demo that reports completed has shown what it claims: its task was    *)
(* claimed again, by another process than the one the demo killed, which   *)
(* was gone before.                                                        *)
CompletedMeansRecovered ==
  phase = "completed" =>
     /\ status[started] = "COMPLETED" /\ attempts[started] >= 2
     /\ held[started] \in Children /\ child[held[started]] = "gone"
     /\ owner[started] # held[started]

(* When the last demo is over it has left a living worker behind for the   *)
(* next one, unless the playground stops or something went wrong on the    *)
(* way: a child was lost or could not be spawned.                          *)
WorkerLeft ==
  (/\ started > 0 /\ \A d \in Demos : pc[d] \in {"none", "done"}
   /\ ~canceled /\ mishaps = 0)
  => proc # Nobody /\ child[proc] = "alive"

(* A demo at one of these points spawns a child or takes the handle of one *)
(* without another look at the context.                                    *)
PastTheContext(d) == pc[d] \in {"spawn", "respawn", "swap", "signal", "tailspawn"}

(* Close has the last word: no demo can reach a spawn or a handle anymore, *)
(* and a child that is alive is the one Close is about to take from m.proc *)
(* or to signal.  Once Close has returned that means none.                 *)
CloseOwnsAll ==
  /\ app \notin {"serving", "stopping"}
  /\ ~ \E d \in Demos : PastTheContext(d)
  /\ \A k \in Children :
        child[k] = "alive" => (app = "closing" /\ proc = k) \/ (app = "signaling" /\ closing = k)

(* A shutdown that finds every demo short of its last look at the context  *)
(* stays in control: whatever the demos, the watchers and the children do  *)
(* from there on, no child appears, and none is left when Close returns or *)
(* the playground has exited.  Only a request that outlived Shutdown, and  *)
(* starts another demo after Close, can undo that.                         *)
ShutdownStaysClean == [][CloseOwnsAll /\ started' = started => CloseOwnsAll']_crashVars

(* The child k executes the task of d although another claim came after    *)
(* its own.                                                                *)
Late(k, d) == exec[k] = d /\ owner[d] # k /\ seen[k] < attempts[d]

(* A task leaves RUNNING for PENDING with attempts to spare, except in one *)
(* case: a child whose claim was superseded reports a failure, and the     *)
(* worker id it shares with the new holder lets it requeue the task.  It   *)
(* is DEAD only after MaxRetries attempts, and nothing leaves COMPLETED or *)
(* DEAD, whatever kills, lost answers, lost heartbeats and late statements *)
(* come between.                                                           *)
OnlyLateFailuresOverdraw ==
  [][\A d \in Demos :
       /\ status[d] = "RUNNING" /\ status'[d] = "PENDING" =>
            \/ attempts[d] < MaxRetries
            \/ \E k \in Children : Late(k, d) /\ exec'[k] = Nobody
       /\ status'[d] = "DEAD" => attempts'[d] >= MaxRetries
       /\ status[d] \in {"COMPLETED", "DEAD"} => status'[d] = status[d]]_crashVars

(* Every demo ends, so the next visitor is not refused forever.            *)
EveryDemoEnds == []<>(~running \/ app = "exited")
=============================================================================
