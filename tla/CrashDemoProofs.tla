-------------------------- MODULE CrashDemoProofs ----------------------------
(***************************************************************************)
(* What the crash demonstration guarantees, for any number of demos and    *)
(* children, and a shutdown at any moment.                                 *)
(***************************************************************************)
EXTENDS CrashDemo, TLAPS

(* A handle taken for a kill is no longer m.proc, children and demos are   *)
(* numbered as they come, and Close cancels before it kills.  Without      *)
(* mishaps m.proc is alive.                                                *)
Handles ==
  /\ \A k \in Children : k > spawned => child[k] = "none"
  /\ \A d \in Demos : /\ pc[d] \in {"signal", "wait"} => held[d] \in 1 .. spawned
                      /\ pc[d] = "signal" => held[d] # proc
  /\ app = "signaling" => closing \in 1 .. spawned /\ closing # proc
  /\ app = "serving" => ~canceled
  /\ app \in {"closing", "signaling", "closed", "exited"} => canceled
  /\ mishaps = 0 /\ proc # Nobody => child[proc] = "alive"

(* A task is claimed before it runs.                                       *)
Budget ==
  \A d \in Demos : /\ status[d] = "ABSENT" => attempts[d] = 0
                   /\ status[d] = "RUNNING" => attempts[d] >= 1

(* What a demo knows of its task and of the child it killed.               *)
Killed(d) == held[d] \in Children /\ child[held[d]] = "gone"
Second(d) == attempts[d] >= 2 /\ owner[d] # held[d]
Stages ==
  \A d \in Demos :
     /\ d > started => pc[d] = "none"
     /\ pc[d] \in {"none", "spawn", "insert"} => status[d] = "ABSENT"
     /\ pc[d] \in {"swap", "signal", "wait", "reap", "respawn", "finish"} =>
          attempts[d] >= 1 /\ status[d] # "ABSENT"
     /\ pc[d] \in {"reap", "respawn", "finish"} => Killed(d)
     /\ pc[d] \in {"respawn", "finish"} /\ status[d] \in {"RUNNING", "COMPLETED"} => Second(d)

(* A demo shown as completed is over.                                      *)
Shown ==
  phase = "completed" =>
     /\ started \in Demos /\ pc[started] \in {"ending", "tail", "tailspawn", "done"}
     /\ status[started] = "COMPLETED" /\ Killed(started) /\ Second(started)

CrashInv ==
  /\ CrashTypeOK /\ SingleFlight /\ EveryChildTracked /\ Handles /\ WorkerLeft
  /\ Budget /\ Stages /\ Shown

-----------------------------------------------------------------------------
(* A step counts at most one mishap.                                       *)
LEMMA MishapsCount ==
  ASSUME CrashTypeOK, Mishap \/ UNCHANGED mishaps
  PROVE mishaps' \in Nat /\ (mishaps' = 0 => mishaps = 0)
BY DEF CrashTypeOK, Mishap

(* Start finds no running demo, so the new one is the only one.            *)
LEMMA StartKeeps ==
  ASSUME CrashInv, NEW d \in Demos, Start(d)
  PROVE CrashInv'
<1>1. CrashTypeOK'
  <2>1. pc' \in [Demos -> {"none", "spawn", "insert", "claim", "swap", "signal", "wait", "reap",
                          "respawn", "finish", "ending", "tail", "tailspawn", "done"}]
    BY Zenon DEF CrashInv, CrashTypeOK, Start, Goto
  <2>2. mishaps' \in Nat
    BY Zenon, MishapsCount DEF CrashInv, Start, Visited
  <2>3. started' \in 0 .. MaxDemos
    BY CrashAssumption DEF CrashInv, CrashTypeOK, Start, Demos
  <2> QED BY Zenon, <2>1, <2>2, <2>3 DEF CrashInv, CrashTypeOK, Start, appVars, procVars, taskVars
<1>2. SingleFlight'
  BY CrashAssumption DEF CrashInv, SingleFlight, CrashTypeOK, Running, Stages, Start, Visited, Mishap, Goto,
     Demos
<1>3. EveryChildTracked'
  <2>1. \A x \in Demos : pc[x] = "signal" => pc'[x] = "signal"
    BY Zenon DEF CrashInv, CrashTypeOK, SingleFlight, Running, Start, Visited, Mishap, Goto
  <2> QED BY Zenon, <2>1 DEF CrashInv, EveryChildTracked, Start, appVars, procVars
<1>4. Handles'
  <2>1. mishaps' = 0 => mishaps = 0
    BY Zenon, MishapsCount DEF CrashInv, Start, Visited
  <2>2. \A x \in Demos : pc'[x] \in {"signal", "wait"} => pc'[x] = pc[x]
    BY Zenon DEF CrashInv, CrashTypeOK, Start, Goto
  <2> QED BY Zenon, <2>1, <2>2 DEF CrashInv, Handles, Start, appVars, procVars
<1>5. WorkerLeft'
  BY Zenon, CrashAssumption DEF CrashInv, WorkerLeft, CrashTypeOK, Handles, Start, Visited, Mishap, Goto, Demos, Nobody,
     appVars, procVars
<1>6. Budget'
  BY Zenon DEF CrashInv, Budget, CrashTypeOK, Start, Visited, Mishap, MaxRetries, taskVars
<1>7. Stages'
  BY CrashAssumption DEF CrashInv, Stages, CrashTypeOK, SingleFlight, Running, Killed, Second,
     Start, Visited, Mishap, Goto, Demos, Children, procVars, taskVars
<1>8. Shown'
  BY Zenon, CrashAssumption DEF CrashInv, Shown, CrashTypeOK, Stages, SingleFlight, Running, Killed,
     Second, Start, Visited, Mishap, Goto, Demos, procVars, taskVars
<1> QED BY Zenon, <1>1, <1>2, <1>3, <1>4, <1>5, <1>6, <1>7, <1>8 DEF CrashInv

(* A spawn, for runDemo and for its deferred function: a new child only    *)
(* where there is none.                                                    *)
LEMMA ChildSpawned ==
  ASSUME CrashInv, SpawnWorker \/ UNCHANGED procVars, UNCHANGED <<appVars, held>>,
         mishaps' = 0 => mishaps = 0,
         \A x \in Demos : (pc'[x] \in {"signal", "wait"} => pc'[x] = pc[x]) /\ (pc[x] = "signal" => pc'[x] = "signal")
  PROVE /\ spawned' \in 0 .. MaxChildren /\ proc' \in 0 .. spawned'
        /\ child' \in [Children -> {"none", "alive", "killed", "gone"}]
        /\ \A k \in Children : child[k] = "gone" => child'[k] = "gone"
        /\ EveryChildTracked' /\ Handles'
<1>1. CASE UNCHANGED procVars
  <2>1. /\ spawned' \in 0 .. MaxChildren /\ proc' \in 0 .. spawned'
        /\ child' \in [Children -> {"none", "alive", "killed", "gone"}]
    BY Zenon, <1>1 DEF CrashInv, CrashTypeOK, procVars
  <2>2. EveryChildTracked'
    BY Zenon, <1>1 DEF CrashInv, EveryChildTracked, appVars, procVars
  <2>3. Handles'
    BY Zenon, <1>1 DEF CrashInv, Handles, appVars, procVars
  <2> QED BY Zenon, <1>1, <2>1, <2>2, <2>3 DEF procVars
<1>2. CASE ~UNCHANGED procVars
  <2>1. /\ proc = Nobody /\ spawned < MaxChildren /\ spawned' = spawned + 1 /\ proc' = spawned + 1
        /\ child' = [child EXCEPT ![spawned + 1] = "alive"]
    BY Zenon, <1>2 DEF SpawnWorker
  <2>2. /\ spawned + 1 \in Children /\ spawned + 1 > spawned /\ spawned + 1 # Nobody
        /\ spawned' \in 0 .. MaxChildren /\ proc' \in 0 .. spawned'
    BY <2>1, CrashAssumption DEF CrashInv, CrashTypeOK, Children, Nobody
  <2>3. /\ child' \in [Children -> {"none", "alive", "killed", "gone"}] /\ child'[spawned + 1] = "alive"
        /\ \A k \in Children : k # spawned + 1 => child'[k] = child[k]
    BY Zenon, <2>1, <2>2 DEF CrashInv, CrashTypeOK
  <2>4. \A k \in Children : child[k] = "gone" => child'[k] = "gone"
    BY Zenon, <2>2, <2>3 DEF CrashInv, Handles
  <2>5. \A k \in Children : proc # k
    BY <2>1, CrashAssumption DEF Children, Nobody
  <2>6. EveryChildTracked'
    BY Zenon, <2>1, <2>3, <2>5 DEF CrashInv, EveryChildTracked, appVars
  <2>7. \A k \in Children : k > spawned' => child'[k] = "none"
    BY <2>1, <2>2, <2>3 DEF CrashInv, CrashTypeOK, Handles, Children
  <2>8. ASSUME NEW k, k \in 1 .. spawned PROVE k \in 1 .. spawned' /\ k # proc'
    BY <2>1, <2>2, <2>8 DEF CrashInv, CrashTypeOK
  <2>9. Handles'
    <3>1. ASSUME NEW x \in Demos
          PROVE /\ pc'[x] \in {"signal", "wait"} => held'[x] \in 1 .. spawned'
                /\ pc'[x] = "signal" => held'[x] # proc'
      <4>1. CASE pc'[x] \notin {"signal", "wait"}
        BY Zenon, <4>1
      <4>2. CASE pc'[x] \in {"signal", "wait"}
        <5>1. held[x] \in 1 .. spawned
          BY Zenon, <4>2 DEF CrashInv, Handles
        <5> QED BY Zenon, <2>8, <5>1
      <4> QED BY Zenon, <4>1, <4>2
    <3>2. app' = "signaling" => closing' \in 1 .. spawned' /\ closing' # proc'
      BY Zenon, <2>8 DEF CrashInv, Handles, appVars
    <3>3. /\ app' = "serving" => ~canceled'
          /\ app' \in {"closing", "signaling", "closed", "exited"} => canceled'
      BY Zenon DEF CrashInv, Handles, appVars
    <3>4. child'[proc'] = "alive"
      BY Zenon, <2>1, <2>3
    <3> QED BY Zenon, <2>7, <3>1, <3>2, <3>3, <3>4 DEF Handles
  <2> QED BY Zenon, <2>2, <2>3, <2>4, <2>6, <2>9
<1> QED BY Zenon, <1>1, <1>2

(* spawnWorker replaces only a missing child.                              *)
LEMMA SpawnKeeps ==
  ASSUME CrashInv, NEW d \in Demos, Spawn(d)
  PROVE CrashInv'
<1>0. /\ spawned' \in 0 .. MaxChildren /\ proc' \in 0 .. spawned'
      /\ child' \in [Children -> {"none", "alive", "killed", "gone"}]
      /\ \A k \in Children : child[k] = "gone" => child'[k] = "gone"
      /\ EveryChildTracked' /\ Handles'
  <2>1. \A x \in Demos : (pc'[x] \in {"signal", "wait"} => pc'[x] = pc[x]) /\ (pc[x] = "signal" => pc'[x] = "signal")
    BY Zenon DEF CrashInv, CrashTypeOK, Spawn, Goto
  <2>2. mishaps' = 0 => mishaps = 0
    BY Zenon DEF Spawn
  <2>3. (SpawnWorker \/ UNCHANGED procVars) /\ UNCHANGED <<appVars, held>>
    BY Zenon DEF Spawn
  <2> QED BY Zenon, <2>1, <2>2, <2>3, ChildSpawned
<1>1. CrashTypeOK'
  <2>1. pc' \in [Demos -> {"none", "spawn", "insert", "claim", "swap", "signal", "wait", "reap",
                          "respawn", "finish", "ending", "tail", "tailspawn", "done"}]
    BY DEF CrashInv, CrashTypeOK, Spawn, Goto
  <2> QED BY Zenon, <1>0, <2>1 DEF CrashInv, CrashTypeOK, Spawn, appVars, taskVars
<1>2. SingleFlight'
  BY CrashAssumption DEF CrashInv, SingleFlight, CrashTypeOK, Running, Stages, Spawn,
     SpawnWorker, Goto, Demos, Children
<1>5. WorkerLeft'
  BY Zenon, CrashAssumption DEF CrashInv, WorkerLeft, CrashTypeOK, Handles, Spawn, SpawnWorker, Goto,
     Demos, Children, Nobody, appVars, procVars
<1>6. Budget'
  BY Zenon DEF CrashInv, Budget, CrashTypeOK, Spawn, SpawnWorker, MaxRetries, taskVars
<1>7. Stages'
  <2>2. \A x \in Demos : (Killed(x) => Killed(x)') /\ (Second(x) => Second(x)')
    BY Zenon, <1>0 DEF Killed, Second, Spawn, taskVars
  <2>3. \A x \in Demos : x # d => pc'[x] = pc[x]
    BY Zenon DEF CrashInv, CrashTypeOK, Spawn, Goto
  <2>4. (pc[d] = "spawn" /\ pc'[d] = "insert") \/ (pc[d] = "respawn" /\ pc'[d] = "finish")
    BY Zenon DEF CrashInv, CrashTypeOK, Spawn, Goto
  <2> QED BY Zenon, <2>2, <2>3, <2>4 DEF CrashInv, Stages, Spawn, taskVars
<1>8. Shown'
  BY Zenon, CrashAssumption DEF CrashInv, Shown, CrashTypeOK, Stages, SingleFlight, Running, Handles,
     Killed, Second, Spawn, SpawnWorker, Goto, Demos, Children, procVars, taskVars
<1> QED BY Zenon, <1>0, <1>1, <1>2, <1>5, <1>6, <1>7, <1>8 DEF CrashInv

(* A failed spawn ends the demo.                                           *)
LEMMA SpawnFailsKeeps ==
  ASSUME CrashInv, NEW d \in Demos, SpawnFails(d)
  PROVE CrashInv'
<1>1. CrashTypeOK'
  BY CrashAssumption DEF CrashInv, CrashTypeOK, SpawnFails, SpawnError, Fail, Goto, Demos,
     Children, Nobody, appVars, procVars, taskVars
<1>2. SingleFlight'
  BY CrashAssumption DEF CrashInv, SingleFlight, CrashTypeOK, Running, Stages, SpawnFails,
     SpawnError, Fail, Goto, Demos, Children
<1>3. EveryChildTracked'
  BY Zenon, CrashAssumption DEF CrashInv, EveryChildTracked, CrashTypeOK, Handles, SpawnFails,
     SpawnError, Fail, Goto, Demos, Children, Nobody, appVars, procVars
<1>4. Handles'
  BY Zenon, CrashAssumption DEF CrashInv, Handles, CrashTypeOK, SpawnFails, SpawnError, Fail, Goto,
     Demos, Children, Nobody, appVars, procVars
<1>5. WorkerLeft'
  BY Zenon, CrashAssumption DEF CrashInv, WorkerLeft, CrashTypeOK, Handles, SpawnFails, SpawnError,
     Fail, Goto, Demos, Children, Nobody, appVars, procVars
<1>6. Budget'
  BY Zenon DEF CrashInv, Budget, CrashTypeOK, SpawnFails, SpawnError, MaxRetries, taskVars
<1>7. Stages'
  BY CrashAssumption DEF CrashInv, Stages, CrashTypeOK, Killed, Second, SpawnFails, SpawnError,
     Fail, Goto, Demos, Children, procVars, taskVars
<1>8. Shown'
  BY Zenon, CrashAssumption DEF CrashInv, Shown, CrashTypeOK, Stages, SingleFlight, Running, Killed,
     Second, SpawnFails, SpawnError, Fail, Goto, Demos, Children, procVars, taskVars
<1> QED BY Zenon, <1>1, <1>2, <1>3, <1>4, <1>5, <1>6, <1>7, <1>8 DEF CrashInv

(* The demo inserts its task.                                              *)
LEMMA InsertTaskKeeps ==
  ASSUME CrashInv, NEW d \in Demos, InsertTask(d)
  PROVE CrashInv'
<1>1. CrashTypeOK'
  BY Zenon, CrashAssumption DEF CrashInv, CrashTypeOK, InsertTask, Goto, Demos, Children, Nobody,
     appVars, procVars
<1>2. SingleFlight'
  BY Zenon, CrashAssumption DEF CrashInv, SingleFlight, CrashTypeOK, Running, Stages, InsertTask, Goto,
     Demos
<1>3. EveryChildTracked'
  BY Zenon, CrashAssumption DEF CrashInv, EveryChildTracked, CrashTypeOK, Handles, InsertTask, Goto,
     Demos, Nobody, appVars, procVars
<1>4. Handles'
  BY Zenon, CrashAssumption DEF CrashInv, Handles, CrashTypeOK, InsertTask, Goto, Demos, Children,
     Nobody, appVars, procVars
<1>5. WorkerLeft'
  BY Zenon, CrashAssumption DEF CrashInv, WorkerLeft, CrashTypeOK, Handles, InsertTask, Goto, Demos,
     Nobody, appVars, procVars
<1>6. Budget'
  BY DEF CrashInv, Budget, CrashTypeOK, Stages, InsertTask, Goto, MaxRetries
<1>7. Stages'
  BY CrashAssumption DEF CrashInv, Stages, CrashTypeOK, Killed, Second, InsertTask, Goto, Demos,
     Children, procVars
<1>8. Shown'
  BY Zenon, CrashAssumption DEF CrashInv, Shown, CrashTypeOK, Stages, SingleFlight, Running, Killed,
     Second, InsertTask, Goto, Demos, procVars
<1> QED BY Zenon, <1>1, <1>2, <1>3, <1>4, <1>5, <1>6, <1>7, <1>8 DEF CrashInv

(* A failed insert ends the demo.                                          *)
LEMMA InsertTaskFailsKeeps ==
  ASSUME CrashInv, NEW d \in Demos, InsertTaskFails(d)
  PROVE CrashInv'
<1>1. CrashTypeOK'
  <2>1. pc' \in [Demos -> {"none", "spawn", "insert", "claim", "swap", "signal", "wait", "reap",
                          "respawn", "finish", "ending", "tail", "tailspawn", "done"}]
    BY Zenon DEF CrashInv, CrashTypeOK, InsertTaskFails, Fail, Goto
  <2>2. status' \in [Demos -> {"ABSENT", "PENDING", "RUNNING", "COMPLETED", "DEAD"}]
    BY Zenon DEF CrashInv, CrashTypeOK, InsertTaskFails
  <2>3. mishaps' \in Nat
    BY DEF CrashInv, CrashTypeOK, InsertTaskFails, Mishap
  <2> QED BY Zenon, <2>1, <2>2, <2>3 DEF CrashInv, CrashTypeOK, InsertTaskFails, Fail, appVars, procVars
<1>2. SingleFlight'
  BY Zenon, CrashAssumption DEF CrashInv, SingleFlight, CrashTypeOK, Running, Stages, InsertTaskFails,
     Fail, Goto, Demos
<1>3. EveryChildTracked'
  BY CrashAssumption DEF CrashInv, EveryChildTracked, CrashTypeOK, Handles, InsertTaskFails,
     Fail, Mishap, Goto, Demos, Nobody, appVars, procVars
<1>4. Handles'
  BY CrashAssumption DEF CrashInv, Handles, CrashTypeOK, InsertTaskFails, Fail, Mishap, Goto,
     Demos, Children, Nobody, appVars, procVars
<1>5. WorkerLeft'
  BY Zenon, CrashAssumption DEF CrashInv, WorkerLeft, CrashTypeOK, Handles, InsertTaskFails, Fail,
     Mishap, Goto, Demos, Nobody, appVars, procVars
<1>6. Budget'
  BY DEF CrashInv, Budget, CrashTypeOK, Stages, InsertTaskFails, Goto, MaxRetries
<1>7. Stages'
  BY SMTT(30), CrashAssumption DEF CrashInv, Stages, CrashTypeOK, Killed, Second, InsertTaskFails, Fail,
     Goto, Demos, Children, procVars
<1>8. Shown'
  BY Zenon, CrashAssumption DEF CrashInv, Shown, CrashTypeOK, Stages, SingleFlight, Running, Killed,
     Second, InsertTaskFails, Fail, Goto, Demos, procVars
<1> QED BY Zenon, <1>1, <1>2, <1>3, <1>4, <1>5, <1>6, <1>7, <1>8 DEF CrashInv

(* The outcomes of a poll that matches.                                    *)
Polled(d) ==
  /\ \/ pc[d] = "claim" /\ status[d] = "RUNNING" /\ Goto(d, "swap") /\ phase' = phase
     \/ pc[d] = "reap" /\ status[d] = "PENDING" /\ Goto(d, "respawn") /\ phase' = phase
     \/ pc[d] = "finish" /\ status[d] = "COMPLETED" /\ Goto(d, "ending") /\ phase' = "completed"
     \/ pc[d] \in {"claim", "reap", "finish"} /\ Goto(d, "ending") /\ phase' = "failed"
  /\ UNCHANGED <<appVars, running, started, held, procVars, taskVars, mishaps>>

LEMMA PollForm ==
  ASSUME NEW d \in Demos, Poll(d)
  PROVE Polled(d)
<1>1. CASE pc[d] = "claim"
  <2>1. Awaited(d) = [RUNNING |-> "swap", COMPLETED |-> "failed", DEAD |-> "failed"]
    BY Zenon, <1>1 DEF Awaited
  <2> QED BY <1>1, <2>1 DEF Poll, Polled
<1>2. CASE pc[d] = "reap"
  <2>1. Awaited(d) = [PENDING |-> "respawn", DEAD |-> "failed"]
    BY Zenon, <1>2 DEF Awaited
  <2> QED BY <1>2, <2>1 DEF Poll, Polled
<1>3. CASE pc[d] = "finish"
  <2>1. Awaited(d) = [COMPLETED |-> "completed", DEAD |-> "failed"]
    BY Zenon, <1>3 DEF Awaited
  <2> QED BY <1>3, <2>1 DEF Poll, Polled
<1> QED BY Zenon, <1>1, <1>2, <1>3 DEF Poll, Waiting

(* What a poll found holds until the demo acts on it.                      *)
LEMMA PollKeeps ==
  ASSUME CrashInv, NEW d \in Demos, Poll(d)
  PROVE CrashInv'
<1>0. /\ Polled(d)
      /\ \E l \in {"swap", "respawn", "ending"} : Goto(d, l)
  BY Zenon, PollForm DEF Polled
<1>1. CrashTypeOK'
  <2>1. pc' \in [Demos -> {"none", "spawn", "insert", "claim", "swap", "signal", "wait", "reap",
                          "respawn", "finish", "ending", "tail", "tailspawn", "done"}]
    BY Zenon, <1>0 DEF CrashInv, CrashTypeOK, Goto
  <2>2. phase' \in {"idle", "starting", "working", "completed", "failed"}
    BY Zenon, <1>0 DEF CrashInv, CrashTypeOK, Polled
  <2> QED BY Zenon, <1>0, <2>1, <2>2 DEF CrashInv, CrashTypeOK, Polled, appVars, procVars, taskVars
<1>2. SingleFlight'
  <2>1. \A x \in Demos : Running(x)' <=> Running(x)
    BY Zenon, <1>0 DEF CrashInv, CrashTypeOK, Running, Polled, Goto
  <2> QED BY Zenon, <1>0, <2>1 DEF CrashInv, SingleFlight, Polled
<1>3. EveryChildTracked'
  <2>1. \A x \in Demos : pc[x] = "signal" => pc'[x] = "signal"
    BY Zenon, PollForm DEF CrashInv, CrashTypeOK, Polled, Goto
  <2> QED BY <2>1, PollForm DEF CrashInv, EveryChildTracked, Polled, appVars, procVars
<1>4. Handles'
  <2>1. \A x \in Demos : pc'[x] \in {"signal", "wait"} => pc'[x] = pc[x]
    BY Zenon, <1>0 DEF CrashInv, CrashTypeOK, Goto
  <2> QED BY Zenon, <1>0, <2>1 DEF CrashInv, Handles, Polled, appVars, procVars
<1>5. WorkerLeft'
  <2>1. pc'[d] \notin {"none", "done"}
    BY Zenon, PollForm DEF CrashInv, CrashTypeOK, Polled, Goto
  <2> QED BY Zenon, <2>1 DEF WorkerLeft
<1>6. Budget'
  BY Zenon, PollForm DEF CrashInv, Budget, CrashTypeOK, Polled, MaxRetries, taskVars
<1>7. \A x \in Demos : (Killed(x)' <=> Killed(x)) /\ (Second(x)' <=> Second(x))
  BY Zenon, <1>0 DEF Killed, Second, Polled, procVars, taskVars
<1>8. Stages'
  <2>1. /\ \A x \in Demos : x # d => pc'[x] = pc[x]
        /\ \/ pc[d] = "claim" /\ status[d] = "RUNNING" /\ pc'[d] = "swap"
           \/ pc[d] = "reap" /\ status[d] = "PENDING" /\ pc'[d] = "respawn"
           \/ pc[d] \in {"claim", "reap", "finish"} /\ pc'[d] = "ending"
    BY Zenon, <1>0 DEF CrashInv, CrashTypeOK, Polled, Goto
  <2>2. ~(d > started)
    BY Zenon, <2>1 DEF CrashInv, Stages
  <2>3. started' = started /\ status' = status /\ attempts' = attempts
    BY Zenon, <1>0 DEF Polled, taskVars
  <2> QED BY Zenon, <1>7, <2>1, <2>2, <2>3 DEF CrashInv, Stages, Budget
<1>9. Shown'
  <2>1. Running(d) /\ d = started /\ phase # "completed"
    BY Zenon, <1>0 DEF CrashInv, SingleFlight, Running, Shown, Polled
  <2>2. phase' = "completed" => pc[d] = "finish" /\ status[d] = "COMPLETED" /\ pc'[d] = "ending"
    BY Zenon, <1>0, <2>1 DEF CrashInv, CrashTypeOK, Polled, Goto
  <2>3. phase' = "completed" => Killed(d) /\ Second(d)
    BY Zenon, <2>2 DEF CrashInv, Stages
  <2>4. started' = started /\ status' = status
    BY Zenon, <1>0 DEF Polled, taskVars
  <2> QED BY Zenon, <1>7, <2>1, <2>2, <2>3, <2>4 DEF Shown
<1> QED BY Zenon, <1>1, <1>2, <1>3, <1>4, <1>5, <1>6, <1>8, <1>9 DEF CrashInv

(* A timeout ends the demo.                                                *)
LEMMA TimeoutKeeps ==
  ASSUME CrashInv, NEW d \in Demos, Timeout(d)
  PROVE CrashInv'
<1>1. CrashTypeOK'
  BY Zenon, CrashAssumption DEF CrashInv, CrashTypeOK, Timeout, Waiting, Fail, Goto, Demos, Children,
     Nobody, appVars, procVars, taskVars
<1>2. SingleFlight'
  BY Zenon, CrashAssumption DEF CrashInv, SingleFlight, CrashTypeOK, Running, Stages, Timeout, Waiting,
     Fail, Goto, Demos
<1>3. EveryChildTracked'
  BY Zenon, CrashAssumption DEF CrashInv, EveryChildTracked, CrashTypeOK, Handles, Timeout, Waiting,
     Fail, Goto, Demos, Nobody, appVars, procVars
<1>4. Handles'
  BY Zenon, CrashAssumption DEF CrashInv, Handles, CrashTypeOK, Timeout, Waiting, Fail, Goto, Demos,
     Children, Nobody, appVars, procVars
<1>5. WorkerLeft'
  BY Zenon, CrashAssumption DEF CrashInv, WorkerLeft, CrashTypeOK, Handles, Timeout, Waiting, Fail,
     Goto, Demos, Nobody, appVars, procVars
<1>6. Budget'
  BY Zenon DEF CrashInv, Budget, CrashTypeOK, Timeout, Waiting, MaxRetries, taskVars
<1>7. Stages'
  BY SMTT(30), CrashAssumption DEF CrashInv, Stages, CrashTypeOK, Killed, Second, Timeout, Waiting, Fail,
     Goto, Demos, Children, procVars, taskVars
<1>8. Shown'
  BY Zenon, CrashAssumption DEF CrashInv, Shown, CrashTypeOK, Stages, SingleFlight, Running, Killed,
     Second, Timeout, Waiting, Fail, Goto, Demos, procVars, taskVars
<1> QED BY Zenon, <1>1, <1>2, <1>3, <1>4, <1>5, <1>6, <1>7, <1>8 DEF CrashInv

(* The handle moves from m.proc to the demo.                               *)
LEMMA KillSwapKeeps ==
  ASSUME CrashInv, NEW d \in Demos, KillSwap(d)
  PROVE CrashInv'
<1>1. CrashTypeOK'
  <2>1. pc' \in [Demos -> {"none", "spawn", "insert", "claim", "swap", "signal", "wait", "reap",
                          "respawn", "finish", "ending", "tail", "tailspawn", "done"}]
    BY DEF CrashInv, CrashTypeOK, KillSwap, Goto, Fail
  <2>2. proc \in Children \cup {Nobody} /\ 0 \in 0 .. spawned
    BY CrashAssumption DEF CrashInv, CrashTypeOK, Children, Nobody
  <2>3. held' \in [Demos -> Children \cup {Nobody}]
    BY Zenon, <2>2 DEF CrashInv, CrashTypeOK, KillSwap
  <2>4. phase' \in {"idle", "starting", "working", "completed", "failed"}
    BY Zenon DEF CrashInv, CrashTypeOK, KillSwap, Fail
  <2> QED BY Zenon, <2>1, <2>2, <2>3, <2>4 DEF CrashInv, CrashTypeOK, KillSwap, Nobody, appVars, taskVars
<1>2. SingleFlight'
  BY SMTT(30), CrashAssumption DEF CrashInv, SingleFlight, CrashTypeOK, Running, Stages, KillSwap, Fail,
     Goto, Demos, Children
<1>3. EveryChildTracked'
  <2>1. \A x \in Demos : x # d => pc'[x] = pc[x] /\ held'[x] = held[x]
    BY Zenon DEF CrashInv, CrashTypeOK, KillSwap, Fail, Goto
  <2>2. \A k \in Children : k # Nobody
    BY DEF Children, Nobody
  <2>3. held'[d] = proc /\ (proc # Nobody => pc'[d] = "signal")
    BY Zenon DEF CrashInv, CrashTypeOK, KillSwap, Goto
  <2>4. pc[d] # "signal"
    BY Zenon DEF KillSwap
  <2>5. child' = child /\ app' = app /\ closing' = closing
    BY Zenon DEF KillSwap, appVars
  <2> SUFFICES ASSUME NEW k \in Children, child[k] = "alive"
               PROVE (\E x \in Demos : pc'[x] = "signal" /\ held'[x] = k) \/ (app = "signaling" /\ closing = k)
    BY Zenon, <2>5 DEF EveryChildTracked
  <2>6. CASE proc = k
    BY Zenon, <2>2, <2>3, <2>6
  <2>7. CASE proc # k
    BY Zenon, <2>1, <2>4, <2>7 DEF CrashInv, EveryChildTracked
  <2> QED BY Zenon, <2>6, <2>7
<1>4. Handles'
  BY CrashAssumption DEF CrashInv, Handles, CrashTypeOK, KillSwap, Fail, Goto, Demos, Children,
     Nobody, appVars
<1>5. WorkerLeft'
  BY Zenon, CrashAssumption DEF CrashInv, WorkerLeft, CrashTypeOK, Handles, KillSwap, Fail, Goto,
     Demos, Children, Nobody, appVars
<1>6. Budget'
  BY Zenon DEF CrashInv, Budget, CrashTypeOK, KillSwap, MaxRetries, taskVars
<1>7. Stages'
  BY SMTT(30), CrashAssumption DEF CrashInv, Stages, CrashTypeOK, Killed, Second, KillSwap, Fail, Goto,
     Demos, Children, taskVars
<1>8. Shown'
  BY Zenon, CrashAssumption DEF CrashInv, Shown, CrashTypeOK, Stages, SingleFlight, Running, Killed,
     Second, KillSwap, Fail, Goto, Demos, Children, taskVars
<1> QED BY Zenon, <1>1, <1>2, <1>3, <1>4, <1>5, <1>6, <1>7, <1>8 DEF CrashInv

(* The kill reaches the child the demo holds.                              *)
LEMMA KillSignalKeeps ==
  ASSUME CrashInv, NEW d \in Demos, KillSignal(d)
  PROVE CrashInv'
<1>1. CrashTypeOK'
  BY ZenonT(30), CrashAssumption DEF CrashInv, CrashTypeOK, KillSignal, Fail, Signal, Goto, Demos, Children,
     Nobody, appVars, taskVars
<1>2. SingleFlight'
  BY CrashAssumption DEF CrashInv, SingleFlight, CrashTypeOK, Running, Stages, KillSignal, Fail,
     Signal, Goto, Demos
<1>3. EveryChildTracked'
  BY SMTT(30), CrashAssumption DEF CrashInv, EveryChildTracked, CrashTypeOK, Handles, KillSignal, Fail,
     Signal, Goto, Demos, Nobody, appVars
<1>4. Handles'
  BY SMTT(30), CrashAssumption DEF CrashInv, Handles, CrashTypeOK, KillSignal, Fail, Signal, Goto, Demos,
     Children, Nobody, appVars
<1>5. WorkerLeft'
  BY Zenon, CrashAssumption DEF CrashInv, WorkerLeft, CrashTypeOK, Handles, KillSignal, Fail, Signal,
     Goto, Demos, Nobody, appVars
<1>6. Budget'
  BY Zenon DEF CrashInv, Budget, CrashTypeOK, KillSignal, Signal, MaxRetries, taskVars
<1>7. Stages'
  BY SMTT(30), CrashAssumption DEF CrashInv, Stages, CrashTypeOK, Killed, Second, KillSignal, Fail,
     Signal, Goto, Demos, Children, taskVars
<1>8. Shown'
  BY Zenon, CrashAssumption DEF CrashInv, Shown, CrashTypeOK, Stages, SingleFlight, Running, Killed,
     Second, KillSignal, Fail, Signal, Goto, Demos, taskVars
<1> QED BY Zenon, <1>1, <1>2, <1>3, <1>4, <1>5, <1>6, <1>7, <1>8 DEF CrashInv

(* The child is gone before the demo goes on.                              *)
LEMMA KillWaitKeeps ==
  ASSUME CrashInv, NEW d \in Demos, KillWait(d)
  PROVE CrashInv'
<1>0. /\ pc[d] = "wait" /\ pc'[d] \in {"reap", "ending"} /\ \A x \in Demos : x # d => pc'[x] = pc[x]
      /\ pc' \in [Demos -> {"none", "spawn", "insert", "claim", "swap", "signal", "wait", "reap",
                                "respawn", "finish", "ending", "tail", "tailspawn", "done"}]
  BY Zenon DEF CrashInv, CrashTypeOK, KillWait, Fail, Goto
<1>1. CrashTypeOK'
  BY Zenon, <1>0 DEF CrashInv, CrashTypeOK, KillWait, Fail, appVars, procVars, taskVars
<1>2. SingleFlight'
  <2>1. \A x \in Demos : Running(x)' <=> Running(x)
    BY Zenon, <1>0 DEF Running
  <2> QED BY Zenon, <2>1 DEF CrashInv, SingleFlight, KillWait
<1>3. EveryChildTracked'
  BY Zenon, <1>0 DEF CrashInv, EveryChildTracked, KillWait, appVars, procVars
<1>4. Handles'
  BY Zenon, <1>0 DEF CrashInv, Handles, KillWait, appVars, procVars
<1>5. WorkerLeft'
  BY Zenon, CrashAssumption DEF CrashInv, WorkerLeft, CrashTypeOK, Handles, KillWait, Fail, Goto,
     Demos, Nobody, appVars, procVars
<1>6. Budget'
  BY Zenon DEF CrashInv, Budget, CrashTypeOK, KillWait, MaxRetries, taskVars
<1>7. Stages'
  <2>1. CASE child[held[d]] = "gone" /\ Goto(d, "reap")
    <3>1. attempts[d] >= 1 /\ status[d] # "ABSENT" /\ d <= started
      BY DEF CrashInv, Stages, KillWait, CrashTypeOK, Demos
    <3>2. held[d] \in Children
      BY CrashAssumption DEF CrashInv, CrashTypeOK, KillWait, Handles, Children
    <3> QED BY <2>1, <3>1, <3>2 DEF CrashInv, CrashTypeOK, Stages, Killed, Second, KillWait, Goto,
              procVars, taskVars
  <2>2. CASE Fail(d)
    BY Zenon, <2>2, CrashAssumption DEF CrashInv, CrashTypeOK, Stages, Killed, Second, KillWait, Fail, Goto,
       Demos, procVars, taskVars
  <2> QED BY Zenon, <2>1, <2>2 DEF KillWait
<1>8. Shown'
  BY Zenon, CrashAssumption DEF CrashInv, Shown, CrashTypeOK, Stages, SingleFlight, Running, Killed,
     Second, KillWait, Fail, Goto, Demos, procVars, taskVars
<1> QED BY Zenon, <1>1, <1>2, <1>3, <1>4, <1>5, <1>6, <1>7, <1>8 DEF CrashInv

(* The deferred function clears m.running.                                 *)
LEMMA EndKeeps ==
  ASSUME CrashInv, NEW d \in Demos, End(d)
  PROVE CrashInv'
<1>1. CrashTypeOK'
  BY Zenon, CrashAssumption DEF CrashInv, CrashTypeOK, End, Goto, Demos, Children, Nobody, appVars,
     procVars, taskVars
<1>2. SingleFlight'
  BY Zenon, CrashAssumption DEF CrashInv, SingleFlight, CrashTypeOK, Running, Stages, End, Goto, Demos
<1>3. EveryChildTracked'
  BY Zenon, CrashAssumption DEF CrashInv, EveryChildTracked, CrashTypeOK, Handles, End, Goto, Demos,
     Nobody, appVars, procVars
<1>4. Handles'
  BY Zenon, CrashAssumption DEF CrashInv, Handles, CrashTypeOK, End, Goto, Demos, Children, Nobody,
     appVars, procVars
<1>5. WorkerLeft'
  BY Zenon, CrashAssumption DEF CrashInv, WorkerLeft, CrashTypeOK, Handles, End, Goto, Demos, Nobody,
     appVars, procVars
<1>6. Budget'
  BY Zenon DEF CrashInv, Budget, CrashTypeOK, End, MaxRetries, taskVars
<1>7. Stages'
  BY CrashAssumption DEF CrashInv, Stages, CrashTypeOK, Killed, Second, End, Goto, Demos,
     Children, procVars, taskVars
<1>8. Shown'
  BY CrashAssumption DEF CrashInv, Shown, CrashTypeOK, Stages, SingleFlight, Running, Killed,
     Second, End, Goto, Demos, procVars, taskVars
<1> QED BY Zenon, <1>1, <1>2, <1>3, <1>4, <1>5, <1>6, <1>7, <1>8 DEF CrashInv

(* The deferred function finds a child or a reason to spawn.               *)
LEMMA TailCheckKeeps ==
  ASSUME CrashInv, NEW d \in Demos, TailCheck(d)
  PROVE CrashInv'
<1>1. CrashTypeOK'
  BY Zenon, CrashAssumption DEF CrashInv, CrashTypeOK, TailCheck, Goto, Demos, Children, Nobody,
     appVars, procVars, taskVars
<1>2. SingleFlight'
  BY Zenon, CrashAssumption DEF CrashInv, SingleFlight, CrashTypeOK, Running, Stages, TailCheck, Goto,
     Demos
<1>3. EveryChildTracked'
  BY Zenon, CrashAssumption DEF CrashInv, EveryChildTracked, CrashTypeOK, Handles, TailCheck, Goto,
     Demos, Nobody, appVars, procVars
<1>4. Handles'
  BY Zenon, CrashAssumption DEF CrashInv, Handles, CrashTypeOK, TailCheck, Goto, Demos, Children,
     Nobody, appVars, procVars
<1>5. WorkerLeft'
  BY Zenon, CrashAssumption DEF CrashInv, WorkerLeft, CrashTypeOK, Handles, TailCheck, Goto, Demos,
     Nobody, appVars, procVars
<1>6. Budget'
  BY Zenon DEF CrashInv, Budget, CrashTypeOK, TailCheck, MaxRetries, taskVars
<1>7. Stages'
  BY CrashAssumption DEF CrashInv, Stages, CrashTypeOK, Killed, Second, TailCheck, Goto, Demos,
     Children, procVars, taskVars
<1>8. Shown'
  BY Zenon, CrashAssumption DEF CrashInv, Shown, CrashTypeOK, Stages, SingleFlight, Running, Killed,
     Second, TailCheck, Goto, Demos, procVars, taskVars
<1> QED BY Zenon, <1>1, <1>2, <1>3, <1>4, <1>5, <1>6, <1>7, <1>8 DEF CrashInv

(* The deferred spawn.                                                     *)
LEMMA TailSpawnKeeps ==
  ASSUME CrashInv, NEW d \in Demos, TailSpawn(d)
  PROVE CrashInv'
<1>0. mishaps' \in Nat /\ (mishaps' = 0 => mishaps = 0)
  BY DEF CrashInv, CrashTypeOK, TailSpawn, SpawnError
<1>1. pc[d] = "tailspawn" /\ pc'[d] = "done" /\ \A x \in Demos : x # d => pc'[x] = pc[x]
  BY Zenon DEF CrashInv, CrashTypeOK, TailSpawn, Goto
<1>2. /\ spawned' \in 0 .. MaxChildren /\ proc' \in 0 .. spawned'
      /\ child' \in [Children -> {"none", "alive", "killed", "gone"}]
      /\ \A k \in Children : child[k] = "gone" => child'[k] = "gone"
      /\ EveryChildTracked' /\ Handles'
  <2>1. \A x \in Demos : (pc'[x] \in {"signal", "wait"} => pc'[x] = pc[x]) /\ (pc[x] = "signal" => pc'[x] = "signal")
    BY Zenon, <1>1
  <2>2. (SpawnWorker \/ UNCHANGED procVars) /\ UNCHANGED <<appVars, held>>
    BY Zenon DEF TailSpawn, SpawnError
  <2> QED BY Zenon, <1>0, <2>1, <2>2, ChildSpawned
<1>3. CrashTypeOK'
  <2>1. pc' \in [Demos -> {"none", "spawn", "insert", "claim", "swap", "signal", "wait", "reap",
                          "respawn", "finish", "ending", "tail", "tailspawn", "done"}]
    BY Zenon DEF CrashInv, CrashTypeOK, TailSpawn, Goto
  <2> QED BY Zenon, <1>0, <1>2, <2>1 DEF CrashInv, CrashTypeOK, TailSpawn, appVars, taskVars
<1>4. SingleFlight'
  <2>1. \A x \in Demos : Running(x)' <=> Running(x)
    BY Zenon, <1>1 DEF Running
  <2> QED BY Zenon, <2>1 DEF CrashInv, SingleFlight, TailSpawn
<1>5. WorkerLeft'
  <2>1. mishaps' = 0 => proc' # Nobody
    <3>1. CASE SpawnWorker
      <4>1. proc' = proc \/ proc' = spawned + 1
        BY Zenon, <3>1 DEF SpawnWorker, procVars
      <4>2. spawned + 1 # Nobody
        BY DEF CrashInv, CrashTypeOK, Nobody
      <4> QED BY Zenon, <3>1, <4>1, <4>2 DEF SpawnWorker, procVars
    <3>2. CASE SpawnError
      BY <3>2 DEF CrashInv, CrashTypeOK, SpawnError
    <3> QED BY Zenon, <3>1, <3>2 DEF TailSpawn
  <2> QED BY Zenon, <1>2, <2>1 DEF WorkerLeft, Handles
<1>6. Budget'
  BY Zenon DEF CrashInv, Budget, TailSpawn, taskVars
<1>7. \A x \in Demos : (Killed(x) => Killed(x)') /\ (Second(x) => Second(x)')
  BY Zenon, <1>2 DEF Killed, Second, TailSpawn, taskVars
<1>8. Stages'
  BY Zenon, <1>1, <1>7 DEF CrashInv, Stages, TailSpawn, taskVars
<1>9. Shown'
  BY Zenon, <1>1, <1>7 DEF CrashInv, Shown, TailSpawn, taskVars
<1> QED BY Zenon, <1>2, <1>3, <1>4, <1>5, <1>6, <1>8, <1>9 DEF CrashInv

(* What children and the reaper do leaves the manager alone.               *)
ManagerIdle ==
  /\ UNCHANGED <<appVars, running, started, phase, pc, held, procVars>>
  /\ Mishap \/ UNCHANGED mishaps

LEMMA ManagerAside ==
  ASSUME CrashInv, ManagerIdle
  PROVE (SingleFlight /\ EveryChildTracked /\ Handles /\ WorkerLeft)'
<1>1. mishaps' = 0 => mishaps = 0
  BY Zenon, MishapsCount DEF CrashInv, ManagerIdle
<1>2. (SingleFlight /\ EveryChildTracked)'
  BY Zenon DEF CrashInv, ManagerIdle, SingleFlight, Running, EveryChildTracked, appVars, procVars
<1>3. Handles'
  BY Zenon, <1>1 DEF CrashInv, ManagerIdle, Handles, appVars, procVars
<1>4. WorkerLeft'
  BY Zenon, <1>1 DEF CrashInv, ManagerIdle, WorkerLeft, appVars, procVars
<1> QED BY Zenon, <1>2, <1>3, <1>4

(* How they move the row of d.                                             *)
RowMoves(d) ==
  /\ \A x \in Demos : x # d => status'[x] = status[x] /\ attempts'[x] = attempts[x] /\ owner'[x] = owner[x]
  /\ \/ status'[d] = status[d] /\ attempts'[d] = attempts[d] /\ owner'[d] = owner[d]
     \/ /\ status[d] = "PENDING" /\ status'[d] = "RUNNING" /\ attempts'[d] = attempts[d] + 1
        /\ owner'[d] \in Children /\ child[owner'[d]] # "gone"
     \/ /\ status[d] = "RUNNING" /\ status'[d] = "COMPLETED"
        /\ attempts'[d] = attempts[d] /\ owner'[d] = owner[d]
     \/ status[d] = "RUNNING" /\ status'[d] \in {"PENDING", "DEAD"} /\ attempts'[d] = attempts[d]

LEMMA RowsFollowDemos ==
  ASSUME CrashInv, ManagerIdle, NEW d \in Demos, RowMoves(d)
  PROVE (Budget /\ Stages /\ Shown)'
<1>0. attempts[d] \in Nat
  BY Zenon DEF CrashInv, CrashTypeOK
<1>1. pc' = pc /\ held' = held /\ child' = child /\ started' = started /\ phase' = phase
  BY Zenon DEF ManagerIdle, procVars
<1>2. attempts'[d] = attempts[d] \/ (attempts'[d] = attempts[d] + 1 /\ status'[d] = "RUNNING")
  BY Zenon DEF RowMoves
<1>3. attempts[d] >= 1 => attempts'[d] >= 1
  BY <1>0, <1>2
<1>4. ASSUME Killed(d), attempts[d] >= 1, status'[d] \in {"RUNNING", "COMPLETED"},
             status[d] \in {"RUNNING", "COMPLETED"} => Second(d)
      PROVE Second(d)'
  <2>1. CASE status[d] = "PENDING" /\ attempts'[d] = attempts[d] + 1 /\ child[owner'[d]] # "gone"
    <3>1. attempts'[d] >= 2
      BY <1>0, <1>4, <2>1
    <3>2. owner'[d] # held'[d]
      BY Zenon, <1>1, <1>4, <2>1 DEF Killed
    <3> QED BY Zenon, <3>1, <3>2 DEF Second
  <2>2. CASE status[d] \in {"RUNNING", "COMPLETED"} /\ attempts'[d] = attempts[d] /\ owner'[d] = owner[d]
    BY Zenon, <1>1, <1>4, <2>2 DEF Second
  <2> QED BY Zenon, <1>4, <2>1, <2>2 DEF RowMoves
<1>5. Killed(d) => Killed(d)'
  BY Zenon, <1>1 DEF Killed
<1>6. \A x \in Demos : x # d => (Killed(x) => Killed(x)') /\ (Second(x) => Second(x)')
  BY Zenon, <1>1 DEF Killed, Second, RowMoves
<1>7. Budget'
  <2>1. attempts[d] + 1 >= 1
    BY <1>0
  <2> QED BY Zenon, <2>1 DEF CrashInv, Budget, RowMoves
<1>8. Stages'
  <2> SUFFICES ASSUME NEW x \in Demos
               PROVE /\ x > started' => pc'[x] = "none"
                     /\ pc'[x] \in {"none", "spawn", "insert"} => status'[x] = "ABSENT"
                     /\ pc'[x] \in {"swap", "signal", "wait", "reap", "respawn", "finish"} =>
                          attempts'[x] >= 1 /\ status'[x] # "ABSENT"
                     /\ pc'[x] \in {"reap", "respawn", "finish"} => Killed(x)'
                     /\ pc'[x] \in {"respawn", "finish"} /\ status'[x] \in {"RUNNING", "COMPLETED"} => Second(x)'
    BY Zenon DEF Stages
  <2>1. CASE x # d
    BY Zenon, <1>1, <1>6, <2>1 DEF CrashInv, Stages, RowMoves
  <2>2. CASE x = d
    <3>1. x > started' => pc'[x] = "none"
      BY Zenon, <1>1 DEF CrashInv, Stages
    <3>2. pc'[x] \in {"none", "spawn", "insert"} => status'[x] = "ABSENT"
      BY Zenon, <1>1, <2>2 DEF CrashInv, Stages, RowMoves
    <3>3. pc'[x] \in {"swap", "signal", "wait", "reap", "respawn", "finish"} => attempts'[x] >= 1 /\ status'[x] # "ABSENT"
      BY Zenon, <1>1, <1>3, <2>2 DEF CrashInv, Stages, RowMoves
    <3>4. pc'[x] \in {"reap", "respawn", "finish"} => Killed(x)'
      BY Zenon, <1>1, <1>5, <2>2 DEF CrashInv, Stages
    <3>5. pc'[x] \in {"respawn", "finish"} /\ status'[x] \in {"RUNNING", "COMPLETED"} => Second(x)'
      BY Zenon, <1>1, <1>4, <2>2 DEF CrashInv, Stages
    <3> QED BY Zenon, <3>1, <3>2, <3>3, <3>4, <3>5
  <2> QED BY Zenon, <2>1, <2>2
<1>9. Shown'
  <2>1. status[d] = "COMPLETED" => status'[d] = "COMPLETED" /\ (Second(d) => Second(d)')
    BY Zenon, <1>1 DEF RowMoves, Second
  <2> SUFFICES ASSUME phase' = "completed"
               PROVE /\ started' \in Demos /\ pc'[started'] \in {"ending", "tail", "tailspawn", "done"}
                     /\ status'[started'] = "COMPLETED" /\ Killed(started)' /\ Second(started)'
    BY Zenon DEF Shown
  <2>2. /\ started \in Demos /\ pc[started] \in {"ending", "tail", "tailspawn", "done"}
        /\ status[started] = "COMPLETED" /\ Killed(started) /\ Second(started)
    BY Zenon, <1>1 DEF CrashInv, Shown
  <2>3. status'[started] = "COMPLETED"
    BY Zenon, <2>1, <2>2 DEF RowMoves
  <2>4. Killed(started)' /\ Second(started)'
    BY Zenon, <1>1, <1>5, <1>6, <2>1, <2>2 DEF Killed, Second, RowMoves
  <2> QED BY Zenon, <1>1, <2>2, <2>3, <2>4
<1> QED BY Zenon, <1>7, <1>8, <1>9

(* A claim uses one attempt.                                               *)
LEMMA ClaimKeeps ==
  ASSUME CrashInv, NEW k \in Children, NEW d \in Demos, Claim(k, d)
  PROVE CrashInv'
<1>1. ManagerIdle
  BY Zenon DEF Claim, ManagerIdle
<1>2. CrashTypeOK'
  <2>1. attempts' \in [Demos -> Nat]
    BY DEF CrashInv, CrashTypeOK, Claim
  <2>2. mishaps' \in Nat
    BY Zenon, <1>1, MishapsCount DEF CrashInv, ManagerIdle
  <2>3. seen' \in [Children -> Nat]
    BY DEF CrashInv, CrashTypeOK, Claim
  <2>4. exec' \in [Children -> Demos \cup {Nobody}]
    BY Zenon DEF CrashInv, CrashTypeOK, Claim
  <2>5. status' \in [Demos -> {"ABSENT", "PENDING", "RUNNING", "COMPLETED", "DEAD"}]
        /\ owner' \in [Demos -> Children \cup {Nobody}]
    BY Zenon DEF CrashInv, CrashTypeOK, Claim
  <2> QED BY Zenon, <1>1, <2>1, <2>2, <2>3, <2>4, <2>5 DEF CrashInv, CrashTypeOK, ManagerIdle, appVars, procVars
<1>3. RowMoves(d)
  BY Zenon DEF CrashInv, CrashTypeOK, Claim, Works, RowMoves
<1> QED BY Zenon, <1>1, <1>2, <1>3, ManagerAside, RowsFollowDemos DEF CrashInv

(* The end of an execution, persisted or not.                              *)
LEMMA ReturnKeeps ==
  ASSUME CrashInv, NEW k \in Children, NEW d \in Demos, Complete(k, d) \/ HandlerFails(k, d)
  PROVE CrashInv'
<1>1. ManagerIdle
  BY Zenon DEF Complete, HandlerFails, HandlerReturns, ManagerIdle
<1>2. CrashTypeOK'
  <2>1. mishaps' \in Nat
    BY Zenon, <1>1, MishapsCount DEF CrashInv, ManagerIdle
  <2>2. seen' \in [Children -> Nat]
    BY DEF CrashInv, CrashTypeOK, Complete, HandlerFails, HandlerReturns
  <2>3. exec' \in [Children -> Demos \cup {Nobody}] /\ attempts' \in [Demos -> Nat]
    BY Zenon DEF CrashInv, CrashTypeOK, Complete, HandlerFails, HandlerReturns
  <2>4. status' \in [Demos -> {"ABSENT", "PENDING", "RUNNING", "COMPLETED", "DEAD"}]
    BY DEF CrashInv, CrashTypeOK, Complete, HandlerFails, Requeue
  <2>5. owner' \in [Demos -> Children \cup {Nobody}]
    BY Zenon DEF CrashInv, CrashTypeOK, Complete, HandlerFails, Requeue
  <2> QED BY Zenon, <1>1, <2>1, <2>2, <2>3, <2>4, <2>5 DEF CrashInv, CrashTypeOK, ManagerIdle, appVars, procVars
<1>3. RowMoves(d)
  <2>0. attempts' = attempts
    BY Zenon DEF Complete, HandlerFails, HandlerReturns
  <2>1. CASE Complete(k, d)
    BY <2>0, <2>1 DEF CrashInv, CrashTypeOK, Complete, RowMoves
  <2>2. CASE HandlerFails(k, d)
    BY <2>0, <2>2 DEF CrashInv, CrashTypeOK, HandlerFails, Requeue, RowMoves
  <2> QED BY Zenon, <2>1, <2>2
<1> QED BY Zenon, <1>1, <1>2, <1>3, ManagerAside, RowsFollowDemos DEF CrashInv

(* The reaper requeues a task, of a living child or of a dead one.         *)
LEMMA ReapKeeps ==
  ASSUME CrashInv, NEW d \in Demos, Reap(d)
  PROVE CrashInv'
<1>1. ManagerIdle
  BY Zenon DEF Reap, ManagerIdle
<1>2. CrashTypeOK'
  <2>1. mishaps' \in Nat
    BY Zenon, <1>1, MishapsCount DEF CrashInv, ManagerIdle
  <2>2. status' \in [Demos -> {"ABSENT", "PENDING", "RUNNING", "COMPLETED", "DEAD"}]
    BY DEF CrashInv, CrashTypeOK, Reap, Requeue
  <2>3. owner' \in [Demos -> Children \cup {Nobody}]
    BY Zenon DEF CrashInv, CrashTypeOK, Reap, Requeue
  <2> QED BY Zenon, <1>1, <2>1, <2>2, <2>3 DEF CrashInv, CrashTypeOK, Reap, ManagerIdle, appVars, procVars
<1>3. RowMoves(d)
  BY DEF CrashInv, CrashTypeOK, Reap, Requeue, RowMoves
<1> QED BY Zenon, <1>1, <1>2, <1>3, ManagerAside, RowsFollowDemos DEF CrashInv

(* A child exits.                                                          *)
LEMMA ExitsKeeps ==
  ASSUME CrashInv, NEW k \in Children, Exits(k)
  PROVE CrashInv'
<1>1. CrashTypeOK'
  BY SMTT(30), CrashAssumption DEF CrashInv, CrashTypeOK, Exits, Mishap, Children, Nobody, appVars
<1>2. SingleFlight'
  BY Zenon DEF CrashInv, SingleFlight, Running, Exits
<1>3. EveryChildTracked'
  BY SMTT(30), CrashAssumption DEF CrashInv, EveryChildTracked, CrashTypeOK, Handles, Exits, Mishap,
     Children, Nobody, appVars
<1>4. Handles'
  BY SMTT(30), CrashAssumption DEF CrashInv, Handles, CrashTypeOK, Exits, Mishap, Children, Nobody,
     appVars
<1>5. WorkerLeft'
  BY SMTT(30), CrashAssumption DEF CrashInv, WorkerLeft, CrashTypeOK, Handles, Exits, Mishap, Children,
     Nobody, appVars
<1>6. Budget'
  BY Zenon DEF CrashInv, Budget, CrashTypeOK, Exits, MaxRetries
<1>7. Stages'
  BY SMTT(30), CrashAssumption DEF CrashInv, Stages, CrashTypeOK, Killed, Second, Exits, Children
<1>8. Shown'
  BY Zenon, CrashAssumption DEF CrashInv, Shown, CrashTypeOK, Stages, SingleFlight, Running, Killed,
     Second, Exits, Children
<1> QED BY Zenon, <1>1, <1>2, <1>3, <1>4, <1>5, <1>6, <1>7, <1>8 DEF CrashInv

(* A watcher clears its own handle only.                                   *)
LEMMA WatchKeeps ==
  ASSUME CrashInv, NEW k \in Children, Watch(k)
  PROVE CrashInv'
<1>1. CrashTypeOK'
  <2>1. 0 \in 0 .. spawned
    BY DEF CrashInv, CrashTypeOK
  <2> QED BY Zenon, <2>1 DEF CrashInv, CrashTypeOK, Watch, Nobody, appVars, taskVars
<1>2. SingleFlight'
  BY Zenon DEF CrashInv, SingleFlight, Running, Watch
<1>3. EveryChildTracked'
  BY Zenon, CrashAssumption DEF CrashInv, EveryChildTracked, CrashTypeOK, Handles, Watch, Children,
     Nobody, appVars
<1>4. Handles'
  BY CrashAssumption DEF CrashInv, Handles, CrashTypeOK, Watch, Children, Nobody, appVars
<1>5. WorkerLeft'
  BY Zenon, CrashAssumption DEF CrashInv, WorkerLeft, CrashTypeOK, Handles, Watch, Children, Nobody,
     appVars
<1>6. Budget'
  BY Zenon DEF CrashInv, Budget, CrashTypeOK, Watch, MaxRetries, taskVars
<1>7. Stages'
  BY Zenon, CrashAssumption DEF CrashInv, Stages, CrashTypeOK, Killed, Second, Watch, Children,
     taskVars
<1>8. Shown'
  BY Zenon, CrashAssumption DEF CrashInv, Shown, CrashTypeOK, Stages, SingleFlight, Running, Killed,
     Second, Watch, Children, taskVars
<1> QED BY Zenon, <1>1, <1>2, <1>3, <1>4, <1>5, <1>6, <1>7, <1>8 DEF CrashInv

(* The playground leaves its select.                                       *)
LEMMA StopKeeps ==
  ASSUME CrashInv, Stop
  PROVE CrashInv'
<1>1. CrashTypeOK'
  BY Zenon, CrashAssumption DEF CrashInv, CrashTypeOK, Stop, Children, Nobody, procVars, taskVars
<1>2. SingleFlight'
  BY Zenon DEF CrashInv, SingleFlight, Running, Stop
<1>3. EveryChildTracked'
  BY SMTT(30), CrashAssumption DEF CrashInv, EveryChildTracked, CrashTypeOK, Handles, Stop, Nobody,
     procVars
<1>4. Handles'
  BY Zenon, CrashAssumption DEF CrashInv, Handles, CrashTypeOK, Stop, Children, Nobody, procVars
<1>5. WorkerLeft'
  BY Zenon, CrashAssumption DEF CrashInv, WorkerLeft, CrashTypeOK, Handles, Stop, Nobody, procVars
<1>6. Budget'
  BY Zenon DEF CrashInv, Budget, CrashTypeOK, Stop, MaxRetries, taskVars
<1>7. Stages'
  BY Zenon, CrashAssumption DEF CrashInv, Stages, CrashTypeOK, Killed, Second, Stop, Children,
     procVars, taskVars
<1>8. Shown'
  BY Zenon, CrashAssumption DEF CrashInv, Shown, CrashTypeOK, Stages, SingleFlight, Running, Killed,
     Second, Stop, procVars, taskVars
<1> QED BY Zenon, <1>1, <1>2, <1>3, <1>4, <1>5, <1>6, <1>7, <1>8 DEF CrashInv

(* Close cancels the context.                                              *)
LEMMA CloseKeeps ==
  ASSUME CrashInv, Close
  PROVE CrashInv'
<1>1. CrashTypeOK'
  BY Zenon, CrashAssumption DEF CrashInv, CrashTypeOK, Close, Children, Nobody, procVars, taskVars
<1>2. SingleFlight'
  BY Zenon DEF CrashInv, SingleFlight, Running, Close
<1>3. EveryChildTracked'
  BY SMTT(30), CrashAssumption DEF CrashInv, EveryChildTracked, CrashTypeOK, Handles, Close, Nobody,
     procVars
<1>4. Handles'
  BY Zenon, CrashAssumption DEF CrashInv, Handles, CrashTypeOK, Close, Children, Nobody, procVars
<1>5. WorkerLeft'
  BY Zenon, CrashAssumption DEF CrashInv, WorkerLeft, CrashTypeOK, Handles, Close, Nobody, procVars
<1>6. Budget'
  BY Zenon DEF CrashInv, Budget, CrashTypeOK, Close, MaxRetries, taskVars
<1>7. Stages'
  BY Zenon, CrashAssumption DEF CrashInv, Stages, CrashTypeOK, Killed, Second, Close, Children,
     procVars, taskVars
<1>8. Shown'
  BY Zenon, CrashAssumption DEF CrashInv, Shown, CrashTypeOK, Stages, SingleFlight, Running, Killed,
     Second, Close, procVars, taskVars
<1> QED BY Zenon, <1>1, <1>2, <1>3, <1>4, <1>5, <1>6, <1>7, <1>8 DEF CrashInv

(* The handle moves from m.proc to Close.                                  *)
LEMMA CloseSwapKeeps ==
  ASSUME CrashInv, CloseSwap
  PROVE CrashInv'
<1>1. CrashTypeOK'
  BY CrashAssumption DEF CrashInv, CrashTypeOK, CloseSwap, Children, Nobody, taskVars
<1>2. SingleFlight'
  BY Zenon DEF CrashInv, SingleFlight, Running, CloseSwap
<1>3. EveryChildTracked'
  BY CrashAssumption DEF CrashInv, EveryChildTracked, CrashTypeOK, Handles, CloseSwap, Children,
     Nobody
<1>4. Handles'
  BY CrashAssumption DEF CrashInv, Handles, CrashTypeOK, CloseSwap, Children, Nobody
<1>5. WorkerLeft'
  BY Zenon, CrashAssumption DEF CrashInv, WorkerLeft, CrashTypeOK, Handles, CloseSwap, Children, Nobody
<1>6. Budget'
  BY Zenon DEF CrashInv, Budget, CrashTypeOK, CloseSwap, MaxRetries, taskVars
<1>7. Stages'
  BY Zenon, CrashAssumption DEF CrashInv, Stages, CrashTypeOK, Killed, Second, CloseSwap, Children,
     taskVars
<1>8. Shown'
  BY Zenon, CrashAssumption DEF CrashInv, Shown, CrashTypeOK, Stages, SingleFlight, Running, Killed,
     Second, CloseSwap, Children, taskVars
<1> QED BY Zenon, <1>1, <1>2, <1>3, <1>4, <1>5, <1>6, <1>7, <1>8 DEF CrashInv

(* Close kills the child it holds.                                         *)
LEMMA CloseSignalKeeps ==
  ASSUME CrashInv, CloseSignal
  PROVE CrashInv'
<1>1. CrashTypeOK'
  BY Zenon, CrashAssumption DEF CrashInv, CrashTypeOK, CloseSignal, Signal, Children, Nobody, taskVars
<1>2. SingleFlight'
  BY Zenon DEF CrashInv, SingleFlight, Running, CloseSignal
<1>3. EveryChildTracked'
  BY Zenon, CrashAssumption DEF CrashInv, EveryChildTracked, CrashTypeOK, Handles, CloseSignal, Signal,
     Nobody
<1>4. Handles'
  BY SMTT(30), CrashAssumption DEF CrashInv, Handles, CrashTypeOK, CloseSignal, Signal, Children, Nobody
<1>5. WorkerLeft'
  BY Zenon, CrashAssumption DEF CrashInv, WorkerLeft, CrashTypeOK, Handles, CloseSignal, Signal, Nobody
<1>6. Budget'
  BY Zenon DEF CrashInv, Budget, CrashTypeOK, CloseSignal, Signal, MaxRetries, taskVars
<1>7. Stages'
  <2>1. \A k \in Children : child[k] = "gone" => child'[k] = "gone"
    BY Zenon DEF CrashInv, CrashTypeOK, CloseSignal, Signal
  <2>2. \A x \in Demos : Killed(x) => Killed(x)'
    BY Zenon, <2>1 DEF Killed, CloseSignal
  <2>3. \A x \in Demos : Second(x)' <=> Second(x)
    BY Zenon DEF Second, CloseSignal, taskVars
  <2> QED BY Zenon, <2>2, <2>3 DEF CrashInv, Stages, CloseSignal, taskVars
<1>8. Shown'
  BY SMTT(30), CrashAssumption DEF CrashInv, Shown, CrashTypeOK, Stages, SingleFlight, Running, Killed,
     Second, CloseSignal, Signal, taskVars
<1> QED BY Zenon, <1>1, <1>2, <1>3, <1>4, <1>5, <1>6, <1>7, <1>8 DEF CrashInv

(* main returns.                                                           *)
LEMMA ExitKeeps ==
  ASSUME CrashInv, Exit
  PROVE CrashInv'
<1>1. CrashTypeOK'
  BY Zenon, CrashAssumption DEF CrashInv, CrashTypeOK, Exit, Children, Nobody, procVars, taskVars
<1>2. SingleFlight'
  BY Zenon DEF CrashInv, SingleFlight, Running, Exit
<1>3. EveryChildTracked'
  BY Zenon, CrashAssumption DEF CrashInv, EveryChildTracked, CrashTypeOK, Handles, Exit, Nobody,
     procVars
<1>4. Handles'
  BY Zenon, CrashAssumption DEF CrashInv, Handles, CrashTypeOK, Exit, Children, Nobody, procVars
<1>5. WorkerLeft'
  BY Zenon, CrashAssumption DEF CrashInv, WorkerLeft, CrashTypeOK, Handles, Exit, Nobody, procVars
<1>6. Budget'
  BY Zenon DEF CrashInv, Budget, CrashTypeOK, Exit, MaxRetries, taskVars
<1>7. Stages'
  BY Zenon, CrashAssumption DEF CrashInv, Stages, CrashTypeOK, Killed, Second, Exit, Children,
     procVars, taskVars
<1>8. Shown'
  BY Zenon, CrashAssumption DEF CrashInv, Shown, CrashTypeOK, Stages, SingleFlight, Running, Killed,
     Second, Exit, procVars, taskVars
<1> QED BY Zenon, <1>1, <1>2, <1>3, <1>4, <1>5, <1>6, <1>7, <1>8 DEF CrashInv

(* The invariant holds initially and every step keeps it.                  *)
THEOREM CrashInvariant == CrashSpec => []CrashInv
<1>1. CrashInit => CrashInv
  <2> SUFFICES ASSUME CrashInit PROVE CrashInv
    BY Zenon
  <2>1. CrashTypeOK
    <3>1. 0 \in 0 .. MaxDemos /\ 0 \in 0 .. MaxChildren /\ 0 \in 0 .. MaxRetries
      BY CrashAssumption DEF MaxRetries
    <3>2. 0 \in 0 .. 0 /\ 0 \in Nat
      OBVIOUS
    <3> QED BY Zenon, <3>1, <3>2 DEF CrashInit, CrashTypeOK, Nobody
  <2>2. SingleFlight /\ EveryChildTracked /\ WorkerLeft /\ Shown
    BY DEF CrashInit, SingleFlight, Running, EveryChildTracked, WorkerLeft, Shown
  <2>3. Handles /\ Budget /\ Stages
    BY Zenon DEF CrashInit, Handles, Budget, Stages, Nobody, MaxRetries
  <2> QED BY Zenon, <2>1, <2>2, <2>3 DEF CrashInv
<1>2. CrashInv /\ [CrashNext]_crashVars => CrashInv'
  <2> SUFFICES ASSUME CrashInv, [CrashNext]_crashVars PROVE CrashInv'
    BY Zenon
  <2>1. ASSUME NEW d \in Demos, Start(d) \/ Demo(d) \/ Reap(d) PROVE CrashInv'
    BY Zenon, <2>1, StartKeeps, SpawnKeeps, SpawnFailsKeeps, InsertTaskKeeps, InsertTaskFailsKeeps, PollKeeps,
       TimeoutKeeps, KillSwapKeeps, KillSignalKeeps, KillWaitKeeps, EndKeeps, TailCheckKeeps,
       TailSpawnKeeps, ReapKeeps DEF Demo
  <2>2. ASSUME NEW k \in Children, Work(k) \/ Exits(k) \/ Watch(k) PROVE CrashInv'
    BY Zenon, <2>2, ClaimKeeps, ReturnKeeps, ExitsKeeps, WatchKeeps DEF Work
  <2>3. CASE Stop \/ Close \/ CloseSwap \/ CloseSignal \/ Exit
    BY Zenon, <2>3, StopKeeps, CloseKeeps, CloseSwapKeeps, CloseSignalKeeps, ExitKeeps
  <2>4. CASE UNCHANGED crashVars
    <3>0. CrashTypeOK'
      BY Zenon, <2>4 DEF crashVars, CrashInv, CrashTypeOK
    <3>1. (SingleFlight /\ EveryChildTracked)'
      BY Zenon, <2>4 DEF crashVars, CrashInv, SingleFlight, Running, EveryChildTracked
    <3>2. (Handles /\ WorkerLeft /\ Budget)'
      BY Zenon, <2>4 DEF crashVars, CrashInv, Handles, WorkerLeft, Budget
    <3>3. (Stages /\ Shown)'
      BY Zenon, <2>4 DEF crashVars, CrashInv, Stages, Shown, Killed, Second
    <3> QED BY Zenon, <3>0, <3>1, <3>2, <3>3 DEF CrashInv
  <2> QED BY Zenon, <2>1, <2>2, <2>3, <2>4 DEF CrashNext
<1> QED BY <1>1, <1>2, PTL DEF CrashSpec

(* Every variable keeps its type.                                          *)
THEOREM CrashTypesCorrect == CrashSpec => []CrashTypeOK
<1>1. CrashInv => CrashTypeOK
  BY Zenon DEF CrashInv
<1> QED BY CrashInvariant, <1>1, PTL

(* One demo at a time, and it is the one that status shows.                *)
THEOREM DemosSingleFlight == CrashSpec => []SingleFlight
<1>1. CrashInv => SingleFlight
  BY Zenon DEF CrashInv
<1> QED BY CrashInvariant, <1>1, PTL

(* No living child is lost from sight, whatever spawns, kills, exits and   *)
(* late deferred functions interleave.                                     *)
THEOREM ChildrenTracked == CrashSpec => []EveryChildTracked
<1>1. CrashInv => EveryChildTracked
  BY Zenon DEF CrashInv
<1> QED BY CrashInvariant, <1>1, PTL

(* A demo shown as completed has had its task finished by a second process *)
(* after the first was gone.                                               *)
THEOREM CompletionsRecovered == CrashSpec => []CompletedMeansRecovered
<1>1. CrashInv => CompletedMeansRecovered
  BY Zenon DEF CrashInv, Shown, Killed, Second, CompletedMeansRecovered
<1> QED BY CrashInvariant, <1>1, PTL

(* The last demo leaves a living worker, in the absence of mishaps.        *)
THEOREM DemosLeaveWorker == CrashSpec => []WorkerLeft
<1>1. CrashInv => WorkerLeft
  BY Zenon DEF CrashInv
<1> QED BY CrashInvariant, <1>1, PTL

-----------------------------------------------------------------------------
(* The attempts a child remembers from its claim are those of the task as  *)
(* long as it holds it, and never more; a DEAD task has used its budget.   *)
Snapshots ==
  \A d \in Demos :
     /\ status[d] = "DEAD" => attempts[d] >= MaxRetries
     /\ \A k \in Children : exec[k] = d =>
          seen[k] <= attempts[d] /\ (status[d] = "RUNNING" /\ owner[d] = k => seen[k] = attempts[d])

(* A claim gives its child the attempts of the row it has just written.    *)
LEMMA ClaimSnapshots ==
  ASSUME CrashInv, Snapshots, NEW k \in Children, NEW d \in Demos, Claim(k, d)
  PROVE Snapshots'
<1>1. /\ status \in [Demos -> {"ABSENT", "PENDING", "RUNNING", "COMPLETED", "DEAD"}]
      /\ attempts \in [Demos -> Nat] /\ owner \in [Demos -> Children \cup {Nobody}]
      /\ exec \in [Children -> Demos \cup {Nobody}] /\ seen \in [Children -> Nat]
  BY Zenon DEF CrashInv, CrashTypeOK
<1>2. d # Nobody /\ Nobody \notin Demos
  BY DEF Demos, Nobody
<1>3. /\ attempts'[d] = attempts[d] + 1 /\ owner'[d] = k /\ status'[d] = "RUNNING"
      /\ \A x \in Demos : x # d => attempts'[x] = attempts[x] /\ owner'[x] = owner[x] /\ status'[x] = status[x]
  BY Zenon, <1>1 DEF Claim
<1>4. \/ exec'[k] = d /\ seen'[k] = attempts[d] + 1
      \/ exec'[k] = Nobody
  BY Zenon, <1>1 DEF Claim
<1>5. \A j \in Children : j # k => exec'[j] = exec[j] /\ seen'[j] = seen[j]
  BY Zenon, <1>1 DEF Claim
<1>6. ASSUME NEW x \in Demos, status'[x] = "DEAD" PROVE attempts'[x] >= MaxRetries
  BY Zenon, <1>3, <1>6 DEF Snapshots
<1>7. ASSUME NEW x \in Demos, NEW j \in Children, exec'[j] = x
      PROVE seen'[j] <= attempts'[x] /\ (status'[x] = "RUNNING" /\ owner'[x] = j => seen'[j] = attempts'[x])
  <2>1. CASE j = k
    <3>1. x = d /\ seen'[k] = attempts[d] + 1
      BY Zenon, <1>2, <1>4, <1>7, <2>1
    <3> QED BY <1>1, <1>3, <2>1, <3>1
  <2>2. CASE j # k
    <3>1. exec[j] = x /\ seen'[j] = seen[j] /\ seen[j] <= attempts[x]
      BY Zenon, <1>5, <1>7, <2>2 DEF Snapshots
    <3>2. CASE x = d
      BY <1>1, <1>3, <2>2, <3>1, <3>2
    <3>3. CASE x # d
      <4>1. status'[x] = status[x] /\ owner'[x] = owner[x] /\ attempts'[x] = attempts[x]
        BY Zenon, <1>3, <3>3
      <4>2. status[x] = "RUNNING" /\ owner[x] = j => seen[j] = attempts[x]
        BY Zenon, <3>1 DEF Snapshots
      <4> QED BY Zenon, <3>1, <4>1, <4>2
    <3> QED BY Zenon, <3>2, <3>3
  <2> QED BY Zenon, <2>1, <2>2
<1> QED BY Zenon, <1>6, <1>7 DEF Snapshots

(* Where the row of d may go when no claim is made: children only forget.  *)
Ends(d) ==
  /\ attempts' = attempts
  /\ \A x \in Demos : x # d => status'[x] = status[x] /\ owner'[x] = owner[x]
  /\ \A j \in Children : exec'[j] = Nobody \/ (exec'[j] = exec[j] /\ seen'[j] = seen[j])
  /\ \/ status'[d] = status[d] /\ owner'[d] = owner[d]
     \/ status'[d] \in {"PENDING", "COMPLETED"}
     \/ status'[d] = "DEAD" /\ attempts[d] >= MaxRetries

LEMMA EndsSnapshots ==
  ASSUME Snapshots, NEW d \in Demos, Ends(d)
  PROVE Snapshots'
<1>1. Nobody \notin Demos
  BY DEF Demos, Nobody
<1>2. ASSUME NEW x \in Demos, status'[x] = "DEAD" PROVE attempts'[x] >= MaxRetries
  BY Zenon, <1>2 DEF Ends, Snapshots
<1>3. ASSUME NEW x \in Demos, NEW j \in Children, exec'[j] = x
      PROVE seen'[j] <= attempts'[x] /\ (status'[x] = "RUNNING" /\ owner'[x] = j => seen'[j] = attempts'[x])
  <2>1. exec[j] = x /\ seen'[j] = seen[j] /\ attempts'[x] = attempts[x]
    BY Zenon, <1>1, <1>3 DEF Ends
  <2>2. status'[x] = "RUNNING" => status[x] = "RUNNING" /\ owner'[x] = owner[x]
    BY Zenon DEF Ends
  <2> QED BY Zenon, <2>1, <2>2 DEF Snapshots
<1> QED BY Zenon, <1>2, <1>3 DEF Snapshots

(* The other steps that write rows end an execution or the wait for one.   *)
LEMMA HandlersEnd ==
  ASSUME CrashInv, Snapshots, NEW k \in Children, NEW d \in Demos, Complete(k, d) \/ HandlerFails(k, d)
  PROVE Ends(d)
<1>1. /\ status \in [Demos -> {"ABSENT", "PENDING", "RUNNING", "COMPLETED", "DEAD"}]
      /\ attempts \in [Demos -> Nat] /\ owner \in [Demos -> Children \cup {Nobody}]
      /\ exec \in [Children -> Demos \cup {Nobody}] /\ seen \in [Children -> Nat]
  BY Zenon DEF CrashInv, CrashTypeOK
<1>2. HandlerReturns(k, d)
  BY Zenon DEF Complete, HandlerFails
<1>3. /\ attempts' = attempts /\ exec[k] = d
      /\ \A j \in Children : exec'[j] = Nobody \/ (exec'[j] = exec[j] /\ seen'[j] = seen[j])
  BY Zenon, <1>1, <1>2 DEF HandlerReturns
<1>4. seen[k] <= attempts[d] /\ seen[k] \in Nat /\ attempts[d] \in Nat
  BY Zenon, <1>1, <1>3 DEF Snapshots
<1>5. seen[k] >= MaxRetries => attempts[d] >= MaxRetries
  BY <1>4 DEF MaxRetries
<1>6. CASE Complete(k, d)
  BY Zenon, <1>1, <1>3, <1>6 DEF Complete, Ends
<1>7. CASE HandlerFails(k, d)
  BY Zenon, <1>1, <1>3, <1>5, <1>7 DEF HandlerFails, Requeue, Ends
<1> QED BY Zenon, <1>6, <1>7

LEMMA ReapEnds ==
  ASSUME CrashInv, NEW d \in Demos, Reap(d)
  PROVE Ends(d)
<1>1. /\ status \in [Demos -> {"ABSENT", "PENDING", "RUNNING", "COMPLETED", "DEAD"}]
      /\ owner \in [Demos -> Children \cup {Nobody}]
  BY Zenon DEF CrashInv, CrashTypeOK
<1> QED BY Zenon, <1>1 DEF Reap, Requeue, Ends

LEMMA InsertEnds ==
  ASSUME CrashInv, NEW d \in Demos, InsertTask(d) \/ InsertTaskFails(d)
  PROVE Ends(d)
<1>1. status \in [Demos -> {"ABSENT", "PENDING", "RUNNING", "COMPLETED", "DEAD"}]
  BY Zenon DEF CrashInv, CrashTypeOK
<1> QED BY Zenon, <1>1 DEF InsertTask, InsertTaskFails, Ends

LEMMA ExitsEnd ==
  ASSUME CrashInv, NEW k \in Children, NEW d \in Demos, Exits(k)
  PROVE Ends(d)
<1>1. exec \in [Children -> Demos \cup {Nobody}] /\ seen \in [Children -> Nat]
  BY Zenon DEF CrashInv, CrashTypeOK
<1> QED BY Zenon, <1>1 DEF Exits, Ends

(* The steps that leave the tasks and what children know of them alone.    *)
LEMMA TasksAside ==
  ASSUME CrashNext
  PROVE \/ UNCHANGED taskVars
        \/ \E d \in Demos : InsertTask(d) \/ InsertTaskFails(d) \/ Reap(d)
        \/ \E k \in Children : Exits(k)
        \/ \E k \in Children, d \in Demos : Claim(k, d) \/ Complete(k, d) \/ HandlerFails(k, d)
<1>1. ASSUME NEW d \in Demos, Start(d) \/ Spawn(d) \/ SpawnFails(d) \/ Poll(d) \/ Timeout(d) \/ KillSwap(d)
                              \/ KillSignal(d) \/ KillWait(d) \/ End(d) \/ TailCheck(d) \/ TailSpawn(d)
      PROVE UNCHANGED taskVars
  BY Zenon, <1>1 DEF Start, Spawn, SpawnFails, Poll, Timeout, KillSwap, KillSignal, KillWait, End, TailCheck,
     TailSpawn
<1>2. ASSUME NEW k \in Children, Watch(k) PROVE UNCHANGED taskVars
  BY Zenon, <1>2 DEF Watch
<1>3. ASSUME Stop \/ Close \/ CloseSwap \/ CloseSignal \/ Exit PROVE UNCHANGED taskVars
  BY Zenon, <1>3 DEF Stop, Close, CloseSwap, CloseSignal, Exit
<1> QED BY Zenon, <1>1, <1>2, <1>3 DEF CrashNext, Demo, Work

(* Every child's memory of its claim stays in step with the table.         *)
THEOREM SnapshotsInStep == CrashSpec => []Snapshots
<1>1. CrashInit => Snapshots
  <2>1. Nobody \notin Demos
    BY DEF Demos, Nobody
  <2>2. CrashInit => \A k \in Children : exec[k] = Nobody
    BY Zenon DEF CrashInit
  <2>3. CrashInit => \A d \in Demos : status[d] = "ABSENT"
    BY Zenon DEF CrashInit
  <2> QED BY <2>1, <2>2, <2>3 DEF Snapshots
<1>2. CrashInv /\ Snapshots /\ [CrashNext]_crashVars => Snapshots'
  <2> SUFFICES ASSUME CrashInv, Snapshots, [CrashNext]_crashVars PROVE Snapshots'
    BY Zenon
  <2>1. CASE UNCHANGED taskVars
    BY Zenon, <2>1 DEF taskVars, Snapshots
  <2>2. ASSUME NEW k \in Children, Exits(k) PROVE Snapshots'
    BY Zenon, <2>2, ExitsEnd, EndsSnapshots DEF Snapshots
  <2> QED BY Zenon, <2>1, <2>2, TasksAside, InsertEnds, ReapEnds, HandlersEnd, EndsSnapshots, ClaimSnapshots
            DEF crashVars, taskVars
<1> QED BY <1>1, <1>2, CrashInvariant, PTL DEF CrashSpec

(* What a step may do to the task of d.                                    *)
Spends(d) ==
  /\ status[d] = "RUNNING" /\ status'[d] = "PENDING" =>
       \/ attempts[d] < MaxRetries
       \/ \E k \in Children : Late(k, d) /\ exec'[k] = Nobody
  /\ status'[d] = "DEAD" => attempts'[d] >= MaxRetries
  /\ status[d] \in {"COMPLETED", "DEAD"} => status'[d] = status[d]

(* A failure that requeues a spent task comes from a child whose claim was *)
(* superseded: had it still held the task, it would have known.            *)
LEMMA FailureSpends ==
  ASSUME CrashInv, Snapshots, NEW k \in Children, NEW d \in Demos, HandlerFails(k, d), status'[d] = "PENDING",
         status[d] = "RUNNING", ~(attempts[d] < MaxRetries)
  PROVE Late(k, d) /\ exec'[k] = Nobody
<1>1. /\ status \in [Demos -> {"ABSENT", "PENDING", "RUNNING", "COMPLETED", "DEAD"}]
      /\ attempts \in [Demos -> Nat]
      /\ exec \in [Children -> Demos \cup {Nobody}] /\ seen \in [Children -> Nat]
  BY Zenon DEF CrashInv, CrashTypeOK
<1>2. exec[k] = d /\ exec'[k] = Nobody
  BY Zenon, <1>1 DEF HandlerFails, HandlerReturns
<1>3. ~(seen[k] >= MaxRetries)
  BY Zenon, <1>1 DEF HandlerFails, Requeue
<1>4. seen[k] < attempts[d] /\ seen[k] # attempts[d]
  BY <1>1, <1>3 DEF MaxRetries
<1>5. owner[d] # k
  BY Zenon, <1>2, <1>4 DEF Snapshots
<1> QED BY Zenon, <1>2, <1>4, <1>5 DEF Late

LEMMA TasksSpend ==
  ASSUME CrashInv, Snapshots, Snapshots', CrashNext, NEW d \in Demos
  PROVE Spends(d)
<1>0. /\ status \in [Demos -> {"ABSENT", "PENDING", "RUNNING", "COMPLETED", "DEAD"}]
      /\ attempts \in [Demos -> Nat]
  BY Zenon DEF CrashInv, CrashTypeOK
<1>1. status'[d] = "DEAD" => attempts'[d] >= MaxRetries
  BY Zenon DEF Snapshots
<1>2. ASSUME status'[d] = status[d] PROVE Spends(d)
  BY Zenon, <1>1, <1>2 DEF Spends
<1>3. CASE UNCHANGED taskVars
  BY Zenon, <1>2, <1>3 DEF taskVars
<1>4. ASSUME NEW x \in Demos, InsertTask(x) \/ InsertTaskFails(x) PROVE Spends(d)
  <2>1. status[x] = "ABSENT"
    BY Zenon, <1>4 DEF InsertTask, InsertTaskFails, CrashInv, Stages
  <2>2. status'[d] = status[d] \/ d = x
    BY Zenon, <1>0, <1>4 DEF InsertTask, InsertTaskFails
  <2>3. CASE d = x
    BY Zenon, <1>1, <2>1, <2>3 DEF Spends
  <2> QED BY Zenon, <1>2, <2>2, <2>3
<1>5. ASSUME NEW x \in Demos, Reap(x) PROVE Spends(d)
  <2>1. attempts[d] >= MaxRetries \/ attempts[d] < MaxRetries
    BY <1>0 DEF MaxRetries
  <2>2. \/ status'[d] = status[d]
        \/ status[d] = "RUNNING" /\ (status'[d] = "DEAD" \/ ~(attempts[d] >= MaxRetries))
    BY <1>0, <1>5 DEF Reap, Requeue
  <2> QED BY Zenon, <1>1, <1>2, <2>1, <2>2 DEF Spends
<1>6. ASSUME NEW k \in Children, Exits(k) PROVE Spends(d)
  BY Zenon, <1>2, <1>6 DEF Exits
<1>7. ASSUME NEW k \in Children, NEW x \in Demos, Claim(k, x) PROVE Spends(d)
  <2>1. status'[d] = status[d] \/ status[d] = "PENDING"
    BY Zenon, <1>0, <1>7 DEF Claim
  <2> QED BY Zenon, <1>1, <1>2, <2>1 DEF Spends
<1>8. ASSUME NEW k \in Children, NEW x \in Demos, Complete(k, x) PROVE Spends(d)
  <2>1. status'[d] = status[d] \/ (status[d] = "RUNNING" /\ status'[d] = "COMPLETED")
    BY <1>0, <1>8 DEF Complete
  <2> QED BY Zenon, <1>1, <1>2, <2>1 DEF Spends
<1>9. ASSUME NEW k \in Children, NEW x \in Demos, HandlerFails(k, x) PROVE Spends(d)
  <2>1. status'[d] = status[d] \/ (d = x /\ status[d] = "RUNNING")
    BY <1>0, <1>9 DEF HandlerFails, Requeue
  <2>2. CASE d = x /\ status[d] = "RUNNING"
    BY Zenon, <1>1, <1>9, <2>2, FailureSpends DEF Spends
  <2> QED BY Zenon, <1>2, <2>1, <2>2
<1> QED BY Zenon, <1>3, <1>4, <1>5, <1>6, <1>7, <1>8, <1>9, TasksAside

(* For any number of demos, children and mishaps: a demo's task is         *)
(* requeued beyond its budget only by a late failure of a child that no    *)
(* longer holds it, it is DEAD only with its attempts used up, and what is *)
(* COMPLETED or DEAD stays so.                                             *)
THEOREM OverdraftsExplained == CrashSpec => OnlyLateFailuresOverdraw
<1>1. ASSUME CrashInv, Snapshots, Snapshots', CrashNext PROVE \A d \in Demos : Spends(d)
  BY Zenon, <1>1, TasksSpend
<1>2. CrashInv /\ Snapshots /\ Snapshots' /\ [CrashNext]_crashVars => [\A d \in Demos : Spends(d)]_crashVars
  BY Zenon, <1>1
<1>3. CrashInv /\ Snapshots /\ Snapshots' /\ [CrashNext]_crashVars =>
        [\A d \in Demos :
           /\ status[d] = "RUNNING" /\ status'[d] = "PENDING" =>
                \/ attempts[d] < MaxRetries
                \/ \E k \in Children : Late(k, d) /\ exec'[k] = Nobody
           /\ status'[d] = "DEAD" => attempts'[d] >= MaxRetries
           /\ status[d] \in {"COMPLETED", "DEAD"} => status'[d] = status[d]]_crashVars
  BY Zenon, <1>2 DEF Spends
<1> QED BY <1>3, CrashInvariant, SnapshotsInStep, PTL DEF CrashSpec, OnlyLateFailuresOverdraw

-----------------------------------------------------------------------------
(* The order of runDemo.                                                   *)
Place == [none |-> 0, spawn |-> 1, insert |-> 2, claim |-> 3, swap |-> 4, signal |-> 5, wait |-> 6,
          reap |-> 7, respawn |-> 8, finish |-> 9, ending |-> 10, tail |-> 11, tailspawn |-> 12, done |-> 13]

DemoForward ==
  /\ \A d \in Demos : pc'[d] = pc[d] \/ Place[pc'[d]] > Place[pc[d]]
  /\ \A d \in Demos : Demo(d) => Place[pc'[d]] > Place[pc[d]]

(* A demo goes through runDemo once, without going back, and every step of *)
(* its goroutine takes it further: it is over after thirteen at most,      *)
(* whatever its children, the reaper and the shutdown do meanwhile.        *)
DemosOnlyForward == [][DemoForward]_crashVars

(* A step of a demo takes it further.                                      *)
LEMMA DemoFurther ==
  ASSUME CrashInv, NEW d \in Demos, Start(d) \/ Demo(d)
  PROVE Place[pc'[d]] > Place[pc[d]] /\ \A x \in Demos : x # d => pc'[x] = pc[x]
<1>0. pc \in [Demos -> {"none", "spawn", "insert", "claim", "swap", "signal", "wait", "reap", "respawn",
                        "finish", "ending", "tail", "tailspawn", "done"}]
  BY Zenon DEF CrashInv, CrashTypeOK
<1>1. ASSUME NEW label, Goto(d, label), Place[label] > Place[pc[d]]
      PROVE Place[pc'[d]] > Place[pc[d]] /\ \A x \in Demos : x # d => pc'[x] = pc[x]
  BY Zenon, <1>0, <1>1 DEF Goto
<1>a. /\ Place["spawn"] > Place["none"] /\ Place["insert"] > Place["spawn"]
      /\ Place["claim"] > Place["insert"] /\ Place["swap"] > Place["claim"]
      /\ Place["signal"] > Place["swap"] /\ Place["wait"] > Place["signal"]
      /\ Place["reap"] > Place["wait"] /\ Place["reap"] > Place["signal"]
      /\ Place["respawn"] > Place["reap"] /\ Place["finish"] > Place["respawn"]
  BY DEF Place
<1>b. /\ Place["ending"] > Place["spawn"] /\ Place["ending"] > Place["insert"]
      /\ Place["ending"] > Place["claim"] /\ Place["ending"] > Place["swap"]
      /\ Place["ending"] > Place["signal"] /\ Place["ending"] > Place["wait"]
      /\ Place["ending"] > Place["reap"] /\ Place["ending"] > Place["respawn"]
      /\ Place["ending"] > Place["finish"]
  BY DEF Place
<1>c. /\ Place["tail"] > Place["ending"] /\ Place["tailspawn"] > Place["tail"]
      /\ Place["done"] > Place["ending"] /\ Place["done"] > Place["tail"] /\ Place["done"] > Place["tailspawn"]
  BY DEF Place
<1>2. CASE Start(d)
  <2>1. pc[d] = "none"
    BY <1>2 DEF Start, CrashInv, Stages, CrashTypeOK
  <2> QED BY Zenon, <1>1, <1>2, <1>a, <2>1 DEF Start
<1>3. CASE Spawn(d) \/ SpawnFails(d) \/ InsertTask(d) \/ InsertTaskFails(d) \/ Timeout(d)
  <2>1. CASE Spawn(d)
    BY Zenon, <1>1, <1>a, <2>1 DEF Spawn
  <2>2. CASE SpawnFails(d)
    BY Zenon, <1>1, <1>b, <2>2 DEF SpawnFails, Fail
  <2>3. CASE InsertTask(d)
    BY Zenon, <1>1, <1>a, <2>3 DEF InsertTask
  <2>4. CASE InsertTaskFails(d)
    BY Zenon, <1>1, <1>b, <2>4 DEF InsertTaskFails, Fail
  <2>5. CASE Timeout(d)
    BY Zenon, <1>1, <1>b, <2>5 DEF Timeout, Waiting, Fail
  <2> QED BY Zenon, <1>3, <2>1, <2>2, <2>3, <2>4, <2>5
<1>4. CASE Poll(d)
  <2>1. CASE pc[d] = "claim"
    BY <1>1, <1>4, <2>1 DEF Poll, Awaited, Place
  <2>2. CASE pc[d] = "reap"
    BY <1>1, <1>4, <2>2 DEF Poll, Awaited, Place
  <2>3. CASE pc[d] = "finish"
    BY <1>1, <1>4, <2>3 DEF Poll, Awaited, Place
  <2> QED BY Zenon, <1>4, <2>1, <2>2, <2>3 DEF Poll, Waiting
<1>5. CASE KillSwap(d) \/ KillSignal(d) \/ KillWait(d)
  <2>1. CASE KillSwap(d)
    BY Zenon, <1>1, <1>a, <1>b, <2>1 DEF KillSwap, Fail
  <2>2. CASE KillSignal(d)
    BY Zenon, <1>1, <1>a, <1>b, <2>2 DEF KillSignal, Fail
  <2>3. CASE KillWait(d)
    BY Zenon, <1>1, <1>a, <1>b, <2>3 DEF KillWait, Fail
  <2> QED BY Zenon, <1>5, <2>1, <2>2, <2>3
<1>6. CASE End(d) \/ TailSpawn(d)
  BY Zenon, <1>1, <1>6, <1>c DEF End, TailSpawn
<1>7. CASE TailCheck(d)
  BY Zenon, <1>1, <1>7, <1>c DEF TailCheck
<1> QED BY Zenon, <1>2, <1>3, <1>4, <1>5, <1>6, <1>7 DEF Demo

(* Every demo runs forward only.                                           *)
THEOREM DemosAdvance == CrashSpec => DemosOnlyForward
<1>1. ASSUME CrashInv, CrashNext PROVE DemoForward
  <2>1. \A d \in Demos : Demo(d) => Place[pc'[d]] > Place[pc[d]]
    BY Zenon, <1>1, DemoFurther
  <2>2. ASSUME NEW d \in Demos, Start(d) \/ Demo(d) PROVE DemoForward
    BY Zenon, <1>1, <2>1, <2>2, DemoFurther DEF DemoForward
  <2>3. ASSUME UNCHANGED pc PROVE DemoForward
    BY Zenon, <2>1, <2>3 DEF DemoForward
  <2>4. ASSUME NEW k \in Children, Work(k) \/ Exits(k) \/ Watch(k) PROVE UNCHANGED pc
    BY Zenon, <2>4 DEF Work, Claim, Complete, HandlerFails, HandlerReturns, Exits, Watch
  <2>5. ASSUME NEW d \in Demos, Reap(d) PROVE UNCHANGED pc
    BY Zenon, <2>5 DEF Reap
  <2>6. ASSUME Stop \/ Close \/ CloseSwap \/ CloseSignal \/ Exit PROVE UNCHANGED pc
    BY Zenon, <2>6 DEF Stop, Close, CloseSwap, CloseSignal, Exit
  <2> QED BY Zenon, <1>1, <2>2, <2>3, <2>4, <2>5, <2>6 DEF CrashNext
<1>2. CrashInv /\ [CrashNext]_crashVars => [DemoForward]_crashVars
  BY Zenon, <1>1
<1> QED BY <1>2, CrashInvariant, PTL DEF CrashSpec, DemosOnlyForward

(* A kill never hits the current worker: whoever signals a child has taken *)
(* its handle from m.proc before, and a spawn since then has put another   *)
(* child there, or none.                                                   *)
CurrentSpared == [][\A k \in Children : child[k] = "alive" /\ child'[k] = "killed" => proc # k /\ proc' # k]_crashVars

(* Demos and Close kill only the child they took.                          *)
THEOREM KillsSpareCurrent == CrashSpec => CurrentSpared
<1>1. ASSUME CrashInv, CrashNext, NEW k \in Children, child[k] = "alive", child'[k] = "killed"
      PROVE proc # k /\ proc' # k
  <2>0. child \in [Children -> {"none", "alive", "killed", "gone"}]
    BY Zenon, <1>1 DEF CrashInv, CrashTypeOK
  <2>1. ASSUME NEW d \in Demos, KillSignal(d) PROVE proc # k /\ proc' # k
    <3>1. held[d] # proc /\ held[d] \in Children
      BY SMTT(30), CrashAssumption, <1>1, <2>1 DEF KillSignal, CrashInv, Handles, CrashTypeOK, Children
    <3>2. held[d] = k
      BY Zenon, <1>1, <2>0, <2>1, <3>1 DEF KillSignal, Signal
    <3> QED BY Zenon, <2>1, <3>1, <3>2 DEF KillSignal
  <2>2. ASSUME CloseSignal PROVE proc # k /\ proc' # k
    <3>1. closing # proc /\ closing \in Children
      BY SMTT(30), CrashAssumption, <1>1, <2>2 DEF CloseSignal, CrashInv, Handles, CrashTypeOK, Children
    <3>2. closing = k
      BY Zenon, <1>1, <2>0, <2>2, <3>1 DEF CloseSignal, Signal
    <3> QED BY Zenon, <2>2, <3>1, <3>2 DEF CloseSignal
  <2>3. ASSUME UNCHANGED child PROVE FALSE
    BY Zenon, <1>1, <2>3
  <2>4. ASSUME SpawnWorker PROVE FALSE
    BY Zenon, <1>1, <2>0, <2>4 DEF SpawnWorker, procVars
  <2>5. ASSUME NEW d \in Demos, Spawn(d) \/ TailSpawn(d) PROVE FALSE
    BY Zenon, <2>3, <2>4, <2>5 DEF Spawn, TailSpawn, SpawnError, procVars
  <2>6. ASSUME NEW x \in Children, Exits(x) PROVE FALSE
    BY Zenon, <1>1, <2>0, <2>6 DEF Exits
  <2>7. ASSUME NEW d \in Demos, Start(d) \/ SpawnFails(d) \/ InsertTask(d) \/ InsertTaskFails(d) \/ Poll(d)
                                \/ Timeout(d) \/ KillSwap(d) \/ KillWait(d) \/ End(d) \/ TailCheck(d) \/ Reap(d)
        PROVE UNCHANGED child
    BY Zenon, <2>7 DEF Start, SpawnFails, SpawnError, InsertTask, InsertTaskFails, Poll, Timeout, KillSwap, KillWait,
       End, TailCheck, Reap, procVars
  <2>8. ASSUME NEW x \in Children, Work(x) \/ Watch(x) PROVE UNCHANGED child
    BY Zenon, <2>8 DEF Work, Claim, Complete, HandlerFails, HandlerReturns, Watch, procVars
  <2>9. ASSUME Stop \/ Close \/ CloseSwap \/ Exit PROVE UNCHANGED child
    BY Zenon, <2>9 DEF Stop, Close, CloseSwap, Exit, procVars
  <2> QED BY Zenon, <1>1, <2>1, <2>2, <2>3, <2>5, <2>6, <2>7, <2>8, <2>9 DEF CrashNext, Demo
<1>2. CrashInv /\ [CrashNext]_crashVars =>
        [\A k \in Children : child[k] = "alive" /\ child'[k] = "killed" => proc # k /\ proc' # k]_crashVars
  BY Zenon, <1>1
<1> QED BY <1>2, CrashInvariant, PTL DEF CrashSpec, CurrentSpared

(* With Close in charge, the demos that are left only give up: none of     *)
(* their steps starts a child or takes the handle of one.                  *)
LEMMA DemosGiveUp ==
  ASSUME CrashInv, CloseOwnsAll, NEW d \in Demos, Demo(d)
  PROVE (~ \E x \in Demos : PastTheContext(x)') /\ UNCHANGED <<app, proc, closing, child>>
<1>1. canceled /\ ~PastTheContext(d) /\ \A x \in Demos : pc[x] \notin {"spawn", "respawn", "swap", "signal", "tailspawn"}
  BY Zenon DEF CloseOwnsAll, PastTheContext, CrashInv, Handles, CrashTypeOK
<1>2. pc \in [Demos -> {"none", "spawn", "insert", "claim", "swap", "signal", "wait", "reap",
                        "respawn", "finish", "ending", "tail", "tailspawn", "done"}]
  BY Zenon DEF CrashInv, CrashTypeOK
<1>3. ~Spawn(d) /\ ~SpawnFails(d) /\ ~KillSwap(d) /\ ~KillSignal(d) /\ ~TailSpawn(d)
  BY Zenon, <1>1 DEF PastTheContext, Spawn, SpawnFails, KillSwap, KillSignal, TailSpawn
<1>4. ~InsertTask(d) /\ ~Poll(d)
  BY Zenon, <1>1 DEF InsertTask, Poll
<1>5. UNCHANGED <<app, proc, closing, child>>
  BY Zenon, <1>3, <1>4 DEF Demo, InsertTaskFails, Timeout, KillWait, End, TailCheck, appVars, procVars
<1>6. \E l \in {"ending", "reap", "tail", "done"} : Goto(d, l)
  BY Zenon, <1>1, <1>3, <1>4 DEF Demo, InsertTaskFails, Timeout, KillWait, End, TailCheck, Fail
<1>7. \A x \in Demos : pc'[x] \notin {"spawn", "respawn", "swap", "signal", "tailspawn"}
  BY Zenon, <1>1, <1>2, <1>6 DEF Goto
<1> QED BY Zenon, <1>5, <1>7 DEF PastTheContext

(* Nobody gives Close another child to care for, and Close signals the one *)
(* it took.                                                                *)
LEMMA CloseKeepsAll ==
  ASSUME CrashInv, CloseOwnsAll, CrashNext, started' = started
  PROVE CloseOwnsAll'
<1>0. child \in [Children -> {"none", "alive", "killed", "gone"}] /\ \A k \in Children : k # Nobody
  BY CrashAssumption DEF CrashInv, CrashTypeOK, Children, Nobody
<1>1. ASSUME UNCHANGED pc PROVE ~ \E x \in Demos : PastTheContext(x)'
  BY Zenon, <1>1 DEF CloseOwnsAll, PastTheContext
<1>2. ASSUME NEW d \in Demos, Start(d) PROVE CloseOwnsAll'
  BY <1>2 DEF Start, CrashInv, CrashTypeOK
<1>3. ASSUME NEW d \in Demos, Demo(d) PROVE CloseOwnsAll'
  BY Zenon, <1>3, DemosGiveUp DEF CloseOwnsAll
<1>4. ASSUME UNCHANGED <<pc, app, proc, closing>>, \A k \in Children : child'[k] = "alive" => child[k] = "alive"
      PROVE CloseOwnsAll'
  BY Zenon, <1>1, <1>4 DEF CloseOwnsAll
<1>5. ASSUME NEW d \in Demos, Reap(d) PROVE CloseOwnsAll'
  BY Zenon, <1>4, <1>5 DEF Reap, appVars, procVars
<1>6. ASSUME NEW k \in Children, Work(k) PROVE CloseOwnsAll'
  BY Zenon, <1>4, <1>6 DEF Work, Claim, Complete, HandlerFails, HandlerReturns, appVars, procVars
<1>7. ASSUME NEW k \in Children, Exits(k) PROVE CloseOwnsAll'
  <2>1. \A x \in Children : child'[x] = "alive" => child[x] = "alive"
    BY Zenon, <1>0, <1>7 DEF Exits
  <2> QED BY Zenon, <1>4, <1>7, <2>1 DEF Exits, appVars
<1>8. ASSUME NEW k \in Children, Watch(k) PROVE CloseOwnsAll'
  BY Zenon, <1>1, <1>8 DEF Watch, CloseOwnsAll, appVars
<1>9. Stop \/ Close => CloseOwnsAll'
  BY Zenon DEF Stop, Close, CloseOwnsAll
<1>10. ASSUME CloseSwap PROVE CloseOwnsAll'
  BY Zenon, <1>0, <1>1, <1>10 DEF CloseSwap, CloseOwnsAll
<1>11. ASSUME CloseSignal PROVE CloseOwnsAll'
  BY Zenon, <1>0, <1>1, <1>11 DEF CloseSignal, Signal, CloseOwnsAll
<1>12. ASSUME Exit PROVE CloseOwnsAll'
  BY Zenon, <1>1, <1>12 DEF Exit, CloseOwnsAll, procVars
<1> QED BY Zenon, <1>2, <1>3, <1>5, <1>6, <1>7, <1>8, <1>9, <1>10, <1>11, <1>12 DEF CrashNext

(* Close in charge stays in charge, whatever interleaves with it.          *)
THEOREM CloseStaysInCharge == CrashSpec => ShutdownStaysClean
<1>1. CrashInv /\ [CrashNext]_crashVars => [CloseOwnsAll /\ started' = started => CloseOwnsAll']_crashVars
  BY Zenon, CloseKeepsAll
<1> QED BY <1>1, CrashInvariant, PTL DEF CrashSpec, ShutdownStaysClean

(* What that means for the machine: if Close cancels the context when no   *)
(* demo is between its last look at it and a spawn or a kill, and no       *)
(* request starts another one after that, no child is alive once Close has *)
(* returned, nor after the playground has exited.                          *)
NoneSurvives ==
  \A n \in Nat :
    []((app = "closing" /\ started = n /\ ~ \E d \in Demos : PastTheContext(d))
       => [](app \in {"closed", "exited"} /\ started = n => \A k \in Children : child[k] # "alive"))

(* Demos are only ever added.                                              *)
LEMMA StartedGrows ==
  ASSUME CrashInv, CrashNext
  PROVE started' \in Nat /\ started \in Nat /\ started' >= started
<1>0. started \in Nat
  BY CrashAssumption DEF CrashInv, CrashTypeOK
<1>1. ASSUME started' = started PROVE started' \in Nat /\ started' >= started
  BY <1>0, <1>1
<1>2. ASSUME NEW d \in Demos, Start(d) PROVE started' \in Nat /\ started' >= started
  BY <1>0, <1>2 DEF Start
<1>3. ASSUME NEW d \in Demos, Demo(d) \/ Reap(d) PROVE started' = started
  BY Zenon, <1>3 DEF Demo, Spawn, SpawnFails, InsertTask, InsertTaskFails, Poll, Timeout, KillSwap, KillSignal,
     KillWait, End, TailCheck, TailSpawn, Reap
<1>4. ASSUME NEW k \in Children, Work(k) \/ Exits(k) \/ Watch(k) PROVE started' = started
  BY Zenon, <1>4 DEF Work, Claim, Complete, HandlerFails, HandlerReturns, Exits, Watch
<1>5. ASSUME Stop \/ Close \/ CloseSwap \/ CloseSignal \/ Exit PROVE started' = started
  BY Zenon, <1>5 DEF Stop, Close, CloseSwap, CloseSignal, Exit
<1> QED BY Zenon, <1>0, <1>1, <1>2, <1>3, <1>4, <1>5 DEF CrashNext

(* The children that do outlive the playground are those of demos caught   *)
(* past the context, or started after Close.                               *)
THEOREM ShutdownLeavesNone == CrashSpec => NoneSurvives
<1> SUFFICES ASSUME NEW CONSTANT n \in Nat
             PROVE CrashSpec =>
               []((app = "closing" /\ started = n /\ ~ \E d \in Demos : PastTheContext(d))
                  => [](app \in {"closed", "exited"} /\ started = n => \A k \in Children : child[k] # "alive"))
  BY Zenon DEF NoneSurvives
<1> DEFINE Owned == started \in Nat /\ started >= n /\ (started = n => CloseOwnsAll)
<1>1. CrashInv /\ app = "closing" /\ started = n /\ (~ \E d \in Demos : PastTheContext(d)) => Owned
  <2> SUFFICES ASSUME CrashInv, app = "closing", started = n, ~ \E d \in Demos : PastTheContext(d)
               PROVE CloseOwnsAll /\ started >= n
    BY Zenon
  <2>1. CloseOwnsAll
    BY Zenon DEF CrashInv, EveryChildTracked, PastTheContext, CloseOwnsAll
  <2> QED BY <2>1
<1>2. CrashInv /\ Owned /\ [CrashNext]_crashVars => Owned'
  <2> SUFFICES ASSUME CrashInv, Owned, [CrashNext]_crashVars PROVE Owned'
    BY Zenon
  <2>1. CASE UNCHANGED crashVars
    BY Zenon, <2>1 DEF crashVars, CloseOwnsAll, PastTheContext
  <2>2. CASE CrashNext
    <3>1. started' \in Nat /\ started \in Nat /\ started' >= started /\ started >= n
      BY Zenon, <2>2, StartedGrows
    <3>2. started' >= n /\ (started' = n => started = n)
      BY <3>1
    <3> QED BY Zenon, <2>2, <3>1, <3>2, CloseKeepsAll
  <2> QED BY Zenon, <2>1, <2>2
<1>3. Owned => (app \in {"closed", "exited"} /\ started = n => \A k \in Children : child[k] # "alive")
  BY Zenon DEF CloseOwnsAll
<1> QED BY <1>1, <1>2, <1>3, CrashInvariant, PTL DEF CrashSpec
=============================================================================
