---------------------------- MODULE ClientRequests ----------------------------
(***************************************************************************)
(* DELETE /tasks/{id} and POST /tasks/{id}/retry from request to answer:   *)
(* the handlers of cmd/server, Client.CancelTask and RetryTask, and the    *)
(* store calls Cancel and RetryDead, which are not one step each.  They    *)
(* hold the connection of their transaction, and when the UPDATE matches   *)
(* no row they look the row up through the pool, over a second connection  *)
(* and in a later snapshot.  Workers, reapers and crashes run meanwhile.   *)
(***************************************************************************)
EXTENDS WorkerPool

CONSTANTS
  Requests,
  Kind,       \* "cancel" or "retry"
  Target,     \* the task id in the path of each request, NoTask if nobody's
  MaxConns    \* size of the connection pool of the server

ASSUME RequestAssumption ==
  /\ Kind \in [Requests -> {"cancel", "retry"}]
  /\ Target \in [Requests -> Tasks \cup {NoTask}]
  /\ IsFiniteSet(Requests)
  /\ MaxConns \in Nat \ {0}

VARIABLES
  rpc,      \* where each request is
  result,   \* what the store call returned
  free      \* idle connections of the pool

reqVars == <<rpc, result, free>>
allVars == <<vars, reqVars>>

(* The requests with an open transaction, and those whose lookup runs:     *)
(* each takes a connection.                                                *)
Holding == {r \in Requests : rpc[r] \in {"begun", "lookup", "reading"}}
Reading == {r \in Requests : rpc[r] = "reading"}

RPCs == {"unsent", "arriving", "begun", "lookup", "reading", "answered"}
Results == TaskStatus \cup {"none", "not found", "not dead", "error"}

ReqTypeOK ==
  /\ TypeOK
  /\ rpc \in [Requests -> RPCs]
  /\ result \in [Requests -> Results]
  /\ free \in 0..MaxConns

ReqInit ==
  /\ Init
  /\ rpc = [r \in Requests |-> "unsent"]
  /\ result = [r \in Requests |-> "none"]
  /\ free = MaxConns
-----------------------------------------------------------------------------
(* A client knows the id of a task once it is inserted.                    *)
Send(r) ==
  /\ rpc[r] = "unsent"
  /\ Target[r] \in Tasks => status[Target[r]] # "ABSENT"
  /\ rpc' = [rpc EXCEPT ![r] = "arriving"]
  /\ UNCHANGED <<vars, result, free>>

(* ts.db.Begin waits for a connection.                                     *)
Begin(r) ==
  /\ rpc[r] = "arriving" /\ free > 0
  /\ rpc' = [rpc EXCEPT ![r] = "begun"]
  /\ free' = free - 1
  /\ UNCHANGED <<vars, result>>

Held(r) == (IF r \in Holding THEN 1 ELSE 0) + (IF r \in Reading THEN 1 ELSE 0)

(* The store call returns res: QueryRow's Scan has returned the connection *)
(* of a lookup, the deferred Rollback that of the transaction.             *)
Return(r, res) ==
  /\ rpc' = [rpc EXCEPT ![r] = "answered"]
  /\ result' = [result EXCEPT ![r] = res]
  /\ free' = free + Held(r)

(* The UPDATE with its WHERE id = $1 AND status = ...                      *)
Matches(r) ==
  Target[r] \in Tasks /\ status[Target[r]] = IF Kind[r] = "cancel" THEN "PENDING" ELSE "DEAD"
Effect(r) ==
  /\ Target[r] \in Tasks
  /\ IF Kind[r] = "cancel" THEN CancelTask(Target[r]) ELSE RetryTask(Target[r])

(* The UPDATE matches: log row, commit, and the row as updated is returned.*)
UpdateMatches(r) ==
  /\ rpc[r] = "begun"
  /\ Effect(r)
  /\ Return(r, IF Kind[r] = "cancel" THEN "CANCELED" ELSE "PENDING")

UpdateMisses(r) ==
  /\ rpc[r] = "begun"
  /\ ~Matches(r)
  /\ rpc' = [rpc EXCEPT ![r] = "lookup"]
  /\ UNCHANGED <<vars, result, free>>

(* What is returned after the lookup.                                      *)
Found(r) ==
  CASE Target[r] \notin Tasks -> "not found"
    [] Target[r] \in Tasks /\ Kind[r] = "retry" -> "not dead"
    [] Target[r] \in Tasks /\ Kind[r] = "cancel" -> status[Target[r]]

(* GetById waits for a connection of its own, ...                          *)
Acquire(r) ==
  /\ rpc[r] = "lookup" /\ free > 0
  /\ rpc' = [rpc EXCEPT ![r] = "reading"]
  /\ free' = free - 1
  /\ UNCHANGED <<vars, result>>

(* ... keeps it for its SELECT, and sees the row as it is then.            *)
Lookup(r) ==
  /\ rpc[r] = "reading"
  /\ Return(r, Found(r))
  /\ UNCHANGED vars

(* Mutant: the early return skips the Rollback.                            *)
FailsKeepingConnection(r) ==
  /\ rpc[r] \in {"arriving", "begun", "lookup", "reading"}
  /\ rpc' = [rpc EXCEPT ![r] = "answered"]
  /\ result' = [result EXCEPT ![r] = "error"]
  /\ \/ UNCHANGED vars
     \/ rpc[r] = "begun" /\ Effect(r)
  /\ UNCHANGED free

(* The client goes away or the database fails, in one case after the       *)
(* commit took effect.                                                     *)
Fails(r) ==
  /\ rpc[r] \in {"arriving", "begun", "lookup", "reading"}
  /\ Return(r, "error")
  /\ \/ UNCHANGED vars
     \/ rpc[r] = "begun" /\ Effect(r)

(* handleDeleteTask and handleRetryDeadTask.                               *)
HTTPStatus(r) ==
  CASE result[r] = "not found" -> 404
    [] result[r] \in {"CANCELED", "COMPLETED", "DEAD"} -> 200
    [] result[r] = "PENDING" -> IF Kind[r] = "retry" THEN 200 ELSE 500
    [] result[r] \in {"RUNNING", "not dead"} -> 409
    [] OTHER -> 500

Serve(r) == Begin(r) \/ UpdateMatches(r) \/ UpdateMisses(r) \/ Acquire(r) \/ Lookup(r)

(* The pool without its own clients, except the one that inserts.          *)
Background ==
  /\ \/ \E w \in Workers : WorkerStep(w)
     \/ \E p \in Procs : ProcStep(p)
     \/ \E t \in Tasks : Insert(t)
     \/ TimePasses
  /\ UNCHANGED reqVars

ReqNext == Background \/ \E r \in Requests : Send(r) \/ Serve(r) \/ Fails(r)

ReqSpec == ReqInit /\ [][ReqNext]_allVars

(* A request runs while it can.  Nothing else is assumed: no client gives  *)
(* up, and the server sets no deadline on its requests.                    *)
ReqFairSpec == ReqSpec /\ \A r \in Requests : WF_allVars(Serve(r))
-----------------------------------------------------------------------------
(* Every path through Cancel and RetryDead returns the connections it took *)
(* to the pool: idle ones, open transactions and running lookups make up   *)
(* the whole pool.                                                         *)
ConnectionsBalance == free + Cardinality(Holding) + Cardinality(Reading) = MaxConns

(* A client that was told CANCELED can rely on it: no worker, reaper or    *)
(* concurrent retry brings the task back.                                  *)
CanceledForGood ==
  \A r \in Requests :
    Kind[r] = "cancel" /\ result[r] = "CANCELED" =>
      Target[r] \in Tasks /\ status[Target[r]] = "CANCELED"

(* Each death can be retried once: of several concurrent retries of one    *)
(* DEAD task all but one are answered 409, so attempts are not reset twice.*)
(* task_logs shows a revival for every retry that was confirmed.           *)
OneRetryPerDeath ==
  \A t \in Tasks :
    Cardinality({r \in Requests : Kind[r] = "retry" /\ Target[r] = t /\ result[r] = "PENDING"})
      <= Cardinality(Revived(logs[t]))

(* A cancel that the database carried out is answered 200, 404 or 409, as  *)
(* Cancel's comment and the API reference say: RUNNING is a conflict,      *)
(* terminal is returned as it is, PENDING is canceled.                     *)
CancelAnsweredAsDocumented ==
  \A r \in Requests :
    rpc[r] = "answered" /\ Kind[r] = "cancel" /\ result[r] # "error" => HTTPStatus(r) # 500

(* Every DELETE and every retry is answered in the end, whatever others    *)
(* ask for at the same time.                                               *)
EveryRequestAnswered == \A r \in Requests : rpc[r] = "arriving" ~> rpc[r] = "answered"
=============================================================================
