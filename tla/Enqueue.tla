------------------------------- MODULE Enqueue -------------------------------
(***************************************************************************)
(* Submitting tasks: Client.Insert and Client.InsertTx (client.go), the    *)
(* shared insertTask of internal/store/task_store.go statement by          *)
(* statement, and POST /api/tasks (cmd/server/task_handler.go).            *)
(*                                                                         *)
(* A call inserts one task.  The calls of a transaction in Own are Insert: *)
(* one call, in a transaction Create begins and ends.  The calls of any    *)
(* other transaction are InsertTx, in an order and until an end that the   *)
(* caller chooses.  PostgreSQL runs them at READ COMMITTED: an insert of a *)
(* key that another open transaction has inserted waits for its end, and a *)
(* cycle of such waits fails one of the inserts.                           *)
(***************************************************************************)
EXTENDS Integers, FiniteSets

CONSTANTS
  Calls,      \* calls of Insert and InsertTx; a row is named after its call
  Txs,        \* transactions
  TxOf,       \* the transaction of each call
  Own,        \* the transactions Create begins
  KeyOf,      \* the (type, idempotency_key) of each call
  NoKey,      \* no idempotency key: never a conflict
  Payloads,
  Offers,     \* the payloads each call may carry
  Hash,       \* payload_hash of a payload
  Unhashable, \* payloads json.Unmarshal refuses: not JSON, or a number that
              \* does not fit a float64
  Unstorable, \* payloads jsonb refuses: with a null character
  Params,     \* the other parameters each call may carry: see Valid
  NoTask,     \* the zero task.ID
  NoPayload,  \* no payload, or the hash of none
  Unset,      \* a nil pointer in the parameters
  MaxFaults,  \* bound: how many transactions meet a database failure
  MaxDeleted  \* bound: how many tasks retention deletes

ASSUME EnqueueAssumption ==
  /\ IsFiniteSet(Calls)
  /\ TxOf \in [Calls -> Txs]
  /\ Own \subseteq Txs
  /\ \A c, d \in Calls : TxOf[c] = TxOf[d] /\ TxOf[c] \in Own => c = d
  /\ DOMAIN KeyOf = Calls
  /\ Offers \in [Calls -> SUBSET Payloads]
  /\ Unhashable \subseteq Payloads /\ Unstorable \subseteq Payloads
  /\ NoTask \notin Calls /\ NoPayload \notin Payloads
  /\ MaxFaults \in Nat /\ MaxDeleted \in Nat

VARIABLES
  tx,        \* each transaction: "idle", "open", "aborted" (a statement of
             \* it failed), "committed" or "rolledback"
  step,      \* each call: "unsent", at its "insert" or "lookup", "returned"
  row,       \* the row of each call: "none", "written" (uncommitted),
             \* "stored", "undone" or "deleted"
  payload,   \* the payload of each call
  hash,      \* its payload_hash
  result,    \* what insertTask, or the validation before it, returned
  task,      \* the task.ID it returned
  answer,    \* whether the end of each transaction was reported as a success
  enqueued,  \* TasksEnqueuedTotal
  faulted    \* transactions that met a database failure or a deadlock

enqVars == <<tx, step, row, payload, hash, result, task, answer, enqueued, faulted>>

EnqTypeOK ==
  /\ tx \in [Txs -> {"idle", "open", "aborted", "committed", "rolledback"}]
  /\ step \in [Calls -> {"unsent", "insert", "lookup", "returned"}]
  /\ row \in [Calls -> {"none", "written", "stored", "undone", "deleted"}]
  /\ payload \in [Calls -> Payloads \cup {NoPayload}]
  /\ hash = [c \in Calls |-> hash[c]]
  /\ result \in [Calls -> {"none", "created", "duplicate", "conflict", "invalid", "error"}]
  /\ task \in [Calls -> Calls \cup {NoTask}]
  /\ answer \in [Txs -> {"none", "ok", "error"}]
  /\ enqueued \in Nat
  /\ faulted \subseteq Txs
  /\ \A c \in Calls : row[c] = "written" => tx[TxOf[c]] \in {"open", "aborted"}

EnqInit ==
  /\ tx = [t \in Txs |-> "idle"]
  /\ step = [c \in Calls |-> "unsent"]
  /\ row = [c \in Calls |-> "none"]
  /\ payload = [c \in Calls |-> NoPayload]
  /\ hash = [c \in Calls |-> NoPayload]
  /\ result = [c \in Calls |-> "none"]
  /\ task = [c \in Calls |-> NoTask]
  /\ answer = [t \in Txs |-> "none"]
  /\ enqueued = 0
  /\ faulted = {}

-----------------------------------------------------------------------------
(* Parameters.  Lengths stand for the strings, seconds for run_at - now.   *)
Default(value, default) == IF value = Unset THEN default ELSE value

DefaultPriority == 0
DefaultMaxRetries == 5
EmptyObject == 2
Minute == 60
Day == 24 * 60 * Minute

Normalize(p) ==
  [p EXCEPT !.size = Default(@, EmptyObject), !.priority = Default(@, DefaultPriority),
            !.maxRetries = Default(@, DefaultMaxRetries), !.runIn = Default(@, 0)]

Valid(p) ==
  /\ p.type \in 1 .. 100
  /\ p.priority \in 0 .. 100
  /\ p.maxRetries \in 0 .. 20
  /\ Default(p.keyLength, 0) <= 255
  /\ p.size <= 64 * 1024
  /\ 0 <= p.runIn + 5 * Minute /\ p.runIn <= 30 * Day

-----------------------------------------------------------------------------
(* A caller uses its transaction for one statement at a time.              *)
Busy(t) == \E c \in Calls : TxOf[c] = t /\ step[c] \in {"insert", "lookup"}
Ended(t) == tx[t] \in {"committed", "rolledback"}
SameKey(c, d) == KeyOf[c] = KeyOf[d] /\ KeyOf[c] # NoKey

(* Mutant: insertTask uses the pool, not the transaction it is given.      *)
SharesTxNever(c, d) == FALSE

SharesTx(c, d) == TxOf[c] = TxOf[d]

(* Rows with the key of call c: in another open transaction, which c waits *)
(* for, and those its own transaction sees.                                *)
Blockers(c) == {d \in Calls : SameKey(c, d) /\ row[d] = "written" /\ ~SharesTx(c, d)}
Visible(c) == {d \in Calls : SameKey(c, d)
                              /\ (row[d] = "stored" \/ (row[d] = "written" /\ SharesTx(c, d)))}

WaitsFor(t, u) ==
  t # u /\ \E c \in Calls : /\ TxOf[c] = t /\ step[c] = "insert" /\ payload[c] \notin Unstorable
                            /\ \E d \in Blockers(c) : TxOf[d] = u
(* A transaction waits for one other at most, so these sets are the cycles. *)
Deadlocked(t) ==
  \E S \in SUBSET Txs : t \in S /\ \A u \in S : (\E v \in S : WaitsFor(u, v))
                                           /\ (\E v \in S : WaitsFor(v, u))

MayFail(t) == t \in faulted \/ Cardinality(faulted) < MaxFaults
Fault(t) == faulted' = faulted \cup {t}

(* A statement fails: PostgreSQL aborts the transaction, or its connection *)
(* is gone.                                                                *)
Abort(t) == tx' = [tx EXCEPT ![t] = "aborted"]

(* Or pgx gives up before it sends the statement, since the context of the *)
(* call is done, and the transaction stays as it was.  Create commits with *)
(* the same context, which fails too: its transaction is as good as        *)
(* aborted.                                                                *)
GiveUp(t) == t \notin Own /\ UNCHANGED tx

Returns(c, r, id) ==
  /\ step' = [step EXCEPT ![c] = "returned"]
  /\ result' = [result EXCEPT ![c] = r]
  /\ task' = [task EXCEPT ![c] = id]

(* Normalize and Validate refuse the call before it reaches the store.     *)
Reject(c) ==
  LET t == TxOf[c] IN
  /\ step[c] = "unsent" /\ ~Busy(t) /\ ~Ended(t)
  /\ \E p \in Params[c] : ~Valid(Normalize(p))
  /\ Returns(c, "invalid", NoTask)
  /\ IF t \in Own THEN tx' = [tx EXCEPT ![t] = "rolledback"] /\ answer' = [answer EXCEPT ![t] = "error"]
                   ELSE UNCHANGED <<tx, answer>>
  /\ UNCHANGED <<row, payload, hash, enqueued, faulted>>

(* A valid call reaches insertTask; Create begins a transaction first.     *)
Enter(c) ==
  LET t == TxOf[c] IN
  /\ step[c] = "unsent" /\ ~Busy(t) /\ ~Ended(t)
  /\ \E p \in Params[c] : Valid(Normalize(p))
  /\ tx' = [tx EXCEPT ![t] = IF @ = "idle" THEN "open" ELSE @]

(* insertTask hashes the payload and reaches its INSERT.                   *)
Send(c) ==
  /\ Enter(c)
  /\ \E p \in Offers[c] \ Unhashable : /\ payload' = [payload EXCEPT ![c] = p]
                                       /\ hash' = [hash EXCEPT ![c] = Hash[p]]
  /\ step' = [step EXCEPT ![c] = "insert"]
  /\ UNCHANGED <<row, result, task, answer, enqueued, faulted>>

(* hashPayload fails: an error before any statement.                       *)
HashFails(c) ==
  /\ Enter(c)
  /\ \E p \in Offers[c] \cap Unhashable : payload' = [payload EXCEPT ![c] = p]
  /\ Returns(c, "error", NoTask)
  /\ UNCHANGED <<row, hash, answer, enqueued, faulted>>

(* Mutant: a SELECT for the key and then the INSERT.                       *)
InsertRowChecked(c) ==
  /\ step[c] = "insert" /\ tx[TxOf[c]] = "open" /\ payload[c] \notin Unstorable
  /\ Visible(c) = {}
  /\ row' = [row EXCEPT ![c] = "written"]
  /\ Returns(c, "created", c)
  /\ enqueued' = enqueued + 1
  /\ UNCHANGED <<tx, payload, hash, answer, faulted>>

(* Mutant: only Create counts, not CreateTx.                               *)
InsertRowCountsOwn(c) ==
  /\ step[c] = "insert" /\ tx[TxOf[c]] = "open" /\ payload[c] \notin Unstorable
  /\ Blockers(c) = {} /\ Visible(c) = {}
  /\ row' = [row EXCEPT ![c] = "written"]
  /\ Returns(c, "created", c)
  /\ enqueued' = IF TxOf[c] \in Own THEN enqueued + 1 ELSE enqueued
  /\ UNCHANGED <<tx, payload, hash, answer, faulted>>

(* Mutant: the INSERT of InsertTx runs outside the caller's transaction.   *)
InsertRowOutside(c) ==
  /\ step[c] = "insert" /\ tx[TxOf[c]] = "open" /\ payload[c] \notin Unstorable
  /\ Blockers(c) = {} /\ Visible(c) = {}
  /\ row' = [row EXCEPT ![c] = IF TxOf[c] \in Own THEN "written" ELSE "stored"]
  /\ Returns(c, "created", c)
  /\ enqueued' = enqueued + 1
  /\ UNCHANGED <<tx, payload, hash, answer, faulted>>

(* The INSERT returns a row: counted before the commit.                    *)
InsertRow(c) ==
  /\ step[c] = "insert" /\ tx[TxOf[c]] = "open" /\ payload[c] \notin Unstorable
  /\ Blockers(c) = {} /\ Visible(c) = {}
  /\ row' = [row EXCEPT ![c] = "written"]
  /\ Returns(c, "created", c)
  /\ enqueued' = enqueued + 1
  /\ UNCHANGED <<tx, payload, hash, answer, faulted>>

(* Mutant: a plain INSERT, for which a duplicate key is an error.          *)
InsertRaises(c) ==
  /\ step[c] = "insert" /\ tx[TxOf[c]] = "open" /\ payload[c] \notin Unstorable
  /\ Visible(c) # {}
  /\ tx' = [tx EXCEPT ![TxOf[c]] = "aborted"]
  /\ Returns(c, "error", NoTask)
  /\ UNCHANGED <<row, payload, hash, answer, enqueued, faulted>>

(* ON CONFLICT DO NOTHING: the INSERT returns no row.                      *)
InsertConflicts(c) ==
  /\ step[c] = "insert" /\ tx[TxOf[c]] = "open" /\ payload[c] \notin Unstorable
  /\ Visible(c) # {}
  /\ step' = [step EXCEPT ![c] = "lookup"]
  /\ UNCHANGED <<tx, row, payload, hash, result, task, answer, enqueued, faulted>>

(* The INSERT fails: the transaction was aborted already, jsonb refuses    *)
(* the payload, the call is the victim of a deadlock, the database failed, *)
(* or the statement was never sent.  insertTask looks only for ErrNoRows:  *)
(* any other error counts and returns as a created task.                   *)
InsertFails(c) ==
  LET t == TxOf[c] IN
  /\ step[c] = "insert"
  /\ \/ tx[t] = "aborted" /\ UNCHANGED <<tx, faulted>>
     \/ tx[t] = "open" /\ payload[c] \in Unstorable /\ Abort(t) /\ UNCHANGED faulted
     \/ tx[t] = "open" /\ (Deadlocked(t) \/ MayFail(t)) /\ Abort(t) /\ Fault(t)
     \/ tx[t] = "open" /\ MayFail(t) /\ GiveUp(t) /\ Fault(t)
  /\ Returns(c, "created", NoTask)
  /\ enqueued' = enqueued + 1
  /\ UNCHANGED <<row, payload, hash, answer>>

(* Mutant: any task with the key is a replay.                              *)
LookupUnhashed(c) ==
  /\ step[c] = "lookup" /\ tx[TxOf[c]] = "open"
  /\ \/ Visible(c) = {} /\ Returns(c, "error", NoTask)
     \/ \E d \in Visible(c) : Returns(c, "duplicate", d)
  /\ UNCHANGED <<tx, row, payload, hash, answer, enqueued, faulted>>

(* getByTypeAndIdempotencyKey: a replay, a conflict, or no row any more.   *)
Lookup(c) ==
  /\ step[c] = "lookup" /\ tx[TxOf[c]] = "open"
  /\ \/ Visible(c) = {} /\ Returns(c, "error", NoTask)
     \/ \E d \in Visible(c) :
          IF hash[d] = hash[c] THEN Returns(c, "duplicate", d) ELSE Returns(c, "conflict", NoTask)
  /\ UNCHANGED <<tx, row, payload, hash, answer, enqueued, faulted>>

LookupFails(c) ==
  LET t == TxOf[c] IN
  /\ step[c] = "lookup" /\ MayFail(t) /\ Fault(t)
  /\ Abort(t) \/ GiveUp(t)
  /\ Returns(c, "error", NoTask)
  /\ UNCHANGED <<row, payload, hash, answer, enqueued>>

BeginFails(c) ==
  LET t == TxOf[c] IN
  /\ step[c] = "unsent" /\ t \in Own /\ MayFail(t) /\ Fault(t)
  /\ Returns(c, "error", NoTask)
  /\ tx' = [tx EXCEPT ![t] = "rolledback"]
  /\ answer' = [answer EXCEPT ![t] = "error"]
  /\ UNCHANGED <<row, payload, hash, enqueued>>

-----------------------------------------------------------------------------
(* The end of a transaction, by Create or by the caller.                   *)
Results(t) == {result[c] : c \in {d \in Calls : TxOf[d] = t}}

Settle(t, end, told, rows) ==
  /\ tx' = [tx EXCEPT ![t] = end]
  /\ answer' = [answer EXCEPT ![t] = told]
  /\ row' = [c \in Calls |-> IF TxOf[c] = t /\ row[c] = "written" THEN rows ELSE row[c]]
  /\ UNCHANGED <<step, payload, hash, result, task, enqueued>>

MayCommit(t) ==
  /\ tx[t] \in {"open", "aborted"} /\ ~Busy(t)
  /\ t \in Own => Results(t) \subseteq {"created", "duplicate"}

(* Mutant: Create drops the error of the commit.                           *)
CommitUnchecked(t) ==
  /\ MayCommit(t)
  /\ IF tx[t] = "open" THEN Settle(t, "committed", "ok", "stored")
                       ELSE Settle(t, "rolledback", "ok", "undone")
  /\ UNCHANGED faulted

(* COMMIT of an aborted transaction rolls it back, and pgx reports that.   *)
Commit(t) ==
  /\ MayCommit(t)
  /\ IF tx[t] = "open" THEN Settle(t, "committed", "ok", "stored")
                       ELSE Settle(t, "rolledback", "error", "undone")
  /\ UNCHANGED faulted

(* The connection breaks at the COMMIT, before or after it took effect.    *)
CommitFails(t) ==
  /\ MayCommit(t) /\ tx[t] = "open"
  /\ MayFail(t) /\ Fault(t)
  /\ \/ Settle(t, "committed", "error", "stored")
     \/ Settle(t, "rolledback", "error", "undone")

(* Create rolls back after an error; a caller may at any time.             *)
Rollback(t) ==
  /\ tx[t] \in {"open", "aborted"} /\ ~Busy(t)
  /\ t \in Own => Results(t) \subseteq {"conflict", "error"}
  /\ Settle(t, "rolledback", "error", "undone")
  /\ UNCHANGED faulted

(* Retention deletes a stored task.                                        *)
Delete(c) ==
  /\ row[c] = "stored"
  /\ Cardinality({d \in Calls : row[d] = "deleted"}) < MaxDeleted
  /\ row' = [row EXCEPT ![c] = "deleted"]
  /\ UNCHANGED <<tx, step, payload, hash, result, task, answer, enqueued, faulted>>

Execute(c) == InsertRow(c) \/ InsertConflicts(c) \/ InsertFails(c) \/ Lookup(c) \/ LookupFails(c)

EnqNext ==
  \/ \E c \in Calls : Reject(c) \/ Send(c) \/ HashFails(c) \/ BeginFails(c) \/ Execute(c) \/ Delete(c)
  \/ \E t \in Txs : Commit(t) \/ CommitFails(t) \/ Rollback(t)

EnqSpec == EnqInit /\ [][EnqNext]_enqVars

(* Statements end, and every transaction is ended by its owner: Create by  *)
(* its commit or its deferred Rollback, a caller by its own.               *)
EnqFairSpec ==
  EnqSpec /\ WF_enqVars((\E t \in Txs : Commit(t) \/ Rollback(t)) \/ \E c \in Calls : Execute(c))

-----------------------------------------------------------------------------
Acknowledged(c) == answer[TxOf[c]] = "ok" /\ result[c] \in {"created", "duplicate"}

(* Two tasks never share a (type, idempotency_key), not even while the     *)
(* transactions that insert them are open.                                 *)
OneTaskPerKey ==
  \A c, d \in Calls : SameKey(c, d) /\ {row[c], row[d]} \subseteq {"written", "stored"} => c = d

(* A caller whose transaction was reported committed can rely on every     *)
(* task it was handed, created or replayed: the task is in the table, or   *)
(* was until it was deleted.  Insert always hands one; InsertTx hands none *)
(* when it was given up without being sent.                                *)
AcknowledgedIsStored ==
  \A c \in Calls : Acknowledged(c) =>
     \/ task[c] \in Calls /\ row[task[c]] \in {"stored", "deleted"}
     \/ task[c] = NoTask /\ result[c] = "created" /\ TxOf[c] \in faulted \ Own

Table == INSTANCE TaskTable
  WITH ended <- {t \in Txs : Ended(t)},
       stored <- {c \in Calls : row[c] = "stored"},
       deleted <- {c \in Calls : row[c] = "deleted"},
       told <- [c \in Calls |-> IF Acknowledged(c) THEN task[c] ELSE NoTask]

(* Whatever their statements wait for, conflict with or fail on, seen from *)
(* outside each transaction happens at one moment, once: its tasks appear  *)
(* together and never beside another with their key, its callers are told  *)
(* of a task with their key that is there, and nothing shows before.       *)
SubmitsAtOnce == Table!TableSpec

(* Callers that submit the same (type, idempotency_key) are handed one and *)
(* the same task for as long as it is not deleted, and a replay has the    *)
(* payload hash of the task it is handed.                                  *)
ReplaysAgree ==
  \A c, d \in Calls :
     SameKey(c, d) /\ Acknowledged(c) /\ Acknowledged(d) /\ NoTask \notin {task[c], task[d]} =>
        /\ task[c] = task[d] \/ "deleted" \in {row[task[c]], row[task[d]]}
        /\ hash[task[c]] = hash[c]

(* Given the pairs of payloads that denote the same value, and those that  *)
(* may pass for the same: a submission is a conflict only with a task with *)
(* another value, and a replay only of one it may be taken for.            *)
ReplaysJudgedBy(same, alike) ==
  \A c \in Calls :
     /\ result[c] = "duplicate" => <<payload[c], payload[task[c]]>> \in alike
     /\ result[c] = "conflict" =>
          \E d \in Calls : SameKey(c, d) /\ row[d] # "none" /\ <<payload[c], payload[d]>> \notin same

(* TasksEnqueuedTotal counts before the commit and on failed INSERTs: it   *)
(* may run ahead of the table, never behind it.                            *)
CountNeverBehind == Cardinality({c \in Calls : row[c] \in {"stored", "deleted"}}) <= enqueued

(* The status of POST /api/tasks.                                          *)
HTTPStatus(c) ==
  CASE result[c] = "invalid" -> 400
    [] result[c] = "conflict" -> 409
    [] result[c] = "duplicate" /\ answer[TxOf[c]] = "ok" -> 200
    [] result[c] = "created" /\ answer[TxOf[c]] = "ok" -> 201
    [] OTHER -> 500

(* A transaction met a failure of the database or a payload it refuses.    *)
Troubled(t) == t \in faulted \/ \E c \in Calls : TxOf[c] = t /\ payload[c] \in Unstorable

(* However submissions race, the server answers 500 only if the database   *)
(* failed it, the task it conflicted with was deleted before the lookup,   *)
(* or its payload cannot be hashed or stored: no order of inserts, waits   *)
(* and rollbacks of others makes it fail.                                  *)
OnlyFaultsFail ==
  \A c \in Calls :
     TxOf[c] \in Own /\ answer[TxOf[c]] # "none" /\ HTTPStatus(c) = 500 =>
        \/ Troubled(TxOf[c]) \/ payload[c] \in Unhashable
        \/ \E d \in Calls : SameKey(c, d) /\ row[d] = "deleted"

(* A replay or a conflict never aborts the caller's transaction: only a    *)
(* database failure or a payload the database refuses does.                *)
ReplaysNeverAbort == \A t \in Txs : tx[t] = "aborted" => Troubled(t)

(* Every call that reached its INSERT returns, whatever it waits for: the  *)
(* end of other transactions, or the end of a cycle of waits.  (A call is  *)
(* made once, so in the end none is in progress.)                          *)
EveryCallReturns == <>[](\A c \in Calls : step[c] \notin {"insert", "lookup"})

(* The task a caller was told is created commits with the transaction (the *)
(* comment on InsertTx).                                                   *)
CommitsWithTx ==
  \A c \in Calls :
     result[c] = "created" /\ tx[TxOf[c]] = "committed" => row[c] \in {"stored", "deleted"}
=============================================================================
