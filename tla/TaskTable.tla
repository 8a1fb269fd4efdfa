------------------------------ MODULE TaskTable ------------------------------
(***************************************************************************)
(* What those who submit tasks are promised, without statements, locks,    *)
(* waits or failures: a transaction ends once, and at that moment all its  *)
(* tasks are in the table and its callers are told of theirs.  Enqueue is  *)
(* shown to implement this.                                                *)
(***************************************************************************)
CONSTANTS
  Calls,   \* calls that submit a task each; a task is named after its call
  Txs,     \* transactions
  TxOf,    \* the transaction of each call
  KeyOf,   \* the (type, idempotency_key) of each call
  NoKey,   \* no idempotency key
  NoTask   \* nothing was acknowledged to the caller

VARIABLES
  ended,    \* transactions that have ended
  stored,   \* the tasks in the table, as any other transaction sees it
  deleted,  \* those that were in the table
  told      \* the task each caller was acknowledged

tableVars == <<ended, stored, deleted, told>>

TableInit ==
  /\ ended = {} /\ stored = {} /\ deleted = {}
  /\ told = [c \in Calls |-> NoTask]

Alike(c, d) == c = d \/ (KeyOf[c] = KeyOf[d] /\ KeyOf[c] # NoKey)

(* Tasks S of transaction t appear, none if it is rolled back.  No         *)
(* two tasks in the table share a key.  A caller is told of a task that is *)
(* in the table with its own (or was until it was deleted), and has the    *)
(* key it submitted: its own task, or the one it repeats.                  *)
EndTx(t, S) ==
  /\ t \notin ended /\ ended' = ended \cup {t}
  /\ stored' = stored \cup S
  /\ \A c, d \in stored' : Alike(c, d) => c = d
  /\ told' \in [Calls -> Calls \cup {NoTask}]
  /\ \A c \in Calls : told'[c] # told[c] =>
       TxOf[c] = t /\ told'[c] \in stored' \cup deleted /\ Alike(c, told'[c])
  /\ UNCHANGED deleted

DeleteTask(c) ==
  /\ c \in stored
  /\ stored' = stored \ {c} /\ deleted' = deleted \cup {c}
  /\ UNCHANGED <<ended, told>>

TableNext ==
  \/ \E t \in Txs : \E S \in SUBSET {c \in Calls : TxOf[c] = t} : EndTx(t, S)
  \/ \E c \in Calls : DeleteTask(c)

TableSpec == TableInit /\ [][TableNext]_tableVars
=============================================================================
