---------------------------- MODULE EnqueueProofs ----------------------------
(***************************************************************************)
(* What submitting tasks guarantees, for any number of calls, callers,     *)
(* keys and payloads.                                                      *)
(***************************************************************************)
EXTENDS Enqueue, FiniteSetTheorems, TLAPS

(* A transaction has one call in progress at most, which keeps it from     *)
(* ending.                                                                 *)
Progress ==
  /\ \A c \in Calls :
       /\ step[c] = "unsent" => payload[c] = NoPayload
       /\ step[c] = "returned" <=> result[c] # "none"
       /\ step[c] \in {"insert", "lookup"} => tx[TxOf[c]] \in {"open", "aborted"}
       /\ step[c] = "lookup" => tx[TxOf[c]] = "open"
  /\ \A c, d \in Calls :
       /\ TxOf[c] = TxOf[d] /\ step[c] \in {"insert", "lookup"} /\ step[d] \in {"insert", "lookup"}
       => c = d

(* A row is of a call that created it, and its state follows the state of  *)
(* its transaction.                                                        *)
RowsFollow ==
  \A c \in Calls :
     /\ row[c] # "none" => result[c] = "created" /\ task[c] = c
     /\ row[c] \in {"stored", "deleted"} => tx[TxOf[c]] = "committed"
     /\ row[c] = "undone" => tx[TxOf[c]] = "rolledback"

(* A created result without a row spoils its transaction, unless the       *)
(* statement was never sent.                                               *)
CreatedFollow ==
  \A c \in Calls :
     result[c] = "created" => \/ task[c] = c /\ row[c] # "none"
                              \/ /\ task[c] = NoTask
                                 /\ tx[TxOf[c]] \in {"aborted", "rolledback"} \/ TxOf[c] \in faulted \ Own

(* A replay is of a task that was stored, or that its own transaction      *)
(* inserted.                                                               *)
Replay(c) ==
  /\ task[c] \in Calls /\ SameKey(c, task[c]) /\ hash[task[c]] = hash[c]
  /\ \/ row[task[c]] \in {"stored", "deleted"}
     \/ SharesTx(c, task[c]) /\ row[task[c]] # "none"
ReplaysFollow == \A c \in Calls : result[c] = "duplicate" => Replay(c)

(* A call at its lookup conflicted with a row, which only Delete removes.  *)
Conflicted(c) ==
  \E d \in Calls : SameKey(c, d) /\ (row[d] \in {"stored", "deleted"} \/ (SharesTx(c, d) /\ row[d] = "written"))
LookupsFollow == \A c \in Calls : step[c] = "lookup" => Conflicted(c)

(* Errors and failed ends have a cause.                                    *)
Deleted(c) == \E d \in Calls : SameKey(c, d) /\ row[d] = "deleted"
ErrorsFollow ==
  \A c \in Calls :
     /\ result[c] = "error" => TxOf[c] \in faulted \/ Deleted(c) \/ payload[c] \in Unhashable
     /\ TxOf[c] \in Own /\ answer[TxOf[c]] # "none" =>
          /\ result[c] # "none"
          /\ result[c] \in {"created", "duplicate"} /\ answer[TxOf[c]] = "error" => Troubled(TxOf[c])

AnswersFollow ==
  \A t \in Txs : /\ answer[t] = "none" <=> tx[t] \in {"idle", "open", "aborted"}
                 /\ answer[t] = "ok" => tx[t] = "committed"

EnqInv ==
  /\ EnqTypeOK /\ OneTaskPerKey /\ ReplaysNeverAbort
  /\ Progress /\ RowsFollow /\ CreatedFollow /\ ReplaysFollow /\ LookupsFollow
  /\ ErrorsFollow /\ AnswersFollow

-----------------------------------------------------------------------------
(* What a step may do to the rows, the hashes and a result it leaves alone *)
(* keeps a replay right.                                                   *)
LEMMA ReplayKept ==
  ASSUME NEW d \in Calls, Replay(d), task'[d] = task[d],
         hash'[d] = hash[d], hash'[task[d]] = hash[task[d]],
         row[task[d]] \in {"stored", "deleted"} => row'[task[d]] \in {"stored", "deleted"},
         row[task[d]] # "none" => row'[task[d]] # "none"
  PROVE Replay(d)'
BY Zenon DEF Replay, SameKey, SharesTx

(* Trouble does not go away.                                               *)
LEMMA TroubleStays ==
  ASSUME UNCHANGED payload, faulted \subseteq faulted', NEW t, Troubled(t)
  PROVE Troubled(t)'
BY Zenon DEF Troubled

(* What a call that is entered does to its transaction.                    *)
LEMMA Enters ==
  ASSUME NEW c \in Calls, EnqInv, Enter(c)
  PROVE /\ row[c] = "none" /\ result[c] = "none" /\ TxOf[c] \in Txs /\ payload[c] = NoPayload
        /\ tx' \in [Txs -> {"idle", "open", "aborted", "committed", "rolledback"}]
        /\ tx'[TxOf[c]] \in {"open", "aborted"}
        /\ \A u \in Txs : u # TxOf[c] \/ tx[u] # "idle" => tx'[u] = tx[u]
        /\ \A u \in Txs : tx'[u] # tx[u] => tx[u] = "idle" /\ tx'[u] = "open"
        /\ \A d \in Calls : TxOf[d] = TxOf[c] => step[d] \notin {"insert", "lookup"}
<1>1. step[c] = "unsent" /\ TxOf[c] \in Txs /\ ~Ended(TxOf[c])
  BY Zenon, EnqueueAssumption DEF Enter
<1>2. row[c] = "none" /\ result[c] = "none" /\ payload[c] = NoPayload
  BY Zenon, <1>1 DEF EnqInv, EnqTypeOK, Progress, RowsFollow
<1>3. /\ tx' \in [Txs -> {"idle", "open", "aborted", "committed", "rolledback"}]
      /\ tx'[TxOf[c]] \in {"open", "aborted"}
      /\ \A u \in Txs : u # TxOf[c] \/ tx[u] # "idle" => tx'[u] = tx[u]
      /\ \A u \in Txs : tx'[u] # tx[u] => tx[u] = "idle" /\ tx'[u] = "open"
  BY <1>1 DEF EnqInv, EnqTypeOK, Enter, Ended
<1>4. \A d \in Calls : TxOf[d] = TxOf[c] => step[d] \notin {"insert", "lookup"}
  BY Zenon DEF Enter, Busy
<1> QED BY Zenon, <1>1, <1>2, <1>3, <1>4

(* A payload that is given to an unsent call troubles no transaction less. *)
LEMMA TroubleKept ==
  ASSUME NEW c \in Calls, EnqInv, payload[c] = NoPayload, NEW p,
         payload' = [payload EXCEPT ![c] = p], UNCHANGED faulted
  PROVE \A t : Troubled(t) => Troubled(t)'
<1>1. NoPayload \notin Unstorable
  BY Zenon, EnqueueAssumption
<1>2. \A d \in Calls : payload[d] \in Unstorable => payload'[d] = payload[d]
  BY Zenon, <1>1 DEF EnqInv, EnqTypeOK
<1> QED BY Zenon, <1>2 DEF Troubled

(* A refused call changes no row; Create never began its transaction.      *)
LEMMA RejectKeeps ==
  ASSUME NEW c \in Calls, EnqInv, Reject(c)
  PROVE EnqInv'
<1>a. row[c] = "none" /\ result[c] = "none" /\ TxOf[c] \in Txs
  BY EnqueueAssumption DEF EnqInv, EnqTypeOK, Progress, RowsFollow, Reject
<1>b. \A d \in Calls : d # c => step'[d] = step[d] /\ result'[d] = result[d] /\ task'[d] = task[d]
  BY Zenon DEF EnqInv, EnqTypeOK, Reject, Returns
<1>c. \A d \in Calls : d # c => tx'[TxOf[d]] = tx[TxOf[d]]
  BY EnqueueAssumption DEF EnqInv, EnqTypeOK, Reject
<1>d. step'[c] = "returned" /\ result'[c] = "invalid" /\ task'[c] = NoTask
  BY Zenon DEF EnqInv, EnqTypeOK, Reject, Returns
<1>e. tx' \in [Txs -> {"idle", "open", "aborted", "committed", "rolledback"}]
      /\ answer' \in [Txs -> {"none", "ok", "error"}]
  BY <1>a DEF EnqInv, EnqTypeOK, Reject
<1>1. EnqTypeOK'
  BY <1>a, <1>b, <1>c, <1>d, <1>e DEF EnqInv, EnqTypeOK, Reject, Returns
<1>2. OneTaskPerKey'
  BY Zenon, EnqueueAssumption DEF EnqInv, OneTaskPerKey, EnqTypeOK, Reject, Returns, Busy, Ended
<1>3. ReplaysNeverAbort'
  BY ZenonT(30), TroubleStays, EnqueueAssumption DEF EnqInv, ReplaysNeverAbort, EnqTypeOK, Reject, Returns, Busy, Ended
<1>4. Progress'
  BY <1>a, <1>b, <1>c, <1>d, <1>e DEF EnqInv, Progress, Reject
<1>5. RowsFollow'
  BY <1>a, <1>b, <1>c, <1>d, <1>e DEF EnqInv, RowsFollow, Reject
<1>6. CreatedFollow'
  BY <1>a, <1>b, <1>c, <1>d, <1>e DEF EnqInv, CreatedFollow, Reject
<1>7. ReplaysFollow'
  <2> SUFFICES ASSUME NEW d \in Calls, result'[d] = "duplicate" PROVE Replay(d)'
    BY Zenon DEF ReplaysFollow
  <2>1. d # c /\ result[d] = "duplicate" /\ Replay(d) /\ task'[d] = task[d]
    BY DEF EnqInv, EnqTypeOK, Progress, ReplaysFollow, Reject, Returns, Busy, Ended
  <2>2. task[d] \in Calls /\ row[task[d]] # "none"
    BY Zenon, <2>1 DEF Replay
  <2>3. /\ hash'[d] = hash[d] /\ hash'[task[d]] = hash[task[d]]
        /\ row'[task[d]] # "none"
        /\ row[task[d]] \in {"stored", "deleted"} => row'[task[d]] \in {"stored", "deleted"}
    BY Zenon, <2>1, <2>2 DEF EnqInv, EnqTypeOK, Progress, RowsFollow, Reject, Returns, Busy, Ended
  <2> QED BY Zenon, <2>1, <2>3, ReplayKept
<1>8. LookupsFollow'
  BY EnqueueAssumption DEF EnqInv, LookupsFollow, Conflicted, EnqTypeOK, Progress, RowsFollow,
     Reject, Returns, Busy, Ended, SameKey, SharesTx
<1>9. ErrorsFollow'
  BY TroubleStays, EnqueueAssumption DEF EnqInv, ErrorsFollow, EnqTypeOK, Progress, Deleted, Reject, Returns,
     Busy, Ended, SameKey, SharesTx
<1>10. AnswersFollow'
  BY EnqueueAssumption DEF EnqInv, AnswersFollow, EnqTypeOK, Progress, Reject, Returns, Busy, Ended
<1> QED BY Zenon, <1>1, <1>2, <1>3, <1>4, <1>5, <1>6, <1>7, <1>8, <1>9, <1>10 DEF EnqInv

(* A call that is sent opens its transaction if it is the first.           *)
LEMMA SendKeeps ==
  ASSUME NEW c \in Calls, EnqInv, Send(c)
  PROVE EnqInv'
<1>a. PICK p \in Offers[c] : /\ payload' = [payload EXCEPT ![c] = p]
                             /\ hash' = [hash EXCEPT ![c] = Hash[p]]
  BY Zenon DEF Send
<1>b. /\ row[c] = "none" /\ result[c] = "none" /\ TxOf[c] \in Txs /\ payload[c] = NoPayload
      /\ tx' \in [Txs -> {"idle", "open", "aborted", "committed", "rolledback"}]
      /\ tx'[TxOf[c]] \in {"open", "aborted"}
      /\ \A u \in Txs : u # TxOf[c] \/ tx[u] # "idle" => tx'[u] = tx[u]
      /\ \A u \in Txs : tx'[u] # tx[u] => tx[u] = "idle" /\ tx'[u] = "open"
      /\ \A d \in Calls : TxOf[d] = TxOf[c] => step[d] \notin {"insert", "lookup"}
  BY Zenon, Enters DEF Send
<1>c. UNCHANGED <<row, result, task, answer, enqueued, faulted>>
  BY Zenon DEF Send
<1>d. step'[c] = "insert" /\ \A d \in Calls : d # c => step'[d] = step[d]
  BY Zenon DEF EnqInv, EnqTypeOK, Send
<1>e. \A d \in Calls : d # c => payload'[d] = payload[d] /\ hash'[d] = hash[d]
  BY Zenon, <1>a DEF EnqInv, EnqTypeOK
<1>f. \A t : Troubled(t) => Troubled(t)'
  BY Zenon, <1>a, <1>b, <1>c, TroubleKept
<1>g. step' \in [Calls -> {"unsent", "insert", "lookup", "returned"}]
  BY Zenon DEF EnqInv, EnqTypeOK, Send
<1>h. \A d \in Calls : TxOf[d] \in Txs
  BY Zenon, EnqueueAssumption
<1>1. EnqTypeOK'
  <2>1. payload' \in [Calls -> Payloads \cup {NoPayload}] /\ hash' = [d \in Calls |-> hash'[d]]
    BY ZenonT(30), <1>a, EnqueueAssumption DEF EnqInv, EnqTypeOK
  <2>2. \A d \in Calls : row'[d] = "written" => tx'[TxOf[d]] \in {"open", "aborted"}
    BY Zenon, <1>b, <1>c, <1>h DEF EnqInv, EnqTypeOK
  <2> QED BY Zenon, <1>b, <1>c, <1>g, <2>1, <2>2 DEF EnqInv, EnqTypeOK
<1>2. OneTaskPerKey'
  BY Zenon, <1>c DEF EnqInv, OneTaskPerKey, SameKey
<1>3. ReplaysNeverAbort'
  BY Zenon, <1>b, <1>f DEF EnqInv, ReplaysNeverAbort
<1>4. Progress'
  <2>1. \A d \in Calls : step[d] \in {"insert", "lookup"} => tx'[TxOf[d]] = tx[TxOf[d]]
    BY Zenon, <1>b, <1>h DEF EnqInv, Progress
  <2> QED BY SMTT(30), <1>b, <1>c, <1>d, <1>e, <2>1 DEF EnqInv, Progress
<1>5. RowsFollow'
  BY SMTT(30), <1>b, <1>c, <1>h DEF EnqInv, RowsFollow
<1>6. CreatedFollow'
  BY SMTT(30), <1>b, <1>c, <1>h DEF EnqInv, CreatedFollow
<1>7. ReplaysFollow'
  <2> SUFFICES ASSUME NEW d \in Calls, result'[d] = "duplicate" PROVE Replay(d)'
    BY Zenon DEF ReplaysFollow
  <2>1. d # c /\ Replay(d) /\ task'[d] = task[d]
    BY Zenon, <1>b, <1>c DEF EnqInv, ReplaysFollow
  <2>2. task[d] \in Calls /\ row[task[d]] # "none"
    BY Zenon, <2>1 DEF Replay
  <2>3. hash'[d] = hash[d] /\ hash'[task[d]] = hash[task[d]]
    BY Zenon, <1>b, <1>e, <2>1, <2>2
  <2> QED BY Zenon, <1>c, <2>1, <2>2, <2>3, ReplayKept
<1>8. LookupsFollow'
  BY SMTT(30), <1>c, <1>d DEF EnqInv, LookupsFollow, Conflicted, SameKey, SharesTx
<1>9. ErrorsFollow'
  <2>1. \A d \in Calls : Deleted(d) => Deleted(d)'
    BY Zenon, <1>c DEF Deleted, SameKey
  <2> QED BY Zenon, <1>b, <1>c, <1>e, <1>f, <2>1 DEF EnqInv, ErrorsFollow
<1>10. AnswersFollow'
  BY SMTT(30), <1>b, <1>c DEF EnqInv, AnswersFollow
<1> QED BY Zenon, <1>1, <1>2, <1>3, <1>4, <1>5, <1>6, <1>7, <1>8, <1>9, <1>10 DEF EnqInv

(* A call whose payload cannot be hashed returns at once.                  *)
LEMMA HashFailsKeeps ==
  ASSUME NEW c \in Calls, EnqInv, HashFails(c)
  PROVE EnqInv'
<1>a. PICK p \in Offers[c] \cap Unhashable : payload' = [payload EXCEPT ![c] = p]
  BY Zenon DEF HashFails
<1>b. /\ row[c] = "none" /\ result[c] = "none" /\ TxOf[c] \in Txs /\ payload[c] = NoPayload
      /\ tx' \in [Txs -> {"idle", "open", "aborted", "committed", "rolledback"}]
      /\ tx'[TxOf[c]] \in {"open", "aborted"}
      /\ \A u \in Txs : u # TxOf[c] \/ tx[u] # "idle" => tx'[u] = tx[u]
      /\ \A u \in Txs : tx'[u] # tx[u] => tx[u] = "idle" /\ tx'[u] = "open"
      /\ \A d \in Calls : TxOf[d] = TxOf[c] => step[d] \notin {"insert", "lookup"}
  BY Zenon, Enters DEF HashFails
<1>c. UNCHANGED <<row, hash, answer, enqueued, faulted>>
  BY Zenon DEF HashFails
<1>d. /\ step'[c] = "returned" /\ result'[c] = "error" /\ task'[c] = NoTask
      /\ \A d \in Calls : d # c => step'[d] = step[d] /\ result'[d] = result[d] /\ task'[d] = task[d]
  BY ZenonT(30) DEF EnqInv, EnqTypeOK, HashFails, Returns
<1>e. payload'[c] \in Unhashable /\ \A d \in Calls : d # c => payload'[d] = payload[d]
  BY ZenonT(30), <1>a DEF EnqInv, EnqTypeOK
<1>f. \A t : Troubled(t) => Troubled(t)'
  BY Zenon, <1>a, <1>b, <1>c, TroubleKept
<1>g. /\ step' \in [Calls -> {"unsent", "insert", "lookup", "returned"}]
      /\ result' \in [Calls -> {"none", "created", "duplicate", "conflict", "invalid", "error"}]
      /\ task' \in [Calls -> Calls \cup {NoTask}]
  BY DEF EnqInv, EnqTypeOK, HashFails, Returns
<1>h. \A d \in Calls : TxOf[d] \in Txs
  BY Zenon, EnqueueAssumption
<1>1. EnqTypeOK'
  <2>1. payload' \in [Calls -> Payloads \cup {NoPayload}]
    BY ZenonT(30), <1>a, EnqueueAssumption DEF EnqInv, EnqTypeOK
  <2>2. \A d \in Calls : row'[d] = "written" => tx'[TxOf[d]] \in {"open", "aborted"}
    BY Zenon, <1>b, <1>c, <1>h DEF EnqInv, EnqTypeOK
  <2> QED BY ZenonT(30), <1>b, <1>c, <1>g, <2>1, <2>2 DEF EnqInv, EnqTypeOK
<1>2. OneTaskPerKey'
  BY Zenon, <1>c DEF EnqInv, OneTaskPerKey, SameKey
<1>3. ReplaysNeverAbort'
  BY Zenon, <1>b, <1>f DEF EnqInv, ReplaysNeverAbort
<1>4. Progress'
  <2>1. \A d \in Calls : step[d] \in {"insert", "lookup"} => tx'[TxOf[d]] = tx[TxOf[d]]
    BY Zenon, <1>b, <1>h DEF EnqInv, Progress
  <2> QED BY SMTT(30), <1>b, <1>c, <1>d, <1>e, <2>1 DEF EnqInv, Progress
<1>5. RowsFollow'
  BY SMTT(30), <1>b, <1>c, <1>d, <1>h DEF EnqInv, RowsFollow
<1>6. CreatedFollow'
  BY SMTT(30), <1>b, <1>c, <1>d, <1>h DEF EnqInv, CreatedFollow
<1>7. ReplaysFollow'
  <2> SUFFICES ASSUME NEW d \in Calls, result'[d] = "duplicate" PROVE Replay(d)'
    BY Zenon DEF ReplaysFollow
  <2>1. d # c /\ Replay(d) /\ task'[d] = task[d]
    BY Zenon, <1>b, <1>d DEF EnqInv, ReplaysFollow
  <2>2. task[d] \in Calls /\ row[task[d]] # "none"
    BY Zenon, <2>1 DEF Replay
  <2> QED BY Zenon, <1>c, <2>1, <2>2, ReplayKept
<1>8. LookupsFollow'
  BY ZenonT(30), <1>c, <1>d DEF EnqInv, LookupsFollow, Conflicted, SameKey, SharesTx
<1>9. ErrorsFollow'
  BY SMTT(30), <1>b, <1>c, <1>d, <1>e, <1>f, EnqueueAssumption DEF EnqInv, ErrorsFollow, AnswersFollow, Deleted, SameKey
<1>10. AnswersFollow'
  BY SMTT(30), <1>b, <1>c DEF EnqInv, AnswersFollow
<1> QED BY Zenon, <1>1, <1>2, <1>3, <1>4, <1>5, <1>6, <1>7, <1>8, <1>9, <1>10 DEF EnqInv

(* Create's transaction never began.                                       *)
LEMMA BeginFailsKeeps ==
  ASSUME NEW c \in Calls, EnqInv, BeginFails(c)
  PROVE EnqInv'
<1>1. EnqTypeOK'
  BY EnqueueAssumption DEF EnqInv, EnqTypeOK, Progress, RowsFollow, BeginFails, Returns, Fault
<1>2. OneTaskPerKey'
  BY Zenon, EnqueueAssumption DEF EnqInv, OneTaskPerKey, EnqTypeOK, BeginFails, Returns, Fault
<1>3. ReplaysNeverAbort'
  BY Zenon, TroubleStays, EnqueueAssumption DEF EnqInv, ReplaysNeverAbort, EnqTypeOK, BeginFails, Returns, Fault
<1>4. Progress'
  BY EnqueueAssumption DEF EnqInv, Progress, EnqTypeOK, BeginFails, Returns, Fault
<1>5. RowsFollow'
  BY EnqueueAssumption DEF EnqInv, RowsFollow, EnqTypeOK, Progress, BeginFails, Returns, Fault
<1>6. CreatedFollow'
  BY EnqueueAssumption DEF EnqInv, CreatedFollow, EnqTypeOK, Progress, RowsFollow, BeginFails,
     Returns, Fault
<1>7. ReplaysFollow'
  <2> SUFFICES ASSUME NEW d \in Calls, result'[d] = "duplicate" PROVE Replay(d)'
    BY Zenon DEF ReplaysFollow
  <2>1. d # c /\ result[d] = "duplicate" /\ Replay(d) /\ task'[d] = task[d]
    BY DEF EnqInv, EnqTypeOK, Progress, ReplaysFollow, BeginFails, Returns, Fault
  <2>2. task[d] \in Calls /\ row[task[d]] # "none"
    BY Zenon, <2>1 DEF Replay
  <2>3. /\ hash'[d] = hash[d] /\ hash'[task[d]] = hash[task[d]]
        /\ row'[task[d]] # "none"
        /\ row[task[d]] \in {"stored", "deleted"} => row'[task[d]] \in {"stored", "deleted"}
    BY Zenon, <2>1, <2>2 DEF EnqInv, EnqTypeOK, Progress, RowsFollow, BeginFails, Returns, Fault
  <2> QED BY Zenon, <2>1, <2>3, ReplayKept
<1>8. LookupsFollow'
  BY EnqueueAssumption DEF EnqInv, LookupsFollow, Conflicted, EnqTypeOK, Progress, RowsFollow,
     BeginFails, Returns, Fault, SameKey, SharesTx
<1>9. ErrorsFollow'
  BY SMTT(30), TroubleStays, EnqueueAssumption DEF EnqInv, ErrorsFollow, EnqTypeOK, Progress, Deleted, BeginFails,
     Returns, Fault, SameKey, SharesTx
<1>10. AnswersFollow'
  BY EnqueueAssumption DEF EnqInv, AnswersFollow, EnqTypeOK, Progress, BeginFails, Returns, Fault
<1> QED BY Zenon, <1>1, <1>2, <1>3, <1>4, <1>5, <1>6, <1>7, <1>8, <1>9, <1>10 DEF EnqInv

(* The new row has a key no stored or uncommitted row has.                 *)
LEMMA InsertRowKeeps ==
  ASSUME NEW c \in Calls, EnqInv, InsertRow(c)
  PROVE EnqInv'
<1>1. EnqTypeOK'
  BY EnqueueAssumption DEF EnqInv, EnqTypeOK, Progress, RowsFollow, InsertRow, Returns,
     Blockers, Visible, SharesTx
<1>2. OneTaskPerKey'
  BY EnqueueAssumption DEF EnqInv, OneTaskPerKey, EnqTypeOK, InsertRow, Returns, Blockers,
     Visible, SharesTx, SameKey
<1>3. ReplaysNeverAbort'
  BY Zenon, TroubleStays, EnqueueAssumption DEF EnqInv, ReplaysNeverAbort, EnqTypeOK, InsertRow, Returns, Blockers,
     Visible, SharesTx
<1>4. Progress'
  BY EnqueueAssumption DEF EnqInv, Progress, EnqTypeOK, InsertRow, Returns, Blockers, Visible,
     SharesTx
<1>5. RowsFollow'
  BY EnqueueAssumption DEF EnqInv, RowsFollow, EnqTypeOK, Progress, InsertRow, Returns,
     Blockers, Visible, SharesTx
<1>6. CreatedFollow'
  BY EnqueueAssumption DEF EnqInv, CreatedFollow, EnqTypeOK, Progress, RowsFollow, InsertRow,
     Returns, Blockers, Visible, SharesTx
<1>7. ReplaysFollow'
  <2> SUFFICES ASSUME NEW d \in Calls, result'[d] = "duplicate" PROVE Replay(d)'
    BY Zenon DEF ReplaysFollow
  <2>1. d # c /\ result[d] = "duplicate" /\ Replay(d) /\ task'[d] = task[d]
    BY DEF EnqInv, EnqTypeOK, Progress, ReplaysFollow, InsertRow, Returns, Blockers, Visible,
       SharesTx
  <2>2. task[d] \in Calls /\ row[task[d]] # "none"
    BY Zenon, <2>1 DEF Replay
  <2>3. /\ hash'[d] = hash[d] /\ hash'[task[d]] = hash[task[d]]
        /\ row'[task[d]] # "none"
        /\ row[task[d]] \in {"stored", "deleted"} => row'[task[d]] \in {"stored", "deleted"}
    BY <2>1, <2>2 DEF EnqInv, EnqTypeOK, Progress, RowsFollow, InsertRow, Returns, Blockers,
       Visible, SharesTx
  <2> QED BY Zenon, <2>1, <2>3, ReplayKept
<1>8. LookupsFollow'
  BY EnqueueAssumption DEF EnqInv, LookupsFollow, Conflicted, EnqTypeOK, Progress, RowsFollow,
     InsertRow, Returns, Blockers, Visible, SharesTx, SameKey
<1>9. ErrorsFollow'
  <2>1. row[c] = "none" /\ TxOf[c] \in Txs /\ answer[TxOf[c]] = "none"
    <3>1. step[c] = "insert" /\ tx[TxOf[c]] = "open" /\ TxOf[c] \in Txs
      BY Zenon, EnqueueAssumption DEF InsertRow
    <3>2. row[c] = "none"
      BY Zenon, <3>1 DEF EnqInv, Progress, RowsFollow
    <3> QED BY Zenon, <3>1, <3>2 DEF EnqInv, AnswersFollow
  <2>2. \A d \in Calls : Deleted(d) => Deleted(d)'
    BY Zenon, <2>1 DEF EnqInv, EnqTypeOK, InsertRow, Deleted, SameKey
  <2>3. result'[c] = "created" /\ \A d \in Calls : d # c => result'[d] = result[d]
    BY Zenon DEF EnqInv, EnqTypeOK, InsertRow, Returns
  <2> QED BY Zenon, <2>1, <2>2, <2>3, TroubleStays DEF EnqInv, ErrorsFollow, InsertRow
<1>10. AnswersFollow'
  BY Zenon, EnqueueAssumption DEF EnqInv, AnswersFollow, EnqTypeOK, Progress, InsertRow, Returns,
     Blockers, Visible, SharesTx
<1> QED BY Zenon, <1>1, <1>2, <1>3, <1>4, <1>5, <1>6, <1>7, <1>8, <1>9, <1>10 DEF EnqInv

(* A call goes on to its lookup because of a row it sees.                  *)
LEMMA InsertConflictsKeeps ==
  ASSUME NEW c \in Calls, EnqInv, InsertConflicts(c)
  PROVE EnqInv'
<1>1. EnqTypeOK'
  BY EnqueueAssumption DEF EnqInv, EnqTypeOK, Progress, RowsFollow, InsertConflicts, Visible,
     SharesTx
<1>2. OneTaskPerKey'
  BY Zenon, EnqueueAssumption DEF EnqInv, OneTaskPerKey, EnqTypeOK, InsertConflicts, Visible, SharesTx
<1>3. ReplaysNeverAbort'
  BY Zenon, TroubleStays, EnqueueAssumption DEF EnqInv, ReplaysNeverAbort, EnqTypeOK, InsertConflicts, Visible, SharesTx
<1>4. Progress'
  BY EnqueueAssumption DEF EnqInv, Progress, EnqTypeOK, InsertConflicts, Visible, SharesTx
<1>5. RowsFollow'
  BY Zenon, EnqueueAssumption DEF EnqInv, RowsFollow, EnqTypeOK, Progress, InsertConflicts, Visible,
     SharesTx
<1>6. CreatedFollow'
  BY ZenonT(30), EnqueueAssumption DEF EnqInv, CreatedFollow, EnqTypeOK, Progress, RowsFollow,
     InsertConflicts, Visible, SharesTx
<1>7. ReplaysFollow'
  <2> SUFFICES ASSUME NEW d \in Calls, result'[d] = "duplicate" PROVE Replay(d)'
    BY Zenon DEF ReplaysFollow
  <2>1. d # c /\ result[d] = "duplicate" /\ Replay(d) /\ task'[d] = task[d]
    BY Zenon DEF EnqInv, EnqTypeOK, Progress, ReplaysFollow, InsertConflicts, Visible, SharesTx
  <2>2. task[d] \in Calls /\ row[task[d]] # "none"
    BY Zenon, <2>1 DEF Replay
  <2>3. /\ hash'[d] = hash[d] /\ hash'[task[d]] = hash[task[d]]
        /\ row'[task[d]] # "none"
        /\ row[task[d]] \in {"stored", "deleted"} => row'[task[d]] \in {"stored", "deleted"}
    BY Zenon, <2>1, <2>2 DEF EnqInv, EnqTypeOK, Progress, RowsFollow, InsertConflicts, Visible, SharesTx
  <2> QED BY Zenon, <2>1, <2>3, ReplayKept
<1>8. LookupsFollow'
  BY EnqueueAssumption DEF EnqInv, LookupsFollow, Conflicted, EnqTypeOK, Progress, RowsFollow,
     InsertConflicts, Visible, SharesTx, SameKey
<1>9. ErrorsFollow'
  BY TroubleStays, EnqueueAssumption DEF EnqInv, ErrorsFollow, EnqTypeOK, Progress, Deleted, InsertConflicts,
     Visible, SharesTx, SameKey
<1>10. AnswersFollow'
  BY Zenon, EnqueueAssumption DEF EnqInv, AnswersFollow, EnqTypeOK, Progress, InsertConflicts, Visible,
     SharesTx
<1> QED BY Zenon, <1>1, <1>2, <1>3, <1>4, <1>5, <1>6, <1>7, <1>8, <1>9, <1>10 DEF EnqInv

(* A failed INSERT is reported as created, and aborts the transaction if   *)
(* it was sent.                                                            *)
LEMMA InsertFailsKeeps ==
  ASSUME NEW c \in Calls, EnqInv, InsertFails(c)
  PROVE EnqInv'
<1>a. step[c] = "insert" /\ row[c] = "none" /\ result[c] = "none" /\ TxOf[c] \in Txs
  BY ZenonT(30), EnqueueAssumption DEF EnqInv, Progress, RowsFollow, InsertFails
<1>b. /\ tx' \in [Txs -> {"idle", "open", "aborted", "committed", "rolledback"}]
      /\ tx[TxOf[c]] \in {"open", "aborted"} /\ tx'[TxOf[c]] \in {"open", "aborted"}
      /\ tx[TxOf[c]] = "aborted" => tx'[TxOf[c]] = "aborted"
      /\ \A u \in Txs : u # TxOf[c] => tx'[u] = tx[u]
  BY SMTT(30), <1>a DEF EnqInv, EnqTypeOK, Progress, InsertFails, Abort, GiveUp
<1>c. /\ faulted \subseteq faulted' /\ faulted' \subseteq Txs
      /\ UNCHANGED <<row, payload, hash, answer>>
  BY Zenon, <1>a DEF EnqInv, EnqTypeOK, InsertFails, Fault
<1>d. /\ step'[c] = "returned" /\ result'[c] = "created" /\ task'[c] = NoTask
      /\ \A d \in Calls : d # c => step'[d] = step[d] /\ result'[d] = result[d] /\ task'[d] = task[d]
  BY ZenonT(30) DEF EnqInv, EnqTypeOK, InsertFails, Returns
<1>e. /\ step' \in [Calls -> {"unsent", "insert", "lookup", "returned"}]
      /\ result' \in [Calls -> {"none", "created", "duplicate", "conflict", "invalid", "error"}]
      /\ task' \in [Calls -> Calls \cup {NoTask}] /\ enqueued' \in Nat
  BY DEF EnqInv, EnqTypeOK, InsertFails, Returns
<1>f. /\ tx'[TxOf[c]] = "open" => TxOf[c] \in faulted' \ Own
      /\ \A t : Troubled(t) => Troubled(t)'
      /\ Troubled(TxOf[c])'
  <2>1. \A t : Troubled(t) => Troubled(t)'
    BY Zenon, <1>c, TroubleStays
  <2>2. tx'[TxOf[c]] = "open" => TxOf[c] \in faulted' \ Own
    BY SMTT(30), <1>a DEF EnqInv, EnqTypeOK, InsertFails, Abort, GiveUp, Fault
  <2>3. Troubled(TxOf[c])'
    <3>1. CASE tx[TxOf[c]] = "aborted"
      BY Zenon, <1>a, <2>1, <3>1 DEF EnqInv, ReplaysNeverAbort
    <3>2. CASE payload[c] \in Unstorable
      BY Zenon, <1>c, <3>2 DEF Troubled
    <3>3. CASE Fault(TxOf[c])
      BY Zenon, <3>3 DEF Fault, Troubled
    <3> QED BY Zenon, <3>1, <3>2, <3>3 DEF InsertFails
  <2> QED BY Zenon, <2>1, <2>2, <2>3
<1>g. \A d \in Calls : TxOf[d] \in Txs
  BY Zenon, EnqueueAssumption
<1>1. EnqTypeOK'
  <2>1. \A d \in Calls : row'[d] = "written" => tx'[TxOf[d]] \in {"open", "aborted"}
    BY Zenon, <1>b, <1>c, <1>g DEF EnqInv, EnqTypeOK
  <2> QED BY ZenonT(30), <1>b, <1>c, <1>e, <2>1 DEF EnqInv, EnqTypeOK
<1>2. OneTaskPerKey'
  BY Zenon, <1>c DEF EnqInv, OneTaskPerKey, SameKey
<1>3. ReplaysNeverAbort'
  BY Zenon, <1>b, <1>f DEF EnqInv, ReplaysNeverAbort
<1>4. Progress'
  BY SMTT(30), <1>a, <1>b, <1>c, <1>d, <1>g DEF EnqInv, Progress
<1>5. RowsFollow'
  BY SMTT(30), <1>a, <1>b, <1>c, <1>d, <1>g DEF EnqInv, RowsFollow
<1>6. CreatedFollow'
  <2>1. \A d \in Calls : tx[TxOf[d]] \in {"aborted", "rolledback"} => tx'[TxOf[d]] \in {"aborted", "rolledback"}
    BY Zenon, <1>b, <1>g
  <2>2. tx'[TxOf[c]] \in {"aborted", "rolledback"} \/ TxOf[c] \in faulted' \ Own
    BY Zenon, <1>b, <1>f
  <2> QED BY SMTT(30), <1>c, <1>d, <2>1, <2>2 DEF EnqInv, CreatedFollow
<1>7. ReplaysFollow'
  <2> SUFFICES ASSUME NEW d \in Calls, result'[d] = "duplicate" PROVE Replay(d)'
    BY Zenon DEF ReplaysFollow
  <2>1. Replay(d) /\ task'[d] = task[d]
    BY Zenon, <1>d DEF EnqInv, ReplaysFollow
  <2>2. task[d] \in Calls /\ row[task[d]] # "none"
    BY Zenon, <2>1 DEF Replay
  <2> QED BY Zenon, <1>c, <2>1, <2>2, ReplayKept
<1>8. LookupsFollow'
  BY ZenonT(30), <1>c, <1>d DEF EnqInv, LookupsFollow, Conflicted, SameKey, SharesTx
<1>9. ErrorsFollow'
  <2>1. \A d \in Calls : Deleted(d) => Deleted(d)'
    BY Zenon, <1>c DEF Deleted, SameKey
  <2>2. answer'[TxOf[c]] = "none"
    BY Zenon, <1>a, <1>b, <1>c DEF EnqInv, AnswersFollow
  <2> QED BY Zenon, <1>c, <1>d, <1>f, <2>1, <2>2 DEF EnqInv, ErrorsFollow
<1>10. AnswersFollow'
  BY SMTT(30), <1>a, <1>b, <1>c DEF EnqInv, AnswersFollow
<1> QED BY Zenon, <1>1, <1>2, <1>3, <1>4, <1>5, <1>6, <1>7, <1>8, <1>9, <1>10 DEF EnqInv

(* A lookup finds the row it conflicted with, unless it was deleted.       *)
LEMMA LookupKeeps ==
  ASSUME NEW c \in Calls, EnqInv, Lookup(c)
  PROVE EnqInv'
<1>1. EnqTypeOK'
  BY SMTT(30), EnqueueAssumption DEF EnqInv, EnqTypeOK, Progress, RowsFollow, Lookup, Returns, Visible,
     SharesTx
<1>2. OneTaskPerKey'
  BY Zenon, EnqueueAssumption DEF EnqInv, OneTaskPerKey, EnqTypeOK, Lookup, Returns, Visible, SharesTx
<1>3. ReplaysNeverAbort'
  BY Zenon, TroubleStays, EnqueueAssumption DEF EnqInv, ReplaysNeverAbort, EnqTypeOK, Lookup, Returns, Visible, SharesTx
<1>4. Progress'
  BY EnqueueAssumption DEF EnqInv, Progress, EnqTypeOK, Lookup, Returns, Visible, SharesTx
<1>5. RowsFollow'
  BY SMTT(30), EnqueueAssumption DEF EnqInv, RowsFollow, EnqTypeOK, Progress, Lookup, Returns, Visible,
     SharesTx
<1>6. CreatedFollow'
  BY SMTT(30), EnqueueAssumption DEF EnqInv, CreatedFollow, EnqTypeOK, Progress, RowsFollow, Lookup,
     Returns, Visible, SharesTx
<1>7. ReplaysFollow'
  <2> SUFFICES ASSUME NEW d \in Calls, result'[d] = "duplicate" PROVE Replay(d)'
    BY Zenon DEF ReplaysFollow
  <2>1. CASE d # c
    <3>1. result[d] = "duplicate" /\ Replay(d) /\ task'[d] = task[d]
      BY <2>1 DEF EnqInv, EnqTypeOK, Progress, ReplaysFollow, Lookup, Returns
    <3> QED BY Zenon, <3>1, ReplayKept DEF Lookup
  <2>2. CASE d = c
    <3>1. PICK e \in Visible(c) : hash[e] = hash[c] /\ task' = [task EXCEPT ![c] = e]
      <4>1. \A r, id : Returns(c, r, id) => result'[c] = r
        BY DEF EnqInv, EnqTypeOK, Returns
      <4>2. PICK e \in Visible(c) :
               IF hash[e] = hash[c] THEN Returns(c, "duplicate", e) ELSE Returns(c, "conflict", NoTask)
        BY Zenon, <2>2, <4>1 DEF Lookup
      <4> QED BY Zenon, <2>2, <4>1, <4>2 DEF Returns
    <3> QED BY <2>2, <3>1 DEF EnqInv, EnqTypeOK, Lookup, Visible, Replay, SameKey, SharesTx
  <2> QED BY Zenon, <2>1, <2>2
<1>8. LookupsFollow'
  BY EnqueueAssumption DEF EnqInv, LookupsFollow, Conflicted, EnqTypeOK, Progress, RowsFollow,
     Lookup, Returns, Visible, SharesTx, SameKey
<1>9. ErrorsFollow'
  BY SMTT(30), TroubleStays, EnqueueAssumption DEF EnqInv, ErrorsFollow, EnqTypeOK, Progress, LookupsFollow, Conflicted,
     Deleted, Lookup, Returns, Visible, SharesTx, SameKey
<1>10. AnswersFollow'
  BY Zenon, EnqueueAssumption DEF EnqInv, AnswersFollow, EnqTypeOK, Progress, Lookup, Returns, Visible,
     SharesTx
<1> QED BY Zenon, <1>1, <1>2, <1>3, <1>4, <1>5, <1>6, <1>7, <1>8, <1>9, <1>10 DEF EnqInv

(* A failed lookup is an error, and aborts the transaction if it was sent. *)
LEMMA LookupFailsKeeps ==
  ASSUME NEW c \in Calls, EnqInv, LookupFails(c)
  PROVE EnqInv'
<1>a. step[c] = "lookup" /\ row[c] = "none" /\ result[c] = "none" /\ TxOf[c] \in Txs
  BY ZenonT(30), EnqueueAssumption DEF EnqInv, Progress, RowsFollow, LookupFails
<1>b. /\ tx' \in [Txs -> {"idle", "open", "aborted", "committed", "rolledback"}]
      /\ tx[TxOf[c]] \in {"open", "aborted"} /\ tx'[TxOf[c]] \in {"open", "aborted"}
      /\ tx[TxOf[c]] = "aborted" => tx'[TxOf[c]] = "aborted"
      /\ \A u \in Txs : u # TxOf[c] => tx'[u] = tx[u]
  BY SMTT(30), <1>a DEF EnqInv, EnqTypeOK, Progress, LookupFails, Abort, GiveUp
<1>c. /\ faulted \subseteq faulted' /\ faulted' \subseteq Txs
      /\ UNCHANGED <<row, payload, hash, answer>>
  BY Zenon, <1>a DEF EnqInv, EnqTypeOK, LookupFails, Fault
<1>d. /\ step'[c] = "returned" /\ result'[c] = "error" /\ task'[c] = NoTask
      /\ \A d \in Calls : d # c => step'[d] = step[d] /\ result'[d] = result[d] /\ task'[d] = task[d]
  BY ZenonT(30) DEF EnqInv, EnqTypeOK, LookupFails, Returns
<1>e. /\ step' \in [Calls -> {"unsent", "insert", "lookup", "returned"}]
      /\ result' \in [Calls -> {"none", "created", "duplicate", "conflict", "invalid", "error"}]
      /\ task' \in [Calls -> Calls \cup {NoTask}] /\ enqueued' \in Nat
  BY DEF EnqInv, EnqTypeOK, LookupFails, Returns
<1>f. /\ tx'[TxOf[c]] = "open" => TxOf[c] \in faulted' \ Own
      /\ \A t : Troubled(t) => Troubled(t)'
      /\ Troubled(TxOf[c])'
  <2>1. \A t : Troubled(t) => Troubled(t)'
    BY Zenon, <1>c, TroubleStays
  <2>2. tx'[TxOf[c]] = "open" => TxOf[c] \in faulted' \ Own
    BY SMTT(30), <1>a DEF EnqInv, EnqTypeOK, LookupFails, Abort, GiveUp, Fault
  <2>3. Troubled(TxOf[c])'
    BY Zenon DEF LookupFails, Fault, Troubled
  <2> QED BY Zenon, <2>1, <2>2, <2>3
<1>g. \A d \in Calls : TxOf[d] \in Txs
  BY Zenon, EnqueueAssumption
<1>1. EnqTypeOK'
  <2>1. \A d \in Calls : row'[d] = "written" => tx'[TxOf[d]] \in {"open", "aborted"}
    BY Zenon, <1>b, <1>c, <1>g DEF EnqInv, EnqTypeOK
  <2> QED BY ZenonT(30), <1>b, <1>c, <1>e, <2>1 DEF EnqInv, EnqTypeOK
<1>2. OneTaskPerKey'
  BY Zenon, <1>c DEF EnqInv, OneTaskPerKey, SameKey
<1>3. ReplaysNeverAbort'
  BY Zenon, <1>b, <1>f DEF EnqInv, ReplaysNeverAbort
<1>4. Progress'
  BY SMTT(30), <1>a, <1>b, <1>c, <1>d, <1>g DEF EnqInv, Progress
<1>5. RowsFollow'
  BY SMTT(30), <1>a, <1>b, <1>c, <1>d, <1>g DEF EnqInv, RowsFollow
<1>6. CreatedFollow'
  <2>1. \A d \in Calls : tx[TxOf[d]] \in {"aborted", "rolledback"} => tx'[TxOf[d]] \in {"aborted", "rolledback"}
    BY Zenon, <1>b, <1>g
  <2>2. tx'[TxOf[c]] \in {"aborted", "rolledback"} \/ TxOf[c] \in faulted' \ Own
    BY Zenon, <1>b, <1>f
  <2> QED BY SMTT(30), <1>c, <1>d, <2>1, <2>2 DEF EnqInv, CreatedFollow
<1>7. ReplaysFollow'
  <2> SUFFICES ASSUME NEW d \in Calls, result'[d] = "duplicate" PROVE Replay(d)'
    BY Zenon DEF ReplaysFollow
  <2>1. Replay(d) /\ task'[d] = task[d]
    BY Zenon, <1>d DEF EnqInv, ReplaysFollow
  <2>2. task[d] \in Calls /\ row[task[d]] # "none"
    BY Zenon, <2>1 DEF Replay
  <2> QED BY Zenon, <1>c, <2>1, <2>2, ReplayKept
<1>8. LookupsFollow'
  BY ZenonT(30), <1>c, <1>d DEF EnqInv, LookupsFollow, Conflicted, SameKey, SharesTx
<1>9. ErrorsFollow'
  <2>1. \A d \in Calls : Deleted(d) => Deleted(d)'
    BY Zenon, <1>c DEF Deleted, SameKey
  <2>2. answer'[TxOf[c]] = "none"
    BY Zenon, <1>a, <1>b, <1>c DEF EnqInv, AnswersFollow
  <2>3. TxOf[c] \in faulted'
    BY Zenon DEF LookupFails, Fault
  <2> QED BY Zenon, <1>c, <1>d, <1>f, <2>1, <2>2, <2>3 DEF EnqInv, ErrorsFollow
<1>10. AnswersFollow'
  BY SMTT(30), <1>a, <1>b, <1>c DEF EnqInv, AnswersFollow
<1> QED BY Zenon, <1>1, <1>2, <1>3, <1>4, <1>5, <1>6, <1>7, <1>8, <1>9, <1>10 DEF EnqInv

(* Only a stored row is deleted.                                           *)
LEMMA DeleteKeeps ==
  ASSUME NEW c \in Calls, EnqInv, Delete(c)
  PROVE EnqInv'
<1>1. EnqTypeOK'
  BY EnqueueAssumption DEF EnqInv, EnqTypeOK, Progress, RowsFollow, Delete
<1>2. OneTaskPerKey'
  BY Zenon, EnqueueAssumption DEF EnqInv, OneTaskPerKey, EnqTypeOK, Delete
<1>3. ReplaysNeverAbort'
  BY Zenon, TroubleStays, EnqueueAssumption DEF EnqInv, ReplaysNeverAbort, EnqTypeOK, Delete
<1>4. Progress'
  BY EnqueueAssumption DEF EnqInv, Progress, EnqTypeOK, Delete
<1>5. RowsFollow'
  BY EnqueueAssumption DEF EnqInv, RowsFollow, EnqTypeOK, Progress, Delete
<1>6. CreatedFollow'
  BY Zenon, EnqueueAssumption DEF EnqInv, CreatedFollow, EnqTypeOK, Progress, RowsFollow, Delete
<1>7. ReplaysFollow'
  <2> SUFFICES ASSUME NEW d \in Calls, result'[d] = "duplicate" PROVE Replay(d)'
    BY Zenon DEF ReplaysFollow
  <2>1. result[d] = "duplicate" /\ Replay(d) /\ task'[d] = task[d]
    BY Zenon DEF EnqInv, EnqTypeOK, Progress, ReplaysFollow, Delete
  <2>2. task[d] \in Calls /\ row[task[d]] # "none"
    BY Zenon, <2>1 DEF Replay
  <2>3. /\ hash'[d] = hash[d] /\ hash'[task[d]] = hash[task[d]]
        /\ row'[task[d]] # "none"
        /\ row[task[d]] \in {"stored", "deleted"} => row'[task[d]] \in {"stored", "deleted"}
    BY SMTT(30), <2>1, <2>2 DEF EnqInv, EnqTypeOK, Progress, RowsFollow, Delete
  <2> QED BY Zenon, <2>1, <2>3, ReplayKept
<1>8. LookupsFollow'
  BY SMTT(30), EnqueueAssumption DEF EnqInv, LookupsFollow, Conflicted, EnqTypeOK, Progress, RowsFollow,
     Delete, SameKey, SharesTx
<1>9. ErrorsFollow'
  BY Zenon, TroubleStays, EnqueueAssumption DEF EnqInv, ErrorsFollow, EnqTypeOK, Progress, Deleted, Delete, SameKey,
     SharesTx
<1>10. AnswersFollow'
  BY Zenon, EnqueueAssumption DEF EnqInv, AnswersFollow, EnqTypeOK, Progress, Delete
<1> QED BY Zenon, <1>1, <1>2, <1>3, <1>4, <1>5, <1>6, <1>7, <1>8, <1>9, <1>10 DEF EnqInv

(* The end of a transaction: its rows are stored if it was open and        *)
(* commits, and undone otherwise.                                          *)
LEMMA SettleKeeps ==
  ASSUME EnqInv, NEW t \in Txs, NEW end, NEW told, NEW rows,
         tx[t] \in {"open", "aborted"}, ~Busy(t), Settle(t, end, told, rows),
         \/ end = "committed" /\ rows = "stored" /\ tx[t] = "open" /\ told \in {"ok", "error"}
         \/ end = "rolledback" /\ rows = "undone" /\ told = "error",
         faulted \subseteq faulted', faulted' \subseteq Txs,
         t \in Own => \A c \in Calls : TxOf[c] = t =>
            /\ result[c] # "none"
            /\ result[c] \in {"created", "duplicate"} /\ told = "error" => t \in faulted' \/ Troubled(t)
  PROVE EnqInv'
<1>a. /\ tx' \in [Txs -> {"idle", "open", "aborted", "committed", "rolledback"}]
      /\ answer' \in [Txs -> {"none", "ok", "error"}]
      /\ tx'[t] = end /\ answer'[t] = told
      /\ \A u \in Txs : u # t => tx'[u] = tx[u] /\ answer'[u] = answer[u]
  BY DEF EnqInv, EnqTypeOK, Settle
<1>b. \A c \in Calls : row'[c] = IF TxOf[c] = t /\ row[c] = "written" THEN rows ELSE row[c]
  BY Zenon DEF Settle
<1>c. row' \in [Calls -> {"none", "written", "stored", "undone", "deleted"}]
  BY Zenon DEF EnqInv, EnqTypeOK, Settle
<1>d. \A c \in Calls : row[c] = "written" => tx[TxOf[c]] \in {"open", "aborted"}
  BY Zenon DEF EnqInv, EnqTypeOK
<1>e. \A c \in Calls : TxOf[c] \in Txs /\ (TxOf[c] = t => step[c] \notin {"insert", "lookup"})
  BY Zenon, EnqueueAssumption DEF Busy
<1>1. EnqTypeOK'
  <2>1. \A c \in Calls : row'[c] = "written" => tx'[TxOf[c]] \in {"open", "aborted"}
    BY Zenon, <1>a, <1>b, <1>d, <1>e
  <2> QED BY <1>a, <1>c, <2>1 DEF EnqInv, EnqTypeOK, Settle
<1>2. OneTaskPerKey'
  <2>1. \A c \in Calls : row'[c] \in {"written", "stored"} => row[c] \in {"written", "stored"}
    BY Zenon, <1>b
  <2> QED BY Zenon, <2>1 DEF EnqInv, OneTaskPerKey, SameKey
<1>f. \A u : Troubled(u) \/ u \in faulted' => Troubled(u)'
  BY Zenon, TroubleStays DEF Settle, Troubled
<1>3. ReplaysNeverAbort'
  BY Zenon, <1>a, <1>f DEF EnqInv, ReplaysNeverAbort
<1>4. Progress'
  BY SMTT(30), <1>a, <1>e DEF EnqInv, Progress, Settle
<1>5. RowsFollow'
  BY SMTT(30), <1>a, <1>b, <1>d, <1>e DEF EnqInv, RowsFollow, Settle
<1>6. CreatedFollow'
  BY <1>a, <1>b, <1>e DEF EnqInv, CreatedFollow, Settle
<1>7. ReplaysFollow'
  <2> SUFFICES ASSUME NEW d \in Calls, result'[d] = "duplicate" PROVE Replay(d)'
    BY Zenon DEF ReplaysFollow
  <2>1. Replay(d) /\ task'[d] = task[d] /\ hash' = hash
    BY Zenon DEF EnqInv, ReplaysFollow, Settle
  <2>2. task[d] \in Calls
    BY Zenon, <2>1 DEF Replay
  <2> QED BY Zenon, <1>b, <2>1, <2>2, ReplayKept
<1>8. LookupsFollow'
  <2> SUFFICES ASSUME NEW c \in Calls, step'[c] = "lookup" PROVE Conflicted(c)'
    BY Zenon DEF LookupsFollow
  <2>0. step[c] = "lookup"
    BY Zenon DEF Settle
  <2>1. PICK d \in Calls :
           SameKey(c, d) /\ (row[d] \in {"stored", "deleted"} \/ (SharesTx(c, d) /\ row[d] = "written"))
    BY Zenon, <2>0 DEF EnqInv, LookupsFollow, Conflicted
  <2> QED BY Zenon, <1>b, <1>e, <2>0, <2>1 DEF Conflicted, SharesTx, SameKey
<1>9. ErrorsFollow'
  <2>1. \A c \in Calls : Deleted(c) => Deleted(c)'
    BY Zenon, <1>b DEF Deleted, SameKey
  <2> QED BY SMTT(30), <1>a, <1>e, <1>f, <2>1 DEF EnqInv, ErrorsFollow, Settle
<1>10. AnswersFollow'
  BY Zenon, <1>a DEF EnqInv, AnswersFollow
<1> QED BY Zenon, <1>1, <1>2, <1>3, <1>4, <1>5, <1>6, <1>7, <1>8, <1>9, <1>10 DEF EnqInv

(* Each way a transaction ends is such an end.                             *)
LEMMA EndsKeep ==
  ASSUME NEW t \in Txs, EnqInv, Commit(t) \/ CommitFails(t) \/ Rollback(t)
  PROVE EnqInv'
<1>a. \A c \in Calls : TxOf[c] = t => result[c] \in Results(t)
  BY Zenon DEF Results
<1>b. faulted \subseteq Txs /\ (tx[t] = "aborted" => Troubled(t))
  BY Zenon DEF EnqInv, EnqTypeOK, ReplaysNeverAbort
<1>1. CASE Commit(t)
  BY <1>1, <1>a, <1>b, SettleKeeps DEF Commit, MayCommit
<1>2. CASE CommitFails(t)
  BY <1>2, <1>a, <1>b, SettleKeeps DEF CommitFails, MayCommit, Fault
<1>3. CASE Rollback(t)
  BY <1>3, <1>a, <1>b, SettleKeeps DEF Rollback
<1> QED BY Zenon, <1>1, <1>2, <1>3

(* Nothing has been sent.                                                  *)
LEMMA EnqInitially == EnqInit => EnqInv
BY EnqueueAssumption DEF EnqInit, EnqInv, EnqTypeOK, OneTaskPerKey, ReplaysNeverAbort, Progress,
   RowsFollow, CreatedFollow, ReplaysFollow, LookupsFollow, ErrorsFollow, AnswersFollow

(* Every step keeps the invariant.                                         *)
LEMMA EnqStep == EnqInv /\ [EnqNext]_enqVars => EnqInv'
<1> SUFFICES ASSUME EnqInv, [EnqNext]_enqVars PROVE EnqInv'
  BY Zenon
<1>1. CASE UNCHANGED enqVars
  <2> USE <1>1 DEF enqVars
  <2>1. EnqTypeOK' /\ OneTaskPerKey' /\ ReplaysNeverAbort' /\ Progress'
    BY DEF EnqInv, EnqTypeOK, OneTaskPerKey, ReplaysNeverAbort, Progress, SameKey, Troubled
  <2>2. RowsFollow' /\ CreatedFollow' /\ AnswersFollow'
    BY Zenon DEF EnqInv, RowsFollow, CreatedFollow, AnswersFollow
  <2>3. ReplaysFollow' /\ LookupsFollow' /\ ErrorsFollow'
    BY SMTT(30) DEF EnqInv, ReplaysFollow, Replay, LookupsFollow, Conflicted, ErrorsFollow, Deleted,
       SameKey, SharesTx, Troubled
  <2> QED BY Zenon, <2>1, <2>2, <2>3 DEF EnqInv
<1>2. ASSUME NEW c \in Calls, Reject(c) \/ Send(c) \/ HashFails(c) \/ BeginFails(c) \/ Execute(c) \/ Delete(c)
      PROVE EnqInv'
  BY Zenon, <1>2, RejectKeeps, SendKeeps, HashFailsKeeps, BeginFailsKeeps, InsertRowKeeps, InsertConflictsKeeps,
     InsertFailsKeeps, LookupKeeps, LookupFailsKeeps, DeleteKeeps DEF Execute
<1> QED BY Zenon, <1>1, <1>2, EndsKeep DEF EnqNext

(* The inductive invariant holds of every execution.                       *)
THEOREM EnqInvariant == EnqSpec => []EnqInv
BY EnqInitially, EnqStep, PTL DEF EnqSpec

(* State and results stay in their types, and no row outlives its          *)
(* transaction uncommitted.                                                *)
THEOREM EnqTypesCorrect == EnqSpec => []EnqTypeOK
BY EnqInvariant, PTL DEF EnqInv

(* For any number of callers, no two tasks share an idempotency key.       *)
THEOREM KeysUnique == EnqSpec => []OneTaskPerKey
BY EnqInvariant, PTL DEF EnqInv

(* Replays and conflicts leave the caller's transaction usable.            *)
THEOREM ReplaysHarmless == EnqSpec => []ReplaysNeverAbort
BY EnqInvariant, PTL DEF EnqInv

(* What an acknowledged result refers to.                                  *)
LEMMA AcknowledgedRows ==
  ASSUME EnqInv, NEW c \in Calls, Acknowledged(c)
  PROVE \/ /\ task[c] \in Calls /\ row[task[c]] \in {"stored", "deleted"}
           /\ hash[task[c]] = hash[c] /\ (task[c] = c \/ SameKey(c, task[c]))
        \/ task[c] = NoTask /\ result[c] = "created" /\ TxOf[c] \in faulted \ Own
<1>1. tx[TxOf[c]] = "committed"
  BY Zenon, EnqueueAssumption DEF EnqInv, AnswersFollow, Acknowledged
<1>2. CASE result[c] = "created"
  BY <1>1, <1>2 DEF EnqInv, EnqTypeOK, CreatedFollow, RowsFollow
<1>3. CASE result[c] = "duplicate"
  <2>1. Replay(c)
    BY Zenon, <1>3 DEF EnqInv, ReplaysFollow
  <2>2. CASE row[task[c]] \in {"stored", "deleted"}
    BY Zenon, <2>1, <2>2 DEF Replay
  <2>3. CASE SharesTx(c, task[c]) /\ row[task[c]] # "none"
    BY <1>1, <2>1, <2>3 DEF EnqInv, EnqTypeOK, RowsFollow, Replay, SharesTx
  <2> QED BY Zenon, <2>1, <2>2, <2>3 DEF Replay
<1> QED BY Zenon, <1>2, <1>3 DEF Acknowledged

(* The error insertTask drops is caught at the commit, except for an       *)
(* InsertTx that was never sent: every other caller whose transaction      *)
(* committed, and so every caller of Insert, can rely on its task.         *)
THEOREM AcknowledgementsHold == EnqSpec => []AcknowledgedIsStored
<1>1. EnqInv => AcknowledgedIsStored
  BY Zenon, AcknowledgedRows DEF AcknowledgedIsStored
<1> QED BY <1>1, EnqInvariant, PTL

(* Idempotency as the callers see it: one key, one task, one payload hash. *)
THEOREM ReplaysSound == EnqSpec => []ReplaysAgree
<1>1. ASSUME EnqInv PROVE ReplaysAgree
  <2> SUFFICES ASSUME NEW c \in Calls, NEW d \in Calls, SameKey(c, d), Acknowledged(c), Acknowledged(d),
                      task[c] # NoTask, task[d] # NoTask
               PROVE /\ task[c] = task[d] \/ "deleted" \in {row[task[c]], row[task[d]]}
                     /\ hash[task[c]] = hash[c]
    BY Zenon DEF ReplaysAgree
  <2>1. /\ task[c] \in Calls /\ row[task[c]] \in {"stored", "deleted"} /\ hash[task[c]] = hash[c]
        /\ task[d] \in Calls /\ row[task[d]] \in {"stored", "deleted"}
    BY Zenon, <1>1, AcknowledgedRows
  <2>2. SameKey(task[c], task[d])
    BY Zenon, <1>1, AcknowledgedRows DEF SameKey
  <2> QED BY Zenon, <1>1, <2>1, <2>2 DEF EnqInv, OneTaskPerKey
<1> QED BY <1>1, EnqInvariant, PTL

(* A 500 of POST /api/tasks has a failing database, a deleted task or a    *)
(* payload that cannot be hashed or stored behind it, whatever other       *)
(* callers do.                                                             *)
THEOREM FailuresCaused == EnqSpec => []OnlyFaultsFail
<1>1. ASSUME EnqInv PROVE OnlyFaultsFail
  <2> SUFFICES ASSUME NEW c \in Calls, TxOf[c] \in Own, answer[TxOf[c]] # "none", HTTPStatus(c) = 500
               PROVE Troubled(TxOf[c]) \/ payload[c] \in Unhashable \/ Deleted(c)
    BY DEF OnlyFaultsFail, Deleted
  <2>1. result[c] \in {"created", "duplicate", "conflict", "invalid", "error"}
    BY <1>1 DEF EnqInv, EnqTypeOK, ErrorsFollow
  <2>2. answer[TxOf[c]] \in {"ok", "error"}
    BY <1>1, EnqueueAssumption DEF EnqInv, EnqTypeOK
  <2>3. result[c] = "error" \/ (result[c] \in {"created", "duplicate"} /\ answer[TxOf[c]] = "error")
    BY <2>1, <2>2 DEF HTTPStatus
  <2> QED BY ZenonT(30), <1>1, <2>3 DEF EnqInv, ErrorsFollow, Troubled
<1> QED BY <1>1, EnqInvariant, PTL

-----------------------------------------------------------------------------
(* The counter equals the number of calls told "created".                  *)
ToldCreated == {c \in Calls : result[c] = "created"}
Counted == enqueued = Cardinality(ToldCreated)

(* A step counts exactly the calls it tells created.                       *)
LEMMA CountStep == EnqInv /\ Counted /\ [EnqNext]_enqVars => Counted'
<1> SUFFICES ASSUME EnqInv, Counted, [EnqNext]_enqVars PROVE Counted'
  BY Zenon
<1>1. IsFiniteSet(ToldCreated)
  BY Zenon, FS_Subset, EnqueueAssumption DEF ToldCreated
<1>2. ASSUME UNCHANGED enqueued, ToldCreated' = ToldCreated PROVE Counted'
  BY Zenon, <1>2 DEF Counted
<1>3. ASSUME NEW c \in Calls, NEW id, step[c] = "insert", Returns(c, "created", id), enqueued' = enqueued + 1
      PROVE Counted'
  <2>1. c \notin ToldCreated
    BY Zenon, <1>3 DEF EnqInv, Progress, ToldCreated
  <2>2. ToldCreated' = ToldCreated \cup {c}
    BY <1>3 DEF EnqInv, EnqTypeOK, Returns, ToldCreated
  <2>3. Cardinality(ToldCreated \cup {c}) = Cardinality(ToldCreated) + 1
    BY Zenon, <1>1, <2>1, FS_AddElement
  <2> QED BY Zenon, <1>3, <2>2, <2>3 DEF Counted
<1>4. ASSUME NEW c \in Calls, NEW r, NEW id, r # "created", step[c] # "returned", Returns(c, r, id),
             UNCHANGED enqueued
      PROVE Counted'
  <2>1. ToldCreated' = ToldCreated
    BY Zenon, <1>4 DEF EnqInv, EnqTypeOK, Progress, Returns, ToldCreated
  <2> QED BY Zenon, <1>2, <1>4, <2>1
<1>5. ASSUME UNCHANGED <<result, enqueued>> PROVE Counted'
  BY Zenon, <1>2, <1>5 DEF ToldCreated
<1>6. ASSUME NEW c \in Calls, InsertRow(c) \/ InsertFails(c) PROVE Counted'
  BY Zenon, <1>3, <1>6 DEF InsertRow, InsertFails
<1>7. ASSUME NEW c \in Calls, Reject(c) \/ HashFails(c) \/ BeginFails(c) \/ LookupFails(c) PROVE Counted'
  BY Zenon, <1>4, <1>7 DEF Reject, HashFails, Enter, BeginFails, LookupFails
<1>8. ASSUME NEW c \in Calls, Lookup(c) PROVE Counted'
  BY Zenon, <1>4, <1>8 DEF Lookup
<1>9. ASSUME NEW c \in Calls, Send(c) \/ InsertConflicts(c) \/ Delete(c) PROVE Counted'
  BY Zenon, <1>5, <1>9 DEF Send, InsertConflicts, Delete
<1>10. ASSUME NEW t \in Txs, Commit(t) \/ CommitFails(t) \/ Rollback(t) PROVE Counted'
  BY Zenon, <1>5, <1>10 DEF Commit, CommitFails, Rollback, Settle
<1>11. CASE UNCHANGED enqVars
  BY Zenon, <1>5, <1>11 DEF enqVars
<1> QED BY Zenon, <1>6, <1>7, <1>8, <1>9, <1>10, <1>11 DEF EnqNext, Execute

(* TasksEnqueuedTotal is never below the number of tasks stored.           *)
THEOREM CounterCovers == EnqSpec => []CountNeverBehind
<1>1. EnqInit => Counted
  <2> SUFFICES ASSUME EnqInit PROVE Counted
    BY Zenon
  <2>1. ToldCreated = {}
    BY Zenon DEF EnqInit, ToldCreated
  <2> QED BY Zenon, <2>1, FS_EmptySet DEF EnqInit, Counted
<1>2. ASSUME EnqInv, Counted PROVE CountNeverBehind
  <2> DEFINE Stored == {c \in Calls : row[c] \in {"stored", "deleted"}}
  <2>1. Stored \subseteq ToldCreated /\ IsFiniteSet(ToldCreated)
    BY Zenon, <1>2, FS_Subset, EnqueueAssumption DEF EnqInv, RowsFollow, ToldCreated
  <2>2. Cardinality(Stored) <= Cardinality(ToldCreated)
    BY Zenon, <2>1, FS_Subset
  <2> QED BY Zenon, <1>2, <2>2 DEF Counted, CountNeverBehind
<1> QED BY <1>1, <1>2, CountStep, EnqInvariant, PTL DEF EnqSpec

-----------------------------------------------------------------------------
(* The moves of a call, of a row and of a transaction: none leads back.    *)
CallMoves == {<<"unsent", "insert">>, <<"unsent", "returned">>, <<"insert", "lookup">>,
              <<"insert", "returned">>, <<"lookup", "returned">>}
RowMoves == {<<"none", "written">>, <<"written", "stored">>, <<"written", "undone">>,
             <<"stored", "deleted">>}
TxMoves == {<<"idle", "open">>, <<"idle", "rolledback">>, <<"open", "aborted">>,
            <<"open", "committed">>, <<"open", "rolledback">>, <<"aborted", "rolledback">>}

CallForward(c) ==
  /\ step'[c] = step[c] \/ <<step[c], step'[c]>> \in CallMoves
  /\ row'[c] = row[c] \/ <<row[c], row'[c]>> \in RowMoves
  /\ step[c] # "unsent" => payload'[c] = payload[c] /\ hash'[c] = hash[c]
  /\ step[c] = "returned" => result'[c] = result[c] /\ task'[c] = task[c]
TxForward(t) ==
  /\ tx'[t] = tx[t] \/ <<tx[t], tx'[t]>> \in TxMoves
  /\ Ended(t) => answer'[t] = answer[t]
Moves ==
  \/ \E c \in Calls : step'[c] # step[c] \/ row'[c] # row[c]
  \/ \E t \in Txs : tx'[t] # tx[t]
Forward == (\A c \in Calls : CallForward(c)) /\ (\A t \in Txs : TxForward(t)) /\ Moves

(* A submission only goes forward: a call, its row and its transaction     *)
(* never return to an earlier state, what a caller was told and what a     *)
(* call carries never change afterwards, and every step moves one of them. *)
OnlyForward == [][Forward]_enqVars

(* A call that returns, alone.                                             *)
LEMMA ReturnForward ==
  ASSUME EnqInv, NEW c \in Calls, NEW r, NEW id, step[c] # "returned", Returns(c, r, id),
         step[c] = "unsent" \/ payload' = payload, \A d \in Calls : d # c => payload'[d] = payload[d],
         UNCHANGED hash,
         row' = row \/ (row[c] = "none" /\ row' = [row EXCEPT ![c] = "written"]),
         \A t \in Txs : TxForward(t)
  PROVE Forward
<1>1. step'[c] = "returned" /\ <<step[c], "returned">> \in CallMoves
  BY Zenon DEF EnqInv, EnqTypeOK, Returns, CallMoves
<1>2. \A d \in Calls : d # c => step'[d] = step[d] /\ result'[d] = result[d] /\ task'[d] = task[d]
  BY DEF EnqInv, EnqTypeOK, Returns
<1>3. \A d \in Calls : row'[d] = row[d] \/ <<row[d], row'[d]>> \in RowMoves
  BY DEF EnqInv, EnqTypeOK, RowMoves
<1>4. Moves
  BY Zenon, <1>1 DEF Moves, CallMoves
<1>5. \A d \in Calls : CallForward(d)
  BY Zenon, <1>1, <1>2, <1>3 DEF CallForward
<1> QED BY Zenon, <1>4, <1>5 DEF Forward

(* A transaction that ends takes the rows it wrote with it.                *)
LEMMA SettleForward ==
  ASSUME EnqInv, NEW t \in Txs, NEW end, NEW told, NEW rows, Settle(t, end, told, rows),
         <<tx[t], end>> \in TxMoves, tx[t] # end, ~Ended(t), rows \in {"stored", "undone"}
  PROVE Forward
<1>1. tx'[t] = end /\ \A u \in Txs : u # t => tx'[u] = tx[u] /\ answer'[u] = answer[u]
  BY DEF EnqInv, EnqTypeOK, Settle
<1>2. \A c \in Calls : row'[c] = row[c] \/ <<row[c], row'[c]>> \in RowMoves
  BY Zenon DEF Settle, RowMoves
<1>3. \A c \in Calls : CallForward(c)
  BY Zenon, <1>2 DEF CallForward, Settle
<1>4. \A u \in Txs : TxForward(u)
  BY Zenon, <1>1 DEF TxForward
<1>5. Moves
  BY Zenon, <1>1 DEF Moves
<1> QED BY Zenon, <1>3, <1>4, <1>5 DEF Forward

(* Every step of a submission is forward.                                  *)
LEMMA StepForward ==
  ASSUME EnqInv, EnqNext
  PROVE Forward
<1>0. \A c \in Calls : TxOf[c] \in Txs
  BY Zenon, EnqueueAssumption
<1>1. ASSUME NEW c \in Calls, Reject(c) PROVE Forward
  <2>1. \A t \in Txs : TxForward(t)
    <3>1. tx[TxOf[c]] \in {"idle", "open", "aborted"}
      BY <1>0, <1>1 DEF EnqInv, EnqTypeOK, Reject, Ended
    <3> QED BY <1>0, <1>1, <3>1 DEF EnqInv, EnqTypeOK, Reject, TxForward, TxMoves, Ended
  <2> QED BY Zenon, <1>1, <2>1, ReturnForward DEF Reject
<1>a. ASSUME NEW c \in Calls, Enter(c), UNCHANGED answer PROVE \A t \in Txs : TxForward(t)
  <2>1. \A u \in Txs : tx'[u] # tx[u] => tx[u] = "idle" /\ tx'[u] = "open"
    BY Zenon, <1>a, Enters
  <2> QED BY Zenon, <1>a, <2>1 DEF TxForward, TxMoves
<1>b. ASSUME NEW c \in Calls, HashFails(c) PROVE Forward
  <2>1. step[c] = "unsent" /\ \A d \in Calls : d # c => payload'[d] = payload[d]
    BY Zenon, <1>b DEF EnqInv, EnqTypeOK, HashFails, Enter
  <2> QED BY Zenon, <1>a, <1>b, <2>1, ReturnForward DEF HashFails
<1>2. ASSUME NEW c \in Calls, Send(c) PROVE Forward
  <2>1. step[c] = "unsent" /\ step'[c] = "insert" /\ row' = row
        /\ \A d \in Calls : d # c => step'[d] = step[d] /\ payload'[d] = payload[d] /\ hash'[d] = hash[d]
    BY Zenon, <1>2 DEF EnqInv, EnqTypeOK, Send, Enter
  <2>2. \A d \in Calls : CallForward(d)
    BY Zenon, <1>2, <2>1 DEF CallForward, CallMoves, Send
  <2>3. \A t \in Txs : TxForward(t)
    BY Zenon, <1>a, <1>2 DEF Send
  <2> QED BY Zenon, <2>1, <2>2, <2>3 DEF Forward, Moves
<1>3. ASSUME NEW c \in Calls, BeginFails(c) PROVE Forward
  <2>1. tx[TxOf[c]] \in {"idle", "open", "aborted"}
    BY Zenon, <1>0, <1>3 DEF EnqInv, EnqTypeOK, BeginFails, ErrorsFollow, AnswersFollow, Progress
  <2>2. \A t \in Txs : TxForward(t)
    BY Zenon, <1>0, <1>3, <2>1 DEF EnqInv, EnqTypeOK, BeginFails, TxForward, TxMoves, Ended
  <2> QED BY Zenon, <1>3, <2>2, ReturnForward DEF BeginFails
<1>4. ASSUME NEW c \in Calls, InsertRow(c) PROVE Forward
  <2>1. row[c] = "none" /\ \A t \in Txs : TxForward(t)
    BY Zenon, <1>4 DEF EnqInv, EnqTypeOK, Progress, RowsFollow, InsertRow, TxForward
  <2> QED BY Zenon, <1>4, <2>1, ReturnForward DEF InsertRow
<1>5. ASSUME NEW c \in Calls, InsertConflicts(c) PROVE Forward
  <2>1. step[c] = "insert" /\ step'[c] = "lookup" /\ \A d \in Calls : d # c => step'[d] = step[d]
    BY Zenon, <1>5 DEF EnqInv, EnqTypeOK, InsertConflicts
  <2>2. \A d \in Calls : CallForward(d)
    BY Zenon, <1>5, <2>1 DEF CallForward, CallMoves, InsertConflicts
  <2> QED BY Zenon, <1>5, <2>1, <2>2 DEF Forward, Moves, TxForward, InsertConflicts
<1>6. ASSUME NEW c \in Calls, InsertFails(c) PROVE Forward
  <2>1. \A t \in Txs : TxForward(t)
    BY Zenon, <1>0, <1>6 DEF EnqInv, EnqTypeOK, InsertFails, Abort, GiveUp, TxForward, TxMoves
  <2> QED BY Zenon, <1>6, <2>1, ReturnForward DEF InsertFails
<1>7. ASSUME NEW c \in Calls, Lookup(c) PROVE Forward
  <2>1. PICK r, id : Returns(c, r, id)
    BY Zenon, <1>7 DEF Lookup
  <2>2. \A t \in Txs : TxForward(t)
    BY Zenon, <1>7 DEF Lookup, TxForward
  <2> QED BY Zenon, <1>7, <2>1, <2>2, ReturnForward DEF Lookup
<1>8. ASSUME NEW c \in Calls, LookupFails(c) PROVE Forward
  <2>1. tx[TxOf[c]] = "open"
    BY Zenon, <1>8 DEF EnqInv, Progress, LookupFails
  <2>2. \A t \in Txs : TxForward(t)
    BY Zenon, <1>0, <1>8, <2>1 DEF EnqInv, EnqTypeOK, LookupFails, Abort, GiveUp, TxForward, TxMoves
  <2> QED BY Zenon, <1>8, <2>2, ReturnForward DEF LookupFails
<1>9. ASSUME NEW c \in Calls, Delete(c) PROVE Forward
  <2>1. row[c] = "stored" /\ row'[c] = "deleted" /\ \A d \in Calls : d # c => row'[d] = row[d]
    BY Zenon, <1>9 DEF EnqInv, EnqTypeOK, Delete
  <2>2. \A d \in Calls : CallForward(d)
    BY Zenon, <1>9, <2>1 DEF CallForward, RowMoves, Delete
  <2> QED BY Zenon, <1>9, <2>1, <2>2 DEF Forward, Moves, TxForward, Delete
<1>10. ASSUME NEW t \in Txs, Commit(t) \/ CommitFails(t) \/ Rollback(t) PROVE Forward
  <2>1. tx[t] \in {"open", "aborted"}
    BY Zenon, <1>10 DEF Commit, CommitFails, Rollback, MayCommit
  <2>2. /\ ~Ended(t) /\ <<tx[t], "rolledback">> \in TxMoves
        /\ tx[t] = "open" => <<tx[t], "committed">> \in TxMoves
    BY Zenon, <2>1 DEF Ended, TxMoves
  <2> QED BY Zenon, <1>10, <2>1, <2>2, SettleForward DEF Commit, CommitFails, Rollback
<1> QED BY Zenon, <1>b, <1>1, <1>2, <1>3, <1>4, <1>5, <1>6, <1>7, <1>8, <1>9, <1>10 DEF EnqNext, Execute

(* Every submission moves forward only.                                    *)
THEOREM SubmissionsAdvance == EnqSpec => OnlyForward
<1>1. EnqInv /\ [EnqNext]_enqVars => [Forward]_enqVars
  BY Zenon, StepForward
<1> QED BY <1>1, EnqInvariant, PTL DEF EnqSpec, OnlyForward

-----------------------------------------------------------------------------
(* A call that reached its INSERT carries a payload and its hash, and a    *)
(* call told "conflict" met a task of its key with another hash.           *)
Carries(c) == payload[c] \in Payloads /\ hash[c] = Hash[payload[c]]
Conflicts(c) == \E d \in Calls : SameKey(c, d) /\ row[d] # "none" /\ hash[d] # hash[c]
HashesFollow ==
  \A c \in Calls :
     /\ step[c] \in {"insert", "lookup"} \/ result[c] \in {"created", "duplicate", "conflict"} => Carries(c)
     /\ result[c] = "conflict" => Conflicts(c)

(* What a step may do to a call so that the call stays right: leave it     *)
(* alone, send it with a payload, refuse it, or return it from the store.  *)
HashStep(c) ==
  \/ step'[c] = step[c] /\ result'[c] = result[c]
  \/ step'[c] = "insert" /\ result'[c] = "none" /\ Carries(c)'
  \/ step'[c] = "returned" /\ result'[c] \in {"invalid", "error"}
  \/ step[c] \in {"insert", "lookup"} /\ (result'[c] = "conflict" => Conflicts(c))

(* Every step does one of these.                                           *)
LEMMA HashSteps ==
  ASSUME EnqInv, EnqNext, NEW c \in Calls
  PROVE HashStep(c)
<1> USE DEF EnqInv, EnqTypeOK
<1>1. ASSUME UNCHANGED <<step, result>> PROVE HashStep(c)
  BY Zenon, <1>1 DEF HashStep
<1>2. ASSUME NEW d \in Calls, NEW r, NEW id, Returns(d, r, id),
             \/ r \in {"invalid", "error"}
             \/ step[d] \in {"insert", "lookup"} /\ (r = "conflict" => Conflicts(d))
      PROVE HashStep(c)
  BY <1>2 DEF HashStep, Returns
<1>3. ASSUME NEW d \in Calls, Send(d) PROVE HashStep(c)
  <2>1. PICK p \in Offers[d] : /\ payload' = [payload EXCEPT ![d] = p]
                               /\ hash' = [hash EXCEPT ![d] = Hash[p]]
    BY Zenon, <1>3 DEF Send
  <2>2. p \in Payloads /\ payload'[d] = p /\ hash'[d] = Hash[p]
    BY ZenonT(30), <2>1, EnqueueAssumption
  <2>3. result[d] = "none" /\ step'[d] = "insert" /\ result' = result
        /\ (d # c => step'[c] = step[c])
    BY SMTT(30), <1>3 DEF Send, Enter, Progress
  <2> QED BY Zenon, <2>2, <2>3 DEF HashStep, Carries
<1>4. ASSUME NEW d \in Calls, Reject(d) \/ HashFails(d) \/ BeginFails(d) \/ LookupFails(d) PROVE HashStep(c)
  BY Zenon, <1>2, <1>4 DEF Reject, HashFails, BeginFails, LookupFails
<1>5. ASSUME NEW d \in Calls, InsertRow(d) \/ InsertFails(d) PROVE HashStep(c)
  BY Zenon, <1>2, <1>5 DEF InsertRow, InsertFails
<1>6. ASSUME NEW d \in Calls, InsertConflicts(d) PROVE HashStep(c)
  <2>1. step[d] = "insert" /\ result[d] = "none" /\ result' = result
        /\ (d # c => step'[c] = step[c])
    BY <1>6 DEF InsertConflicts, Progress
  <2> QED BY Zenon, <2>1 DEF HashStep
<1>7. ASSUME NEW d \in Calls, Lookup(d) PROVE HashStep(c)
  <2>1. CASE Visible(d) = {} /\ Returns(d, "error", NoTask)
    BY Zenon, <1>2, <2>1
  <2>2. ASSUME NEW e \in Visible(d),
               IF hash[e] = hash[d] THEN Returns(d, "duplicate", e) ELSE Returns(d, "conflict", NoTask)
        PROVE HashStep(c)
    <3>1. e \in Calls /\ SameKey(d, e) /\ row[e] # "none"
      BY Zenon DEF Visible
    <3>2. step[d] = "lookup"
      BY Zenon, <1>7 DEF Lookup
    <3>3. CASE hash[e] = hash[d]
      BY Zenon, <1>2, <2>2, <3>2, <3>3
    <3>4. CASE hash[e] # hash[d]
      BY Zenon, <1>2, <2>2, <3>1, <3>2, <3>4 DEF Conflicts
    <3> QED BY Zenon, <3>3, <3>4
  <2> QED BY Zenon, <1>7, <2>1, <2>2 DEF Lookup
<1>8. ASSUME NEW d \in Calls, Delete(d) PROVE HashStep(c)
  BY Zenon, <1>1, <1>8 DEF Delete
<1>9. ASSUME NEW t \in Txs, Commit(t) \/ CommitFails(t) \/ Rollback(t) PROVE HashStep(c)
  BY Zenon, <1>1, <1>9 DEF Commit, CommitFails, Rollback, Settle
<1> QED BY Zenon, <1>3, <1>4, <1>5, <1>6, <1>7, <1>8, <1>9 DEF EnqNext, Execute

(* The hashes stay right: rows stay and a sent call keeps its payload.     *)
LEMMA HashesStep == EnqInv /\ HashesFollow /\ EnqNext => HashesFollow'
<1> SUFFICES ASSUME EnqInv, HashesFollow, EnqNext, NEW c \in Calls
             PROVE /\ step'[c] \in {"insert", "lookup"} \/ result'[c] \in {"created", "duplicate", "conflict"}
                        => Carries(c)'
                   /\ result'[c] = "conflict" => Conflicts(c)'
  BY Zenon DEF HashesFollow
<1>1. HashStep(c) /\ CallForward(c)
  BY Zenon, HashSteps, StepForward DEF Forward
<1>2. \A d \in Calls : /\ row[d] # "none" => row'[d] # "none" /\ hash'[d] = hash[d]
  BY Zenon, StepForward DEF Forward, CallForward, RowMoves, EnqInv, RowsFollow, Progress
<1>3. Carries(c) /\ step[c] # "unsent" => Carries(c)'
  BY Zenon, <1>1 DEF Carries, CallForward
<1>4. Conflicts(c) /\ step[c] # "unsent" => Conflicts(c)'
  BY Zenon, <1>1, <1>2 DEF Conflicts, CallForward, SameKey
<1>5. (step[c] \in {"insert", "lookup"} \/ result[c] \in {"created", "duplicate", "conflict"}) => step[c] # "unsent"
  BY Zenon DEF EnqInv, Progress
<1> QED BY Zenon, <1>1, <1>3, <1>4, <1>5 DEF HashesFollow, HashStep

(* What a submission is compared by is its hash: if payloads with the same *)
(* value have the same hash, they never conflict, and if equal hashes make *)
(* payloads alike, a replay is of a payload like its own.                  *)
THEOREM ReplaysJudged ==
  ASSUME NEW same, NEW alike,
         \A p, q \in Payloads : <<p, q>> \in same => Hash[p] = Hash[q],
         \A p, q \in Payloads : Hash[p] = Hash[q] => <<p, q>> \in alike
  PROVE EnqSpec => []ReplaysJudgedBy(same, alike)
<1>1. EnqInit => HashesFollow
  BY Zenon DEF EnqInit, HashesFollow
<1>2. EnqInv /\ HashesFollow /\ UNCHANGED enqVars => HashesFollow'
  BY DEF enqVars, HashesFollow, Carries, Conflicts, SameKey
<1>3. ASSUME EnqInv, HashesFollow PROVE ReplaysJudgedBy(same, alike)
  <2> SUFFICES ASSUME NEW c \in Calls
               PROVE /\ result[c] = "duplicate" => <<payload[c], payload[task[c]]>> \in alike
                     /\ result[c] = "conflict" =>
                          \E d \in Calls : /\ SameKey(c, d) /\ row[d] # "none"
                                           /\ <<payload[c], payload[d]>> \notin same
    BY Zenon DEF ReplaysJudgedBy
  <2>0. \A d \in Calls : row[d] # "none" => Carries(d)
    BY Zenon, <1>3 DEF EnqInv, RowsFollow, HashesFollow
  <2>1. ASSUME result[c] = "duplicate" PROVE <<payload[c], payload[task[c]]>> \in alike
    <3>1. task[c] \in Calls /\ hash[task[c]] = hash[c] /\ row[task[c]] # "none"
      BY Zenon, <1>3, <2>1 DEF EnqInv, ReplaysFollow, Replay
    <3>2. Carries(c) /\ Carries(task[c])
      BY Zenon, <1>3, <2>0, <2>1, <3>1 DEF HashesFollow
    <3> QED BY Zenon, <3>1, <3>2 DEF Carries
  <2>2. ASSUME result[c] = "conflict"
        PROVE \E d \in Calls : SameKey(c, d) /\ row[d] # "none" /\ <<payload[c], payload[d]>> \notin same
    <3>1. PICK d \in Calls : SameKey(c, d) /\ row[d] # "none" /\ hash[d] # hash[c]
      BY Zenon, <1>3, <2>2 DEF HashesFollow, Conflicts
    <3>2. Carries(c) /\ Carries(d)
      BY Zenon, <1>3, <2>0, <2>2, <3>1 DEF HashesFollow
    <3> QED BY Zenon, <3>1, <3>2 DEF Carries
  <2> QED BY Zenon, <2>1, <2>2
<1> QED BY <1>1, <1>2, <1>3, HashesStep, EnqInvariant, PTL DEF EnqSpec

(* A transaction is all or nothing for its tasks: once one row of it is    *)
(* stored, every call of it that was told "created" has its task, except   *)
(* an InsertTx that was never sent and handed none.                        *)
BatchesWhole ==
  \A c, d \in Calls :
     TxOf[c] = TxOf[d] /\ row[c] \in {"stored", "deleted"} /\ result[d] = "created" =>
        \/ task[d] = d /\ row[d] \in {"stored", "deleted"}
        \/ task[d] = NoTask /\ TxOf[d] \in faulted \ Own

(* InsertTx is atomic with the other inserts of its transaction.           *)
THEOREM BatchesAtomic == EnqSpec => []BatchesWhole
<1>1. EnqInv => BatchesWhole
  BY SMTT(30), EnqueueAssumption DEF EnqInv, EnqTypeOK, RowsFollow, CreatedFollow, BatchesWhole
<1> QED BY <1>1, EnqInvariant, PTL

-----------------------------------------------------------------------------
(* The guards of the steps that end a statement or a transaction: those of *)
(* Execute, with the database healthy, and those of Commit and Rollback.   *)
CanExecute(c) ==
  \/ step[c] = "insert" /\ tx[TxOf[c]] = "aborted"
  \/ /\ step[c] = "insert" /\ tx[TxOf[c]] = "open"
     /\ payload[c] \in Unstorable \/ Visible(c) # {} \/ Blockers(c) = {} \/ Deadlocked(TxOf[c])
  \/ step[c] = "lookup" /\ tx[TxOf[c]] = "open"
CanEnd(t) ==
  /\ tx[t] \in {"open", "aborted"} /\ ~Busy(t)
  /\ t \in Own => Results(t) \subseteq {"created", "duplicate"} \/ Results(t) \subseteq {"conflict", "error"}

(* While a transaction is unfinished, some statement can be executed or    *)
(* some transaction ended: inserts that wait for each other's keys, in     *)
(* whatever order and number, never all wait without a cycle the database  *)
(* finds.                                                                  *)
NeverStuck ==
  (\E t \in Txs : tx[t] \in {"open", "aborted"}) =>
     (\E c \in Calls : CanExecute(c)) \/ (\E t \in Txs : CanEnd(t))

(* A transaction of Create is open only while its call has been sent.      *)
OwnSent ==
  \A t \in Own : tx[t] \in {"open", "aborted"} =>
     \E c \in Calls : TxOf[c] = t /\ step[c] # "unsent" /\ result[c] # "invalid"

(* If every transaction of a finite set waits for one of the set, some of  *)
(* them wait in a circle: a smallest set of that kind is one, since those  *)
(* that are waited for are such a set too.                                 *)
LEMMA CycleFound ==
  ASSUME NEW S \in SUBSET Txs, IsFiniteSet(S), S # {},
         \A u \in S : \E v \in S : WaitsFor(u, v)
  PROVE \E t \in S : Deadlocked(t)
<1> DEFINE W == {X \in SUBSET S : X # {} /\ \A u \in X : \E v \in X : WaitsFor(u, v)}
<1>1. W \subseteq FiniteSubsetsOf(S) /\ W # {}
  BY Zenon, FS_Subset DEF FiniteSubsetsOf
<1>2. IsWellFoundedOn(StrictSubsetOrdering(S), FiniteSubsetsOf(S))
  BY Zenon, FS_StrictSubsetOrderingWellFounded
<1> HIDE DEF W
<1>3. PICK X \in W : \A Y \in W : <<Y, X>> \notin StrictSubsetOrdering(S)
  BY Zenon, <1>1, <1>2, WFMin
<1>4. X \in SUBSET S /\ X # {} /\ \A u \in X : \E v \in X : WaitsFor(u, v)
  BY Zenon DEF W
<1> DEFINE Y == {v \in X : \E u \in X : WaitsFor(u, v)}
<1>5. Y \in W
  BY Zenon, <1>4 DEF W
<1>6. Y = X
  <2>1. <<Y, X>> \notin StrictSubsetOrdering(S)
    BY Zenon, <1>3, <1>5
  <2>2. Y \in SUBSET S /\ Y \subseteq X
    BY Zenon, <1>4
  <2> HIDE DEF Y
  <2> QED BY Zenon, <1>4, <2>1, <2>2 DEF StrictSubsetOrdering
<1>7. \A u \in X : (\E v \in X : WaitsFor(u, v)) /\ (\E v \in X : WaitsFor(v, u))
  BY <1>4, <1>6
<1>8. PICK t : t \in X
  BY Zenon, <1>4
<1>9. Deadlocked(t)
  BY Zenon, <1>4, <1>7, <1>8 DEF Deadlocked
<1> QED BY Zenon, <1>4, <1>8, <1>9

(* The calls of Create are sent before their transaction begins.           *)
LEMMA OwnSentStep == EnqInv /\ OwnSent /\ EnqNext => OwnSent'
<1> SUFFICES ASSUME EnqInv, OwnSent, EnqNext, NEW t \in Own, tx'[t] \in {"open", "aborted"}
             PROVE \E c \in Calls : TxOf[c] = t /\ step'[c] # "unsent" /\ result'[c] # "invalid"
  BY Zenon DEF OwnSent
<1>0. t \in Txs /\ \A c \in Calls : TxOf[c] \in Txs
  BY Zenon, EnqueueAssumption
<1>1. ASSUME tx[t] \in {"open", "aborted"}
      PROVE \E c \in Calls : TxOf[c] = t /\ step'[c] # "unsent" /\ result'[c] # "invalid"
  <2>1. PICK c \in Calls : TxOf[c] = t /\ step[c] # "unsent" /\ result[c] # "invalid"
    BY Zenon, <1>1 DEF OwnSent
  <2>2. CallForward(c) /\ HashStep(c)
    BY Zenon, StepForward, HashSteps DEF Forward
  <2>3. step'[c] # "unsent"
    BY Zenon, <2>1, <2>2 DEF CallForward, CallMoves
  <2>4. result'[c] # "invalid"
    <3>1. ASSUME NEW d \in Calls, Reject(d) PROVE d # c
      BY Zenon, <2>1, <3>1 DEF Reject
    <3>2. CASE \E d \in Calls : Reject(d)
      BY SMTT(30), <2>1, <3>1, <3>2 DEF Reject, Returns, EnqInv, EnqTypeOK
    <3>3. ASSUME NEW d \in Calls, NEW r, NEW id, Returns(d, r, id), r # "invalid" PROVE result'[c] # "invalid"
      BY Zenon, <2>1, <3>3 DEF Returns, EnqInv, EnqTypeOK
    <3>4. ASSUME UNCHANGED result PROVE result'[c] # "invalid"
      BY Zenon, <2>1, <3>4
    <3>5. ASSUME NEW d \in Calls, Send(d) \/ HashFails(d) \/ BeginFails(d) \/ Execute(d) \/ Delete(d)
          PROVE result'[c] # "invalid"
      <4>1. CASE InsertRow(d) \/ InsertFails(d) \/ HashFails(d) \/ BeginFails(d) \/ LookupFails(d)
        BY Zenon, <3>3, <4>1 DEF InsertRow, InsertFails, HashFails, BeginFails, LookupFails
      <4>2. CASE Lookup(d)
        BY Zenon, <3>3, <4>2 DEF Lookup
      <4>3. CASE Send(d) \/ InsertConflicts(d) \/ Delete(d)
        BY Zenon, <3>4, <4>3 DEF Send, InsertConflicts, Delete
      <4> QED BY Zenon, <3>5, <4>1, <4>2, <4>3 DEF Execute
    <3>6. ASSUME NEW u \in Txs, Commit(u) \/ CommitFails(u) \/ Rollback(u) PROVE result'[c] # "invalid"
      BY Zenon, <3>4, <3>6 DEF Commit, CommitFails, Rollback, Settle
    <3> QED BY Zenon, <3>2, <3>5, <3>6 DEF EnqNext
  <2> QED BY Zenon, <2>1, <2>3, <2>4
<1>2. ASSUME tx[t] \notin {"open", "aborted"}
      PROVE \E c \in Calls : TxOf[c] = t /\ step'[c] # "unsent" /\ result'[c] # "invalid"
  <2>1. tx'[t] # tx[t] /\ ~Ended(t)
    BY Zenon, <1>0, <1>2, StepForward DEF Forward, TxForward, TxMoves, Ended
  <2>2. ASSUME NEW c \in Calls, Send(c)
        PROVE \E d \in Calls : TxOf[d] = t /\ step'[d] # "unsent" /\ result'[d] # "invalid"
    <3>1. TxOf[c] = t
      BY Zenon, <1>0, <2>1, <2>2 DEF Send, Enter, EnqInv, EnqTypeOK
    <3>2. step'[c] = "insert" /\ result'[c] = "none"
      BY SMTT(30), <2>2 DEF Send, Enter, EnqInv, EnqTypeOK, Progress
    <3> QED BY Zenon, <3>1, <3>2
  <2>5. ASSUME NEW c \in Calls, HashFails(c)
        PROVE \E d \in Calls : TxOf[d] = t /\ step'[d] # "unsent" /\ result'[d] # "invalid"
    <3>1. TxOf[c] = t
      BY Zenon, <1>0, <2>1, <2>5 DEF HashFails, Enter, EnqInv, EnqTypeOK
    <3>2. step'[c] = "returned" /\ result'[c] = "error"
      BY ZenonT(30), <2>5 DEF HashFails, Returns, EnqInv, EnqTypeOK
    <3> QED BY Zenon, <3>1, <3>2
  <2>3. ASSUME NEW c \in Calls, Reject(c) \/ BeginFails(c) \/ Execute(c) \/ Delete(c) PROVE FALSE
    <3>1. CASE Reject(c) \/ BeginFails(c)
      BY SMTT(30), <1>0, <2>1, <3>1 DEF Reject, BeginFails, EnqInv, EnqTypeOK
    <3>2. CASE InsertRow(c) \/ InsertConflicts(c) \/ Lookup(c) \/ Delete(c)
      BY Zenon, <2>1, <3>2 DEF InsertRow, InsertConflicts, Lookup, Delete
    <3>3. CASE InsertFails(c) \/ LookupFails(c)
      <4>1. tx[TxOf[c]] \in {"open", "aborted"}
        BY Zenon, <3>3 DEF InsertFails, LookupFails, EnqInv, Progress
      <4>2. TxOf[c] # t /\ (tx' = tx \/ tx' = [tx EXCEPT ![TxOf[c]] = "aborted"])
        BY Zenon, <1>2, <3>3, <4>1 DEF InsertFails, LookupFails, Abort, GiveUp
      <4> QED BY Zenon, <1>0, <2>1, <4>2 DEF EnqInv, EnqTypeOK
    <3> QED BY Zenon, <2>3, <3>1, <3>2, <3>3 DEF Execute
  <2>4. ASSUME NEW u \in Txs, Commit(u) \/ CommitFails(u) \/ Rollback(u) PROVE FALSE
    <3>1. tx[u] \in {"open", "aborted"} /\ \E end : tx' = [tx EXCEPT ![u] = end]
      BY Zenon, <2>4 DEF Commit, CommitFails, Rollback, MayCommit, Settle
    <3> QED BY Zenon, <1>0, <1>2, <2>1, <3>1 DEF EnqInv, EnqTypeOK
  <2> QED BY Zenon, <2>2, <2>3, <2>4, <2>5 DEF EnqNext
<1> QED BY Zenon, <1>1, <1>2

(* A transaction without a statement in progress can be ended: the call of *)
(* Create has returned a result that commits or rolls back.                *)
LEMMA IdleEnds ==
  ASSUME EnqInv, OwnSent, NEW t \in Txs, tx[t] \in {"open", "aborted"}, ~Busy(t)
  PROVE CanEnd(t)
<1>1. CASE t \notin Own
  BY Zenon, <1>1 DEF CanEnd
<1>2. CASE t \in Own
  <2>1. PICK c \in Calls : TxOf[c] = t /\ step[c] # "unsent" /\ result[c] # "invalid"
    BY Zenon, <1>2 DEF OwnSent
  <2>2. result[c] \in {"created", "duplicate", "conflict", "error"}
    BY SMTT(30), <2>1 DEF Busy, EnqInv, EnqTypeOK, Progress
  <2>3. Results(t) = {result[c]}
    BY Zenon, <1>2, <2>1, EnqueueAssumption DEF Results
  <2> QED BY Zenon, <2>2, <2>3 DEF CanEnd
<1> QED BY Zenon, <1>1, <1>2

(* A transaction that cannot go on waits for another that is unfinished.   *)
LEMMA BlockedWaits ==
  ASSUME EnqInv, NEW t \in Txs, tx[t] \in {"open", "aborted"}, Busy(t), \A c \in Calls : ~CanExecute(c)
  PROVE \E u \in Txs : tx[u] \in {"open", "aborted"} /\ WaitsFor(t, u)
<1>1. PICK c \in Calls : TxOf[c] = t /\ step[c] \in {"insert", "lookup"}
  BY Zenon DEF Busy
<1>2. step[c] = "insert" /\ tx[t] = "open" /\ Blockers(c) # {} /\ payload[c] \notin Unstorable
  BY Zenon, <1>1 DEF CanExecute, EnqInv, Progress
<1>3. PICK d \in Calls : d \in Blockers(c) /\ row[d] = "written" /\ ~SharesTx(c, d)
  BY Zenon, <1>2 DEF Blockers
<1>4. TxOf[d] \in Txs /\ tx[TxOf[d]] \in {"open", "aborted"}
  BY Zenon, <1>3, EnqueueAssumption DEF EnqInv, EnqTypeOK
<1>5. WaitsFor(t, TxOf[d])
  BY Zenon, <1>1, <1>2, <1>3 DEF WaitsFor, SharesTx
<1> QED BY Zenon, <1>4, <1>5

(* Submissions are never all stuck, with any number of transactions that   *)
(* insert any keys in any order.                                           *)
THEOREM SubmissionsNeverStuck == EnqSpec => []NeverStuck
<1>1. EnqInit => OwnSent
  BY Zenon, EnqueueAssumption DEF EnqInit, OwnSent
<1>2. OwnSent /\ UNCHANGED enqVars => OwnSent'
  BY DEF enqVars, OwnSent
<1>3. ASSUME EnqInv, OwnSent PROVE NeverStuck
  <2> SUFFICES ASSUME \E t \in Txs : tx[t] \in {"open", "aborted"},
                      \A c \in Calls : ~CanExecute(c), \A t \in Txs : ~CanEnd(t)
               PROVE FALSE
    BY Zenon DEF NeverStuck
  <2> DEFINE S == {t \in Txs : tx[t] \in {"open", "aborted"}}
  <2>1. \A t \in S : Busy(t)
    BY Zenon, <1>3, IdleEnds
  <2>2. \A t \in S : \E u \in S : WaitsFor(t, u)
    BY Zenon, <1>3, <2>1, BlockedWaits
  <2>3. IsFiniteSet({TxOf[c] : c \in Calls})
    <3>1. TxOf \in Surjection(Calls, {TxOf[c] : c \in Calls})
      BY Zenon, EnqueueAssumption DEF Surjection
    <3> QED BY Zenon, <3>1, EnqueueAssumption, FS_Surjection
  <2>4. S \subseteq {TxOf[c] : c \in Calls}
    BY SMTT(30), <2>1 DEF Busy
  <2>5. IsFiniteSet(S)
    BY Zenon, <2>3, <2>4, FS_Subset
  <2>6. PICK t \in S : Deadlocked(t)
    BY Zenon, <2>2, <2>5, CycleFound
  <2>7. PICK c \in Calls : TxOf[c] = t /\ step[c] \in {"insert", "lookup"}
    BY Zenon, <2>1 DEF Busy
  <2> QED BY Zenon, <1>3, <2>6, <2>7 DEF CanExecute, EnqInv, Progress
<1> QED BY <1>1, <1>2, <1>3, OwnSentStep, EnqInvariant, PTL DEF EnqSpec

-----------------------------------------------------------------------------
(* Trouble stays: calls keep their payloads.                               *)
LEMMA StepTroubles ==
  ASSUME EnqInv, EnqNext
  PROVE faulted \subseteq faulted' /\ \A t : Troubled(t) => Troubled(t)'
<1>1. faulted \subseteq faulted'
  <2>1. ASSUME NEW c \in Calls, Reject(c) \/ Send(c) \/ HashFails(c) \/ BeginFails(c) \/ Execute(c) \/ Delete(c)
        PROVE faulted \subseteq faulted'
    BY Zenon, <2>1 DEF Execute, Reject, Send, HashFails, BeginFails, InsertRow, InsertConflicts, InsertFails,
       Lookup, LookupFails, Delete, Fault
  <2>2. ASSUME NEW t \in Txs, Commit(t) \/ CommitFails(t) \/ Rollback(t) PROVE faulted \subseteq faulted'
    BY Zenon, <2>2 DEF Commit, CommitFails, Rollback, Fault
  <2> QED BY Zenon, <2>1, <2>2 DEF EnqNext
<1>2. \A c \in Calls : payload[c] \in Unstorable => payload'[c] = payload[c]
  <2>1. \A c \in Calls : payload[c] \in Unstorable => step[c] # "unsent"
    BY Zenon, EnqueueAssumption DEF EnqInv, Progress
  <2> QED BY Zenon, <2>1, StepForward DEF Forward, CallForward
<1> QED BY Zenon, <1>1, <1>2 DEF Troubled

(* A created result without a task, which only callers of InsertTx get to  *)
(* see, is the result of a failure of the database, a deadlock or a        *)
(* payload the database refuses, and a transaction of Create that gave it  *)
(* can no longer commit.                                                   *)
FalseCreatedCaused ==
  \A c \in Calls : result[c] = "created" /\ task[c] \notin Calls =>
     Troubled(TxOf[c]) /\ (TxOf[c] \in Own => tx[TxOf[c]] \in {"aborted", "rolledback"})

EmptyHanded == \A c \in Calls : result[c] = "created" /\ task[c] = NoTask => Troubled(TxOf[c])

(* Only a failed INSERT answers created without a task.                    *)
LEMMA EmptyHandedStep == EnqInv /\ EmptyHanded /\ EnqNext => EmptyHanded'
<1> SUFFICES ASSUME EnqInv, EmptyHanded, EnqNext PROVE EmptyHanded'
  BY Zenon
<1>0. DOMAIN result = Calls /\ DOMAIN task = Calls /\ \A t : Troubled(t) => Troubled(t)'
  BY Zenon, StepTroubles DEF EnqInv, EnqTypeOK
<1>1. ASSUME UNCHANGED <<result, task>> PROVE EmptyHanded'
  BY Zenon, <1>0, <1>1 DEF EmptyHanded
<1>2. ASSUME NEW c \in Calls, NEW r, NEW id, Returns(c, r, id),
             r # "created" \/ id # NoTask \/ Troubled(TxOf[c])'
      PROVE EmptyHanded'
  BY Zenon, <1>0, <1>2 DEF EmptyHanded, Returns
<1>3. ASSUME NEW c \in Calls, Reject(c) \/ HashFails(c) \/ BeginFails(c) \/ LookupFails(c) \/ InsertRow(c)
      PROVE EmptyHanded'
  BY Zenon, <1>2, <1>3, EnqueueAssumption DEF Reject, HashFails, BeginFails, LookupFails, InsertRow
<1>4. ASSUME NEW c \in Calls, InsertFails(c) PROVE EmptyHanded'
  <2>1. CASE tx[TxOf[c]] = "aborted"
    BY Zenon, <1>0, <1>2, <1>4, <2>1, EnqueueAssumption DEF InsertFails, EnqInv, ReplaysNeverAbort
  <2>2. CASE payload[c] \in Unstorable
    BY Zenon, <1>0, <1>2, <1>4, <2>2 DEF InsertFails, Troubled
  <2>3. CASE Fault(TxOf[c])
    BY Zenon, <1>2, <1>4, <2>3 DEF InsertFails, Fault, Troubled
  <2> QED BY Zenon, <1>4, <2>1, <2>2, <2>3 DEF InsertFails
<1>5. ASSUME NEW c \in Calls, Lookup(c) PROVE EmptyHanded'
  BY Zenon, <1>2, <1>5 DEF Lookup
<1>6. ASSUME NEW c \in Calls, Send(c) \/ InsertConflicts(c) \/ Delete(c) PROVE EmptyHanded'
  BY Zenon, <1>1, <1>6 DEF Send, InsertConflicts, Delete
<1>7. ASSUME NEW t \in Txs, Commit(t) \/ CommitFails(t) \/ Rollback(t) PROVE EmptyHanded'
  BY Zenon, <1>1, <1>7 DEF Commit, CommitFails, Rollback, Settle
<1> QED BY Zenon, <1>3, <1>4, <1>5, <1>6, <1>7 DEF EnqNext, Execute

(* The error insertTask drops always has a cause, and never misleads a     *)
(* caller of Insert.                                                       *)
THEOREM FalseCreatedExplained == EnqSpec => []FalseCreatedCaused
<1>1. EnqInit => EmptyHanded
  BY Zenon DEF EnqInit, EmptyHanded
<1>2. EmptyHanded /\ UNCHANGED enqVars => EmptyHanded'
  BY Zenon DEF enqVars, EmptyHanded, Troubled
<1>3. ASSUME EnqInv, EmptyHanded PROVE FalseCreatedCaused
  BY Zenon, <1>3 DEF EnqInv, CreatedFollow, EmptyHanded, FalseCreatedCaused
<1> QED BY <1>1, <1>2, <1>3, EmptyHandedStep, EnqInvariant, PTL DEF EnqSpec

-----------------------------------------------------------------------------
(* Enqueue implements TaskTable.                                           *)

Told(c) == IF Acknowledged(c) THEN task[c] ELSE NoTask

(* What an acknowledged caller can rely on, before and after a step.       *)
Relied(c) ==
  task[c] \in Calls /\ row[task[c]] \in {"stored", "deleted"} /\ (task[c] = c \/ SameKey(c, task[c]))

(* AcknowledgedRows for all calls at once.                                 *)
LEMMA AllRelied == EnqInv => \A c \in Calls : Acknowledged(c) /\ task[c] # NoTask => Relied(c)
BY Zenon, AcknowledgedRows DEF Relied

(* The same in the next state.                                             *)
LEMMA AllReliedNext == (EnqInv => \A c \in Calls : Acknowledged(c) /\ task[c] # NoTask => Relied(c))'
BY AllRelied, PTL

(* What a step that changes one call in progress leaves to be seen: the    *)
(* transaction of that call has not been answered yet.                     *)
LEMMA ToldKept ==
  ASSUME EnqInv, NEW c \in Calls, answer[TxOf[c]] # "ok", answer'[TxOf[c]] # "ok",
         \A t \in Txs : t # TxOf[c] => answer'[t] = answer[t],
         \A d \in Calls : d # c => result'[d] = result[d] /\ task'[d] = task[d]
  PROVE \A d \in Calls : Told(d)' = Told(d)
<1> SUFFICES ASSUME NEW d \in Calls PROVE Told(d)' = Told(d)
  OBVIOUS
<1>1. CASE TxOf[d] = TxOf[c]
  BY Zenon, <1>1 DEF Told, Acknowledged
<1>2. CASE TxOf[d] # TxOf[c]
  <2>1. TxOf[d] \in Txs
    BY Zenon, EnqueueAssumption
  <2>2. answer'[TxOf[d]] = answer[TxOf[d]] /\ result'[d] = result[d] /\ task'[d] = task[d]
    BY Zenon, <1>2, <2>1
  <2> QED BY Zenon, <2>2 DEF Told, Acknowledged
<1> QED BY Zenon, <1>1, <1>2

(* What can be seen of a step: only transaction t ends, and only its rows  *)
(* S are stored.                                                           *)
OnlyEnds(t, S) ==
  /\ ~Ended(t) /\ Ended(t)'
  /\ \A u \in Txs : u # t => tx'[u] = tx[u]
  /\ \A c \in S : TxOf[c] = t
  /\ \A c \in Calls : row'[c] = "stored" <=> row[c] = "stored" \/ c \in S
  /\ \A c \in Calls : row'[c] = "deleted" <=> row[c] = "deleted"
  /\ \A c \in Calls : TxOf[c] # t => Told(c)' = Told(c)

(* The end of a transaction, in the terms of the table.                    *)
LEMMA EndsAtOnce ==
  ASSUME EnqInv, EnqInv', NEW t \in Txs, NEW S \in SUBSET Calls, OnlyEnds(t, S)
  PROVE Table!EndTx(t, S) /\ S \in SUBSET {c \in Calls : TxOf[c] = t}
<1>0. /\ ~Ended(t) /\ Ended(t)'
      /\ \A u \in Txs : u # t => tx'[u] = tx[u]
      /\ \A c \in S : TxOf[c] = t
      /\ \A c \in Calls : row'[c] = "stored" <=> row[c] = "stored" \/ c \in S
      /\ \A c \in Calls : row'[c] = "deleted" <=> row[c] = "deleted"
      /\ \A c \in Calls : TxOf[c] # t => Told(c)' = Told(c)
  BY Zenon DEF OnlyEnds
<1>1. {u \in Txs : Ended(u)}' = {u \in Txs : Ended(u)} \cup {t} /\ t \notin {u \in Txs : Ended(u)}
  BY Zenon, <1>0 DEF Ended
<1>2. {c \in Calls : row[c] = "stored"}' = {c \in Calls : row[c] = "stored"} \cup S
  BY Zenon, <1>0
<1>3. {c \in Calls : row[c] = "deleted"}' = {c \in Calls : row[c] = "deleted"}
  BY Zenon, <1>0
<1>4. \A c, d \in {x \in Calls : row[x] = "stored"}' : Table!Alike(c, d) => c = d
  BY Zenon DEF EnqInv, OneTaskPerKey, SameKey, Table!Alike
<1>5. ASSUME NEW c \in Calls
      PROVE Told(c)' \in Calls \cup {NoTask}
  <2>1. task'[c] \in Calls \cup {NoTask}
    BY DEF EnqInv, EnqTypeOK
  <2> QED BY Zenon, <2>1 DEF Told
<1>6. ASSUME NEW c \in Calls, Told(c)' # Told(c)
      PROVE /\ TxOf[c] = t /\ Table!Alike(c, Told(c)')
            /\ Told(c)' \in {x \in Calls : row[x] = "stored"}' \cup {x \in Calls : row[x] = "deleted"}
  <2>1. TxOf[c] = t
    BY Zenon, <1>0, <1>6
  <2>2. answer[t] = "none"
    BY <1>0 DEF EnqInv, EnqTypeOK, AnswersFollow, Ended
  <2>3. ~Acknowledged(c) /\ Acknowledged(c)' /\ task'[c] # NoTask
    BY Zenon, <1>6, <2>1, <2>2 DEF Told, Acknowledged
  <2>4. task'[c] \in Calls /\ row'[task'[c]] \in {"stored", "deleted"} /\ (task'[c] = c \/ SameKey(c, task'[c]))
    BY Zenon, <2>3, AllReliedNext DEF Relied, SameKey
  <2>5. Told(c)' = task'[c]
    BY Zenon, <2>3 DEF Told
  <2> QED BY Zenon, <1>3, <2>1, <2>4, <2>5 DEF Table!Alike, SameKey
<1> DEFINE told == [c \in Calls |-> IF Acknowledged(c) THEN task[c] ELSE NoTask]
<1>7. \A c \in Calls : told[c] = Told(c) /\ told'[c] = Told(c)'
  BY Zenon DEF Told
<1>8. told' \in [Calls -> Calls \cup {NoTask}]
  <2>1. told' = [c \in Calls |-> told'[c]]
    BY Zenon
  <2>2. \A c \in Calls : told'[c] \in Calls \cup {NoTask}
    BY Zenon, <1>5, <1>7
  <2> HIDE DEF told
  <2> QED BY Zenon, <2>1, <2>2
<1>9. \A c \in Calls : told'[c] # told[c] =>
        /\ TxOf[c] = t
        /\ told'[c] \in {x \in Calls : row[x] = "stored"}' \cup {x \in Calls : row[x] = "deleted"}
        /\ Table!Alike(c, told'[c])
  <2> HIDE DEF told
  <2> QED BY SMT, <1>6, <1>7
<1> QED BY Zenon, <1>0, <1>1, <1>2, <1>3, <1>4, <1>8, <1>9 DEF Table!EndTx

(* A step that ends no transaction and deletes nothing is not seen.        *)
LEMMA NothingShows ==
  ASSUME \A t \in Txs : Ended(t)' <=> Ended(t),
         \A c \in Calls : /\ row'[c] = "stored" <=> row[c] = "stored"
                          /\ row'[c] = "deleted" <=> row[c] = "deleted"
                          /\ Told(c)' = Told(c)
  PROVE UNCHANGED Table!tableVars
<1>1. {t \in Txs : Ended(t)}' = {t \in Txs : Ended(t)}
  BY Zenon
<1>2. {c \in Calls : row[c] = "stored"}' = {c \in Calls : row[c] = "stored"}
      /\ {c \in Calls : row[c] = "deleted"}' = {c \in Calls : row[c] = "deleted"}
  BY Zenon
<1>3. [c \in Calls |-> IF Acknowledged(c) THEN task[c] ELSE NoTask]'
      = [c \in Calls |-> IF Acknowledged(c) THEN task[c] ELSE NoTask]
  <2>1. \A c \in Calls : (IF Acknowledged(c) THEN task[c] ELSE NoTask)' = IF Acknowledged(c) THEN task[c] ELSE NoTask
    BY Zenon DEF Told
  <2> QED BY Zenon, <2>1
<1> QED BY Zenon, <1>1, <1>2, <1>3 DEF Table!tableVars

(* What Returns does to a call whose transaction is still open.            *)
LEMMA ReturnUnseen ==
  ASSUME EnqInv, NEW c \in Calls, NEW r, NEW id, step[c] \in {"insert", "lookup"}, Returns(c, r, id),
         UNCHANGED answer, row' = row \/ (row[c] = "none" /\ row' = [row EXCEPT ![c] = "written"]),
         tx' = tx \/ tx' = [tx EXCEPT ![TxOf[c]] = "aborted"]
  PROVE UNCHANGED Table!tableVars
<1>1. TxOf[c] \in Txs /\ tx[TxOf[c]] \in {"open", "aborted"} /\ answer[TxOf[c]] = "none"
  BY EnqueueAssumption DEF EnqInv, Progress, AnswersFollow
<1>2. \A d \in Calls : d # c => result'[d] = result[d] /\ task'[d] = task[d]
  BY Zenon DEF EnqInv, EnqTypeOK, Returns
<1>3. \A d \in Calls : Told(d)' = Told(d)
  <2>1. answer'[TxOf[c]] # "ok" /\ answer[TxOf[c]] # "ok"
    BY Zenon, <1>1
  <2> QED BY Zenon, <1>2, <2>1, ToldKept
<1>4. \A t \in Txs : Ended(t)' <=> Ended(t)
  BY ZenonT(30), <1>1 DEF EnqInv, EnqTypeOK, Ended
<1>5. \A d \in Calls : /\ row'[d] = "stored" <=> row[d] = "stored"
                       /\ row'[d] = "deleted" <=> row[d] = "deleted"
  BY DEF EnqInv, EnqTypeOK
<1> QED BY Zenon, <1>3, <1>4, <1>5, NothingShows

(* The functions of the state, and what an answer says of its transaction. *)
LEMMA EnqTypes ==
  ASSUME EnqInv
  PROVE /\ tx \in [Txs -> {"idle", "open", "aborted", "committed", "rolledback"}]
        /\ answer \in [Txs -> {"none", "ok", "error"}]
        /\ DOMAIN result = Calls /\ DOMAIN task = Calls
        /\ \A t \in Txs : ~Ended(t) => answer[t] = "none"
<1>1. /\ tx \in [Txs -> {"idle", "open", "aborted", "committed", "rolledback"}]
      /\ answer \in [Txs -> {"none", "ok", "error"}]
      /\ DOMAIN result = Calls /\ DOMAIN task = Calls
  BY Zenon DEF EnqInv, EnqTypeOK
<1>2. \A t \in Txs : answer[t] = "none" <=> tx[t] \in {"idle", "open", "aborted"}
  BY Zenon DEF EnqInv, AnswersFollow
<1>3. \A t \in Txs : ~Ended(t) => tx[t] \in {"idle", "open", "aborted"}
  BY <1>1 DEF Ended
<1> QED BY Zenon, <1>1, <1>2, <1>3

(* A call that is refused, or whose BEGIN fails, is an empty transaction.  *)
LEMMA EmptyEnd ==
  ASSUME EnqInv, EnqInv', NEW c \in Calls, NEW r, Returns(c, r, NoTask), ~Ended(TxOf[c]), UNCHANGED row,
         tx' = [tx EXCEPT ![TxOf[c]] = "rolledback"], answer' = [answer EXCEPT ![TxOf[c]] = "error"]
  PROVE Table!TableNext
<1>1. TxOf[c] \in Txs /\ answer[TxOf[c]] = "none"
  BY Zenon, EnqueueAssumption, EnqTypes
<1>2. \A d \in Calls : d # c => result'[d] = result[d] /\ task'[d] = task[d]
  BY Zenon, EnqTypes DEF Returns
<1>3. answer'[TxOf[c]] = "error" /\ \A t \in Txs : t # TxOf[c] => answer'[t] = answer[t] /\ tx'[t] = tx[t]
  BY Zenon, <1>1, EnqTypes
<1>4. \A d \in Calls : Told(d)' = Told(d)
  <2>1. answer'[TxOf[c]] # "ok" /\ answer[TxOf[c]] # "ok"
    BY Zenon, <1>1, <1>3
  <2> QED BY Zenon, <1>2, <1>3, <2>1, ToldKept
<1>5. Ended(TxOf[c])'
  BY Zenon, <1>1, EnqTypes DEF Ended
<1>6. /\ \A d \in Calls : row'[d] = "stored" <=> row[d] = "stored" \/ d \in {}
      /\ \A d \in Calls : row'[d] = "deleted" <=> row[d] = "deleted"
  BY Zenon
<1>7. {} \in SUBSET Calls /\ \A d \in {} : TxOf[d] = TxOf[c]
  BY Zenon
<1>8. OnlyEnds(TxOf[c], {})
  BY Zenon, <1>3, <1>4, <1>5, <1>6, <1>7 DEF OnlyEnds
<1>9. Table!EndTx(TxOf[c], {}) /\ {} \in SUBSET {d \in Calls : TxOf[d] = TxOf[c]}
  BY Zenon, <1>1, <1>7, <1>8, EndsAtOnce
<1> QED BY Zenon, <1>1, <1>7, <1>9 DEF Table!TableNext

(* COMMIT or ROLLBACK: the tasks of the transaction appear, or none does.  *)
LEMMA SettleShows ==
  ASSUME EnqInv, EnqInv', NEW t \in Txs, NEW end, NEW answered, NEW rows,
         tx[t] \in {"open", "aborted"}, Settle(t, end, answered, rows),
         end \in {"committed", "rolledback"}, rows \in {"stored", "undone"}
  PROVE Table!TableNext
<1>0. PICK S \in SUBSET Calls : S = {c \in Calls : TxOf[c] = t /\ row[c] = "written" /\ rows = "stored"}
  BY Zenon
<1>1. tx' = [tx EXCEPT ![t] = end] /\ tx \in [Txs -> {"idle", "open", "aborted", "committed", "rolledback"}]
      /\ answer' = [answer EXCEPT ![t] = answered] /\ answer \in [Txs -> {"none", "ok", "error"}]
      /\ UNCHANGED <<result, task>>
  BY Zenon, EnqTypes DEF Settle
<1>2. ~Ended(t) /\ Ended(t)' /\ \A u \in Txs : u # t => tx'[u] = tx[u] /\ answer'[u] = answer[u]
  BY <1>1 DEF Ended
<1>3. \A c \in Calls : row'[c] = IF TxOf[c] = t /\ row[c] = "written" THEN rows ELSE row[c]
  BY Zenon DEF Settle
<1>4. /\ \A c \in Calls : row'[c] = "stored" <=> row[c] = "stored" \/ c \in S
      /\ \A c \in Calls : row'[c] = "deleted" <=> row[c] = "deleted"
      /\ \A c \in S : TxOf[c] = t
  BY <1>0, <1>3
<1>5. \A c \in Calls : TxOf[c] # t => Told(c)' = Told(c)
  BY Zenon, <1>1, <1>2, EnqueueAssumption DEF Told, Acknowledged
<1>6. OnlyEnds(t, S)
  BY Zenon, <1>2, <1>4, <1>5 DEF OnlyEnds
<1>7. Table!EndTx(t, S) /\ S \in SUBSET {c \in Calls : TxOf[c] = t}
  BY Zenon, <1>6, EndsAtOnce
<1> QED BY Zenon, <1>7 DEF Table!TableNext

(* Every step ends a transaction, deletes a task, or shows nothing.        *)
LEMMA TableStep ==
  ASSUME EnqInv, EnqInv', EnqNext
  PROVE Table!TableNext \/ UNCHANGED Table!tableVars
<1> DEFINE Goal == Table!TableNext \/ UNCHANGED Table!tableVars
<1>0. \A c \in Calls : TxOf[c] \in Txs
  BY Zenon, EnqueueAssumption
<1>1. ASSUME NEW c \in Calls, Reject(c) PROVE Goal
  <2>1. CASE TxOf[c] \in Own
    BY Zenon, <1>1, <2>1, EmptyEnd DEF Reject
  <2>2. CASE TxOf[c] \notin Own
    <3>1. UNCHANGED <<tx, answer, row>> /\ ~Ended(TxOf[c]) /\ Returns(c, "invalid", NoTask)
      BY Zenon, <1>1, <2>2 DEF Reject
    <3>2. \A d \in Calls : d # c => result'[d] = result[d] /\ task'[d] = task[d]
      BY Zenon, <3>1, EnqTypes DEF Returns
    <3>3. answer[TxOf[c]] # "ok" /\ answer'[TxOf[c]] # "ok"
      BY Zenon, <1>0, <3>1, EnqTypes
    <3>4. \A d \in Calls : Told(d)' = Told(d)
      BY Zenon, <3>1, <3>2, <3>3, ToldKept
    <3> QED BY Zenon, <3>1, <3>4, NothingShows DEF Ended
  <2> QED BY Zenon, <2>1, <2>2
<1>2. ASSUME NEW c \in Calls, Send(c) PROVE Goal
  <2>1. UNCHANGED <<row, result, task, answer>> /\ tx' = [tx EXCEPT ![TxOf[c]] = IF @ = "idle" THEN "open" ELSE @]
    BY Zenon, <1>2 DEF Send, Enter
  <2>2. \A t \in Txs : Ended(t)' <=> Ended(t)
    BY <1>0, <2>1, EnqTypes DEF Ended
  <2>3. \A d \in Calls : Told(d)' = Told(d)
    BY Zenon, <2>1 DEF Told, Acknowledged
  <2> QED BY Zenon, <2>1, <2>2, <2>3, NothingShows
<1>8. ASSUME NEW c \in Calls, HashFails(c) PROVE Goal
  <2>1. /\ UNCHANGED <<row, answer>> /\ tx' = [tx EXCEPT ![TxOf[c]] = IF @ = "idle" THEN "open" ELSE @]
        /\ Returns(c, "error", NoTask) /\ ~Ended(TxOf[c])
    BY Zenon, <1>8 DEF HashFails, Enter
  <2>2. \A t \in Txs : Ended(t)' <=> Ended(t)
    BY <1>0, <2>1, EnqTypes DEF Ended
  <2>3. \A d \in Calls : d # c => result'[d] = result[d] /\ task'[d] = task[d]
    BY Zenon, <2>1, EnqTypes DEF Returns
  <2>4. answer[TxOf[c]] # "ok" /\ answer'[TxOf[c]] # "ok"
    BY Zenon, <1>0, <2>1, EnqTypes
  <2>5. \A d \in Calls : Told(d)' = Told(d)
    BY Zenon, <2>1, <2>3, <2>4, ToldKept
  <2> QED BY Zenon, <2>1, <2>2, <2>5, NothingShows
<1>3. ASSUME NEW c \in Calls, BeginFails(c) PROVE Goal
  <2>1. /\ step[c] = "unsent" /\ TxOf[c] \in Own /\ Returns(c, "error", NoTask) /\ UNCHANGED row
        /\ tx' = [tx EXCEPT ![TxOf[c]] = "rolledback"] /\ answer' = [answer EXCEPT ![TxOf[c]] = "error"]
    BY Zenon, <1>3 DEF BeginFails
  <2>2. ~Ended(TxOf[c])
    BY ZenonT(30), <1>0, <2>1 DEF EnqInv, Progress, ErrorsFollow, AnswersFollow, Ended
  <2> QED BY Zenon, <2>1, <2>2, EmptyEnd
<1>4. ASSUME NEW c \in Calls, InsertRow(c) \/ InsertFails(c) \/ Lookup(c) \/ LookupFails(c) PROVE Goal
  <2>1. step[c] \in {"insert", "lookup"} /\ UNCHANGED answer
        /\ (tx' = tx \/ tx' = [tx EXCEPT ![TxOf[c]] = "aborted"])
        /\ (row' = row \/ row' = [row EXCEPT ![c] = "written"])
    BY Zenon, <1>4 DEF InsertRow, InsertFails, Lookup, LookupFails, Abort, GiveUp
  <2>4. PICK r, id : Returns(c, r, id)
    BY Zenon, <1>4 DEF InsertRow, InsertFails, Lookup, LookupFails
  <2>2. row[c] = "none"
    BY Zenon, <2>1 DEF EnqInv, Progress, RowsFollow
  <2>3. row' = row \/ (row[c] = "none" /\ row' = [row EXCEPT ![c] = "written"])
    BY Zenon, <2>1, <2>2
  <2> QED BY SMT, <2>1, <2>3, <2>4, ReturnUnseen
<1>5. ASSUME NEW c \in Calls, InsertConflicts(c) PROVE Goal
  <2>1. UNCHANGED <<tx, row, result, task, answer>>
    BY Zenon, <1>5 DEF InsertConflicts
  <2> QED BY Zenon, <2>1, NothingShows DEF Ended, Told, Acknowledged
<1>6. ASSUME NEW c \in Calls, Delete(c) PROVE Goal
  <2>1. /\ row[c] = "stored" /\ row' = [row EXCEPT ![c] = "deleted"] /\ DOMAIN row = Calls
        /\ UNCHANGED <<tx, result, task, answer>>
    BY Zenon, <1>6 DEF Delete, EnqInv, EnqTypeOK
  <2>2. {d \in Calls : row[d] = "stored"}' = {d \in Calls : row[d] = "stored"} \ {c}
        /\ {d \in Calls : row[d] = "deleted"}' = {d \in Calls : row[d] = "deleted"} \cup {c}
    BY <2>1
  <2>3. {t \in Txs : Ended(t)}' = {t \in Txs : Ended(t)}
    BY Zenon, <2>1 DEF Ended
  <2>4. [d \in Calls |-> IF Acknowledged(d) THEN task[d] ELSE NoTask]'
        = [d \in Calls |-> IF Acknowledged(d) THEN task[d] ELSE NoTask]
    BY Zenon, <2>1 DEF Acknowledged
  <2>5. Table!DeleteTask(c)
    BY Zenon, <2>1, <2>2, <2>3, <2>4 DEF Table!DeleteTask
  <2> QED BY Zenon, <2>5 DEF Table!TableNext
<1>7. ASSUME NEW t \in Txs, Commit(t) \/ CommitFails(t) \/ Rollback(t) PROVE Goal
  <2>1. tx[t] \in {"open", "aborted"}
    BY Zenon, <1>7 DEF Commit, CommitFails, Rollback, MayCommit
  <2>2. PICK end \in {"committed", "rolledback"}, answered \in {"ok", "error"}, rows \in {"stored", "undone"} :
          Settle(t, end, answered, rows)
    BY Zenon, <1>7 DEF Commit, CommitFails, Rollback
  <2> QED BY SMT, <2>1, <2>2, SettleShows
<1> QED BY Zenon, <1>1, <1>2, <1>3, <1>4, <1>5, <1>6, <1>7, <1>8 DEF EnqNext, Execute

(* Enqueue implements TaskTable: submissions take effect one transaction   *)
(* at a time, as if no two of them overlapped.                             *)
THEOREM SubmissionsImplementTable == EnqSpec => SubmitsAtOnce
<1>1. EnqInit => Table!TableInit
  <2> SUFFICES ASSUME EnqInit PROVE Table!TableInit
    BY Zenon
  <2>1. /\ \A t \in Txs : ~Ended(t)
        /\ \A c \in Calls : row[c] # "stored" /\ row[c] # "deleted" /\ ~Acknowledged(c)
    BY Zenon, EnqueueAssumption DEF EnqInit, Ended, Acknowledged
  <2> QED BY Zenon, <2>1 DEF Table!TableInit
<1>2. EnqInv /\ EnqInv' /\ [EnqNext]_enqVars => [Table!TableNext]_(Table!tableVars)
  <2>1. CASE UNCHANGED enqVars
    BY Zenon, <2>1, NothingShows DEF enqVars, Ended, Told, Acknowledged
  <2> QED BY Zenon, <2>1, TableStep
<1> QED BY <1>1, <1>2, EnqInvariant, PTL DEF EnqSpec, SubmitsAtOnce, Table!TableSpec
=============================================================================
