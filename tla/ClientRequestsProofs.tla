------------------------- MODULE ClientRequestsProofs -------------------------
(***************************************************************************)
(* Theorems about cancel and retry requests for any number of requests,    *)
(* connections, tasks, workers and processes.                              *)
(***************************************************************************)
EXTENDS ClientRequests, WorkerPoolProofs, FiniteSetTheorems

(* Everything but the requests is what the worker pool does.               *)
LEMMA RequestStepIsPoolStep ==
  ASSUME [ReqNext]_allVars
  PROVE  [Next]_vars
<1>1. ASSUME NEW r \in Requests, Effect(r)
      PROVE  Next
  BY Zenon, <1>1 DEF Effect, Next
<1>2. QED
  BY Zenon, <1>1 DEF ReqNext, Background, Send, Serve, Begin, UpdateMatches, UpdateMisses, Acquire, Lookup,
              Fails, Return, Next, allVars

(* Requests in several steps do to workers and tables what the pool's      *)
(* atomic CancelTask and RetryTask do: what is proved of the pool holds    *)
(* under them.                                                             *)
THEOREM RequestsImplementPool == ReqSpec => Spec
<1>1. ReqInit => Init
  BY Zenon DEF ReqInit
<1>2. [ReqNext]_allVars => [Next]_vars
  BY Zenon, RequestStepIsPoolStep
<1>3. QED
  BY <1>1, <1>2, PTL DEF ReqSpec, Spec

(* Where the connections of the pool are.                                  *)
ConnInv ==
  /\ rpc \in [Requests -> RPCs]
  /\ free \in Nat
  /\ ConnectionsBalance

(* A set whose members are the same but for r.                             *)
LEMMA OneMemberMoves ==
  ASSUME NEW S, NEW T, NEW r, IsFiniteSet(S), \A q : q # r => (q \in S <=> q \in T)
  PROVE  /\ Cardinality(S) \in Nat /\ Cardinality(T) \in Nat
         /\ Cardinality(T) + (IF r \in S THEN 1 ELSE 0) = Cardinality(S) + (IF r \in T THEN 1 ELSE 0)
<1>1. Cardinality(S) \in Nat
  BY Zenon, FS_CardinalityType
<1>2. CASE r \in S <=> r \in T
  <2>0. \A q : q \in S <=> q \in T
    BY Zenon, <1>2
  <2>1. S = T
    BY <2>0
  <2> QED BY <1>1, <2>1
<1>3. CASE r \in S /\ r \notin T
  <2>1. T = S \ {r}
    BY Zenon, <1>3
  <2>2. Cardinality(T) = Cardinality(S) - 1 /\ IsFiniteSet(T)
    BY Zenon, <1>3, <2>1, FS_RemoveElement
  <2>3. Cardinality(T) \in Nat
    BY Zenon, <2>2, FS_CardinalityType
  <2> QED BY <1>1, <1>3, <2>2, <2>3
<1>4. CASE r \notin S /\ r \in T
  <2>1. T = S \cup {r}
    BY Zenon, <1>4
  <2>2. Cardinality(T) = Cardinality(S) + 1
    BY Zenon, <1>4, <2>1, FS_AddElement
  <2> QED BY <1>1, <1>4, <2>2
<1> QED BY Zenon, <1>2, <1>3, <1>4

(* r and the pool exchange connections, none appears or disappears.        *)
Exchanged(r) == free' + Held(r)' = free + Held(r)

(* A request that moves takes or returns what it holds more or less.       *)
LEMMA OneRequestMoves ==
  ASSUME ConnInv, NEW r \in Requests, NEW s \in RPCs,
         rpc' = [rpc EXCEPT ![r] = s],
         free' \in Nat, Exchanged(r)
  PROVE  ConnInv'
<1>1. IsFiniteSet(Holding) /\ IsFiniteSet(Reading)
  BY Zenon, RequestAssumption, FS_Subset DEF Holding, Reading
<1>2. rpc' \in [Requests -> RPCs]
  BY Zenon DEF ConnInv
<1>3. \A q : q # r => (q \in Holding <=> q \in Holding') /\ (q \in Reading <=> q \in Reading')
  BY Zenon DEF ConnInv, Holding, Reading
<1> DEFINE h0 == IF r \in Holding THEN 1 ELSE 0
           h1 == IF r \in Holding' THEN 1 ELSE 0
           d0 == IF r \in Reading THEN 1 ELSE 0
           d1 == IF r \in Reading' THEN 1 ELSE 0
<1>4. /\ Cardinality(Holding) \in Nat /\ Cardinality(Holding') \in Nat
      /\ Cardinality(Holding') + h0 = Cardinality(Holding) + h1
  BY Zenon, <1>1, <1>3, OneMemberMoves
<1>5. /\ Cardinality(Reading) \in Nat /\ Cardinality(Reading') \in Nat
      /\ Cardinality(Reading') + d0 = Cardinality(Reading) + d1
  BY Zenon, <1>1, <1>3, OneMemberMoves
<1>6. free' + (h1 + d1) = free + (h0 + d0)
  BY Zenon DEF Held, Exchanged
<1>7. h0 \in Nat /\ h1 \in Nat /\ d0 \in Nat /\ d1 \in Nat
  OBVIOUS
<1>8. free \in Nat
  BY Zenon DEF ConnInv
<1> DEFINE H0 == Cardinality(Holding)
           H1 == Cardinality(Holding')
           R0 == Cardinality(Reading)
           R1 == Cardinality(Reading')
<1> HIDE DEF h0, h1, d0, d1
<1>9. free' + H1 + R1 = free + H0 + R0
  <2>1. H0 \in Nat /\ H1 \in Nat /\ H1 + h0 = H0 + h1
    BY Zenon, <1>4
  <2>2. R0 \in Nat /\ R1 \in Nat /\ R1 + d0 = R0 + d1
    BY Zenon, <1>5
  <2> HIDE DEF H0, H1, R0, R1
  <2>3. H1 = H0 + h1 - h0
    BY <1>7, <2>1
  <2>4. R1 = R0 + d1 - d0
    BY <1>7, <2>2
  <2>5. free' = free + h0 + d0 - h1 - d1
    <3>1. free' \in Nat
      OBVIOUS
    <3> DEFINE f1 == free'
               e0 == h0 + d0
               e1 == h1 + d1
    <3>2. f1 \in Nat /\ e0 \in Nat /\ e1 \in Nat /\ f1 + e1 = free + e0
      BY <1>6, <1>7, <3>1
    <3> HIDE DEF f1, e0, e1
    <3>3. f1 = free + e0 - e1
      BY <1>8, <3>2
    <3> QED BY <1>7, <1>8, <3>3 DEF f1, e0, e1
  <2> QED BY <1>7, <1>8, <2>1, <2>2, <2>3, <2>4, <2>5
<1> QED BY Zenon, <1>2, <1>9 DEF ConnInv, ConnectionsBalance

(* Every step of a request takes or returns the connections it should.     *)
LEMMA ConnStep ==
  ASSUME ConnInv, [ReqNext]_allVars
  PROVE  ConnInv'
<1>0. /\ free \in Nat /\ rpc \in [Requests -> RPCs]
      /\ {"arriving", "begun", "lookup", "reading", "answered"} \subseteq RPCs
  BY Zenon DEF ConnInv, RPCs
<1>1. ASSUME NEW r \in Requests
      PROVE  /\ rpc[r] \in {"unsent", "arriving", "answered"} => Held(r) = 0
             /\ rpc[r] \in {"begun", "lookup"} => Held(r) = 1
             /\ rpc[r] = "reading" => Held(r) = 2
             /\ rpc'[r] \in {"unsent", "arriving", "answered"} => Held(r)' = 0
             /\ rpc'[r] \in {"begun", "lookup"} => Held(r)' = 1
             /\ rpc'[r] = "reading" => Held(r)' = 2
  BY DEF Held, Holding, Reading
<1>2. ASSUME NEW r \in Requests, NEW s \in RPCs, rpc' = [rpc EXCEPT ![r] = s] PROVE rpc'[r] = s
  BY Zenon, <1>0, <1>2
<1>3. ASSUME NEW r \in Requests, Send(r) PROVE ConnInv'
  <2>1. rpc[r] = "unsent" /\ rpc' = [rpc EXCEPT ![r] = "arriving"] /\ rpc'[r] = "arriving" /\ free' = free
    BY Zenon, <1>0, <1>2, <1>3 DEF Send
  <2>2. free' \in Nat /\ Exchanged(r)
    BY <1>0, <1>1, <2>1 DEF Exchanged
  <2> QED BY Zenon, <1>0, <2>1, <2>2, OneRequestMoves
<1>4. ASSUME NEW r \in Requests, Begin(r) \/ Acquire(r) PROVE ConnInv'
  <2>1. PICK s \in {"begun", "reading"} :
          rpc[r] = (IF s = "begun" THEN "arriving" ELSE "lookup") /\ rpc' = [rpc EXCEPT ![r] = s]
    BY Zenon, <1>4 DEF Begin, Acquire
  <2>2. s \in RPCs /\ rpc'[r] = s
    BY Zenon, <1>0, <1>2, <2>1
  <2>3. free' = free - 1 /\ free > 0
    BY Zenon, <1>4 DEF Begin, Acquire
  <2>4. free' \in Nat /\ Exchanged(r)
    BY <1>0, <1>1, <2>1, <2>2, <2>3 DEF Exchanged
  <2> QED BY Zenon, <2>1, <2>2, <2>4, OneRequestMoves
<1>5. ASSUME NEW r \in Requests, UpdateMatches(r) \/ Lookup(r) \/ Fails(r) PROVE ConnInv'
  <2>1. rpc' = [rpc EXCEPT ![r] = "answered"] /\ free' = free + Held(r)
    BY Zenon, <1>5 DEF UpdateMatches, Lookup, Return, Fails
  <2>2. rpc'[r] = "answered"
    BY Zenon, <1>0, <1>2, <2>1
  <2>3. Held(r) \in Nat
    BY DEF Held
  <2>4. free' \in Nat /\ Exchanged(r)
    BY <1>0, <1>1, <2>1, <2>2, <2>3 DEF Exchanged
  <2> QED BY Zenon, <1>0, <2>1, <2>4, OneRequestMoves
<1>6. ASSUME NEW r \in Requests, UpdateMisses(r) PROVE ConnInv'
  <2>1. rpc[r] = "begun" /\ rpc' = [rpc EXCEPT ![r] = "lookup"] /\ rpc'[r] = "lookup" /\ free' = free
    BY Zenon, <1>0, <1>2, <1>6 DEF UpdateMisses
  <2>2. free' \in Nat /\ Exchanged(r)
    BY <1>0, <1>1, <2>1 DEF Exchanged
  <2> QED BY Zenon, <1>0, <2>1, <2>2, OneRequestMoves
<1>7. CASE UNCHANGED reqVars
  BY Zenon, <1>7 DEF reqVars, ConnInv, ConnectionsBalance, Holding, Reading
<1> QED BY Zenon, <1>3, <1>4, <1>5, <1>6, <1>7 DEF ReqNext, Background, Serve, allVars

(* No path through Cancel or RetryDead, failures included, leaks a         *)
(* connection or returns one it does not have.                             *)
THEOREM ConnInvariant == ReqSpec => []ConnInv
<1>1. ReqInit => ConnInv
  <2> SUFFICES ASSUME ReqInit
               PROVE  ConnInv
    BY Zenon
  <2>1. Holding = {} /\ Reading = {} /\ free = MaxConns
    BY Zenon DEF ReqInit, Holding, Reading
  <2>2. QED
    BY <2>1, FS_EmptySet, RequestAssumption DEF ReqInit, ConnInv, ConnectionsBalance, RPCs
<1>2. QED
  BY <1>1, ConnStep, PTL DEF ReqSpec

(* Idle connections, open transactions and running lookups always make up  *)
(* the whole pool.                                                         *)
THEOREM ConnectionsAlwaysBalance == ReqSpec => []ConnectionsBalance
<1>1. ConnInv => ConnectionsBalance
  BY Zenon DEF ConnInv
<1>2. QED
  BY <1>1, ConnInvariant, PTL

-----------------------------------------------------------------------------
(* What a client is told.                                                  *)

(* No operation of the store brings a CANCELED row back or removes a row.  *)
LEMMA CanceledIsFinal ==
  ASSUME StoreTypeOK, [StoreNext]_storeVars, NEW t \in Tasks
  PROVE  /\ status[t] = "CANCELED" => status'[t] = "CANCELED"
         /\ status[t] # "ABSENT" => status'[t] # "ABSENT"
<1> DEFINE Kept == /\ status[t] = "CANCELED" => status'[t] = "CANCELED"
                   /\ status[t] # "ABSENT" => status'[t] # "ABSENT"
<1>1. ASSUME NEW S \in SUBSET Tasks, RequeueStaleRunning(S)
      PROVE  Kept
  BY Zenon, <1>1 DEF RequeueStaleRunning, Stale, Reaped
<1>2. ASSUME NEW u \in Tasks, Cancel(u) \/ RetryDead(u) \/ \E d \in 0..MaxDelay : Create(u, d)
      PROVE  Kept
  BY Zenon, <1>2 DEF Cancel, RetryDead, Create, SetStatus, StoreTypeOK
<1>3. ASSUME NEW u \in Tasks, NEW id \in WorkerIDs,
             \/ Claim(u, id) \/ Heartbeat(u, id) \/ MarkCompleted(u, id) \/ MarkDead(u, id)
             \/ \E d \in Nat : MarkPending(u, id, d)
      PROVE  Kept
  BY Zenon, <1>3 DEF Claim, Claimable, Heartbeat, Owns, MarkCompleted, MarkDead, MarkPending, SetStatus,
              StoreTypeOK
<1>4. CASE Tick \/ UNCHANGED storeVars
  BY Zenon, <1>4 DEF Tick, storeVars
<1>5. QED
  BY Zenon, <1>1, <1>2, <1>3, <1>4 DEF StoreNext

(* Answers are typed, a sent request is about a row that exists or never   *)
(* will, and CANCELED stays true.                                          *)
AnswerInv ==
  /\ rpc \in [Requests -> RPCs]
  /\ result \in [Requests -> Results]
  /\ \A r \in Requests : rpc[r] # "unsent" /\ Target[r] \in Tasks => status[Target[r]] # "ABSENT"
  /\ CanceledForGood

(* An answer res to r that is true of the row keeps the invariant.         *)
LEMMA AnswerGiven ==
  ASSUME AnswerInv, NEW r \in Requests, NEW res \in Results,
         \A t \in Tasks : /\ status[t] = "CANCELED" => status'[t] = "CANCELED"
                          /\ status[t] # "ABSENT" => status'[t] # "ABSENT",
         rpc[r] # "unsent",
         rpc' = [rpc EXCEPT ![r] = "answered"], result' = [result EXCEPT ![r] = res],
         Kind[r] = "cancel" /\ res = "CANCELED"
           => Target[r] \in Tasks /\ status'[Target[r]] = "CANCELED"
  PROVE  AnswerInv'
<1>1. rpc' \in [Requests -> RPCs] /\ result' \in [Requests -> Results]
  BY Zenon DEF AnswerInv, RPCs
<1>2. ASSUME NEW q \in Requests, rpc'[q] # "unsent", Target[q] \in Tasks
      PROVE  status'[Target[q]] # "ABSENT"
  BY Zenon, <1>2 DEF AnswerInv
<1>3. ASSUME NEW q \in Requests, Kind[q] = "cancel", result'[q] = "CANCELED"
      PROVE  Target[q] \in Tasks /\ status'[Target[q]] = "CANCELED"
  BY Zenon, <1>3 DEF AnswerInv, CanceledForGood
<1>4. QED
  BY Zenon, <1>1, <1>2, <1>3 DEF AnswerInv, CanceledForGood

(* Every step keeps what clients were told true.                           *)
LEMMA AnswerStep ==
  ASSUME TypeOK, AnswerInv, [ReqNext]_allVars
  PROVE  AnswerInv'
<1>1. \A t \in Tasks : /\ status[t] = "CANCELED" => status'[t] = "CANCELED"
                       /\ status[t] # "ABSENT" => status'[t] # "ABSENT"
  BY Zenon, RequestStepIsPoolStep, PoolStepIsStoreStep, CanceledIsFinal DEF TypeOK
<1>2. ASSUME NEW r \in Requests, UpdateMatches(r)
      PROVE  AnswerInv'
  <2>1. Target[r] \in Tasks /\ (Kind[r] = "cancel" => status'[Target[r]] = "CANCELED")
    BY Zenon, <1>2 DEF UpdateMatches, Effect, CancelTask, Cancel, SetStatus, TypeOK, StoreTypeOK
  <2>2. QED
    BY Zenon, <1>1, <1>2, <2>1, AnswerGiven DEF UpdateMatches, Return, Results, TaskStatus
<1>3. ASSUME NEW r \in Requests, Lookup(r)
      PROVE  AnswerInv'
  <2>1. Found(r) \in Results
    BY Zenon, <1>3, RequestAssumption
    DEF Lookup, Found, AnswerInv, Results, TypeOK, StoreTypeOK
  <2>2. Kind[r] = "cancel" /\ Found(r) = "CANCELED"
          => Target[r] \in Tasks /\ status'[Target[r]] = "CANCELED"
    BY Zenon, <1>1 DEF Found
  <2>3. QED
    BY Zenon, <1>1, <1>3, <2>1, <2>2, AnswerGiven DEF Lookup, Return
<1>4. ASSUME NEW r \in Requests, Fails(r)
      PROVE  AnswerInv'
  BY Zenon, <1>1, <1>4, AnswerGiven DEF Fails, Return, Results
<1>5. ASSUME NEW r \in Requests, Send(r)
      PROVE  AnswerInv'
  BY Zenon, <1>1, <1>5, RequestAssumption DEF Send, AnswerInv, CanceledForGood, RPCs
<1>6. ASSUME NEW r \in Requests, Begin(r) \/ UpdateMisses(r) \/ Acquire(r)
      PROVE  AnswerInv'
  BY <1>1, <1>6, RequestAssumption DEF Begin, UpdateMisses, Acquire, AnswerInv, CanceledForGood, RPCs
<1>7. CASE UNCHANGED reqVars
  BY Zenon, <1>1, <1>7, RequestAssumption DEF AnswerInv, CanceledForGood, reqVars
<1>8. QED
  BY Zenon, <1>2, <1>3, <1>4, <1>5, <1>6, <1>7 DEF ReqNext, Background, Serve, allVars

(* What clients are told stays true.                                       *)
THEOREM AnswerInvariant == ReqSpec => []AnswerInv
<1>1. ReqInit => AnswerInv
  BY Zenon DEF ReqInit, AnswerInv, RPCs, Results, CanceledForGood
<1>2. QED
  BY <1>1, AnswerStep, RequestsImplementPool, TypeCorrect, PTL DEF ReqSpec

(* A task reported CANCELED is never brought back by a worker, a reaper or *)
(* a retry that runs at the same time.                                     *)
THEOREM CancelIsForGood == ReqSpec => []CanceledForGood
<1>1. AnswerInv => CanceledForGood
  BY Zenon DEF AnswerInv
<1>2. QED
  BY <1>1, AnswerInvariant, PTL

(* Requests keep their types.                                              *)
THEOREM RequestTypesCorrect == ReqSpec => []ReqTypeOK
<1>1. TypeOK /\ ConnInv /\ AnswerInv => ReqTypeOK
  <2> SUFFICES ASSUME TypeOK, ConnInv, AnswerInv
               PROVE  ReqTypeOK
    BY Zenon
  <2>1. IsFiniteSet(Holding) /\ IsFiniteSet(Reading)
    BY Zenon, RequestAssumption, FS_Subset DEF Holding, Reading
  <2>2. Cardinality(Holding) \in Nat /\ Cardinality(Reading) \in Nat
    BY Zenon, <2>1, FS_CardinalityType
  <2>3. free \in 0..MaxConns
    BY <2>2, RequestAssumption DEF ConnInv, ConnectionsBalance
  <2>4. QED
    BY Zenon, <2>3 DEF ReqTypeOK, AnswerInv
<1>2. QED
  BY <1>1, RequestsImplementPool, TypeCorrect, ConnInvariant, AnswerInvariant, PTL

-----------------------------------------------------------------------------
(* Retries and the deaths they undo.                                       *)

(* The requests that were told that their retry of t succeeded.            *)
Confirmed(t) == {r \in Requests : Kind[r] = "retry" /\ Target[r] = t /\ result[r] = "PENDING"}

(* A result is there only with the answer.                                 *)
RetryInv ==
  /\ result \in [Requests -> Results]
  /\ \A r \in Requests : rpc[r] # "answered" => result[r] = "none"
  /\ OneRetryPerDeath

(* The confirmed retries are finitely many.                                *)
LEMMA ConfirmedFinite ==
  ASSUME NEW t \in Tasks
  PROVE  IsFiniteSet(Confirmed(t)) /\ Cardinality(Confirmed(t)) \in Nat
<1>1. IsFiniteSet(Confirmed(t))
  BY Zenon, RequestAssumption, FS_Subset DEF Confirmed
<1>2. QED
  BY Zenon, <1>1, FS_CardinalityType

(* An entry of the log never hides a revival, and a retry adds one.        *)
LEMMA RevivalsGrow ==
  ASSUME NEW log \in Seq(TaskStatus), NEW s \in TaskStatus
  PROVE  /\ Cardinality(Revived(log)) \in Nat
         /\ Cardinality(Revived(log)) <= Cardinality(Revived(Append(log, s)))
         /\ Revives(log, s) => Cardinality(Revived(Append(log, s))) = Cardinality(Revived(log)) + 1
         /\ Cardinality(Revived(Append(log, s))) \in Nat
<1>1. CASE Revives(log, s)
  <2>1. Revived(Append(log, s)) = Revived(log) \cup {Len(log) + 1}
    BY Zenon, <1>1, AppendedLog
  <2>2. Cardinality(Revived(Append(log, s))) = Cardinality(Revived(log)) + 1
    BY Zenon, <2>1, LogCountsFinite, FS_AddElement
  <2>3. QED
    BY <2>2, LogCountsFinite
<1>2. CASE ~Revives(log, s)
  BY <1>2, AppendedLog, LogCountsFinite
<1>3. QED
  BY Zenon, <1>1, <1>2

(* Every operation of the store leaves a log alone or appends to it.       *)
LEMMA LogsGrow ==
  ASSUME StoreTypeOK, [StoreNext]_storeVars, NEW t \in Tasks
  PROVE  logs'[t] = logs[t] \/ \E s \in TaskStatus : logs'[t] = Append(logs[t], s)
<1> DEFINE Grown == logs'[t] = logs[t] \/ \E s \in TaskStatus : logs'[t] = Append(logs[t], s)
<1>1. ASSUME NEW S \in SUBSET Tasks, RequeueStaleRunning(S)
      PROVE  Grown
  BY Zenon, <1>1 DEF RequeueStaleRunning, Reaped, TaskStatus
<1>2. ASSUME NEW u \in Tasks, NEW s \in TaskStatus, SetStatus(u, s)
      PROVE  Grown
  BY Zenon, <1>2 DEF SetStatus, StoreTypeOK
<1>3. ASSUME NEW u \in Tasks, Cancel(u) \/ RetryDead(u) \/ \E d \in 0..MaxDelay : Create(u, d)
      PROVE  Grown
  BY Zenon, <1>2, <1>3 DEF Cancel, RetryDead, Create, TaskStatus
<1>4. ASSUME NEW u \in Tasks, NEW id \in WorkerIDs,
             \/ Claim(u, id) \/ Heartbeat(u, id) \/ MarkCompleted(u, id) \/ MarkDead(u, id)
             \/ \E d \in Nat : MarkPending(u, id, d)
      PROVE  Grown
  BY Zenon, <1>2, <1>4 DEF Claim, Heartbeat, MarkCompleted, MarkDead, MarkPending, TaskStatus
<1>5. CASE Tick \/ UNCHANGED storeVars
  BY Zenon, <1>5 DEF Tick, storeVars
<1>6. QED
  BY Zenon, <1>1, <1>3, <1>4, <1>5 DEF StoreNext

(* Every step keeps the confirmed retries within the revivals.             *)
LEMMA RetryStep ==
  ASSUME TypeOK, LogInv, rpc \in [Requests -> RPCs], RetryInv, [ReqNext]_allVars,
         result' \in [Requests -> Results]
  PROVE  RetryInv'
<1> USE DEF RetryInv
<1>1. ASSUME NEW t \in Tasks
      PROVE  /\ logs[t] \in Seq(TaskStatus)
             /\ Cardinality(Revived(logs[t])) \in Nat /\ Cardinality(Revived(logs'[t])) \in Nat
             /\ Cardinality(Revived(logs[t])) <= Cardinality(Revived(logs'[t]))
  <2>1. logs[t] \in Seq(TaskStatus)
    BY Zenon DEF TypeOK, StoreTypeOK
  <2>2. logs'[t] = logs[t] \/ \E s \in TaskStatus : logs'[t] = Append(logs[t], s)
    BY Zenon, RequestStepIsPoolStep, PoolStepIsStoreStep, LogsGrow DEF TypeOK
  <2>3. CASE logs'[t] = logs[t]
    BY <2>1, <2>3, LogCountsFinite
  <2>4. ASSUME NEW s \in TaskStatus, logs'[t] = Append(logs[t], s)
        PROVE  /\ Cardinality(Revived(logs[t])) \in Nat /\ Cardinality(Revived(logs'[t])) \in Nat
               /\ Cardinality(Revived(logs[t])) <= Cardinality(Revived(logs'[t]))
    BY Zenon, <2>1, <2>4, RevivalsGrow
  <2>5. QED
    BY Zenon, <2>1, <2>2, <2>3, <2>4
<1>2. ASSUME NEW t \in Tasks, Confirmed(t)' = Confirmed(t)
      PROVE  Cardinality(Confirmed(t)') <= Cardinality(Revived(logs'[t]))
  <2>1. Cardinality(Confirmed(t)) <= Cardinality(Revived(logs[t]))
    BY Zenon DEF OneRetryPerDeath, Confirmed
  <2>2. QED
    BY <1>1, <1>2, <2>1, ConfirmedFinite
<1>3. ASSUME NEW r \in Requests, NEW res, result' = [result EXCEPT ![r] = res],
             rpc[r] # "answered", ~(Kind[r] = "retry" /\ res = "PENDING"), NEW t \in Tasks
      PROVE  Confirmed(t)' = Confirmed(t)
  BY Zenon, <1>3 DEF Confirmed
<1>4. ASSUME \A t \in Tasks : Cardinality(Confirmed(t)') <= Cardinality(Revived(logs'[t]))
      PROVE  OneRetryPerDeath'
  BY Zenon, <1>4 DEF OneRetryPerDeath, Confirmed
<1>5. ASSUME NEW r \in Requests, UpdateMatches(r)
      PROVE  RetryInv'
  <2>1. /\ rpc[r] = "begun" /\ rpc' = [rpc EXCEPT ![r] = "answered"]
        /\ result' = [result EXCEPT ![r] = IF Kind[r] = "cancel" THEN "CANCELED" ELSE "PENDING"]
    BY Zenon, <1>5 DEF UpdateMatches, Return
  <2>2. ASSUME NEW t \in Tasks, Kind[r] = "retry", Target[r] = t
        PROVE  Cardinality(Confirmed(t)') <= Cardinality(Revived(logs'[t]))
    <3>1. status[t] = "DEAD" /\ logs'[t] = Append(logs[t], "PENDING")
      BY ZenonT(30), <1>5, <2>2 DEF UpdateMatches, Effect, RetryTask, RetryDead, SetStatus, TypeOK, StoreTypeOK
    <3>2. Revives(logs[t], "PENDING")
      BY Zenon, <3>1 DEF LogInv, Explained, Replay, Revives
    <3>3. Cardinality(Revived(logs'[t])) = Cardinality(Revived(logs[t])) + 1
      BY Zenon, <1>1, <3>1, <3>2, RevivalsGrow DEF TaskStatus
    <3>4. Confirmed(t)' = Confirmed(t) \cup {r} /\ r \notin Confirmed(t)
      BY Zenon, <2>1, <2>2 DEF Confirmed
    <3>5. Cardinality(Confirmed(t)') = Cardinality(Confirmed(t)) + 1
      BY Zenon, <3>4, ConfirmedFinite, FS_AddElement
    <3>6. Cardinality(Confirmed(t)) <= Cardinality(Revived(logs[t]))
      BY Zenon DEF OneRetryPerDeath, Confirmed
    <3>7. QED
      BY <1>1, <3>3, <3>5, <3>6, ConfirmedFinite
  <2>3. ASSUME NEW t \in Tasks, ~(Kind[r] = "retry" /\ Target[r] = t)
        PROVE  Confirmed(t)' = Confirmed(t)
    BY Zenon, <2>1, <2>3 DEF Confirmed
  <2>4. OneRetryPerDeath'
    BY Zenon, <1>2, <1>4, <2>2, <2>3
  <2>5. QED
    BY Zenon, <2>1, <2>4
<1>6. ASSUME NEW r \in Requests, Lookup(r)
      PROVE  RetryInv'
  <2>1. /\ rpc[r] = "reading" /\ rpc' = [rpc EXCEPT ![r] = "answered"]
        /\ result' = [result EXCEPT ![r] = Found(r)] /\ ~(Kind[r] = "retry" /\ Found(r) = "PENDING")
    BY Zenon, <1>6, RequestAssumption DEF Lookup, Return, Found
  <2>2. OneRetryPerDeath'
    BY Zenon, <1>2, <1>3, <1>4, <2>1
  <2>3. QED
    BY Zenon, <2>1, <2>2
<1>7. ASSUME NEW r \in Requests, Fails(r)
      PROVE  RetryInv'
  <2>1. /\ rpc[r] # "answered" /\ rpc' = [rpc EXCEPT ![r] = "answered"]
        /\ result' = [result EXCEPT ![r] = "error"]
    BY Zenon, <1>7 DEF Fails, Return
  <2>2. OneRetryPerDeath'
    BY Zenon, <1>2, <1>3, <1>4, <2>1
  <2>3. QED
    BY Zenon, <2>1, <2>2
<1>8. ASSUME result' = result, \A r \in Requests : rpc'[r] # "answered" => rpc[r] # "answered"
      PROVE  RetryInv'
  <2>1. \A t \in Tasks : Confirmed(t)' = Confirmed(t)
    BY Zenon, <1>8 DEF Confirmed
  <2>2. OneRetryPerDeath'
    BY Zenon, <1>2, <1>4, <2>1
  <2>3. QED
    BY Zenon, <1>8, <2>2
<1>9. ASSUME NEW r \in Requests, Send(r) \/ Begin(r) \/ UpdateMisses(r) \/ Acquire(r)
      PROVE  RetryInv'
  BY Zenon, <1>8, <1>9 DEF Send, Begin, UpdateMisses, Acquire
<1>10. CASE UNCHANGED reqVars
  BY Zenon, <1>8, <1>10 DEF reqVars
<1>11. QED
  BY Zenon, <1>5, <1>6, <1>7, <1>9, <1>10 DEF ReqNext, Background, Serve, allVars

(* However many clients retry a dead task at once, no more of them are     *)
(* told that they succeeded than the log of the task has revivals.         *)
THEOREM RetriesMatchDeaths == ReqSpec => []OneRetryPerDeath
<1>1. ReqInit => RetryInv
  <2> SUFFICES ASSUME ReqInit
               PROVE  RetryInv
    BY Zenon
  <2>1. ASSUME NEW t \in Tasks
        PROVE  Cardinality(Confirmed(t)) <= Cardinality(Revived(logs[t]))
    <3>1. Confirmed(t) = {} /\ logs[t] = <<>>
      BY Zenon DEF ReqInit, Confirmed, Init, StoreInit
    <3>2. Revived(<<>>) = {}
      BY DEF Revived
    <3>3. QED
      BY <3>1, <3>2, FS_EmptySet
  <2>2. QED
    BY Zenon, <2>1 DEF ReqInit, RetryInv, Results, OneRetryPerDeath, Confirmed
<1>2. TypeOK /\ LogInv /\ AnswerInv /\ AnswerInv' /\ RetryInv /\ [ReqNext]_allVars => RetryInv'
  BY Zenon, RetryStep DEF AnswerInv
<1>3. RetryInv => OneRetryPerDeath
  BY Zenon DEF RetryInv
<1>4. QED
  BY <1>1, <1>2, <1>3, RequestsImplementPool, TypeCorrect, PoolLogInvariant, AnswerInvariant, PTL
  DEF ReqSpec
-----------------------------------------------------------------------------
(* Requests that arrive while the pool works disturb none of its promises. *)
THEOREM RequestsKeepPromises ==
  ASSUME UniqueWorkerIDs
  PROVE  ReqSpec => KeepsLifecycle /\ OnlyOwnerOrReaperEnds /\ [](TablesAgree /\ LogExplainsRow /\ BudgetInv)
BY RequestsImplementPool, PoolImplementsLifecycle, StaleResultsRefused, PoolTablesAgree, PoolLogsExplain,
   BudgetInvariant, PTL

-----------------------------------------------------------------------------
(* What a request may wait for.                                            *)

InFlight(r) == rpc[r] \in {"arriving", "begun", "lookup", "reading"}

(* The guard of the next step of r; a retry is bounded by the model.       *)
CanGo(r) ==
  \/ rpc[r] \in {"arriving", "lookup"} /\ free > 0
  \/ rpc[r] = "begun" /\ (Kind[r] = "retry" /\ Matches(r) => manualRetries < MaxManualRetries)
  \/ rpc[r] = "reading"

LookingUp == {r \in Requests : rpc[r] = "lookup"}

(* Requests get stuck on each other in one way only: all connections of    *)
(* the pool are held by transactions whose UPDATE matched no row and which *)
(* wait for one more connection to look the row up.                        *)
OnlyLookupsBlock ==
  /\ manualRetries < MaxManualRetries
  /\ \E r \in Requests : InFlight(r)
  /\ \A r \in Requests : ~CanGo(r)
  => free = 0 /\ Cardinality(LookingUp) = MaxConns

(* A request whose guard holds has a step that serves it.                  *)
LEMMA CanGoMoves ==
  ASSUME TypeOK, AnswerInv, NEW r \in Requests, CanGo(r)
  PROVE  \/ rpc[r] = "arriving" /\ free > 0
         \/ rpc[r] = "begun" /\ ~Matches(r)
         \/ /\ rpc[r] = "begun" /\ Target[r] \in Tasks
            /\ \/ Kind[r] = "cancel" /\ status[Target[r]] = "PENDING"
               \/ Kind[r] = "retry" /\ status[Target[r]] = "DEAD" /\ manualRetries < MaxManualRetries
         \/ rpc[r] = "lookup" /\ free > 0
         \/ rpc[r] = "reading"
BY Zenon, RequestAssumption DEF CanGo, Matches

(* Without MaxConns lookups at once no requests wait for each other.       *)
THEOREM OnlyLookupsDeadlock == ReqSpec => []OnlyLookupsBlock
<1>1. ConnInv => OnlyLookupsBlock
  <2> SUFFICES ASSUME ConnInv, manualRetries < MaxManualRetries, NEW q \in Requests, InFlight(q),
                      \A r \in Requests : ~CanGo(r)
               PROVE  free = 0 /\ Cardinality(LookingUp) = MaxConns
    BY Zenon DEF OnlyLookupsBlock
  <2>1. \A r \in Requests : rpc[r] # "begun" /\ rpc[r] # "reading"
    BY Zenon DEF CanGo
  <2>2. free = 0
    BY <2>1 DEF CanGo, InFlight, ConnInv
  <2>3. Holding = LookingUp /\ Reading = {}
    BY Zenon, <2>1 DEF Holding, Reading, LookingUp
  <2>4. IsFiniteSet(Holding)
    BY Zenon, RequestAssumption, FS_Subset DEF Holding
  <2>5. Cardinality(Holding) \in Nat
    BY Zenon, <2>4, FS_CardinalityType
  <2>6. Cardinality(Reading) = 0
    BY Zenon, <2>3, FS_EmptySet
  <2> QED BY <2>2, <2>3, <2>5, <2>6, RequestAssumption DEF ConnInv, ConnectionsBalance
<1> QED BY <1>1, ConnInvariant, PTL

-----------------------------------------------------------------------------
Step == [unsent |-> 0, arriving |-> 1, begun |-> 2, lookup |-> 3, reading |-> 4, answered |-> 5]

(* A request only goes on, every step that serves it takes it further, and *)
(* its answer never changes.                                               *)
AnswersFollow ==
  \A r \in Requests :
    /\ rpc'[r] = rpc[r] \/ Step[rpc'[r]] > Step[rpc[r]]
    /\ Serve(r) \/ Fails(r) => Step[rpc'[r]] > Step[rpc[r]]
    /\ rpc[r] = "answered" => result'[r] = result[r]
RequestsOnlyForward == [][AnswersFollow]_allVars

(* A step of r takes it further and touches the answer of no other.        *)
LEMMA RequestGoesOn ==
  ASSUME rpc \in [Requests -> RPCs], result \in [Requests -> Results],
         NEW r \in Requests, Send(r) \/ Serve(r) \/ Fails(r)
  PROVE  /\ Step[rpc'[r]] > Step[rpc[r]] /\ rpc[r] # "answered"
         /\ \A q \in Requests : q # r => rpc'[q] = rpc[q] /\ result'[q] = result[q]
<1>1. \E s \in RPCs : rpc' = [rpc EXCEPT ![r] = s] /\ Step[s] > Step[rpc[r]]
  <2>1. CASE Send(r) \/ Begin(r) \/ UpdateMisses(r) \/ Acquire(r)
    BY SMTT(30), <2>1 DEF Send, Begin, UpdateMisses, Acquire, RPCs, Step
  <2>2. CASE UpdateMatches(r) \/ Lookup(r) \/ Fails(r)
    <3>1. rpc' = [rpc EXCEPT ![r] = "answered"] /\ rpc[r] \in {"arriving", "begun", "lookup", "reading"}
      BY Zenon, <2>2 DEF UpdateMatches, Lookup, Return, Fails
    <3>2. Step["answered"] > Step[rpc[r]] /\ "answered" \in RPCs
      BY <3>1 DEF Step, RPCs
    <3> QED BY Zenon, <3>1, <3>2
  <2> QED BY Zenon, <2>1, <2>2 DEF Serve
<1>2. result' = result \/ \E res : result' = [result EXCEPT ![r] = res]
  BY Zenon DEF Send, Serve, Begin, UpdateMatches, UpdateMisses, Acquire, Lookup, Return, Fails
<1>3. rpc[r] # "answered"
  BY Zenon DEF Send, Serve, Begin, UpdateMatches, UpdateMisses, Acquire, Lookup, Fails
<1> QED BY Zenon, <1>1, <1>2, <1>3

(* Every request goes from step to step and is answered once.              *)
THEOREM RequestsAnsweredOnce == ReqSpec => RequestsOnlyForward
<1>1. ASSUME AnswerInv, ReqNext PROVE AnswersFollow
  <2>0. rpc \in [Requests -> RPCs] /\ result \in [Requests -> Results]
    BY Zenon, <1>1 DEF AnswerInv
  <2>1. ASSUME NEW r \in Requests, Send(r) \/ Serve(r) \/ Fails(r) PROVE AnswersFollow
    BY Zenon, <2>0, <2>1, RequestGoesOn DEF AnswersFollow
  <2>2. ASSUME Background PROVE AnswersFollow
    BY Zenon, <2>0, <2>2, RequestGoesOn DEF AnswersFollow, Background, reqVars
  <2> QED BY Zenon, <1>1, <2>1, <2>2 DEF ReqNext
<1>2. AnswerInv /\ [ReqNext]_allVars => [AnswersFollow]_allVars
  BY Zenon, <1>1
<1> QED BY <1>2, AnswerInvariant, PTL DEF ReqSpec, RequestsOnlyForward

-----------------------------------------------------------------------------
(* The only way a cancel that did not fail is answered 500.                *)

HasRun(t) == \E i \in 1 .. Len(logs[t]) : logs[t][i] = "RUNNING"

(* A cancel of a task that nobody ever claimed is never answered 500 by    *)
(* mistake: behind such an answer is a task that ran, or had run, when the *)
(* UPDATE looked and was back in the queue at the lookup.                  *)
SurprisesHaveRun ==
  \A r \in Requests :
    rpc[r] = "answered" /\ Kind[r] = "cancel" /\ result[r] # "error" /\ HTTPStatus(r) = 500 =>
      Target[r] \in Tasks /\ result[r] = "PENDING" /\ HasRun(Target[r])

(* What the log shows of rows, of requests that missed and of answers.     *)
RanInv == \A t \in Tasks : status[t] \in {"RUNNING", "COMPLETED", "DEAD"} => HasRun(t)
MissInv ==
  \A r \in Requests : Kind[r] = "cancel" =>
    /\ rpc[r] \in {"lookup", "reading"} /\ Target[r] \in Tasks =>
         status[Target[r]] = "CANCELED" \/ HasRun(Target[r])
    /\ result[r] = "PENDING" => Target[r] \in Tasks /\ HasRun(Target[r])
    /\ rpc[r] = "answered" => result[r] \in {"not found", "error"} \cup TaskStatus

(* Whoever ran once has run for good, and nobody gets past PENDING without.*)
LEMMA RanStep ==
  ASSUME StoreTypeOK, RanInv, [StoreNext]_storeVars
  PROVE  RanInv' /\ \A t \in Tasks : HasRun(t) => HasRun(t)'
<1>1. ASSUME NEW t \in Tasks, HasRun(t) PROVE HasRun(t)'
  <2>0. logs[t] \in Seq(TaskStatus)
    BY Zenon DEF StoreTypeOK
  <2>1. PICK i \in 1 .. Len(logs[t]) : logs[t][i] = "RUNNING"
    BY Zenon, <1>1 DEF HasRun
  <2>2. CASE logs'[t] = logs[t]
    BY Zenon, <2>1, <2>2 DEF HasRun
  <2>3. ASSUME NEW s \in TaskStatus, logs'[t] = Append(logs[t], s) PROVE HasRun(t)'
    <3>1. Len(logs'[t]) = Len(logs[t]) + 1 /\ logs'[t][i] = logs[t][i] /\ i \in 1 .. Len(logs'[t])
      BY <2>0, <2>1, <2>3
    <3> QED BY Zenon, <2>1, <3>1 DEF HasRun
  <2> QED BY Zenon, <2>2, <2>3, LogsGrow
<1>2. ASSUME NEW t \in Tasks, status'[t] \in {"RUNNING", "COMPLETED", "DEAD"},
             status[t] \notin {"RUNNING", "COMPLETED", "DEAD"}
      PROVE  HasRun(t)'
  <2> USE DEF StoreTypeOK
  <2>1. ASSUME NEW id \in WorkerIDs, NEW u \in Tasks, Claim(u, id) PROVE HasRun(t)'
    <3>1. u = t /\ logs'[t] = Append(logs[t], "RUNNING") /\ logs[t] \in Seq(TaskStatus)
      BY Zenon, <1>2, <2>1 DEF Claim, SetStatus
    <3>2. Len(logs'[t]) = Len(logs[t]) + 1 /\ logs'[t][Len(logs[t]) + 1] = "RUNNING" /\ Len(logs[t]) \in Nat
      BY <3>1 DEF TaskStatus
    <3>3. Len(logs[t]) + 1 \in 1 .. Len(logs'[t])
      BY <3>2
    <3> QED BY Zenon, <3>2, <3>3 DEF HasRun
  <2>2. ASSUME NEW S \in SUBSET Tasks, RequeueStaleRunning(S) PROVE FALSE
    BY Zenon, <1>2, <2>2 DEF RequeueStaleRunning, Stale
  <2>3. ASSUME NEW u \in Tasks, Cancel(u) \/ RetryDead(u) \/ \E d \in 0..MaxDelay : Create(u, d) PROVE FALSE
    BY Zenon, <1>2, <2>3 DEF Cancel, RetryDead, Create, SetStatus
  <2>4. ASSUME NEW u \in Tasks, NEW id \in WorkerIDs,
               \/ Heartbeat(u, id) \/ MarkCompleted(u, id) \/ MarkDead(u, id)
               \/ \E d \in Nat : MarkPending(u, id, d)
        PROVE  FALSE
    BY Zenon, <1>2, <2>4 DEF Heartbeat, MarkCompleted, MarkDead, MarkPending, Owns, SetStatus
  <2>5. CASE Tick \/ UNCHANGED storeVars
    BY Zenon, <1>2, <2>5 DEF Tick, storeVars
  <2> QED BY Zenon, <2>1, <2>2, <2>3, <2>4, <2>5 DEF StoreNext
<1> QED BY Zenon, <1>1, <1>2 DEF RanInv

(* A request is answered PENDING only after it missed a row that had run.  *)
LEMMA MissStep ==
  ASSUME TypeOK, AnswerInv, RanInv, MissInv, [ReqNext]_allVars
  PROVE  MissInv'
<1>0. rpc \in [Requests -> RPCs] /\ result \in [Requests -> Results]
  BY Zenon DEF AnswerInv
<1>1. \A t \in Tasks : /\ HasRun(t) => HasRun(t)'
                       /\ status[t] = "CANCELED" => status'[t] = "CANCELED"
  BY Zenon, RequestStepIsPoolStep, PoolStepIsStoreStep, CanceledIsFinal, RanStep DEF TypeOK
<1> DEFINE Fine(r, place, res) ==
      Kind[r] = "cancel" =>
        /\ place \in {"lookup", "reading"} /\ Target[r] \in Tasks =>
             status'[Target[r]] = "CANCELED" \/ HasRun(Target[r])'
        /\ res = "PENDING" => Target[r] \in Tasks /\ HasRun(Target[r])'
        /\ place = "answered" => res \in {"not found", "error"} \cup TaskStatus
<1>2. \A r \in Requests : Fine(r, rpc[r], result[r])
  BY Zenon, <1>1 DEF MissInv
<1>3. ASSUME \A r \in Requests : Fine(r, rpc'[r], result'[r]) PROVE MissInv'
  BY Zenon, <1>3 DEF MissInv
<1>4. ASSUME NEW r \in Requests, NEW place, NEW res, rpc' = [rpc EXCEPT ![r] = place],
             result' = [result EXCEPT ![r] = res], Fine(r, place, res)
      PROVE  MissInv'
  <2>1. \A q \in Requests : q # r => rpc'[q] = rpc[q] /\ result'[q] = result[q]
    BY Zenon, <1>0, <1>4
  <2>2. rpc'[r] = place /\ result'[r] = res
    BY Zenon, <1>0, <1>4
  <2> HIDE DEF Fine
  <2>3. \A q \in Requests : Fine(q, rpc'[q], result'[q])
    BY Zenon, <1>2, <1>4, <2>1, <2>2
  <2> QED BY Zenon, <1>3, <2>3
<1> HIDE DEF Fine
<1>5. ASSUME NEW r \in Requests, Send(r) \/ Begin(r) PROVE MissInv'
  <2>1. result' = [result EXCEPT ![r] = result[r]]
        /\ (rpc' = [rpc EXCEPT ![r] = "arriving"] \/ rpc' = [rpc EXCEPT ![r] = "begun"])
    BY Zenon, <1>0, <1>5 DEF Send, Begin
  <2>2. Fine(r, "arriving", result[r]) /\ Fine(r, "begun", result[r])
    BY Zenon, <1>2 DEF Fine
  <2> QED BY Zenon, <1>4, <2>1, <2>2
<1>6. ASSUME NEW r \in Requests, UpdateMisses(r) PROVE MissInv'
  <2>1. rpc' = [rpc EXCEPT ![r] = "lookup"] /\ result' = [result EXCEPT ![r] = result[r]]
    BY Zenon, <1>0, <1>6 DEF UpdateMisses
  <2>2. ASSUME Kind[r] = "cancel", Target[r] \in Tasks
        PROVE  status'[Target[r]] = "CANCELED" \/ HasRun(Target[r])'
    <3>1. status[Target[r]] \notin {"PENDING", "ABSENT"}
      BY Zenon, <1>6, <2>2 DEF UpdateMisses, Matches, AnswerInv
    <3>2. status[Target[r]] \in {"CANCELED", "RUNNING", "COMPLETED", "DEAD"}
      BY Zenon, <2>2, <3>1 DEF TypeOK, StoreTypeOK, TaskStatus
    <3> QED BY Zenon, <1>1, <2>2, <3>2 DEF RanInv
  <2>3. Fine(r, "lookup", result[r])
    BY Zenon, <1>2, <2>2 DEF Fine
  <2> QED BY Zenon, <1>4, <2>1, <2>3
<1>11. ASSUME NEW r \in Requests, Acquire(r) PROVE MissInv'
  <2>1. rpc[r] = "lookup" /\ rpc' = [rpc EXCEPT ![r] = "reading"] /\ result' = [result EXCEPT ![r] = result[r]]
    BY Zenon, <1>0, <1>11 DEF Acquire
  <2>2. Fine(r, "reading", result[r])
    BY Zenon, <1>2, <2>1 DEF Fine
  <2> QED BY Zenon, <1>4, <2>1, <2>2
<1>7. ASSUME NEW r \in Requests, UpdateMatches(r) PROVE MissInv'
  <2>1. Fine(r, "answered", IF Kind[r] = "cancel" THEN "CANCELED" ELSE "PENDING")
    BY Zenon DEF Fine, TaskStatus
  <2> QED BY Zenon, <1>4, <1>7, <2>1 DEF UpdateMatches, Return
<1>8. ASSUME NEW r \in Requests, Lookup(r) PROVE MissInv'
  <2>1. ASSUME Kind[r] = "cancel", Target[r] \in Tasks
        PROVE  Found(r) = status[Target[r]] /\ status[Target[r]] \in TaskStatus
               /\ (status[Target[r]] = "PENDING" => HasRun(Target[r])')
    BY Zenon, <1>1, <1>8, <2>1 DEF Lookup, Found, MissInv, AnswerInv, TypeOK, StoreTypeOK
  <2>2. ASSUME Kind[r] = "cancel", Target[r] \notin Tasks PROVE Found(r) = "not found"
    BY Zenon, <2>2 DEF Found
  <2>3. Fine(r, "answered", Found(r))
    BY Zenon, <2>1, <2>2 DEF Fine
  <2> QED BY Zenon, <1>4, <1>8, <2>3 DEF Lookup, Return
<1>9. ASSUME NEW r \in Requests, Fails(r) PROVE MissInv'
  <2>1. Fine(r, "answered", "error")
    BY Zenon DEF Fine
  <2> QED BY Zenon, <1>4, <1>9, <2>1 DEF Fails, Return
<1>10. CASE UNCHANGED reqVars
  BY Zenon, <1>2, <1>3, <1>10 DEF reqVars
<1> QED BY Zenon, <1>5, <1>6, <1>7, <1>8, <1>9, <1>10, <1>11 DEF ReqNext, Background, Serve, allVars

(* Only the race between the UPDATE and the lookup of Cancel answers 500   *)
(* for a task nothing is wrong with.                                       *)
THEOREM OnlyRaceSurprises == ReqSpec => []SurprisesHaveRun
<1>1. ReqInit => RanInv /\ MissInv
  BY Zenon DEF ReqInit, Init, StoreInit, RanInv, MissInv
<1>2. TypeOK /\ RanInv /\ [ReqNext]_allVars => RanInv'
  BY Zenon, RequestStepIsPoolStep, PoolStepIsStoreStep, RanStep DEF TypeOK
<1>3. MissInv => SurprisesHaveRun
  <2> SUFFICES ASSUME MissInv, NEW r \in Requests, rpc[r] = "answered", Kind[r] = "cancel",
                      result[r] # "error", HTTPStatus(r) = 500
               PROVE  Target[r] \in Tasks /\ result[r] = "PENDING" /\ HasRun(Target[r])
    BY Zenon DEF SurprisesHaveRun
  <2>1. result[r] \in {"not found"} \cup TaskStatus
    BY ZenonT(30) DEF MissInv
  <2>2. result[r] = "PENDING"
    <3> DEFINE code == HTTPStatus(r)
    <3>1. ASSUME result[r] = "not found" PROVE code = 404
      BY <3>1 DEF HTTPStatus
    <3>2. ASSUME result[r] = "RUNNING" PROVE code = 409
      BY <3>2 DEF HTTPStatus
    <3>3. ASSUME result[r] \in {"CANCELED", "COMPLETED", "DEAD"} PROVE code = 200
      <4>1. CASE result[r] = "CANCELED" BY Zenon, <4>1 DEF HTTPStatus
      <4>2. CASE result[r] = "COMPLETED" BY Zenon, <4>2 DEF HTTPStatus
      <4>3. CASE result[r] = "DEAD" BY Zenon, <4>3 DEF HTTPStatus
      <4> QED BY Zenon, <3>3, <4>1, <4>2, <4>3
    <3>4. code = 500
      BY Zenon
    <3> HIDE DEF code
    <3>5. code \notin {404, 409, 200}
      BY <3>4
    <3>6. result[r] # "not found" /\ result[r] # "RUNNING" /\ result[r] \notin {"CANCELED", "COMPLETED", "DEAD"}
      BY ZenonT(30), <3>1, <3>2, <3>3, <3>5
    <3> QED BY Zenon, <2>1, <3>6 DEF TaskStatus
  <2> QED BY ZenonT(30), <2>2 DEF MissInv
<1> QED BY <1>1, <1>2, <1>3, MissStep, AnswerInvariant, RequestsImplementPool, TypeCorrect, PTL DEF ReqSpec
=============================================================================
