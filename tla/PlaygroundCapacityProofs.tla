----------------------- MODULE PlaygroundCapacityProofs -----------------------
(***************************************************************************)
(* The queue-depth cap for any number of tasks, requests and batch sizes.  *)
(***************************************************************************)
EXTENDS PlaygroundCapacity, TLAPS, FiniteSetTheorems

(* A request starts with all its tasks left and ends with its last one; a  *)
(* retry past its read has read a row.                                     *)
LeftInv ==
  \A r \in Requests :
    /\ at[r] \in {"arrived", "read", "locked"} => left[r] = Count[r]
    /\ at[r] = "admitted" => left[r] > 0
    /\ r \in Retries /\ at[r] \in {"read", "locked", "admitted"} => seen[r] # "ABSENT"

(* A request that answers, having the mutex, keeps types and LeftInv.      *)
LEMMA AnswerStep ==
  ASSUME TypeOK, LeftInv, NEW r \in Requests, mu = r,
         NEW res \in {"ok", "full", "not dead", "error"}, Answer(r, res),
         status' \in [Tasks -> Statuses], UNCHANGED seen,
         left' \in [Requests -> Nat], \A q \in Requests : q # r => left'[q] = left[q]
  PROVE  TypeOK' /\ LeftInv'
BY ZenonT(30), CapacityAssumption DEF TypeOK, LeftInv, Answer

(* Every step keeps the types, and the mutex with the one request that is  *)
(* between Lock and its answer.                                            *)
LEMMA TypeStep ==
  ASSUME TypeOK, LeftInv, [Next]_vars
  PROVE  TypeOK' /\ LeftInv'
<1> USE CapacityAssumption
<1>1. ASSUME NEW r \in Requests, Read(r)
      PROVE  TypeOK' /\ LeftInv'
  <2>1. /\ at[r] = "arrived" /\ at' = [at EXCEPT ![r] = "read"]
        /\ UNCHANGED <<status, mu, left, result>>
    BY <1>1 DEF Read
  <2>2. PICK s \in Statuses \ {"ABSENT"} : seen' = [seen EXCEPT ![r] = s]
    <3>1. Retried[r] \in Tasks
      BY <1>1 DEF Read, Retries
    <3>2. QED
      BY <1>1, <3>1 DEF Read, TypeOK
  <2>3. QED
    BY ZenonT(30), <2>1, <2>2 DEF TypeOK, LeftInv
<1>0. ASSUME NEW r \in Requests, ReadFails(r)
      PROVE  TypeOK' /\ LeftInv'
  BY <1>0 DEF ReadFails, TypeOK, LeftInv
<1>2. ASSUME NEW r \in Requests, Lock(r)
      PROVE  TypeOK' /\ LeftInv'
  <2>1. /\ at[r] \in {"arrived", "read"} /\ at' = [at EXCEPT ![r] = "locked"]
        /\ r \in Retries => at[r] = "read"
    BY <1>2 DEF Lock
  <2>2. mu = NoRequest /\ mu' = r /\ UNCHANGED <<status, left, seen, result>>
    BY <1>2 DEF Lock
  <2>3. QED
    BY ZenonT(30), <2>1, <2>2 DEF TypeOK, LeftInv
<1>3. ASSUME NEW r \in Requests, Admit(r)
      PROVE  TypeOK' /\ LeftInv'
  <2>0. Count[r] \in Nat \ {0}
    OBVIOUS
  <2>1. left[r] > 0 /\ at[r] = "locked" /\ at' = [at EXCEPT ![r] = "admitted"]
    BY <1>3, <2>0 DEF Admit, LeftInv
  <2>2. UNCHANGED <<status, mu, left, seen, result>>
    BY <1>3 DEF Admit
  <2>3. QED
    BY <2>1, <2>2 DEF TypeOK, LeftInv
<1>4. ASSUME NEW r \in Requests, Refuse(r) \/ InsertReplayed(r) \/ InsertFails(r) \/ Retry(r)
      PROVE  TypeOK' /\ LeftInv'
  <2>1. PICK res \in {"ok", "full", "not dead", "error"} : Answer(r, res)
    BY <1>4 DEF Refuse, InsertReplayed, InsertFails, Retry
  <2>2. mu = r /\ status' \in [Tasks -> Statuses] /\ UNCHANGED <<left, seen>>
    <3>1. at[r] \in {"locked", "admitted"} /\ UNCHANGED <<left, seen>>
      BY <1>4 DEF Refuse, InsertReplayed, InsertFails, Retry
    <3>2. \/ UNCHANGED status
          \/ \E t \in Tasks : status' = [status EXCEPT ![t] = "PENDING"]
      BY <1>4 DEF Refuse, InsertReplayed, InsertFails, Retry, Retries
    <3>3. QED
      BY <3>1, <3>2 DEF TypeOK, Statuses
  <2>3. left' \in [Requests -> Nat]
    BY <2>2 DEF TypeOK
  <2>4. QED
    BY <2>1, <2>2, <2>3, AnswerStep
<1>5. ASSUME NEW r \in Requests, InsertOne(r)
      PROVE  TypeOK' /\ LeftInv'
  <2>1. mu = r /\ status' \in [Tasks -> Statuses] /\ UNCHANGED seen
    BY <1>5 DEF InsertOne, TypeOK, Statuses
  <2>2. /\ left[r] \in Nat /\ left[r] > 0 /\ left' = [left EXCEPT ![r] = left[r] - 1]
        /\ left' \in [Requests -> Nat]
    <3>1. at[r] = "admitted" /\ left' = [left EXCEPT ![r] = left[r] - 1]
      BY <1>5 DEF InsertOne
    <3>2. left[r] \in Nat /\ left[r] > 0
      BY <3>1 DEF TypeOK, LeftInv
    <3>3. left[r] - 1 \in Nat
      BY <3>2
    <3>4. QED
      BY <3>1, <3>2, <3>3 DEF TypeOK
  <2>3. CASE left[r] = 1
    <3>1. Answer(r, "ok")
      BY <1>5, <2>3 DEF InsertOne
    <3>2. \A q \in Requests : q # r => left'[q] = left[q]
      BY <2>2 DEF TypeOK
    <3>3. QED
      BY <2>1, <2>2, <3>1, <3>2, AnswerStep
  <2>4. CASE left[r] # 1
    <3>1. UNCHANGED <<mu, at, result>> /\ at[r] = "admitted"
      BY <1>5, <2>4 DEF InsertOne
    <3>2. left'[r] > 0 /\ \A q \in Requests : q # r => left'[q] = left[q]
      <4>1. left[r] - 1 > 0
        BY <2>2, <2>4
      <4>2. QED
        BY <2>2, <4>1 DEF TypeOK
    <3>3. QED
      BY <2>1, <2>2, <3>1, <3>2 DEF TypeOK, LeftInv
  <2>5. QED
    BY <2>3, <2>4
<1>6. ASSUME NEW t \in Tasks, QueueMoves(t)
      PROVE  TypeOK' /\ LeftInv'
  <2>1. PICK s \in Statuses : status' = [status EXCEPT ![t] = s]
    BY Zenon, <1>6 DEF QueueMoves
  <2>2. UNCHANGED <<mu, at, left, seen, result>>
    BY <1>6 DEF QueueMoves
  <2>3. QED
    BY <2>1, <2>2 DEF TypeOK, LeftInv
<1>7. CASE UNCHANGED vars
  BY <1>7 DEF vars, TypeOK, LeftInv
<1>8. QED
  BY <1>0, <1>1, <1>2, <1>3, <1>4, <1>5, <1>6, <1>7 DEF Next, Serve
-----------------------------------------------------------------------------
(* Depth and the number of unchecked retries are natural numbers.          *)
LEMMA CountsAreNat ==
  /\ IsFiniteSet(Active) /\ Depth \in Nat
  /\ IsFiniteSet(Unchecked) /\ Cardinality(Unchecked) \in Nat
<1>1. IsFiniteSet(Active) /\ IsFiniteSet(Unchecked)
  BY CapacityAssumption, FS_Subset DEF Active, Unchecked, Retries
<1>2. QED
  BY <1>1, FS_CardinalityType DEF Depth

(* One row that changes adds at most one task to the queue, and none if it *)
(* was already in it or leaves it.                                         *)
LEMMA DepthStep ==
  ASSUME NEW t \in Tasks, NEW s, status \in [Tasks -> Statuses],
         status' = [status EXCEPT ![t] = s]
  PROVE  /\ Depth' \in Nat /\ Depth' <= Depth + 1
         /\ t \in Active => Depth' <= Depth
<1>1. CASE t \in Active
  <2>1. Active' \subseteq Active
    BY <1>1 DEF Active
  <2>2. IsFiniteSet(Active') /\ Depth' <= Depth
    BY <2>1, CountsAreNat, FS_Subset DEF Depth
  <2>3. QED
    BY <2>2, CountsAreNat, FS_CardinalityType DEF Depth
<1>2. CASE t \notin Active
  <2>1. Active' \subseteq Active \cup {t}
    BY DEF Active
  <2>2. IsFiniteSet(Active \cup {t}) /\ Cardinality(Active \cup {t}) = Depth + 1
    BY <1>2, CountsAreNat, FS_AddElement DEF Depth
  <2>3. IsFiniteSet(Active') /\ Depth' <= Depth + 1
    BY <2>1, <2>2, FS_Subset DEF Depth
  <2>4. QED
    BY <1>2, <2>3, FS_CardinalityType DEF Depth
<1>3. QED
  BY <1>1, <1>2

(* Unchecked retries are never forgotten.                                  *)
LEMMA UncheckedStep ==
  ASSUME TypeOK, [Next]_vars
  PROVE  /\ Unchecked \subseteq Unchecked'
         /\ Cardinality(Unchecked') \in Nat
         /\ Cardinality(Unchecked) <= Cardinality(Unchecked')
<1>1. ASSUME NEW q \in Unchecked
      PROVE  at'[q] = at[q] /\ result'[q] = result[q] /\ seen'[q] = seen[q]
  <2>1. q \in Requests /\ at[q] = "answered"
    BY DEF Unchecked, Retries
  <2>2. ASSUME NEW r \in Requests, Serve(r)
        PROVE  r # q /\ at'[q] = at[q] /\ result'[q] = result[q] /\ seen'[q] = seen[q]
    BY Zenon, <2>1, <2>2
    DEF Serve, Read, ReadFails, Lock, Admit, Refuse, InsertOne, InsertReplayed, InsertFails, Retry, Answer, TypeOK
  <2>3. QED
    BY <2>2 DEF Next, QueueMoves, vars
<1>2. Unchecked \subseteq Unchecked'
  BY <1>1 DEF Unchecked
<1>3. IsFiniteSet(Unchecked')
  BY CapacityAssumption, FS_Subset DEF Unchecked, Retries
<1>4. QED
  BY <1>2, <1>3, FS_Subset, FS_CardinalityType

(* A retry that skipped the check makes room for the task it brings back.  *)
LEMMA UncheckedRetryStep ==
  ASSUME TypeOK, [Next]_vars, NEW r \in Retries, at[r] = "admitted", seen[r] \notin {"ABSENT", "DEAD"},
         UNCHANGED seen, at'[r] = "answered", result'[r] \in {"ok", "error"}
  PROVE  Cardinality(Unchecked') >= Cardinality(Unchecked) + 1
<1>1. r \notin Unchecked /\ r \in Unchecked'
  BY DEF Unchecked
<1>2. Unchecked \cup {r} \subseteq Unchecked'
  BY <1>1, UncheckedStep
<1>3. IsFiniteSet(Unchecked')
  BY CapacityAssumption, FS_Subset DEF Unchecked, Retries
<1>4. Cardinality(Unchecked \cup {r}) = Cardinality(Unchecked) + 1
  BY Zenon, <1>1, CountsAreNat, FS_AddElement
<1>5. Cardinality(Unchecked \cup {r}) <= Cardinality(Unchecked')
  BY <1>2, <1>3, FS_Subset
<1>6. QED
  BY <1>4, <1>5, UncheckedStep, CountsAreNat
-----------------------------------------------------------------------------
(* A step that adds at most one task keeps the cap if nobody else is       *)
(* admitted and the step pays for its task.                                *)
LEMMA ReserveStep ==
  ASSUME TypeOK, CapacityReserved, [Next]_vars, NEW r \in Requests, mu = r, mu' = NoRequest, TypeOK',
         Depth' \in Nat, Depth' <= MaxPending + Cardinality(Unchecked')
  PROVE  CapacityReserved'
BY CapacityAssumption DEF CapacityReserved, TypeOK

(* Every step keeps the room that admitted requests were promised.         *)
LEMMA CapacityStep ==
  ASSUME TypeOK, LeftInv, CapacityReserved, [Next]_vars
  PROVE  CapacityReserved'
<1> USE CapacityAssumption
<1>t. TypeOK' /\ LeftInv'
  BY TypeStep
<1>n. /\ Depth \in Nat /\ Cardinality(Unchecked) \in Nat /\ Cardinality(Unchecked') \in Nat
      /\ Cardinality(Unchecked) <= Cardinality(Unchecked')
      /\ Depth <= MaxPending + Cardinality(Unchecked)
      /\ MaxPending \in Nat
  BY CountsAreNat, UncheckedStep DEF CapacityReserved
<1>1. ASSUME NEW r \in Requests, Read(r) \/ ReadFails(r) \/ Lock(r)
      PROVE  CapacityReserved'
  <2>1. Depth' = Depth
    BY Zenon, <1>1 DEF Read, ReadFails, Lock, Depth, Active
  <2>2. ASSUME NEW q \in Requests, at'[q] = "admitted" /\ Checks(q)'
        PROVE  at[q] = "admitted" /\ Checks(q) /\ left'[q] = left[q]
    BY ZenonT(30), <1>1, <2>2 DEF Read, ReadFails, Lock, Checks, TypeOK
  <2>3. ASSUME NEW q \in Requests, at'[q] = "admitted" /\ Checks(q)'
        PROVE  Depth' + left'[q] <= MaxPending + Cardinality(Unchecked')
    <3>1. at[q] = "admitted" /\ Checks(q) /\ left'[q] = left[q]
      BY <2>2, <2>3
    <3>2. left[q] \in Nat
      BY DEF TypeOK
    <3>3. Depth + left[q] <= MaxPending + Cardinality(Unchecked)
      BY <3>1 DEF CapacityReserved
    <3>4. QED
      BY <1>n, <2>1, <3>1, <3>2, <3>3
  <2>4. QED
    BY <1>n, <2>1, <2>3 DEF CapacityReserved
<1>2. ASSUME NEW r \in Requests, Admit(r)
      PROVE  CapacityReserved'
  <2>1. Depth' = Depth /\ left[r] = Count[r] /\ left'[r] = left[r]
    BY <1>2 DEF Admit, Depth, Active, LeftInv
  <2>2. ASSUME NEW q \in Requests, at'[q] = "admitted" /\ Checks(q)'
        PROVE  q = r /\ Checks(r)
    BY <1>2, <2>2 DEF Admit, Checks, TypeOK
  <2>3. Checks(r) => Depth + Count[r] <= MaxPending
    BY <1>2, <1>n DEF Admit, Full
  <2>4. Count[r] \in Nat
    OBVIOUS
  <2>5. QED
    BY <1>n, <2>1, <2>2, <2>3, <2>4 DEF CapacityReserved
<1>3. ASSUME NEW r \in Requests, Refuse(r) \/ InsertReplayed(r)
      PROVE  CapacityReserved'
  <2>1. Depth' = Depth /\ mu = r /\ mu' = NoRequest
    BY <1>3 DEF Refuse, InsertReplayed, Depth, Active, Answer, TypeOK
  <2>2. QED
    BY <1>t, <1>n, <2>1, ReserveStep
<1>4. ASSUME NEW r \in Requests, InsertOne(r) \/ InsertFails(r)
      PROVE  CapacityReserved'
  <2>1. /\ mu = r /\ at[r] = "admitted" /\ Checks(r)
        /\ left[r] \in Nat /\ left[r] > 0
        /\ Depth + left[r] <= MaxPending + Cardinality(Unchecked)
    BY <1>4 DEF InsertOne, InsertFails, Checks, TypeOK, LeftInv, CapacityReserved
  <2>2. Depth' \in Nat /\ Depth' <= Depth + 1
    <3>1. CASE UNCHANGED status
      BY <1>n, <3>1 DEF Depth, Active
    <3>2. ASSUME NEW t \in Tasks, status' = [status EXCEPT ![t] = "PENDING"]
          PROVE  Depth' \in Nat /\ Depth' <= Depth + 1
      BY <3>2, DepthStep DEF TypeOK
    <3>3. QED
      BY <1>4, <3>1, <3>2 DEF InsertOne, InsertFails
  <2>3. CASE mu' = NoRequest
    BY <1>t, <1>n, <2>1, <2>2, <2>3, ReserveStep
  <2>4. CASE mu' # NoRequest
    <3>1. mu' = mu /\ left'[r] = left[r] - 1
      BY <1>4, <2>4 DEF InsertOne, InsertFails, Answer, TypeOK
    <3>2. ASSUME NEW q \in Requests, at'[q] = "admitted"
          PROVE  q = r
      BY <1>t, <2>1, <3>1, <3>2 DEF TypeOK
    <3>3. QED
      BY <1>n, <2>1, <2>2, <3>1, <3>2 DEF CapacityReserved
  <2>5. QED
    BY <2>3, <2>4
<1>5. ASSUME NEW r \in Requests, Retry(r)
      PROVE  CapacityReserved'
  <2>1. /\ mu = r /\ mu' = NoRequest /\ at[r] = "admitted" /\ r \in Retries
        /\ at'[r] = "answered" /\ UNCHANGED <<left, seen>>
    BY <1>5 DEF Retry, Answer, TypeOK
  <2>2. CASE UNCHANGED status
    <3>1. Depth' = Depth
      BY <2>2 DEF Depth, Active
    <3>2. QED
      BY <1>t, <1>n, <2>1, <3>1, ReserveStep
  <2>3. CASE /\ status' = [status EXCEPT ![Retried[r]] = "PENDING"]
             /\ result'[r] \in {"ok", "error"}
    <3>1. Depth' \in Nat /\ Depth' <= Depth + 1
      <4>1. Retried[r] \in Tasks
        BY <2>1 DEF Retries
      <4>2. QED
        BY <2>3, <4>1, DepthStep DEF TypeOK
    <3>2. CASE Checks(r)
      <4>1. Depth + left[r] <= MaxPending + Cardinality(Unchecked) /\ left[r] \in Nat /\ left[r] > 0
        BY <2>1, <3>2 DEF CapacityReserved, LeftInv, TypeOK
      <4>2. QED
        BY <1>t, <1>n, <2>1, <3>1, <4>1, ReserveStep
    <3>3. CASE ~Checks(r)
      <4>1. seen[r] \notin {"ABSENT", "DEAD"}
        BY <2>1, <3>3 DEF Checks, LeftInv
      <4>2. Cardinality(Unchecked') >= Cardinality(Unchecked) + 1
        BY <2>1, <2>3, <4>1, UncheckedRetryStep
      <4>3. QED
        BY SMTT(30), <1>t, <1>n, <2>1, <3>1, <4>2, ReserveStep
    <3>4. QED
      BY <3>2, <3>3
  <2>4. QED
    BY ZenonT(30), <1>5, <2>2, <2>3 DEF Retry, Answer, TypeOK
<1>6. ASSUME NEW t \in Tasks, QueueMoves(t)
      PROVE  CapacityReserved'
  <2>1. Depth' \in Nat /\ Depth' <= Depth
    <3>1. Active' \subseteq Active
      BY <1>6 DEF QueueMoves, Active, TypeOK
    <3>2. IsFiniteSet(Active') /\ Cardinality(Active') <= Cardinality(Active)
      BY <3>1, CountsAreNat, FS_Subset
    <3>3. QED
      BY <3>2, FS_CardinalityType DEF Depth
  <2>2. \A q \in Requests : at'[q] = at[q] /\ left'[q] = left[q] /\ (Checks(q)' <=> Checks(q))
    BY <1>6 DEF QueueMoves, Checks
  <2>3. ASSUME NEW q \in Requests, at'[q] = "admitted" /\ Checks(q)'
        PROVE  Depth' + left'[q] <= MaxPending + Cardinality(Unchecked')
    <3>1. at[q] = "admitted" /\ Checks(q) /\ left'[q] = left[q]
      BY <2>2, <2>3
    <3>2. left[q] \in Nat
      BY DEF TypeOK
    <3>3. Depth + left[q] <= MaxPending + Cardinality(Unchecked)
      BY <3>1 DEF CapacityReserved
    <3>4. QED
      BY <1>n, <2>1, <3>1, <3>2, <3>3
  <2>4. QED
    BY <1>n, <2>1, <2>3 DEF CapacityReserved
<1>7. CASE UNCHANGED vars
  BY <1>7 DEF vars, CapacityReserved, Depth, Active, Unchecked, Checks
<1>8. QED
  BY <1>1, <1>2, <1>3, <1>4, <1>5, <1>6, <1>7 DEF Next, Serve

(* The inductive invariant.                                                *)
CapInv == TypeOK /\ LeftInv /\ CapacityReserved

(* The inductive invariant holds in every reachable state.                 *)
THEOREM CapacityInvariant == Spec => []CapInv
<1>1. Init => CapInv
  <2>1. ASSUME Init PROVE TypeOK /\ LeftInv
    BY <2>1, CapacityAssumption DEF Init, TypeOK, LeftInv, Statuses
  <2>2. ASSUME Init PROVE Depth = 0
    <3>1. Active = {}
      BY <2>2 DEF Init, Active
    <3>2. QED
      BY <3>1, FS_EmptySet DEF Depth
  <2>3. ASSUME Init PROVE CapacityReserved
    BY <2>2, <2>3, CountsAreNat, CapacityAssumption DEF Init, CapacityReserved
  <2>4. QED
    BY <2>1, <2>3 DEF CapInv
<1>2. CapInv /\ [Next]_vars => CapInv'
  BY TypeStep, CapacityStep DEF CapInv
<1>3. QED
  BY <1>1, <1>2, PTL DEF Spec

(* Types, and enqueueMu is held by exactly the request that is between its *)
(* Lock and its deferred Unlock.                                           *)
THEOREM CapacityTypesCorrect == Spec => []TypeOK
BY CapacityInvariant, PTL DEF CapInv

(* The cap holds for requests of any size and any number of them, but for  *)
(* one task per retry whose task died after RetryOwned read it.            *)
THEOREM CapacityAlwaysReserved == Spec => []CapacityReserved
BY CapacityInvariant, PTL DEF CapInv

(* Without retries the cap is the hard bound its comment promises: the     *)
(* check of enqueueMu's holders is enough for every mix of batches, and    *)
(* only RetryOwned, which reads before it locks, can go beyond it.         *)
THEOREM CapHardWithoutRetries ==
  ASSUME Retries = {}
  PROVE  Spec => []DepthWithinCap
<1>1. CapInv => DepthWithinCap
  <2>1. Unchecked = {}
    BY DEF Unchecked
  <2>2. Cardinality(Unchecked) = 0
    BY <2>1, FS_EmptySet
  <2> QED BY <2>2, CapacityAssumption, CountsAreNat DEF CapInv, CapacityReserved, DepthWithinCap
<1> QED BY <1>1, CapacityInvariant, PTL

-----------------------------------------------------------------------------
Stage == [arrived |-> 0, read |-> 1, locked |-> 2, admitted |-> 3, answered |-> 4]

(* r takes a step: it goes on, or it has one task less to insert.          *)
GoesOn(r) ==
  \/ Stage[at'[r]] > Stage[at[r]]
  \/ at'[r] = "admitted" /\ at[r] = "admitted" /\ left'[r] = left[r] - 1 /\ left'[r] > 0

(* Requests go forward only, each step of one leaves the others where they *)
(* are, and the holder of enqueueMu is done after its check and at most    *)
(* one insert for each task it announced: what no request can do is hold   *)
(* the mutex without an end.                                               *)
RequestsForward ==
  [][ /\ \A r \in Requests : Serve(r) => GoesOn(r)
      /\ \A r \in Requests : GoesOn(r) \/ (at'[r] = at[r] /\ left'[r] = left[r])
      /\ \A r \in Requests : mu = r /\ mu' # r => at'[r] = "answered" ]_vars

(* A step of a request takes it further and touches no other.              *)
LEMMA ServeGoesOn ==
  ASSUME CapInv, NEW r \in Requests, Serve(r)
  PROVE  GoesOn(r) /\ \A q \in Requests : q # r => at'[q] = at[q] /\ left'[q] = left[q]
<1>0. /\ at \in [Requests -> {"arrived", "read", "locked", "admitted", "answered"}]
      /\ left \in [Requests -> Nat]
      /\ at[r] = "admitted" => left[r] > 0
  BY DEF CapInv, TypeOK, LeftInv
<1>1. ASSUME NEW place, at' = [at EXCEPT ![r] = place], Stage[place] > Stage[at[r]],
             left' = left \/ left' = [left EXCEPT ![r] = @ - 1]
      PROVE  GoesOn(r) /\ \A q \in Requests : q # r => at'[q] = at[q] /\ left'[q] = left[q]
  BY <1>0, <1>1 DEF GoesOn
<1>2. CASE Read(r) \/ ReadFails(r) \/ Admit(r)
  BY <1>1, <1>2 DEF Read, ReadFails, Admit, Stage
<1>3. CASE Lock(r)
  <2>1. at[r] = "read" \/ at[r] = "arrived"
    BY <1>3 DEF Lock
  <2>2. at' = [at EXCEPT ![r] = "locked"] /\ left' = left
    BY <1>3 DEF Lock
  <2>3. Stage["locked"] > Stage[at[r]]
    BY <2>1 DEF Stage
  <2> QED BY Zenon, <1>1, <2>2, <2>3
<1>4. CASE Refuse(r) \/ InsertReplayed(r) \/ InsertFails(r) \/ Retry(r)
  <2>1. at[r] \in {"locked", "admitted"} /\ at' = [at EXCEPT ![r] = "answered"] /\ left' = left
    BY <1>4 DEF Refuse, InsertReplayed, InsertFails, Retry, Answer
  <2>2. Stage["answered"] > Stage[at[r]]
    BY <2>1 DEF Stage
  <2> QED BY Zenon, <1>1, <2>1, <2>2
<1>5. CASE InsertOne(r)
  <2>1. at[r] = "admitted" /\ left' = [left EXCEPT ![r] = @ - 1]
    BY <1>5 DEF InsertOne
  <2>2. CASE left[r] = 1
    BY <1>1, <1>5, <2>1, <2>2 DEF InsertOne, Answer, Stage
  <2>3. CASE left[r] # 1
    BY <1>0, <1>5, <2>1, <2>3 DEF InsertOne, GoesOn
  <2> QED BY <2>2, <2>3
<1> QED BY <1>2, <1>3, <1>4, <1>5 DEF Serve

(* Every request goes forward only and gives the mutex back.               *)
THEOREM RequestsAdvance == Spec => RequestsForward
<1>1. ASSUME CapInv, CapInv', Next
      PROVE  /\ \A r \in Requests : Serve(r) => GoesOn(r)
             /\ \A r \in Requests : GoesOn(r) \/ (at'[r] = at[r] /\ left'[r] = left[r])
             /\ \A r \in Requests : mu = r /\ mu' # r => at'[r] = "answered"
  <2>1. \A r \in Requests : Serve(r) => GoesOn(r)
    BY <1>1, ServeGoesOn
  <2>2. ASSUME NEW t \in Tasks, QueueMoves(t) PROVE UNCHANGED <<mu, at, left>>
    BY <2>2 DEF QueueMoves
  <2>3. \A r \in Requests : GoesOn(r) \/ (at'[r] = at[r] /\ left'[r] = left[r])
    BY <1>1, <2>2, ServeGoesOn DEF Next
  <2>4. ASSUME NEW r \in Requests, mu = r, mu' # r PROVE at'[r] = "answered"
    <3>1. at[r] \in {"locked", "admitted"} /\ at'[r] \notin {"locked", "admitted"}
      BY <1>1, <2>4 DEF CapInv, TypeOK
    <3>2. Stage[at'[r]] > Stage[at[r]] /\ at'[r] \in {"arrived", "read", "answered"}
      BY <1>1, <2>3, <3>1 DEF GoesOn, CapInv, TypeOK
    <3> QED BY <3>1, <3>2 DEF Stage
  <2> QED BY <2>1, <2>3, <2>4
<1> QED BY <1>1, CapacityInvariant, PTL DEF Spec, RequestsForward
=============================================================================
