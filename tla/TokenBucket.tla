----------------------------- MODULE TokenBucket -----------------------------
(***************************************************************************)
(* What a rate limiter promises: every key has a bucket from the start, it *)
(* fills continuously up to Cap, and a request takes one token (Unit) from *)
(* it.  A bucket nobody asked for in more than Window may be forgotten,    *)
(* and is then full.  RateLimiter implements it.                           *)
(***************************************************************************)
EXTENDS Integers

CONSTANTS
  Keys,
  Cap,    \* burst of each key, in fractions of a token
  Rate,   \* what its bucket gains in one unit of time
  Unit,   \* one token
  Window  \* how long a bucket is remembered for certain

VARIABLES
  level,
  idle,      \* time since the last request of each key, up to Window + 1
  spent,     \* what each key took since the observation started
  elapsed    \* how long ago that was

vars == <<level, idle, spent, elapsed>>

AtMost(bound, n) == IF n > bound THEN bound ELSE n

TypeOK ==
  /\ level \in [Keys -> Nat]
  /\ idle \in [Keys -> 0 .. Window + 1]
  /\ spent \in [Keys -> Nat]
  /\ elapsed \in Nat

Init ==
  /\ level = [k \in Keys |-> Cap[k]]
  /\ idle = [k \in Keys |-> Window + 1]
  /\ spent = [k \in Keys |-> 0]
  /\ elapsed = 0

Tick ==
  /\ level' = [k \in Keys |-> AtMost(Cap[k], level[k] + Rate[k])]
  /\ idle' = [k \in Keys |-> AtMost(Window + 1, idle[k] + 1)]
  /\ elapsed' = elapsed + 1
  /\ UNCHANGED spent

Forgettable == {k \in Keys : idle[k] > Window}

(* The levels once the buckets of S are forgotten.                         *)
Without(S) == [k \in Keys |-> IF k \in S THEN Cap[k] ELSE level[k]]

Take(k) ==
  \E S \in SUBSET Forgettable :
     /\ Without(S)[k] >= Unit
     /\ level' = [Without(S) EXCEPT ![k] = @ - Unit]
     /\ idle' = [idle EXCEPT ![k] = 0]
     /\ spent' = [spent EXCEPT ![k] = @ + Unit]
     /\ UNCHANGED elapsed

Refuse(k) ==
  \E S \in SUBSET Forgettable :
     /\ Without(S)[k] < Unit
     /\ level' = Without(S)
     /\ idle' = [idle EXCEPT ![k] = 0]
     /\ UNCHANGED <<spent, elapsed>>

(* An observer starts to count, at any moment.                             *)
Observe ==
  /\ spent' = [k \in Keys |-> 0]
  /\ elapsed' = 0
  /\ UNCHANGED <<level, idle>>

Next == Tick \/ (\E k \in Keys : Take(k) \/ Refuse(k)) \/ Observe

Spec == Init /\ [][Next]_vars
=============================================================================
