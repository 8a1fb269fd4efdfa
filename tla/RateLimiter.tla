----------------------------- MODULE RateLimiter -----------------------------
(***************************************************************************)
(* The in-memory token buckets of the playground                           *)
(* (internal/playground/ratelimit.go, used by http.go): Allow refills the  *)
(* bucket of a key lazily, and collects the buckets of other keys of its   *)
(* limiter that have been idle.  Allow runs under mu, so it is one step.   *)
(* Tokens are counted in fractions (Unit of them make a token), time in    *)
(* ticks.  A key is taken together with its limiter.                       *)
(***************************************************************************)
EXTENDS Integers

CONSTANTS
  Limiters,
  Keys,
  LimiterOf,  \* the limiter a key is used with
  Cap,        \* burst of that limiter, in fractions of a token
  Rate,       \* fractions its buckets gain in a tick
  Unit,       \* fractions in one token
  GCWindow,   \* gcWindow, in ticks
  Second,     \* ticks in a second
  MaxTime     \* bound on the clock

(* Of the limits config.go checks only that they are at least 1.           *)
ASSUME LimiterAssumption ==
  /\ LimiterOf \in [Keys -> Limiters]
  /\ Cap \in [Keys -> Nat] /\ Rate \in [Keys -> Nat \ {0}]
  /\ Unit \in Nat \ {0} /\ Second \in Nat \ {0}
  /\ GCWindow \in Nat /\ MaxTime \in Nat
  /\ \A k \in Keys : Unit <= Cap[k]

VARIABLES
  now,
  known,      \* the keys of the maps
  buckets,    \* the bucket of each known key; Blank for the others
  lastGC,     \* of each limiter; Never while lastGC.IsZero()
  spent,      \* observer: fractions taken by each key since mark
  mark,
  advice      \* observer: when a refused key may come back, 0 if not refused

vars == <<now, known, buckets, lastGC, spent, mark, advice>>

Never == -1
Blank == [tokens |-> 0, last |-> 0, lastSeen |-> 0]

AtMost(bound, n) == IF n > bound THEN bound ELSE n
AtLeast(bound, n) == IF n < bound THEN bound ELSE n

TypeOK ==
  /\ now \in Nat
  /\ known \in SUBSET Keys
  /\ buckets \in [Keys -> [tokens : Nat, last : Nat, lastSeen : Nat]]
  /\ lastGC \in [Limiters -> Nat \cup {Never}]
  /\ spent \in [Keys -> Nat]
  /\ mark \in Nat
  /\ advice \in [Keys -> Nat]
  /\ \A k \in Keys : buckets[k].tokens <= Cap[k]

Init ==
  /\ now = 0
  /\ known = {}
  /\ buckets = [k \in Keys |-> Blank]
  /\ lastGC = [l \in Limiters |-> Never]
  /\ spent = [k \in Keys |-> 0]
  /\ mark = 0
  /\ advice = [k \in Keys |-> 0]
-----------------------------------------------------------------------------
GCDue(l) == lastGC[l] # Never /\ now - lastGC[l] >= GCWindow

(* Mutant: buckets idle for half the window are collected too.             *)
CollectedEarly(l) ==
  {k \in known : LimiterOf[k] = l /\ GCDue(l) /\ 2 * (now - buckets[k].lastSeen) > GCWindow}

(* gcLocked: the keys it deletes.                                          *)
Collected(l) ==
  {k \in known : LimiterOf[k] = l /\ GCDue(l) /\ now - buckets[k].lastSeen > GCWindow}

(* Mutant: the refill is not capped by the burst.                          *)
FillUncapped(k) == buckets[k].tokens + Rate[k] * (now - buckets[k].last)

Fill(k) == AtMost(Cap[k], buckets[k].tokens + Rate[k] * (now - buckets[k].last))

(* The tokens of k once Allow has collected, created and refilled.         *)
Refilled(k) == IF k \in known \ Collected(LimiterOf[k]) THEN Fill(k) ELSE Cap[k]

(* What Allow leaves behind: k keeps tokens, the idle keys are gone.       *)
Touch(k, tokens) ==
  LET l == LimiterOf[k] IN
  /\ known' = (known \ Collected(l)) \cup {k}
  /\ buckets' = [j \in Keys |->
       IF j = k THEN [tokens |-> tokens, last |-> now, lastSeen |-> now]
       ELSE IF j \in Collected(l) THEN Blank
       ELSE buckets[j]]
  /\ lastGC' = IF lastGC[l] = Never \/ GCDue(l) THEN [lastGC EXCEPT ![l] = now] ELSE lastGC
  /\ UNCHANGED <<now, mark>>

Grant(k) ==
  /\ Refilled(k) >= Unit
  /\ Touch(k, Refilled(k) - Unit)
  /\ spent' = [spent EXCEPT ![k] = @ + Unit]
  /\ advice' = [advice EXCEPT ![k] = 0]

(* The wait Allow returns with a refusal, cut to a whole tick.             *)
Wait(k) == AtLeast(Second, (Unit - Refilled(k)) \div Rate[k])

(* Mutant: the wait is taken to be in units of three seconds.              *)
RetryAfterScaled(k) == AtLeast(1, Wait(k) \div (3 * Second))

(* writeRetryAfter: whole seconds, cut off, at least one.                  *)
RetryAfter(k) == AtLeast(1, Wait(k) \div Second)

Deny(k) ==
  /\ Refilled(k) < Unit
  /\ Touch(k, Refilled(k))
  /\ advice' = [advice EXCEPT ![k] = now + (RetryAfter(k) + 1) * Second]
  /\ UNCHANGED spent

Tick ==
  /\ now < MaxTime
  /\ now' = now + 1
  /\ UNCHANGED <<known, buckets, lastGC, spent, mark, advice>>

(* The observer starts to count.                                           *)
Observe ==
  /\ spent' = [k \in Keys |-> 0]
  /\ mark' = now
  /\ UNCHANGED <<now, known, buckets, lastGC, advice>>

Next == Tick \/ (\E k \in Keys : Grant(k) \/ Deny(k)) \/ Observe

Spec == Init /\ [][Next]_vars
-----------------------------------------------------------------------------
(* The bucket of k, full when it is not there, and how long nobody asked   *)
(* for it.                                                                 *)
Level(k) == IF k \in known THEN Fill(k) ELSE Cap[k]
Idle(k) == IF k \in known THEN AtMost(GCWindow + 1, now - buckets[k].last) ELSE GCWindow + 1

Bucket == INSTANCE TokenBucket WITH
            Window <- GCWindow, level <- [k \in Keys |-> Level(k)],
            idle <- [k \in Keys |-> Idle(k)], elapsed <- now - mark

(* Lazy refill cannot be told from buckets that fill all the time, and     *)
(* collection only from time to time: no request of one key changes what   *)
(* another finds, unless that one stayed away for more than gcWindow.      *)
ActsAsBucket == Bucket!Spec

(* What a bucket that is collected lacks at most: nothing when the rate    *)
(* fills the burst within gcWindow.                                        *)
Surplus(k) == AtLeast(0, Cap[k] - Rate[k] * (GCWindow + 1))

(* What a key may take in a period: its burst, its rate, and the surplus   *)
(* as often as it can have stayed away and come back.                      *)
Allowance(k, period) ==
  Cap[k] + Rate[k] * period + Surplus(k) * (period \div (GCWindow + 1))

(* However a period is chosen, the requests admitted for a key in it stay  *)
(* within that (Allow, also across gcLocked).                              *)
WithinBurst == \A k \in Keys : spent[k] <= Allowance(k, now - mark)

(* Retry-After is cut to whole seconds, so it can be up to a second short, *)
(* and no more: a key that stays away for a second longer finds a token,   *)
(* also when its bucket has been collected meanwhile.                      *)
RetryAfterHonest ==
  \A k \in Keys : advice[k] # 0 /\ now >= advice[k] => Level(k) >= Unit
=============================================================================
