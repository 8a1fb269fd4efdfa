--------------------------- MODULE AdmissionProofs ---------------------------
(***************************************************************************)
(* RateLimiter implements TokenBucket and Admission keeps its limits, for  *)
(* every burst, rate and window.  The inductive invariant of the limiters  *)
(* says that a bucket was last seen when it was last refilled (so what a   *)
(* bucket lacks when it is collected is known) and bounds what a bucket    *)
(* holds together with what was taken from it.                             *)
(***************************************************************************)
EXTENDS Admission, FiniteSetTheorems, TLAPS

(* Times lie in the past, and lastSeen adds nothing to last.               *)
Clock ==
  /\ mark <= now
  /\ \A k \in known : buckets[k].last <= now /\ buckets[k].lastSeen = buckets[k].last

(* x was taken from the bucket of k since m, and the allowance covers that *)
(* together with what is left in the bucket: at its last refill if it is   *)
(* there, now if it is not.                                                *)
Covered(k, m, x) ==
  IF k \in known THEN x = 0 \/ (m <= buckets[k].last /\ x + buckets[k].tokens <= Allowance(k, buckets[k].last - m))
                 ELSE x = 0 \/ x + Cap[k] <= Allowance(k, now - m)

Conserved == \A k \in Keys : Covered(k, mark, spent[k])

(* A refused key has its token by the time it was told, and a little more. *)
Promised ==
  \A k \in Keys :
    advice[k] # 0 /\ k \in known =>
      buckets[k].tokens + Rate[k] * (advice[k] - buckets[k].last) >= Unit

LimiterInv == TypeOK /\ Clock /\ Conserved /\ Promised
-----------------------------------------------------------------------------
(* Multiplication by a rate keeps the order of times.                      *)
LEMMA Monotone ==
  ASSUME NEW r \in Nat, NEW a \in Int, NEW b \in Int, a <= b
  PROVE  r * a <= r * b
OBVIOUS

(* One tick adds one rate.                                                 *)
LEMMA OneMore ==
  ASSUME NEW r \in Nat, NEW a \in Int
  PROVE  r * (a + 1) = r * a + r
OBVIOUS

(* A bucket that fills for a time and then for another holds the same as   *)
(* one that fills for both at once: the cap can be applied at any moment.  *)
LEMMA Clipped ==
  ASSUME NEW c \in Nat, NEW x \in Nat, NEW y \in Nat
  PROVE  AtMost(c, AtMost(c, x) + y) = AtMost(c, x + y)
BY DEF AtMost

(* Retry-After is less than a second short of the wait.                    *)
LEMMA SecondsCover ==
  ASSUME NEW w \in Nat, NEW s \in Nat \ {0}
  PROVE  (w \div s) \in Nat /\ ((w \div s) + 1) * s > w
OBVIOUS

(* The wait, cut to a tick, is less than a tick short.                     *)
LEMMA TicksCover ==
  ASSUME NEW m \in Nat, NEW r \in Nat \ {0}
  PROVE  (m \div r) \in Nat /\ r * ((m \div r) + 1) > m
OBVIOUS

(* The arithmetic of a refill: it is a number of tokens within the burst.  *)
LEMMA FillType ==
  ASSUME TypeOK, Clock, NEW k \in known
  PROVE  /\ Fill(k) \in Nat /\ Fill(k) <= Cap[k]
         /\ Rate[k] * (now - buckets[k].last) \in Nat
<1>1. k \in Keys /\ buckets[k].tokens \in Nat /\ now - buckets[k].last \in Nat
  BY DEF TypeOK, Clock
<1>2. Cap[k] \in Nat /\ Rate[k] \in Nat
  BY <1>1, LimiterAssumption
<1>3. Rate[k] * (now - buckets[k].last) \in Nat
  BY <1>1, <1>2
<1> QED
  BY <1>1, <1>2, <1>3 DEF Fill, AtMost

(* A level is a number of tokens within the burst.                         *)
LEMMA LevelType ==
  ASSUME TypeOK, Clock, NEW k \in Keys
  PROVE  Level(k) \in Nat /\ Level(k) <= Cap[k]
<1>1. Cap[k] \in Nat
  BY LimiterAssumption
<1> QED
  BY <1>1, FillType DEF Level

(* What a request finds is a number of tokens within the burst.            *)
LEMMA RefilledType ==
  ASSUME TypeOK, Clock, NEW k \in Keys
  PROVE  Refilled(k) \in Nat /\ Refilled(k) <= Cap[k]
<1>1. Cap[k] \in Nat
  BY LimiterAssumption
<1> QED
  BY <1>1, FillType DEF Refilled

(* The largest quotient.                                                   *)
LEMMA QuotientLargest ==
  ASSUME NEW b \in Nat, NEW w \in Nat \ {0}, NEW n \in Nat, n * w <= b
  PROVE  (b \div w) \in Nat /\ n <= b \div w
<1> DEFINE p == b \div w
<1>1. p \in Nat /\ (p + 1) * w > b
  BY SecondsCover
<1> HIDE DEF p
<1>2. ASSUME p + 1 <= n PROVE FALSE
  <2>1. (p + 1) * w <= n * w
    BY <1>1, <1>2
  <2>2. (p + 1) * w \in Nat /\ n * w \in Nat
    BY <1>1
  <2> QED BY <1>1, <2>1, <2>2
<1> QED BY <1>1, <1>2 DEF p

(* A quotient never exceeds what it divides.                               *)
LEMMA QuotientFits ==
  ASSUME NEW b \in Nat, NEW w \in Nat \ {0}
  PROVE  (b \div w) \in Nat /\ (b \div w) * w \in Nat /\ (b \div w) * w <= b
OBVIOUS

(* The numbers of an allowance.                                            *)
LEMMA SurplusType ==
  ASSUME NEW k \in Keys
  PROVE  /\ Cap[k] \in Nat /\ Rate[k] \in Nat /\ GCWindow + 1 \in Nat \ {0}
         /\ Rate[k] * (GCWindow + 1) \in Nat
         /\ Surplus(k) \in Nat /\ Cap[k] <= Rate[k] * (GCWindow + 1) + Surplus(k)
<1>1. Cap[k] \in Nat /\ Rate[k] \in Nat /\ GCWindow + 1 \in Nat \ {0}
  BY LimiterAssumption
<1>2. Rate[k] * (GCWindow + 1) \in Nat
  BY <1>1
<1> DEFINE c == Cap[k]
           f == Rate[k] * (GCWindow + 1)
<1> HIDE DEF c, f
<1>3. Surplus(k) = AtLeast(0, c - f)
  BY DEF Surplus, c, f
<1>4. c \in Nat /\ f \in Nat
  BY <1>1, <1>2 DEF c, f
<1>5. Surplus(k) \in Nat /\ c <= f + Surplus(k)
  BY <1>3, <1>4 DEF AtLeast
<1> QED BY <1>1, <1>2, <1>5 DEF c, f

(* An allowance in its parts.                                              *)
LEMMA AllowanceParts ==
  ASSUME NEW k \in Keys, NEW a \in Nat
  PROVE  /\ a \div (GCWindow + 1) \in Nat
         /\ Rate[k] * a \in Nat /\ Surplus(k) * (a \div (GCWindow + 1)) \in Nat
         /\ Allowance(k, a) = Cap[k] + Rate[k] * a + Surplus(k) * (a \div (GCWindow + 1))
<1>1. a \div (GCWindow + 1) \in Nat
  BY SurplusType, QuotientFits
<1>2. Surplus(k) * (a \div (GCWindow + 1)) \in Nat
  <2> DEFINE q == a \div (GCWindow + 1)
  <2> HIDE DEF q
  <2>1. Surplus(k) \in Nat /\ q \in Nat
    BY <1>1, SurplusType DEF q
  <2>2. Surplus(k) * q \in Nat
    BY <2>1
  <2> QED BY <2>2 DEF q
<1>3. Rate[k] * a \in Nat
  BY SurplusType
<1> QED BY <1>1, <1>2, <1>3 DEF Allowance

(* In time an allowance grows by the rate at least.                        *)
LEMMA AllowanceGrows ==
  ASSUME NEW k \in Keys, NEW a \in Nat, NEW d \in Nat
  PROVE  /\ Allowance(k, a) \in Nat /\ Cap[k] <= Allowance(k, a)
         /\ Rate[k] * d \in Nat
         /\ Allowance(k, a) + Rate[k] * d <= Allowance(k, a + d)
<1> DEFINE w == GCWindow + 1
           q == a \div w
           p == (a + d) \div w
           s == Surplus(k)
           c == Cap[k]
           ra == Rate[k] * a
           rd == Rate[k] * d
           rb == Rate[k] * (a + d)
           sq == s * q
           sp == s * p
<1>1. w \in Nat \ {0} /\ s \in Nat /\ c \in Nat /\ Rate[k] \in Nat /\ a + d \in Nat
  BY SurplusType
<1>2. q \in Nat /\ ra \in Nat /\ sq \in Nat /\ Allowance(k, a) = c + ra + sq
  BY AllowanceParts
<1>3. p \in Nat /\ rb \in Nat /\ sp \in Nat /\ Allowance(k, a + d) = c + rb + sp
  BY SMTT(30), <1>1, AllowanceParts
<1>4. q <= p
  <2>1. q * w \in Nat /\ q * w <= a
    BY <1>1, QuotientFits
  <2>2. q * w <= a + d
    BY <2>1
  <2> HIDE DEF q, w
  <2> QED BY Zenon, <1>1, <1>2, <2>2, QuotientLargest
<1>5. rd \in Nat /\ rb = ra + rd
  BY <1>1
<1> HIDE DEF w, q, p, s
<1>6. sq <= sp
  BY <1>1, <1>2, <1>3, <1>4
<1> HIDE DEF c, ra, rd, rb, sq, sp
<1>7. c <= c + ra + sq /\ c + ra + sq \in Nat /\ c + ra + sq + rd <= c + rb + sp
  BY <1>1, <1>2, <1>3, <1>5, <1>6
<1> QED BY <1>2, <1>3, <1>5, <1>7 DEF c, rd

(* In more than a window it grows by a burst at least.                     *)
LEMMA AllowanceReturns ==
  ASSUME NEW k \in Keys, NEW a \in Nat, NEW d \in Nat, d > GCWindow
  PROVE  Allowance(k, a) + Cap[k] <= Allowance(k, a + d)
<1> DEFINE w == GCWindow + 1
           q == a \div w
           p == (a + d) \div w
           s == Surplus(k)
           c == Cap[k]
           ra == Rate[k] * a
           rd == Rate[k] * d
           rw == Rate[k] * w
           rb == Rate[k] * (a + d)
           sq == s * q
           sp == s * p
<1>1. /\ w \in Nat \ {0} /\ s \in Nat /\ c \in Nat /\ Rate[k] \in Nat /\ a + d \in Nat
      /\ rw \in Nat /\ c <= rw + s
  BY SurplusType
<1>2. q \in Nat /\ ra \in Nat /\ sq \in Nat /\ Allowance(k, a) = c + ra + sq
  BY AllowanceParts
<1>3. p \in Nat /\ rb \in Nat /\ sp \in Nat /\ Allowance(k, a + d) = c + rb + sp
  BY <1>1, AllowanceParts
<1>4. d >= w
  BY LimiterAssumption
<1>5. q + 1 <= p
  <2>1. q * w \in Nat /\ q * w <= a
    BY <1>1, QuotientFits
  <2> HIDE DEF q, w
  <2>2. (q + 1) * w = q * w + w
    BY <1>1, <1>2
  <2>3. (q + 1) * w <= a + d
    BY <1>1, <1>4, <2>1, <2>2
  <2>4. q + 1 \in Nat
    BY <1>2
  <2> QED BY Zenon, <1>1, <2>3, <2>4, QuotientLargest
<1>6. rd \in Nat /\ rb = ra + rd
  BY <1>1
<1>7. rw <= rd
  BY <1>1, <1>4, Monotone
<1> HIDE DEF w, q, p, s
<1>8. s * (q + 1) = sq + s /\ s * (q + 1) <= sp /\ s * (q + 1) \in Nat
  BY <1>1, <1>2, <1>3, <1>5
<1> HIDE DEF c, ra, rd, rw, rb, sq, sp
<1>9. c + ra + sq + c <= c + rb + sp
  BY <1>1, <1>2, <1>3, <1>6, <1>7, <1>8
<1> QED BY <1>2, <1>3, <1>9 DEF c

(* A number that is collected now was there, and nobody asked for it.      *)
LEMMA CollectedIdle ==
  ASSUME TypeOK, Clock, NEW l, NEW j \in Collected(l)
  PROVE  /\ j \in Keys /\ j \in known /\ Idle(j) = GCWindow + 1
         /\ now - buckets[j].last \in Nat /\ now - buckets[j].last > GCWindow
<1>1. j \in Keys /\ j \in known /\ now - buckets[j].lastSeen > GCWindow
  BY DEF Collected, TypeOK
<1>2. buckets[j].last \in Nat /\ now \in Nat /\ buckets[j].last <= now /\ buckets[j].lastSeen = buckets[j].last
  BY <1>1 DEF TypeOK, Clock
<1>3. now - buckets[j].last \in Nat /\ now - buckets[j].last > GCWindow
  BY <1>1, <1>2
<1>4. Idle(j) = GCWindow + 1
  BY <1>1, <1>3, LimiterAssumption DEF Idle, AtMost
<1> QED BY <1>1, <1>3, <1>4

(* A tick makes every bucket idle for longer, up to the window and one.    *)
LEMMA TickIdle ==
  ASSUME TypeOK, Clock, Tick, NEW k \in Keys
  PROVE  Idle(k)' = AtMost(GCWindow + 1, Idle(k) + 1)
<1>1. now' = now + 1 /\ known' = known /\ buckets' = buckets /\ GCWindow \in Nat /\ now \in Nat
  BY LimiterAssumption DEF Tick, TypeOK
<1>2. CASE k \in known
  <2>1. buckets[k].last \in Nat /\ buckets[k].last <= now
    BY <1>2 DEF TypeOK, Clock
  <2>2. Idle(k) = AtMost(GCWindow + 1, now - buckets[k].last)
        /\ Idle(k)' = AtMost(GCWindow + 1, (now + 1) - buckets[k].last)
    BY Zenon, <1>1, <1>2 DEF Idle
  <2> QED BY <1>1, <2>1, <2>2 DEF AtMost
<1>3. CASE k \notin known
  BY <1>1, <1>3 DEF Idle, AtMost
<1> QED BY <1>2, <1>3

(* What a request of k does to every bucket: k is asked for now, the       *)
(* collected ones are full, the others are as they were.                   *)
LEMMA TouchLevels ==
  ASSUME TypeOK, Clock, NEW k \in Keys, NEW t \in Nat, t <= Cap[k], Touch(k, t)
  PROVE  /\ Level(k)' = t /\ Idle(k)' = 0
         /\ \A j \in Keys \ {k} :
              /\ Level(j)' = IF j \in Collected(LimiterOf[k]) THEN Cap[j] ELSE Level(j)
              /\ Idle(j)' = Idle(j)
<1>1. now' = now /\ now \in Nat
  BY DEF Touch, TypeOK
<1>2. k \in known' /\ buckets'[k].tokens = t /\ buckets'[k].last = now
  BY DEF Touch
<1>3. Cap[k] \in Nat /\ Rate[k] * 0 = 0 /\ now - now = 0 /\ GCWindow \in Nat
  BY <1>1, LimiterAssumption
<1>4. Level(k)' = t
  <2>1. t + Rate[k] * (now - now) = t
    BY <1>3
  <2>2. Fill(k)' = AtMost(Cap[k], t + Rate[k] * (now - now))
    BY <1>1, <1>2 DEF Fill
  <2>3. AtMost(Cap[k], t) = t
    BY <1>3 DEF AtMost
  <2> QED BY Zenon, <1>2, <2>1, <2>2, <2>3 DEF Level
<1>5. Idle(k)' = 0
  <2>1. Idle(k)' = AtMost(GCWindow + 1, now - now)
    BY Zenon, <1>1, <1>2 DEF Idle
  <2> QED BY <2>1, <1>3 DEF AtMost
<1>6. ASSUME NEW j \in Keys \ {k}
      PROVE  /\ Level(j)' = IF j \in Collected(LimiterOf[k]) THEN Cap[j] ELSE Level(j)
             /\ Idle(j)' = Idle(j)
  <2>1. CASE j \in Collected(LimiterOf[k])
    <3>1. j \notin known' /\ Idle(j) = GCWindow + 1
      BY <2>1, CollectedIdle DEF Touch
    <3> QED BY <2>1, <3>1 DEF Level, Idle
  <2>2. CASE j \notin Collected(LimiterOf[k])
    <3>1. (j \in known' <=> j \in known) /\ buckets'[j] = buckets[j]
      BY <2>2 DEF Touch
    <3> QED BY <1>1, <2>2, <3>1 DEF Level, Fill, Idle
  <2> QED BY <2>1, <2>2
<1> QED BY <1>4, <1>5, <1>6

(* A tick fills every bucket, collected or not.                            *)
LEMMA TickLevels ==
  ASSUME TypeOK, Clock, Tick, NEW k \in Keys
  PROVE  Level(k)' = AtMost(Cap[k], Level(k) + Rate[k])
<1>1. Cap[k] \in Nat /\ Rate[k] \in Nat
  BY LimiterAssumption
<1>2. CASE k \notin known
  BY <1>1, <1>2 DEF Level, Tick, AtMost
<1>3. CASE k \in known
  <2> DEFINE a == now - buckets[k].last
             x == buckets[k].tokens + Rate[k] * a
  <2>1. a \in Nat /\ buckets[k].tokens \in Nat /\ x \in Nat
    BY <1>3, FillType DEF TypeOK, Clock
  <2>2. now' - buckets'[k].last = a + 1 /\ buckets'[k] = buckets[k] /\ known' = known
    <3>1. now' = now + 1 /\ buckets' = buckets /\ known' = known
      BY DEF Tick
    <3>2. now \in Int /\ buckets[k].last \in Int
      BY DEF TypeOK
    <3> QED
      BY <3>1, <3>2
  <2>3. Rate[k] * (a + 1) = Rate[k] * a + Rate[k]
    BY <2>1, <1>1, OneMore
  <2>4. Fill(k)' = AtMost(Cap[k], buckets[k].tokens + Rate[k] * (a + 1))
    BY <2>2 DEF Fill
  <2>5. Rate[k] * a \in Nat
    BY <1>3, FillType
  <2>6. Fill(k)' = AtMost(Cap[k], x + Rate[k])
    <3>1. buckets[k].tokens + Rate[k] * (a + 1) = x + Rate[k]
      BY <2>1, <2>3, <2>5, <1>1
    <3> QED
      BY <3>1, <2>4
  <2>7. AtMost(Cap[k], AtMost(Cap[k], x) + Rate[k]) = AtMost(Cap[k], x + Rate[k])
    <3> HIDE DEF x
    <3> QED
      BY SMTT(30), <2>1, <1>1, Clipped
  <2> QED
    BY <1>3, <2>2, <2>6, <2>7 DEF Level, Fill
<1> QED
  BY <1>2, <1>3
-----------------------------------------------------------------------------
(* Nothing taken is always covered.                                        *)
LEMMA CoveredNothing ==
  ASSUME NEW k, NEW m
  PROVE  Covered(k, m, 0)
BY DEF Covered

(* Whoever has taken less is covered too.                                  *)
LEMMA CoveredLess ==
  ASSUME TypeOK, Clock, NEW k \in Keys, NEW m \in Nat, m <= now, NEW x \in Nat, NEW y \in Nat, y <= x,
         Covered(k, m, x)
  PROVE  Covered(k, m, y)
<1>1. buckets[k].tokens \in Nat /\ buckets[k].last \in Nat /\ now \in Nat /\ Cap[k] \in Nat
  BY LimiterAssumption DEF TypeOK
<1>2. CASE y = 0
  BY <1>2, CoveredNothing
<1>3. CASE y # 0 /\ k \in known
  <2>1. m <= buckets[k].last /\ x + buckets[k].tokens <= Allowance(k, buckets[k].last - m)
    BY <1>3 DEF Covered
  <2>2. Allowance(k, buckets[k].last - m) \in Nat
    BY <1>1, <2>1, AllowanceGrows
  <2>3. y + buckets[k].tokens <= Allowance(k, buckets[k].last - m)
    BY <1>1, <2>1, <2>2
  <2> QED BY <1>3, <2>1, <2>3 DEF Covered
<1>4. CASE y # 0 /\ k \notin known
  <2>1. x + Cap[k] <= Allowance(k, now - m)
    BY <1>4 DEF Covered
  <2>2. Allowance(k, now - m) \in Nat
    BY <1>1, AllowanceGrows
  <2>3. y + Cap[k] <= Allowance(k, now - m)
    BY <1>1, <2>1, <2>2
  <2> QED BY <1>4, <2>3 DEF Covered
<1> QED BY <1>2, <1>3, <1>4

(* What was taken and what a request finds now, be the bucket collected or *)
(* not, is within the allowance.                                           *)
LEMMA CoveredNow ==
  ASSUME TypeOK, Clock, NEW k \in Keys, NEW m \in Nat, m <= now, NEW x \in Nat, Covered(k, m, x)
  PROVE  /\ Allowance(k, now - m) \in Nat
         /\ x + Refilled(k) <= Allowance(k, now - m)
         /\ k \in Collected(LimiterOf[k]) => x = 0 \/ x + Cap[k] <= Allowance(k, now - m)
<1>1. now \in Nat /\ now - m \in Nat /\ Cap[k] \in Nat /\ Rate[k] \in Nat
  BY LimiterAssumption DEF TypeOK
<1>2. Allowance(k, now - m) \in Nat /\ Cap[k] <= Allowance(k, now - m)
  BY Zenon, <1>1, AllowanceGrows
<1>3. Refilled(k) \in Nat /\ Refilled(k) <= Cap[k]
  BY RefilledType
<1>4. CASE x = 0
  <2>1. 0 + Refilled(k) <= Allowance(k, now - m)
    BY <1>1, <1>2, <1>3
  <2> QED BY Zenon, <1>2, <1>4, <2>1
<1>5. CASE x # 0 /\ k \notin known
  <2>1. x + Cap[k] <= Allowance(k, now - m) /\ Refilled(k) = Cap[k] /\ k \notin Collected(LimiterOf[k])
    BY <1>5 DEF Covered, Refilled, Collected
  <2> QED BY <1>2, <2>1
<1>6. CASE x # 0 /\ k \in known
  <2> DEFINE b == buckets[k]
             d == now - b.last
             e == b.last - m
  <2>1. /\ b.tokens \in Nat /\ b.last \in Nat /\ b.last <= now /\ b.lastSeen = b.last
        /\ b.tokens <= Cap[k]
    BY <1>6 DEF TypeOK, Clock
  <2>2. m <= b.last /\ x + b.tokens <= Allowance(k, e)
    BY <1>6 DEF Covered
  <2>3. d \in Nat /\ e \in Nat /\ e + d = now - m
    BY <1>1, <2>1, <2>2
  <2>4. Allowance(k, e) \in Nat /\ Rate[k] * d \in Nat /\ Allowance(k, e) + Rate[k] * d <= Allowance(k, e + d)
    BY Zenon, <2>3, AllowanceGrows
  <2>5. CASE k \in Collected(LimiterOf[k])
    <3>1. d > GCWindow
      BY <2>5, CollectedIdle
    <3>2. Allowance(k, e) + Cap[k] <= Allowance(k, now - m)
      BY <3>1, <2>3, AllowanceReturns
    <3>3. x + Cap[k] <= Allowance(k, now - m)
      <4> HIDE DEF e, b
      <4> QED BY <3>2, <2>1, <2>2, <2>4, <1>1, <1>2
    <3> QED BY <3>3, <1>1, <1>2, <1>3
  <2>6. CASE k \notin Collected(LimiterOf[k])
    <3>1. Refilled(k) = Fill(k)
      BY <1>6, <2>6 DEF Refilled
    <3>2. Fill(k) <= b.tokens + Rate[k] * d
      BY <1>1, <2>1, <2>4 DEF Fill, AtMost
    <3> HIDE DEF b, d, e
    <3>3. x + Fill(k) <= Allowance(k, e) + Rate[k] * d
      BY <1>3, <3>1, <3>2, <2>1, <2>2, <2>4
    <3> QED BY <1>2, <1>3, <3>1, <3>3, <2>3, <2>4, <2>6
  <2> QED BY <2>5, <2>6
<1> QED BY <1>4, <1>5, <1>6

(* A request of k leaves the others covered, and k if what it leaves there *)
(* is covered.                                                             *)
LEMMA TouchCovered ==
  ASSUME TypeOK, Clock, NEW k \in Keys, NEW t \in Nat, Touch(k, t),
         NEW m \in Nat, m <= now, NEW j \in Keys, NEW x \in Nat,
         IF j = k THEN x + t <= Allowance(k, now - m) ELSE Covered(j, m, x)
  PROVE  Covered(j, m, x)'
<1>1. now' = now
  BY DEF Touch
<1>2. CASE j = k
  <2>1. k \in known' /\ buckets'[k].tokens = t /\ buckets'[k].last = now
    BY DEF Touch
  <2> QED BY <1>1, <1>2, <2>1 DEF Covered
<1>3. CASE j # k /\ j \in Collected(LimiterOf[k])
  <2>1. j \notin known' /\ LimiterOf[j] = LimiterOf[k]
    BY <1>3 DEF Touch, Collected
  <2>2. x = 0 \/ x + Cap[j] <= Allowance(j, now - m)
    BY <1>3, <2>1, CoveredNow
  <2> QED BY Zenon, <1>1, <2>1, <2>2 DEF Covered
<1>4. CASE j # k /\ j \notin Collected(LimiterOf[k])
  <2>1. (j \in known' <=> j \in known) /\ buckets'[j] = buckets[j]
    BY <1>4 DEF Touch
  <2> QED BY <1>1, <1>4, <2>1 DEF Covered
<1> QED BY <1>2, <1>3, <1>4

(* A granted request is covered once it has taken its token.               *)
LEMMA GrantCovered ==
  ASSUME TypeOK, Clock, NEW k \in Keys, Grant(k), NEW m \in Nat, m <= now, NEW j \in Keys, NEW x \in Nat,
         Covered(j, m, x)
  PROVE  Covered(j, m, IF j = k THEN x + Unit ELSE x)'
<1> DEFINE t == Refilled(k) - Unit
           y == IF j = k THEN x + Unit ELSE x
<1>1. Refilled(k) \in Nat /\ Unit \in Nat
  BY RefilledType, LimiterAssumption
<1>2. t \in Nat /\ Touch(k, t)
  BY <1>1 DEF Grant
<1>3. y \in Nat
  BY <1>1
<1>4. IF j = k THEN y + t <= Allowance(k, now - m) ELSE Covered(j, m, y)
  <2>1. CASE j = k
    <3>1. x + Refilled(k) <= Allowance(k, now - m)
      BY <2>1, CoveredNow
    <3>2. (x + Unit) + t = x + Refilled(k)
      BY <1>1
    <3> QED BY <2>1, <3>1, <3>2
  <2>2. CASE j # k
    BY <2>2
  <2> QED BY <2>1, <2>2
<1> HIDE DEF t
<1> QED
  <2>1. PICK z \in Nat : z = y
    BY <1>3
  <2>2. PICK u \in Nat : u = t
    BY <1>2
  <2> HIDE DEF y
  <2>3. IF j = k THEN z + u <= Allowance(k, now - m) ELSE Covered(j, m, z)
    BY Zenon, <1>4, <2>1, <2>2
  <2>4. Touch(k, u)
    BY <1>2, <2>2
  <2>5. Covered(j, m, z)'
    BY <2>3, <2>4, TouchCovered
  <2> QED BY <2>1, <2>5 DEF y

(* A refused request takes nothing.                                        *)
LEMMA DenyCovered ==
  ASSUME TypeOK, Clock, NEW k \in Keys, Deny(k), NEW m \in Nat, m <= now, NEW j \in Keys, NEW x \in Nat,
         Covered(j, m, x)
  PROVE  Covered(j, m, x)'
<1>1. Refilled(k) \in Nat
  BY RefilledType, LimiterAssumption
<1>2. PICK u \in Nat : u = Refilled(k)
  BY <1>1
<1>3. Touch(k, u)
  BY <1>2 DEF Deny
<1>4. IF j = k THEN x + u <= Allowance(k, now - m) ELSE Covered(j, m, x)
  BY <1>2, CoveredNow
<1> QED BY <1>3, <1>4, TouchCovered

(* Time covers what it covered.                                            *)
LEMMA TickCovered ==
  ASSUME TypeOK, Clock, Tick, NEW m \in Nat, m <= now, NEW j \in Keys, NEW x \in Nat, Covered(j, m, x)
  PROVE  Covered(j, m, x)'
<1>1. now' = now + 1 /\ known' = known /\ buckets' = buckets /\ now \in Nat
  BY DEF Tick, TypeOK
<1>2. CASE j \in known \/ x = 0
  BY <1>1, <1>2 DEF Covered
<1>3. CASE j \notin known /\ x # 0
  <2> DEFINE e == now - m
  <2>1. e \in Nat /\ e + 1 = (now + 1) - m /\ Cap[j] \in Nat
    BY <1>1, LimiterAssumption
  <2>2. x + Cap[j] <= Allowance(j, e)
    BY <1>3 DEF Covered
  <2>3. /\ Allowance(j, e) \in Nat /\ Allowance(j, e + 1) \in Nat /\ Rate[j] * 1 \in Nat
        /\ Allowance(j, e) + Rate[j] * 1 <= Allowance(j, e + 1)
    BY <2>1, AllowanceGrows
  <2> HIDE DEF e
  <2>4. x + Cap[j] <= Allowance(j, e + 1)
    BY <2>1, <2>2, <2>3
  <2> QED BY <1>1, <1>3, <2>1, <2>4 DEF Covered
<1> QED BY <1>2, <1>3

(* The initial state satisfies the invariant.                              *)
LEMMA InitInv == Init => LimiterInv
<1> SUFFICES ASSUME Init PROVE LimiterInv
  OBVIOUS
<1>1. TypeOK
  BY LimiterAssumption DEF Init, TypeOK, Blank
<1>2. Clock
  BY DEF Init, Clock
<1>3. Conserved
  BY CoveredNothing DEF Init, Conserved
<1>4. Promised
  BY DEF Init, Promised
<1> QED
  BY <1>1, <1>2, <1>3, <1>4 DEF LimiterInv

(* The parts of the invariant that every Allow keeps.                      *)
LEMMA TouchKeeps ==
  ASSUME LimiterInv, NEW k \in Keys, NEW t \in Nat, t <= Cap[k], Touch(k, t),
         spent' \in [Keys -> Nat], advice' \in [Keys -> Nat]
  PROVE  TypeOK' /\ Clock'
<1>1. TypeOK /\ Clock
  BY DEF LimiterInv
<1>2. now' = now /\ mark' = mark /\ now \in Nat /\ mark \in Nat
  BY <1>1 DEF Touch, TypeOK
<1>3. known' \in SUBSET Keys
  BY <1>1 DEF Touch, TypeOK
<1>4. buckets' \in [Keys -> [tokens : Nat, last : Nat, lastSeen : Nat]]
  BY <1>1 DEF Touch, TypeOK, Blank
<1>5. lastGC' \in [Limiters -> Nat \cup {Never}]
  BY <1>1, LimiterAssumption DEF Touch, TypeOK
<1>6. ASSUME NEW j \in Keys PROVE buckets'[j].tokens <= Cap[j]
  <2>1. Cap[j] \in Nat /\ buckets[j].tokens <= Cap[j]
    BY <1>1, LimiterAssumption DEF TypeOK
  <2> QED
    BY <2>1 DEF Touch, Blank
<1>7. ASSUME NEW j \in known'
      PROVE  buckets'[j].last <= now' /\ buckets'[j].lastSeen = buckets'[j].last
  <2>1. CASE j = k
    BY <2>1, <1>2 DEF Touch
  <2>2. CASE j # k
    <3>1. j \in known /\ j \in Keys /\ buckets'[j] = buckets[j]
      BY SMTT(30), <2>2, <1>7, <1>1 DEF Touch, TypeOK
    <3> QED
      BY <3>1, <1>1, <1>2 DEF Clock
  <2> QED
    BY <2>1, <2>2
<1>8. TypeOK'
  BY <1>2, <1>3, <1>4, <1>5, <1>6 DEF TypeOK
<1>9. Clock'
  BY <1>1, <1>2, <1>7 DEF Clock
<1> QED
  BY <1>8, <1>9

(* Allow breaks no other key's promise.                                    *)
LEMMA TouchPromises ==
  ASSUME LimiterInv, NEW k \in Keys, NEW t, Touch(k, t),
         NEW j \in Keys \ {k}, advice'[j] = advice[j], advice'[j] # 0, j \in known'
  PROVE  buckets'[j].tokens + Rate[j] * (advice'[j] - buckets'[j].last) >= Unit
<1>1. j \in known /\ buckets'[j] = buckets[j]
  BY SMTT(30) DEF Touch
<1> QED
  BY <1>1 DEF LimiterInv, Promised

(* The buckets a request forgets may be forgotten, and the rest of the     *)
(* step is that of the abstract buckets.                                   *)
LEMMA TouchForgets ==
  ASSUME TypeOK, Clock, NEW k \in Keys, NEW t \in Nat, t <= Cap[k], Touch(k, t)
  PROVE  /\ Collected(LimiterOf[k]) \in SUBSET Bucket!Forgettable
         /\ Bucket!Without(Collected(LimiterOf[k]))[k] = Refilled(k)
         /\ [j \in Keys |-> Level(j)'] = [Bucket!Without(Collected(LimiterOf[k])) EXCEPT ![k] = t]
         /\ [j \in Keys |-> Idle(j)'] = [[j \in Keys |-> Idle(j)] EXCEPT ![k] = 0]
         /\ now' - mark' = now - mark
<1> DEFINE S == Collected(LimiterOf[k])
<1>1. S \in SUBSET Bucket!Forgettable
  <2> SUFFICES ASSUME NEW j \in S PROVE j \in Bucket!Forgettable
    OBVIOUS
  <2>1. j \in Keys /\ Idle(j) = GCWindow + 1 /\ GCWindow \in Nat
    BY CollectedIdle, LimiterAssumption
  <2> QED BY <2>1 DEF Bucket!Forgettable
<1>2. Bucket!Without(S) = [j \in Keys |-> IF j \in S THEN Cap[j] ELSE Level(j)]
  BY DEF Bucket!Without
<1>3. Bucket!Without(S)[k] = Refilled(k)
  BY <1>2 DEF Refilled, Level
<1>4. /\ Level(k)' = t /\ Idle(k)' = 0
      /\ \A j \in Keys \ {k} : Level(j)' = (IF j \in S THEN Cap[j] ELSE Level(j)) /\ Idle(j)' = Idle(j)
  BY Zenon, TouchLevels
<1> HIDE DEF S
<1>5. [j \in Keys |-> Level(j)'] = [Bucket!Without(S) EXCEPT ![k] = t]
  BY Zenon, <1>2, <1>4
<1>6. [j \in Keys |-> Idle(j)'] = [[j \in Keys |-> Idle(j)] EXCEPT ![k] = 0]
  BY Zenon, <1>4
<1>7. now' - mark' = now - mark
  BY DEF Touch
<1> QED BY <1>1, <1>3, <1>5, <1>6, <1>7 DEF S

(* A granted request keeps the invariant and takes a token.                *)
LEMMA GrantStep ==
  ASSUME LimiterInv, NEW k \in Keys, Grant(k)
  PROVE  LimiterInv' /\ Bucket!Take(k)
<1>1. TypeOK /\ Clock /\ Conserved
  BY DEF LimiterInv
<1>2. Refilled(k) \in Nat /\ Refilled(k) <= Cap[k] /\ Refilled(k) >= Unit
  BY <1>1, RefilledType DEF Grant
<1>3. Unit \in Nat /\ Cap[k] \in Nat
  BY LimiterAssumption
<1> DEFINE t == Refilled(k) - Unit
<1>4. t \in Nat /\ t <= Cap[k]
  BY <1>2, <1>3
<1>5. Touch(k, t)
  BY <1>2 DEF Grant
<1> HIDE DEF t
<1>6. spent' = [spent EXCEPT ![k] = @ + Unit] /\ advice' = [advice EXCEPT ![k] = 0]
  BY DEF Grant
<1>7. TypeOK' /\ Clock'
  <2>1. spent' \in [Keys -> Nat] /\ advice' \in [Keys -> Nat]
    BY <1>1, <1>3, <1>6 DEF TypeOK
  <2> QED
    BY <1>4, <1>5, <2>1, TouchKeeps
<1>9. now' = now /\ mark' = mark
  BY <1>5 DEF Touch
<1>10. Conserved'
  <2> SUFFICES ASSUME NEW j \in Keys
               PROVE  Covered(j, mark, spent[j])'
    BY DEF Conserved
  <2>1. PICK m \in Nat : m = mark
    BY <1>1 DEF TypeOK
  <2>2. PICK x \in Nat : x = spent[j]
    BY <1>1 DEF TypeOK
  <2>3. m <= now /\ Covered(j, m, x)
    BY <1>1, <2>1, <2>2 DEF Clock, Conserved
  <2>4. Covered(j, m, IF j = k THEN x + Unit ELSE x)'
    BY <1>1, <2>3, GrantCovered
  <2>5. mark' = m /\ spent'[j] = IF j = k THEN x + Unit ELSE x
    BY <1>1, <1>6, <1>9, <2>1, <2>2 DEF TypeOK
  <2> QED BY Zenon, <2>4, <2>5
<1>11. Promised'
  <2> SUFFICES ASSUME NEW j \in Keys, advice'[j] # 0, j \in known'
               PROVE  buckets'[j].tokens + Rate[j] * (advice'[j] - buckets'[j].last) >= Unit
    BY DEF Promised
  <2>1. j # k /\ advice'[j] = advice[j]
    BY <1>1, <1>6 DEF TypeOK
  <2> QED
    BY <2>1, <1>5, TouchPromises
<1>12. Bucket!Take(k)
  <2> DEFINE S == Collected(LimiterOf[k])
  <2>1. PICK u \in Nat : u = t
    BY <1>4
  <2>2. Touch(k, u) /\ u <= Cap[k]
    BY <1>4, <1>5, <2>1
  <2>3. /\ S \in SUBSET Bucket!Forgettable /\ Bucket!Without(S)[k] = Refilled(k)
        /\ [j \in Keys |-> Level(j)'] = [Bucket!Without(S) EXCEPT ![k] = u]
        /\ [j \in Keys |-> Idle(j)'] = [[j \in Keys |-> Idle(j)] EXCEPT ![k] = 0]
        /\ now' - mark' = now - mark
    BY SMTT(30), <1>1, <2>2, TouchForgets
  <2> HIDE DEF S
  <2>4. [Bucket!Without(S) EXCEPT ![k] = u] = [Bucket!Without(S) EXCEPT ![k] = @ - Unit]
    BY <2>1, <2>3 DEF t
  <2> QED BY Zenon, <2>3, <2>4, <1>2, <1>6 DEF Bucket!Take
<1> QED
  BY <1>7, <1>10, <1>11, <1>12 DEF LimiterInv

(* A key that stays away for Retry-After and a second more has its token.  *)
LEMMA AdviceCovers ==
  ASSUME NEW k \in Keys, Refilled(k) \in Nat, Refilled(k) < Unit
  PROVE  /\ (RetryAfter(k) + 1) * Second \in Nat
         /\ Refilled(k) + Rate[k] * ((RetryAfter(k) + 1) * Second) >= Unit
<1> DEFINE m == Unit - Refilled(k)
           q == m \div Rate[k]
           w == Wait(k)
           r == RetryAfter(k)
<1>1. m \in Nat /\ Rate[k] \in Nat \ {0} /\ Second \in Nat \ {0} /\ Unit \in Nat
  BY LimiterAssumption
<1>2. q \in Nat /\ Rate[k] * (q + 1) > m
  BY SMTT(30), <1>1, TicksCover
<1>3. w \in Nat /\ w >= q
  BY <1>1, <1>2 DEF Wait, AtLeast
<1>4. (w \div Second) \in Nat /\ ((w \div Second) + 1) * Second > w
  BY <1>1, <1>3, SecondsCover
<1>5. r \in Nat /\ r >= w \div Second
  BY <1>4 DEF RetryAfter, AtLeast
<1> HIDE DEF m, q, w, r
<1>6. (r + 1) * Second \in Nat /\ (r + 1) * Second >= ((w \div Second) + 1) * Second
  BY <1>1, <1>4, <1>5
<1>7. (r + 1) * Second >= q + 1
  <2>1. ((w \div Second) + 1) * Second \in Nat
    BY <1>1, <1>4
  <2> QED
    BY <2>1, <1>2, <1>3, <1>4, <1>6
<1>8. Rate[k] * (q + 1) <= Rate[k] * ((r + 1) * Second)
  BY <1>1, <1>2, <1>6, <1>7, Monotone
<1>9. Rate[k] * (q + 1) \in Nat /\ Rate[k] * ((r + 1) * Second) \in Nat
  BY <1>1, <1>2, <1>6
<1> QED
  <2>1. Rate[k] * ((r + 1) * Second) > m
    BY <1>1, <1>2, <1>8, <1>9
  <2>2. Refilled(k) + Rate[k] * ((r + 1) * Second) >= Unit
    BY <2>1, <1>1, <1>9 DEF m
  <2> QED
    BY <2>2, <1>6 DEF r

(* A refusal keeps the invariant, and takes nothing.                       *)
LEMMA DenyStep ==
  ASSUME LimiterInv, NEW k \in Keys, Deny(k)
  PROVE  LimiterInv' /\ Bucket!Refuse(k)
<1>1. TypeOK /\ Clock /\ Conserved
  BY DEF LimiterInv
<1> DEFINE t == Refilled(k)
           a == now + (RetryAfter(k) + 1) * Second
<1>2. Refilled(k) = t /\ t \in Nat /\ t <= Cap[k] /\ t < Unit
  BY <1>1, RefilledType DEF Deny
<1>3. Touch(k, t) /\ spent' = spent /\ advice' = [advice EXCEPT ![k] = a]
  BY <1>2 DEF Deny
<1>4. (RetryAfter(k) + 1) * Second \in Nat
      /\ t + Rate[k] * ((RetryAfter(k) + 1) * Second) >= Unit
  BY <1>2, AdviceCovers
<1>5. a \in Nat /\ a - now = (RetryAfter(k) + 1) * Second /\ now \in Nat
  BY <1>1, <1>4 DEF TypeOK
<1> HIDE DEF t, a
<1>6. TypeOK' /\ Clock'
  <2>1. spent' \in [Keys -> Nat] /\ advice' \in [Keys -> Nat]
    BY <1>1, <1>3, <1>5 DEF TypeOK
  <2> QED
    BY <1>2, <1>3, <2>1, TouchKeeps
<1>8. now' = now /\ mark' = mark
  BY SMTT(30), <1>3 DEF Touch
<1>9. Conserved'
  <2> SUFFICES ASSUME NEW j \in Keys
               PROVE  Covered(j, mark, spent[j])'
    BY DEF Conserved
  <2>1. PICK m \in Nat : m = mark
    BY <1>1 DEF TypeOK
  <2>2. PICK x \in Nat : x = spent[j]
    BY <1>1 DEF TypeOK
  <2>3. m <= now /\ Covered(j, m, x)
    BY <1>1, <2>1, <2>2 DEF Clock, Conserved
  <2>4. Covered(j, m, x)'
    BY <1>1, <2>3, DenyCovered
  <2> QED BY Zenon, <2>1, <2>2, <2>4, <1>3, <1>8
<1>10. Promised'
  <2> SUFFICES ASSUME NEW j \in Keys, advice'[j] # 0, j \in known'
               PROVE  buckets'[j].tokens + Rate[j] * (advice'[j] - buckets'[j].last) >= Unit
    BY DEF Promised
  <2>1. CASE j = k
    <3>1. buckets'[k].tokens = t /\ buckets'[k].last = now
      BY SMTT(30), <1>3 DEF Touch
    <3>2. advice'[k] = a
      BY <1>1, <1>3 DEF TypeOK
    <3> QED
      BY <2>1, <3>1, <3>2, <1>4, <1>5
  <2>2. CASE j # k
    <3>1. advice'[j] = advice[j]
      BY <1>1, <1>3, <2>2 DEF TypeOK
    <3> QED
      BY <2>2, <3>1, <1>3, TouchPromises
  <2> QED
    BY <2>1, <2>2
<1>11. Bucket!Refuse(k)
  <2> DEFINE S == Collected(LimiterOf[k])
  <2>1. PICK u \in Nat : u = t
    BY <1>2
  <2>2. Touch(k, u) /\ u <= Cap[k]
    BY <1>2, <1>3, <2>1
  <2>3. /\ S \in SUBSET Bucket!Forgettable /\ Bucket!Without(S)[k] = Refilled(k)
        /\ [j \in Keys |-> Level(j)'] = [Bucket!Without(S) EXCEPT ![k] = u]
        /\ [j \in Keys |-> Idle(j)'] = [[j \in Keys |-> Idle(j)] EXCEPT ![k] = 0]
        /\ now' - mark' = now - mark
    BY <1>1, <2>2, TouchForgets
  <2>4. [Bucket!Without(S) EXCEPT ![k] = u] = Bucket!Without(S)
    BY SMTT(30), <2>1, <2>3 DEF t, Bucket!Without
  <2> HIDE DEF S
  <2> QED BY Zenon, <2>3, <2>4, <1>2, <1>3 DEF Bucket!Refuse, t
<1> QED
  BY <1>6, <1>9, <1>10, <1>11 DEF LimiterInv

(* A tick keeps the invariant and fills the buckets.                       *)
LEMMA TickStep ==
  ASSUME LimiterInv, Tick
  PROVE  LimiterInv' /\ Bucket!Tick
<1>1. TypeOK /\ Clock /\ Conserved /\ Promised
  BY DEF LimiterInv
<1>2. now' = now + 1 /\ UNCHANGED <<known, buckets, lastGC, spent, mark, advice>>
  BY DEF Tick
<1>3. now \in Nat /\ mark \in Nat /\ mark <= now
  BY <1>1 DEF TypeOK, Clock
<1>4. TypeOK'
  BY <1>1, <1>2 DEF TypeOK
<1>5. Clock'
  <2> SUFFICES ASSUME NEW k \in known
               PROVE  buckets[k].last <= now + 1 /\ buckets[k].lastSeen = buckets[k].last
    BY <1>2, <1>3 DEF Clock
  <2>1. buckets[k].last \in Nat
    BY <1>1 DEF TypeOK
  <2> QED
    BY <2>1, <1>1, <1>3 DEF Clock
<1>6. \A k \in Keys : Level(k)' = AtMost(Cap[k], Level(k) + Rate[k])
  BY <1>1, TickLevels
<1>7. (now + 1) - mark = (now - mark) + 1 /\ now - mark \in Nat
  BY <1>3
<1>8. Conserved'
  <2> SUFFICES ASSUME NEW j \in Keys
               PROVE  Covered(j, mark, spent[j])'
    BY DEF Conserved
  <2>1. PICK m \in Nat : m = mark
    BY <1>1 DEF TypeOK
  <2>2. PICK x \in Nat : x = spent[j]
    BY <1>1 DEF TypeOK
  <2>3. m <= now /\ Covered(j, m, x)
    BY <1>1, <2>1, <2>2 DEF Clock, Conserved
  <2>4. Covered(j, m, x)'
    BY <1>1, <2>3, TickCovered
  <2> QED BY Zenon, <2>1, <2>2, <2>4, <1>2
<1>9. Promised'
  BY <1>1, <1>2 DEF Promised
<1>10. Bucket!Tick
  <2>1. [k \in Keys |-> Level(k)'] =
        [k \in Keys |-> Bucket!AtMost(Cap[k], [j \in Keys |-> Level(j)][k] + Rate[k])]
    BY <1>6 DEF Bucket!AtMost, AtMost
  <2>2. [k \in Keys |-> Idle(k)'] =
        [k \in Keys |-> Bucket!AtMost(GCWindow + 1, [j \in Keys |-> Idle(j)][k] + 1)]
    BY <1>1, TickIdle DEF Bucket!AtMost, AtMost
  <2> QED
    BY <2>1, <2>2, <1>2, <1>7 DEF Bucket!Tick
<1> QED
  BY <1>4, <1>5, <1>8, <1>9, <1>10 DEF LimiterInv

(* An observer may start to count at any moment.                           *)
LEMMA ObserveStep ==
  ASSUME LimiterInv, Observe
  PROVE  LimiterInv' /\ Bucket!Observe
<1>1. TypeOK /\ Clock /\ Conserved /\ Promised
  BY DEF LimiterInv
<1>2. /\ spent' = [k \in Keys |-> 0] /\ mark' = now
      /\ UNCHANGED <<now, known, buckets, lastGC, advice>>
  BY DEF Observe
<1>3. now \in Nat
  BY <1>1 DEF TypeOK
<1>4. TypeOK'
  BY <1>1, <1>2 DEF TypeOK
<1>5. Clock'
  BY <1>1, <1>2, <1>3 DEF Clock
<1>6. \A k \in Keys : Level(k)' = Level(k) /\ Idle(k)' = Idle(k)
  BY <1>2 DEF Level, Fill, Idle
<1>7. now' - mark' = 0
  BY <1>2, <1>3
<1>8. Conserved'
  BY <1>2, CoveredNothing, Zenon DEF Conserved, Covered
<1>9. Promised'
  BY <1>1, <1>2 DEF Promised
<1>10. Bucket!Observe
  <2>1. [k \in Keys |-> Level(k)'] = [k \in Keys |-> Level(k)]
    BY <1>6
  <2>2. [k \in Keys |-> Idle(k)'] = [k \in Keys |-> Idle(k)]
    BY <1>6
  <2> QED
    BY <2>1, <2>2, <1>2, <1>7 DEF Bucket!Observe
<1> QED
  BY <1>4, <1>5, <1>8, <1>9, <1>10 DEF LimiterInv

(* Every step keeps the invariant and is a step of the abstract buckets.   *)
LEMMA LimiterStep ==
  ASSUME LimiterInv, [Next]_vars
  PROVE  LimiterInv' /\ [Bucket!Next]_(Bucket!vars)
<1>1. CASE Tick
  BY <1>1, TickStep DEF Bucket!Next
<1>2. ASSUME NEW k \in Keys, Grant(k)
      PROVE  LimiterInv' /\ [Bucket!Next]_(Bucket!vars)
  BY <1>2, GrantStep DEF Bucket!Next
<1>3. ASSUME NEW k \in Keys, Deny(k)
      PROVE  LimiterInv' /\ [Bucket!Next]_(Bucket!vars)
  BY <1>3, DenyStep DEF Bucket!Next
<1>4. CASE Observe
  BY <1>4, ObserveStep DEF Bucket!Next
<1>5. CASE UNCHANGED vars
  <2>1. \A k \in Keys : Level(k)' = Level(k) /\ Idle(k)' = Idle(k)
    BY <1>5 DEF vars, Level, Fill, Idle
  <2>2. UNCHANGED Bucket!vars
    <3>1. [k \in Keys |-> Level(k)'] = [k \in Keys |-> Level(k)]
      BY <2>1
    <3>2. [k \in Keys |-> Idle(k)'] = [k \in Keys |-> Idle(k)]
      BY <2>1
    <3> QED
      BY <3>1, <3>2, <1>5 DEF vars, Bucket!vars
  <2>3. TypeOK' /\ Clock'
    BY <1>5 DEF vars, LimiterInv, TypeOK, Clock
  <2>4. Conserved'
    BY <1>5 DEF vars, LimiterInv, Conserved, Covered
  <2>5. Promised'
    BY <1>5 DEF vars, LimiterInv, Promised
  <2> QED
    BY <2>2, <2>3, <2>4, <2>5 DEF LimiterInv
<1> QED
  BY <1>1, <1>2, <1>3, <1>4, <1>5 DEF Next

(* The initial buckets are full.                                           *)
LEMMA InitBuckets == Init => Bucket!Init
<1> SUFFICES ASSUME Init PROVE Bucket!Init
  OBVIOUS
<1>1. [k \in Keys |-> Level(k)] = [k \in Keys |-> Cap[k]]
  BY DEF Init, Level
<1>2. now - mark = 0
  BY DEF Init
<1>3. [k \in Keys |-> Idle(k)] = [k \in Keys |-> GCWindow + 1]
  BY DEF Init, Idle
<1> QED
  BY <1>1, <1>2, <1>3 DEF Init, Bucket!Init

(* The invariant implies the bound on admitted requests.                   *)
LEMMA InvWithinBurst == LimiterInv => WithinBurst
<1> SUFFICES ASSUME LimiterInv, NEW k \in Keys
             PROVE  spent[k] <= Allowance(k, now - mark)
  BY DEF WithinBurst
<1>1. PICK m \in Nat : m = mark
  BY DEF LimiterInv, TypeOK
<1>2. PICK x \in Nat : x = spent[k]
  BY DEF LimiterInv, TypeOK
<1>3. TypeOK /\ Clock /\ m <= now /\ Covered(k, m, x)
  BY <1>1, <1>2 DEF LimiterInv, Clock, Conserved
<1>4. Refilled(k) \in Nat
  BY <1>3, RefilledType
<1>5. Allowance(k, now - m) \in Nat /\ x + Refilled(k) <= Allowance(k, now - m)
  BY <1>3, CoveredNow
<1> QED
  BY <1>1, <1>2, <1>4, <1>5

(* The invariant implies what Retry-After promises.                        *)
LEMMA InvRetryAfter == LimiterInv => RetryAfterHonest
<1> SUFFICES ASSUME LimiterInv, NEW k \in Keys, advice[k] # 0, now >= advice[k]
             PROVE  Level(k) >= Unit
  BY DEF RetryAfterHonest
<1>1. Cap[k] \in Nat /\ Rate[k] \in Nat /\ Unit \in Nat /\ Unit <= Cap[k]
  BY LimiterAssumption
<1>2. CASE k \notin known
  BY <1>1, <1>2 DEF Level
<1>3. CASE k \in known
  <2> DEFINE b == buckets[k]
  <2>1. b.tokens \in Nat /\ b.last \in Nat /\ advice[k] \in Nat /\ now \in Nat
    BY DEF LimiterInv, TypeOK
  <2>2. b.tokens + Rate[k] * (advice[k] - b.last) >= Unit
    BY <1>3 DEF LimiterInv, Promised
  <2>3. Rate[k] * (advice[k] - b.last) <= Rate[k] * (now - b.last)
    BY <1>1, <2>1, Monotone
  <2>4. Rate[k] * (advice[k] - b.last) \in Int /\ Rate[k] * (now - b.last) \in Int
    BY <1>1, <2>1
  <2>5. Fill(k) >= Unit
    BY <1>1, <2>1, <2>2, <2>3, <2>4 DEF Fill, AtMost
  <2> QED
    BY <1>3, <2>5 DEF Level
<1> QED
  BY <1>2, <1>3

(* The limiters behave as buckets that fill all the time and may be        *)
(* forgotten only after a window without a request: Allow of ratelimit.go, *)
(* with its lazy refill and gcLocked, for every burst, rate and window.    *)
THEOREM LimiterRefines == Spec => ActsAsBucket
<1>1. Init => LimiterInv /\ Bucket!Init
  BY InitInv, InitBuckets
<1>2. LimiterInv /\ [Next]_vars => LimiterInv' /\ [Bucket!Next]_(Bucket!vars)
  BY LimiterStep
<1> QED
  BY <1>1, <1>2, PTL DEF Spec, ActsAsBucket, Bucket!Spec

(* In every period a key is granted at most its burst and its rate, and    *)
(* what collection gave it when it stayed away: for every burst and rate.  *)
THEOREM LimiterBounded == Spec => []WithinBurst
BY InitInv, LimiterStep, InvWithinBurst, PTL DEF Spec

(* Where the rate fills the burst within the window, collection goes       *)
(* unnoticed: gcLocked deletes only buckets that are full.                 *)
CollectedAreFull ==
  \A l \in Limiters : \A k \in Collected(l) : Surplus(k) = 0 => Level(k) = Cap[k]

(* A bucket idle for longer than the window has gained a burst less its    *)
(* surplus.                                                                *)
LEMMA InvCollectedFull == LimiterInv => CollectedAreFull
<1> SUFFICES ASSUME LimiterInv, NEW l \in Limiters, NEW k \in Collected(l), Surplus(k) = 0
             PROVE  Level(k) = Cap[k]
  BY DEF CollectedAreFull
<1> DEFINE d == now - buckets[k].last
           w == GCWindow + 1
<1>1. TypeOK /\ Clock
  BY DEF LimiterInv
<1>2. k \in Keys /\ k \in known /\ d \in Nat /\ d > GCWindow
  BY <1>1, CollectedIdle
<1>3. /\ Cap[k] \in Nat /\ Rate[k] \in Nat /\ w \in Nat /\ Rate[k] * w \in Nat
      /\ Cap[k] <= Rate[k] * w + Surplus(k)
  BY <1>2, SurplusType
<1>4. Rate[k] * w <= Rate[k] * d
  <2>1. w <= d
    BY <1>2, LimiterAssumption
  <2> HIDE DEF w, d
  <2> QED BY <2>1, <1>2, <1>3, Monotone
<1>5. Rate[k] * d \in Nat /\ buckets[k].tokens \in Nat
  BY <1>1, <1>2, FillType DEF TypeOK
<1>6. Fill(k) = AtMost(Cap[k], buckets[k].tokens + Rate[k] * d)
  BY DEF Fill
<1> HIDE DEF w, d
<1>7. Cap[k] <= buckets[k].tokens + Rate[k] * d
  BY <1>3, <1>4, <1>5
<1> DEFINE x == buckets[k].tokens + Rate[k] * d
           c == Cap[k]
<1>8. x \in Nat /\ c \in Nat /\ c <= x /\ Fill(k) = AtMost(c, x)
  BY <1>3, <1>5, <1>6, <1>7
<1> HIDE DEF x, c
<1>9. AtMost(c, x) = c
  BY <1>8 DEF AtMost
<1> QED BY Zenon, <1>2, <1>8, <1>9 DEF Level, c

(* With such limits no visitor can tell that buckets are collected.        *)
THEOREM CollectionUnnoticed == Spec => []CollectedAreFull
BY InitInv, LimiterStep, InvCollectedFull, PTL DEF Spec

(* Retry-After is never a second or more too short.                        *)
THEOREM LimiterHonest == Spec => []RetryAfterHonest
BY InitInv, LimiterStep, InvRetryAfter, PTL DEF Spec

(* Only who asks too fast is refused: a refused key was asked for before,  *)
(* at its last request no token was left over, and since then it has not   *)
(* gained a whole one.  A key that is new, that was collected or that      *)
(* keeps to the rate is always granted.                                    *)
OnlyHastyRefused ==
  [][\A k \in Keys : Deny(k) =>
       /\ k \in known \ Collected(LimiterOf[k])
       /\ buckets[k].tokens + Rate[k] * (now - buckets[k].last) < Unit]_vars

(* A bucket that lets no request through has been emptied by its own key.  *)
LEMMA RefusedIsHasty ==
  ASSUME LimiterInv, NEW k \in Keys, Refilled(k) < Unit
  PROVE  /\ k \in known \ Collected(LimiterOf[k])
         /\ buckets[k].tokens + Rate[k] * (now - buckets[k].last) < Unit
<1>1. Unit \in Nat /\ Cap[k] \in Nat /\ Unit <= Cap[k]
  BY LimiterAssumption
<1>2. TypeOK /\ Clock
  BY DEF LimiterInv
<1>3. k \in known \ Collected(LimiterOf[k]) /\ Refilled(k) = Fill(k)
  BY <1>1 DEF Refilled
<1>4. Rate[k] * (now - buckets[k].last) \in Nat /\ buckets[k].tokens \in Nat
  BY <1>2, <1>3, FillType DEF TypeOK
<1> QED
  BY <1>1, <1>3, <1>4 DEF Fill, AtMost

(* Allow refuses no visitor that keeps to the rate, for every burst, rate  *)
(* and window.                                                             *)
THEOREM RefusalsDeserved == Spec => OnlyHastyRefused
<1>1. ASSUME LimiterInv, NEW k \in Keys, Deny(k)
      PROVE  /\ k \in known \ Collected(LimiterOf[k])
             /\ buckets[k].tokens + Rate[k] * (now - buckets[k].last) < Unit
  BY Zenon, <1>1, RefusedIsHasty DEF Deny
<1>2. LimiterInv /\ [Next]_vars =>
        [\A k \in Keys : Deny(k) =>
           /\ k \in known \ Collected(LimiterOf[k])
           /\ buckets[k].tokens + Rate[k] * (now - buckets[k].last) < Unit]_vars
  BY Zenon, <1>1
<1> QED
  BY <1>2, InitInv, LimiterStep, PTL DEF Spec, OnlyHastyRefused
-----------------------------------------------------------------------------
(* Requests that have paid a token of k and have not been answered.        *)
Holding(k) ==
  {c \in Clients :
     \/ at[c] \in {"charged", "admitted"} /\ request[c].ip = k
     \/ at[c] = "admitted" /\ request[c].session = k}

(* What was served for k and what is on its way, in fractions.             *)
Due(k) == Unit * (served[k] + Cardinality(Holding(k)))

(* All of it was paid for.                                                 *)
Paid == \A k \in Keys : Covered(k, 0, Due(k))

(* What was covered before a step is covered after it.                     *)
KeepsCover == \A j \in Keys : \A x \in Nat : Covered(j, 0, x) => Covered(j, 0, x)'

AdmissionInv == AdmissionTypeOK /\ LimiterInv /\ Paid

(* Holders are counted by a number.                                        *)
LEMMA HoldingFinite ==
  ASSUME NEW k
  PROVE  IsFiniteSet(Holding(k)) /\ Cardinality(Holding(k)) \in Nat
<1>1. Holding(k) \subseteq Clients /\ IsFiniteSet(Clients)
  BY AdmissionAssumption DEF Holding
<1>2. IsFiniteSet(Holding(k))
  BY <1>1, FS_Subset
<1> QED
  BY <1>2, FS_CardinalityType

(* Fewer holders, a lower count.                                           *)
LEMMA HoldingShrinks ==
  ASSUME NEW k, Holding(k)' \subseteq Holding(k)
  PROVE  /\ Cardinality(Holding(k))' \in Nat
         /\ Cardinality(Holding(k))' <= Cardinality(Holding(k))
<1>1. IsFiniteSet(Holding(k))
  BY HoldingFinite
<1>2. /\ IsFiniteSet(Holding(k)')
      /\ Cardinality(Holding(k)') <= Cardinality(Holding(k))
  BY <1>1, FS_Subset
<1>3. Cardinality(Holding(k)') \in Nat
  BY <1>2, FS_CardinalityType
<1> QED
  BY <1>2, <1>3

(* What is due is a number.                                                *)
LEMMA DueType ==
  ASSUME AdmissionTypeOK, NEW k \in Keys
  PROVE  Due(k) \in Nat /\ served[k] + Cardinality(Holding(k)) \in Nat
<1>1. served[k] + Cardinality(Holding(k)) \in Nat /\ Unit \in Nat
  BY HoldingFinite, LimiterAssumption DEF AdmissionTypeOK
<1> DEFINE n == served[k] + Cardinality(Holding(k))
<1> HIDE DEF n
<1>2. Unit * n \in Nat
  BY <1>1 DEF n
<1> QED BY <1>1, <1>2 DEF Due, n

(* Fewer calls, less due.                                                  *)
LEMMA DueLess ==
  ASSUME AdmissionTypeOK, NEW k \in Keys, NEW n \in Nat, n <= served[k] + Cardinality(Holding(k)),
         served'[k] + Cardinality(Holding(k))' = n
  PROVE  Due(k)' \in Nat /\ Due(k)' <= Due(k)
<1> DEFINE h == served[k] + Cardinality(Holding(k))
<1>1. h \in Nat /\ n <= h /\ Unit \in Nat
  BY DueType, LimiterAssumption
<1>2. Due(k) = Unit * h
  BY DEF Due
<1>3. Due(k)' = Unit * n
  BY DEF Due
<1> HIDE DEF h
<1>4. Unit * n \in Nat /\ Unit * n <= Unit * h
  BY <1>1, Monotone
<1> QED BY <1>2, <1>3, <1>4

(* Where nothing is served and nobody comes to hold, nothing more is due.  *)
LEMMA DueShrinks ==
  ASSUME AdmissionTypeOK, NEW k \in Keys, served' = served, Holding(k)' \subseteq Holding(k)
  PROVE  Due(k)' \in Nat /\ Due(k)' <= Due(k)
<1>1. /\ Cardinality(Holding(k)) \in Nat /\ Cardinality(Holding(k))' \in Nat
      /\ Cardinality(Holding(k))' <= Cardinality(Holding(k)) /\ served[k] \in Nat
  BY HoldingFinite, HoldingShrinks DEF AdmissionTypeOK
<1>2. PICK n \in Nat : n = served[k] + Cardinality(Holding(k))'
  BY <1>1
<1>3. n <= served[k] + Cardinality(Holding(k))
  BY <1>1, <1>2
<1> QED BY <1>2, <1>3, DueLess

(* A step that covers what it covered and makes nothing due keeps Paid.    *)
LEMMA PaidWithoutService ==
  ASSUME AdmissionInv, KeepsCover, \A k \in Keys : Due(k)' \in Nat /\ Due(k)' <= Due(k)
  PROVE  Paid'
<1> SUFFICES ASSUME NEW k \in Keys PROVE Covered(k, 0, Due(k))'
  BY DEF Paid
<1>1. AdmissionTypeOK /\ TypeOK /\ Clock /\ 0 <= now
  BY DEF AdmissionInv, LimiterInv, TypeOK
<1>2. PICK x \in Nat : x = Due(k)
  BY <1>1, DueType
<1>3. PICK y \in Nat : y = Due(k)'
  OBVIOUS
<1>4. Covered(k, 0, x) /\ y <= x
  BY <1>2, <1>3 DEF AdmissionInv, Paid
<1>5. Covered(k, 0, y)
  BY <1>1, <1>4, CoveredLess
<1> QED BY Zenon, <1>3, <1>5 DEF KeepsCover

(* A request that takes a token of k becomes its holder.                   *)
LEMMA PaidByGrant ==
  ASSUME AdmissionInv, NEW k \in Keys, Grant(k), served' = served,
         NEW c, c \notin Holding(k), Holding(k)' = Holding(k) \cup {c},
         \A j \in Keys \ {k} : Holding(j)' \subseteq Holding(j)
  PROVE  Paid'
<1> SUFFICES ASSUME NEW j \in Keys PROVE Covered(j, 0, Due(j))'
  BY DEF Paid
<1>1. AdmissionTypeOK /\ TypeOK /\ Clock /\ 0 <= now
  BY DEF AdmissionInv, LimiterInv, TypeOK
<1>2. PICK x \in Nat : x = Due(j)
  BY <1>1, DueType
<1>3. Covered(j, 0, x)
  BY <1>2 DEF AdmissionInv, Paid
<1>4. CASE j = k
  <2>1. Cardinality(Holding(k))' = Cardinality(Holding(k)) + 1
    BY HoldingFinite, FS_AddElement
  <2> DEFINE n == served[k] + Cardinality(Holding(k))
  <2>2. n \in Nat /\ Unit \in Nat /\ served[k] \in Nat /\ Cardinality(Holding(k)) \in Nat
    BY <1>1, DueType, HoldingFinite, LimiterAssumption DEF AdmissionTypeOK
  <2>3. served'[k] + Cardinality(Holding(k))' = n + 1
    BY <2>1, <2>2
  <2>4. Due(k)' = Unit * (n + 1) /\ x = Unit * n
    <3>1. Due(k)' = Unit * (served'[k] + Cardinality(Holding(k))')
      BY Zenon DEF Due
    <3>2. Due(k) = Unit * n
      BY Zenon DEF Due
    <3> QED BY Zenon, <3>1, <3>2, <2>3, <1>2, <1>4
  <2> HIDE DEF n
  <2>5. Unit * (n + 1) = x + Unit
    BY <2>2, <2>4, OneMore
  <2>6. Covered(j, 0, x + Unit)'
    BY <1>1, <1>3, <1>4, GrantCovered
  <2> QED BY Zenon, <1>4, <2>4, <2>5, <2>6
<1>5. CASE j # k
  <2>1. Due(j)' \in Nat /\ Due(j)' <= Due(j)
    BY <1>1, <1>5, DueShrinks
  <2>2. PICK y \in Nat : y = Due(j)'
    BY <2>1
  <2>3. Covered(j, 0, y)
    BY <1>1, <1>2, <1>3, <2>1, <2>2, CoveredLess
  <2>4. Covered(j, 0, IF j = k THEN y + Unit ELSE y)'
    BY <1>1, <2>3, GrantCovered
  <2> QED BY Zenon, <1>5, <2>2, <2>4
<1> QED BY <1>4, <1>5

(* Every step of Admission is a step of the limiters or leaves them alone. *)
LEMMA AdmissionUsesLimiters ==
  ASSUME AdmissionTypeOK, [AdmissionNext]_allVars
  PROVE  [Next]_vars
<1>1. ASSUME NEW c \in Clients, ChargeIP(c) PROVE Next
  <2>1. request[c].ip \in Keys
    BY <1>1, AdmissionAssumption DEF AdmissionTypeOK, ChargeIP, Request
  <2> QED
    BY <1>1, <2>1 DEF ChargeIP, Next
<1>2. ASSUME NEW c \in Clients, ChargeSession(c) PROVE Next
  <2>1. request[c].session \in Keys
    BY <1>2, AdmissionAssumption DEF AdmissionTypeOK, ChargeSession, Request
  <2> QED
    BY <1>2, <2>1 DEF ChargeSession, Next
<1>3. ASSUME NEW c \in Clients, Arrive(c) \/ RejectHeader(c) \/ RejectInput(c) \/ Serve(c)
      PROVE  UNCHANGED vars
  BY <1>3 DEF Arrive, RejectHeader, RejectInput, Serve
<1> QED
  BY <1>1, <1>2, <1>3 DEF AdmissionNext, allVars, Next

(* The types of Admission, client by client.                               *)
LEMMA AdmissionTypes ==
  ASSUME AdmissionInv, LimiterInv', [AdmissionNext]_allVars
  PROVE  AdmissionTypeOK'
<1>1. TypeOK' /\ AdmissionTypeOK
  BY DEF AdmissionInv, LimiterInv
<1> USE DEF AdmissionTypeOK
<1>2. ASSUME NEW c \in Clients, Arrive(c) PROVE AdmissionTypeOK'
  BY <1>1, <1>2, AdmissionAssumption DEF Arrive
<1>3. ASSUME NEW c \in Clients, ChargeIP(c) PROVE AdmissionTypeOK'
  BY <1>1, <1>3 DEF ChargeIP, Goto, Answer
<1>4. ASSUME NEW c \in Clients, RejectHeader(c) PROVE AdmissionTypeOK'
  BY <1>1, <1>4 DEF RejectHeader, Answer
<1>5. ASSUME NEW c \in Clients, ChargeSession(c) PROVE AdmissionTypeOK'
  BY <1>1, <1>5 DEF ChargeSession, Goto, Answer
<1>6. ASSUME NEW c \in Clients, RejectInput(c) PROVE AdmissionTypeOK'
  BY <1>1, <1>6 DEF RejectInput, Answer
<1>7. ASSUME NEW c \in Clients, Serve(c) PROVE AdmissionTypeOK'
  BY <1>1, <1>7 DEF Serve, Answer
<1>8. CASE UNCHANGED httpVars
  BY <1>1, <1>8 DEF httpVars
<1> QED
  BY SMTT(30), <1>2, <1>3, <1>4, <1>5, <1>6, <1>7, <1>8 DEF AdmissionNext, allVars

(* A request that is answered holds nothing, and the others are untouched. *)
LEMMA AnswerReleases ==
  ASSUME AdmissionTypeOK, NEW c \in Clients, Answer(c), NEW k
  PROVE  Holding(k)' = Holding(k) \ {c}
BY DEF AdmissionTypeOK, Answer, Holding

(* Refusals and time cover what was covered.                               *)
LEMMA RefusalKeepsCover ==
  ASSUME LimiterInv, Tick \/ \E k \in Keys : Deny(k)
  PROVE  KeepsCover
<1> SUFFICES ASSUME NEW j \in Keys, NEW x \in Nat, Covered(j, 0, x)
             PROVE  Covered(j, 0, x)'
  BY Zenon DEF KeepsCover
<1>1. TypeOK /\ Clock /\ 0 <= now
  BY DEF LimiterInv, TypeOK
<1>2. CASE Tick
  BY <1>1, <1>2, TickCovered
<1>3. ASSUME NEW k \in Keys, Deny(k) PROVE Covered(j, 0, x)'
  BY <1>1, <1>3, DenyCovered
<1> QED BY <1>2, <1>3

(* So do steps that leave the buckets alone.                               *)
LEMMA SameCover ==
  ASSUME now' = now, known' = known, buckets' = buckets
  PROVE  KeepsCover
BY Zenon DEF KeepsCover, Covered

(* Serving a request turns a token that was paid into a call.              *)
LEMMA PaidByService ==
  ASSUME AdmissionInv, NEW c \in Clients, Serve(c)
  PROVE  Paid'
<1>1. AdmissionTypeOK /\ Answer(c) /\ at[c] = "admitted" /\ UNCHANGED vars
  BY DEF AdmissionInv, Serve
<1>2. KeepsCover
  BY <1>1, SameCover DEF vars
<1>3. ASSUME NEW k \in Keys PROVE Due(k)' \in Nat /\ Due(k)' <= Due(k)
  <2>1. Holding(k)' = Holding(k) \ {c}
    BY <1>1, AnswerReleases
  <2>2. IsFiniteSet(Holding(k)) /\ Cardinality(Holding(k)) \in Nat /\ served[k] \in Nat
    BY <1>1, HoldingFinite DEF AdmissionTypeOK
  <2>3. served'[k] + Cardinality(Holding(k))' = served[k] + Cardinality(Holding(k))
    <3>1. CASE k \in {request[c].ip, request[c].session}
      <4>1. c \in Holding(k) /\ served'[k] = served[k] + 1
        BY <1>1, <3>1 DEF Holding, Serve
      <4>2. Cardinality(Holding(k) \ {c}) = Cardinality(Holding(k)) - 1
        BY Zenon, <4>1, <2>2, FS_RemoveElement
      <4>3. Cardinality(Holding(k))' = Cardinality(Holding(k)) - 1
        BY <4>2, <2>1
      <4> QED BY SMTT(30), <4>1, <4>3, <2>2
    <3>2. CASE k \notin {request[c].ip, request[c].session}
      <4>1. c \notin Holding(k) /\ served'[k] = served[k]
        BY <1>1, <3>2 DEF Holding, Serve
      <4>2. Holding(k)' = Holding(k)
        BY <4>1, <2>1
      <4> QED BY <4>1, <4>2
    <3> QED BY SMTT(30), <3>1, <3>2
  <2>4. PICK n \in Nat : n = served[k] + Cardinality(Holding(k))
    BY <2>2
  <2>5. n <= served[k] + Cardinality(Holding(k))
    BY <2>4
  <2> QED BY Zenon, <1>1, <2>3, <2>4, <2>5, DueLess
<1> QED BY <1>2, <1>3, PaidWithoutService

(* A step that adds no holder and serves nothing.                          *)
LEMMA PaidByRelease ==
  ASSUME AdmissionInv, KeepsCover, served' = served, \A k \in Keys : Holding(k)' \subseteq Holding(k)
  PROVE  Paid'
<1>1. \A k \in Keys : Due(k)' \in Nat /\ Due(k)' <= Due(k)
  BY DueShrinks DEF AdmissionInv
<1> QED BY <1>1, PaidWithoutService

(* Every step keeps what was served paid for.                              *)
LEMMA PaidStep ==
  ASSUME AdmissionInv, LimiterInv', [AdmissionNext]_allVars
  PROVE  Paid'
<1>1. AdmissionTypeOK /\ LimiterInv
  BY DEF AdmissionInv
<1>2. ASSUME NEW c \in Clients, Arrive(c) PROVE Paid'
  <2>1. \A k : Holding(k)' = Holding(k)
    BY <1>1, <1>2 DEF Arrive, Holding, AdmissionTypeOK
  <2> QED
    BY <1>2, <2>1, SameCover, PaidByRelease DEF Arrive, vars
<1>3. ASSUME NEW c \in Clients, ChargeIP(c) PROVE Paid'
  <2> DEFINE k == request[c].ip
  <2>1. k \in Keys /\ request[c] \in Request
    BY <1>1, <1>3, AdmissionAssumption DEF AdmissionTypeOK, ChargeIP, Request
  <2>2. CASE Grant(k) /\ Goto(c, "charged")
    <3>1. c \notin Holding(k) /\ Holding(k)' = Holding(k) \cup {c}
      BY SMTT(30), <1>1, <1>3, <2>2 DEF ChargeIP, Goto, Holding, AdmissionTypeOK
    <3>2. \A j \in Keys \ {k} : Holding(j)' \subseteq Holding(j)
      BY SMTT(30), <1>1, <1>3, <2>2 DEF ChargeIP, Goto, Holding, AdmissionTypeOK
    <3> QED
      BY <2>1, <2>2, <3>1, <3>2, PaidByGrant DEF Goto
  <2>3. CASE Deny(k) /\ Answer(c) /\ served' = served
    <3>1. KeepsCover
      BY Zenon, <1>1, <2>1, <2>3, RefusalKeepsCover
    <3>2. \A j : Holding(j)' = Holding(j) \ {c}
      BY <1>1, <2>3, AnswerReleases
    <3> QED
      BY <2>3, <3>1, <3>2, PaidByRelease
  <2> QED
    BY <1>3, <2>2, <2>3 DEF ChargeIP
<1>4. ASSUME NEW c \in Clients, RejectHeader(c) \/ RejectInput(c) PROVE Paid'
  <2>1. Answer(c) /\ UNCHANGED vars /\ served' = served
    BY <1>4 DEF RejectHeader, RejectInput
  <2>2. \A j : Holding(j)' = Holding(j) \ {c}
    BY <1>1, <2>1, AnswerReleases
  <2> QED
    BY <2>1, <2>2, SameCover, PaidByRelease DEF vars
<1>5. ASSUME NEW c \in Clients, ChargeSession(c) PROVE Paid'
  <2> DEFINE k == request[c].session
  <2>1. k \in Sessions /\ k \in Keys /\ request[c].ip \in IPs /\ at[c] = "charged"
    BY <1>1, <1>5, AdmissionAssumption DEF AdmissionTypeOK, ChargeSession, Request
  <2>2. k # request[c].ip
    BY <2>1, AdmissionAssumption
  <2>3. CASE Grant(k) /\ Goto(c, "admitted")
    <3>1. c \notin Holding(k) /\ Holding(k)' = Holding(k) \cup {c}
      BY SMTT(30), <1>1, <2>1, <2>2, <2>3 DEF Goto, Holding, AdmissionTypeOK
    <3>2. \A j \in Keys \ {k} : Holding(j)' \subseteq Holding(j)
      BY SMTT(30), <1>1, <2>1, <2>3 DEF Goto, Holding, AdmissionTypeOK
    <3> QED
      BY <2>1, <2>3, <3>1, <3>2, PaidByGrant DEF Goto
  <2>4. CASE Deny(k) /\ Answer(c) /\ served' = served
    <3>1. KeepsCover
      BY Zenon, <1>1, <2>1, <2>4, RefusalKeepsCover
    <3>2. \A j : Holding(j)' = Holding(j) \ {c}
      BY <1>1, <2>4, AnswerReleases
    <3> QED
      BY <2>4, <3>1, <3>2, PaidByRelease
  <2> QED
    BY <1>5, <2>3, <2>4 DEF ChargeSession
<1>6. ASSUME NEW c \in Clients, Serve(c) PROVE Paid'
  BY <1>6, PaidByService
<1>7. CASE Tick /\ UNCHANGED httpVars
  <2>1. KeepsCover
    BY <1>1, <1>7, RefusalKeepsCover
  <2>2. served' = served /\ \A k : Holding(k)' = Holding(k)
    BY <1>7 DEF httpVars, Holding
  <2> QED
    BY <2>1, <2>2, PaidByRelease
<1>8. CASE Observe /\ UNCHANGED httpVars
  <2>1. served' = served /\ KeepsCover
    BY <1>8, SameCover DEF Observe, httpVars
  <2>2. \A k : Holding(k)' = Holding(k)
    BY <1>8 DEF httpVars, Holding
  <2> QED
    BY <2>1, <2>2, PaidByRelease
<1>9. CASE UNCHANGED allVars
  <2>1. \A k : Holding(k)' = Holding(k)
    BY <1>9 DEF allVars, httpVars, Holding
  <2> QED
    BY <1>9, <2>1, SameCover, PaidByRelease DEF allVars, httpVars, vars
<1> QED
  BY <1>2, <1>3, <1>4, <1>5, <1>6, <1>7, <1>8, <1>9 DEF AdmissionNext

(* At the start nothing is served and every bucket is full.                *)
LEMMA AdmissionInitInv == AdmissionInit => AdmissionInv
<1> SUFFICES ASSUME AdmissionInit PROVE AdmissionInv
  OBVIOUS
<1>1. LimiterInv
  BY InitInv DEF AdmissionInit
<1>2. AdmissionTypeOK
  BY <1>1 DEF AdmissionInit, AdmissionTypeOK, LimiterInv
<1>3. Paid
  <2> SUFFICES ASSUME NEW k \in Keys PROVE Covered(k, 0, Due(k))
    BY DEF Paid
  <2>1. Holding(k) = {} /\ served[k] = 0
    BY DEF AdmissionInit, Holding
  <2>2. Cardinality(Holding(k)) = 0 /\ Unit \in Nat
    BY <2>1, FS_EmptySet, LimiterAssumption
  <2>3. served[k] + Cardinality(Holding(k)) = 0 /\ Unit * 0 = 0
    BY <2>1, <2>2
  <2>4. Due(k) = 0
    BY Zenon, <2>3 DEF Due
  <2> QED
    BY Zenon, <2>4, CoveredNothing
<1> QED
  BY <1>1, <1>2, <1>3 DEF AdmissionInv

(* The invariant of Admission is inductive.                                *)
LEMMA AdmissionStep ==
  ASSUME AdmissionInv, [AdmissionNext]_allVars
  PROVE  AdmissionInv'
<1>1. [Next]_vars
  BY AdmissionUsesLimiters DEF AdmissionInv
<1>2. LimiterInv'
  BY <1>1, LimiterStep DEF AdmissionInv
<1> QED
  BY <1>2, AdmissionTypes, PaidStep DEF AdmissionInv

(* What is paid for bounds what is served.                                 *)
LEMMA InvMutationsLimited == AdmissionInv => MutationsLimited
<1> SUFFICES ASSUME AdmissionInv, NEW k \in Keys
             PROVE  served[k] * Unit <= Allowance(k, now)
  BY DEF MutationsLimited
<1>1. AdmissionTypeOK /\ TypeOK /\ Clock /\ 0 <= now /\ now \in Nat
  BY DEF AdmissionInv, LimiterInv, TypeOK
<1>2. PICK x \in Nat : x = Due(k)
  BY <1>1, DueType
<1>3. Covered(k, 0, x)
  BY <1>2 DEF AdmissionInv, Paid
<1>4. Refilled(k) \in Nat
  BY <1>1, RefilledType
<1>5. Allowance(k, now) \in Nat /\ x + Refilled(k) <= Allowance(k, now)
  <2>1. now - 0 = now
    BY <1>1
  <2>2. Allowance(k, now - 0) \in Nat /\ x + Refilled(k) <= Allowance(k, now - 0)
    BY <1>1, <1>3, CoveredNow
  <2> QED BY Zenon, <2>1, <2>2
<1> DEFINE h == served[k] + Cardinality(Holding(k))
<1>6. h \in Nat /\ served[k] \in Nat /\ served[k] <= h /\ Unit \in Nat
  BY <1>1, DueType, HoldingFinite, LimiterAssumption DEF AdmissionTypeOK
<1>7. x = Unit * h
  BY Zenon, <1>2 DEF Due
<1> HIDE DEF h
<1>8. Unit * served[k] <= Unit * h /\ Unit * served[k] \in Nat /\ served[k] * Unit = Unit * served[k]
  BY <1>6, Monotone
<1> QED
  BY <1>4, <1>5, <1>7, <1>8

(* Admission uses the limiters only through Allow, so what is proved of    *)
(* them holds in it.                                                       *)
THEOREM AdmissionRefinesLimiters == AdmissionSpec => Spec
<1>1. AdmissionInit => Init
  BY DEF AdmissionInit
<1>2. AdmissionInv /\ [AdmissionNext]_allVars => [Next]_vars
  BY AdmissionUsesLimiters DEF AdmissionInv
<1> QED
  BY <1>1, <1>2, AdmissionInitInv, AdmissionStep, PTL DEF AdmissionSpec, Spec

(* Types of the limiters and of the requests.                              *)
THEOREM AdmissionTypesCorrect == AdmissionSpec => []AdmissionTypeOK
<1>1. AdmissionInv => AdmissionTypeOK
  BY DEF AdmissionInv
<1> QED
  BY <1>1, AdmissionInitInv, AdmissionStep, PTL DEF AdmissionSpec

(* The mutations that reach the service are limited per IP and per         *)
(* session, however checkMutation interleaves.                             *)
THEOREM ServedLimited == AdmissionSpec => []MutationsLimited
BY AdmissionInitInv, AdmissionStep, InvMutationsLimited, PTL DEF AdmissionSpec
=============================================================================
