------------------------------ MODULE MCEnqueue ------------------------------
(***************************************************************************)
(* A POST and two caller-owned transactions that insert the same keys      *)
(* in opposite orders, one of them twice the same.                         *)
(***************************************************************************)
EXTENDS Enqueue, PayloadHash

MCTxOf == [post |-> "P", t1 |-> "T", t2 |-> "T", t3 |-> "T", u1 |-> "U", u2 |-> "U"]
MCCalls == DOMAIN MCTxOf
MCTxs == {"P", "T", "U"}
MCOwn == {"P"}
MCKeyOf == [post |-> "k", t1 |-> "k", t2 |-> "l", t3 |-> "k", u1 |-> "k", u2 |-> "l"]

(* {a:1,b:[1,4]}; the same value with members swapped and a repeated; 5    *)
(* for 4, which round to the same float64; another value: the array in     *)
(* another order and with a string for a number; a number too large; a     *)
(* null character.                                                         *)
Texts == [
  plain   |-> Obj(<<<<1, Num(1)>>, <<2, Arr(<<Num(1), Num(4)>>)>>>>),
  same    |-> Obj(<<<<1, Num(4)>>, <<2, Arr(<<Num(1), Num(4)>>)>>, <<1, Num(1)>>>>),
  rounded |-> Obj(<<<<1, Num(1)>>, <<2, Arr(<<Num(1), Num(5)>>)>>>>),
  other   |-> Obj(<<<<2, Arr(<<Num(4), Str(1)>>)>>, <<1, Num(1)>>>>),
  huge    |-> Arr(<<Num(MaxFloat + 1)>>),
  null    |-> Arr(<<Str(0)>>)]
MCPayloads == DOMAIN Texts
MCOffers == [c \in MCCalls |-> CASE c = "post" -> {"same", "other", "huge", "null"}
                                  [] c = "u2" -> {"rounded"}
                                  [] OTHER -> {"plain"}]
MCHash == [p \in MCPayloads |-> Canonical(Texts[p])]
MCUnhashable == {p \in MCPayloads : ~Unmarshals(Texts[p])}
MCUnstorable == {p \in MCPayloads : ~Storable(Texts[p])}

P(type, priority, maxRetries, keyLength, size, runIn) ==
  [type |-> type, priority |-> priority, maxRetries |-> maxRetries,
   keyLength |-> keyLength, size |-> size, runIn |-> runIn]
Unspecified == P(1, Unset, Unset, Unset, Unset, Unset)
AtLimits == P(100, 100, 20, 255, 64 * 1024, 30 * Day)
MCParams == [c \in MCCalls |-> IF c = "post" THEN {Unspecified, AtLimits, [AtLimits EXCEPT !.priority = @ + 1]}
                                             ELSE {Unspecified}]

SameValues == {pq \in MCPayloads \X MCPayloads : SameValue(Texts[pq[1]], Texts[pq[2]])}
Inexact == {p \in MCPayloads : ~Exact(Texts[p])}

(* A submission with the same JSON value is never a conflict: member order *)
(* and repeated keys make no difference.  A replay has the same value:     *)
(* array order and the types of the values tell apart, and so do numbers,  *)
(* except those too large for a float64 of their own, which hashPayload    *)
(* does not tell from their neighbours.                                    *)
ReplayMeansSameValue ==
  ReplaysJudgedBy(SameValues, SameValues \cup (Inexact \X MCPayloads) \cup (MCPayloads \X Inexact))
=============================================================================
