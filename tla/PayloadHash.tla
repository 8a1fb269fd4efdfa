----------------------------- MODULE PayloadHash -----------------------------
(***************************************************************************)
(* internal/store/hash_utils.go: the canonical form a payload is hashed    *)
(* over, against the JSON value it denotes.                                *)
(*                                                                         *)
(* A JSON text is a tree: scalars, arrays, and objects as the sequence of  *)
(* members in the order of the text, keys possibly repeated.  Keys and     *)
(* strings are numbers, in the order of sort.Strings.  sha256 is taken to  *)
(* be injective, so a hash is the canonical text itself, a sequence of     *)
(* tokens.                                                                 *)
(***************************************************************************)
EXTENDS Naturals, Sequences, SequencesExt, FiniteSetsExt

CONSTANTS
  Mantissa,   \* bits of a float64 mantissa, 53 in the program
  MaxFloat    \* the largest number a float64 holds

(* The string 0 stands for one with a null character.                      *)
Num(n) == [kind |-> "number", of |-> n]
Str(s) == [kind |-> "string", of |-> s]
Arr(items) == [kind |-> "array", of |-> items]
Obj(members) == [kind |-> "object", of |-> members]

(* json.Unmarshal reads a number as the nearest float64, ties to even.     *)
RECURSIVE Scale(_)
Scale(n) == IF n < 2 ^ Mantissa THEN 1 ELSE 2 * Scale(n \div 2)
Float64(n) ==
  LET unit == Scale(n)
      low == n \div unit
      rest == n % unit
      up == 2 * rest > unit \/ (2 * rest = unit /\ low % 2 = 1)
  IN unit * (IF up THEN low + 1 ELSE low)

(* The numbers or the strings of a text, those of repeated keys included.  *)
RECURSIVE Scalars(_, _)
Scalars(v, kind) ==
  CASE v.kind = kind -> {v.of}
    [] v.kind = "array" -> UNION {Scalars(v.of[i], kind) : i \in DOMAIN v.of}
    [] v.kind = "object" -> UNION {Scalars(v.of[i][2], kind) : i \in DOMAIN v.of}
    [] OTHER -> {}

(* It fails on a number that does not fit ...                              *)
Unmarshals(v) == \A n \in Scalars(v, "number") : n <= MaxFloat

(* ... and jsonb on a null character.                                      *)
Storable(v) == 0 \notin Scalars(v, "string")

(* Up to here every number has a float64 of its own.                       *)
Exact(v) == \A n \in Scalars(v, "number") : n <= 2 ^ Mantissa

(* An object is read as a map: of members with the same key the last wins. *)
KeysIn(members) == {members[i][1] : i \in DOMAIN members}
Member(members, k) == members[Max({i \in DOMAIN members : members[i][1] = k})][2]

Token(kind, of) == <<<<kind, of>>>>
Commas(texts) == FoldLeft(LAMBDA a, b : IF a = <<>> THEN b ELSE a \o Token(",", 0) \o b, <<>>, texts)

(* Mutant: map iteration order, here the order of the text, is not sorted. *)
SortedUnsorted(members) ==
  SelectSeq([i \in DOMAIN members |-> members[i][1]], LAMBDA k : TRUE)

Sorted(members) == SetToSortSeq(KeysIn(members), <)

RECURSIVE Canonical(_)
Canonical(v) ==
  CASE v.kind = "number" -> Token("number", Float64(v.of))
    [] v.kind = "string" -> Token("string", v.of)
    [] v.kind = "array" -> Token("[", 0) \o Commas([i \in DOMAIN v.of |-> Canonical(v.of[i])]) \o Token("]", 0)
    [] v.kind = "object" ->
         LET keys == Sorted(v.of) IN
         Token("{", 0)
           \o Commas([i \in DOMAIN keys |->
                        Token("string", keys[i]) \o Token(":", 0) \o Canonical(Member(v.of, keys[i]))])
           \o Token("}", 0)

(* The reference: two texts denote the same value, numbers being numbers.  *)
RECURSIVE SameValue(_, _)
SameValue(v, w) ==
  /\ v.kind = w.kind
  /\ CASE v.kind \in {"number", "string"} -> v.of = w.of
       [] v.kind = "array" -> /\ DOMAIN v.of = DOMAIN w.of
                              /\ \A i \in DOMAIN v.of : SameValue(v.of[i], w.of[i])
       [] v.kind = "object" -> /\ KeysIn(v.of) = KeysIn(w.of)
                               /\ \A k \in KeysIn(v.of) : SameValue(Member(v.of, k), Member(w.of, k))
=============================================================================
