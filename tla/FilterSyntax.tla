---------------------------- MODULE FilterSyntax ----------------------------
(***************************************************************************)
(* JSON values, their conversion to columns and back, and FilterNode.  A   *)
(* JSON value is [t, v] with its payload as a sequence of numbers, so that *)
(* values of different types can be compared.                              *)
(***************************************************************************)
EXTENDS Integers, Sequences

-----------------------------------------------------------------------------
(* Values.  Characters are 1 ("a") and 2 ("A"); 0 is a quote, 8 is `%` and  *)
(* 9 is `_`.  Numbers are counted in halves.                                *)

NullV == [t |-> "null", v |-> <<>>]
Bool(b) == [t |-> "bool", v |-> <<IF b THEN 1 ELSE 0>>]
IntV(n) == [t |-> "int", v |-> <<2 * n>>]     \* serde_json's PosInt
FltV(h) == [t |-> "flt", v |-> <<h>>]         \* serde_json's Float of h halves
Str(s) == [t |-> "str", v |-> s]

\* The id of the user whose requests are looked at.
UserId == Str(<<1>>)

IsNum(x) == x.t \in {"int", "flt"}

\* The double nearest to a number: 2 stands for 2^53, the first integer whose successor has
\* none of its own (a tie goes to the even one).
as_f64(h) == IF h = 6 THEN 4 ELSE h

\* The JSON text of a value: quotes, digits, a point, or one of the words.
to_string(x) ==
  CASE x.t = "str" -> <<0>> \o x.v \o <<0>>
    [] x.t = "int" -> <<10 + x.v[1]>>
    [] x.t = "flt" -> <<10 + x.v[1], 3>>
    [] x.t = "bool" -> <<100 + x.v[1]>>
from_str(s) ==
  CASE s[1] = 0 -> Str(SubSeq(s, 2, Len(s) - 1))
    [] s[1] \in 10..99 -> IF Len(s) = 1 THEN [t |-> "int", v |-> <<s[1] - 10>>] ELSE FltV(s[1] - 10)
    [] s[1] \in {100, 101} -> Bool(s[1] = 101)

\* push_field_value: what a column of this type stores for a JSON value: a REAL, an INTEGER,
\* a string, or the JSON text of anything else.
push_field_value(ty, x) ==
  CASE x.t = "null" -> NullV
    [] x.t # "null" /\ ty = "bool" -> IF x.t = "bool" THEN x ELSE NullV
    [] x.t # "null" /\ ty = "num" -> IF IsNum(x) THEN FltV(as_f64(x.v[1])) ELSE NullV
    [] x.t # "null" /\ ty = "text" -> IF x.t = "str" THEN x ELSE Str(to_string(x))
    [] x.t # "null" /\ ty = "json" -> Str(to_string(x))

\* extract_field: the JSON a stored value is read back as; numbers come back as floats.
extract_field(ty, x) ==
  CASE x.t = "null" -> NullV
    [] x.t # "null" /\ ty = "bool" -> Bool(x.v # <<0>>)
    [] x.t # "null" /\ ty \in {"num", "text"} -> x
    [] x.t # "null" /\ ty = "json" -> from_str(x.v)

\* The declared columns of the records below.  Their rows have an `id` besides (and a
\* `created_at` and an `updated_at`, text like it), which their fields do not.
ColType == [n |-> "num", s |-> "text", b |-> "bool", j |-> "json"]
RowId == Str(<<1>>)

\* create_record answers, and publishes, the fields it was given ...
Stored(raw) ==
  [f \in DOMAIN ColType \cup {"id"} |->
     IF f = "id" THEN RowId ELSE push_field_value(ColType[f], IF f \in DOMAIN raw THEN raw[f] ELSE NullV)]

\* ... row_to_record, behind a listing or an update, what the row holds.
row_to_record(row) == [f \in DOMAIN ColType |-> extract_field(ColType[f], row[f])]

-----------------------------------------------------------------------------
(* FilterNode. *)

And(l, r) == [op |-> "and", l |-> l, r |-> r]
Or(l, r) == [op |-> "or", l |-> l, r |-> r]
Not(n) == [op |-> "not", n |-> n]
Cmp(op, f, x) == [op |-> op, f |-> f, x |-> x]
Like(f, p) == [op |-> "~", f |-> f, p |-> p]
In(f, xs) == [op |-> "in", f |-> f, xs |-> xs]
CmpOps == {"=", "!=", ">", ">=", "<", "<="}

\* No filter at all: None of an Option<FilterNode>.
NoFilter == NullV
=============================================================================
