------------------------------ MODULE Filters ------------------------------
(***************************************************************************)
(* The filter language as pure operators: the rule template, the parser,   *)
(* and the two evaluators (in memory for realtime events, SQL for          *)
(* listings).  A text is a sequence of tokens.                             *)
(***************************************************************************)
EXTENDS FilterSyntax, SequencesExt

-----------------------------------------------------------------------------
(* FilterNode::matches. *)

\* Ordering of payloads: lexicographic, as for strings.
RECURSIVE Less(_, _)
Less(a, b) ==
  /\ b # <<>>
  /\ a = <<>> \/ Head(a) < Head(b) \/ (Head(a) = Head(b) /\ Less(Tail(a), Tail(b)))

\* values_equal is PartialEq of serde_json: 1 and 1.0 are different numbers.
values_equal(a, b) == a = b

\* cmp_values: numbers (both as f64), strings and Booleans, each with its own kind.
Key(x) == IF IsNum(x) THEN <<as_f64(x.v[1])>> ELSE x.v
cmp_values(a, b) ==
  CASE a.t = "null" \/ (a.t # b.t /\ ~(IsNum(a) /\ IsNum(b))) -> "none"
    [] Key(a) = Key(b) -> "eq"
    [] Less(Key(a), Key(b)) -> "lt"
    [] OTHER -> "gt"

\* like_match: `%` any run, `_` one character, case-sensitive.
RECURSIVE like_match(_, _)
like_match(s, p) ==
  CASE p = <<>> -> s = <<>>
    [] p # <<>> /\ Head(p) = 8 -> like_match(s, Tail(p)) \/ (s # <<>> /\ like_match(Tail(s), p))
    [] OTHER -> s # <<>> /\ (Head(p) = 9 \/ Head(p) = Head(s)) /\ like_match(Tail(s), Tail(p))

Lookup(row, f) == IF f \in DOMAIN row THEN row[f] ELSE NullV

\* Faulty variant: `>=` does not hold of equal values.
CompareStrict(op, a, b) ==
  LET c == cmp_values(a, b) IN
  CASE op = "=" -> values_equal(a, b)
    [] op = "!=" -> ~values_equal(a, b)
    [] op \in {">", ">="} -> c = "gt"
    [] op \in {"<", "<="} -> c = "lt"

\* One comparison of FilterNode::matches.
Compare(op, a, b) ==
  LET c == cmp_values(a, b) IN
  CASE op = "=" -> values_equal(a, b)
    [] op = "!=" -> ~values_equal(a, b)
    [] op = ">" -> c = "gt"
    [] op = ">=" -> c \in {"gt", "eq"}
    [] op = "<" -> c = "lt"
    [] op = "<=" -> c \in {"lt", "eq"}

\* FilterNode::matches against a record in memory.
RECURSIVE matches(_, _)
matches(n, row) ==
  CASE n.op = "and" -> matches(n.l, row) /\ matches(n.r, row)
    [] n.op = "or" -> matches(n.l, row) \/ matches(n.r, row)
    [] n.op = "not" -> ~matches(n.n, row)
    [] n.op = "~" -> Lookup(row, n.f).t = "str" /\ like_match(Lookup(row, n.f).v, n.p)
    [] n.op = "in" -> \E i \in 1..Len(n.xs) : values_equal(Lookup(row, n.f), n.xs[i])
    [] n.op \in CmpOps -> Compare(n.op, Lookup(row, n.f), n.x)

-----------------------------------------------------------------------------
(* The SQL the filter is translated to, as SQLite evaluates it: T, F or U  *)
(* (NULL).  Literals have the type of the column or are null; those of a   *)
(* JSON column, which holds text, are strings or numbers.                  *)

SqlNot(a) == CASE a = "T" -> "F" [] a = "F" -> "T" [] a = "U" -> "U"
SqlAnd(a, b) == IF "F" \in {a, b} THEN "F" ELSE IF "U" \in {a, b} THEN "U" ELSE "T"
Fold(s) == [i \in 1..Len(s) |-> IF s[i] = 2 THEN 1 ELSE s[i]]
SqlBool(b) == IF b THEN "T" ELSE "F"

\* bind_filter_value: a literal becomes a parameter.  SQLite compares integers and reals as
\* numbers, but with a column of text the digits of a number.
bind_filter_value(a, x) == IF a.t = "str" /\ IsNum(x) THEN Str(to_string(x)) ELSE x

\* compare: one bound parameter against a column.
SqlCompare(op, a, x) ==
  LET b == bind_filter_value(a, x) IN
  IF "null" \in {a.t, b.t} THEN "U"
  ELSE SqlBool(CASE op = "=" -> a.v = b.v
                 [] op = "!=" -> a.v # b.v
                 [] op = ">" -> Less(b.v, a.v)
                 [] op = ">=" -> ~Less(a.v, b.v)
                 [] op = "<" -> Less(a.v, b.v)
                 [] op = "<=" -> ~Less(b.v, a.v))

\* translate: the pattern of `~` is wrapped in `%`, and SQLite's LIKE folds ASCII case.
RECURSIVE translate(_, _)
translate(n, row) ==
  CASE n.op = "and" -> SqlAnd(translate(n.l, row), translate(n.r, row))
    [] n.op = "or" -> SqlNot(SqlAnd(SqlNot(translate(n.l, row)), SqlNot(translate(n.r, row))))
    [] n.op = "not" -> SqlNot(translate(n.n, row))
    [] n.op = "~" -> IF row[n.f].t = "null" THEN "U"
                     ELSE SqlBool(like_match(Fold(row[n.f].v), <<8>> \o Fold(n.p) \o <<8>>))
    [] n.op = "in" -> LET each == {SqlCompare("=", row[n.f], n.xs[i]) : i \in 1..Len(n.xs)} IN
                      IF "T" \in each THEN "T" ELSE IF "U" \in each THEN "U" ELSE "F"
    [] n.op \in CmpOps -> SqlCompare(n.op, row[n.f], n.x)

\* filter_to_sql in a WHERE clause: only rows it is true of.
filter_to_sql(n, row) == translate(n, row) = "T"

\* walk of validate_filter_columns: every column is known.
RECURSIVE walk(_, _)
walk(n, known) ==
  CASE n.op \in {"and", "or"} -> walk(n.l, known) /\ walk(n.r, known)
    [] n.op = "not" -> walk(n.n, known)
    [] OTHER -> n.f \in known

-----------------------------------------------------------------------------
(* Texts: tokens are [k |-> "id", f], [k |-> "lit", x], [k |-> "var", path] *)
(* and [k |-> "sym", s].                                                    *)

\* json_value: a number is read as a double, and an integral one made an integer again.
json_value(x) ==
  LET h == as_f64(x.v[1]) IN
  CASE ~IsNum(x) -> x
    [] IsNum(x) /\ h % 2 = 0 -> IntV(h \div 2)
    [] IsNum(x) /\ h % 2 = 1 -> FltV(h)

Id(f) == [k |-> "id", f |-> f]
Lit(x) == [k |-> "lit", x |-> json_value(x)]
Var(path) == [k |-> "var", path |-> path]
Sym(s) == [k |-> "sym", s |-> s]
IsSym(ts, s) == ts # <<>> /\ Head(ts) = Sym(s)
Fail == [ok |-> FALSE, n |-> NullV, rest |-> <<>>]
Ok(n, rest) == [ok |-> TRUE, n |-> n, rest |-> rest]

\* resolve: the value a `{{path}}` stands for; unknown paths are an error.
Paths == {"request.auth.id", "request.auth.email", "request.auth.workspace"}
resolve(path, ctx) == Lit(ctx[path])

\* substitute: FALSE for an unknown path, else the text with every template replaced.
Substitutable(ts) == \A i \in 1..Len(ts) : ts[i].k = "var" => ts[i].path \in Paths
substitute(ts, ctx) == [i \in 1..Len(ts) |-> IF ts[i].k = "var" THEN resolve(ts[i].path, ctx) ELSE ts[i]]

\* comparison: ident OP value, `~` with a string only.
comparison(ts) ==
  IF Len(ts) < 3 \/ ts[1].k # "id" \/ ts[2].k # "sym" \/ ts[3].k # "lit" THEN Fail
  ELSE LET rest == SubSeq(ts, 4, Len(ts)) IN
       CASE ts[2].s = "~" /\ ts[3].x.t = "str" -> Ok(Like(ts[1].f, ts[3].x.v), rest)
         [] ts[2].s \in CmpOps -> Ok(Cmp(ts[2].s, ts[1].f, ts[3].x), rest)
         [] OTHER -> Fail

RECURSIVE or_expr(_), and_expr(_), not_expr(_), atom(_), OrRest(_, _), AndRest(_, _)

\* Faulty variant: `||` continues where an operand of `&&` ended.
AndOrRest(n, ts) ==
  LET m == IF IsSym(ts, "&&") \/ IsSym(ts, "||") THEN not_expr(Tail(ts)) ELSE Fail IN
  IF ~m.ok THEN Ok(n, ts)
  ELSE AndRest(IF IsSym(ts, "&&") THEN And(n, m.n) ELSE Or(n, m.n), m.rest)

atom(ts) ==
  IF IsSym(ts, "(")
  THEN LET m == or_expr(Tail(ts)) IN IF m.ok /\ IsSym(m.rest, ")") THEN Ok(m.n, Tail(m.rest)) ELSE Fail
  ELSE comparison(ts)
not_expr(ts) ==
  IF IsSym(ts, "!") THEN LET m == atom(Tail(ts)) IN IF m.ok THEN Ok(Not(m.n), m.rest) ELSE Fail
  ELSE atom(ts)
and_expr(ts) == LET m == not_expr(ts) IN IF m.ok THEN AndRest(m.n, m.rest) ELSE Fail
or_expr(ts) == LET m == and_expr(ts) IN IF m.ok THEN OrRest(m.n, m.rest) ELSE Fail
\* many0 stops, without an error, at the first thing that does not parse.
AndRest(n, ts) ==
  LET m == IF IsSym(ts, "&&") THEN not_expr(Tail(ts)) ELSE Fail IN
  IF m.ok THEN AndRest(And(n, m.n), m.rest) ELSE Ok(n, ts)
OrRest(n, ts) ==
  LET m == IF IsSym(ts, "||") THEN and_expr(Tail(ts)) ELSE Fail IN
  IF m.ok THEN OrRest(Or(n, m.n), m.rest) ELSE Ok(n, ts)

\* parse_filter: all of the text, or a Validation error.
parse_filter(ts) ==
  IF ts = <<>> THEN Fail
  ELSE LET m == or_expr(ts) IN IF m.ok /\ m.rest = <<>> THEN m ELSE Fail

-----------------------------------------------------------------------------
(* Bounded inputs for the checks. *)

Raw == [n : {NullV, IntV(1), IntV(2), IntV(3), FltV(2), FltV(3)}, s : {NullV, Str(<<1>>), Str(<<1, 1>>)},
        b : {NullV, Bool(TRUE)}, j : {NullV, IntV(1), Str(<<1>>)}]
Leaf == {Cmp(op, "n", json_value(x)) : op \in CmpOps, x \in {IntV(1), FltV(3)}}
        \cup {Cmp(op, "s", Str(<<1>>)) : op \in CmpOps}
        \cup {Cmp(op, "b", Bool(TRUE)) : op \in {"=", "<"}}
        \cup {Cmp("=", "n", json_value(IntV(3))), In("n", <<IntV(1), IntV(2)>>), In("s", <<>>)}
        \cup {Like("s", <<1>>), Cmp("=", "id", RowId), Cmp("=", "j", IntV(1)), Cmp("=", "j", Str(<<1>>)), Cmp("=", "n", NullV)}
Closed(leaves) ==
  leaves \cup {Not(x) : x \in leaves}
  \cup {And(x, Not(y)) : x, y \in leaves} \cup {Not(Or(x, y)) : x, y \in leaves}

\* Atoms joined by `&&` and `||`, some negated, with their reference meaning: the disjunction
\* over the runs between `||` of the conjunction of their atoms.
Word == UNION {[1..k -> {[neg |-> b, f |-> f] : b \in BOOLEAN, f \in {"p", "q"}}] \X [1..(k - 1) -> {"&&", "||"}] : k \in 1..3}
AtomText(a) == (IF a.neg THEN <<Sym("!")>> ELSE <<>>) \o <<Id(a.f), Sym("="), Lit(Bool(TRUE))>>
WordText(w) ==
  FlattenSeq([i \in 1..Len(w[1]) |-> (IF i = 1 THEN <<>> ELSE <<Sym(w[2][i - 1])>>) \o AtomText(w[1][i])])
WordHolds(w, row) ==
  \E lo, hi \in 1..Len(w[1]) :
    /\ lo <= hi
    /\ lo = 1 \/ w[2][lo - 1] = "||"
    /\ hi = Len(w[1]) \/ w[2][hi] = "||"
    /\ \A i \in lo..(hi - 1) : w[2][i] = "&&"
    /\ \A i \in lo..hi : (row[w[1][i].f] = Bool(TRUE)) # w[1][i].neg

\* The comparisons of a filter, and the literals of one.
RECURSIVE Comparisons(_)
Comparisons(n) ==
  CASE n.op \in {"and", "or"} -> Comparisons(n.l) \cup Comparisons(n.r)
    [] n.op = "not" -> Comparisons(n.n)
    [] OTHER -> {n}
Literals(c) == IF c.op = "in" THEN {c.xs[i] : i \in 1..Len(c.xs)} ELSE {c.x}

\* The columns a record's fields share with its row, text of a JSON value left aside.
Shared == {f \in DOMAIN ColType : ColType[f] # "json"}

\* A comparison the two evaluators have to agree on: not `~`, of a field that has a value, which
\* for equality of numbers is an integer or a float as the literal is, and one a double holds.
Comparable(c, fields) ==
  /\ c.op # "~" /\ fields[c.f] # NullV
  /\ LET a == fields[c.f] IN \A x \in Literals(c) :
       \/ x.t = a.t /\ (IsNum(a) => as_f64(a.v[1]) = a.v[1])
       \/ IsNum(x) /\ IsNum(a) /\ c.op \in CmpOps \ {"=", "!="}

Agreement ==
  \A r \in Raw : \A fields \in {r, row_to_record(Stored(r))}, n \in Closed(Leaf) :
    walk(n, Shared) /\ (\A c \in Comparisons(n) : Comparable(c, fields)) =>
      matches(n, fields) = filter_to_sql(n, Stored(r))
Precedence ==
  \A w \in Word, row \in [{"p", "q"} -> {Bool(TRUE), Bool(FALSE)}] :
    LET m == parse_filter(WordText(w)) IN m.ok /\ matches(m.n, row) = WordHolds(w, row)
=============================================================================
