----------------------------- MODULE Expressions -----------------------------
(***************************************************************************)
(* Scalar expressions over a row (eval.go), and what the planner takes out *)
(* of a where predicate to evaluate it elsewhere: on zone statistics and   *)
(* decoded vectors before the rows exist (filter.go, columnar.go), or on   *)
(* vectors alone, with no where after it (columnar_agg.go).                *)
(*                                                                         *)
(* An expression is a record with a field op; a row is a function from     *)
(* column names to cells.  A cell is an integer or Null; the cells of a    *)
(* string column are naturals that stand for strings, 0 for the empty one. *)
(* A cell of a dynamic column is an array, a sequence of cells, or Null.   *)
(* Reals with their NaN, and the other types, are left out.                *)
(***************************************************************************)
EXTENDS Integers, Sequences, FiniteSets, SequencesExt

CONSTANTS
  Null,
  StringColumns,
  DynamicColumns,
  WindowFunction(_, _, _, _)   \* what a window function makes of its arguments on every row

Empty == 0

Comparisons == {"==", "!=", "<", "<=", ">", ">="}

Col(c) == [op |-> "col", name |-> c]
Lit(v) == [op |-> "lit", val |-> v]
Bin(o, l, r) == [op |-> o, left |-> l, right |-> r]
NotE(e) == [op |-> "not", of |-> e]
BetweenE(e, lo, hi, neg) == [op |-> "between", of |-> e, low |-> lo, high |-> hi, negated |-> neg]
InE(e, vals, neg) == [op |-> "in", of |-> e, vals |-> vals, negated |-> neg]
Window(fn, args) == [op |-> "window", fn |-> fn, args |-> args]
Prev(c) == Window("prev", <<Col(c)>>)
NextE(c) == Window("next", <<Col(c)>>)

\* types.CompareValues: a null is least.
CompareValues(a, b) ==
  CASE a = b    -> 0
    [] a = Null -> -1
    [] b = Null -> 1
    [] OTHER    -> IF a < b THEN -1 ELSE 1

\* What a three-way comparison means for each operator.
Matches(o, cmp) ==
  CASE o = "=="  -> cmp = 0
    [] o = "!="  -> cmp # 0
    [] o = "<"   -> cmp < 0
    [] o = "<="  -> cmp <= 0
    [] o = ">"   -> cmp > 0
    [] o = ">="  -> cmp >= 0

\* The comparisons of evalBinaryOp: against a null, == is false and != true,
\* and everything else, two nulls included, is null.
Compare(o, l, r) ==
  IF l = Null \/ r = Null
  THEN IF l # r /\ o \in {"==", "!="} THEN o = "!=" ELSE Null
  ELSE Matches(o, CompareValues(l, r))

\* Three-valued and, or, not.
And3(l, r) ==
  IF l = FALSE \/ r = FALSE THEN FALSE
  ELSE IF l = TRUE /\ r = TRUE THEN TRUE ELSE Null

Or3(l, r) ==
  IF l = TRUE \/ r = TRUE THEN TRUE
  ELSE IF l = FALSE /\ r = FALSE THEN FALSE ELSE Null

Not3(b) == IF b = Null THEN Null ELSE ~b

Magnitude(n) == IF n < 0 THEN -n ELSE n

\* Integer arithmetic of evalBinaryOp: Go's truncating division, euclidMod.
Arithmetic(o, l, r) ==
  IF l = Null \/ r = Null THEN Null
  ELSE CASE o = "+" -> l + r
         [] o = "-" -> l - r
         [] o = "*" -> l * r
         [] o = "/" -> IF r = 0 THEN Null
                       ELSE LET q == Magnitude(l) \div Magnitude(r)
                            IN  IF (l < 0) = (r < 0) THEN q ELSE -q
         [] o = "%" -> IF r = 0 THEN Null ELSE l % Magnitude(r)

\* A column reference: a string that is missing reads as "".
Cell(row, c) ==
  LET v == IF c \in DOMAIN row THEN row[c] ELSE Null
  IN  IF v = Null /\ c \in StringColumns THEN Empty ELSE v

\* The columns an expression reads, in whatever row.
RECURSIVE ColumnsOf(_)
ColumnsOf(e) ==
  CASE e.op = "col" -> {e.name}
    [] e.op = "lit" -> {}
    [] e.op = "window" -> UNION {ColumnsOf(e.args[k]) : k \in DOMAIN e.args}
    [] e.op \in {"not", "in"} -> ColumnsOf(e.of)
    [] e.op = "between" -> ColumnsOf(e.of) \cup ColumnsOf(e.low) \cup ColumnsOf(e.high)
    [] OTHER -> ColumnsOf(e.left) \cup ColumnsOf(e.right)

\* Does an expression read neighbouring rows?
RECURSIVE ContainsWindow(_)
ContainsWindow(e) ==
  CASE e.op = "window" -> TRUE
    [] e.op \in {"col", "lit"} -> FALSE
    [] e.op \in {"not", "in"} -> ContainsWindow(e.of)
    [] e.op = "between" -> ContainsWindow(e.of) \/ ContainsWindow(e.low) \/ ContainsWindow(e.high)
    [] OTHER -> ContainsWindow(e.left) \/ ContainsWindow(e.right)

InRange(v, lo, hi) == CompareValues(v, lo) >= 0 /\ CompareValues(v, hi) <= 0

RECURSIVE EvalAt(_, _, _)

\* evalExpr on the i-th row of rows.
EvalAt(e, rows, i) ==
  LET Eval(x) == EvalAt(x, rows, i)
  IN
  CASE e.op = "col" -> Cell(rows[i], e.name)
    [] e.op = "window" ->
         WindowFunction(e.fn, [k \in DOMAIN e.args |-> [j \in DOMAIN rows |-> EvalAt(e.args[k], rows, j)]], rows, i)
    [] e.op = "lit" -> e.val
    [] e.op = "not" -> Not3(Eval(e.of))
    [] e.op = "and" -> And3(Eval(e.left), Eval(e.right))
    [] e.op = "or"  -> Or3(Eval(e.left), Eval(e.right))
    [] e.op \in Comparisons -> Compare(e.op, Eval(e.left), Eval(e.right))
    [] e.op \in {"+", "-", "*", "/", "%"} ->
         Arithmetic(e.op, Eval(e.left), Eval(e.right))
    [] e.op = "in" ->
         LET v == Eval(e.of)
         IN  v # Null /\ (v \in e.vals) # e.negated
    [] e.op = "between" ->
         LET v == Eval(e.of)
             lo == Eval(e.low)
             hi == Eval(e.high)
         IN  v # Null /\ lo # Null /\ hi # Null /\ InRange(v, lo, hi) # e.negated

Eval(e, row) == EvalAt(e, <<row>>, 1)

------------------------------------------------------------------------------
(* Predicates the planner takes out: [col, op, val].                         *)

Constant(e) == e.op = "lit"

Mirror(o) ==
  CASE o = "<" -> ">" [] o = "<=" -> ">=" [] o = ">" -> "<" [] o = ">=" -> "<="
    [] OTHER -> o

\* extractColAndConst: a column compared with a constant, either way round.
IsColAndConst(e) ==
  /\ e.op \in Comparisons
  /\ \/ e.left.op = "col" /\ Constant(e.right) /\ e.right.val # Null
     \/ e.right.op = "col" /\ Constant(e.left) /\ e.left.val # Null

ColAndConst(e) ==
  IF e.left.op = "col"
  THEN [col |-> e.left.name, op |-> e.op, val |-> e.right.val]
  ELSE [col |-> e.right.name, op |-> Mirror(e.op), val |-> e.left.val]

\* extractPredicates: the conjuncts that may go to the scan.  The rest is left
\* to the where, which runs all the same.
RECURSIVE ZonePreds(_, _)
ZonePreds(e, schema) ==
  IF e.op = "and" THEN ZonePreds(e.left, schema) \cup ZonePreds(e.right, schema)
  ELSE {p \in (IF IsColAndConst(e) THEN {ColAndConst(e)} ELSE {}) :
          p.col \in schema \ StringColumns /\ p.op # "!="}

\* collectExactPreds: every conjunct of a where, or NoPlan.
NoPlan == {[col |-> "", op |-> "", val |-> Null]}

RECURSIVE ExactPreds(_, _)
ExactPreds(e, schema) ==
  CASE e.op = "between" ->
         IF e.negated THEN NoPlan
         ELSE ExactPreds(Bin("and", Bin(">=", e.of, e.low), Bin("<=", e.of, e.high)), schema)
    [] e.op = "and" ->
         LET both == ExactPreds(e.left, schema) \cup ExactPreds(e.right, schema)
         IN  IF NoPlan \subseteq both THEN NoPlan ELSE both
    [] IsColAndConst(e) ->
         LET p == ColAndConst(e)
         IN  IF p.col \in schema /\ (p.col \in StringColumns => p.op \in {"==", "!="})
             THEN {p} ELSE NoPlan
    [] OTHER -> NoPlan

\* evalExactPred on a row of a chunk that has the columns cols.
ExactKeeps(p, row, cols) ==
  IF p.col \in StringColumns THEN (Cell(row, p.col) = p.val) = (p.op = "==")
  ELSE IF p.col \notin cols \/ row[p.col] = Null THEN p.op = "!="
  ELSE Matches(p.op, CompareValues(row[p.col], p.val))

\* applyPredicateVec: a column the chunk lacks, or that is not decoded, is
\* passed over; a null cell stays only for !=.
VecKeeps(p, row, cols) ==
  \/ p.col \notin cols
  \/ IF row[p.col] = Null THEN p.op = "!="
     ELSE Matches(p.op, CompareValues(row[p.col], p.val))

\* A zone's statistics are the least and the greatest valid cell of a column; a
\* zone is read unless they show that no cell satisfies a predicate.
ZoneMayMatch(p, rows, cols) ==
  p.col \in cols =>
    LET valid == {rows[i][p.col] : i \in DOMAIN rows} \ {Null}
        lo == CHOOSE x \in valid : \A y \in valid : x <= y
        hi == CHOOSE x \in valid : \A y \in valid : x >= y
    IN  valid # {} /\
        CASE p.op = "==" -> lo <= p.val /\ p.val <= hi
          [] p.op = "!=" -> ~(lo = p.val /\ hi = p.val)
          [] p.op \in {"<", "<="} -> Matches(p.op, CompareValues(lo, p.val))
          [] p.op \in {">", ">="} -> Matches(p.op, CompareValues(hi, p.val))
==============================================================================
