------------------------------ MODULE Statements ------------------------------
(***************************************************************************)
(* The names a statement binds, and where they are seen: lets, `as`,       *)
(* `invoke`, user functions and stored functions (engine.go,               *)
(* stored_functions.go, functions.go, invoke.go).  The engine has one let  *)
(* context, which statements install, change in place and put back; the    *)
(* contexts of enclosing statements are its parents.  Stored functions are *)
(* rows of _Functions, the latest of a name counting.                      *)
(*                                                                         *)
(* A table is a column's name and its values, a sequence of integers; all  *)
(* values have one type.  Graphs, federated sources, external resolvers,   *)
(* materialized views and the named sources table() and graph() are left   *)
(* out.                                                                    *)
(***************************************************************************)
EXTENDS Integers, Sequences, SequencesExt, FiniteSets, FiniteSetsExt, Functions, TLC

CONSTANTS
  Null,        \* a null cell
  Failed,      \* an error
  Unsettled,   \* what a name that is no longer bound may stand for
  Stored,      \* the catalog's tables: names to tables
  Statement,   \* what may be asked
  MaxUDFDepth, \* calls of user functions within each other
  MaxRows,     \* bound on the rows of _Functions
  \* Eval, Run, ValueOf and Means below, which use each other.
  Evaluator(_, _, _), Engine(_, _), ScopedValue(_, _, _, _), ScopedMeaning(_, _)

------------------------------------------------------------------------------
(* Statements.                                                               *)

Table(col, rows) == [col |-> col, rows |-> rows]

Lit(n) == [op |-> "lit", n |-> n]
Name(x) == [op |-> "name", name |-> x]
Plus(a, b) == [op |-> "plus", a |-> a, b |-> b]
AtLeast(a, b) == [op |-> "atleast", a |-> a, b |-> b]
CallE(f, args) == [op |-> "call", name |-> f, args |-> args]
ToScalar(q) == [op |-> "toscalar", q |-> q]

\* An argument: an expression or a tabular statement, with a parameter's name or not.
Arg(value) == [name |-> "", value |-> value]
NamedArg(x, value) == [name |-> x, value |-> value]

Named(x) == [of |-> "name", name |-> x]
Called(f, args) == [of |-> "call", name |-> f, args |-> args]
Rows(t) == [of |-> "rows", table |-> t]

Query(source, ops) == [kind |-> "query", source |-> source, ops |-> ops]
Let(x, value) == [kind |-> "let", name |-> x, value |-> value]
\* Operators on a table within another operator.
Pipeline(t, ops) == [kind |-> "pipeline", table |-> t, ops |-> ops]
\* Lets and tabular statements, in order; the last is a statement.
Compound(items) == [kind |-> "compound", items |-> items]
Value(e) == [kind |-> "expr", expr |-> e]
Precomputed(t) == [kind |-> "table", table |-> t]
Function(params, tabular, locals, body) ==
  [kind |-> "func", params |-> params, tabular |-> tabular, locals |-> locals, body |-> body]
\* cols are the columns a tabular parameter declares; default is Failed when there is none.
Param(x, default) == [name |-> x, tabular |-> FALSE, cols |-> {}, default |-> default]
TableParam(x, cols) == [name |-> x, tabular |-> TRUE, cols |-> cols, default |-> Failed]

WhereOp(e) == [op |-> "where", expr |-> e]
ProjectOp(c, e) == [op |-> "project", col |-> c, expr |-> e]
CountOp == [op |-> "count"]
AsOp(x) == [op |-> "as", name |-> x]
InvokeOp(f, args) == [op |-> "invoke", name |-> f, args |-> args]
UnionOp(legs) == [op |-> "union", legs |-> legs]
SemiJoinOp(q) == [op |-> "semijoin", right |-> q]
PartitionOp(ops) == [op |-> "partition", ops |-> ops]
PartitionFromOp(q) == [op |-> "partitionfrom", q |-> q]
ForkOp(branches) == [op |-> "fork", branches |-> branches]

Create(f, def, orAlter, ifNotExists) ==
  [kind |-> "create", name |-> f, def |-> def, orAlter |-> orAlter, ifNotExists |-> ifNotExists]
Drop(names, plural) == [kind |-> "drop", names |-> names, plural |-> plural]
\* .show functions | ops.
ShowFunctions(ops) == [kind |-> "show", ops |-> ops]

------------------------------------------------------------------------------
(* The engine.  m.heap holds the let contexts made so far, m.current is the  *)
(* one installed, 0 for nil; a context's parent is 0 or another.             *)

Nothing == [x \in {} |-> Null]
Context(parent) == [scalars |-> Nothing, tables |-> Nothing, funcs |-> Nothing, parent |-> parent]

\* Latest row of a name, the first of those made at once.
Latest(rows, f) ==
  LET of == {i \in DOMAIN rows : rows[i].name = f}
  IN  CHOOSE i \in of : \A j \in of : rows[j].at < rows[i].at \/ (rows[j].at = rows[i].at /\ i <= j)

\* Mutant of IsStored: a tombstone counts as the function.
IsStored_EverDefined(rows, f) == \E i \in DOMAIN rows : rows[i].name = f

\* lookupStoredFunction: is there one that is not dropped?
IsStored(rows, f) == (\E i \in DOMAIN rows : rows[i].name = f) /\ ~rows[Latest(rows, f)].deleted

\* listStoredFunctions.
Listed(rows) ==
  LET first == FoldLeft(LAMBDA seen, r : IF Contains(seen, r.name) THEN seen ELSE Append(seen, r.name), << >>, rows)
  IN  SelectSeq(first, LAMBDA f : IsStored(rows, f))

RECURSIVE Owner(_, _, _, _)
\* LookupScalar, LookupTable and LookupFunction: the context that has the name.
Owner(heap, i, what, x) ==
  IF i = 0 THEN 0 ELSE IF x \in DOMAIN heap[i][what] THEN i ELSE Owner(heap, heap[i].parent, what, x)

Has(m, what, x) == Owner(m.heap, m.current, what, x) # 0
Get(m, what, x) == m.heap[Owner(m.heap, m.current, what, x)][what][x]

\* setLetContext, of a new context.
Install(m, context) == [m EXCEPT !.heap = Append(@, context), !.current = Len(m.heap) + 1]

\* A context to bind a name in, made when there is none (applyAs, applyInvoke).
Ensured(m) == IF m.current = 0 THEN Install(m, Context(0)) ELSE m

Bound(m, what, x, v) == [m EXCEPT !.heap[m.current][what] = (x :> v) @@ @]

InvokeSource == "__invoke_source__"

\* Mutant of NeedsRestore: only `as` is looked for.
NeedsRestore_AsOnly(ops) == \E i \in DOMAIN ops : ops[i].op = "as"

\* queryNeedsLetContextRestore.
NeedsRestore(ops) == \E i \in DOMAIN ops : ops[i].op \in {"as", "invoke"}

\* Does a stored or a let-bound function return a table?
IsTabularFunction(m, f) ==
  IF Has(m, "funcs", f) THEN Get(m, "funcs", f).tabular ELSE IsStored(m.rows, f)

\* Does x name a function without parameters, to be called without parentheses?
CalledBare(m, x) ==
  \/ IsStored(m.rows, x) /\ m.rows[Latest(m.rows, x)].def.params = << >>
  \/ Has(m, "funcs", x) /\ Get(m, "funcs", x).tabular /\ Get(m, "funcs", x).params = << >>

\* Values of a binary operator; a null makes a null.
Binary(e, a, b) ==
  IF a = Failed \/ b = Failed THEN Failed
  ELSE IF a = Null \/ b = Null THEN Null
  ELSE IF e.op = "plus" THEN a + b ELSE IF a >= b THEN 1 ELSE 0

IsExpr(value) == "op" \in DOMAIN value

\* A table's name or a call may be read as an expression too.
IsBare(q) == q.kind = "query" /\ q.ops = << >> /\ q.source.of # "rows"

AsExpr(q) == IF q.source.of = "name" THEN Name(q.source.name) ELSE CallE(q.source.name, q.source.args)

\* Which argument each parameter is given: by position, then by name; Failed when
\* there are too many, one twice, or a position after a name.
Placed(params, args) ==
  LET slot(k) == IF args[k].name = "" THEN k ELSE CHOOSE i \in DOMAIN params : params[i].name = args[k].name
      known == \A k \in DOMAIN args : args[k].name = "" \/ \E i \in DOMAIN params : params[i].name = args[k].name
  IN  IF \/ Len(args) > Len(params)
         \/ ~known
         \/ \E k, n \in DOMAIN args : k < n /\ (slot(k) = slot(n) \/ (args[k].name # "" /\ args[n].name = ""))
      THEN Failed
      ELSE [i \in {slot(k) : k \in DOMAIN args} |-> args[CHOOSE k \in DOMAIN args : slot(k) = i].value]

\* evalUserFunc's own placing of arguments: a position takes the next parameter that
\* has none, and a later one by the same name replaces it.
PlacedScalar(params, args) ==
  LET place(given, arg) ==
        IF given = Failed THEN Failed
        ELSE IF arg.name # "" THEN
          LET at == {i \in DOMAIN params : params[i].name = arg.name}
          IN  IF at = {} THEN Failed ELSE (Max(at) :> arg.value) @@ given
        ELSE LET free == DOMAIN params \ DOMAIN given
             IN  IF free = {} THEN Failed ELSE (Min(free) :> arg.value) @@ given
      required == {i \in DOMAIN params : params[i].default = Failed}
  IN  IF Len(args) \notin Cardinality(required)..Len(params) THEN Failed
      ELSE FoldLeft(place, Nothing, args)

\* Uses of Eval and Run: TLC's profile of a run unfolds no constant passed as an operator.
Applied2(op(_, _), a, b) == op(a, b)
Applied3(op(_, _, _), a, b, c) == op(a, b, c)
Execute(m, s) == Applied2(Engine, m, s)
Evaluate(m, e, row) == Applied3(Evaluator, m, e, row)

\* evalToScalarOnce: the first cell, or the argument as an expression.
RunToScalar(m, q) ==
  LET out == Execute(m, q)
  IN  [m |-> out.m,
       v |-> IF out.t # Failed THEN IF out.t.rows = << >> THEN Null ELSE out.t.rows[1]
             ELSE IF IsBare(q) THEN Evaluate(out.m, AsExpr(q), Nothing) ELSE Failed]

\* evalUserFunc: arguments in the caller's scope, the body with the parameters as its
\* row, and the lets of the caller.
CallUser(m, f, args, row) ==
  LET fn == Get(m, "funcs", f)
      given == PlacedScalar(fn.params, args)
      value(i) == IF i \in DOMAIN given THEN Evaluate(m, given[i], row)
                  ELSE IF fn.params[i].default = Failed THEN Failed
                  ELSE Evaluate(m, fn.params[i].default, Nothing)
      slot(x) == CHOOSE i \in DOMAIN fn.params : fn.params[i].name = x
      start == [x \in {fn.params[i].name : i \in DOMAIN fn.params} |-> value(slot(x))]
      local(r, l) == IF r = Failed THEN Failed
                     ELSE LET v == Evaluate(m, l.value.expr, r) IN IF v = Failed THEN Failed ELSE (l.name :> v) @@ r
      scope == FoldLeft(local, start, fn.locals)
  IN  IF \/ fn.tabular
         \/ given = Failed
         \/ m.depth >= MaxUDFDepth
         \/ \E x \in DOMAIN start : start[x] = Failed
         \/ scope = Failed
      THEN Failed
      ELSE Evaluate([m EXCEPT !.depth = @ + 1], fn.body, scope)

\* evalExpr.  What a toscalar runs here binds names in a context of its own, which
\* holds the row: the engine is as it was after it.
Eval(m, e, row) ==
  CASE e.op = "lit" -> e.n
    [] e.op = "name" /\ e.name \in DOMAIN row -> row[e.name]
    [] e.op = "name" /\ e.name \notin DOMAIN row ->
         IF Has(m, "scalars", e.name) THEN Get(m, "scalars", e.name)
         ELSE IF /\ Has(m, "funcs", e.name)
                 /\ ~Get(m, "funcs", e.name).tabular
                 /\ Get(m, "funcs", e.name).params = << >> THEN CallUser(m, e.name, << >>, row)
         ELSE Failed
    [] e.op \in {"plus", "atleast"} -> Binary(e, Evaluate(m, e.a, row), Evaluate(m, e.b, row))
    [] e.op = "call" -> IF Has(m, "funcs", e.name) THEN CallUser(m, e.name, e.args, row) ELSE Failed
    [] e.op = "toscalar" -> RunToScalar(Install(m, [Context(m.current) EXCEPT !.scalars = row]), e.q).v

RECURSIVE Substituted(_, _)
\* substituteToScalars: an operator's subqueries run once, before its rows.
Substituted(m, e) ==
  CASE e.op = "toscalar" ->
         LET out == RunToScalar(m, e.q) IN [m |-> out.m, e |-> IF out.v = Failed THEN Failed ELSE Lit(out.v)]
    [] e.op \in {"plus", "atleast"} ->
         LET a == Substituted(m, e.a)
             b == Substituted(a.m, e.b)
         IN  IF a.e = Failed THEN a ELSE IF b.e = Failed THEN b ELSE [m |-> b.m, e |-> [e EXCEPT !.a = a.e, !.b = b.e]]
    [] e.op = "call" ->
         LET one(s, arg) == IF s.e = Failed THEN s
                            ELSE LET out == Substituted(s.m, arg.value)
                                 IN  [m |-> out.m, e |-> IF out.e = Failed THEN Failed
                                                         ELSE [s.e EXCEPT !.args = Append(@, [arg EXCEPT !.value = out.e])]]
         IN  FoldLeft(one, [m |-> m, e |-> [e EXCEPT !.args = << >>]], e.args)
    [] OTHER -> [m |-> m, e |-> e]

------------------------------------------------------------------------------
(* Functions that return tables.                                             *)

\* A name may be a table as well as a scalar; nothing else is both.
AsTabular(value) ==
  IF ~IsExpr(value) THEN value
  ELSE IF value.op = "name" THEN Query(Named(value.name), << >>) ELSE Failed

\* bindStoredFunctionArgs: lets for the parameters, each computed in the caller's
\* context, in the order declared.
BindArgs(m, params, args) ==
  LET given == Placed(params, args)
      let(s, param, t) == [s EXCEPT !.lets = Append(@, Let(param.name, t))]
      fail(s) == [s EXCEPT !.lets = Failed]
      tabular(s, param, i) ==
        LET stmt == AsTabular(given[i])
            out == Execute(s.m, stmt)
            after == [s EXCEPT !.m = out.m]
        IN  IF stmt = Failed THEN fail(s)
            ELSE IF out.t = Failed THEN fail(after)
            ELSE IF ~(param.cols \subseteq {out.t.col}) THEN fail(after)
            ELSE let(after, param, Precomputed(out.t))
      scalar(s, param, i) ==
        LET value == IF i \in DOMAIN given THEN given[i] ELSE param.default
            v == IF value = Failed \/ ~IsExpr(value) THEN Failed ELSE Evaluate(s.m, value, Nothing)
        IN  IF v = Failed THEN fail(s) ELSE let(s, param, Value(Lit(v)))
      one(s, i) ==
        IF s.lets = Failed THEN s
        ELSE IF ~params[i].tabular THEN scalar(s, params[i], i)
        ELSE IF i \notin DOMAIN given THEN fail(s)
        ELSE tabular(s, params[i], i)
  IN  IF given = Failed THEN [m |-> m, lets |-> Failed]
      ELSE FoldLeft(one, [m |-> m, lets |-> << >>], [i \in DOMAIN params |-> i])

\* The body with the parameters' lets before its own.  In a body of several statements
\* as many lets come before each as did without the parameters', and the others before
\* the last.
WithLets(lets, body) ==
  LET all == lets \o SelectSeq(body.items, LAMBDA it : it.kind = "let")
      placed(acc, it) == IF it.kind = "let" THEN [out |-> Append(acc.out, all[acc.n + 1]), n |-> acc.n + 1]
                         ELSE [acc EXCEPT !.out = Append(@, it)]
      first == FoldLeft(placed, [out |-> << >>, n |-> 0], Front(body.items))
  IN  IF body.kind = "compound"
      THEN Compound(first.out \o SubSeq(all, first.n + 1, Len(all)) \o <<Last(body.items)>>)
      ELSE IF lets = << >> THEN body
      ELSE Compound(lets \o <<body>>)

\* resolveStoredFunction.  A function that is being resolved may not be called.
Resolve(m, f, args) ==
  LET fn == IF Has(m, "funcs", f) THEN Get(m, "funcs", f) ELSE m.rows[Latest(m.rows, f)].def
      bound == BindArgs(m, fn.params, args)
      out == Execute([bound.m EXCEPT !.resolving = @ \cup {f}], WithLets(bound.lets, fn.body))
  IN  IF f \in m.resolving \/ ~IsTabularFunction(m, f) THEN [m |-> m, t |-> Failed]
      ELSE IF bound.lets = Failed THEN [m |-> bound.m, t |-> Failed]
      ELSE [out EXCEPT !.m.resolving = @ \ {f}]

------------------------------------------------------------------------------
(* Pipelines.                                                                *)

\* A query within an operator whose context goes with it.
RunIn(m, context, q) ==
  LET out == Execute(Install(m, context), q) IN [out EXCEPT !.m.current = m.current]

\* Results of f over a sequence, until one fails.
Each(f(_, _), m, s) ==
  FoldLeft(LAMBDA acc, x : IF acc.ts = Failed THEN acc
                           ELSE LET out == f(acc.m, x)
                                IN  [m |-> out.m, ts |-> IF out.t = Failed THEN Failed ELSE Append(acc.ts, out.t)],
           [m |-> m, ts |-> << >>], s)

Stacked(ts, col) == Table(col, FlattenSeq([i \in DOMAIN ts |-> ts[i].rows]))

Distinct(rows) == FoldLeft(LAMBDA seen, v : IF Contains(seen, v) THEN seen ELSE Append(seen, v), << >>, rows)

\* applyWhere and applyProject.
PerRow(m, t, op) ==
  LET sub == Substituted(m, op.expr)
      value(i) == Evaluate(sub.m, sub.e, t.col :> t.rows[i])
      result == IF op.op = "where"
                THEN Table(t.col, FlattenSeq([i \in DOMAIN t.rows |-> IF value(i) = 1 THEN <<t.rows[i]>> ELSE << >>]))
                ELSE Table(op.col, [i \in DOMAIN t.rows |-> value(i)])
  IN  IF sub.e = Failed \/ \E i \in DOMAIN t.rows : value(i) = Failed THEN [m |-> sub.m, t |-> Failed]
      ELSE [m |-> sub.m, t |-> result]

\* applyAs: the name goes into the context there is.
ApplyAs(m, t, op) == [m |-> Bound(Ensured(m), "tables", op.name, t), t |-> t]

\* applyInvoke: the table is the call's first argument.
ApplyInvoke(m, t, op) ==
  Resolve(Bound(Ensured(m), "tables", InvokeSource, t), op.name, <<Arg(Name(InvokeSource))>> \o op.args)

\* applyUnion, of legs with the columns of the first table.
ApplyUnion(m, t, op) ==
  LET leg(n, q) == IF q.source.of = "name" /\ q.ops = << >> /\ Has(n, "tables", q.source.name)
                   THEN [m |-> n, t |-> Get(n, "tables", q.source.name)] ELSE Execute(n, q)
      out == Each(leg, m, op.legs)
  IN  [m |-> out.m, t |-> IF out.ts = Failed THEN Failed ELSE Stacked(<<t>> \o out.ts, t.col)]

\* applyJoin, kind=leftsemi on the one column.
ApplySemiJoin(m, t, op) ==
  LET out == Execute(m, op.right)
  IN  [m |-> out.m,
       t |-> IF out.t = Failed THEN Failed
             ELSE IF out.t.col # t.col THEN Failed
             ELSE Table(t.col, SelectSeq(t.rows, LAMBDA v : v # Null /\ Contains(out.t.rows, v)))]

\* applyPartition: the operators run on the rows of each value.
ApplyPartition(m, t, op) ==
  LET of(v) == Table(t.col, SelectSeq(t.rows, LAMBDA w : w = v))
      keys == Distinct(t.rows)
      groups == IF keys = << >> THEN <<t>> ELSE [k \in DOMAIN keys |-> of(keys[k])]
      out == Each(LAMBDA n, g : Execute(n, Pipeline(g, op.ops)), m, groups)
  IN  [m |-> out.m, t |-> IF out.ts = Failed THEN Failed
                          ELSE IF keys = << >> THEN Table(out.ts[1].col, << >>)
                          ELSE Stacked(out.ts, out.ts[1].col)]

\* applyPartitionWithSource: a query for each value, which it sees as a scalar.
ApplyPartitionFrom(m, t, op) ==
  LET one(n, v) == RunIn(n, [Context(n.current) EXCEPT !.scalars = t.col :> v], op.q)
      out == Each(one, m, Distinct(t.rows))
  IN  [m |-> out.m, t |-> IF out.ts = Failed THEN Failed
                          ELSE IF out.ts = << >> THEN Table("", << >>) ELSE Stacked(out.ts, out.ts[1].col)]

\* applyFork: the results after the first are extra ones.
ApplyFork(m, t, op) ==
  LET out == Each(LAMBDA n, b : Execute(n, Pipeline(t, b)), m, op.branches)
  IN  IF out.ts = Failed THEN [m |-> out.m, t |-> Failed]
      ELSE [m |-> [out.m EXCEPT !.extra = @ \o Tail(out.ts)], t |-> out.ts[1]]

ApplyOperator(m, t, op) ==
  CASE op.op \in {"where", "project"} -> PerRow(m, t, op)
    [] op.op = "count" -> [m |-> m, t |-> Table("Count", <<Len(t.rows)>>)]
    [] op.op = "as" -> ApplyAs(m, t, op)
    [] op.op = "invoke" -> ApplyInvoke(m, t, op)
    [] op.op = "union" -> ApplyUnion(m, t, op)
    [] op.op = "semijoin" -> ApplySemiJoin(m, t, op)
    [] op.op = "partition" -> ApplyPartition(m, t, op)
    [] op.op = "partitionfrom" -> ApplyPartitionFrom(m, t, op)
    [] op.op = "fork" -> ApplyFork(m, t, op)

\* applyPipeline: a fork must be the last operator.
Pipe(m, t, ops) ==
  IF t = Failed \/ \E i \in 1..(Len(ops) - 1) : ops[i].op = "fork" THEN [m |-> m, t |-> Failed]
  ELSE FoldLeft(LAMBDA acc, op : IF acc.t = Failed THEN acc ELSE ApplyOperator(acc.m, acc.t, op),
                [m |-> m, t |-> t], ops)

\* executeQueryRaw: a let, a table, a function called with parentheses or without.
RunRaw(m, q) ==
  LET x == q.source.name
      called(f, args) == LET out == Resolve(m, f, args) IN Pipe(out.m, out.t, q.ops)
  IN  CASE q.source.of = "rows" -> Pipe(m, q.source.table, q.ops)
        [] q.source.of = "call" -> called(x, q.source.args)
        [] q.source.of = "name" ->
             IF Has(m, "tables", x) THEN Pipe(m, Get(m, "tables", x), q.ops)
             ELSE IF x \in DOMAIN Stored THEN Pipe(m, Stored[x], q.ops)
             ELSE IF CalledBare(m, x) THEN called(x, << >>)
             ELSE [m |-> m, t |-> Failed]

\* bindLet.
BindLet(m, let) ==
  LET v == let.value
      table(out) == IF out.t = Failed THEN out ELSE [out EXCEPT !.m = Bound(out.m, "tables", let.name, out.t)]
      alias == v.expr.op = "name" /\ ~Has(m, "scalars", v.expr.name) /\ Has(m, "tables", v.expr.name)
      call == v.expr.op = "call" /\ IsTabularFunction(m, v.expr.name)
      sub == Substituted(m, v.expr)
      n == Evaluate(sub.m, sub.e, Nothing)
  IN  CASE v.kind \in {"query", "compound"} -> table(Execute(m, v))
        [] v.kind = "table" -> table([m |-> m, t |-> v.table])
        [] v.kind = "func" -> [m |-> Bound(m, "funcs", let.name, v), t |-> Null]
        [] v.kind = "expr" ->
             IF alias THEN table([m |-> m, t |-> Get(m, "tables", v.expr.name)])
             ELSE IF call THEN table(Execute(m, Query(Called(v.expr.name, v.expr.args), << >>)))
             ELSE IF sub.e = Failed THEN [m |-> sub.m, t |-> Failed]
             ELSE IF n = Failed THEN [m |-> sub.m, t |-> Failed]
             ELSE [m |-> Bound(sub.m, "scalars", let.name, n), t |-> Null]

\* A batch: each statement's result and its extra ones, after those before.
RunBatched(m, stmt) ==
  LET out == Execute([m EXCEPT !.extra = << >>], stmt)
  IN  [m |-> out.m, t |-> out.t, results |-> IF out.t = Failed THEN << >> ELSE <<out.t>> \o out.m.extra]

\* executeCompound, which leaves the context `then`.
Compounded(m, c, then) ==
  LET batch == Cardinality({i \in DOMAIN c.items : c.items[i].kind # "let"}) > 1
      item(s, it) ==
        IF s.t = Failed THEN s
        ELSE IF it.kind = "let" THEN BindLet(s.m, it) @@ s
        ELSE IF ~batch THEN Execute(s.m, it) @@ s
        ELSE LET out == RunBatched(s.m, it) IN [out EXCEPT !.results = s.results \o @]
      done == FoldLeft(item, [m |-> Install(m, Context(m.current)), t |-> Null, results |-> << >>], c.items)
      back == [done.m EXCEPT !.current = then]
  IN  IF ~batch THEN [m |-> back, t |-> done.t]
      ELSE IF done.t = Failed THEN [m |-> [back EXCEPT !.extra = m.extra], t |-> Failed]
      ELSE [m |-> [back EXCEPT !.extra = m.extra \o Tail(done.results)], t |-> done.results[1]]

\* Mutant of RunCompound: no context is left, whatever there was before.
RunCompound_ToNil(m, c) == Compounded(m, c, 0)

\* The context is there while the items run, and the one before it after that, however
\* they end.
RunCompound(m, c) == Compounded(m, c, m.current)

\* Execute and executeQuery: the context comes back after a query that may make one.
Run(m, s) ==
  CASE s.kind = "compound" -> RunCompound(m, s)
    [] s.kind = "query" ->
         LET out == RunRaw(m, s)
         IN  IF NeedsRestore(s.ops) THEN [out EXCEPT !.m.current = m.current] ELSE out
    [] s.kind = "pipeline" -> Pipe(m, s.table, s.ops)
    [] s.kind = "show" -> Pipe(m, Table("Name", Listed(m.rows)), s.ops)

------------------------------------------------------------------------------
(* What statements mean.  Instead of an engine with a context that changes   *)
(* there is a scope, passed on: v.scalars, v.tables and v.funcs are what is  *)
(* visible.  A name bound by `as` is seen by the rest of its pipeline and by *)
(* the statements after it in a batch.  After the query, leg or body that    *)
(* holds it, it is spent, and looking at it settles nothing (v.open).        *)

Scope(funcs) ==
  [scalars |-> Nothing, tables |-> Nothing, funcs |-> Nothing, stored |-> funcs, calls |-> {}, depth |-> 0,
   bound |-> {}, spent |-> {}, open |-> FALSE]

Binds(v, what, x, val) ==
  IF what = "tables" THEN [v EXCEPT !.tables = (x :> val) @@ @, !.spent = @ \ {x}]
  ELSE [v EXCEPT ![what] = (x :> val) @@ @]

\* The scope after something nested in it came to an end as w.
Outside(v, w) == [v EXCEPT !.spent = @ \cup w.spent \cup w.bound, !.open = w.open]

Applied4(op(_, _, _, _), a, b, c, d) == op(a, b, c, d)
Meaning(v, s) == Applied2(ScopedMeaning, v, s)
Valued(v, e, row, sub) == Applied4(ScopedValue, v, e, row, sub)

Within(v, q) == LET r == Meaning([v EXCEPT !.bound = {}], q) IN [r EXCEPT !.v = Outside(v, r.v)]

\* A toscalar's first cell; its query sees the row sub.
ToScalarOf(v, q, sub) ==
  LET r == Within([v EXCEPT !.scalars = sub @@ @], q)
  IN  IF r.v.open THEN Unsettled
      ELSE IF r.t # Failed THEN IF r.t.rows = << >> THEN Null ELSE r.t.rows[1]
      ELSE IF IsBare(q) THEN Valued(v, AsExpr(q), Nothing, sub) ELSE Failed

\* A call gives the parameters their arguments' values; the body and its lets see them
\* and what the caller sees.
CallOf(v, fn, args, row, sub) ==
  LET given == PlacedScalar(fn.params, args)
      actual(i) == IF i \in DOMAIN given THEN Valued(v, given[i], row, sub)
                   ELSE Valued(v, fn.params[i].default, Nothing, sub)
      parameters == FoldLeft(LAMBDA r, i : (fn.params[i].name :> actual(i)) @@ r, Nothing,
                             [i \in DOMAIN fn.params |-> i])
      scope == FoldLeft(LAMBDA r, l : (l.name :> Valued(v, l.value.expr, r, r)) @@ r, parameters, fn.locals)
  IN  IF fn.tabular \/ given = Failed \/ v.depth = MaxUDFDepth THEN Failed
      ELSE IF Unsettled \in Range(scope) THEN Unsettled
      ELSE IF Failed \in Range(scope) THEN Failed
      ELSE Valued([v EXCEPT !.depth = @ + 1], fn.body, scope, scope)

\* A column is seen before a let, a let before a function.
ValueOf(v, e, row, sub) ==
  CASE e.op = "lit" -> e.n
    [] e.op = "name" ->
         IF e.name \in DOMAIN row THEN row[e.name]
         ELSE IF e.name \in DOMAIN v.scalars THEN v.scalars[e.name]
         ELSE IF e.name \in DOMAIN v.funcs
         THEN IF v.funcs[e.name].params = << >> THEN CallOf(v, v.funcs[e.name], << >>, row, sub) ELSE Failed
         ELSE Failed
    [] e.op \in {"plus", "atleast"} ->
         LET a == Valued(v, e.a, row, sub)
             b == Valued(v, e.b, row, sub)
         IN  IF Unsettled \in {a, b} THEN Unsettled ELSE Binary(e, a, b)
    [] e.op = "call" ->
         IF e.name \in DOMAIN v.funcs THEN CallOf(v, v.funcs[e.name], e.args, row, sub) ELSE Failed
    [] e.op = "toscalar" -> ToScalarOf(v, e.q, sub)

RECURSIVE Asks(_)
\* Subqueries of an expression.
Asks(e) ==
  CASE e.op = "toscalar" -> {e.q}
    [] e.op \in {"plus", "atleast"} -> Asks(e.a) \cup Asks(e.b)
    [] e.op = "call" -> UNION {Asks(e.args[i].value) : i \in DOMAIN e.args}
    [] OTHER -> {}

AfterAsks(v, e) ==
  LET ends == {Within(v, q).v : q \in Asks(e)}
  IN  [v EXCEPT !.spent = @ \cup UNION {w.spent : w \in ends}]

\* A scope with a value's verdict.
Settle(v, values) == [v EXCEPT !.open = @ \/ Unsettled \in values]

Answer(v, t) == [v |-> v, t |-> t, extra |-> << >>]

\* A call of a function that returns a table: parameters are lets of its body.
TableOf(v, f, args) ==
  LET fn == IF f \in DOMAIN v.funcs THEN v.funcs[f] ELSE v.stored[f]
      given == Placed(fn.params, args)
      asked(s, i) == Within(s.v, AsTabular(given[i]))
      table(s, i) ==
        IF i \notin DOMAIN given \/ AsTabular(given[i]) = Failed THEN [s EXCEPT !.lets = Failed]
        ELSE LET r == asked(s, i)
             IN  IF r.t = Failed THEN [v |-> r.v, lets |-> Failed]
                 ELSE IF ~(fn.params[i].cols \subseteq {r.t.col}) THEN [v |-> r.v, lets |-> Failed]
                 ELSE [v |-> r.v, lets |-> Append(s.lets, Let(fn.params[i].name, Precomputed(r.t)))]
      scalar(s, i) ==
        LET e == IF i \in DOMAIN given THEN given[i] ELSE fn.params[i].default
            n == IF e = Failed \/ ~IsExpr(e) THEN Failed ELSE Valued(s.v, e, Nothing, Nothing)
        IN  IF n \in {Failed, Unsettled} THEN [v |-> Settle(s.v, {n}), lets |-> Failed]
            ELSE [s EXCEPT !.lets = Append(@, Let(fn.params[i].name, Value(Lit(n))))]
      one(s, i) == IF s.lets = Failed THEN s ELSE IF fn.params[i].tabular THEN table(s, i) ELSE scalar(s, i)
      lets == FoldLeft(one, [v |-> v, lets |-> << >>], [i \in DOMAIN fn.params |-> i])
      body == IF lets.lets = << >> THEN fn.body
              ELSE Compound(lets.lets \o IF fn.body.kind = "compound" THEN fn.body.items ELSE <<fn.body>>)
      r == Within([lets.v EXCEPT !.calls = @ \cup {f}], body)
  IN  IF f \in v.calls \/ ~(IF f \in DOMAIN v.funcs THEN v.funcs[f].tabular ELSE f \in DOMAIN v.stored)
      THEN Answer(v, Failed)
      ELSE IF given = Failed THEN Answer(v, Failed)
      ELSE IF lets.lets = Failed THEN Answer(lets.v, Failed)
      ELSE Answer([r.v EXCEPT !.calls = v.calls], r.t)

\* Answers of queries, each within v but after the ones before it.
InTurn(v, queries, Of(_, _)) ==
  FoldLeft(LAMBDA acc, q : LET r == Of(acc.v, q)
                           IN  IF Failed \in Range(acc.ts) THEN acc ELSE [v |-> r.v, ts |-> Append(acc.ts, r.t)],
           [v |-> v, ts |-> << >>], queries)

Operated(v, t, op) ==
  LET leg(w, q) == Within(w, q)
      piped(w, g) == Within(w, Pipeline(g, op.ops))
      branch(w, b) == Within(w, Pipeline(t, b))
      keyed(w, n) == LET r == Within([w EXCEPT !.scalars = (t.col :> n) @@ @], op.q)
                     IN  [r EXCEPT !.v.scalars = w.scalars]
      keys == Distinct(t.rows)
      groups == [k \in DOMAIN keys |-> Table(t.col, SelectSeq(t.rows, LAMBDA n : n = keys[k]))]
      all(out, result) == Answer(out.v, IF Failed \in Range(out.ts) THEN Failed ELSE result)
      perRow == [i \in DOMAIN t.rows |-> Valued(v, op.expr, t.col :> t.rows[i], Nothing)]
      asked == {ToScalarOf(v, q, Nothing) : q \in Asks(op.expr)}
      kept == {i \in DOMAIN t.rows : perRow[i] = 1}
      after == Settle(AfterAsks(v, op.expr), asked \cup Range(perRow))
  IN  CASE op.op \in {"where", "project"} ->
             IF Failed \in asked \cup Range(perRow) THEN Answer(after, Failed)
             ELSE IF op.op = "project" THEN Answer(after, Table(op.col, perRow))
             ELSE Answer(after, Table(t.col, [k \in 1..Cardinality(kept) |->
                    t.rows[CHOOSE i \in kept : Cardinality({j \in kept : j < i}) = k - 1]]))
        [] op.op = "count" -> Answer(v, Table("Count", <<Len(t.rows)>>))
        [] op.op = "as" -> Answer(Binds([v EXCEPT !.bound = @ \cup {op.name}], "tables", op.name, t), t)
        [] op.op = "invoke" -> TableOf(v, op.name, <<Arg(Query(Rows(t), << >>))>> \o op.args)
        [] op.op = "union" ->
             LET out == InTurn(v, op.legs, leg) IN all(out, Stacked(<<t>> \o out.ts, t.col))
        [] op.op = "semijoin" ->
             LET r == Within(v, op.right)
             IN  Answer(r.v, IF r.t = Failed THEN Failed ELSE IF r.t.col # t.col THEN Failed
                             ELSE Table(t.col, SelectSeq(t.rows, LAMBDA n : n \in Range(r.t.rows) \ {Null})))
        [] op.op = "partition" ->
             LET out == InTurn(v, IF keys = << >> THEN <<t>> ELSE groups, piped)
             IN  all(out, IF keys = << >> THEN Table(out.ts[1].col, << >>) ELSE Stacked(out.ts, out.ts[1].col))
        [] op.op = "partitionfrom" ->
             LET out == InTurn(v, keys, keyed)
             IN  all(out, IF keys = << >> THEN Table("", << >>) ELSE Stacked(out.ts, out.ts[1].col))
        [] op.op = "fork" ->
             LET out == InTurn(v, op.branches, branch)
             IN  [all(out, out.ts[1]) EXCEPT !.extra = IF Failed \in Range(out.ts) THEN << >> ELSE Tail(out.ts)]

Through(v, t, ops) ==
  IF \E i \in 1..(Len(ops) - 1) : ops[i].op = "fork" THEN Answer(v, Failed)
  ELSE FoldLeft(LAMBDA r, op : IF r.t = Failed THEN r ELSE Operated(r.v, r.t, op), Answer(v, t), ops)

Opened(v) == Answer([v EXCEPT !.open = TRUE], Failed)

\* What a query's source stands for, a let first, then a table, then a function.
SourceOf(v, source) ==
  LET x == source.name
      bare == \/ x \in DOMAIN v.stored /\ v.stored[x].params = << >>
              \/ x \in DOMAIN v.funcs /\ v.funcs[x].tabular /\ v.funcs[x].params = << >>
  IN  CASE source.of = "rows" -> Answer(v, source.table)
        [] source.of = "call" -> TableOf(v, x, source.args)
        [] source.of = "name" ->
             IF x \in v.spent THEN Opened(v)
             ELSE IF x \in DOMAIN v.tables THEN Answer(v, v.tables[x])
             ELSE IF x \in DOMAIN Stored THEN Answer(v, Stored[x])
             ELSE IF bare THEN TableOf(v, x, << >>) ELSE Answer(v, Failed)

LetOf(v, let) ==
  LET val == let.value
      table(r) == IF r.t = Failed THEN r ELSE [r EXCEPT !.v = Binds(r.v, "tables", let.name, r.t)]
      n == Valued(v, val.expr, Nothing, Nothing)
      after == Settle(AfterAsks(v, val.expr), {n})
      returnsTable(f) == IF f \in DOMAIN v.funcs THEN v.funcs[f].tabular ELSE f \in DOMAIN v.stored
  IN  CASE val.kind = "table" -> table(Answer(v, val.table))
        [] val.kind \in {"query", "compound"} -> table(Within(v, val))
        [] val.kind = "func" -> Answer(Binds(v, "funcs", let.name, val), Null)
        [] val.kind = "expr" ->
             IF val.expr.op = "name" /\ val.expr.name \notin DOMAIN v.scalars /\ val.expr.name \in v.spent THEN Opened(v)
             ELSE IF val.expr.op = "name" /\ val.expr.name \notin DOMAIN v.scalars /\ val.expr.name \in DOMAIN v.tables
             THEN table(Answer(v, v.tables[val.expr.name]))
             ELSE IF val.expr.op = "call" /\ returnsTable(val.expr.name)
             THEN table(Within(v, Query(Called(val.expr.name, val.expr.args), << >>)))
             ELSE IF n \in {Failed, Unsettled} THEN Answer(after, Failed)
             ELSE Answer(Binds(after, "scalars", let.name, n), Null)

\* The answers of a compound's statements, and what is in scope after it: what was
\* before it.
CompoundOf(v, c) ==
  LET item(s, it) ==
        IF s.t = Failed THEN s
        ELSE IF it.kind = "let" THEN LetOf(s.v, it) @@ s
        ELSE LET r == Meaning(s.v, it)
             IN  [v |-> r.v, t |-> r.t, results |-> s.results \o IF r.t = Failed THEN << >> ELSE <<r.t>> \o r.extra]
      done == FoldLeft(item, [v |-> v, t |-> Null, results |-> << >>], c.items)
  IN  [v |-> [v EXCEPT !.open = done.v.open],
       t |-> IF done.t = Failed THEN Failed ELSE done.results[1],
       extra |-> IF done.t = Failed THEN << >> ELSE Tail(done.results)]

Means(v, s) ==
  CASE s.kind = "compound" -> CompoundOf(v, s)
    [] s.kind = "query" ->
         LET from == SourceOf(v, s.source) IN IF from.t = Failed THEN from ELSE Through(from.v, from.t, s.ops)
    [] s.kind = "pipeline" -> Through(v, s.table, s.ops)
    [] s.kind = "show" ->
         Through(v, Table("Name", SetToSeq(DOMAIN v.stored)), s.ops)

------------------------------------------------------------------------------
(* An engine and its statements, one at a time.                              *)

VARIABLES
  functions, \* rows of _Functions, in the order appended
  engine,    \* the engine between statements
  defined,   \* what the creates and drops made so far define
  last       \* the last statement, the context it found and what came of it

vars == <<functions, engine, defined, last>>

Idle == [heap |-> << >>, current |-> 0, resolving |-> {}, depth |-> 0, extra |-> << >>, rows |-> << >>]

Init ==
  /\ functions = << >>
  /\ engine = Idle
  /\ defined = Nothing
  /\ last = [stmt |-> [kind |-> "none"]]

\* Contexts that can be reached from the one installed.
Reached(m) ==
  IF m.current = 0 THEN [m EXCEPT !.heap = << >>]
  ELSE [m EXCEPT !.heap = <<@[m.current]>>, !.current = 1]

\* A query, a batch or .show functions, optionally piped; the extra results are taken after it.
RunStatement(s) ==
  LET out == Execute([engine EXCEPT !.rows = functions], s)
  IN  /\ s.kind \in {"query", "compound", "show"}
      /\ engine' = Reached([out.m EXCEPT !.extra = << >>, !.rows = << >>])
      /\ last' = [stmt |-> s, before |-> engine.current, t |-> out.t, extra |-> out.m.extra]
      /\ UNCHANGED <<functions, defined>>

Row(f, def, deleted) == [name |-> f, at |-> Len(functions) + 1, def |-> def, deleted |-> deleted]

Ended(s, outcome) == last' = [stmt |-> s, t |-> outcome] /\ UNCHANGED engine

\* applyCreateFunction.
CreateFunction(s) ==
  LET there == IsStored(functions, s.name)
      refused == s.name \in DOMAIN Stored \/ (there /\ ~s.ifNotExists /\ ~s.orAlter)
      kept == ~refused /\ there /\ s.ifNotExists
  IN  /\ s.kind = "create"
      /\ Len(functions) < MaxRows
      /\ functions' = IF refused \/ kept THEN functions ELSE Append(functions, Row(s.name, s.def, FALSE))
      /\ defined' = IF s.name \in DOMAIN Stored \/ (s.name \in DOMAIN defined /\ (s.ifNotExists \/ ~s.orAlter))
                    THEN defined ELSE (s.name :> s.def) @@ defined
      /\ Ended(s, IF refused THEN Failed ELSE Null)

\* applyDropFunction: one drop at a time; .drop function stops at a name that is not there.
DropFunctions(s) ==
  LET tombstone(rows, f) ==
        IF IsStored(rows, f) THEN Append(rows, [name |-> f, at |-> Len(rows) + 1, def |-> Null, deleted |-> TRUE])
        ELSE rows
      rows == FoldLeft(tombstone, functions, s.names)
  IN  /\ s.kind = "drop"
      /\ Len(functions) + Len(s.names) <= MaxRows
      /\ functions' = rows
      /\ defined' = [f \in DOMAIN defined \ Range(s.names) |-> defined[f]]
      /\ Ended(s, IF s.plural THEN Table("Name", Listed(rows))
                  ELSE IF IsStored(functions, s.names[1]) THEN Table("Name", s.names) ELSE Failed)

\* The process ends and another starts.
Restart == engine' = Idle /\ last' = [stmt |-> [kind |-> "none"]] /\ UNCHANGED <<functions, defined>>

Next == (\E s \in Statement : RunStatement(s) \/ CreateFunction(s) \/ DropFunctions(s)) \/ Restart

Spec == Init /\ [][Next]_vars

------------------------------------------------------------------------------

\* Lets, `as`, calls and the contexts they leave behind: whatever was run before it, a
\* statement that starts without a context has the tables, or the error, that its scopes
\* define; nothing bound by an earlier one is seen, and no call, subquery, leg or failure
\* changes what the rest of it sees.
AnswersAsDefined ==
  last.stmt.kind \in {"query", "compound", "show"} /\ last.before = 0 =>
    LET r == Meaning(Scope(defined), last.stmt)
    IN  r.v.open \/ (r.t = last.t /\ (r.t # Failed => r.extra = last.extra))

\* `as` or `invoke` in operators that a query runs within one of its own.
Loose(ops) ==
  \E i \in DOMAIN ops : \/ ops[i].op = "partition" /\ NeedsRestore(ops[i].ops)
                        \/ ops[i].op = "fork" /\ \E k \in DOMAIN ops[i].branches : NeedsRestore(ops[i].branches[k])

\* The deferred restores of executeCompound and executeQuery and of the functions being
\* resolved: after a statement, failed or not, the context installed is the one before it
\* and no function counts as being called.  Operators outside executeQuery's own pipeline
\* that make the first context are the exception.
ContextRestored ==
  last.stmt.kind \in {"query", "compound", "show"} =>
    /\ engine.resolving = {} /\ engine.depth = 0
    /\ \/ (engine.current = 0) = (last.before = 0)
       \/ last.stmt.kind = "show" /\ NeedsRestore(last.stmt.ops)
       \/ last.stmt.kind # "compound" /\ Loose(last.stmt.ops)

\* _Functions is only appended to: its latest rows are what the creates and drops that
\* were accepted define, and a command is refused or a drop answered accordingly.
FunctionsAsDefined ==
  /\ DOMAIN defined = {functions[i].name : i \in {i \in DOMAIN functions : IsStored(functions, functions[i].name)}}
  /\ \A f \in DOMAIN defined : functions[Latest(functions, f)].def = defined[f]
  /\ last.stmt.kind = "drop" /\ last.t # Failed /\ last.stmt.plural => Range(last.t.rows) = DOMAIN defined
==============================================================================
