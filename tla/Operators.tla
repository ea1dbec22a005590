------------------------------ MODULE Operators ------------------------------
(***************************************************************************)
(* The row engine: what each tabular operator makes of a whole table       *)
(* (operators.go, topn.go).  A table is [cols, rows], its rows functions   *)
(* from the columns in cols; an operator is a record with a field op.      *)
(***************************************************************************)
EXTENDS Windows

Table(cols, rows) == [cols |-> cols, rows |-> rows]

\* An operator names a column its input does not have.
Failed == Table(<<"error">>, << >>)

Where(p) == [op |-> "where", pred |-> p]
Project(items) == [op |-> "project", items |-> items]
Extend(items) == [op |-> "extend", items |-> items]
Take(n) == [op |-> "take", n |-> n]
CountRows == [op |-> "count"]
Distinct(cols) == [op |-> "distinct", cols |-> cols]
SampleDistinct(n, c) == [op |-> "sample-distinct", n |-> n, cols |-> <<c>>]
OrderBy(by) == [op |-> "order", by |-> by]
Top(n, key) == [op |-> "top", n |-> n, by |-> <<key>>]
Summarize(aggs, by) == [op |-> "summarize", aggs |-> aggs, by |-> by]
ProjectAway(cols) == [op |-> "project-away", cols |-> cols]
ProjectRename(old, new) == [op |-> "project-rename", old |-> old, new |-> new]
Serialize == [op |-> "serialize"]

Item(name, expr) == [name |-> name, expr |-> expr]
Key(c, desc, nulls) == [col |-> c, desc |-> desc, nulls |-> nulls]
Agg(name, fn, arg) == [name |-> name, fn |-> fn, arg |-> arg]
AggIf(name, fn, arg, pred) == [name |-> name, fn |-> fn \o "if", base |-> fn, arg |-> arg, pred |-> pred]
ListAgg(name, fn, arg, most) == [name |-> name, fn |-> fn, arg |-> arg, most |-> most]
ArgMaxAll(c) == [name |-> c, fn |-> "arg_max", arg |-> Col(c)]
PostAgg(name, expr, inner) == [name |-> name, fn |-> "post", arg |-> expr, inner |-> inner]

------------------------------------------------------------------------------
\* The rows at the indices I, in the order in which each index has rank(i) of them
\* up to itself.
Ranked(rows, I, rank(_)) ==
  [k \in 1..Cardinality(I) |-> rows[CHOOSE i \in I : rank(i) = k]]

RowsAt(rows, I) == Ranked(rows, I, LAMBDA i : Cardinality({j \in I : j <= i}))

Compute(t, items, i) ==
  [n \in {items[k].name : k \in DOMAIN items} |->
     LET last == CHOOSE k \in DOMAIN items :
                   items[k].name = n /\ \A m \in DOMAIN items : items[m].name = n => m <= k
     IN  EvalAt(items[last].expr, t.rows, i)]

ApplyWhere(t, op) ==
  Table(t.cols, RowsAt(t.rows, {i \in DOMAIN t.rows : EvalAt(op.pred, t.rows, i) = TRUE}))

ApplyProject(t, op) ==
  Table([k \in DOMAIN op.items |-> op.items[k].name],
        [i \in DOMAIN t.rows |-> Compute(t, op.items, i)])

\* The first assignment that reads a column an earlier one defines.
SplitPoint(items) ==
  LET late == {i \in DOMAIN items :
                 ColumnsOf(items[i].expr) \cap {items[j].name : j \in 1..(i - 1)} # {}}
  IN  IF late = {} THEN 0 ELSE Min(late)

\* One pass: every assignment sees the row as it was; a column that exists is
\* replaced in place.
ExtendOnce(t, items) ==
  Table(t.cols \o SelectSeq([k \in DOMAIN items |-> items[k].name],
                            LAMBDA n : n \notin ToSet(t.cols)),
        [i \in DOMAIN t.rows |-> Compute(t, items, i) @@ t.rows[i]])

RECURSIVE ApplyExtend(_, _)
ApplyExtend(t, items) ==
  LET split == SplitPoint(items)
  IN  IF split = 0 THEN ExtendOnce(t, items)
      ELSE ApplyExtend(ExtendOnce(t, SubSeq(items, 1, split - 1)),
                       SubSeq(items, split, Len(items)))

ApplyTake(t, n) == Table(t.cols, SubSeq(t.rows, 1, Min({n, Len(t.rows)})))

ApplyCount(t) == Table(<<"Count">>, <<[c \in {"Count"} |-> Len(t.rows)]>>)

\* Rows that show the same cells are one row; "*" is every column.
ApplyDistinct(t, cols) ==
  LET kept == IF cols = <<"*">> THEN t.cols ELSE cols
      key(i) == [c \in ToSet(kept) |-> Cell(t.rows[i], c)]
      first == {i \in DOMAIN t.rows : \A j \in 1..(i - 1) : key(j) # key(i)}
      rows == RowsAt(t.rows, first)
  IN  Table(kept, [k \in DOMAIN rows |-> [c \in ToSet(kept) |-> rows[k][c]]])

ApplyProjectAway(t, cols) ==
  LET kept == SelectSeq(t.cols, LAMBDA c : c \notin ToSet(cols))
  IN  Table(kept, [i \in DOMAIN t.rows |-> [c \in ToSet(kept) |-> t.rows[i][c]]])

ApplyProjectRename(t, old, new) ==
  LET name(c) == IF c = old THEN new ELSE c
      was(c) == IF c = new THEN old ELSE c
      cols == [k \in DOMAIN t.cols |-> name(t.cols[k])]
  IN  Table(cols, [i \in DOMAIN t.rows |-> [c \in ToSet(cols) |-> t.rows[i][was(c)]]])

------------------------------------------------------------------------------
(* Sorting.  A key's nulls are "" (first ascending, last descending),        *)
(* "first" or "last".                                                        *)

RECURSIVE Less(_, _, _)
Less(by, a, b) ==
  by # << >> /\
  LET key == Head(by)
      x == a[key.col]
      y == b[key.col]
      cmp == CompareValues(x, y)
  IN  IF key.nulls # "" /\ (x = Null) # (y = Null) THEN (x = Null) = (key.nulls = "first")
      ELSE IF cmp = 0 THEN Less(Tail(by), a, b)
      ELSE (cmp > 0) = key.desc

\* sort.SliceStable.
StableSort(rows, by) ==
  LET before(i, j) == \/ Less(by, rows[i], rows[j])
                      \/ ~Less(by, rows[j], rows[i]) /\ i <= j
  IN  Ranked(rows, DOMAIN rows, LAMBDA i : Cardinality({j \in DOMAIN rows : before(j, i)}))

\* A heap's array, whose order is the heap's affair, sorted: rows equal on the
\* keys come out in any order.
Arrangements(rows, by) ==
  LET n == Len(rows)
  IN  {[k \in 1..n |-> rows[p[k]]] :
         p \in {q \in [1..n -> 1..n] :
                  /\ \A i, j \in 1..n : i # j => q[i] # q[j]
                  /\ \A i, j \in 1..n : i < j => ~Less(by, rows[q[j]], rows[q[i]])}}

\* Mutant of Bounded: a row that is better than some row takes the place of any.
Bounded_AnyVictim(rows, by, n) ==
  LET Step(i, kept) ==
        UNION {IF Cardinality(K) < n THEN {K \cup {i}}
               ELSE LET worst == {w \in K : Less(by, rows[i], rows[w])}
                    IN  IF worst # {} THEN {(K \ {w}) \cup {i} : w \in K} ELSE {K} : K \in kept}
  IN  FoldLeft(LAMBDA kept, i : Step(i, kept), {{}}, [i \in DOMAIN rows |-> i])

\* The rows a bounded heap may hold in the end: the root is a row no other row of
\* the heap sorts after, and a row replaces it only when strictly better.
Bounded(rows, by, n) ==
  LET Step(i, kept) ==
        UNION {IF Cardinality(K) < n THEN {K \cup {i}}
               ELSE LET roots == {w \in K : \A x \in K : ~Less(by, rows[w], rows[x])}
                    IN  {IF Less(by, rows[i], rows[w]) THEN (K \ {w}) \cup {i} ELSE K : w \in roots}
               : K \in kept}
  IN  FoldLeft(LAMBDA kept, i : Step(i, kept), {{}}, [i \in DOMAIN rows |-> i])

\* applyTopN: the tables it may return.
ApplyTopN(t, by, n) ==
  IF n <= 0 THEN {Table(t.cols, << >>)}
  ELSE IF n >= Len(t.rows) \div 2 THEN {ApplyTake(Table(t.cols, StableSort(t.rows, by)), n)}
  ELSE UNION {{Table(t.cols, rows) : rows \in Arrangements(RowsAt(t.rows, K), by)} :
                K \in Bounded(t.rows, by, n)}

------------------------------------------------------------------------------
(* Summarize.  An average is the pair of its sum and its count; <<0, 0>> is  *)
(* the NaN of an average of nothing.                                         *)

NaN == <<0, 0>>

Values(arg, rows) == {Eval(arg, rows[i]) : i \in DOMAIN rows} \ {Null}

Total(arg, rows) ==
  FoldLeft(LAMBDA acc, r : IF Eval(arg, r) = Null THEN acc ELSE acc + Eval(arg, r), 0, rows)

Valid(arg, rows) == Cardinality({i \in DOMAIN rows : Eval(arg, rows[i]) # Null})

Best(values, max) ==
  IF values = {} THEN Null
  ELSE CHOOSE v \in values :
         \A w \in values : IF max THEN CompareValues(v, w) >= 0 ELSE CompareValues(v, w) <= 0

\* The rows of the aggregates with a predicate.
Considered(agg, rows) ==
  IF "pred" \in DOMAIN agg THEN SelectSeq(rows, LAMBDA r : Eval(agg.pred, r) = TRUE) ELSE rows

\* take_any: the first value there is.
AnyValue(arg, rows) ==
  LET some == {i \in DOMAIN rows : Eval(arg, rows[i]) # Null}
  IN  IF some = {} THEN Null ELSE Eval(arg, rows[Min(some)])

\* aggElems: what a value adds to a list; an array adds its elements.
ListElements(agg, v) ==
  CASE v # Null /\ agg.arg.op = "col" /\ ColumnsOf(agg.arg) \subseteq DynamicColumns -> v
    [] v # Null -> <<v>>
    [] agg.fn = "make_list_with_nulls" -> <<Null>>
    [] OTHER -> << >>

FirstTimes(s) == FoldLeft(LAMBDA seen, x : IF x \in ToSet(seen) THEN seen ELSE Append(seen, x), << >>, s)

\* make_list, make_set and make_list_with_nulls, up to so many elements; a list of
\* none, which Go encodes as null, unless the nulls are kept.
ListOf(agg, rows) ==
  LET all == FlattenSeq([i \in DOMAIN rows |-> ListElements(agg, Eval(agg.arg, rows[i]))])
      kept == IF agg.fn = "make_set" THEN FirstTimes(all) ELSE all
  IN  IF kept = << >> /\ agg.fn # "make_list_with_nulls" THEN Null
      ELSE SubSeq(kept, 1, Min({agg.most, Len(kept)}))

Lists == {"make_list", "make_set", "make_list_with_nulls"}

\* computeAgg.
ComputeAgg(agg, all) ==
  LET rows == Considered(agg, all)
      fn == IF "pred" \in DOMAIN agg THEN agg.base ELSE agg.fn
  IN  CASE fn = "count"   -> Len(rows)
        [] fn = "countif" -> Cardinality({i \in DOMAIN rows : Eval(agg.arg, rows[i]) = TRUE})
        [] fn = "sum"     -> Total(agg.arg, rows)
        [] fn = "avg"     -> IF Values(agg.arg, rows) = {} THEN Null
                             ELSE <<Total(agg.arg, rows), Valid(agg.arg, rows)>>
        [] fn = "min"     -> Best(Values(agg.arg, rows), FALSE)
        [] fn = "max"     -> Best(Values(agg.arg, rows), TRUE)
        [] fn = "dcount"  -> Cardinality(Values(agg.arg, rows))
        [] fn = "take_any" -> AnyValue(agg.arg, rows)
        [] fn \in Lists   -> ListOf(agg, rows)

\* Over no rows at all.
EmptyAggregateValue(fn) ==
  CASE fn \in {"count", "countif", "dcount", "dcountif", "sum", "sumif"} -> 0
    [] fn \in {"avg", "avgif"} -> NaN
    [] fn \in Lists -> << >>
    [] OTHER -> Null

\* arg_max: the first of the rows with the greatest value; without any value, the
\* first row.
ArgBestRow(arg, rows) ==
  LET best == Best(Values(arg, rows), TRUE)
      at == {i \in DOMAIN rows : Eval(arg, rows[i]) = best}
  IN  rows[IF best = Null THEN 1 ELSE Min(at)]

\* The columns an aggregate gives: arg_max(c, *) gives c and every other column
\* that is not grouped by.
AggColumns(agg, t, byNames) ==
  IF agg.fn # "arg_max" THEN <<agg.name>>
  ELSE <<agg.name>> \o SelectSeq(t.cols, LAMBDA c : c # agg.name /\ c \notin byNames)

GroupKey(by, row) == [k \in DOMAIN by |-> Eval(by[k].expr, row)]

\* The groups' keys in the order they are first met; an ungrouped summarize has
\* one group even over no rows.
GroupKeys(by, rows) ==
  IF by = << >> THEN << << >> >>
  ELSE FoldLeft(LAMBDA keys, r : IF GroupKey(by, r) \in ToSet(keys) THEN keys
                                 ELSE Append(keys, GroupKey(by, r)), << >>, rows)

Names(items) == [k \in DOMAIN items |-> items[k].name]

SummarizePlain(t, aggs, by) ==
  LET byNames == ToSet(Names(by))
      keys == GroupKeys(by, t.rows)
      aggCols == FlattenSeq([k \in DOMAIN aggs |-> AggColumns(aggs[k], t, byNames)])
      rowsOf(key) == SelectSeq(t.rows, LAMBDA r : GroupKey(by, r) = key)
      value(agg, c, rows) ==
        IF agg.fn = "arg_max" THEN IF rows = << >> THEN Null ELSE ArgBestRow(agg.arg, rows)[c]
        ELSE IF rows = << >> THEN EmptyAggregateValue(agg.fn)
        ELSE ComputeAgg(agg, rows)
      slot(c) == CHOOSE k \in DOMAIN aggs : c \in ToSet(AggColumns(aggs[k], t, byNames))
      group(key) ==
        [c \in byNames \cup ToSet(aggCols) |->
           IF c \in byNames THEN key[CHOOSE k \in DOMAIN by : by[k].name = c]
           ELSE value(aggs[slot(c)], c, rowsOf(key))]
  IN  Table(Names(by) \o aggCols, [k \in DOMAIN keys |-> group(keys[k])])

HasPostAggregation(op) == \E k \in DOMAIN op.aggs : op.aggs[k].fn = "post"

InnerAggs(op) ==
  FlattenSeq([k \in DOMAIN op.aggs |->
                IF op.aggs[k].fn = "post" THEN op.aggs[k].inner ELSE <<op.aggs[k]>>])

\* applySummarizePost: the inner aggregates are hidden columns.
ApplySummarize(t, op) ==
  LET inner == SummarizePlain(t, InnerAggs(op), op.by)
      items == [k \in DOMAIN op.aggs |->
                  IF op.aggs[k].fn = "post" THEN Item(op.aggs[k].name, op.aggs[k].arg)
                  ELSE Item(op.aggs[k].name, Col(op.aggs[k].name))]
      byItems == [k \in DOMAIN op.by |-> Item(op.by[k].name, Col(op.by[k].name))]
  IN  IF HasPostAggregation(op) THEN ApplyProject(inner, Project(byItems \o items)) ELSE inner

------------------------------------------------------------------------------
(* A pipeline.                                                               *)

ItemColumns(items) == UNION {ColumnsOf(items[k].expr) : k \in DOMAIN items}

AggArgs(aggs) ==
  UNION {ColumnsOf(aggs[k].arg) \cup (IF "pred" \in DOMAIN aggs[k] THEN ColumnsOf(aggs[k].pred) ELSE {}) :
           k \in DOMAIN aggs}

\* The columns an operator looks up by name; one that its input lacks is an error.
ReadsColumns(op, t) ==
  CASE op.op = "where" -> ColumnsOf(op.pred)
    [] op.op = "project" -> ItemColumns(op.items)
    [] op.op = "extend" ->
         UNION {ColumnsOf(op.items[k].expr) \ {op.items[j].name : j \in 1..(k - 1)} :
                  k \in DOMAIN op.items}
    [] op.op = "distinct" -> ToSet(op.cols) \ {"*"}
    [] op.op \in {"sample-distinct", "project-away"} -> ToSet(op.cols)
    [] op.op \in {"order", "top"} -> {op.by[k].col : k \in DOMAIN op.by}
    [] op.op = "summarize" -> AggArgs(InnerAggs(op)) \cup ItemColumns(op.by)
    [] OTHER -> {}

ApplyOperator(t, op) ==
  IF ~(ReadsColumns(op, t) \subseteq ToSet(t.cols)) THEN {Failed}
  ELSE CASE op.op = "where" -> {ApplyWhere(t, op)}
         [] op.op = "project" -> {ApplyProject(t, op)}
         [] op.op = "extend" -> {ApplyExtend(t, op.items)}
         [] op.op = "take" -> {ApplyTake(t, op.n)}
         [] op.op = "count" -> {ApplyCount(t)}
         [] op.op = "distinct" -> {ApplyDistinct(t, op.cols)}
         [] op.op = "sample-distinct" -> {ApplyTake(ApplyDistinct(t, op.cols), op.n)}
         [] op.op = "order" -> {Table(t.cols, StableSort(t.rows, op.by))}
         [] op.op = "top" -> ApplyTopN(t, op.by, op.n)
         [] op.op = "summarize" -> {ApplySummarize(t, op)}
         [] op.op = "project-away" -> {ApplyProjectAway(t, op.cols)}
         [] op.op = "project-rename" -> {ApplyProjectRename(t, op.old, op.new)}
         [] op.op = "serialize" -> {t}
==============================================================================
