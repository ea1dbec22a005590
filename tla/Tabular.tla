------------------------------- MODULE Tabular -------------------------------
(***************************************************************************)
(* Operators that take other tables or run pipelines of their own: join,   *)
(* lookup and union, whose second table is here a literal one (datatable), *)
(* partition, mv-apply and top-nested; and a join whose output a summarize *)
(* folds in batches (join.go, join_stream.go, partition.go, mv_expand.go,  *)
(* top_nested.go).                                                         *)
(***************************************************************************)
EXTENDS Series

CONSTANTS
  StreamMinRows,    \* a join with fewer output rows is materialised
  StreamBatch,      \* rows a streamed join aggregates at once
  RowEngine(_, _)   \* what may come of a table, or a graph, with any operator

\* on is a sequence of <<left column, right column>>.
Join(kind, right, on) == [op |-> "join", kind |-> kind, right |-> right, on |-> on, dropKeys |-> FALSE]
Lookup(kind, right, on) == [op |-> "lookup", kind |-> kind, right |-> right, on |-> on, dropKeys |-> TRUE]
Union(kind, legs) == [op |-> "union", kind |-> kind, legs |-> legs]
Partition(c, ops) == [op |-> "partition", by |-> c, ops |-> ops]
MvApply(items, index, limit, ops) ==
  [op |-> "mv-apply", items |-> items, index |-> index, limit |-> limit, ops |-> ops]
TopNested(levels) == [op |-> "top-nested", levels |-> levels]
Level(n, name, expr, agg, others) == [n |-> n, name |-> name, expr |-> expr, agg |-> agg, others |-> others]
NoOthers == -1

------------------------------------------------------------------------------
(* Joins.                                                                    *)

LeftOnly == {"leftanti", "leftsemi"}
RightOnly == {"rightanti", "rightsemi"}
Multiplying == {"inner", "leftouter", "rightouter", "fullouter"}

KeysOf(on, side) == [i \in DOMAIN on |-> on[i][side]]

\* joinKey: nulls are equal.
JoinKey(row, keys) == [i \in DOMAIN keys |-> row[keys[i]]]

\* The rows of one side a key meets, in their order.
Meets(rows, keys, key) == SelectSeq(rows, LAMBDA r : JoinKey(r, keys) = key)

\* The right columns that are kept, and the names they get: a name of the left, or
\* of an earlier rename, gives way to the next free number.
KeptRight(right, op) ==
  SelectSeq(right.cols, LAMBDA c : ~(op.dropKeys /\ \E i \in DOMAIN op.on : op.on[i][2] = c))

Numbered(c, taken) ==
  c \o ToString(CHOOSE n \in 1..(Cardinality(taken) + 1) :
                  /\ c \o ToString(n) \notin taken
                  /\ \A m \in 1..(n - 1) : c \o ToString(m) \in taken)

RightNames(left, right, op) ==
  FoldLeft(LAMBDA names, c :
             LET taken == ToSet(left.cols) \cup ToSet(right.cols) \cup ToSet(names)
             IN  Append(names, IF c \in ToSet(left.cols) THEN Numbered(c, taken) ELSE c),
           << >>, KeptRight(right, op))

\* The output schema.
JoinColumns(left, op) ==
  IF op.kind \in LeftOnly THEN left.cols
  ELSE IF op.kind \in RightOnly THEN op.right.cols
  ELSE left.cols \o RightNames(left, op.right, op)

FirstOfKey(rows, keys) ==
  RowsAt(rows, {i \in DOMAIN rows : \A j \in 1..(i - 1) : JoinKey(rows[j], keys) # JoinKey(rows[i], keys)})

\* emit: the rows of a join, in output order.
Emit(left, op) ==
  LET right == op.right
      lk == KeysOf(op.on, 1)
      rk == KeysOf(op.on, 2)
      kept == KeptRight(right, op)
      names == RightNames(left, right, op)
      given(r) == [c \in ToSet(names) |-> r[kept[CHOOSE i \in DOMAIN names : names[i] = c]]]
      nothing(cols) == [c \in ToSet(cols) |-> Null]
      matches(l) == Meets(right.rows, rk, JoinKey(l, lk))
      matched(r) == Meets(left.rows, lk, JoinKey(r, rk)) # << >>
      with(l) == [i \in DOMAIN matches(l) |-> given(matches(l)[i]) @@ l]
      each(rows, of(_)) == FlattenSeq([i \in DOMAIN rows |-> of(rows[i])])
      orNull(l) == IF matches(l) = << >> THEN <<nothing(names) @@ l>> ELSE with(l)
      unmatched ==
        each(SelectSeq(right.rows, LAMBDA r : ~matched(r)), LAMBDA r : <<given(r) @@ nothing(left.cols)>>)
  IN  CASE op.kind = "inner" -> each(left.rows, with)
        [] op.kind = "innerunique" -> each(FirstOfKey(left.rows, lk), with)
        [] op.kind = "leftouter" -> each(left.rows, orNull)
        [] op.kind = "rightouter" -> each(left.rows, with) \o unmatched
        [] op.kind = "fullouter" -> each(left.rows, orNull) \o unmatched
        [] op.kind = "leftanti" -> SelectSeq(left.rows, LAMBDA l : matches(l) = << >>)
        [] op.kind = "leftsemi" -> SelectSeq(left.rows, LAMBDA l : matches(l) # << >>)
        [] op.kind = "rightanti" -> SelectSeq(right.rows, LAMBDA r : ~matched(r))
        [] op.kind = "rightsemi" -> SelectSeq(right.rows, LAMBDA r : matched(r))

ApplyJoin(left, op) == Table(JoinColumns(left, op), Emit(left, op))

\* buildUnionSchema, for columns whose name tells their type: every column as it is
\* first seen, or those of every leg; a leg's missing cells are null.
ApplyUnion(t, op) ==
  LET legs == <<t>> \o op.legs
      seen == FoldLeft(LAMBDA cols, leg : cols \o SelectSeq(leg.cols, LAMBDA c : c \notin ToSet(cols)),
                       << >>, legs)
      cols == IF op.kind = "inner"
              THEN SelectSeq(seen, LAMBDA c : \A i \in DOMAIN legs : c \in ToSet(legs[i].cols))
              ELSE seen
      row(leg, r) == [c \in ToSet(cols) |-> IF c \in ToSet(leg.cols) THEN r[c] ELSE Null]
  IN  Table(cols, FlattenSeq([i \in DOMAIN legs |->
                    [k \in DOMAIN legs[i].rows |-> row(legs[i], legs[i].rows[k])]]))

------------------------------------------------------------------------------
(* Groups within groups.                                                     *)

\* Rows of a table by the value of an expression, in the order first seen.
Grouped(rows, expr) ==
  LET by == <<Item("", expr)>>
      keys == GroupKeys(by, rows)
  IN  [g \in DOMAIN keys |-> [key |-> keys[g][1],
                              rows |-> SelectSeq(rows, LAMBDA r : GroupKey(by, r) = keys[g])]]

\* Nulls last, ties in the order first seen; value[g] is the aggregate of group g.
ByValue(groups, value) ==
  LET before(f, g) == \/ value[f] # Null /\ value[g] = Null
                      \/ value[f] # Null /\ value[g] # Null /\ value[f] > value[g]
                      \/ value[f] = value[g] /\ f <= g
  IN  Ranked(groups, DOMAIN groups, LAMBDA g : Cardinality({f \in DOMAIN groups : before(f, g)}))

ByAggregate(groups, agg) ==
  ByValue(groups, [g \in DOMAIN groups |-> ComputeAgg(agg, groups[g].rows)])

\* The row of a group at one level.
LevelCells(lvl, key, rows) == (lvl.name :> key) @@ (lvl.agg.name :> ComputeAgg(lvl.agg, rows))

\* One level of a group's rows: the kept groups with what is below each, and the
\* others as one, nulls below it.
LevelRows(groups, levels, below(_)) ==
  LET lvl == levels[1]
      cut == IF lvl.n > 0 THEN Min({lvl.n, Len(groups)}) ELSE Len(groups)
      with(cells, rows) == [i \in DOMAIN rows |-> cells @@ rows[i]]
      others == FlattenSeq([g \in 1..(Len(groups) - cut) |-> groups[cut + g].rows])
      deeper == UNION {{levels[i].name, levels[i].agg.name} : i \in 2..Len(levels)}
  IN  FlattenSeq([g \in 1..cut |-> with(LevelCells(lvl, groups[g].key, groups[g].rows), below(groups[g].rows))])
      \o IF lvl.others # NoOthers /\ others # << >>
         THEN <<LevelCells(lvl, lvl.others, others) @@ [c \in deeper |-> Null]>>
         ELSE << >>

RECURSIVE TopNestedRows(_, _)
\* topNestedLevel: the rows below one group.
TopNestedRows(rows, levels) ==
  IF levels = << >> THEN <<[c \in {} |-> Null]>>
  ELSE LevelRows(ByAggregate(Grouped(rows, levels[1].expr), levels[1].agg), levels,
                 LAMBDA members : TopNestedRows(members, Tail(levels)))

ApplyTopNested(t, op) ==
  Table(FlattenSeq([i \in DOMAIN op.levels |-> <<op.levels[i].name, op.levels[i].agg.name>>]),
        TopNestedRows(t.rows, op.levels))

------------------------------------------------------------------------------
(* Any operator.                                                             *)

TabularReads(op) ==
  CASE op.op \in {"join", "lookup"} -> ToSet(KeysOf(op.on, 1))
    [] op.op = "partition" -> {op.by}
    [] op.op \in {"mv-expand", "mv-apply"} -> ItemColumns(op.items)
    [] op.op = "make-series" ->
         {op.axis} \cup ItemColumns(op.by) \cup AggArgs([k \in DOMAIN op.aggs |-> op.aggs[k].agg])
    [] op.op = "top-nested" ->
         UNION {ColumnsOf(op.levels[i].expr) \cup ColumnsOf(op.levels[i].agg.arg) : i \in DOMAIN op.levels}
    [] OTHER -> {}

\* An operator that runs no pipeline of its own.
ApplyPlain(t, op) ==
  CASE op.op \in {"join", "lookup"} -> {ApplyJoin(t, op)}
    [] op.op = "union" -> {ApplyUnion(t, op)}
    [] op.op = "top-nested" -> {ApplyTopNested(t, op)}
    [] op.op = "scan" -> {ApplyScan(t, op)}
    [] op.op = "mv-expand" -> {ApplyMvExpand(t, op)}
    [] op.op = "make-series" -> {ApplyMakeSeries(t, op)}
    [] OTHER -> ApplyOperator(t, op)

Nested == {"partition", "mv-apply"}

\* The tables an operator's own pipeline runs on: every group, or every row's
\* expansion; one without rows when there is none.
SubTables(t, op) ==
  LET groups == Grouped(t.rows, Col(op.by))
      expanded(r) == Table(ExpandedColumns(t.cols, op), ExpandedRows(r, op))
  IN  CASE t.rows = << >> /\ op.op = "mv-apply" -> <<Table(ExpandedColumns(t.cols, op), << >>)>>
        [] t.rows = << >> /\ op.op = "partition" -> <<t>>
        [] op.op = "partition" -> [g \in DOMAIN groups |-> Table(t.cols, groups[g].rows)]
        [] op.op = "mv-apply" -> [i \in DOMAIN t.rows |-> expanded(t.rows[i])]

\* Groups' results under the first one's columns; no group gives no row.
Stacked(t, results) ==
  LET cols == results[1].cols
  IN  IF t.rows = << >> THEN Table(cols, << >>)
      ELSE IF \E k \in DOMAIN results : Len(results[k].cols) # Len(cols) THEN Failed
      ELSE Table(cols, FlattenSeq([k \in DOMAIN results |-> results[k].rows]))

\* The columns mv-apply gives: the input's, but for one that was expanded in place
\* and is not returned, and then what the pipeline returns besides.
MvApplyColumns(cols, op, result) ==
  SelectSeq(cols, LAMBDA c : c \in ToSet(result) \/ c \notin ToSet(Names(op.items)))
  \o SelectSeq(result, LAMBDA c : c \notin ToSet(cols))

\* planFor and the rows it makes: a row's results with the row's own columns.
MvApplied(t, op, results) ==
  LET cols == MvApplyColumns(t.cols, op, results[1].cols)
      row(r, given) == [c \in ToSet(cols) |-> (given @@ r)[c]]
      rows(i) == [k \in DOMAIN results[i].rows |-> row(t.rows[i], results[i].rows[k])]
  IN  IF \E i \in DOMAIN results : MvApplyColumns(t.cols, op, results[i].cols) # cols THEN Failed
      ELSE Table(cols, FlattenSeq([i \in DOMAIN t.rows |-> rows(i)]))

Combined(t, op, results) ==
  IF \E k \in DOMAIN results : results[k] = Failed THEN Failed
  ELSE IF op.op = "partition" THEN Stacked(t, results)
  ELSE MvApplied(t, op, results)

\* applyPipeline within an operator: one operator after the other.
RunAll(t, ops) ==
  FoldLeft(LAMBDA tables, op : UNION {RowEngine(u, op) : u \in tables}, {t}, ops)

\* Every choice of one result for each table an operator's pipeline runs on.
SubResults(t, op) ==
  FoldLeft(LAMBDA done, sub : {Append(d, r) : d \in done, r \in RunAll(sub, op.ops)},
           {<< >>}, SubTables(t, op))

\* applyOperator, of a table.
ApplyStep(t, op) ==
  IF \/ ~(TabularReads(op) \subseteq ToSet(t.cols))
     \/ op.op = "mv-apply" /\ IndexClashes(t.cols, op) THEN {Failed}
  ELSE IF op.op \in Nested THEN {Combined(t, op, results) : results \in SubResults(t, op)}
  ELSE ApplyPlain(t, op)

------------------------------------------------------------------------------
(* A join that feeds a summarize.                                            *)

RowLocal == {"where", "project", "project-away", "project-rename", "extend"}

\* The aggregate that merges partial results of another, or "".
MergeAggFn(fn) ==
  CASE fn \in {"count", "countif", "sum", "sumif"} -> "sum"
    [] fn \in {"min", "minif"} -> "min"
    [] fn \in {"max", "maxif"} -> "max"
    [] OTHER -> ""

\* streamableJoinTail: how many operators after the join may be streamed.
StreamableTail(ops) ==
  LET other == {i \in DOMAIN ops : ops[i].op \notin RowLocal}
      at == Min(other)
  IN  IF /\ other # {}
         /\ ops[at].op = "summarize"
         /\ ops[at].aggs # << >>
         /\ \A k \in DOMAIN ops[at].aggs : MergeAggFn(ops[at].aggs[k].fn) # ""
      THEN at ELSE 0

\* outputRows: an estimate before any row is made, -1 for a kind that keeps or
\* drops whole rows.  It leaves out the unmatched rows of the right.
OutputRows(left, op) ==
  LET count(l) == LET n == Len(Meets(op.right.rows, KeysOf(op.on, 2), JoinKey(l, KeysOf(op.on, 1))))
                  IN  IF n = 0 /\ op.kind \in {"leftouter", "fullouter"} THEN 1 ELSE n
  IN  IF op.kind \notin Multiplying THEN -1
      ELSE FoldLeft(LAMBDA n, l : n + count(l), 0, left.rows)

\* mergePartialSummaries.
MergePartialSummaries(parts, sum) ==
  SummarizePlain(parts,
    [k \in DOMAIN sum.aggs |-> Agg(sum.aggs[k].name, MergeAggFn(sum.aggs[k].fn), Col(sum.aggs[k].name))],
    [k \in DOMAIN sum.by |-> Item(sum.by[k].name, Col(sum.by[k].name))])

\* The batches of a sequence of rows: at least one, the last one short.
Batches(rows) ==
  LET n == IF rows = << >> THEN 1 ELSE (Len(rows) + StreamBatch - 1) \div StreamBatch
  IN  [b \in 1..n |-> SubSeq(rows, (b - 1) * StreamBatch + 1, Min({b * StreamBatch, Len(rows)}))]

\* A batch's partial rows join those before them, merged once there are many.
FoldPartials(acc, more, sum) ==
  LET both == Table(more.cols, acc.rows \o more.rows)
  IN  IF Len(both.rows) >= StreamBatch THEN MergePartialSummaries(both, sum) ELSE both

\* applyJoinPipeline: tail ends in the summarize.
StreamedJoin(left, op, tail) ==
  LET sum == tail[Len(tail)]
      part(rows) == CHOOSE t \in RunAll(Table(JoinColumns(left, op), rows), tail) : TRUE
      fold(acc, more) == FoldPartials(acc, more, sum)
      batches == Batches(Emit(left, op))
  IN  MergePartialSummaries(FoldLeft(fold, Table(<< >>, << >>), [b \in DOMAIN batches |-> part(batches[b])]), sum)
==============================================================================
