------------------------------- MODULE Planner -------------------------------
(***************************************************************************)
(* What the engine decides before it reads a table, and how it reads: the  *)
(* columns a pipeline needs, a row limit, the predicates the scan may use, *)
(* the pipelines that run on vectors (planner.go, storage.go), and the     *)
(* columnar top-N (columnar_topn.go).                                      *)
(*                                                                         *)
(* A table's extents are [cols, chunks]; a chunk is [dict, rows], where    *)
(* dict numbers its string cells or is NoDict.  A chunk is also the zone   *)
(* of the statistics.                                                      *)
(***************************************************************************)
EXTENDS Tabular

CONSTANT NoDict

\* Operators whose output columns are their own, and those a pipeline may end
\* narrowed by.
Barriers == {"summarize", "count", "distinct", "sample-distinct", "join", "union", "top-nested"}

Narrowing == {"project", "summarize", "count", "distinct", "sample-distinct", "join"}

\* The part of a pipeline that sees the columns of the source.
UpToBarrier(ops) ==
  LET at == {i \in DOMAIN ops : ops[i].op \in Barriers}
  IN  IF at = {} THEN ops ELSE SubSeq(ops, 1, Min(at))

\* Mutant of Collected: the aggregates inside an expression over aggregates are not
\* looked at.
Collected_InnerForgotten(op) ==
  CASE op.op = "where" -> ColumnsOf(op.pred)
    [] op.op \in {"project", "extend"} -> ItemColumns(op.items)
    [] op.op \in {"distinct", "sample-distinct"} -> ToSet(op.cols)
    [] op.op \in {"order", "top"} -> {op.by[k].col : k \in DOMAIN op.by}
    [] op.op = "summarize" -> AggArgs(op.aggs) \cup ItemColumns(op.by)
    [] OTHER -> {}

\* collectOperator: the columns an operator names.
Collected(op) ==
  CASE op.op = "where" -> ColumnsOf(op.pred)
    [] op.op \in {"project", "extend"} -> ItemColumns(op.items)
    [] op.op \in {"distinct", "sample-distinct"} -> ToSet(op.cols)
    [] op.op \in {"order", "top"} -> {op.by[k].col : k \in DOMAIN op.by}
    [] op.op = "summarize" -> AggArgs(InnerAggs(op)) \cup ItemColumns(op.by)
    [] op.op = "top-nested" -> TabularReads(op)
    [] OTHER -> {}

\* collectOperator: an operator that returns whole rows needs every column, unless
\* something narrows; one the switch does not know always does.
NeedsAll(op, narrows) ==
  CASE op.op \in {"take", "order", "top"} -> ~narrows
    [] op.op = "summarize" -> \E k \in DOMAIN op.aggs : op.aggs[k].fn = "arg_max"
    [] op.op \in {"where", "project", "extend", "count", "distinct", "sample-distinct",
                "top-nested"} -> FALSE
    [] OTHER -> TRUE

\* RequiredColumns.
RequiredColumns(schema, ops) ==
  LET seen == UpToBarrier(ops)
      narrows == \E i \in DOMAIN seen : seen[i].op \in Narrowing
      named == UNION {Collected(seen[i]) : i \in DOMAIN seen} \cap ToSet(schema)
  IN  IF ~narrows \/ \E i \in DOMAIN seen : NeedsAll(seen[i], narrows) THEN schema
      ELSE IF named = {} THEN <<schema[1]>>
      ELSE SelectSeq(schema, LAMBDA c : c \in named)

\* ScanRowLimit: what a take may be reached through.
KeepsRowCount(op) ==
  op.op \in {"project", "extend", "project-away", "project-rename", "serialize"}

NoLimit == -1

ScanRowLimit(ops) ==
  LET at == {i \in DOMAIN ops : ~KeepsRowCount(ops[i])}
  IN  IF at # {} /\ ops[Min(at)].op = "take" THEN ops[Min(at)].n ELSE NoLimit

\* How many wheres a pipeline starts with.
LeadingWheres(ops) ==
  LET other == {i \in DOMAIN ops : ops[i].op # "where"}
  IN  IF other = {} THEN Len(ops) ELSE Min(other) - 1

\* extractZoneFilter: the leading wheres, up to one that reads neighbouring rows.
ZoneFilter(schema, ops) ==
  UNION {ZonePreds(ops[i].pred, ToSet(schema)) :
           i \in {n \in 1..LeadingWheres(ops) : \A m \in 1..n : ~ContainsWindow(ops[m].pred)}}

------------------------------------------------------------------------------
(* Reading an extent into rows.                                              *)

\* A string column the extent lacks reads as "", any other as null.
MissingCell(c) == IF c \in StringColumns THEN Empty ELSE Null

ChunkRows(ext, chunk, cols, preds) ==
  LET decoded == ToSet(cols) \cap ext.cols
      kept == RowsAt(chunk.rows,
                     {i \in DOMAIN chunk.rows : \A p \in preds : VecKeeps(p, chunk.rows[i], decoded)})
      row(r) == [c \in ToSet(cols) |-> IF c \in ext.cols THEN r[c] ELSE MissingCell(c)]
  IN  IF \A p \in preds : ZoneMayMatch(p, chunk.rows, ext.cols)
      THEN [k \in DOMAIN kept |-> row(kept[k])]
      ELSE << >>

\* ScanExtent: chunks are read until there are enough rows.
ScanExtent(ext, cols, preds, most) ==
  FoldLeft(LAMBDA rows, chunk :
             IF most # NoLimit /\ Len(rows) >= most THEN rows
             ELSE rows \o ChunkRows(ext, chunk, cols, preds),
           << >>, ext.chunks)

------------------------------------------------------------------------------
(* Pipelines that run on vectors.                                            *)

NoPipeline == [consumed |-> 0]

\* The exact predicates of the leading wheres, or NoPlan.
LeadingPreds(schema, ops) ==
  LET each == {ExactPreds(ops[i].pred, ToSet(schema)) : i \in 1..LeadingWheres(ops)}
  IN  IF NoPlan \in each THEN NoPlan ELSE UNION each

ColumnarAgg(agg, schema) ==
  \/ agg.fn = "count"
  \/ /\ agg.fn \in {"sum", "avg", "min", "max", "dcount"}
     /\ agg.arg.op = "col"
     /\ agg.arg.name \in ToSet(schema)
     /\ agg.arg.name \in StringColumns => agg.fn = "dcount"

\* planColumnarAggregate.
AggregatePlan(schema, ops) ==
  LET preds == LeadingPreds(schema, ops)
      at == LeadingWheres(ops) + 1
      plan(aggs, by) == [preds |-> preds, aggs |-> aggs, by |-> by, consumed |-> at]
  IN  IF preds = NoPlan \/ at > Len(ops) THEN NoPipeline
      ELSE IF ops[at].op = "count" /\ preds # {}
           THEN plan(<<Agg("Count", "count", Lit(0))>>, << >>)
      ELSE IF /\ ops[at].op = "summarize"
              /\ \A k \in DOMAIN ops[at].aggs : ColumnarAgg(ops[at].aggs[k], schema)
              /\ \A k \in DOMAIN ops[at].by : /\ ops[at].by[k].expr.op = "col"
                                              /\ ops[at].by[k].expr.name \in ToSet(schema)
           THEN plan(ops[at].aggs, ops[at].by)
      ELSE NoPipeline

\* planColumnarTopN: wheres, then a sort and a take, or a top.
TopNPlan(schema, ops) ==
  LET preds == LeadingPreds(schema, ops)
      at == LeadingWheres(ops) + 1
      pair == /\ ops[at].op = "order"
              /\ at < Len(ops)
              /\ ops[at + 1].op = "take"
      plan(n, used) == [preds |-> preds, by |-> ops[at].by, n |-> n, consumed |-> used]
      plain(p) == /\ p.n > 0
                  /\ \A k \in DOMAIN p.by : p.by[k].nulls = "" /\ p.by[k].col \in ToSet(schema)
  IN  IF preds = NoPlan \/ at > Len(ops) THEN NoPipeline
      ELSE IF pair /\ plain(plan(ops[at + 1].n, at + 1)) THEN plan(ops[at + 1].n, at + 1)
      ELSE IF ops[at].op = "top" /\ plain(plan(ops[at].n, at)) THEN plan(ops[at].n, at)
      ELSE NoPipeline

\* The rows of a chunk that satisfy exact predicates.
Selected(ext, chunk, preds) ==
  {i \in DOMAIN chunk.rows : \A p \in preds : ExactKeeps(p, chunk.rows[i], ext.cols)}

\* The predicates among them that zone statistics can answer.
Prunable(preds) == {p \in preds : p.op # "!=" /\ p.col \notin StringColumns}

\* The chunks a columnar plan decodes: those the statistics do not rule out.
ChunksRead(ext, preds) ==
  SelectSeq(ext.chunks, LAMBDA c : \A p \in Prunable(preds) : ZoneMayMatch(p, c.rows, ext.cols))

\* rowFromVecs: a column without a vector gives a null, whatever its type.
RowFromVecs(ext, r, cols) == [c \in ToSet(cols) |-> IF c \in ext.cols THEN r[c] ELSE Null]

\* topNExtent: the candidates one extent may give, in the order of its heap.
TopNExtent(ext, plan, cols) ==
  LET rowsOf(c) == LET rows == RowsAt(c.rows, Selected(ext, c, plan.preds))
                   IN  [k \in DOMAIN rows |-> RowFromVecs(ext, rows[k], cols)]
      chunks == ChunksRead(ext, plan.preds)
      all == FlattenSeq([k \in DOMAIN chunks |-> rowsOf(chunks[k])])
  IN  IF Len(all) < plan.n THEN {all}
      ELSE UNION {Arrangements(RowsAt(all, K), << >>) : K \in Bounded(all, plan.by, plan.n)}

\* runColumnarTopN, once every extent has answered: candidates in extent order.
TopNMerge(parts, plan, cols) ==
  ApplyTake(Table(cols, StableSort(FlattenSeq(parts), plan.by)), plan.n)
==============================================================================
