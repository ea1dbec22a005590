-------------------------------- MODULE Query --------------------------------
(***************************************************************************)
(* A query over one stored table (executeQueryRaw): the engine answers a   *)
(* leading count from the catalog, runs a columnar plan, or scans rows;    *)
(* extents are read by goroutines of their own unless a row limit applies, *)
(* their results are put together in the order of extents, and what is     *)
(* left of the pipeline runs on the rows.  A federated source runs the     *)
(* prefix it may on the other database's engine, the rest here.            *)
(***************************************************************************)
EXTENDS ColumnarAgg, GraphMatch

CONSTANTS
  Schema,      \* the table's columns, in order
  Questions    \* the extents a query may meet, with the pipeline asked of them

VARIABLES
  extents,     \* what the query reads
  asked,       \* the whole pipeline
  remote,      \* is the source federated?
  ops,         \* the operators the reading engine was given
  strategy,    \* how it reads them
  part,        \* per extent, what its goroutine returned
  answer,      \* the rows so far, and
  rest         \* the operators still to apply to them

vars == <<extents, asked, remote, ops, strategy, part, answer, rest>>

NotRead == Null
NoAnswer == Null

Init ==
  /\ \E q \in Questions : extents = q[1] /\ asked = q[2]
  /\ remote \in BOOLEAN
  /\ ops = asked
  /\ strategy = ""
  /\ part = [i \in DOMAIN extents |-> NotRead]
  /\ answer = NoAnswer
  /\ rest = << >>

\* isPushableFederationOp.
Pushable(op) ==
  op.op \in {"where", "project", "project-away", "project-rename", "serialize", "extend", "take",
            "count", "distinct", "order", "top", "summarize"}

\* splitPushableFederationOps: how long the pushable prefix is.
PushedLength(pipeline) ==
  LET at == {i \in DOMAIN pipeline : ~Pushable(pipeline[i])}
  IN  IF at = {} THEN Len(pipeline) ELSE Min(at) - 1

Given == IF remote THEN SubSeq(asked, 1, PushedLength(asked)) ELSE asked

Kept == IF remote THEN SubSeq(asked, PushedLength(asked) + 1, Len(asked)) ELSE << >>

\* The order in which executeQueryRaw tries them.
Choose(pipeline) ==
  IF pipeline # << >> /\ pipeline[1].op = "count" THEN "metadata"
  ELSE IF AggregatePlan(Schema, pipeline).consumed > 0 THEN "aggregate"
  ELSE IF TopNPlan(Schema, pipeline).consumed > 0 THEN "topn"
  ELSE IF ScanRowLimit(pipeline) # NoLimit THEN "limit"
  ELSE "scan"

Plan ==
  /\ strategy = ""
  /\ ops' = Given
  /\ strategy' = Choose(Given)
  /\ UNCHANGED <<extents, asked, remote, part, answer, rest>>

\* The columns to scan.
Columns == RequiredColumns(Schema, ops)

\* One extent's goroutine returns.
ReadExtent(i) ==
  /\ answer = NoAnswer
  /\ strategy \in {"aggregate", "topn", "scan"}
  /\ part[i] = NotRead
  /\ \E result \in
       CASE strategy = "aggregate" -> {AggregateExtent(extents[i], AggregatePlan(Schema, ops))}
         [] strategy = "topn" -> TopNExtent(extents[i], TopNPlan(Schema, ops), Columns)
         [] strategy = "scan" -> {ScanExtent(extents[i], Columns, ZoneFilter(Schema, ops), NoLimit)} :
       part' = [part EXCEPT ![i] = result]
  /\ UNCHANGED <<extents, asked, remote, ops, strategy, answer, rest>>

HandOver(result, consumed) ==
  /\ answer = NoAnswer
  /\ answer' = result
  /\ rest' = SubSeq(ops, consumed + 1, Len(ops))
  /\ UNCHANGED <<extents, asked, remote, ops, strategy, part>>

\* The catalog's row counts answer a leading count.
CountFromCatalog ==
  /\ strategy = "metadata"
  /\ LET rows(e) == FoldLeft(LAMBDA n, c : n + Len(c.rows), 0, e.chunks)
     IN  HandOver(Table(<<"Count">>,
                    <<[c \in {"Count"} |-> FoldLeft(LAMBDA n, e : n + rows(e), 0, extents)]>>), 1)

\* A row limit reads extents one after the other, until there are enough rows.
ScanLimited ==
  /\ strategy = "limit"
  /\ LET limit == ScanRowLimit(ops)
         rows == FoldLeft(LAMBDA got, e :
                            IF Len(got) >= limit THEN got
                            ELSE got \o ScanExtent(e, Columns, ZoneFilter(Schema, ops), limit - Len(got)),
                          << >>, extents)
     IN  HandOver(Table(Columns, rows), 0)

\* Every goroutine has returned.
Merge ==
  /\ \A i \in DOMAIN part : part[i] # NotRead
  /\ CASE strategy = "aggregate" ->
            LET plan == AggregatePlan(Schema, ops)
            IN  HandOver(AggregateMerge(part, plan), plan.consumed)
       [] strategy = "topn" ->
            LET plan == TopNPlan(Schema, ops)
            IN  HandOver(TopNMerge(part, plan, Columns), plan.consumed)
       [] strategy = "scan" -> HandOver(Table(Columns, FlattenSeq(part)), 0)
       [] OTHER -> FALSE

\* A sort followed by a take is a top-N.
IsTopN(pipeline) ==
  /\ Len(pipeline) > 1
  /\ pipeline[1].op = "order"
  /\ pipeline[2].op = "take"

\* How many operators a large join takes with it into its batches.
Streamed(t, pipeline) ==
  IF /\ pipeline[1].op = "join"
     /\ ~IsGraph(t)
     /\ TabularReads(pipeline[1]) \subseteq ToSet(t.cols)
     /\ OutputRows(t, pipeline[1]) >= StreamMinRows
  THEN StreamableTail(Tail(pipeline)) ELSE 0

\* applyPipeline.
Apply ==
  /\ answer # NoAnswer
  /\ rest # << >>
  /\ LET topN == IsTopN(rest) /\ ~IsGraph(answer) /\ ReadsColumns(rest[1], answer) \subseteq ToSet(answer.cols)
         streamed == Streamed(answer, rest)
         used == IF topN THEN 2 ELSE 1 + streamed
     IN  /\ \E t \in IF topN THEN ApplyTopN(answer, rest[1].by, rest[2].n)
                ELSE IF streamed > 0 THEN {StreamedJoin(answer, rest[1], SubSeq(rest, 2, used))}
                ELSE RowEngine(answer, rest[1]) :
              answer' = IF IsGraph(t) /\ Len(rest) = used THEN Failed ELSE t
         /\ rest' = SubSeq(rest, used + 1, Len(rest))
  /\ UNCHANGED <<extents, asked, remote, ops, strategy, part>>

\* The other engine has answered; what it was not given runs here.
Resume ==
  /\ answer # NoAnswer
  /\ rest = << >>
  /\ remote
  /\ Len(ops) < Len(asked)
  /\ rest' = Kept
  /\ ops' = asked
  /\ UNCHANGED <<extents, asked, remote, strategy, part, answer>>

Answered == answer # NoAnswer /\ rest = << >> /\ Len(ops) = Len(asked)

Next ==
  \/ Plan
  \/ \E i \in DOMAIN extents : ReadExtent(i)
  \/ CountFromCatalog
  \/ ScanLimited
  \/ Merge
  \/ Apply
  \/ Resume
  \/ Answered /\ UNCHANGED vars

Spec == Init /\ [][Next]_vars

------------------------------------------------------------------------------
(* Properties.                                                               *)

\* All rows of the table, whole.
AllRows(table) ==
  Table(Schema, FlattenSeq([i \in DOMAIN table |-> ScanExtent(table[i], Schema, {}, NoLimit)]))

\* What a sort and a take may answer: rows in order, none left out that is
\* strictly before one that is kept.
TopAnswers(t, by, n) ==
  LET m == Min({n, Len(t.rows)})
      arranged(p) == \A i, j \in 1..m : /\ i # j => p[i] # p[j]
                                        /\ i < j => ~Less(by, t.rows[p[j]], t.rows[p[i]])
      best(p) == \A x \in DOMAIN t.rows \ {p[i] : i \in 1..m} :
                   \A i \in 1..m : ~Less(by, t.rows[x], t.rows[p[i]])
  IN  IF n <= 0 THEN {Table(t.cols, << >>)}
      ELSE {Table(t.cols, [i \in 1..m |-> t.rows[p[i]]]) :
              p \in {q \in [1..m -> DOMAIN t.rows] : arranged(q) /\ best(q)}}

RECURSIVE Naive(_, _)
\* The answers of a pipeline that runs whole on whole rows.
Naive(t, pipeline) ==
  IF pipeline = << >> THEN {IF IsGraph(t) THEN Failed ELSE t}
  ELSE LET first == pipeline[1]
           pair == IsTopN(pipeline)
           known == ~IsGraph(t) /\ ReadsColumns(first, t) \subseteq ToSet(t.cols)
           next == CASE pair /\ known -> TopAnswers(t, first.by, pipeline[2].n)
                     [] first.op = "top" /\ known -> TopAnswers(t, first.by, first.n)
                     [] OTHER -> RowEngine(t, first)
       IN  UNION {Naive(u, SubSeq(pipeline, (IF pair /\ known THEN 2 ELSE 1) + 1, Len(pipeline))) : u \in next}

\* What the user sees of a table: a string that is missing shows as "".
Shown(t) ==
  Table(t.cols, [i \in DOMAIN t.rows |-> [c \in ToSet(t.cols) |-> Cell(t.rows[i], c)]])

AsNaive == \E t \in Naive(AllRows(extents), asked) : Shown(t) = Shown(answer)

\* A summarize or a count that runs on vectors and dictionary codes, extent by
\* extent, has the answer of the pipeline run on every row of the table
\* (runColumnarAggregate).
AggregatesAsNaive == Answered /\ strategy = "aggregate" => AsNaive

\* So has a top-N that keeps a bounded heap per extent (runColumnarTopN).
TopNAsNaive == Answered /\ strategy = "topn" => AsNaive

\* So has a pipeline over a scan that leaves out columns, zones and rows, or is
\* not a scan at all (scanTableProjected, scanExtents).
ScansAsNaive == Answered /\ strategy \in {"metadata", "limit", "scan"} => AsNaive

\* A walk of a graph, with its plan, its predicates in time and its pruning, finds
\* the matches of the pattern, all of them and no more (walkGraphMatch,
\* applyGraphMatchDistinctBFS, applyGraphShortestPaths); and components are those of
\* the graph (markComponents, strongComponents).
GraphsAsDefined ==
  answer # NoAnswer /\ rest # << >> /\ IsGraph(answer) =>
    /\ rest[1].op = "graph-match" /\ Matchable(rest[1]) => MatchesAsDefined(answer, rest[1])
    /\ rest[1].op = "graph-mark-components" => MarksComponents(answer, rest[1])

\* A scan puts out the matches its steps ask for, a match going through the steps in
\* order (applyScan); an element of a series is the aggregate of the rows in its
\* step, no row left out for a range that was not given (applyMakeSeries,
\* applyMakeSeriesAutoRange); and mv-apply with nothing to apply is mv-expand
\* (applyMvApply, applyMvExpand).
OperatorsAsDefined ==
  answer # NoAnswer /\ rest # << >> /\ ~IsGraph(answer) /\ TabularReads(rest[1]) \subseteq ToSet(answer.cols) =>
    \A out \in RowEngine(answer, rest[1]) :
      /\ rest[1].op = "scan" =>
           \A all \in RowEngine(answer, Noting(rest[1])) : ScanAsDefined(answer, rest[1], all.rows, out.rows)
      /\ rest[1].op = "make-series" => SeriesAsDefined(answer, rest[1], out)
      /\ rest[1].op = "mv-expand" =>
           out \in RowEngine(answer, MvApply(rest[1].items, rest[1].index, rest[1].limit, << >>))
==============================================================================
