-------------------------------- MODULE Series --------------------------------
(***************************************************************************)
(* Operators over the order of rows and over arrays: scan (scan.go), the   *)
(* expansion of mv-expand and mv-apply (mv_expand.go), and make-series on  *)
(* an integer axis (make_series.go).  Bags, the cast to a type and a real  *)
(* axis are left out.                                                      *)
(***************************************************************************)
EXTENDS Operators

Scan(declares, steps, id) == [op |-> "scan", declares |-> declares, steps |-> steps, id |-> id]
Declare(name, default) == [name |-> name, default |-> default]
ScanStep(name, cond, assigns, output) ==
  [name |-> name, cond |-> cond, assigns |-> assigns, output |-> output]
MvExpand(items, index, limit) == [op |-> "mv-expand", items |-> items, index |-> index, limit |-> limit]
MakeSeries(aggs, axis, from, to, step, by, nonEmpty) ==
  [op |-> "make-series", aggs |-> aggs, axis |-> axis, from |-> from, to |-> to, step |-> step,
   by |-> by, nonEmpty |-> nonEmpty]
SeriesAgg(agg, default) == [agg |-> agg, default |-> default]

------------------------------------------------------------------------------
(* Scan: every step holds a sequence of the records that matched the steps   *)
(* up to it, or NoSequence.                                                  *)

NoSequence == [id |-> -1, recs |-> << >>]
NoRow == Null

Declared(op) == {op.declares[k].name : k \in DOMAIN op.declares}

Defaults(op) ==
  [c \in Declared(op) |-> op.declares[CHOOSE k \in DOMAIN op.declares : op.declares[k].name = c].default]

\* StepName.Column.
Hidden(step, c) == step.name \o "." \o c

\* The row a condition sees: the input's cells, the declared values of the latest
\* record, and every step's record, or the defaults while it has none.
EvalRow(op, r, recs) ==
  LET cols == DOMAIN r \cup Declared(op)
      latest == IF recs = << >> THEN Defaults(op)
                ELSE [c \in Declared(op) |-> recs[Len(recs)][c]]
      record(j) == IF j \in DOMAIN recs THEN recs[j] ELSE Defaults(op) @@ [c \in DOMAIN r |-> Null]
      shown(j) == [h \in {Hidden(op.steps[j], c) : c \in cols} |->
                     record(j)[CHOOSE c \in cols : Hidden(op.steps[j], c) = h]]
  IN  FoldLeft(LAMBDA row, j : row @@ shown(j), r @@ latest, [j \in DOMAIN op.steps |-> j])

MeetsStep(op, k, r, recs) == Eval(op.steps[k].cond, EvalRow(op, r, recs)) = TRUE

\* Step k's record of r: the assignments all see the values before any of them.
Extended(op, k, r, recs) ==
  LET row == EvalRow(op, r, recs)
      assigns == op.steps[k].assigns
      given == {assigns[a].name : a \in DOMAIN assigns}
      last(c) == Max({a \in DOMAIN assigns : assigns[a].name = c})
  IN  [c \in given |-> Eval(assigns[last(c)].expr, row)] @@ [c \in Declared(op) |-> row[c]] @@ r

Flush(m, k) ==
  IF m.pending[k] = NoRow THEN m
  ELSE [m EXCEPT !.out = Append(@, m.pending[k]), !.pending[k] = NoRow]

\* A match is output as its step says.
Record(m, op, k, rec, id) ==
  LET row == IF op.id = "" THEN rec ELSE rec @@ (op.id :> id)
  IN  CASE op.steps[k].output = "all"  -> [m EXCEPT !.out = Append(@, row)]
        [] op.steps[k].output = "last" -> [m EXCEPT !.pending[k] = row]
        [] op.steps[k].output = "none" -> m

\* Mutant of Promoted: the step behind keeps its sequence.
Promoted_StillBehind(m, op, k, r) ==
  LET before == m.state[k - 1]
      rec == Extended(op, k, r, before.recs)
      moved == [Flush(Flush(m, k - 1), k) EXCEPT
                  !.state[k] = [id |-> before.id, recs |-> Append(before.recs, rec)]]
  IN  Record(moved, op, k, rec, before.id)

\* Check 1: the sequence of the step before moves on to this one.
Promoted(m, op, k, r) ==
  LET before == m.state[k - 1]
      rec == Extended(op, k, r, before.recs)
      moved == [Flush(Flush(m, k - 1), k) EXCEPT
                  !.state[k] = [id |-> before.id, recs |-> Append(before.recs, rec)],
                  !.state[k - 1] = NoSequence]
  IN  Record(moved, op, k, rec, before.id)

\* Check 2: the step's own sequence takes the row; the first step begins one.
Advanced(m, op, k, r) ==
  LET own == m.state[k]
      rec == Extended(op, k, r, own.recs)
      begun == [m EXCEPT !.state[k] = [id |-> m.next, recs |-> <<rec>>], !.next = @ + 1]
      moved == [m EXCEPT !.state[k].recs[k] = rec]
  IN  IF own = NoSequence THEN Record(begun, op, k, rec, m.next)
      ELSE Record(moved, op, k, rec, own.id)

\* One row against one step.
ScanRow(m, op, k, r) ==
  IF k > 1 /\ m.state[k - 1] # NoSequence /\ MeetsStep(op, k, r, m.state[k - 1].recs)
  THEN Promoted(m, op, k, r)
  ELSE IF (m.state[k] # NoSequence \/ k = 1) /\ MeetsStep(op, k, r, m.state[k].recs)
  THEN Advanced(m, op, k, r)
  ELSE m

Times(n, x) == FoldLeft(LAMBDA s, k : Append(s, x), << >>, [k \in 1..n |-> k])

ScanColumns(t, op) ==
  t.cols \o [k \in DOMAIN op.declares |-> op.declares[k].name] \o (IF op.id = "" THEN << >> ELSE <<op.id>>)

\* Each row against the steps from the last to the first; what waits comes out at
\* the end, by step.
ApplyScan(t, op) ==
  LET n == Len(op.steps)
      start == [state |-> Times(n, NoSequence), pending |-> Times(n, NoRow),
                out |-> << >>, next |-> 0]
      oneRow(m, r) == FoldLeft(LAMBDA s, k : ScanRow(s, op, k, r), m, [j \in 1..n |-> n + 1 - j])
      done == FoldLeft(oneRow, start, t.rows)
  IN  Table(ScanColumns(t, op), FoldLeft(Flush, done, [k \in 1..n |-> k]).out)

------------------------------------------------------------------------------
(* Expansion.                                                                *)

\* expandCollection: a null is one element, an empty array none.
Expand(v, c) == IF v # Null /\ c \in DynamicColumns THEN v ELSE <<v>>

\* The rows one row expands to: arrays in parallel, the shorter ones padded with
\* nulls, no more rows than the limit, when there is one.
ExpandedRows(row, op) ==
  LET elems == [k \in DOMAIN op.items |-> Expand(Cell(row, op.items[k].expr.name), op.items[k].expr.name)]
      longest == Max({Len(elems[k]) : k \in DOMAIN elems})
      n == IF op.limit > 0 THEN Min({longest, op.limit}) ELSE longest
      slot(c) == Max({k \in DOMAIN op.items : op.items[k].name = c})
      element(c, i) == IF i \in DOMAIN elems[slot(c)] THEN elems[slot(c)][i] ELSE Null
      index(i) == IF op.index = "" THEN << >> ELSE op.index :> i - 1
  IN  [i \in 1..n |-> [c \in ToSet(Names(op.items)) |-> element(c, i)] @@ index(i) @@ row]

\* An expanded column takes the place of one of its name.
ExpandedColumns(cols, op) ==
  cols \o SelectSeq(Names(op.items), LAMBDA c : c \notin ToSet(cols))
       \o (IF op.index = "" THEN << >> ELSE <<op.index>>)

\* with_itemindex may not name a column there is.
IndexClashes(cols, op) == op.index # "" /\ op.index \in ToSet(cols) \cup ToSet(Names(op.items))

ApplyMvExpand(t, op) ==
  IF IndexClashes(t.cols, op) THEN Failed
  ELSE Table(ExpandedColumns(t.cols, op), FlattenSeq([i \in DOMAIN t.rows |-> ExpandedRows(t.rows[i], op)]))

------------------------------------------------------------------------------
(* make-series.                                                              *)

\* binAtInt64: the grid point at or below a value.
BinAt(v, step, start) == start + ((v - start) \div step) * step

\* The points of the axis, start included, end not.
Axis(start, end, step) ==
  [b \in 1..(IF end <= start THEN 0 ELSE (end - start + step - 1) \div step) |-> start + (b - 1) * step]

\* A group's rows by bin, the default where there are none.
SeriesOf(sa, rows, op, start, end) ==
  LET inBin(x) == SelectSeq(rows, LAMBDA r : BinAt(r[op.axis], op.step, start) = x)
      axis == Axis(start, end, op.step)
  IN  [b \in DOMAIN axis |->
         IF inBin(axis[b]) = << >> THEN sa.default ELSE ComputeAgg(sa.agg, inBin(axis[b]))]

SeriesColumns(op) ==
  Names(op.by) \o [k \in DOMAIN op.aggs |-> op.aggs[k].agg.name] \o <<op.axis>>

\* A row whose axis is null belongs nowhere, one outside [start, end) to no group.
OnAxis(rows, op, start, end) ==
  SelectSeq(rows, LAMBDA r : /\ r[op.axis] # Null
                             /\ BinAt(r[op.axis], op.step, start) \in start..(end - 1))

SeriesRow(key, rows, op, start, end) ==
  LET aggOf(c) == op.aggs[CHOOSE k \in DOMAIN op.aggs : op.aggs[k].agg.name = c]
  IN  [c \in ToSet(SeriesColumns(op)) |->
         IF c = op.axis THEN Axis(start, end, op.step)
         ELSE IF c \in ToSet(Names(op.by)) THEN key[CHOOSE k \in DOMAIN op.by : op.by[k].name = c]
         ELSE SeriesOf(aggOf(c), rows, op, start, end)]

\* applyMakeSeries with a range: kind=nonempty gives one row when there is no input.
SeriesWithin(rows, op, start, end) ==
  LET used == OnAxis(rows, op, start, end)
      keys == IF used # << >> THEN GroupKeys(op.by, used)
              ELSE IF op.nonEmpty /\ rows = << >> /\ op.by = << >> THEN << << >> >>
              ELSE << >>
  IN  [g \in DOMAIN keys |->
         SeriesRow(keys[g], SelectSeq(used, LAMBDA r : GroupKey(op.by, r) = keys[g]), op, start, end)]

\* seriesRangeInt: a group's range, where from, to or both are omitted.
SeriesRange(least, most, op) ==
  LET back == (op.to - least + op.step - 1) \div op.step
      onGrid == BinAt(op.to, op.step, 0) = op.to
  IN  CASE op.from = Null /\ op.to = Null -> <<BinAt(least, op.step, 0), BinAt(most, op.step, 0) + op.step>>
        [] op.from # Null /\ op.to = Null -> <<op.from, BinAt(most, op.step, op.from) + op.step>>
        [] op.to # Null /\ least >= op.to -> <<op.to, op.to>>
        [] OTHER -> <<op.to - back * op.step, IF onGrid THEN op.to + op.step ELSE op.to>>

\* applyMakeSeriesAutoRange: every group by itself, over the range of its own values.
SeriesByGroup(rows, op) ==
  LET placed == SelectSeq(rows, LAMBDA r : r[op.axis] # Null)
      keys == IF placed = << >> THEN << >> ELSE GroupKeys(op.by, placed)
      members(g) == SelectSeq(placed, LAMBDA r : GroupKey(op.by, r) = keys[g])
      at(g) == {members(g)[i][op.axis] : i \in DOMAIN members(g)}
      range(g) == SeriesRange(Min(at(g)), Max(at(g)), op)
  IN  IF keys = << >> THEN SeriesWithin(rows, op, 0, 0)
      ELSE FlattenSeq([g \in DOMAIN keys |-> SeriesWithin(members(g), op, range(g)[1], range(g)[2])])

ApplyMakeSeries(t, op) ==
  LET rows == IF op.from # Null /\ op.to # Null THEN SeriesWithin(t.rows, op, op.from, op.to)
              ELSE SeriesByGroup(t.rows, op)
  IN  IF op.step <= 0 THEN Failed ELSE Table(SeriesColumns(op), rows)

------------------------------------------------------------------------------
(* What they should give.                                                    *)

\* A scan that puts out all its matches, with their step and their match's number.
Noting(op) ==
  LET noted(k) == [op.steps[k] EXCEPT !.assigns = Append(@, Item("#step", Lit(k))), !.output = "all"]
  IN  [op EXCEPT !.declares = Append(@, Declare("#step", 0)), !.id = "#id",
                 !.steps = [k \in DOMAIN op.steps |-> noted(k)]]

\* A match goes through the steps in order, one at a time.
MatchesInOrder(all) ==
  \A i \in DOMAIN all :
    LET before == {j \in 1..(i - 1) : all[j]["#id"] = all[i]["#id"]}
        step == all[i]["#step"]
    IN  IF before = {} THEN step = 1
        ELSE step - all[Max(before)]["#step"] \in {0, 1}

\* The rows of a scan are the matches its steps put out: all of them, or the last
\* of a match at a step; all are the matches, out what the scan shows.
ScanAsDefined(t, op, all, out) ==
  LET kept(i) == CASE op.steps[all[i]["#step"]].output = "all" -> TRUE
                   [] op.steps[all[i]["#step"]].output = "none" -> FALSE
                   [] OTHER -> \A j \in (i + 1)..Len(all) :
                                 all[j]["#id"] = all[i]["#id"] => all[j]["#step"] # all[i]["#step"]
      cols == ToSet(t.cols) \cup Declared(op)
      expected == RowsAt(all, {i \in DOMAIN all : kept(i)})
      of(r) == [c \in cols |-> r[c]]
      times(rows, r) == Cardinality({i \in DOMAIN rows : of(rows[i]) = r})
  IN  /\ MatchesInOrder(all)
      /\ Len(out) = Len(expected)
      /\ \A i \in DOMAIN out : times(out, of(out[i])) = times(expected, of(out[i]))

\* An element of a series is the aggregate of the group's rows whose axis lies in
\* its step, or the default; and, where a bound is omitted, no value beyond the
\* other is left out.
SeriesAsDefined(t, op, out) ==
  LET key(r) == GroupKey(op.by, r)
      group(s) == SelectSeq(t.rows, LAMBDA r : /\ r[op.axis] # Null
                                               /\ \A k \in DOMAIN op.by : key(r)[k] = s[op.by[k].name])
      holds(x, v) == x <= v /\ v < x + op.step
      element(s, sa, b) ==
        LET rows == SelectSeq(group(s), LAMBDA r : holds(s[op.axis][b], r[op.axis]))
        IN  s[sa.agg.name][b] = IF rows = << >> THEN sa.default ELSE ComputeAgg(sa.agg, rows)
      covered(r) == \E i \in DOMAIN out.rows : /\ \A k \in DOMAIN op.by : out.rows[i][op.by[k].name] = key(r)[k]
                                               /\ \E b \in DOMAIN out.rows[i][op.axis] :
                                                    holds(out.rows[i][op.axis][b], r[op.axis])
  IN  out # Failed =>
        /\ \A i \in DOMAIN out.rows : \A k \in DOMAIN op.aggs : \A b \in DOMAIN out.rows[i][op.axis] :
             element(out.rows[i], op.aggs[k], b)
        /\ \A i \in DOMAIN t.rows :
             /\ t.rows[i][op.axis] # Null
             /\ op.from # Null => t.rows[i][op.axis] >= op.from
             /\ op.to # Null => t.rows[i][op.axis] < op.to
             => covered(t.rows[i])
==============================================================================
