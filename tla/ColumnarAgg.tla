----------------------------- MODULE ColumnarAgg -----------------------------
(***************************************************************************)
(* The columnar summarize (columnar_agg.go): each extent is aggregated on  *)
(* its own, grouped by dictionary code where a single string column is     *)
(* grouped by, and the partial states are merged in the order of extents.  *)
(***************************************************************************)
EXTENDS Planner

CONSTANT
  DenseGroupLimit

\* A column's dictionary in a chunk: id is the array it lies in.
DictOf(chunk, c) == IF c \in StringColumns THEN chunk.dict ELSE NoDict

SameDict(a, b) == a.vals = b.vals

SameBacking(a, b) == a.id = b.id

CodeOf(dict, v) == CHOOSE i \in DOMAIN dict.vals : dict.vals[i] = v

------------------------------------------------------------------------------
(* The set behind dcount: codes of one dictionary, or values; never both.    *)

NoValues == [dict |-> NoDict, codes |-> {}, values |-> {}]

Decoded(d) == IF d.dict = NoDict THEN {} ELSE {d.dict.vals[i] : i \in d.codes}

ToValues(d) == [dict |-> NoDict, codes |-> {}, values |-> d.values \cup Decoded(d)]

AddValue(d, v) == LET s == ToValues(d) IN [s EXCEPT !.values = @ \cup {v}]

AddCode(d, dict, code) ==
  IF d.values # {} \/ (d.dict # NoDict /\ ~SameBacking(d.dict, dict))
  THEN AddValue(d, dict.vals[code])
  ELSE [d EXCEPT !.dict = dict, !.codes = @ \cup {code}]

\* Mutant of UnionSets: codes are merged whatever dictionary they number.
UnionSets_AnyDictionary(d, src) ==
  IF src.dict # NoDict /\ d.values = {}
  THEN [src EXCEPT !.codes = @ \cup d.codes]
  ELSE [ToValues(d) EXCEPT !.values = @ \cup ToValues(src).values]

UnionSets(d, src) ==
  IF src.dict # NoDict /\ d.values = {} /\ (d.dict = NoDict \/ SameBacking(d.dict, src.dict))
  THEN [src EXCEPT !.codes = @ \cup d.codes]
  ELSE [ToValues(d) EXCEPT !.values = @ \cup ToValues(src).values]

SizeOf(d) == Cardinality(d.values) + Cardinality(d.codes)

------------------------------------------------------------------------------
(* Accumulators: one per aggregate of a group.                               *)

NoAcc(fn) ==
  CASE fn \in {"count", "sum"} -> 0
    [] fn = "avg" -> NaN
    [] fn = "dcount" -> NoValues
    [] OTHER -> Null

Better(fn, v, w) == IF w = Null \/ (fn = "max" /\ v > w) \/ (fn = "min" /\ v < w) THEN v ELSE w

\* accumulate, with accumulateEmptyString for a string column the extent lacks.
Accumulate(acc, agg, ext, chunk, row) ==
  IF agg.fn = "count" THEN acc + 1
  ELSE LET c == agg.arg.name
           v == IF c \in ext.cols THEN row[c] ELSE MissingCell(c)
       IN  IF v = Null THEN acc
           ELSE CASE agg.fn = "sum" -> acc + v
                  [] agg.fn = "avg" -> <<acc[1] + v, acc[2] + 1>>
                  [] agg.fn \in {"min", "max"} -> Better(agg.fn, v, acc)
                  [] agg.fn = "dcount" ->
                       IF c \in ext.cols /\ DictOf(chunk, c) # NoDict
                       THEN AddCode(acc, chunk.dict, CodeOf(chunk.dict, v))
                       ELSE AddValue(acc, v)

MergeAcc(fn, dst, src) ==
  CASE fn \in {"count", "sum"} -> dst + src
    [] fn = "avg" -> <<dst[1] + src[1], dst[2] + src[2]>>
    [] fn = "dcount" -> UnionSets(dst, src)
    [] OTHER -> IF src = Null THEN dst ELSE Better(fn, src, dst)

Finalize(fn, acc) ==
  CASE fn = "dcount" -> SizeOf(acc)
    [] fn = "avg" -> IF acc = NaN THEN Null ELSE acc
    [] OTHER -> acc

NewGroup(aggs) == [k \in DOMAIN aggs |-> NoAcc(aggs[k].fn)]

AddRow(accs, aggs, ext, chunk, row) ==
  [k \in DOMAIN aggs |-> Accumulate(accs[k], aggs[k], ext, chunk, row)]

MergeGroup(dst, src, aggs) ==
  [k \in DOMAIN aggs |-> MergeAcc(aggs[k].fn, dst[k], src[k])]

------------------------------------------------------------------------------
(* An extent's state.  Dense: accumulators by code of dense, codes in the    *)
(* order first seen.  Otherwise groups, a sequence of [key, accs]; indexed   *)
(* says whether the index from keys to groups is kept, last and codeGroup    *)
(* which dictionary's codes have their group.                                *)

NoState == [dense |-> NoDict, acc |-> << >>, order |-> << >>, groups |-> << >>,
            indexed |-> FALSE, last |-> NoDict, codeGroup |-> << >>]

Undense(st) ==
  IF st.dense = NoDict THEN st
  ELSE [st EXCEPT !.dense = NoDict,
                  !.groups = @ \o [k \in DOMAIN st.order |->
                                     [key |-> <<st.dense.vals[st.order[k]]>>,
                                      accs |-> st.acc[st.order[k]]]],
                  !.indexed = FALSE]

\* The group the index gives for a key: the one added last.
GroupOf(st, key) ==
  LET at == {g \in DOMAIN st.groups : st.groups[g].key = key}
  IN  IF at = {} THEN 0 ELSE Max(at)

AddToGroup(st, g, key, aggs, ext, chunk, row) ==
  IF g = 0
  THEN [st EXCEPT !.groups = Append(@, [key |-> key,
                                        accs |-> AddRow(NewGroup(aggs), aggs, ext, chunk, row)])]
  ELSE [st EXCEPT !.groups[g].accs = AddRow(@, aggs, ext, chunk, row)]

DenseRow(st, aggs, ext, chunk, code, row) ==
  LET accs == IF code \in DOMAIN st.acc THEN st.acc[code] ELSE NewGroup(aggs)
  IN  [st EXCEPT !.acc = (code :> AddRow(accs, aggs, ext, chunk, row)) @@ @,
                 !.order = IF code \in ToSet(@) THEN @ ELSE Append(@, code)]

\* Group on code without a dense state: a code met first looks its key up only
\* when there is an index.
CodedRow(st, aggs, ext, chunk, code, row) ==
  LET key == <<chunk.dict.vals[code]>>
      g == IF code \in DOMAIN st.codeGroup THEN st.codeGroup[code]
           ELSE IF st.indexed THEN GroupOf(st, key) ELSE 0
      added == AddToGroup(st, g, key, aggs, ext, chunk, row)
  IN  [added EXCEPT !.codeGroup = (code :> (IF g = 0 THEN Len(added.groups) ELSE g)) @@ @]

KeyedRow(st, plan, ext, chunk, row) ==
  LET cell(c) == IF c \in ext.cols THEN row[c] ELSE MissingCell(c)
      key == [k \in DOMAIN plan.by |-> cell(plan.by[k].expr.name)]
  IN  AddToGroup(st, GroupOf(st, key), key, plan.aggs, ext, chunk, row)

\* How a chunk's dictionary changes the state before its rows are added.
EnterChunk(st, plan, ext, chunk) ==
  LET c == plan.by[1].expr.name
      coded == Len(plan.by) = 1 /\ c \in ext.cols /\ DictOf(chunk, c) # NoDict
      fresh == st.dense = NoDict /\ st.groups = << >> /\ st.last = NoDict
      left == Undense(st)
  IN  IF ~coded THEN [left EXCEPT !.indexed = TRUE]
      ELSE IF fresh /\ Len(chunk.dict.vals) <= DenseGroupLimit
      THEN [st EXCEPT !.dense = chunk.dict]
      ELSE IF st.dense # NoDict /\ SameDict(st.dense, chunk.dict) THEN st
      ELSE IF st.dense = NoDict /\ st.last # NoDict /\ ~SameDict(st.last, chunk.dict)
      THEN [st EXCEPT !.last = chunk.dict, !.codeGroup = << >>, !.indexed = TRUE]
      ELSE [left EXCEPT !.last = chunk.dict]

AggregateChunk(st, plan, ext, chunk) ==
  LET rows == RowsAt(chunk.rows, Selected(ext, chunk, plan.preds))
      begun == EnterChunk(st, plan, ext, chunk)
      coded == chunk.dict # NoDict /\ begun.last = chunk.dict
      add(s, row) ==
        LET code == CodeOf(chunk.dict, row[plan.by[1].expr.name])
        IN  IF s.dense # NoDict THEN DenseRow(s, plan.aggs, ext, chunk, code, row)
            ELSE IF coded THEN CodedRow(s, plan.aggs, ext, chunk, code, row)
            ELSE KeyedRow(s, plan, ext, chunk, row)
  IN  IF plan.preds # {} /\ rows = << >> THEN st ELSE FoldLeft(add, begun, rows)

\* aggregateExtent.
AggregateExtent(ext, plan) ==
  FoldLeft(LAMBDA st, chunk : AggregateChunk(st, plan, ext, chunk), NoState,
           ChunksRead(ext, plan.preds))

------------------------------------------------------------------------------
(* runColumnarAggregate, once every extent has answered.                     *)

Worked(st) == st.dense # NoDict \/ st.groups # << >>

\* Every state that did anything is dense, over one dictionary.
AllDense(states) ==
  LET worked == {i \in DOMAIN states : Worked(states[i])}
  IN  /\ worked # {}
      /\ \A i, j \in worked : /\ states[i].dense # NoDict
                              /\ states[j].dense # NoDict
                              /\ SameDict(states[i].dense, states[j].dense)

\* Fold entries, each [key, accs], into groups by key, in the order first met.
MergeEntries(entries, aggs) ==
  FoldLeft(LAMBDA groups, e :
             LET at == {g \in DOMAIN groups : groups[g].key = e.key}
             IN  IF at = {} THEN Append(groups, e)
                 ELSE [groups EXCEPT ![Min(at)].accs = MergeGroup(@, e.accs, aggs)],
           << >>, entries)

AggregateMerge(states, plan) ==
  LET byCode(st) == [k \in DOMAIN st.order |-> [key |-> st.order[k], accs |-> st.acc[st.order[k]]]]
      dict == states[Min({i \in DOMAIN states : Worked(states[i])})].dense
      merged ==
        IF AllDense(states)
        THEN LET coded == MergeEntries(FlattenSeq([i \in DOMAIN states |-> byCode(states[i])]), plan.aggs)
             IN  [g \in DOMAIN coded |-> [coded[g] EXCEPT !.key = <<dict.vals[@]>>]]
        ELSE MergeEntries(FlattenSeq([i \in DOMAIN states |-> Undense(states[i]).groups]), plan.aggs)
      names == Names(plan.by) \o Names(plan.aggs)
      row(g) ==
        [c \in ToSet(names) |->
           IF c \in ToSet(Names(plan.by))
           THEN g.key[CHOOSE k \in DOMAIN plan.by : plan.by[k].name = c]
           ELSE LET k == CHOOSE n \in DOMAIN plan.aggs : plan.aggs[n].name = c
                IN  Finalize(plan.aggs[k].fn, g.accs[k])]
      nothing == [c \in ToSet(names) |->
                    EmptyAggregateValue(plan.aggs[CHOOSE n \in DOMAIN plan.aggs : plan.aggs[n].name = c].fn)]
  IN  Table(names, IF merged = << >> /\ plan.by = << >> THEN <<nothing>>
                   ELSE [g \in DOMAIN merged |-> row(merged[g])])
==============================================================================
