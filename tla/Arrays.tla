-------------------------------- MODULE Arrays --------------------------------
(***************************************************************************)
(* The functions on dynamic values (func_dynamic.go): arrays, sets, bags   *)
(* and JSON paths.  A value is a pair of its kind and its content; a       *)
(* string is a natural number n, for the text that prints n, so that a     *)
(* number and a string can print alike.  A path is the sequence of its     *)
(* keys and indices.  Strings that themselves hold JSON, compact vectors   *)
(* and the sort of nested values by their text are left out.               *)
(***************************************************************************)
EXTENDS Integers, Sequences, FiniteSets, SequencesExt, FiniteSetsExt, Functions

Nil == <<"nil">>
Number(n) == <<"number", n>>
Text(s) == <<"string", s>>
Bool(b) == <<"bool", b>>
Array(a) == <<"array", a>>
Bag(f) == <<"bag", f>>
Path(steps) == <<"path", steps>>
\* The JSON text null, which reads as an array and as a bag without members.
NullText == <<"null text">>

Kind(v) == v[1]

IsArray(v) == Kind(v) \in {"array", "null text"}
Elements(v) == IF Kind(v) = "array" THEN v[2] ELSE << >>

IsBag(v) == Kind(v) \in {"bag", "null text"}
Members(v) == IF Kind(v) = "bag" THEN v[2] ELSE << >>

IsNumber(v) == Kind(v) = "number"
IsText(v) == Kind(v) = "string"

\* The text of a value, by which most functions compare: 1 and "1" are alike.
Printed(v) == IF Kind(v) \in {"number", "string"} THEN <<"plain", v[2]>> ELSE v

Count(v) == IF IsNumber(v) THEN v[2] ELSE 0

------------------------------------------------------------------------------
(* Arrays.  The code counts positions from 0; At(a, i) is a[i].              *)

At(a, i) == a[i + 1]
Positions(a) == 0 .. Len(a) - 1
LeastOf(a, b) == IF a < b THEN a ELSE b
MostOf(a, b) == IF a > b THEN a ELSE b

ArrayLength(v) == IF IsArray(v) THEN Number(Len(Elements(v))) ELSE Nil

\* Nothing concatenated is a nil slice, whose JSON is null and not [].
ArrayConcat(vs) ==
  LET all == FlattenSeq([k \in DOMAIN vs |-> IF IsArray(vs[k]) THEN Elements(vs[k]) ELSE << >>])
  IN  IF all = << >> THEN NullText ELSE Array(all)

ArrayReverse(v) == IF IsArray(v) THEN Array(Reverse(Elements(v))) ELSE Nil

\* The occ-th match from start, within length elements unless length is -1.
ArrayIndexOf(v, x, start, length, occ) ==
  LET a == Elements(v)
      from == IF start < 0 THEN MostOf(start + Len(a), 0) ELSE start
      to == IF length >= 0 THEN LeastOf(from + length, Len(a)) ELSE Len(a)
      matches == {i \in from .. to - 1 : Printed(At(a, i)) = Printed(x)}
      nth == {i \in matches : Cardinality({j \in matches : j <= i}) = occ}
  IN  IF length < -1 \/ occ < 1 THEN Nil
      ELSE IF nth = {} THEN Number(-1) ELSE Number(CHOOSE i \in nth : TRUE)

SetHasElement(v, x) ==
  Bool(\E i \in DOMAIN Elements(v) : Printed(Elements(v)[i]) = Printed(x))

\* Both ends are included; negative ones count from the end.
ArraySlice(v, start, end) ==
  LET a == Elements(v)
      from == MostOf(IF start < 0 THEN Len(a) + start ELSE start, 0)
      to == LeastOf(IF end < 0 THEN Len(a) + end ELSE end, Len(a) - 1)
  IN  IF ~IsArray(v) THEN Nil
      ELSE Array(IF from > to \/ from >= Len(a) THEN << >> ELSE SubSeq(a, from + 1, to + 1))

ArrayShiftLeft(v, shift, default) ==
  LET a == Elements(v)
  IN  IF ~IsArray(v) THEN Nil
      ELSE Array([i \in DOMAIN a |-> IF i + shift \in DOMAIN a THEN a[i + shift] ELSE default])

ArrayShiftRight(v, shift, default) == ArrayShiftLeft(v, -shift, default)

ArrayRotateLeft(v, count) ==
  LET a == Elements(v)
      norm == count % Len(a)
  IN  IF ~IsArray(v) THEN Nil
      ELSE IF a = << >> THEN Array(a)
      ELSE Array(SubSeq(a, norm + 1, Len(a)) \o SubSeq(a, 1, norm))

ArrayRotateRight(v, count) == ArrayRotateLeft(v, -count)

\* Cut at every index in the order given; one before the last cut cuts nothing.
ArraySplit(v, index) ==
  LET a == Elements(v)
      indices == IF IsArray(index) THEN [k \in DOMAIN Elements(index) |-> Count(Elements(index)[k])]
                 ELSE <<Count(index)>>
      place(i, prev) == LeastOf(MostOf(IF i < 0 THEN i + Len(a) ELSE i, prev), Len(a))
      cut(acc, i) == LET p == place(i, acc.prev)
                     IN  [prev |-> p, parts |-> Append(acc.parts, Array(SubSeq(a, acc.prev + 1, p)))]
      all == FoldLeft(cut, [prev |-> 0, parts |-> << >>], indices)
  IN  IF ~IsArray(v) THEN Nil
      ELSE Array(Append(all.parts, Array(SubSeq(a, all.prev + 1, Len(a)))))

\* Null as soon as one element is no number.
ArraySum(v) ==
  LET a == Elements(v)
  IN  IF ~IsArray(v) \/ \E i \in DOMAIN a : ~IsNumber(a[i]) THEN Nil
      ELSE Number(FoldLeft(LAMBDA sum, x : sum + x[2], 0, a))

\* A branch that is no array stands for each of its elements.
ArrayIff(v, whenTrue, whenFalse) ==
  LET cond == Elements(v)
      known(c) == Kind(c) \in {"bool", "number"}
      holds(c) == IF IsNumber(c) THEN c[2] # 0 ELSE c[2]
      item(w, i) == IF ~IsArray(w) THEN w
                    ELSE IF i \in DOMAIN Elements(w) THEN Elements(w)[i] ELSE Nil
  IN  IF ~IsArray(v) THEN Nil
      ELSE Array([i \in DOMAIN cond |->
                    IF ~known(cond[i]) THEN Nil
                    ELSE IF holds(cond[i]) THEN item(whenTrue, i) ELSE item(whenFalse, i)])

ZipArrays(vs) ==
  LET longest == Max({Len(Elements(vs[k])) : k \in DOMAIN vs})
  IN  Array([i \in 1 .. longest |->
               Array([k \in DOMAIN vs |-> IF i \in DOMAIN Elements(vs[k]) THEN Elements(vs[k])[i] ELSE Nil])])

Repeat(x, count) == IF count < 0 THEN Nil ELSE Array([i \in 1 .. count |-> x])

\* A graph path's value: its nodes and edges in turns.
GqlInterleave(nodes, edges) ==
  LET ns == Elements(nodes)
      es == Elements(edges)
  IN  IF ~IsArray(nodes) \/ ~IsArray(edges) THEN Nil
      ELSE Array(FlattenSeq([i \in DOMAIN ns |-> IF i \in DOMAIN es THEN <<ns[i], es[i]>> ELSE <<ns[i]>>]))

------------------------------------------------------------------------------
(* Sorting.                                                                  *)

ArraySortRank(x) == IF IsNumber(x) THEN 0 ELSE IF IsText(x) THEN 1 ELSE 2

\* Content in the order of its kind; false is before true.
Below(x, y) == IF Kind(x) = "bool" THEN ~x[2] /\ y[2] ELSE x[2] < y[2]

\* Nulls apart, numbers are before strings and strings before the rest in both
\* directions.
ArraySortLess(x, y, asc, nullsLast) ==
  IF x = Nil \/ y = Nil THEN x # y /\ (x = Nil) # nullsLast
  ELSE IF ArraySortRank(x) # ArraySortRank(y) THEN ArraySortRank(x) < ArraySortRank(y)
  ELSE IF asc THEN Below(x, y) ELSE Below(y, x)

\* The positions of a in the order of a stable sort.
SortOrder(a, asc, nullsLast) ==
  SetToSortSeq(DOMAIN a, LAMBDA i, j : \/ ArraySortLess(a[i], a[j], asc, nullsLast)
                                       \/ i < j /\ ~ArraySortLess(a[j], a[i], asc, nullsLast))

\* One array is sorted; of several, the others follow the first.
EvalArraySort(vs, asc, nullsLast) ==
  LET first == Elements(vs[1])
      order == SortOrder(first, asc, nullsLast)
      follow(v) == IF IsArray(v) /\ Len(Elements(v)) = Len(first)
                   THEN Array([i \in DOMAIN order |-> Elements(v)[order[i]]]) ELSE Nil
  IN  IF ~IsArray(vs[1]) THEN Nil
      ELSE IF Len(vs) = 1 THEN Array([i \in DOMAIN order |-> first[order[i]]])
      ELSE Array([k \in DOMAIN vs |-> follow(vs[k])])

------------------------------------------------------------------------------
(* Sets: arrays without repetitions, in the order of first appearance.  Here *)
(* 1 and "1" differ, but jaccard_index compares the texts.                   *)

FirstsOf(a) == FoldLeft(LAMBDA acc, x : IF x \in Range(acc) THEN acc ELSE Append(acc, x), << >>, a)

SetOperation(op, vs) ==
  LET one(acc, v) ==
        LET a == Elements(v)
        IN  CASE op = "union" -> FirstsOf(acc \o a)
              [] op = "intersect" -> SelectSeq(acc, LAMBDA x : x \in Range(a))
              [] op = "difference" -> SelectSeq(acc, LAMBDA x : x \notin Range(a))
  IN  Array(FoldLeft(one, FirstsOf(Elements(vs[1])), Tail(vs)))

\* A fraction, as the pair of its parts; of two empty sets it is null.
JaccardIndex(v, w) ==
  LET texts(x) == {Printed(Elements(x)[i]) : i \in DOMAIN Elements(x)}
      union == texts(v) \cup texts(w)
  IN  IF ~IsArray(v) \/ ~IsArray(w) \/ union = {} THEN Nil
      ELSE <<"fraction", Cardinality(texts(v) \cap texts(w)), Cardinality(union)>>

------------------------------------------------------------------------------
(* JSON paths and bags.                                                      *)

KeyStep(k) == <<"key", k>>
IndexStep(i) == <<"index", i>>

\* The value a path leads to, or Missing.
Missing == <<"missing">>

PathStep(v, step) ==
  CASE Kind(step) = "key" -> IF Kind(v) = "bag" /\ step[2] \in DOMAIN v[2] THEN v[2][step[2]] ELSE Missing
    [] Kind(step) = "index" -> IF Kind(v) = "array" /\ step[2] \in Positions(v[2]) THEN At(v[2], step[2]) ELSE Missing

EvalJSONPath(root, path) == FoldLeft(PathStep, root, path)

\* A leaf of null is the empty string, and a path that leads nowhere null.
EmptyText == <<"plain", "">>
ExtractJson(path, v) ==
  LET found == EvalJSONPath(v, path)
  IN  IF v = Nil \/ found = Missing THEN Nil
      ELSE IF found \in {Nil, NullText} THEN EmptyText ELSE Printed(found)

Ascending(S) == SetToSortSeq(S, LAMBDA a, b : a < b)

RECURSIVE CollectPaths(_, _)
CollectPaths(prefix, v) ==
  <<prefix>> \o
    (CASE Kind(v) = "bag" ->
            LET keys == Ascending(DOMAIN v[2])
            IN  FlattenSeq([k \in DOMAIN keys |-> CollectPaths(Append(prefix, KeyStep(keys[k])), v[2][keys[k]])])
       [] Kind(v) = "array" ->
            FlattenSeq([i \in DOMAIN v[2] |-> CollectPaths(Append(prefix, IndexStep(i - 1)), v[2][i])])
       [] OTHER -> << >>)

TreePath(v) == IF v = Nil THEN Nil ELSE <<"paths", CollectPaths(<< >>, v)>>

BagKeys(v) ==
  LET keys == Ascending(DOMAIN Members(v))
  IN  IF IsBag(v) THEN Array([k \in DOMAIN keys |-> Text(keys[k])]) ELSE Nil

BagHasKey(v, key) ==
  Bool(IsBag(v) /\ IF Kind(key) = "path" THEN EvalJSONPath(v, key[2]) # Missing
                   ELSE key[2] \in DOMAIN Members(v))

\* The first bag that has a key gives its value.
BagMerge(vs) == Bag(FoldLeft(LAMBDA acc, v : acc @@ Members(v), << >>, vs))

Without(f, k) == [x \in DOMAIN f \ {k} |-> f[x]]

\* A path that leads nowhere removes nothing.
RECURSIVE RemoveNestedKey(_, _)
RemoveNestedKey(f, steps) ==
  IF Len(steps) = 1 THEN Without(f, steps[1])
  ELSE IF steps[1] \in DOMAIN f /\ Kind(f[steps[1]]) = "bag"
  THEN [f EXCEPT ![steps[1]] = Bag(RemoveNestedKey(@[2], Tail(steps)))]
  ELSE f

BagRemoveKeys(v, keys) ==
  LET remove(f, k) == CASE Kind(k) = "path" -> RemoveNestedKey(f, [i \in DOMAIN k[2] |-> k[2][i][2]])
                        [] Kind(k) = "string" -> Without(f, k[2])
                        [] OTHER -> f
  IN  IF IsBag(v) THEN Bag(FoldLeft(remove, Members(v), Elements(keys))) ELSE Nil

\* Bags are made on the way, in place of whatever is there that is none.
RECURSIVE SetNestedKey(_, _, _)
SetNestedKey(f, steps, x) ==
  LET next == IF steps[1] \in DOMAIN f /\ Kind(f[steps[1]]) = "bag" THEN f[steps[1]][2] ELSE << >>
  IN  IF Len(steps) = 1 THEN (steps[1] :> x) @@ f
      ELSE (steps[1] :> Bag(SetNestedKey(next, Tail(steps), x))) @@ f

BagSetKey(v, key, x) ==
  IF ~IsBag(v) THEN Nil
  ELSE IF Kind(key) = "path" THEN Bag(SetNestedKey(Members(v), [i \in DOMAIN key[2] |-> key[2][i][2]], x))
  ELSE Bag((key[2] :> x) @@ Members(v))

\* A key that is no string takes its value with it.
BagZip(keys, values) ==
  LET ks == Elements(keys)
      named == {i \in DOMAIN ks : IsText(ks[i])}
      last(k) == Max({i \in named : ks[i][2] = k})
  IN  IF ~IsArray(keys) THEN Nil
      ELSE Bag([k \in {ks[i][2] : i \in named} |->
                  IF last(k) \in DOMAIN Elements(values) THEN Elements(values)[last(k)] ELSE Nil])

\* A repeated key keeps its first place and its last value; Packed is the bag's text.
BagPack(pairs) ==
  LET keys == FirstsOf([i \in DOMAIN pairs |-> pairs[i][1]])
      last(k) == Max({i \in DOMAIN pairs : pairs[i][1] = k})
  IN  <<"packed", [j \in DOMAIN keys |-> <<keys[j], pairs[last(keys[j])][2]>>]>>

------------------------------------------------------------------------------
(* A call of one of the functions: its name and its arguments.               *)

Call(fn, args) == [fn |-> fn, args |-> args]

CallDynamic(c) ==
  LET a == c.args
  IN  CASE c.fn = "array_length" -> ArrayLength(a[1])
        [] c.fn = "array_concat" -> ArrayConcat(a)
        [] c.fn = "array_reverse" -> ArrayReverse(a[1])
        [] c.fn = "array_index_of" -> ArrayIndexOf(a[1], a[2], a[3], a[4], a[5])
        [] c.fn = "array_slice" -> ArraySlice(a[1], a[2], a[3])
        [] c.fn = "array_shift_left" -> ArrayShiftLeft(a[1], a[2], a[3])
        [] c.fn = "array_shift_right" -> ArrayShiftRight(a[1], a[2], a[3])
        [] c.fn = "array_rotate_left" -> ArrayRotateLeft(a[1], a[2])
        [] c.fn = "array_rotate_right" -> ArrayRotateRight(a[1], a[2])
        [] c.fn = "array_split" -> ArraySplit(a[1], a[2])
        [] c.fn = "array_sum" -> ArraySum(a[1])
        [] c.fn = "array_iff" -> ArrayIff(a[1], a[2], a[3])
        [] c.fn = "zip" -> ZipArrays(a)
        [] c.fn = "repeat" -> Repeat(a[1], a[2])
        [] c.fn = "__gql_interleave" -> GqlInterleave(a[1], a[2])
        [] c.fn = "array_sort_asc" -> EvalArraySort(a[1], TRUE, a[2])
        [] c.fn = "array_sort_desc" -> EvalArraySort(a[1], FALSE, a[2])
        [] c.fn = "set_union" -> SetOperation("union", a)
        [] c.fn = "set_intersect" -> SetOperation("intersect", a)
        [] c.fn = "set_difference" -> SetOperation("difference", a)
        [] c.fn = "set_has_element" -> SetHasElement(a[1], a[2])
        [] c.fn = "jaccard_index" -> JaccardIndex(a[1], a[2])
        [] c.fn = "treepath" -> TreePath(a[1])
        [] c.fn = "extract_json" -> ExtractJson(a[1], a[2])
        [] c.fn = "bag_keys" -> BagKeys(a[1])
        [] c.fn = "bag_has_key" -> BagHasKey(a[1], a[2])
        [] c.fn = "bag_merge" -> BagMerge(a)
        [] c.fn = "bag_remove_keys" -> BagRemoveKeys(a[1], a[2])
        [] c.fn = "bag_set_key" -> BagSetKey(a[1], a[2], a[3])
        [] c.fn = "bag_zip" -> BagZip(a[1], a[2])
        [] c.fn = "bag_pack" -> BagPack(a)

------------------------------------------------------------------------------
(* What the functions promise, said of the answer and the arguments alone.   *)

\* x is a position of an array of n elements, a negative one counted from the end.
FromEnd(x, n) == IF x < 0 THEN x + n ELSE x

Nth(v, i) == Elements(v)[i + 1]
Size(v) == Len(Elements(v))
Indices(v) == 0 .. Size(v) - 1

IsReordering(a, b) ==
  /\ Len(a) = Len(b)
  /\ \A x \in Range(a) \cup Range(b) :
       Cardinality({i \in DOMAIN a : a[i] = x}) = Cardinality({i \in DOMAIN b : b[i] = x})

Printing(v, x, window) == {i \in window : Printed(Nth(v, i)) = Printed(x)}

\* The whole of v in one line, element i of every array of vs beside each other.
RowsOf(vs) == [i \in 1 .. Size(vs[1]) |-> [k \in DOMAIN vs |-> Elements(vs[k])[i]]]

IndexAsDefined(v, x, start, length, occ, answer) ==
  LET from == MostOf(FromEnd(start, Size(v)), 0)
      window == {i \in Indices(v) : i >= from /\ (length >= 0 => i < from + length)}
      found == answer[2]
  IN  IF length < -1 \/ occ < 1 THEN answer = Nil
      ELSE \/ answer = Number(-1) /\ Cardinality(Printing(v, x, window)) < occ
           \/ /\ found \in Printing(v, x, window)
              /\ Cardinality({i \in Printing(v, x, window) : i <= found}) = occ

\* The parts make up the array, and each ends where its index says or further on.
SplitAsDefined(v, index, answer) ==
  LET cuts == IF IsArray(index) THEN Elements(index) ELSE <<index>>
      parts == Elements(answer)
      place(k) == LeastOf(FromEnd(Count(cuts[k]), Size(v)), Size(v))
      before(k) == FoldLeft(LAMBDA sum, p : sum + Size(p), 0, SubSeq(parts, 1, k))
  IN  /\ FlattenSeq([k \in DOMAIN parts |-> Elements(parts[k])]) = Elements(v)
      /\ Len(parts) = Len(cuts) + 1
      /\ \A k \in DOMAIN cuts : before(k) = Max({0} \cup {place(j) : j \in 1 .. k})

InSortOrder(a, asc, nullsLast) ==
  \A i, j \in DOMAIN a : i < j =>
    LET x == a[i]
        y == a[j]
    IN  \/ x = y
        \/ y = Nil /\ nullsLast
        \/ x = Nil /\ ~nullsLast
        \/ x # Nil /\ y # Nil /\ ArraySortRank(x) < ArraySortRank(y)
        \/ /\ x # Nil /\ y # Nil /\ ArraySortRank(x) = ArraySortRank(y)
           /\ IF asc THEN Below(x, y) ELSE Below(y, x)

SortAsDefined(vs, asc, nullsLast, answer) ==
  IF Len(vs) = 1
  THEN IsReordering(Elements(answer), Elements(vs[1])) /\ InSortOrder(Elements(answer), asc, nullsLast)
  ELSE LET alike == SelectSeq([k \in DOMAIN vs |-> k], LAMBDA k : Size(vs[k]) = Size(vs[1]))
           given == [k \in DOMAIN alike |-> vs[alike[k]]]
           sorted == [k \in DOMAIN alike |-> Elements(answer)[alike[k]]]
       IN  /\ IsReordering(RowsOf(sorted), RowsOf(given))
           /\ InSortOrder(Elements(sorted[1]), asc, nullsLast)
           /\ \A k \in DOMAIN vs \ Range(alike) : Elements(answer)[k] = Nil

\* As sets, without repetitions, and in the order in which the elements are first met.
SetAsDefined(members, vs, answer) ==
  LET all == FlattenSeq([k \in DOMAIN vs |-> Elements(vs[k])])
      met(x) == Min({i \in DOMAIN all : all[i] = x})
      a == Elements(answer)
  IN  /\ Range(a) = members
      /\ \A i, j \in DOMAIN a : i < j => met(a[i]) < met(a[j])

\* The paths into a value, to a depth.
RECURSIVE PathsInto(_, _)
PathsInto(v, depth) ==
  {<< >>} \cup
    IF depth = 0 THEN {}
    ELSE CASE Kind(v) = "bag" -> UNION {{<<KeyStep(k)>> \o p : p \in PathsInto(v[2][k], depth - 1)} : k \in DOMAIN v[2]}
           [] Kind(v) = "array" -> UNION {{<<IndexStep(i)>> \o p : p \in PathsInto(Nth(v, i), depth - 1)} : i \in Indices(v)}
           [] OTHER -> {}

AllPaths(v) == PathsInto(v, 4)
Under(p, q) == IsPrefix(p, q)
Steps(key) == IF Kind(key) = "path" THEN key[2] ELSE <<KeyStep(key[2])>>
Leaf(v, p) == EvalJSONPath(v, p)

\* Paths that neither lead through p nor on from it, nor into what made way for a
\* bag on the way of p, keep their values.
Elsewhere(v, w, p) ==
  LET replaced(q) == \E k \in 0 .. Len(p) - 1 : Under(SubSeq(p, 1, k), q) /\ ~IsBag(Leaf(v, SubSeq(p, 1, k)))
  IN  \A q \in AllPaths(v) \cup AllPaths(w) :
        ~Under(p, q) /\ ~Under(q, p) /\ ~replaced(q) => Leaf(v, q) = Leaf(w, q)

DynamicAsPromised(c, answer) ==
  LET a == c.args
      v == a[1]
      n == Size(v)
      of(i) == Nth(answer, i)
  IN  CASE c.fn \in {"array_slice", "array_shift_left", "array_shift_right", "array_rotate_left",
                     "array_rotate_right", "array_split", "array_reverse", "array_iff", "array_length", "array_sum"}
             /\ ~IsArray(v) -> answer = Nil
        [] c.fn = "array_length" -> answer = Number(n)
        [] c.fn = "array_concat" ->
             /\ Size(answer) = FoldLeft(LAMBDA sum, x : sum + Size(x), 0, a)
             /\ \A k \in DOMAIN a :
                  LET before == FoldLeft(LAMBDA sum, x : sum + Size(x), 0, SubSeq(a, 1, k - 1))
                  IN  \A i \in Indices(a[k]) : of(before + i) = Nth(a[k], i)
        [] c.fn = "array_reverse" -> Size(answer) = n /\ \A i \in Indices(v) : of(i) = Nth(v, n - 1 - i)
        [] c.fn = "array_index_of" -> IndexAsDefined(v, a[2], a[3], a[4], a[5], answer)
        [] c.fn = "array_slice" ->
             LET within == {i \in Indices(v) : FromEnd(a[2], n) <= i /\ i <= FromEnd(a[3], n)}
             IN  /\ Size(answer) = Cardinality(within)
                 /\ \A i \in within : of(i - Min(within)) = Nth(v, i)
        [] c.fn \in {"array_shift_left", "array_shift_right"} ->
             LET by == IF c.fn = "array_shift_left" THEN a[2] ELSE -a[2]
             IN  /\ Size(answer) = n
                 /\ \A i \in Indices(v) :
                      \/ i - by \in Indices(v) /\ of(i - by) = Nth(v, i)
                      \/ i - by \notin Indices(v)
                 /\ \A i \in Indices(v) : i + by \notin Indices(v) => of(i) = a[3]
        [] c.fn \in {"array_rotate_left", "array_rotate_right"} ->
             LET by == IF c.fn = "array_rotate_left" THEN a[2] ELSE -a[2]
             IN  Size(answer) = n /\ \A i \in Indices(v) : of((i - by) % n) = Nth(v, i)
        [] c.fn = "array_split" -> SplitAsDefined(v, a[2], answer)
        [] c.fn = "array_sum" ->
             answer = IF \A i \in Indices(v) : IsNumber(Nth(v, i))
                      THEN Number(MapThenSumSet(LAMBDA i : Elements(v)[i][2], 1 .. n))
                      ELSE Nil
        [] c.fn = "array_iff" ->
             /\ Size(answer) = n
             /\ \A i \in Indices(v) :
                  LET chosen == IF Nth(v, i) \in {Bool(FALSE), Number(0)} THEN a[3] ELSE a[2]
                  IN  of(i) = IF Kind(Nth(v, i)) \notin {"bool", "number"} THEN Nil
                              ELSE IF ~IsArray(chosen) THEN chosen
                              ELSE IF i < Size(chosen) THEN Nth(chosen, i) ELSE Nil
        [] c.fn = "zip" ->
             /\ \A k \in DOMAIN a : \A i \in Indices(answer) :
                  Elements(of(i))[k] = IF i < Size(a[k]) THEN Nth(a[k], i) ELSE Nil
             /\ \E k \in DOMAIN a : Size(answer) = Size(a[k])
             /\ \A k \in DOMAIN a : Size(a[k]) <= Size(answer)
        [] c.fn = "repeat" -> IF a[2] < 0 THEN answer = Nil
                              ELSE Size(answer) = a[2] /\ Range(Elements(answer)) \subseteq {v}
        [] c.fn = "__gql_interleave" ->
             IF ~IsArray(v) \/ ~IsArray(a[2]) THEN answer = Nil
             ELSE Size(a[2]) = n - 1 =>
                    /\ Size(answer) = 2 * n - 1
                    /\ \A i \in Indices(answer) : of(i) = IF i % 2 = 0 THEN Nth(v, i \div 2) ELSE Nth(a[2], i \div 2)
        [] c.fn \in {"array_sort_asc", "array_sort_desc"} ->
             IF ~IsArray(v[1]) THEN answer = Nil
             ELSE SortAsDefined(v, c.fn = "array_sort_asc", a[2], answer)
        [] c.fn = "set_union" -> SetAsDefined(UNION {Range(Elements(a[k])) : k \in DOMAIN a}, a, answer)
        [] c.fn = "set_intersect" ->
             SetAsDefined({x \in Range(Elements(v)) : \A k \in DOMAIN a : x \in Range(Elements(a[k]))}, a, answer)
        [] c.fn = "set_difference" ->
             SetAsDefined({x \in Range(Elements(v)) : \A k \in 2 .. Len(a) : x \notin Range(Elements(a[k]))}, a, answer)
        [] c.fn = "set_has_element" -> answer = Bool(ArrayIndexOf(v, a[2], 0, -1, 1) # Number(-1))
        [] c.fn = "jaccard_index" ->
             IF ~IsArray(v) \/ ~IsArray(a[2]) \/ n + Size(a[2]) = 0 THEN answer = Nil
             ELSE LET both == SetOperation("union", <<v, a[2]>>)
                  IN  answer[3] = Cardinality({Printed(x) : x \in Range(Elements(both))}) /\ answer[2] \in 0 .. answer[3]
        [] c.fn = "treepath" ->
             IF v = Nil THEN answer = Nil
             ELSE /\ Range(answer[2]) = AllPaths(v)
                  /\ \A i, j \in DOMAIN answer[2] : i # j /\ Under(answer[2][i], answer[2][j]) => i < j
        [] c.fn = "extract_json" -> (answer = Nil) = (a[2] = Nil \/ v \notin AllPaths(a[2]))
        [] c.fn = "bag_keys" ->
             IF ~IsBag(v) THEN answer = Nil
             ELSE \A k \in 0 .. 4 : (Text(k) \in Range(Elements(answer))) = BagHasKey(v, Text(k))[2]
        [] c.fn = "bag_has_key" ->
             answer = Bool(IsBag(v) /\ Steps(a[2]) \in AllPaths(v))
        [] c.fn = "bag_merge" ->
             /\ DOMAIN answer[2] = UNION {DOMAIN Members(a[k]) : k \in DOMAIN a}
             /\ \A k \in DOMAIN a : \A x \in DOMAIN Members(a[k]) :
                  answer[2][x] = Members(a[k])[x] \/ \E j \in 1 .. k - 1 : x \in DOMAIN Members(a[j])
        [] c.fn = "bag_remove_keys" ->
             IF ~IsBag(v) THEN answer = Nil
             ELSE \A p \in AllPaths(v) \cup AllPaths(answer) :
                    p \in AllPaths(answer) <=>
                      p \in AllPaths(v) /\ \A k \in Range(Elements(a[2])) : Kind(k) \in {"path", "string"} => ~Under(Steps(k), p)
        [] c.fn = "bag_set_key" ->
             IF ~IsBag(v) THEN answer = Nil
             ELSE Leaf(answer, Steps(a[2])) = a[3] /\ Elsewhere(v, answer, Steps(a[2]))
        [] c.fn = "bag_zip" ->
             IF ~IsArray(v) THEN answer = Nil
             ELSE /\ DOMAIN answer[2] = {x[2] : x \in {y \in Range(Elements(v)) : IsText(y)}}
                  /\ \A i \in Indices(v) :
                       \/ ~IsText(Nth(v, i))
                       \/ \E j \in Indices(v) : j > i /\ Nth(v, j) = Nth(v, i)
                       \/ answer[2][Nth(v, i)[2]] = IF i < Size(a[2]) THEN Nth(a[2], i) ELSE Nil
        [] c.fn = "bag_pack" ->
             LET keys == [j \in DOMAIN answer[2] |-> answer[2][j][1]]
                 first(k) == Min({i \in DOMAIN a : a[i][1] = k})
             IN  /\ Range(keys) = {a[i][1] : i \in DOMAIN a}
                 /\ \A i, j \in DOMAIN keys : i < j => first(keys[i]) < first(keys[j])
                 /\ \A i \in DOMAIN a : \A j \in DOMAIN keys :
                      keys[j] = a[i][1] => \/ answer[2][j][2] = a[i][2]
                                           \/ \E later \in i + 1 .. Len(a) : a[later][1] = a[i][1]
===============================================================================
