------------------------------- MODULE MCQuery -------------------------------
(* Extents and pipelines for TLC.                                            *)
EXTENDS Query

MCSchema == <<"k", "v", "w">>

\* Dictionaries: d1 and d3 are the same mapping in two arrays, d2 numbers the
\* same values otherwise, d4 is larger than the dense state allows.
Dict(id, vals) == [id |-> id, vals |-> vals]
d1 == Dict(1, <<0, 1>>)
d2 == Dict(2, <<1, 0>>)
d3 == Dict(3, <<0, 1>>)
d4 == Dict(4, <<2, 1, 0>>)

Full == {"k", "v", "w"}
Row(k, v, w) == [k |-> k, v |-> v, w |-> w]
Ext(cols, chunks) ==
  [cols |-> cols,
   chunks |-> [c \in DOMAIN chunks |->
     [dict |-> chunks[c].dict,
      rows |-> [i \in DOMAIN chunks[c].rows |-> [n \in cols |-> chunks[c].rows[i][n]]]]]]
Chunk(dict, rows) == [dict |-> dict, rows |-> rows]

a1 == Chunk(d1, <<Row(0, 1, 1), Row(1, Null, 2), Row(1, 2, 1)>>)
a2 == Chunk(d2, <<Row(1, 1, 1), Row(0, 2, Null)>>)
a3 == Chunk(d3, <<Row(1, 3, 2)>>)
a4 == Chunk(d4, <<Row(2, 1, 2), Row(1, Null, Null)>>)
a5 == Chunk(NoDict, <<Row(1, 2, 2), Row(0, 1, 1)>>)

MCExtents ==
  { Ext(Full, <<a1>>), Ext(Full, <<a2>>), Ext(Full, <<a2, a3>>), Ext(Full, <<a4, a1>>), Ext(Full, <<a5, a2>>),
    Ext(Full, <<a3, a5, a1>>), Ext({"v", "w"}, <<a5>>), Ext({"k", "w"}, <<a1, a2>>),
    Ext({"k"}, <<a3>>) }

MCTables ==
  {<< >>} \cup {<<e>> : e \in MCExtents} \cup {<<e, f>> : e \in MCExtents, f \in MCExtents}
  \cup {<<Ext({"v", "w"}, <<a5>>), Ext(Full, <<a1>>), Ext(Full, <<a2, a3>>)>>}

k == Col("k")
v == Col("v")
w == Col("w")
By(c) == Item(c, Col(c))
Asc(c) == Key(c, FALSE, "")
Desc(c) == Key(c, TRUE, "")
Small == Where(Bin("<", v, Lit(2)))
Others == Where(Bin("!=", v, Lit(1)))
InK == Where(Bin("==", Lit(1), k))
Sum == Agg("s", "sum", v)
Cnt == Agg("n", "count", Lit(0))
DK == Agg("d", "dcount", k)

Aggregations ==
  { <<Summarize(<<Sum, Cnt, DK>>, <<By("k")>>)>>,
    <<Summarize(<<Agg("lo", "min", v), Agg("hi", "max", w), DK>>, << >>)>>,
    <<Small, Summarize(<<Agg("a", "avg", w), DK>>, <<By("v")>>)>>,
    <<Others, InK, Summarize(<<Sum>>, <<By("k"), By("w")>>)>>,
    <<InK, CountRows>>,
    <<Others, Summarize(<<Cnt, DK>>, <<By("k")>>), Where(Bin(">", Col("n"), Lit(1)))>>,
    <<Where(BetweenE(v, Lit(1), Lit(2), FALSE)), Summarize(<<DK, Cnt>>, << >>), CountRows>>,
    <<Summarize(<<PostAgg("p", Bin("+", Col("i"), Lit(1)), <<Agg("i", "sum", v)>>)>>, <<By("k")>>)>>,
    <<Summarize(<<ArgMaxAll("v")>>, <<By("k")>>)>>,
    <<Summarize(<<Agg("c", "countif", Bin("==", v, w)), Sum>>, <<Item("m", Bin("%", w, Lit(2)))>>)>> }

Sorts ==
  { <<Top(1, Desc("v"))>>,
    <<OrderBy(<<Asc("v"), Desc("w")>>), Take(2), Project(<<By("k")>>)>>,
    <<Small, Top(2, Asc("k")), Summarize(<<Cnt>>, <<By("k")>>)>>,
    <<Others, OrderBy(<<Desc("w")>>), Take(1), CountRows>>,
    <<Top(2, Key("v", FALSE, "last"))>>,
    <<Project(<<By("v"), By("w")>>), OrderBy(<<Asc("w"), Asc("v")>>), Take(2)>>,
    <<OrderBy(<<Asc("v"), Asc("w")>>), Where(Bin(">=", v, Lit(2)))>>,
    <<OrderBy(<<Desc("w")>>), Project(<<By("v")>>)>> }

Scans ==
  { << >>,
    <<CountRows>>,
    <<Take(2)>>,
    <<Extend(<<Item("x", Bin("+", v, w)), Item("y", Bin("*", Col("x"), Lit(2)))>>), Take(3)>>,
    <<Extend(<<Item("v", w), Item("w", v)>>), Project(<<By("v"), By("w")>>)>>,
    <<Where(Bin("and", Bin(">", Lit(2), v), Bin("or", Bin("==", k, Lit(1)), NotE(Bin("==", w, Lit(1)))))),
      Project(<<By("k")>>), Take(1)>>,
    <<Small, Take(1), Extend(<<Item("z", Bin("/", v, w))>>)>>,
    <<Serialize, Where(Bin("and", Bin(">", v, Lit(1)), Bin(">", Prev("w"), Lit(1))))>>,
    <<Where(Bin("and", Bin(">", v, Lit(1)), Bin(">", Prev("w"), Lit(1)))), CountRows>>,
    <<ProjectRename("v", "u"), Where(Bin("<", Col("u"), Lit(2))), Distinct(<<"k", "u">>)>>,
    <<ProjectAway(<<"k">>), Where(InE(v, {1, 3}, FALSE))>>,
    <<Others, SampleDistinct(2, "k"), CountRows>>,
    <<Others, Project(<<By("k"), By("v")>>), Top(1, Asc("v"))>>,
    <<Others, Project(<<By("w")>>)>>,
    <<Extend(<<Item("v", k)>>), Where(Bin("<", v, Lit(1))), CountRows>>,
    <<Distinct(<<"k">>), Take(1)>>,
    <<Where(BetweenE(v, Lit(2), w, TRUE)), Distinct(<<"w">>)>> }

\* A second table, with a column of the first table's and one that takes the name
\* a clash would be given.
Other == Table(<<"k", "v", "k1">>,
               <<[k |-> 0, v |-> 1, k1 |-> 5], [k |-> 1, v |-> 2, k1 |-> 6], [k |-> 1, v |-> Null, k1 |-> 7],
                 [k |-> 9, v |-> 1, k1 |-> 8]>>)
OnK == <<<<"k", "k">>>>
OnWV == <<<<"w", "v">>>>
Kinds == {"inner", "innerunique", "leftouter", "rightouter", "fullouter",
          "leftanti", "leftsemi", "rightanti", "rightsemi"}

Combinations ==
  {<<Join(kind, Other, OnK), CountRows>> : kind \in Kinds}
  \cup {<<Project(<<By("w"), By("k")>>), Join(kind, Other, OnWV)>> : kind \in Kinds}
  \cup
  { <<Small, Join("inner", Other, OnK), Summarize(<<Cnt, Agg("hi", "max", Col("k1"))>>, <<By("w")>>)>>,
    <<Join("fullouter", Other, OnK), Where(Bin("!=", w, Lit(2))), Extend(<<Item("x", Bin("+", v, Col("v1")))>>),
      Summarize(<<Agg("s", "sum", Col("x")), Agg("lo", "min", v), Cnt>>, << >>)>>,
    <<Join("leftouter", Other, OnWV), Summarize(<<Agg("c", "countif", Bin(">", Col("k1"), Lit(5)))>>, <<By("k")>>), CountRows>>,
    <<Join("inner", Other, OnK), Summarize(<<Agg("a", "avg", v)>>, <<By("k")>>)>>,
    <<Join("rightouter", Other, OnWV), Where(Bin(">", w, Lit(9))), Summarize(<<Sum, Cnt>>, << >>)>>,
    <<Others, Lookup("leftouter", Other, OnK), Take(2)>>,
    <<Lookup("inner", Other, OnWV), CountRows>>,
    <<Small, Union("outer", <<Other>>), Summarize(<<Sum>>, <<By("k")>>)>>,
    <<Project(<<By("k"), By("w")>>), Union("inner", <<Other, Other>>), Distinct(<<"k">>)>>,
    <<Partition("k", <<Top(1, Desc("v")), Project(<<By("v"), By("k")>>)>>), CountRows>>,
    <<Others, Partition("w", <<Summarize(<<Sum>>, <<By("k")>>)>>)>>,
    <<TopNested(<<Level(1, "k", k, Sum, 9), Level(2, "w", w, Cnt, NoOthers)>>)>>,
    <<Small, TopNested(<<Level(0, "w", w, Agg("m", "max", v), NoOthers), Level(1, "k", k, Cnt, 9)>>), CountRows>> }

\* Edges v -> w, with k as a property; and nodes that a table lists, one of them
\* without edges.
NodesOf == NodeTable(Table(<<"v", "u">>, <<[v |-> 2, u |-> 7], [v |-> 5, u |-> 8], [v |-> 2, u |-> 9]>>), "v")
G == MakeGraph("v", "w", << >>)
GN == MakeGraph("v", "w", <<NodesOf>>)

\* Edges between strings: a diamond with a way back and a longer way round.
Routes == Table(<<"k", "k1", "v">>,
  <<[k |-> 10, k1 |-> 11, v |-> 1], [k |-> 11, k1 |-> 13, v |-> 2], [k |-> 10, k1 |-> 12, v |-> 1],
    [k |-> 12, k1 |-> 13, v |-> 1], [k |-> 13, k1 |-> 10, v |-> 3], [k |-> 11, k1 |-> 12, v |-> 1]>>)
Stops == NodeTable(Table(<<"k", "k2">>, <<[k |-> 10, k2 |-> 21], [k |-> 13, k2 |-> 22], [k |-> 12, k2 |-> 21]>>), "k")
OverRoutes == <<Project(<<By("k"), Item("k1", Col("k")), By("v")>>), Take(1), Union("outer", <<Routes>>)>>
GR == MakeGraph("k", "k1", <<Stops>>)
Is(c, val) == Bin("==", Col(c), Lit(val))
Shows(cols) == [i \in DOMAIN cols |-> By(cols[i])]

Graphs ==
  { <<Take(3), G, Match(<<Chain(<<"a", "b", "c">>, <<Hop("e", "out"), Hop("f", "out")>>)>>, "", << >>,
                        Shows(<<"a.NodeId", "e.w", "c.NodeId">>))>>,
    <<Take(3), GN, Match(<<Chain(<<"a", "b">>, <<Hop("e", "any")>>), Chain(<<"c", "b">>, <<Hops("f", "in", 0, 2)>>)>>,
                         "none", <<Bin("<=", Col("a.v"), Col("b.v"))>>, Shows(<<"a.v", "a.u", "#f", "e.w">>))>>,
    <<Take(3), G, Match(<<Chain(<<"a", "b", "a">>, <<Hops("e", "out", 1, 2), Hop("f", "any")>>)>>, "all", << >>,
                        Shows(<<"a.NodeId", "#e", "f.v">>)), CountRows>>,
    <<Take(2), G, Match(<<Chain(<<"a", "">>, <<DistinctHops("e", "any", 0, 2)>>)>>, "", << >>,
                        Shows(<<"a.NodeId", "#e">>))>>,
    <<G, MarkComponents("weak", "u"), GraphToTable("nodes")>>,
    <<GN, MarkComponents("strong", "z"), GraphToTable("nodes"), Summarize(<<Cnt>>, <<By("z")>>)>>,
    <<Take(2), GN, GraphToTable("edges")>>,
    <<Take(2), G>>,
    <<Take(2), G, CountRows>>,
    <<Take(2), GraphToTable("nodes")>>,
    <<MakeGraphPartitioned("v", "w", << >>, "k", <<MarkComponents("weak", "u"), GraphToTable("nodes")>>), CountRows>>,
    OverRoutes \o <<GR, MarkComponents("strong", "k2"), GraphToTable("nodes")>>,
    OverRoutes \o <<GR, Match(<<Chain(<<"a", "b">>, <<Hops("e", "out", 1, 3)>>)>>, "", <<Is("a.k", 10), Is("b.k", 13)>>,
                             Shows(<<"#e", "a.k2">>))>>,
    OverRoutes \o <<GR, Match(<<Chain(<<"a", "b">>, <<Hops("e", "out", 1, 3)>>)>>, "none",
                             <<AllOf("e", FALSE, Bin("<", v, Lit(3))), AnyOf("e", TRUE, Is("k2", 21))>>,
                             Shows(<<"a.k", "b.k", "#e">>))>>,
    OverRoutes \o <<GR, ShortestPaths(Chain(<<"a", "b">>, <<Hops("e", "any", 1, 3)>>), "all",
                             <<Is("a.k2", 21)>>, Shows(<<"a.k", "b.k", "#e">>))>>,
    OverRoutes \o <<GR, ShortestPaths(Chain(<<"a", "c", "b">>, <<Hops("e", "out", 1, 2), Hop("f", "out")>>), "any",
                             <<Bin("!=", Col("c.k"), Lit(12))>>, Shows(<<"a.k", "c.k", "b.k", "#e">>))>>,
    OverRoutes \o <<GR, Match(<<Chain(<<"a", "b">>, <<Hop("e", "out")>>), Chain(<<"c", "d">>, <<Hop("f", "out")>>)>>,
                             "", << >>, Shows(<<"a.k">>))>> }

\* Lists by k, the elements of a set in another column's place.
Listed == Summarize(<<ListAgg("l", "make_list", v, 9), ListAgg("m", "make_set", w, 2)>>, <<By("k")>>)
WithNulls == Summarize(<<ListAgg("l", "make_list_with_nulls", v, 2), AggIf("s", "sum", v, Bin(">", w, Lit(1))),
                         AggIf("y", "take_any", w, Bin(">", v, Lit(1)))>>, <<By("w")>>)
Of(c) == Item(c, Col(c))
SeriesBy(from, to, step, by) ==
  MakeSeries(<<SeriesAgg(Agg("n", "count", Lit(0)), 0), SeriesAgg(Agg("l", "sum", w), Null)>>,
             "v", from, to, step, by, by = << >>)

\* v rises from w on; a run of rows between two with the same w.
Rises == Scan(<<Declare("n", 0)>>,
              <<ScanStep("s1", Bin("==", w, Lit(1)), <<Item("n", Lit(1))>>, "all"),
                ScanStep("s2", Bin(">=", v, Col("s1.w")), <<Item("n", Bin("+", Col("n"), Lit(1)))>>, "last")>>, "id")
Between == Scan(<< >>,
                <<ScanStep("a", Bin(">", v, Lit(1)), << >>, "none"),
                  ScanStep("b", Bin("!=", w, Col("a.w")), << >>, "all"),
                  ScanStep("c", Bin("==", w, Col("a.w")), << >>, "last")>>, "")
AllLast == Scan(<<Declare("n", 0)>>,
                <<ScanStep("s1", Lit(TRUE), <<Item("n", Bin("+", Col("s1.n"), Lit(1)))>>, "last"),
                  ScanStep("s2", Bin(">", v, Col("s1.v")), << >>, "last")>>, "id")

Orders ==
  { <<Rises>>, <<OrderBy(<<Asc("w"), Asc("v")>>), Rises, Where(Bin(">", Col("n"), Lit(1)))>>,
    <<OrderBy(<<Asc("w")>>), Between>>, <<Between, CountRows>>, <<AllLast>>, <<OrderBy(<<Desc("w")>>), AllLast>>,
    <<Listed, MvExpand(<<Of("l"), Item("x", Col("m"))>>, "i", 0)>>,
    <<Listed, MvExpand(<<Item("x", Col("l")), Of("m")>>, "", 1), CountRows>>,
    <<Listed, MvExpand(<<Of("l")>>, "k", 0)>>,
    <<WithNulls, MvExpand(<<Of("l"), Of("s")>>, "", 0)>>,
    <<Listed, MvApply(<<Of("l")>>, "", 0, <<Top(1, Desc("l"))>>)>>,
    <<Listed, MvApply(<<Of("l")>>, "", 0, <<Summarize(<<Agg("t", "sum", Col("l"))>>, << >>)>>), Project(<<By("t"), By("k")>>)>>,
    <<Listed, MvApply(<<Item("e", Col("m"))>>, "i", 1, <<Where(Bin(">", Col("e"), Lit(1))), Extend(<<Item("k", Col("i"))>>)>>)>>,
    <<Small, SeriesBy(Null, Null, 2, <<By("k")>>)>>,
    <<SeriesBy(2, Null, 2, << >>)>>,
    <<SeriesBy(Null, 2, 2, <<By("k")>>), MvExpand(<<Of("l"), Of("n")>>, "", 0)>>,
    <<SeriesBy(Null, 3, 2, << >>)>>,
    <<SeriesBy(2, 4, 2, << >>), CountRows>>,
    <<SeriesBy(0, 4, 3, <<By("w")>>)>>,
    <<SeriesBy(0, 4, 0, <<By("w")>>)>>,
    <<OrderBy(<<Asc("w"), Asc("v")>>),
      Extend(<<Item("r", Window("row_number", << >>)), Item("d", Window("row_rank_dense", <<w>>)),
               Item("m", Window("row_rank_min", <<w, Lit(FALSE)>>)),
               Item("t", Window("row_cumsum", <<v, Bin("!=", w, Prev("w"))>>))>>), Where(Bin(">", Col("r"), Lit(1)))>>,
    <<Where(Bin(">", v, Lit(0))), OrderBy(<<Asc("v"), Asc("w")>>),
      Project(<<Item("s", Window("row_window_session", <<v, Lit(1), Lit(0)>>)), Item("x", Window("next", <<w, Lit(2), Lit(9)>>))>>)>> }

SmallTables ==
  { << >>, <<Ext(Full, <<a1>>)>>, <<Ext(Full, <<a2, a3>>), Ext(Full, <<a4, a1>>)>>,
    <<Ext(Full, <<a3, a5, a1>>), Ext({"v", "w"}, <<a5>>)>> }

MCQuestions ==
  (MCTables \X (Graphs \cup Combinations \cup Aggregations \cup Sorts \cup Scans))
  \cup (SmallTables \X Orders)
==============================================================================
