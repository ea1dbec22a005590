----------------------------- MODULE MCStatements -----------------------------
(***************************************************************************)
(* Statements about one stored table, two names for stored functions and a *)
(* few names for lets.                                                     *)
(***************************************************************************)
EXTENDS MCLibrary

MCStored == [T |-> Table("n", <<1, 2, 2>>)]

n == Name("n")
T == Query(Named("T"), << >>)
From(x, ops) == Query(Named(x), ops)
Few(k) == WhereOp(AtLeast(n, k))

\* Definitions of f and g.
ByNumber == Function(<<Param("k", Failed)>>, TRUE, << >>, From("T", <<Few(Name("k"))>>))
ByTable ==
  Function(<<TableParam("S", {"n"}), Param("k", Lit(1))>>, TRUE, << >>,
           Compound(<<Let("m", Value(Plus(Name("k"), Lit(1)))), From("S", <<AsOp("A"), Few(Name("m")), UnionOp(<<From("A", << >>)>>)>>)>>))
Calls(f) == Function(<< >>, TRUE, << >>, Query(Called(f, << >>), <<CountOp>>))
BareAs == Function(<< >>, TRUE, << >>, From("T", <<AsOp("A"), Few(ToScalar(From("A", <<CountOp>>)))>>))

Commands ==
  {Create("f", ByTable, FALSE, FALSE), Create("f", Calls("g"), TRUE, FALSE), Create("g", Calls("f"), FALSE, FALSE),
   Create("g", BareAs, FALSE, TRUE), Create("T", BareAs, FALSE, FALSE),
   Drop(<<"f">>, FALSE), Drop(<<"f", "g">>, TRUE)}

Scalar(params, body) == Function(params, FALSE, << >>, body)
A1(e) == <<Arg(e)>>

\* Lets and the functions they bind.
WithLet ==
  {Compound(<<Let("x", Value(Lit(2))), From("T", <<Few(Name("x"))>>)>>),
   Compound(<<Let("x", Value(Lit(2))),
              Let("S", Compound(<<Let("x", Value(Lit(1))), From("T", <<ProjectOp("n", Plus(n, Name("x")))>>)>>)),
              From("S", <<ProjectOp("n", Plus(n, Name("x")))>>)>>),
   Compound(<<Let("x", Value(Lit(1))),
              Let("F", Scalar(<<Param("a", Failed), Param("b", Lit(1))>>, Plus(Name("a"), Plus(Name("b"), Name("x"))))),
              Let("x", Value(CallE("F", <<Arg(Name("x")), NamedArg("b", Lit(0))>>))),
              From("T", <<ProjectOp("n", CallE("F", A1(n)))>>)>>),
   Compound(<<Let("F", Function(<<Param("a", Failed)>>, FALSE, <<Let("b", Value(Plus(Name("a"), Lit(1))))>>,
                                ToScalar(From("T", <<Few(Name("b")), CountOp>>)))),
              From("T", <<ProjectOp("n", CallE("F", A1(n)))>>)>>),
   Compound(<<Let("F", Scalar(<<Param("a", Failed)>>, CallE("F", A1(Name("a"))))),
              From("T", <<ProjectOp("n", CallE("F", A1(n)))>>)>>),
   Compound(<<Let("f", ByNumber), Let("S", Value(CallE("f", A1(Lit(2))))), Let("R", Value(Name("S"))),
              From("R", <<CountOp>>)>>),
   Compound(<<Let("S", T), Let("y", Value(ToScalar(From("S", <<CountOp>>)))),
              From("S", <<ProjectOp("n", Plus(n, Name("y")))>>)>>),
   Compound(<<Let("x", Value(Lit(1))), Let("S", From("none", << >>)), T>>)}

\* Names bound by `as`, and batches.
WithAs ==
  {From("A", << >>),
   From("T", <<AsOp("A"), Few(Lit(2)), UnionOp(<<From("A", << >>)>>)>>),
   From("T", <<AsOp("A"), Few(ToScalar(From("A", <<Few(Lit(2)), CountOp>>)))>>),
   From("T", <<UnionOp(<<From("T", <<AsOp("A")>>)>>), SemiJoinOp(From("A", << >>))>>),
   From("T", <<AsOp("A"), Few(Name("x"))>>),
   Compound(<<From("T", <<AsOp("A"), Few(Lit(2))>>), From("A", <<CountOp>>)>>),
   Compound(<<From("T", <<Few(Lit(2)), AsOp("A")>>), Let("x", Value(ToScalar(From("A", <<CountOp>>)))),
              From("A", <<ProjectOp("n", Name("x"))>>), From("T", <<ForkOp(<<<<CountOp>>, <<Few(Name("x"))>>>>)>>)>>),
   Compound(<<Let("A", From("T", <<CountOp>>)), From("T", <<AsOp("A")>>), From("A", <<CountOp>>)>>),
   From("T", <<PartitionOp(<<AsOp("A"), CountOp>>)>>),
   From("T", <<AsOp("A"), PartitionOp(<<UnionOp(<<From("A", << >>)>>), CountOp>>)>>),
   From("T", <<PartitionFromOp(From("T", <<Few(Name("n")), CountOp>>)), CountOp>>),
   From("T", <<ForkOp(<<<<Few(Lit(2))>>, <<CountOp>>>>)>>),
   ShowFunctions(<<CountOp>>)}

\* Calls of stored functions.
WithCalls ==
  {Query(Called("f", A1(Lit(2))), <<CountOp>>),
   Query(Called("f", <<Arg(T)>>), << >>),
   Query(Called("f", <<NamedArg("k", Lit(0)), NamedArg("S", From("T", <<Few(Lit(2))>>))>>), << >>),
   Query(Called("f", <<Arg(Lit(1)), Arg(Lit(1)), Arg(Lit(1))>>), << >>),
   Query(Named("g"), <<AsOp("A"), SemiJoinOp(From("A", << >>))>>),
   From("T", <<InvokeOp("f", << >>), CountOp>>),
   From("T", <<InvokeOp("f", A1(Lit(0))), SemiJoinOp(From("A", << >>))>>),
   Compound(<<Let("k", Value(Lit(2))), Let("S", Query(Called("f", A1(Name("k"))), << >>)), From("S", <<CountOp>>)>>),
   Compound(<<Let("S", From("T", <<Few(Lit(2))>>)), Query(Called("f", <<Arg(Name("S")), Arg(Lit(1))>>), << >>)>>),
   Compound(<<Query(Named("g"), << >>), Query(Named("g"), << >>)>>)}

MCStatement == Commands \cup WithLet \cup WithAs \cup WithCalls
===============================================================================
