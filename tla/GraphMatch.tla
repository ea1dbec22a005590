------------------------------ MODULE GraphMatch ------------------------------
(***************************************************************************)
(* graph-match and graph-shortest-paths (graph_match.go, graph_bfs.go,     *)
(* graph_reach.go): the plan of a pattern, the depth-first walk that binds *)
(* it step by step, what prunes the walk, and the operators of a pipeline  *)
(* that has a graph in it.                                                 *)
(*                                                                         *)
(* A pattern is a sequence of chains [nodes, edges] of names; "" is an     *)
(* anonymous node.  A match is [bind, paths]: the ordinal bound to a         *)
(* variable, and for an edge element the hops taken, in written order,     *)
(* each the edge and whether it was walked against its direction.          *)
(***************************************************************************)
EXTENDS PropertyGraph

Chain(nodes, edges) == [nodes |-> nodes, edges |-> edges]
\* An edge element written with a hop range has many |-> TRUE.
Hop(name, dir) == [name |-> name, dir |-> dir, lo |-> 1, hi |-> 1, many |-> FALSE, distinct |-> FALSE]
Hops(name, dir, lo, hi) == [name |-> name, dir |-> dir, lo |-> lo, hi |-> hi, many |-> TRUE, distinct |-> FALSE]
DistinctHops(name, dir, lo, hi) == [Hops(name, dir, lo, hi) EXCEPT !.distinct = TRUE]
Match(chains, cycles, where, project) ==
  [op |-> "graph-match", chains |-> chains, cycles |-> cycles, shortest |-> "", where |-> where,
   project |-> project]
ShortestPaths(chain, output, where, project) ==
  [op |-> "graph-match", chains |-> <<chain>>, cycles |-> "", shortest |-> output, where |-> where,
   project |-> project]
\* all() and any() over the edges of an edge variable, or the nodes inside its path.
AllOf(edge, inner, pred) == [op |-> "all", edge |-> edge, inner |-> inner, pred |-> pred]
AnyOf(edge, inner, pred) == [op |-> "any", edge |-> edge, inner |-> inner, pred |-> pred]

------------------------------------------------------------------------------
(* The plan.                                                                 *)

\* varFor: the index of a node variable, which may be a new one.
VarFor(vars, name) ==
  LET known == {i \in DOMAIN vars : name # "" /\ vars[i] = name}
  IN  IF known = {} THEN [vars |-> Append(vars, name), at |-> Len(vars) + 1]
      ELSE [vars |-> vars, at |-> Min(known)]

\* The variables of a pattern and its edge elements, each between two of them.
PatternOf(chains) ==
  LET element(p, e, name) ==
        LET right == VarFor(p.vars, name)
        IN  [vars |-> right.vars, prev |-> right.at,
             elems |-> Append(p.elems, [spec |-> e, left |-> p.prev, right |-> right.at])]
      chain(p, c) ==
        LET first == VarFor(p.vars, c.nodes[1])
        IN  FoldLeft(LAMBDA q, i : element(q, c.edges[i], c.nodes[i + 1]),
                     [p EXCEPT !.vars = first.vars, !.prev = first.at],
                     [i \in DOMAIN c.edges |-> i])
  IN  FoldLeft(chain, [vars |-> << >>, prev |-> 0, elems |-> << >>], chains)

Flipped(dir) == CASE dir = "out" -> "in" [] dir = "in" -> "out" [] OTHER -> dir

RECURSIVE StepsFrom(_, _, _)
\* From the variables already bound, the first element that touches one of them; it
\* is walked from right to left when only its right end is bound.  The elements of
\* a second component are never reached.
StepsFrom(elems, bound, done) ==
  LET open == {i \in DOMAIN elems \ done : {elems[i].left, elems[i].right} \cap bound # {}}
      at == Min(open)
      e == elems[at]
      back == e.left \notin bound
      to == IF back THEN e.left ELSE e.right
  IN  IF open = {} THEN << >>
      ELSE <<[elem |-> at, from |-> IF back THEN e.right ELSE e.left, to |-> to, back |-> back,
              dir |-> IF back THEN Flipped(e.spec.dir) ELSE e.spec.dir, toBound |-> to \in bound]>>
           \o StepsFrom(elems, bound \cup {to}, done \cup {at})

\* The plan of a pattern.
PlanOf(op) ==
  LET p == PatternOf(op.chains)
  IN  [vars |-> p.vars, elems |-> p.elems, steps |-> StepsFrom(p.elems, {1}, {})]

Connected(plan) ==
  /\ Len(plan.steps) = Len(plan.elems)
  /\ \A v \in DOMAIN plan.vars : v = 1 \/ \E s \in DOMAIN plan.steps : v \in {plan.steps[s].from, plan.steps[s].to}

\* The columns a variable gives the match schema.
NodeColumns(g, plan, v) == IF plan.vars[v] = "" THEN {} ELSE {plan.vars[v] \o "." \o c : c \in ToSet(g.nodeCols)}

EdgeColumns(g, plan, e) ==
  LET spec == plan.elems[e].spec
  IN  IF spec.name = "" THEN {}
      ELSE IF spec.many THEN {"#" \o spec.name}
      ELSE {spec.name \o "." \o c : c \in ToSet(g.cols)}

\* The position at which a column is bound: that of the step that binds its variable.
PositionOf(g, plan, c) ==
  LET binds(s) == \/ c \in EdgeColumns(g, plan, plan.steps[s].elem)
                  \/ ~plan.steps[s].toBound /\ c \in NodeColumns(g, plan, plan.steps[s].to)
      at == {s \in DOMAIN plan.steps : binds(s)}
  IN  IF at = {} THEN 0 ELSE Min(at)

PositionOfEdge(plan, name) ==
  CHOOSE s \in DOMAIN plan.steps : plan.elems[plan.steps[s].elem].spec.name = name

\* buildMatchPredicates: a conjunct is evaluated as soon as what it reads is bound.
Scheduled(g, plan, conjunct) ==
  IF conjunct.op \in {"all", "any"} THEN PositionOfEdge(plan, conjunct.edge)
  ELSE Max({0} \cup {PositionOf(g, plan, c) : c \in ColumnsOf(conjunct)})

------------------------------------------------------------------------------
(* What a match shows.                                                       *)

\* The nodes along hops from node o: graphPath.nodes.
PathNodes(g, o, hops) ==
  FoldLeft(LAMBDA ns, h : Append(ns, IF g.src[h[1]] = Last(ns) THEN g.dst[h[1]] ELSE g.src[h[1]]),
           <<o>>, hops)

\* writeNode, writePath: the columns bound so far.  "#e" is array_length(e).
MatchRow(g, plan, m) ==
  LET bound == {v \in DOMAIN m.bind : plan.vars[v] # ""}
      walked == {e \in DOMAIN m.paths : plan.elems[e].spec.name # ""}
      many == {e \in walked : plan.elems[e].spec.many}
      nodeCell(v, c) == NodeRow(g, m.bind[v])[c]
      edgeCell(e, c) == g.rows[m.paths[e][1][1]][c]
      name(v) == plan.vars[v]
      edge(e) == plan.elems[e].spec.name
      cells == {<<name(v) \o "." \o c, nodeCell(v, c)>> : v \in bound, c \in ToSet(g.nodeCols)}
               \cup {<<edge(e) \o "." \o c, edgeCell(e, c)>> : e \in walked \ many, c \in ToSet(g.cols)}
               \cup {<<"#" \o edge(e), Len(m.paths[e])>> : e \in many}
  IN  [c \in {p[1] : p \in cells} |-> (CHOOSE p \in cells : p[1] = c)[2]]

\* evalGraphPathFunc: the element's properties, then those of the match.
OverPath(g, plan, m, f) ==
  LET e == CHOOSE x \in DOMAIN plan.elems : plan.elems[x].spec.name = f.edge
      hops == m.paths[e]
      nodes == PathNodes(g, m.bind[plan.elems[e].left], hops)
      elements == IF f.inner THEN [i \in 1..(Len(nodes) - 2) |-> NodeRow(g, nodes[i + 1])]
                  ELSE [i \in DOMAIN hops |-> g.rows[hops[i][1]]]
      holds(i) == Eval(f.pred, elements[i] @@ MatchRow(g, plan, m)) = TRUE
  IN  IF f.op = "all" THEN \A i \in DOMAIN elements : holds(i) ELSE \E i \in DOMAIN elements : holds(i)

Holds(g, plan, m, conjunct) ==
  IF conjunct.op \in {"all", "any"} THEN OverPath(g, plan, m, conjunct)
  ELSE Eval(conjunct, MatchRow(g, plan, m)) = TRUE

\* The where clause, each conjunct with its position.
Predicates(g, plan, where) ==
  [i \in DOMAIN where |-> [expr |-> where[i], pos |-> Scheduled(g, plan, where[i])]]

\* checkPreds.
Passes(g, plan, preds, m, pos) ==
  \A i \in DOMAIN preds : preds[i].pos = pos => Holds(g, plan, m, preds[i].expr)

------------------------------------------------------------------------------
(* Pruning by the nodes a pinned end can be reached from.                    *)

\* Hops out of a node: along out-edges, then against in-edges.
Neighbors(g, o, dir) ==
  LET out == EdgesAt(g.src, o)
      in == EdgesAt(g.dst, o)
  IN  (IF dir = "in" THEN << >> ELSE [i \in DOMAIN out |-> [hop |-> <<out[i], FALSE>>, to |-> g.dst[out[i]]]])
      \o (IF dir = "out" THEN << >> ELSE [i \in DOMAIN in |-> [hop |-> <<in[i], TRUE>>, to |-> g.src[in[i]]]])

\* detectFixedEndpoints: the string a property of a variable is compared with; the
\* last such conjunct counts.
PinnedAt(preds, pos) ==
  LET pins(e) == /\ e.op = "=="
                 /\ {e.left.op, e.right.op} = {"col", "lit"}
                 /\ ColAndConst(e).col \in StringColumns
      at == {i \in DOMAIN preds : preds[i].pos = pos /\ pins(preds[i].expr)}
  IN  IF at = {} THEN Empty ELSE ColAndConst(preds[Max(at)].expr).val

\* reachabilityToTarget: the distance to the target of every node that reaches it.
DistanceTo(g, target, dir, most) ==
  LET nearer(dist, o) == \E i \in DOMAIN Neighbors(g, o, dir) : Neighbors(g, o, dir)[i].to \in DOMAIN dist
      layer(dist, d) == dist @@ [o \in {x \in Ordinals(g) : nearer(dist, x)} |-> d]
  IN  FoldLeft(layer, target :> 0, [d \in 1..most |-> d])

NoPruning == << >>

\* A single step between two variables whose properties are both pinned to a string,
\* the end's the id of a node.
Pruning(g, plan, preds) ==
  LET end == PinnedAt(preds, 1)
      target == {o \in Ordinals(g) : g.ids[o] = <<"string", end>>}
  IN  IF Len(plan.steps) = 1 /\ ~plan.steps[1].toBound /\ PinnedAt(preds, 0) # Empty
         /\ end # Empty /\ target # {}
      THEN DistanceTo(g, Min(target), plan.steps[1].dir, plan.elems[1].spec.hi)
      ELSE NoPruning

\* Mutant of WithinReach: a node at the edge of the budget counts as out of reach.
WithinReach_OffByOne(dist, nx, depth, most) ==
  dist = NoPruning \/ (nx \in DOMAIN dist /\ depth + 1 + dist[nx] < most)

\* Can the target still be reached from nx, the node of hop depth + 1?
WithinReach(dist, nx, depth, most) ==
  dist = NoPruning \/ (nx \in DOMAIN dist /\ depth + 1 + dist[nx] <= most)

------------------------------------------------------------------------------
(* The walk.  Its state is the step it is in, how many hops deep and at which *)
(* node, and what the match has so far; used are the edges and seen the nodes *)
(* that cycle control keeps it from.                                         *)

Element(w, s) == w.plan.elems[w.plan.steps[s.step].elem].spec

\* A path walked from its right end is turned round.
AsWritten(st, hops) ==
  IF st.back THEN Reverse([i \in DOMAIN hops |-> <<hops[i][1], ~hops[i][2]>>]) ELSE hops

\* handoff: the walk has arrived.  What it becomes, if anything: the start of the
\* next step, or a whole match.
Handoff(w, s) ==
  LET st == w.plan.steps[s.step]
      bind == IF st.toBound THEN s.bind ELSE (st.to :> s.at) @@ s.bind
      paths == (st.elem :> AsWritten(st, s.hops)) @@ s.paths
      whole == s.step = Len(w.plan.steps)
  IN  IF \/ st.toBound /\ s.at # s.bind[st.to]
         \/ ~Passes(w.g, w.plan, w.preds, [bind |-> bind, paths |-> paths], s.step)
      THEN << >>
      ELSE <<[s EXCEPT !.bind = bind, !.paths = paths, !.hops = << >>, !.depth = 0, !.step = @ + 1,
                       !.at = IF whole THEN @ ELSE bind[w.plan.steps[s.step + 1].from]]>>

\* expand: cycle control and the reach of the target.  A node seen before may only
\* be where an element ends, never be passed through.
MayHop(w, s, n, ends) ==
  /\ w.cycles # "all" => n.hop[1] \notin s.used
  /\ WithinReach(w.reach, n.to, s.depth, Element(w, s).hi)
  /\ w.cycles = "none" /\ n.to \in s.seen => ends

RECURSIVE Walk(_, _)
\* The matches below a state, depth first: arrivals before longer paths.
Walk(w, s) ==
  IF s.step > Len(w.plan.steps) THEN <<[bind |-> s.bind, paths |-> s.paths]>>
  ELSE LET st == w.plan.steps[s.step]
           spec == Element(w, s)
           on == Neighbors(w.g, s.at, st.dir)
           ends(n) == st.toBound /\ n.to = s.bind[st.to] /\ s.depth + 1 >= spec.lo
           hopped(n) == [s EXCEPT !.depth = @ + 1, !.at = n.to, !.hops = Append(@, n.hop),
                                  !.used = @ \cup {n.hop[1]}, !.seen = @ \cup {n.to}]
           arrive(x) == LET y == Handoff(w, x) IN IF y = << >> THEN << >> ELSE Walk(w, y[1])
           hop(n) == IF ~MayHop(w, s, n, ends(n)) THEN << >>
                     ELSE IF w.cycles = "none" /\ n.to \in s.seen THEN arrive(hopped(n))
                     ELSE Walk(w, hopped(n))
       IN  (IF s.depth >= spec.lo THEN arrive(s) ELSE << >>)
           \o (IF s.depth = spec.hi THEN << >> ELSE FlattenSeq([i \in DOMAIN on |-> hop(on[i])]))

\* walkGraphMatch: from every node in turn.
WalkGraph(g, plan, preds, cycles) ==
  LET w == [g |-> g, plan |-> plan, preds |-> preds, cycles |-> cycles, reach |-> Pruning(g, plan, preds)]
      start(o) ==
        [step |-> 1, depth |-> 0, at |-> o, hops |-> << >>, used |-> {}, seen |-> {o},
         bind |-> <<o>>, paths |-> << >>]
  IN  FlattenSeq([o \in Ordinals(g) |->
        IF Passes(g, plan, preds, [bind |-> start(o).bind, paths |-> start(o).paths], 0)
        THEN Walk(w, start(o)) ELSE << >>])

------------------------------------------------------------------------------
(* What becomes of the matches.                                              *)

\* applyGraphMatchDistinctBFS: every node once, where the search first meets it.
\* The search from o finds, layer by layer, [at, hops].
Layers(g, o, dir, most) ==
  LET layer(found, d) ==
        LET edge == SelectSeq(found, LAMBDA x : Len(x.hops) = d - 1)
            onto == FlattenSeq([i \in DOMAIN edge |->
                      LET ns == Neighbors(g, edge[i].at, dir)
                      IN  [k \in DOMAIN ns |-> [at |-> ns[k].to, hops |-> Append(edge[i].hops, ns[k].hop)]]])
        IN  FoldLeft(LAMBDA all, x : IF \E i \in DOMAIN all : all[i].at = x.at THEN all ELSE Append(all, x),
                     found, onto)
  IN  FoldLeft(layer, <<[at |-> o, hops |-> << >>]>>, [d \in 1..most |-> d])

DistinctNodes(g, plan, preds) ==
  LET spec == plan.elems[1].spec
      match(o, x) == [bind |-> <<o, x.at>>, paths |-> <<x.hops>>]
      none(o) == [bind |-> <<o>>, paths |-> << >>]
      keeps(o, x) == Len(x.hops) >= spec.lo /\ Passes(g, plan, preds, match(o, x), 1)
      from(o) == LET found == SelectSeq(Layers(g, o, plan.steps[1].dir, spec.hi), LAMBDA x : keeps(o, x))
                 IN  [i \in DOMAIN found |-> match(o, found[i])]
  IN  FlattenSeq([o \in Ordinals(g) |-> IF Passes(g, plan, preds, none(o), 0) THEN from(o) ELSE << >>])

HopCount(m) == FoldLeft(LAMBDA n, hops : n + Len(hops), 0, m.paths)

\* The pair of nodes a path of the pattern runs between.
Ends(op, vars, m) ==
  LET name == Last(op.chains[1].nodes)
      last == IF name = "" THEN Len(vars) ELSE Max({v \in DOMAIN vars : vars[v] = name})
  IN  <<m.bind[1], m.bind[last]>>

\* applyGraphShortestPaths: of every pair the shortest matches, all of them or the
\* first, pairs in the order they are met.
Shortest(op, vars, found) ==
  LET better(bests, m) ==
        LET pair == Ends(op, vars, m)
            at == {i \in DOMAIN bests : bests[i].pair = pair}
            known == Min(at)
            new == [pair |-> pair, hops |-> HopCount(m), matches |-> <<m>>]
        IN  CASE at = {} -> Append(bests, new)
              [] at # {} /\ new.hops < bests[known].hops -> [bests EXCEPT ![known] = new]
              [] at # {} /\ new.hops = bests[known].hops /\ op.shortest = "all" ->
                   [bests EXCEPT ![known].matches = Append(@, m)]
              [] OTHER -> bests
  IN  FoldLeft(LAMBDA ms, b : ms \o b.matches, << >>, FoldLeft(better, << >>, found))

IsDistinct(op) == \E c \in DOMAIN op.chains : \E e \in DOMAIN op.chains[c].edges : op.chains[c].edges[e].distinct

CyclesOf(op) ==
  IF op.cycles # "" THEN op.cycles ELSE IF op.shortest = "" THEN "unique_edges" ELSE "none"

MatchesBy(g, op, plan, preds) ==
  CASE IsDistinct(op) -> DistinctNodes(g, plan, preds)
    [] op.shortest # "" -> Shortest(op, plan.vars, WalkGraph(g, plan, preds, CyclesOf(op)))
    [] OTHER -> WalkGraph(g, plan, preds, CyclesOf(op))

\* The matches of a graph-match or graph-shortest-paths, in order.
MatchesOf(g, op) == LET plan == PlanOf(op) IN MatchesBy(g, op, plan, Predicates(g, plan, op.where))

\* What the planner refuses: a pattern in several pieces, distinct in a longer pattern,
\* shortest paths without a variable length.
Matchable(op) ==
  LET plan == PlanOf(op)
  IN  /\ Connected(plan)
      /\ IsDistinct(op) => Len(plan.elems) = 1 /\ plan.elems[1].left # plan.elems[1].right
      /\ op.shortest # "" => Len(op.chains) = 1 /\ \E e \in DOMAIN plan.elems : plan.elems[e].spec.many

\* applyGraphMatch: a projection that names what the pattern does not bind fails.
MatchTable(g, op) ==
  LET plan == PlanOf(op)
      found == MatchesOf(g, op)
      known == UNION {NodeColumns(g, plan, v) : v \in DOMAIN plan.vars}
               \cup UNION {EdgeColumns(g, plan, e) : e \in DOMAIN plan.elems}
      reads == UNION {ColumnsOf(op.project[i].expr) : i \in DOMAIN op.project}
  IN  IF ~(reads \subseteq known) THEN Failed
      ELSE ApplyProject(Table(<< >>, [i \in DOMAIN found |-> MatchRow(g, plan, found[i])]), Project(op.project))

------------------------------------------------------------------------------
(* Any operator, on a table or on a graph.                                   *)

\* applyOperatorState.
ApplyToAny(t, op) ==
  LET part(key) ==
        BuildGraph([t EXCEPT !.rows = SelectSeq(t.rows, LAMBDA r : r[op.by] = key)],
                   [op EXCEPT !.nodes = [i \in DOMAIN op.nodes |->
                      [op.nodes[i] EXCEPT !.table.rows = SelectSeq(@, LAMBDA r : r[op.by] = key)]]])
      keys == FirstSeen([i \in DOMAIN t.rows |-> t.rows[i][op.by]]
                        \o FlattenSeq([i \in DOMAIN op.nodes |->
                             [k \in DOMAIN op.nodes[i].table.rows |-> op.nodes[i].table.rows[k][op.by]]]))
      empty == BuildGraph([t EXCEPT !.rows = << >>], [op EXCEPT !.nodes = [i \in DOMAIN op.nodes |->
                                                        [op.nodes[i] EXCEPT !.table.rows = << >>]]])
      result(g) == CHOOSE u \in RunAll(g, op.ops) : TRUE
      union(u, v) == Table(v.cols, u.rows \o v.rows)
      results == [i \in DOMAIN keys |-> result(part(keys[i]))]
  IN
  CASE op.op = "make-graph" /\ (IsGraph(t) \/ ~({op.source, op.target} \subseteq ToSet(t.cols))) -> {Failed}
    [] op.op = "make-graph" /\ op.by # "" ->
         IF keys = << >> THEN {result(empty)} ELSE {FoldLeft(union, Table(<< >>, << >>), results)}
    [] op.op = "make-graph" -> {BuildGraph(t, op)}
    [] op.op \in {"graph-to-table", "graph-match", "graph-mark-components"} /\ ~IsGraph(t) -> {Failed}
    [] op.op = "graph-to-table" -> {ToTable(t, op)}
    [] op.op = "graph-mark-components" -> {Marked(t, op)}
    [] op.op = "graph-match" -> {IF Matchable(op) THEN MatchTable(t, op) ELSE Failed}
    [] OTHER -> IF IsGraph(t) THEN {Failed} ELSE ApplyStep(t, op)

------------------------------------------------------------------------------
(* What a pattern means: walks of the graph for its elements, that agree on  *)
(* the variables they share.                                                 *)

\* The walks of n hops, with the nodes they go through.
WalksOf(g, dir, n) ==
  FoldLeft(LAMBDA W, i : UNION {{[hops |-> Append(w.hops, x.hop), via |-> Append(w.via, x.to)] :
                                    x \in ToSet(Neighbors(g, Last(w.via), dir))} : w \in W},
           {[hops |-> << >>, via |-> <<o>>] : o \in Ordinals(g)}, [i \in 1..n |-> i])

InnerNodes(f) == FlattenSeq([e \in DOMAIN f |-> SubSeq(f[e].via, 2, Len(f[e].via) - 1)])

\* No node twice: variables share a node only when hops of length zero link them.
VisitsOnce(p, bind, f) ==
  LET classes == FoldLeft(LAMBDA C, e : IF f[e].hops # << >> THEN C
                            ELSE LET both == {c \in C : {p.elems[e].left, p.elems[e].right} \cap c # {}}
                                 IN  (C \ both) \cup {UNION both},
                          {{v} : v \in DOMAIN bind}, [e \in DOMAIN f |-> e])
  IN  /\ Cardinality(classes) = Cardinality(ToSet(bind))
      /\ IsInjective(InnerNodes(f))
      /\ ToSet(InnerNodes(f)) \cap ToSet(bind) = {}

\* The matches a pattern of at least one element has.
MatchesDefined(g, op) ==
  LET p == PatternOf(op.chains)
      plan == PlanOf(op)
      walks == [e \in DOMAIN p.elems |->
                  UNION {WalksOf(g, p.elems[e].spec.dir, n) : n \in p.elems[e].spec.lo..p.elems[e].spec.hi}]
      choices == FoldLeft(LAMBDA F, e : {Append(f, w) : f \in F, w \in walks[e]}, {<< >>}, [e \in DOMAIN walks |-> e])
      ends(f, v) == {f[e].via[1] : e \in {x \in DOMAIN f : p.elems[x].left = v}}
                    \cup {Last(f[e].via) : e \in {x \in DOMAIN f : p.elems[x].right = v}}
      bound(f) == [v \in DOMAIN p.vars |-> CHOOSE o \in ends(f, v) : TRUE]
      agrees(f) == \A v \in DOMAIN p.vars : Cardinality(ends(f, v)) = 1
      edges(f) == FlattenSeq([e \in DOMAIN f |-> [i \in DOMAIN f[e].hops |-> f[e].hops[i][1]]])
      match(f) == [bind |-> bound(f), paths |-> [e \in DOMAIN f |-> f[e].hops]]
  IN  {match(f) : f \in {x \in choices :
         /\ agrees(x)
         /\ CyclesOf(op) # "all" => IsInjective(edges(x))
         /\ CyclesOf(op) = "none" => VisitsOnce(p, bound(x), x)
         /\ \A i \in DOMAIN op.where : Holds(g, plan, match(x), op.where[i])}}

\* A node at the end of a distinct element, by the fewest hops to it.
NearestDefined(g, op) ==
  LET spec == op.chains[1].edges[1]
      least(m) == \A n \in 0..(HopCount(m) - 1) : \A w \in WalksOf(g, spec.dir, n) : <<w.via[1], Last(w.via)>> # m.bind
  IN  {m \in MatchesDefined(g, [op EXCEPT !.cycles = "all"]) : least(m)}

\* Exactly the matches a pattern has, each once; of a pair's shortest or of a nearest
\* node's paths, one when one is asked for.
MatchesAsDefined(g, op) ==
  \E found \in {MatchesOf(g, op)}, vars \in {PatternOf(op.chains).vars},
     all \in {IF IsDistinct(op) THEN NearestDefined(g, op) ELSE MatchesDefined(g, op)} :
    LET ends(m) == Ends(op, vars, m)
        shortest(m) == m \in all /\ \A n \in all : ends(n) = ends(m) => HopCount(m) <= HopCount(n)
    IN  CASE IsDistinct(op) \/ op.shortest = "any" ->
               /\ \A m \in ToSet(found) : shortest(m)
               /\ {ends(m) : m \in ToSet(found)} = {ends(m) : m \in all}
               /\ \A i, j \in DOMAIN found : ends(found[i]) = ends(found[j]) => i = j
          [] op.shortest = "all" -> IsInjective(found) /\ ToSet(found) = {m \in all : shortest(m)}
          [] OTHER -> IsInjective(found) /\ ToSet(found) = all
==============================================================================
