----------------------------- MODULE PropertyGraph -----------------------------
(***************************************************************************)
(* The graph a pipeline carries between make-graph and the operator that   *)
(* makes a table of it again (graph.go, graph_index.go), and the marking   *)
(* of its components (graph_components.go).                                *)
(*                                                                         *)
(* A graph is a table of edges with, besides, its nodes.  ids[o] is the    *)
(* node with ordinal o, its type beside its value: 1 and "1" are two       *)
(* nodes.  nodeRows[o] is EdgeOnly for a node no node table lists.         *)
(***************************************************************************)
EXTENDS Tabular

MakeGraph(source, target, nodes) ==
  [op |-> "make-graph", source |-> source, target |-> target, nodes |-> nodes, by |-> "", ops |-> << >>]
MakeGraphPartitioned(source, target, nodes, by, ops) ==
  [op |-> "make-graph", source |-> source, target |-> target, nodes |-> nodes, by |-> by, ops |-> ops]
NodeTable(table, on) == [table |-> table, on |-> on]
GraphToTable(what) == [op |-> "graph-to-table", what |-> what]
MarkComponents(kind, name) == [op |-> "graph-mark-components", kind |-> kind, name |-> name]

\* A node known only from edges has no row.
EdgeOnly == << >>

IsGraph(t) == "ids" \in DOMAIN t

Ordinals(g) == DOMAIN g.ids

------------------------------------------------------------------------------
(* make-graph.                                                               *)

TypeOf(c) == IF c \in StringColumns THEN "string" ELSE "long"

\* derivedNodeIdType: two types of endpoint make it a string.
EndpointType(op) ==
  IF TypeOf(op.source) = TypeOf(op.target) THEN TypeOf(op.source) ELSE "string"

\* Does some node table's id disagree with the endpoints?  Then every id is
\* formatted as a string.
CoercesIds(op) == \E i \in DOMAIN op.nodes : TypeOf(op.nodes[i].on) # EndpointType(op)

\* identity, and its graphKey.
NodeId(op, c, cell) == <<IF CoercesIds(op) THEN "string" ELSE TypeOf(c), cell>>

FirstSeen(s) == FoldLeft(LAMBDA seen, x : IF x \in ToSet(seen) THEN seen ELSE Append(seen, x), << >>, s)

\* The row of a node: of every property the first value that is not null.
MergedNode(id, listed, cols) ==
  LET rows == SelectSeq(listed, LAMBDA n : n.id = id)
  IN  IF rows = << >> THEN EdgeOnly
      ELSE [c \in ToSet(cols) |->
              LET with == {i \in DOMAIN rows : c \in DOMAIN rows[i].row /\ rows[i].row[c] # Null}
              IN  IF with = {} THEN Null ELSE rows[Min(with)].row[c]]

\* buildGraph: an edge with a null end is dropped; nodes of node tables come first.
BuildGraph(t, op) ==
  LET edges == SelectSeq(t.rows, LAMBDA r : r[op.source] # Null /\ r[op.target] # Null)
      source(r) == NodeId(op, op.source, r[op.source])
      target(r) == NodeId(op, op.target, r[op.target])
      listed == FlattenSeq([i \in DOMAIN op.nodes |->
                  LET nt == op.nodes[i]
                      rows == SelectSeq(nt.table.rows, LAMBDA r : r[nt.on] # Null)
                  IN  [k \in DOMAIN rows |-> [id |-> NodeId(op, nt.on, rows[k][nt.on]), row |-> rows[k]]]])
      ids == FirstSeen([i \in DOMAIN listed |-> listed[i].id]
                       \o FlattenSeq([i \in DOMAIN edges |-> <<source(edges[i]), target(edges[i])>>]))
      cols == FirstSeen(FlattenSeq([i \in DOMAIN op.nodes |-> op.nodes[i].table.cols]))
      ord(id) == CHOOSE o \in DOMAIN ids : ids[o] = id
  IN  [cols |-> t.cols, rows |-> edges, ids |-> ids,
       src |-> [i \in DOMAIN edges |-> ord(source(edges[i]))],
       dst |-> [i \in DOMAIN edges |-> ord(target(edges[i]))],
       nodeCols |-> IF op.nodes = << >> THEN <<"NodeId">> ELSE cols,
       idCol |-> IF op.nodes = << >> THEN "NodeId" ELSE op.nodes[1].on,
       nodeRows |-> [o \in DOMAIN ids |->
                       IF op.nodes = << >> THEN [c \in {"NodeId"} |-> ids[o][2]]
                       ELSE MergedNode(ids[o], listed, cols)]]

\* nodeElemRow: a node known only from edges shows its id.
NodeRow(g, o) ==
  IF g.nodeRows[o] # EdgeOnly THEN g.nodeRows[o]
  ELSE [c \in ToSet(g.nodeCols) |-> IF c = g.idCol THEN g.ids[o][2] ELSE Null]

\* outEdges, inEdges: in the order of the edges.
EdgesAt(ends, o) == SelectSeq([e \in DOMAIN ends |-> e], LAMBDA e : ends[e] = o)

\* applyGraphToTable, one output without an alias.
ToTable(g, op) ==
  IF op.what = "edges" THEN Table(g.cols, g.rows)
  ELSE Table(g.nodeCols, [o \in Ordinals(g) |-> NodeRow(g, o)])

------------------------------------------------------------------------------
(* graph-mark-components.                                                    *)

\* Union-find over the edges: the smaller of two roots becomes the root.
WeakRoots(g) ==
  FoldLeft(LAMBDA root, e :
             LET a == root[g.src[e]]
                 b == root[g.dst[e]]
             IN  [o \in {x \in Ordinals(g) : root[x] \in {a, b}} |-> Min({a, b})] @@ root,
           [o \in Ordinals(g) |-> o], [e \in DOMAIN g.src |-> e])

\* Tarjan's search returns from the node on top of its call stack: the caller takes
\* its low mark, and a node that is the root of a component takes the component off
\* the stack.
Return(s) ==
  LET v == Last(s.call).v
      call == Front(s.call)
      at == CHOOSE i \in DOMAIN s.stack : s.stack[i] = v
      popped == IF s.low[v] = s.order[v] THEN {s.stack[i] : i \in at..Len(s.stack)} ELSE {}
  IN  [s EXCEPT !.call = call,
                !.low = IF call = << >> THEN s.low
                        ELSE (Last(call).v :> Min({s.low[v], s.low[Last(call).v]})) @@ s.low,
                !.comp = [o \in popped |-> v] @@ s.comp,
                !.stack = SelectSeq(s.stack, LAMBDA o : o \notin popped)]

\* It meets a node for the first time.
Enter(s, o) ==
  [s EXCEPT !.counter = @ + 1, !.order = (o :> s.counter) @@ @, !.low = (o :> s.counter) @@ @,
            !.stack = Append(@, o), !.call = Append(@, [v |-> o, next |-> 1])]

RECURSIVE Search(_, _)
\* The loop of strongComponents, from one root until its calls have returned.
Search(g, s) ==
  IF s.call = << >> THEN s
  ELSE LET f == Last(s.call)
           out == EdgesAt(g.src, f.v)
           w == g.dst[out[f.next]]
           advanced == [s EXCEPT !.call[Len(s.call)].next = f.next + 1]
           low == IF w \in ToSet(s.stack) THEN Min({s.low[f.v], s.order[w]}) ELSE s.low[f.v]
       IN  IF f.next > Len(out) THEN Search(g, Return(s))
           ELSE IF w \notin DOMAIN s.order THEN Search(g, Enter(advanced, w))
           ELSE Search(g, [advanced EXCEPT !.low = (f.v :> low) @@ @])

StrongRoots(g) ==
  LET none == << >>
      start == [counter |-> 1, order |-> none, low |-> none, comp |-> none, stack |-> none, call |-> none]
      from(s, root) == IF root \in DOMAIN s.order THEN s ELSE Search(g, Enter(s, root))
  IN  FoldLeft(from, start, [o \in Ordinals(g) |-> o]).comp

\* markComponents: components are numbered in the order of their first nodes, and
\* the number is a property of the node.
Marked(g, op) ==
  LET root == IF op.kind = "strong" THEN StrongRoots(g) ELSE WeakRoots(g)
      roots == FirstSeen([o \in Ordinals(g) |-> root[o]])
      number(o) == (CHOOSE i \in DOMAIN roots : roots[i] = root[o]) - 1
  IN  [g EXCEPT !.nodeCols = IF op.name \in ToSet(@) THEN @ ELSE Append(@, op.name),
                !.nodeRows = [o \in Ordinals(g) |-> (op.name :> number(o)) @@ NodeRow(g, o)]]

------------------------------------------------------------------------------
(* What a component is.                                                      *)

Reachable(g, o) ==
  LET Grow(R) == R \cup {g.dst[e] : e \in {x \in DOMAIN g.src : g.src[x] \in R}}
  IN  FoldLeft(LAMBDA R, i : Grow(R), {o}, [i \in Ordinals(g) |-> i])

\* Nodes each reachable from the other, or linked whatever the edges' directions.
Together(g, kind, a, b) ==
  LET both == [g EXCEPT !.src = @ \o g.dst, !.dst = @ \o g.src]
  IN  IF kind = "strong" THEN b \in Reachable(g, a) /\ a \in Reachable(g, b)
      ELSE b \in Reachable(both, a)

MarksComponents(g, op) ==
  LET mark(o) == Marked(g, op).nodeRows[o][op.name]
  IN  /\ \A a, b \in Ordinals(g) : (mark(a) = mark(b)) = Together(g, op.kind, a, b)
      /\ \A o \in Ordinals(g) : mark(o) \in {0} \cup {mark(p) + 1 : p \in 1..(o - 1)}
==============================================================================
