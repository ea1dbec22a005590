----------------------------- MODULE GraphModels -----------------------------
(***************************************************************************)
(* Persistent graph models and their snapshots (graph_model.go).           *)
(*                                                                         *)
(* Models, snapshots, the nodes and edges of snapshots, recorded failures  *)
(* and policies are rows of append-only system tables: the row with the    *)
(* latest CreatedAt counts, and a drop is a row that says Deleted.  A      *)
(* .make writes nodes, then edges, then the snapshot's row, each an extent *)
(* of its own, and a .drop several extents too.  All of these statements   *)
(* hold the scope lock shared, so they interleave; each one reads from the *)
(* catalog its refresh built, a listing of the directory that others may   *)
(* commit to while it is read.                                             *)
(*                                                                         *)
(* The data that a model's steps query is a set of facts; the graph of a   *)
(* model version is the pairs of the version and a fact, each pair both a  *)
(* node and an edge.  CreatedAt is read from a clock that never shows a    *)
(* time twice or runs backwards.  The GUIDs of a statement's version or    *)
(* snapshot are the statement itself, of which there is one.               *)
(***************************************************************************)
EXTENDS Naturals, FiniteSets

CONSTANTS
  Proc,        \* statements under way at once
  Model,       \* names of models
  Name,        \* names of snapshots
  Unnamed,     \* no snapshot is named
  Fact,        \* bound: what is ingested
  Workloads,   \* bound: the statements of a behaviour are those of one of these sets
  MaxFailures  \* bound: steps and appends that fail, processes that die

\* A statement; nr tells apart those that say the same.
Commands ==
  [do : {"create", "drop", "alter policy", "delete policy", "transient"}, model : Model, name : {Unnamed}, nr : Nat]
  \cup [do : {"make"}, model : Model, name : Name, nr : Nat]
  \cup [do : {"drop snapshot", "graph"}, model : Model, name : Name \cup {Unnamed}, nr : Nat]

ASSUME ConstantsOK ==
  /\ Unnamed \notin Name
  /\ \A W \in Workloads : W \subseteq Commands
  /\ MaxFailures \in Nat

VARIABLES
  disk,     \* the extents committed
  clock,
  todo,     \* statements that did not begin
  failed,   \* failures so far
  pc,
  cmd,      \* per process: the statement
  view,     \*   the extents in its catalog
  stamp,    \*   the CreatedAt it writes
  torn,     \*   ghost: whether others committed while it listed extents
  after,    \*   ghost: the statements that had ended when it began
  history   \* ghost: the statements that ended well

local == <<pc, cmd, view, stamp, torn, after>>
vars == <<disk, clock, todo, failed, local, history>>

Idle == [do |-> "", model |-> "", name |-> "", nr |-> 0]

\* What graph() gave: the nodes and edges it read, and where it had them from.
NoGraph == [nodes |-> {}, edges |-> {}, of |-> Idle, guid |-> Idle]

Extent(table, rows) == [table |-> table, rows |-> rows]

Rows(V, table) == UNION {x.rows : x \in {y \in V : y.table = table}}

\* Mutant of Newest: rows in the order of the extents, the first one counts.
Newest_Oldest(R) == {r \in R : \A s \in R : r.at <= s.at}

\* The row that counts.
Newest(R) == {r \in R : \A s \in R : s.at <= r.at}

Of(V, table, m) == {r \in Rows(V, table) : r.model = m}

\* latestGraphModel: the newest version, unless a tombstone is newer.
LatestModel(V, m) == {r \in Newest(Of(V, "models", m)) : ~r.deleted}

\* graphSnapshots: of every name the newest row, unless it is a tombstone.
Snapshots(V, m) ==
  {r \in Of(V, "snapshots", m) :
     ~r.deleted /\ r \in Newest({s \in Of(V, "snapshots", m) : s.name = r.name})}

\* graphModelPolicyValues, of one policy.
Policies(V, m) == {r \in Newest(Of(V, "policies", m)) : ~r.deleted}

\* buildGraphFromModelInto: the steps of version id over the data.
Build(V, id) == {<<id, r.fact>> : r \in Rows(V, "data")}

\* readGraphTable, for a SnapshotId.
Elements(V, table, guid) == {r.element : r \in {s \in Rows(V, table) : s.guid = guid}}

Init ==
  /\ disk = {}
  /\ clock = 0
  /\ todo \in Workloads
  /\ failed = 0
  /\ pc = [p \in Proc |-> "idle"]
  /\ cmd = [p \in Proc |-> Idle]
  /\ view = [p \in Proc |-> {}]
  /\ torn = [p \in Proc |-> FALSE]
  /\ stamp = [p \in Proc |-> 0]
  /\ after = [p \in Proc |-> {}]
  /\ history = {}

------------------------------------------------------------------------------
(* The life of a statement.                                                  *)

\* Others write what the models query.
Ingest(f) ==
  /\ f \notin {r.fact : r \in Rows(disk, "data")}
  /\ disk' = disk \cup {Extent("data", {[fact |-> f]})}
  /\ UNCHANGED <<clock, todo, failed, local, history>>

\* A statement begins, and with it the listing of its refresh.
Begin(p, c) ==
  /\ pc[p] = "idle"
  /\ c \in todo
  /\ todo' = todo \ {c}
  /\ pc' = [pc EXCEPT ![p] = "list"]
  /\ cmd' = [cmd EXCEPT ![p] = c]
  /\ view' = [view EXCEPT ![p] = disk]
  /\ after' = [after EXCEPT ![p] = {h.cmd : h \in history}]
  /\ UNCHANGED <<disk, clock, failed, torn, stamp, history>>

\* The listing ends: it has what there was when it began, and some of what was
\* committed since.
Listed(p) ==
  /\ pc[p] = "list"
  /\ \E seen \in SUBSET (disk \ view[p]) :
       /\ view' = [view EXCEPT ![p] = @ \cup seen]
       /\ torn' = [torn EXCEPT ![p] = seen # {}]
  /\ pc' = [pc EXCEPT ![p] = "run"]
  /\ UNCHANGED <<disk, clock, todo, failed, cmd, stamp, after, history>>

Runs(p, do) == pc[p] = "run" /\ cmd[p].do = do

Goto(p, place) ==
  /\ pc' = [pc EXCEPT ![p] = place]
  /\ UNCHANGED <<todo, failed, cmd, view, torn, after, history>>

\* time.Now.
Stamp(p) ==
  /\ clock' = clock + 1
  /\ stamp' = [stamp EXCEPT ![p] = clock + 1]

NoStamp == UNCHANGED <<clock, stamp>>

Forget(p) ==
  /\ pc' = [pc EXCEPT ![p] = "idle"]
  /\ cmd' = [cmd EXCEPT ![p] = Idle]
  /\ view' = [view EXCEPT ![p] = {}]
  /\ torn' = [torn EXCEPT ![p] = FALSE]
  /\ stamp' = [stamp EXCEPT ![p] = 0]
  /\ after' = [after EXCEPT ![p] = {}]
  /\ UNCHANGED <<clock, todo>>

\* A statement ends well, with the graph it read; the ghost remembers it.
End(p, graph) ==
  /\ history' = history \cup
       {[cmd |-> cmd[p], after |-> after[p], torn |-> torn[p] /\ graph # NoGraph, graph |-> graph]}
  /\ Forget(p)
  /\ UNCHANGED failed

\* appendGraphRows: one extent, none when there are no rows.
Append(table, R) == disk' = IF R = {} THEN disk ELSE disk \cup {Extent(table, R)}

\* An append fails, or the process dies: what was committed stays.
Abort(p) ==
  /\ pc[p] # "idle"
  /\ failed < MaxFailures
  /\ failed' = failed + 1
  /\ Forget(p)
  /\ UNCHANGED <<disk, history>>

Refuse(p) ==
  /\ Forget(p)
  /\ UNCHANGED <<disk, failed, history>>

------------------------------------------------------------------------------
(* The statements.                                                           *)

\* .create-or-alter graph_model.
CreateOrAlter(p) ==
  /\ Runs(p, "create")
  /\ Stamp(p)
  /\ Goto(p, "model")
  /\ UNCHANGED disk

AppendModel(p) ==
  /\ pc[p] = "model"
  /\ Append("models", {[model |-> cmd[p].model, id |-> cmd[p], deleted |-> FALSE, at |-> stamp[p]]})
  /\ End(p, NoGraph)

\* .make graph_snapshot: the model is there and the name is free; the model is built,
\* or its failure recorded.
MakeSnapshot(p) ==
  LET free == \A s \in Snapshots(view[p], cmd[p].model) : s.name # cmd[p].name
      ready == LatestModel(view[p], cmd[p].model) # {} /\ free
  IN  /\ Runs(p, "make")
      /\ \/ ready /\ Goto(p, "nodes") /\ NoStamp /\ UNCHANGED disk
         \/ ready /\ failed < MaxFailures /\ Goto(p, "failure") /\ NoStamp /\ UNCHANGED disk
         \/ ~ready /\ Refuse(p)

Built(p) == UNION {Build(view[p], v.id) : v \in LatestModel(view[p], cmd[p].model)}

\* writeGraphSnapshot, the nodes.
AppendNodes(p) ==
  /\ pc[p] = "nodes"
  /\ Append("nodes", {[guid |-> cmd[p], element |-> e] : e \in Built(p)})
  /\ Goto(p, "edges")
  /\ NoStamp

\* Mutant of AppendEdges: the step that adds edges runs in a catalog refreshed since.
AppendEdges_Refreshed(p) ==
  /\ pc[p] = "edges"
  /\ Append("edges", {[guid |-> cmd[p], element |-> e] :
                        e \in UNION {Build(disk, v.id) : v \in LatestModel(view[p], cmd[p].model)}})
  /\ Stamp(p)
  /\ Goto(p, "row")

\* writeGraphSnapshot, the edges; and the time of the snapshot.
AppendEdges(p) ==
  /\ pc[p] = "edges"
  /\ Append("edges", {[guid |-> cmd[p], element |-> e] : e \in Built(p)})
  /\ Stamp(p)
  /\ Goto(p, "row")

\* The row, that makes a snapshot of what was written.
AppendSnapshot(p) ==
  /\ pc[p] = "row"
  /\ Append("snapshots", {[model |-> cmd[p].model, name |-> cmd[p].name, of |-> v.id, guid |-> cmd[p],
                           deleted |-> FALSE, at |-> stamp[p]] : v \in LatestModel(view[p], cmd[p].model)})
  /\ End(p, NoGraph)

RecordFailure(p) ==
  /\ pc[p] = "failure"
  /\ Append("failures", {[model |-> cmd[p].model, name |-> cmd[p].name, guid |-> cmd[p]]})
  /\ failed' = failed + 1
  /\ Forget(p)
  /\ UNCHANGED history

\* .drop graph_model, .drop graph_snapshots, .drop graph_snapshot: what is to be dropped
\* must be there.
Drop(p) ==
  LET named == {s \in Snapshots(view[p], cmd[p].model) : s.name = cmd[p].name}
      there == IF cmd[p].name = Unnamed THEN LatestModel(view[p], cmd[p].model) # {} ELSE named # {}
  IN  /\ Runs(p, "drop") \/ Runs(p, "drop snapshot")
      /\ \/ there /\ Stamp(p) /\ Goto(p, "tombs") /\ UNCHANGED disk
         \/ ~there /\ Refuse(p)

\* Mutant of Tombs: a drop of the model leaves its snapshots.
Tombs_NamedOnly(p) ==
  {[s EXCEPT !.deleted = TRUE, !.at = stamp[p]] :
     s \in {x \in Snapshots(view[p], cmd[p].model) : cmd[p].name = x.name}}

\* dropGraphSnapshots.
Tombs(p) ==
  {[s EXCEPT !.deleted = TRUE, !.at = stamp[p]] :
     s \in {x \in Snapshots(view[p], cmd[p].model) : cmd[p].name \in {Unnamed, x.name}}}

AppendTombs(p) ==
  /\ pc[p] = "tombs"
  /\ Append("snapshots", Tombs(p))
  /\ \/ cmd[p].do = "drop" /\ Stamp(p) /\ Goto(p, "policies")
     \/ cmd[p].do # "drop" /\ End(p, NoGraph)

\* A drop of a model goes on with its policies, and then the model.
AppendPolicyTombs(p) ==
  /\ pc[p] = "policies"
  /\ Append("policies", {[model |-> cmd[p].model, by |-> cmd[p], deleted |-> TRUE, at |-> stamp[p]] :
                           r \in Policies(view[p], cmd[p].model)})
  /\ Goto(p, "tombstone")
  /\ NoStamp

AppendTombstone(p) ==
  /\ pc[p] = "tombstone"
  /\ Append("models", {[model |-> cmd[p].model, id |-> Idle, deleted |-> TRUE, at |-> stamp[p]]})
  /\ End(p, NoGraph)

\* .alter and .delete graph_model policy.
ChangePolicy(p) ==
  /\ Runs(p, "alter policy") \/ Runs(p, "delete policy")
  /\ \/ LatestModel(view[p], cmd[p].model) # {} /\ Stamp(p) /\ Goto(p, "policy") /\ UNCHANGED disk
     \/ LatestModel(view[p], cmd[p].model) = {} /\ Refuse(p)

AppendPolicy(p) ==
  /\ pc[p] = "policy"
  /\ Append("policies", {[model |-> cmd[p].model, by |-> cmd[p], deleted |-> cmd[p].do = "delete policy", at |-> stamp[p]]})
  /\ End(p, NoGraph)

\* loadGraphSnapshot.
Loaded(V, s) ==
  [nodes |-> Elements(V, "nodes", s.guid), edges |-> Elements(V, "edges", s.guid), of |-> s.of, guid |-> s.guid]

\* resolveGraphSource: a named snapshot, or the newest; without one, or when asked
\* for a transient graph, the latest version is built.
Graph(p) ==
  LET V == view[p]
      snaps == Snapshots(V, cmd[p].model)
      named == {s \in snaps : s.name = cmd[p].name}
      asked == IF cmd[p].do = "transient" THEN {}
               ELSE IF cmd[p].name = Unnamed THEN Newest(snaps) ELSE named
      built == {[nodes |-> Build(V, v.id), edges |-> Build(V, v.id), of |-> v.id, guid |-> Idle] :
                  v \in LatestModel(V, cmd[p].model)}
      given == IF asked # {} THEN {Loaded(V, s) : s \in asked}
               ELSE IF cmd[p].name = Unnamed THEN built ELSE {}
  IN  /\ Runs(p, "graph") \/ Runs(p, "transient")
      /\ \/ LatestModel(V, cmd[p].model) # {} /\ (\E g \in given : End(p, g)) /\ UNCHANGED disk
         \/ (LatestModel(V, cmd[p].model) = {} \/ given = {}) /\ Refuse(p)

Next ==
  \/ \E f \in Fact : Ingest(f)
  \/ \E p \in Proc :
       \/ \E c \in todo : Begin(p, c)
       \/ Listed(p) \/ CreateOrAlter(p) \/ AppendModel(p)
       \/ MakeSnapshot(p) \/ AppendNodes(p) \/ AppendEdges(p) \/ AppendSnapshot(p) \/ RecordFailure(p)
       \/ Drop(p) \/ AppendTombs(p) \/ AppendPolicyTombs(p) \/ AppendTombstone(p)
       \/ ChangePolicy(p) \/ AppendPolicy(p) \/ Graph(p) \/ Abort(p)

Spec == Init /\ [][Next]_vars

------------------------------------------------------------------------------
(* Properties.                                                               *)

\* a was over before d began, and d before r did.
Between(a, d, r) == a \in d.after /\ d.cmd \in r.after

\* The statement that made what a graph was read from: a snapshot, or a version.
Maker(g) == IF g.guid # Idle THEN g.guid ELSE g.of

\* docs/dev/history/kql_coverage.md: "snapshots are complete when made".  A graph has
\* every edge that belongs to its nodes and every node that belongs to its edges, of
\* one version and one moment of the data, wherever the .make that wrote it or others
\* died or failed.  A reader that was listing extents while others wrote may have a
\* part (writeGraphSnapshot, loadGraphSnapshot).
SnapshotWhole ==
  \A r \in history : ~r.torn =>
    /\ r.graph.nodes = r.graph.edges
    /\ \A e \in r.graph.nodes : e[1] = r.graph.of

\* The snapshot that statement c made was dropped since, or a later one of its name was.
DroppedSince(c) ==
  \E s, t \in Rows(disk, "snapshots") :
    s.guid = c /\ ~s.deleted /\ t.deleted /\ t.model = s.model /\ t.name = s.name /\ t.at > s.at

\* graph("M") is of the latest snapshot, and without one of the latest version: none
\* that was replaced, by a statement that was over before the reader began, unless
\* what replaced it was dropped before the reader ended (latestGraphModel,
\* resolveGraphSource).
LatestWins ==
  \A r, d \in history : r.graph # NoGraph /\ r.cmd.name = Unnamed /\ ~DroppedSince(d.cmd) =>
    ~(d.cmd.model = r.cmd.model /\ d.cmd.do = Maker(r.graph).do /\ Between(Maker(r.graph), d, r))

\* Whether statement d drops what statement c made.
Drops(d, c) ==
  /\ d.model = c.model
  /\ \/ d.do = "drop"
     \/ d.do = "drop snapshot" /\ c.do = "make" /\ d.name \in {Unnamed, c.name}

\* Nobody reads a snapshot or a version that was dropped, with its model or by itself,
\* after it was made and before the reader began; a model made again starts without
\* the policies it had (applyDropGraphModel, dropGraphSnapshots).
DropIsFinal ==
  /\ \A r, d \in history : r.graph # NoGraph =>
       ~(Drops(d.cmd, Maker(r.graph)) /\ Between(Maker(r.graph), d, r))
  /\ \A d \in history : d.cmd.do = "drop" =>
       \A r \in Policies(disk, d.cmd.model) : r.by \notin d.after
==============================================================================
