-------------------------- MODULE GraphModelsProofs --------------------------
(***************************************************************************)
(* SnapshotWhole, LatestWins and DropIsFinal for any number of statements, *)
(* models, names and facts, and any number of failures and deaths.         *)
(*                                                                         *)
(* The invariant follows the guid of a snapshot.  It is written by one     *)
(* statement only, first to its nodes, then to its edges, then to a row;   *)
(* until that row is there nobody reads it, and the nodes and the edges    *)
(* that are there by then are the one graph the statement built.  A        *)
(* catalog that was listed while nobody committed is the directory at one  *)
(* moment, and at every moment the snapshots in the directory are whole.   *)
(***************************************************************************)
EXTENDS GraphModels, WellFoundedInduction, TLAPS

SnapshotRow ==
  [model : Model, name : Name \cup {Unnamed}, of : Commands \cup {Idle}, guid : Commands,
   deleted : BOOLEAN, at : Nat]

ModelRow == [model : Model, id : Commands \cup {Idle}, deleted : BOOLEAN, at : Nat]

Places ==
  {"idle", "list", "run", "model", "nodes", "edges", "row", "failure", "tombs", "policies", "tombstone", "policy"}

TypeOK ==
  /\ clock \in Nat
  /\ todo \subseteq Commands
  /\ pc \in [Proc -> Places]
  /\ cmd \in [Proc -> Commands \cup {Idle}]
  /\ view \in [Proc -> SUBSET disk]
  /\ stamp \in [Proc -> Nat]
  /\ torn \in [Proc -> BOOLEAN]
  /\ Rows(disk, "snapshots") \subseteq SnapshotRow
  /\ Rows(disk, "models") \subseteq ModelRow

\* A statement is under way once, and not to be begun again.
OneStatement ==
  /\ \A p \in Proc : pc[p] # "idle" => cmd[p] \in Commands \ todo
  /\ \A p, q \in Proc : p # q /\ pc[p] # "idle" /\ pc[q] # "idle" => cmd[p] # cmd[q]

\* The graph of a snapshot: what belongs together, of one version.
WholeIn(V, guid, of) ==
  /\ Elements(V, "nodes", guid) = Elements(V, "edges", guid)
  /\ \A e \in Elements(V, "nodes", guid) : e[1] = of

Closed(V) == \A s \in Rows(V, "snapshots") : WholeIn(V, s.guid, s.of)

NotNamed(c) == \A s \in Rows(disk, "snapshots") : s.guid # c

Untouched(c) ==
  /\ NotNamed(c)
  /\ Elements(disk, "nodes", c) = {}
  /\ Elements(disk, "edges", c) = {}

\* How far a statement is with its snapshot.
Progress ==
  /\ \A c \in todo : Untouched(c)
  /\ \A p \in Proc :
       /\ pc[p] \in {"list", "run", "nodes"} => Untouched(cmd[p])
       /\ pc[p] = "edges" => /\ NotNamed(cmd[p])
                             /\ Elements(disk, "nodes", cmd[p]) = Built(p)
                             /\ Elements(disk, "edges", cmd[p]) = {}
       /\ pc[p] = "row" => /\ NotNamed(cmd[p])
                           /\ Elements(disk, "nodes", cmd[p]) = Built(p)
                           /\ Elements(disk, "edges", cmd[p]) = Built(p)

Views ==
  /\ Closed(disk)
  /\ \A p \in Proc : /\ pc[p] \in {"idle", "list"} => ~torn[p]
                     /\ ~torn[p] => Closed(view[p])

\* No two versions have the same time, so one of them is the newest.
Writing(p) == pc[p] \in {"model", "policies", "tombstone"}

Times ==
  /\ \A r \in Rows(disk, "models") : r.at <= clock
  /\ \A r, s \in Rows(disk, "models") : r.at = s.at => r = s
  /\ \A p \in Proc : Writing(p) => /\ stamp[p] <= clock
                                   /\ \A r \in Rows(disk, "models") : r.at # stamp[p]
  /\ \A p, q \in Proc : p # q /\ Writing(p) /\ Writing(q) => stamp[p] # stamp[q]

IInv == TypeOK /\ OneStatement /\ Progress /\ Views /\ Times /\ SnapshotWhole

------------------------------------------------------------------------------
(* What a step does to the directory.                                        *)

\* R is added to a table, and nothing else happens in the directory.
Added(table, R) ==
  /\ disk \subseteq disk'
  /\ \A t : Rows(disk', t) = IF t = table THEN Rows(disk, t) \cup R ELSE Rows(disk, t)

\* An extent's rows are in its table.
LEMMA ExtentAdded ==
  ASSUME NEW table, NEW R, disk' = disk \cup {Extent(table, R)}
  PROVE  Added(table, R)
<1>1. disk \subseteq disk'
  OBVIOUS
<1>2. ASSUME NEW t
      PROVE  Rows(disk', t) = IF t = table THEN Rows(disk, t) \cup R ELSE Rows(disk, t)
  <2>1. Extent(table, R).table = table /\ Extent(table, R).rows = R
    BY DEF Extent
  <2> QED
    BY <2>1 DEF Rows
<1> QED
  BY <1>1, <1>2 DEF Added

LEMMA AppendAdds ==
  ASSUME NEW table, NEW R, Append(table, R)
  PROVE  Added(table, R)
<1>1. CASE R = {}
  BY <1>1 DEF Append, Added
<1>2. CASE R # {}
  BY <1>2, ExtentAdded DEF Append
<1> QED
  BY <1>1, <1>2

LEMMA NothingAdded ==
  ASSUME UNCHANGED disk
  PROVE  Added("none", {})
BY DEF Added, Rows

\* A catalog that is part of another has part of its rows.
LEMMA RowsMonotone ==
  ASSUME NEW V, NEW W, V \subseteq W, NEW t
  PROVE  Rows(V, t) \subseteq Rows(W, t)
BY DEF Rows

LEMMA ElementsSame ==
  ASSUME NEW t, Rows(disk', t) = Rows(disk, t), NEW c
  PROVE  Elements(disk', t, c) = Elements(disk, t, c)
BY DEF Elements

\* The rows of elements that one .make writes.
ElementRows(c, S) == {[guid |-> c, element |-> e] : e \in S}

\* Elements of one guid are added to the graph of that guid, and to no other.
LEMMA ElementsAdded ==
  ASSUME NEW t, NEW c, NEW S, Added(t, ElementRows(c, S)), NEW d
  PROVE  Elements(disk', t, d) = IF d = c THEN Elements(disk, t, d) \cup S ELSE Elements(disk, t, d)
<1> DEFINE R == ElementRows(c, S)
<1>1. Rows(disk', t) = Rows(disk, t) \cup R
  BY DEF Added
<1>2. \A r \in R : r.guid = c /\ r.element \in S
  BY DEF ElementRows
<1>3. ASSUME NEW e \in S
      PROVE  \E r \in R : r.guid = c /\ r.element = e
  <2>1. [guid |-> c, element |-> e] \in R
    BY DEF ElementRows
  <2> QED
    BY <2>1
<1> HIDE DEF R
<1>4. CASE d = c
  BY <1>1, <1>2, <1>3, <1>4 DEF Elements
<1>5. CASE d # c
  BY <1>1, <1>2, <1>5 DEF Elements
<1> QED
  BY <1>4, <1>5

------------------------------------------------------------------------------
(* What a step does to the processes.                                        *)

\* No process other than p moves.
OthersRest(p) ==
  \A q \in Proc \ {p} : /\ pc'[q] = pc[q] /\ cmd'[q] = cmd[q] /\ view'[q] = view[q]
                        /\ stamp'[q] = stamp[q] /\ torn'[q] = torn[q]

\* p goes on, in its catalog.
GoesTo(p, place) ==
  /\ OthersRest(p)
  /\ pc'[p] = place /\ cmd'[p] = cmd[p] /\ view'[p] = view[p] /\ torn'[p] = torn[p]
  /\ todo' = todo
  /\ history' = history

Ends(p) ==
  /\ OthersRest(p)
  /\ pc'[p] = "idle" /\ cmd'[p] = Idle /\ view'[p] = {} /\ torn'[p] = FALSE /\ stamp'[p] = 0
  /\ todo' = todo
  /\ clock' = clock

LocalTypeOK ==
  /\ clock \in Nat
  /\ pc \in [Proc -> Places]
  /\ cmd \in [Proc -> Commands \cup {Idle}]
  /\ view \in [Proc -> SUBSET disk]
  /\ stamp \in [Proc -> Nat]
  /\ torn \in [Proc -> BOOLEAN]

LEMMA GotoMoves ==
  ASSUME TypeOK, NEW p \in Proc, NEW place \in Places, Goto(p, place), Stamp(p) \/ NoStamp,
         disk \subseteq disk'
  PROVE  GoesTo(p, place) /\ LocalTypeOK'
<1>1. stamp' \in [Proc -> Nat] /\ clock' \in Nat /\ \A q \in Proc \ {p} : stamp'[q] = stamp[q]
  BY DEF TypeOK, Stamp, NoStamp
<1>2. pc' \in [Proc -> Places] /\ pc'[p] = place /\ \A q \in Proc \ {p} : pc'[q] = pc[q]
  BY DEF TypeOK, Goto
<1>3. view' \in [Proc -> SUBSET disk']
  BY DEF TypeOK, Goto
<1>4. UNCHANGED <<todo, cmd, view, torn, history>>
  BY DEF Goto
<1> QED
  BY <1>1, <1>2, <1>3, <1>4 DEF TypeOK, LocalTypeOK, GoesTo, OthersRest

LEMMA ForgetMoves ==
  ASSUME TypeOK, NEW p \in Proc, Forget(p), disk \subseteq disk'
  PROVE  Ends(p) /\ LocalTypeOK'
<1> "idle" \in Places
  BY DEF Places
<1>1. pc' \in [Proc -> Places] /\ pc'[p] = "idle" /\ \A q \in Proc \ {p} : pc'[q] = pc[q]
  <2>1. pc \in [Proc -> Places]
    BY DEF TypeOK
  <2>2. pc' = [pc EXCEPT ![p] = "idle"]
    BY DEF Forget
  <2> QED
    BY <2>1, <2>2
<1>2. cmd' \in [Proc -> Commands \cup {Idle}] /\ cmd'[p] = Idle /\ \A q \in Proc \ {p} : cmd'[q] = cmd[q]
  <2>1. cmd \in [Proc -> Commands \cup {Idle}]
    BY DEF TypeOK
  <2>2. cmd' = [cmd EXCEPT ![p] = Idle]
    BY DEF Forget
  <2> QED
    BY <2>1, <2>2
<1>3. view' \in [Proc -> SUBSET disk'] /\ view'[p] = {} /\ \A q \in Proc \ {p} : view'[q] = view[q]
  <2>1. view \in [Proc -> SUBSET disk]
    BY DEF TypeOK
  <2>2. view' = [view EXCEPT ![p] = {}]
    BY DEF Forget
  <2> QED
    BY <2>1, <2>2
<1>4. stamp' \in [Proc -> Nat] /\ stamp'[p] = 0 /\ \A q \in Proc \ {p} : stamp'[q] = stamp[q]
  <2>1. stamp \in [Proc -> Nat]
    BY DEF TypeOK
  <2>2. stamp' = [stamp EXCEPT ![p] = 0]
    BY DEF Forget
  <2> QED
    BY <2>1, <2>2
<1>5. torn' \in [Proc -> BOOLEAN] /\ torn'[p] = FALSE /\ \A q \in Proc \ {p} : torn'[q] = torn[q]
  <2>1. torn \in [Proc -> BOOLEAN]
    BY DEF TypeOK
  <2>2. torn' = [torn EXCEPT ![p] = FALSE]
    BY DEF Forget
  <2> QED
    BY <2>1, <2>2
<1>6. UNCHANGED <<clock, todo>>
  BY DEF Forget
<1> QED
  BY <1>1, <1>2, <1>3, <1>4, <1>5, <1>6 DEF TypeOK, LocalTypeOK, Ends, OthersRest

------------------------------------------------------------------------------
(* The parts of the invariant, one at a time.                                *)

LEMMA OneStatementKept ==
  ASSUME OneStatement, NEW p \in Proc, OthersRest(p), todo' \subseteq todo, todo \subseteq Commands,
         \/ pc'[p] = "idle"
         \/ pc[p] # "idle" /\ cmd'[p] = cmd[p]
         \/ cmd'[p] \in todo \ todo'
  PROVE  OneStatement'
<1>1. ASSUME NEW q \in Proc, pc'[q] # "idle"
      PROVE  cmd'[q] \in Commands \ todo'
  BY <1>1 DEF OneStatement, OthersRest
<1>2. ASSUME NEW q \in Proc, q # p, pc'[p] # "idle", pc'[q] # "idle"
      PROVE  cmd'[p] # cmd'[q]
  BY <1>2 DEF OneStatement, OthersRest
<1>3. ASSUME NEW q \in Proc, NEW r \in Proc, q # r, pc'[q] # "idle", pc'[r] # "idle"
      PROVE  cmd'[q] # cmd'[r]
  BY <1>2, <1>3 DEF OneStatement, OthersRest
<1> QED
  BY <1>1, <1>3 DEF OneStatement

\* A process that rests has the graph it built.
LEMMA BuiltSame ==
  ASSUME NEW p, view'[p] = view[p], cmd'[p] = cmd[p]
  PROVE  Built(p)' = Built(p)
BY DEF Built, LatestModel, Build, Of, Newest, Rows

\* The tables of snapshots do not change.
SameGraphs ==
  \A t \in {"nodes", "edges", "snapshots"} : Rows(disk', t) = Rows(disk, t)

LEMMA UntouchedSame ==
  ASSUME SameGraphs, NEW c, Untouched(c)
  PROVE  /\ NotNamed(c)'
         /\ Elements(disk', "nodes", c) = {}
         /\ Elements(disk', "edges", c) = {}
BY ElementsSame DEF SameGraphs, Untouched, NotNamed

LEMMA ProgressKept ==
  ASSUME Progress, NEW p \in Proc, OthersRest(p), SameGraphs, todo' \subseteq todo,
         pc'[p] \notin {"edges", "row"},
         pc'[p] \in {"list", "run", "nodes"} =>
            cmd'[p] \in todo \/ (pc[p] \in {"list", "run", "nodes"} /\ cmd'[p] = cmd[p])
  PROVE  Progress'
<1>1. \A c : Untouched(c) => /\ NotNamed(c)'
                             /\ Elements(disk', "nodes", c) = {}
                             /\ Elements(disk', "edges", c) = {}
  BY UntouchedSame
<1>2. ASSUME NEW c \in todo'
      PROVE  Untouched(c)'
  BY <1>1, <1>2 DEF Progress, Untouched
<1>3. ASSUME NEW q \in Proc, pc'[q] \in {"list", "run", "nodes"}
      PROVE  Untouched(cmd[q])'
  <2>1. Untouched(cmd'[q])
    BY <1>3 DEF Progress, OthersRest
  <2> QED
    BY <1>1, <2>1 DEF Untouched, NotNamed
<1>4. ASSUME NEW q \in Proc, pc'[q] \in {"edges", "row"}
      PROVE  /\ q # p /\ pc'[q] = pc[q] /\ cmd'[q] = cmd[q]
             /\ NotNamed(cmd[q])'
             /\ Built(q)' = Built(q)
             /\ Elements(disk', "nodes", cmd[q]) = Elements(disk, "nodes", cmd[q])
             /\ Elements(disk', "edges", cmd[q]) = Elements(disk, "edges", cmd[q])
  <2>1. q # p /\ pc'[q] = pc[q] /\ cmd'[q] = cmd[q] /\ view'[q] = view[q]
    BY <1>4 DEF OthersRest
  <2>2. NotNamed(cmd[q])'
    BY <1>4, <2>1 DEF Progress, NotNamed, SameGraphs
  <2> QED
    BY <2>1, <2>2, BuiltSame, ElementsSame DEF SameGraphs
<1> QED
  BY <1>2, <1>3, <1>4 DEF Progress

LEMMA ClosedSame ==
  ASSUME Closed(disk), SameGraphs
  PROVE  Closed(disk)'
BY ElementsSame DEF Closed, WholeIn, SameGraphs

LEMMA ViewsKept ==
  ASSUME Views, Closed(disk)', NEW p \in Proc, OthersRest(p),
         pc'[p] \in {"idle", "list"} => ~torn'[p],
         ~torn'[p] => Closed(view'[p])
  PROVE  Views'
BY DEF Views, OthersRest, Closed, WholeIn

\* The table of models does not change; p took a new time, or writes no model that
\* it did not write before.
LEMMA TimesKept ==
  ASSUME Times, TypeOK, NEW p \in Proc, OthersRest(p), Rows(disk', "models") = Rows(disk, "models"),
         \/ clock' = clock + 1 /\ stamp'[p] = clock + 1
         \/ clock' = clock /\ stamp'[p] = stamp[p] /\ (Writing(p)' => Writing(p))
         \/ clock' = clock /\ ~Writing(p)'
  PROVE  Times'
<1> DEFINE M == Rows(disk, "models")
<1>1. \A r \in M : r.at \in Nat
  BY DEF TypeOK, ModelRow
<1>2. clock \in Nat /\ \A q \in Proc : stamp[q] \in Nat
  BY DEF TypeOK
<1>3. \A q \in Proc : q # p => (Writing(q)' <=> Writing(q)) /\ stamp'[q] = stamp[q]
  BY DEF Writing, OthersRest
<1>4. /\ \A r \in M : r.at <= clock
      /\ \A r, t \in M : r.at = t.at => r = t
      /\ \A q \in Proc : Writing(q) => stamp[q] <= clock /\ \A r \in M : r.at # stamp[q]
      /\ \A q, t \in Proc : q # t /\ Writing(q) /\ Writing(t) => stamp[q] # stamp[t]
  BY DEF Times
<1> HIDE DEF M
<1>5. /\ \A r \in M : r.at <= clock'
      /\ \A q \in Proc : Writing(q)' => stamp'[q] <= clock' /\ \A r \in M : r.at # stamp'[q]
      /\ \A q, t \in Proc : q # t /\ Writing(q)' /\ Writing(t)' => stamp'[q] # stamp'[t]
  <2>1. CASE clock' = clock + 1 /\ stamp'[p] = clock + 1
    BY <1>1, <1>2, <1>3, <1>4, <2>1
  <2>2. CASE clock' = clock /\ stamp'[p] = stamp[p] /\ (Writing(p)' => Writing(p))
    BY <1>1, <1>2, <1>3, <1>4, <2>2
  <2>3. CASE clock' = clock /\ ~Writing(p)'
    BY <1>1, <1>2, <1>3, <1>4, <2>3
  <2> QED
    BY <2>1, <2>2, <2>3
<1> QED
  BY <1>4, <1>5 DEF Times, M

\* p writes a row with its time, and its statement ends.
LEMMA TimesAppended ==
  ASSUME Times, TypeOK, NEW p \in Proc, Ends(p), Writing(p),
         NEW r, r.at = stamp[p], Rows(disk', "models") = Rows(disk, "models") \cup {r}
  PROVE  Times'
<1> DEFINE M == Rows(disk, "models")
<1>1. \A q \in Proc : q # p => (Writing(q)' <=> Writing(q)) /\ stamp'[q] = stamp[q]
  BY DEF Writing, Ends, OthersRest
<1>2. clock' = clock /\ ~Writing(p)'
  BY DEF Writing, Ends
<1>3. /\ \A m \in M : m.at <= clock
      /\ \A m, t \in M : m.at = t.at => m = t
      /\ \A q \in Proc : Writing(q) => stamp[q] <= clock /\ \A m \in M : m.at # stamp[q]
      /\ \A q, t \in Proc : q # t /\ Writing(q) /\ Writing(t) => stamp[q] # stamp[t]
  BY DEF Times
<1>4. Rows(disk', "models") = M \cup {r}
  OBVIOUS
<1> HIDE DEF M
<1> QED
  BY <1>1, <1>2, <1>3, <1>4 DEF Times

LEMMA TypeOKKept ==
  ASSUME TypeOK, LocalTypeOK', todo' \subseteq todo, NEW table, NEW R, Added(table, R),
         table = "snapshots" => R \subseteq SnapshotRow,
         table = "models" => R \subseteq ModelRow
  PROVE  TypeOK'
BY DEF TypeOK, LocalTypeOK, Added

------------------------------------------------------------------------------
(* Steps that do not touch the tables of snapshots.                          *)

LEMMA QuietGoto ==
  ASSUME IInv, NEW p \in Proc, pc[p] # "idle",
         NEW place \in Places \ {"idle", "list", "run", "edges", "row"}, Goto(p, place),
         place = "nodes" => pc[p] = "run",
         Stamp(p) \/ (NoStamp /\ (place \in {"model", "policies", "tombstone"} => Writing(p))),
         NEW table, table \notin {"nodes", "edges", "snapshots", "models"}, NEW R, Added(table, R)
  PROVE  IInv'
<1> USE DEF IInv
<1>1. GoesTo(p, place) /\ LocalTypeOK'
  BY GotoMoves DEF Added
<1>2. SameGraphs /\ Rows(disk', "models") = Rows(disk, "models")
  BY DEF SameGraphs, Added
<1>3. TypeOK'
  BY <1>1, TypeOKKept DEF GoesTo
<1>4. OneStatement'
  BY <1>1, OneStatementKept DEF GoesTo, TypeOK
<1>5. Progress'
  <2>1. OthersRest(p) /\ todo' = todo /\ pc'[p] = place /\ cmd'[p] = cmd[p]
    BY <1>1 DEF GoesTo
  <2>2. pc'[p] \notin {"edges", "row"}
    BY <2>1
  <2>3. pc'[p] \in {"list", "run", "nodes"} => pc[p] \in {"list", "run", "nodes"}
    BY <2>1
  <2> QED
    BY <1>2, <2>1, <2>2, <2>3, ProgressKept
<1>6. Views'
  BY <1>1, <1>2, ClosedSame, ViewsKept DEF GoesTo, Views
<1>7. Times'
  <2>1. Writing(p)' <=> place \in {"model", "policies", "tombstone"}
    BY <1>1 DEF GoesTo, Writing
  <2>2. stamp \in [Proc -> Nat]
    BY DEF TypeOK
  <2>3. CASE Stamp(p)
    BY <1>1, <1>2, <2>2, <2>3, TimesKept DEF GoesTo, Stamp
  <2>4. CASE NoStamp /\ (place \in {"model", "policies", "tombstone"} => Writing(p))
    BY <1>1, <1>2, <2>1, <2>4, TimesKept DEF GoesTo, NoStamp
  <2> QED
    BY <2>3, <2>4
<1>8. SnapshotWhole'
  BY <1>1 DEF GoesTo, SnapshotWhole
<1> QED
  BY <1>3, <1>4, <1>5, <1>6, <1>7, <1>8

LEMMA QuietEnd ==
  ASSUME IInv, NEW p \in Proc, Forget(p), SnapshotWhole',
         NEW table, table \notin {"nodes", "edges", "snapshots"}, NEW R, Added(table, R),
         table = "models" => R \subseteq ModelRow /\ Writing(p) /\ \E r : R = {r} /\ r.at = stamp[p]
  PROVE  IInv'
<1> USE DEF IInv
<1>1. Ends(p) /\ LocalTypeOK'
  BY ForgetMoves DEF Added
<1>2. SameGraphs
  BY DEF SameGraphs, Added
<1>3. TypeOK'
  BY <1>1, TypeOKKept DEF Ends
<1>4. OneStatement'
  BY <1>1, OneStatementKept DEF Ends, TypeOK
<1>5. Progress'
  BY <1>1, <1>2, ProgressKept DEF Ends
<1>6. Views'
  BY <1>1, <1>2, ClosedSame, ViewsKept DEF Ends, Views, Closed, Rows
<1>7. Times'
  <2>1. CASE table = "models"
    BY <1>1, <2>1, TimesAppended DEF Added
  <2>2. CASE table # "models"
    <3>1. Rows(disk', "models") = Rows(disk, "models") /\ ~Writing(p)'
      BY <1>1, <2>2 DEF Added, Ends, Writing
    <3> QED
      BY <1>1, <3>1, TimesKept DEF Ends
  <2> QED
    BY <2>1, <2>2
<1> QED
  BY <1>3, <1>4, <1>5, <1>6, <1>7

\* No process moves.
LEMMA QuietIngest ==
  ASSUME IInv, UNCHANGED <<todo, clock, local, history>>,
         NEW table, table \notin {"nodes", "edges", "snapshots", "models"}, NEW R, Added(table, R)
  PROVE  IInv'
<1> USE DEF IInv
<1>1. SameGraphs /\ Rows(disk', "models") = Rows(disk, "models") /\ disk \subseteq disk'
  BY DEF SameGraphs, Added
<1>2. UNCHANGED <<todo, clock, pc, cmd, view, stamp, torn, history>>
  BY DEF local
<1>3. TypeOK'
  BY <1>1, <1>2 DEF TypeOK, SameGraphs
<1>4. OneStatement'
  BY <1>2 DEF OneStatement
<1>5. Progress'
  <2>1. \A c : Elements(disk', "nodes", c) = Elements(disk, "nodes", c)
               /\ Elements(disk', "edges", c) = Elements(disk, "edges", c)
               /\ (NotNamed(c)' <=> NotNamed(c))
    BY <1>1, ElementsSame DEF SameGraphs, NotNamed
  <2>2. \A p \in Proc : Built(p)' = Built(p)
    BY <1>2, BuiltSame
  <2> QED
    BY <1>2, <2>1, <2>2 DEF Progress, Untouched
<1>6. Views'
  BY <1>1, <1>2, ClosedSame DEF Views, Closed, WholeIn
<1>7. Times'
  BY <1>1, <1>2 DEF Times, Writing
<1>8. SnapshotWhole'
  BY <1>2 DEF SnapshotWhole
<1> QED
  BY <1>3, <1>4, <1>5, <1>6, <1>7, <1>8

LEMMA BeginKeeps ==
  ASSUME IInv, NEW p \in Proc, NEW c \in todo, Begin(p, c)
  PROVE  IInv'
<1> USE DEF IInv
<1>1. /\ pc[p] = "idle" /\ todo' = todo \ {c} /\ UNCHANGED <<disk, clock, torn, stamp, history>>
      /\ SameGraphs /\ Rows(disk', "models") = Rows(disk, "models")
  BY DEF Begin, SameGraphs
<1>2. /\ pc' \in [Proc -> Places] /\ pc'[p] = "list"
      /\ \A q \in Proc \ {p} : pc'[q] = pc[q]
  BY DEF Begin, TypeOK, Places
<1>3. /\ cmd' \in [Proc -> Commands \cup {Idle}] /\ cmd'[p] = c
      /\ \A q \in Proc \ {p} : cmd'[q] = cmd[q]
  BY DEF Begin, TypeOK
<1>4. /\ view' \in [Proc -> SUBSET disk'] /\ view'[p] = disk
      /\ \A q \in Proc \ {p} : view'[q] = view[q]
  BY DEF Begin, TypeOK
<1>5. OthersRest(p)
  BY <1>1, <1>2, <1>3, <1>4 DEF OthersRest
<1>6. TypeOK'
  BY <1>1, <1>2, <1>3, <1>4 DEF TypeOK
<1>7. OneStatement'
  BY <1>1, <1>3, <1>5, OneStatementKept DEF TypeOK
<1>8. Progress'
  BY <1>1, <1>2, <1>3, <1>5, ProgressKept
<1>9. Views'
  <2>1. ~torn'[p] /\ Closed(disk)
    BY <1>1 DEF Views
  <2>2. Closed(disk)'
    BY <1>1, <2>1, ClosedSame
  <2> QED
    BY <1>4, <1>5, <2>1, <2>2, ViewsKept
<1>10. Times'
  BY <1>1, <1>2, <1>5, TimesKept DEF Writing
<1>11. SnapshotWhole'
  BY <1>1 DEF SnapshotWhole
<1> QED
  BY <1>6, <1>7, <1>8, <1>9, <1>10, <1>11

LEMMA ListedKeeps ==
  ASSUME IInv, NEW p \in Proc, Listed(p)
  PROVE  IInv'
<1> USE DEF IInv
<1> PICK seen \in SUBSET (disk \ view[p]) :
      view' = [view EXCEPT ![p] = @ \cup seen] /\ torn' = [torn EXCEPT ![p] = seen # {}]
  BY DEF Listed
<1>1. /\ pc[p] = "list" /\ UNCHANGED <<disk, clock, todo, cmd, stamp, history>>
      /\ SameGraphs /\ Rows(disk', "models") = Rows(disk, "models")
  BY DEF Listed, SameGraphs
<1>2. /\ pc' \in [Proc -> Places] /\ pc'[p] = "run"
      /\ \A q \in Proc \ {p} : pc'[q] = pc[q]
  BY DEF Listed, TypeOK, Places
<1>3. /\ view' \in [Proc -> SUBSET disk'] /\ view'[p] = view[p] \cup seen
      /\ \A q \in Proc \ {p} : view'[q] = view[q]
  BY <1>1 DEF TypeOK
<1>4. /\ torn' \in [Proc -> BOOLEAN] /\ (torn'[p] <=> seen # {})
      /\ \A q \in Proc \ {p} : torn'[q] = torn[q]
  BY DEF TypeOK
<1>5. OthersRest(p) /\ cmd'[p] = cmd[p]
  BY <1>1, <1>2, <1>3, <1>4 DEF OthersRest
<1>6. TypeOK'
  BY <1>1, <1>2, <1>3, <1>4 DEF TypeOK
<1>7. OneStatement'
  BY <1>1, <1>5, OneStatementKept DEF TypeOK
<1>8. Progress'
  BY <1>1, <1>2, <1>5, ProgressKept
<1>9. Views'
  <2>1. Closed(disk)'
    BY <1>1, ClosedSame DEF Views
  <2>2. ~torn'[p] => view'[p] = view[p]
    BY <1>3, <1>4
  <2>3. Closed(view[p])
    BY <1>1 DEF Views
  <2> QED
    BY <1>2, <1>5, <2>1, <2>2, <2>3, ViewsKept
<1>10. Times'
  BY <1>1, <1>2, <1>5, TimesKept DEF Writing
<1>11. SnapshotWhole'
  BY <1>1 DEF SnapshotWhole
<1> QED
  BY <1>6, <1>7, <1>8, <1>9, <1>10, <1>11

------------------------------------------------------------------------------
(* The steps of a .make, and the tombstones of snapshots.                    *)

\* The statement of a process that runs is nobody else's.
LEMMA OwnStatement ==
  ASSUME OneStatement, NEW p \in Proc, pc[p] # "idle"
  PROVE  /\ cmd[p] \in Commands
         /\ cmd[p] \notin todo
         /\ \A q \in Proc : q # p /\ pc[q] # "idle" => cmd[q] # cmd[p]
BY DEF OneStatement

\* There is one latest version of a model, and a graph built now is of that version.
LEMMA OneLatestModel ==
  ASSUME TypeOK, Times, NEW V \in SUBSET disk, NEW m,
         NEW v \in LatestModel(V, m), NEW w \in LatestModel(V, m)
  PROVE  v = w
<1>1. v \in Rows(disk, "models") /\ w \in Rows(disk, "models")
  BY RowsMonotone DEF LatestModel, Newest, Of
<1>2. v.at <= w.at /\ w.at <= v.at
  BY DEF LatestModel, Newest
<1>3. v.at \in Nat /\ w.at \in Nat
  BY <1>1 DEF TypeOK, ModelRow
<1> QED
  BY <1>1, <1>2, <1>3 DEF Times

LEMMA BuiltOfVersion ==
  ASSUME TypeOK, Times, NEW p \in Proc, NEW v \in LatestModel(view[p], cmd[p].model), NEW e \in Built(p)
  PROVE  e[1] = v.id
<1>1. PICK w \in LatestModel(view[p], cmd[p].model) : e \in Build(view[p], w.id)
  BY DEF Built
<1>2. e[1] = w.id
  BY <1>1 DEF Build
<1>3. view[p] \in SUBSET disk
  BY DEF TypeOK
<1> QED
  BY <1>2, <1>3, OneLatestModel

\* p writes to the graph of its own guid, that no row names yet.
LEMMA GraphGrows ==
  ASSUME IInv, NEW p \in Proc, pc[p] \in {"nodes", "edges"},
         NEW t \in {"nodes", "edges"}, NEW S, Added(t, ElementRows(cmd[p], S))
  PROVE  /\ Closed(disk)'
         /\ \A c : NotNamed(c) => NotNamed(c)'
         /\ \A u \in {"nodes", "edges"} : \A c : u # t \/ c # cmd[p] => Elements(disk', u, c) = Elements(disk, u, c)
         /\ Elements(disk', t, cmd[p]) = Elements(disk, t, cmd[p]) \cup S
<1>1. Rows(disk', "snapshots") = Rows(disk, "snapshots")
  BY DEF Added
<1>2. ASSUME NEW u \in {"nodes", "edges"}, NEW c, u # t \/ c # cmd[p]
      PROVE  Elements(disk', u, c) = Elements(disk, u, c)
  <2>1. CASE u # t
    BY <2>1, ElementsSame DEF Added
  <2>2. CASE u = t
    BY <1>2, <2>2, ElementsAdded
  <2> QED
    BY <2>1, <2>2
<1>3. NotNamed(cmd[p])
  BY DEF IInv, Progress, Untouched
<1>4. Closed(disk)'
  BY <1>1, <1>2, <1>3 DEF IInv, Views, Closed, WholeIn, NotNamed
<1> QED
  BY <1>1, <1>2, <1>4, ElementsAdded DEF NotNamed

\* The part of Progress of those that wait or that rest, when p writes to its graph.
LEMMA OthersProgress ==
  ASSUME IInv, NEW p \in Proc, pc[p] # "idle", OthersRest(p), todo' = todo,
         \A c : c # cmd[p] /\ NotNamed(c) => NotNamed(c)',
         \A u \in {"nodes", "edges"} : \A c : c # cmd[p] => Elements(disk', u, c) = Elements(disk, u, c)
  PROVE  /\ \A c \in todo' : Untouched(c)'
         /\ \A q \in Proc \ {p} :
              /\ pc'[q] \in {"list", "run", "nodes"} => Untouched(cmd[q])'
              /\ pc'[q] = "edges" => /\ NotNamed(cmd[q])'
                                     /\ Elements(disk', "nodes", cmd'[q]) = Built(q)'
                                     /\ Elements(disk', "edges", cmd'[q]) = {}
              /\ pc'[q] = "row" => /\ NotNamed(cmd[q])'
                                   /\ Elements(disk', "nodes", cmd'[q]) = Built(q)'
                                   /\ Elements(disk', "edges", cmd'[q]) = Built(q)'
<1> USE DEF IInv
<1>1. \A c : c # cmd[p] /\ Untouched(c) => Untouched(c)'
  BY DEF Untouched
<1>2. cmd[p] \notin todo
  BY OwnStatement
<1>3. ASSUME NEW c \in todo'
      PROVE  Untouched(c)'
  BY <1>1, <1>2 DEF Progress
<1>4. ASSUME NEW q \in Proc \ {p}, pc'[q] # "idle"
      PROVE  /\ pc'[q] = pc[q] /\ cmd'[q] = cmd[q] /\ cmd[q] # cmd[p]
             /\ Built(q)' = Built(q)
             /\ NotNamed(cmd[q]) => NotNamed(cmd[q])'
             /\ Untouched(cmd[q]) => Untouched(cmd[q])'
             /\ Elements(disk', "nodes", cmd[q]) = Elements(disk, "nodes", cmd[q])
             /\ Elements(disk', "edges", cmd[q]) = Elements(disk, "edges", cmd[q])
  <2>1. pc'[q] = pc[q] /\ cmd'[q] = cmd[q] /\ view'[q] = view[q] /\ cmd[q] # cmd[p]
    BY <1>4, OwnStatement DEF OthersRest
  <2>2. (NotNamed(cmd[q]) => NotNamed(cmd[q])') /\ (Untouched(cmd[q]) => Untouched(cmd[q])')
    BY <1>1, <2>1 DEF NotNamed, Untouched
  <2> QED
    BY <2>1, <2>2, BuiltSame
<1> QED
  BY <1>3, <1>4 DEF Progress

LEMMA AppendNodesKeeps ==
  ASSUME IInv, NEW p \in Proc, AppendNodes(p)
  PROVE  IInv'
<1> USE DEF IInv
<1>1. pc[p] = "nodes" /\ Goto(p, "edges") /\ NoStamp
  BY DEF AppendNodes
<1>2. Added("nodes", ElementRows(cmd[p], Built(p)))
  BY AppendAdds DEF AppendNodes, ElementRows
<1>3. GoesTo(p, "edges") /\ LocalTypeOK'
  BY <1>1, <1>2, GotoMoves DEF Added, Places
<1>4. TypeOK'
  BY <1>2, <1>3, TypeOKKept DEF GoesTo
<1>5. OneStatement'
  BY <1>1, <1>3, OneStatementKept DEF GoesTo, TypeOK
<1>6. /\ Closed(disk)'
      /\ \A c : NotNamed(c) => NotNamed(c)'
      /\ \A u \in {"nodes", "edges"} : \A c : u # "nodes" \/ c # cmd[p] => Elements(disk', u, c) = Elements(disk, u, c)
      /\ Elements(disk', "nodes", cmd[p]) = Elements(disk, "nodes", cmd[p]) \cup Built(p)
  BY <1>1, <1>2, GraphGrows
<1>7. Progress'
  <2>1. Untouched(cmd[p])
    BY <1>1 DEF Progress
  <2>2. /\ NotNamed(cmd[p])'
        /\ Elements(disk', "nodes", cmd[p]) = Built(p)
        /\ Elements(disk', "edges", cmd[p]) = {}
    BY <1>3, <1>6, <2>1 DEF Untouched, GoesTo, NotNamed
  <2>3. pc'[p] = "edges" /\ cmd'[p] = cmd[p] /\ Built(p)' = Built(p)
    BY <1>3, BuiltSame DEF GoesTo
  <2> QED
    BY <1>1, <1>3, <1>6, <2>2, <2>3, OthersProgress DEF Progress, GoesTo
<1>8. Views'
  BY <1>3, <1>6, ViewsKept DEF GoesTo, Views
<1>9. Times'
  BY <1>1, <1>2, <1>3, TimesKept DEF GoesTo, NoStamp, Writing, Added
<1>10. SnapshotWhole'
  BY <1>3 DEF GoesTo, SnapshotWhole
<1> QED
  BY <1>4, <1>5, <1>7, <1>8, <1>9, <1>10

LEMMA AppendEdgesKeeps ==
  ASSUME IInv, NEW p \in Proc, AppendEdges(p)
  PROVE  IInv'
<1> USE DEF IInv
<1>1. pc[p] = "edges" /\ Goto(p, "row") /\ Stamp(p)
  BY DEF AppendEdges
<1>2. Added("edges", ElementRows(cmd[p], Built(p)))
  BY AppendAdds DEF AppendEdges, ElementRows
<1>3. GoesTo(p, "row") /\ LocalTypeOK'
  BY <1>1, <1>2, GotoMoves DEF Added, Places
<1>4. TypeOK'
  BY <1>2, <1>3, TypeOKKept DEF GoesTo
<1>5. OneStatement'
  BY <1>1, <1>3, OneStatementKept DEF GoesTo, TypeOK
<1>6. /\ Closed(disk)'
      /\ \A c : NotNamed(c) => NotNamed(c)'
      /\ \A u \in {"nodes", "edges"} : \A c : u # "edges" \/ c # cmd[p] => Elements(disk', u, c) = Elements(disk, u, c)
      /\ Elements(disk', "edges", cmd[p]) = Elements(disk, "edges", cmd[p]) \cup Built(p)
  BY <1>1, <1>2, GraphGrows
<1>7. Progress'
  <2>1. /\ NotNamed(cmd[p])
        /\ Elements(disk, "nodes", cmd[p]) = Built(p)
        /\ Elements(disk, "edges", cmd[p]) = {}
    BY <1>1 DEF Progress
  <2>2. /\ NotNamed(cmd[p])'
        /\ Elements(disk', "nodes", cmd[p]) = Built(p)
        /\ Elements(disk', "edges", cmd[p]) = Built(p)
    BY <1>3, <1>6, <2>1 DEF GoesTo, NotNamed
  <2>3. pc'[p] = "row" /\ cmd'[p] = cmd[p] /\ Built(p)' = Built(p)
    BY <1>3, BuiltSame DEF GoesTo
  <2> QED
    BY <1>1, <1>3, <1>6, <2>2, <2>3, OthersProgress DEF Progress, GoesTo
<1>8. Views'
  BY <1>3, <1>6, ViewsKept DEF GoesTo, Views
<1>9. Times'
  <2>1. clock' = clock + 1 /\ stamp'[p] = clock + 1
    BY <1>1 DEF Stamp, TypeOK
  <2> QED
    BY <1>2, <1>3, <2>1, TimesKept DEF GoesTo, Added
<1>10. SnapshotWhole'
  BY <1>3 DEF GoesTo, SnapshotWhole
<1> QED
  BY <1>4, <1>5, <1>7, <1>8, <1>9, <1>10

\* Rows of snapshots are added for graphs that are whole: p's own, or graphs that have
\* a row already.
LEMMA SnapshotsGrow ==
  ASSUME IInv, NEW p \in Proc, pc[p] # "idle", OthersRest(p), todo' = todo,
         pc'[p] \in {"idle", "policies"},
         NEW R, Added("snapshots", R),
         \A r \in R : WholeIn(disk, r.guid, r.of) /\ (r.guid = cmd[p] \/ ~NotNamed(r.guid))
  PROVE  Progress' /\ Closed(disk)'
<1>1. \A c : c # cmd[p] /\ NotNamed(c) => NotNamed(c)'
  BY DEF Added, NotNamed
<1>2. \A u \in {"nodes", "edges"} : \A c : Elements(disk', u, c) = Elements(disk, u, c)
  BY ElementsSame DEF Added
<1>3. Progress'
  BY <1>1, <1>2, OthersProgress DEF Progress
<1>4. Closed(disk)'
  BY <1>2 DEF IInv, Views, Closed, WholeIn, Added
<1> QED
  BY <1>3, <1>4

LEMMA CommandFields ==
  ASSUME NEW c \in Commands
  PROVE  c.model \in Model /\ c.name \in Name \cup {Unnamed}
BY DEF Commands

\* A statement that read no graph says nothing of graphs.
LEMMA EndWithoutGraph ==
  ASSUME SnapshotWhole, NEW p, End(p, NoGraph)
  PROVE  SnapshotWhole' /\ Forget(p)
<1> DEFINE r == [cmd |-> cmd[p], after |-> after[p], torn |-> torn[p] /\ NoGraph # NoGraph, graph |-> NoGraph]
<1>1. history' = history \cup {r} /\ Forget(p)
  BY DEF End
<1>2. r.graph.nodes = {} /\ r.graph.edges = {}
  BY DEF NoGraph
<1> HIDE DEF r
<1> QED
  BY <1>1, <1>2 DEF SnapshotWhole

LEMMA AppendSnapshotKeeps ==
  ASSUME IInv, NEW p \in Proc, AppendSnapshot(p)
  PROVE  IInv'
<1> USE DEF IInv
<1> DEFINE L == LatestModel(view[p], cmd[p].model)
           R == {[model |-> cmd[p].model, name |-> cmd[p].name, of |-> v.id, guid |-> cmd[p],
                  deleted |-> FALSE, at |-> stamp[p]] : v \in L}
<1>1. pc[p] = "row" /\ End(p, NoGraph)
  BY DEF AppendSnapshot
<1>2. Append("snapshots", R)
  BY DEF AppendSnapshot
<1>3. R \subseteq SnapshotRow
  <2>1. cmd[p] \in Commands /\ cmd[p].model \in Model /\ cmd[p].name \in Name \cup {Unnamed}
    BY <1>1, OwnStatement, CommandFields
  <2>2. L \subseteq ModelRow
    BY RowsMonotone DEF TypeOK, LatestModel, Newest, Of
  <2>3. \A v \in L : v.id \in Commands \cup {Idle}
    BY <2>2 DEF ModelRow
  <2>4. stamp[p] \in Nat
    BY DEF TypeOK
  <2> HIDE DEF L
  <2>5. ASSUME NEW m \in Model, NEW n \in Name \cup {Unnamed}, NEW c \in Commands,
               NEW v \in Commands \cup {Idle}, NEW t \in Nat
        PROVE  [model |-> m, name |-> n, of |-> v, guid |-> c, deleted |-> FALSE, at |-> t] \in SnapshotRow
    BY DEF SnapshotRow
  <2> QED
    BY <2>1, <2>3, <2>4, <2>5
<1>4. \A r \in R : r.guid = cmd[p] /\ \E v \in L : r.of = v.id
  OBVIOUS
<1> HIDE DEF R, L
<1>5. Added("snapshots", R)
  BY <1>2, AppendAdds
<1>6. SnapshotWhole' /\ Ends(p) /\ LocalTypeOK'
  BY <1>1, <1>5, EndWithoutGraph, ForgetMoves DEF Added
<1>7. TypeOK'
  BY <1>3, <1>5, <1>6, TypeOKKept DEF Ends
<1>8. OneStatement'
  BY <1>1, <1>6, OneStatementKept DEF Ends, TypeOK
<1>9. Progress' /\ Closed(disk)'
  <2>1. ASSUME NEW r \in R
        PROVE  WholeIn(disk, r.guid, r.of)
    <3>1. PICK v \in L : r.of = v.id
      BY <1>4
    <3>2. Elements(disk, "nodes", r.guid) = Built(p) /\ Elements(disk, "edges", r.guid) = Built(p)
      BY <1>1, <1>4 DEF Progress
    <3>3. \A e \in Built(p) : e[1] = v.id
      BY BuiltOfVersion DEF L
    <3> QED
      BY <3>1, <3>2, <3>3 DEF WholeIn
  <2> QED
    BY <1>1, <1>4, <1>5, <1>6, <2>1, SnapshotsGrow DEF Ends
<1>10. Views'
  BY <1>6, <1>9, ViewsKept DEF Ends, Views, Closed, Rows
<1>11. Times'
  BY <1>5, <1>6, TimesKept DEF Ends, Added, Writing
<1> QED
  BY <1>6, <1>7, <1>8, <1>9, <1>10, <1>11

\* A tombstone names the graph that its snapshot named.
LEMMA TombsNameGraphs ==
  ASSUME IInv, NEW p \in Proc, NEW t \in Tombs(p)
  PROVE  t \in SnapshotRow /\ WholeIn(disk, t.guid, t.of) /\ ~NotNamed(t.guid)
<1> USE DEF IInv
<1>1. PICK s \in Snapshots(view[p], cmd[p].model) : t = [s EXCEPT !.deleted = TRUE, !.at = stamp[p]]
  BY DEF Tombs
<1>2. s \in Rows(disk, "snapshots")
  <2>1. view[p] \subseteq disk
    BY DEF TypeOK
  <2> QED
    BY <2>1, RowsMonotone DEF Snapshots, Of
<1>3. s \in SnapshotRow /\ stamp[p] \in Nat
  BY <1>2 DEF TypeOK
<1>4. t \in SnapshotRow /\ t.guid = s.guid /\ t.of = s.of
  BY <1>1, <1>3 DEF SnapshotRow
<1> QED
  BY <1>2, <1>4 DEF Views, Closed, NotNamed

LEMMA AppendTombsKeeps ==
  ASSUME IInv, NEW p \in Proc, AppendTombs(p)
  PROVE  IInv'
<1> USE DEF IInv
<1>1. pc[p] = "tombs" /\ Added("snapshots", Tombs(p))
  BY AppendAdds DEF AppendTombs
<1>2. Rows(disk', "models") = Rows(disk, "models")
  BY <1>1 DEF Added
<1>3. Tombs(p) \subseteq SnapshotRow
  BY TombsNameGraphs
<1>4. CASE Stamp(p) /\ Goto(p, "policies")
  <2>1. GoesTo(p, "policies") /\ LocalTypeOK'
    BY <1>1, <1>4, GotoMoves DEF Added, Places
  <2>2. TypeOK'
    BY <1>1, <1>3, <2>1, TypeOKKept DEF GoesTo
  <2>3. OneStatement'
    BY <1>1, <2>1, OneStatementKept DEF GoesTo, TypeOK
  <2>4. Progress' /\ Closed(disk)'
    BY <1>1, <2>1, TombsNameGraphs, SnapshotsGrow DEF GoesTo
  <2>5. Views'
    BY <2>1, <2>4, ViewsKept DEF GoesTo, Views
  <2>6. Times'
    <3>1. clock' = clock + 1 /\ stamp'[p] = clock + 1
      BY <1>4 DEF Stamp, TypeOK
    <3> QED
      BY <1>2, <2>1, <3>1, TimesKept DEF GoesTo
  <2>7. SnapshotWhole'
    BY <2>1 DEF GoesTo, SnapshotWhole
  <2> QED
    BY <2>2, <2>3, <2>4, <2>5, <2>6, <2>7
<1>5. CASE End(p, NoGraph)
  <2>1. SnapshotWhole' /\ Ends(p) /\ LocalTypeOK'
    BY <1>1, <1>5, EndWithoutGraph, ForgetMoves DEF Added
  <2>2. TypeOK'
    BY <1>1, <1>3, <2>1, TypeOKKept DEF Ends
  <2>3. OneStatement'
    BY <1>1, <2>1, OneStatementKept DEF Ends, TypeOK
  <2>4. Progress' /\ Closed(disk)'
    BY <1>1, <2>1, TombsNameGraphs, SnapshotsGrow DEF Ends
  <2>5. Views'
    BY <2>1, <2>4, ViewsKept DEF Ends, Views, Closed, Rows
  <2>6. Times'
    BY <1>2, <2>1, TimesKept DEF Ends, Writing
  <2> QED
    BY <2>1, <2>2, <2>3, <2>4, <2>5, <2>6
<1> QED
  BY <1>4, <1>5 DEF AppendTombs

------------------------------------------------------------------------------
(* The other steps.                                                          *)

LEMMA AbortKeeps ==
  ASSUME IInv, NEW p \in Proc, Abort(p) \/ Refuse(p)
  PROVE  IInv'
<1>1. Forget(p) /\ Added("none", {}) /\ SnapshotWhole'
  BY NothingAdded DEF Abort, Refuse, IInv, SnapshotWhole
<1> QED
  BY <1>1, QuietEnd

\* A row of the table of models, with a time of its own.
LEMMA ModelAppended ==
  ASSUME IInv, NEW p \in Proc, Writing(p), End(p, NoGraph), NEW id \in Commands \cup {Idle},
         NEW deleted \in BOOLEAN,
         Append("models", {[model |-> cmd[p].model, id |-> id, deleted |-> deleted, at |-> stamp[p]]})
  PROVE  IInv'
<1> DEFINE r == [model |-> cmd[p].model, id |-> id, deleted |-> deleted, at |-> stamp[p]]
<1>1. Added("models", {r})
  BY AppendAdds
<1>2. Forget(p) /\ SnapshotWhole'
  BY EndWithoutGraph DEF IInv
<1>3. r \in ModelRow
  <2>1. cmd[p].model \in Model
    BY OwnStatement, CommandFields DEF IInv, Writing
  <2>2. stamp[p] \in Nat
    BY DEF IInv, TypeOK
  <2> QED
    BY <2>1, <2>2 DEF ModelRow
<1>4. r.at = stamp[p]
  OBVIOUS
<1> HIDE DEF r
<1> QED
  BY <1>1, <1>2, <1>3, <1>4, QuietEnd

LEMMA GraphKeeps ==
  ASSUME IInv, NEW p \in Proc, Graph(p)
  PROVE  IInv'
<1> USE DEF IInv
<1>1. CASE Refuse(p)
  BY <1>1, AbortKeeps
<1>2. CASE ~Refuse(p)
  <2> DEFINE V == view[p]
             m == cmd[p].model
  <2>1. PICK g : /\ End(p, g) /\ UNCHANGED disk
                 /\ \/ \E s \in Snapshots(V, m) : g = Loaded(V, s)
                    \/ \E v \in LatestModel(V, m) :
                         g = [nodes |-> Build(V, v.id), edges |-> Build(V, v.id), of |-> v.id, guid |-> Idle]
    BY <1>2 DEF Graph, Newest
  <2>2. ~torn[p] => Closed(V)
    BY DEF Views
  <2>3. ASSUME ~torn[p]
        PROVE  g.nodes = g.edges /\ \A e \in g.nodes : e[1] = g.of
    <3>1. CASE \E s \in Snapshots(V, m) : g = Loaded(V, s)
      BY <2>2, <2>3, <3>1 DEF Loaded, Snapshots, Of, Closed, WholeIn
    <3>2. CASE \E v \in LatestModel(V, m) :
                 g = [nodes |-> Build(V, v.id), edges |-> Build(V, v.id), of |-> v.id, guid |-> Idle]
      BY <3>2 DEF Build
    <3> QED
      BY <2>1, <3>1, <3>2
  <2>4. SnapshotWhole'
    <3> DEFINE r == [cmd |-> cmd[p], after |-> after[p], torn |-> torn[p] /\ g # NoGraph, graph |-> g]
    <3>1. history' = history \cup {r}
      BY <2>1 DEF End
    <3>2. r.graph = g /\ (~r.torn => ~torn[p] \/ g = NoGraph)
      OBVIOUS
    <3>3. NoGraph.nodes = {} /\ NoGraph.edges = {}
      BY DEF NoGraph
    <3> HIDE DEF r
    <3> QED
      BY <2>3, <3>1, <3>2, <3>3 DEF SnapshotWhole
  <2>5. Forget(p) /\ Added("none", {})
    BY <2>1, NothingAdded DEF End
  <2> QED
    BY <2>4, <2>5, QuietEnd
<1> QED
  BY <1>1, <1>2

LEMMA QuietSteps ==
  ASSUME IInv, NEW p \in Proc,
         \/ CreateOrAlter(p) \/ MakeSnapshot(p) \/ Drop(p) \/ AppendPolicyTombs(p) \/ ChangePolicy(p)
  PROVE  IInv'
<1>1. CASE CreateOrAlter(p)
  BY <1>1, QuietGoto, NothingAdded DEF CreateOrAlter, Runs, Places
<1>2. CASE MakeSnapshot(p)
  <2>1. pc[p] = "run" /\ (Refuse(p) \/ ((Goto(p, "nodes") \/ Goto(p, "failure")) /\ NoStamp /\ UNCHANGED disk))
    BY <1>2 DEF MakeSnapshot, Runs
  <2> QED
    BY <2>1, QuietGoto, AbortKeeps, NothingAdded DEF Places
<1>3. CASE Drop(p)
  <2>1. pc[p] = "run" /\ (Refuse(p) \/ (Goto(p, "tombs") /\ Stamp(p) /\ UNCHANGED disk))
    BY <1>3 DEF Drop, Runs
  <2> QED
    BY <2>1, QuietGoto, AbortKeeps, NothingAdded DEF Places
<1>4. CASE AppendPolicyTombs(p)
  <2>1. PICK R : Added("policies", R)
    BY <1>4, AppendAdds DEF AppendPolicyTombs
  <2>2. pc[p] = "policies" /\ Goto(p, "tombstone") /\ NoStamp
    BY <1>4 DEF AppendPolicyTombs
  <2> QED
    BY <2>1, <2>2, QuietGoto DEF Places, Writing
<1>5. CASE ChangePolicy(p)
  <2>1. pc[p] = "run" /\ (Refuse(p) \/ (Goto(p, "policy") /\ Stamp(p) /\ UNCHANGED disk))
    BY <1>5 DEF ChangePolicy, Runs
  <2> QED
    BY <2>1, QuietGoto, AbortKeeps, NothingAdded DEF Places
<1> QED
  BY <1>1, <1>2, <1>3, <1>4, <1>5

LEMMA QuietEnds ==
  ASSUME IInv, NEW p \in Proc,
         \/ AppendModel(p) \/ RecordFailure(p) \/ AppendTombstone(p) \/ AppendPolicy(p)
  PROVE  IInv'
<1>1. CASE AppendModel(p)
  BY <1>1, OwnStatement, ModelAppended DEF AppendModel, Writing, IInv
<1>2. CASE RecordFailure(p)
  <2>1. PICK R : Added("failures", R)
    BY <1>2, AppendAdds DEF RecordFailure
  <2>2. Forget(p) /\ SnapshotWhole'
    BY <1>2 DEF RecordFailure, IInv, SnapshotWhole
  <2> QED
    BY <2>1, <2>2, QuietEnd
<1>3. CASE AppendTombstone(p)
  BY <1>3, ModelAppended DEF AppendTombstone, Writing
<1>4. CASE AppendPolicy(p)
  <2>1. PICK R : Added("policies", R)
    BY <1>4, AppendAdds DEF AppendPolicy
  <2>2. Forget(p) /\ SnapshotWhole'
    BY <1>4, EndWithoutGraph DEF AppendPolicy, IInv
  <2> QED
    BY <2>1, <2>2, QuietEnd
<1> QED
  BY <1>1, <1>2, <1>3, <1>4

LEMMA InvInit == Init => IInv
<1> SUFFICES ASSUME Init
             PROVE  IInv
  OBVIOUS
<1>1. \A t : Rows(disk, t) = {}
  BY DEF Init, Rows
<1>2. \A t, c : Elements(disk, t, c) = {}
  BY <1>1 DEF Elements
<1>3. TypeOK
  BY <1>1, ConstantsOK DEF Init, TypeOK, Places
<1>4. OneStatement
  BY DEF Init, OneStatement
<1>5. Progress
  BY <1>1, <1>2 DEF Init, Progress, Untouched, NotNamed
<1>6. Views
  BY <1>1 DEF Init, Views, Closed, Rows
<1>7. Times
  BY <1>1 DEF Init, Times, Writing
<1>8. SnapshotWhole
  BY DEF Init, SnapshotWhole
<1> QED
  BY <1>3, <1>4, <1>5, <1>6, <1>7, <1>8 DEF IInv

LEMMA InvNext == IInv /\ [Next]_vars => IInv'
<1> SUFFICES ASSUME IInv, [Next]_vars
             PROVE  IInv'
  OBVIOUS
<1>1. ASSUME NEW f \in Fact, Ingest(f)
      PROVE  IInv'
  <2>1. Added("data", {[fact |-> f]}) /\ UNCHANGED <<todo, clock, local, history>>
    BY <1>1, ExtentAdded DEF Ingest
  <2> QED
    BY <2>1, QuietIngest
<1>2. ASSUME NEW p \in Proc, NEW c \in todo, Begin(p, c)
      PROVE  IInv'
  BY <1>2, BeginKeeps
<1>3. ASSUME NEW p \in Proc, Listed(p)
      PROVE  IInv'
  BY <1>3, ListedKeeps
<1>4. ASSUME NEW p \in Proc, AppendNodes(p) \/ AppendEdges(p) \/ AppendSnapshot(p) \/ AppendTombs(p)
      PROVE  IInv'
  BY <1>4, AppendNodesKeeps, AppendEdgesKeeps, AppendSnapshotKeeps, AppendTombsKeeps
<1>5. ASSUME NEW p \in Proc, Graph(p) \/ Abort(p)
      PROVE  IInv'
  BY <1>5, GraphKeeps, AbortKeeps
<1>6. CASE UNCHANGED vars
  BY <1>6, NothingAdded, QuietIngest DEF vars
<1> QED
  BY <1>1, <1>2, <1>3, <1>4, <1>5, <1>6, QuietSteps, QuietEnds DEF Next

\* Whatever interleaves, fails or dies, a graph that is read from a catalog that was
\* listed in peace has all of the nodes and edges of one version.
THEOREM SnapshotsAreWhole == Spec => []SnapshotWhole
<1>1. IInv => SnapshotWhole
  BY DEF IInv
<1> QED
  BY InvInit, InvNext, <1>1, PTL DEF Spec

-----------------------------------------------------------------------------
(* LatestWins and DropIsFinal are about three statements, each over before   *)
(* the next one begins: one makes a snapshot or a version, one drops or      *)
(* replaces it, one reads.  The second has the rows of the first in its      *)
(* catalog, and takes its time after it has, so that what it writes is newer *)
(* than those rows; from then on a newer row stays beside them, in the       *)
(* directory and in every catalog that is listed later, the reader's among   *)
(* them.                                                                     *)

\* The statements that ended well.
Ended == {h.cmd : h \in history}

\* The rows that statement c made.
SnapshotOf(V, c) == {s \in Rows(V, "snapshots") : s.guid = c /\ ~s.deleted}
VersionOf(V, c) == {m \in Rows(V, "models") : m.id = c /\ ~m.deleted}
PolicyOf(V, c) == {r \in Rows(V, "policies") : r.by = c}

\* Beside each of them is a newer one, so that none of them counts.
SnapshotGone(V, c) ==
  \A s \in SnapshotOf(V, c) :
    \E t \in Rows(V, "snapshots") : t.model = s.model /\ t.name = s.name /\ t.at > s.at

VersionGone(V, c) ==
  \A m \in VersionOf(V, c) : \E n \in Rows(V, "models") : n.model = m.model /\ n.at > m.at

PolicyGone(V, c, model) ==
  \A r \in PolicyOf(V, c) :
    r.model = model => r.deleted \/ \E s \in Rows(V, "policies") : s.model = model /\ s.at > r.at

\* Statement d puts an end to the snapshots, or the versions, that c made.
EndsSnapshots(d, c) == c.do = "make" /\ Drops(d, c)
EndsVersions(d, c) == d.do \in {"drop", "create"} /\ d.model = c.model

\* Rows say who made them, and when.
SnapshotSays(s, now) == s.at <= now /\ s.guid.do = "make" /\ s.model = s.guid.model /\ s.name = s.guid.name

ModelSays(m, now) ==
  m.at <= now /\ (~m.deleted => m.id \in Commands /\ m.id.do = "create" /\ m.model = m.id.model)

PolicySays(r, now) == r.at \in Nat /\ r.at <= now

RowsSay ==
  /\ \A s \in Rows(disk, "snapshots") : SnapshotSays(s, clock)
  /\ \A m \in Rows(disk, "models") : ModelSays(m, clock)
  /\ \A r \in Rows(disk, "policies") : PolicySays(r, clock)

\* What a statement is at.
Doing(p) ==
  /\ pc[p] = "model" => cmd[p].do = "create"
  /\ pc[p] \in {"nodes", "edges", "row", "failure"} =>
       cmd[p].do = "make" /\ LatestModel(view[p], cmd[p].model) # {}
  /\ pc[p] = "tombs" => cmd[p].do \in {"drop", "drop snapshot"}
  /\ pc[p] \in {"policies", "tombstone"} => cmd[p].do = "drop"
  /\ pc[p] = "policy" => cmd[p].do \in {"alter policy", "delete policy"}

\* A statement runs once, and has in its catalog all the rows of those it follows.
Began(p) ==
  /\ after[p] \subseteq Ended
  /\ pc[p] # "idle" => cmd[p] \notin Ended
  /\ \A c \in after[p] :
       /\ SnapshotOf(disk, c) \subseteq Rows(view[p], "snapshots")
       /\ VersionOf(disk, c) \subseteq Rows(view[p], "models")
       /\ PolicyOf(disk, c) \subseteq Rows(view[p], "policies")

\* What was ended before a statement began is ended in its catalog.
Sees(p) ==
  \A d \in history : d.cmd \in after[p] =>
    /\ d.after \subseteq after[p]
    /\ \A c \in d.after :
         /\ EndsSnapshots(d.cmd, c) => SnapshotGone(view[p], c)
         /\ EndsVersions(d.cmd, c) => VersionGone(view[p], c)

\* The time a statement took is after the rows of those it follows.
Stamped(p) == pc[p] \in {"model", "row", "tombs", "policies", "tombstone", "policy"}

Follows(p) ==
  /\ stamp[p] <= clock
  /\ Stamped(p) => \A c \in after[p] :
       \A r \in SnapshotOf(disk, c) \cup VersionOf(disk, c) \cup PolicyOf(disk, c) : r.at < stamp[p]

\* How far a drop of a model is.
Dropping(p) ==
  /\ pc[p] \in {"policies", "tombstone"} =>
       \A c \in after[p] : EndsSnapshots(cmd[p], c) => SnapshotGone(disk, c)
  /\ pc[p] = "tombstone" => \A c \in after[p] : PolicyGone(disk, c, cmd[p].model)

Under(p) == Doing(p) /\ Began(p) /\ Sees(p) /\ Follows(p) /\ Dropping(p)

\* What a statement that ended has done.
Done(d) ==
  /\ d.cmd \in Commands \ todo
  /\ d.after \subseteq Ended
  /\ d.cmd.do = "make" => SnapshotOf(disk, d.cmd) # {}
  /\ \A c \in d.after :
       /\ EndsSnapshots(d.cmd, c) => SnapshotGone(disk, c)
       /\ EndsVersions(d.cmd, c) => VersionGone(disk, c)
       /\ d.cmd.do = "drop" => PolicyGone(disk, c, d.cmd.model)
       /\ d.cmd.do = "make" => \A s \in SnapshotOf(disk, d.cmd), r \in SnapshotOf(disk, c) : r.at < s.at

HistoryInv ==
  /\ after \in [Proc -> SUBSET Commands]
  /\ RowsSay
  /\ \A p \in Proc : Under(p)
  /\ \A d \in history : Done(d)
  /\ LatestWins
  /\ DropIsFinal

------------------------------------------------------------------------------
(* The newest of rows.                                                       *)

Before == {ss \in Nat \X Nat : ss[1] < ss[2]}

LEMMA BeforeWellFounded == IsWellFoundedOn(Before, Nat)
BY NatLessThanWellFounded DEF OpToRel, Before

LEMMA LeastOne ==
  ASSUME NEW T \in SUBSET Nat, T # {}
  PROVE  \E t \in T : \A u \in T : t <= u
<1>1. PICK t \in T : \A u \in T : ~(<<u, t>> \in Before)
  BY BeforeWellFounded, WFMin
<1>2. ASSUME NEW u \in T
      PROVE  t <= u
  <2>1. u \in Nat /\ t \in Nat
    OBVIOUS
  <2>2. u < t => <<u, t>> \in Before
    BY <2>1 DEF Before
  <2> QED
    BY <1>1, <2>1, <2>2
<1> QED
  BY <1>2

\* Times up to now have a last one.
LEMMA LastOne ==
  ASSUME NEW S \in SUBSET Nat, S # {}, NEW b \in Nat, \A x \in S : x <= b
  PROVE  \E x \in S : \A y \in S : y <= x
<1> DEFINE T == {b - x : x \in S}
<1>1. T \in SUBSET Nat /\ T # {}
  <2>1. \A x \in S : b - x \in Nat
    OBVIOUS
  <2> QED
    BY <2>1
<1>2. PICK t \in T : \A u \in T : t <= u
  <2> HIDE DEF T
  <2> QED
    BY <1>1, LeastOne
<1>3. PICK x \in S : t = b - x
  OBVIOUS
<1>4. ASSUME NEW y \in S
      PROVE  y <= x
  <2>1. b - y \in T
    OBVIOUS
  <2>2. b - x <= b - y
    BY <1>2, <1>3, <2>1
  <2> QED
    BY <2>2
<1> QED
  BY <1>4

LEMMA NewestIsThere ==
  ASSUME NEW R, R # {}, NEW now \in Nat, \A r \in R : r.at \in Nat /\ r.at <= now
  PROVE  Newest(R) # {}
<1> DEFINE S == {r.at : r \in R}
<1>1. S \in SUBSET Nat /\ S # {} /\ \A x \in S : x <= now
  OBVIOUS
<1>2. PICK x \in S : \A y \in S : y <= x
  <2> HIDE DEF S
  <2> QED
    BY <1>1, LastOne
<1>3. PICK r \in R : r.at = x
  OBVIOUS
<1>4. \A s \in R : s.at <= r.at
  BY <1>2, <1>3
<1> QED
  BY <1>4 DEF Newest

\* A policy beside which there is a newer one does not count.
LEMMA GonePolicy ==
  ASSUME NEW V, NEW now, \A r \in Rows(V, "policies") : PolicySays(r, now),
         NEW c, NEW m, PolicyGone(V, c, m), NEW r \in Policies(V, m)
  PROVE  r.by # c
<1>1. r \in Rows(V, "policies") /\ r.model = m /\ ~r.deleted
  BY DEF Policies, Newest, Of
<1>2. ASSUME NEW s \in Rows(V, "policies"), s.model = m
      PROVE  ~(s.at > r.at)
  <2>1. s.at <= r.at
    BY <1>2 DEF Policies, Newest, Of
  <2>2. s.at \in Nat /\ r.at \in Nat
    BY <1>1 DEF PolicySays
  <2> QED
    BY <2>1, <2>2
<1> QED
  BY <1>1, <1>2 DEF PolicyGone, PolicyOf

------------------------------------------------------------------------------
(* What a step does to the rows.                                             *)

\* Nobody but statement c writes a row that is not a tombstone, or a policy.
OnlyBy(c) ==
  /\ disk \subseteq disk'
  /\ \A s \in Rows(disk', "snapshots") : s \in Rows(disk, "snapshots") \/ s.deleted \/ s.guid = c
  /\ \A m \in Rows(disk', "models") : m \in Rows(disk, "models") \/ m.deleted \/ m.id = c
  /\ \A r \in Rows(disk', "policies") : r \in Rows(disk, "policies") \/ r.by = c

\* What another made stays as it is, and what was gone stays gone.
LEMMA RowsOfOthers ==
  ASSUME NEW c, OnlyBy(c), NEW e, e # c
  PROVE  /\ SnapshotOf(disk', e) = SnapshotOf(disk, e)
         /\ VersionOf(disk', e) = VersionOf(disk, e)
         /\ PolicyOf(disk', e) = PolicyOf(disk, e)
         /\ SnapshotGone(disk, e) => SnapshotGone(disk', e)
         /\ VersionGone(disk, e) => VersionGone(disk', e)
         /\ \A m : PolicyGone(disk, e, m) => PolicyGone(disk', e, m)
<1>1. \A t : Rows(disk, t) \subseteq Rows(disk', t)
  BY RowsMonotone DEF OnlyBy
<1>2. /\ SnapshotOf(disk', e) = SnapshotOf(disk, e)
      /\ VersionOf(disk', e) = VersionOf(disk, e)
      /\ PolicyOf(disk', e) = PolicyOf(disk, e)
  BY <1>1 DEF OnlyBy, SnapshotOf, VersionOf, PolicyOf
<1>3. SnapshotGone(disk, e) => SnapshotGone(disk', e)
  BY <1>1, <1>2 DEF SnapshotGone
<1>4. VersionGone(disk, e) => VersionGone(disk', e)
  BY <1>1, <1>2 DEF VersionGone
<1>5. \A m : PolicyGone(disk, e, m) => PolicyGone(disk', e, m)
  BY <1>1, <1>2 DEF PolicyGone
<1> QED
  BY <1>2, <1>3, <1>4, <1>5

\* The rows of a table of statements that c may add.
Writes(table, R, c) ==
  /\ table = "snapshots" => \A s \in R : (s.deleted \/ s.guid = c) /\ SnapshotSays(s, clock)
  /\ table = "models" => \A m \in R : (m.deleted \/ m.id = c) /\ ModelSays(m, clock)
  /\ table = "policies" => \A r \in R : r.by = c /\ PolicySays(r, clock)

LEMMA RowsWritten ==
  ASSUME TypeOK, TypeOK', RowsSay, clock <= clock',
         NEW c, NEW table, NEW R, Added(table, R), Writes(table, R, c)
  PROVE  OnlyBy(c) /\ RowsSay'
<1>1. OnlyBy(c)
  BY DEF Added, Writes, OnlyBy
<1>2. clock \in Nat /\ clock' \in Nat
  BY DEF TypeOK
<1>3. ASSUME NEW s \in Rows(disk', "snapshots")
      PROVE  SnapshotSays(s, clock')
  <2>1. SnapshotSays(s, clock)
    BY <1>3 DEF Added, Writes, RowsSay
  <2>2. s.at \in Nat
    BY <1>3 DEF TypeOK, SnapshotRow
  <2> QED
    BY <1>2, <2>1, <2>2 DEF SnapshotSays
<1>4. ASSUME NEW m \in Rows(disk', "models")
      PROVE  ModelSays(m, clock')
  <2>1. ModelSays(m, clock)
    BY <1>4 DEF Added, Writes, RowsSay
  <2>2. m.at \in Nat
    BY <1>4 DEF TypeOK, ModelRow
  <2> QED
    BY <1>2, <2>1, <2>2 DEF ModelSays
<1>5. ASSUME NEW r \in Rows(disk', "policies")
      PROVE  PolicySays(r, clock')
  <2>1. PolicySays(r, clock)
    BY <1>5 DEF Added, Writes, RowsSay
  <2> QED
    BY <1>2, <2>1 DEF PolicySays
<1> QED
  BY <1>1, <1>3, <1>4, <1>5 DEF RowsSay

------------------------------------------------------------------------------
(* What stays as it is.                                                      *)

\* The history gains what statement c did, or nothing.
Remembers(c) ==
  /\ history \subseteq history'
  /\ \A d \in history' \ history : d.cmd = c

LEMMA EndedGrows ==
  ASSUME NEW c, Remembers(c)
  PROVE  Ended \subseteq Ended' /\ Ended' \subseteq Ended \cup {c}
BY DEF Remembers, Ended

LEMMA DoneKept ==
  ASSUME NEW d \in history, Done(d), NEW c, c \notin Ended, OnlyBy(c), Remembers(c), todo' \subseteq todo
  PROVE  Done(d)'
<1>1. d.cmd \in Ended /\ d.cmd # c /\ \A e \in d.after : e # c
  BY DEF Ended, Done
<1>2. /\ SnapshotOf(disk', d.cmd) = SnapshotOf(disk, d.cmd)
      /\ \A e \in d.after : /\ SnapshotOf(disk', e) = SnapshotOf(disk, e)
                            /\ SnapshotGone(disk, e) => SnapshotGone(disk', e)
                            /\ VersionGone(disk, e) => VersionGone(disk', e)
                            /\ PolicyGone(disk, e, d.cmd.model) => PolicyGone(disk', e, d.cmd.model)
  BY <1>1, RowsOfOthers
<1>3. d.after \subseteq Ended'
  BY EndedGrows DEF Done
<1> QED
  BY <1>2, <1>3 DEF Done

LEMMA BeganKept ==
  ASSUME NEW p, Began(p), Sees(p), NEW c, c \notin Ended, OnlyBy(c), Remembers(c),
         history' = history \/ (pc[p] # "idle" => cmd[p] # c),
         pc'[p] # "idle" => pc[p] # "idle",
         cmd'[p] = cmd[p], view'[p] = view[p], after'[p] = after[p]
  PROVE  Began(p)' /\ Sees(p)'
<1>1. after'[p] \subseteq Ended'
  BY EndedGrows DEF Began
<1>2. pc'[p] # "idle" => cmd'[p] \notin Ended'
  BY EndedGrows DEF Began, Ended
<1>3. ASSUME NEW e \in after'[p]
      PROVE  /\ SnapshotOf(disk', e) \subseteq Rows(view'[p], "snapshots")
             /\ VersionOf(disk', e) \subseteq Rows(view'[p], "models")
             /\ PolicyOf(disk', e) \subseteq Rows(view'[p], "policies")
  <2>1. e # c
    BY <1>3 DEF Began
  <2> QED
    BY <1>3, <2>1, RowsOfOthers DEF Began
<1>4. ASSUME NEW d \in history', d.cmd \in after'[p]
      PROVE  d \in history
  BY <1>4 DEF Began, Remembers
<1>5. Sees(p)'
  BY <1>4 DEF Sees
<1> QED
  BY <1>1, <1>2, <1>3, <1>5 DEF Began

LEMMA FollowsKept ==
  ASSUME TypeOK, TypeOK', NEW p \in Proc, Follows(p), Began(p), NEW c, c \notin Ended, OnlyBy(c),
         clock <= clock', stamp'[p] = stamp[p], after'[p] = after[p], Stamped(p)' => Stamped(p)
  PROVE  Follows(p)'
<1>1. stamp'[p] <= clock'
  BY DEF TypeOK, Follows
<1>2. ASSUME NEW e \in after'[p]
      PROVE  /\ SnapshotOf(disk', e) = SnapshotOf(disk, e)
             /\ VersionOf(disk', e) = VersionOf(disk, e)
             /\ PolicyOf(disk', e) = PolicyOf(disk, e)
  <2>1. e # c
    BY <1>2 DEF Began
  <2> QED
    BY <2>1, RowsOfOthers
<1> QED
  BY <1>1, <1>2 DEF Follows

\* A time that is taken now is after all the rows there are.
LEMMA FollowsStamped ==
  ASSUME TypeOK, RowsSay, NEW p \in Proc, Began(p), NEW c, c \notin Ended, OnlyBy(c),
         clock' = clock + 1, stamp'[p] = clock + 1, after'[p] = after[p]
  PROVE  Follows(p)'
<1>1. clock \in Nat
  BY DEF TypeOK
<1>2. ASSUME NEW e \in after'[p], NEW r \in SnapshotOf(disk', e) \cup VersionOf(disk', e) \cup PolicyOf(disk', e)
      PROVE  r.at < stamp'[p]
  <2>1. e # c
    BY <1>2 DEF Began
  <2>2. r \in SnapshotOf(disk, e) \cup VersionOf(disk, e) \cup PolicyOf(disk, e)
    BY <1>2, <2>1, RowsOfOthers
  <2>3. r.at \in Nat /\ r.at <= clock
    BY <2>2 DEF SnapshotOf, VersionOf, PolicyOf, RowsSay, SnapshotSays, ModelSays, PolicySays,
                TypeOK, SnapshotRow, ModelRow
  <2> QED
    BY <1>1, <2>3
<1> QED
  BY <1>1, <1>2 DEF Follows

LEMMA DroppingKept ==
  ASSUME NEW p, Dropping(p), Began(p), NEW c, c \notin Ended, OnlyBy(c),
         pc'[p] = pc[p], cmd'[p] = cmd[p], after'[p] = after[p]
  PROVE  Dropping(p)'
<1>1. ASSUME NEW e \in after[p]
      PROVE  /\ SnapshotGone(disk, e) => SnapshotGone(disk', e)
             /\ \A m : PolicyGone(disk, e, m) => PolicyGone(disk', e, m)
  <2>1. e # c
    BY <1>1 DEF Began
  <2> QED
    BY <2>1, RowsOfOthers
<1> QED
  BY <1>1 DEF Dropping

\* A process that rests.
Rests(p) ==
  /\ pc'[p] = pc[p] /\ cmd'[p] = cmd[p] /\ view'[p] = view[p]
  /\ stamp'[p] = stamp[p] /\ after'[p] = after[p]

LEMMA UnderKept ==
  ASSUME TypeOK, TypeOK', NEW p \in Proc, Under(p), Rests(p),
         NEW c, c \notin Ended, OnlyBy(c), Remembers(c), clock <= clock',
         history' = history \/ (pc[p] # "idle" => cmd[p] # c)
  PROVE  Under(p)'
<1>1. Doing(p)'
  BY DEF Under, Rests, Doing, LatestModel, Newest, Of, Rows
<1>2. Began(p)' /\ Sees(p)'
  BY BeganKept DEF Under, Rests
<1>3. Follows(p)'
  BY FollowsKept DEF Under, Rests, Stamped
<1>4. Dropping(p)'
  BY DroppingKept DEF Under, Rests
<1> QED
  BY <1>1, <1>2, <1>3, <1>4 DEF Under

\* A process that has no statement.
LEMMA UnderIdle ==
  ASSUME TypeOK', NEW p \in Proc, pc'[p] = "idle", after'[p] = {}, stamp'[p] = 0
  PROVE  Under(p)'
<1>1. Doing(p)'
  BY DEF Doing
<1>2. Began(p)'
  BY DEF Began
<1>3. Sees(p)'
  BY DEF Sees
<1>4. Follows(p)'
  BY DEF Follows, Stamped, TypeOK
<1>5. Dropping(p)'
  BY DEF Dropping
<1> QED
  BY <1>1, <1>2, <1>3, <1>4, <1>5 DEF Under

------------------------------------------------------------------------------
(* The properties, of a reader r and a statement d that drops or replaces.   *)

FinalFor(r, d) ==
  r.graph # NoGraph => ~(Drops(d.cmd, Maker(r.graph)) /\ Between(Maker(r.graph), d, r))

LatestFor(r, d) ==
  r.graph # NoGraph /\ r.cmd.name = Unnamed /\ ~DroppedSince(d.cmd) =>
    ~(d.cmd.model = r.cmd.model /\ d.cmd.do = Maker(r.graph).do /\ Between(Maker(r.graph), d, r))

\* A statement that ends now comes after nobody, and reads for itself.
LEMMA PropertiesKept ==
  ASSUME HistoryInv, NEW c, c \notin Ended, OnlyBy(c), Remembers(c), RowsSay',
         \A d \in history' : Done(d)',
         \A r \in history' \ history : r.after \subseteq Ended,
         \A r \in history' \ history, d \in history : FinalFor(r, d) /\ LatestFor(r, d)'
  PROVE  LatestWins' /\ DropIsFinal'
<1>1. ASSUME NEW r \in history', NEW d \in history', d.cmd \in r.after
      PROVE  d \in history
  <2>1. r.after \subseteq Ended
    BY DEF HistoryInv, Done
  <2> QED
    BY <1>1, <2>1 DEF Remembers
<1>2. \A e : DroppedSince(e) => DroppedSince(e)'
  BY RowsMonotone DEF DroppedSince, OnlyBy
<1>3. ASSUME NEW r \in history', NEW d \in history'
      PROVE  FinalFor(r, d) /\ LatestFor(r, d)'
  <2>1. CASE d.cmd \notin r.after
    BY <2>1 DEF FinalFor, LatestFor, Between
  <2>2. CASE d.cmd \in r.after /\ r \notin history
    BY <1>1, <2>2
  <2>3. CASE d.cmd \in r.after /\ r \in history
    <3>1. d \in history
      BY <1>1, <2>3
    <3>2. FinalFor(r, d) /\ LatestFor(r, d)
      BY <2>3, <3>1 DEF HistoryInv, LatestWins, DropIsFinal, FinalFor, LatestFor
    <3> QED
      BY <1>2, <3>2 DEF LatestFor
  <2> QED
    BY <2>1, <2>2, <2>3
<1>4. ASSUME NEW d \in history', d.cmd.do = "drop", NEW r \in Policies(disk', d.cmd.model)
      PROVE  r.by \notin d.after
  <2>1. \A e \in d.after : PolicyGone(disk', e, d.cmd.model)
    BY <1>4 DEF Done
  <2>2. \A s \in Rows(disk', "policies") : PolicySays(s, clock')
    BY DEF RowsSay
  <2> QED
    BY <2>1, <2>2, GonePolicy
<1>5. LatestWins'
  BY <1>3 DEF LatestWins, LatestFor
<1>6. DropIsFinal'
  BY <1>3, <1>4 DEF DropIsFinal, FinalFor
<1> QED
  BY <1>5, <1>6

LEMMA EndedCommands ==
  ASSUME HistoryInv
  PROVE  Ended \subseteq Commands /\ Idle \notin Ended
<1>1. Ended \subseteq Commands
  BY DEF HistoryInv, Ended, Done
<1>2. Idle \notin Commands
  BY DEF Idle, Commands
<1> QED
  BY <1>1, <1>2

\* A statement ended before may not be one that is under way.
LEMMA OwnUnended ==
  ASSUME HistoryInv, NEW p \in Proc, pc[p] # "idle"
  PROVE  cmd[p] \notin Ended
BY DEF HistoryInv, Under, Began

------------------------------------------------------------------------------
(* Steps in which a statement goes on, and in which it ends.                 *)

LEMMA GoesOn ==
  ASSUME IInv, IInv', HistoryInv, NEW p \in Proc, pc[p] # "idle",
         NEW place \in Places \ {"idle"}, Goto(p, place),
         Stamp(p) \/ (NoStamp /\ (Stamped(p)' => Stamped(p))),
         NEW table, NEW R, Added(table, R), Writes(table, R, cmd[p]),
         Doing(p)', Dropping(p)'
  PROVE  HistoryInv'
<1> DEFINE c == cmd[p]
<1>1. TypeOK /\ TypeOK'
  BY DEF IInv
<1>2. clock' \in Nat /\ clock \in Nat /\ clock <= clock'
  BY <1>1 DEF TypeOK, Stamp, NoStamp
<1>3. OnlyBy(c) /\ RowsSay'
  BY <1>1, <1>2, RowsWritten DEF HistoryInv
<1>4. c \notin Ended
  BY OwnUnended
<1>5. history' = history /\ todo' = todo /\ after' = after /\ UNCHANGED <<cmd, view>>
  BY DEF Goto
<1>6. Remembers(c)
  BY <1>5 DEF Remembers
<1>7. GoesTo(p, place)
  BY <1>1, GotoMoves DEF Added
<1>8. ASSUME NEW q \in Proc, q # p
      PROVE  Under(q)'
  <2>1. Rests(q) /\ Under(q)
    BY <1>5, <1>7, <1>8 DEF GoesTo, OthersRest, Rests, HistoryInv
  <2> QED
    BY <1>1, <1>2, <1>3, <1>4, <1>5, <1>6, <2>1, UnderKept
<1>9. Under(p)'
  <2>1. Under(p)
    BY DEF HistoryInv
  <2>2. Began(p)' /\ Sees(p)'
    BY <1>3, <1>4, <1>5, <1>6, <2>1, BeganKept DEF Under
  <2>3. Follows(p)'
    <3>1. CASE Stamp(p)
      <4>1. clock' = clock + 1 /\ stamp'[p] = clock + 1
        BY <1>1, <3>1 DEF Stamp, TypeOK
      <4> QED
        BY <1>1, <1>3, <1>4, <1>5, <2>1, <4>1, FollowsStamped DEF Under, HistoryInv
    <3>2. CASE NoStamp /\ (Stamped(p)' => Stamped(p))
      BY <1>1, <1>2, <1>3, <1>4, <1>5, <2>1, <3>2, FollowsKept DEF Under, NoStamp
    <3> QED
      BY <3>1, <3>2
  <2> QED
    BY <2>2, <2>3 DEF Under
<1>10. \A d \in history' : Done(d)'
  BY <1>3, <1>4, <1>5, <1>6, DoneKept DEF HistoryInv
<1>11. LatestWins' /\ DropIsFinal'
  BY <1>3, <1>4, <1>5, <1>6, <1>10, PropertiesKept
<1>12. after' \in [Proc -> SUBSET Commands]
  BY <1>5 DEF HistoryInv
<1> QED
  BY <1>3, <1>8, <1>9, <1>10, <1>11, <1>12 DEF HistoryInv

\* The entry of a statement that ends.
Entry(p, g) == [cmd |-> cmd[p], after |-> after[p], torn |-> torn[p] /\ g # NoGraph, graph |-> g]

LEMMA StatementEnds ==
  ASSUME IInv, IInv', HistoryInv, NEW p \in Proc, pc[p] # "idle", Forget(p),
         NEW table, NEW R, Added(table, R), Writes(table, R, cmd[p]),
         history \subseteq history',
         \A r \in history' \ history : r.cmd = cmd[p] /\ r.after = after[p] /\ Done(r)',
         \A r \in history' \ history, d \in history : FinalFor(r, d) /\ LatestFor(r, d)'
  PROVE  HistoryInv'
<1> DEFINE c == cmd[p]
<1>1. TypeOK /\ TypeOK'
  BY DEF IInv
<1>2. clock' = clock /\ clock \in Nat /\ todo' = todo
  BY <1>1 DEF TypeOK, Forget
<1>3. OnlyBy(c) /\ RowsSay'
  BY <1>1, <1>2, RowsWritten DEF HistoryInv
<1>4. c \notin Ended
  BY OwnUnended
<1>5. Remembers(c)
  BY DEF Remembers
<1>6. Ends(p)
  BY <1>1, ForgetMoves DEF Added
<1>7. after' \in [Proc -> SUBSET Commands] /\ after'[p] = {} /\ \A q \in Proc \ {p} : after'[q] = after[q]
  BY DEF HistoryInv, Forget
<1>8. ASSUME NEW q \in Proc, q # p
      PROVE  Under(q)'
  <2>1. Rests(q) /\ Under(q)
    BY <1>6, <1>7, <1>8 DEF Ends, OthersRest, Rests, HistoryInv
  <2>2. pc[q] # "idle" => cmd[q] # c
    BY <1>8, OwnStatement DEF IInv
  <2> QED
    BY <1>1, <1>2, <1>3, <1>4, <1>5, <2>1, <2>2, UnderKept
<1>9. Under(p)'
  BY <1>1, <1>6, <1>7, UnderIdle DEF Ends
<1>10. ASSUME NEW d \in history'
       PROVE  Done(d)'
  <2>1. CASE d \in history
    BY <1>2, <1>3, <1>4, <1>5, <2>1, DoneKept DEF HistoryInv
  <2>2. CASE d \notin history
    BY <2>2
  <2> QED
    BY <2>1, <2>2
<1>11. LatestWins' /\ DropIsFinal'
  <2>1. after[p] \subseteq Ended
    BY DEF HistoryInv, Under, Began
  <2> QED
    BY <1>3, <1>4, <1>5, <1>10, <2>1, PropertiesKept
<1> QED
  BY <1>3, <1>7, <1>8, <1>9, <1>10, <1>11 DEF HistoryInv

\* What a statement must have done when it ends.
HasDone(p) ==
  /\ cmd[p].do = "make" => SnapshotOf(disk', cmd[p]) # {}
  /\ \A e \in after[p] :
       /\ EndsSnapshots(cmd[p], e) => SnapshotGone(disk', e)
       /\ EndsVersions(cmd[p], e) => VersionGone(disk', e)
       /\ cmd[p].do = "drop" => PolicyGone(disk', e, cmd[p].model)
       /\ cmd[p].do = "make" => \A s \in SnapshotOf(disk', cmd[p]), r \in SnapshotOf(disk', e) : r.at < s.at

LEMMA EndsWell ==
  ASSUME IInv, IInv', HistoryInv, NEW p \in Proc, pc[p] # "idle", NEW g, End(p, g), HasDone(p),
         NEW table, NEW R, Added(table, R), Writes(table, R, cmd[p]),
         NEW r, r = Entry(p, g), \A d \in history : FinalFor(r, d) /\ LatestFor(r, d)'
  PROVE  HistoryInv'
<1>1. Forget(p) /\ history' = history \cup {r} /\ todo' = todo
  BY DEF End, Entry, Forget
<1>2. r.cmd = cmd[p] /\ r.after = after[p]
  BY DEF Entry
<1>3. Done(r)'
  <2>1. cmd[p] \in Commands \ todo'
    BY <1>1, OwnStatement DEF IInv
  <2>2. after[p] \subseteq Ended'
    BY <1>1 DEF HistoryInv, Under, Began, Ended
  <2> QED
    BY <1>2, <2>1, <2>2 DEF Done, HasDone
<1> QED
  BY <1>1, <1>2, <1>3, StatementEnds

LEMMA EndsWithoutGraph ==
  ASSUME IInv, IInv', HistoryInv, NEW p \in Proc, pc[p] # "idle", End(p, NoGraph), HasDone(p),
         NEW table, NEW R, Added(table, R), Writes(table, R, cmd[p])
  PROVE  HistoryInv'
<1>1. PICK r : r = Entry(p, NoGraph)
  OBVIOUS
<1>2. \A d \in history : FinalFor(r, d) /\ LatestFor(r, d)'
  BY <1>1 DEF Entry, FinalFor, LatestFor
<1> QED
  BY <1>1, <1>2, EndsWell

\* A statement that fails, dies or is refused leaves no entry.
LEMMA EndsBadly ==
  ASSUME IInv, IInv', HistoryInv, NEW p \in Proc, pc[p] # "idle", Forget(p), history' = history,
         NEW table, NEW R, Added(table, R), Writes(table, R, cmd[p])
  PROVE  HistoryInv'
<1>1. \A r \in history' \ history : FALSE
  OBVIOUS
<1> QED
  BY <1>1, StatementEnds

------------------------------------------------------------------------------
(* The life of a statement.                                                  *)

LEMMA NobodyMoves ==
  ASSUME IInv, IInv', HistoryInv, UNCHANGED <<clock, todo, local, history>>,
         NEW table, table \notin {"snapshots", "models", "policies"}, NEW R, Added(table, R)
  PROVE  HistoryInv'
<1>1. TypeOK /\ TypeOK'
  BY DEF IInv
<1>2. Writes(table, R, Idle)
  BY DEF Writes
<1>3. clock' = clock /\ clock \in Nat
  BY <1>1 DEF TypeOK
<1>4. OnlyBy(Idle) /\ RowsSay' /\ Idle \notin Ended
  BY <1>1, <1>2, <1>3, RowsWritten, EndedCommands DEF HistoryInv
<1>5. Remembers(Idle) /\ history' = history
  BY DEF Remembers
<1>6. ASSUME NEW q \in Proc
      PROVE  Under(q)'
  <2>1. Rests(q) /\ Under(q)
    BY DEF local, Rests, HistoryInv
  <2> QED
    BY <1>1, <1>3, <1>4, <1>5, <2>1, UnderKept
<1>7. \A d \in history' : Done(d)'
  BY <1>4, <1>5, DoneKept DEF HistoryInv
<1>8. LatestWins' /\ DropIsFinal'
  BY <1>4, <1>5, <1>7, PropertiesKept
<1>9. after' \in [Proc -> SUBSET Commands]
  BY DEF HistoryInv, local
<1> QED
  BY <1>4, <1>6, <1>7, <1>8, <1>9 DEF HistoryInv

\* A statement begins in the directory, where what ended has done what it does.
LEMMA BeginRemembers ==
  ASSUME IInv, IInv', HistoryInv, NEW p \in Proc, NEW c \in todo, Begin(p, c)
  PROVE  HistoryInv'
<1>1. TypeOK /\ TypeOK' /\ Added("none", {}) /\ Writes("none", {}, Idle)
  BY NothingAdded DEF IInv, Begin, Writes
<1>2. clock' = clock /\ clock \in Nat /\ todo' \subseteq todo /\ history' = history /\ disk' = disk
  BY <1>1 DEF TypeOK, Begin
<1>3. OnlyBy(Idle) /\ RowsSay' /\ Idle \notin Ended
  BY <1>1, <1>2, RowsWritten, EndedCommands DEF HistoryInv
<1>4. Remembers(Idle) /\ Ended' = Ended
  BY <1>2 DEF Remembers, Ended
<1>5. /\ pc'[p] = "list" /\ cmd'[p] = c /\ view'[p] = disk /\ stamp' = stamp
      /\ \A q \in Proc \ {p} : pc'[q] = pc[q] /\ cmd'[q] = cmd[q] /\ view'[q] = view[q]
  BY <1>1 DEF Begin, TypeOK
<1>6. after' \in [Proc -> SUBSET Commands] /\ after'[p] = Ended /\ \A q \in Proc \ {p} : after'[q] = after[q]
  BY EndedCommands DEF HistoryInv, Begin, Ended
<1>7. ASSUME NEW q \in Proc, q # p
      PROVE  Under(q)'
  <2>1. Rests(q) /\ Under(q)
    BY <1>5, <1>6, <1>7 DEF Rests, HistoryInv
  <2> QED
    BY <1>1, <1>2, <1>3, <1>4, <2>1, UnderKept
<1>8. \A d \in history' : Done(d)'
  BY <1>2, <1>3, <1>4, DoneKept DEF HistoryInv
<1>9. Under(p)'
  <2>1. Doing(p)' /\ Dropping(p)'
    BY <1>5 DEF Doing, Dropping
  <2>2. Began(p)'
    <3>1. c \notin Ended
      BY DEF HistoryInv, Done, Ended
    <3>2. \A e : /\ SnapshotOf(disk, e) \subseteq Rows(disk, "snapshots")
                 /\ VersionOf(disk, e) \subseteq Rows(disk, "models")
                 /\ PolicyOf(disk, e) \subseteq Rows(disk, "policies")
      BY DEF SnapshotOf, VersionOf, PolicyOf
    <3> QED
      BY <1>2, <1>4, <1>5, <1>6, <3>1, <3>2 DEF Began
  <2>3. Sees(p)'
    BY <1>2, <1>5, <1>6 DEF Sees, HistoryInv, Done
  <2>4. Follows(p)'
    BY <1>2, <1>5 DEF Follows, Stamped, HistoryInv, Under
  <2> QED
    BY <2>1, <2>2, <2>3, <2>4 DEF Under
<1>10. LatestWins' /\ DropIsFinal'
  BY <1>2, <1>3, <1>4, <1>8, PropertiesKept
<1> QED
  BY <1>3, <1>6, <1>7, <1>8, <1>9, <1>10 DEF HistoryInv

\* The rows of those it follows are in its catalog already.
LEMMA ListedRemembers ==
  ASSUME IInv, IInv', HistoryInv, NEW p \in Proc, Listed(p)
  PROVE  HistoryInv'
<1>1. TypeOK /\ TypeOK' /\ Added("none", {}) /\ Writes("none", {}, Idle)
  BY NothingAdded DEF IInv, Listed, Writes
<1>2. clock' = clock /\ clock \in Nat /\ todo' = todo /\ history' = history /\ disk' = disk
  BY <1>1 DEF TypeOK, Listed
<1>3. OnlyBy(Idle) /\ RowsSay' /\ Idle \notin Ended
  BY <1>1, <1>2, RowsWritten, EndedCommands DEF HistoryInv
<1>4. Remembers(Idle) /\ Ended' = Ended
  BY <1>2 DEF Remembers, Ended
<1>5. /\ pc[p] = "list" /\ pc'[p] = "run" /\ view[p] \subseteq view'[p] /\ view'[p] \subseteq disk
      /\ UNCHANGED <<cmd, stamp, after>>
      /\ \A q \in Proc \ {p} : pc'[q] = pc[q] /\ view'[q] = view[q]
  BY <1>1 DEF Listed, TypeOK
<1>6. ASSUME NEW q \in Proc, q # p
      PROVE  Under(q)'
  <2>1. Rests(q) /\ Under(q)
    BY <1>5, <1>6 DEF Rests, HistoryInv
  <2> QED
    BY <1>1, <1>2, <1>3, <1>4, <2>1, UnderKept
<1>7. \A d \in history' : Done(d)'
  BY <1>2, <1>3, <1>4, DoneKept DEF HistoryInv
<1>8. Under(p)'
  <2>1. Doing(p)' /\ Dropping(p)'
    BY <1>5 DEF Doing, Dropping
  <2>2. Under(p)
    BY DEF HistoryInv
  <2>3. \A t : Rows(view[p], t) \subseteq Rows(view'[p], t) /\ Rows(view'[p], t) \subseteq Rows(disk, t)
    BY <1>5, RowsMonotone
  <2>4. Began(p)'
    BY <1>2, <1>4, <1>5, <2>2, <2>3 DEF Under, Began
  <2>5. ASSUME NEW e \in after[p]
        PROVE  /\ SnapshotGone(view[p], e) => SnapshotGone(view'[p], e)
               /\ VersionGone(view[p], e) => VersionGone(view'[p], e)
    <3>1. SnapshotOf(view'[p], e) = SnapshotOf(view[p], e) /\ VersionOf(view'[p], e) = VersionOf(view[p], e)
      BY <2>2, <2>3, <2>5 DEF Under, Began, SnapshotOf, VersionOf
    <3> QED
      BY <2>3, <3>1 DEF SnapshotGone, VersionGone
  <2>6. Sees(p)'
    BY <1>2, <1>5, <2>2, <2>5 DEF Under, Sees
  <2>7. Follows(p)'
    BY <1>2, <1>5, <2>2 DEF Under, Follows, Stamped
  <2> QED
    BY <2>1, <2>4, <2>6, <2>7 DEF Under
<1>9. LatestWins' /\ DropIsFinal'
  BY <1>2, <1>3, <1>4, <1>7, PropertiesKept
<1>10. after' \in [Proc -> SUBSET Commands]
  BY <1>5 DEF HistoryInv
<1> QED
  BY <1>3, <1>6, <1>7, <1>8, <1>9, <1>10 DEF HistoryInv

------------------------------------------------------------------------------
(* The statements.                                                           *)

\* A statement goes on, and writes nothing that is dropped or replaced.
LEMMA GoesOnQuietly ==
  ASSUME IInv, IInv', HistoryInv, NEW p \in Proc, pc[p] # "idle",
         NEW place \in Places \ {"idle", "policies", "tombstone"}, Goto(p, place),
         Stamp(p) \/ (NoStamp /\ place \in {"nodes", "edges", "failure"}),
         place = "model" => cmd[p].do = "create",
         place \in {"nodes", "edges", "row", "failure"} =>
           cmd[p].do = "make" /\ LatestModel(view[p], cmd[p].model) # {},
         place = "tombs" => cmd[p].do \in {"drop", "drop snapshot"},
         place = "policy" => cmd[p].do \in {"alter policy", "delete policy"},
         NEW table, table \notin {"snapshots", "models", "policies"}, NEW R, Added(table, R)
  PROVE  HistoryInv'
<1>1. GoesTo(p, place)
  BY GotoMoves DEF IInv, Added
<1>2. pc'[p] = place /\ cmd'[p] = cmd[p] /\ view'[p] = view[p]
  BY <1>1 DEF GoesTo
<1>3. LatestModel(view'[p], cmd'[p].model) = LatestModel(view[p], cmd[p].model)
  BY <1>2
<1>4. Doing(p)'
  BY <1>2, <1>3 DEF Doing
<1>5. Dropping(p)'
  BY <1>2 DEF Dropping
<1>6. Stamped(p)' => place \notin {"nodes", "edges", "failure"}
  BY <1>2 DEF Stamped
<1>7. Writes(table, R, cmd[p])
  BY DEF Writes
<1> QED
  BY <1>4, <1>5, <1>6, <1>7, GoesOn

LEMMA FirstSteps ==
  ASSUME IInv, IInv', HistoryInv, NEW p \in Proc,
         \/ CreateOrAlter(p) \/ MakeSnapshot(p) \/ Drop(p) \/ ChangePolicy(p) \/ Abort(p)
  PROVE  HistoryInv'
<1>1. ASSUME Refuse(p) \/ Abort(p), pc[p] # "idle"
      PROVE  HistoryInv'
  <2>1. Forget(p) /\ history' = history /\ Added("none", {}) /\ Writes("none", {}, cmd[p])
    BY <1>1, NothingAdded DEF Refuse, Abort, Writes
  <2> QED
    BY <1>1, <2>1, EndsBadly
<1>2. CASE CreateOrAlter(p)
  BY <1>2, NothingAdded, GoesOnQuietly DEF CreateOrAlter, Runs, Places
<1>3. CASE MakeSnapshot(p)
  <2>1. pc[p] = "run" /\ cmd[p].do = "make"
    BY <1>3 DEF MakeSnapshot, Runs
  <2>2. \/ Refuse(p)
        \/ /\ LatestModel(view[p], cmd[p].model) # {}
           /\ (Goto(p, "nodes") \/ Goto(p, "failure")) /\ NoStamp /\ UNCHANGED disk
    BY <1>3 DEF MakeSnapshot
  <2> QED
    BY <1>1, <2>1, <2>2, NothingAdded, GoesOnQuietly DEF Places
<1>4. CASE Drop(p)
  <2>1. pc[p] = "run" /\ cmd[p].do \in {"drop", "drop snapshot"}
    BY <1>4 DEF Drop, Runs
  <2>2. Refuse(p) \/ (Stamp(p) /\ Goto(p, "tombs") /\ UNCHANGED disk)
    BY <1>4 DEF Drop
  <2> QED
    BY <1>1, <2>1, <2>2, NothingAdded, GoesOnQuietly DEF Places
<1>5. CASE ChangePolicy(p)
  <2>1. pc[p] = "run" /\ cmd[p].do \in {"alter policy", "delete policy"}
    BY <1>5 DEF ChangePolicy, Runs
  <2>2. Refuse(p) \/ (Stamp(p) /\ Goto(p, "policy") /\ UNCHANGED disk)
    BY <1>5 DEF ChangePolicy
  <2> QED
    BY <1>1, <2>1, <2>2, NothingAdded, GoesOnQuietly DEF Places
<1>6. CASE Abort(p)
  BY <1>1, <1>6 DEF Abort
<1> QED
  BY <1>2, <1>3, <1>4, <1>5, <1>6

LEMMA MakeSteps ==
  ASSUME IInv, IInv', HistoryInv, NEW p \in Proc, AppendNodes(p) \/ AppendEdges(p) \/ RecordFailure(p)
  PROVE  HistoryInv'
<1>1. pc[p] \in {"nodes", "edges"} => cmd[p].do = "make" /\ LatestModel(view[p], cmd[p].model) # {}
  BY DEF HistoryInv, Under, Doing
<1>2. CASE AppendNodes(p)
  <2>1. PICK R : Added("nodes", R)
    BY <1>2, AppendAdds DEF AppendNodes
  <2>2. pc[p] = "nodes" /\ Goto(p, "edges") /\ NoStamp
    BY <1>2 DEF AppendNodes
  <2> QED
    BY <1>1, <2>1, <2>2, GoesOnQuietly DEF Places
<1>3. CASE AppendEdges(p)
  <2>1. PICK R : Added("edges", R)
    BY <1>3, AppendAdds DEF AppendEdges
  <2>2. pc[p] = "edges" /\ Goto(p, "row") /\ Stamp(p)
    BY <1>3 DEF AppendEdges
  <2> QED
    BY <1>1, <2>1, <2>2, GoesOnQuietly DEF Places
<1>4. CASE RecordFailure(p)
  <2>1. PICK R : Added("failures", R)
    BY <1>4, AppendAdds DEF RecordFailure
  <2>2. pc[p] = "failure" /\ Forget(p) /\ history' = history /\ Writes("failures", R, cmd[p])
    BY <1>4 DEF RecordFailure, Writes
  <2> QED
    BY <2>1, <2>2, EndsBadly
<1> QED
  BY <1>2, <1>3, <1>4

\* The time a statement took is one of those that were.
LEMMA StampOf ==
  ASSUME IInv, HistoryInv, NEW p \in Proc
  PROVE  stamp[p] \in Nat /\ stamp[p] <= clock
BY DEF IInv, TypeOK, HistoryInv, Under, Follows

\* The row of a snapshot is its statement's first, and after those of others.
LEMMA AppendSnapshotRemembers ==
  ASSUME IInv, IInv', HistoryInv, NEW p \in Proc, AppendSnapshot(p)
  PROVE  HistoryInv'
<1> DEFINE c == cmd[p]
           row(v) == [model |-> c.model, name |-> c.name, of |-> v.id, guid |-> c, deleted |-> FALSE, at |-> stamp[p]]
           R == {row(v) : v \in LatestModel(view[p], c.model)}
<1>1. pc[p] = "row" /\ End(p, NoGraph) /\ Added("snapshots", R)
  BY AppendAdds DEF AppendSnapshot
<1>2. c.do = "make" /\ LatestModel(view[p], c.model) # {}
  BY <1>1 DEF HistoryInv, Under, Doing
<1>3. R # {} /\ \A s \in R : /\ s.guid = c /\ ~s.deleted /\ s.at = stamp[p]
                             /\ s.model = c.model /\ s.name = c.name
  <2>1. \A v : /\ row(v).guid = c /\ ~row(v).deleted /\ row(v).at = stamp[p]
               /\ row(v).model = c.model /\ row(v).name = c.name
    OBVIOUS
  <2> HIDE DEF row
  <2> QED
    BY <1>2, <2>1
<1>4. Writes("snapshots", R, c)
  <2> HIDE DEF R
  <2> QED
    BY <1>2, <1>3, StampOf DEF Writes, SnapshotSays
<1>5. SnapshotOf(disk', c) = R
  <2> HIDE DEF R
  <2>1. NotNamed(c)
    BY <1>1 DEF IInv, Progress
  <2> QED
    BY <1>1, <1>3, <2>1 DEF Added, NotNamed, SnapshotOf
<1>6. ASSUME NEW e \in after[p], NEW r \in SnapshotOf(disk', e)
      PROVE  r.at < stamp[p]
  <2>1. e # c
    BY <1>1, <1>6, OwnUnended DEF HistoryInv, Under, Began
  <2>2. r \in SnapshotOf(disk, e)
    <3> HIDE DEF R
    <3> QED
      BY <1>1, <1>3, <1>6, <2>1 DEF Added, SnapshotOf
  <2> QED
    BY <1>1, <1>6, <2>2 DEF HistoryInv, Under, Follows, Stamped
<1>7. HasDone(p)
  <2> HIDE DEF R
  <2>1. \A e : ~EndsSnapshots(c, e) /\ ~EndsVersions(c, e)
    BY <1>2 DEF EndsSnapshots, EndsVersions, Drops
  <2> QED
    BY <1>2, <1>3, <1>5, <1>6, <2>1 DEF HasDone
<1> HIDE DEF R
<1> QED
  BY <1>1, <1>4, <1>7, EndsWithoutGraph

\* A row that is added with a time just taken is newer than those of statements before.
LEMMA NewerThanThose ==
  ASSUME IInv, HistoryInv, NEW p \in Proc, Stamped(p), NEW e \in after[p],
         NEW r \in SnapshotOf(disk, e) \cup VersionOf(disk, e) \cup PolicyOf(disk, e)
  PROVE  stamp[p] > r.at
<1>1. r.at < stamp[p]
  BY DEF HistoryInv, Under, Follows
<1> QED
  BY <1>1

\* A version, or a tombstone of the model, ends the versions before it.
LEMMA VersionsEnd ==
  ASSUME IInv, HistoryInv, NEW p \in Proc, Stamped(p), NEW n, n.model = cmd[p].model, n.at = stamp[p],
         n.deleted \/ n.id = cmd[p], Rows(disk', "models") = Rows(disk, "models") \cup {n},
         NEW e \in after[p], EndsVersions(cmd[p], e)
  PROVE  VersionGone(disk', e)
<1> SUFFICES ASSUME NEW m \in VersionOf(disk', e)
             PROVE  \E k \in Rows(disk', "models") : k.model = m.model /\ k.at > m.at
  BY DEF VersionGone
<1>1. e # cmd[p]
  BY OwnUnended DEF Stamped, HistoryInv, Under, Began
<1>2. m \in VersionOf(disk, e)
  BY <1>1 DEF VersionOf
<1>3. m.model = cmd[p].model
  BY <1>2 DEF VersionOf, HistoryInv, RowsSay, ModelSays, EndsVersions
<1>4. n.at > m.at
  BY <1>2, NewerThanThose
<1> QED
  BY <1>3, <1>4

LEMMA AppendModelRemembers ==
  ASSUME IInv, IInv', HistoryInv, NEW p \in Proc, AppendModel(p)
  PROVE  HistoryInv'
<1> DEFINE n == [model |-> cmd[p].model, id |-> cmd[p], deleted |-> FALSE, at |-> stamp[p]]
<1>1. pc[p] = "model" /\ End(p, NoGraph) /\ Added("models", {n})
  BY AppendAdds DEF AppendModel
<1>2. cmd[p].do = "create" /\ cmd[p] \in Commands
  BY <1>1, OwnStatement DEF HistoryInv, Under, Doing, IInv
<1>3. n.model = cmd[p].model /\ n.id = cmd[p] /\ ~n.deleted /\ n.at = stamp[p]
  OBVIOUS
<1> HIDE DEF n
<1>4. Writes("models", {n}, cmd[p])
  BY <1>2, <1>3, StampOf DEF Writes, ModelSays
<1>5. ASSUME NEW e \in after[p], EndsVersions(cmd[p], e)
      PROVE  VersionGone(disk', e)
  BY <1>1, <1>3, <1>5, VersionsEnd DEF Stamped, Added
<1>6. HasDone(p)
  BY <1>2, <1>5 DEF HasDone, EndsSnapshots, Drops
<1> QED
  BY <1>1, <1>4, <1>6, EndsWithoutGraph

\* Every policy there was is deleted, or has a newer one beside it.
LEMMA AppendPolicyTombsRemembers ==
  ASSUME IInv, IInv', HistoryInv, NEW p \in Proc, AppendPolicyTombs(p)
  PROVE  HistoryInv'
<1> DEFINE m == cmd[p].model
           n == [model |-> m, by |-> cmd[p], deleted |-> TRUE, at |-> stamp[p]]
           R == {n : r \in Policies(view[p], m)}
<1>1. pc[p] = "policies" /\ Goto(p, "tombstone") /\ NoStamp /\ Added("policies", R)
  BY AppendAdds DEF AppendPolicyTombs
<1>2. n.model = m /\ n.by = cmd[p] /\ n.deleted /\ n.at = stamp[p]
  OBVIOUS
<1>3. R \subseteq {n} /\ (Policies(view[p], m) # {} => R = {n})
  OBVIOUS
<1> HIDE DEF n, R
<1>4. GoesTo(p, "tombstone")
  BY <1>1, GotoMoves DEF IInv, Added, Places
<1>5. Writes("policies", R, cmd[p])
  BY <1>2, <1>3, StampOf DEF Writes, PolicySays
<1>6. ASSUME NEW e \in after[p]
      PROVE  PolicyGone(disk', e, m)
  <2> SUFFICES ASSUME NEW r \in PolicyOf(disk', e), r.model = m, ~r.deleted
               PROVE  \E s \in Rows(disk', "policies") : s.model = m /\ s.at > r.at
    BY DEF PolicyGone
  <2>1. e # cmd[p]
    BY <1>1, OwnUnended DEF HistoryInv, Under, Began
  <2>2. r \in PolicyOf(disk, e)
    BY <1>1, <1>2, <1>3, <2>1 DEF PolicyOf, Added
  <2>3. r \in Rows(view[p], "policies")
    BY <2>2 DEF HistoryInv, Under, Began
  <2>4. CASE Policies(view[p], m) # {}
    <3>1. n \in Rows(disk', "policies")
      BY <1>1, <1>3, <2>4 DEF Added
    <3>2. stamp[p] > r.at
      BY <1>1, <2>2, NewerThanThose DEF Stamped
    <3> QED
      BY <1>2, <3>1, <3>2
  <2>5. CASE Policies(view[p], m) = {}
    <3>1. r \notin Newest(Of(view[p], "policies", m))
      BY <2>5 DEF Policies
    <3>2. PICK s \in Of(view[p], "policies", m) : ~(s.at <= r.at)
      BY <2>3, <3>1 DEF Newest, Of
    <3>3. s \in Rows(disk, "policies") /\ s.model = m
      <4>1. view[p] \subseteq disk
        BY DEF IInv, TypeOK
      <4> QED
        BY <3>2, <4>1, RowsMonotone DEF Of
    <3>4. s.at \in Nat /\ r.at \in Nat
      BY <2>2, <3>3 DEF PolicyOf, HistoryInv, RowsSay, PolicySays
    <3>5. s \in Rows(disk', "policies")
      BY <1>1, <3>3 DEF Added
    <3> QED
      BY <3>2, <3>3, <3>4, <3>5
  <2> QED
    BY <2>4, <2>5
<1>7. Doing(p)'
  BY <1>1, <1>4 DEF GoesTo, Doing, HistoryInv, Under
<1>8. Dropping(p)'
  <2>1. ASSUME NEW e \in after[p], EndsSnapshots(cmd[p], e)
        PROVE  SnapshotGone(disk', e)
    <3>1. SnapshotGone(disk, e)
      BY <1>1, <2>1 DEF HistoryInv, Under, Dropping
    <3>2. Rows(disk', "snapshots") = Rows(disk, "snapshots")
      BY <1>1 DEF Added
    <3> QED
      BY <3>1, <3>2 DEF SnapshotGone, SnapshotOf
  <2>2. pc'[p] = "tombstone" /\ cmd' = cmd /\ after' = after
    BY <1>1, <1>4 DEF GoesTo, Goto
  <2> QED
    BY <1>6, <2>1, <2>2 DEF Dropping
<1>9. Stamped(p)
  BY <1>1 DEF Stamped
<1> QED
  BY <1>1, <1>5, <1>7, <1>8, <1>9, GoesOn DEF Places

LEMMA AppendTombstoneRemembers ==
  ASSUME IInv, IInv', HistoryInv, NEW p \in Proc, AppendTombstone(p)
  PROVE  HistoryInv'
<1> DEFINE n == [model |-> cmd[p].model, id |-> Idle, deleted |-> TRUE, at |-> stamp[p]]
<1>1. pc[p] = "tombstone" /\ End(p, NoGraph) /\ Added("models", {n})
  BY AppendAdds DEF AppendTombstone
<1>2. cmd[p].do = "drop"
  BY <1>1 DEF HistoryInv, Under, Doing
<1>3. n.model = cmd[p].model /\ n.deleted /\ n.at = stamp[p]
  OBVIOUS
<1> HIDE DEF n
<1>4. Writes("models", {n}, cmd[p])
  BY <1>3, StampOf DEF Writes, ModelSays
<1>5. ASSUME NEW e \in after[p], EndsVersions(cmd[p], e)
      PROVE  VersionGone(disk', e)
  BY <1>1, <1>3, <1>5, VersionsEnd DEF Stamped, Added
<1>6. ASSUME NEW e \in after[p]
      PROVE  /\ EndsSnapshots(cmd[p], e) => SnapshotGone(disk', e)
             /\ PolicyGone(disk', e, cmd[p].model)
  <2>1. /\ EndsSnapshots(cmd[p], e) => SnapshotGone(disk, e)
        /\ PolicyGone(disk, e, cmd[p].model)
    BY <1>1 DEF HistoryInv, Under, Dropping
  <2>2. Rows(disk', "snapshots") = Rows(disk, "snapshots") /\ Rows(disk', "policies") = Rows(disk, "policies")
    BY <1>1 DEF Added
  <2> QED
    BY <2>1, <2>2 DEF SnapshotGone, SnapshotOf, PolicyGone, PolicyOf
<1>7. HasDone(p)
  BY <1>2, <1>5, <1>6 DEF HasDone
<1> QED
  BY <1>1, <1>4, <1>7, EndsWithoutGraph

LEMMA AppendPolicyRemembers ==
  ASSUME IInv, IInv', HistoryInv, NEW p \in Proc, AppendPolicy(p)
  PROVE  HistoryInv'
<1> DEFINE n == [model |-> cmd[p].model, by |-> cmd[p], deleted |-> cmd[p].do = "delete policy", at |-> stamp[p]]
<1>1. pc[p] = "policy" /\ End(p, NoGraph) /\ Added("policies", {n})
  BY AppendAdds DEF AppendPolicy
<1>2. cmd[p].do \in {"alter policy", "delete policy"}
  BY <1>1 DEF HistoryInv, Under, Doing
<1>3. n.by = cmd[p] /\ n.at = stamp[p]
  OBVIOUS
<1> HIDE DEF n
<1>4. Writes("policies", {n}, cmd[p])
  BY <1>3, StampOf DEF Writes, PolicySays
<1>5. HasDone(p)
  BY <1>2 DEF HasDone, EndsSnapshots, EndsVersions, Drops
<1> QED
  BY <1>1, <1>4, <1>5, EndsWithoutGraph

\* A snapshot that counts gets a tombstone; one that does not has a newer row already.
LEMMA TombsEnd ==
  ASSUME IInv, HistoryInv, NEW p \in Proc, pc[p] = "tombs", Added("snapshots", Tombs(p)),
         NEW e \in after[p], EndsSnapshots(cmd[p], e)
  PROVE  SnapshotGone(disk', e)
<1> DEFINE m == cmd[p].model
<1> SUFFICES ASSUME NEW s \in SnapshotOf(disk', e)
             PROVE  \E t \in Rows(disk', "snapshots") : t.model = s.model /\ t.name = s.name /\ t.at > s.at
  BY DEF SnapshotGone
<1>1. \A t \in Tombs(p) : t.deleted
  <2>1. ASSUME NEW x \in Snapshots(view[p], m)
        PROVE  [x EXCEPT !.deleted = TRUE, !.at = stamp[p]].deleted
    <3>1. x \in SnapshotRow
      <4>1. view[p] \subseteq disk
        BY DEF IInv, TypeOK
      <4> QED
        BY <4>1, RowsMonotone DEF Snapshots, Of, IInv, TypeOK
    <3> QED
      BY <3>1 DEF SnapshotRow
  <2> QED
    BY <2>1 DEF Tombs
<1>2. s \in SnapshotOf(disk, e)
  BY <1>1 DEF SnapshotOf, Added
<1>3. s \in Rows(view[p], "snapshots") /\ ~s.deleted
  BY <1>2 DEF HistoryInv, Under, Began, SnapshotOf
<1>4. s.model = m /\ s.name = e.name /\ cmd[p].name \in {Unnamed, s.name}
  <2>1. s.model = e.model /\ s.name = e.name
    BY <1>2 DEF SnapshotOf, HistoryInv, RowsSay, SnapshotSays
  <2>2. cmd[p].do = "drop" => cmd[p].name = Unnamed
    BY OwnStatement DEF IInv, Commands
  <2> QED
    BY <2>1, <2>2 DEF EndsSnapshots, Drops
<1>5. s \in SnapshotRow /\ stamp[p] \in Nat
  BY <1>2 DEF SnapshotOf, IInv, TypeOK
<1>6. CASE s \in Snapshots(view[p], m)
  <2>1. PICK t : t = [s EXCEPT !.deleted = TRUE, !.at = stamp[p]]
    OBVIOUS
  <2>2. t.model = s.model /\ t.name = s.name /\ t.at = stamp[p]
    BY <1>5, <2>1 DEF SnapshotRow
  <2>3. t \in Rows(disk', "snapshots")
    BY <1>4, <1>6, <2>1 DEF Tombs, Added
  <2>4. stamp[p] > s.at
    BY <1>2, NewerThanThose DEF Stamped
  <2> QED
    BY <2>2, <2>3, <2>4
<1>7. CASE s \notin Snapshots(view[p], m)
  <2>1. PICK t \in Of(view[p], "snapshots", m) : t.name = s.name /\ ~(t.at <= s.at)
    BY <1>3, <1>4, <1>7 DEF Snapshots, Newest, Of
  <2>2. t \in Rows(disk, "snapshots") /\ t.model = m
    <3>1. view[p] \subseteq disk
      BY DEF IInv, TypeOK
    <3> QED
      BY <2>1, <3>1, RowsMonotone DEF Of
  <2>3. t.at \in Nat /\ s.at \in Nat
    BY <1>5, <2>2 DEF IInv, TypeOK, SnapshotRow
  <2>4. t \in Rows(disk', "snapshots")
    BY <2>2 DEF Added
  <2> QED
    BY <1>4, <2>1, <2>2, <2>3, <2>4
<1> QED
  BY <1>6, <1>7

LEMMA TombsSay ==
  ASSUME IInv, HistoryInv, NEW p \in Proc
  PROVE  Writes("snapshots", Tombs(p), cmd[p])
<1>1. ASSUME NEW t \in Tombs(p)
      PROVE  t.deleted /\ SnapshotSays(t, clock)
  <2>1. PICK s \in Snapshots(view[p], cmd[p].model) : t = [s EXCEPT !.deleted = TRUE, !.at = stamp[p]]
    BY DEF Tombs
  <2>2. s \in Rows(disk, "snapshots")
    <3>1. view[p] \subseteq disk
      BY DEF IInv, TypeOK
    <3> QED
      BY <3>1, RowsMonotone DEF Snapshots, Of
  <2>3. s \in SnapshotRow
    BY <2>2 DEF IInv, TypeOK
  <2>4. t.deleted /\ t.at = stamp[p] /\ t.guid = s.guid /\ t.model = s.model /\ t.name = s.name
    BY <2>1, <2>3 DEF SnapshotRow
  <2>5. SnapshotSays(s, clock)
    BY <2>2 DEF HistoryInv, RowsSay
  <2> QED
    BY <2>4, <2>5, StampOf DEF SnapshotSays
<1> QED
  BY <1>1 DEF Writes

LEMMA AppendTombsRemembers ==
  ASSUME IInv, IInv', HistoryInv, NEW p \in Proc, AppendTombs(p)
  PROVE  HistoryInv'
<1>1. pc[p] = "tombs" /\ Added("snapshots", Tombs(p)) /\ Writes("snapshots", Tombs(p), cmd[p])
  BY AppendAdds, TombsSay DEF AppendTombs
<1>2. \A e \in after[p] : EndsSnapshots(cmd[p], e) => SnapshotGone(disk', e)
  BY <1>1, TombsEnd
<1>3. cmd[p].do \in {"drop", "drop snapshot"}
  BY <1>1 DEF HistoryInv, Under, Doing
<1>4. CASE cmd[p].do = "drop" /\ Stamp(p) /\ Goto(p, "policies")
  <2>1. GoesTo(p, "policies") /\ after' = after
    BY <1>1, <1>4, GotoMoves DEF IInv, Added, Places, Goto
  <2>2. Doing(p)'
    BY <1>4, <2>1 DEF GoesTo, Doing
  <2>3. Dropping(p)'
    BY <1>2, <2>1 DEF GoesTo, Dropping
  <2> QED
    BY <1>1, <1>4, <2>2, <2>3, GoesOn DEF Places
<1>5. CASE cmd[p].do # "drop" /\ End(p, NoGraph)
  <2>1. HasDone(p)
    BY <1>2, <1>3, <1>5 DEF HasDone, EndsVersions
  <2> QED
    BY <1>1, <1>5, <2>1, EndsWithoutGraph
<1> QED
  BY <1>4, <1>5 DEF AppendTombs

------------------------------------------------------------------------------
(* Readers.                                                                  *)

\* What is read counts in the catalog of the reader, and so was not ended before.
LEMMA ReadsWhatCounts ==
  ASSUME IInv, HistoryInv, NEW p \in Proc, NEW d \in history, d.cmd \in after[p], NEW e \in d.after
  PROVE  /\ EndsSnapshots(d.cmd, e) => \A s \in Snapshots(view[p], d.cmd.model) : s.guid # e
         /\ EndsVersions(d.cmd, e) => \A v \in LatestModel(view[p], d.cmd.model) : v.id # e
<1>1. view[p] \subseteq disk
  BY DEF IInv, TypeOK
<1>2. \A t : Rows(view[p], t) \subseteq Rows(disk, t)
  BY <1>1, RowsMonotone
<1>3. ASSUME EndsSnapshots(d.cmd, e), NEW s \in Snapshots(view[p], d.cmd.model), s.guid = e
      PROVE  FALSE
  <2>1. SnapshotGone(view[p], e)
    BY <1>3 DEF HistoryInv, Under, Sees
  <2>2. s \in SnapshotOf(view[p], e) /\ s.model = d.cmd.model
    BY <1>3 DEF Snapshots, Of, SnapshotOf
  <2>3. PICK t \in Rows(view[p], "snapshots") : t.model = s.model /\ t.name = s.name /\ t.at > s.at
    BY <2>1, <2>2 DEF SnapshotGone
  <2>4. t.at <= s.at
    BY <1>3, <2>2, <2>3 DEF Snapshots, Newest, Of
  <2>5. t.at \in Nat /\ s.at \in Nat
    BY <1>2, <2>2, <2>3 DEF SnapshotOf, IInv, TypeOK, SnapshotRow
  <2> QED
    BY <2>3, <2>4, <2>5
<1>4. ASSUME EndsVersions(d.cmd, e), NEW v \in LatestModel(view[p], d.cmd.model), v.id = e
      PROVE  FALSE
  <2>1. VersionGone(view[p], e)
    BY <1>4 DEF HistoryInv, Under, Sees
  <2>2. v \in VersionOf(view[p], e) /\ v.model = d.cmd.model
    BY <1>4 DEF LatestModel, Newest, Of, VersionOf
  <2>3. PICK n \in Rows(view[p], "models") : n.model = v.model /\ n.at > v.at
    BY <2>1, <2>2 DEF VersionGone
  <2>4. n.at <= v.at
    BY <1>4, <2>2, <2>3 DEF LatestModel, Newest, Of
  <2>5. n.at \in Nat /\ v.at \in Nat
    BY <1>2, <2>2, <2>3 DEF VersionOf, IInv, TypeOK, ModelRow
  <2> QED
    BY <2>3, <2>4, <2>5
<1> QED
  BY <1>3, <1>4

\* The newest snapshot is not older than one that was made, unless that was dropped.
LEMMA ReadsTheLatest ==
  ASSUME IInv, HistoryInv, NEW p \in Proc, NEW d \in history, d.cmd \in after[p], d.cmd.do = "make",
         NEW e \in d.after, NEW s \in Newest(Snapshots(view[p], d.cmd.model)), s.guid = e
  PROVE  DroppedSince(d.cmd)
<1> SUFFICES ASSUME ~DroppedSince(d.cmd)
             PROVE  FALSE
  OBVIOUS
<1> DEFINE m == d.cmd.model
<1>1. \A t : Rows(view[p], t) \subseteq Rows(disk, t)
  BY RowsMonotone DEF IInv, TypeOK
<1>2. s \in SnapshotOf(disk, e)
  BY <1>1 DEF Newest, Snapshots, Of, SnapshotOf
<1>3. PICK x \in SnapshotOf(disk, d.cmd) : s.at < x.at
  BY <1>2 DEF HistoryInv, Done
<1>4. x \in Rows(view[p], "snapshots") /\ x.guid = d.cmd /\ ~x.deleted /\ x.model = m
  BY <1>3 DEF HistoryInv, Under, Began, SnapshotOf, RowsSay, SnapshotSays
<1> DEFINE R == {y \in Of(view[p], "snapshots", m) : y.name = x.name}
<1>5. \A y \in R : y \in Rows(disk, "snapshots") /\ y.at \in Nat /\ y.at <= clock /\ y.model = m /\ y.name = x.name
  BY <1>1 DEF Of, IInv, TypeOK, SnapshotRow, HistoryInv, RowsSay, SnapshotSays
<1>6. x \in R /\ clock \in Nat
  BY <1>4 DEF Of, IInv, TypeOK
<1>7. PICK y \in R : \A z \in R : z.at <= y.at
  <2> HIDE DEF R
  <2>1. Newest(R) # {}
    BY <1>5, <1>6, NewestIsThere
  <2> QED
    BY <2>1 DEF Newest
\* The newest row of the name, or x if that is as new, counts.
<1>8. PICK z \in R : ~z.deleted /\ x.at <= z.at /\ \A w \in R : w.at <= z.at
  <2>1. CASE ~y.deleted
    BY <1>6, <1>7, <2>1
  <2>2. CASE y.deleted
    <3>1. ~(y.at > x.at)
      BY <1>4, <1>5, <2>2, <1>1 DEF DroppedSince
    <3>2. y.at <= x.at
      BY <1>5, <1>6, <3>1
    <3>3. \A w \in R : w.at <= x.at
      BY <1>5, <1>6, <1>7, <3>2
    <3> QED
      BY <1>4, <1>6, <3>3
  <2> QED
    BY <2>1, <2>2
<1>9. z \in Snapshots(view[p], m)
  <2>1. {w \in Of(view[p], "snapshots", m) : w.name = z.name} = R
    BY <1>8
  <2> QED
    BY <1>8, <2>1 DEF Snapshots, Newest
<1>10. z.at <= s.at
  BY <1>9 DEF Newest
<1>11. z.at \in Nat /\ s.at \in Nat /\ x.at \in Nat
  BY <1>2, <1>5, <1>6, <1>8 DEF SnapshotOf, IInv, TypeOK, SnapshotRow
<1> QED
  BY <1>3, <1>8, <1>10, <1>11

LEMMA GraphRemembers ==
  ASSUME IInv, IInv', HistoryInv, NEW p \in Proc, Graph(p)
  PROVE  HistoryInv'
<1> DEFINE V == view[p]
           m == cmd[p].model
<1>1. pc[p] = "run" /\ cmd[p].do \in {"graph", "transient"}
  BY DEF Graph, Runs
<1>2. CASE Refuse(p)
  <2>1. Forget(p) /\ history' = history /\ Added("none", {}) /\ Writes("none", {}, cmd[p])
    BY <1>2, NothingAdded DEF Refuse, Writes
  <2> QED
    BY <1>1, <2>1, EndsBadly
<1>3. CASE ~Refuse(p)
  <2>1. PICK g : /\ End(p, g) /\ UNCHANGED disk
                 /\ \/ \E s \in Snapshots(V, m) :
                         /\ g = Loaded(V, s)
                         /\ cmd[p].name = Unnamed => s \in Newest(Snapshots(V, m))
                    \/ \E v \in LatestModel(V, m) :
                         g = [nodes |-> Build(V, v.id), edges |-> Build(V, v.id), of |-> v.id, guid |-> Idle]
    BY <1>3 DEF Graph, Newest
  <2>2. PICK r : r = Entry(p, g)
    OBVIOUS
  <2>3. r.cmd = cmd[p] /\ r.after = after[p] /\ r.graph = g
    BY <2>2 DEF Entry
  <2>4. V \subseteq disk
    BY DEF IInv, TypeOK
  <2>5. ASSUME NEW s \in Snapshots(V, m), g = Loaded(V, s), cmd[p].name = Unnamed => s \in Newest(Snapshots(V, m)),
               NEW d \in history
        PROVE  FinalFor(r, d) /\ LatestFor(r, d)'
    <3>1. s \in Rows(disk, "snapshots") /\ s.model = m
      BY <2>4, RowsMonotone DEF Snapshots, Of
    <3>2. s.guid.do = "make" /\ s.guid.model = m /\ s.guid # Idle
      <4>1. s.guid.do = "make" /\ s.guid.model = m
        BY <3>1 DEF HistoryInv, RowsSay, SnapshotSays
      <4>2. Idle.do = ""
        BY DEF Idle
      <4> QED
        BY <4>1, <4>2
    <3>3. Maker(g) = s.guid
      BY <2>5, <3>2 DEF Maker, Loaded
    <3>4. CASE ~Between(s.guid, d, r)
      BY <2>3, <3>3, <3>4 DEF FinalFor, LatestFor
    <3>5. CASE Between(s.guid, d, r)
      <4>1. d.cmd \in after[p] /\ s.guid \in d.after
        BY <2>3, <3>5 DEF Between
      <4>2. d.cmd.model = m => ~EndsSnapshots(d.cmd, s.guid)
        BY <4>1, ReadsWhatCounts
      <4>3. ~Drops(d.cmd, s.guid)
        BY <3>2, <4>2 DEF EndsSnapshots, Drops
      <4>4. d.cmd.model = m /\ d.cmd.do = "make" /\ cmd[p].name = Unnamed => DroppedSince(d.cmd)
        BY <2>5, <4>1, ReadsTheLatest
      <4>5. DroppedSince(d.cmd) => DroppedSince(d.cmd)'
        BY <2>1 DEF DroppedSince
      <4> QED
        BY <2>3, <3>2, <3>3, <4>3, <4>4, <4>5 DEF FinalFor, LatestFor
    <3> QED
      BY <3>4, <3>5
  <2>6. ASSUME NEW v \in LatestModel(V, m), g.guid = Idle, g.of = v.id, NEW d \in history
        PROVE  FinalFor(r, d) /\ LatestFor(r, d)'
    <3>1. v \in Rows(disk, "models") /\ v.model = m /\ ~v.deleted
      BY <2>4, RowsMonotone DEF LatestModel, Newest, Of
    <3>2. v.id.do = "create" /\ v.id.model = m
      BY <3>1 DEF HistoryInv, RowsSay, ModelSays
    <3>3. Maker(g) = v.id
      BY <2>6 DEF Maker
    <3>4. CASE ~Between(v.id, d, r)
      BY <2>3, <3>3, <3>4 DEF FinalFor, LatestFor
    <3>5. CASE Between(v.id, d, r)
      <4>1. d.cmd \in after[p] /\ v.id \in d.after
        BY <2>3, <3>5 DEF Between
      <4>2. d.cmd.model = m => ~EndsVersions(d.cmd, v.id)
        BY <4>1, ReadsWhatCounts
      <4>3. ~Drops(d.cmd, v.id) /\ ~(d.cmd.model = m /\ d.cmd.do = "create")
        BY <3>2, <4>2 DEF EndsVersions, Drops
      <4> QED
        BY <2>3, <3>2, <3>3, <4>3 DEF FinalFor, LatestFor
    <3> QED
      BY <3>4, <3>5
  <2>7. \A d \in history : FinalFor(r, d) /\ LatestFor(r, d)'
    BY <2>1, <2>5, <2>6
  <2>8. HasDone(p)
    BY <1>1 DEF HasDone, EndsSnapshots, EndsVersions, Drops
  <2>9. Added("none", {}) /\ Writes("none", {}, cmd[p])
    BY <2>1, NothingAdded DEF Writes
  <2> QED
    BY <1>1, <2>1, <2>2, <2>7, <2>8, <2>9, EndsWell
<1> QED
  BY <1>2, <1>3

------------------------------------------------------------------------------
(* The theorems.                                                             *)

LEMMA HistoryInit == Init => HistoryInv
<1> SUFFICES ASSUME Init
             PROVE  HistoryInv
  OBVIOUS
<1>1. \A t : Rows(disk, t) = {}
  BY DEF Init, Rows
<1>2. after \in [Proc -> SUBSET Commands] /\ history = {} /\ clock = 0
  BY DEF Init
<1>3. RowsSay
  BY <1>1 DEF RowsSay
<1>4. ASSUME NEW p \in Proc
      PROVE  Under(p)
  <2>1. pc[p] = "idle" /\ after[p] = {} /\ stamp[p] = 0
    BY DEF Init
  <2> QED
    BY <1>2, <2>1 DEF Under, Doing, Began, Sees, Follows, Stamped, Dropping
<1>5. LatestWins /\ DropIsFinal
  BY <1>2 DEF LatestWins, DropIsFinal
<1> QED
  BY <1>2, <1>3, <1>4, <1>5 DEF HistoryInv

LEMMA HistoryNext == IInv /\ IInv' /\ HistoryInv /\ [Next]_vars => HistoryInv'
<1> SUFFICES ASSUME IInv, IInv', HistoryInv, [Next]_vars
             PROVE  HistoryInv'
  OBVIOUS
<1>1. ASSUME NEW f \in Fact, Ingest(f)
      PROVE  HistoryInv'
  <2>1. Added("data", {[fact |-> f]}) /\ UNCHANGED <<clock, todo, local, history>>
    BY <1>1, ExtentAdded DEF Ingest
  <2> QED
    BY <2>1, NobodyMoves
<1>2. ASSUME NEW p \in Proc, NEW c \in todo, Begin(p, c)
      PROVE  HistoryInv'
  BY <1>2, BeginRemembers
<1>3. ASSUME NEW p \in Proc, Listed(p)
      PROVE  HistoryInv'
  BY <1>3, ListedRemembers
<1>4. ASSUME NEW p \in Proc,
             CreateOrAlter(p) \/ MakeSnapshot(p) \/ Drop(p) \/ ChangePolicy(p) \/ Abort(p)
      PROVE  HistoryInv'
  BY <1>4, FirstSteps
<1>5. ASSUME NEW p \in Proc, AppendNodes(p) \/ AppendEdges(p) \/ RecordFailure(p) \/ AppendSnapshot(p)
      PROVE  HistoryInv'
  BY <1>5, MakeSteps, AppendSnapshotRemembers
<1>6. ASSUME NEW p \in Proc, AppendModel(p) \/ AppendTombs(p) \/ AppendPolicyTombs(p) \/ AppendTombstone(p)
      PROVE  HistoryInv'
  BY <1>6, AppendModelRemembers, AppendTombsRemembers, AppendPolicyTombsRemembers, AppendTombstoneRemembers
<1>7. ASSUME NEW p \in Proc, AppendPolicy(p) \/ Graph(p)
      PROVE  HistoryInv'
  BY <1>7, AppendPolicyRemembers, GraphRemembers
<1>8. CASE UNCHANGED vars
  BY <1>8, NothingAdded, NobodyMoves DEF vars
<1> QED
  BY <1>1, <1>2, <1>3, <1>4, <1>5, <1>6, <1>7, <1>8 DEF Next

LEMMA HistoryCorrect == Spec => []HistoryInv
<1>1. Init => IInv /\ HistoryInv
  BY InvInit, HistoryInit
<1>2. (IInv /\ HistoryInv) /\ [Next]_vars => (IInv /\ HistoryInv)'
  BY InvNext, HistoryNext
<1> QED
  BY <1>1, <1>2, PTL DEF Spec

\* However statements interleave, fail or die, graph("M") is of the latest snapshot, and
\* without one of the latest version (latestGraphModel, resolveGraphSource).
THEOREM LatestIsRead == Spec => []LatestWins
<1>1. HistoryInv => LatestWins
  BY DEF HistoryInv
<1> QED
  BY HistoryCorrect, <1>1, PTL

\* However statements interleave, fail or die, nobody reads what was dropped after it was
\* made and before the reader began, and a model made again starts without the policies
\* it had (applyDropGraphModel, dropGraphSnapshots).
THEOREM DropsAreFinal == Spec => []DropIsFinal
<1>1. HistoryInv => DropIsFinal
  BY DEF HistoryInv
<1> QED
  BY HistoryCorrect, <1>1, PTL
==============================================================================
