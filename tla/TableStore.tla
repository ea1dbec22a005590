----------------------------- MODULE TableStore -----------------------------
(***************************************************************************)
(* What a database directory promises to the statements that share it: it  *)
(* is a store of tables, each a set of rows.                               *)
(*                                                                         *)
(* A statement sees every table as it was when the statement began, plus   *)
(* what it has done itself, and each of its queries answers exactly that.  *)
(* A statement that rewrites a table is the only one there is; the rewrite *)
(* takes place in one step, once per command, and loses nothing but what   *)
(* it takes out.  When the statement fails or dies half way, rows the      *)
(* rewrite took out may come back, and rows it put in may be all that is   *)
(* left of it.  Appended rows are there from one step to the next.  Only   *)
(* .drop takes rows away step by step, beside other statements, and it     *)
(* takes none that came after it listed what to take.                      *)
(*                                                                         *)
(* ScopeStore implements this with extent files, renames and a file lock.  *)
(***************************************************************************)

CONSTANTS
    Proc,      \* processes
    Table,     \* table names
    Row,       \* row instances
    Kind       \* kinds of commands

VARIABLES
    rows,      \* Table -> what a statement that began now would find
    undo,      \* Table -> what would come back if the statement rewriting it died
    stage,     \* Proc -> "out": no statement; "ready" or "done": its command in hand
    kind,      \* Proc -> its command's kind, or "none"
    view,      \* Proc -> Table -> what the statement sees
    answer,    \* Proc -> what the query just done has answered, if one is
    doomed     \* Proc -> Table -> what a .drop in progress is to take

vars == <<rows, undo, stage, kind, view, answer, doomed>>

Empty == [t \in Table |-> {}]

Init ==
    /\ rows = Empty
    /\ undo = Empty
    /\ stage = [p \in Proc |-> "out"]
    /\ kind = [p \in Proc |-> "none"]
    /\ view = [p \in Proc |-> Empty]
    /\ answer = [p \in Proc |-> {}]
    /\ doomed = [p \in Proc |-> Empty]

\* Rows that nothing has, and no rewrite or drop in progress has had.
New(R) ==
    \A t \in Table :
        /\ R \cap (rows[t] \cup undo[t]) = {}
        /\ \A p \in Proc : R \cap (view[p][t] \cup doomed[p][t]) = {}

Alone(p) == \A q \in Proc \ {p} : stage[q] = "out"

\* The command in hand is done.
Finished(p) == stage' = [stage EXCEPT ![p] = "done"]

Begin(p) ==
    /\ stage[p] = "out"
    /\ stage' = [stage EXCEPT ![p] = "ready"]
    /\ undo = Empty
    /\ \E k \in Kind : kind' = [kind EXCEPT ![p] = k]
    /\ view' = [view EXCEPT ![p] = rows]
    /\ UNCHANGED <<rows, undo, answer, doomed>>

\* The statement's next command.
Turn(p) ==
    /\ stage[p] = "done"
    /\ undo = Empty
    /\ stage' = [stage EXCEPT ![p] = "ready"]
    /\ \E k \in Kind : kind' = [kind EXCEPT ![p] = k]
    /\ answer' = [answer EXCEPT ![p] = {}]
    /\ UNCHANGED <<rows, undo, view, doomed>>

\* Nothing of a statement is left behind when it ends or dies.
Leave(p) ==
    /\ stage' = [stage EXCEPT ![p] = "out"]
    /\ kind' = [kind EXCEPT ![p] = "none"]
    /\ view' = [view EXCEPT ![p] = Empty]
    /\ answer' = [answer EXCEPT ![p] = {}]
    /\ doomed' = [doomed EXCEPT ![p] = Empty]

End(p) ==
    /\ stage[p] = "done"
    /\ Leave(p)
    /\ undo = Empty
    /\ UNCHANGED <<rows, undo>>

\* A command that did nothing, or nothing more: a drop has been through all
\* it was to take.
Finish(p) ==
    /\ stage[p] = "ready"
    /\ doomed[p] = Empty
    /\ Finished(p)
    /\ UNCHANGED <<rows, undo, kind, view, answer, doomed>>

Query(p, t) ==
    /\ stage[p] = "ready"
    /\ kind[p] = "query"
    /\ Finished(p)
    /\ answer' = [answer EXCEPT ![p] = {view[p][t]}]
    /\ UNCHANGED <<rows, undo, kind, view, doomed>>

\* One batch of an ingest, or what a replacement that fails has written.
Add(p, t) ==
    /\ stage[p] = "ready"
    /\ kind[p] \in {"append", "replace", "recreate"}
    /\ \E R \in (SUBSET Row) \ {{}} :
        /\ New(R)
        /\ rows' = [rows EXCEPT ![t] = @ \cup R]
        /\ view' = [view EXCEPT ![p][t] = @ \cup R]
    /\ UNCHANGED stage \/ Finished(p)
    /\ UNCHANGED <<undo, kind, answer, doomed>>

\* .set-or-replace puts new rows in place of all; .compact and .delete
\* records take rows out.  Rows the statement does not see stay.
Change(p, t) ==
    /\ stage[p] = "ready"
    /\ Alone(p)
    /\ \E G \in SUBSET view[p][t], R \in SUBSET Row :
        /\ \/ kind[p] = "replace" /\ G = view[p][t] /\ New(R)
           \/ kind[p] \in {"compact", "delete"} /\ R = {}
        /\ view' = [view EXCEPT ![p][t] = (@ \ G) \cup R]
        /\ rows' = [rows EXCEPT ![t] = (@ \ G) \cup R]
        /\ undo' = [undo EXCEPT ![t] = rows[t] \ rows'[t]]
    /\ Finished(p)
    /\ UNCHANGED <<kind, answer, doomed>>

\* Some of what a rewrite took out cannot come back any more.
Settle(p, t) ==
    /\ stage[p] = "done"
    /\ Alone(p)
    /\ \E U \in SUBSET undo[t] : undo' = [undo EXCEPT ![t] = U]
    /\ UNCHANGED <<rows, stage, kind, view, answer, doomed>>

\* Some of it does: an old file could not be superseded.
Undo(p, t) ==
    /\ stage[p] = "done"
    /\ Alone(p)
    /\ \E B \in SUBSET undo[t] :
        /\ rows' = [rows EXCEPT ![t] = @ \cup B]
        /\ view' = [view EXCEPT ![p][t] = @ \cup B]
        /\ undo' = [undo EXCEPT ![t] = @ \ B]
    /\ UNCHANGED <<stage, kind, answer, doomed>>

\* A drop settles on what to take: what there is, or was.
StartDrop(p, t) ==
    /\ stage[p] = "ready"
    /\ kind[p] \in {"drop", "recreate"}
    /\ view' = [view EXCEPT ![p][t] = {}]
    /\ \E D \in SUBSET Row :
        /\ rows[t] \subseteq D
        /\ doomed' = [doomed EXCEPT ![p][t] = D]
    /\ UNCHANGED <<rows, undo, stage, kind, answer>>

\* It takes some of it, or gives some up.
Take(p, t) ==
    /\ \E S, D \in SUBSET doomed[p][t] :
        /\ rows' = [rows EXCEPT ![t] = @ \ S]
        /\ doomed' = [doomed EXCEPT ![p][t] = D]
    /\ UNCHANGED <<undo, stage, kind, view, answer>>

\* .drop extent: rows the statement sees leave, if they were still there.
DropSome(p, t) ==
    /\ stage[p] = "ready"
    /\ kind[p] = "dropExtent"
    /\ \E S, V \in SUBSET view[p][t] :
        /\ rows' = [rows EXCEPT ![t] = @ \ S]
        /\ view' = [view EXCEPT ![p][t] = @ \ V]
    /\ Finished(p)
    /\ UNCHANGED <<undo, kind, answer, doomed>>

\* What a rewrite had taken out and may come back does, all of it, or what
\* it had written of its new rows stays.
Die(p) ==
    /\ stage[p] # "out"
    /\ Leave(p)
    /\ \/ rows' = [t \in Table |-> rows[t] \cup undo[t]]
       \/ /\ stage[p] = "ready" /\ kind[p] = "replace" /\ Alone(p)
          /\ \E t \in Table, R \in SUBSET Row :
                New(R) /\ rows' = [rows EXCEPT ![t] = @ \cup R]
    /\ undo' = Empty

Next ==
    \E p \in Proc :
        \/ Begin(p) \/ Turn(p) \/ End(p) \/ Finish(p) \/ Die(p)
        \/ \E t \in Table :
            \/ Query(p, t) \/ Add(p, t) \/ Change(p, t) \/ Settle(p, t) \/ Undo(p, t)
            \/ StartDrop(p, t) \/ Take(p, t) \/ DropSome(p, t)

Spec == Init /\ [][Next]_vars
=============================================================================
