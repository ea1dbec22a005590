----------------------------- MODULE ScopeStore -----------------------------
(***************************************************************************)
(* A gokql database directory (a "scope") shared by several processes.     *)
(*                                                                         *)
(* The directory holds immutable extent files <Table>_<id>.vtx; there is   *)
(* no catalog file.  A process runs one top-level statement at a time:     *)
(* it takes the scope lock (pkg/engine/scopelock.go), rebuilds its         *)
(* catalog from the directory (pkg/catalog/discover.go), runs the          *)
(* statement's commands, and lets go of the lock.  A write commits by      *)
(* renaming a finished file into place; a file is superseded, archived or  *)
(* removed by one more rename or unlink.  Each of those file system calls  *)
(* is a step of its own here, so a crash or another process may come       *)
(* between any two of them.                                                *)
(*                                                                         *)
(* Abstractions.  Row is the set of ingested row instances, each stored    *)
(* at most once by its ingestion, so a row found in two live files of a    *)
(* table is a row a scan counts twice.  An extent's content is a SET of    *)
(* rows: when a torn table (below) is compacted the real extent keeps both *)
(* copies and the model one, but such a table stays marked torn and no     *)
(* property speaks of its counts.  Schemas, dictionaries, update policies  *)
(* and materialized views are left to other modules.  The catalog refresh  *)
(* always rebuilds: when it may skip the rebuild is CatalogRefresh's       *)
(* subject.                                                                *)
(***************************************************************************)
EXTENDS Naturals, Sequences, FiniteSets

CONSTANTS
    Proc,           \* processes (or -serve requests) using the directory
    Federated,      \* whether queries also come from another database
    Table,          \* table names
    File,           \* extent file identities (newExtentID never repeats one)
    Row,            \* row instances
    NoTable,        \* "no table"
    GlobAlso,       \* <<t, u>>: the glob t_*.vtx also matches u's files
    Scripts,        \* the statements submitted: sequences of commands
    MayCrash,       \* whether processes may die
    MayFail         \* whether file system calls may fail

\* "create" stands for .create table, "extend" for .alter-merge and
\* .create-merge table, "append" for every ingestion, .set and .append,
\* "replace" for .set-or-replace, "recreate" for the same with a new schema.
Kind == {"query", "create", "extend", "append", "replace", "recreate",
         "compact", "delete", "drop", "gc", "dropExtent"}

\* A command is about one table, or about all (.compact database, .gc
\* database): then it asks the catalog and works on each.
Command == [kind : Kind, over : {"one", "all", "each"}, tables : SUBSET Table]

ASSUME ConstantsOK ==
    /\ NoTable \notin Table
    /\ Federated \in BOOLEAN
    /\ GlobAlso \subseteq Table \X Table
    /\ Scripts \subseteq Seq(Command) \ {<<>>}
    /\ MayCrash \in BOOLEAN
    /\ MayFail \in BOOLEAN

VARIABLES
    \* the directory
    fstate,     \* File -> what became of the file
    ftable,     \* File -> the table its name gives
    frows,      \* File -> the rows it holds ({}: a schema-only shell)
    \* the scope lock
    lock,       \* Proc -> how it holds _scope.lock
    \* the memory of each process, lost when it dies
    pc,         \* Proc -> where it is in its statement
    script,     \* Proc -> commands not yet finished, the current one first
    cur,        \* Proc -> the table the current command is working on
    tabs,       \* Proc -> tables its catalog knows
    cat,        \* Proc -> extents its catalog registers
    todo,       \* Proc -> files still to open, supersede, move or remove
    rest,       \* Proc -> rows a rewrite has still to write
    gone,       \* Proc -> rows a rewrite takes out of the table
    fresh,      \* Proc -> extents the current rewrite has written
    seen,       \* Proc -> extents the current query has counted
    errs,       \* Proc -> whether a rename of the command failed
    \* what the properties refer to; no action's guard reads these
    owed,       \* Table -> rows committed and not taken out since
    torn,       \* tables whose rewrite stopped half way
    basis       \* Proc -> Table -> rows owed when it refreshed or its own since

disk  == <<fstate, ftable, frows>>
catalog == <<tabs, cat>>
work  == <<todo, rest, gone, fresh, seen, errs>>
ghost == <<owed, torn, basis>>
vars  == <<disk, lock, pc, script, cur, catalog, work, ghost>>

FileState == {"none",        \* not written yet
              "live",        \* <T>_<id>.vtx
              "superseded",  \* <T>_<id>.vtx.superseded
              "archived",    \* moved under .dropped/
              "collected",   \* unlinked by .gc
              "deleted"}     \* unlinked by .drop extent

PC == {"idle", "lock", "refresh", "run", "scan", "answered", "create",
       "append", "write", "supersede", "move", "collect", "end", "failed"}

TypeOK ==
    /\ fstate \in [File -> FileState]
    /\ ftable \in [File -> Table \cup {NoTable}]
    /\ frows \in [File -> SUBSET Row]
    /\ lock \in [Proc -> {"none", "shared", "exclusive"}]
    /\ pc \in [Proc -> PC]
    /\ script \in [Proc -> Seq(Command)]
    /\ cur \in [Proc -> Table \cup {NoTable}]
    /\ tabs \in [Proc -> SUBSET Table]
    /\ cat \in [Proc -> SUBSET File]
    /\ todo \in [Proc -> SUBSET File]
    /\ rest \in [Proc -> SUBSET Row]
    /\ gone \in [Proc -> SUBSET Row]
    /\ fresh \in [Proc -> SUBSET File]
    /\ seen \in [Proc -> SUBSET File]
    /\ errs \in [Proc -> BOOLEAN]
    /\ owed \in [Table -> SUBSET Row]
    /\ torn \in SUBSET Table
    /\ basis \in [Proc -> [Table -> SUBSET Row]]

-----------------------------------------------------------------------------
(* The directory, as listings and globs show it.                           *)

RowsOf(S) == UNION {frows[f] : f \in S}

Live(t) == {f \in File : fstate[f] = "live" /\ ftable[f] = t}

\* The tables whose files the glob <t>_*.vtx matches: t itself, and any
\* table whose name extends t with an underscore.
Globbed(t) == {t} \cup {u \in Table : <<t, u>> \in GlobAlso}

GlobLive(t) == {f \in File : fstate[f] = "live" /\ ftable[f] \in Globbed(t)}

\* Mutant: the listing yields the tables of the files, not their paths.
GlobSuperseded_Names(t) ==
    {ftable[f] : f \in {g \in File : fstate[g] = "superseded" /\ ftable[g] \in Globbed(t)}}

GlobSuperseded(t) ==
    {f \in File : fstate[f] = "superseded" /\ ftable[f] \in Globbed(t)}

\* Rows no file holds and no rewrite is about to write.
UnusedRows == Row \ (RowsOf(File) \cup UNION {rest[q] : q \in Proc})

\* One process's catalog.
Extents(p, t) == {f \in cat[p] : ftable[f] = t}

Cmd(p) == Head(script[p])

-----------------------------------------------------------------------------
(* The statement around the commands: lock, refresh, run, release.         *)

\* Mutant: as when only compactions took the exclusive lock.
NeedsExclusive_CompactOnly(s) == \E i \in DOMAIN s : s[i].kind = "compact"

\* Mutant: compactions forgotten.
NeedsExclusive_NotCompact(s) ==
    \E i \in DOMAIN s : s[i].kind \in {"replace", "recreate", "delete"}

\* Mutant: the loop over a script's commands returns at the first.
NeedsExclusive_First(s) ==
    s[1].kind \in {"replace", "recreate", "compact", "delete"}

NeedsExclusive(s) ==
    \E i \in DOMAIN s : s[i].kind \in {"replace", "recreate", "compact", "delete"}

OnlyQueries(s) == \A i \in DOMAIN s : s[i].kind = "query"

Init ==
    /\ fstate = [f \in File |-> "none"]
    /\ ftable = [f \in File |-> NoTable]
    /\ frows = [f \in File |-> {}]
    /\ lock = [p \in Proc |-> "none"]
    /\ pc = [p \in Proc |-> "idle"]
    /\ script = [p \in Proc |-> <<>>]
    /\ cur = [p \in Proc |-> NoTable]
    /\ tabs = [p \in Proc |-> {}]
    /\ cat = [p \in Proc |-> {}]
    /\ todo = [p \in Proc |-> {}]
    /\ rest = [p \in Proc |-> {}]
    /\ gone = [p \in Proc |-> {}]
    /\ fresh = [p \in Proc |-> {}]
    /\ seen = [p \in Proc |-> {}]
    /\ errs = [p \in Proc |-> FALSE]
    /\ owed = [t \in Table |-> {}]
    /\ torn = {}
    /\ basis = [p \in Proc |-> [t \in Table |-> {}]]

At(p, place) == pc[p] = place

Goto(p, place) == pc' = [pc EXCEPT ![p] = place]

\* A statement arrives at an idle process.
Submit(p) ==
    /\ At(p, "idle")
    /\ \E s \in Scripts : script' = [script EXCEPT ![p] = s]
    /\ Goto(p, "lock")
    /\ UNCHANGED <<disk, lock, cur, catalog, work, ghost>>

\* Mutant: the exclusive lock does not wait for shared holders.
Acquire_OverShared(p) ==
    /\ At(p, "lock")
    /\ IF NeedsExclusive(script[p])
       THEN /\ \A q \in Proc : lock[q] # "exclusive"
            /\ lock' = [lock EXCEPT ![p] = "exclusive"]
       ELSE /\ \A q \in Proc : lock[q] # "exclusive"
            /\ lock' = [lock EXCEPT ![p] = "shared"]
    /\ Goto(p, "refresh")
    /\ UNCHANGED <<disk, script, cur, catalog, work, ghost>>

\* A query evaluated for another database opens this directory with a
\* fresh catalog and takes no lock here (resolveFederatedTable).
Acquire(p) ==
    /\ At(p, "lock")
    /\ \/ /\ NeedsExclusive(script[p])
          /\ \A q \in Proc : lock[q] = "none"
          /\ lock' = [lock EXCEPT ![p] = "exclusive"]
       \/ /\ ~NeedsExclusive(script[p])
          /\ \A q \in Proc : lock[q] # "exclusive"
          /\ lock' = [lock EXCEPT ![p] = "shared"]
       \/ /\ Federated /\ OnlyQueries(script[p])
          /\ UNCHANGED lock
    /\ Goto(p, "refresh")
    /\ UNCHANGED <<disk, script, cur, catalog, work, ghost>>

\* Zero-row files assert their table and are not registered as extents.
Refresh(p) ==
    /\ At(p, "refresh")
    /\ tabs' = [tabs EXCEPT ![p] = {t \in Table : Live(t) # {}}]
    /\ cat' = [cat EXCEPT ![p] = {f \in File : fstate[f] = "live" /\ frows[f] # {}}]
    /\ basis' = [basis EXCEPT ![p] = owed]
    /\ Goto(p, "run")
    /\ UNCHANGED <<disk, lock, script, cur, work, owed, torn>>

\* The process's memory and lock are as before the statement.
Release(p) ==
    /\ lock' = [lock EXCEPT ![p] = "none"]
    /\ pc' = [pc EXCEPT ![p] = "idle"]
    /\ script' = [script EXCEPT ![p] = <<>>]
    /\ cur' = [cur EXCEPT ![p] = NoTable]
    /\ tabs' = [tabs EXCEPT ![p] = {}]
    /\ cat' = [cat EXCEPT ![p] = {}]
    /\ todo' = [todo EXCEPT ![p] = {}]
    /\ rest' = [rest EXCEPT ![p] = {}]
    /\ gone' = [gone EXCEPT ![p] = {}]
    /\ fresh' = [fresh EXCEPT ![p] = {}]
    /\ seen' = [seen EXCEPT ![p] = {}]
    /\ errs' = [errs EXCEPT ![p] = FALSE]
    /\ basis' = [basis EXCEPT ![p] = [t \in Table |-> {}]]

RefreshFails(p) ==
    /\ MayFail
    /\ At(p, "refresh")
    /\ Release(p)
    /\ UNCHANGED <<disk, owed, torn>>

\* A database-wide command works on the tables of the catalog.
NameTables(p) ==
    /\ At(p, "run")
    /\ Cmd(p).over = "all"
    /\ script' = [script EXCEPT ![p] =
         <<[Cmd(p) EXCEPT !.over = "each", !.tables = tabs[p]]>> \o Tail(@)]
    /\ Goto(p, IF tabs[p] = {} THEN "end" ELSE "run")
    /\ UNCHANGED <<disk, lock, cur, catalog, work, ghost>>

\* Process p turns to command k on table t.
Begins(p, t, k) ==
    /\ At(p, "run")
    /\ Cmd(p).over # "all"
    /\ t \in Cmd(p).tables
    /\ Cmd(p).kind = k
    /\ cur' = [cur EXCEPT ![p] = t]

\* The command is refused before it writes: a table that does not exist or
\* already does, an extent that cannot be read, a query that fails or
\* returns no rows.
Refuse(p) ==
    /\ At(p, "run")
    /\ \E t \in Table : \E k \in Kind \ {"gc"} : Begins(p, t, k)
    /\ Goto(p, "failed")
    /\ UNCHANGED <<disk, lock, script, catalog, work, ghost>>

\* The next command starts from what this one left in the catalog.
Continue(p, s) ==
    /\ script' = [script EXCEPT ![p] = s]
    /\ cur' = [cur EXCEPT ![p] = NoTable]
    /\ todo' = [todo EXCEPT ![p] = {}]
    /\ rest' = [rest EXCEPT ![p] = {}]
    /\ gone' = [gone EXCEPT ![p] = {}]
    /\ fresh' = [fresh EXCEPT ![p] = {}]
    /\ seen' = [seen EXCEPT ![p] = {}]
    /\ errs' = [errs EXCEPT ![p] = FALSE]
    /\ Goto(p, "run")
    /\ UNCHANGED <<lock, catalog, basis>>

\* After a command the same command goes on with its other tables, then
\* the next command runs; after the last one the lock is let go.
NextCommand(p) ==
    LET left == Cmd(p).tables \ {cur[p]}
        s    == IF left = {} THEN Tail(script[p])
                ELSE <<[Cmd(p) EXCEPT !.tables = left]>> \o Tail(script[p])
    IN IF s = <<>> THEN Release(p) ELSE Continue(p, s)

EndCommand(p) ==
    /\ pc[p] \in {"end", "answered", "failed"}
    /\ NextCommand(p)
    /\ UNCHANGED <<disk, owed, torn>>

\* A failed command stops the statement, unless a script continues on
\* errors; a database-wide command reports the table and goes on.
AbortStatement(p) ==
    /\ At(p, "failed")
    /\ Cmd(p).over = "one"
    /\ Release(p)
    /\ UNCHANGED <<disk, owed, torn>>

-----------------------------------------------------------------------------
(* Queries.                                                                *)

\* An aggregate count is answered from the catalog's row counts.
AnswerFromCatalog(p) ==
    /\ \E t \in tabs[p] :
        /\ Begins(p, t, "query")
        /\ seen' = [seen EXCEPT ![p] = Extents(p, t)]
    /\ Goto(p, "answered")
    /\ UNCHANGED <<disk, lock, script, catalog, todo, rest, gone, fresh, errs, ghost>>

BeginQuery(p) ==
    /\ \E t \in tabs[p] :
        /\ Begins(p, t, "query")
        /\ todo' = [todo EXCEPT ![p] = Extents(p, t)]
        /\ Goto(p, IF Extents(p, t) = {} THEN "answered" ELSE "scan")
    /\ UNCHANGED <<disk, lock, script, catalog, rest, gone, fresh, seen, errs, ghost>>

ScanExtent(p) ==
    /\ At(p, "scan")
    /\ \E f \in todo[p] :
        /\ fstate[f] = "live"
        /\ todo' = [todo EXCEPT ![p] = @ \ {f}]
        /\ seen' = [seen EXCEPT ![p] = @ \cup {f}]
        /\ Goto(p, IF todo[p] = {f} THEN "answered" ELSE "scan")
    /\ UNCHANGED <<disk, lock, script, cur, catalog, rest, gone, fresh, errs, ghost>>

\* Mutant: an extent that cannot be opened is skipped.
ScanMissing_Skips(p) ==
    /\ At(p, "scan")
    /\ \E f \in todo[p] :
        /\ fstate[f] # "live"
        /\ todo' = [todo EXCEPT ![p] = @ \ {f}]
        /\ Goto(p, IF todo[p] = {f} THEN "answered" ELSE "scan")
    /\ UNCHANGED <<disk, lock, script, cur, catalog, rest, gone, fresh, seen, errs, ghost>>

\* A registered extent that is no longer in the directory fails the query.
ScanMissing(p) ==
    /\ At(p, "scan")
    /\ \E f \in todo[p] : fstate[f] # "live"
    /\ Goto(p, "failed")
    /\ UNCHANGED <<disk, lock, script, cur, catalog, work, ghost>>

-----------------------------------------------------------------------------
(* Writes that only add files.                                             *)

\* The rename that puts a finished file in place is the commit.
Commit(f, t, R) ==
    /\ fstate[f] = "none"
    /\ fstate' = [fstate EXCEPT ![f] = "live"]
    /\ ftable' = [ftable EXCEPT ![f] = t]
    /\ frows' = [frows EXCEPT ![f] = R]

OutOfSpace == \A f \in File : fstate[f] # "none"

\* What to write is settled here, against this catalog: a table it does not
\* know is created first, one that gains columns gets a new schema file.
BeginAppend(p) ==
    /\ \E t \in Table :
        \/ Begins(p, t, "append") /\ t \in tabs[p] /\ Goto(p, "append")
        \/ /\ \E k \in {"append", "extend"} : Begins(p, t, k)
           /\ Goto(p, "create")
        \/ /\ \E k \in {"create", "replace", "recreate"} : Begins(p, t, k)
           /\ t \notin tabs[p]
           /\ Goto(p, "create")
    /\ UNCHANGED <<disk, lock, script, catalog, work, ghost>>

\* CreateTable or CreateMergeTable, and the zero-row extent that makes the
\* table or its new schema durable.  A table recreated from no rows is done.
CreateTable(p) ==
    /\ At(p, "create")
    /\ \E f \in File : Commit(f, cur[p], {})
    /\ tabs' = [tabs EXCEPT ![p] = @ \cup {cur[p]}]
    /\ \/ Cmd(p).kind \in {"create", "extend", "recreate"} /\ Goto(p, "end")
       \/ Cmd(p).kind \in {"append", "replace", "recreate"} /\ Goto(p, "append")
    /\ UNCHANGED <<lock, script, cur, cat, work, ghost>>

\* Mutant: the extent is not added to the writer's own catalog.
AppendRows_Unregistered(p) ==
    /\ At(p, "append")
    /\ \E f \in File, R \in SUBSET UnusedRows :
        /\ R # {}
        /\ Commit(f, cur[p], R)
        /\ owed' = [owed EXCEPT ![cur[p]] = @ \cup R]
        /\ basis' = [basis EXCEPT ![p][cur[p]] = @ \cup R]
    /\ Goto(p, "end")
    /\ UNCHANGED <<lock, script, cur, catalog, work, torn>>

\* flushBatch: one more extent, registered in the writer's own catalog.  An
\* ingest of many rows flushes several.
AppendRows(p) ==
    /\ At(p, "append")
    /\ \E f \in File, R \in SUBSET UnusedRows :
        /\ R # {}
        /\ Commit(f, cur[p], R)
        /\ cat' = [cat EXCEPT ![p] = @ \cup {f}]
        /\ owed' = [owed EXCEPT ![cur[p]] = @ \cup R]
        /\ basis' = [basis EXCEPT ![p][cur[p]] = @ \cup R]
    /\ \/ Goto(p, "end")
       \/ Cmd(p).kind = "append" /\ UNCHANGED pc
    /\ UNCHANGED <<lock, script, cur, tabs, work, torn>>

\* Writing fails: a table created in memory stays in the catalog without a
\* file.  Running out of the model's files or rows is a full disk.
WriteNothing(p) ==
    /\ MayFail \/ OutOfSpace \/ UnusedRows = {}
    /\ pc[p] \in {"create", "append"}
    /\ tabs' = [tabs EXCEPT ![p] = @ \cup {cur[p]}]
    /\ Goto(p, "failed")
    /\ UNCHANGED <<disk, lock, script, cur, cat, work, ghost>>

-----------------------------------------------------------------------------
(* Rewrites: .set-or-replace, .compact, .delete records.  New extents are  *)
(* written first, then the old files are superseded one by one.            *)

\* Files of t's glob that the catalog does not register: zero-row shells.
Shells(p, t) == GlobLive(t) \ Extents(p, t)

\* Mutant: a rewrite that keeps no row writes no extent.
StartRewrite_NoEmpty(p, R, G, old) ==
    /\ rest' = [rest EXCEPT ![p] = R]
    /\ gone' = [gone EXCEPT ![p] = G]
    /\ todo' = [todo EXCEPT ![p] = old]
    /\ Goto(p, IF R = {} THEN "supersede" ELSE "write")
    /\ UNCHANGED <<disk, lock, script, catalog, fresh, seen, errs, ghost>>

\* Write rows R, take rows G out of the table, supersede the files in old.
StartRewrite(p, R, G, old) ==
    /\ rest' = [rest EXCEPT ![p] = R]
    /\ gone' = [gone EXCEPT ![p] = G]
    /\ todo' = [todo EXCEPT ![p] = old]
    /\ Goto(p, "write")
    /\ UNCHANGED <<disk, lock, script, catalog, fresh, seen, errs, ghost>>

Readable(S) == \A f \in S : fstate[f] = "live"

BeginReplace(p) ==
    \E t \in tabs[p], R \in SUBSET UnusedRows :
        /\ Begins(p, t, "replace")
        /\ StartRewrite(p, R, RowsOf(Extents(p, t)), Extents(p, t) \cup Shells(p, t))

\* D: the rows a where clause leaves out.
BeginCompact(p) ==
    \E t \in tabs[p] : \E D \in SUBSET RowsOf(Extents(p, t)) :
        /\ Begins(p, t, "compact")
        /\ Readable(Extents(p, t))
        /\ Extents(p, t) \cup Shells(p, t) # {}
        /\ StartRewrite(p, RowsOf(Extents(p, t)) \ D, D, Extents(p, t) \cup Shells(p, t))

\* "already compact".  Several extents may be as few as their size allows.
CompactNothing(p) ==
    /\ \E t \in tabs[p] :
        /\ Begins(p, t, "compact")
        /\ Shells(p, t) = {}
    /\ Goto(p, "end")
    /\ UNCHANGED <<disk, lock, script, catalog, work, ghost>>

\* Only the extents holding a matching row are rewritten; shells stay.
BeginDelete(p) ==
    \E t \in tabs[p] : \E D \in SUBSET RowsOf(Extents(p, t)) \ {{}} :
        LET affected == {f \in Extents(p, t) : frows[f] \cap D # {}}
        IN /\ Begins(p, t, "delete")
           /\ Readable(Extents(p, t))
           /\ StartRewrite(p, RowsOf(affected) \ D, D, affected)

\* No row matches, or whatif.
DeleteNothing(p) ==
    /\ \E t \in tabs[p] : Begins(p, t, "delete")
    /\ Goto(p, "end")
    /\ UNCHANGED <<disk, lock, script, catalog, work, ghost>>

\* One extent of the rewrite: at least one row, or the only and empty one.
\* With the last of them written, the rows taken out are no longer owed.
WriteExtent(p) ==
    /\ At(p, "write")
    /\ \E f \in File, C \in SUBSET rest[p] :
        /\ C = {} => rest[p] = {}
        /\ Commit(f, cur[p], C)
        /\ rest' = [rest EXCEPT ![p] = @ \ C]
        /\ fresh' = [fresh EXCEPT ![p] = @ \cup {f}]
        /\ cat' = [cat EXCEPT ![p] = @ \cup {f}]
        /\ IF rest[p] = C
           THEN /\ owed' = [owed EXCEPT ![cur[p]] = (@ \cup C) \ gone[p]]
                /\ basis' = [basis EXCEPT ![p][cur[p]] = (@ \cup C) \ gone[p]]
                /\ Goto(p, "supersede")
           ELSE /\ owed' = [owed EXCEPT ![cur[p]] = @ \cup C]
                /\ basis' = [basis EXCEPT ![p][cur[p]] = @ \cup C]
                /\ UNCHANGED pc
    /\ UNCHANGED <<lock, script, cur, tabs, todo, gone, seen, errs, torn>>

\* Mutant: the error is lost and superseding goes on.
WriteFails_Ignored(p) ==
    /\ MayFail \/ OutOfSpace
    /\ At(p, "write")
    /\ Goto(p, "supersede")
    /\ UNCHANGED <<disk, lock, script, cur, catalog, work, ghost>>

\* The statement fails with what it wrote so far left in the table.
WriteFails(p) ==
    /\ MayFail \/ OutOfSpace
    /\ At(p, "write")
    /\ torn' = IF fresh[p] = {} THEN torn ELSE torn \cup {cur[p]}
    /\ Goto(p, "failed")
    /\ UNCHANGED <<disk, lock, script, cur, catalog, work, owed, basis>>

Supersede(p) ==
    /\ At(p, "supersede")
    /\ \E f \in todo[p] :
        /\ fstate[f] = "live"
        /\ fstate' = [fstate EXCEPT ![f] = "superseded"]
        /\ todo' = [todo EXCEPT ![p] = @ \ {f}]
        /\ cat' = [cat EXCEPT ![p] = @ \ {f}]
    /\ UNCHANGED <<ftable, frows, lock, pc, script, cur, tabs, rest, gone, fresh, seen, errs, ghost>>

\* A rename that fails is collected and the loop goes on.
SupersedeFails(p) ==
    /\ At(p, "supersede")
    /\ \E f \in todo[p] :
        /\ MayFail \/ fstate[f] # "live"
        /\ todo' = [todo EXCEPT ![p] = @ \ {f}]
    /\ errs' = [errs EXCEPT ![p] = TRUE]
    /\ torn' = torn \cup {cur[p]}
    /\ UNCHANGED <<disk, lock, pc, script, cur, catalog, rest, gone, fresh, seen, owed, basis>>

\* .compact reports PARTIAL and succeeds; the other two return the error.
FinishRewrite(p) ==
    /\ At(p, "supersede")
    /\ todo[p] = {}
    /\ Goto(p, IF errs[p] /\ Cmd(p).kind # "compact" THEN "failed" ELSE "end")
    /\ UNCHANGED <<disk, lock, script, cur, catalog, work, ghost>>

-----------------------------------------------------------------------------
(* .drop table, .gc, .drop extent: files leave under a shared lock.        *)

\* The files are listed, the table leaves the catalog, then each file is
\* moved.  Rows committed by another process after the listing stay.
BeginDrop(p) ==
    /\ \E t \in tabs[p] : \E k \in {"drop", "recreate"} :
        /\ Begins(p, t, k)
        /\ todo' = [todo EXCEPT ![p] = GlobLive(t) \cup GlobSuperseded(t)]
        /\ tabs' = [tabs EXCEPT ![p] = @ \ {t}]
        /\ cat' = [cat EXCEPT ![p] = @ \ Extents(p, t)]
        /\ owed' = [owed EXCEPT ![t] = @ \ RowsOf(Live(t))]
        /\ basis' = [basis EXCEPT ![p][t] = {}]
    /\ Goto(p, "move")
    /\ UNCHANGED <<disk, lock, script, rest, gone, fresh, seen, errs, torn>>

MoveFile(p) ==
    /\ At(p, "move")
    /\ \E f \in todo[p] :
        /\ fstate[f] \in {"live", "superseded"}
        /\ fstate' = [fstate EXCEPT ![f] = "archived"]
        /\ todo' = [todo EXCEPT ![p] = @ \ {f}]
    /\ UNCHANGED <<ftable, frows, lock, pc, script, cur, catalog, rest, gone, fresh, seen, errs, ghost>>

MoveMissing(p) ==
    /\ At(p, "move")
    /\ \E f \in todo[p] :
        /\ MayFail \/ fstate[f] \notin {"live", "superseded"}
        /\ todo' = [todo EXCEPT ![p] = @ \ {f}]
    /\ errs' = [errs EXCEPT ![p] = TRUE]
    /\ UNCHANGED <<disk, lock, pc, script, cur, catalog, rest, gone, fresh, seen, ghost>>

FinishDrop(p) ==
    /\ At(p, "move")
    /\ todo[p] = {}
    /\ Goto(p, IF errs[p] THEN "failed"
               ELSE IF Cmd(p).kind = "recreate" THEN "create" ELSE "end")
    /\ UNCHANGED <<disk, lock, script, cur, catalog, work, ghost>>

BeginGC(p) ==
    /\ \E t \in Table :
        /\ Begins(p, t, "gc")
        /\ todo' = [todo EXCEPT ![p] = GlobSuperseded(t)]
    /\ Goto(p, "collect")
    /\ UNCHANGED <<disk, lock, script, catalog, rest, gone, fresh, seen, errs, ghost>>

Collect(p) ==
    /\ At(p, "collect")
    /\ \E f \in todo[p] :
        /\ fstate[f] = "superseded"
        /\ fstate' = [fstate EXCEPT ![f] = "collected"]
        /\ todo' = [todo EXCEPT ![p] = @ \ {f}]
    /\ UNCHANGED <<ftable, frows, lock, pc, script, cur, catalog, rest, gone, fresh, seen, errs, ghost>>

\* Mutant: a file another .gc removed is tried again.
CollectMissing_Retries(p) ==
    /\ At(p, "collect")
    /\ \E f \in todo[p] :
        /\ MayFail /\ fstate[f] = "superseded"
        /\ todo' = [todo EXCEPT ![p] = @ \ {f}]
    /\ UNCHANGED <<disk, lock, pc, script, cur, catalog, rest, gone, fresh, seen, errs, ghost>>

CollectMissing(p) ==
    /\ At(p, "collect")
    /\ \E f \in todo[p] :
        /\ MayFail \/ fstate[f] # "superseded"
        /\ todo' = [todo EXCEPT ![p] = @ \ {f}]
    /\ UNCHANGED <<disk, lock, pc, script, cur, catalog, rest, gone, fresh, seen, errs, ghost>>

FinishGC(p) ==
    /\ At(p, "collect")
    /\ todo[p] = {}
    /\ Goto(p, "end")
    /\ UNCHANGED <<disk, lock, script, cur, catalog, work, ghost>>

\* The unlink's error is ignored: the file may have been moved meanwhile.
DropExtent(p) ==
    /\ \E t \in tabs[p] : \E f \in Extents(p, t) :
        /\ Begins(p, t, "dropExtent")
        /\ cat' = [cat EXCEPT ![p] = @ \ {f}]
        /\ fstate' = [fstate EXCEPT ![f] = IF @ = "live" THEN "deleted" ELSE @]
        /\ owed' = [owed EXCEPT ![t] = @ \ frows[f]]
        /\ basis' = [basis EXCEPT ![p][t] = @ \ frows[f]]
    /\ Goto(p, "end")
    /\ UNCHANGED <<ftable, frows, lock, script, tabs, work, torn>>

-----------------------------------------------------------------------------
(* A process dies: the kernel drops its lock, its memory is gone, the      *)
(* directory is as the last system call left it.                           *)

Crash(p) ==
    /\ MayCrash
    /\ ~At(p, "idle")
    /\ torn' = IF pc[p] \in {"write", "supersede"} /\ fresh[p] # {}
               THEN torn \cup {cur[p]} ELSE torn
    /\ Release(p)
    /\ UNCHANGED <<disk, owed>>

Statement(p) ==
    \/ Acquire(p) \/ Refresh(p) \/ NameTables(p) \/ Refuse(p)
    \/ EndCommand(p) \/ AbortStatement(p)
    \/ AnswerFromCatalog(p) \/ BeginQuery(p) \/ ScanExtent(p) \/ ScanMissing(p)
    \/ BeginAppend(p) \/ CreateTable(p) \/ AppendRows(p) \/ WriteNothing(p)
    \/ BeginReplace(p) \/ BeginCompact(p) \/ CompactNothing(p)
    \/ BeginDelete(p) \/ DeleteNothing(p) \/ WriteExtent(p) \/ WriteFails(p)
    \/ Supersede(p) \/ SupersedeFails(p) \/ FinishRewrite(p)
    \/ BeginDrop(p) \/ MoveFile(p) \/ MoveMissing(p) \/ FinishDrop(p)
    \/ BeginGC(p) \/ Collect(p) \/ CollectMissing(p) \/ FinishGC(p)
    \/ DropExtent(p)

Next == \E p \in Proc : Submit(p) \/ Statement(p) \/ RefreshFails(p) \/ Crash(p)

Spec == Init /\ [][Next]_vars

\* A live process goes on with its statement; nothing makes one arrive,
\* fail or die.
FairSpec == Spec /\ \A p \in Proc : WF_vars(Statement(p))

-----------------------------------------------------------------------------
(* Properties.                                                             *)

Locked(p) == lock[p] # "none"

NoRowTwice(S) == \A f, g \in S : f # g => frows[f] \cap frows[g] = {}

\* A statement holding the lock never counts a row twice: while .compact,
\* .set-or-replace or .delete has every row on disk twice no reader looks
\* (scopelock.go).  Tables whose rewrite died or failed half way excepted.
NoDoubleCount ==
    \A p \in Proc :
        Locked(p) /\ At(p, "answered") /\ cur[p] \notin torn => NoRowTwice(seen[p])

\* A query that answers has every row that was committed when its
\* statement refreshed, and those its own script committed since: files
\* that left the directory under it (.drop table and .drop extent take only
\* the shared lock, and a federated query no lock at all) fail it, they
\* never shorten its answer.
CompleteAnswer ==
    \A p \in Proc : At(p, "answered") => basis[p][cur[p]] \subseteq RowsOf(seen[p])

\* A committed row that no command took out is in a live extent of its
\* table, through compactions, crashes and failed calls (rewriteExtents
\* writes before it supersedes; .gc unlinks superseded files only).
NothingLost == \A t \in Table : owed[t] \subseteq RowsOf(Live(t))

\* No extent a shared statement has in its catalog is superseded or
\* collected before the statement ends.
StableSnapshot ==
    \A p \in Proc : lock[p] = "shared" =>
        \A f \in cat[p] : fstate[f] \in {"live", "archived", "deleted"}

\* What a rewrite supersedes without having read it are zero-row shells
\* (the comment of findActiveShellFiles).
ShellsAreEmpty ==
    \A p \in Proc : At(p, "write") =>
        \A f \in todo[p] \ Extents(p, cur[p]) : frows[f] = {}

\* A table, empty or not, stops being discoverable only by .drop table or
\* by removing its last extent: a rewrite never leaves it without a file.
OnlyDropForgets ==
    [][\A t \in Table :
         Live(t) # {} /\ Live(t)' = {} =>
            \E p \in Proc :
                \/ At(p, "move") /\ cur[p] = t /\ todo'[p] # todo[p]
                \/ At(p, "run") /\ cur'[p] = t /\ Cmd(p).kind = "dropExtent"]_vars

-----------------------------------------------------------------------------
(* What the directory looks like as a store of tables (TableStore).        *)

\* The statement has its catalog, and the lock it was read under.
Using(p) == Locked(p) /\ pc[p] \notin {"idle", "lock", "refresh"}

\* Files in the directory that do not count: new ones before the last is
\* written, old ones from then on.
Hidden(p) ==
    IF At(p, "write") THEN fresh[p] ELSE IF At(p, "supersede") THEN todo[p] ELSE {}

Shown(t) == {f \in Live(t) : \A p \in Proc : f \notin Hidden(p)}

Rows == [t \in Table |-> RowsOf(Shown(t))]

\* What the old files have that the new ones have not.
Undone ==
    [t \in Table |->
        RowsOf({f \in Live(t) : \E p \in Proc : At(p, "supersede") /\ f \in todo[p]})
            \ RowsOf(Shown(t))]

StageOf(p) ==
    IF ~Using(p) THEN "out"
    ELSE IF pc[p] \in {"supersede", "end", "answered", "failed"} THEN "done" ELSE "ready"

KindOf(p) == IF Using(p) THEN Cmd(p).kind ELSE "none"

ViewOf(p) ==
    [t \in Table |-> IF Using(p) THEN RowsOf(Extents(p, t) \ Hidden(p)) ELSE {}]

AnswerOf(p) == IF Using(p) /\ At(p, "answered") THEN {RowsOf(seen[p])} ELSE {}

DoomedBy(p) ==
    [t \in Table |-> IF Using(p) /\ At(p, "move") /\ cur[p] = t THEN RowsOf(todo[p]) ELSE {}]

Stages  == [p \in Proc |-> StageOf(p)]
Kinds   == [p \in Proc |-> KindOf(p)]
Views   == [p \in Proc |-> ViewOf(p)]
Answers == [p \in Proc |-> AnswerOf(p)]
Doomed  == [p \in Proc |-> DoomedBy(p)]

Store == INSTANCE TableStore WITH
    rows <- Rows, undo <- Undone, stage <- Stages, kind <- Kinds,
    view <- Views, answer <- Answers, doomed <- Doomed

\* To the statements with the lock the directory is a store of tables: each
\* reads the tables as they were when it began and as it changed them
\* since, and a rewrite, whatever calls it makes, is one step.
ImplementsStore == Store!Spec

\* Every statement that has the lock lets go of it: no loop over files that
\* others remove meanwhile gets stuck.
LockReleased == \A p \in Proc : Locked(p) ~> ~Locked(p)

-----------------------------------------------------------------------------
(* The invariant behind StableSnapshot, inductive together with TypeOK.    *)

InStatement(p) == pc[p] \notin {"idle", "lock"}

\* There is a command in hand, and a table while it is being worked on.
ScriptInv ==
    \A p \in Proc :
        /\ pc[p] # "idle" => script[p] # <<>>
        /\ pc[p] \notin {"idle", "lock", "refresh", "run", "end", "failed"} => cur[p] \in Table

\* Who holds the lock, and how, at each place of a statement.
LockInv ==
    \A p \in Proc :
        /\ ~InStatement(p) => lock[p] = "none"
        /\ lock[p] = "exclusive" => \A q \in Proc \ {p} : lock[q] = "none"
        /\ InStatement(p) /\ ~Federated => lock[p] # "none"
        /\ InStatement(p) /\ NeedsExclusive(script[p]) => lock[p] = "exclusive"
        /\ pc[p] \in {"write", "supersede"} => NeedsExclusive(script[p])

CatalogInv ==
    \A p \in Proc : pc[p] \in {"idle", "lock", "refresh"} => cat[p] = {}

\* A statement that rewrites a table is alone in the directory, whatever
\* commands come before it in its script (needsExclusiveScope looks into
\* scripts and compound statements), and a waiting one holds no catalog.
RewritesAlone == ScriptInv /\ LockInv /\ CatalogInv

=============================================================================
