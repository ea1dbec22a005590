-------------------------- MODULE ViewMaintenance ---------------------------
(***************************************************************************)
(* Materialized view maintenance (pkg/engine/mv_maintenance.go) for one    *)
(* view over one source table.  An append to the source starts a detached  *)
(* goroutine that adds the appended rows to the view; the append itself    *)
(* returns at once.  Rewriting the source recomputes the view inside the   *)
(* statement.  Both replace the view by archiving all its files, creating  *)
(* the table anew and writing one extent.  A process-wide marker           *)
(* (mvInFlight) makes readers of the view wait for the goroutine.          *)
(*                                                                         *)
(* Engine is the set of engines of one process: one for a command line     *)
(* session, one per request for -serve.  Each has its own catalog, shared  *)
(* with the goroutines it started, and runs one statement at a time.       *)
(*                                                                         *)
(* Abstractions.  The view is T | summarize count() by Group: a view file  *)
(* holds a count per group, the source a number of rows per group (other   *)
(* mergeable aggregates differ in what they add up).  Appends to and       *)
(* rewrites of the source are atomic (ScopeStore is about those), a        *)
(* statement's catalog refresh always rebuilds (CatalogRefresh), and a     *)
(* merge's listing of the files and DropTable are one step.                *)
(***************************************************************************)
EXTENDS Integers, FiniteSets

CONSTANTS
    Engine,    \* engines of the process
    MaxMerge,  \* bound: goroutines started
    MaxFile,   \* bound: files of the view
    MaxBegun,  \* bound: statements begun
    Group,     \* groups of the view's summarize
    MayFail    \* whether file system calls fail and the process is killed

Merge   == 1 .. MaxMerge
File    == 1 .. MaxFile
Worker  == Engine \cup Merge
NoMerge == 0

ASSUME ConstantsOK ==
    /\ Engine \cap Nat = {}
    /\ MaxMerge \in Nat
    /\ MaxFile \in Nat \ {0}
    /\ MaxBegun \in Nat
    /\ MayFail \in BOOLEAN

VARIABLES
    src,       \* Group -> rows the source table has of it
    vstate,    \* File -> "none", "live" or "archived"
    counts,    \* File -> Group -> the count it holds
    marker,    \* mvInFlight: the goroutine whose WaitGroup is stored
    vtab,      \* Engine -> whether its catalog has the view's table
    vcat,      \* Engine -> File -> how often its catalog registers the file
    pc,        \* Worker -> where it is
    owner,     \* Merge -> the engine whose catalog it uses
    delta,     \* Worker -> the rows appended, per group
    base,      \* Worker -> the view's content it read, later what it writes
    todo,      \* Worker -> files still to archive, or its file to register
    awaits,    \* Engine -> the goroutine it waits for
    begun,     \* statements begun, for the bound
    \* for the properties only
    told,      \* Group -> the rows whose append statement has returned
    basis,     \* Engine -> what told was when its query began
    disturbed  \* a merge overlapped a statement, or something failed

disk   == <<src, vstate, counts>>
memory == <<begun, marker, vtab, vcat, owner, delta, base, todo, awaits>>
ghost  == <<told, basis, disturbed>>
vars   == <<disk, memory, pc, ghost>>

Nothing == [g \in Group |-> 0]

Plus(c, d) == [g \in Group |-> c[g] + d[g]]

Live == {f \in File : vstate[f] = "live"}

\* The sum of what the files have.
SumOf(x) ==
    LET upTo[n \in 0 .. MaxFile] == IF n = 0 THEN 0 ELSE upTo[n - 1] + x[n]
    IN upTo[MaxFile]

\* The counts of the files, each taken as often as times says.
Counted(times) == [g \in Group |-> SumOf([f \in File |-> times[f] * counts[f][g]])]

\* What the files in the directory count.
Content == Counted([f \in File |-> IF f \in Live THEN 1 ELSE 0])

Eng(w) == IF w \in Engine THEN w ELSE owner[w]

At(w, place) == pc[w] = place

Goto(w, place) == pc' = [pc EXCEPT ![w] = place]

Replacing == {"list", "move", "create", "shell", "flush", "register"}

\* Goroutines that still have something to do for the view.
Merging == {m \in Merge : pc[m] \in {"read", "unmark", "signal"} \cup Replacing}

\* Bound: a call fails, or the process is killed, at most once, and only
\* while all else is in order.
Faulty == MayFail /\ ~disturbed

\* The view exists, empty, and no merge has run.
Init ==
    /\ src = Nothing
    /\ vstate = [f \in File |-> IF f = 1 THEN "live" ELSE "none"]
    /\ counts = [f \in File |-> Nothing]
    /\ begun = 0
    /\ marker = NoMerge
    /\ vtab = [e \in Engine |-> FALSE]
    /\ vcat = [e \in Engine |-> [f \in File |-> 0]]
    /\ pc = [w \in Worker |-> IF w \in Engine THEN "idle" ELSE "none"]
    /\ owner = [m \in Merge |-> CHOOSE e \in Engine : TRUE]
    /\ delta = [w \in Worker |-> Nothing]
    /\ base = [w \in Worker |-> Nothing]
    /\ todo = [w \in Worker |-> {}]
    /\ awaits = [e \in Engine |-> NoMerge]
    /\ told = Nothing
    /\ basis = [e \in Engine |-> Nothing]
    /\ disturbed = FALSE

-----------------------------------------------------------------------------
(* Statements.                                                             *)

\* Take the scope lock and refresh the catalog.  The lock of a rewrite is
\* exclusive; no goroutine takes part in it.
Begin(e, place) ==
    /\ At(e, "idle")
    /\ begun < MaxBegun
    /\ begun' = begun + 1
    /\ \A f \in Engine : pc[f] \notin {"rewrite", "look"} \cup Replacing
    /\ place = "rewrite" => \A f \in Engine : At(f, "idle")
    /\ place = "append" =>
         Cardinality({f \in Engine : pc[f] \in {"append", "trigger"}})
           < Cardinality({m \in Merge : At(m, "none")})
    /\ vtab' = [vtab EXCEPT ![e] = Live # {}]
    /\ vcat' = [vcat EXCEPT ![e] =
         [f \in File |-> IF vstate[f] = "live" /\ counts[f] # Nothing THEN 1 ELSE 0]]
    /\ basis' = [basis EXCEPT ![e] = IF place = "query" THEN told ELSE Nothing]
    /\ disturbed' = (disturbed \/ Merging # {})
    /\ Goto(e, place)
    /\ UNCHANGED <<disk, marker, owner, delta, base, todo, awaits, told>>

\* .append and its kin: the rows are committed, then the views maintained.
CommitAppend(e) ==
    /\ At(e, "append")
    /\ \E g \in Group :
        /\ src' = [src EXCEPT ![g] = @ + 1]
        /\ delta' = [delta EXCEPT ![e][g] = 1]
    /\ Goto(e, "trigger")
    /\ UNCHANGED <<vstate, counts, begun, marker, vtab, vcat, owner, base, todo, awaits, ghost>>

\* Nothing to append, nothing to delete: nothing to maintain.
ChangeNothing(e) ==
    /\ pc[e] \in {"append", "rewrite"}
    /\ Goto(e, "idle")
    /\ UNCHANGED <<disk, memory, ghost>>

\* The new marker overwrites that of an earlier goroutine.
Trigger(e) ==
    /\ At(e, "trigger")
    /\ \E m \in Merge :
        /\ At(m, "none")
        /\ \A n \in Merge : n < m => ~At(n, "none")
        /\ marker' = m
        /\ owner' = [owner EXCEPT ![m] = e]
        /\ delta' = [delta EXCEPT ![m] = delta[e], ![e] = Nothing]
        /\ pc' = [pc EXCEPT ![m] = "read", ![e] = "idle"]
    /\ told' = Plus(told, delta[e])
    /\ disturbed' = (disturbed \/ Merging # {} \/ \E f \in Engine \ {e} : ~At(f, "idle"))
    /\ UNCHANGED <<disk, begun, vtab, vcat, base, todo, awaits, basis>>

\* .delete records or .set-or-replace take rows out, then recomputeViewsOn.
RewriteSource(e) ==
    /\ At(e, "rewrite")
    /\ \E g \in Group : \E n \in 0 .. src[g] - 1 : src' = [src EXCEPT ![g] = n]
    /\ told' = src'
    /\ Goto(e, "look")
    /\ UNCHANGED <<vstate, counts, memory, basis, disturbed>>

\* waitForMaterializedView: before a query of the view (place "query") and
\* before a recomputation ("look").
Look(e) ==
    /\ pc[e] \in {"query", "look"}
    /\ marker # NoMerge
    /\ awaits[e] = NoMerge
    /\ awaits' = [awaits EXCEPT ![e] = marker]
    /\ UNCHANGED <<disk, begun, marker, vtab, vcat, owner, delta, base, todo, pc, ghost>>

\* No marker, or the WaitGroup it found is done.
Proceed(e) ==
    /\ \/ awaits[e] = NoMerge /\ marker = NoMerge
       \/ awaits[e] # NoMerge /\ At(awaits[e], "done")
    /\ awaits' = [awaits EXCEPT ![e] = NoMerge]
    /\ \/ At(e, "query") /\ Goto(e, "scan") /\ UNCHANGED base
       \/ /\ At(e, "look")
          /\ base' = [base EXCEPT ![e] = src]
          /\ Goto(e, "list")
    /\ UNCHANGED <<disk, begun, marker, vtab, vcat, owner, delta, todo, ghost>>

Registered(e) == {f \in File : vcat[e][f] > 0}

\* The query reads the extents its engine's catalog registers.
Answer(e) ==
    /\ At(e, "scan")
    /\ vtab[e]
    /\ Registered(e) \subseteq Live
    /\ base' = [base EXCEPT ![e] = Counted(vcat[e])]
    /\ Goto(e, "answered")
    /\ UNCHANGED <<disk, begun, marker, vtab, vcat, owner, delta, todo, awaits, ghost>>

\* "table not found", or an extent that is no longer there.
NoAnswer(e) ==
    /\ At(e, "scan")
    /\ ~vtab[e] \/ ~(Registered(e) \subseteq Live)
    /\ basis' = [basis EXCEPT ![e] = Nothing]
    /\ Goto(e, "idle")
    /\ UNCHANGED <<disk, memory, told, disturbed>>

Return(e) ==
    /\ At(e, "answered")
    /\ base' = [base EXCEPT ![e] = Nothing]
    /\ basis' = [basis EXCEPT ![e] = Nothing]
    /\ Goto(e, "idle")
    /\ UNCHANGED <<disk, begun, marker, vtab, vcat, owner, delta, todo, awaits, told, disturbed>>

-----------------------------------------------------------------------------
(* A goroutine's merge, and the replacement of the view's table, which a   *)
(* recomputing statement runs too.                                         *)

\* Mutant: the view's own counts are not carried forward.
ReadView_DeltaOnly(m) ==
    /\ At(m, "read")
    /\ base' = [base EXCEPT ![m] = delta[m]]
    /\ Goto(m, "list")
    /\ UNCHANGED <<disk, begun, marker, vtab, vcat, owner, delta, todo, awaits, ghost>>

\* Read the current content and merge the delta's counts into it.  A table
\* the catalog does not have reads as empty.
ReadView(m) ==
    LET e == owner[m]
        current == IF vtab[e] THEN Counted(vcat[e]) ELSE Nothing
    IN /\ At(m, "read")
       /\ vtab[e] => Registered(e) \subseteq Live
       /\ base' = [base EXCEPT ![m] = Plus(current, delta[m])]
       /\ Goto(m, "list")
       /\ UNCHANGED <<disk, begun, marker, vtab, vcat, owner, delta, todo, awaits, ghost>>

\* An error ends the goroutine's merge, or the recomputation; nothing else.
Stop(w) ==
    /\ Goto(w, IF w \in Merge THEN "unmark" ELSE "idle")
    /\ todo' = [todo EXCEPT ![w] = {}]
    /\ disturbed' = TRUE
    /\ UNCHANGED <<disk, begun, marker, vtab, vcat, owner, delta, base, awaits, told, basis>>

ReadFails(m) ==
    /\ At(m, "read")
    /\ Faulty \/ (vtab[owner[m]] /\ ~(Registered(owner[m]) \subseteq Live))
    /\ Stop(m)

\* dropTableComplete lists the files and takes the table out of the catalog.
ListFiles(w) ==
    /\ At(w, "list")
    /\ IF vtab[Eng(w)]
       THEN /\ todo' = [todo EXCEPT ![w] = Live]
            /\ vtab' = [vtab EXCEPT ![Eng(w)] = FALSE]
            /\ vcat' = [vcat EXCEPT ![Eng(w)] = [f \in File |-> 0]]
            /\ Goto(w, IF Live = {} THEN "create" ELSE "move")
       ELSE Goto(w, "create") /\ UNCHANGED <<todo, vtab, vcat>>
    /\ UNCHANGED <<disk, begun, marker, owner, delta, base, awaits, ghost>>

\* What an archived file holds is of no further interest.
MoveFile(w) ==
    /\ At(w, "move")
    /\ \E f \in todo[w] :
        /\ vstate[f] = "live"
        /\ vstate' = [vstate EXCEPT ![f] = "archived"]
        /\ counts' = [counts EXCEPT ![f] = Nothing]
        /\ todo' = [todo EXCEPT ![w] = @ \ {f}]
        /\ IF todo[w] = {f} THEN Goto(w, "create") ELSE UNCHANGED pc
    /\ UNCHANGED <<src, begun, marker, vtab, vcat, owner, delta, base, awaits, ghost>>

\* Mutant: an error is tried again until the file is moved.
MoveFails_Retries(w) ==
    /\ At(w, "move")
    /\ \E f \in todo[w] : Faulty \/ vstate[f] # "live"
    /\ UNCHANGED vars

\* The loop goes on after an error, and the drop fails at its end: some of
\* the other files are archived by then.
MoveFails(w) ==
    /\ At(w, "move")
    /\ \E f \in todo[w] : Faulty \/ vstate[f] # "live"
    /\ Stop(w)

CreateTable(w) ==
    /\ At(w, "create")
    /\ ~vtab[Eng(w)]
    /\ vtab' = [vtab EXCEPT ![Eng(w)] = TRUE]
    /\ Goto(w, "shell")
    /\ UNCHANGED <<disk, begun, marker, vcat, owner, delta, base, todo, awaits, ghost>>

\* "table already exists": a refresh or another merge put it back.
CreateFails(w) ==
    /\ At(w, "create")
    /\ vtab[Eng(w)]
    /\ Stop(w)

\* Extent names are time ordered.
NewFile == CHOOSE f \in File : /\ vstate[f] = "none"
                               /\ \A g \in File : vstate[g] = "none" => f <= g

Commit(c) ==
    /\ \E f \in File : vstate[f] = "none"
    /\ vstate' = [vstate EXCEPT ![NewFile] = "live"]
    /\ counts' = [counts EXCEPT ![NewFile] = c]

\* A goroutine is over; a statement that recomputed returns.
Ended(w) == IF w \in Merge THEN "unmark" ELSE "idle"

PersistShell(w) ==
    /\ At(w, "shell")
    /\ Commit(Nothing)
    /\ Goto(w, IF base[w] = Nothing THEN Ended(w) ELSE "flush")
    /\ UNCHANGED <<src, memory, ghost>>

\* The process ends or begins anew: the directory stays.
Restart ==
    /\ marker' = NoMerge
    /\ vtab' = [e \in Engine |-> FALSE]
    /\ vcat' = [e \in Engine |-> [f \in File |-> 0]]
    /\ pc' = [w \in Worker |-> IF w \in Engine THEN "idle" ELSE
                               IF At(w, "none") THEN "none" ELSE "done"]
    /\ delta' = [w \in Worker |-> Nothing]
    /\ base' = [w \in Worker |-> Nothing]
    /\ todo' = [w \in Worker |-> {}]
    /\ awaits' = [e \in Engine |-> NoMerge]
    /\ told' = src
    /\ UNCHANGED <<disk, begun, owner, basis>>

\* The table has left the catalog since CreateTable: flushBatch
\* dereferences nil, and a panic in a goroutine ends the process.
Panic(w) ==
    /\ At(w, "flush")
    /\ ~vtab[Eng(w)]
    /\ Restart
    /\ disturbed' = TRUE

\* SaveExtent: the rename commits the extent.
Flush(w) ==
    /\ At(w, "flush")
    /\ vtab[Eng(w)]
    /\ Commit(base[w])
    /\ todo' = [todo EXCEPT ![w] = {NewFile}]
    /\ Goto(w, "register")
    /\ UNCHANGED <<src, begun, marker, vtab, vcat, owner, delta, base, awaits, ghost>>

WriteFails(w) ==
    /\ Faulty \/ \A f \in File : vstate[f] # "none"
    /\ pc[w] \in {"shell", "flush"}
    /\ Stop(w)

\* AddExtent appends the file it wrote, without looking whether a refresh
\* has registered it already.
Register(w) ==
    /\ At(w, "register")
    /\ vtab[Eng(w)]
    /\ \E f \in todo[w] : vcat' = [vcat EXCEPT ![Eng(w)][f] = @ + 1]
    /\ todo' = [todo EXCEPT ![w] = {}]
    /\ base' = [base EXCEPT ![w] = Nothing]
    /\ Goto(w, Ended(w))
    /\ UNCHANGED <<disk, begun, marker, vtab, owner, delta, awaits, ghost>>

RegisterFails(w) ==
    /\ At(w, "register")
    /\ ~vtab[Eng(w)]
    /\ Stop(w)

\* defer mvInFlight.Delete(key): whichever goroutine's marker it is.
Unmark(m) ==
    /\ At(m, "unmark")
    /\ marker' = NoMerge
    /\ base' = [base EXCEPT ![m] = Nothing]
    /\ delta' = [delta EXCEPT ![m] = Nothing]
    /\ Goto(m, "signal")
    /\ UNCHANGED <<disk, begun, vtab, vcat, owner, todo, awaits, ghost>>

\* defer wg.Done().
Signal(m) ==
    /\ At(m, "signal")
    /\ Goto(m, "done")
    /\ UNCHANGED <<disk, memory, ghost>>

-----------------------------------------------------------------------------
(* The process ends.                                                       *)

\* WaitForAllMaterializedViewMaintenance waits for the marker it finds.
Exit ==
    /\ \A e \in Engine : At(e, "idle")
    /\ marker # NoMerge => At(marker, "done")
    /\ Restart
    /\ UNCHANGED disturbed

Killed ==
    /\ Faulty
    /\ Restart
    /\ disturbed' = TRUE

Replace(w) ==
    \/ ListFiles(w) \/ MoveFile(w) \/ MoveFails(w)
    \/ CreateTable(w) \/ CreateFails(w) \/ PersistShell(w)
    \/ Panic(w) \/ Flush(w) \/ WriteFails(w) \/ Register(w) \/ RegisterFails(w)

Goroutine(m) == ReadView(m) \/ ReadFails(m) \/ Replace(m) \/ Unmark(m) \/ Signal(m)

Statement(e) ==
    \/ CommitAppend(e) \/ ChangeNothing(e) \/ Trigger(e) \/ RewriteSource(e) \/ Look(e) \/ Proceed(e)
    \/ Answer(e) \/ NoAnswer(e) \/ Return(e) \/ Replace(e)

Next ==
    \/ \E e \in Engine, place \in {"append", "query", "rewrite"} : Begin(e, place)
    \/ \E e \in Engine : Statement(e)
    \/ \E m \in Merge : Goroutine(m)
    \/ Exit \/ Killed

Spec == Init /\ [][Next]_vars

\* The Go scheduler runs every goroutine, and statements go on.
FairSpec ==
    /\ Spec
    /\ \A m \in Merge : WF_vars(Goroutine(m))
    /\ \A e \in Engine : WF_vars(Statement(e))

-----------------------------------------------------------------------------
(* Properties.                                                             *)

Quiet == Merging = {} /\ \A e \in Engine : At(e, "idle")

\* As long as statements come one by one, each after the merges before it, and
\* nothing fails: when nothing is going on the view has the counts of the source,
\* through appends, rewrites and exits of the process, and a query of the view counts
\* every row whose append had returned when it began, and no row twice (the comment
\* at the head of mv_maintenance.go).
ViewExact ==
    ~disturbed =>
      /\ Quiet => Content = src
      /\ \A e \in Engine : At(e, "answered") =>
           \A g \in Group : basis[e][g] <= base[e][g] /\ base[e][g] <= src[g]

\* Nobody waits for a goroutine for ever: no merge waits for its own
\* marker, and every path out of a merge takes the marker away and signals.
WaitEnds == \A e \in Engine : awaits[e] # NoMerge ~> awaits[e] = NoMerge

=============================================================================
