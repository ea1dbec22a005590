----------------------------- MODULE SharedDict -----------------------------
(***************************************************************************)
(* The shared dictionary of one string column (pkg/engine/shareddict.go):  *)
(* the values of the column are given small integer codes that every       *)
(* extent of the table, whoever writes it, stores instead of the values.   *)
(* The codes are rows of an ordinary table, _Dictionaries, so they live in *)
(* its extent files; a writer that meets new values adds a file, holding   *)
(* the flock on _dictionaries.lock.  Each engine keeps the dictionary in   *)
(* memory (dictCache) across its statements and drops it at the start of a *)
(* statement when the listing of the dictionary's files has changed.       *)
(*                                                                         *)
(* Proc is the set of engines, in one process or several.  A statement     *)
(* holds the scope lock shared from Begin to Finish; .compact table        *)
(* _Dictionaries holds it alone (ScopeStore).                              *)
(*                                                                         *)
(* Abstractions.  A dictionary is the set of its entries.  dictRaw, the    *)
(* decoded files kept per exact listing, is a function of the listing      *)
(* (files are immutable and never reuse a name) and is left out.  The      *)
(* cardinality gate that keeps a column flat in one extent is a free       *)
(* choice.  Flat extents hold the values themselves and are left out.      *)
(***************************************************************************)
EXTENDS Naturals, FiniteSets

CONSTANTS
    Proc,      \* engines
    Value,     \* string values, Empty among them
    Empty,     \* ""
    Null,      \* a null cell
    File,      \* extent files of _Dictionaries
    Cap,       \* sharedDictCap
    Batch,     \* bound: the sets of cells an extent is written from
    NoDict,    \* "not in dictCache"
    NoValue,   \* what a code outside the dictionary decodes to
    NoProc,    \* "nobody"
    MayFail,   \* whether file system calls fail and processes die
    MaxExtents \* bound: extents written

ASSUME ConstantsOK ==
    /\ Empty \in Value
    /\ Null \notin Value
    /\ NoValue \notin Value
    /\ NoProc \notin Proc
    /\ Cap \in Nat
    /\ Batch \subseteq (SUBSET (Value \cup {Null})) \ {{}}
    /\ \A W \in Batch : IsFiniteSet(W)
    /\ MayFail \in BOOLEAN
    /\ MaxExtents \in Nat

VARIABLES
    \* the directory
    fstate,     \* File -> "none", "live" or "superseded"
    holds,      \* File -> the entries it holds
    extents,    \* coded extents of the column: functions from cells to codes
    dictLock,   \* who holds _dictionaries.lock
    \* each engine's memory
    pc,
    cat,        \* extents in its catalog
    knows,      \* whether its catalog has the table _Dictionaries
    filesSeen,  \* the listing at its last revalidation ({} is also Go's nil)
    cache,      \* dictCache's entry for the column, or NoDict
    want,       \* the cells of the extent it is writing
    plan,       \* the dictionary it encodes them with
    todo,       \* files .compact has still to supersede
    \* for the properties only
    blind       \* whether cache was filled while filesSeen was empty

memory == <<cat, knows, filesSeen, cache, want, plan, todo, blind>>
vars == <<fstate, holds, extents, dictLock, pc, memory>>

Entry == [code : Nat, value : Value]

PC == {"idle", "revalidate", "run", "lock", "extend", "table", "append",
       "save", "rewrite", "supersede"}

Listing == {f \in File : fstate[f] = "live"}

\* What loadTableDict reads from the files listed.
OnDisk == UNION {holds[f] : f \in Listing}

Cells == Value \cup {Null}

\* Nulls read as the empty string.
Shown(v) == IF v = Null THEN Empty ELSE v

\* len(sd.values)
Size(D) == IF D = {} THEN 0
           ELSE 1 + (CHOOSE n \in {e.code : e \in D} : \A e \in D : e.code <= n)

\* dict.codeOf: a missing key gives 0, and so does a null cell.
CodeOf(D, v) ==
    IF \E e \in D : e.value = v THEN (CHOOSE e \in D : e.value = v).code ELSE 0

Decode(D, c) ==
    LET E == {e \in D : e.code = c}
    IN IF E = {} THEN NoValue ELSE (CHOOSE e \in E : TRUE).value

Known(D) == {e.value : e \in D}

\* getSharedDict: the cached dictionary, loaded on first use.
Dictionary(p) == IF cache[p] = NoDict THEN OnDisk ELSE cache[p]

Init ==
    /\ fstate = [f \in File |-> "none"]
    /\ holds = [f \in File |-> {}]
    /\ extents = {}
    /\ dictLock = NoProc
    /\ pc = [p \in Proc |-> "idle"]
    /\ cat = [p \in Proc |-> {}]
    /\ knows = [p \in Proc |-> FALSE]
    /\ filesSeen = [p \in Proc |-> {}]
    /\ cache = [p \in Proc |-> NoDict]
    /\ want = [p \in Proc |-> {}]
    /\ plan = [p \in Proc |-> {}]
    /\ todo = [p \in Proc |-> {}]
    /\ blind = [p \in Proc |-> FALSE]

At(p, place) == pc[p] = place

Goto(p, place) == pc' = [pc EXCEPT ![p] = place]

-----------------------------------------------------------------------------
(* A statement: refresh, then revalidate, then reads and writes.           *)

Compacting(p) == pc[p] \in {"rewrite", "supersede"}

Begin(p) ==
    /\ At(p, "idle")
    /\ \A q \in Proc : ~Compacting(q)
    /\ cat' = [cat EXCEPT ![p] = extents]
    /\ knows' = [knows EXCEPT ![p] = Listing # {}]
    /\ Goto(p, "revalidate")
    /\ UNCHANGED <<fstate, holds, extents, dictLock, filesSeen, cache, want, plan, todo, blind>>

\* Mutant: the listing is remembered, the cached dictionary kept.
DropStale_Keeps(p) ==
    /\ filesSeen' = [filesSeen EXCEPT ![p] = Listing]
    /\ UNCHANGED <<cache, blind>>

\* revalidateDicts: an earlier listing that differs drops the cache.
Changed(p) == filesSeen[p] # {} /\ filesSeen[p] # Listing

DropStale(p) ==
    /\ filesSeen' = [filesSeen EXCEPT ![p] = Listing]
    /\ cache' = [cache EXCEPT ![p] = IF Changed(p) THEN NoDict ELSE @]
    /\ blind' = [blind EXCEPT ![p] = @ /\ ~Changed(p)]

Revalidate(p) ==
    /\ At(p, "revalidate")
    /\ DropStale(p)
    /\ Goto(p, "run")
    /\ UNCHANGED <<fstate, holds, extents, dictLock, cat, knows, want, plan, todo>>

\* The first extent scanned loads the dictionary.
Load(p) ==
    /\ At(p, "run")
    /\ cache[p] = NoDict
    /\ cat[p] # {}
    /\ cache' = [cache EXCEPT ![p] = OnDisk]
    /\ blind' = [blind EXCEPT ![p] = filesSeen[p] = {}]
    /\ UNCHANGED <<fstate, holds, extents, dictLock, pc, cat, knows, filesSeen, want, plan, todo>>

Leave(p) ==
    /\ Goto(p, "idle")
    /\ cat' = [cat EXCEPT ![p] = {}]
    /\ knows' = [knows EXCEPT ![p] = FALSE]
    /\ want' = [want EXCEPT ![p] = {}]
    /\ plan' = [plan EXCEPT ![p] = {}]
    /\ todo' = [todo EXCEPT ![p] = {}]
    /\ dictLock' = IF dictLock = p THEN NoProc ELSE dictLock

Finish(p) ==
    /\ \/ At(p, "run")
       \/ At(p, "supersede") /\ todo[p] = {}
    /\ Leave(p)
    /\ UNCHANGED <<fstate, holds, extents, filesSeen, cache, blind>>

-----------------------------------------------------------------------------
(* Writing an extent whose column is not kept flat.                        *)

\* resolveDictDecisions: "" is a candidate value of every such extent.
Wanted(p) == (want[p] \ {Null}) \cup {Empty}

ResolveDecision(p) ==
    /\ At(p, "run")
    /\ Cardinality(extents) < MaxExtents
    /\ \E W \in Batch : want' = [want EXCEPT ![p] = W]
    /\ Goto(p, "lock")
    /\ UNCHANGED <<fstate, holds, extents, dictLock, cat, knows, filesSeen, cache, plan, todo, blind>>

TakeDictLock(p) ==
    /\ At(p, "lock")
    /\ dictLock = NoProc
    /\ dictLock' = p
    /\ Goto(p, "extend")
    /\ UNCHANGED <<fstate, holds, extents, memory>>

\* The ways to give the new values N the codes from n up, "" first.
Numberings(N, n) ==
    {D \in SUBSET [code : n .. n + Cardinality(N) - 1, value : N] :
        /\ Cardinality(D) = Cardinality(N)
        /\ Known(D) = N
        /\ {e.code : e \in D} = n .. n + Cardinality(N) - 1
        /\ \A e \in D : e.value = Empty => e.code = n}

\* Mutant: the engine's cached dictionary is extended.
Current_Cached(p) == Dictionary(p)

\* Under the lock the dictionary is read from the directory, never from
\* the catalog or the cache.
Current(p) == OnDisk

\* extendTableDict, up to its first write.  Over the cap the extent is flat.
Extend(p) ==
    LET D   == Current(p)
        new == Wanted(p) \ Known(D)
    IN /\ At(p, "extend")
       /\ \/ /\ Size(D) + Cardinality(new) > Cap
             /\ want' = [want EXCEPT ![p] = {}]
             /\ dictLock' = IF dictLock = p THEN NoProc ELSE dictLock
             /\ Goto(p, "run")
             /\ UNCHANGED plan
          \/ /\ Size(D) + Cardinality(new) <= Cap
             /\ new = {}
             /\ plan' = [plan EXCEPT ![p] = D]
             /\ dictLock' = IF dictLock = p THEN NoProc ELSE dictLock
             /\ Goto(p, "save")
             /\ UNCHANGED want
          \/ /\ Size(D) + Cardinality(new) <= Cap
             /\ new # {}
             /\ \E A \in Numberings(new, Size(D)) : plan' = [plan EXCEPT ![p] = D \cup A]
             /\ Goto(p, IF knows[p] THEN "append" ELSE "table")
             /\ UNCHANGED <<want, dictLock>>
       /\ UNCHANGED <<fstate, holds, extents, cat, knows, filesSeen, cache, todo, blind>>

Commit(f, D) ==
    /\ fstate[f] = "none"
    /\ fstate' = [fstate EXCEPT ![f] = "live"]
    /\ holds' = [holds EXCEPT ![f] = D]

\* The catalog does not have _Dictionaries: a zero-row file asserts it.
CreateDictionaries(p) ==
    /\ At(p, "table")
    /\ \E f \in File : Commit(f, {})
    /\ knows' = [knows EXCEPT ![p] = TRUE]
    /\ Goto(p, "append")
    /\ UNCHANGED <<extents, dictLock, cat, filesSeen, cache, want, plan, todo, blind>>

\* The new entries are committed before the lock is let go.
AppendEntries(p) ==
    /\ At(p, "append")
    /\ \E f \in File : Commit(f, plan[p] \ OnDisk)
    /\ dictLock' = IF dictLock = p THEN NoProc ELSE dictLock
    /\ Goto(p, "save")
    /\ UNCHANGED <<extents, memory>>

\* SaveExtent: its own cache first, then the file's rename.
SaveExtent(p) ==
    LET x == [v \in want[p] |-> IF v = Null THEN 0 ELSE CodeOf(plan[p], v)]
    IN /\ At(p, "save")
       /\ cache' = [cache EXCEPT ![p] = plan[p]]
       /\ blind' = [blind EXCEPT ![p] = filesSeen[p] = {}]
       /\ extents' = extents \cup {x}
       /\ cat' = [cat EXCEPT ![p] = @ \cup {x}]
       /\ want' = [want EXCEPT ![p] = {}]
       /\ plan' = [plan EXCEPT ![p] = {}]
       /\ Goto(p, "run")
       /\ UNCHANGED <<fstate, holds, dictLock, knows, filesSeen, todo>>

\* An error ends the statement; what was committed stays, and an extent
\* that could not be written has already set the cache.
Fail(p) ==
    /\ MayFail \/ \A f \in File : fstate[f] # "none"
    /\ pc[p] \in {"extend", "table", "append", "save", "rewrite", "supersede"}
    /\ cache' = [cache EXCEPT ![p] = IF At(p, "save") THEN plan[p] ELSE @]
    /\ blind' = [blind EXCEPT ![p] = IF At(p, "save") THEN filesSeen[p] = {} ELSE @]
    /\ Leave(p)
    /\ UNCHANGED <<fstate, holds, extents, filesSeen>>

-----------------------------------------------------------------------------
(* .compact table _Dictionaries, alone: the entries in one new file, then  *)
(* the old files superseded one by one.                                    *)

BeginCompact(p) ==
    /\ At(p, "idle")
    /\ \A q \in Proc : At(q, "idle")
    /\ Cardinality(Listing) > 1
    /\ DropStale(p)
    /\ todo' = [todo EXCEPT ![p] = Listing]
    /\ Goto(p, "rewrite")
    /\ UNCHANGED <<fstate, holds, extents, dictLock, cat, knows, want, plan>>

\* Mutant: the old files go first.
Rewrite_Last(p) ==
    /\ At(p, "rewrite")
    /\ \E f \in todo[p] :
        /\ fstate' = [fstate EXCEPT ![f] = "superseded"]
        /\ todo' = [todo EXCEPT ![p] = @ \ {f}]
    /\ Goto(p, "supersede")
    /\ UNCHANGED <<holds, extents, dictLock, cat, knows, filesSeen, cache, want, plan, blind>>

Rewrite(p) ==
    /\ At(p, "rewrite")
    /\ \E f \in File : Commit(f, UNION {holds[g] : g \in todo[p]})
    /\ Goto(p, "supersede")
    /\ UNCHANGED <<extents, dictLock, memory>>

Supersede(p) ==
    /\ At(p, "supersede")
    /\ \E f \in todo[p] :
        /\ fstate' = [fstate EXCEPT ![f] = "superseded"]
        /\ todo' = [todo EXCEPT ![p] = @ \ {f}]
    /\ UNCHANGED <<holds, extents, dictLock, pc, cat, knows, filesSeen, cache, want, plan, blind>>

\* The engine's process ends, at any point; another opens the directory.
Exit(p) ==
    /\ At(p, "idle") \/ MayFail
    /\ Leave(p)
    /\ filesSeen' = [filesSeen EXCEPT ![p] = {}]
    /\ cache' = [cache EXCEPT ![p] = NoDict]
    /\ blind' = [blind EXCEPT ![p] = FALSE]
    /\ UNCHANGED <<fstate, holds, extents>>

Next == \E p \in Proc :
    \/ Begin(p) \/ Revalidate(p) \/ Load(p) \/ Finish(p)
    \/ ResolveDecision(p) \/ TakeDictLock(p) \/ Extend(p)
    \/ CreateDictionaries(p) \/ AppendEntries(p) \/ SaveExtent(p) \/ Fail(p)
    \/ BeginCompact(p) \/ Rewrite(p) \/ Supersede(p) \/ Exit(p)

Spec == Init /\ [][Next]_vars

-----------------------------------------------------------------------------
(* Properties.                                                             *)

\* Whatever writers interleave, fail or die, the dictionary in the files
\* gives each value one code and each code one value, without gaps, within
\* the cap, and "" has code 0, the code nulls are written with.
OneCodePerValue ==
    LET D == OnDisk
    IN /\ \A d, e \in D : d.code = e.code <=> d.value = e.value
       /\ {e.code : e \in D} = 0 .. Cardinality(D) - 1
       /\ Cardinality(D) <= Cap
       /\ D # {} => [code |-> 0, value |-> Empty] \in D

\* An entry never leaves the files and never changes its code: extents
\* already written depend on it, also while _Dictionaries is compacted.
CodesPermanent == [][OnDisk \subseteq OnDisk']_vars

\* What an extent is read as with a dictionary.
Decoded(x, D) == [v \in DOMAIN x |-> Decode(D, x[v])]

\* The dictionary a statement reads with: one that revalidation is about to drop
\* is loaded anew.
ReadsWith(p) == IF At(p, "revalidate") /\ Changed(p) THEN OnDisk ELSE Dictionary(p)

\* A founder is an engine that filled its cache when its last listing had found no
\* dictionary file: an empty listing is Go's nil, so that the next one does not
\* count as changed (revalidateDicts) and the cache stays.
Column == INSTANCE StringColumn WITH
    Cell <- Cells,
    Lost <- NoValue,
    written <- {Decoded(x, OnDisk) : x \in extents},
    snapshot <- [p \in Proc |-> {Decoded(x, OnDisk) : x \in cat[p]}],
    seen <- [p \in Proc |-> {Decoded(x, ReadsWith(p)) : x \in cat[p]}],
    founder <- blind

\* The codes are out of sight: whatever writers interleave, fail or die, and while
\* _Dictionaries is compacted, every extent is read as the cells it was written from,
\* with the dictionary in the files and with the one an engine has in memory, and a
\* statement reads the same from its first scan to its last (extendTableDict commits
\* entries before SaveExtent renames the extent; revalidateDicts; DropStale).  A
\* founder that kept its cache lacks what others have added since, and has nothing
\* wrong.
ImplementsColumn == Column!Spec

=============================================================================
