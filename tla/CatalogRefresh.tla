--------------------------- MODULE CatalogRefresh ---------------------------
(***************************************************************************)
(* When a long-lived gokql process may keep the catalog it has             *)
(* (pkg/catalog/freshness.go, rediscoverLocked in pkg/catalog/discover.go).*)
(*                                                                         *)
(* Before every statement the catalog is refreshed from the database       *)
(* directory and its extents/ subdirectory, while other processes commit,  *)
(* supersede and remove files.  A refresh stats both directories first.    *)
(* If their modification times are those of the last rebuild, and were     *)
(* old enough (racyWindow) when that rebuild began, nothing else is read.  *)
(* Otherwise it lists the directories, reads the footers of the files it   *)
(* found, skips those that vanished meanwhile, and remembers the stamps it *)
(* took at its beginning.                                                  *)
(*                                                                         *)
(* Time is counted in ticks.  A directory's modification time is that of   *)
(* its last change, rounded down by less than Grain: file systems keep     *)
(* times in steps of their own and kernels use a coarse clock.  Inode and  *)
(* size, the rest of a stamp, only help and are left out.  Clocks that     *)
(* run backwards are not modelled.                                         *)
(***************************************************************************)
EXTENDS Naturals

CONSTANTS
    Dir,        \* the database directory, and extents/ where it exists
    File,       \* extent files
    Window,     \* racyWindow
    Grain,      \* a modification time lags its change by less than this
    MaxTime,    \* the clock stops here
    MayFail     \* whether a footer may be unreadable

ASSUME ClockOK ==
    /\ Window \in Nat
    /\ Grain \in Nat \ {0}
    /\ Grain <= Window
    /\ MaxTime \in Nat

ASSUME FailureOK == MayFail \in BOOLEAN

VARIABLES
    now,        \* the clock
    held,       \* Dir -> files a listing shows
    mtime,      \* Dir -> its modification time
    \* the catalog
    cat,        \* Dir -> files it registers
    dirSeen,    \* Dir -> stamp taken by the last rebuild
    seenAt,     \* when the last rebuild began
    force,      \* nothing read yet: Open
    \* the refresh in progress
    phase,      \* where it is
    at,         \* when it began
    stamps,     \* Dir -> stamp it took
    todo,       \* directories it has still to stat, or to list
    listed,     \* Dir -> files it listed and has still to read
    found,      \* Dir -> files it has read
    \* what the properties refer to
    changed,    \* Dir -> when it last changed
    always,     \* Dir -> files there throughout the refresh so far
    ever        \* Dir -> files there at some moment of it

world   == <<now, held, mtime>>
memory  == <<cat, dirSeen, seenAt, force>>
refresh == <<phase, at, stamps, todo, listed, found>>
ghost   == <<changed, always, ever>>
vars    == <<world, memory, refresh, ghost>>

Phase == {"idle", "stat", "list", "read"}

TypeOK ==
    /\ now \in Nat
    /\ held \in [Dir -> SUBSET File]
    /\ mtime \in [Dir -> Nat]
    /\ cat \in [Dir -> SUBSET File]
    /\ dirSeen \in [Dir -> Nat]
    /\ seenAt \in Nat
    /\ force \in BOOLEAN
    /\ phase \in Phase
    /\ at \in Nat
    /\ stamps \in [Dir -> Nat]
    /\ todo \in SUBSET Dir
    /\ listed \in [Dir -> SUBSET File]
    /\ found \in [Dir -> SUBSET File]
    /\ changed \in [Dir -> Nat]
    /\ always \in [Dir -> SUBSET File]
    /\ ever \in [Dir -> SUBSET File]

Nothing == [d \in Dir |-> {}]

Zero == [d \in Dir |-> 0]

Init ==
    /\ now = 0
    /\ held \in [Dir -> SUBSET File]
    /\ mtime = Zero
    /\ cat = Nothing
    /\ dirSeen = Zero
    /\ seenAt = 0
    /\ force = TRUE
    /\ phase = "idle"
    /\ at = 0
    /\ stamps = Zero
    /\ todo = {}
    /\ listed = Nothing
    /\ found = Nothing
    /\ changed = Zero
    /\ always = Nothing
    /\ ever = Nothing

-----------------------------------------------------------------------------
(* The file system and the other processes.                                *)

Tick ==
    /\ now < MaxTime
    /\ now' = now + 1
    /\ UNCHANGED <<held, mtime, memory, refresh, ghost>>

\* Directory d now shows the files in S.
Becomes(d, S) ==
    /\ held' = [held EXCEPT ![d] = S]
    /\ \E m \in 0..now :
        /\ now < m + Grain
        /\ mtime' = [mtime EXCEPT ![d] = m]
    /\ changed' = [changed EXCEPT ![d] = now]
    /\ always' = [always EXCEPT ![d] = @ \cap S]
    /\ ever' = IF phase = "idle" THEN ever ELSE [ever EXCEPT ![d] = @ \cup S]
    /\ UNCHANGED now

\* Another process commits an extent.
OtherAdds(d) ==
    /\ \E f \in File \ held[d] : Becomes(d, held[d] \cup {f})
    /\ UNCHANGED <<memory, refresh>>

\* Another process supersedes, archives or removes one.
OtherRemoves(d) ==
    /\ \E f \in held[d] : Becomes(d, held[d] \ {f})
    /\ UNCHANGED <<memory, refresh>>

-----------------------------------------------------------------------------
(* The statements of this process, between refreshes.                      *)

\* flushBatch: the extent is committed, then registered (AddExtent).
OwnCommit(d) ==
    /\ phase = "idle" /\ ~force
    /\ \E f \in File \ held[d] :
        /\ Becomes(d, held[d] \cup {f})
        /\ cat' = [cat EXCEPT ![d] = @ \cup {f}]
    /\ UNCHANGED <<dirSeen, seenAt, force, refresh>>

\* rewriteExtents, .drop extent: the file leaves, then its registration.
OwnRemove(d) ==
    /\ phase = "idle" /\ ~force
    /\ \E f \in held[d] :
        /\ Becomes(d, held[d] \ {f})
        /\ cat' = [cat EXCEPT ![d] = @ \ {f}]
    /\ UNCHANGED <<dirSeen, seenAt, force, refresh>>

\* A refresh that ends forgets what it was doing.
End ==
    /\ phase' = "idle"
    /\ at' = 0
    /\ stamps' = Zero
    /\ todo' = {}
    /\ listed' = Nothing
    /\ found' = Nothing
    /\ always' = Nothing
    /\ ever' = Nothing
    /\ UNCHANGED <<world, changed>>

\* The process ends; the next one opens the directory.
Restart ==
    /\ cat' = Nothing
    /\ dirSeen' = Zero
    /\ seenAt' = 0
    /\ force' = TRUE
    /\ End

-----------------------------------------------------------------------------
(* Refresh, and Open, which is a refresh that never skips.                 *)

Begin ==
    /\ phase = "idle"
    /\ phase' = "stat"
    /\ at' = now
    /\ todo' = Dir
    /\ always' = held
    /\ ever' = held
    /\ UNCHANGED <<world, memory, stamps, listed, found, changed>>

StatDir(d) ==
    /\ phase = "stat"
    /\ d \in todo
    /\ stamps' = [stamps EXCEPT ![d] = mtime[d]]
    /\ todo' = todo \ {d}
    /\ UNCHANGED <<world, memory, phase, at, listed, found, ghost>>

\* A stamp observed when the last rebuild began would since have moved if
\* the directory had changed.
Settled(m) == seenAt >= m + Window

Skips == ~force /\ \A d \in Dir : stamps[d] = dirSeen[d] /\ Settled(stamps[d])

SkipRebuild ==
    /\ phase = "stat" /\ todo = {}
    /\ Skips
    /\ End
    /\ UNCHANGED memory

BeginRebuild ==
    /\ phase = "stat" /\ todo = {}
    /\ ~Skips
    /\ phase' = "list"
    /\ todo' = Dir
    /\ UNCHANGED <<world, memory, at, stamps, listed, found, ghost>>

ListDir(d) ==
    /\ phase = "list"
    /\ d \in todo
    /\ listed' = [listed EXCEPT ![d] = held[d]]
    /\ todo' = todo \ {d}
    /\ phase' = IF todo = {d} THEN "read" ELSE "list"
    /\ UNCHANGED <<world, memory, at, stamps, found, ghost>>

\* One file's footer, read or already cached.
ReadFooter(d) ==
    /\ phase = "read"
    /\ \E f \in listed[d] \cap held[d] :
        /\ listed' = [listed EXCEPT ![d] = @ \ {f}]
        /\ found' = [found EXCEPT ![d] = @ \cup {f}]
    /\ UNCHANGED <<world, memory, phase, at, stamps, todo, ghost>>

\* A file that left since it was listed is skipped.
SkipVanished(d) ==
    /\ phase = "read"
    /\ \E f \in listed[d] \ held[d] : listed' = [listed EXCEPT ![d] = @ \ {f}]
    /\ UNCHANGED <<world, memory, phase, at, stamps, todo, found, ghost>>

\* A footer that cannot be read, a column of two types, or a file that left
\* while Open was reading it: the refresh fails and changes nothing.
Fail ==
    /\ phase = "read"
    /\ \/ MayFail
       \/ force /\ \E d \in Dir : ~(listed[d] \subseteq held[d])
    /\ End
    /\ UNCHANGED memory

\* Mutant: the rebuild is dated by its end.
Finish_DatedByEnd ==
    /\ phase = "read" /\ listed = Nothing
    /\ cat' = found
    /\ dirSeen' = stamps
    /\ seenAt' = now
    /\ force' = FALSE
    /\ End

\* Mutant: the stamps are not remembered.
Finish_NoStamps ==
    /\ phase = "read" /\ listed = Nothing
    /\ cat' = found
    /\ seenAt' = at
    /\ force' = FALSE
    /\ End
    /\ UNCHANGED dirSeen

Finish ==
    /\ phase = "read" /\ listed = Nothing
    /\ cat' = found
    /\ dirSeen' = stamps
    /\ seenAt' = at
    /\ force' = FALSE
    /\ End

Next ==
    \/ Tick \/ Restart \/ Begin \/ SkipRebuild \/ BeginRebuild \/ Fail \/ Finish
    \/ \E d \in Dir :
        \/ OtherAdds(d) \/ OtherRemoves(d) \/ OwnCommit(d) \/ OwnRemove(d)
        \/ StatDir(d) \/ ListDir(d) \/ ReadFooter(d) \/ SkipVanished(d)

Spec == Init /\ [][Next]_vars

-----------------------------------------------------------------------------
(* Properties.                                                             *)

\* After a refresh, skipped or not, the catalog registers every file that
\* was in the directory throughout the refresh, and none that was in it at
\* no time of the refresh: what a fresh Open could have produced.
CurrentCatalog ==
    [][SkipRebuild \/ Finish =>
         \A d \in Dir : always[d] \subseteq cat'[d] /\ cat'[d] \subseteq ever[d]]_vars

\* A refresh lists the directories only for a reason: one of them changed
\* after the last rebuild began, or so shortly before it that its time
\* could not be trusted.  Otherwise it costs the stats.
RebuildsForCause ==
    phase = "list" /\ ~force => \E d \in Dir : changed[d] + Window > seenAt

-----------------------------------------------------------------------------
(* The invariant behind CurrentCatalog, inductive together with TypeOK.    *)

\* A modification time lags its change by less than Grain.
TimesInv ==
    /\ at <= now /\ seenAt <= now
    /\ \A d \in Dir : changed[d] <= now /\ mtime[d] <= changed[d]
                                        /\ changed[d] < mtime[d] + Grain

\* A directory that has not changed since the last rebuild began shows what
\* the catalog registers.
KeptInv ==
    ~force => \A d \in Dir : changed[d] < seenAt => cat[d] = held[d]

\* The same while a refresh is under way, for the files that stayed.
RefreshInv ==
    /\ phase # "idle" =>
         \A d \in Dir :
            /\ always[d] \subseteq held[d] /\ held[d] \subseteq ever[d]
            /\ changed[d] < at => held[d] \subseteq always[d] /\ ever[d] \subseteq held[d]
    /\ phase = "stat" /\ ~force =>
         \A d \in Dir \ todo :
            stamps[d] + Grain <= seenAt =>
                always[d] \subseteq cat[d] /\ cat[d] \subseteq ever[d]
    /\ \A d \in Dir : listed[d] \cup found[d] \subseteq ever[d]
    /\ phase \in {"idle", "stat"} => \A d \in Dir : listed[d] = {} /\ found[d] = {}
    /\ phase = "list" => \A d \in Dir \ todo : always[d] \subseteq listed[d] \cup found[d]
    /\ phase = "read" => \A d \in Dir : always[d] \subseteq listed[d] \cup found[d]

RefreshOK == TimesInv /\ KeptInv /\ RefreshInv

=============================================================================
