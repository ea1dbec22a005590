-------------------------- MODULE ScopeStoreProofs --------------------------
(***************************************************************************)
(* TypeOK, RewritesAlone, StableSnapshot and, when no table's name begins  *)
(* another's (scope_glob shows what happens otherwise), NothingLost,       *)
(* CompleteAnswer, OnlyDropForgets, NoDoubleCount and ShellsAreEmpty, for  *)
(* any processes, tables, files, rows and scripts.                         *)
(*                                                                         *)
(* DataInv: a row that is owed is in a live file, and a statement's        *)
(* catalog covers what it counts on.  While a table is rewritten this is   *)
(* not so of the files left alone: their rows, those the rewrite has in    *)
(* memory and those it takes out make up what is owed, until the last new  *)
(* file is in place and the old ones are not needed.  Only a statement     *)
(* alone in the directory rewrites, and nobody else changes what it counts *)
(* on; whoever has no lock only reads.                                     *)
(*                                                                         *)
(* OnceInv: the same division of a table that is rewritten, read as "no    *)
(* row in two of them"; a table that is neither being rewritten nor torn   *)
(* has no row twice.  ShellsInv: a statement alone has registered every    *)
(* file with rows, but for those a drop is taking away.                    *)
(***************************************************************************)
EXTENDS ScopeStore, SequenceTheorems, TLAPS

-----------------------------------------------------------------------------
(* Scripts.                                                                *)

\* The current command is a command, and what follows it is a script.
LEMMA HeadAndTail ==
    ASSUME TypeOK, ScriptInv, NEW p \in Proc, pc[p] # "idle"
    PROVE  /\ script[p] \in Seq(Command) /\ script[p] # <<>>
           /\ Cmd(p) \in Command
           /\ Cmd(p) = script[p][1]
           /\ 1 \in DOMAIN script[p]
           /\ Tail(script[p]) \in Seq(Command)
  <1>1. script[p] \in Seq(Command) /\ script[p] # <<>>
    BY DEF TypeOK, ScriptInv
  <1>2. QED
    BY <1>1, HeadTailProperties, EmptySeq DEF Cmd

\* Putting another command of the same kind first, or dropping the first,
\* never makes a script need the exclusive lock, or one of queries anything else.
LEMMA ReplaceHead ==
    ASSUME NEW s \in Seq(Command), s # <<>>, NEW c \in Command,
           c.kind = Head(s).kind
    PROVE  /\ <<c>> \o Tail(s) \in Seq(Command)
           /\ <<c>> \o Tail(s) # <<>>
           /\ NeedsExclusive(<<c>> \o Tail(s)) => NeedsExclusive(s)
           /\ OnlyQueries(s) => OnlyQueries(<<c>> \o Tail(s))
           /\ Tail(s) \in Seq(Command)
           /\ NeedsExclusive(Tail(s)) => NeedsExclusive(s)
           /\ OnlyQueries(s) => OnlyQueries(Tail(s))
  <1>1. /\ Tail(s) \in Seq(Command)
        /\ Len(s) \in Nat \ {0}
        /\ Len(Tail(s)) = Len(s) - 1
        /\ \A i \in 1 .. Len(Tail(s)) : Tail(s)[i] = s[i + 1]
    BY HeadTailProperties, EmptySeq
  <1>2. <<c>> \in Seq(Command) /\ Len(<<c>>) = 1 /\ <<c>>[1] = c
    OBVIOUS
  <1>3. /\ <<c>> \o Tail(s) \in Seq(Command)
        /\ Len(<<c>> \o Tail(s)) = Len(s)
        /\ \A i \in 1 .. Len(s) :
             (<<c>> \o Tail(s))[i] = IF i <= 1 THEN c ELSE Tail(s)[i - 1]
    BY <1>1, <1>2, ConcatProperties
  <1>4. DOMAIN s = 1 .. Len(s) /\ DOMAIN Tail(s) = 1 .. Len(Tail(s))
        /\ DOMAIN (<<c>> \o Tail(s)) = 1 .. Len(s)
    BY <1>1, <1>3, LenProperties
  <1>5. \A i \in 1 .. Len(s) : (<<c>> \o Tail(s))[i].kind = s[i].kind
    <2> TAKE i \in 1 .. Len(s)
    <2>1. CASE i = 1
      BY <2>1, <1>3
    <2>2. CASE i # 1
      BY <2>2, <1>1, <1>3
    <2> QED
      BY <2>1, <2>2
  <1>6. NeedsExclusive(Tail(s)) => NeedsExclusive(s)
    BY <1>1, <1>4 DEF NeedsExclusive
  <1>7. NeedsExclusive(<<c>> \o Tail(s)) => NeedsExclusive(s)
    BY <1>4, <1>5 DEF NeedsExclusive
  <1>8. <<c>> \o Tail(s) # <<>>
    BY <1>1, <1>3, EmptySeq
  <1>9. OnlyQueries(s) => OnlyQueries(Tail(s)) /\ OnlyQueries(<<c>> \o Tail(s))
    BY <1>1, <1>4, <1>5 DEF OnlyQueries
  <1>10. QED
    BY <1>1, <1>3, <1>6, <1>7, <1>8, <1>9

\* A command that ends goes on to a script of its own, or the statement ends.
LEMMA NextScript ==
    ASSUME TypeOK, ScriptInv, NEW p \in Proc, pc[p] # "idle", NextCommand(p)
    PROVE  \/ Release(p)
           \/ \E s \in Seq(Command) \ {<<>>} :
                /\ Continue(p, s)
                /\ NeedsExclusive(s) => NeedsExclusive(script[p])
                /\ OnlyQueries(script[p]) => OnlyQueries(s)
  <1> DEFINE left == Cmd(p).tables \ {cur[p]}
             c == [Cmd(p) EXCEPT !.tables = left]
             s == IF left = {} THEN Tail(script[p]) ELSE <<c>> \o Tail(script[p])
  <1>1. c \in Command /\ c.kind = Cmd(p).kind
    BY HeadAndTail DEF Command
  <1>2. /\ s \in Seq(Command) /\ (NeedsExclusive(s) => NeedsExclusive(script[p]))
        /\ OnlyQueries(script[p]) => OnlyQueries(s)
    <2> HIDE DEF c, left
    <2> QED
      BY <1>1, HeadAndTail, ReplaceHead DEF Cmd
  <1>3. IF s = <<>> THEN Release(p) ELSE Continue(p, s)
    BY DEF NextCommand
  <1> HIDE DEF s
  <1> QED
    BY <1>2, <1>3

-----------------------------------------------------------------------------
(* Type correctness.                                                       *)

DiskTyped ==
    /\ fstate \in [File -> FileState]
    /\ ftable \in [File -> Table \cup {NoTable}]
    /\ frows \in [File -> SUBSET Row]

GhostTyped ==
    /\ owed \in [Table -> SUBSET Row]
    /\ basis \in [Proc -> [Table -> SUBSET Row]]

\* A committed file keeps the directory well typed.
LEMMA CommitTyped ==
    ASSUME TypeOK, NEW f \in File, NEW t \in Table, NEW R \in SUBSET Row, Commit(f, t, R)
    PROVE  DiskTyped'
  BY DEF TypeOK, Commit, DiskTyped, FileState

\* Every step keeps the types and a command and table in hand.
LEMMA TypeStep ==
    ASSUME TypeOK, ScriptInv, ConstantsOK, NEW p \in Proc,
           Submit(p) \/ Statement(p) \/ RefreshFails(p) \/ Crash(p)
    PROVE  TypeOK' /\ ScriptInv'
  <1>1. ASSUME Submit(p) PROVE TypeOK' /\ ScriptInv'
    BY <1>1, ConstantsOK
       DEF Submit, At, Goto, TypeOK, ScriptInv, PC, FileState, disk, catalog, work, ghost
  <1>2. ASSUME Acquire(p) PROVE TypeOK' /\ ScriptInv'
    BY <1>2, ConstantsOK
       DEF Acquire, At, Goto, TypeOK, ScriptInv, PC, FileState, disk, catalog, work, ghost
  <1>3. ASSUME Refresh(p) PROVE TypeOK' /\ ScriptInv'
    BY <1>3, ConstantsOK
       DEF Refresh, At, Goto, Live, TypeOK, ScriptInv, PC, FileState, disk, catalog, work, ghost
  <1>4. ASSUME NameTables(p) PROVE TypeOK' /\ ScriptInv'
    <2> DEFINE c == [Cmd(p) EXCEPT !.over = "each", !.tables = tabs[p]]
    <2>1. pc[p] # "idle" /\ tabs[p] \in SUBSET Table
      BY <1>4 DEF NameTables, At, TypeOK
    <2>2. c \in Command /\ c.kind = Cmd(p).kind
      BY <2>1, HeadAndTail DEF Command
    <2>3. <<c>> \o Tail(script[p]) \in Seq(Command) /\ <<c>> \o Tail(script[p]) # <<>>
      <3> HIDE DEF c
      <3> QED
        BY <2>1, <2>2, HeadAndTail, ReplaceHead DEF Cmd
    <2>4. script' = [script EXCEPT ![p] = <<c>> \o Tail(script[p])]
      BY <1>4 DEF NameTables
    <2> HIDE DEF c
    <2> QED
      BY <1>4, <2>3, <2>4
         DEF NameTables, At, Goto, TypeOK, ScriptInv, PC, disk, catalog, work, ghost
  <1>5. ASSUME Refuse(p) PROVE TypeOK' /\ ScriptInv'
    BY <1>5, ConstantsOK
       DEF Refuse, At, Begins, Goto, TypeOK, ScriptInv, PC, FileState, disk, catalog, work, ghost
  <1>6. ASSUME EndCommand(p) PROVE TypeOK' /\ ScriptInv'
    <2>1. CASE Release(p)
      BY <1>6, <2>1 DEF EndCommand, Release, TypeOK, ScriptInv, PC, disk
    <2>2. CASE ~Release(p)
      <3>1. PICK s \in Seq(Command) \ {<<>>} : Continue(p, s)
        BY <1>6, <2>2, NextScript DEF EndCommand
      <3> QED
        BY <1>6, <3>1 DEF EndCommand, Continue, Goto, TypeOK, ScriptInv, PC, disk, catalog
    <2> QED
      BY <2>1, <2>2
  <1>7. ASSUME AbortStatement(p) PROVE TypeOK' /\ ScriptInv'
    BY <1>7, ConstantsOK
       DEF AbortStatement, At, Release, TypeOK, ScriptInv, PC, FileState, disk, catalog, work, ghost
  <1>8. ASSUME AnswerFromCatalog(p) PROVE TypeOK' /\ ScriptInv'
    BY <1>8, ConstantsOK
       DEF AnswerFromCatalog, At, Begins, Extents, Goto, TypeOK, ScriptInv, PC, FileState, disk, catalog, work, ghost
  <1>9. ASSUME BeginQuery(p) PROVE TypeOK' /\ ScriptInv'
    BY <1>9, ConstantsOK
       DEF BeginQuery, At, Begins, Extents, Goto, TypeOK, ScriptInv, PC, FileState, disk, catalog, work, ghost
  <1>10. ASSUME ScanExtent(p) PROVE TypeOK' /\ ScriptInv'
    BY <1>10, ConstantsOK
       DEF ScanExtent, At, Goto, TypeOK, ScriptInv, PC, FileState, disk, catalog, work, ghost
  <1>11. ASSUME ScanMissing(p) PROVE TypeOK' /\ ScriptInv'
    BY <1>11, ConstantsOK
       DEF ScanMissing, At, Goto, TypeOK, ScriptInv, PC, FileState, disk, catalog, work, ghost
  <1>12. ASSUME BeginAppend(p) PROVE TypeOK' /\ ScriptInv'
    <2>1. PICK t \in Table :
            /\ At(p, "run")
            /\ cur' = [cur EXCEPT ![p] = t]
            /\ Goto(p, "append") \/ Goto(p, "create")
      BY <1>12 DEF BeginAppend, Begins
    <2>2. UNCHANGED <<disk, lock, script, catalog, work, ghost>>
      BY <1>12 DEF BeginAppend
    <2> QED
      BY <2>1, <2>2 DEF At, Goto, TypeOK, ScriptInv, PC, disk, catalog, work, ghost
  <1>13. ASSUME CreateTable(p) PROVE TypeOK' /\ ScriptInv'
    <2>1. cur[p] \in Table
      BY <1>13 DEF CreateTable, At, ScriptInv
    <2>2. DiskTyped'
      BY <1>13, <2>1, CommitTyped DEF CreateTable
    <2>3. Goto(p, "end") \/ Goto(p, "append")
      BY <1>13 DEF CreateTable
    <2> QED
      BY <1>13, <2>1, <2>2, <2>3
         DEF CreateTable, At, Goto, DiskTyped, TypeOK, ScriptInv, PC, work, ghost
  <1>14. ASSUME AppendRows(p) PROVE TypeOK' /\ ScriptInv'
    <2>1. cur[p] \in Table
      BY <1>14 DEF AppendRows, At, ScriptInv
    <2>2. PICK f \in File, R \in SUBSET Row :
            /\ Commit(f, cur[p], R)
            /\ cat' = [cat EXCEPT ![p] = @ \cup {f}]
            /\ owed' = [owed EXCEPT ![cur[p]] = @ \cup R]
            /\ basis' = [basis EXCEPT ![p][cur[p]] = @ \cup R]
      BY <1>14 DEF AppendRows, UnusedRows
    <2>3. DiskTyped'
      BY <2>1, <2>2, CommitTyped
    <2>4. GhostTyped'
      BY <1>14, <2>1, <2>2 DEF AppendRows, GhostTyped, TypeOK
    <2>5. /\ pc' \in [Proc -> PC]
          /\ \A q \in Proc : pc'[q] # pc[q] => q = p /\ pc'[q] = "end"
      BY <1>14 DEF AppendRows, At, Goto, TypeOK, PC
    <2>6. cat' \in [Proc -> SUBSET File]
      BY <2>2 DEF TypeOK
    <2>7. UNCHANGED <<lock, script, cur, tabs, work, torn>> /\ pc[p] = "append"
      BY <1>14 DEF AppendRows, At
    <2>8. TypeOK'
      BY <2>3, <2>4, <2>5, <2>6, <2>7 DEF DiskTyped, GhostTyped, TypeOK, work
    <2>9. ScriptInv'
      BY <2>1, <2>5, <2>7 DEF ScriptInv
    <2> QED
      BY <2>8, <2>9
  <1>15. ASSUME WriteNothing(p) PROVE TypeOK' /\ ScriptInv'
    BY <1>15, ConstantsOK
       DEF WriteNothing, At, Goto, TypeOK, ScriptInv, PC, FileState, disk, catalog, work, ghost
  <1>16. ASSUME BeginReplace(p) PROVE TypeOK' /\ ScriptInv'
    BY <1>16, ConstantsOK
       DEF BeginReplace, At, StartRewrite, Begins, Extents, Shells, GlobLive, RowsOf, UnusedRows, Goto, TypeOK, ScriptInv, PC, FileState, disk, catalog, work, ghost
  <1>17. ASSUME BeginCompact(p) PROVE TypeOK' /\ ScriptInv'
    BY <1>17, ConstantsOK
       DEF BeginCompact, At, StartRewrite, Begins, Extents, Shells, GlobLive, RowsOf, Goto, TypeOK, ScriptInv, PC, FileState, disk, catalog, work, ghost
  <1>18. ASSUME CompactNothing(p) PROVE TypeOK' /\ ScriptInv'
    BY <1>18, ConstantsOK
       DEF CompactNothing, At, Begins, Goto, TypeOK, ScriptInv, PC, FileState, disk, catalog, work, ghost
  <1>19. ASSUME BeginDelete(p) PROVE TypeOK' /\ ScriptInv'
    BY <1>19, ConstantsOK
       DEF BeginDelete, At, StartRewrite, Begins, Extents, RowsOf, Goto, TypeOK, ScriptInv, PC, FileState, disk, catalog, work, ghost
  <1>20. ASSUME DeleteNothing(p) PROVE TypeOK' /\ ScriptInv'
    BY <1>20, ConstantsOK
       DEF DeleteNothing, At, Begins, Goto, TypeOK, ScriptInv, PC, FileState, disk, catalog, work, ghost
  <1>21. ASSUME WriteExtent(p) PROVE TypeOK' /\ ScriptInv'
    <2>1. cur[p] \in Table
      BY <1>21 DEF WriteExtent, At, ScriptInv
    <2>2. PICK f \in File, C \in SUBSET Row, G \in SUBSET Row :
            /\ Commit(f, cur[p], C)
            /\ rest' = [rest EXCEPT ![p] = @ \ C]
            /\ fresh' = [fresh EXCEPT ![p] = @ \cup {f}]
            /\ cat' = [cat EXCEPT ![p] = @ \cup {f}]
            /\ owed' = [owed EXCEPT ![cur[p]] = (@ \cup C) \ G]
            /\ basis' = [basis EXCEPT ![p][cur[p]] = (@ \cup C) \ G]
            /\ Goto(p, "supersede") \/ UNCHANGED pc
      <3>1. PICK f \in File, C \in SUBSET rest[p] :
              /\ Commit(f, cur[p], C)
              /\ rest' = [rest EXCEPT ![p] = @ \ C]
              /\ fresh' = [fresh EXCEPT ![p] = @ \cup {f}]
              /\ cat' = [cat EXCEPT ![p] = @ \cup {f}]
              /\ IF rest[p] = C
                 THEN /\ owed' = [owed EXCEPT ![cur[p]] = (@ \cup C) \ gone[p]]
                      /\ basis' = [basis EXCEPT ![p][cur[p]] = (@ \cup C) \ gone[p]]
                      /\ Goto(p, "supersede")
                 ELSE /\ owed' = [owed EXCEPT ![cur[p]] = @ \cup C]
                      /\ basis' = [basis EXCEPT ![p][cur[p]] = @ \cup C]
                      /\ UNCHANGED pc
        BY <1>21 DEF WriteExtent
      <3>2. C \in SUBSET Row /\ gone[p] \in SUBSET Row /\ {} \in SUBSET Row
        BY <3>1 DEF TypeOK
      <3>3. CASE rest[p] = C
        BY <3>1, <3>2, <3>3
      <3>4. CASE rest[p] # C
        BY <3>1, <3>2, <3>4
      <3> QED
        BY <3>3, <3>4
    <2>3. DiskTyped'
      BY <2>1, <2>2, CommitTyped
    <2>4. GhostTyped'
      BY <1>21, <2>1, <2>2 DEF WriteExtent, GhostTyped, TypeOK
    <2>5. /\ pc[p] = "write"
          /\ UNCHANGED <<lock, script, cur, tabs, todo, gone, seen, errs, torn>>
      BY <1>21 DEF WriteExtent, At
    <2>6. /\ pc' \in [Proc -> PC]
          /\ \A q \in Proc : pc'[q] # pc[q] => q = p /\ pc'[q] = "supersede"
      BY <2>2 DEF Goto, TypeOK, PC
    <2>7. /\ cat' \in [Proc -> SUBSET File]
          /\ fresh' \in [Proc -> SUBSET File]
          /\ rest' \in [Proc -> SUBSET Row]
      BY <2>2 DEF TypeOK
    <2>8. TypeOK'
      BY <2>3, <2>4, <2>5, <2>6, <2>7 DEF DiskTyped, GhostTyped, TypeOK
    <2>9. ScriptInv'
      BY <2>1, <2>5, <2>6 DEF ScriptInv
    <2> QED
      BY <2>8, <2>9
  <1>22. ASSUME WriteFails(p) PROVE TypeOK' /\ ScriptInv'
    BY <1>22, ConstantsOK
       DEF WriteFails, At, Goto, TypeOK, ScriptInv, PC, FileState, disk, catalog, work, ghost
  <1>23. ASSUME Supersede(p) PROVE TypeOK' /\ ScriptInv'
    BY <1>23, ConstantsOK
       DEF Supersede, At, TypeOK, ScriptInv, PC, FileState, disk, catalog, work, ghost
  <1>24. ASSUME SupersedeFails(p) PROVE TypeOK' /\ ScriptInv'
    <2>1. cur[p] \in Table
      BY <1>24 DEF SupersedeFails, At, ScriptInv
    <2>2. todo' \in [Proc -> SUBSET File] /\ torn' \in SUBSET Table
      BY <1>24, <2>1 DEF SupersedeFails, TypeOK
    <2> QED
      BY <1>24, <2>1, <2>2
         DEF SupersedeFails, At, TypeOK, ScriptInv, disk, catalog
  <1>25. ASSUME FinishRewrite(p) PROVE TypeOK' /\ ScriptInv'
    BY <1>25, ConstantsOK
       DEF FinishRewrite, At, Goto, TypeOK, ScriptInv, PC, FileState, disk, catalog, work, ghost
  <1>26. ASSUME BeginDrop(p) PROVE TypeOK' /\ ScriptInv'
    BY <1>26, ConstantsOK
       DEF BeginDrop, At, Begins, GlobLive, GlobSuperseded, Extents, RowsOf, Live, Goto, TypeOK, ScriptInv, PC, FileState, disk, catalog, work, ghost
  <1>27. ASSUME MoveFile(p) PROVE TypeOK' /\ ScriptInv'
    BY <1>27, ConstantsOK
       DEF MoveFile, At, TypeOK, ScriptInv, PC, FileState, disk, catalog, work, ghost
  <1>28. ASSUME MoveMissing(p) PROVE TypeOK' /\ ScriptInv'
    BY <1>28, ConstantsOK
       DEF MoveMissing, At, TypeOK, ScriptInv, PC, FileState, disk, catalog, work, ghost
  <1>29. ASSUME FinishDrop(p) PROVE TypeOK' /\ ScriptInv'
    BY <1>29, ConstantsOK
       DEF FinishDrop, At, Goto, TypeOK, ScriptInv, PC, FileState, disk, catalog, work, ghost
  <1>30. ASSUME BeginGC(p) PROVE TypeOK' /\ ScriptInv'
    BY <1>30, ConstantsOK
       DEF BeginGC, At, Begins, GlobSuperseded, Goto, TypeOK, ScriptInv, PC, FileState, disk, catalog, work, ghost
  <1>31. ASSUME Collect(p) PROVE TypeOK' /\ ScriptInv'
    BY <1>31, ConstantsOK
       DEF Collect, At, TypeOK, ScriptInv, PC, FileState, disk, catalog, work, ghost
  <1>32. ASSUME CollectMissing(p) PROVE TypeOK' /\ ScriptInv'
    BY <1>32, ConstantsOK
       DEF CollectMissing, At, TypeOK, ScriptInv, PC, FileState, disk, catalog, work, ghost
  <1>33. ASSUME FinishGC(p) PROVE TypeOK' /\ ScriptInv'
    BY <1>33, ConstantsOK
       DEF FinishGC, At, Goto, TypeOK, ScriptInv, PC, FileState, disk, catalog, work, ghost
  <1>34. ASSUME DropExtent(p) PROVE TypeOK' /\ ScriptInv'
    BY <1>34, ConstantsOK
       DEF DropExtent, At, Begins, Extents, Goto, TypeOK, ScriptInv, PC, FileState, disk, catalog, work, ghost
  <1>35. ASSUME RefreshFails(p) PROVE TypeOK' /\ ScriptInv'
    BY <1>35, ConstantsOK
       DEF RefreshFails, At, Release, TypeOK, ScriptInv, PC, FileState, disk, catalog, work, ghost
  <1>36. ASSUME Crash(p) PROVE TypeOK' /\ ScriptInv'
    <2>1. torn' \in SUBSET Table
      <3>1. CASE pc[p] \in {"write", "supersede"}
        BY <1>36, <3>1 DEF Crash, TypeOK, ScriptInv
      <3>2. CASE pc[p] \notin {"write", "supersede"}
        BY <1>36, <3>2 DEF Crash, TypeOK
      <3> QED
        BY <3>1, <3>2
    <2> QED
      BY <1>36, <2>1 DEF Crash, Release, TypeOK, ScriptInv, PC, disk
  <1> QED
    BY <1>1, <1>2, <1>3, <1>4, <1>5, <1>6, <1>7, <1>8, <1>9, <1>10, <1>11, <1>12, <1>13, <1>14, <1>15, <1>16, <1>17, <1>18, <1>19, <1>20, <1>21, <1>22, <1>23, <1>24, <1>25, <1>26, <1>27, <1>28, <1>29, <1>30, <1>31, <1>32, <1>33, <1>34, <1>35, <1>36 DEF Statement

\* Every state has the types above (TypeOK), for any set of scripts.
THEOREM TypeCorrect == Spec => []TypeOK
  <1> USE ConstantsOK
  <1>1. Init => TypeOK /\ ScriptInv
    BY EmptySeq DEF Init, TypeOK, ScriptInv, PC, FileState
  <1>2. TypeOK /\ ScriptInv /\ [Next]_vars => TypeOK' /\ ScriptInv'
    <2> SUFFICES ASSUME TypeOK, ScriptInv, [Next]_vars
                 PROVE  TypeOK' /\ ScriptInv'
      OBVIOUS
    <2>1. CASE Next
      BY <2>1, TypeStep DEF Next
    <2>2. CASE UNCHANGED vars
      BY <2>2 DEF vars, disk, catalog, work, ghost, TypeOK, ScriptInv
    <2> QED
      BY <2>1, <2>2
  <1> QED
    BY <1>1, <1>2, PTL DEF Spec

-----------------------------------------------------------------------------
(* The lock.                                                               *)

\* A step inside a statement that neither takes nor releases the lock,
\* and begins no rewrite.
Inside(p) ==
    /\ InStatement(p)
    /\ UNCHANGED <<lock, script>>
    /\ \A q \in Proc \ {p} : pc'[q] = pc[q]
    /\ pc'[p] \notin {"idle", "lock", "refresh"}
    /\ pc'[p] \in {"write", "supersede"} => pc[p] \in {"write", "supersede"}

\* A step inside a statement keeps the lock discipline.
LEMMA InsideStatement ==
    ASSUME LockInv, NEW p \in Proc, Inside(p)
    PROVE  LockInv'
  BY DEF LockInv, InStatement, Inside

\* A released lock bothers nobody.
LEMMA ReleaseLock ==
    ASSUME TypeOK, LockInv, NEW p \in Proc, Release(p)
    PROVE  LockInv'
  <1>1. ~NeedsExclusive(<<>>)
    BY DEF NeedsExclusive
  <1> QED
    BY <1>1 DEF TypeOK, LockInv, InStatement, Release

\* The commands that rewrite are those needsExclusiveScope names.
LEMMA RewriteKinds ==
    ASSUME TypeOK, ScriptInv, NEW p \in Proc, pc[p] # "idle",
           Cmd(p).kind \in {"replace", "recreate", "compact", "delete"}
    PROVE  NeedsExclusive(script[p])
  BY HeadAndTail DEF NeedsExclusive

\* The steps that neither take nor release the lock stay inside a statement.
LEMMA InsideSteps ==
    ASSUME TypeOK, NEW p \in Proc,
           \/ Refresh(p) \/ Refuse(p) \/ AnswerFromCatalog(p) \/ BeginQuery(p) \/ ScanExtent(p)
           \/ ScanMissing(p) \/ BeginAppend(p) \/ CreateTable(p) \/ AppendRows(p) \/ WriteNothing(p)
           \/ CompactNothing(p) \/ DeleteNothing(p) \/ WriteExtent(p) \/ WriteFails(p) \/ Supersede(p)
           \/ SupersedeFails(p) \/ FinishRewrite(p) \/ BeginDrop(p) \/ MoveFile(p) \/ MoveMissing(p)
           \/ FinishDrop(p) \/ BeginGC(p) \/ Collect(p) \/ CollectMissing(p) \/ FinishGC(p)
           \/ DropExtent(p)
    PROVE  Inside(p)
  <1>1. ASSUME Refresh(p) PROVE Inside(p)
    BY <1>1 DEF Refresh, At, Goto, TypeOK, Inside, InStatement
  <1>2. ASSUME Refuse(p) PROVE Inside(p)
    BY <1>2 DEF Refuse, At, Begins, Goto, TypeOK, Inside, InStatement
  <1>3. ASSUME AnswerFromCatalog(p) PROVE Inside(p)
    BY <1>3 DEF AnswerFromCatalog, At, Begins, Goto, TypeOK, Inside, InStatement
  <1>4. ASSUME BeginQuery(p) PROVE Inside(p)
    BY <1>4 DEF BeginQuery, At, Begins, Goto, TypeOK, Inside, InStatement
  <1>5. ASSUME ScanExtent(p) PROVE Inside(p)
    BY <1>5 DEF ScanExtent, At, Goto, TypeOK, Inside, InStatement
  <1>6. ASSUME ScanMissing(p) PROVE Inside(p)
    BY <1>6 DEF ScanMissing, At, Goto, TypeOK, Inside, InStatement
  <1>7. ASSUME BeginAppend(p) PROVE Inside(p)
    BY <1>7 DEF BeginAppend, At, Begins, Goto, TypeOK, Inside, InStatement
  <1>8. ASSUME CreateTable(p) PROVE Inside(p)
    BY <1>8 DEF CreateTable, At, Goto, TypeOK, Inside, InStatement
  <1>9. ASSUME AppendRows(p) PROVE Inside(p)
    BY <1>9 DEF AppendRows, At, Goto, TypeOK, Inside, InStatement
  <1>10. ASSUME WriteNothing(p) PROVE Inside(p)
    BY <1>10 DEF WriteNothing, At, Goto, TypeOK, Inside, InStatement
  <1>11. ASSUME CompactNothing(p) PROVE Inside(p)
    BY <1>11 DEF CompactNothing, At, Begins, Goto, TypeOK, Inside, InStatement
  <1>12. ASSUME DeleteNothing(p) PROVE Inside(p)
    BY <1>12 DEF DeleteNothing, At, Begins, Goto, TypeOK, Inside, InStatement
  <1>13. ASSUME WriteExtent(p) PROVE Inside(p)
    BY <1>13 DEF WriteExtent, At, Goto, TypeOK, Inside, InStatement
  <1>14. ASSUME WriteFails(p) PROVE Inside(p)
    BY <1>14 DEF WriteFails, At, Goto, TypeOK, Inside, InStatement
  <1>15. ASSUME Supersede(p) PROVE Inside(p)
    BY <1>15 DEF Supersede, At, TypeOK, Inside, InStatement
  <1>16. ASSUME SupersedeFails(p) PROVE Inside(p)
    BY <1>16 DEF SupersedeFails, At, TypeOK, Inside, InStatement
  <1>17. ASSUME FinishRewrite(p) PROVE Inside(p)
    BY <1>17 DEF FinishRewrite, At, Goto, TypeOK, Inside, InStatement
  <1>18. ASSUME BeginDrop(p) PROVE Inside(p)
    BY <1>18 DEF BeginDrop, At, Begins, Goto, TypeOK, Inside, InStatement
  <1>19. ASSUME MoveFile(p) PROVE Inside(p)
    BY <1>19 DEF MoveFile, At, TypeOK, Inside, InStatement
  <1>20. ASSUME MoveMissing(p) PROVE Inside(p)
    BY <1>20 DEF MoveMissing, At, TypeOK, Inside, InStatement
  <1>21. ASSUME FinishDrop(p) PROVE Inside(p)
    BY <1>21 DEF FinishDrop, At, Goto, TypeOK, Inside, InStatement
  <1>22. ASSUME BeginGC(p) PROVE Inside(p)
    BY <1>22 DEF BeginGC, At, Begins, Goto, TypeOK, Inside, InStatement
  <1>23. ASSUME Collect(p) PROVE Inside(p)
    BY <1>23 DEF Collect, At, TypeOK, Inside, InStatement
  <1>24. ASSUME CollectMissing(p) PROVE Inside(p)
    BY <1>24 DEF CollectMissing, At, TypeOK, Inside, InStatement
  <1>25. ASSUME FinishGC(p) PROVE Inside(p)
    BY <1>25 DEF FinishGC, At, Goto, TypeOK, Inside, InStatement
  <1>26. ASSUME DropExtent(p) PROVE Inside(p)
    BY <1>26 DEF DropExtent, At, Begins, Goto, TypeOK, Inside, InStatement
  <1> QED
    BY <1>1, <1>2, <1>3, <1>4, <1>5, <1>6, <1>7, <1>8, <1>9, <1>10, <1>11, <1>12, <1>13, <1>14, <1>15, <1>16, <1>17, <1>18, <1>19, <1>20, <1>21, <1>22, <1>23, <1>24, <1>25, <1>26

\* Every step keeps the lock discipline.
LEMMA LockStep ==
    ASSUME TypeOK, ScriptInv, LockInv, ConstantsOK, NEW p \in Proc,
           Submit(p) \/ Statement(p) \/ RefreshFails(p) \/ Crash(p)
    PROVE  LockInv'
  <1>1. ASSUME Submit(p) PROVE LockInv'
    <2>1. PICK s \in Scripts : script' = [script EXCEPT ![p] = s]
      BY <1>1 DEF Submit
    <2> QED
      BY <1>1, <2>1 DEF Submit, At, Goto, TypeOK, LockInv, InStatement
  <1>2. ASSUME Acquire(p) PROVE LockInv'
    <2>1. CASE Federated /\ OnlyQueries(script[p]) /\ lock' = lock
      <3>1. ~NeedsExclusive(script[p])
        BY <2>1 DEF OnlyQueries, NeedsExclusive
      <3> QED
        BY <1>2, <2>1, <3>1 DEF Acquire, At, Goto, TypeOK, LockInv, InStatement
    <2>2. CASE /\ NeedsExclusive(script[p])
               /\ \A q \in Proc : lock[q] = "none"
               /\ lock' = [lock EXCEPT ![p] = "exclusive"]
      BY <1>2, <2>2 DEF Acquire, At, Goto, TypeOK, LockInv, InStatement
    <2>3. CASE /\ ~NeedsExclusive(script[p])
               /\ \A q \in Proc : lock[q] # "exclusive"
               /\ lock' = [lock EXCEPT ![p] = "shared"]
      BY <1>2, <2>3 DEF Acquire, At, Goto, TypeOK, LockInv, InStatement
    <2> QED
      BY <1>2, <2>1, <2>2, <2>3 DEF Acquire
  <1>3. ASSUME NameTables(p) PROVE LockInv'
    <2> DEFINE c == [Cmd(p) EXCEPT !.over = "each", !.tables = tabs[p]]
               s == <<c>> \o Tail(script[p])
    <2>1. pc[p] = "run" /\ tabs[p] \in SUBSET Table
      BY <1>3 DEF NameTables, At, TypeOK
    <2>2. c \in Command /\ c.kind = Cmd(p).kind
      BY <2>1, HeadAndTail DEF Command
    <2>3. NeedsExclusive(s) => NeedsExclusive(script[p])
      <3> HIDE DEF c
      <3> QED
        BY <2>1, <2>2, HeadAndTail, ReplaceHead DEF Cmd
    <2>4. script' = [script EXCEPT ![p] = s] /\ UNCHANGED lock
      BY <1>3 DEF NameTables
    <2>5. \/ pc' = [pc EXCEPT ![p] = "end"]
          \/ pc' = [pc EXCEPT ![p] = "run"]
      BY <1>3 DEF NameTables, Goto
    <2> HIDE DEF c, s
    <2> QED
      BY <2>1, <2>3, <2>4, <2>5 DEF TypeOK, LockInv, InStatement
  <1>4. ASSUME EndCommand(p) PROVE LockInv'
    <2>1. CASE Release(p)
      BY <2>1, ReleaseLock
    <2>2. CASE ~Release(p)
      <3>1. PICK s \in Seq(Command) \ {<<>>} :
              Continue(p, s) /\ (NeedsExclusive(s) => NeedsExclusive(script[p]))
        BY <1>4, <2>2, NextScript DEF EndCommand
      <3> QED
        BY <1>4, <3>1 DEF EndCommand, Continue, Goto, TypeOK, LockInv, InStatement
    <2> QED
      BY <2>1, <2>2
  <1>5. ASSUME AbortStatement(p) PROVE LockInv'
    BY <1>5, ReleaseLock DEF AbortStatement
  <1>6. ASSUME BeginReplace(p) PROVE LockInv'
    <2>1. /\ Cmd(p).kind = "replace"
          /\ pc[p] = "run"
          /\ pc' = [pc EXCEPT ![p] = "write"]
          /\ UNCHANGED <<lock, script>>
      BY <1>6 DEF BeginReplace, StartRewrite, Begins, At, Goto
    <2> QED
      BY <2>1, RewriteKinds DEF TypeOK, LockInv, InStatement
  <1>7. ASSUME BeginCompact(p) PROVE LockInv'
    <2>1. /\ Cmd(p).kind = "compact"
          /\ pc[p] = "run"
          /\ pc' = [pc EXCEPT ![p] = "write"]
          /\ UNCHANGED <<lock, script>>
      BY <1>7 DEF BeginCompact, StartRewrite, Begins, At, Goto
    <2> QED
      BY <2>1, RewriteKinds DEF TypeOK, LockInv, InStatement
  <1>8. ASSUME BeginDelete(p) PROVE LockInv'
    <2>1. /\ Cmd(p).kind = "delete"
          /\ pc[p] = "run"
          /\ pc' = [pc EXCEPT ![p] = "write"]
          /\ UNCHANGED <<lock, script>>
      BY <1>8 DEF BeginDelete, StartRewrite, Begins, At, Goto
    <2> QED
      BY <2>1, RewriteKinds DEF TypeOK, LockInv, InStatement
  <1>9. ASSUME RefreshFails(p) PROVE LockInv'
    BY <1>9, ReleaseLock DEF RefreshFails
  <1>10. ASSUME Crash(p) PROVE LockInv'
    BY <1>10, ReleaseLock DEF Crash
  <1>11. CASE
         \/ Refresh(p) \/ Refuse(p) \/ AnswerFromCatalog(p) \/ BeginQuery(p) \/ ScanExtent(p)
         \/ ScanMissing(p) \/ BeginAppend(p) \/ CreateTable(p) \/ AppendRows(p) \/ WriteNothing(p)
         \/ CompactNothing(p) \/ DeleteNothing(p) \/ WriteExtent(p) \/ WriteFails(p) \/ Supersede(p)
         \/ SupersedeFails(p) \/ FinishRewrite(p) \/ BeginDrop(p) \/ MoveFile(p) \/ MoveMissing(p)
         \/ FinishDrop(p) \/ BeginGC(p) \/ Collect(p) \/ CollectMissing(p) \/ FinishGC(p)
         \/ DropExtent(p)
    BY <1>11, InsideSteps, InsideStatement
  <1> QED
    BY <1>1, <1>2, <1>3, <1>4, <1>5, <1>6, <1>7, <1>8, <1>9, <1>10, <1>11 DEF Statement

-----------------------------------------------------------------------------
(* Snapshots.                                                              *)

\* What a shared statement may find instead of a file it registered.
Unrewritten == {"live", "archived", "deleted"}

\* A step inside a statement that registers no file and supersedes none.
Calm(p) ==
    /\ UNCHANGED lock
    /\ \A q \in Proc \ {p} : pc'[q] = pc[q]
    /\ pc'[p] \notin {"idle", "lock", "refresh"}
    /\ \A q \in Proc : cat'[q] \subseteq cat[q]
    /\ \A f \in File : fstate[f] \in Unrewritten => fstate'[f] \in Unrewritten

\* A calm step disturbs no other statement's snapshot.
LEMMA CalmStep ==
    ASSUME TypeOK, CatalogInv, StableSnapshot, NEW p \in Proc, Calm(p)
    PROVE  CatalogInv' /\ StableSnapshot'
  <1>1. CatalogInv'
    BY DEF CatalogInv, Calm
  <1>2. StableSnapshot'
    BY DEF StableSnapshot, Calm, Unrewritten, TypeOK
  <1> QED
    BY <1>1, <1>2

\* The steps that neither register, supersede nor collect a file are calm.
LEMMA CalmSteps ==
    ASSUME TypeOK, NEW p \in Proc,
           \/ NameTables(p) \/ Refuse(p) \/ AnswerFromCatalog(p) \/ BeginQuery(p) \/ ScanExtent(p)
           \/ ScanMissing(p) \/ BeginAppend(p) \/ CreateTable(p) \/ WriteNothing(p) \/ BeginReplace(p)
           \/ BeginCompact(p) \/ CompactNothing(p) \/ BeginDelete(p) \/ DeleteNothing(p) \/ WriteFails(p)
           \/ SupersedeFails(p) \/ FinishRewrite(p) \/ BeginDrop(p) \/ MoveFile(p) \/ MoveMissing(p)
           \/ FinishDrop(p) \/ BeginGC(p) \/ Collect(p) \/ CollectMissing(p) \/ FinishGC(p)
           \/ DropExtent(p)
    PROVE  Calm(p)
  <1>1. ASSUME NameTables(p) PROVE Calm(p)
    BY <1>1 DEF NameTables, At, Goto, disk, catalog, TypeOK, Calm, Unrewritten
  <1>2. ASSUME Refuse(p) PROVE Calm(p)
    BY <1>2 DEF Refuse, At, Begins, Goto, disk, catalog, TypeOK, Calm, Unrewritten
  <1>3. ASSUME AnswerFromCatalog(p) PROVE Calm(p)
    BY <1>3 DEF AnswerFromCatalog, At, Begins, Goto, disk, catalog, TypeOK, Calm, Unrewritten
  <1>4. ASSUME BeginQuery(p) PROVE Calm(p)
    BY <1>4 DEF BeginQuery, At, Begins, Goto, disk, catalog, TypeOK, Calm, Unrewritten
  <1>5. ASSUME ScanExtent(p) PROVE Calm(p)
    BY <1>5 DEF ScanExtent, At, Goto, disk, catalog, TypeOK, Calm, Unrewritten
  <1>6. ASSUME ScanMissing(p) PROVE Calm(p)
    BY <1>6 DEF ScanMissing, At, Goto, disk, catalog, TypeOK, Calm, Unrewritten
  <1>7. ASSUME BeginAppend(p) PROVE Calm(p)
    BY <1>7 DEF BeginAppend, At, Begins, Goto, disk, catalog, TypeOK, Calm, Unrewritten
  <1>8. ASSUME CreateTable(p) PROVE Calm(p)
    BY <1>8 DEF CreateTable, At, Commit, Goto, disk, catalog, TypeOK, Calm, Unrewritten
  <1>9. ASSUME WriteNothing(p) PROVE Calm(p)
    BY <1>9 DEF WriteNothing, At, Goto, disk, catalog, TypeOK, Calm, Unrewritten
  <1>10. ASSUME BeginReplace(p) PROVE Calm(p)
    BY <1>10 DEF BeginReplace, At, StartRewrite, Begins, Goto, disk, catalog, TypeOK, Calm, Unrewritten
  <1>11. ASSUME BeginCompact(p) PROVE Calm(p)
    BY <1>11 DEF BeginCompact, At, StartRewrite, Begins, Goto, disk, catalog, TypeOK, Calm, Unrewritten
  <1>12. ASSUME CompactNothing(p) PROVE Calm(p)
    BY <1>12 DEF CompactNothing, At, Begins, Goto, disk, catalog, TypeOK, Calm, Unrewritten
  <1>13. ASSUME BeginDelete(p) PROVE Calm(p)
    BY <1>13 DEF BeginDelete, At, StartRewrite, Begins, Goto, disk, catalog, TypeOK, Calm, Unrewritten
  <1>14. ASSUME DeleteNothing(p) PROVE Calm(p)
    BY <1>14 DEF DeleteNothing, At, Begins, Goto, disk, catalog, TypeOK, Calm, Unrewritten
  <1>15. ASSUME WriteFails(p) PROVE Calm(p)
    BY <1>15 DEF WriteFails, At, Goto, disk, catalog, TypeOK, Calm, Unrewritten
  <1>16. ASSUME SupersedeFails(p) PROVE Calm(p)
    BY <1>16 DEF SupersedeFails, At, disk, catalog, TypeOK, Calm, Unrewritten
  <1>17. ASSUME FinishRewrite(p) PROVE Calm(p)
    BY <1>17 DEF FinishRewrite, At, Goto, disk, catalog, TypeOK, Calm, Unrewritten
  <1>18. ASSUME BeginDrop(p) PROVE Calm(p)
    BY <1>18 DEF BeginDrop, At, Begins, Goto, disk, catalog, TypeOK, Calm, Unrewritten
  <1>19. ASSUME MoveFile(p) PROVE Calm(p)
    BY <1>19 DEF MoveFile, At, disk, catalog, TypeOK, Calm, Unrewritten
  <1>20. ASSUME MoveMissing(p) PROVE Calm(p)
    BY <1>20 DEF MoveMissing, At, disk, catalog, TypeOK, Calm, Unrewritten
  <1>21. ASSUME FinishDrop(p) PROVE Calm(p)
    BY <1>21 DEF FinishDrop, At, Goto, disk, catalog, TypeOK, Calm, Unrewritten
  <1>22. ASSUME BeginGC(p) PROVE Calm(p)
    BY <1>22 DEF BeginGC, At, Begins, Goto, disk, catalog, TypeOK, Calm, Unrewritten
  <1>23. ASSUME Collect(p) PROVE Calm(p)
    BY <1>23 DEF Collect, At, disk, catalog, TypeOK, Calm, Unrewritten
  <1>24. ASSUME CollectMissing(p) PROVE Calm(p)
    BY <1>24 DEF CollectMissing, At, disk, catalog, TypeOK, Calm, Unrewritten
  <1>25. ASSUME FinishGC(p) PROVE Calm(p)
    BY <1>25 DEF FinishGC, At, Goto, disk, catalog, TypeOK, Calm, Unrewritten
  <1>26. ASSUME DropExtent(p) PROVE Calm(p)
    BY <1>26 DEF DropExtent, At, Begins, Goto, disk, catalog, TypeOK, Calm, Unrewritten
  <1> QED
    BY <1>1, <1>2, <1>3, <1>4, <1>5, <1>6, <1>7, <1>8, <1>9, <1>10, <1>11, <1>12, <1>13, <1>14, <1>15, <1>16, <1>17, <1>18, <1>19, <1>20, <1>21, <1>22, <1>23, <1>24, <1>25, <1>26

\* A process that lets go of the lock has nothing in its catalog.
LEMMA ReleaseCatalog ==
    ASSUME TypeOK, CatalogInv, StableSnapshot, NEW p \in Proc, Release(p), UNCHANGED fstate
    PROVE  CatalogInv' /\ StableSnapshot'
  BY DEF TypeOK, CatalogInv, StableSnapshot, Release

\* A statement that registers the file it has just committed.
LEMMA CommitCatalog ==
    ASSUME TypeOK, CatalogInv, StableSnapshot, NEW p \in Proc,
           pc[p] \in {"append", "write"}, UNCHANGED lock,
           NEW f \in File, NEW R, Commit(f, cur[p], R),
           cat' = [cat EXCEPT ![p] = @ \cup {f}],
           \A q \in Proc \ {p} : pc'[q] = pc[q],
           pc'[p] \notin {"idle", "lock", "refresh"}
    PROVE  CatalogInv' /\ StableSnapshot'
  BY DEF TypeOK, CatalogInv, StableSnapshot, Commit

\* No step supersedes or collects what a shared statement registered: no
\* rewrite runs beside it, and .gc takes what already was superseded.
LEMMA SnapshotStep ==
    ASSUME TypeOK, LockInv, CatalogInv, StableSnapshot, ScriptInv, NEW p \in Proc,
           Submit(p) \/ Statement(p) \/ RefreshFails(p) \/ Crash(p)
    PROVE  CatalogInv' /\ StableSnapshot'
  <1>1. ASSUME Submit(p) PROVE CatalogInv' /\ StableSnapshot'
    BY <1>1 DEF Submit, At, Goto, disk, catalog, TypeOK, CatalogInv, StableSnapshot
  <1>2. ASSUME Acquire(p) PROVE CatalogInv' /\ StableSnapshot'
    BY <1>2 DEF Acquire, At, Goto, disk, catalog, TypeOK, CatalogInv, StableSnapshot
  <1>3. ASSUME Refresh(p) PROVE CatalogInv' /\ StableSnapshot'
    BY <1>3 DEF Refresh, At, Goto, disk, TypeOK, CatalogInv, StableSnapshot
  <1>4. ASSUME EndCommand(p) PROVE CatalogInv' /\ StableSnapshot'
    <2>1. CASE Release(p)
      BY <1>4, <2>1, ReleaseCatalog DEF EndCommand, disk
    <2>2. CASE ~Release(p)
      <3>1. PICK s \in Seq(Command) \ {<<>>} : Continue(p, s)
        BY <1>4, <2>2, NextScript DEF EndCommand
      <3>2. Calm(p)
        BY <1>4, <3>1
           DEF EndCommand, Continue, Goto, disk, catalog, TypeOK, Calm, Unrewritten
      <3> QED
        BY <3>2, CalmStep
    <2> QED
      BY <2>1, <2>2
  <1>5. ASSUME AbortStatement(p) PROVE CatalogInv' /\ StableSnapshot'
    BY <1>5, ReleaseCatalog DEF AbortStatement, disk
  <1>6. ASSUME RefreshFails(p) PROVE CatalogInv' /\ StableSnapshot'
    BY <1>6, ReleaseCatalog DEF RefreshFails, disk
  <1>7. ASSUME Crash(p) PROVE CatalogInv' /\ StableSnapshot'
    BY <1>7, ReleaseCatalog DEF Crash, disk
  <1>8. ASSUME AppendRows(p) PROVE CatalogInv' /\ StableSnapshot'
    <2>1. PICK f \in File, R \in SUBSET Row :
            Commit(f, cur[p], R) /\ cat' = [cat EXCEPT ![p] = @ \cup {f}]
      BY <1>8 DEF AppendRows, UnusedRows
    <2>2. /\ pc[p] = "append" /\ UNCHANGED lock
          /\ \A q \in Proc \ {p} : pc'[q] = pc[q]
          /\ pc'[p] \notin {"idle", "lock", "refresh"}
      BY <1>8 DEF AppendRows, At, Goto, TypeOK
    <2> QED
      BY <2>1, <2>2, CommitCatalog
  <1>9. ASSUME WriteExtent(p) PROVE CatalogInv' /\ StableSnapshot'
    <2>1. PICK f \in File, R \in SUBSET rest[p] :
            Commit(f, cur[p], R) /\ cat' = [cat EXCEPT ![p] = @ \cup {f}]
      BY <1>9 DEF WriteExtent
    <2>2. /\ pc[p] = "write" /\ UNCHANGED lock
          /\ \A q \in Proc \ {p} : pc'[q] = pc[q]
          /\ pc'[p] \notin {"idle", "lock", "refresh"}
      BY <1>9 DEF WriteExtent, At, Goto, TypeOK
    <2> QED
      BY <2>1, <2>2, CommitCatalog
  <1>10. ASSUME Supersede(p) PROVE CatalogInv' /\ StableSnapshot'
    <2>1. InStatement(p) /\ NeedsExclusive(script[p])
      BY <1>10 DEF Supersede, At, LockInv, InStatement
    <2>2. \A q \in Proc : lock[q] # "shared"
      BY <2>1 DEF LockInv
    <2> QED
      BY <1>10, <2>2 DEF Supersede, At, TypeOK, CatalogInv, StableSnapshot
  <1>11. CASE
         \/ NameTables(p) \/ Refuse(p) \/ AnswerFromCatalog(p) \/ BeginQuery(p) \/ ScanExtent(p)
         \/ ScanMissing(p) \/ BeginAppend(p) \/ CreateTable(p) \/ WriteNothing(p) \/ BeginReplace(p)
         \/ BeginCompact(p) \/ CompactNothing(p) \/ BeginDelete(p) \/ DeleteNothing(p) \/ WriteFails(p)
         \/ SupersedeFails(p) \/ FinishRewrite(p) \/ BeginDrop(p) \/ MoveFile(p) \/ MoveMissing(p)
         \/ FinishDrop(p) \/ BeginGC(p) \/ Collect(p) \/ CollectMissing(p) \/ FinishGC(p)
         \/ DropExtent(p)
    BY <1>11, CalmSteps, CalmStep
  <1> QED
    BY <1>1, <1>2, <1>3, <1>4, <1>5, <1>6, <1>7, <1>8, <1>9, <1>10, <1>11 DEF Statement

\* The inductive invariant of both theorems below.
LEMMA SharedState == Spec => [](TypeOK /\ RewritesAlone /\ StableSnapshot)
  <1>1. Init => RewritesAlone /\ StableSnapshot
    <2>1. ~NeedsExclusive(<<>>)
      BY DEF NeedsExclusive
    <2> QED
      BY <2>1 DEF Init, StableSnapshot, RewritesAlone, ScriptInv, LockInv, CatalogInv, InStatement
  <1>2. TypeOK /\ RewritesAlone /\ StableSnapshot /\ [Next]_vars
           => (RewritesAlone /\ StableSnapshot)'
    <2> SUFFICES ASSUME TypeOK, ScriptInv, LockInv, CatalogInv, StableSnapshot, [Next]_vars
                 PROVE  (ScriptInv /\ LockInv /\ CatalogInv /\ StableSnapshot)'
      BY DEF RewritesAlone
    <2>1. CASE Next
      BY <2>1, ConstantsOK, TypeStep, LockStep, SnapshotStep DEF Next
    <2>2. CASE UNCHANGED vars
      BY <2>2 DEF vars, disk, catalog, TypeOK, ScriptInv, LockInv, CatalogInv, StableSnapshot,
                  InStatement
    <2> QED
      BY <2>1, <2>2
  <1> QED
    BY <1>1, <1>2, TypeCorrect, PTL DEF Spec

\* A statement that rewrites a table is alone in the directory, and the
\* others wait without a catalog (RewritesAlone), for any scripts,
\* processes, crashes and failures.
THEOREM RewritersRunAlone == Spec => []RewritesAlone
  BY SharedState, PTL

\* No extent in the catalog of a shared statement is superseded or
\* collected before the statement ends (StableSnapshot).
THEOREM SnapshotsAreStable == Spec => []StableSnapshot
  BY SharedState, PTL

-----------------------------------------------------------------------------
(* What the directory holds and what a statement sees of it.               *)

\* No file of one table looks like a file of another.
NoLongerNames == GlobAlso = {}

\* The statement has its catalog.
Past(p) == pc[p] \notin {"idle", "lock", "refresh"}

Rewriting(p) == pc[p] \in {"write", "supersede"}

\* Where a command changes the directory, or is about to.
Writing == {"create", "append", "write", "supersede", "move", "collect"}

\* Who is in a statement without the lock only reads.
ReadsOnly(p) == InStatement(p) /\ lock[p] = "none" => OnlyQueries(script[p]) /\ pc[p] \notin Writing

\* The files an engine has in mind are there, or were.
Known(p) == \A f \in cat[p] \cup todo[p] \cup seen[p] \cup fresh[p] : fstate[f] # "none"

\* A statement's catalog has every row it counts on.
Covers(p) == Past(p) => \A t \in Table : basis[p][t] \subseteq RowsOf(Extents(p, t))

\* A statement alone counts on what is owed, and its extents are in the directory.
HasAll(p) ==
  Past(p) /\ lock[p] = "exclusive" => basis[p] = owed /\ \A f \in cat[p] : fstate[f] = "live"

\* Rows a rewrite has not written yet, or takes out, are in its hands; with the last one
\* written the old files are not needed.
Rewrites(p) ==
  /\ pc[p] = "write" => basis[p][cur[p]] \ gone[p] \subseteq rest[p] \cup RowsOf(Extents(p, cur[p]) \ todo[p])
  /\ pc[p] = "supersede" => basis[p][cur[p]] \subseteq RowsOf(Extents(p, cur[p]) \ todo[p]) /\ fresh[p] # {}
  /\ Rewriting(p) => \A f \in fresh[p] : fstate[f] = "live" /\ ftable[f] = cur[p] /\ f \notin todo[p]

\* Files on their way out are the command's table's; a drop's rows are not owed any more.
Removes(p) ==
  /\ pc[p] \in {"write", "supersede", "move"} => \A f \in todo[p] : ftable[f] = cur[p]
  /\ pc[p] = "move" => owed[cur[p]] \cap RowsOf(todo[p]) = {} /\ Extents(p, cur[p]) = {}

\* How far a query is.
Counts(p) ==
  /\ ~Past(p) \/ pc[p] = "run" => seen[p] = {} /\ fresh[p] = {}
  /\ pc[p] = "scan" => todo[p] \cup seen[p] = Extents(p, cur[p])
  /\ pc[p] = "answered" => seen[p] = Extents(p, cur[p])

Mine(p) == ReadsOnly(p) /\ Known(p) /\ Covers(p) /\ HasAll(p) /\ Rewrites(p) /\ Removes(p) /\ Counts(p)

DataInv == NothingLost /\ \A p \in Proc : Mine(p)

\* A table that is not torn, and that nobody rewrites, has no row twice.
DiskOnce ==
  \A t \in Table \ torn : (\A p \in Proc : Rewriting(p) => cur[p] # t) => NoRowTwice(Live(t))

\* Nor has the catalog of a statement with the lock.
CatalogOnce(p) ==
  Locked(p) /\ Past(p) => \A t \in Table \ torn : ~(Rewriting(p) /\ cur[p] = t) => NoRowTwice(Extents(p, t))

\* What a rewrite leaves, what it has written and what it has still to write are apart.
RewritesOnce(p) ==
  Rewriting(p) /\ cur[p] \notin torn =>
    /\ NoRowTwice(Live(cur[p]) \ todo[p])
    /\ pc[p] = "write" => rest[p] \cap RowsOf(Live(cur[p]) \ todo[p]) = {}
    /\ fresh[p] = {} => NoRowTwice(Live(cur[p]))

OnceInv == DiskOnce /\ \A p \in Proc : CatalogOnce(p) /\ RewritesOnce(p)

-----------------------------------------------------------------------------
(* What a step leaves as it is.                                            *)

\* A file, once written, keeps its table and its rows.
FilesStay ==
  \A f \in File : fstate[f] # "none" => fstate'[f] # "none" /\ ftable'[f] = ftable[f] /\ frows'[f] = frows[f]

\* No file comes, and none leaves a table.
LiveStays ==
  /\ UNCHANGED <<ftable, frows>>
  /\ \A f \in File : fstate'[f] # fstate[f] => fstate[f] \notin {"none", "live"} /\ fstate'[f] \notin {"none", "live"}

\* The other statements are where they were.
OthersRest(p) ==
  \A q \in Proc \ {p} :
    /\ lock'[q] = lock[q] /\ pc'[q] = pc[q] /\ script'[q] = script[q] /\ cur'[q] = cur[q] /\ cat'[q] = cat[q]
    /\ todo'[q] = todo[q] /\ rest'[q] = rest[q] /\ gone'[q] = gone[q] /\ fresh'[q] = fresh[q]
    /\ seen'[q] = seen[q] /\ basis'[q] = basis[q]

LEMMA RowsStay ==
  ASSUME FilesStay, NEW S \in SUBSET File, \A f \in S : fstate[f] # "none"
  PROVE  UNION {frows'[f] : f \in S} = RowsOf(S)
BY DEF FilesStay, RowsOf

\* The extents of a catalog that stays.
LEMMA ExtentsStay ==
  ASSUME TypeOK, FilesStay, NEW q \in Proc, Known(q), cat'[q] = cat[q], NEW t
  PROVE  Extents(q, t)' = Extents(q, t)
BY DEF TypeOK, FilesStay, Known, Extents

\* Who rewrites, or is about to change the directory, has the lock for it.
LEMMA RewritersAlone ==
  ASSUME LockInv, NEW q \in Proc, Rewriting(q)
  PROVE  lock[q] = "exclusive"
BY DEF LockInv, Rewriting, InStatement

LEMMA WritersLock ==
  ASSUME NEW q \in Proc, ReadsOnly(q), pc[q] \in Writing
  PROVE  lock[q] # "none"
BY DEF ReadsOnly, Writing, InStatement

\* A step that leaves the directory, or is of a statement with the lock, and adds to what
\* is owed only rows of no file, or is of a statement alone, keeps what holds of another.
LEMMA OthersKeep ==
  ASSUME TypeOK, LockInv, DataInv, NEW p \in Proc, NEW q \in Proc, q # p, OthersRest(p), FilesStay,
         (LiveStays /\ owed' = owed) \/ lock[p] # "none",
         (\A t \in Table : owed'[t] \cap RowsOf(File) \subseteq owed[t]) \/ lock[p] = "exclusive",
         ScriptInv
  PROVE  Mine(q)'
<1>1. /\ lock'[q] = lock[q] /\ pc'[q] = pc[q] /\ script'[q] = script[q] /\ cur'[q] = cur[q] /\ cat'[q] = cat[q]
      /\ todo'[q] = todo[q] /\ rest'[q] = rest[q] /\ gone'[q] = gone[q] /\ fresh'[q] = fresh[q]
      /\ seen'[q] = seen[q] /\ basis'[q] = basis[q]
  BY DEF OthersRest
<1>2. ReadsOnly(q) /\ Known(q) /\ Covers(q) /\ HasAll(q) /\ Rewrites(q) /\ Removes(q) /\ Counts(q)
  BY DEF DataInv, Mine
<1>3. \A f \in cat[q] \cup todo[q] \cup seen[q] \cup fresh[q] : f \in File /\ fstate[f] # "none"
  BY <1>2 DEF TypeOK, Known
<1>4. \A t : Extents(q, t)' = Extents(q, t) /\ Extents(q, t) \subseteq cat[q]
  BY <1>1, <1>2, ExtentsStay DEF Extents
<1>5. \A S \in SUBSET (cat[q] \cup todo[q]) : UNION {frows'[f] : f \in S} = RowsOf(S)
  BY <1>3, RowsStay
<1>6. lock[q] = "exclusive" => LiveStays /\ owed' = owed
  BY DEF LockInv
<1>7. ReadsOnly(q)' /\ Known(q)'
  BY <1>1, <1>2, <1>3 DEF ReadsOnly, Known, InStatement, FilesStay
<1>8. Covers(q)'
  BY <1>1, <1>2, <1>4, <1>5 DEF Covers, Past, RowsOf
<1>9. HasAll(q)'
  <2> SUFFICES ASSUME Past(q), lock[q] = "exclusive"
               PROVE  basis'[q] = owed' /\ \A f \in cat'[q] : fstate'[f] = "live"
    BY <1>1 DEF HasAll, Past
  <2> QED
    BY <1>1, <1>2, <1>3, <1>6 DEF HasAll, LiveStays
<1>10. Rewrites(q)'
  <2>1. CASE Rewriting(q)
    <3>1. LiveStays
      BY <1>6, <2>1, RewritersAlone
    <3>2. \A f \in fresh[q] : fstate[f] = "live" => fstate'[f] = "live" /\ ftable'[f] = ftable[f]
      BY <1>3, <3>1 DEF LiveStays
    <3>3. UNION {frows'[f] : f \in Extents(q, cur[q]) \ todo[q]} = RowsOf(Extents(q, cur[q]) \ todo[q])
      BY <1>4, <1>5
    <3>4. RowsOf(Extents(q, cur[q]) \ todo[q])' = RowsOf(Extents(q, cur[q]) \ todo[q])
      BY <1>1, <1>4, <3>3 DEF RowsOf
    <3> QED
      BY <1>1, <1>2, <3>2, <3>4 DEF Rewrites, Rewriting
  <2>2. CASE ~Rewriting(q)
    BY <1>1, <2>2 DEF Rewrites, Rewriting
  <2> QED
    BY <2>1, <2>2
<1>11. Removes(q)'
  <2>1. \A f \in todo[q] : ftable'[f] = ftable[f]
    BY <1>3 DEF FilesStay
  <2>2. CASE pc[q] = "move"
    <3>1. lock[q] # "none" /\ cur[q] \in Table
      BY <1>2, <2>2, WritersLock DEF Writing, ScriptInv
    <3>2. lock[p] # "exclusive"
      BY <3>1 DEF LockInv
    <3>3. owed'[cur[q]] \cap RowsOf(File) \subseteq owed[cur[q]]
      BY <3>1, <3>2
    <3>4. RowsOf(todo[q])' = RowsOf(todo[q])
      BY <1>1, <1>5 DEF RowsOf
    <3>5. RowsOf(todo[q]) \subseteq RowsOf(File)
      BY <1>3 DEF RowsOf
    <3> QED
      BY <1>1, <1>2, <1>4, <2>1, <2>2, <3>3, <3>4, <3>5 DEF Removes
  <2>3. CASE pc[q] # "move"
    BY <1>1, <1>2, <2>1, <2>3 DEF Removes
  <2> QED
    BY <2>2, <2>3
<1>12. Counts(q)'
  BY <1>1, <1>2, <1>4 DEF Counts, Past
<1> QED
  BY <1>7, <1>8, <1>9, <1>10, <1>11, <1>12 DEF Mine

\* A step keeps the invariant when it keeps what is owed and what holds of its own statement.
LEMMA StepKeeps ==
  ASSUME TypeOK, LockInv, ScriptInv, DataInv, NEW p \in Proc, OthersRest(p), FilesStay,
         (LiveStays /\ owed' = owed) \/ lock[p] # "none",
         (\A t \in Table : owed'[t] \cap RowsOf(File) \subseteq owed[t]) \/ lock[p] = "exclusive",
         NothingLost', Mine(p)'
  PROVE  DataInv'
BY OthersKeep DEF DataInv

LEMMA NothingLostStays ==
  ASSUME NothingLost, LiveStays, owed' = owed
  PROVE  NothingLost' /\ FilesStay /\ \A t \in Table : Live(t)' = Live(t) /\ owed'[t] \cap RowsOf(File) \subseteq owed[t]
<1>1. FilesStay
  BY DEF FilesStay, LiveStays
<1>2. \A t \in Table : Live(t)' = Live(t)
  BY DEF Live, LiveStays
<1> QED
  BY <1>1, <1>2 DEF NothingLost, RowsOf, LiveStays

\* A step inside a statement that begins or ends a loop over no files, or a command.
LEMMA PlainKeeps ==
  ASSUME TypeOK, LockInv, ScriptInv, DataInv, NEW p \in Proc, OthersRest(p), LiveStays, owed' = owed,
         lock'[p] = lock[p], cat'[p] = cat[p], basis'[p] = basis[p], Past(p), Past(p)',
         pc'[p] \notin {"write", "supersede", "move", "scan", "answered"},
         pc'[p] = "run" => seen'[p] = {} /\ fresh'[p] = {},
         seen'[p] \subseteq seen[p], fresh'[p] \subseteq fresh[p],
         todo'[p] \in SUBSET File, \A f \in todo'[p] : fstate[f] # "none",
         OnlyQueries(script[p]) => OnlyQueries(script'[p]),
         pc'[p] \in Writing => lock[p] # "none"
  PROVE  DataInv'
<1>1. Mine(p) /\ NothingLost
  BY DEF DataInv
<1>2. NothingLost' /\ FilesStay /\ \A t \in Table : owed'[t] \cap RowsOf(File) \subseteq owed[t]
  BY <1>1, NothingLostStays
<1>3. \A t : Extents(p, t)' = Extents(p, t) /\ RowsOf(Extents(p, t))' = RowsOf(Extents(p, t))
  <2>1. frows' = frows /\ ftable' = ftable
    BY DEF LiveStays
  <2> QED
    BY <2>1 DEF Extents, RowsOf
<1>4. ReadsOnly(p)'
  BY <1>1 DEF Mine, ReadsOnly, InStatement, Past
<1>5. Known(p)' /\ Covers(p)'
  <2>1. \A f \in cat[p] \cup seen[p] \cup fresh[p] \cup todo'[p] : f \in File /\ fstate'[f] # "none"
    BY <1>1, <1>2 DEF Mine, Known, TypeOK, FilesStay
  <2> QED
    BY <1>1, <1>3, <2>1 DEF Mine, Known, Covers
<1>6. HasAll(p)'
  BY <1>1, <1>2 DEF Mine, HasAll, TypeOK, LiveStays
<1>7. Rewrites(p)' /\ Removes(p)' /\ Counts(p)'
  BY DEF Rewrites, Removes, Counts, Rewriting
<1> QED
  BY <1>1, <1>2, <1>4, <1>5, <1>6, <1>7, StepKeeps DEF Mine

\* A statement that has not refreshed has nothing in mind.
LEMMA OutsideKeeps ==
  ASSUME TypeOK, LockInv, ScriptInv, DataInv, NEW p \in Proc, OthersRest(p), LiveStays, owed' = owed,
         ~Past(p)', seen'[p] = {}, fresh'[p] = {}, cat'[p] \subseteq cat[p], todo'[p] \subseteq todo[p],
         ReadsOnly(p)'
  PROVE  DataInv'
<1>1. Mine(p) /\ NothingLost
  BY DEF DataInv
<1>2. NothingLost' /\ FilesStay /\ \A t \in Table : owed'[t] \cap RowsOf(File) \subseteq owed[t]
  BY <1>1, NothingLostStays
<1>3. Known(p)'
  BY <1>1, <1>2 DEF Mine, Known, TypeOK, FilesStay
<1>4. Covers(p)' /\ HasAll(p)' /\ Rewrites(p)' /\ Removes(p)' /\ Counts(p)'
  BY DEF Covers, HasAll, Rewrites, Removes, Counts, Rewriting, Past
<1> QED
  BY <1>1, <1>2, <1>3, <1>4, StepKeeps DEF Mine

LEMMA ReleaseKeeps ==
  ASSUME TypeOK, LockInv, ScriptInv, DataInv, NEW p \in Proc, Release(p), UNCHANGED <<disk, owed>>
  PROVE  DataInv'
<1>1. OthersRest(p)
  BY DEF OthersRest, Release, TypeOK
<1>2. pc'[p] = "idle" /\ seen'[p] = {} /\ fresh'[p] = {} /\ cat'[p] = {} /\ todo'[p] = {}
  BY DEF Release, TypeOK
<1>3. LiveStays
  BY DEF LiveStays, disk
<1> QED
  BY <1>1, <1>2, <1>3, OutsideKeeps DEF Past, ReadsOnly, InStatement

LEMMA SubmitKeeps ==
  ASSUME TypeOK, LockInv, ScriptInv, DataInv, NEW p \in Proc, Submit(p)
  PROVE  DataInv'
<1>1. pc[p] = "idle" /\ pc' = [pc EXCEPT ![p] = "lock"]
  BY DEF Submit, At, Goto
<1>2. OthersRest(p)
  BY <1>1 DEF OthersRest, Submit, TypeOK, catalog, work, ghost
<1>3. seen[p] = {} /\ fresh[p] = {}
  BY <1>1 DEF DataInv, Mine, Counts, Past
<1>4. LiveStays /\ pc'[p] = "lock"
  BY <1>1 DEF LiveStays, disk, Submit, TypeOK
<1> QED
  BY <1>2, <1>3, <1>4, OutsideKeeps DEF Submit, catalog, work, ghost, Past, ReadsOnly, InStatement

LEMMA AcquireKeeps ==
  ASSUME TypeOK, LockInv, ScriptInv, DataInv, NEW p \in Proc, Acquire(p)
  PROVE  DataInv'
<1>1. pc[p] = "lock" /\ pc'[p] = "refresh" /\ \A q \in Proc \ {p} : pc'[q] = pc[q]
  BY DEF Acquire, At, Goto, TypeOK
<1>2. \A q \in Proc \ {p} : lock'[q] = lock[q]
  BY DEF Acquire, TypeOK
<1>3. OthersRest(p)
  BY <1>1, <1>2 DEF OthersRest, Acquire, catalog, work, ghost
<1>4. seen[p] = {} /\ fresh[p] = {}
  BY <1>1 DEF DataInv, Mine, Counts, Past
<1>5. lock'[p] = "none" => OnlyQueries(script[p])
  BY DEF Acquire, TypeOK
<1>6. ReadsOnly(p)'
  BY <1>1, <1>5 DEF ReadsOnly, Writing, Acquire
<1>7. LiveStays
  BY DEF LiveStays, disk, Acquire
<1> QED
  BY <1>1, <1>3, <1>4, <1>6, <1>7, OutsideKeeps DEF Acquire, catalog, work, ghost, Past

\* Everything in the directory is registered: the catalog covers what is owed.
LEMMA RefreshKeeps ==
  ASSUME TypeOK, LockInv, ScriptInv, DataInv, NEW p \in Proc, Refresh(p)
  PROVE  DataInv'
<1>1. pc[p] = "refresh" /\ pc'[p] = "run" /\ \A q \in Proc \ {p} : pc'[q] = pc[q]
  BY DEF Refresh, At, Goto, TypeOK
<1>2. cat'[p] = {f \in File : fstate[f] = "live" /\ frows[f] # {}} /\ \A q \in Proc \ {p} : cat'[q] = cat[q]
  BY DEF Refresh, TypeOK
<1>3. basis'[p] = owed /\ \A q \in Proc \ {p} : basis'[q] = basis[q]
  BY DEF Refresh, TypeOK
<1>4. OthersRest(p)
  BY <1>1, <1>2, <1>3 DEF OthersRest, Refresh, work
<1>5. LiveStays /\ owed' = owed
  BY DEF LiveStays, disk, Refresh
<1>6. Mine(p) /\ NothingLost
  BY DEF DataInv
<1>7. NothingLost' /\ FilesStay /\ \A t \in Table : owed'[t] \cap RowsOf(File) \subseteq owed[t]
  BY <1>5, <1>6, NothingLostStays
<1>8. Covers(p)'
  <2>1. ASSUME NEW t \in Table
        PROVE  basis'[p][t] \subseteq RowsOf(Extents(p, t))'
    <3>1. \A f \in Live(t) : frows[f] # {} => f \in Extents(p, t)'
      BY <1>2 DEF Live, Extents, Refresh, disk
    <3>2. owed[t] \subseteq UNION {frows[f] : f \in Live(t)}
      BY <1>6, <2>1 DEF NothingLost, RowsOf
    <3>3. owed[t] \subseteq UNION {frows[f] : f \in Extents(p, t)'}
      BY <3>1, <3>2
    <3> QED
      BY <1>3, <3>3 DEF RowsOf, Refresh, disk
  <2> QED
    BY <2>1 DEF Covers
<1>9. HasAll(p)'
  BY <1>2, <1>3, <1>5 DEF HasAll, Refresh, disk
<1>10. seen'[p] = {} /\ fresh'[p] = {} /\ todo' = todo
  BY <1>1, <1>6 DEF Mine, Counts, Past, Refresh, work
<1>11. Known(p)'
  <2>1. \A f \in todo[p] : fstate[f] # "none"
    BY <1>6 DEF Mine, Known
  <2> QED
    BY <1>2, <1>10, <2>1 DEF Known, Refresh, disk
<1>12. ReadsOnly(p)' /\ Rewrites(p)' /\ Removes(p)' /\ Counts(p)'
  BY <1>1, <1>6, <1>10 DEF Mine, ReadsOnly, InStatement, Writing, Rewrites, Removes, Counts, Rewriting, Refresh
<1> QED
  BY <1>4, <1>5, <1>6, <1>7, <1>8, <1>9, <1>11, <1>12, StepKeeps DEF Mine

\* A command that is no query is of a statement with the lock.
LEMMA BeginsLocked ==
  ASSUME TypeOK, ScriptInv, DataInv, NEW p \in Proc, NEW t, NEW k, Begins(p, t, k), k # "query"
  PROVE  lock[p] # "none"
<1>1. pc[p] = "run" /\ Cmd(p).kind = k
  BY DEF Begins, At
<1>2. Cmd(p) = script[p][1] /\ 1 \in DOMAIN script[p]
  BY <1>1, HeadAndTail
<1>3. ~OnlyQueries(script[p])
  BY <1>1, <1>2 DEF OnlyQueries
<1> QED
  BY <1>1, <1>3 DEF DataInv, Mine, ReadsOnly, InStatement

\* Only the place, and the loop, of a statement change.
LEMMA PlainSteps ==
  ASSUME TypeOK, LockInv, ScriptInv, DataInv, NEW p \in Proc,
         \/ Refuse(p) \/ ScanMissing(p) \/ BeginAppend(p) \/ WriteNothing(p) \/ CompactNothing(p)
         \/ DeleteNothing(p) \/ WriteFails(p) \/ FinishRewrite(p) \/ FinishDrop(p) \/ BeginGC(p)
         \/ CollectMissing(p) \/ Collect(p) \/ FinishGC(p)
  PROVE  DataInv'
<1> DEFINE Fits ==
      /\ OthersRest(p) /\ LiveStays /\ owed' = owed /\ lock'[p] = lock[p] /\ cat'[p] = cat[p] /\ basis'[p] = basis[p]
      /\ Past(p) /\ pc'[p] \in {"create", "append", "collect", "end", "failed"}
      /\ seen'[p] = seen[p] /\ fresh'[p] = fresh[p] /\ script' = script
      /\ todo'[p] \in SUBSET File /\ \A f \in todo'[p] : fstate[f] # "none"
      /\ pc'[p] \in Writing => lock[p] # "none"
<1>1. Mine(p)
  BY DEF DataInv
<1>2. todo[p] \in SUBSET File /\ \A f \in todo[p] : fstate[f] # "none"
  BY <1>1 DEF Mine, Known, TypeOK
<1>3. Fits => DataInv'
  BY PlainKeeps DEF Past
<1>4. ASSUME Refuse(p) PROVE Fits
  BY <1>2, <1>4 DEF Refuse, Begins, At, Goto, TypeOK, OthersRest, LiveStays, disk, catalog, work, ghost, Past, Writing
<1>5. ASSUME ScanMissing(p) PROVE Fits
  BY <1>2, <1>5 DEF ScanMissing, At, Goto, TypeOK, OthersRest, LiveStays, disk, catalog, work, ghost, Past, Writing
<1>6. ASSUME BeginAppend(p) PROVE Fits
  <2>1. lock[p] # "none"
    BY <1>6, BeginsLocked DEF BeginAppend
  <2>2. /\ cur' \in [Proc -> Table \cup {NoTable}] /\ \A q \in Proc \ {p} : cur'[q] = cur[q]
        /\ pc[p] = "run" /\ pc'[p] \in {"create", "append"} /\ \A q \in Proc \ {p} : pc'[q] = pc[q]
    <3>1. PICK t \in Table : At(p, "run") /\ cur' = [cur EXCEPT ![p] = t] /\ (Goto(p, "append") \/ Goto(p, "create"))
      BY <1>6 DEF BeginAppend, Begins
    <3> QED
      BY <3>1 DEF At, Goto, TypeOK
  <2> QED
    BY <1>2, <1>6, <2>1, <2>2 DEF BeginAppend, OthersRest, LiveStays, disk, catalog, work, ghost, Past
<1>7. ASSUME WriteNothing(p) PROVE Fits
  BY <1>2, <1>7 DEF WriteNothing, At, Goto, TypeOK, OthersRest, LiveStays, disk, catalog, work, ghost, Past, Writing
<1>8. ASSUME CompactNothing(p) PROVE Fits
  BY <1>2, <1>8 DEF CompactNothing, Begins, At, Goto, TypeOK, OthersRest, LiveStays, disk, catalog, work, ghost, Past, Writing
<1>9. ASSUME DeleteNothing(p) PROVE Fits
  BY <1>2, <1>9 DEF DeleteNothing, Begins, At, Goto, TypeOK, OthersRest, LiveStays, disk, catalog, work, ghost, Past, Writing
<1>10. ASSUME WriteFails(p) PROVE Fits
  BY <1>2, <1>10 DEF WriteFails, At, Goto, TypeOK, OthersRest, LiveStays, disk, catalog, work, ghost, Past, Writing
<1>11. ASSUME FinishRewrite(p) PROVE Fits
  BY <1>2, <1>11 DEF FinishRewrite, At, Goto, TypeOK, OthersRest, LiveStays, disk, catalog, work, ghost, Past, Writing
<1>12. ASSUME FinishDrop(p) PROVE Fits
  <2>1. lock[p] # "none"
    BY <1>1, <1>12, WritersLock DEF Mine, FinishDrop, At, Writing
  <2> QED
    BY <1>2, <1>12, <2>1 DEF FinishDrop, At, Goto, TypeOK, OthersRest, LiveStays, disk, catalog, work, ghost, Past
<1>13. ASSUME BeginGC(p) PROVE Fits
  <2>1. lock[p] # "none"
    BY <1>13, BeginsLocked DEF BeginGC
  <2>2. PICK t \in Table : Begins(p, t, "gc") /\ todo' = [todo EXCEPT ![p] = GlobSuperseded(t)]
    BY <1>13 DEF BeginGC
  <2>3. todo'[p] = GlobSuperseded(t) /\ \A q \in Proc \ {p} : todo'[q] = todo[q]
    BY <2>2 DEF TypeOK
  <2> QED
    BY <1>2, <1>13, <2>1, <2>2, <2>3 DEF BeginGC, GlobSuperseded, Begins, At, Goto, TypeOK, OthersRest, LiveStays, disk,
       catalog, ghost, Past
<1>14. ASSUME CollectMissing(p) PROVE Fits
  <2>1. lock[p] # "none"
    BY <1>1, <1>14, WritersLock DEF Mine, CollectMissing, At, Writing
  <2>2. todo'[p] \subseteq todo[p] /\ \A q \in Proc \ {p} : todo'[q] = todo[q]
    BY <1>14 DEF CollectMissing, TypeOK
  <2> QED
    BY <1>2, <1>14, <2>1, <2>2 DEF CollectMissing, At, TypeOK, OthersRest, LiveStays, disk, catalog, ghost, Past
<1>15. ASSUME Collect(p) PROVE Fits
  <2>1. lock[p] # "none"
    BY <1>1, <1>15, WritersLock DEF Mine, Collect, At, Writing
  <2>2. PICK f \in todo[p] :
          /\ fstate[f] = "superseded" /\ fstate' = [fstate EXCEPT ![f] = "collected"]
          /\ todo' = [todo EXCEPT ![p] = @ \ {f}]
    BY <1>15 DEF Collect
  <2>3. todo'[p] \subseteq todo[p] /\ \A q \in Proc \ {p} : todo'[q] = todo[q]
    BY <2>2 DEF TypeOK
  <2>4. LiveStays
    BY <1>15, <2>2 DEF LiveStays, Collect, TypeOK
  <2> QED
    BY <1>2, <1>15, <2>1, <2>3, <2>4 DEF Collect, At, TypeOK, OthersRest, catalog, ghost, Past
<1>16. ASSUME FinishGC(p) PROVE Fits
  BY <1>2, <1>16 DEF FinishGC, At, Goto, TypeOK, OthersRest, LiveStays, disk, catalog, work, ghost, Past, Writing
<1> QED
  BY <1>3, <1>4, <1>5, <1>6, <1>7, <1>8, <1>9, <1>10, <1>11, <1>12, <1>13, <1>14, <1>15, <1>16

LEMMA NameTablesKeeps ==
  ASSUME TypeOK, LockInv, ScriptInv, DataInv, NEW p \in Proc, NameTables(p)
  PROVE  DataInv'
<1>1. pc[p] = "run" /\ pc'[p] \in {"run", "end"} /\ \A q \in Proc \ {p} : pc'[q] = pc[q]
  BY DEF NameTables, At, Goto, TypeOK
<1> DEFINE c == [Cmd(p) EXCEPT !.over = "each", !.tables = tabs[p]]
<1>2. c \in Command /\ c.kind = Cmd(p).kind
  <2>1. tabs[p] \in SUBSET Table /\ Cmd(p) \in Command
    BY <1>1, HeadAndTail DEF TypeOK
  <2> QED
    BY <2>1 DEF Command
<1>3. script' = [script EXCEPT ![p] = <<c>> \o Tail(script[p])]
  BY DEF NameTables
<1> HIDE DEF c
<1>4. OnlyQueries(script[p]) => OnlyQueries(<<c>> \o Tail(script[p]))
  BY <1>1, <1>2, HeadAndTail, ReplaceHead DEF Cmd
<1>5. script'[p] = <<c>> \o Tail(script[p]) /\ \A q \in Proc \ {p} : script'[q] = script[q]
  BY <1>3 DEF TypeOK
<1>6. OthersRest(p) /\ LiveStays
  BY <1>1, <1>5 DEF OthersRest, LiveStays, NameTables, disk, catalog, work, ghost
<1>7. seen[p] = {} /\ fresh[p] = {} /\ todo[p] \in SUBSET File /\ \A f \in todo[p] : fstate[f] # "none"
  BY <1>1 DEF DataInv, Mine, Counts, Known, TypeOK
<1> QED
  BY <1>1, <1>4, <1>5, <1>6, <1>7, PlainKeeps DEF NameTables, disk, catalog, work, ghost, Past, Writing

LEMMA EndCommandKeeps ==
  ASSUME TypeOK, LockInv, ScriptInv, DataInv, NEW p \in Proc, EndCommand(p)
  PROVE  DataInv'
<1>1. pc[p] \in {"end", "answered", "failed"} /\ NextCommand(p) /\ UNCHANGED <<disk, owed>>
  BY DEF EndCommand
<1>2. CASE Release(p)
  BY <1>1, <1>2, ReleaseKeeps
<1>3. CASE ~Release(p)
  <2>1. PICK s \in Seq(Command) \ {<<>>} : Continue(p, s) /\ (OnlyQueries(script[p]) => OnlyQueries(s))
    BY <1>1, <1>3, NextScript
  <2>2. pc'[p] = "run" /\ script'[p] = s /\ seen'[p] = {} /\ fresh'[p] = {} /\ todo'[p] = {}
    BY <2>1 DEF Continue, Goto, TypeOK
  <2>3. OthersRest(p) /\ LiveStays
    BY <1>1, <2>1 DEF OthersRest, LiveStays, Continue, Goto, TypeOK, disk, catalog
  <2> QED
    BY <1>1, <2>1, <2>2, <2>3, PlainKeeps DEF Continue, catalog, Past, Writing
<1> QED
  BY <1>2, <1>3

\* A query goes through the extents of its table.
LEMMA QueryKeeps ==
  ASSUME TypeOK, LockInv, ScriptInv, DataInv, NEW p \in Proc, OthersRest(p), UNCHANGED <<disk, catalog, lock, script, ghost>>,
         Past(p), pc'[p] \in {"scan", "answered"}, fresh'[p] = fresh[p],
         Known(p)', Counts(p)'
  PROVE  DataInv'
<1>1. Mine(p) /\ NothingLost
  BY DEF DataInv
<1>2. LiveStays /\ owed' = owed
  BY DEF LiveStays, disk, ghost
<1>3. NothingLost' /\ FilesStay /\ \A t \in Table : owed'[t] \cap RowsOf(File) \subseteq owed[t]
  BY <1>1, <1>2, NothingLostStays
<1>4. ReadsOnly(p)' /\ Rewrites(p)' /\ Removes(p)'
  BY <1>1 DEF Mine, ReadsOnly, InStatement, Past, Writing, Rewrites, Removes, Rewriting
<1>5. Covers(p)' /\ HasAll(p)'
  BY <1>1 DEF Mine, Covers, HasAll, Extents, RowsOf, disk, catalog, ghost, Past
<1> QED
  BY <1>1, <1>2, <1>3, <1>4, <1>5, StepKeeps DEF Mine

LEMMA AnswerFromCatalogKeeps ==
  ASSUME TypeOK, LockInv, ScriptInv, DataInv, NEW p \in Proc, AnswerFromCatalog(p)
  PROVE  DataInv'
<1>1. PICK t \in tabs[p] : Begins(p, t, "query") /\ seen' = [seen EXCEPT ![p] = Extents(p, t)]
  BY DEF AnswerFromCatalog
<1>2. pc[p] = "run" /\ pc'[p] = "answered" /\ cur'[p] = t /\ seen'[p] = Extents(p, t)
  BY <1>1 DEF AnswerFromCatalog, Begins, At, Goto, TypeOK
<1>3. OthersRest(p)
  BY <1>1 DEF OthersRest, AnswerFromCatalog, Begins, Goto, TypeOK, disk, catalog, ghost
<1>4. UNCHANGED <<disk, catalog, lock, script, ghost>> /\ todo' = todo /\ fresh' = fresh
  BY DEF AnswerFromCatalog
<1>5. Counts(p)' /\ Known(p)'
  <2>1. Known(p)
    BY DEF DataInv, Mine
  <2> QED
    BY <1>2, <1>4, <2>1 DEF Counts, Known, Extents, Past, disk, catalog
<1> QED
  BY <1>2, <1>3, <1>4, <1>5, QueryKeeps DEF Past

LEMMA BeginQueryKeeps ==
  ASSUME TypeOK, LockInv, ScriptInv, DataInv, NEW p \in Proc, BeginQuery(p)
  PROVE  DataInv'
<1>1. PICK t \in tabs[p] :
        /\ Begins(p, t, "query") /\ todo' = [todo EXCEPT ![p] = Extents(p, t)]
        /\ Goto(p, IF Extents(p, t) = {} THEN "answered" ELSE "scan")
  BY DEF BeginQuery
<1>2. /\ pc[p] = "run" /\ pc'[p] = (IF Extents(p, t) = {} THEN "answered" ELSE "scan") /\ cur'[p] = t
      /\ todo'[p] = Extents(p, t)
  BY <1>1 DEF Begins, At, Goto, TypeOK
<1>3. OthersRest(p)
  BY <1>1 DEF OthersRest, BeginQuery, Begins, Goto, TypeOK, disk, catalog, ghost
<1>4. UNCHANGED <<disk, catalog, lock, script, ghost>> /\ seen' = seen /\ fresh' = fresh
  BY DEF BeginQuery
<1>5. Counts(p)' /\ Known(p)'
  <2>1. Known(p) /\ seen[p] = {}
    BY <1>2 DEF DataInv, Mine, Counts
  <2> QED
    BY <1>2, <1>4, <2>1 DEF Counts, Known, Extents, Past, disk, catalog
<1> QED
  BY <1>2, <1>3, <1>4, <1>5, QueryKeeps DEF Past

LEMMA ScanExtentKeeps ==
  ASSUME TypeOK, LockInv, ScriptInv, DataInv, NEW p \in Proc, ScanExtent(p)
  PROVE  DataInv'
<1>1. PICK f \in todo[p] :
        /\ todo' = [todo EXCEPT ![p] = @ \ {f}] /\ seen' = [seen EXCEPT ![p] = @ \cup {f}]
        /\ Goto(p, IF todo[p] = {f} THEN "answered" ELSE "scan")
  BY DEF ScanExtent
<1>2. /\ pc[p] = "scan" /\ pc'[p] = (IF todo[p] = {f} THEN "answered" ELSE "scan")
      /\ todo'[p] = todo[p] \ {f} /\ seen'[p] = seen[p] \cup {f}
  BY <1>1 DEF ScanExtent, At, Goto, TypeOK
<1>3. OthersRest(p)
  BY <1>1 DEF OthersRest, ScanExtent, Goto, TypeOK, disk, catalog, ghost
<1>4. UNCHANGED <<disk, catalog, lock, script, cur, ghost>> /\ fresh' = fresh
  BY DEF ScanExtent
<1>5. Counts(p)' /\ Known(p)'
  <2>1. Known(p) /\ todo[p] \cup seen[p] = Extents(p, cur[p])
    BY <1>2 DEF DataInv, Mine, Counts
  <2>2. Known(p)'
    BY <1>1, <1>2, <1>4, <2>1 DEF Known, disk, catalog
  <2>3. Counts(p)'
    BY <1>1, <1>2, <1>4, <2>1 DEF Counts, Extents, Past, disk, catalog
  <2> QED
    BY <2>2, <2>3
<1> QED
  BY <1>2, <1>3, <1>4, <1>5, QueryKeeps DEF Past

-----------------------------------------------------------------------------
(* Files that come.                                                        *)

LEMMA CommitGives ==
  ASSUME TypeOK, NEW f \in File, NEW t \in Table, NEW R \in SUBSET Row, Commit(f, t, R)
  PROVE  /\ FilesStay /\ fstate[f] = "none" /\ fstate'[f] = "live" /\ ftable'[f] = t /\ frows'[f] = R
         /\ \A g \in File \ {f} : fstate'[g] = fstate[g] /\ ftable'[g] = ftable[g] /\ frows'[g] = frows[g]
         /\ Live(t)' = Live(t) \cup {f} /\ \A u \in Table \ {t} : Live(u)' = Live(u)
<1>1. fstate[f] = "none" /\ fstate'[f] = "live" /\ ftable'[f] = t /\ frows'[f] = R
  BY DEF Commit, TypeOK
<1>2. \A g \in File \ {f} : fstate'[g] = fstate[g] /\ ftable'[g] = ftable[g] /\ frows'[g] = frows[g]
  BY DEF Commit, TypeOK
<1> QED
  BY <1>1, <1>2 DEF FilesStay, Live

\* With the file, what is owed to its table may grow by its rows, and may shrink.
LEMMA CommitLosesNothing ==
  ASSUME TypeOK, NothingLost, NEW f \in File, NEW t \in Table, NEW R \in SUBSET Row, Commit(f, t, R),
         owed'[t] \subseteq owed[t] \cup R, \A u \in Table \ {t} : owed'[u] = owed[u]
  PROVE  NothingLost'
<1>1. /\ FilesStay /\ frows'[f] = R
      /\ Live(t)' = Live(t) \cup {f} /\ \A u \in Table \ {t} : Live(u)' = Live(u)
  BY CommitGives
<1>2. ASSUME NEW u \in Table
      PROVE  UNION {frows'[g] : g \in Live(u)} = RowsOf(Live(u))
  <2>1. Live(u) \in SUBSET File /\ \A g \in Live(u) : fstate[g] # "none"
    BY DEF Live
  <2> QED
    BY <1>1, <2>1, RowsStay
<1>3. owed'[t] \subseteq UNION {frows'[g] : g \in Live(t)'}
  <2>1. owed[t] \subseteq UNION {frows'[g] : g \in Live(t)}
    BY <1>2 DEF NothingLost
  <2> QED
    BY <1>1, <2>1
<1>4. ASSUME NEW u \in Table \ {t}
      PROVE  owed'[u] \subseteq UNION {frows'[g] : g \in Live(u)'}
  BY <1>1, <1>2, <1>4 DEF NothingLost
<1> QED
  BY <1>3, <1>4 DEF NothingLost, RowsOf

LEMMA CreateTableKeeps ==
  ASSUME TypeOK, LockInv, ScriptInv, DataInv, NEW p \in Proc, CreateTable(p)
  PROVE  DataInv'
<1>1. pc[p] = "create" /\ cur[p] \in Table
  BY DEF CreateTable, At, ScriptInv
<1>2. PICK f \in File : Commit(f, cur[p], {})
  BY DEF CreateTable
<1>3. Mine(p) /\ NothingLost /\ owed' = owed
  BY DEF DataInv, CreateTable, ghost
<1>4. /\ FilesStay /\ fstate[f] = "none" /\ fstate'[f] = "live"
      /\ \A g \in File \ {f} : fstate'[g] = fstate[g] /\ ftable'[g] = ftable[g] /\ frows'[g] = frows[g]
  <2>1. {} \in SUBSET Row
    OBVIOUS
  <2> QED
    BY <1>1, <1>2, <2>1, CommitGives
<1>5. NothingLost'
  <2>1. {} \in SUBSET Row /\ owed'[cur[p]] \subseteq owed[cur[p]] \cup {} /\ \A u \in Table \ {cur[p]} : owed'[u] = owed[u]
    BY <1>3
  <2> QED
    BY <1>1, <1>2, <1>3, <2>1, CommitLosesNothing
<1>6. pc'[p] \in {"end", "append"} /\ \A q \in Proc \ {p} : pc'[q] = pc[q]
  BY <1>1 DEF CreateTable, Goto, TypeOK
<1>7. OthersRest(p)
  BY <1>6 DEF OthersRest, CreateTable, work, ghost
<1>8. lock[p] # "none" /\ UNCHANGED <<lock, script, cat, todo, seen, fresh, basis>>
  BY <1>1, <1>3, WritersLock DEF Mine, Writing, CreateTable, work, ghost
<1>9. ReadsOnly(p)' /\ Known(p)' /\ Rewrites(p)' /\ Removes(p)' /\ Counts(p)'
  BY <1>3, <1>4, <1>6, <1>8 DEF Mine, ReadsOnly, Known, Rewrites, Removes, Counts, Rewriting, Past, FilesStay, TypeOK
<1>10. Covers(p)' /\ HasAll(p)'
  <2>1. \A t \in Table : Extents(p, t)' = Extents(p, t)
    BY <1>3, <1>4, <1>8, ExtentsStay DEF Mine
  <2>2. \A t \in Table : Extents(p, t) \in SUBSET File /\ \A g \in Extents(p, t) : fstate[g] # "none"
    BY <1>3 DEF Mine, Known, Extents, TypeOK
  <2>3. \A t \in Table : UNION {frows'[g] : g \in Extents(p, t)} = RowsOf(Extents(p, t))
    BY <1>4, <2>2, RowsStay
  <2>4. Covers(p)'
    BY <1>1, <1>3, <1>8, <2>1, <2>3 DEF Mine, Covers, Past, RowsOf
  <2>5. HasAll(p)'
    BY <1>1, <1>3, <1>4, <1>8 DEF Mine, HasAll, Known, Past, TypeOK
  <2> QED
    BY <2>4, <2>5
<1> QED
  BY <1>3, <1>4, <1>5, <1>7, <1>8, <1>9, <1>10, StepKeeps DEF Mine

\* The writer's catalog has the file it has committed.
LEMMA CommitRegisters ==
  ASSUME TypeOK, NEW p \in Proc, Known(p), NEW f \in File, cur[p] \in Table, NEW R \in SUBSET Row,
         Commit(f, cur[p], R), cat' = [cat EXCEPT ![p] = @ \cup {f}]
  PROVE  /\ cat'[p] = cat[p] \cup {f} /\ \A q \in Proc \ {p} : cat'[q] = cat[q]
         /\ f \notin cat[p] \cup todo[p] \cup seen[p] \cup fresh[p]
         /\ Extents(p, cur[p])' = {g \in cat'[p] : ftable'[g] = cur'[p]}
         /\ {g \in cat'[p] : ftable'[g] = cur[p]} = Extents(p, cur[p]) \cup {f}
         /\ \A t \in Table \ {cur[p]} : {g \in cat'[p] : ftable'[g] = t} = Extents(p, t)
         /\ \A S \in SUBSET (cat[p] \cup todo[p]) : UNION {frows'[g] : g \in S} = RowsOf(S)
<1>1. cat'[p] = cat[p] \cup {f} /\ \A q \in Proc \ {p} : cat'[q] = cat[q]
  BY DEF TypeOK
<1>2. /\ FilesStay /\ fstate[f] = "none" /\ ftable'[f] = cur[p]
      /\ \A g \in File \ {f} : ftable'[g] = ftable[g]
  BY CommitGives
<1>3. \A g \in cat[p] \cup todo[p] \cup seen[p] \cup fresh[p] : g \in File /\ fstate[g] # "none"
  BY DEF Known, TypeOK
<1>4. f \notin cat[p] \cup todo[p] \cup seen[p] \cup fresh[p]
  BY <1>2, <1>3
<1>5. \A g \in cat[p] : ftable'[g] = ftable[g]
  BY <1>2, <1>3, <1>4
<1>6. \A S \in SUBSET (cat[p] \cup todo[p]) : UNION {frows'[g] : g \in S} = RowsOf(S)
  BY <1>2, <1>3, RowsStay
<1> QED
  BY <1>1, <1>2, <1>4, <1>5, <1>6 DEF Extents

LEMMA AppendRowsKeeps ==
  ASSUME TypeOK, LockInv, ScriptInv, DataInv, NEW p \in Proc, AppendRows(p)
  PROVE  DataInv'
<1>1. pc[p] = "append" /\ cur[p] \in Table
  BY DEF AppendRows, At, ScriptInv
<1>2. PICK f \in File, R \in SUBSET UnusedRows :
        /\ Commit(f, cur[p], R)
        /\ cat' = [cat EXCEPT ![p] = @ \cup {f}]
        /\ owed' = [owed EXCEPT ![cur[p]] = @ \cup R]
        /\ basis' = [basis EXCEPT ![p][cur[p]] = @ \cup R]
  BY DEF AppendRows
<1>3. R \in SUBSET Row /\ R \cap RowsOf(File) = {}
  BY DEF UnusedRows
<1>4. Mine(p) /\ NothingLost
  BY DEF DataInv
<1>5. /\ FilesStay /\ fstate'[f] = "live" /\ ftable'[f] = cur[p] /\ frows'[f] = R
      /\ \A g \in File \ {f} : fstate'[g] = fstate[g]
  BY <1>1, <1>2, <1>3, CommitGives
<1>6. /\ cat'[p] = cat[p] \cup {f} /\ \A q \in Proc \ {p} : cat'[q] = cat[q]
      /\ f \notin cat[p] \cup todo[p] \cup seen[p] \cup fresh[p]
      /\ {g \in cat'[p] : ftable'[g] = cur[p]} = Extents(p, cur[p]) \cup {f}
      /\ \A t \in Table \ {cur[p]} : {g \in cat'[p] : ftable'[g] = t} = Extents(p, t)
      /\ \A S \in SUBSET (cat[p] \cup todo[p]) : UNION {frows'[g] : g \in S} = RowsOf(S)
  BY <1>1, <1>2, <1>3, <1>4, CommitRegisters DEF Mine
<1>7. owed'[cur[p]] = owed[cur[p]] \cup R /\ \A t \in Table \ {cur[p]} : owed'[t] = owed[t]
  BY <1>1, <1>2 DEF TypeOK
<1>8. /\ basis'[p] = [basis[p] EXCEPT ![cur[p]] = @ \cup R] /\ \A q \in Proc \ {p} : basis'[q] = basis[q]
      /\ basis'[p][cur[p]] = basis[p][cur[p]] \cup R /\ \A t \in Table \ {cur[p]} : basis'[p][t] = basis[p][t]
  BY <1>1, <1>2 DEF TypeOK
<1>9. NothingLost'
  BY <1>1, <1>2, <1>3, <1>4, <1>7, CommitLosesNothing
<1>10. pc'[p] \in {"end", "append"} /\ \A q \in Proc \ {p} : pc'[q] = pc[q]
  BY <1>1 DEF AppendRows, Goto, TypeOK
<1>11. lock[p] # "none" /\ UNCHANGED <<lock, script, cur, tabs, work, torn>>
  BY <1>1, <1>4, WritersLock DEF Mine, Writing, AppendRows
<1>12. OthersRest(p)
  BY <1>6, <1>8, <1>10, <1>11 DEF OthersRest, work
<1>13. ReadsOnly(p)' /\ Known(p)' /\ Rewrites(p)' /\ Removes(p)' /\ Counts(p)'
  <2>1. Known(p)'
    BY <1>4, <1>5, <1>6, <1>11 DEF Mine, Known, FilesStay, work, TypeOK
  <2> QED
    BY <1>10, <1>11, <2>1 DEF ReadsOnly, Rewrites, Removes, Counts, Rewriting, Past, work
<1>14. Covers(p)'
  <2>1. ASSUME NEW t \in Table
        PROVE  basis'[p][t] \subseteq UNION {frows'[g] : g \in {h \in cat'[p] : ftable'[h] = t}}
    <3>1. basis[p][t] \subseteq RowsOf(Extents(p, t)) /\ Extents(p, t) \in SUBSET (cat[p] \cup todo[p])
      BY <1>1, <1>4 DEF Mine, Covers, Past, Extents
    <3>2. basis[p][t] \subseteq UNION {frows'[g] : g \in Extents(p, t)}
      BY <1>6, <3>1
    <3>3. CASE t = cur[p]
      BY <1>5, <1>6, <1>8, <3>2, <3>3
    <3>4. CASE t # cur[p]
      BY <1>6, <1>8, <3>2, <3>4
    <3> QED
      BY <3>3, <3>4
  <2> QED
    BY <2>1 DEF Covers, Extents, RowsOf
<1>15. HasAll(p)'
  <2> SUFFICES ASSUME lock[p] = "exclusive"
               PROVE  basis'[p] = owed' /\ \A g \in cat'[p] : fstate'[g] = "live"
    BY <1>11 DEF HasAll
  <2>1. basis[p] = owed /\ \A g \in cat[p] : g \in File /\ fstate[g] = "live"
    BY <1>1, <1>4 DEF Mine, HasAll, Past, TypeOK
  <2>2. basis'[p] = owed'
    BY <1>2, <1>8, <2>1
  <2> QED
    BY <1>5, <1>6, <2>1, <2>2
<1>16. \A t \in Table : owed'[t] \cap RowsOf(File) \subseteq owed[t]
  BY <1>3, <1>7
<1> QED
  BY <1>5, <1>9, <1>11, <1>12, <1>13, <1>14, <1>15, <1>16, StepKeeps DEF Mine

\* A new file of a rewrite.
LEMMA WriteExtentKeeps ==
  ASSUME TypeOK, LockInv, ScriptInv, DataInv, NEW p \in Proc, WriteExtent(p)
  PROVE  DataInv'
<1>1. pc[p] = "write" /\ cur[p] \in Table /\ lock[p] = "exclusive"
  BY RewritersAlone DEF WriteExtent, At, ScriptInv, Rewriting
<1>2. PICK f \in File, C \in SUBSET rest[p] :
        /\ Commit(f, cur[p], C)
        /\ rest' = [rest EXCEPT ![p] = @ \ C]
        /\ fresh' = [fresh EXCEPT ![p] = @ \cup {f}]
        /\ cat' = [cat EXCEPT ![p] = @ \cup {f}]
        /\ IF rest[p] = C
           THEN /\ owed' = [owed EXCEPT ![cur[p]] = (@ \cup C) \ gone[p]]
                /\ basis' = [basis EXCEPT ![p][cur[p]] = (@ \cup C) \ gone[p]]
                /\ Goto(p, "supersede")
           ELSE /\ owed' = [owed EXCEPT ![cur[p]] = @ \cup C]
                /\ basis' = [basis EXCEPT ![p][cur[p]] = @ \cup C]
                /\ UNCHANGED pc
  BY DEF WriteExtent
<1>3. C \in SUBSET Row
  BY DEF TypeOK
<1> DEFINE G == IF rest[p] = C THEN gone[p] ELSE {}
<1>4. Mine(p) /\ NothingLost
  BY DEF DataInv
<1>5. /\ FilesStay /\ fstate'[f] = "live" /\ ftable'[f] = cur[p] /\ frows'[f] = C
      /\ \A g \in File \ {f} : fstate'[g] = fstate[g] /\ ftable'[g] = ftable[g]
  BY <1>1, <1>2, <1>3, CommitGives
<1>6. /\ cat'[p] = cat[p] \cup {f} /\ \A q \in Proc \ {p} : cat'[q] = cat[q]
      /\ f \notin cat[p] \cup todo[p] \cup seen[p] \cup fresh[p]
      /\ {g \in cat'[p] : ftable'[g] = cur[p]} = Extents(p, cur[p]) \cup {f}
      /\ \A t \in Table \ {cur[p]} : {g \in cat'[p] : ftable'[g] = t} = Extents(p, t)
      /\ \A S \in SUBSET (cat[p] \cup todo[p]) : UNION {frows'[g] : g \in S} = RowsOf(S)
  BY <1>1, <1>2, <1>3, <1>4, CommitRegisters DEF Mine
<1>7. /\ owed' = [owed EXCEPT ![cur[p]] = (@ \cup C) \ G]
      /\ basis' = [basis EXCEPT ![p][cur[p]] = (@ \cup C) \ G]
      /\ pc'[p] = IF rest[p] = C THEN "supersede" ELSE "write"
      /\ \A q \in Proc \ {p} : pc'[q] = pc[q]
  BY <1>1, <1>2 DEF Goto, TypeOK
<1>8. owed'[cur[p]] = (owed[cur[p]] \cup C) \ G /\ \A t \in Table \ {cur[p]} : owed'[t] = owed[t]
  BY <1>1, <1>7 DEF TypeOK
<1>9. /\ basis'[p] = [basis[p] EXCEPT ![cur[p]] = (@ \cup C) \ G] /\ \A q \in Proc \ {p} : basis'[q] = basis[q]
      /\ basis'[p][cur[p]] = (basis[p][cur[p]] \cup C) \ G /\ \A t \in Table \ {cur[p]} : basis'[p][t] = basis[p][t]
  BY <1>1, <1>7 DEF TypeOK
<1>10. NothingLost'
  BY <1>1, <1>2, <1>3, <1>4, <1>8, CommitLosesNothing
<1>11. UNCHANGED <<lock, script, cur, tabs, todo, gone, seen, errs, torn>>
  BY DEF WriteExtent
<1>12. /\ rest'[p] = rest[p] \ C /\ \A q \in Proc \ {p} : rest'[q] = rest[q]
       /\ fresh'[p] = fresh[p] \cup {f} /\ \A q \in Proc \ {p} : fresh'[q] = fresh[q]
  BY <1>2 DEF TypeOK
<1>13. OthersRest(p)
  BY <1>6, <1>7, <1>9, <1>11, <1>12 DEF OthersRest
<1> HIDE DEF G
<1>14. Known(p)'
  BY <1>4, <1>5, <1>6, <1>11, <1>12 DEF Mine, Known, FilesStay, TypeOK
<1>15. ReadsOnly(p)' /\ Counts(p)'
  BY <1>1, <1>7, <1>11 DEF ReadsOnly, Counts, Past
<1>16. Covers(p)'
  <2>1. ASSUME NEW t \in Table
        PROVE  basis'[p][t] \subseteq UNION {frows'[g] : g \in {h \in cat'[p] : ftable'[h] = t}}
    <3>1. basis[p][t] \subseteq RowsOf(Extents(p, t)) /\ Extents(p, t) \in SUBSET (cat[p] \cup todo[p])
      BY <1>1, <1>4 DEF Mine, Covers, Past, Extents
    <3>2. basis[p][t] \subseteq UNION {frows'[g] : g \in Extents(p, t)}
      BY <1>6, <3>1
    <3>3. CASE t = cur[p]
      BY <1>5, <1>6, <1>9, <3>2, <3>3
    <3>4. CASE t # cur[p]
      BY <1>6, <1>9, <3>2, <3>4
    <3> QED
      BY <3>3, <3>4
  <2> QED
    BY <2>1 DEF Covers, Extents, RowsOf
<1>17. HasAll(p)'
  <2>1. basis[p] = owed /\ \A g \in cat[p] : g \in File /\ fstate[g] = "live"
    BY <1>1, <1>4 DEF Mine, HasAll, Past, TypeOK
  <2>2. basis'[p] = owed'
    BY <1>7, <1>9, <2>1
  <2> QED
    BY <1>5, <1>6, <2>1, <2>2 DEF HasAll
<1>18. Removes(p)'
  <2>1. \A g \in todo[p] : g \in File /\ fstate[g] # "none" /\ ftable[g] = cur[p]
    BY <1>1, <1>4 DEF Mine, Removes, Known, TypeOK
  <2> QED
    BY <1>5, <1>7, <1>11, <2>1 DEF Removes, FilesStay
<1>19. Rewrites(p)'
  <2>1. \A g \in fresh'[p] : fstate'[g] = "live" /\ ftable'[g] = cur'[p] /\ g \notin todo'[p]
    <3>1. \A g \in fresh[p] : g \in File /\ fstate[g] = "live" /\ ftable[g] = cur[p] /\ g \notin todo[p]
      BY <1>1, <1>4 DEF Mine, Rewrites, Rewriting, TypeOK
    <3> QED
      BY <1>5, <1>6, <1>11, <1>12, <3>1
  <2> DEFINE E == Extents(p, cur[p]) \ todo[p]
  <2>2. /\ basis[p][cur[p]] \ gone[p] \subseteq rest[p] \cup RowsOf(E)
        /\ E \in SUBSET (cat[p] \cup todo[p])
    BY <1>1, <1>4 DEF Mine, Rewrites, Extents
  <2>3. RowsOf(E) = UNION {frows'[g] : g \in E}
    BY <1>6, <2>2
  <2>4. {g \in cat'[p] : ftable'[g] = cur[p]} \ todo[p] = E \cup {f}
    BY <1>6
  <2> HIDE DEF E
  <2>5. UNION {frows'[g] : g \in E \cup {f}} = RowsOf(E) \cup C
    BY <1>5, <2>3
  <2>6. RowsOf(Extents(p, cur[p]) \ todo[p])' = RowsOf(E) \cup C
    BY <1>11, <2>4, <2>5 DEF Extents, RowsOf
  <2>7. basis'[p][cur[p]] \ gone[p] \subseteq rest'[p] \cup RowsOf(E) \cup C
    BY <1>9, <1>12, <2>2
  <2>8. rest[p] = C => basis'[p][cur[p]] \subseteq RowsOf(E) \cup C
    <3> SUFFICES ASSUME rest[p] = C
                 PROVE  basis'[p][cur[p]] \subseteq RowsOf(E) \cup C
      OBVIOUS
    <3>1. G = gone[p]
      BY DEF G
    <3> QED
      BY <1>9, <2>2, <3>1
  <2> QED
    BY <1>7, <1>11, <1>12, <2>1, <2>6, <2>7, <2>8 DEF Rewrites, Rewriting
<1> QED
  BY <1>1, <1>5, <1>10, <1>13, <1>14, <1>15, <1>16, <1>17, <1>18, <1>19, StepKeeps DEF Mine

-----------------------------------------------------------------------------
(* Files that leave.                                                       *)

LEMMA GlobsAreExact ==
  ASSUME NoLongerNames, NEW t \in Table
  PROVE  /\ GlobLive(t) = Live(t)
         /\ GlobSuperseded(t) = {f \in File : fstate[f] = "superseded" /\ ftable[f] = t}
<1>1. Globbed(t) = {t}
  BY DEF NoLongerNames, Globbed
<1> QED
  BY <1>1 DEF GlobLive, GlobSuperseded, Live

\* A rewrite begins with what it needs: rows it keeps, takes out or leaves where they are.
LEMMA StartRewriteKeeps ==
  ASSUME TypeOK, LockInv, ScriptInv, DataInv, NEW p \in Proc, NEW t \in Table, NEW k, Begins(p, t, k),
         k \in {"replace", "compact", "delete"},
         NEW R, NEW G, NEW old \in SUBSET File, StartRewrite(p, R, G, old),
         \A f \in old : fstate[f] # "none" /\ ftable[f] = t,
         basis[p][t] \ G \subseteq R \cup RowsOf(Extents(p, t) \ old)
  PROVE  DataInv'
<1>1. pc[p] = "run" /\ pc'[p] = "write" /\ cur'[p] = t /\ Cmd(p).kind = k
  BY DEF Begins, StartRewrite, At, Goto, TypeOK
<1>2. rest'[p] = R /\ gone'[p] = G /\ todo'[p] = old
  BY DEF StartRewrite, TypeOK
<1>3. OthersRest(p)
  BY DEF OthersRest, Begins, StartRewrite, Goto, TypeOK, disk, catalog, ghost
<1>4. /\ LiveStays /\ UNCHANGED <<disk, lock, script, catalog, fresh, seen, errs, ghost>>
      /\ UNCHANGED <<owed, basis, cat, frows, ftable>>
  BY DEF LiveStays, StartRewrite, disk, catalog, ghost
<1>5. lock[p] = "exclusive"
  BY <1>1, RewriteKinds DEF LockInv, InStatement
<1>6. Mine(p) /\ NothingLost
  BY DEF DataInv
<1>7. NothingLost' /\ FilesStay /\ \A u \in Table : owed'[u] \cap RowsOf(File) \subseteq owed[u]
  BY <1>4, <1>6, NothingLostStays
<1>8. seen'[p] = {} /\ fresh'[p] = {}
  BY <1>1, <1>4, <1>6 DEF Mine, Counts
<1>9. \A u : Extents(p, u)' = Extents(p, u) /\ RowsOf(Extents(p, u))' = RowsOf(Extents(p, u))
  BY <1>4 DEF Extents, RowsOf
<1>10. ReadsOnly(p)' /\ Known(p)' /\ Covers(p)' /\ HasAll(p)' /\ Counts(p)'
  <2>1. Known(p)'
    BY <1>2, <1>4, <1>6, <1>8 DEF Mine, Known, disk
  <2>2. Covers(p)' /\ HasAll(p)'
    BY <1>1, <1>4, <1>6, <1>9 DEF Mine, Covers, HasAll, Past, disk
  <2> QED
    BY <1>1, <1>4, <1>5, <2>1, <2>2 DEF ReadsOnly, Counts, Past
<1>11. Rewrites(p)' /\ Removes(p)'
  <2>1. RowsOf(Extents(p, t) \ old)' = RowsOf(Extents(p, t) \ old)
    BY <1>4 DEF Extents, RowsOf
  <2>2. (Extents(p, t) \ old)' = Extents(p, t) \ old
    BY <1>4 DEF Extents
  <2>3. basis'[p][t] \ gone'[p] \subseteq rest'[p] \cup UNION {frows'[f] : f \in Extents(p, t) \ old}
    BY <1>2, <1>4 DEF RowsOf
  <2>4. RowsOf(Extents(p, cur[p]) \ todo[p])' = UNION {frows'[f] : f \in Extents(p, t) \ old}
    BY <1>1, <1>2, <1>4 DEF Extents, RowsOf
  <2> QED
    BY <1>1, <1>2, <1>4, <1>8, <2>3, <2>4 DEF Rewrites, Removes, Rewriting
<1> QED
  BY <1>3, <1>4, <1>6, <1>7, <1>10, <1>11, StepKeeps DEF Mine

LEMMA BeginReplaceKeeps ==
  ASSUME TypeOK, LockInv, ScriptInv, DataInv, NoLongerNames, NEW p \in Proc, BeginReplace(p)
  PROVE  DataInv'
<1>1. PICK t \in tabs[p], R \in SUBSET UnusedRows :
        /\ Begins(p, t, "replace")
        /\ StartRewrite(p, R, RowsOf(Extents(p, t)), Extents(p, t) \cup Shells(p, t))
  BY DEF BeginReplace
<1> DEFINE old == Extents(p, t) \cup Shells(p, t)
<1>2. t \in Table /\ GlobLive(t) = Live(t)
  BY <1>1, GlobsAreExact DEF TypeOK
<1>3. old \in SUBSET File /\ \A f \in old : fstate[f] # "none" /\ ftable[f] = t
  BY <1>2 DEF Shells, Live, Extents, DataInv, Mine, Known, TypeOK
<1>4. basis[p][t] \subseteq RowsOf(Extents(p, t))
  BY <1>1, <1>2 DEF Begins, At, DataInv, Mine, Covers, Past
<1> HIDE DEF old
<1>5. basis[p][t] \ RowsOf(Extents(p, t)) \subseteq R \cup RowsOf(Extents(p, t) \ old)
  BY <1>4
<1>6. StartRewrite(p, R, RowsOf(Extents(p, t)), old)
  BY <1>1 DEF old
<1> QED
  BY <1>1, <1>2, <1>3, <1>5, <1>6, StartRewriteKeeps

LEMMA BeginCompactKeeps ==
  ASSUME TypeOK, LockInv, ScriptInv, DataInv, NoLongerNames, NEW p \in Proc, BeginCompact(p)
  PROVE  DataInv'
<1>1. PICK t \in tabs[p] : \E D \in SUBSET RowsOf(Extents(p, t)) :
        /\ Begins(p, t, "compact")
        /\ StartRewrite(p, RowsOf(Extents(p, t)) \ D, D, Extents(p, t) \cup Shells(p, t))
  BY DEF BeginCompact
<1>2. PICK D \in SUBSET RowsOf(Extents(p, t)) :
        /\ Begins(p, t, "compact")
        /\ StartRewrite(p, RowsOf(Extents(p, t)) \ D, D, Extents(p, t) \cup Shells(p, t))
  BY <1>1
<1> DEFINE old == Extents(p, t) \cup Shells(p, t)
<1>3. t \in Table /\ GlobLive(t) = Live(t)
  BY <1>1, GlobsAreExact DEF TypeOK
<1>4. old \in SUBSET File /\ \A f \in old : fstate[f] # "none" /\ ftable[f] = t
  BY <1>3 DEF Shells, Live, Extents, DataInv, Mine, Known, TypeOK
<1>5. basis[p][t] \subseteq RowsOf(Extents(p, t))
  BY <1>2, <1>3 DEF Begins, At, DataInv, Mine, Covers, Past
<1> HIDE DEF old
<1>6. basis[p][t] \ D \subseteq (RowsOf(Extents(p, t)) \ D) \cup RowsOf(Extents(p, t) \ old)
  BY <1>5
<1>7. StartRewrite(p, RowsOf(Extents(p, t)) \ D, D, old)
  BY <1>2 DEF old
<1> QED
  BY <1>2, <1>3, <1>4, <1>6, <1>7, StartRewriteKeeps

\* A row of an extent that is not rewritten stays in it.
LEMMA BeginDeleteKeeps ==
  ASSUME TypeOK, LockInv, ScriptInv, DataInv, NEW p \in Proc, BeginDelete(p)
  PROVE  DataInv'
<1>1. PICK t \in tabs[p] : \E D \in SUBSET RowsOf(Extents(p, t)) \ {{}} :
        LET affected == {f \in Extents(p, t) : frows[f] \cap D # {}}
        IN  Begins(p, t, "delete") /\ StartRewrite(p, RowsOf(affected) \ D, D, affected)
  BY DEF BeginDelete
<1>2. PICK D \in SUBSET RowsOf(Extents(p, t)) \ {{}} :
        LET affected == {f \in Extents(p, t) : frows[f] \cap D # {}}
        IN  Begins(p, t, "delete") /\ StartRewrite(p, RowsOf(affected) \ D, D, affected)
  BY <1>1
<1> DEFINE affected == {f \in Extents(p, t) : frows[f] \cap D # {}}
<1>3. t \in Table
  BY <1>1 DEF TypeOK
<1>4. affected \in SUBSET File /\ affected \subseteq Extents(p, t) /\ \A f \in affected : fstate[f] # "none" /\ ftable[f] = t
  BY DEF Extents, DataInv, Mine, Known, TypeOK
<1>5. basis[p][t] \subseteq RowsOf(Extents(p, t))
  BY <1>2, <1>3 DEF Begins, At, DataInv, Mine, Covers, Past
<1>6. Begins(p, t, "delete") /\ StartRewrite(p, RowsOf(affected) \ D, D, affected)
  BY <1>2
<1> HIDE DEF affected
<1>7. RowsOf(Extents(p, t)) \subseteq RowsOf(affected) \cup RowsOf(Extents(p, t) \ affected)
  BY DEF RowsOf
<1>8. basis[p][t] \ D \subseteq (RowsOf(affected) \ D) \cup RowsOf(Extents(p, t) \ affected)
  BY <1>5, <1>7
<1> QED
  BY <1>3, <1>4, <1>6, <1>8, StartRewriteKeeps

\* A file that leaves a table takes no row that is owed.
LEMMA LeavingLosesNothing ==
  ASSUME TypeOK, NEW f \in File, UNCHANGED <<ftable, frows>>,
         NEW there \in {"superseded", "archived", "deleted"}, fstate' = [fstate EXCEPT ![f] = there],
         ftable[f] \in Table,
         \A t \in Table : owed'[t] \subseteq IF t = ftable[f] THEN RowsOf(Live(t) \ {f}) ELSE RowsOf(Live(t))
  PROVE  NothingLost'
<1>1. \A t \in Table : Live(t)' = Live(t) \ {f}
  BY DEF Live, TypeOK
<1>2. \A t \in Table \ {ftable[f]} : f \notin Live(t)
  BY DEF Live
<1>3. \A t \in Table : owed'[t] \subseteq RowsOf(Live(t) \ {f})
  <2>1. \A t \in Table \ {ftable[f]} : Live(t) \ {f} = Live(t)
    BY <1>2
  <2> QED
    BY <2>1
<1> QED
  BY <1>1, <1>3 DEF NothingLost, RowsOf

\* A file superseded: the last new file of the rewrite is in place.
LEMMA SupersedeKeeps ==
  ASSUME TypeOK, LockInv, ScriptInv, DataInv, NEW p \in Proc, Supersede(p)
  PROVE  DataInv'
<1>1. pc[p] = "supersede" /\ cur[p] \in Table /\ lock[p] = "exclusive"
  BY RewritersAlone DEF Supersede, At, ScriptInv, Rewriting
<1>2. PICK f \in todo[p] :
        /\ fstate[f] = "live" /\ fstate' = [fstate EXCEPT ![f] = "superseded"]
        /\ todo' = [todo EXCEPT ![p] = @ \ {f}] /\ cat' = [cat EXCEPT ![p] = @ \ {f}]
  BY DEF Supersede
<1>3. UNCHANGED <<ftable, frows, lock, pc, script, cur, tabs, rest, gone, fresh, seen, errs, owed, torn, basis>>
  BY DEF Supersede, ghost
<1>4. Mine(p) /\ NothingLost
  BY DEF DataInv
<1>5. f \in File /\ ftable[f] = cur[p]
  BY <1>1, <1>2, <1>4 DEF Mine, Removes, TypeOK
<1>6. todo'[p] = todo[p] \ {f} /\ cat'[p] = cat[p] \ {f} /\ \A q \in Proc \ {p} : todo'[q] = todo[q] /\ cat'[q] = cat[q]
  BY <1>2 DEF TypeOK
<1>7. fstate'[f] = "superseded" /\ \A g \in File \ {f} : fstate'[g] = fstate[g]
  BY <1>2, <1>5 DEF TypeOK
<1>8. FilesStay /\ OthersRest(p)
  BY <1>3, <1>6, <1>7 DEF FilesStay, OthersRest
<1>9. basis[p] = owed /\ \A g \in cat[p] : g \in File /\ fstate[g] = "live"
  BY <1>1, <1>4 DEF Mine, HasAll, Past, TypeOK
<1>10. basis[p][cur[p]] \subseteq RowsOf(Extents(p, cur[p]) \ todo[p]) /\ fresh[p] # {}
       /\ \A g \in fresh[p] : fstate[g] = "live" /\ ftable[g] = cur[p] /\ g \notin todo[p]
  BY <1>1, <1>4 DEF Mine, Rewrites, Rewriting
<1>11. NothingLost'
  <2>1. Extents(p, cur[p]) \ todo[p] \subseteq Live(cur[p]) \ {f}
    BY <1>2, <1>9 DEF Extents, Live
  <2>2. owed'[cur[p]] \subseteq RowsOf(Live(cur[p]) \ {f})
    BY <1>3, <1>9, <1>10, <2>1 DEF RowsOf
  <2>3. \A t \in Table : owed'[t] \subseteq IF t = ftable[f] THEN RowsOf(Live(t) \ {f}) ELSE RowsOf(Live(t))
    BY <1>3, <1>4, <1>5, <2>2 DEF NothingLost
  <2> QED
    BY <1>1, <1>2, <1>3, <1>5, <2>3, LeavingLosesNothing
<1>12. (Extents(p, cur[p]) \ todo[p])' = Extents(p, cur[p]) \ todo[p]
  BY <1>2, <1>3, <1>6 DEF Extents
<1>13. \A t \in Table \ {cur[p]} : Extents(p, t)' = Extents(p, t)
  BY <1>3, <1>5, <1>6 DEF Extents
<1>14. Covers(p)'
  <2>1. RowsOf(Extents(p, cur[p]) \ todo[p]) \subseteq RowsOf(Extents(p, cur[p]))'
    BY <1>2, <1>3, <1>6 DEF Extents, RowsOf
  <2>2. \A t \in Table \ {cur[p]} : basis[p][t] \subseteq RowsOf(Extents(p, t))'
    BY <1>1, <1>3, <1>4, <1>13 DEF Mine, Covers, Past, RowsOf
  <2> QED
    BY <1>3, <1>10, <2>1, <2>2 DEF Covers
<1>15. Rewrites(p)' /\ Removes(p)'
  <2>1. RowsOf(Extents(p, cur[p]) \ todo[p])' = RowsOf(Extents(p, cur[p]) \ todo[p])
    BY <1>3, <1>12 DEF RowsOf
  <2>2. \A g \in fresh[p] : g \in File /\ fstate'[g] = "live"
    BY <1>2, <1>7, <1>10 DEF TypeOK
  <2>3. \A g \in todo[p] : ftable[g] = cur[p]
    BY <1>1, <1>4 DEF Mine, Removes
  <2>4. Rewrites(p)'
    BY <1>1, <1>3, <1>6, <1>10, <2>1, <2>2 DEF Rewrites
  <2>5. Removes(p)'
    BY <1>1, <1>3, <1>6, <2>3 DEF Removes
  <2> QED
    BY <2>4, <2>5
<1>16. ReadsOnly(p)' /\ Known(p)' /\ HasAll(p)' /\ Counts(p)'
  <2>1. Known(p)'
    BY <1>3, <1>4, <1>6, <1>8 DEF Mine, Known, FilesStay, TypeOK
  <2>2. HasAll(p)'
    BY <1>3, <1>6, <1>7, <1>9 DEF HasAll
  <2> QED
    BY <1>1, <1>3, <2>1, <2>2 DEF ReadsOnly, Counts, Past
<1> QED
  BY <1>1, <1>8, <1>11, <1>14, <1>15, <1>16, StepKeeps DEF Mine

LEMMA SupersedeFailsKeeps ==
  ASSUME TypeOK, LockInv, ScriptInv, DataInv, NEW p \in Proc, SupersedeFails(p)
  PROVE  DataInv'
<1>1. pc[p] = "supersede" /\ lock[p] = "exclusive"
  BY RewritersAlone DEF SupersedeFails, At, Rewriting
<1>2. todo'[p] \subseteq todo[p] /\ \A q \in Proc \ {p} : todo'[q] = todo[q]
  BY DEF SupersedeFails, TypeOK
<1>3. UNCHANGED <<fstate, ftable, frows, lock, pc, script, cur, tabs, cat, rest, gone, fresh, seen, owed, basis>>
  BY DEF SupersedeFails, disk, catalog
<1>4. Mine(p) /\ NothingLost
  BY DEF DataInv
<1>5. LiveStays /\ OthersRest(p)
  BY <1>2, <1>3 DEF LiveStays, OthersRest
<1>6. NothingLost' /\ FilesStay /\ \A t \in Table : owed'[t] \cap RowsOf(File) \subseteq owed[t]
  BY <1>3, <1>4, <1>5, NothingLostStays
<1>7. \A t : Extents(p, t)' = Extents(p, t) /\ RowsOf(Extents(p, t))' = RowsOf(Extents(p, t))
  BY <1>3 DEF Extents, RowsOf
<1>8. RowsOf(Extents(p, cur[p]) \ todo[p]) \subseteq RowsOf(Extents(p, cur[p]) \ todo[p])'
  BY <1>2, <1>3 DEF Extents, RowsOf
<1>9. Rewrites(p)' /\ Removes(p)'
  BY <1>1, <1>2, <1>3, <1>4, <1>8 DEF Mine, Rewrites, Removes, Rewriting
<1>10. ReadsOnly(p)' /\ Known(p)' /\ Covers(p)' /\ HasAll(p)' /\ Counts(p)'
  <2>1. Known(p)'
    BY <1>2, <1>3, <1>4 DEF Mine, Known
  <2>2. Covers(p)' /\ HasAll(p)'
    BY <1>3, <1>4, <1>7 DEF Mine, Covers, HasAll, Past
  <2> QED
    BY <1>1, <1>3, <2>1, <2>2 DEF ReadsOnly, Counts, Past
<1> QED
  BY <1>3, <1>4, <1>5, <1>6, <1>9, <1>10, StepKeeps DEF Mine

\* A drop: the rows in the files listed are not owed, nor counted on, any more.
LEMMA BeginDropKeeps ==
  ASSUME TypeOK, LockInv, ScriptInv, DataInv, NoLongerNames, NEW p \in Proc, BeginDrop(p)
  PROVE  DataInv'
<1>1. PICK t \in tabs[p] :
        /\ \E k \in {"drop", "recreate"} : Begins(p, t, k)
        /\ todo' = [todo EXCEPT ![p] = GlobLive(t) \cup GlobSuperseded(t)]
        /\ cat' = [cat EXCEPT ![p] = @ \ Extents(p, t)]
        /\ owed' = [owed EXCEPT ![t] = @ \ RowsOf(Live(t))]
        /\ basis' = [basis EXCEPT ![p][t] = {}]
  BY DEF BeginDrop
<1>2. pc[p] = "run" /\ cur' = [cur EXCEPT ![p] = t] /\ lock[p] # "none"
  BY <1>1, BeginsLocked DEF Begins, At
<1>3. t \in Table /\ GlobLive(t) = Live(t) /\ GlobSuperseded(t) = {f \in File : fstate[f] = "superseded" /\ ftable[f] = t}
  BY <1>1, GlobsAreExact DEF TypeOK
<1>4. UNCHANGED <<fstate, ftable, frows, lock, script, rest, gone, fresh, seen, errs, torn>>
  BY DEF BeginDrop, disk
<1>5. pc'[p] = "move" /\ \A q \in Proc \ {p} : pc'[q] = pc[q]
  BY DEF BeginDrop, Goto, TypeOK
<1>6. cur'[p] = t /\ \A q \in Proc \ {p} : cur'[q] = cur[q]
  BY <1>2 DEF TypeOK
<1>7. /\ todo'[p] \in SUBSET File /\ \A f \in todo'[p] : fstate[f] # "none" /\ ftable[f] = t
      /\ \A q \in Proc \ {p} : todo'[q] = todo[q]
  <2>1. todo'[p] = GlobLive(t) \cup GlobSuperseded(t) /\ \A q \in Proc \ {p} : todo'[q] = todo[q]
    BY <1>1 DEF TypeOK
  <2> QED
    BY <1>3, <2>1 DEF Live
<1>8. cat'[p] = cat[p] \ Extents(p, t) /\ \A q \in Proc \ {p} : cat'[q] = cat[q]
  BY <1>1 DEF TypeOK
<1>9. owed'[t] = owed[t] \ RowsOf(Live(t)) /\ \A u \in Table \ {t} : owed'[u] = owed[u]
  BY <1>1, <1>3 DEF TypeOK
<1>10. /\ basis'[p] = [basis[p] EXCEPT ![t] = {}] /\ \A q \in Proc \ {p} : basis'[q] = basis[q]
       /\ basis'[p][t] = {} /\ \A u \in Table \ {t} : basis'[p][u] = basis[p][u]
  BY <1>1, <1>3 DEF TypeOK
<1>11. Mine(p) /\ NothingLost
  BY DEF DataInv
<1>12. FilesStay /\ OthersRest(p)
  BY <1>4, <1>5, <1>6, <1>7, <1>8, <1>10 DEF FilesStay, OthersRest
<1>13. owed'[t] = {} /\ NothingLost'
  <2>1. owed'[t] = {}
    BY <1>3, <1>9, <1>11 DEF NothingLost
  <2> QED
    BY <1>4, <1>9, <1>11, <2>1 DEF NothingLost, Live, RowsOf
<1>14. Extents(p, t)' = {} /\ \A u \in Table \ {t} : Extents(p, u)' = Extents(p, u)
  BY <1>4, <1>8 DEF Extents
<1>15. Covers(p)'
  BY <1>2, <1>4, <1>10, <1>11, <1>14 DEF Mine, Covers, Past, RowsOf
<1>16. HasAll(p)'
  <2> SUFFICES ASSUME lock[p] = "exclusive"
               PROVE  basis'[p] = owed' /\ \A f \in cat'[p] : fstate'[f] = "live"
    BY <1>4 DEF HasAll
  <2>1. basis[p] = owed /\ \A f \in cat[p] : fstate[f] = "live"
    BY <1>2, <1>11 DEF Mine, HasAll, Past
  <2>2. owed' = [owed EXCEPT ![t] = {}]
    BY <1>1, <1>9, <1>13
  <2> QED
    BY <1>4, <1>8, <1>10, <2>1, <2>2
<1>17. ReadsOnly(p)' /\ Known(p)' /\ Rewrites(p)' /\ Removes(p)' /\ Counts(p)'
  <2>1. Known(p)'
    BY <1>4, <1>7, <1>8, <1>11 DEF Mine, Known
  <2> QED
    BY <1>2, <1>4, <1>5, <1>6, <1>7, <1>13, <1>14, <2>1 DEF ReadsOnly, Rewrites, Removes, Counts, Rewriting, Past
<1>18. \A u \in Table : owed'[u] \cap RowsOf(File) \subseteq owed[u]
  BY <1>9
<1> QED
  BY <1>2, <1>12, <1>13, <1>15, <1>16, <1>17, <1>18, StepKeeps DEF Mine

\* A file moved held nothing that is owed.
LEMMA MoveFileKeeps ==
  ASSUME TypeOK, LockInv, ScriptInv, DataInv, NEW p \in Proc, MoveFile(p)
  PROVE  DataInv'
<1>1. pc[p] = "move" /\ cur[p] \in Table
  BY DEF MoveFile, At, ScriptInv
<1>2. PICK f \in todo[p] : fstate' = [fstate EXCEPT ![f] = "archived"] /\ todo' = [todo EXCEPT ![p] = @ \ {f}]
  BY DEF MoveFile
<1>3. UNCHANGED <<ftable, frows, lock, pc, script, cur, tabs, cat, rest, gone, fresh, seen, errs, owed, torn, basis>>
  BY DEF MoveFile, catalog, ghost
<1>4. Mine(p) /\ NothingLost
  BY DEF DataInv
<1>5. lock[p] # "none"
  BY <1>1, <1>4, WritersLock DEF Mine, Writing
<1>6. /\ f \in File /\ ftable[f] = cur[p] /\ owed[cur[p]] \cap RowsOf(todo[p]) = {} /\ Extents(p, cur[p]) = {}
      /\ \A g \in todo[p] : ftable[g] = cur[p]
  BY <1>1, <1>2, <1>4 DEF Mine, Removes, TypeOK
<1>7. todo'[p] = todo[p] \ {f} /\ \A q \in Proc \ {p} : todo'[q] = todo[q]
  BY <1>2 DEF TypeOK
<1>8. fstate'[f] = "archived" /\ \A g \in File \ {f} : fstate'[g] = fstate[g]
  BY <1>2, <1>6 DEF TypeOK
<1>9. FilesStay /\ OthersRest(p)
  BY <1>3, <1>7, <1>8 DEF FilesStay, OthersRest
<1>10. NothingLost'
  <2>1. owed[cur[p]] \subseteq RowsOf(Live(cur[p])) /\ owed[cur[p]] \cap frows[f] = {}
    BY <1>1, <1>2, <1>4, <1>6 DEF NothingLost, RowsOf
  <2>2. owed[cur[p]] \subseteq RowsOf(Live(cur[p]) \ {f})
    BY <2>1 DEF RowsOf
  <2>3. \A t \in Table : owed'[t] \subseteq IF t = ftable[f] THEN RowsOf(Live(t) \ {f}) ELSE RowsOf(Live(t))
    BY <1>3, <1>4, <1>6, <2>2 DEF NothingLost
  <2> QED
    BY <1>1, <1>2, <1>3, <1>6, <2>3, LeavingLosesNothing
<1>11. \A t : Extents(p, t)' = Extents(p, t) /\ RowsOf(Extents(p, t))' = RowsOf(Extents(p, t))
  BY <1>3 DEF Extents, RowsOf
<1>12. f \notin cat[p]
  BY <1>6 DEF Extents
<1>13. Covers(p)' /\ HasAll(p)'
  BY <1>3, <1>4, <1>8, <1>11, <1>12 DEF Mine, Covers, HasAll, Past, TypeOK
<1>14. Known(p)'
  BY <1>3, <1>4, <1>7, <1>9 DEF Mine, Known, FilesStay, TypeOK
<1>15. Removes(p)'
  <2>1. RowsOf(todo[p])' \subseteq RowsOf(todo[p])
    BY <1>3, <1>7 DEF RowsOf
  <2> QED
    BY <1>1, <1>3, <1>6, <1>7, <1>11, <2>1 DEF Removes
<1>16. ReadsOnly(p)' /\ Rewrites(p)' /\ Counts(p)'
  BY <1>1, <1>3, <1>5 DEF ReadsOnly, Rewrites, Counts, Rewriting, Past
<1>17. \A t \in Table : owed'[t] \cap RowsOf(File) \subseteq owed[t]
  BY <1>3
<1> QED
  BY <1>5, <1>9, <1>10, <1>13, <1>14, <1>15, <1>16, <1>17, StepKeeps DEF Mine

LEMMA MoveMissingKeeps ==
  ASSUME TypeOK, LockInv, ScriptInv, DataInv, NEW p \in Proc, MoveMissing(p)
  PROVE  DataInv'
<1>1. pc[p] = "move"
  BY DEF MoveMissing, At
<1>2. todo'[p] \subseteq todo[p] /\ \A q \in Proc \ {p} : todo'[q] = todo[q]
  BY DEF MoveMissing, TypeOK
<1>3. UNCHANGED <<fstate, ftable, frows, lock, pc, script, cur, tabs, cat, rest, gone, fresh, seen, owed, basis>>
  BY DEF MoveMissing, disk, catalog, ghost
<1>4. Mine(p) /\ NothingLost
  BY DEF DataInv
<1>5. LiveStays /\ OthersRest(p)
  BY <1>2, <1>3 DEF LiveStays, OthersRest
<1>6. NothingLost' /\ FilesStay /\ \A t \in Table : owed'[t] \cap RowsOf(File) \subseteq owed[t]
  BY <1>3, <1>4, <1>5, NothingLostStays
<1>7. \A t : Extents(p, t)' = Extents(p, t) /\ RowsOf(Extents(p, t))' = RowsOf(Extents(p, t))
  BY <1>3 DEF Extents, RowsOf
<1>8. Covers(p)' /\ HasAll(p)'
  BY <1>3, <1>4, <1>7 DEF Mine, Covers, HasAll, Past
<1>9. Known(p)'
  BY <1>2, <1>3, <1>4 DEF Mine, Known
<1>10. Removes(p)'
  <2>1. RowsOf(todo[p])' \subseteq RowsOf(todo[p])
    BY <1>2, <1>3 DEF RowsOf
  <2> QED
    BY <1>1, <1>2, <1>3, <1>4, <1>7, <2>1 DEF Mine, Removes
<1>11. ReadsOnly(p)' /\ Rewrites(p)' /\ Counts(p)'
  BY <1>1, <1>3, <1>4 DEF Mine, ReadsOnly, InStatement, Rewrites, Counts, Rewriting, Past
<1> QED
  BY <1>3, <1>4, <1>5, <1>6, <1>8, <1>9, <1>10, <1>11, StepKeeps DEF Mine

LEMMA DropExtentKeeps ==
  ASSUME TypeOK, LockInv, ScriptInv, DataInv, NEW p \in Proc, DropExtent(p)
  PROVE  DataInv'
<1>0. PICK t \in tabs[p] : \E f \in Extents(p, t) :
        /\ Begins(p, t, "dropExtent")
        /\ cat' = [cat EXCEPT ![p] = @ \ {f}]
        /\ fstate' = [fstate EXCEPT ![f] = IF @ = "live" THEN "deleted" ELSE @]
        /\ owed' = [owed EXCEPT ![t] = @ \ frows[f]]
        /\ basis' = [basis EXCEPT ![p][t] = @ \ frows[f]]
  BY DEF DropExtent
<1>1. PICK f \in Extents(p, t) :
        /\ Begins(p, t, "dropExtent")
        /\ cat' = [cat EXCEPT ![p] = @ \ {f}]
        /\ fstate' = [fstate EXCEPT ![f] = IF @ = "live" THEN "deleted" ELSE @]
        /\ owed' = [owed EXCEPT ![t] = @ \ frows[f]]
        /\ basis' = [basis EXCEPT ![p][t] = @ \ frows[f]]
  BY <1>0
<1>2. pc[p] = "run" /\ cur' = [cur EXCEPT ![p] = t] /\ lock[p] # "none"
  BY <1>1, BeginsLocked DEF Begins, At
<1>3. t \in Table /\ f \in File /\ f \in cat[p] /\ ftable[f] = t
  BY <1>1 DEF TypeOK, Extents
<1>4. UNCHANGED <<ftable, frows, lock, script, tabs, todo, rest, gone, fresh, seen, errs, torn>>
  BY DEF DropExtent, work
<1>5. pc'[p] = "end" /\ \A q \in Proc \ {p} : pc'[q] = pc[q]
  BY DEF DropExtent, Goto, TypeOK
<1>6. \A q \in Proc \ {p} : cur'[q] = cur[q]
  BY <1>2 DEF TypeOK
<1>7. cat'[p] = cat[p] \ {f} /\ \A q \in Proc \ {p} : cat'[q] = cat[q]
  BY <1>1 DEF TypeOK
<1>8. owed'[t] = owed[t] \ frows[f] /\ \A u \in Table \ {t} : owed'[u] = owed[u]
  BY <1>1, <1>3 DEF TypeOK
<1>9. /\ basis'[p] = [basis[p] EXCEPT ![t] = @ \ frows[f]] /\ \A q \in Proc \ {p} : basis'[q] = basis[q]
      /\ basis'[p][t] = basis[p][t] \ frows[f] /\ \A u \in Table \ {t} : basis'[p][u] = basis[p][u]
  BY <1>1, <1>3 DEF TypeOK
<1>10. /\ fstate'[f] = IF fstate[f] = "live" THEN "deleted" ELSE fstate[f]
       /\ \A g \in File \ {f} : fstate'[g] = fstate[g]
  BY <1>1, <1>3 DEF TypeOK
<1>11. Mine(p) /\ NothingLost
  BY DEF DataInv
<1>12. FilesStay /\ OthersRest(p)
  BY <1>4, <1>5, <1>6, <1>7, <1>9, <1>10 DEF FilesStay, OthersRest
<1>13. NothingLost'
  <2>1. Live(t) \ {f} \subseteq Live(t)' /\ \A u \in Table \ {t} : Live(u) \subseteq Live(u)'
    BY <1>3, <1>4, <1>10 DEF Live
  <2>2. owed'[t] \subseteq RowsOf(Live(t) \ {f})
    BY <1>3, <1>8, <1>11 DEF NothingLost, RowsOf
  <2>3. owed'[t] \subseteq RowsOf(Live(t))'
    BY <1>4, <2>1, <2>2 DEF RowsOf
  <2>4. \A u \in Table \ {t} : owed'[u] \subseteq RowsOf(Live(u))'
    BY <1>4, <1>8, <1>11, <2>1 DEF NothingLost, RowsOf
  <2> QED
    BY <2>3, <2>4 DEF NothingLost
<1>14. Extents(p, t)' = Extents(p, t) \ {f} /\ \A u \in Table \ {t} : Extents(p, u)' = Extents(p, u)
  BY <1>3, <1>4, <1>7 DEF Extents
<1>15. Covers(p)'
  <2>1. \A u \in Table : basis[p][u] \subseteq RowsOf(Extents(p, u))
    BY <1>2, <1>11 DEF Mine, Covers, Past
  <2>2. basis'[p][t] \subseteq RowsOf(Extents(p, t))'
    BY <1>3, <1>4, <1>9, <1>14, <2>1 DEF RowsOf
  <2>3. \A u \in Table \ {t} : basis'[p][u] \subseteq RowsOf(Extents(p, u))'
    BY <1>4, <1>9, <1>14, <2>1 DEF RowsOf
  <2> QED
    BY <2>2, <2>3 DEF Covers
<1>16. HasAll(p)'
  <2> SUFFICES ASSUME lock[p] = "exclusive"
               PROVE  basis'[p] = owed' /\ \A g \in cat'[p] : fstate'[g] = "live"
    BY <1>4 DEF HasAll
  <2>1. basis[p] = owed /\ \A g \in cat[p] : g \in File /\ fstate[g] = "live"
    BY <1>2, <1>11 DEF Mine, HasAll, Past, TypeOK
  <2>2. basis'[p] = owed'
    BY <1>1, <1>9, <2>1
  <2> QED
    BY <1>7, <1>10, <2>1, <2>2
<1>17. ReadsOnly(p)' /\ Known(p)' /\ Rewrites(p)' /\ Removes(p)' /\ Counts(p)'
  <2>1. Known(p)'
    BY <1>4, <1>7, <1>11, <1>12 DEF Mine, Known, FilesStay, TypeOK
  <2> QED
    BY <1>2, <1>4, <1>5, <2>1 DEF ReadsOnly, Rewrites, Removes, Counts, Rewriting, Past, Writing
<1>18. \A u \in Table : owed'[u] \cap RowsOf(File) \subseteq owed[u]
  BY <1>8
<1> QED
  BY <1>2, <1>12, <1>13, <1>15, <1>16, <1>17, <1>18, StepKeeps DEF Mine

-----------------------------------------------------------------------------
(* The theorems about data.                                                *)

LEMMA DataStep ==
  ASSUME TypeOK, LockInv, ScriptInv, DataInv, NoLongerNames, [Next]_vars
  PROVE  DataInv'
<1>1. ASSUME NEW p \in Proc, Submit(p) \/ Statement(p) \/ RefreshFails(p) \/ Crash(p)
      PROVE  DataInv'
  <2>1. ASSUME AbortStatement(p) \/ RefreshFails(p) \/ Crash(p)
        PROVE  DataInv'
    BY <2>1, ReleaseKeeps DEF AbortStatement, RefreshFails, Crash
  <2> QED
    BY <1>1, <2>1, SubmitKeeps, AcquireKeeps, RefreshKeeps, NameTablesKeeps, EndCommandKeeps, PlainSteps,
       AnswerFromCatalogKeeps, BeginQueryKeeps, ScanExtentKeeps, CreateTableKeeps, AppendRowsKeeps,
       BeginReplaceKeeps, BeginCompactKeeps, BeginDeleteKeeps, WriteExtentKeeps, SupersedeKeeps,
       SupersedeFailsKeeps, BeginDropKeeps, MoveFileKeeps, MoveMissingKeeps, DropExtentKeeps DEF Statement
<1>2. CASE UNCHANGED vars
  BY <1>2 DEF vars, disk, catalog, work, ghost, DataInv, NothingLost, Mine, ReadsOnly, InStatement, Known, Covers,
     HasAll, Rewrites, Removes, Counts, Rewriting, Past, Extents, Live, RowsOf
<1> QED
  BY <1>1, <1>2 DEF Next

LEMMA InitData ==
  ASSUME Init
  PROVE  DataInv
<1>1. NothingLost
  BY DEF Init, NothingLost
<1>2. ASSUME NEW p \in Proc
      PROVE  Mine(p)
  BY DEF Init, Mine, ReadsOnly, InStatement, Known, Covers, HasAll, Rewrites, Removes, Counts, Rewriting, Past
<1> QED
  BY <1>1, <1>2 DEF DataInv

LEMMA DataInductive == NoLongerNames /\ Spec => [](TypeOK /\ LockInv /\ ScriptInv /\ DataInv)
<1>1. Init => DataInv
  BY InitData
<1>2. NoLongerNames /\ TypeOK /\ LockInv /\ ScriptInv /\ DataInv /\ [Next]_vars => DataInv'
  BY DataStep
<1>3. RewritesAlone => LockInv /\ ScriptInv
  BY DEF RewritesAlone
<1>4. NoLongerNames => []NoLongerNames
  <2>1. NoLongerNames => NoLongerNames'
    BY DEF NoLongerNames
  <2> QED
    BY <2>1, PTL
<1> QED
  BY <1>1, <1>2, <1>3, <1>4, SharedState, PTL DEF Spec

\* A committed row that no command took out is in a live extent of its table, for any
\* scripts, processes, deaths and failures, when no table's name begins another's: a
\* rewrite writes before it supersedes, and a drop takes the files it listed.
THEOREM NoRowIsLost == NoLongerNames /\ Spec => []NothingLost
<1>1. DataInv => NothingLost
  BY DEF DataInv
<1> QED
  BY <1>1, DataInductive, PTL

\* A query that answers has every row there was when its statement refreshed, and what
\* its script committed since, with the lock or, for another database, without.
THEOREM AnswersAreComplete == NoLongerNames /\ Spec => []CompleteAnswer
<1>1. TypeOK /\ ScriptInv /\ DataInv => CompleteAnswer
  <2> SUFFICES ASSUME TypeOK, ScriptInv, DataInv, NEW p \in Proc, pc[p] = "answered"
               PROVE  basis[p][cur[p]] \subseteq RowsOf(seen[p])
    BY DEF CompleteAnswer, At
  <2>1. cur[p] \in Table
    BY DEF ScriptInv
  <2> QED
    BY <2>1 DEF DataInv, Mine, Covers, Counts, Past
<1> QED
  BY <1>1, DataInductive, PTL

-----------------------------------------------------------------------------
(* A table is forgotten by drops only.                                     *)

LEMMA CommitForgetsNothing ==
  ASSUME TypeOK, NEW f, NEW u, NEW R, Commit(f, u, R)
  PROVE  \A t \in Table : Live(t) # {} => Live(t)' # {}
<1>1. \A g \in File : fstate[g] = "live" => fstate'[g] = "live" /\ ftable'[g] = ftable[g]
  BY DEF Commit, TypeOK
<1> QED
  BY <1>1 DEF Live

\* Most steps leave every live file where it is.
LEMMA MostForgetNothing ==
  ASSUME TypeOK, NEW p \in Proc, Submit(p) \/ Statement(p) \/ RefreshFails(p) \/ Crash(p),
         ~Supersede(p), ~MoveFile(p), ~DropExtent(p)
  PROVE  \A t \in Table : Live(t) # {} => Live(t)' # {}
<1>1. CASE UNCHANGED disk
  BY <1>1 DEF disk, Live
<1>2. CASE CreateTable(p) \/ AppendRows(p) \/ WriteExtent(p)
  BY <1>2, CommitForgetsNothing DEF CreateTable, AppendRows, WriteExtent
<1>3. CASE Collect(p)
  <2>1. PICK f \in todo[p] : fstate[f] = "superseded" /\ fstate' = [fstate EXCEPT ![f] = "collected"]
    BY <1>3 DEF Collect
  <2>2. ftable' = ftable
    BY <1>3 DEF Collect
  <2> QED
    BY <2>1, <2>2 DEF Live, TypeOK
<1>4. CASE Submit(p) \/ Acquire(p) \/ Refresh(p) \/ RefreshFails(p) \/ NameTables(p) \/ Refuse(p) \/ EndCommand(p)
           \/ AbortStatement(p) \/ AnswerFromCatalog(p) \/ BeginQuery(p) \/ ScanExtent(p) \/ ScanMissing(p)
           \/ BeginAppend(p) \/ WriteNothing(p) \/ Crash(p)
  BY <1>1, <1>4 DEF Submit, Acquire, Refresh, RefreshFails, NameTables, Refuse, EndCommand, AbortStatement,
     AnswerFromCatalog, BeginQuery, ScanExtent, ScanMissing, BeginAppend, WriteNothing, Crash
<1>5. CASE BeginReplace(p) \/ BeginCompact(p) \/ CompactNothing(p) \/ BeginDelete(p) \/ DeleteNothing(p)
           \/ WriteFails(p) \/ SupersedeFails(p) \/ FinishRewrite(p) \/ BeginDrop(p) \/ MoveMissing(p)
           \/ FinishDrop(p) \/ BeginGC(p) \/ CollectMissing(p) \/ FinishGC(p)
  BY <1>1, <1>5 DEF BeginReplace, BeginCompact, CompactNothing, BeginDelete, DeleteNothing, StartRewrite,
     WriteFails, SupersedeFails, FinishRewrite, BeginDrop, MoveMissing, FinishDrop, BeginGC, CollectMissing, FinishGC
<1> QED
  BY <1>2, <1>3, <1>4, <1>5 DEF Statement

\* A rewrite has a new file in place before the first old one goes.
LEMMA SupersedeForgetsNothing ==
  ASSUME TypeOK, DataInv, NEW p \in Proc, Supersede(p)
  PROVE  \A t \in Table : Live(t) # {} => Live(t)' # {}
<1>1. pc[p] = "supersede" /\ ftable' = ftable /\ cur' = cur
  BY DEF Supersede, At
<1>2. PICK f \in todo[p] : fstate' = [fstate EXCEPT ![f] = "superseded"]
  BY DEF Supersede
<1>3. Rewrites(p) /\ Removes(p)
  BY DEF DataInv, Mine
<1>4. PICK g \in fresh[p] : fstate[g] = "live" /\ ftable[g] = cur[p] /\ g \notin todo[p]
  BY <1>1, <1>3 DEF Rewrites, Rewriting
<1>5. f \in File /\ g \in File /\ ftable[f] = cur[p]
  BY <1>1, <1>2, <1>3, <1>4 DEF TypeOK, Removes
<1>6. \A h \in File \ {f} : fstate'[h] = fstate[h]
  BY <1>2, <1>5 DEF TypeOK
<1>7. g \in Live(cur[p])'
  BY <1>1, <1>2, <1>4, <1>5, <1>6 DEF Live
<1>8. \A t \in Table \ {cur[p]} : Live(t)' = Live(t)
  <2>1. fstate'[f] = "superseded"
    BY <1>2, <1>5 DEF TypeOK
  <2> QED
    BY <1>1, <1>5, <1>6, <2>1 DEF Live
<1> QED
  BY <1>1, <1>7, <1>8

LEMMA ForgetStep ==
  ASSUME TypeOK, DataInv, NEW p \in Proc, Submit(p) \/ Statement(p) \/ RefreshFails(p) \/ Crash(p),
         NEW t \in Table, Live(t) # {}, Live(t)' = {}
  PROVE  \/ At(p, "move") /\ cur[p] = t /\ todo'[p] # todo[p]
         \/ At(p, "run") /\ cur'[p] = t /\ Cmd(p).kind = "dropExtent"
<1>1. CASE MoveFile(p)
  <2>1. pc[p] = "move" /\ ftable' = ftable
    BY <1>1 DEF MoveFile, At
  <2>2. PICK f \in todo[p] : fstate' = [fstate EXCEPT ![f] = "archived"] /\ todo' = [todo EXCEPT ![p] = @ \ {f}]
    BY <1>1 DEF MoveFile
  <2>3. f \in File /\ ftable[f] = cur[p]
    BY <2>1, <2>2 DEF DataInv, Mine, Removes, TypeOK
  <2>4. ftable[f] = t
    BY <2>1, <2>2, <2>3 DEF Live, TypeOK
  <2>5. todo'[p] # todo[p]
    BY <2>2 DEF TypeOK
  <2> QED
    BY <2>1, <2>3, <2>4, <2>5 DEF At
<1>2. CASE DropExtent(p)
  <2>1. PICK u \in tabs[p] : \E f \in Extents(p, u) :
          Begins(p, u, "dropExtent") /\ fstate' = [fstate EXCEPT ![f] = IF @ = "live" THEN "deleted" ELSE @]
    BY <1>2 DEF DropExtent
  <2>2. PICK f \in Extents(p, u) :
          Begins(p, u, "dropExtent") /\ fstate' = [fstate EXCEPT ![f] = IF @ = "live" THEN "deleted" ELSE @]
    BY <2>1
  <2>3. f \in File /\ ftable[f] = u /\ u \in Table /\ ftable' = ftable
    BY <1>2, <2>1, <2>2 DEF Extents, TypeOK, DropExtent
  <2>4. u = t
    BY <2>2, <2>3 DEF Live, TypeOK
  <2>5. cur'[p] = u
    BY <2>2, <2>3 DEF Begins, TypeOK
  <2> QED
    BY <2>2, <2>4, <2>5 DEF Begins, At
<1> QED
  BY <1>1, <1>2, MostForgetNothing, SupersedeForgetsNothing

\* A table stops being discoverable only by a drop: a rewrite, a death or a failed call
\* never leaves it without a file.
THEOREM OnlyDropsForget == NoLongerNames /\ Spec => OnlyDropForgets
<1> DEFINE Forgets == \A t \in Table : Live(t) # {} /\ Live(t)' = {} =>
                        \E p \in Proc :
                          \/ At(p, "move") /\ cur[p] = t /\ todo'[p] # todo[p]
                          \/ At(p, "run") /\ cur'[p] = t /\ Cmd(p).kind = "dropExtent"
<1>1. TypeOK /\ DataInv /\ [Next]_vars => [Forgets]_vars
  <2>1. TypeOK /\ DataInv /\ Next => Forgets
    BY ForgetStep DEF Next
  <2> QED
    BY <2>1
<1> HIDE DEF Forgets
<1>2. [][Forgets]_vars => OnlyDropForgets
  BY DEF OnlyDropForgets, Forgets
<1> QED
  BY <1>1, <1>2, DataInductive, PTL DEF Spec

-----------------------------------------------------------------------------
(* No row twice: what the statements not taking the step have.             *)

LEMMA OthersOnce ==
  ASSUME TypeOK, LockInv, DataInv, OnceInv, NEW p \in Proc, NEW q \in Proc, q # p, OthersRest(p), FilesStay,
         torn \subseteq torn', LiveStays \/ lock[p] # "none"
  PROVE  CatalogOnce(q)' /\ RewritesOnce(q)'
<1>1. /\ lock'[q] = lock[q] /\ pc'[q] = pc[q] /\ cur'[q] = cur[q] /\ cat'[q] = cat[q]
      /\ todo'[q] = todo[q] /\ rest'[q] = rest[q] /\ fresh'[q] = fresh[q]
  BY DEF OthersRest
<1>2. Known(q) /\ CatalogOnce(q) /\ RewritesOnce(q)
  BY DEF DataInv, Mine, OnceInv
<1>3. \A f \in cat[q] : frows'[f] = frows[f]
  BY <1>2 DEF Known, TypeOK, FilesStay
<1>4. \A t : Extents(q, t)' = Extents(q, t) /\ Extents(q, t) \subseteq cat[q]
  BY <1>1, <1>2, ExtentsStay DEF Extents
<1>5. CatalogOnce(q)'
  BY <1>1, <1>2, <1>3, <1>4 DEF CatalogOnce, NoRowTwice, Locked, Past, Rewriting
<1>6. RewritesOnce(q)'
  <2> SUFFICES ASSUME Rewriting(q), cur[q] \notin torn
               PROVE  RewritesOnce(q)'
    BY <1>1 DEF RewritesOnce, Rewriting
  <2>1. lock[q] = "exclusive"
    BY RewritersAlone
  <2>2. LiveStays
    BY <2>1 DEF LockInv
  <2>3. frows' = frows /\ \A t : Live(t)' = Live(t)
    BY <2>2 DEF LiveStays, Live
  <2>4. /\ Live(cur[q])' = Live(cur[q]) /\ (Live(cur[q]) \ todo[q])' = Live(cur[q]) \ todo[q]
        /\ RowsOf(Live(cur[q]) \ todo[q])' = RowsOf(Live(cur[q]) \ todo[q])
    BY <1>1, <2>3 DEF Live, RowsOf
  <2> QED
    BY <1>1, <1>2, <2>3, <2>4 DEF RewritesOnce, NoRowTwice, Rewriting
<1> QED
  BY <1>5, <1>6

LEMMA StepOnce ==
  ASSUME TypeOK, LockInv, DataInv, OnceInv, NEW p \in Proc, OthersRest(p), FilesStay,
         torn \subseteq torn', LiveStays \/ lock[p] # "none",
         DiskOnce', CatalogOnce(p)', RewritesOnce(p)'
  PROVE  OnceInv'
BY OthersOnce DEF OnceInv

\* Tables nobody rewrites, before or after, and that no file comes to.
LEMMA DiskStaysOnce ==
  ASSUME DiskOnce, NEW p \in Proc, OthersRest(p), torn \subseteq torn', ~Rewriting(p),
         \A t \in Table : \A f \in Live(t)' : f \in Live(t) /\ frows'[f] = frows[f]
  PROVE  DiskOnce'
<1> SUFFICES ASSUME NEW t \in Table \ torn', \A q \in Proc : Rewriting(q)' => cur'[q] # t
             PROVE  NoRowTwice(Live(t))'
  BY DEF DiskOnce
<1>1. \A q \in Proc : Rewriting(q) => cur[q] # t
  BY DEF OthersRest, Rewriting
<1>2. NoRowTwice(Live(t))
  BY <1>1 DEF DiskOnce
<1> QED
  BY <1>2 DEF NoRowTwice

\* A step of a statement that does not rewrite and learns of no extent.
LEMMA PlainOnce ==
  ASSUME TypeOK, LockInv, DataInv, OnceInv, NEW p \in Proc, OthersRest(p), LiveStays, torn' = torn,
         ~Rewriting(p), ~Rewriting(p)',
         Past(p)' => Past(p) /\ lock'[p] = lock[p] /\ cat'[p] \subseteq cat[p]
  PROVE  OnceInv'
<1>1. frows' = frows /\ ftable' = ftable /\ \A t : Live(t)' = Live(t)
  BY DEF LiveStays, Live
<1>2. FilesStay /\ DiskOnce'
  BY <1>1, DiskStaysOnce DEF OnceInv, FilesStay, LiveStays
<1>3. CatalogOnce(p)'
  BY <1>1 DEF OnceInv, CatalogOnce, NoRowTwice, Extents, Locked
<1>4. RewritesOnce(p)'
  BY DEF RewritesOnce
<1> QED
  BY <1>2, <1>3, <1>4, StepOnce

LEMMA ReleaseOnce ==
  ASSUME TypeOK, LockInv, DataInv, OnceInv, NEW p \in Proc, Release(p), UNCHANGED <<disk, torn>>, ~Rewriting(p)
  PROVE  OnceInv'
<1>1. OthersRest(p) /\ pc'[p] = "idle"
  BY DEF OthersRest, Release, TypeOK
<1> QED
  BY <1>1, PlainOnce DEF LiveStays, disk, Rewriting, Past

\* A step of queries, or around commands: files and catalogs stay.
Quiet(p) ==
  /\ OthersRest(p) /\ LiveStays /\ UNCHANGED <<lock, cat, script, torn>>
  /\ Past(p) /\ pc[p] \notin {"write", "supersede"} /\ (pc[p] = "move" => todo[p] = {})
  /\ pc'[p] \in {"scan", "answered", "create", "append", "collect", "end", "failed"}
  /\ pc[p] = "run" \/ cur'[p] = cur[p]

LEMMA QuietSteps ==
  ASSUME TypeOK, NEW p \in Proc,
         \/ Refuse(p) \/ AnswerFromCatalog(p) \/ BeginQuery(p) \/ ScanExtent(p) \/ ScanMissing(p) \/ BeginAppend(p)
         \/ WriteNothing(p) \/ CompactNothing(p) \/ DeleteNothing(p) \/ FinishDrop(p) \/ BeginGC(p) \/ Collect(p)
         \/ CollectMissing(p) \/ FinishGC(p)
  PROVE  Quiet(p)
<1>1. ASSUME Refuse(p) PROVE Quiet(p)
  BY <1>1 DEF Quiet, Refuse, Begins, At, Goto, TypeOK, OthersRest, LiveStays, disk, catalog, work, ghost, Past
<1>2. ASSUME AnswerFromCatalog(p) PROVE Quiet(p)
  BY <1>2 DEF Quiet, AnswerFromCatalog, Begins, At, Goto, TypeOK, OthersRest, LiveStays, disk, catalog, ghost, Past
<1>3. ASSUME BeginQuery(p) PROVE Quiet(p)
  <2>1. PICK t \in tabs[p] : /\ Begins(p, t, "query") /\ todo' = [todo EXCEPT ![p] = Extents(p, t)]
                             /\ Goto(p, IF Extents(p, t) = {} THEN "answered" ELSE "scan")
    BY <1>3 DEF BeginQuery
  <2> QED
    BY <1>3, <2>1 DEF Quiet, BeginQuery, Begins, At, Goto, TypeOK, OthersRest, LiveStays, disk, catalog, ghost, Past
<1>4. ASSUME ScanExtent(p) PROVE Quiet(p)
  BY <1>4 DEF Quiet, ScanExtent, At, Goto, TypeOK, OthersRest, LiveStays, disk, catalog, ghost, Past
<1>5. ASSUME ScanMissing(p) PROVE Quiet(p)
  BY <1>5 DEF Quiet, ScanMissing, At, Goto, TypeOK, OthersRest, LiveStays, disk, catalog, work, ghost, Past
<1>6. ASSUME BeginAppend(p) PROVE Quiet(p)
  <2>1. PICK t \in Table : At(p, "run") /\ cur' = [cur EXCEPT ![p] = t] /\ (Goto(p, "append") \/ Goto(p, "create"))
    BY <1>6 DEF BeginAppend, Begins
  <2>2. /\ \A q \in Proc \ {p} : cur'[q] = cur[q] /\ pc'[q] = pc[q]
        /\ pc[p] = "run" /\ pc'[p] \in {"create", "append"}
    BY <2>1 DEF At, Goto, TypeOK
  <2> QED
    BY <1>6, <2>2 DEF Quiet, BeginAppend, OthersRest, LiveStays, disk, catalog, work, ghost, Past
<1>7. ASSUME WriteNothing(p) PROVE Quiet(p)
  BY <1>7 DEF Quiet, WriteNothing, At, Goto, TypeOK, OthersRest, LiveStays, disk, catalog, work, ghost, Past
<1>8. ASSUME CompactNothing(p) PROVE Quiet(p)
  BY <1>8 DEF Quiet, CompactNothing, Begins, At, Goto, TypeOK, OthersRest, LiveStays, disk, catalog, work, ghost, Past
<1>9. ASSUME DeleteNothing(p) PROVE Quiet(p)
  BY <1>9 DEF Quiet, DeleteNothing, Begins, At, Goto, TypeOK, OthersRest, LiveStays, disk, catalog, work, ghost, Past
<1>10. ASSUME FinishDrop(p) PROVE Quiet(p)
  BY <1>10 DEF Quiet, FinishDrop, At, Goto, TypeOK, OthersRest, LiveStays, disk, catalog, work, ghost, Past
<1>11. ASSUME BeginGC(p) PROVE Quiet(p)
  BY <1>11 DEF Quiet, BeginGC, Begins, At, Goto, TypeOK, OthersRest, LiveStays, disk, catalog, ghost, Past
<1>12. ASSUME Collect(p) PROVE Quiet(p)
  <2>1. PICK f \in todo[p] :
          /\ fstate[f] = "superseded" /\ fstate' = [fstate EXCEPT ![f] = "collected"]
          /\ todo' = [todo EXCEPT ![p] = @ \ {f}]
    BY <1>12 DEF Collect
  <2>2. LiveStays
    BY <1>12, <2>1 DEF LiveStays, Collect, TypeOK
  <2> QED
    BY <1>12, <2>1, <2>2 DEF Quiet, Collect, At, TypeOK, OthersRest, catalog, ghost, Past
<1>13. ASSUME CollectMissing(p) PROVE Quiet(p)
  BY <1>13 DEF Quiet, CollectMissing, At, TypeOK, OthersRest, LiveStays, disk, catalog, ghost, Past
<1>14. ASSUME FinishGC(p) PROVE Quiet(p)
  BY <1>14 DEF Quiet, FinishGC, At, Goto, TypeOK, OthersRest, LiveStays, disk, catalog, work, ghost, Past
<1> QED
  BY <1>1, <1>2, <1>3, <1>4, <1>5, <1>6, <1>7, <1>8, <1>9, <1>10, <1>11, <1>12, <1>13, <1>14

\* The steps that write nothing.
LEMMA PlainStepsOnce ==
  ASSUME TypeOK, LockInv, ScriptInv, DataInv, OnceInv, NEW p \in Proc,
         Quiet(p) \/ Submit(p) \/ Acquire(p) \/ NameTables(p) \/ BeginDrop(p) \/ MoveMissing(p)
  PROVE  OnceInv'
<1> DEFINE Fits ==
      /\ OthersRest(p) /\ LiveStays /\ torn' = torn
      /\ pc[p] \notin {"write", "supersede"} /\ pc'[p] \notin {"write", "supersede"}
      /\ Past(p)' => Past(p) /\ lock'[p] = lock[p] /\ cat'[p] \subseteq cat[p]
<1>1. Fits => OnceInv'
  BY PlainOnce DEF Rewriting
<1> HIDE DEF Fits
<1>2. ASSUME Quiet(p) PROVE Fits
  BY <1>2 DEF Fits, Quiet
<1>3. ASSUME Submit(p) PROVE Fits
  BY <1>3 DEF Fits, Submit, At, Goto, TypeOK, OthersRest, LiveStays, disk, catalog, work, ghost, Past
<1>4. ASSUME Acquire(p) PROVE Fits
  <2>1. \A q \in Proc \ {p} : lock'[q] = lock[q]
    BY <1>4 DEF Acquire, TypeOK
  <2> QED
    BY <1>4, <2>1 DEF Fits, Acquire, At, Goto, TypeOK, OthersRest, LiveStays, disk, catalog, work, ghost, Past
<1>5. ASSUME NameTables(p) PROVE Fits
  <2>1. \A q \in Proc \ {p} : script'[q] = script[q]
    BY <1>5 DEF NameTables, TypeOK
  <2>2. pc'[p] \in {"run", "end"} /\ \A q \in Proc \ {p} : pc'[q] = pc[q]
    BY <1>5 DEF NameTables, Goto, TypeOK
  <2> QED
    BY <1>5, <2>1, <2>2 DEF Fits, NameTables, At, OthersRest, LiveStays, disk, catalog, work, ghost, Past
<1>6. ASSUME BeginDrop(p) PROVE Fits
  <2>1. PICK t \in tabs[p] :
          /\ At(p, "run") /\ cur' = [cur EXCEPT ![p] = t]
          /\ todo' = [todo EXCEPT ![p] = GlobLive(t) \cup GlobSuperseded(t)]
          /\ cat' = [cat EXCEPT ![p] = @ \ Extents(p, t)]
          /\ basis' = [basis EXCEPT ![p][t] = {}]
    BY <1>6 DEF BeginDrop, Begins
  <2>2. /\ \A q \in Proc \ {p} : cur'[q] = cur[q] /\ todo'[q] = todo[q] /\ cat'[q] = cat[q] /\ basis'[q] = basis[q]
        /\ cat'[p] \subseteq cat[p]
    BY <2>1 DEF TypeOK
  <2> QED
    BY <1>6, <2>1, <2>2 DEF Fits, BeginDrop, At, Goto, TypeOK, OthersRest, LiveStays, disk, Past
<1>7. ASSUME MoveMissing(p) PROVE Fits
  BY <1>7 DEF Fits, MoveMissing, At, TypeOK, OthersRest, LiveStays, disk, catalog, ghost, Past
<1> QED
  BY <1>1, <1>2, <1>3, <1>4, <1>5, <1>6, <1>7

LEMMA EndCommandOnce ==
  ASSUME TypeOK, LockInv, ScriptInv, DataInv, OnceInv, NEW p \in Proc, EndCommand(p)
  PROVE  OnceInv'
<1>1. pc[p] \in {"end", "answered", "failed"} /\ NextCommand(p) /\ UNCHANGED <<disk, owed, torn>>
  BY DEF EndCommand
<1>2. CASE Release(p)
  BY <1>1, <1>2, ReleaseOnce DEF Rewriting
<1>3. CASE ~Release(p)
  <2>1. PICK s \in Seq(Command) \ {<<>>} : Continue(p, s)
    BY <1>1, <1>3, NextScript
  <2>2. pc'[p] = "run" /\ lock' = lock /\ cat' = cat
    BY <2>1 DEF Continue, Goto, TypeOK, catalog
  <2>3. OthersRest(p) /\ LiveStays
    BY <1>1, <2>1 DEF OthersRest, LiveStays, Continue, Goto, TypeOK, disk, catalog
  <2> QED
    BY <1>1, <2>2, <2>3, PlainOnce DEF Past, Rewriting
<1> QED
  BY <1>2, <1>3

\* While a statement with the lock refreshes nobody rewrites.
LEMMA RefreshOnce ==
  ASSUME TypeOK, LockInv, ScriptInv, DataInv, OnceInv, NEW p \in Proc, Refresh(p)
  PROVE  OnceInv'
<1>1. pc[p] = "refresh" /\ pc'[p] = "run" /\ \A q \in Proc \ {p} : pc'[q] = pc[q]
  BY DEF Refresh, At, Goto, TypeOK
<1>2. cat'[p] = {f \in File : fstate[f] = "live" /\ frows[f] # {}} /\ \A q \in Proc \ {p} : cat'[q] = cat[q]
  BY DEF Refresh, TypeOK
<1>3. \A q \in Proc \ {p} : basis'[q] = basis[q]
  BY DEF Refresh, TypeOK
<1>4. OthersRest(p) /\ LiveStays /\ FilesStay /\ torn' = torn /\ lock' = lock /\ ftable' = ftable /\ frows' = frows
  BY <1>1, <1>2, <1>3 DEF OthersRest, LiveStays, FilesStay, Refresh, work, disk
<1>5. \A t : Live(t)' = Live(t)
  BY <1>4 DEF LiveStays, Live
<1>6. DiskOnce'
  BY <1>1, <1>4, <1>5, DiskStaysOnce DEF OnceInv, Rewriting
<1>7. CatalogOnce(p)'
  <2> SUFFICES ASSUME lock[p] # "none", NEW t \in Table \ torn
               PROVE  NoRowTwice(Extents(p, t))'
    BY <1>4 DEF CatalogOnce, Locked
  <2>1. \A q \in Proc : ~Rewriting(q)
    BY <1>1, RewritersAlone DEF LockInv, Rewriting
  <2>2. NoRowTwice(Live(t))
    BY <2>1 DEF OnceInv, DiskOnce
  <2>3. Extents(p, t)' \subseteq Live(t)
    BY <1>2, <1>4 DEF Extents, Live
  <2> QED
    BY <1>4, <2>2, <2>3 DEF NoRowTwice
<1>8. RewritesOnce(p)'
  BY <1>1 DEF RewritesOnce, Rewriting
<1> QED
  BY <1>4, <1>6, <1>7, <1>8, StepOnce

-----------------------------------------------------------------------------
(* No row twice: the steps that write.                                     *)

\* A file of rows that no file of its table has.
LEMMA CommitOnce ==
  ASSUME TypeOK, DataInv, OnceInv, NEW p \in Proc, ~Rewriting(p), ~Rewriting(p)', OthersRest(p), torn' = torn,
         NEW f \in File, NEW t \in Table, NEW R \in SUBSET Row, Commit(f, t, R), R \cap RowsOf(File) = {},
         lock'[p] = lock[p], Past(p), cat'[p] \subseteq cat[p] \cup {f}
  PROVE  DiskOnce' /\ CatalogOnce(p)' /\ RewritesOnce(p)'
<1>1. /\ FilesStay /\ fstate[f] = "none" /\ ftable'[f] = t /\ frows'[f] = R
      /\ \A g \in File \ {f} : ftable'[g] = ftable[g] /\ frows'[g] = frows[g]
      /\ Live(t)' = Live(t) \cup {f} /\ \A u \in Table \ {t} : Live(u)' = Live(u)
  BY CommitGives
<1>2. \A g \in File : frows[g] \cap R = {}
  BY DEF RowsOf
<1>3. DiskOnce'
  <2> SUFFICES ASSUME NEW u \in Table \ torn, \A q \in Proc : Rewriting(q)' => cur'[q] # u
               PROVE  NoRowTwice(Live(u))'
    BY DEF DiskOnce
  <2>1. \A q \in Proc : Rewriting(q) => cur[q] # u
    BY DEF OthersRest, Rewriting
  <2>2. NoRowTwice(Live(u))
    BY <2>1 DEF OnceInv, DiskOnce
  <2>3. Live(u) \subseteq File /\ f \notin Live(u) /\ Live(u)' \subseteq Live(u) \cup {f}
    BY <1>1 DEF Live
  <2> QED
    BY <1>1, <1>2, <2>2, <2>3 DEF NoRowTwice
<1>4. CatalogOnce(p)'
  <2> SUFFICES ASSUME Locked(p), NEW u \in Table \ torn
               PROVE  NoRowTwice(Extents(p, u))'
    BY DEF CatalogOnce, Locked
  <2>1. NoRowTwice(Extents(p, u))
    BY DEF OnceInv, CatalogOnce
  <2>2. f \notin cat[p] /\ cat[p] \subseteq File
    BY <1>1 DEF DataInv, Mine, Known, TypeOK
  <2>3. Extents(p, u)' \subseteq Extents(p, u) \cup {f} /\ Extents(p, u) \subseteq cat[p]
    BY <1>1, <2>2 DEF Extents
  <2> QED
    BY <1>1, <1>2, <2>1, <2>2, <2>3 DEF NoRowTwice
<1>5. RewritesOnce(p)'
  BY DEF RewritesOnce
<1> QED
  BY <1>3, <1>4, <1>5

LEMMA CreateTableOnce ==
  ASSUME TypeOK, LockInv, ScriptInv, DataInv, OnceInv, NEW p \in Proc, CreateTable(p)
  PROVE  OnceInv'
<1>1. pc[p] = "create" /\ cur[p] \in Table /\ lock[p] # "none"
  BY WritersLock DEF CreateTable, At, ScriptInv, DataInv, Mine, Writing
<1>2. PICK f \in File : Commit(f, cur[p], {})
  BY DEF CreateTable
<1>3. pc'[p] \in {"end", "append"} /\ \A q \in Proc \ {p} : pc'[q] = pc[q]
  BY <1>1 DEF CreateTable, Goto, TypeOK
<1>4. OthersRest(p) /\ UNCHANGED <<torn, lock, cat>>
  BY <1>3 DEF OthersRest, CreateTable, work, ghost
<1>5. {} \in SUBSET Row /\ {} \cap RowsOf(File) = {}
  OBVIOUS
<1>6. FilesStay
  BY <1>1, <1>2, <1>5, CommitGives
<1>7. DiskOnce' /\ CatalogOnce(p)' /\ RewritesOnce(p)'
  BY <1>1, <1>2, <1>3, <1>4, <1>5, CommitOnce DEF Rewriting, Past
<1> QED
  BY <1>1, <1>4, <1>6, <1>7, StepOnce

LEMMA AppendRowsOnce ==
  ASSUME TypeOK, LockInv, ScriptInv, DataInv, OnceInv, NEW p \in Proc, AppendRows(p)
  PROVE  OnceInv'
<1>1. pc[p] = "append" /\ cur[p] \in Table /\ lock[p] # "none"
  BY WritersLock DEF AppendRows, At, ScriptInv, DataInv, Mine, Writing
<1>2. PICK f \in File, R \in SUBSET UnusedRows :
        /\ Commit(f, cur[p], R)
        /\ cat' = [cat EXCEPT ![p] = @ \cup {f}]
        /\ basis' = [basis EXCEPT ![p][cur[p]] = @ \cup R]
  BY DEF AppendRows
<1>3. R \in SUBSET Row /\ R \cap RowsOf(File) = {}
  BY DEF UnusedRows
<1>4. pc'[p] \in {"end", "append"} /\ \A q \in Proc \ {p} : pc'[q] = pc[q]
  BY <1>1 DEF AppendRows, Goto, TypeOK
<1>5. cat'[p] = cat[p] \cup {f} /\ \A q \in Proc \ {p} : cat'[q] = cat[q] /\ basis'[q] = basis[q]
  BY <1>2 DEF TypeOK
<1>6. OthersRest(p) /\ UNCHANGED <<torn, lock>>
  BY <1>4, <1>5 DEF OthersRest, AppendRows, work
<1>7. FilesStay
  BY <1>1, <1>2, <1>3, CommitGives
<1>8. DiskOnce' /\ CatalogOnce(p)' /\ RewritesOnce(p)'
  BY <1>1, <1>2, <1>3, <1>4, <1>5, <1>6, CommitOnce DEF Rewriting, Past
<1> QED
  BY <1>1, <1>6, <1>7, <1>8, StepOnce

\* A rewrite begins on a table without doubles, with rows that only the old files have.
LEMMA StartRewriteOnce ==
  ASSUME TypeOK, LockInv, ScriptInv, DataInv, OnceInv, NEW p \in Proc, NEW t \in Table, NEW k, Begins(p, t, k),
         k \in {"replace", "compact", "delete"},
         NEW R, NEW G, NEW old \in SUBSET File, StartRewrite(p, R, G, old),
         NoRowTwice(Live(t)) => R \cap RowsOf(Live(t) \ old) = {}
  PROVE  OnceInv'
<1>1. pc[p] = "run" /\ pc'[p] = "write" /\ cur'[p] = t /\ Cmd(p).kind = k
  BY DEF Begins, StartRewrite, At, Goto, TypeOK
<1>2. rest'[p] = R /\ todo'[p] = old
  BY DEF StartRewrite, TypeOK
<1>3. OthersRest(p)
  BY DEF OthersRest, Begins, StartRewrite, Goto, TypeOK, disk, catalog, ghost
<1>4. UNCHANGED <<fstate, ftable, frows, lock, cat, torn>> /\ LiveStays /\ FilesStay
  BY DEF LiveStays, FilesStay, StartRewrite, disk, catalog, ghost
<1>5. lock[p] = "exclusive"
  BY <1>1, RewriteKinds DEF LockInv, InStatement
<1>6. \A q \in Proc : ~Rewriting(q)
  BY <1>1, <1>5, RewritersAlone DEF LockInv, Rewriting
<1>7. t \notin torn => NoRowTwice(Live(t))
  BY <1>6 DEF OnceInv, DiskOnce
<1>8. \A u : Live(u)' = Live(u) /\ Extents(p, u)' = Extents(p, u)
  BY <1>4 DEF Live, Extents
<1>9. DiskOnce'
  BY <1>3, <1>4, <1>6, <1>8, DiskStaysOnce DEF OnceInv
<1>10. CatalogOnce(p)'
  <2>1. \A u \in Table \ torn : NoRowTwice(Extents(p, u))
    BY <1>1, <1>5, <1>6 DEF OnceInv, CatalogOnce, Locked, Past
  <2> QED
    BY <1>4, <1>8, <2>1 DEF CatalogOnce, NoRowTwice
<1>11. RewritesOnce(p)'
  <2> SUFFICES ASSUME t \notin torn
               PROVE  RewritesOnce(p)'
    BY <1>1, <1>4 DEF RewritesOnce
  <2>1. Live(cur[p])' = Live(t) /\ (Live(cur[p]) \ todo[p])' = Live(t) \ old
    BY <1>1, <1>2, <1>4 DEF Live
  <2>2. RowsOf(Live(cur[p]) \ todo[p])' = RowsOf(Live(t) \ old)
    BY <1>4, <2>1 DEF RowsOf
  <2>3. NoRowTwice(Live(cur[p]))' /\ NoRowTwice(Live(cur[p]) \ todo[p])'
    BY <1>4, <1>7, <2>1 DEF NoRowTwice
  <2> QED
    BY <1>2, <1>7, <2>2, <2>3 DEF RewritesOnce
<1> QED
  BY <1>4, <1>3, <1>9, <1>10, <1>11, StepOnce

\* A statement alone sees the whole table: what is not registered are its shells.
LEMMA ShellsAndExtents ==
  ASSUME NoLongerNames, TypeOK, NEW p \in Proc, NEW t \in Table
  PROVE  /\ Live(t) \subseteq Extents(p, t) \cup Shells(p, t)
         /\ Extents(p, t) \cup Shells(p, t) \in SUBSET File
<1>1. GlobLive(t) = Live(t)
  BY GlobsAreExact
<1> QED
  BY <1>1 DEF Shells, Extents, Live, TypeOK

LEMMA BeginReplaceOnce ==
  ASSUME TypeOK, LockInv, ScriptInv, DataInv, OnceInv, NoLongerNames, NEW p \in Proc, BeginReplace(p)
  PROVE  OnceInv'
<1>1. PICK t \in tabs[p], R \in SUBSET UnusedRows :
        /\ Begins(p, t, "replace")
        /\ StartRewrite(p, R, RowsOf(Extents(p, t)), Extents(p, t) \cup Shells(p, t))
  BY DEF BeginReplace
<1>2. t \in Table
  BY <1>1 DEF TypeOK
<1> DEFINE old == Extents(p, t) \cup Shells(p, t)
<1>3. Live(t) \ old = {} /\ old \in SUBSET File
  BY <1>2, ShellsAndExtents
<1> HIDE DEF old
<1>4. R \cap RowsOf(Live(t) \ old) = {}
  BY <1>3 DEF RowsOf
<1>5. StartRewrite(p, R, RowsOf(Extents(p, t)), old)
  BY <1>1 DEF old
<1> QED
  BY <1>1, <1>2, <1>3, <1>4, <1>5, StartRewriteOnce

LEMMA BeginCompactOnce ==
  ASSUME TypeOK, LockInv, ScriptInv, DataInv, OnceInv, NoLongerNames, NEW p \in Proc, BeginCompact(p)
  PROVE  OnceInv'
<1>1. PICK t \in tabs[p] : \E D \in SUBSET RowsOf(Extents(p, t)) :
        /\ Begins(p, t, "compact")
        /\ StartRewrite(p, RowsOf(Extents(p, t)) \ D, D, Extents(p, t) \cup Shells(p, t))
  BY DEF BeginCompact
<1>2. t \in Table
  BY <1>1 DEF TypeOK
<1> DEFINE old == Extents(p, t) \cup Shells(p, t)
<1>3. Live(t) \ old = {} /\ old \in SUBSET File
  BY <1>2, ShellsAndExtents
<1>4. PICK D : Begins(p, t, "compact") /\ StartRewrite(p, RowsOf(Extents(p, t)) \ D, D, old)
  BY <1>1
<1> HIDE DEF old
<1>5. (RowsOf(Extents(p, t)) \ D) \cap RowsOf(Live(t) \ old) = {}
  BY <1>3 DEF RowsOf
<1> QED
  BY <1>2, <1>3, <1>4, <1>5, StartRewriteOnce

LEMMA BeginDeleteOnce ==
  ASSUME TypeOK, LockInv, ScriptInv, DataInv, OnceInv, NEW p \in Proc, BeginDelete(p)
  PROVE  OnceInv'
<1>1. PICK t \in tabs[p] : \E D \in SUBSET RowsOf(Extents(p, t)) \ {{}} :
        LET affected == {f \in Extents(p, t) : frows[f] \cap D # {}}
        IN /\ Begins(p, t, "delete")
           /\ Readable(Extents(p, t))
           /\ StartRewrite(p, RowsOf(affected) \ D, D, affected)
  BY DEF BeginDelete
<1>2. t \in Table
  BY <1>1 DEF TypeOK
<1>3. PICK D :
        LET affected == {f \in Extents(p, t) : frows[f] \cap D # {}}
        IN /\ Begins(p, t, "delete")
           /\ Readable(Extents(p, t))
           /\ StartRewrite(p, RowsOf(affected) \ D, D, affected)
  BY <1>1
<1> DEFINE old == {f \in Extents(p, t) : frows[f] \cap D # {}}
<1>4. Begins(p, t, "delete") /\ StartRewrite(p, RowsOf(old) \ D, D, old)
  BY <1>3
<1>5. old \in SUBSET File /\ old \subseteq Live(t)
  <2>1. Extents(p, t) \subseteq Live(t)
    BY <1>3 DEF Readable, Extents, Live, TypeOK
  <2> QED
    BY <2>1 DEF Live
<1> HIDE DEF old
<1>6. NoRowTwice(Live(t)) => (RowsOf(old) \ D) \cap RowsOf(Live(t) \ old) = {}
  BY <1>5 DEF NoRowTwice, RowsOf
<1> QED
  BY <1>2, <1>4, <1>5, <1>6, StartRewriteOnce

\* The new files share no row with each other, nor with the files that are left alone.
LEMMA WriteExtentOnce ==
  ASSUME TypeOK, LockInv, ScriptInv, DataInv, OnceInv, NEW p \in Proc, WriteExtent(p)
  PROVE  OnceInv'
<1>1. pc[p] = "write" /\ cur[p] \in Table /\ lock[p] = "exclusive" /\ Rewriting(p)
  BY RewritersAlone DEF WriteExtent, At, ScriptInv, Rewriting
<1>2. PICK f \in File, C \in SUBSET rest[p] :
        /\ Commit(f, cur[p], C)
        /\ rest' = [rest EXCEPT ![p] = @ \ C]
        /\ fresh' = [fresh EXCEPT ![p] = @ \cup {f}]
        /\ cat' = [cat EXCEPT ![p] = @ \cup {f}]
        /\ IF rest[p] = C
           THEN Goto(p, "supersede") /\ basis' = [basis EXCEPT ![p][cur[p]] = (@ \cup C) \ gone[p]]
           ELSE UNCHANGED pc /\ basis' = [basis EXCEPT ![p][cur[p]] = @ \cup C]
  BY DEF WriteExtent
<1>3. C \in SUBSET Row
  BY DEF TypeOK
<1>4. /\ FilesStay /\ fstate[f] = "none" /\ ftable'[f] = cur[p] /\ frows'[f] = C
      /\ \A g \in File \ {f} : ftable'[g] = ftable[g] /\ frows'[g] = frows[g]
      /\ Live(cur[p]) \cup {f} = {g \in File : fstate'[g] = "live" /\ ftable'[g] = cur[p]}
      /\ \A u \in Table \ {cur[p]} : Live(u)' = Live(u)
  <2>1. f \in File
    OBVIOUS
  <2>2. /\ fstate[f] = "none" /\ fstate'[f] = "live" /\ ftable'[f] = cur[p] /\ frows'[f] = C
        /\ \A g \in File \ {f} : fstate'[g] = fstate[g] /\ ftable'[g] = ftable[g] /\ frows'[g] = frows[g]
    BY <1>2, <1>3 DEF Commit, TypeOK
  <2> QED
    BY <1>1, <2>2 DEF FilesStay, Live
<1>5. UNCHANGED <<lock, script, cur, tabs, todo, gone, seen, errs, torn>>
  BY DEF WriteExtent
<1>6. /\ cat'[p] = cat[p] \cup {f} /\ rest'[p] = rest[p] \ C /\ f \in fresh'[p]
      /\ \A q \in Proc \ {p} : cat'[q] = cat[q] /\ rest'[q] = rest[q] /\ fresh'[q] = fresh[q]
  BY <1>2 DEF TypeOK
<1>7. pc'[p] \in {"write", "supersede"} /\ \A q \in Proc \ {p} : pc'[q] = pc[q] /\ basis'[q] = basis[q]
  BY <1>1, <1>2 DEF Goto, TypeOK
<1>8. OthersRest(p)
  BY <1>5, <1>6, <1>7 DEF OthersRest
<1>9. DiskOnce'
  <2> SUFFICES ASSUME NEW u \in Table \ torn, \A q \in Proc : Rewriting(q)' => cur'[q] # u
               PROVE  NoRowTwice(Live(u))'
    BY <1>5 DEF DiskOnce
  <2>1. u # cur[p] /\ \A q \in Proc : Rewriting(q) => cur[q] # u
    BY <1>1, <1>5, <1>7 DEF Rewriting
  <2>2. NoRowTwice(Live(u)) /\ Live(u)' = Live(u) /\ Live(u) \subseteq File /\ f \notin Live(u)
    BY <1>4, <2>1 DEF OnceInv, DiskOnce, Live
  <2> QED
    BY <1>4, <2>2 DEF NoRowTwice
<1>10. CatalogOnce(p)'
  <2> SUFFICES ASSUME NEW u \in Table \ torn, u # cur[p]
               PROVE  NoRowTwice(Extents(p, u))'
    BY <1>5, <1>7 DEF CatalogOnce, Rewriting
  <2>1. NoRowTwice(Extents(p, u))
    BY <1>1 DEF OnceInv, CatalogOnce, Locked, Past
  <2>2. f \notin cat[p] /\ cat[p] \subseteq File
    BY <1>4 DEF DataInv, Mine, Known, TypeOK
  <2>3. Extents(p, u)' = Extents(p, u) /\ Extents(p, u) \subseteq cat[p]
    BY <1>4, <1>6, <2>2 DEF Extents
  <2> QED
    BY <1>4, <2>1, <2>2, <2>3 DEF NoRowTwice
<1>11. RewritesOnce(p)'
  <2> SUFFICES ASSUME cur[p] \notin torn
               PROVE  RewritesOnce(p)'
    BY <1>5 DEF RewritesOnce
  <2> DEFINE E == Live(cur[p]) \ todo[p]
  <2>1. NoRowTwice(E) /\ rest[p] \cap RowsOf(E) = {}
    BY <1>1 DEF OnceInv, RewritesOnce
  <2>2. E \subseteq File /\ f \notin E
    BY <1>4 DEF Live
  <2>3. f \notin todo[p]
    BY <1>4 DEF DataInv, Mine, Known
  <2>4. (Live(cur[p]) \ todo[p])' = E \cup {f}
    BY <1>4, <1>5, <2>3 DEF Live
  <2> HIDE DEF E
  <2>5. \A g \in E : frows'[g] = frows[g] /\ frows[g] \cap rest[p] = {}
    BY <1>4, <2>1, <2>2 DEF RowsOf
  <2>6. NoRowTwice(Live(cur[p]) \ todo[p])'
    BY <1>4, <2>1, <2>4, <2>5 DEF NoRowTwice
  <2>7. \A g \in E \cup {f} : frows'[g] \cap rest'[p] = {}
    BY <1>4, <1>6, <2>5
  <2>8. rest'[p] \cap RowsOf(Live(cur[p]) \ todo[p])' = {}
    BY <2>4, <2>7 DEF RowsOf
  <2> QED
    BY <1>6, <2>6, <2>8 DEF RewritesOnce
<1> QED
  BY <1>1, <1>4, <1>5, <1>8, <1>9, <1>10, <1>11, StepOnce

\* A rewrite is over: its table is torn or has no doubles.
LEMMA StopsOnce ==
  ASSUME TypeOK, LockInv, ScriptInv, DataInv, OnceInv, NEW p \in Proc, Rewriting(p), ~Rewriting(p)', OthersRest(p), LiveStays,
         torn \subseteq torn', cat'[p] \subseteq cat[p],
         cur[p] \notin torn' => NoRowTwice(Live(cur[p]))
  PROVE  OnceInv'
<1>1. FilesStay /\ frows' = frows /\ ftable' = ftable /\ \A u : Live(u)' = Live(u)
  BY DEF FilesStay, LiveStays, Live
<1>2. lock[p] = "exclusive" /\ Past(p) /\ cur[p] \in Table
  BY RewritersAlone DEF Rewriting, Past, ScriptInv
<1>3. DiskOnce'
  <2> SUFFICES ASSUME NEW u \in Table \ torn', \A q \in Proc : Rewriting(q)' => cur'[q] # u
               PROVE  NoRowTwice(Live(u))'
    BY DEF DiskOnce
  <2>1. \A q \in Proc \ {p} : Rewriting(q) => cur[q] # u
    BY DEF OthersRest, Rewriting
  <2>2. NoRowTwice(Live(u))
    BY <2>1 DEF OnceInv, DiskOnce
  <2> QED
    BY <1>1, <2>2 DEF NoRowTwice
<1>4. CatalogOnce(p)'
  <2> SUFFICES ASSUME NEW u \in Table \ torn'
               PROVE  NoRowTwice(Extents(p, u))'
    BY DEF CatalogOnce
  <2>1. Extents(p, u) \subseteq Live(u)
    BY <1>2 DEF DataInv, Mine, HasAll, Extents, Live, TypeOK
  <2>2. NoRowTwice(Extents(p, u))
    BY <1>2, <2>1 DEF OnceInv, CatalogOnce, Locked, NoRowTwice
  <2>3. Extents(p, u)' \subseteq Extents(p, u)
    BY <1>1 DEF Extents
  <2> QED
    BY <1>1, <2>2, <2>3 DEF NoRowTwice
<1>5. RewritesOnce(p)'
  BY DEF RewritesOnce
<1> QED
  BY <1>1, <1>3, <1>4, <1>5, StepOnce

LEMMA WriteFailsOnce ==
  ASSUME TypeOK, LockInv, ScriptInv, DataInv, OnceInv, NEW p \in Proc, WriteFails(p)
  PROVE  OnceInv'
<1>1. pc[p] = "write" /\ pc'[p] = "failed" /\ \A q \in Proc \ {p} : pc'[q] = pc[q]
  BY DEF WriteFails, At, Goto, TypeOK
<1>2. OthersRest(p) /\ LiveStays /\ cat' = cat
  BY <1>1 DEF OthersRest, LiveStays, WriteFails, disk, catalog, work
<1>3. torn \subseteq torn' /\ (cur[p] \notin torn' => fresh[p] = {} /\ cur[p] \notin torn)
  BY DEF WriteFails
<1>4. cur[p] \notin torn' => NoRowTwice(Live(cur[p]))
  BY <1>1, <1>3 DEF OnceInv, RewritesOnce, Rewriting
<1> QED
  BY <1>1, <1>2, <1>3, <1>4, StopsOnce DEF Rewriting

LEMMA FinishRewriteOnce ==
  ASSUME TypeOK, LockInv, ScriptInv, DataInv, OnceInv, NEW p \in Proc, FinishRewrite(p)
  PROVE  OnceInv'
<1>1. pc[p] = "supersede" /\ pc'[p] \in {"failed", "end"} /\ \A q \in Proc \ {p} : pc'[q] = pc[q]
  BY DEF FinishRewrite, At, Goto, TypeOK
<1>2. OthersRest(p) /\ LiveStays /\ cat' = cat /\ torn' = torn /\ todo[p] = {}
  BY <1>1 DEF OthersRest, LiveStays, FinishRewrite, disk, catalog, work, ghost
<1>3. cur[p] \notin torn => NoRowTwice(Live(cur[p]))
  <2>1. Live(cur[p]) \ todo[p] = Live(cur[p])
    BY <1>2
  <2> QED
    BY <1>1, <2>1 DEF OnceInv, RewritesOnce, Rewriting
<1> QED
  BY <1>1, <1>2, <1>3, StopsOnce DEF Rewriting

LEMMA CrashOnce ==
  ASSUME TypeOK, LockInv, ScriptInv, DataInv, OnceInv, NEW p \in Proc, Crash(p)
  PROVE  OnceInv'
<1>1. CASE ~Rewriting(p)
  BY <1>1, ReleaseOnce DEF Crash, Rewriting, disk
<1>2. CASE Rewriting(p)
  <2>1. pc'[p] = "idle" /\ cat'[p] = {} /\ OthersRest(p)
    BY DEF Crash, Release, OthersRest, TypeOK
  <2>2. LiveStays
    BY DEF Crash, LiveStays, disk
  <2>3. torn \subseteq torn' /\ (cur[p] \notin torn' => fresh[p] = {} /\ cur[p] \notin torn)
    BY <1>2 DEF Crash, Rewriting
  <2>4. cur[p] \notin torn' => NoRowTwice(Live(cur[p]))
    BY <1>2, <2>3 DEF OnceInv, RewritesOnce
  <2> QED
    BY <1>2, <2>1, <2>2, <2>3, <2>4, StopsOnce DEF Rewriting
<1> QED
  BY <1>1, <1>2

LEMMA SupersedeOnce ==
  ASSUME TypeOK, LockInv, ScriptInv, DataInv, OnceInv, NEW p \in Proc, Supersede(p) \/ SupersedeFails(p)
  PROVE  OnceInv'
<1>1. pc[p] = "supersede" /\ lock[p] = "exclusive" /\ Rewriting(p) /\ fresh[p] # {}
  BY RewritersAlone DEF Supersede, SupersedeFails, At, Rewriting, DataInv, Mine, Rewrites
<1>2. UNCHANGED <<ftable, frows, lock, pc, script, cur, rest, gone, fresh, seen, basis>>
  BY DEF Supersede, SupersedeFails, ghost, disk
<1>3. PICK f \in todo[p] :
        /\ todo' = [todo EXCEPT ![p] = @ \ {f}]
        /\ \/ fstate' = [fstate EXCEPT ![f] = "superseded"] /\ cat' = [cat EXCEPT ![p] = @ \ {f}] /\ torn' = torn
              /\ fstate[f] = "live"
           \/ fstate' = fstate /\ cat' = cat /\ torn' = torn \cup {cur[p]}
  BY DEF Supersede, SupersedeFails, disk, catalog, ghost
<1>4. f \in File /\ todo'[p] = todo[p] \ {f} /\ \A q \in Proc \ {p} : todo'[q] = todo[q] /\ cat'[q] = cat[q]
  BY <1>3 DEF TypeOK
<1>5. cat'[p] \subseteq cat[p] /\ torn \subseteq torn'
  BY <1>3 DEF TypeOK
<1>6. /\ \A g \in File \ {f} : fstate'[g] = fstate[g]
      /\ (fstate'[f] = "superseded" /\ fstate[f] = "live") \/ (fstate'[f] = fstate[f] /\ cur[p] \in torn')
  BY <1>3, <1>4 DEF TypeOK
<1>7. FilesStay /\ OthersRest(p) /\ \A u : Live(u)' \subseteq Live(u)
  BY <1>2, <1>4, <1>6 DEF FilesStay, OthersRest, Live
<1>8. DiskOnce'
  <2> SUFFICES ASSUME NEW u \in Table \ torn', \A q \in Proc : Rewriting(q)' => cur'[q] # u
               PROVE  NoRowTwice(Live(u))'
    BY DEF DiskOnce
  <2>1. \A q \in Proc : Rewriting(q) => cur[q] # u
    BY <1>2 DEF Rewriting
  <2> QED
    BY <1>2, <1>5, <1>7, <2>1 DEF OnceInv, DiskOnce, NoRowTwice
<1>9. CatalogOnce(p)'
  <2>1. \A u : Extents(p, u)' \subseteq Extents(p, u)
    BY <1>2, <1>5 DEF Extents
  <2> QED
    BY <1>2, <1>5, <2>1 DEF OnceInv, CatalogOnce, NoRowTwice, Locked, Past, Rewriting
<1>10. RewritesOnce(p)'
  <2> SUFFICES ASSUME cur[p] \notin torn'
               PROVE  RewritesOnce(p)'
    BY <1>2 DEF RewritesOnce
  <2>1. (Live(cur[p]) \ todo[p])' \subseteq Live(cur[p]) \ todo[p]
    BY <1>2, <1>4, <1>6 DEF Live
  <2>2. NoRowTwice(Live(cur[p]) \ todo[p])
    BY <1>1, <1>5 DEF OnceInv, RewritesOnce
  <2> QED
    BY <1>1, <1>2, <2>1, <2>2 DEF RewritesOnce, NoRowTwice
<1> QED
  BY <1>1, <1>5, <1>7, <1>8, <1>9, <1>10, StepOnce

\* Files that a drop takes leave no doubles.
LEMMA DropsOnce ==
  ASSUME TypeOK, LockInv, ScriptInv, DataInv, OnceInv, NEW p \in Proc, MoveFile(p) \/ DropExtent(p)
  PROVE  OnceInv'
<1>1. lock[p] # "none" /\ pc[p] \in {"move", "run"} /\ pc'[p] \in {"move", "end"}
  BY BeginsLocked, WritersLock DEF MoveFile, DropExtent, At, Begins, Goto, TypeOK, DataInv, Mine, Writing
<1>2. /\ UNCHANGED <<ftable, frows, lock, script, rest, gone, fresh, seen, torn>>
      /\ \A q \in Proc \ {p} : pc'[q] = pc[q] /\ cur'[q] = cur[q] /\ todo'[q] = todo[q] /\ cat'[q] = cat[q]
                               /\ basis'[q] = basis[q]
      /\ cat'[p] \subseteq cat[p]
  <2>1. CASE MoveFile(p)
    BY <2>1 DEF MoveFile, catalog, ghost, TypeOK
  <2>2. CASE DropExtent(p)
    <3>1. PICK t \in tabs[p] : \E f \in Extents(p, t) :
            /\ cur' = [cur EXCEPT ![p] = t] /\ cat' = [cat EXCEPT ![p] = @ \ {f}]
            /\ basis' = [basis EXCEPT ![p][t] = @ \ frows[f]]
      BY <2>2 DEF DropExtent, Begins
    <3> QED
      BY <2>2, <3>1 DEF DropExtent, work, Goto, TypeOK
  <2> QED
    BY <2>1, <2>2
<1>3. \A f \in File : fstate'[f] = fstate[f] \/ (fstate'[f] \in {"archived", "deleted"} /\ fstate[f] # "none")
  BY DEF MoveFile, DropExtent, TypeOK
<1>4. FilesStay /\ OthersRest(p) /\ \A u : Live(u)' \subseteq Live(u)
  BY <1>2, <1>3 DEF FilesStay, OthersRest, Live
<1>5. DiskOnce'
  BY <1>1, <1>2, <1>4, DiskStaysOnce DEF OnceInv, Rewriting
<1>6. CatalogOnce(p)' /\ RewritesOnce(p)'
  <2>1. \A u : Extents(p, u)' \subseteq Extents(p, u)
    BY <1>2 DEF Extents
  <2>2. \A u \in Table \ torn : NoRowTwice(Extents(p, u))
    BY <1>1 DEF OnceInv, CatalogOnce, Locked, Past, Rewriting
  <2>3. CatalogOnce(p)'
    BY <1>2, <2>1, <2>2 DEF CatalogOnce, NoRowTwice
  <2>4. RewritesOnce(p)'
    BY <1>1 DEF RewritesOnce, Rewriting
  <2> QED
    BY <2>3, <2>4
<1> QED
  BY <1>1, <1>2, <1>4, <1>5, <1>6, StepOnce

LEMMA OnceStep ==
  ASSUME TypeOK, LockInv, ScriptInv, DataInv, OnceInv, NoLongerNames, [Next]_vars
  PROVE  OnceInv'
<1>1. ASSUME NEW p \in Proc, Submit(p) \/ Statement(p) \/ RefreshFails(p) \/ Crash(p)
      PROVE  OnceInv'
  <2>1. ASSUME AbortStatement(p) \/ RefreshFails(p)
        PROVE  OnceInv'
    BY <2>1, ReleaseOnce DEF AbortStatement, RefreshFails, At, Rewriting
  <2> QED
    BY <1>1, <2>1, QuietSteps, PlainStepsOnce, EndCommandOnce, RefreshOnce, CreateTableOnce, AppendRowsOnce, BeginReplaceOnce,
       BeginCompactOnce, BeginDeleteOnce, WriteExtentOnce, WriteFailsOnce, FinishRewriteOnce, SupersedeOnce,
       DropsOnce, CrashOnce DEF Statement
<1>2. CASE UNCHANGED vars
  BY <1>2 DEF vars, disk, catalog, work, ghost, OnceInv, DiskOnce, CatalogOnce, RewritesOnce, Locked, Past, Rewriting,
     Extents, Live, RowsOf, NoRowTwice
<1> QED
  BY <1>1, <1>2 DEF Next

\* A statement holding the lock never counts a row twice, unless a rewrite of the table
\* has died or failed half way.
THEOREM NoRowIsCountedTwice == NoLongerNames /\ Spec => []NoDoubleCount
<1>1. Init => OnceInv
  BY DEF Init, OnceInv, DiskOnce, CatalogOnce, RewritesOnce, NoRowTwice, Live, Rewriting, Locked
<1>2. NoLongerNames /\ TypeOK /\ LockInv /\ ScriptInv /\ DataInv /\ OnceInv /\ [Next]_vars => OnceInv'
  BY OnceStep
<1>3. ScriptInv /\ DataInv /\ OnceInv => NoDoubleCount
  <2> SUFFICES ASSUME ScriptInv, DataInv, OnceInv, NEW p \in Proc, Locked(p), pc[p] = "answered", cur[p] \notin torn
               PROVE  NoRowTwice(seen[p])
    BY DEF NoDoubleCount, At
  <2>1. cur[p] \in Table /\ seen[p] = Extents(p, cur[p])
    BY DEF ScriptInv, DataInv, Mine, Counts
  <2> QED
    BY <2>1 DEF OnceInv, CatalogOnce, Past, Rewriting
<1>4. NoLongerNames => []NoLongerNames
  <2>1. NoLongerNames => NoLongerNames'
    BY DEF NoLongerNames
  <2> QED
    BY <2>1, PTL
<1> QED
  BY <1>1, <1>2, <1>3, <1>4, DataInductive, PTL DEF Spec

-----------------------------------------------------------------------------
(* What a rewrite supersedes unread.                                       *)

Removal == {"drop", "recreate"}

\* A command that takes files away is the last of its statement, on one table.
RemovesLast(s) ==
  \A i \in DOMAIN s : s[i].kind \in Removal =>
    i = Len(s) /\ s[i].over = "one" /\ \A t, u \in s[i].tables : t = u

\* No script goes on after a .drop table whose files could not all be moved.
NothingAfterDrops == MayFail => \A s \in Scripts : RemovesLast(s)

\* Files with rows that the statement's catalog has not.
Unregistered(p) == {f \in File : fstate[f] = "live" /\ frows[f] # {} /\ f \notin cat[p]}

\* Only a drop leaves such files, those it is about to move or, at the statement's end,
\* could not.
Registers(p) ==
  lock[p] = "exclusive" /\ Past(p) =>
    \/ Unregistered(p) = {}
    \/ pc[p] = "move" /\ Unregistered(p) \subseteq todo[p]
    \/ MayFail /\ pc[p] # "run" /\ Cmd(p).kind \in Removal /\ cur[p] \in Cmd(p).tables

ShellsInv ==
  /\ ShellsAreEmpty
  /\ \A p \in Proc :
       /\ MayFail /\ pc[p] # "idle" => RemovesLast(script[p])
       /\ pc[p] = "move" => Cmd(p).kind \in Removal /\ cur[p] \in Cmd(p).tables
       /\ Registers(p)

\* What a step may not spoil for its own statement.
MyShells(p) ==
  /\ pc[p] = "write" => \A f \in todo[p] \ Extents(p, cur[p]) : frows[f] = {}
  /\ MayFail /\ pc[p] # "idle" => RemovesLast(script[p])
  /\ pc[p] = "move" => Cmd(p).kind \in Removal /\ cur[p] \in Cmd(p).tables
  /\ Registers(p)

LEMMA ShellsOfEach == ShellsInv <=> \A p \in Proc : MyShells(p)
BY DEF ShellsInv, ShellsAreEmpty, MyShells, At

LEMMA RemovesLastOfRest ==
  ASSUME NEW s \in Seq(Command), s # <<>>, RemovesLast(s)
  PROVE  RemovesLast(Tail(s))
<1>1. /\ Len(s) \in Nat \ {0} /\ Len(Tail(s)) = Len(s) - 1 /\ Tail(s) \in Seq(Command)
      /\ \A i \in 1 .. Len(Tail(s)) : Tail(s)[i] = s[i + 1]
  BY HeadTailProperties, EmptySeq
<1>2. DOMAIN s = 1 .. Len(s) /\ DOMAIN Tail(s) = 1 .. Len(Tail(s))
  BY <1>1, LenProperties
<1> QED
  BY <1>1, <1>2 DEF RemovesLast

LEMMA RemovesLastAfterHead ==
  ASSUME NEW s \in Seq(Command), s # <<>>, RemovesLast(s), NEW c \in Command, c.kind = s[1].kind,
         c.kind \in Removal => c.over = s[1].over /\ c.tables \subseteq s[1].tables
  PROVE  RemovesLast(<<c>> \o Tail(s))
<1>1. /\ Len(s) \in Nat \ {0} /\ Len(Tail(s)) = Len(s) - 1 /\ Tail(s) \in Seq(Command)
      /\ \A i \in 1 .. Len(Tail(s)) : Tail(s)[i] = s[i + 1]
  BY HeadTailProperties, EmptySeq
<1>2. <<c>> \in Seq(Command) /\ Len(<<c>>) = 1 /\ <<c>>[1] = c
  OBVIOUS
<1> DEFINE d == <<c>> \o Tail(s)
<1>3. /\ d \in Seq(Command) /\ Len(d) = Len(s)
      /\ \A i \in 1 .. Len(s) : d[i] = IF i <= 1 THEN c ELSE Tail(s)[i - 1]
  BY <1>1, <1>2, ConcatProperties
<1>4. DOMAIN s = 1 .. Len(s) /\ DOMAIN d = 1 .. Len(s)
  BY <1>3, LenProperties
<1> HIDE DEF d
<1>5. ASSUME NEW i \in 1 .. Len(s), d[i].kind \in Removal
      PROVE  i = Len(s) /\ d[i].over = "one" /\ \A t, u \in d[i].tables : t = u
  <2>1. CASE i = 1
    <3>1. d[i] = c /\ 1 \in DOMAIN s
      BY <1>1, <1>3, <1>4, <2>1
    <3> QED
      BY <1>5, <2>1, <3>1 DEF RemovesLast
  <2>2. CASE i # 1
    <3>1. d[i] = s[i]
      BY <1>1, <1>3, <2>2
    <3> QED
      BY <1>4, <1>5, <3>1 DEF RemovesLast
  <2> QED
    BY <2>1, <2>2
<1>6. RemovesLast(d)
  BY <1>3, <1>4, <1>5 DEF RemovesLast
<1> QED
  BY <1>6 DEF d

\* A removal that fails ends its statement, where a call may fail.
LEMMA RemovalEnds ==
  ASSUME TypeOK, ScriptInv, NEW p \in Proc, pc[p] # "idle", RemovesLast(script[p]),
         Cmd(p).kind \in Removal, cur[p] \in Cmd(p).tables, NextCommand(p)
  PROVE  Release(p)
<1>1. script[p] \in Seq(Command) /\ script[p] # <<>> /\ Cmd(p) = script[p][1] /\ 1 \in DOMAIN script[p]
  BY HeadAndTail
<1>2. Len(script[p]) = 1 /\ Cmd(p).tables \ {cur[p]} = {}
  <2>1. 1 = Len(script[p]) /\ \A t, u \in Cmd(p).tables : t = u
    BY <1>1 DEF RemovesLast
  <2> QED
    BY <2>1
<1>3. Tail(script[p]) = <<>>
  <2>1. Tail(script[p]) \in Seq(Command) /\ Len(Tail(script[p])) = 0
    BY <1>1, <1>2, HeadTailProperties
  <2> QED
    BY <2>1, EmptySeq
<1> QED
  BY <1>2, <1>3 DEF NextCommand

LEMMA OthersShells ==
  ASSUME TypeOK, LockInv, DataInv, NEW p \in Proc, NEW q \in Proc, q # p, OthersRest(p), FilesStay,
         LiveStays \/ lock[p] # "none", MyShells(q)
  PROVE  MyShells(q)'
<1>1. /\ lock'[q] = lock[q] /\ pc'[q] = pc[q] /\ script'[q] = script[q] /\ cur'[q] = cur[q] /\ cat'[q] = cat[q]
      /\ todo'[q] = todo[q]
  BY DEF OthersRest
<1>2. Known(q)
  BY DEF DataInv, Mine
<1>3. \A f \in todo[q] : frows'[f] = frows[f]
  BY <1>2 DEF Known, TypeOK, FilesStay
<1>4. Extents(q, cur[q])' = Extents(q, cur[q])
  BY <1>1, <1>2, ExtentsStay DEF Extents
<1>5. lock[q] = "exclusive" => Unregistered(q)' = Unregistered(q)
  BY <1>1 DEF LockInv, LiveStays, Unregistered
<1>6. Registers(q)'
  <2> SUFFICES ASSUME lock[q] = "exclusive", Past(q)
               PROVE  Registers(q)'
    BY <1>1 DEF Registers, Past
  <2> QED
    BY <1>1, <1>5 DEF MyShells, Registers, Cmd
<1> QED
  BY <1>1, <1>3, <1>4, <1>6 DEF MyShells, Cmd

LEMMA StepShells ==
  ASSUME TypeOK, LockInv, DataInv, ShellsInv, NEW p \in Proc, OthersRest(p), FilesStay,
         LiveStays \/ lock[p] # "none", MyShells(p)'
  PROVE  ShellsInv'
<1>1. \A q \in Proc : MyShells(q)'
  BY OthersShells, ShellsOfEach
<1>2. (\A q \in Proc : MyShells(q)') => ShellsInv'
  BY DEF ShellsInv, ShellsAreEmpty, MyShells, At
<1> QED
  BY <1>1, <1>2

\* Steps that leave the directory's live files and the catalog.
LEMMA PlainShells ==
  ASSUME TypeOK, LockInv, DataInv, ShellsInv, NEW p \in Proc, OthersRest(p), LiveStays,
         MayFail /\ pc'[p] # "idle" => RemovesLast(script'[p]), pc'[p] \notin {"write", "move"},
         Past(p)' => /\ Past(p) /\ lock'[p] = lock[p] /\ cat'[p] = cat[p] /\ (pc[p] = "move" => todo[p] = {})
                     /\ pc[p] = "run" \/ (pc'[p] # "run" /\ script'[p] = script[p] /\ cur'[p] = cur[p])
  PROVE  ShellsInv'
<1>1. MyShells(p)
  BY ShellsOfEach
<1>2. FilesStay
  BY DEF FilesStay, LiveStays
<1>3. cat'[p] = cat[p] => Unregistered(p)' = Unregistered(p)
  BY DEF LiveStays, Unregistered
<1>4. Registers(p)'
  BY <1>1, <1>3 DEF MyShells, Registers, Cmd
<1> QED
  BY <1>2, <1>4, StepShells DEF MyShells

LEMMA ReleaseShells ==
  ASSUME TypeOK, LockInv, DataInv, ShellsInv, NEW p \in Proc, Release(p), UNCHANGED disk
  PROVE  ShellsInv'
<1>1. OthersRest(p) /\ pc'[p] = "idle" /\ LiveStays
  BY DEF OthersRest, Release, TypeOK, LiveStays, disk
<1> QED
  BY <1>1, PlainShells DEF Past

LEMMA QuietShells ==
  ASSUME TypeOK, LockInv, DataInv, ShellsInv, NEW p \in Proc, Quiet(p)
  PROVE  ShellsInv'
<1>1. MayFail => RemovesLast(script[p])
  BY ShellsOfEach DEF MyShells, Quiet, Past
<1> QED
  BY <1>1, PlainShells DEF Quiet, Past

LEMMA SubmitShells ==
  ASSUME TypeOK, LockInv, DataInv, ShellsInv, NothingAfterDrops, NEW p \in Proc, Submit(p) \/ Acquire(p)
  PROVE  ShellsInv'
<1>1. pc'[p] \in {"lock", "refresh"} /\ OthersRest(p)
  <2>1. CASE Submit(p)
    BY <2>1 DEF Submit, Goto, TypeOK, OthersRest, catalog, work, ghost
  <2>2. CASE Acquire(p)
    <3>1. \A q \in Proc \ {p} : lock'[q] = lock[q]
      BY <2>2 DEF Acquire, TypeOK
    <3> QED
      BY <2>2, <3>1 DEF Acquire, Goto, TypeOK, OthersRest, catalog, work, ghost
  <2> QED
    BY <2>1, <2>2
<1>2. MayFail => RemovesLast(script'[p])
  <2>1. CASE Submit(p)
    BY <2>1 DEF Submit, TypeOK, NothingAfterDrops
  <2>2. CASE Acquire(p)
    BY <2>2, ShellsOfEach DEF Acquire, At, MyShells
  <2> QED
    BY <2>1, <2>2
<1>3. LiveStays
  BY DEF Submit, Acquire, LiveStays, disk
<1> QED
  BY <1>1, <1>2, <1>3, PlainShells DEF Past

LEMMA RefreshShells ==
  ASSUME TypeOK, LockInv, ScriptInv, DataInv, ShellsInv, NEW p \in Proc, Refresh(p)
  PROVE  ShellsInv'
<1>1. pc[p] = "refresh" /\ pc'[p] = "run" /\ \A q \in Proc \ {p} : pc'[q] = pc[q]
  BY DEF Refresh, At, Goto, TypeOK
<1>2. cat'[p] = {f \in File : fstate[f] = "live" /\ frows[f] # {}}
      /\ \A q \in Proc \ {p} : cat'[q] = cat[q] /\ basis'[q] = basis[q]
  BY DEF Refresh, TypeOK
<1>3. OthersRest(p) /\ LiveStays /\ FilesStay /\ UNCHANGED <<fstate, frows, script>>
  BY <1>1, <1>2 DEF OthersRest, LiveStays, FilesStay, Refresh, work, disk
<1>4. Unregistered(p)' = {}
  BY <1>2, <1>3 DEF Unregistered
<1>5. MayFail => RemovesLast(script[p])
  BY <1>1, ShellsOfEach DEF MyShells
<1> QED
  BY <1>1, <1>3, <1>4, <1>5, StepShells DEF MyShells, Registers

LEMMA NameTablesShells ==
  ASSUME TypeOK, LockInv, ScriptInv, DataInv, ShellsInv, NEW p \in Proc, NameTables(p)
  PROVE  ShellsInv'
<1>1. pc[p] = "run" /\ pc'[p] \in {"run", "end"} /\ Cmd(p).over = "all" /\ \A q \in Proc \ {p} : pc'[q] = pc[q]
  BY DEF NameTables, At, Goto, TypeOK
<1>2. script[p] \in Seq(Command) /\ script[p] # <<>> /\ Cmd(p) \in Command /\ Cmd(p) = script[p][1] /\ 1 \in DOMAIN script[p]
  BY <1>1, HeadAndTail
<1> DEFINE c == [Cmd(p) EXCEPT !.over = "each", !.tables = tabs[p]]
<1>3. c \in Command /\ c.kind = script[p][1].kind
  <2>1. tabs[p] \in SUBSET Table
    BY DEF TypeOK
  <2> QED
    BY <1>2, <2>1 DEF Command
<1>4. script' = [script EXCEPT ![p] = <<c>> \o Tail(script[p])]
  BY DEF NameTables
<1> HIDE DEF c
<1>5. script'[p] = <<c>> \o Tail(script[p]) /\ \A q \in Proc \ {p} : script'[q] = script[q]
  BY <1>4 DEF TypeOK
<1>6. MayFail => RemovesLast(script'[p])
  <2> SUFFICES ASSUME MayFail
               PROVE  RemovesLast(script'[p])
    OBVIOUS
  <2>1. RemovesLast(script[p])
    BY <1>1, ShellsOfEach DEF MyShells
  <2>2. c.kind \notin Removal
    BY <1>1, <1>2, <1>3, <2>1 DEF RemovesLast
  <2> QED
    BY <1>2, <1>3, <1>5, <2>1, <2>2, RemovesLastAfterHead
<1>7. OthersRest(p) /\ LiveStays
  BY <1>1, <1>5 DEF OthersRest, LiveStays, NameTables, disk, catalog, work, ghost
<1> QED
  BY <1>1, <1>6, <1>7, PlainShells DEF NameTables, catalog, Past

LEMMA EndCommandShells ==
  ASSUME TypeOK, LockInv, ScriptInv, DataInv, ShellsInv, NEW p \in Proc, EndCommand(p)
  PROVE  ShellsInv'
<1>1. pc[p] \in {"end", "answered", "failed"} /\ NextCommand(p) /\ UNCHANGED disk
  BY DEF EndCommand
<1>2. CASE Release(p)
  BY <1>1, <1>2, ReleaseShells
<1>3. CASE ~Release(p)
  <2> DEFINE left == Cmd(p).tables \ {cur[p]}
             c == [Cmd(p) EXCEPT !.tables = left]
             s == IF left = {} THEN Tail(script[p]) ELSE <<c>> \o Tail(script[p])
  <2>1. Continue(p, s)
    BY <1>1, <1>3 DEF NextCommand
  <2>2. script[p] \in Seq(Command) /\ script[p] # <<>> /\ Cmd(p) \in Command /\ Cmd(p) = script[p][1]
    BY <1>1, HeadAndTail
  <2>3. c \in Command /\ c.kind = script[p][1].kind /\ c.over = script[p][1].over /\ c.tables \subseteq script[p][1].tables
    BY <2>2 DEF Command
  <2> HIDE DEF c, left
  <2>4. RemovesLast(script[p]) => RemovesLast(s)
    BY <2>2, <2>3, RemovesLastOfRest, RemovesLastAfterHead
  <2> HIDE DEF s
  <2>5. pc'[p] = "run" /\ script'[p] = s /\ UNCHANGED <<lock, cat>>
    BY <2>1 DEF Continue, Goto, TypeOK, catalog
  <2>6. OthersRest(p) /\ LiveStays /\ FilesStay
    BY <1>1, <2>1 DEF OthersRest, LiveStays, FilesStay, Continue, Goto, TypeOK, disk, catalog
  <2>7. MyShells(p)
    BY ShellsOfEach
  <2>8. lock[p] = "exclusive" => Unregistered(p) = {}
    BY <1>1, <1>3, <2>7, RemovalEnds DEF MyShells, Registers, Past
  <2>9. Unregistered(p)' = Unregistered(p)
    BY <1>1, <2>5 DEF Unregistered, disk
  <2>10. MyShells(p)'
    BY <1>1, <2>4, <2>5, <2>7, <2>8, <2>9 DEF MyShells, Registers
  <2> QED
    BY <2>6, <2>10, StepShells
<1> QED
  BY <1>2, <1>3

LEMMA RewriteStopsShells ==
  ASSUME TypeOK, LockInv, DataInv, ShellsInv, NEW p \in Proc, WriteFails(p) \/ FinishRewrite(p) \/ SupersedeFails(p)
  PROVE  ShellsInv'
<1>1. /\ pc[p] \in {"write", "supersede"} /\ pc'[p] \in {"failed", "end", "supersede"}
      /\ \A q \in Proc \ {p} : pc'[q] = pc[q] /\ todo'[q] = todo[q]
  BY DEF WriteFails, FinishRewrite, SupersedeFails, At, Goto, TypeOK, work
<1>2. OthersRest(p) /\ LiveStays /\ UNCHANGED <<lock, cat, cur, script>>
  BY <1>1 DEF OthersRest, LiveStays, WriteFails, FinishRewrite, SupersedeFails, disk, catalog, work, ghost
<1>3. MayFail => RemovesLast(script[p])
  BY <1>1, ShellsOfEach DEF MyShells
<1> QED
  BY <1>1, <1>2, <1>3, PlainShells DEF Past

\* A new file of rows is registered by its writer.
LEMMA CommitShells ==
  ASSUME TypeOK, LockInv, DataInv, ShellsInv, NEW p \in Proc, OthersRest(p), lock[p] # "none", Past(p),
         NEW f \in File, NEW t \in Table, NEW R \in SUBSET Row, Commit(f, t, R),
         UNCHANGED <<lock, script, cur>>, todo'[p] = todo[p],
         pc[p] \notin {"run", "move"}, pc'[p] \notin {"run", "move"}, pc'[p] = "write" => pc[p] = "write",
         (R = {} /\ cat'[p] = cat[p]) \/ cat'[p] = cat[p] \cup {f}
  PROVE  ShellsInv'
<1>1. /\ FilesStay /\ fstate[f] = "none" /\ ftable'[f] = t /\ frows'[f] = R
      /\ \A g \in File \ {f} : fstate'[g] = fstate[g] /\ ftable'[g] = ftable[g] /\ frows'[g] = frows[g]
  BY CommitGives
<1>2. MyShells(p) /\ Known(p)
  BY ShellsOfEach DEF DataInv, Mine
<1>3. Unregistered(p)' \subseteq Unregistered(p)
  BY <1>1 DEF Unregistered
<1>4. Registers(p)'
  BY <1>2, <1>3 DEF MyShells, Registers, Cmd
<1>5. pc'[p] = "write" => \A g \in todo'[p] \ Extents(p, cur[p])' : frows'[g] = {}
  <2> SUFFICES ASSUME pc[p] = "write", NEW g \in todo[p], g \notin Extents(p, cur[p])'
               PROVE  frows'[g] = {}
    OBVIOUS
  <2>1. g \in File \ {f}
    BY <1>1, <1>2 DEF Known, TypeOK
  <2>2. g \notin Extents(p, cur[p])
    BY <1>1, <2>1 DEF Extents
  <2> QED
    BY <1>1, <1>2, <2>1, <2>2 DEF MyShells
<1>6. MyShells(p)'
  BY <1>2, <1>4, <1>5 DEF MyShells, Past
<1> QED
  BY <1>1, <1>6, StepShells

LEMMA WriterShells ==
  ASSUME TypeOK, LockInv, ScriptInv, DataInv, ShellsInv, NEW p \in Proc,
         CreateTable(p) \/ AppendRows(p) \/ WriteExtent(p)
  PROVE  ShellsInv'
<1>1. pc[p] \in {"create", "append", "write"} /\ cur[p] \in Table /\ lock[p] # "none"
  BY WritersLock DEF CreateTable, AppendRows, WriteExtent, At, ScriptInv, DataInv, Mine, Writing
<1>2. UNCHANGED <<lock, script, cur, todo, gone, seen>>
  BY DEF CreateTable, AppendRows, WriteExtent, work
<1>3. \E f \in File, R \in SUBSET Row :
        /\ Commit(f, cur[p], R)
        /\ (R = {} /\ cat' = cat) \/ cat' = [cat EXCEPT ![p] = @ \cup {f}]
  <2>1. CASE CreateTable(p)
    BY <2>1 DEF CreateTable
  <2>2. CASE AppendRows(p)
    BY <2>2 DEF AppendRows, UnusedRows
  <2>3. CASE WriteExtent(p)
    BY <2>3 DEF WriteExtent, TypeOK
  <2> QED
    BY <2>1, <2>2, <2>3
<1>4. /\ pc'[p] \in {"end", "append", "write", "supersede"} /\ (pc'[p] = "write" => pc[p] = "write")
      /\ \A q \in Proc \ {p} : pc'[q] = pc[q] /\ rest'[q] = rest[q] /\ fresh'[q] = fresh[q] /\ basis'[q] = basis[q]
  <2>1. CASE CreateTable(p)
    BY <2>1 DEF CreateTable, At, Goto, TypeOK, work, ghost
  <2>2. CASE AppendRows(p)
    <3>1. PICK R : basis' = [basis EXCEPT ![p][cur[p]] = @ \cup R]
      BY <2>2 DEF AppendRows
    <3> QED
      BY <2>2, <3>1 DEF AppendRows, At, Goto, TypeOK, work
  <2>3. CASE WriteExtent(p)
    <3>1. PICK f, C :
            /\ rest' = [rest EXCEPT ![p] = @ \ C] /\ fresh' = [fresh EXCEPT ![p] = @ \cup {f}]
            /\ (basis' = [basis EXCEPT ![p][cur[p]] = (@ \cup C) \ gone[p]]
                \/ basis' = [basis EXCEPT ![p][cur[p]] = @ \cup C])
      BY <2>3 DEF WriteExtent
    <3> QED
      BY <2>3, <3>1 DEF WriteExtent, At, Goto, TypeOK
  <2> QED
    BY <2>1, <2>2, <2>3
<1>5. PICK f \in File, R \in SUBSET Row :
        /\ Commit(f, cur[p], R)
        /\ (R = {} /\ cat' = cat) \/ cat' = [cat EXCEPT ![p] = @ \cup {f}]
  BY <1>3
<1>6. /\ (R = {} /\ cat'[p] = cat[p]) \/ cat'[p] = cat[p] \cup {f}
      /\ \A q \in Proc \ {p} : cat'[q] = cat[q]
  BY <1>5 DEF TypeOK
<1>7. OthersRest(p)
  BY <1>2, <1>4, <1>6 DEF OthersRest
<1> QED
  BY <1>1, <1>2, <1>4, <1>5, <1>6, <1>7, CommitShells DEF Past

LEMMA StartRewriteShells ==
  ASSUME TypeOK, LockInv, ScriptInv, DataInv, ShellsInv, NoLongerNames, NEW p \in Proc, NEW t \in Table, NEW k,
         Begins(p, t, k), k \in {"replace", "compact", "delete"}, NEW R, NEW G, NEW old, StartRewrite(p, R, G, old),
         old \subseteq Extents(p, t) \cup Shells(p, t)
  PROVE  ShellsInv'
<1>1. pc[p] = "run" /\ pc'[p] = "write" /\ cur'[p] = t /\ todo'[p] = old /\ Cmd(p).kind = k
  BY DEF Begins, StartRewrite, At, Goto, TypeOK
<1>2. OthersRest(p)
  BY DEF OthersRest, Begins, StartRewrite, Goto, TypeOK, disk, catalog, ghost
<1>3. UNCHANGED <<fstate, ftable, frows, lock, cat, script>> /\ LiveStays /\ FilesStay
  BY DEF LiveStays, FilesStay, StartRewrite, disk, catalog
<1>4. lock[p] = "exclusive"
  BY <1>1, RewriteKinds DEF LockInv, InStatement
<1>5. MyShells(p) /\ Unregistered(p) = {}
  BY <1>1, <1>4, ShellsOfEach DEF MyShells, Registers, Past
<1>6. Unregistered(p)' = Unregistered(p)
  BY <1>3 DEF Unregistered
<1>7. \A f \in old \ Extents(p, t) : frows[f] = {}
  <2>1. GlobLive(t) = Live(t)
    BY GlobsAreExact
  <2> QED
    BY <1>5, <2>1 DEF Shells, Live, Extents, Unregistered
<1>8. Extents(p, cur[p])' = Extents(p, t)
  BY <1>1, <1>3 DEF Extents
<1>9. MyShells(p)'
  BY <1>1, <1>3, <1>5, <1>6, <1>7, <1>8 DEF MyShells, Registers
<1> QED
  BY <1>2, <1>3, <1>9, StepShells

LEMMA RewriterShells ==
  ASSUME TypeOK, LockInv, ScriptInv, DataInv, ShellsInv, NoLongerNames, NEW p \in Proc,
         BeginReplace(p) \/ BeginCompact(p) \/ BeginDelete(p)
  PROVE  ShellsInv'
<1>1. \E t \in tabs[p], k \in {"replace", "compact", "delete"} : \E R, G, old :
        /\ Begins(p, t, k) /\ StartRewrite(p, R, G, old)
        /\ old \subseteq Extents(p, t) \cup Shells(p, t)
  <2>1. CASE BeginReplace(p)
    BY <2>1 DEF BeginReplace
  <2>2. CASE BeginCompact(p)
    BY <2>2 DEF BeginCompact
  <2>3. CASE BeginDelete(p)
    BY <2>3 DEF BeginDelete
  <2> QED
    BY <2>1, <2>2, <2>3
<1> QED
  BY <1>1, StartRewriteShells DEF TypeOK

LEMMA SupersedeShells ==
  ASSUME TypeOK, LockInv, DataInv, ShellsInv, NEW p \in Proc, Supersede(p)
  PROVE  ShellsInv'
<1>1. pc[p] = "supersede" /\ UNCHANGED <<ftable, frows, lock, pc, script, cur, rest, gone, fresh, seen, basis>>
  BY DEF Supersede, At, ghost
<1>2. PICK f \in todo[p] :
        /\ fstate[f] = "live" /\ fstate' = [fstate EXCEPT ![f] = "superseded"]
        /\ todo' = [todo EXCEPT ![p] = @ \ {f}] /\ cat' = [cat EXCEPT ![p] = @ \ {f}]
  BY DEF Supersede
<1>3. lock[p] = "exclusive" /\ f \in File
  BY <1>1, RewritersAlone DEF Rewriting, TypeOK
<1>4. FilesStay /\ OthersRest(p)
  BY <1>1, <1>2, <1>3 DEF FilesStay, OthersRest, TypeOK
<1>5. Unregistered(p)' \subseteq Unregistered(p)
  BY <1>1, <1>2, <1>3 DEF Unregistered, TypeOK
<1>6. MyShells(p)
  BY ShellsOfEach
<1>7. MyShells(p)'
  BY <1>1, <1>5, <1>6 DEF MyShells, Registers, Past, Cmd
<1> QED
  BY <1>3, <1>4, <1>7, StepShells

LEMMA BeginDropShells ==
  ASSUME TypeOK, LockInv, ScriptInv, DataInv, ShellsInv, NoLongerNames, NEW p \in Proc, BeginDrop(p)
  PROVE  ShellsInv'
<1>1. PICK t \in tabs[p] : \E k \in {"drop", "recreate"} :
        /\ Begins(p, t, k)
        /\ todo' = [todo EXCEPT ![p] = GlobLive(t) \cup GlobSuperseded(t)]
        /\ cat' = [cat EXCEPT ![p] = @ \ Extents(p, t)]
        /\ basis' = [basis EXCEPT ![p][t] = {}]
  BY DEF BeginDrop
<1>2. pc[p] = "run" /\ t \in Cmd(p).tables /\ Cmd(p).kind \in Removal /\ cur' = [cur EXCEPT ![p] = t] /\ t \in Table
  BY <1>1 DEF Begins, At, Removal, TypeOK
<1>3. UNCHANGED <<fstate, ftable, frows, lock, script, rest, gone, fresh, seen>> /\ LiveStays /\ FilesStay
  BY DEF BeginDrop, disk, LiveStays, FilesStay
<1>4. /\ pc'[p] = "move" /\ cur'[p] = t /\ cat'[p] = cat[p] \ Extents(p, t)
      /\ \A q \in Proc \ {p} : pc'[q] = pc[q] /\ cur'[q] = cur[q] /\ cat'[q] = cat[q] /\ basis'[q] = basis[q]
  BY <1>1, <1>2 DEF BeginDrop, Goto, TypeOK
<1>5. todo'[p] = GlobLive(t) \cup GlobSuperseded(t) /\ \A q \in Proc \ {p} : todo'[q] = todo[q]
  BY <1>1 DEF TypeOK
<1>6. OthersRest(p)
  BY <1>3, <1>4, <1>5 DEF OthersRest
<1>7. MyShells(p)
  BY ShellsOfEach
<1>8. Unregistered(p)' \subseteq Unregistered(p) \cup Live(t) /\ Live(t) \subseteq todo'[p]
  <2>1. GlobLive(t) = Live(t)
    BY <1>2, GlobsAreExact
  <2> QED
    BY <1>3, <1>4, <1>5, <2>1 DEF Unregistered, Live, Extents
<1>9. Registers(p)'
  BY <1>2, <1>3, <1>4, <1>7, <1>8 DEF MyShells, Registers, Past
<1>10. MyShells(p)'
  BY <1>2, <1>3, <1>4, <1>7, <1>9 DEF MyShells, Cmd
<1> QED
  BY <1>3, <1>6, <1>10, StepShells

\* What is moved is not registered, and without failing calls nothing stays behind.
LEMMA MoveShells ==
  ASSUME TypeOK, LockInv, DataInv, ShellsInv, NEW p \in Proc, MoveFile(p) \/ MoveMissing(p)
  PROVE  ShellsInv'
<1>1. pc[p] = "move" /\ UNCHANGED <<ftable, frows, lock, pc, script, cur, cat, rest, gone, fresh, seen, basis>>
  BY DEF MoveFile, MoveMissing, At, disk, catalog, ghost
<1>2. lock[p] # "none"
  BY <1>1, WritersLock DEF DataInv, Mine, Writing
<1>3. PICK f \in todo[p] :
        /\ todo' = [todo EXCEPT ![p] = @ \ {f}]
        /\ \/ fstate[f] \in {"live", "superseded"} /\ fstate' = [fstate EXCEPT ![f] = "archived"]
           \/ fstate' = fstate /\ (MayFail \/ fstate[f] # "live")
  BY DEF MoveFile, MoveMissing, disk
<1>4. f \in File /\ todo'[p] = todo[p] \ {f} /\ \A q \in Proc \ {p} : todo'[q] = todo[q]
  BY <1>3 DEF TypeOK
<1>5. FilesStay /\ OthersRest(p)
  BY <1>1, <1>3, <1>4 DEF FilesStay, OthersRest, TypeOK
<1>6. Unregistered(p)' \subseteq Unregistered(p) /\ (f \notin Unregistered(p)' \/ MayFail)
  BY <1>1, <1>3, <1>4 DEF Unregistered, TypeOK
<1>7. MyShells(p)
  BY ShellsOfEach
<1>8. Registers(p)'
  BY <1>1, <1>4, <1>6, <1>7 DEF MyShells, Registers, Past, Cmd
<1>9. MyShells(p)'
  BY <1>1, <1>7, <1>8 DEF MyShells, Cmd
<1> QED
  BY <1>2, <1>5, <1>9, StepShells

LEMMA DropExtentShells ==
  ASSUME TypeOK, LockInv, ScriptInv, DataInv, ShellsInv, NEW p \in Proc, DropExtent(p)
  PROVE  ShellsInv'
<1>1. PICK t \in tabs[p] : \E f \in Extents(p, t) :
        /\ Begins(p, t, "dropExtent")
        /\ cat' = [cat EXCEPT ![p] = @ \ {f}]
        /\ fstate' = [fstate EXCEPT ![f] = IF @ = "live" THEN "deleted" ELSE @]
        /\ basis' = [basis EXCEPT ![p][t] = @ \ frows[f]]
  BY DEF DropExtent
<1>2. PICK f \in Extents(p, t) :
        /\ Begins(p, t, "dropExtent")
        /\ cat' = [cat EXCEPT ![p] = @ \ {f}]
        /\ fstate' = [fstate EXCEPT ![f] = IF @ = "live" THEN "deleted" ELSE @]
        /\ basis' = [basis EXCEPT ![p][t] = @ \ frows[f]]
  BY <1>1
<1>3. pc[p] = "run" /\ lock[p] # "none" /\ cur' = [cur EXCEPT ![p] = t] /\ f \in File
  BY <1>2, BeginsLocked DEF Begins, At, Extents, TypeOK
<1>4. UNCHANGED <<ftable, frows, lock, script, todo, rest, gone, fresh, seen>>
  BY DEF DropExtent, work
<1>5. /\ pc'[p] = "end" /\ cat'[p] = cat[p] \ {f}
      /\ \A q \in Proc \ {p} : pc'[q] = pc[q] /\ cur'[q] = cur[q] /\ cat'[q] = cat[q] /\ basis'[q] = basis[q]
  BY <1>2, <1>3 DEF DropExtent, Goto, TypeOK
<1>6. fstate'[f] # "live" /\ \A g \in File \ {f} : fstate'[g] = fstate[g]
  BY <1>2, <1>3 DEF TypeOK
<1>7. FilesStay /\ OthersRest(p)
  <2>1. fstate[f] # "none" => fstate'[f] # "none"
    BY <1>2, <1>3 DEF TypeOK
  <2> QED
    BY <1>4, <1>5, <1>6, <2>1 DEF FilesStay, OthersRest
<1>8. Unregistered(p)' \subseteq Unregistered(p)
  BY <1>4, <1>5, <1>6 DEF Unregistered
<1>9. MyShells(p)
  BY ShellsOfEach
<1>10. MyShells(p)'
  BY <1>3, <1>4, <1>5, <1>8, <1>9 DEF MyShells, Registers, Past
<1> QED
  BY <1>3, <1>7, <1>10, StepShells

LEMMA ShellsStep ==
  ASSUME TypeOK, LockInv, ScriptInv, DataInv, ShellsInv, NoLongerNames, NothingAfterDrops, [Next]_vars
  PROVE  ShellsInv'
<1>1. ASSUME NEW p \in Proc, Submit(p) \/ Statement(p) \/ RefreshFails(p) \/ Crash(p)
      PROVE  ShellsInv'
  <2>1. ASSUME AbortStatement(p) \/ RefreshFails(p) \/ Crash(p)
        PROVE  ShellsInv'
    BY <2>1, ReleaseShells DEF AbortStatement, RefreshFails, Crash
  <2> QED
    BY <1>1, <2>1, QuietSteps, QuietShells, SubmitShells, RefreshShells, NameTablesShells, EndCommandShells,
       RewriteStopsShells, WriterShells, RewriterShells, SupersedeShells, BeginDropShells, MoveShells,
       DropExtentShells DEF Statement
<1>2. CASE UNCHANGED vars
  BY <1>2 DEF vars, disk, catalog, work, ghost, ShellsInv, ShellsAreEmpty, At, Registers, Past, Unregistered, Extents, Cmd
<1> QED
  BY <1>1, <1>2 DEF Next

\* What a rewrite supersedes without having read it holds no row, when no table's name
\* begins another's and no script goes on after a .drop table that may have failed: then
\* the table's files are back under a catalog that does not have them.
THEOREM UnreadShellsAreEmpty == NoLongerNames /\ NothingAfterDrops /\ Spec => []ShellsAreEmpty
<1>1. Init => ShellsInv
  BY DEF Init, ShellsInv, ShellsAreEmpty, At, Registers, Past
<1>2. NoLongerNames /\ NothingAfterDrops /\ TypeOK /\ LockInv /\ ScriptInv /\ DataInv /\ ShellsInv /\ [Next]_vars
        => ShellsInv'
  BY ShellsStep
<1>3. ShellsInv => ShellsAreEmpty
  BY DEF ShellsInv
<1>4. NoLongerNames /\ NothingAfterDrops => [](NoLongerNames /\ NothingAfterDrops)
  <2>1. NoLongerNames /\ NothingAfterDrops => (NoLongerNames /\ NothingAfterDrops)'
    BY DEF NoLongerNames, NothingAfterDrops, RemovesLast
  <2> QED
    BY <2>1, PTL
<1> QED
  BY <1>1, <1>2, <1>3, <1>4, DataInductive, PTL DEF Spec
===============================================================================
