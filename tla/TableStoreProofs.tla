-------------------------- MODULE TableStoreProofs --------------------------
(***************************************************************************)
(* To the statements with the lock a directory is the store of tables that *)
(* TableStore specifies (ImplementsStore), for any processes, tables,      *)
(* files, rows and scripts, when no table's name begins another's and no   *)
(* script goes on after a .drop table that may have failed.                *)
(*                                                                         *)
(* Every step of the code is a step of the store, or none.  Most are none: *)
(* a rewrite's new files are hidden until the last is written, its old     *)
(* ones from then on, so the last new file is the rewrite and each failing *)
(* rename takes some of it back.  That the last new file changes the table *)
(* into what the command promises, and that dying before it leaves rows    *)
(* the table had or rows that were nowhere, is the invariant Halfway.      *)
(***************************************************************************)
EXTENDS ScopeStoreProofs

-----------------------------------------------------------------------------
(* The invariant.                                                          *)

\* What is being done is what the command in hand is for.
Fits(p) ==
  /\ pc[p] = "scan" => Cmd(p).kind = "query"
  /\ pc[p] = "append" => Cmd(p).kind \in {"append", "replace", "recreate"}
  /\ Rewriting(p) => Cmd(p).kind \in {"replace", "compact", "delete"}

\* The rows a rewrite will have written.
Kept(p) == rest[p] \cup RowsOf(fresh[p])

\* Before its last new file a compaction or a deletion has written and keeps only rows of
\* the extents it found, a replacement only rows that no other file has, and it supersedes
\* all the others of its table.
Halfway(p) ==
  /\ Rewriting(p) => fresh[p] \subseteq cat[p]
  /\ pc[p] = "write" /\ Cmd(p).kind # "replace" => Kept(p) \subseteq RowsOf(Extents(p, cur[p]) \ fresh[p])
  /\ pc[p] = "write" /\ Cmd(p).kind = "replace" =>
       /\ Live(cur[p]) \ fresh[p] \subseteq todo[p]
       /\ Kept(p) \cap RowsOf({f \in File : fstate[f] # "none"} \ fresh[p]) = {}

HalfwayInv == \A p \in Proc : Fits(p) /\ Halfway(p)

-----------------------------------------------------------------------------
(* What each step does to its own statement.                               *)

LEMMA TurnGives ==
  ASSUME TypeOK, ScriptInv, NEW p \in Proc, EndCommand(p) \/ AbortStatement(p) \/ RefreshFails(p) \/ Crash(p)
  PROVE  /\ OthersRest(p) /\ LiveStays /\ FilesStay
         /\ \/ lock'[p] = "none" /\ pc'[p] = "idle"
            \/ /\ EndCommand(p) /\ pc'[p] = "run" /\ lock'[p] = lock[p] /\ cat'[p] = cat[p]
               /\ fresh'[p] = {} /\ seen'[p] = {} /\ todo'[p] = {}
<1>1. UNCHANGED disk
  BY DEF EndCommand, AbortStatement, RefreshFails, Crash
<1>2. LiveStays /\ FilesStay
  BY <1>1 DEF LiveStays, FilesStay, disk
<1>3. CASE Release(p)
  BY <1>2, <1>3 DEF Release, OthersRest, TypeOK
<1>4. CASE ~Release(p)
  <2>1. EndCommand(p) /\ NextCommand(p) /\ pc[p] # "idle"
    BY <1>4 DEF EndCommand, AbortStatement, RefreshFails, Crash
  <2>2. PICK s \in Seq(Command) \ {<<>>} : Continue(p, s)
    BY <1>4, <2>1, NextScript
  <2> QED
    BY <1>2, <2>1, <2>2 DEF Continue, Goto, OthersRest, TypeOK, catalog
<1> QED
  BY <1>3, <1>4

LEMMA SubmitGives ==
  ASSUME TypeOK, NEW p \in Proc, Submit(p) \/ Acquire(p)
  PROVE  /\ OthersRest(p) /\ LiveStays /\ FilesStay /\ pc'[p] \in {"lock", "refresh"}
         /\ UNCHANGED <<cat, todo, rest, fresh, seen>>
<1>1. LiveStays /\ FilesStay
  BY DEF Submit, Acquire, LiveStays, FilesStay, disk
<1>2. CASE Submit(p)
  BY <1>1, <1>2 DEF Submit, Goto, TypeOK, OthersRest, catalog, work, ghost
<1>3. CASE Acquire(p)
  <2>1. \A q \in Proc \ {p} : lock'[q] = lock[q]
    BY <1>3 DEF Acquire, TypeOK
  <2> QED
    BY <1>1, <1>3, <2>1 DEF Acquire, Goto, TypeOK, OthersRest, catalog, work, ghost
<1> QED
  BY <1>2, <1>3

LEMMA RefreshGives ==
  ASSUME TypeOK, NEW p \in Proc, Refresh(p)
  PROVE  /\ OthersRest(p) /\ LiveStays /\ FilesStay /\ UNCHANGED <<fstate, ftable, frows, lock, script, todo, fresh, seen>>
         /\ pc[p] = "refresh" /\ pc'[p] = "run"
         /\ cat'[p] = {f \in File : fstate[f] = "live" /\ frows[f] # {}}
<1>1. pc[p] = "refresh" /\ pc'[p] = "run" /\ \A q \in Proc \ {p} : pc'[q] = pc[q]
  BY DEF Refresh, At, Goto, TypeOK
<1>2. cat'[p] = {f \in File : fstate[f] = "live" /\ frows[f] # {}}
      /\ \A q \in Proc \ {p} : cat'[q] = cat[q] /\ basis'[q] = basis[q]
  BY DEF Refresh, TypeOK
<1> QED
  BY <1>1, <1>2 DEF Refresh, OthersRest, LiveStays, FilesStay, work, disk

LEMMA NameTablesGives ==
  ASSUME TypeOK, ScriptInv, NEW p \in Proc, NameTables(p)
  PROVE  /\ OthersRest(p) /\ LiveStays /\ FilesStay /\ UNCHANGED <<lock, cat, todo, rest, fresh, seen>>
         /\ pc[p] = "run" /\ pc'[p] \in {"run", "end"} /\ Cmd(p)'.kind = Cmd(p).kind
<1>1. pc[p] = "run" /\ pc'[p] \in {"run", "end"} /\ \A q \in Proc \ {p} : pc'[q] = pc[q]
  BY DEF NameTables, At, Goto, TypeOK
<1> DEFINE c == [Cmd(p) EXCEPT !.over = "each", !.tables = tabs[p]]
<1>2. c \in Command /\ c.kind = Cmd(p).kind /\ Tail(script[p]) \in Seq(Command)
  <2>1. tabs[p] \in SUBSET Table /\ Cmd(p) \in Command /\ Tail(script[p]) \in Seq(Command)
    BY <1>1, HeadAndTail DEF TypeOK
  <2> QED
    BY <2>1 DEF Command
<1>3. script' = [script EXCEPT ![p] = <<c>> \o Tail(script[p])]
  BY DEF NameTables
<1> HIDE DEF c
<1>4. Head(<<c>> \o Tail(script[p])) = c
  BY <1>2
<1>5. script'[p] = <<c>> \o Tail(script[p]) /\ \A q \in Proc \ {p} : script'[q] = script[q]
  BY <1>3 DEF TypeOK
<1>6. OthersRest(p) /\ LiveStays /\ FilesStay
  BY <1>1, <1>5 DEF OthersRest, LiveStays, FilesStay, NameTables, disk, catalog, work, ghost
<1> QED
  BY <1>1, <1>2, <1>4, <1>5, <1>6 DEF NameTables, Cmd, catalog, work

LEMMA CreateTableGives ==
  ASSUME TypeOK, ScriptInv, DataInv, NEW p \in Proc, CreateTable(p)
  PROVE  /\ OthersRest(p) /\ lock[p] # "none" /\ cur[p] \in Table /\ pc[p] = "create"
         /\ UNCHANGED <<lock, script, cur, cat, todo, rest, fresh, seen>>
         /\ \E f \in File : Commit(f, cur[p], {})
         /\ pc'[p] \in {"end", "append"}
         /\ pc'[p] = "append" => Cmd(p).kind \in {"append", "replace", "recreate"}
<1>1. pc[p] = "create" /\ cur[p] \in Table /\ Mine(p)
  BY DEF CreateTable, At, ScriptInv, DataInv
<1>2. /\ pc'[p] \in {"end", "append"} /\ \A q \in Proc \ {p} : pc'[q] = pc[q]
      /\ pc'[p] = "append" => Cmd(p).kind \in {"append", "replace", "recreate"}
  BY <1>1 DEF CreateTable, Goto, TypeOK
<1>3. lock[p] # "none"
  BY <1>1, WritersLock DEF Mine, Writing
<1> QED
  BY <1>1, <1>2, <1>3 DEF OthersRest, CreateTable, work, ghost

LEMMA AppendRowsGives ==
  ASSUME TypeOK, ScriptInv, DataInv, NEW p \in Proc, AppendRows(p)
  PROVE  /\ OthersRest(p) /\ lock[p] # "none" /\ cur[p] \in Table /\ pc[p] = "append"
         /\ UNCHANGED <<lock, script, cur, todo, rest, fresh, seen>>
         /\ pc'[p] = "end" \/ (pc'[p] = "append" /\ Cmd(p).kind = "append")
         /\ \E f \in File, R \in SUBSET UnusedRows :
              R # {} /\ Commit(f, cur[p], R) /\ cat' = [cat EXCEPT ![p] = @ \cup {f}]
<1>1. pc[p] = "append" /\ cur[p] \in Table /\ Mine(p)
  BY DEF AppendRows, At, ScriptInv, DataInv
<1>2. PICK f \in File, R \in SUBSET UnusedRows :
        /\ R # {} /\ Commit(f, cur[p], R) /\ cat' = [cat EXCEPT ![p] = @ \cup {f}]
        /\ basis' = [basis EXCEPT ![p][cur[p]] = @ \cup R]
  BY DEF AppendRows
<1>3. \A q \in Proc \ {p} : cat'[q] = cat[q] /\ basis'[q] = basis[q]
  BY <1>2 DEF TypeOK
<1>4. /\ pc'[p] = "end" \/ (pc'[p] = "append" /\ Cmd(p).kind = "append")
      /\ \A q \in Proc \ {p} : pc'[q] = pc[q]
  BY <1>1 DEF AppendRows, Goto, TypeOK
<1>5. lock[p] # "none"
  BY <1>1, WritersLock DEF Mine, Writing
<1> QED
  BY <1>1, <1>2, <1>3, <1>4, <1>5 DEF OthersRest, AppendRows, work

LEMMA WriteExtentGives ==
  ASSUME TypeOK, LockInv, ScriptInv, NEW p \in Proc, WriteExtent(p)
  PROVE  /\ OthersRest(p) /\ lock[p] = "exclusive" /\ cur[p] \in Table /\ pc[p] = "write"
         /\ UNCHANGED <<lock, script, cur, todo, seen>>
         /\ \E f \in File, C \in SUBSET rest[p] :
              /\ Commit(f, cur[p], C) /\ cat' = [cat EXCEPT ![p] = @ \cup {f}]
              /\ rest'[p] = rest[p] \ C /\ fresh'[p] = fresh[p] \cup {f}
              /\ pc'[p] = IF rest[p] = C THEN "supersede" ELSE "write"
<1>1. pc[p] = "write" /\ cur[p] \in Table /\ lock[p] = "exclusive"
  BY RewritersAlone DEF WriteExtent, At, ScriptInv, Rewriting
<1>2. PICK f \in File, C \in SUBSET rest[p] :
        /\ Commit(f, cur[p], C)
        /\ rest' = [rest EXCEPT ![p] = @ \ C]
        /\ fresh' = [fresh EXCEPT ![p] = @ \cup {f}]
        /\ cat' = [cat EXCEPT ![p] = @ \cup {f}]
        /\ IF rest[p] = C
           THEN /\ basis' = [basis EXCEPT ![p][cur[p]] = (@ \cup C) \ gone[p]]
                /\ Goto(p, "supersede")
           ELSE /\ basis' = [basis EXCEPT ![p][cur[p]] = @ \cup C]
                /\ UNCHANGED pc
  BY DEF WriteExtent
<1>3. /\ pc'[p] = IF rest[p] = C THEN "supersede" ELSE "write"
      /\ \A q \in Proc \ {p} : pc'[q] = pc[q]
  BY <1>1, <1>2 DEF Goto, TypeOK
<1>4. /\ rest'[p] = rest[p] \ C /\ fresh'[p] = fresh[p] \cup {f}
      /\ \A q \in Proc \ {p} : rest'[q] = rest[q] /\ fresh'[q] = fresh[q] /\ cat'[q] = cat[q]
  BY <1>2 DEF TypeOK
<1>5. \A q \in Proc \ {p} : basis'[q] = basis[q]
  BY <1>2 DEF TypeOK
<1> QED
  BY <1>1, <1>2, <1>3, <1>4, <1>5 DEF OthersRest, WriteExtent

LEMMA StartRewriteGives ==
  ASSUME TypeOK, LockInv, ScriptInv, NEW p \in Proc, NEW t \in Table, NEW k, Begins(p, t, k),
         k \in {"replace", "compact", "delete"},
         NEW R, NEW G, NEW old, StartRewrite(p, R, G, old)
  PROVE  /\ OthersRest(p) /\ LiveStays /\ FilesStay /\ lock[p] = "exclusive"
         /\ UNCHANGED <<fstate, ftable, frows, lock, script, cat, fresh, seen>>
         /\ pc[p] = "run" /\ pc'[p] = "write" /\ cur'[p] = t /\ Cmd(p).kind = k
         /\ rest'[p] = R /\ todo'[p] = old
<1>1. pc[p] = "run" /\ pc'[p] = "write" /\ cur'[p] = t /\ Cmd(p).kind = k
  BY DEF Begins, StartRewrite, At, Goto, TypeOK
<1>2. rest'[p] = R /\ todo'[p] = old
  BY DEF StartRewrite, TypeOK
<1>3. OthersRest(p)
  BY DEF OthersRest, Begins, StartRewrite, Goto, TypeOK, disk, catalog, ghost
<1>4. LiveStays /\ FilesStay /\ UNCHANGED <<fstate, ftable, frows, lock, script, cat, fresh, seen>>
  BY DEF LiveStays, FilesStay, StartRewrite, disk, catalog
<1>5. lock[p] = "exclusive"
  BY <1>1, RewriteKinds DEF LockInv, InStatement
<1> QED
  BY <1>1, <1>2, <1>3, <1>4, <1>5

\* The three rewrites: what they keep, what they supersede.
LEMMA RewritesBegin ==
  ASSUME TypeOK, ScriptInv, NoLongerNames, NEW p \in Proc, BeginReplace(p) \/ BeginCompact(p) \/ BeginDelete(p)
  PROVE  \E t \in Table, k \in {"replace", "compact", "delete"}, R \in SUBSET Row, old \in SUBSET File : \E G :
           /\ Begins(p, t, k) /\ StartRewrite(p, R, G, old)
           /\ k # "replace" => R \subseteq RowsOf(Extents(p, t))
           /\ k = "replace" => R \subseteq UnusedRows /\ Live(t) \subseteq old
<1>1. \A t \in Table : Extents(p, t) \in SUBSET File /\ Shells(p, t) = Live(t) \ Extents(p, t) /\ Live(t) \in SUBSET File
  BY GlobsAreExact DEF Shells, Extents, Live, TypeOK
<1>2. \A S \in SUBSET File : RowsOf(S) \in SUBSET Row
  BY DEF RowsOf, TypeOK
<1>3. tabs[p] \subseteq Table
  BY DEF TypeOK
<1>4. CASE BeginReplace(p)
  <2>1. PICK t \in tabs[p], R \in SUBSET UnusedRows :
          /\ Begins(p, t, "replace")
          /\ StartRewrite(p, R, RowsOf(Extents(p, t)), Extents(p, t) \cup Shells(p, t))
    BY <1>4 DEF BeginReplace
  <2>2. R \in SUBSET Row /\ Live(t) \subseteq Extents(p, t) \cup Shells(p, t) /\ t \in Table
        /\ Extents(p, t) \cup Shells(p, t) \in SUBSET File
    BY <1>1, <1>3, <2>1 DEF UnusedRows
  <2> QED
    BY <2>1, <2>2
<1>5. CASE BeginCompact(p)
  <2>1. PICK t \in tabs[p] : \E D \in SUBSET RowsOf(Extents(p, t)) :
          /\ Begins(p, t, "compact")
          /\ StartRewrite(p, RowsOf(Extents(p, t)) \ D, D, Extents(p, t) \cup Shells(p, t))
    BY <1>5 DEF BeginCompact
  <2>2. PICK D \in SUBSET RowsOf(Extents(p, t)) :
          /\ Begins(p, t, "compact")
          /\ StartRewrite(p, RowsOf(Extents(p, t)) \ D, D, Extents(p, t) \cup Shells(p, t))
    BY <2>1
  <2>3. /\ RowsOf(Extents(p, t)) \ D \in SUBSET Row /\ RowsOf(Extents(p, t)) \ D \subseteq RowsOf(Extents(p, t))
        /\ t \in Table /\ Extents(p, t) \cup Shells(p, t) \in SUBSET File
    BY <1>1, <1>2, <1>3
  <2> QED
    BY <2>2, <2>3
<1>6. CASE BeginDelete(p)
  <2>1. PICK t \in tabs[p] : \E D \in SUBSET RowsOf(Extents(p, t)) \ {{}} :
          LET affected == {f \in Extents(p, t) : frows[f] \cap D # {}}
          IN /\ Begins(p, t, "delete")
             /\ StartRewrite(p, RowsOf(affected) \ D, D, affected)
    BY <1>6 DEF BeginDelete
  <2>2. PICK D : LET affected == {f \in Extents(p, t) : frows[f] \cap D # {}}
                 IN /\ Begins(p, t, "delete")
                    /\ StartRewrite(p, RowsOf(affected) \ D, D, affected)
    BY <2>1
  <2>3. PICK A : A = {f \in Extents(p, t) : frows[f] \cap D # {}}
    OBVIOUS
  <2>4. Begins(p, t, "delete") /\ StartRewrite(p, RowsOf(A) \ D, D, A)
    BY <2>2, <2>3
  <2>5. A \in SUBSET File /\ t \in Table /\ RowsOf(A) \subseteq RowsOf(Extents(p, t))
    BY <1>1, <1>3, <2>3 DEF RowsOf
  <2>6. RowsOf(A) \ D \in SUBSET Row /\ RowsOf(A) \ D \subseteq RowsOf(Extents(p, t))
    BY <1>2, <2>5
  <2> QED
    BY <2>4, <2>5, <2>6
<1> QED
  BY <1>4, <1>5, <1>6

LEMMA WriteFailsGives ==
  ASSUME TypeOK, LockInv, NEW p \in Proc, WriteFails(p) \/ FinishRewrite(p)
  PROVE  /\ OthersRest(p) /\ LiveStays /\ FilesStay /\ lock[p] = "exclusive"
         /\ UNCHANGED <<fstate, ftable, frows, lock, script, cur, cat, todo, rest, fresh, seen>>
         /\ \/ WriteFails(p) /\ pc[p] = "write" /\ pc'[p] = "failed"
            \/ pc[p] = "supersede" /\ todo[p] = {} /\ pc'[p] \in {"failed", "end"}
<1>1. Rewriting(p) /\ UNCHANGED <<fstate, ftable, frows, lock, script, cur, cat, todo, rest, gone, fresh, seen, basis>>
  BY DEF WriteFails, FinishRewrite, At, Rewriting, disk, catalog, work, ghost
<1>2. /\ \A q \in Proc \ {p} : pc'[q] = pc[q]
      /\ \/ WriteFails(p) /\ pc[p] = "write" /\ pc'[p] = "failed"
         \/ pc[p] = "supersede" /\ todo[p] = {} /\ pc'[p] \in {"failed", "end"}
  BY DEF WriteFails, FinishRewrite, At, Goto, TypeOK
<1> QED
  BY <1>1, <1>2, RewritersAlone DEF OthersRest, LiveStays, FilesStay

\* Supersede and SupersedeFails: a file leaves the list, and the directory or not.
LEMMA SupersedeGives ==
  ASSUME TypeOK, LockInv, ScriptInv, NEW p \in Proc, Supersede(p) \/ SupersedeFails(p)
  PROVE  /\ OthersRest(p) /\ FilesStay /\ lock[p] = "exclusive" /\ cur[p] \in Table
         /\ UNCHANGED <<ftable, frows, lock, pc, script, cur, rest, fresh, seen>> /\ pc[p] = "supersede"
         /\ \E f \in todo[p] :
              /\ todo'[p] = todo[p] \ {f} /\ \A g \in File \ {f} : fstate'[g] = fstate[g]
              /\ \/ Supersede(p) /\ fstate[f] = "live" /\ fstate'[f] = "superseded" /\ cat'[p] = cat[p] \ {f}
                 \/ SupersedeFails(p) /\ fstate'[f] = fstate[f] /\ cat'[p] = cat[p]
<1>1. /\ pc[p] = "supersede" /\ cur[p] \in Table /\ lock[p] = "exclusive" /\ todo[p] \in SUBSET File
      /\ UNCHANGED <<ftable, frows, lock, pc, script, cur, rest, gone, fresh, seen, basis>>
  BY RewritersAlone DEF Supersede, SupersedeFails, At, ScriptInv, Rewriting, disk, catalog, ghost, TypeOK
<1>2. CASE Supersede(p)
  <2>1. PICK f \in todo[p] :
          /\ fstate[f] = "live"
          /\ fstate' = [fstate EXCEPT ![f] = "superseded"]
          /\ todo' = [todo EXCEPT ![p] = @ \ {f}]
          /\ cat' = [cat EXCEPT ![p] = @ \ {f}]
    BY <1>2 DEF Supersede
  <2>2. /\ fstate'[f] = "superseded" /\ \A g \in File \ {f} : fstate'[g] = fstate[g]
        /\ todo'[p] = todo[p] \ {f} /\ cat'[p] = cat[p] \ {f}
        /\ \A q \in Proc \ {p} : todo'[q] = todo[q] /\ cat'[q] = cat[q]
    BY <1>1, <2>1 DEF TypeOK
  <2>3. OthersRest(p) /\ FilesStay
    BY <1>1, <2>1, <2>2 DEF OthersRest, FilesStay
  <2> QED
    BY <1>1, <1>2, <2>1, <2>2, <2>3
<1>3. CASE SupersedeFails(p)
  <2>1. PICK f \in todo[p] : todo' = [todo EXCEPT ![p] = @ \ {f}]
    BY <1>3 DEF SupersedeFails
  <2>2. todo'[p] = todo[p] \ {f} /\ \A q \in Proc \ {p} : todo'[q] = todo[q]
    BY <2>1 DEF TypeOK
  <2>3. fstate' = fstate /\ cat' = cat
    BY <1>3 DEF SupersedeFails, disk, catalog
  <2>4. OthersRest(p) /\ FilesStay
    BY <1>1, <2>2, <2>3 DEF OthersRest, FilesStay
  <2> QED
    BY <1>1, <1>3, <2>2, <2>3, <2>4
<1> QED
  BY <1>2, <1>3

LEMMA BeginDropGives ==
  ASSUME TypeOK, ScriptInv, DataInv, NoLongerNames, NEW p \in Proc, BeginDrop(p)
  PROVE  /\ OthersRest(p) /\ LiveStays /\ FilesStay /\ lock[p] # "none"
         /\ UNCHANGED <<fstate, ftable, frows, lock, script, rest, fresh, seen>>
         /\ pc[p] = "run" /\ pc'[p] = "move" /\ Cmd(p).kind \in {"drop", "recreate"}
         /\ \E t \in Table :
              /\ cur'[p] = t /\ todo'[p] \in SUBSET File /\ Live(t) \subseteq todo'[p] /\ cat'[p] = cat[p] \ Extents(p, t)
<1>1. PICK t \in tabs[p] : \E k \in {"drop", "recreate"} :
        /\ Begins(p, t, k)
        /\ todo' = [todo EXCEPT ![p] = GlobLive(t) \cup GlobSuperseded(t)]
        /\ cat' = [cat EXCEPT ![p] = @ \ Extents(p, t)]
        /\ basis' = [basis EXCEPT ![p][t] = {}]
  BY DEF BeginDrop
<1>2. PICK k \in {"drop", "recreate"} : Begins(p, t, k)
  BY <1>1
<1>3. pc[p] = "run" /\ Cmd(p).kind = k /\ cur' = [cur EXCEPT ![p] = t] /\ lock[p] # "none" /\ t \in Table
  BY <1>1, <1>2, BeginsLocked DEF Begins, At, TypeOK
<1>4. /\ cur'[p] = t /\ todo'[p] = GlobLive(t) \cup GlobSuperseded(t) /\ cat'[p] = cat[p] \ Extents(p, t)
      /\ \A q \in Proc \ {p} : cur'[q] = cur[q] /\ todo'[q] = todo[q] /\ cat'[q] = cat[q] /\ basis'[q] = basis[q]
  BY <1>1, <1>3 DEF TypeOK
<1>5. todo'[p] \in SUBSET File /\ Live(t) \subseteq todo'[p]
  BY <1>3, <1>4, GlobsAreExact DEF Live
<1>6. pc'[p] = "move" /\ \A q \in Proc \ {p} : pc'[q] = pc[q]
  BY DEF BeginDrop, Goto, TypeOK
<1>7. UNCHANGED <<fstate, ftable, frows, lock, script, rest, gone, fresh, seen>>
  BY DEF BeginDrop, disk
<1>8. OthersRest(p) /\ LiveStays /\ FilesStay
  BY <1>4, <1>6, <1>7 DEF OthersRest, LiveStays, FilesStay
<1> QED
  BY <1>2, <1>3, <1>4, <1>5, <1>6, <1>7, <1>8

\* MoveFile and MoveMissing.
LEMMA MoveGives ==
  ASSUME TypeOK, ScriptInv, DataInv, NEW p \in Proc, MoveFile(p) \/ MoveMissing(p)
  PROVE  /\ OthersRest(p) /\ FilesStay /\ lock[p] # "none" /\ cur[p] \in Table /\ pc[p] = "move"
         /\ UNCHANGED <<ftable, frows, lock, pc, script, cur, cat, rest, fresh, seen>>
         /\ \E f \in todo[p] :
              /\ f \in File /\ ftable[f] = cur[p]
              /\ todo'[p] = todo[p] \ {f} /\ \A g \in File \ {f} : fstate'[g] = fstate[g]
              /\ fstate'[f] = fstate[f] \/ fstate'[f] = "archived"
<1>1. pc[p] = "move" /\ cur[p] \in Table /\ Mine(p)
  BY DEF MoveFile, MoveMissing, At, ScriptInv, DataInv
<1>2. UNCHANGED <<ftable, frows, lock, pc, script, cur, cat, rest, gone, fresh, seen, basis>>
  BY DEF MoveFile, MoveMissing, disk, catalog, ghost
<1>3. PICK f \in todo[p] :
        /\ todo' = [todo EXCEPT ![p] = @ \ {f}]
        /\ fstate' = fstate \/ (fstate[f] \in {"live", "superseded"} /\ fstate' = [fstate EXCEPT ![f] = "archived"])
  BY DEF MoveFile, MoveMissing, disk
<1>4. f \in File /\ ftable[f] = cur[p] /\ lock[p] # "none"
  BY <1>1, <1>3, WritersLock DEF Mine, Removes, Writing, TypeOK
<1>5. todo'[p] = todo[p] \ {f} /\ \A q \in Proc \ {p} : todo'[q] = todo[q]
  BY <1>3 DEF TypeOK
<1>6. /\ \A g \in File \ {f} : fstate'[g] = fstate[g]
      /\ fstate'[f] = fstate[f] \/ (fstate[f] # "none" /\ fstate'[f] = "archived")
  BY <1>3, <1>4 DEF TypeOK
<1>7. OthersRest(p) /\ FilesStay
  BY <1>2, <1>4, <1>5, <1>6 DEF OthersRest, FilesStay
<1> QED
  BY <1>1, <1>2, <1>3, <1>4, <1>5, <1>6, <1>7

LEMMA DropExtentGives ==
  ASSUME TypeOK, ScriptInv, DataInv, NEW p \in Proc, DropExtent(p)
  PROVE  /\ OthersRest(p) /\ FilesStay /\ lock[p] # "none"
         /\ UNCHANGED <<ftable, frows, lock, script, todo, rest, fresh, seen>>
         /\ pc[p] = "run" /\ pc'[p] = "end" /\ Cmd(p).kind = "dropExtent"
         /\ \E f \in File :
              /\ f \in cat[p] /\ ftable[f] \in Table /\ cat'[p] = cat[p] \ {f}
              /\ fstate'[f] # "live" /\ \A g \in File \ {f} : fstate'[g] = fstate[g]
<1>1. PICK t \in tabs[p] : \E f \in Extents(p, t) :
        /\ Begins(p, t, "dropExtent")
        /\ cat' = [cat EXCEPT ![p] = @ \ {f}]
        /\ fstate' = [fstate EXCEPT ![f] = IF @ = "live" THEN "deleted" ELSE @]
        /\ basis' = [basis EXCEPT ![p][t] = @ \ frows[f]]
  BY DEF DropExtent
<1>2. PICK f \in Extents(p, t) :
        /\ Begins(p, t, "dropExtent")
        /\ cat' = [cat EXCEPT ![p] = @ \ {f}]
        /\ fstate' = [fstate EXCEPT ![f] = IF @ = "live" THEN "deleted" ELSE @]
        /\ basis' = [basis EXCEPT ![p][t] = @ \ frows[f]]
  BY <1>1
<1>3. pc[p] = "run" /\ Cmd(p).kind = "dropExtent" /\ cur' = [cur EXCEPT ![p] = t] /\ lock[p] # "none"
  BY <1>2, BeginsLocked DEF Begins, At
<1>4. f \in File /\ f \in cat[p] /\ ftable[f] \in Table /\ fstate[f] # "none"
  BY DEF TypeOK, Extents, DataInv, Mine, Known
<1>5. UNCHANGED <<ftable, frows, lock, script, todo, rest, gone, fresh, seen>>
  BY DEF DropExtent, work
<1>6. pc'[p] = "end" /\ \A q \in Proc \ {p} : pc'[q] = pc[q]
  BY DEF DropExtent, Goto, TypeOK
<1>7. /\ cat'[p] = cat[p] \ {f}
      /\ \A q \in Proc \ {p} : cat'[q] = cat[q] /\ cur'[q] = cur[q] /\ basis'[q] = basis[q]
  BY <1>2, <1>3 DEF TypeOK
<1>8. /\ fstate'[f] = IF fstate[f] = "live" THEN "deleted" ELSE fstate[f]
      /\ \A g \in File \ {f} : fstate'[g] = fstate[g]
  BY <1>2, <1>4 DEF TypeOK
<1>9. OthersRest(p) /\ FilesStay
  BY <1>4, <1>5, <1>6, <1>7, <1>8 DEF OthersRest, FilesStay
<1> QED
  BY <1>3, <1>4, <1>5, <1>6, <1>7, <1>8, <1>9

-----------------------------------------------------------------------------
(* Every step keeps the invariant.                                         *)

LEMMA OthersHalfway ==
  ASSUME TypeOK, LockInv, DataInv, HalfwayInv, NEW p \in Proc, NEW q \in Proc, q # p, OthersRest(p),
         LiveStays \/ lock[p] # "none"
  PROVE  Fits(q)' /\ Halfway(q)'
<1>1. /\ pc'[q] = pc[q] /\ script'[q] = script[q] /\ cur'[q] = cur[q] /\ cat'[q] = cat[q]
      /\ todo'[q] = todo[q] /\ rest'[q] = rest[q] /\ fresh'[q] = fresh[q]
  BY DEF OthersRest
<1>2. Fits(q) /\ Halfway(q)
  BY DEF HalfwayInv
<1>3. Cmd(q)' = Cmd(q) /\ (Rewriting(q)' <=> Rewriting(q))
  BY <1>1 DEF Cmd, Rewriting
<1>4. Fits(q)'
  BY <1>1, <1>2, <1>3 DEF Fits
<1>5. Halfway(q)'
  <2> SUFFICES ASSUME Rewriting(q)
               PROVE  Halfway(q)'
    BY <1>1, <1>3 DEF Halfway, Rewriting
  <2>1. LiveStays
    BY RewritersAlone DEF LockInv
  <2>2. /\ frows' = frows /\ Live(cur[q])' = Live(cur[q])' /\ \A t : Live(t)' = Live(t)
        /\ {f \in File : fstate'[f] # "none"} = {f \in File : fstate[f] # "none"}
    BY <2>1 DEF LiveStays, Live
  <2>3. /\ (Live(cur[q]) \ fresh[q])' = Live(cur[q]) \ fresh[q]
        /\ RowsOf({f \in File : fstate[f] # "none"} \ fresh[q])' = RowsOf({f \in File : fstate[f] # "none"} \ fresh[q])
        /\ RowsOf(Extents(q, cur[q]) \ fresh[q])' = RowsOf(Extents(q, cur[q]) \ fresh[q])
        /\ Kept(q)' = Kept(q)
    BY <1>1, <2>1, <2>2 DEF RowsOf, Live, Kept, Extents, LiveStays
  <2> QED
    BY <1>1, <1>2, <1>3, <2>3 DEF Halfway
<1> QED
  BY <1>4, <1>5

LEMMA StepHalfway ==
  ASSUME TypeOK, LockInv, DataInv, HalfwayInv, NEW p \in Proc, OthersRest(p),
         LiveStays \/ lock[p] # "none", Fits(p)', Halfway(p)'
  PROVE  HalfwayInv'
BY OthersHalfway DEF HalfwayInv

\* A step that ends at no rewrite.
LEMMA ElsewhereHalfway ==
  ASSUME TypeOK, LockInv, DataInv, HalfwayInv, NEW p \in Proc, OthersRest(p),
         LiveStays \/ lock[p] # "none", ~Rewriting(p)',
         pc'[p] = "scan" => Cmd(p)'.kind = "query",
         pc'[p] = "append" => Cmd(p)'.kind \in {"append", "replace", "recreate"}
  PROVE  HalfwayInv'
<1>1. Fits(p)' /\ Halfway(p)'
  BY DEF Fits, Halfway, Rewriting
<1> QED
  BY <1>1, StepHalfway

LEMMA QuietHalfway ==
  ASSUME TypeOK, LockInv, ScriptInv, DataInv, HalfwayInv, NEW p \in Proc,
         \/ Refuse(p) \/ AnswerFromCatalog(p) \/ BeginQuery(p) \/ ScanExtent(p) \/ ScanMissing(p) \/ BeginAppend(p)
         \/ WriteNothing(p) \/ CompactNothing(p) \/ DeleteNothing(p) \/ FinishDrop(p) \/ BeginGC(p) \/ Collect(p)
         \/ CollectMissing(p) \/ FinishGC(p)
  PROVE  HalfwayInv'
<1>1. Quiet(p) /\ Fits(p)
  BY QuietSteps DEF HalfwayInv
<1>2. Cmd(p)' = Cmd(p)
  BY <1>1 DEF Quiet, Cmd
<1>3. pc'[p] = "scan" => Cmd(p).kind = "query"
  <2>1. CASE BeginQuery(p)
    BY <2>1 DEF BeginQuery, Begins
  <2>2. CASE ScanExtent(p)
    BY <1>1, <2>2 DEF ScanExtent, At, Fits
  <2>3. CASE BeginAppend(p)
    <3>1. pc'[p] \in {"append", "create"}
      BY <2>3 DEF BeginAppend, Goto, TypeOK
    <3> QED
      BY <3>1
  <2>4. CASE Collect(p) \/ CollectMissing(p)
    BY <2>4 DEF Collect, CollectMissing, At
  <2>5. CASE \/ Refuse(p) \/ AnswerFromCatalog(p) \/ ScanMissing(p) \/ WriteNothing(p) \/ CompactNothing(p)
             \/ DeleteNothing(p) \/ FinishDrop(p) \/ BeginGC(p) \/ FinishGC(p)
    BY <2>5 DEF Refuse, AnswerFromCatalog, ScanMissing, WriteNothing, CompactNothing, DeleteNothing, FinishDrop,
       BeginGC, FinishGC, Goto, TypeOK
  <2> QED
    BY <2>1, <2>2, <2>3, <2>4, <2>5
<1>4. pc'[p] = "append" => Cmd(p).kind \in {"append", "replace", "recreate"}
  <2>1. CASE BeginAppend(p)
    <3>1. PICK t \in Table :
            \/ Begins(p, t, "append") /\ t \in tabs[p] /\ Goto(p, "append")
            \/ Goto(p, "create")
      BY <2>1 DEF BeginAppend
    <3> QED
      BY <3>1 DEF Begins, Goto, TypeOK
  <2>2. CASE BeginQuery(p) \/ ScanExtent(p)
    BY <2>2 DEF BeginQuery, ScanExtent, Goto, TypeOK
  <2>3. CASE Collect(p) \/ CollectMissing(p)
    BY <2>3 DEF Collect, CollectMissing, At
  <2>4. CASE \/ Refuse(p) \/ AnswerFromCatalog(p) \/ ScanMissing(p) \/ WriteNothing(p) \/ CompactNothing(p)
             \/ DeleteNothing(p) \/ FinishDrop(p) \/ BeginGC(p) \/ FinishGC(p)
    BY <2>4 DEF Refuse, AnswerFromCatalog, ScanMissing, WriteNothing, CompactNothing, DeleteNothing, FinishDrop,
       BeginGC, FinishGC, Goto, TypeOK
  <2> QED
    BY <2>1, <2>2, <2>3, <2>4
<1> QED
  BY <1>1, <1>2, <1>3, <1>4, ElsewhereHalfway DEF Quiet, Rewriting

\* A rewrite begins with the table's rows, or with new ones.
LEMMA BeginHalfway ==
  ASSUME TypeOK, LockInv, ScriptInv, DataInv, HalfwayInv, NoLongerNames, NEW p \in Proc,
         BeginReplace(p) \/ BeginCompact(p) \/ BeginDelete(p)
  PROVE  HalfwayInv'
<1>1. PICK t \in Table, k \in {"replace", "compact", "delete"}, R \in SUBSET Row, old \in SUBSET File : \E G :
        /\ Begins(p, t, k) /\ StartRewrite(p, R, G, old)
        /\ k # "replace" => R \subseteq RowsOf(Extents(p, t))
        /\ k = "replace" => R \subseteq UnusedRows /\ Live(t) \subseteq old
  BY RewritesBegin
<1>2. /\ OthersRest(p) /\ LiveStays /\ lock[p] = "exclusive"
      /\ UNCHANGED <<fstate, ftable, frows, script, cat, fresh>>
      /\ pc[p] = "run" /\ pc'[p] = "write" /\ cur'[p] = t /\ Cmd(p).kind = k
      /\ rest'[p] = R /\ todo'[p] = old
  BY <1>1, StartRewriteGives
<1>3. fresh[p] = {} /\ fresh'[p] = {}
  BY <1>2 DEF DataInv, Mine, Counts
<1>4. Cmd(p)' = Cmd(p)
  BY <1>2 DEF Cmd
<1>5. Fits(p)'
  BY <1>1, <1>2, <1>4 DEF Fits
<1>6. Kept(p)' = R
  BY <1>2, <1>3 DEF Kept, RowsOf
<1>7. k # "replace" => Kept(p)' \subseteq RowsOf(Extents(p, cur[p]) \ fresh[p])'
  <2>1. RowsOf(Extents(p, cur[p]) \ fresh[p])' = RowsOf(Extents(p, t))
    BY <1>2, <1>3 DEF Extents, RowsOf
  <2> QED
    BY <1>1, <1>6, <2>1
<1>8. k = "replace" => /\ (Live(cur[p]) \ fresh[p])' \subseteq todo'[p]
                       /\ Kept(p)' \cap RowsOf({f \in File : fstate[f] # "none"} \ fresh[p])' = {}
  <2>1. (Live(cur[p]) \ fresh[p])' \subseteq Live(t)
    BY <1>2 DEF Live
  <2>2. RowsOf({f \in File : fstate[f] # "none"} \ fresh[p])' \subseteq RowsOf(File)
    BY <1>2 DEF RowsOf
  <2>3. UnusedRows \cap RowsOf(File) = {}
    BY DEF UnusedRows
  <2> QED
    BY <1>1, <1>2, <1>6, <2>1, <2>2, <2>3
<1>9. Halfway(p)'
  BY <1>2, <1>3, <1>4, <1>7, <1>8 DEF Halfway
<1> QED
  BY <1>2, <1>5, <1>9, StepHalfway

\* One more of its files, with rows it had in memory.
LEMMA WriteHalfway ==
  ASSUME TypeOK, LockInv, ScriptInv, DataInv, HalfwayInv, NEW p \in Proc, WriteExtent(p)
  PROVE  HalfwayInv'
<1>1. /\ OthersRest(p) /\ lock[p] = "exclusive" /\ cur[p] \in Table /\ pc[p] = "write"
      /\ UNCHANGED <<script, cur, todo>>
  BY WriteExtentGives
<1>2. PICK f \in File, C \in SUBSET rest[p] :
        /\ Commit(f, cur[p], C) /\ cat' = [cat EXCEPT ![p] = @ \cup {f}]
        /\ rest'[p] = rest[p] \ C /\ fresh'[p] = fresh[p] \cup {f}
        /\ pc'[p] = IF rest[p] = C THEN "supersede" ELSE "write"
  BY WriteExtentGives
<1>3. C \in SUBSET Row /\ Known(p) /\ Fits(p) /\ Halfway(p)
  BY <1>2 DEF TypeOK, DataInv, Mine, HalfwayInv
<1>4. /\ fstate[f] = "none" /\ fstate'[f] = "live" /\ ftable'[f] = cur[p] /\ frows'[f] = C
      /\ \A g \in File \ {f} : fstate'[g] = fstate[g] /\ ftable'[g] = ftable[g] /\ frows'[g] = frows[g]
      /\ Live(cur[p])' = Live(cur[p]) \cup {f}
  BY <1>1, <1>2, <1>3, CommitGives
<1>5. /\ cat'[p] = cat[p] \cup {f} /\ f \notin cat[p] /\ f \notin fresh[p]
      /\ cat[p] \in SUBSET File /\ fresh[p] \in SUBSET File
  BY <1>2, <1>3, <1>4 DEF TypeOK, Known
<1>6. /\ Live(cur[p])' \ fresh'[p] \subseteq Live(cur[p]) \ fresh[p]
      /\ Extents(p, cur[p])' \ fresh'[p] = Extents(p, cur[p]) \ fresh[p]
      /\ {g \in File : fstate'[g] # "none"} \ fresh'[p] \subseteq {g \in File : fstate[g] # "none"} \ fresh[p]
  BY <1>1, <1>2, <1>4, <1>5 DEF Extents
<1>7. \A S \in SUBSET (File \ {f}) : UNION {frows'[g] : g \in S} = RowsOf(S)
  BY <1>4 DEF RowsOf
<1>8. Kept(p)' \subseteq Kept(p)
  <2>1. UNION {frows'[g] : g \in fresh'[p]} = RowsOf(fresh[p]) \cup C
    BY <1>2, <1>4, <1>5 DEF RowsOf
  <2>2. Kept(p)' = rest'[p] \cup UNION {frows'[g] : g \in fresh'[p]}
    BY DEF Kept, RowsOf
  <2> QED
    BY <1>2, <2>1, <2>2 DEF Kept
<1>9. Cmd(p)' = Cmd(p)
  BY <1>1 DEF Cmd
<1>10. Fits(p)'
  BY <1>1, <1>2, <1>3, <1>9 DEF Fits, Rewriting
<1>11. fresh'[p] \subseteq cat'[p]
  BY <1>1, <1>2, <1>3, <1>5 DEF Halfway, Rewriting
<1>12. Cmd(p).kind # "replace" => Kept(p)' \subseteq RowsOf(Extents(p, cur[p]) \ fresh[p])'
  <2>1. Extents(p, cur[p]) \ fresh[p] \in SUBSET (File \ {f})
    BY <1>5 DEF Extents
  <2>2. RowsOf(Extents(p, cur[p]) \ fresh[p])' = UNION {frows'[g] : g \in Extents(p, cur[p]) \ fresh[p]}
    BY <1>1, <1>6 DEF RowsOf
  <2> QED
    BY <1>1, <1>3, <1>7, <1>8, <2>1, <2>2 DEF Halfway
<1>13. Cmd(p).kind = "replace" =>
         /\ (Live(cur[p]) \ fresh[p])' \subseteq todo'[p]
         /\ Kept(p)' \cap RowsOf({g \in File : fstate[g] # "none"} \ fresh[p])' = {}
  <2>1. PICK S : S = {g \in File : fstate[g] # "none"} \ fresh[p]
    OBVIOUS
  <2>2. S \in SUBSET (File \ {f})
    BY <1>4, <2>1
  <2>3. RowsOf({g \in File : fstate[g] # "none"} \ fresh[p])' \subseteq UNION {frows'[g] : g \in S}
    BY <1>6, <2>1 DEF RowsOf
  <2>4. (Live(cur[p]) \ fresh[p])' = Live(cur[p])' \ fresh'[p]
    BY <1>1 DEF Live
  <2> QED
    BY <1>1, <1>3, <1>6, <1>7, <1>8, <2>1, <2>2, <2>3, <2>4 DEF Halfway
<1>14. Halfway(p)'
  BY <1>9, <1>11, <1>12, <1>13 DEF Halfway
<1> QED
  BY <1>1, <1>10, <1>14, StepHalfway

LEMMA SupersedeHalfway ==
  ASSUME TypeOK, LockInv, ScriptInv, DataInv, HalfwayInv, NEW p \in Proc, Supersede(p) \/ SupersedeFails(p)
  PROVE  HalfwayInv'
<1>1. /\ OthersRest(p) /\ lock[p] = "exclusive" /\ UNCHANGED <<pc, script, fresh>> /\ pc[p] = "supersede"
  BY SupersedeGives
<1>2. PICK f \in todo[p] : cat'[p] = cat[p] \ {f} \/ cat'[p] = cat[p]
  BY SupersedeGives
<1>3. Fits(p) /\ Halfway(p) /\ \A g \in fresh[p] : g \notin todo[p]
  BY <1>1 DEF HalfwayInv, DataInv, Mine, Rewrites, Rewriting
<1>4. Fits(p)' /\ Halfway(p)'
  BY <1>1, <1>2, <1>3 DEF Fits, Halfway, Rewriting, Cmd
<1> QED
  BY <1>1, <1>4, StepHalfway

LEMMA HalfwayStep ==
  ASSUME TypeOK, LockInv, ScriptInv, DataInv, HalfwayInv, NoLongerNames, [Next]_vars
  PROVE  HalfwayInv'
<1>1. ASSUME NEW p \in Proc, Submit(p) \/ Statement(p) \/ RefreshFails(p) \/ Crash(p)
      PROVE  HalfwayInv'
  <2>1. CASE EndCommand(p) \/ AbortStatement(p) \/ RefreshFails(p) \/ Crash(p)
    <3>1. OthersRest(p) /\ LiveStays /\ pc'[p] \in {"idle", "run"}
      BY <2>1, TurnGives
    <3> QED
      BY <3>1, ElsewhereHalfway DEF Rewriting
  <2>2. CASE Submit(p) \/ Acquire(p)
    BY <2>2, SubmitGives, ElsewhereHalfway DEF Rewriting
  <2>3. CASE Refresh(p)
    BY <2>3, RefreshGives, ElsewhereHalfway DEF Rewriting
  <2>4. CASE NameTables(p)
    BY <2>4, NameTablesGives, ElsewhereHalfway DEF Rewriting
  <2>5. CASE CreateTable(p)
    <3>1. /\ OthersRest(p) /\ lock[p] # "none" /\ script' = script /\ pc'[p] \in {"end", "append"}
          /\ pc'[p] = "append" => Cmd(p).kind \in {"append", "replace", "recreate"}
      BY <2>5, CreateTableGives
    <3> QED
      BY <3>1, ElsewhereHalfway DEF Rewriting, Cmd
  <2>6. CASE AppendRows(p)
    <3>1. /\ OthersRest(p) /\ lock[p] # "none" /\ script' = script
          /\ pc'[p] = "end" \/ (pc'[p] = "append" /\ Cmd(p).kind = "append")
      BY <2>6, AppendRowsGives
    <3> QED
      BY <3>1, ElsewhereHalfway DEF Rewriting, Cmd
  <2>7. CASE WriteFails(p) \/ FinishRewrite(p)
    <3>1. OthersRest(p) /\ LiveStays /\ pc'[p] \in {"failed", "end"}
      BY <2>7, WriteFailsGives
    <3> QED
      BY <3>1, ElsewhereHalfway DEF Rewriting
  <2>8. CASE BeginDrop(p)
    BY <2>8, BeginDropGives, ElsewhereHalfway DEF Rewriting
  <2>9. CASE MoveFile(p) \/ MoveMissing(p)
    <3>1. OthersRest(p) /\ lock[p] # "none" /\ pc'[p] = "move"
      BY <2>9, MoveGives
    <3> QED
      BY <3>1, ElsewhereHalfway DEF Rewriting
  <2>10. CASE DropExtent(p)
    BY <2>10, DropExtentGives, ElsewhereHalfway DEF Rewriting
  <2> QED
    BY <1>1, <2>1, <2>2, <2>3, <2>4, <2>5, <2>6, <2>7, <2>8, <2>9, <2>10, QuietHalfway, BeginHalfway, WriteHalfway,
       SupersedeHalfway DEF Statement
<1>2. CASE UNCHANGED vars
  BY <1>2 DEF vars, disk, catalog, work, HalfwayInv, Fits, Halfway, Rewriting, Cmd, Kept, RowsOf, Extents, Live
<1> QED
  BY <1>1, <1>2 DEF Next

LEMMA InitHalfway ==
  ASSUME Init
  PROVE  HalfwayInv
BY DEF Init, HalfwayInv, Fits, Halfway, Rewriting

-----------------------------------------------------------------------------
(* The store that the directory is.                                        *)

Nothing == [t \in Table |-> {}]

\* A step of the store, or none.
StoreStep == Store!Next \/ UNCHANGED <<Rows, Undone, Stages, Kinds, Views, Answers, Doomed>>

\* The other statements see, are and do what they did.
LEMMA OthersSame ==
  ASSUME TypeOK, DataInv, NEW p \in Proc, NEW q \in Proc \ {p}, OthersRest(p), FilesStay
  PROVE  /\ StageOf(q)' = StageOf(q) /\ KindOf(q)' = KindOf(q) /\ ViewOf(q)' = ViewOf(q)
         /\ AnswerOf(q)' = AnswerOf(q) /\ DoomedBy(q)' = DoomedBy(q)
<1>1. /\ lock'[q] = lock[q] /\ pc'[q] = pc[q] /\ script'[q] = script[q] /\ cur'[q] = cur[q] /\ cat'[q] = cat[q]
      /\ todo'[q] = todo[q] /\ fresh'[q] = fresh[q] /\ seen'[q] = seen[q]
  BY DEF OthersRest
<1>2. Using(q)' = Using(q) /\ Hidden(q)' = Hidden(q) /\ Cmd(q)' = Cmd(q)
  BY <1>1 DEF Using, Locked, Hidden, At, Cmd
<1>3. Known(q) /\ cat[q] \in SUBSET File /\ todo[q] \in SUBSET File /\ seen[q] \in SUBSET File
  BY DEF DataInv, Mine, TypeOK
<1>4. StageOf(q)' = StageOf(q) /\ KindOf(q)' = KindOf(q)
  BY <1>1, <1>2 DEF StageOf, KindOf
<1>5. ASSUME NEW t \in Table
      PROVE  RowsOf(Extents(q, t) \ Hidden(q))' = RowsOf(Extents(q, t) \ Hidden(q))
  <2>1. Extents(q, t)' = Extents(q, t)
    BY <1>1, <1>3, ExtentsStay
  <2>2. PICK S : S = Extents(q, t) \ Hidden(q)
    OBVIOUS
  <2>3. S \in SUBSET File /\ \A f \in S : fstate[f] # "none"
    BY <1>3, <2>2 DEF Extents, Known
  <2>4. UNION {frows'[f] : f \in S} = RowsOf(S)
    BY <2>3, RowsStay
  <2>5. RowsOf(Extents(q, t) \ Hidden(q))' = UNION {frows'[f] : f \in S}
    BY <1>2, <2>1, <2>2 DEF RowsOf
  <2> QED
    BY <2>2, <2>4, <2>5
<1>6. ViewOf(q)' = ViewOf(q)
  BY <1>2, <1>5 DEF ViewOf
<1>7. RowsOf(seen[q])' = RowsOf(seen[q]) /\ RowsOf(todo[q])' = RowsOf(todo[q])
  <2>1. /\ UNION {frows'[f] : f \in seen[q]} = RowsOf(seen[q])
        /\ UNION {frows'[f] : f \in todo[q]} = RowsOf(todo[q])
    BY <1>3, RowsStay DEF Known
  <2> QED
    BY <1>1, <2>1 DEF RowsOf
<1>8. AnswerOf(q)' = AnswerOf(q) /\ DoomedBy(q)' = DoomedBy(q)
  BY <1>1, <1>2, <1>7 DEF AnswerOf, DoomedBy, At
<1> QED
  BY <1>4, <1>6, <1>8

LEMMA OwnOnly ==
  ASSUME TypeOK, DataInv, NEW p \in Proc, OthersRest(p), FilesStay
  PROVE  /\ Stages' = [Stages EXCEPT ![p] = StageOf(p)'] /\ Kinds' = [Kinds EXCEPT ![p] = KindOf(p)']
         /\ Views' = [Views EXCEPT ![p] = ViewOf(p)'] /\ Answers' = [Answers EXCEPT ![p] = AnswerOf(p)']
         /\ Doomed' = [Doomed EXCEPT ![p] = DoomedBy(p)']
BY OthersSame DEF Stages, Kinds, Views, Answers, Doomed

LEMMA OwnSame ==
  ASSUME TypeOK, DataInv, NEW p \in Proc, OthersRest(p), FilesStay
  PROVE  /\ StageOf(p)' = StageOf(p) => Stages' = Stages
         /\ KindOf(p)' = KindOf(p) => Kinds' = Kinds
         /\ ViewOf(p)' = ViewOf(p) => Views' = Views
         /\ AnswerOf(p)' = AnswerOf(p) => Answers' = Answers
         /\ DoomedBy(p)' = DoomedBy(p) => Doomed' = Doomed
BY OthersSame DEF Stages, Kinds, Views, Answers, Doomed

LEMMA OwnNow ==
  ASSUME NEW p \in Proc
  PROVE  /\ Stages[p] = StageOf(p) /\ Kinds[p] = KindOf(p) /\ Views[p] = ViewOf(p)
         /\ Answers[p] = AnswerOf(p) /\ Doomed[p] = DoomedBy(p)
BY DEF Stages, Kinds, Views, Answers, Doomed

\* While nobody rewrites a table every file counts.
LEMMA Settled ==
  ASSUME \A q \in Proc : ~Rewriting(q)
  PROVE  Rows = [t \in Table |-> RowsOf(Live(t))] /\ Undone = Nothing
<1>1. \A q \in Proc : Hidden(q) = {} /\ ~At(q, "supersede")
  BY DEF Rewriting, Hidden, At
<1>2. \A t : Shown(t) = Live(t)
  BY <1>1 DEF Shown
<1>3. \A t : {f \in Live(t) : \E p \in Proc : At(p, "supersede") /\ f \in todo[p]} = {}
  BY <1>1
<1>4. RowsOf({}) = {}
  BY DEF RowsOf
<1> QED
  BY <1>2, <1>3, <1>4 DEF Rows, Undone, Nothing

LEMMA SettledAfter ==
  ASSUME \A q \in Proc : ~Rewriting(q)'
  PROVE  Rows' = [t \in Table |-> RowsOf(Live(t))'] /\ Undone' = Nothing
<1>1. \A q \in Proc : Hidden(q)' = {} /\ ~At(q, "supersede")'
  BY DEF Rewriting, Hidden, At
<1>2. \A t : Shown(t)' = Live(t)'
  BY <1>1 DEF Shown
<1>3. \A t : {f \in Live(t)' : \E p \in Proc : At(p, "supersede")' /\ f \in todo'[p]} = {}
  BY <1>1
<1>4. UNION {frows'[f] : f \in {}} = {}
  OBVIOUS
<1>5. \A t : RowsOf(Shown(t))' = RowsOf(Live(t))'
  BY <1>2 DEF RowsOf
<1>6. Rows' = [t \in Table |-> RowsOf(Live(t))']
  BY <1>5 DEF Rows
<1>7. Undone' = Nothing
  BY <1>3, <1>4 DEF Undone, Nothing, RowsOf
<1> QED
  BY <1>6, <1>7

LEMMA NobodyRewrites ==
  ASSUME LockInv, NEW p \in Proc, lock[p] # "none", ~Rewriting(p)
  PROVE  \A q \in Proc : ~Rewriting(q)
BY RewritersAlone DEF LockInv

\* A rewriter is the only one with the lock.
LEMMA Lone ==
  ASSUME LockInv, NEW p \in Proc, lock[p] = "exclusive"
  PROVE  /\ \A q \in Proc \ {p} : ~Using(q) /\ ~Rewriting(q) /\ Hidden(q) = {}
         /\ \A q \in Proc \ {p} : StageOf(q) = "out" /\ ViewOf(q) = Nothing /\ DoomedBy(q) = Nothing
         /\ Store!Alone(p)
<1>1. \A q \in Proc \ {p} : ~Using(q) /\ ~Rewriting(q)
  BY RewritersAlone DEF LockInv, Using, Locked
<1>2. \A q \in Proc \ {p} : StageOf(q) = "out" /\ ViewOf(q) = Nothing /\ DoomedBy(q) = Nothing
  BY <1>1 DEF StageOf, ViewOf, DoomedBy, Nothing
<1>3. Store!Alone(p)
  BY <1>2 DEF Store!Alone, Stages
<1> QED
  BY <1>1, <1>2, <1>3 DEF Hidden, Rewriting, At

LEMMA LoneRows ==
  ASSUME LockInv, NEW p \in Proc, Rewriting(p)
  PROVE  /\ \A t : Shown(t) = Live(t) \ Hidden(p)
         /\ pc[p] = "write" => Undone = Nothing
         /\ pc[p] = "supersede" =>
              Undone = [t \in Table |-> RowsOf(Live(t) \cap todo[p]) \ RowsOf(Live(t) \ todo[p])]
<1>1. \A q \in Proc \ {p} : ~Rewriting(q) /\ Hidden(q) = {}
  BY RewritersAlone, Lone
<1>2. \A t : Shown(t) = Live(t) \ Hidden(p)
  BY <1>1 DEF Shown
<1>3. ASSUME pc[p] = "write"
      PROVE  Undone = Nothing
  <2>1. \A t : {f \in Live(t) : \E q \in Proc : At(q, "supersede") /\ f \in todo[q]} = {}
    BY <1>1, <1>3 DEF Rewriting, At
  <2>2. RowsOf({}) = {}
    BY DEF RowsOf
  <2> QED
    BY <2>1, <2>2 DEF Undone, Nothing
<1>4. ASSUME pc[p] = "supersede"
      PROVE  Undone = [t \in Table |-> RowsOf(Live(t) \cap todo[p]) \ RowsOf(Live(t) \ todo[p])]
  <2>1. \A t : {f \in Live(t) : \E q \in Proc : At(q, "supersede") /\ f \in todo[q]} = Live(t) \cap todo[p]
    BY <1>1, <1>4 DEF Rewriting, At
  <2>2. Hidden(p) = todo[p]
    BY <1>4 DEF Hidden, At
  <2> QED
    BY <1>2, <2>1, <2>2 DEF Undone
<1> QED
  BY <1>2, <1>3, <1>4

LEMMA LoneRowsAfter ==
  ASSUME LockInv, NEW p \in Proc, lock[p] = "exclusive", OthersRest(p), Rewriting(p)'
  PROVE  /\ \A t : Shown(t)' = Live(t)' \ Hidden(p)'
         /\ pc'[p] = "write" => Undone' = Nothing
         /\ pc'[p] = "supersede" =>
              Undone' = [t \in Table |-> (UNION {frows'[f] : f \in Live(t)' \cap todo'[p]}) \ (UNION {frows'[f] : f \in Live(t)' \ todo'[p]})]
<1>1. \A q \in Proc \ {p} : ~Rewriting(q)' /\ Hidden(q)' = {}
  BY Lone DEF OthersRest, Rewriting, Hidden, At
<1>2. \A t : Shown(t)' = Live(t)' \ Hidden(p)'
  BY <1>1 DEF Shown
<1>3. ASSUME pc'[p] = "write"
      PROVE  Undone' = Nothing
  <2>1. \A t : {f \in Live(t)' : \E q \in Proc : At(q, "supersede")' /\ f \in todo'[q]} = {}
    BY <1>1, <1>3 DEF Rewriting, At
  <2>2. UNION {frows'[f] : f \in {}} = {}
    OBVIOUS
  <2> QED
    BY <2>1, <2>2 DEF Undone, Nothing, RowsOf
<1>4. ASSUME pc'[p] = "supersede"
      PROVE  Undone' = [t \in Table |-> (UNION {frows'[f] : f \in Live(t)' \cap todo'[p]}) \ (UNION {frows'[f] : f \in Live(t)' \ todo'[p]})]
  <2>1. \A t : {f \in Live(t)' : \E q \in Proc : At(q, "supersede")' /\ f \in todo'[q]} = Live(t)' \cap todo'[p]
    BY <1>1, <1>4 DEF Rewriting, At
  <2>2. Hidden(p)' = todo'[p]
    BY <1>4 DEF Hidden, At
  <2> QED
    BY <1>2, <2>1, <2>2 DEF Undone, RowsOf
<1> QED
  BY <1>2, <1>3, <1>4

-----------------------------------------------------------------------------
(* Steps that move no rows.                                                *)

LEMMA LiveRests ==
  ASSUME LiveStays, NEW t
  PROVE  Live(t)' = Live(t) /\ RowsOf(Live(t))' = RowsOf(Live(t))
BY DEF LiveStays, Live, RowsOf

LEMMA RowsRest ==
  ASSUME NEW p \in Proc, OthersRest(p), LiveStays, ~Rewriting(p), ~Rewriting(p)'
  PROVE  Rows' = Rows /\ Undone' = Undone
<1>1. \A q \in Proc : Hidden(q)' = Hidden(q)
  BY DEF OthersRest, Hidden, Rewriting, At
<1>2. \A q \in Proc : At(q, "supersede")' = At(q, "supersede") /\ (At(q, "supersede") => todo'[q] = todo[q])
  BY DEF OthersRest, Rewriting, At
<1>3. \A t : Live(t)' = Live(t)
  BY LiveRests
<1>4. frows' = frows
  BY DEF LiveStays
<1>5. \A t : Shown(t)' = Shown(t)
  BY <1>1, <1>3 DEF Shown
<1>6. \A t : {f \in Live(t)' : \E q \in Proc : At(q, "supersede")' /\ f \in todo'[q]}
             = {f \in Live(t) : \E q \in Proc : At(q, "supersede") /\ f \in todo[q]}
  BY <1>2, <1>3
<1>7. Rows' = Rows
  BY <1>4, <1>5 DEF Rows, RowsOf
<1>8. Undone' = Undone
  BY <1>4, <1>5, <1>6 DEF Undone, RowsOf
<1> QED
  BY <1>7, <1>8

\* A statement that has not got its catalog, or reads without the lock, has no part in the store.
LEMMA Outside ==
  ASSUME TypeOK, DataInv, NEW p \in Proc, OthersRest(p), LiveStays, FilesStay,
         ~Using(p), ~Using(p)', ~Rewriting(p), ~Rewriting(p)'
  PROVE  StoreStep
<1>1. Rows' = Rows /\ Undone' = Undone
  BY RowsRest
<1>2. /\ StageOf(p)' = StageOf(p) /\ KindOf(p)' = KindOf(p) /\ ViewOf(p)' = ViewOf(p)
      /\ AnswerOf(p)' = AnswerOf(p) /\ DoomedBy(p)' = DoomedBy(p)
  BY DEF StageOf, KindOf, ViewOf, AnswerOf, DoomedBy
<1> QED
  BY <1>1, <1>2, OwnSame DEF StoreStep

LEMMA FilesOfLiveStay ==
  ASSUME LiveStays
  PROVE  FilesStay
BY DEF LiveStays, FilesStay

\* Statements begin with what is there.
LEMMA RefreshRefines ==
  ASSUME TypeOK, LockInv, ScriptInv, DataInv, NEW p \in Proc, Refresh(p), lock[p] # "none"
  PROVE  StoreStep
<1>1. /\ OthersRest(p) /\ LiveStays /\ FilesStay /\ UNCHANGED <<fstate, ftable, frows, lock, script, todo, fresh, seen>>
      /\ pc[p] = "refresh" /\ pc'[p] = "run"
      /\ cat'[p] = {f \in File : fstate[f] = "live" /\ frows[f] # {}}
  BY RefreshGives
<1>2. ~Using(p) /\ Using(p)' /\ ~Rewriting(p) /\ ~Rewriting(p)'
  BY <1>1 DEF Using, Locked, Rewriting
<1>3. Rows' = Rows /\ Undone' = Undone
  BY <1>1, <1>2, RowsRest
<1>4. Rows = [t \in Table |-> RowsOf(Live(t))] /\ Undone = Nothing
  BY <1>2, NobodyRewrites, Settled
<1>5. StageOf(p) = "out" /\ StageOf(p)' = "ready" /\ AnswerOf(p)' = AnswerOf(p) /\ DoomedBy(p)' = DoomedBy(p)
  BY <1>1, <1>2 DEF StageOf, AnswerOf, DoomedBy, At
<1>6. KindOf(p)' \in Kind
  <2>1. script[p] \in Seq(Command) /\ script[p] # <<>> /\ script'[p] = script[p]
    BY <1>1 DEF ScriptInv, TypeOK
  <2>2. KindOf(p)' = Head(script[p]).kind
    BY <1>2, <2>1 DEF KindOf, Cmd
  <2>3. Head(script[p]) \in Command
    BY <2>1, HeadAndTail
  <2> QED
    BY <2>2, <2>3 DEF Command
<1>7. ViewOf(p)' = Rows
  <2>1. Hidden(p)' = {}
    BY <1>2 DEF Hidden, Rewriting, At
  <2>2. ASSUME NEW t \in Table
        PROVE  RowsOf(Extents(p, t) \ Hidden(p))' = RowsOf(Live(t))
    <3>1. (Extents(p, t) \ Hidden(p))' = {f \in Live(t) : frows[f] # {}}
      BY <1>1, <2>1 DEF Extents, Live
    <3>2. RowsOf({f \in Live(t) : frows[f] # {}}) = RowsOf(Live(t))
      BY DEF RowsOf
    <3>3. RowsOf(Extents(p, t) \ Hidden(p))' = UNION {frows[f] : f \in {g \in Live(t) : frows[g] # {}}}
      BY <1>1, <3>1 DEF RowsOf
    <3> QED
      BY <3>2, <3>3 DEF RowsOf
  <2> QED
    BY <1>2, <1>4, <2>2 DEF ViewOf
<1>8. Store!Begin(p)
  <2>1. Stages' = [Stages EXCEPT ![p] = "ready"] /\ \E k \in Kind : Kinds' = [Kinds EXCEPT ![p] = k]
    BY <1>1, <1>5, <1>6, OwnOnly
  <2>2. Views' = [Views EXCEPT ![p] = Rows]
    BY <1>1, <1>7, OwnOnly
  <2>3. Answers' = Answers /\ Doomed' = Doomed
    BY <1>1, <1>5, OwnSame
  <2>4. Stages[p] = "out"
    BY <1>5, OwnNow
  <2> QED
    BY <1>3, <1>4, <2>1, <2>2, <2>3, <2>4 DEF Store!Begin, Store!Empty, Nothing
<1> QED
  BY <1>8 DEF StoreStep, Store!Next

\* The catalog, and what of it counts, is as it was.
LEMMA ViewRests ==
  ASSUME TypeOK, DataInv, NEW p \in Proc, FilesStay, cat'[p] = cat[p], Using(p), Using(p)',
         ~Rewriting(p), ~Rewriting(p)'
  PROVE  ViewOf(p)' = ViewOf(p)
<1>1. Hidden(p) = {} /\ Hidden(p)' = {}
  BY DEF Hidden, Rewriting, At
<1>2. Known(p) /\ cat[p] \in SUBSET File
  BY DEF DataInv, Mine, TypeOK
<1>3. ASSUME NEW t \in Table
      PROVE  RowsOf(Extents(p, t) \ Hidden(p))' = RowsOf(Extents(p, t) \ Hidden(p))
  <2>1. Extents(p, t)' = Extents(p, t)
    BY <1>2, ExtentsStay
  <2>2. PICK S : S = Extents(p, t) \ Hidden(p)
    OBVIOUS
  <2>3. S \in SUBSET File /\ (\A f \in S : fstate[f] # "none") /\ (Extents(p, t) \ Hidden(p))' = S
    BY <1>1, <1>2, <2>1, <2>2 DEF Extents, Known
  <2>4. UNION {frows'[f] : f \in S} = RowsOf(S)
    BY <2>3, RowsStay
  <2>5. RowsOf(Extents(p, t) \ Hidden(p))' = UNION {frows'[f] : f \in S}
    BY <2>3 DEF RowsOf
  <2> QED
    BY <2>2, <2>4, <2>5
<1> QED
  BY <1>3 DEF ViewOf

\* A command does nothing more, or has done nothing yet.
LEMMA FinishOrNone ==
  ASSUME TypeOK, DataInv, NEW p \in Proc, OthersRest(p), FilesStay, Rows' = Rows, Undone' = Undone,
         KindOf(p)' = KindOf(p), ViewOf(p)' = ViewOf(p), AnswerOf(p) = {}, AnswerOf(p)' = {},
         DoomedBy(p) = Nothing, DoomedBy(p)' = Nothing,
         StageOf(p)' = StageOf(p) \/ (StageOf(p) = "ready" /\ StageOf(p)' = "done")
  PROVE  StoreStep
<1>1. Kinds' = Kinds /\ Views' = Views /\ Answers' = Answers /\ Doomed' = Doomed
  BY OwnSame
<1>2. CASE StageOf(p)' = StageOf(p)
  BY <1>1, <1>2, OwnSame DEF StoreStep
<1>3. CASE StageOf(p) = "ready" /\ StageOf(p)' = "done"
  <2>1. Stages[p] = "ready" /\ Doomed[p] = Nothing /\ Stages' = [Stages EXCEPT ![p] = "done"]
    BY <1>3, OwnNow, OwnOnly
  <2>2. Store!Finish(p)
    BY <1>1, <2>1 DEF Store!Finish, Store!Finished, Store!Empty, Nothing
  <2> QED
    BY <2>2 DEF StoreStep, Store!Next
<1> QED
  BY <1>2, <1>3

LEMMA NameTablesRefines ==
  ASSUME TypeOK, LockInv, ScriptInv, DataInv, NEW p \in Proc, NameTables(p), lock[p] # "none"
  PROVE  StoreStep
<1>1. /\ OthersRest(p) /\ LiveStays /\ FilesStay /\ UNCHANGED <<lock, cat, todo, rest, fresh, seen>>
      /\ pc[p] = "run" /\ pc'[p] \in {"run", "end"} /\ Cmd(p)'.kind = Cmd(p).kind
  BY NameTablesGives
<1>2. Using(p) /\ Using(p)' /\ ~Rewriting(p) /\ ~Rewriting(p)'
  BY <1>1 DEF Using, Locked, Rewriting
<1>3. Rows' = Rows /\ Undone' = Undone /\ ViewOf(p)' = ViewOf(p)
  BY <1>1, <1>2, RowsRest, ViewRests
<1>4. KindOf(p)' = KindOf(p)
  BY <1>1, <1>2 DEF KindOf
<1>5. AnswerOf(p) = {} /\ AnswerOf(p)' = {} /\ DoomedBy(p) = Nothing /\ DoomedBy(p)' = Nothing
  BY <1>1 DEF AnswerOf, DoomedBy, Nothing, At
<1>6. StageOf(p) = "ready" /\ StageOf(p)' \in {"ready", "done"}
  BY <1>1, <1>2 DEF StageOf
<1> QED
  BY <1>1, <1>3, <1>4, <1>5, <1>6, FinishOrNone

\* Where a command is that has done nothing yet, or is through.
LEMMA QuietPlaces ==
  ASSUME TypeOK, HalfwayInv, NEW p \in Proc,
         \/ Refuse(p) \/ AnswerFromCatalog(p) \/ BeginQuery(p) \/ ScanExtent(p) \/ ScanMissing(p) \/ BeginAppend(p)
         \/ WriteNothing(p) \/ CompactNothing(p) \/ DeleteNothing(p) \/ FinishDrop(p) \/ BeginGC(p) \/ Collect(p)
         \/ CollectMissing(p) \/ FinishGC(p)
  PROVE  /\ pc[p] \in {"run", "scan", "create", "append", "move", "collect"}
         /\ pc'[p] = "answered" => pc[p] \in {"run", "scan"} /\ Cmd(p).kind = "query"
<1>1. CASE AnswerFromCatalog(p) \/ BeginQuery(p)
  BY <1>1 DEF AnswerFromCatalog, BeginQuery, Begins, At
<1>2. CASE ScanExtent(p)
  BY <1>2 DEF ScanExtent, HalfwayInv, Fits, At
<1>3. CASE BeginAppend(p)
  <2>1. pc'[p] \in {"append", "create"}
    BY <1>3 DEF BeginAppend, Goto, TypeOK
  <2> QED
    BY <1>3, <2>1 DEF BeginAppend, Begins, At
<1>4. CASE Collect(p) \/ CollectMissing(p)
  BY <1>4 DEF Collect, CollectMissing, At
<1>5. CASE Refuse(p) \/ CompactNothing(p) \/ DeleteNothing(p) \/ BeginGC(p)
  BY <1>5 DEF Refuse, CompactNothing, DeleteNothing, BeginGC, Begins, Goto, At, TypeOK
<1>6. CASE ScanMissing(p) \/ WriteNothing(p) \/ FinishDrop(p) \/ FinishGC(p)
  BY <1>6 DEF ScanMissing, WriteNothing, FinishDrop, FinishGC, Goto, At, TypeOK
<1> QED
  BY <1>1, <1>2, <1>3, <1>4, <1>5, <1>6

LEMMA QuietRefines ==
  ASSUME TypeOK, LockInv, ScriptInv, DataInv, HalfwayInv, ScriptInv', DataInv', TypeOK', NEW p \in Proc, Quiet(p),
         lock[p] # "none", pc[p] \in {"run", "scan", "create", "append", "move", "collect"},
         pc'[p] = "answered" => pc[p] \in {"run", "scan"} /\ Cmd(p).kind = "query"
  PROVE  StoreStep
<1>1. /\ OthersRest(p) /\ LiveStays /\ FilesStay /\ UNCHANGED <<lock, cat, script>>
      /\ pc'[p] \in {"scan", "answered", "create", "append", "collect", "end", "failed"}
      /\ pc[p] = "move" => todo[p] = {}
  BY FilesOfLiveStay DEF Quiet
<1>2. Using(p) /\ Using(p)' /\ ~Rewriting(p) /\ ~Rewriting(p)'
  BY <1>1 DEF Using, Locked, Rewriting
<1>3. Rows' = Rows /\ Undone' = Undone /\ ViewOf(p)' = ViewOf(p)
  BY <1>1, <1>2, RowsRest, ViewRests
<1>4. KindOf(p)' = KindOf(p) /\ KindOf(p) = Cmd(p).kind
  BY <1>1, <1>2 DEF KindOf, Cmd
<1>5. AnswerOf(p) = {} /\ DoomedBy(p) = Nothing /\ DoomedBy(p)' = Nothing
  <2>1. RowsOf({}) = {}
    BY DEF RowsOf
  <2> QED
    BY <1>1, <2>1 DEF AnswerOf, DoomedBy, Nothing, At
<1>6. StageOf(p) = "ready" /\ StageOf(p)' = IF pc'[p] \in {"answered", "end", "failed"} THEN "done" ELSE "ready"
  BY <1>1, <1>2 DEF StageOf
<1>7. CASE pc'[p] # "answered"
  <2>1. AnswerOf(p)' = {}
    BY <1>7 DEF AnswerOf, At
  <2> QED
    BY <1>1, <1>3, <1>4, <1>5, <1>6, <2>1, FinishOrNone
<1>8. CASE pc'[p] = "answered"
  <2>1. PICK t \in Table : cur'[p] = t
    BY <1>8 DEF ScriptInv
  <2>2. seen'[p] = Extents(p, cur[p])'
    BY <1>8 DEF DataInv, Mine, Counts
  <2>3. Hidden(p)' = {}
    BY <1>8 DEF Hidden, At
  <2>4. RowsOf(Extents(p, t) \ Hidden(p))' = RowsOf(seen[p])'
    BY <2>1, <2>2, <2>3 DEF RowsOf, Extents
  <2>5. AnswerOf(p)' = {RowsOf(seen[p])'}
    BY <1>2, <1>8 DEF AnswerOf, At
  <2>6. ViewOf(p)'[t] = RowsOf(seen[p])'
    BY <1>2, <2>4 DEF ViewOf
  <2>7. AnswerOf(p)' = {Views[p][t]}
    BY <1>3, <2>5, <2>6, OwnNow
  <2>8. /\ Stages[p] = "ready" /\ Kinds[p] = "query" /\ Stages' = [Stages EXCEPT ![p] = "done"]
        /\ Answers' = [Answers EXCEPT ![p] = {Views[p][t]}]
    BY <1>1, <1>4, <1>6, <1>8, <2>7, OwnNow, OwnOnly
  <2>9. Kinds' = Kinds /\ Views' = Views /\ Doomed' = Doomed
    BY <1>1, <1>3, <1>4, <1>5, OwnSame
  <2>10. Store!Query(p, t)
    BY <1>3, <2>8, <2>9 DEF Store!Query, Store!Finished
  <2> QED
    BY <2>10 DEF StoreStep, Store!Next
<1> QED
  BY <1>7, <1>8

\* The end of a command, and of a statement.
LEMMA TurnRefines ==
  ASSUME TypeOK, LockInv, ScriptInv, DataInv, TypeOK', ScriptInv', NEW p \in Proc, EndCommand(p) \/ AbortStatement(p), Using(p)
  PROVE  StoreStep
<1>1. OthersRest(p) /\ LiveStays /\ FilesStay /\ pc[p] \in {"end", "answered", "failed"} /\ lock[p] # "none"
  BY TurnGives DEF EndCommand, AbortStatement, At, Using, Locked
<1>2. ~Rewriting(p) /\ StageOf(p) = "done" /\ DoomedBy(p) = Nothing
  BY <1>1 DEF Rewriting, StageOf, DoomedBy, Nothing, At
<1>3. Undone = Nothing
  BY <1>1, <1>2, NobodyRewrites, Settled
<1>4. Stages[p] = "done"
  BY <1>2, OwnNow
<1>5. CASE lock'[p] = "none" /\ pc'[p] = "idle"
  <2>1. ~Using(p)' /\ ~Rewriting(p)'
    BY <1>5 DEF Using, Locked, Rewriting
  <2>2. Rows' = Rows /\ Undone' = Undone
    BY <1>1, <1>2, <2>1, RowsRest
  <2>3. StageOf(p)' = "out" /\ KindOf(p)' = "none" /\ ViewOf(p)' = Nothing /\ AnswerOf(p)' = {} /\ DoomedBy(p)' = Nothing
    BY <2>1 DEF StageOf, KindOf, ViewOf, AnswerOf, DoomedBy, Nothing
  <2>4. /\ Stages' = [Stages EXCEPT ![p] = "out"] /\ Kinds' = [Kinds EXCEPT ![p] = "none"]
        /\ Views' = [Views EXCEPT ![p] = Nothing] /\ Answers' = [Answers EXCEPT ![p] = {}]
        /\ Doomed' = [Doomed EXCEPT ![p] = Nothing]
    BY <1>1, <2>3, OwnOnly
  <2>5. Store!End(p)
    BY <1>3, <1>4, <2>2, <2>4 DEF Store!End, Store!Leave, Store!Empty, Nothing
  <2> QED
    BY <2>5 DEF StoreStep, Store!Next
<1>6. CASE ~(lock'[p] = "none" /\ pc'[p] = "idle")
  <2>1. pc'[p] = "run" /\ lock'[p] = lock[p] /\ cat'[p] = cat[p]
    BY <1>6, TurnGives
  <2>2. Using(p)' /\ ~Rewriting(p)'
    BY <1>1, <2>1 DEF Using, Locked, Rewriting
  <2>3. Rows' = Rows /\ Undone' = Undone /\ ViewOf(p)' = ViewOf(p)
    BY <1>1, <1>2, <2>1, <2>2, RowsRest, ViewRests
  <2>4. StageOf(p)' = "ready" /\ AnswerOf(p)' = {} /\ DoomedBy(p)' = Nothing
    BY <2>1, <2>2 DEF StageOf, AnswerOf, DoomedBy, Nothing, At
  <2>5. KindOf(p)' \in Kind
    <3>1. script'[p] \in Seq(Command) /\ script'[p] # <<>> /\ KindOf(p)' = Head(script'[p]).kind
      BY <2>1, <2>2 DEF ScriptInv, TypeOK, KindOf, Cmd
    <3>2. Head(script'[p]) \in Command
      BY <3>1, HeadAndTail
    <3> QED
      BY <3>1, <3>2 DEF Command
  <2>6. /\ Stages' = [Stages EXCEPT ![p] = "ready"] /\ Answers' = [Answers EXCEPT ![p] = {}]
        /\ \E k \in Kind : Kinds' = [Kinds EXCEPT ![p] = k]
    BY <1>1, <2>4, <2>5, OwnOnly
  <2>7. Views' = Views /\ Doomed' = Doomed
    BY <1>1, <1>2, <2>3, <2>4, OwnSame
  <2>8. Store!Turn(p)
    BY <1>3, <1>4, <2>3, <2>6, <2>7 DEF Store!Turn, Store!Empty, Nothing
  <2> QED
    BY <2>8 DEF StoreStep, Store!Next
<1> QED
  BY <1>5, <1>6

-----------------------------------------------------------------------------
(* Steps that add rows.                                                    *)

LEMMA NewRows ==
  ASSUME NEW R, NEW S, R \cap RowsOf(S) = {}, \A t \in Table : Rows[t] \subseteq RowsOf(S), Undone = Nothing,
         \A q \in Proc, t \in Table : ViewOf(q)[t] \subseteq RowsOf(S) /\ DoomedBy(q)[t] \subseteq RowsOf(S)
  PROVE  Store!New(R)
<1>1. \A t \in Table : Undone[t] = {}
  BY DEF Nothing
<1>2. \A q \in Proc : Views[q] = ViewOf(q) /\ Doomed[q] = DoomedBy(q)
  BY OwnNow
<1>3. \A t \in Table : R \cap (Rows[t] \cup Undone[t]) = {}
  BY <1>1
<1>4. \A t \in Table, q \in Proc : R \cap (Views[q][t] \cup Doomed[q][t]) = {}
  BY <1>2
<1> QED
  BY <1>3, <1>4 DEF Store!New

LEMMA UnusedAreNew ==
  ASSUME TypeOK, NEW R \in SUBSET UnusedRows, Undone = Nothing
  PROVE  Store!New(R)
<1>1. R \cap RowsOf(File) = {}
  BY DEF UnusedRows
<1>2. \A S \in SUBSET File : RowsOf(S) \subseteq RowsOf(File)
  BY DEF RowsOf
<1>3. \A t \in Table : Rows[t] \subseteq RowsOf(File)
  BY <1>2 DEF Rows, Shown, Live
<1>4. ASSUME NEW q \in Proc, NEW t \in Table
      PROVE  ViewOf(q)[t] \subseteq RowsOf(File) /\ DoomedBy(q)[t] \subseteq RowsOf(File)
  <2>1. cat[q] \in SUBSET File /\ todo[q] \in SUBSET File
    BY DEF TypeOK
  <2>2. RowsOf(Extents(q, t) \ Hidden(q)) \subseteq RowsOf(File) /\ RowsOf(todo[q]) \subseteq RowsOf(File)
    BY <1>2, <2>1 DEF Extents
  <2> QED
    BY <2>2 DEF ViewOf, DoomedBy
<1> QED
  BY <1>1, <1>3, <1>4, NewRows

LEMMA CreateTableRefines ==
  ASSUME TypeOK, LockInv, ScriptInv, DataInv, NEW p \in Proc, CreateTable(p)
  PROVE  StoreStep
<1>1. /\ OthersRest(p) /\ lock[p] # "none" /\ cur[p] \in Table /\ pc[p] = "create"
      /\ UNCHANGED <<lock, script, cur, cat, todo, rest, fresh, seen>>
      /\ pc'[p] \in {"end", "append"}
  BY CreateTableGives
<1>2. PICK f \in File : Commit(f, cur[p], {})
  BY CreateTableGives
<1>3. /\ FilesStay /\ fstate[f] = "none" /\ frows'[f] = {}
      /\ \A g \in File \ {f} : frows'[g] = frows[g]
      /\ Live(cur[p])' = Live(cur[p]) \cup {f} /\ \A u \in Table \ {cur[p]} : Live(u)' = Live(u)
  BY <1>1, <1>2, CommitGives
<1>4. Using(p) /\ Using(p)' /\ ~Rewriting(p) /\ ~Rewriting(p)'
  BY <1>1 DEF Using, Locked, Rewriting
<1>5. \A q \in Proc : ~Rewriting(q) /\ ~Rewriting(q)'
  <2>1. \A q \in Proc : ~Rewriting(q)
    BY <1>1, <1>4, NobodyRewrites
  <2> QED
    BY <1>1, <1>4, <2>1 DEF OthersRest, Rewriting
<1>6. Undone' = Undone
  BY <1>5, Settled, SettledAfter
<1>7. ASSUME NEW t \in Table
      PROVE  RowsOf(Live(t))' = RowsOf(Live(t))
  <2>1. f \notin Live(t) /\ Live(t) \in SUBSET File /\ (Live(t)' = Live(t) \/ Live(t)' = Live(t) \cup {f})
    BY <1>1, <1>3 DEF Live
  <2>2. RowsOf(Live(t))' = UNION {frows'[g] : g \in Live(t)'}
    BY DEF RowsOf
  <2> QED
    BY <1>3, <2>1, <2>2 DEF RowsOf
<1>8. Rows' = Rows
  BY <1>5, <1>7, Settled, SettledAfter
<1>9. ViewOf(p)' = ViewOf(p) /\ KindOf(p)' = KindOf(p)
  BY <1>1, <1>3, <1>4, ViewRests DEF KindOf, Cmd
<1>10. AnswerOf(p) = {} /\ AnswerOf(p)' = {} /\ DoomedBy(p) = Nothing /\ DoomedBy(p)' = Nothing
  BY <1>1 DEF AnswerOf, DoomedBy, Nothing, At
<1>11. StageOf(p) = "ready" /\ StageOf(p)' \in {"ready", "done"}
  BY <1>1, <1>4 DEF StageOf
<1> QED
  BY <1>1, <1>3, <1>6, <1>8, <1>9, <1>10, <1>11, FinishOrNone

LEMMA AppendRowsRefines ==
  ASSUME TypeOK, LockInv, ScriptInv, DataInv, HalfwayInv, NEW p \in Proc, AppendRows(p)
  PROVE  StoreStep
<1>1. /\ OthersRest(p) /\ lock[p] # "none" /\ cur[p] \in Table /\ pc[p] = "append"
      /\ UNCHANGED <<lock, script, cur, todo, rest, fresh, seen>>
      /\ pc'[p] \in {"end", "append"}
  BY AppendRowsGives
<1>2. PICK f \in File, R \in SUBSET UnusedRows :
        R # {} /\ Commit(f, cur[p], R) /\ cat' = [cat EXCEPT ![p] = @ \cup {f}]
  BY AppendRowsGives
<1>3. R \in (SUBSET Row) \ {{}} /\ Known(p) /\ Fits(p)
  BY <1>2 DEF UnusedRows, DataInv, Mine, HalfwayInv
<1>4. /\ FilesStay /\ fstate[f] = "none" /\ ftable'[f] = cur[p] /\ frows'[f] = R
      /\ \A g \in File \ {f} : frows'[g] = frows[g] /\ ftable'[g] = ftable[g]
      /\ Live(cur[p])' = Live(cur[p]) \cup {f} /\ \A u \in Table \ {cur[p]} : Live(u)' = Live(u)
  BY <1>1, <1>2, <1>3, CommitGives
<1>5. Using(p) /\ Using(p)' /\ ~Rewriting(p) /\ ~Rewriting(p)'
  BY <1>1 DEF Using, Locked, Rewriting
<1>6. \A q \in Proc : ~Rewriting(q) /\ ~Rewriting(q)'
  <2>1. \A q \in Proc : ~Rewriting(q)
    BY <1>1, <1>5, NobodyRewrites
  <2> QED
    BY <1>1, <1>5, <2>1 DEF OthersRest, Rewriting
<1>7. Undone' = Undone /\ Undone = Nothing
  BY <1>6, Settled, SettledAfter
<1>8. \A S \in SUBSET (File \ {f}) : UNION {frows'[g] : g \in S} = RowsOf(S) /\ UNION {frows'[g] : g \in S \cup {f}} = RowsOf(S) \cup R
  BY <1>4 DEF RowsOf
<1>9. Rows' = [Rows EXCEPT ![cur[p]] = @ \cup R]
  <2>1. \A t \in Table : Live(t) \in SUBSET (File \ {f})
    BY <1>4 DEF Live
  <2>2. \A t \in Table : RowsOf(Live(t))' = UNION {frows'[g] : g \in Live(t)'}
    BY DEF RowsOf
  <2>3. \A t \in Table \ {cur[p]} : RowsOf(Live(t))' = RowsOf(Live(t))
    BY <1>4, <1>8, <2>1, <2>2
  <2>5. PICK t \in Table : t = cur[p]
    BY <1>1
  <2>6. RowsOf(Live(t))' = RowsOf(Live(t)) \cup R
    BY <1>1, <1>4, <1>8, <2>1, <2>2, <2>5
  <2>7. Rows = [u \in Table |-> RowsOf(Live(u))] /\ Rows' = [u \in Table |-> RowsOf(Live(u))']
    BY <1>6, Settled, SettledAfter
  <2> QED
    BY <2>3, <2>5, <2>6, <2>7
<1>10. ViewOf(p)' = [ViewOf(p) EXCEPT ![cur[p]] = @ \cup R]
  <2>1. cat[p] \in SUBSET (File \ {f}) /\ cat'[p] = cat[p] \cup {f} /\ Hidden(p) = {} /\ Hidden(p)' = {}
    BY <1>1, <1>2, <1>3, <1>4 DEF Known, TypeOK, Hidden, At
  <2>2. PICK t \in Table : t = cur[p]
    BY <1>1
  <2>3. ASSUME NEW u \in Table
        PROVE  RowsOf(Extents(p, u) \ Hidden(p))' = IF u = t THEN RowsOf(Extents(p, u) \ Hidden(p)) \cup R ELSE RowsOf(Extents(p, u) \ Hidden(p))
    <3>1. PICK S : S = Extents(p, u)
      OBVIOUS
    <3>2. S \in SUBSET (File \ {f}) /\ Extents(p, u) \ Hidden(p) = S
      BY <2>1, <3>1 DEF Extents
    <3>3. (Extents(p, u) \ Hidden(p))' = IF u = t THEN S \cup {f} ELSE S
      BY <1>4, <2>1, <2>2, <3>1 DEF Extents
    <3>4. RowsOf(Extents(p, u) \ Hidden(p))' = UNION {frows'[g] : g \in (Extents(p, u) \ Hidden(p))'}
      BY DEF RowsOf
    <3> QED
      BY <1>8, <3>2, <3>3, <3>4
  <2>4. /\ ViewOf(p) = [u \in Table |-> RowsOf(Extents(p, u) \ Hidden(p))]
        /\ ViewOf(p)' = [u \in Table |-> RowsOf(Extents(p, u) \ Hidden(p))']
    BY <1>5 DEF ViewOf
  <2> QED
    BY <2>2, <2>3, <2>4
<1>11. /\ KindOf(p)' = KindOf(p) /\ AnswerOf(p)' = AnswerOf(p) /\ DoomedBy(p)' = DoomedBy(p)
       /\ KindOf(p) \in {"append", "replace", "recreate"}
  BY <1>1, <1>3, <1>5 DEF KindOf, Cmd, Fits, AnswerOf, DoomedBy, At
<1>12. StageOf(p) = "ready" /\ (StageOf(p)' = "ready" \/ StageOf(p)' = "done")
  BY <1>1, <1>5 DEF StageOf
<1>13. Store!Add(p, cur[p])
  <2>1. Store!New(R)
    BY <1>7, UnusedAreNew
  <2>2. PICK t \in Table : t = cur[p]
    BY <1>1
  <2>3. Views' = [Views EXCEPT ![p][t] = @ \cup R]
    <3>1. Views' = [Views EXCEPT ![p] = [ViewOf(p) EXCEPT ![t] = @ \cup R]] /\ Views[p] = ViewOf(p)
      BY <1>1, <1>4, <1>10, <2>2, OwnOnly, OwnNow
    <3> QED
      BY <3>1 DEF Views
  <2>4. Stages' = Stages \/ Stages' = [Stages EXCEPT ![p] = "done"]
    BY <1>1, <1>4, <1>12, OwnOnly, OwnSame
  <2>5. Stages[p] = "ready" /\ Kinds[p] \in {"append", "replace", "recreate"}
    BY <1>11, <1>12, OwnNow
  <2>6. Kinds' = Kinds /\ Answers' = Answers /\ Doomed' = Doomed
    BY <1>1, <1>4, <1>11, OwnSame
  <2>7. Store!Add(p, t)
    BY <1>3, <1>7, <1>9, <2>1, <2>2, <2>3, <2>4, <2>5, <2>6 DEF Store!Add, Store!Finished
  <2> QED
    BY <2>2, <2>7
<1> QED
  BY <1>1, <1>13 DEF StoreStep, Store!Next

-----------------------------------------------------------------------------
(* Rewrites.                                                               *)

LEMMA StartRefines ==
  ASSUME TypeOK, LockInv, ScriptInv, DataInv, NoLongerNames, NEW p \in Proc,
         BeginReplace(p) \/ BeginCompact(p) \/ BeginDelete(p)
  PROVE  StoreStep
<1>1. PICK t \in Table, k \in {"replace", "compact", "delete"}, R \in SUBSET Row, old \in SUBSET File : \E G :
        Begins(p, t, k) /\ StartRewrite(p, R, G, old)
  BY RewritesBegin
<1>2. /\ OthersRest(p) /\ LiveStays /\ FilesStay /\ lock[p] = "exclusive"
      /\ UNCHANGED <<fstate, ftable, frows, lock, script, cat, fresh, seen>>
      /\ pc[p] = "run" /\ pc'[p] = "write"
  BY <1>1, StartRewriteGives
<1>3. fresh[p] = {}
  BY <1>2 DEF DataInv, Mine, Counts
<1>4. Hidden(p) = {} /\ Hidden(p)' = {} /\ Using(p) /\ Using(p)' /\ ~Rewriting(p) /\ Rewriting(p)'
  BY <1>2, <1>3 DEF Hidden, Using, Locked, Rewriting, At
<1>5. Undone = Nothing /\ Undone' = Nothing
  BY <1>2, <1>4, NobodyRewrites, Settled, LoneRowsAfter
<1>6. Rows' = Rows
  <2>1. \A u \in Table : Shown(u)' = Live(u)'
    <3>1. \A u : Shown(u)' = Live(u)' \ Hidden(p)'
      BY <1>2, <1>4, LoneRowsAfter
    <3> QED
      BY <1>4, <3>1
  <2>2. Rows = [u \in Table |-> RowsOf(Live(u))]
    BY <1>2, <1>4, NobodyRewrites, Settled
  <2>3. \A u \in Table : RowsOf(Shown(u))' = RowsOf(Live(u))
    BY <1>2, <2>1 DEF RowsOf, Live
  <2> QED
    BY <2>2, <2>3 DEF Rows
<1>7. ViewOf(p)' = ViewOf(p) /\ KindOf(p)' = KindOf(p)
  BY <1>2, <1>4 DEF ViewOf, KindOf, Cmd, RowsOf, Extents
<1>8. AnswerOf(p) = {} /\ AnswerOf(p)' = {} /\ DoomedBy(p) = Nothing /\ DoomedBy(p)' = Nothing
  BY <1>2 DEF AnswerOf, DoomedBy, Nothing, At
<1>9. StageOf(p) = "ready" /\ StageOf(p)' = "ready"
  BY <1>2, <1>4 DEF StageOf
<1> QED
  BY <1>2, <1>5, <1>6, <1>7, <1>8, <1>9, FinishOrNone

\* The catalog of a rewriter is what is in the directory, but for empty files.
LEMMA RewriterSees ==
  ASSUME TypeOK, LockInv, DataInv, ShellsInv, HalfwayInv, NEW p \in Proc, Rewriting(p)
  PROVE  /\ \A t \in Table : Extents(p, t) \subseteq Live(t) /\ \A f \in Live(t) \ Extents(p, t) : frows[f] = {}
         /\ \A S : \A t \in Table : RowsOf(Live(t) \ S) = RowsOf(Extents(p, t) \ S)
<1>1. lock[p] = "exclusive" /\ Past(p) /\ Fits(p) /\ HasAll(p) /\ Registers(p) /\ cat[p] \in SUBSET File
  BY RewritersAlone DEF HalfwayInv, DataInv, Mine, ShellsInv, Past, Rewriting, TypeOK
<1>2. Unregistered(p) = {}
  BY <1>1 DEF Registers, Fits, Removal, Rewriting
<1>3. ASSUME NEW t \in Table
      PROVE  Extents(p, t) \subseteq Live(t) /\ \A f \in Live(t) \ Extents(p, t) : frows[f] = {}
  BY <1>1, <1>2 DEF HasAll, Unregistered, Extents, Live
<1>4. ASSUME NEW t \in Table, NEW S
      PROVE  RowsOf(Live(t) \ S) = RowsOf(Extents(p, t) \ S)
  BY <1>3 DEF RowsOf
<1> QED
  BY <1>3, <1>4

\* A rewriter and its files.
LEMMA RewriterIs ==
  ASSUME TypeOK, LockInv, ScriptInv, DataInv, HalfwayInv, NEW p \in Proc, Rewriting(p)
  PROVE  /\ lock[p] = "exclusive" /\ Using(p) /\ cur[p] \in Table
         /\ \A f \in todo[p] : f \in File /\ ftable[f] = cur[p]
         /\ \A f \in fresh[p] : f \in File /\ fstate[f] = "live" /\ ftable[f] = cur[p] /\ f \notin todo[p] /\ f \in cat[p]
         /\ KindOf(p) = Cmd(p).kind /\ Cmd(p).kind \in {"replace", "compact", "delete"}
         /\ AnswerOf(p) = {} /\ DoomedBy(p) = Nothing
         /\ Hidden(p) = IF pc[p] = "write" THEN fresh[p] ELSE todo[p]
         /\ StageOf(p) = IF pc[p] = "write" THEN "ready" ELSE "done"
<1>1. lock[p] = "exclusive" /\ cur[p] \in Table /\ Mine(p) /\ Fits(p) /\ Halfway(p) /\ pc[p] \in {"write", "supersede"}
  BY RewritersAlone DEF ScriptInv, Rewriting, DataInv, HalfwayInv
<1>2. Using(p)
  BY <1>1 DEF Using, Locked
<1>3. todo[p] \in SUBSET File /\ fresh[p] \in SUBSET File
  BY DEF TypeOK
<1>4. \A f \in todo[p] : f \in File /\ ftable[f] = cur[p]
  BY <1>1, <1>3 DEF Mine, Removes
<1>5. \A f \in fresh[p] : f \in File /\ fstate[f] = "live" /\ ftable[f] = cur[p] /\ f \notin todo[p] /\ f \in cat[p]
  BY <1>1, <1>3 DEF Mine, Rewrites, Halfway
<1>6. KindOf(p) = Cmd(p).kind /\ Cmd(p).kind \in {"replace", "compact", "delete"}
  BY <1>1, <1>2 DEF KindOf, Fits
<1>7. AnswerOf(p) = {} /\ DoomedBy(p) = Nothing
  BY <1>1 DEF AnswerOf, DoomedBy, Nothing, At
<1>8. /\ Hidden(p) = IF pc[p] = "write" THEN fresh[p] ELSE todo[p]
      /\ StageOf(p) = IF pc[p] = "write" THEN "ready" ELSE "done"
  BY <1>1, <1>2 DEF Hidden, StageOf, At
<1> QED
  BY <1>1, <1>2, <1>4, <1>5, <1>6, <1>7, <1>8

\* What a replacement has in hand is new to the store.
LEMMA KeptIsNew ==
  ASSUME TypeOK, LockInv, ScriptInv, DataInv, ShellsInv, HalfwayInv, NEW p \in Proc, pc[p] = "write", Cmd(p).kind = "replace"
  PROVE  \A R : R \subseteq Kept(p) => Store!New(R)
<1>1. Rewriting(p) /\ Halfway(p) /\ Known(p)
  BY DEF Rewriting, HalfwayInv, DataInv, Mine
<1>2. PICK S : S = {f \in File : fstate[f] # "none"} \ fresh[p]
  OBVIOUS
<1>3. Kept(p) \cap RowsOf(S) = {}
  BY <1>1, <1>2 DEF Halfway
<1>4. Hidden(p) = fresh[p] /\ Undone = Nothing /\ \A t : Shown(t) = Live(t) \ fresh[p]
  BY <1>1, RewriterIs, LoneRows
<1>5. \A U \in SUBSET S : RowsOf(U) \subseteq RowsOf(S)
  BY DEF RowsOf
<1>6. \A t \in Table : Rows[t] \subseteq RowsOf(S)
  <2>1. \A t : Shown(t) \in SUBSET S
    BY <1>2, <1>4 DEF Live
  <2> QED
    BY <1>5, <2>1 DEF Rows
<1>7. ASSUME NEW q \in Proc, NEW t \in Table
      PROVE  ViewOf(q)[t] \subseteq RowsOf(S) /\ DoomedBy(q)[t] \subseteq RowsOf(S)
  <2>1. CASE q = p
    <3>1. Extents(p, t) \ fresh[p] \in SUBSET S
      BY <1>1, <1>2 DEF Extents, Known, TypeOK
    <3>2. ViewOf(p)[t] \subseteq RowsOf(S)
      BY <1>4, <1>5, <3>1 DEF ViewOf
    <3>3. DoomedBy(p)[t] = {}
      BY <1>1, RewriterIs DEF Nothing
    <3> QED
      BY <2>1, <3>2, <3>3
  <2>2. CASE q # p
    BY <1>1, <2>2, RewriterIs, Lone DEF Nothing
  <2> QED
    BY <2>1, <2>2
<1> QED
  <2> SUFFICES ASSUME NEW R, R \subseteq Kept(p)
               PROVE  Store!New(R)
    OBVIOUS
  <2>1. R \cap RowsOf(S) = {}
    BY <1>3
  <2> QED
    BY <1>4, <1>6, <1>7, <2>1, NewRows

\* The last of the new files is the rewrite; those before it are nothing.
LEMMA WriteExtentRefines ==
  ASSUME TypeOK, LockInv, ScriptInv, DataInv, ShellsInv, HalfwayInv, NEW p \in Proc, WriteExtent(p)
  PROVE  StoreStep
<1>1. /\ OthersRest(p) /\ lock[p] = "exclusive" /\ cur[p] \in Table /\ pc[p] = "write"
      /\ UNCHANGED <<lock, script, cur, todo, seen>>
  BY WriteExtentGives
<1>2. PICK t \in Table : t = cur[p]
  BY <1>1
<1>3. PICK f \in File, C \in SUBSET rest[p] :
        /\ Commit(f, t, C) /\ cat' = [cat EXCEPT ![p] = @ \cup {f}]
        /\ rest'[p] = rest[p] \ C /\ fresh'[p] = fresh[p] \cup {f}
        /\ pc'[p] = IF rest[p] = C THEN "supersede" ELSE "write"
  BY <1>2, WriteExtentGives
<1>4. C \in SUBSET Row /\ Known(p) /\ Halfway(p) /\ Rewriting(p)
  BY <1>1, <1>3 DEF TypeOK, DataInv, Mine, HalfwayInv, Rewriting
<1>5. /\ FilesStay /\ fstate[f] = "none" /\ ftable'[f] = t /\ frows'[f] = C
      /\ \A g \in File \ {f} : frows'[g] = frows[g] /\ ftable'[g] = ftable[g]
      /\ Live(t)' = Live(t) \cup {f} /\ \A u \in Table \ {t} : Live(u)' = Live(u)
  BY <1>3, <1>4, CommitGives
<1>6. /\ Using(p) /\ KindOf(p) \in {"replace", "compact", "delete"} /\ KindOf(p) = Cmd(p).kind
      /\ AnswerOf(p) = {} /\ DoomedBy(p) = Nothing /\ Hidden(p) = fresh[p] /\ StageOf(p) = "ready"
      /\ \A g \in todo[p] : g \in File /\ ftable[g] = t
      /\ \A g \in fresh[p] : g \in File /\ ftable[g] = t /\ g \notin todo[p] /\ g \in cat[p]
  BY <1>1, <1>2, <1>4, RewriterIs
<1>7. /\ cat'[p] = cat[p] \cup {f} /\ cat[p] \in SUBSET (File \ {f}) /\ todo[p] \in SUBSET (File \ {f})
      /\ \A u : Live(u) \in SUBSET (File \ {f})
  BY <1>3, <1>4, <1>5 DEF TypeOK, Known, Live
<1>8. \A S \in SUBSET (File \ {f}) : UNION {frows'[g] : g \in S} = RowsOf(S) /\ UNION {frows'[g] : g \in S \cup {f}} = RowsOf(S) \cup C
  BY <1>5 DEF RowsOf
<1>9. \A u \in Table : Extents(p, u) \in SUBSET (File \ {f}) /\ Extents(p, u)' = IF u = t THEN Extents(p, u) \cup {f} ELSE Extents(p, u)
  BY <1>5, <1>7 DEF Extents
<1>10. Using(p)' /\ Rewriting(p)' /\ KindOf(p)' = KindOf(p) /\ AnswerOf(p)' = {} /\ DoomedBy(p)' = Nothing
  BY <1>1, <1>3, <1>6 DEF Using, Locked, Rewriting, KindOf, Cmd, AnswerOf, DoomedBy, Nothing, At
<1>11. /\ Undone = Nothing /\ Rows = [u \in Table |-> RowsOf(Live(u) \ fresh[p])]
       /\ ViewOf(p) = [u \in Table |-> RowsOf(Extents(p, u) \ fresh[p])]
  BY <1>1, <1>4, <1>6, LoneRows DEF Rows, ViewOf
<1>12. CASE pc'[p] = "write"
  <2>1. Hidden(p)' = fresh[p] \cup {f}
    BY <1>3, <1>12 DEF Hidden, At
  <2>2. Undone' = Nothing /\ \A u : Shown(u)' = Live(u)' \ (fresh[p] \cup {f})
    BY <1>1, <1>10, <1>12, <2>1, LoneRowsAfter
  <2>3. \A u \in Table : Shown(u)' = Live(u) \ fresh[p] /\ (Extents(p, u) \ Hidden(p))' = Extents(p, u) \ fresh[p]
    BY <1>5, <1>7, <1>9, <2>1, <2>2
  <2>4. ASSUME NEW u \in Table
        PROVE  RowsOf(Shown(u))' = RowsOf(Live(u) \ fresh[p]) /\ RowsOf(Extents(p, u) \ Hidden(p))' = RowsOf(Extents(p, u) \ fresh[p])
    <3>1. UNION {frows'[g] : g \in Live(u) \ fresh[p]} = RowsOf(Live(u) \ fresh[p])
      BY <1>7, <1>8
    <3>2. UNION {frows'[g] : g \in Extents(p, u) \ fresh[p]} = RowsOf(Extents(p, u) \ fresh[p])
      BY <1>8, <1>9
    <3>3. /\ RowsOf(Shown(u))' = UNION {frows'[g] : g \in Shown(u)'}
          /\ RowsOf(Extents(p, u) \ Hidden(p))' = UNION {frows'[g] : g \in (Extents(p, u) \ Hidden(p))'}
      BY DEF RowsOf
    <3> QED
      BY <2>3, <3>1, <3>2, <3>3
  <2>5. Rows' = Rows
    BY <1>11, <2>4 DEF Rows
  <2>6. ViewOf(p)' = ViewOf(p)
    BY <1>10, <1>11, <2>4 DEF ViewOf
  <2>7. StageOf(p)' = StageOf(p)
    BY <1>6, <1>10, <1>12 DEF StageOf
  <2> QED
    BY <1>1, <1>5, <1>6, <1>10, <1>11, <2>2, <2>5, <2>6, <2>7, FinishOrNone
<1>13. CASE pc'[p] = "supersede"
  <2>1. Hidden(p)' = todo[p] /\ StageOf(p)' = "done"
    BY <1>1, <1>10, <1>13 DEF Hidden, StageOf, At
  <2>2. PICK K : K = RowsOf(Live(t) \ todo[p]) \cup C
    OBVIOUS
  <2>3. \A u \in Table :
          /\ (Live(u)' \ todo[p]) = IF u = t THEN (Live(t) \ todo[p]) \cup {f} ELSE Live(u) \ fresh[p]
          /\ (Extents(p, u)' \ todo[p]) = IF u = t THEN (Extents(p, t) \ todo[p]) \cup {f} ELSE Extents(p, u) \ fresh[p]
          /\ Live(u)' \cap todo[p] = IF u = t THEN Live(t) \cap todo[p] ELSE {}
    <3>1. \A u \in Table : \A g \in Live(u) \cup Extents(p, u) : ftable[g] = u
      BY DEF Live, Extents
    <3>2. f \notin todo[p]
      BY <1>7
    <3> QED
      BY <1>5, <1>6, <1>9, <3>1, <3>2
  <2>4. RowsOf(Live(t) \ todo[p]) = RowsOf(Extents(p, t) \ todo[p])
    BY <1>4, RewriterSees
  <2>5. ASSUME NEW u \in Table
        PROVE  /\ UNION {frows'[g] : g \in Live(u)' \ todo[p]} = IF u = t THEN K ELSE RowsOf(Live(u) \ fresh[p])
               /\ UNION {frows'[g] : g \in Extents(p, u)' \ todo[p]} = IF u = t THEN K ELSE RowsOf(Extents(p, u) \ fresh[p])
               /\ UNION {frows'[g] : g \in Live(u)' \cap todo[p]} = IF u = t THEN RowsOf(Live(t) \cap todo[p]) ELSE {}
    <3>1. \A S : Live(u) \ S \in SUBSET (File \ {f}) /\ Extents(p, u) \ S \in SUBSET (File \ {f}) /\ Live(u) \cap S \in SUBSET (File \ {f})
      BY <1>7, <1>9
    <3>2. CASE u = t
      BY <1>8, <2>2, <2>3, <2>4, <3>1, <3>2
    <3>3. CASE u # t
      <4>1. /\ UNION {frows'[g] : g \in Live(u)' \ todo[p]} = RowsOf(Live(u) \ fresh[p])
            /\ UNION {frows'[g] : g \in Extents(p, u)' \ todo[p]} = RowsOf(Extents(p, u) \ fresh[p])
        BY <1>8, <2>3, <3>1, <3>3
      <4>2. UNION {frows'[g] : g \in Live(u)' \cap todo[p]} = {}
        BY <2>3, <3>3
      <4> QED
        BY <3>3, <4>1, <4>2
    <3> QED
      BY <3>2, <3>3
  <2>6. Rows' = [Rows EXCEPT ![t] = K]
    <3>1. \A u : Shown(u)' = Live(u)' \ todo[p]
      BY <1>1, <1>10, <2>1, LoneRowsAfter
    <3>2. \A u \in Table : RowsOf(Shown(u))' = IF u = t THEN K ELSE RowsOf(Live(u) \ fresh[p])
      BY <2>5, <3>1 DEF RowsOf
    <3> QED
      BY <1>11, <3>2 DEF Rows
  <2>7. ViewOf(p)' = [ViewOf(p) EXCEPT ![t] = K]
    <3>1. \A u \in Table : RowsOf(Extents(p, u) \ Hidden(p))' = IF u = t THEN K ELSE RowsOf(Extents(p, u) \ fresh[p])
      BY <2>1, <2>5 DEF RowsOf
    <3> QED
      BY <1>10, <1>11, <3>1 DEF ViewOf
  <2>8. Undone' = [Undone EXCEPT ![t] = Rows[t] \ K]
    <3>1. Undone' = [u \in Table |-> IF u = t THEN RowsOf(Live(t) \cap todo[p]) \ K ELSE {}]
      <4>1. Undone' = [u \in Table |-> (UNION {frows'[g] : g \in Live(u)' \cap todo[p]}) \ (UNION {frows'[g] : g \in Live(u)' \ todo[p]})]
        BY <1>1, <1>10, <1>13, LoneRowsAfter
      <4> QED
        BY <2>5, <4>1
    <3>2. Rows[t] = RowsOf(Live(t) \ fresh[p])
      BY <1>11
    <3>3. Rows[t] \ K = RowsOf(Live(t) \cap todo[p]) \ K
      <4>1. Live(t) \cap todo[p] \subseteq Live(t) \ fresh[p]
        BY <1>6
      <4>2. Live(t) \ fresh[p] \subseteq (Live(t) \cap todo[p]) \cup (Live(t) \ todo[p])
        OBVIOUS
      <4>3. RowsOf(Live(t) \cap todo[p]) \subseteq Rows[t]
        BY <3>2, <4>1 DEF RowsOf
      <4>4. Rows[t] \subseteq RowsOf(Live(t) \cap todo[p]) \cup RowsOf(Live(t) \ todo[p])
        BY <3>2, <4>2 DEF RowsOf
      <4> QED
        BY <2>2, <4>3, <4>4
    <3> QED
      BY <1>11, <3>1, <3>3 DEF Nothing
  <2>9. ViewOf(p)[t] \in SUBSET Row /\ K \in SUBSET Row
    <3>1. \A S \in SUBSET File : RowsOf(S) \in SUBSET Row
      BY DEF RowsOf, TypeOK
    <3> QED
      BY <1>4, <1>7, <1>9, <1>11, <2>2, <3>1
  <2>10. PICK G \in SUBSET ViewOf(p)[t], R \in SUBSET Row :
           /\ \/ KindOf(p) = "replace" /\ G = ViewOf(p)[t] /\ Store!New(R)
              \/ KindOf(p) \in {"compact", "delete"} /\ R = {}
           /\ (ViewOf(p)[t] \ G) \cup R = K
    <3>1. RowsOf(fresh[p]) \subseteq Kept(p) /\ C \subseteq Kept(p)
      BY <1>3 DEF Kept
    <3>2. CASE KindOf(p) = "replace"
      <4>1. Live(t) \ todo[p] \subseteq fresh[p]
        BY <1>1, <1>2, <1>4, <1>6, <3>2 DEF Halfway
      <4>2. RowsOf(Live(t) \ todo[p]) \subseteq RowsOf(fresh[p])
        BY <4>1 DEF RowsOf
      <4>3. Store!New(K)
        <5>1. K \subseteq Kept(p)
          BY <2>2, <3>1, <4>2
        <5> QED
          BY <1>1, <1>6, <3>2, <5>1, KeptIsNew
      <4> QED
        BY <2>9, <3>2, <4>3
    <3>3. CASE KindOf(p) # "replace"
      <4>1. Kept(p) \subseteq ViewOf(p)[t]
        <5>1. Kept(p) \subseteq RowsOf(Extents(p, cur[p]) \ fresh[p])
          BY <1>1, <1>4, <1>6, <3>3 DEF Halfway
        <5> QED
          BY <1>2, <1>11, <5>1
      <4>2. RowsOf(Extents(p, t) \ todo[p]) \subseteq RowsOf(Extents(p, t) \ fresh[p]) \cup RowsOf(fresh[p])
        BY DEF RowsOf
      <4>3. K \subseteq ViewOf(p)[t]
        BY <1>11, <2>2, <2>4, <3>1, <4>1, <4>2
      <4>4. (ViewOf(p)[t] \ (ViewOf(p)[t] \ K)) \cup {} = K
        BY <4>3
      <4>5. KindOf(p) \in {"compact", "delete"}
        BY <1>6, <3>3
      <4> QED
        BY <4>4, <4>5
    <3> QED
      BY <3>2, <3>3
  <2>11. Store!Change(p, t)
    <3>1. Views[p] = ViewOf(p) /\ Kinds[p] = KindOf(p) /\ Stages[p] = "ready"
      BY <1>6, OwnNow
    <3>2. Views' = [Views EXCEPT ![p][t] = (@ \ G) \cup R]
      <4>1. Views' = [Views EXCEPT ![p] = [ViewOf(p) EXCEPT ![t] = K]]
        BY <1>1, <1>5, <2>7, OwnOnly
      <4> QED
        BY <2>10, <3>1, <4>1 DEF Views
    <3>3. /\ Rows' = [Rows EXCEPT ![t] = (@ \ G) \cup R]
          /\ Undone' = [Undone EXCEPT ![t] = Rows[t] \ Rows'[t]]
      <4>1. RowsOf(Live(t) \ fresh[p]) = RowsOf(Extents(p, t) \ fresh[p])
        BY <1>4, RewriterSees
      <4>2. Rows[t] = ViewOf(p)[t] /\ Rows = [u \in Table |-> Rows[u]]
        BY <1>11, <4>1 DEF Rows
      <4> QED
        BY <2>6, <2>8, <2>10, <4>2
    <3>4. Stages' = [Stages EXCEPT ![p] = "done"] /\ Kinds' = Kinds /\ Answers' = Answers /\ Doomed' = Doomed
      BY <1>1, <1>5, <1>6, <1>10, <2>1, OwnOnly, OwnSame
    <3>5. Store!Alone(p)
      BY <1>1, Lone
    <3>6. \E H \in SUBSET Views[p][t], Q \in SUBSET Row :
            /\ \/ Kinds[p] = "replace" /\ H = Views[p][t] /\ Store!New(Q)
               \/ Kinds[p] \in {"compact", "delete"} /\ Q = {}
            /\ Views' = [Views EXCEPT ![p][t] = (@ \ H) \cup Q]
            /\ Rows' = [Rows EXCEPT ![t] = (@ \ H) \cup Q]
            /\ Undone' = [Undone EXCEPT ![t] = Rows[t] \ Rows'[t]]
      BY <2>10, <3>1, <3>2, <3>3
    <3> QED
      BY <3>1, <3>4, <3>5, <3>6 DEF Store!Change, Store!Finished
  <2> QED
    BY <2>11 DEF StoreStep, Store!Next
<1> QED
  BY <1>3, <1>12, <1>13

\* What a rewrite that stops before its last file has put into its table.
LEMMA StoppedRows ==
  ASSUME TypeOK, LockInv, ScriptInv, DataInv, ShellsInv, HalfwayInv, NEW p \in Proc, pc[p] = "write"
  PROVE  /\ \A u \in Table : RowsOf(Live(u)) = IF u = cur[p] THEN Rows[u] \cup RowsOf(fresh[p]) ELSE Rows[u]
         /\ \A u \in Table : RowsOf(Extents(p, u)) = IF u = cur[p] THEN ViewOf(p)[u] \cup RowsOf(fresh[p]) ELSE ViewOf(p)[u]
         /\ Cmd(p).kind = "replace" => Store!New(RowsOf(fresh[p]))
         /\ Cmd(p).kind # "replace" => RowsOf(fresh[p]) \subseteq Rows[cur[p]] /\ RowsOf(fresh[p]) \subseteq ViewOf(p)[cur[p]]
         /\ RowsOf(fresh[p]) \in SUBSET Row
<1>1. Rewriting(p) /\ Halfway(p) /\ fresh[p] \in SUBSET File
  BY DEF Rewriting, HalfwayInv, TypeOK
<1>2. /\ Using(p) /\ Hidden(p) = fresh[p] /\ cur[p] \in Table
      /\ \A g \in fresh[p] : fstate[g] = "live" /\ ftable[g] = cur[p] /\ g \in cat[p]
  BY <1>1, RewriterIs
<1>3. /\ Rows = [u \in Table |-> RowsOf(Live(u) \ fresh[p])]
      /\ ViewOf(p) = [u \in Table |-> RowsOf(Extents(p, u) \ fresh[p])]
  BY <1>1, <1>2, LoneRows DEF Rows, ViewOf
<1>4. \A u \in Table :
        /\ u = cur[p] => fresh[p] \subseteq Live(u) /\ fresh[p] \subseteq Extents(p, u)
        /\ u # cur[p] => Live(u) \ fresh[p] = Live(u) /\ Extents(p, u) \ fresh[p] = Extents(p, u)
  BY <1>1, <1>2 DEF Live, Extents
<1>5. \A S : fresh[p] \subseteq S => RowsOf(S) = RowsOf(S \ fresh[p]) \cup RowsOf(fresh[p])
  BY DEF RowsOf
<1>6. ASSUME NEW u \in Table
      PROVE  /\ RowsOf(Live(u)) = IF u = cur[p] THEN Rows[u] \cup RowsOf(fresh[p]) ELSE Rows[u]
             /\ RowsOf(Extents(p, u)) = IF u = cur[p] THEN ViewOf(p)[u] \cup RowsOf(fresh[p]) ELSE ViewOf(p)[u]
  BY <1>3, <1>4, <1>5
<1>7. RowsOf(fresh[p]) \subseteq Kept(p) /\ RowsOf(fresh[p]) \in SUBSET Row
  BY <1>1 DEF Kept, RowsOf, TypeOK
<1>8. ASSUME Cmd(p).kind # "replace"
      PROVE  RowsOf(fresh[p]) \subseteq Rows[cur[p]] /\ RowsOf(fresh[p]) \subseteq ViewOf(p)[cur[p]]
  <2>1. Kept(p) \subseteq RowsOf(Extents(p, cur[p]) \ fresh[p])
    BY <1>1, <1>8 DEF Halfway
  <2>2. RowsOf(Live(cur[p]) \ fresh[p]) = RowsOf(Extents(p, cur[p]) \ fresh[p])
    BY <1>1, <1>2, RewriterSees
  <2> QED
    BY <1>2, <1>3, <1>7, <2>1, <2>2
<1> QED
  BY <1>6, <1>7, <1>8, KeptIsNew

LEMMA WriteFailsRefines ==
  ASSUME TypeOK, LockInv, ScriptInv, DataInv, ShellsInv, HalfwayInv, NEW p \in Proc, WriteFails(p)
  PROVE  StoreStep
<1>1. /\ OthersRest(p) /\ LiveStays /\ FilesStay /\ lock[p] = "exclusive"
      /\ UNCHANGED <<fstate, ftable, frows, lock, script, cur, cat, todo, rest, fresh, seen>>
      /\ pc[p] = "write" /\ pc'[p] = "failed"
  BY WriteFailsGives DEF WriteFails, At
<1>2. Rewriting(p) /\ ~Rewriting(p)'
  BY <1>1 DEF Rewriting
<1>3. PICK t \in Table : t = cur[p]
  BY <1>2, RewriterIs
<1>4. PICK F : F = RowsOf(fresh[p])
  OBVIOUS
<1>5. /\ Using(p) /\ KindOf(p) \in {"replace", "compact", "delete"} /\ KindOf(p) = Cmd(p).kind
      /\ AnswerOf(p) = {} /\ DoomedBy(p) = Nothing /\ StageOf(p) = "ready"
  BY <1>1, <1>2, RewriterIs
<1>6. /\ Using(p)' /\ KindOf(p)' = KindOf(p) /\ AnswerOf(p)' = {} /\ DoomedBy(p)' = Nothing /\ StageOf(p)' = "done"
      /\ Hidden(p)' = {}
  BY <1>1, <1>5 DEF Using, Locked, KindOf, Cmd, AnswerOf, DoomedBy, Nothing, StageOf, Hidden, At
<1>7. \A q \in Proc : ~Rewriting(q)'
  <2>1. \A q \in Proc \ {p} : ~Rewriting(q)
    BY <1>1, Lone
  <2> QED
    BY <1>1, <1>2, <2>1 DEF OthersRest, Rewriting
<1>8. Undone = Nothing /\ Undone' = Nothing
  BY <1>1, <1>2, <1>7, LoneRows, SettledAfter
<1>9. Rows' = [Rows EXCEPT ![t] = @ \cup F]
  <2>1. Rows' = [u \in Table |-> RowsOf(Live(u))]
    BY <1>1, <1>7, SettledAfter, LiveRests
  <2>2. \A u \in Table : RowsOf(Live(u)) = IF u = t THEN Rows[u] \cup F ELSE Rows[u]
    BY <1>1, <1>3, <1>4, StoppedRows
  <2> QED
    BY <2>1, <2>2 DEF Rows
<1>10. ViewOf(p)' = [ViewOf(p) EXCEPT ![t] = @ \cup F]
  <2>1. ViewOf(p)' = [u \in Table |-> RowsOf(Extents(p, u))]
    <3>1. \A u : (Extents(p, u) \ Hidden(p))' = Extents(p, u)
      BY <1>1, <1>6 DEF Extents
    <3> QED
      BY <1>1, <1>6, <3>1 DEF ViewOf, RowsOf
  <2>2. \A u \in Table : RowsOf(Extents(p, u)) = IF u = t THEN ViewOf(p)[u] \cup F ELSE ViewOf(p)[u]
    BY <1>1, <1>3, <1>4, StoppedRows
  <2> QED
    BY <2>1, <2>2 DEF ViewOf
<1>11. CASE KindOf(p) = "replace" /\ F # {}
  <2>1. F \in (SUBSET Row) \ {{}} /\ Store!New(F)
    BY <1>1, <1>4, <1>5, <1>11, StoppedRows
  <2>2. Views[p] = ViewOf(p) /\ Kinds[p] = "replace" /\ Stages[p] = "ready"
    BY <1>5, <1>11, OwnNow
  <2>3. Views' = [Views EXCEPT ![p][t] = @ \cup F]
    <3>1. Views' = [Views EXCEPT ![p] = [ViewOf(p) EXCEPT ![t] = @ \cup F]]
      BY <1>1, <1>10, OwnOnly
    <3> QED
      BY <2>2, <3>1 DEF Views
  <2>4. Stages' = [Stages EXCEPT ![p] = "done"] /\ Kinds' = Kinds /\ Answers' = Answers /\ Doomed' = Doomed
    BY <1>1, <1>5, <1>6, OwnOnly, OwnSame
  <2>5. Store!Add(p, t)
    BY <1>8, <1>9, <2>1, <2>2, <2>3, <2>4 DEF Store!Add, Store!Finished
  <2> QED
    BY <2>5 DEF StoreStep, Store!Next
<1>12. CASE ~(KindOf(p) = "replace" /\ F # {})
  <2>1. F \subseteq Rows[t] /\ F \subseteq ViewOf(p)[t]
    BY <1>1, <1>3, <1>4, <1>5, <1>12, StoppedRows
  <2>2. Rows' = Rows
    BY <1>9, <2>1 DEF Rows
  <2>3. ViewOf(p)' = ViewOf(p)
    BY <1>10, <2>1 DEF ViewOf
  <2> QED
    BY <1>1, <1>5, <1>6, <1>8, <2>2, <2>3, FinishOrNone
<1> QED
  BY <1>11, <1>12

LEMMA FinishRewriteRefines ==
  ASSUME TypeOK, LockInv, ScriptInv, DataInv, HalfwayInv, NEW p \in Proc, FinishRewrite(p)
  PROVE  StoreStep
<1>1. /\ OthersRest(p) /\ LiveStays /\ FilesStay /\ lock[p] = "exclusive"
      /\ UNCHANGED <<fstate, ftable, frows, lock, script, cur, cat, todo, rest, fresh, seen>>
      /\ pc[p] = "supersede" /\ todo[p] = {} /\ pc'[p] \in {"failed", "end"}
  BY WriteFailsGives DEF FinishRewrite, At
<1>2. Rewriting(p) /\ ~Rewriting(p)'
  BY <1>1 DEF Rewriting
<1>3. /\ Using(p) /\ KindOf(p) = Cmd(p).kind
      /\ AnswerOf(p) = {} /\ DoomedBy(p) = Nothing /\ StageOf(p) = "done" /\ Hidden(p) = {}
  BY <1>1, <1>2, RewriterIs
<1>4. /\ Using(p)' /\ KindOf(p)' = KindOf(p) /\ AnswerOf(p)' = {} /\ DoomedBy(p)' = Nothing /\ StageOf(p)' = "done"
      /\ Hidden(p)' = {}
  BY <1>1, <1>3 DEF Using, Locked, KindOf, Cmd, AnswerOf, DoomedBy, Nothing, StageOf, Hidden, At
<1>5. \A q \in Proc : ~Rewriting(q)'
  <2>1. \A q \in Proc \ {p} : ~Rewriting(q)
    BY <1>1, Lone
  <2> QED
    BY <1>1, <1>2, <2>1 DEF OthersRest, Rewriting
<1>6. Undone' = Undone
  <2>1. \A S : RowsOf(S \cap {}) \ RowsOf(S \ {}) = {}
    BY DEF RowsOf
  <2>2. Undone = [t \in Table |-> RowsOf(Live(t) \cap {}) \ RowsOf(Live(t) \ {})]
    BY <1>1, <1>2, LoneRows
  <2> QED
    BY <1>5, <2>1, <2>2, SettledAfter DEF Nothing
<1>7. Rows' = Rows
  <2>1. Rows' = [u \in Table |-> RowsOf(Live(u))]
    BY <1>1, <1>5, SettledAfter, LiveRests
  <2>2. \A u : Shown(u) = Live(u) \ {}
    BY <1>2, <1>3, LoneRows
  <2>3. \A u : RowsOf(Shown(u)) = RowsOf(Live(u))
    BY <2>2 DEF RowsOf
  <2> QED
    BY <2>1, <2>3 DEF Rows
<1>8. ViewOf(p)' = ViewOf(p)
  BY <1>1, <1>3, <1>4 DEF ViewOf, RowsOf, Extents
<1> QED
  BY <1>1, <1>3, <1>4, <1>6, <1>7, <1>8, FinishOrNone

\* Superseding an old file puts it beyond coming back; failing to brings it back.
LEMMA SupersedeRefines ==
  ASSUME TypeOK, LockInv, ScriptInv, DataInv, ShellsInv, HalfwayInv, NEW p \in Proc, Supersede(p) \/ SupersedeFails(p)
  PROVE  StoreStep
<1>1. /\ OthersRest(p) /\ FilesStay /\ lock[p] = "exclusive" /\ cur[p] \in Table
      /\ UNCHANGED <<ftable, frows, lock, pc, script, cur, rest, fresh, seen>> /\ pc[p] = "supersede"
  BY SupersedeGives
<1>2. PICK t \in Table : t = cur[p]
  BY <1>1
<1>3. PICK f \in todo[p] :
        /\ todo'[p] = todo[p] \ {f} /\ \A g \in File \ {f} : fstate'[g] = fstate[g]
        /\ \/ fstate[f] = "live" /\ fstate'[f] = "superseded" /\ cat'[p] = cat[p] \ {f}
           \/ fstate'[f] = fstate[f] /\ cat'[p] = cat[p]
  BY SupersedeGives
<1>4. Rewriting(p) /\ Rewriting(p)'
  BY <1>1 DEF Rewriting
<1>5. /\ Using(p) /\ KindOf(p) = Cmd(p).kind /\ AnswerOf(p) = {} /\ DoomedBy(p) = Nothing /\ StageOf(p) = "done"
      /\ Hidden(p) = todo[p] /\ \A g \in todo[p] : g \in File /\ ftable[g] = t
  BY <1>1, <1>2, <1>4, RewriterIs
<1>6. /\ Using(p)' /\ KindOf(p)' = KindOf(p) /\ AnswerOf(p)' = {} /\ DoomedBy(p)' = Nothing /\ StageOf(p)' = "done"
      /\ Hidden(p)' = todo[p] \ {f}
  BY <1>1, <1>3, <1>5 DEF Using, Locked, KindOf, Cmd, AnswerOf, DoomedBy, Nothing, StageOf, Hidden, At
<1>7. /\ Rows = [u \in Table |-> RowsOf(Live(u) \ todo[p])]
      /\ ViewOf(p) = [u \in Table |-> RowsOf(Extents(p, u) \ todo[p])]
      /\ Undone = [u \in Table |-> RowsOf(Live(u) \cap todo[p]) \ RowsOf(Live(u) \ todo[p])]
      /\ \A u \in Table : Rows[u] = ViewOf(p)[u]
  <2>1. \A u : Shown(u) = Live(u) \ todo[p]
    BY <1>4, <1>5, LoneRows
  <2>2. /\ Rows = [u \in Table |-> RowsOf(Live(u) \ todo[p])]
        /\ ViewOf(p) = [u \in Table |-> RowsOf(Extents(p, u) \ todo[p])]
    BY <1>5, <2>1 DEF Rows, ViewOf
  <2>3. \A u \in Table : RowsOf(Live(u) \ todo[p]) = RowsOf(Extents(p, u) \ todo[p])
    BY <1>4, RewriterSees
  <2>4. Undone = [u \in Table |-> RowsOf(Live(u) \cap todo[p]) \ RowsOf(Live(u) \ todo[p])]
    BY <1>1, <1>4, LoneRows
  <2> QED
    BY <2>2, <2>3, <2>4
<1>8. /\ Rows' = [u \in Table |-> RowsOf(Live(u)' \ (todo[p] \ {f}))]
      /\ ViewOf(p)' = [u \in Table |-> RowsOf(Extents(p, u)' \ (todo[p] \ {f}))]
      /\ Undone' = [u \in Table |-> RowsOf(Live(u)' \cap (todo[p] \ {f})) \ RowsOf(Live(u)' \ (todo[p] \ {f}))]
  <2>1. \A u : Shown(u)' = Live(u)' \ (todo[p] \ {f})
    BY <1>1, <1>4, <1>6, LoneRowsAfter
  <2>2. Rows' = [u \in Table |-> RowsOf(Live(u)' \ (todo[p] \ {f}))]
    BY <1>1, <2>1 DEF Rows, RowsOf
  <2>3. ViewOf(p)' = [u \in Table |-> RowsOf(Extents(p, u)' \ (todo[p] \ {f}))]
    BY <1>1, <1>6 DEF ViewOf, RowsOf
  <2>4. Undone' = [u \in Table |-> (UNION {frows'[g] : g \in Live(u)' \cap todo'[p]}) \ (UNION {frows'[g] : g \in Live(u)' \ todo'[p]})]
    BY <1>1, <1>4, LoneRowsAfter
  <2>5. Undone' = [u \in Table |-> RowsOf(Live(u)' \cap (todo[p] \ {f})) \ RowsOf(Live(u)' \ (todo[p] \ {f}))]
    BY <1>1, <1>3, <2>4 DEF RowsOf
  <2> QED
    BY <2>2, <2>3, <2>5
<1>9. Kinds' = Kinds /\ Answers' = Answers /\ Doomed' = Doomed /\ Stages' = Stages /\ Stages[p] = "done" /\ Store!Alone(p)
  BY <1>1, <1>5, <1>6, OwnSame, OwnNow, Lone
<1>10. CASE fstate[f] = "live" /\ fstate'[f] = "superseded" /\ cat'[p] = cat[p] \ {f}
  <2>1. \A u : Live(u)' = Live(u) \ {f} /\ Extents(p, u)' = Extents(p, u) \ {f}
    BY <1>1, <1>3, <1>5, <1>10 DEF Live, Extents
  <2>2. \A u : /\ Live(u)' \ (todo[p] \ {f}) = Live(u) \ todo[p]
               /\ Extents(p, u)' \ (todo[p] \ {f}) = Extents(p, u) \ todo[p]
               /\ Live(u)' \cap (todo[p] \ {f}) \subseteq Live(u) \cap todo[p]
               /\ u # t => Live(u)' \cap (todo[p] \ {f}) = Live(u) \cap todo[p]
    <3>1. \A u : f \in Live(u) => u = t
      BY <1>5 DEF Live
    <3> QED
      BY <2>1, <3>1
  <2>3. Rows' = Rows /\ ViewOf(p)' = ViewOf(p)
    BY <1>7, <1>8, <2>2
  <2>4. Undone' = [Undone EXCEPT ![t] = Undone'[t]]
    BY <1>7, <1>8, <2>2
  <2>5. Undone'[t] \in SUBSET Undone[t]
    <3>1. RowsOf(Live(t)' \cap (todo[p] \ {f})) \subseteq RowsOf(Live(t) \cap todo[p])
      BY <2>2 DEF RowsOf
    <3>2. /\ Undone[t] = RowsOf(Live(t) \cap todo[p]) \ RowsOf(Live(t) \ todo[p])
          /\ Undone'[t] = RowsOf(Live(t)' \cap (todo[p] \ {f})) \ RowsOf(Live(t) \ todo[p])
      BY <1>7, <1>8, <2>2
    <3> QED
      BY <3>1, <3>2
  <2>6. Views' = Views
    BY <1>1, <2>3, OwnSame
  <2>7. Store!Settle(p, t)
    BY <1>9, <2>3, <2>4, <2>5, <2>6 DEF Store!Settle
  <2> QED
    BY <2>7 DEF StoreStep, Store!Next
<1>11. CASE fstate'[f] = fstate[f] /\ cat'[p] = cat[p]
  <2>1. \A u : Live(u)' = Live(u) /\ Extents(p, u)' = Extents(p, u)
    BY <1>1, <1>3, <1>11 DEF Live, Extents
  <2>2. PICK B : B = (IF f \in Live(t) THEN frows[f] ELSE {}) \ Rows[t]
    OBVIOUS
  <2>3. \A u \in Table \ {t} : f \notin Live(u) /\ f \notin Extents(p, u)
    BY <1>5 DEF Live, Extents
  <2>4. \A S : /\ RowsOf(S \ (todo[p] \ {f})) = RowsOf(S \ todo[p]) \cup (IF f \in S THEN frows[f] ELSE {})
               /\ RowsOf(S \cap todo[p]) = RowsOf(S \cap (todo[p] \ {f})) \cup (IF f \in S THEN frows[f] ELSE {})
    <3>1. ASSUME NEW S, f \in S
          PROVE  /\ S \ (todo[p] \ {f}) = (S \ todo[p]) \cup {f}
                 /\ S \cap todo[p] = (S \cap (todo[p] \ {f})) \cup {f}
      BY <3>1
    <3>2. ASSUME NEW S, f \notin S
          PROVE  /\ S \ (todo[p] \ {f}) = S \ todo[p]
                 /\ S \cap todo[p] = S \cap (todo[p] \ {f})
      BY <3>2
    <3>3. \A S : RowsOf(S \cup {f}) = RowsOf(S) \cup frows[f]
      BY DEF RowsOf
    <3> QED
      BY <3>1, <3>2, <3>3
  <2>5. Rows' = [Rows EXCEPT ![t] = @ \cup B]
    <3>1. \A u \in Table : Rows'[u] = RowsOf(Live(u) \ todo[p]) \cup (IF f \in Live(u) THEN frows[f] ELSE {})
      BY <1>8, <2>1, <2>4
    <3>2. \A u \in Table : Rows[u] = RowsOf(Live(u) \ todo[p])
      BY <1>7
    <3>3. \A u \in Table \ {t} : Rows'[u] = Rows[u]
      BY <2>3, <3>1, <3>2
    <3>4. Rows'[t] = Rows[t] \cup B
      BY <2>2, <3>1, <3>2
    <3> QED
      BY <1>7, <1>8, <3>3, <3>4
  <2>6. ViewOf(p)' = [ViewOf(p) EXCEPT ![t] = @ \cup B]
    <3>1. \A u \in Table : ViewOf(p)'[u] = RowsOf(Extents(p, u) \ todo[p]) \cup (IF f \in Extents(p, u) THEN frows[f] ELSE {})
      BY <1>8, <2>1, <2>4
    <3>2. f \in Live(t) <=> f \in Extents(p, t) \/ (f \in Live(t) /\ frows[f] = {})
      BY <1>4, RewriterSees
    <3>3. (IF f \in Extents(p, t) THEN frows[f] ELSE {}) = (IF f \in Live(t) THEN frows[f] ELSE {})
      BY <3>2
    <3>4. \A u \in Table : ViewOf(p)[u] = RowsOf(Extents(p, u) \ todo[p]) /\ ViewOf(p)[u] = Rows[u]
      BY <1>7
    <3>5. \A u \in Table \ {t} : ViewOf(p)'[u] = ViewOf(p)[u]
      BY <2>3, <3>1, <3>4
    <3>6. ViewOf(p)'[t] = ViewOf(p)[t] \cup B
      BY <2>2, <3>1, <3>3, <3>4
    <3> QED
      BY <1>7, <1>8, <3>5, <3>6
  <2>7. Undone' = [Undone EXCEPT ![t] = @ \ B]
    <3>1. ASSUME NEW u \in Table \ {t}
          PROVE  Undone'[u] = Undone[u]
      <4>1. f \notin Live(u)
        BY <2>3
      <4>2. Live(u) \ (todo[p] \ {f}) = Live(u) \ todo[p] /\ Live(u) \cap todo[p] = Live(u) \cap (todo[p] \ {f})
        BY <4>1
      <4> QED
        BY <1>7, <1>8, <2>1, <4>2
    <3>2. Undone'[t] = Undone[t] \ B
      <4>1. PICK b : b = IF f \in Live(t) THEN frows[f] ELSE {}
        OBVIOUS
      <4>2. /\ RowsOf(Live(t) \ (todo[p] \ {f})) = RowsOf(Live(t) \ todo[p]) \cup b
            /\ RowsOf(Live(t) \cap todo[p]) = RowsOf(Live(t) \cap (todo[p] \ {f})) \cup b
        BY <2>4, <4>1
      <4>3. Undone'[t] = RowsOf(Live(t) \cap (todo[p] \ {f})) \ RowsOf(Live(t) \ (todo[p] \ {f}))
        BY <1>8, <2>1
      <4>4. Undone[t] = RowsOf(Live(t) \cap todo[p]) \ RowsOf(Live(t) \ todo[p]) /\ Rows[t] = RowsOf(Live(t) \ todo[p])
        BY <1>7
      <4> QED
        BY <2>2, <4>1, <4>2, <4>3, <4>4
    <3> QED
      BY <1>7, <1>8, <3>1, <3>2
  <2>8. B \in SUBSET Undone[t]
    <3>1. (IF f \in Live(t) THEN frows[f] ELSE {}) \subseteq RowsOf(Live(t) \cap todo[p])
      BY <2>4
    <3> QED
      BY <1>7, <2>2, <3>1
  <2>9. Views' = [Views EXCEPT ![p][t] = @ \cup B]
    <3>1. Views' = [Views EXCEPT ![p] = [ViewOf(p) EXCEPT ![t] = @ \cup B]] /\ Views[p] = ViewOf(p)
      BY <1>1, <2>6, OwnOnly, OwnNow
    <3> QED
      BY <3>1 DEF Views
  <2>10. Store!Undo(p, t)
    BY <1>9, <2>5, <2>7, <2>8, <2>9 DEF Store!Undo
  <2> QED
    BY <2>10 DEF StoreStep, Store!Next
<1> QED
  BY <1>3, <1>10, <1>11

-----------------------------------------------------------------------------
(* Drops.                                                                  *)

LEMMA BeginDropRefines ==
  ASSUME TypeOK, LockInv, ScriptInv, DataInv, NoLongerNames, NEW p \in Proc, BeginDrop(p)
  PROVE  StoreStep
<1>1. /\ OthersRest(p) /\ LiveStays /\ FilesStay /\ lock[p] # "none"
      /\ UNCHANGED <<fstate, ftable, frows, lock, script, rest, fresh, seen>>
      /\ pc[p] = "run" /\ pc'[p] = "move" /\ Cmd(p).kind \in {"drop", "recreate"}
  BY BeginDropGives
<1>2. PICK t \in Table :
        cur'[p] = t /\ todo'[p] \in SUBSET File /\ Live(t) \subseteq todo'[p] /\ cat'[p] = cat[p] \ Extents(p, t)
  BY BeginDropGives
<1>3. Using(p) /\ Using(p)' /\ ~Rewriting(p) /\ ~Rewriting(p)' /\ Hidden(p) = {} /\ Hidden(p)' = {}
  BY <1>1 DEF Using, Locked, Rewriting, Hidden, At
<1>4. Rows' = Rows /\ Undone' = Undone /\ Rows = [u \in Table |-> RowsOf(Live(u))]
  BY <1>1, <1>3, RowsRest, NobodyRewrites, Settled
<1>5. KindOf(p)' = KindOf(p) /\ KindOf(p) \in {"drop", "recreate"} /\ AnswerOf(p)' = AnswerOf(p) /\ StageOf(p)' = StageOf(p) /\ StageOf(p) = "ready"
  BY <1>1, <1>3 DEF KindOf, Cmd, AnswerOf, StageOf, At
<1>6. PICK D : D = RowsOf(todo'[p])
  OBVIOUS
<1>7. DoomedBy(p)' = [DoomedBy(p) EXCEPT ![t] = D]
  <2>1. DoomedBy(p) = Nothing
    BY <1>1 DEF DoomedBy, Nothing, At
  <2>2. DoomedBy(p)' = [u \in Table |-> IF u = t THEN D ELSE {}]
    BY <1>1, <1>2, <1>3, <1>6 DEF DoomedBy, At, RowsOf
  <2> QED
    BY <2>1, <2>2 DEF Nothing
<1>8. ViewOf(p)' = [ViewOf(p) EXCEPT ![t] = {}]
  <2>1. \A u \in Table : (Extents(p, u) \ Hidden(p))' = IF u = t THEN {} ELSE Extents(p, u) \ Hidden(p)
    BY <1>1, <1>2, <1>3 DEF Extents
  <2>2. RowsOf({}) = {}
    BY DEF RowsOf
  <2>3. \A u \in Table : RowsOf(Extents(p, u) \ Hidden(p))' = IF u = t THEN {} ELSE RowsOf(Extents(p, u) \ Hidden(p))
    BY <1>1, <2>1, <2>2 DEF RowsOf
  <2> QED
    BY <1>3, <2>3 DEF ViewOf
<1>9. Rows[t] \subseteq D /\ D \in SUBSET Row
  BY <1>2, <1>4, <1>6 DEF RowsOf, TypeOK
<1>10. Store!StartDrop(p, t)
  <2>1. Stages[p] = "ready" /\ Kinds[p] \in {"drop", "recreate"} /\ Views[p] = ViewOf(p) /\ Doomed[p] = DoomedBy(p)
    BY <1>5, OwnNow
  <2>2. Stages' = Stages /\ Kinds' = Kinds /\ Answers' = Answers
    BY <1>1, <1>5, OwnSame
  <2>3. Views' = [Views EXCEPT ![p] = [ViewOf(p) EXCEPT ![t] = {}]] /\ Doomed' = [Doomed EXCEPT ![p] = [DoomedBy(p) EXCEPT ![t] = D]]
    BY <1>1, <1>7, <1>8, OwnOnly
  <2>4. Views' = [Views EXCEPT ![p][t] = {}] /\ Doomed' = [Doomed EXCEPT ![p][t] = D]
    BY <2>1, <2>3
  <2> QED
    BY <1>4, <1>9, <2>1, <2>2, <2>4 DEF Store!StartDrop
<1> QED
  BY <1>10 DEF StoreStep, Store!Next

LEMMA MoveRefines ==
  ASSUME TypeOK, LockInv, ScriptInv, DataInv, NEW p \in Proc, MoveFile(p) \/ MoveMissing(p)
  PROVE  StoreStep
<1>1. /\ OthersRest(p) /\ FilesStay /\ lock[p] # "none" /\ cur[p] \in Table /\ pc[p] = "move"
      /\ UNCHANGED <<ftable, frows, lock, pc, script, cur, cat, rest, fresh, seen>>
  BY MoveGives
<1>2. PICK t \in Table : t = cur[p]
  BY <1>1
<1>3. PICK f \in todo[p] :
        /\ f \in File /\ ftable[f] = t
        /\ todo'[p] = todo[p] \ {f} /\ \A g \in File \ {f} : fstate'[g] = fstate[g]
        /\ fstate'[f] = fstate[f] \/ fstate'[f] = "archived"
  BY <1>2, MoveGives
<1>4. Using(p) /\ Using(p)' /\ ~Rewriting(p) /\ ~Rewriting(p)'
  BY <1>1 DEF Using, Locked, Rewriting
<1>5. \A q \in Proc : ~Rewriting(q) /\ ~Rewriting(q)'
  <2>1. \A q \in Proc : ~Rewriting(q)
    BY <1>1, <1>4, NobodyRewrites
  <2> QED
    BY <1>1, <2>1 DEF Rewriting
<1>6. /\ Rows = [u \in Table |-> RowsOf(Live(u))] /\ Rows' = [u \in Table |-> RowsOf(Live(u))']
      /\ Undone' = Undone
  BY <1>5, Settled, SettledAfter
<1>7. \A u \in Table : RowsOf(Live(u))' = RowsOf(Live(u)')
  BY <1>1 DEF RowsOf
<1>8. PICK S : S = Rows[t] \ Rows'[t]
  OBVIOUS
<1>9. Live(t) \ {f} \subseteq Live(t)' /\ Live(t)' \subseteq Live(t) /\ \A u \in Table \ {t} : Live(u)' = Live(u)
  BY <1>1, <1>3 DEF Live
<1>10. S \subseteq frows[f] /\ Rows' = [Rows EXCEPT ![t] = @ \ S]
  <2>1. RowsOf(Live(t)) \subseteq RowsOf(Live(t)') \cup frows[f] /\ RowsOf(Live(t)') \subseteq RowsOf(Live(t))
    BY <1>9 DEF RowsOf
  <2>2. Rows[t] = RowsOf(Live(t)) /\ Rows'[t] = RowsOf(Live(t)')
    BY <1>6, <1>7
  <2>3. Rows'[t] = Rows[t] \ S /\ S \subseteq frows[f]
    BY <1>8, <2>1, <2>2
  <2>4. \A u \in Table \ {t} : Rows'[u] = Rows[u]
    BY <1>6, <1>7, <1>9
  <2> QED
    BY <1>6, <2>3, <2>4
<1>11. DoomedBy(p)[t] = RowsOf(todo[p]) /\ DoomedBy(p)' = [DoomedBy(p) EXCEPT ![t] = RowsOf(todo[p] \ {f})]
  <2>1. At(p, "move") /\ At(p, "move")' /\ cur[p] = t /\ cur'[p] = t
    BY <1>1, <1>2 DEF At
  <2>2. DoomedBy(p) = [u \in Table |-> IF t = u THEN RowsOf(todo[p]) ELSE {}]
    BY <1>4, <2>1 DEF DoomedBy
  <2>3. DoomedBy(p)' = [u \in Table |-> IF t = u THEN RowsOf(todo[p])' ELSE {}]
    BY <1>4, <2>1 DEF DoomedBy
  <2>4. RowsOf(todo[p])' = RowsOf(todo[p] \ {f})
    BY <1>1, <1>3 DEF RowsOf
  <2> QED
    BY <2>2, <2>3, <2>4
<1>12. S \in SUBSET DoomedBy(p)[t] /\ RowsOf(todo[p] \ {f}) \in SUBSET DoomedBy(p)[t]
  <2>1. frows[f] \subseteq RowsOf(todo[p]) /\ RowsOf(todo[p] \ {f}) \subseteq RowsOf(todo[p])
    BY DEF RowsOf
  <2> QED
    BY <1>10, <1>11, <2>1
<1>13. /\ KindOf(p)' = KindOf(p) /\ AnswerOf(p)' = AnswerOf(p) /\ StageOf(p)' = StageOf(p) /\ ViewOf(p)' = ViewOf(p)
  <2>1. KindOf(p)' = KindOf(p) /\ AnswerOf(p)' = AnswerOf(p) /\ StageOf(p)' = StageOf(p)
    BY <1>1, <1>4 DEF KindOf, Cmd, AnswerOf, StageOf, At
  <2> QED
    BY <1>1, <1>4, <2>1, ViewRests
<1>14. Store!Take(p, t)
  <2>1. Doomed[p] = DoomedBy(p) /\ Doomed' = [Doomed EXCEPT ![p] = [DoomedBy(p) EXCEPT ![t] = RowsOf(todo[p] \ {f})]]
    BY <1>1, <1>11, OwnNow, OwnOnly
  <2>2. Doomed' = [Doomed EXCEPT ![p][t] = RowsOf(todo[p] \ {f})]
    BY <2>1
  <2>3. Stages' = Stages /\ Kinds' = Kinds /\ Views' = Views /\ Answers' = Answers
    BY <1>1, <1>13, OwnSame
  <2> QED
    BY <1>6, <1>10, <1>12, <2>1, <2>2, <2>3 DEF Store!Take
<1> QED
  BY <1>14 DEF StoreStep, Store!Next

LEMMA DropExtentRefines ==
  ASSUME TypeOK, LockInv, ScriptInv, DataInv, NEW p \in Proc, DropExtent(p)
  PROVE  StoreStep
<1>1. /\ OthersRest(p) /\ FilesStay /\ lock[p] # "none"
      /\ UNCHANGED <<ftable, frows, lock, script, todo, rest, fresh, seen>>
      /\ pc[p] = "run" /\ pc'[p] = "end" /\ Cmd(p).kind = "dropExtent"
  BY DropExtentGives
<1>2. PICK f \in File :
        /\ f \in cat[p] /\ ftable[f] \in Table /\ cat'[p] = cat[p] \ {f}
        /\ fstate'[f] # "live" /\ \A g \in File \ {f} : fstate'[g] = fstate[g]
  BY DropExtentGives
<1>3. PICK t \in Table : t = ftable[f]
  BY <1>2
<1>4. Using(p) /\ Using(p)' /\ ~Rewriting(p) /\ ~Rewriting(p)' /\ Hidden(p) = {} /\ Hidden(p)' = {}
  BY <1>1 DEF Using, Locked, Rewriting, Hidden, At
<1>5. \A q \in Proc : ~Rewriting(q) /\ ~Rewriting(q)'
  <2>1. \A q \in Proc : ~Rewriting(q)
    BY <1>1, <1>4, NobodyRewrites
  <2> QED
    BY <1>1, <1>4, <2>1 DEF OthersRest, Rewriting
<1>6. /\ Rows = [u \in Table |-> RowsOf(Live(u))] /\ Rows' = [u \in Table |-> RowsOf(Live(u))']
      /\ Undone' = Undone
  BY <1>5, Settled, SettledAfter
<1>7. \A u \in Table : RowsOf(Live(u))' = RowsOf(Live(u)')
  BY <1>1 DEF RowsOf
<1>8. PICK S : S = Rows[t] \ Rows'[t]
  OBVIOUS
<1>9. Live(t)' = Live(t) \ {f} /\ \A u \in Table \ {t} : Live(u)' = Live(u)
  BY <1>1, <1>2, <1>3 DEF Live
<1>10. S \subseteq frows[f] /\ Rows' = [Rows EXCEPT ![t] = @ \ S]
  <2>1. RowsOf(Live(t)) \subseteq RowsOf(Live(t)') \cup frows[f] /\ RowsOf(Live(t)') \subseteq RowsOf(Live(t))
    BY <1>9 DEF RowsOf
  <2>2. Rows[t] = RowsOf(Live(t)) /\ Rows'[t] = RowsOf(Live(t)')
    BY <1>6, <1>7
  <2>3. Rows'[t] = Rows[t] \ S /\ S \subseteq frows[f]
    BY <1>8, <2>1, <2>2
  <2>4. \A u \in Table \ {t} : Rows'[u] = Rows[u]
    BY <1>6, <1>7, <1>9
  <2> QED
    BY <1>6, <2>3, <2>4
<1>11. /\ ViewOf(p) = [u \in Table |-> RowsOf(Extents(p, u))]
       /\ ViewOf(p)' = [u \in Table |-> RowsOf(Extents(p, u)')]
  <2>1. \A u : Extents(p, u) \ Hidden(p) = Extents(p, u) /\ (Extents(p, u) \ Hidden(p))' = Extents(p, u)'
    BY <1>4
  <2> QED
    BY <1>1, <1>4, <2>1 DEF ViewOf, RowsOf
<1>12. f \in Extents(p, t) /\ Extents(p, t)' = Extents(p, t) \ {f} /\ \A u \in Table \ {t} : Extents(p, u)' = Extents(p, u)
  BY <1>1, <1>2, <1>3 DEF Extents
<1>13. PICK V : V = ViewOf(p)[t] \ ViewOf(p)'[t]
  OBVIOUS
<1>14. V \in SUBSET ViewOf(p)[t] /\ frows[f] \subseteq ViewOf(p)[t] /\ ViewOf(p)' = [ViewOf(p) EXCEPT ![t] = @ \ V]
  <2>1. RowsOf(Extents(p, t)') \subseteq RowsOf(Extents(p, t)) /\ frows[f] \subseteq RowsOf(Extents(p, t))
    BY <1>12 DEF RowsOf
  <2>2. ViewOf(p)'[t] = ViewOf(p)[t] \ V
    BY <1>11, <1>13, <2>1
  <2>3. \A u \in Table \ {t} : ViewOf(p)'[u] = ViewOf(p)[u]
    BY <1>11, <1>12
  <2> QED
    BY <1>11, <1>13, <2>1, <2>2, <2>3
<1>15. /\ KindOf(p)' = KindOf(p) /\ KindOf(p) = "dropExtent" /\ AnswerOf(p)' = AnswerOf(p) /\ DoomedBy(p)' = DoomedBy(p)
       /\ StageOf(p) = "ready" /\ StageOf(p)' = "done"
  BY <1>1, <1>4 DEF KindOf, Cmd, AnswerOf, DoomedBy, StageOf, At
<1>16. Store!DropSome(p, t)
  <2>1. Views[p] = ViewOf(p) /\ Views' = [Views EXCEPT ![p] = [ViewOf(p) EXCEPT ![t] = @ \ V]]
    BY <1>1, <1>14, OwnNow, OwnOnly
  <2>2. Views' = [Views EXCEPT ![p][t] = @ \ V]
    BY <2>1 DEF Views
  <2>3. Stages[p] = "ready" /\ Kinds[p] = "dropExtent" /\ Stages' = [Stages EXCEPT ![p] = "done"]
    BY <1>1, <1>15, OwnNow, OwnOnly
  <2>4. Kinds' = Kinds /\ Answers' = Answers /\ Doomed' = Doomed
    BY <1>1, <1>15, OwnSame
  <2>5. S \in SUBSET Views[p][t] /\ V \in SUBSET Views[p][t]
    BY <1>10, <1>14, <2>1
  <2> QED
    BY <1>6, <1>10, <2>2, <2>3, <2>4, <2>5 DEF Store!DropSome, Store!Finished
<1> QED
  BY <1>16 DEF StoreStep, Store!Next

-----------------------------------------------------------------------------
(* Deaths.                                                                 *)

LEMMA DieRefines ==
  ASSUME TypeOK, LockInv, ScriptInv, DataInv, ShellsInv, HalfwayInv, NEW p \in Proc, Crash(p), Using(p)
  PROVE  StoreStep
<1>1. OthersRest(p) /\ LiveStays /\ FilesStay /\ lock[p] # "none" /\ lock'[p] = "none" /\ pc'[p] = "idle"
  BY TurnGives DEF Crash, Using, Locked, Release, TypeOK
<1>2. ~Using(p)' /\ ~Rewriting(p)'
  BY <1>1 DEF Using, Locked, Rewriting
<1>3. StageOf(p) # "out"
  BY DEF StageOf
<1>4. Store!Leave(p)
  <2>1. StageOf(p)' = "out" /\ KindOf(p)' = "none" /\ ViewOf(p)' = Nothing /\ AnswerOf(p)' = {} /\ DoomedBy(p)' = Nothing
    BY <1>2 DEF StageOf, KindOf, ViewOf, AnswerOf, DoomedBy, Nothing
  <2> QED
    BY <1>1, <2>1, OwnOnly DEF Store!Leave, Store!Empty, Nothing
<1>5. \A q \in Proc : ~Rewriting(q)'
  <2>1. CASE Rewriting(p)
    <3>1. \A q \in Proc \ {p} : ~Rewriting(q)
      BY <2>1, RewritersAlone, Lone
    <3> QED
      BY <1>1, <1>2, <3>1 DEF OthersRest, Rewriting
  <2>2. CASE ~Rewriting(p)
    <3>1. \A q \in Proc : ~Rewriting(q)
      BY <1>1, <2>2, NobodyRewrites
    <3> QED
      BY <1>1, <1>2, <3>1 DEF OthersRest, Rewriting
  <2> QED
    BY <2>1, <2>2
<1>6. Undone' = Nothing /\ Rows' = [u \in Table |-> RowsOf(Live(u))]
  BY <1>1, <1>5, SettledAfter, LiveRests
<1>7. \/ Rows' = [u \in Table |-> Rows[u] \cup Undone[u]]
      \/ /\ StageOf(p) = "ready" /\ KindOf(p) = "replace" /\ Store!Alone(p)
         /\ \E t \in Table, R \in SUBSET Row : Store!New(R) /\ Rows' = [Rows EXCEPT ![t] = @ \cup R]
  <2>1. CASE ~Rewriting(p)
    <3>1. Rows = [u \in Table |-> RowsOf(Live(u))] /\ \A u \in Table : Undone[u] = {}
      BY <1>1, <2>1, NobodyRewrites, Settled DEF Nothing
    <3> QED
      BY <1>6, <3>1
  <2>2. CASE pc[p] = "supersede"
    <3>1. Rewriting(p) /\ Hidden(p) = todo[p]
      BY <2>2 DEF Rewriting, Hidden, At
    <3>2. Rows = [u \in Table |-> RowsOf(Live(u) \ todo[p])]
      BY <3>1, LoneRows DEF Rows
    <3>3. Undone = [u \in Table |-> RowsOf(Live(u) \cap todo[p]) \ RowsOf(Live(u) \ todo[p])]
      BY <2>2, <3>1, LoneRows
    <3>4. \A u \in Table : RowsOf(Live(u)) = RowsOf(Live(u) \cap todo[p]) \cup RowsOf(Live(u) \ todo[p])
      BY DEF RowsOf
    <3>5. \A u \in Table : RowsOf(Live(u)) = Rows[u] \cup Undone[u]
      BY <3>2, <3>3, <3>4
    <3> QED
      BY <1>6, <3>5
  <2>3. CASE pc[p] = "write"
    <3>1. Rewriting(p)
      BY <2>3 DEF Rewriting
    <3>2. PICK t \in Table : t = cur[p]
      BY <3>1, RewriterIs
    <3>3. PICK F : F = RowsOf(fresh[p])
      OBVIOUS
    <3>4. \A u \in Table : RowsOf(Live(u)) = IF u = t THEN Rows[u] \cup F ELSE Rows[u]
      BY <2>3, <3>2, <3>3, StoppedRows
    <3>5. KindOf(p) = Cmd(p).kind /\ StageOf(p) = "ready" /\ lock[p] = "exclusive"
      BY <2>3, <3>1, RewriterIs
    <3>6. CASE KindOf(p) = "replace"
      <4>1. Store!New(F) /\ F \in SUBSET Row
        BY <2>3, <3>3, <3>5, <3>6, StoppedRows
      <4>2. Store!Alone(p)
        BY <3>5, Lone
      <4>3. Rows' = [Rows EXCEPT ![t] = @ \cup F]
        BY <1>6, <3>4 DEF Rows
      <4> QED
        BY <3>5, <3>6, <4>1, <4>2, <4>3
    <3>7. CASE KindOf(p) # "replace"
      <4>1. F \subseteq Rows[t]
        BY <2>3, <3>2, <3>3, <3>5, <3>7, StoppedRows
      <4>2. \A u \in Table : Undone[u] = {}
        BY <2>3, <3>1, LoneRows DEF Nothing
      <4>3. \A u \in Table : RowsOf(Live(u)) = Rows[u] \cup Undone[u]
        BY <3>4, <4>1, <4>2
      <4> QED
        BY <1>6, <4>3
    <3> QED
      BY <3>6, <3>7
  <2> QED
    BY <2>1, <2>2, <2>3 DEF Rewriting
<1>8. Store!Die(p)
  <2>1. Stages[p] = StageOf(p) /\ Kinds[p] = KindOf(p)
    BY OwnNow
  <2>2. Stages[p] # "out"
    BY <1>3, <2>1
  <2>3. \/ Rows' = [u \in Table |-> Rows[u] \cup Undone[u]]
        \/ /\ Stages[p] = "ready" /\ Kinds[p] = "replace" /\ Store!Alone(p)
           /\ \E t \in Table, R \in SUBSET Row : Store!New(R) /\ Rows' = [Rows EXCEPT ![t] = @ \cup R]
    BY <1>7, <2>1
  <2>4. Undone' = Store!Empty
    BY <1>6 DEF Store!Empty, Nothing
  <2> QED
    BY <1>4, <2>2, <2>3, <2>4 DEF Store!Die
<1> QED
  BY <1>8 DEF StoreStep, Store!Next

-----------------------------------------------------------------------------
(* The refinement.                                                         *)

\* Steps without the lock, or without a catalog.
LEMMA OutsideRefines ==
  ASSUME TypeOK, LockInv, ScriptInv, DataInv, NEW p \in Proc, ~Using(p),
         \/ Submit(p) \/ Acquire(p) \/ RefreshFails(p) \/ EndCommand(p) \/ AbortStatement(p) \/ Crash(p) \/ NameTables(p)
         \/ Quiet(p) \/ (Refresh(p) /\ lock[p] = "none")
  PROVE  StoreStep
<1>1. ~Rewriting(p)
  BY RewritersAlone DEF Using, Locked, Rewriting
<1>2. CASE Submit(p) \/ Acquire(p)
  <2>1. OthersRest(p) /\ LiveStays /\ FilesStay /\ pc'[p] \in {"lock", "refresh"}
    BY <1>2, SubmitGives
  <2> QED
    BY <1>1, <2>1, Outside DEF Using, Rewriting
<1>3. CASE RefreshFails(p) \/ EndCommand(p) \/ AbortStatement(p) \/ Crash(p)
  <2>1. /\ OthersRest(p) /\ LiveStays /\ FilesStay
        /\ pc'[p] = "idle" \/ (EndCommand(p) /\ pc'[p] = "run" /\ lock'[p] = lock[p])
    BY <1>3, TurnGives
  <2>2. EndCommand(p) => lock[p] = "none"
    BY DEF EndCommand, Using, Locked
  <2>3. ~Using(p)' /\ ~Rewriting(p)'
    BY <2>1, <2>2 DEF Using, Locked, Rewriting
  <2> QED
    BY <1>1, <2>1, <2>3, Outside
<1>4. CASE NameTables(p)
  <2>1. OthersRest(p) /\ LiveStays /\ FilesStay /\ lock' = lock /\ pc[p] = "run" /\ pc'[p] \in {"run", "end"}
    BY <1>4, NameTablesGives
  <2>2. ~Using(p)' /\ ~Rewriting(p)'
    BY <2>1 DEF Using, Locked, Rewriting
  <2> QED
    BY <1>1, <2>1, <2>2, Outside
<1>5. CASE Quiet(p)
  <2>1. /\ OthersRest(p) /\ LiveStays /\ FilesStay /\ lock' = lock /\ lock[p] = "none"
        /\ pc'[p] \in {"scan", "answered", "create", "append", "collect", "end", "failed"}
    BY <1>5, FilesOfLiveStay DEF Quiet, Past, Using, Locked
  <2>2. ~Using(p)' /\ ~Rewriting(p)'
    BY <2>1 DEF Using, Locked, Rewriting
  <2> QED
    BY <1>1, <2>1, <2>2, Outside
<1>6. CASE Refresh(p) /\ lock[p] = "none"
  <2>1. OthersRest(p) /\ LiveStays /\ FilesStay /\ lock' = lock /\ pc'[p] = "run"
    BY <1>6, RefreshGives
  <2>2. ~Using(p)' /\ ~Rewriting(p)'
    BY <1>6, <2>1 DEF Using, Locked, Rewriting
  <2> QED
    BY <1>1, <2>1, <2>2, Outside
<1> QED
  BY <1>2, <1>3, <1>4, <1>5, <1>6

LEMMA Refines ==
  ASSUME TypeOK, LockInv, ScriptInv, DataInv, ShellsInv, HalfwayInv, TypeOK', ScriptInv', DataInv', NoLongerNames, [Next]_vars
  PROVE  StoreStep
<1>1. ASSUME NEW p \in Proc, Submit(p) \/ Statement(p) \/ RefreshFails(p) \/ Crash(p)
      PROVE  StoreStep
  <2>1. CASE Submit(p) \/ Acquire(p) \/ RefreshFails(p)
    <3>1. ~Using(p)
      BY <2>1 DEF Submit, Acquire, RefreshFails, Using, At
    <3> QED
      BY <2>1, <3>1, OutsideRefines
  <2>2. CASE Refresh(p)
    <3>1. ~Using(p)
      BY <2>2 DEF Refresh, Using, At
    <3> QED
      BY <2>2, <3>1, RefreshRefines, OutsideRefines
  <2>3. CASE EndCommand(p) \/ AbortStatement(p)
    BY <2>3, TurnRefines, OutsideRefines
  <2>4. CASE Crash(p)
    BY <2>4, DieRefines, OutsideRefines
  <2>5. CASE NameTables(p)
    BY <2>5, NameTablesRefines, OutsideRefines DEF Using, Locked
  <2>6. CASE \/ Refuse(p) \/ AnswerFromCatalog(p) \/ BeginQuery(p) \/ ScanExtent(p) \/ ScanMissing(p) \/ BeginAppend(p)
             \/ WriteNothing(p) \/ CompactNothing(p) \/ DeleteNothing(p) \/ FinishDrop(p) \/ BeginGC(p) \/ Collect(p)
             \/ CollectMissing(p) \/ FinishGC(p)
    <3>1. Quiet(p)
      BY <2>6, QuietSteps
    <3>2. /\ pc[p] \in {"run", "scan", "create", "append", "move", "collect"}
          /\ pc'[p] = "answered" => pc[p] \in {"run", "scan"} /\ Cmd(p).kind = "query"
      BY <2>6, QuietPlaces
    <3> QED
      BY <3>1, <3>2, QuietRefines, OutsideRefines DEF Using, Locked
  <2>7. CASE CreateTable(p) \/ AppendRows(p)
    BY <2>7, CreateTableRefines, AppendRowsRefines
  <2>8. CASE BeginReplace(p) \/ BeginCompact(p) \/ BeginDelete(p)
    BY <2>8, StartRefines
  <2>9. CASE WriteExtent(p) \/ WriteFails(p) \/ FinishRewrite(p)
    BY <2>9, WriteExtentRefines, WriteFailsRefines, FinishRewriteRefines
  <2>10. CASE Supersede(p) \/ SupersedeFails(p)
    BY <2>10, SupersedeRefines
  <2>11. CASE BeginDrop(p) \/ MoveFile(p) \/ MoveMissing(p) \/ DropExtent(p)
    BY <2>11, BeginDropRefines, MoveRefines, DropExtentRefines
  <2> QED
    BY <1>1, <2>1, <2>2, <2>3, <2>4, <2>5, <2>6, <2>7, <2>8, <2>9, <2>10, <2>11 DEF Statement
<1>2. CASE UNCHANGED vars
  <2>1. \A p \in Proc : /\ StageOf(p)' = StageOf(p) /\ KindOf(p)' = KindOf(p) /\ ViewOf(p)' = ViewOf(p)
                        /\ AnswerOf(p)' = AnswerOf(p) /\ DoomedBy(p)' = DoomedBy(p)
    BY <1>2 DEF vars, disk, catalog, work, StageOf, KindOf, ViewOf, AnswerOf, DoomedBy, Using, Locked, Hidden, Cmd, RowsOf, Extents, At
  <2>2. Rows' = Rows /\ Undone' = Undone
    BY <1>2 DEF vars, disk, work, Rows, Undone, Shown, Live, Hidden, RowsOf, At
  <2> QED
    BY <2>1, <2>2 DEF StoreStep, Stages, Kinds, Views, Answers, Doomed
<1> QED
  BY <1>1, <1>2 DEF Next

LEMMA InitRefines ==
  ASSUME Init
  PROVE  Store!Init
<1>1. \A p \in Proc : ~Rewriting(p) /\ ~Using(p)
  BY DEF Init, Rewriting, Using, Locked
<1>2. Rows = Nothing /\ Undone = Nothing
  <2>1. \A t : RowsOf(Live(t)) = {}
    BY DEF Init, Live, RowsOf
  <2> QED
    BY <1>1, <2>1, Settled DEF Nothing
<1>3. \A p \in Proc : StageOf(p) = "out" /\ KindOf(p) = "none" /\ ViewOf(p) = Nothing /\ AnswerOf(p) = {} /\ DoomedBy(p) = Nothing
  BY <1>1 DEF StageOf, KindOf, ViewOf, AnswerOf, DoomedBy, Nothing
<1> QED
  BY <1>2, <1>3 DEF Store!Init, Store!Empty, Nothing, Stages, Kinds, Views, Answers, Doomed

\* To the statements with the lock the directory is a store of tables: for any processes,
\* tables, files, rows and scripts, with deaths and failing calls, every step of a
\* statement is a step of the store it promises, or none.
THEOREM DirectoryIsAStore == NoLongerNames /\ NothingAfterDrops /\ Spec => ImplementsStore
<1>1. Init => Store!Init /\ ShellsInv /\ HalfwayInv
  BY InitRefines, InitHalfway DEF Init, ShellsInv, ShellsAreEmpty, At, Registers, Past
<1>2. NoLongerNames /\ NothingAfterDrops /\ TypeOK /\ LockInv /\ ScriptInv /\ DataInv /\ ShellsInv /\ HalfwayInv /\ [Next]_vars
        => ShellsInv' /\ HalfwayInv'
  BY ShellsStep, HalfwayStep
<1>3. NoLongerNames /\ TypeOK /\ LockInv /\ ScriptInv /\ DataInv /\ ShellsInv /\ HalfwayInv /\ [Next]_vars
        /\ TypeOK' /\ ScriptInv' /\ DataInv'
        => [Store!Next]_(Store!vars)
  BY Refines DEF StoreStep, Store!vars
<1>4. NoLongerNames /\ NothingAfterDrops => [](NoLongerNames /\ NothingAfterDrops)
  <2>1. NoLongerNames /\ NothingAfterDrops => (NoLongerNames /\ NothingAfterDrops)'
    BY DEF NoLongerNames, NothingAfterDrops, RemovesLast
  <2> QED
    BY <2>1, PTL
<1> QED
  BY <1>1, <1>2, <1>3, <1>4, DataInductive, PTL DEF Spec, ImplementsStore, Store!Spec
=============================================================================
