--------------------------- MODULE UpdatePolicies ---------------------------
(***************************************************************************)
(* Writers that append through update policies: .set-or-append, .append,   *)
(* .ingest and atomic scripts of them (setappend.go, updatepolicy.go,      *)
(* script.go), beside other writers of the same directory and commands     *)
(* that change the policies.                                               *)
(*                                                                         *)
(* A statement first prepares: it evaluates its queries and checks every   *)
(* result against the catalog of its beginning.  It then evaluates the     *)
(* transactional policies, each on the rows it is to receive, and only     *)
(* when all of them have succeeded writes anything; the other policies     *)
(* run after that.  What is in the rows is left out: a batch of rows is    *)
(* named by the command it came from and the policies it came through.     *)
(* A commit is one step here (ScopeStore has its file system calls).       *)
(***************************************************************************)
EXTENDS Naturals, Sequences, SequencesExt, FiniteSets

CONSTANTS
  Writer,     \* processes with one statement each
  Table,
  Script,     \* each writer's possible statements: sequences of commands
  Config,     \* the policies of every table, as .alter policy may set them
  Start,      \* the schemas of the tables there are at the beginning
  Schema,     \* functions from column names to types
  NoTable,    \* the schema of a table the catalog does not have
  MaxDepth,   \* maxPolicyDepth
  MaxOthers,  \* bound: what other processes do to the directory meanwhile
  MayFail     \* bound: may writing an extent fail, may a process die?

Policy == [target : Table, source : Table, enabled : BOOLEAN,
           tx : BOOLEAN, block : BOOLEAN]

Command == [mode : {"set-or-append", "append", "ingest"}, table : Table,
            cols : Schema, extend : BOOLEAN]

ASSUME ConstantsOK ==
  /\ NoTable \notin Schema
  /\ MaxDepth \in Nat /\ MaxOthers \in Nat /\ MayFail \in BOOLEAN
  /\ Script \in [Writer -> SUBSET (Seq(Command) \ {<<>>})]
  \* An atomic script has no .ingest (executeScriptAtomic).
  /\ \A w \in Writer : \A s \in Script[w] : \A i \in DOMAIN s :
       s[i].mode = "ingest" => Len(s) = 1
  /\ Start \in [Table -> Schema \cup {NoTable}]
  /\ Config \subseteq [Table -> SUBSET Policy]
  /\ \A f \in Config, t \in Table : \A p \in f[t] : p.target = t /\ p.source # t

VARIABLES
  schemas,    \* the directory: the schemas that each table's extents have
  stored,     \* the batches of rows in them
  policies,   \* the latest row of _UpdatePolicies for each table
  others,     \* how often other processes have changed it
  pc,         \* where each writer's statement is
  script,     \* its commands
  cat,        \* its catalog: the schema of each table
  pol,        \* the policies it found
  pend,       \* the appends it has prepared, in order
  chain,      \* batches whose turn to be written has been decided, in order
  stack,      \* runPolicies: batches whose policies are being evaluated
  at,         \* pend: the append whose policies are under way
  ran,        \* policies evaluated: <<batch, policy, outcome>>
  bad         \* batches that could not be made or written, and why

world == <<schemas, stored, policies, others>>
vars == <<schemas, stored, policies, others, pc, script, cat, pol, pend, chain, stack, at, ran, bad>>

------------------------------------------------------------------------------
(* Batches, schemas and catalogs.                                            *)

\* The table a batch is written to: that of its command, or the target of the
\* last policy it came through.
TableOf(b) == IF b.via = <<>> THEN b.cmd.table ELSE Last(b.via).target

Direct(b) == b.via = <<>>

Derive(b, p) == [b EXCEPT !.via = Append(@, p)]

Parent(b) == [b EXCEPT !.via = Front(@)]

\* The files of a table agree on the type of every column.
Agree(t) ==
  \A x, y \in schemas[t] : \A c \in DOMAIN x \cap DOMAIN y : x[c] = y[c]

\* mergeSchemas over the extents of a table.
Merged(t) ==
  IF schemas[t] = {} THEN NoTable
  ELSE [c \in UNION {DOMAIN x : x \in schemas[t]} |->
          (CHOOSE x \in schemas[t] : c \in DOMAIN x)[c]]

\* The enabled policies a batch triggers, of one kind.
Triggered(w, b, tx) ==
  {p \in UNION {pol[w][t] : t \in Table} :
     p.enabled /\ p.source = TableOf(b) /\ p.tx = tx}

Prepared(w) == Len(pend[w])

------------------------------------------------------------------------------
(* Preparing: everything checked, nothing written.                           *)

\* What prepareFromResult makes of a command whose query gave columns c.cols:
\* the columns to add, or a refusal.
Extra(w, c) == DOMAIN c.cols \ DOMAIN cat[w][c.table]

Fits(w, c) ==
  IF cat[w][c.table] = NoTable
  THEN c.mode = "set-or-append"
  ELSE /\ \A n \in DOMAIN cat[w][c.table] :
            n \in DOMAIN c.cols /\ c.cols[n] = cat[w][c.table][n]
       /\ Extra(w, c) = {} \/ c.extend

ChangesSchema(w, c) == cat[w][c.table] = NoTable \/ Extra(w, c) # {}

\* Mutant of Independent: the commands of a script are not compared.
Independent_Always(w, c) == TRUE

\* The check executeScriptAtomic makes before it accepts one more append.
Independent(w, c) ==
  ~ \E i \in 1..Prepared(w) :
      /\ pend[w][i].cmd.table = c.table
      /\ ChangesSchema(w, c) \/ ChangesSchema(w, pend[w][i].cmd)

\* checkDirectWrite
MayWriteDirectly(w, c) ==
  /\ ~ \E p \in pol[w][c.table] : p.enabled /\ p.block
  /\ c.mode = "ingest" =>
       ~ \E t \in Table : \E p \in pol[w][t] : p.enabled /\ p.source = c.table

\* A statement arrives.
Submit(w) ==
  /\ pc[w] = "idle"
  /\ \E s \in Script[w] : script' = [script EXCEPT ![w] = s]
  /\ pc' = [pc EXCEPT ![w] = "refresh"]
  /\ UNCHANGED <<world, cat, pol, pend, chain, stack, at, ran, bad>>

\* A refresh fails when two extents of one table give a column two types.
Refresh(w) ==
  /\ pc[w] = "refresh"
  /\ \A t \in Table : Agree(t)
  /\ cat' = [cat EXCEPT ![w] = [t \in Table |-> Merged(t)]]
  /\ pol' = [pol EXCEPT ![w] = policies]
  /\ pc' = [pc EXCEPT ![w] = "prepare"]
  /\ UNCHANGED <<world, script, pend, chain, stack, at, ran, bad>>

Refuse(w) ==
  /\ pc' = [pc EXCEPT ![w] = "refused"]
  /\ chain' = [chain EXCEPT ![w] = <<>>]
  /\ stack' = [stack EXCEPT ![w] = <<>>]
  /\ UNCHANGED <<world, script, cat, pol, pend, at, ran, bad>>

RefreshFails(w) ==
  /\ pc[w] = "refresh"
  /\ \E t \in Table : ~Agree(t)
  /\ Refuse(w)

\* prepareAppend for the next command.  The query itself may fail too.
Prepare(w) ==
  /\ pc[w] = "prepare" /\ Prepared(w) < Len(script[w])
  /\ LET c == script[w][Prepared(w) + 1]
     IN  \/ /\ Fits(w, c) /\ Independent(w, c)
            /\ pend' = [pend EXCEPT ![w] =
                          Append(@, [by |-> w, n |-> Prepared(w) + 1,
                                     cmd |-> c, create |-> cat[w][c.table] = NoTable,
                                     via |-> <<>>])]
            /\ UNCHANGED <<world, pc, script, cat, pol, chain, stack, at, ran, bad>>
         \/ Refuse(w)

\* All commands are prepared and may write; the policies of the first come
\* next.  (.ingest, which never triggers a policy, goes on to its write.)
Accept(w) ==
  /\ pc[w] = "prepare" /\ Prepared(w) = Len(script[w])
  /\ IF \A i \in DOMAIN script[w] : MayWriteDirectly(w, script[w][i])
     THEN /\ at' = [at EXCEPT ![w] = 1]
          /\ chain' = [chain EXCEPT ![w] = <<pend[w][1]>>]
          /\ IF script[w][1].mode = "ingest"
             THEN /\ pc' = [pc EXCEPT ![w] = "commit"]
                  /\ stack' = stack
             ELSE /\ pc' = [pc EXCEPT ![w] = "tx"]
                  /\ stack' = [stack EXCEPT ![w] =
                        <<[batch |-> pend[w][1], left |-> Triggered(w, pend[w][1], TRUE)]>>]
          /\ UNCHANGED <<world, script, cat, pol, pend, ran, bad>>
     ELSE Refuse(w)

------------------------------------------------------------------------------
(* Policies.  The stack holds, per level of runPolicies, the batch and the   *)
(* policies it still has to trigger, in any order (a Go map gives it).       *)

TooDeep(w) == Len(stack[w]) > MaxDepth

\* The levels when the one on top has done with policy p.
Rest(levels, p) == Append(Front(levels), [Last(levels) EXCEPT !.left = @ \ {p}])

\* Mutant of PolicyGivesRows: the policies' rows are written before the appends.
PolicyGivesRows_TargetsFirst(w, p) ==
  LET top == Last(stack[w])
      b == Derive(top.batch, p)
  IN  /\ ~TooDeep(w) /\ cat[w][p.target] # NoTable
      /\ chain' = [chain EXCEPT ![w] = <<b>> \o @]
      /\ stack' = [stack EXCEPT ![w] =
                     Append(Rest(@, p), [batch |-> b, left |-> Triggered(w, b, p.tx)])]
      /\ ran' = [ran EXCEPT ![w] = @ \cup {<<top.batch, p, "rows">>}]
      /\ UNCHANGED <<world, pc, script, cat, pol, pend, at, bad>>

\* evalPolicyQuery gave rows and prepareFromResult accepts them: the target
\* exists.  They are a new batch, and its own policies come first.
PolicyGivesRows(w, p) ==
  LET top == Last(stack[w])
      b == Derive(top.batch, p)
  IN  /\ ~TooDeep(w) /\ cat[w][p.target] # NoTable
      /\ chain' = [chain EXCEPT ![w] = Append(@, b)]
      /\ stack' = [stack EXCEPT ![w] =
                     Append(Rest(@, p), [batch |-> b, left |-> Triggered(w, b, p.tx)])]
      /\ ran' = [ran EXCEPT ![w] = @ \cup {<<top.batch, p, "rows">>}]
      /\ UNCHANGED <<world, pc, script, cat, pol, pend, at, bad>>

PolicyGivesNone(w, p) ==
  LET top == Last(stack[w])
  IN  /\ stack' = [stack EXCEPT ![w] = Rest(@, p)]
      /\ ran' = [ran EXCEPT ![w] = @ \cup {<<top.batch, p, "none">>}]
      /\ UNCHANGED <<world, pc, script, cat, pol, pend, chain, at, bad>>

\* Mutant of PolicyFails: every policy's failure is only reported.
PolicyFails_Reported(w, p) ==
  LET top == Last(stack[w])
  IN  /\ ran' = [ran EXCEPT ![w] = @ \cup {<<top.batch, p, "failed">>}]
      /\ stack' = [stack EXCEPT ![w] = Rest(@, p)]
      /\ bad' = [bad EXCEPT ![w] = @ \cup {<<Derive(top.batch, p), "failed">>}]
      /\ UNCHANGED <<world, pc, script, cat, pol, pend, chain, at>>

\* The query fails, its result does not fit the target, or the rows would go
\* one level too deep.  A transactional policy takes the statement with it.
PolicyFails(w, p) ==
  LET top == Last(stack[w])
      run == <<top.batch, p, "failed">>
  IN  /\ ran' = [ran EXCEPT ![w] = @ \cup {run}]
      /\ IF p.tx
         THEN /\ pc' = [pc EXCEPT ![w] = "refused"]
              /\ chain' = [chain EXCEPT ![w] = <<>>]
              /\ stack' = [stack EXCEPT ![w] = <<>>]
              /\ UNCHANGED bad
         ELSE /\ stack' = [stack EXCEPT ![w] = Rest(@, p)]
              /\ bad' = [bad EXCEPT ![w] = @ \cup {<<Derive(top.batch, p), "failed">>}]
              /\ UNCHANGED <<pc, chain>>
      /\ UNCHANGED <<world, script, cat, pol, pend, at>>

\* A batch too deep is written all the same when no transaction depends on it.
PolicyTooDeep(w, p) ==
  LET top == Last(stack[w])
      b == Derive(top.batch, p)
  IN  /\ TooDeep(w) /\ cat[w][p.target] # NoTable
      /\ IF p.tx THEN PolicyFails(w, p)
         ELSE /\ chain' = [chain EXCEPT ![w] = Append(@, b)]
              /\ stack' = [stack EXCEPT ![w] = Rest(@, p)]
              /\ ran' = [ran EXCEPT ![w] = @ \cup {<<top.batch, p, "rows">>}]
              /\ bad' = [bad EXCEPT ![w] = @ \cup {<<b, "deep">>}]
              /\ UNCHANGED <<world, pc, script, cat, pol, pend, at>>

Evaluate(w) ==
  /\ pc[w] \in {"tx", "late"} /\ stack[w] # <<>>
  /\ \E p \in Last(stack[w]).left :
       \/ PolicyGivesRows(w, p)
       \/ PolicyGivesNone(w, p)
       \/ PolicyFails(w, p)
       \/ PolicyTooDeep(w, p)

Return(w) ==
  /\ pc[w] \in {"tx", "late"} /\ stack[w] # <<>>
  /\ Last(stack[w]).left = {}
  /\ stack' = [stack EXCEPT ![w] = Front(@)]
  /\ UNCHANGED <<world, pc, script, cat, pol, pend, chain, at, ran, bad>>

\* The transactional policies of one append are done: the next append, or, when
\* there is none, the writes.
NextAppend(w) ==
  /\ pc[w] = "tx" /\ stack[w] = <<>>
  /\ IF at[w] < Prepared(w)
     THEN LET b == pend[w][at[w] + 1]
          IN  /\ at' = [at EXCEPT ![w] = @ + 1]
              /\ chain' = [chain EXCEPT ![w] = Append(@, b)]
              /\ stack' = [stack EXCEPT ![w] =
                             <<[batch |-> b, left |-> Triggered(w, b, TRUE)]>>]
              /\ UNCHANGED pc
     ELSE /\ pc' = [pc EXCEPT ![w] = "commit"]
          /\ UNCHANGED <<at, chain, stack>>
  /\ UNCHANGED <<world, script, cat, pol, pend, ran, bad>>

------------------------------------------------------------------------------
(* Writing.                                                                  *)

\* commitAppend: what it does to the catalog's schema of the table.
SchemaAfter(w, b) ==
  LET t == TableOf(b)
  IN  IF ~Direct(b) \/ b.cmd.mode = "ingest" THEN cat[w][t]
      ELSE IF cat[w][t] = NoTable THEN b.cmd.cols
      ELSE [c \in DOMAIN cat[w][t] \cup DOMAIN b.cmd.cols |->
              IF c \in DOMAIN cat[w][t] THEN cat[w][t][c] ELSE b.cmd.cols[c]]

\* A batch prepared to create its table finds it in the catalog by now.
Stale(w, b) == Direct(b) /\ b.create /\ cat[w][TableOf(b)] # NoTable

Commit(w) ==
  LET b == Head(chain[w])
      schema == SchemaAfter(w, b)
  IN  /\ pc[w] \in {"commit", "latecommit"} /\ chain[w] # <<>> /\ ~Stale(w, b)
      /\ schemas' = [schemas EXCEPT ![TableOf(b)] = @ \cup {schema}]
      /\ stored' = stored \cup {b}
      /\ cat' = [cat EXCEPT ![w][TableOf(b)] = schema]
      /\ chain' = [chain EXCEPT ![w] = Tail(@)]
      /\ UNCHANGED <<policies, others, pc, script, pol, pend, stack, at, ran, bad>>

\* Mutant of CommitFails: a failed write of a policy's rows is passed over.
CommitFails_PassedOver(w) ==
  LET b == Head(chain[w])
  IN  /\ pc[w] \in {"commit", "latecommit"} /\ chain[w] # <<>>
      /\ MayFail \/ Stale(w, b)
      /\ bad' = [bad EXCEPT ![w] =
                   IF pc[w] = "commit"
                   THEN @ \cup {<<b, IF Stale(w, b) THEN "stale" ELSE "unwritten">>} ELSE @]
      /\ chain' = [chain EXCEPT ![w] = IF pc[w] = "commit" THEN <<>> ELSE Tail(@)]
      /\ pc' = [pc EXCEPT ![w] = IF @ = "commit" THEN "failed" ELSE @]
      /\ UNCHANGED <<world, script, cat, pol, pend, stack, at, ran>>

\* A write that fails ends the statement while it writes what it must, and is
\* reported and passed over while it writes what other policies gave.
CommitFails(w) ==
  LET b == Head(chain[w])
  IN  /\ pc[w] \in {"commit", "latecommit"} /\ chain[w] # <<>>
      /\ MayFail \/ Stale(w, b)
      /\ bad' = [bad EXCEPT ![w] = @ \cup {<<b, IF Stale(w, b) THEN "stale" ELSE "unwritten">>}]
      /\ chain' = [chain EXCEPT ![w] = IF pc[w] = "commit" THEN <<>> ELSE Tail(@)]
      /\ pc' = [pc EXCEPT ![w] = IF @ = "commit" THEN "failed" ELSE @]
      /\ UNCHANGED <<world, script, cat, pol, pend, stack, at, ran>>

\* runPolicies for the policies that are not transactional, one append at a
\* time: all of them are evaluated, then all their batches written.
BeginLate(w, n) ==
  /\ at' = [at EXCEPT ![w] = n]
  /\ pc' = [pc EXCEPT ![w] = "late"]
  /\ stack' = [stack EXCEPT ![w] =
                 <<[batch |-> pend[w][n], left |-> Triggered(w, pend[w][n], FALSE)]>>]

Written(w) ==
  /\ pc[w] = "commit" /\ chain[w] = <<>>
  /\ IF script[w][1].mode = "ingest"
     THEN pc' = [pc EXCEPT ![w] = "done"] /\ UNCHANGED <<at, stack>>
     ELSE BeginLate(w, 1)
  /\ UNCHANGED <<world, script, cat, pol, pend, chain, ran, bad>>

LateEvaluated(w) ==
  /\ pc[w] = "late" /\ stack[w] = <<>>
  /\ pc' = [pc EXCEPT ![w] = "latecommit"]
  /\ UNCHANGED <<world, script, cat, pol, pend, chain, stack, at, ran, bad>>

\* Mutant of LateWritten: the same append's policies again.
LateWritten_Again(w) ==
  /\ pc[w] = "latecommit" /\ chain[w] = <<>>
  /\ IF at[w] < Prepared(w)
     THEN BeginLate(w, at[w])
     ELSE pc' = [pc EXCEPT ![w] = "done"] /\ UNCHANGED <<at, stack>>
  /\ UNCHANGED <<world, script, cat, pol, pend, chain, ran, bad>>

LateWritten(w) ==
  /\ pc[w] = "latecommit" /\ chain[w] = <<>>
  /\ IF at[w] < Prepared(w)
     THEN BeginLate(w, at[w] + 1)
     ELSE pc' = [pc EXCEPT ![w] = "done"] /\ UNCHANGED <<at, stack>>
  /\ UNCHANGED <<world, script, cat, pol, pend, chain, ran, bad>>

Die(w) ==
  /\ MayFail
  /\ pc[w] \in {"commit", "late", "latecommit"}
  /\ pc' = [pc EXCEPT ![w] = "dead"]
  /\ chain' = [chain EXCEPT ![w] = <<>>]
  /\ stack' = [stack EXCEPT ![w] = <<>>]
  /\ UNCHANGED <<world, script, cat, pol, pend, at, ran, bad>>

\* Other processes, whose catalogs are those of the beginning, create a table:
\* one, or two at the same time.
OtherCreates ==
  /\ others < MaxOthers
  /\ \E t \in Table, r, s \in Schema :
       /\ Start[t] = NoTable
       /\ schemas' = [schemas EXCEPT ![t] = @ \cup {r, s}]
  /\ others' = others + 1
  /\ UNCHANGED <<stored, policies, pc, script, cat, pol, pend, chain, stack, at, ran, bad>>

\* Another process runs .alter or .delete table t policy update.
Alter ==
  /\ others < MaxOthers
  /\ \E f \in Config, t \in Table :
       /\ f[t] # policies[t]
       /\ policies' = [policies EXCEPT ![t] = f[t]]
  /\ others' = others + 1
  /\ UNCHANGED <<schemas, stored, pc, script, cat, pol, pend, chain, stack, at, ran, bad>>

------------------------------------------------------------------------------
Init ==
  /\ schemas = [t \in Table |-> {Start[t]} \ {NoTable}]
  /\ stored = {}
  /\ policies \in Config
  /\ others = 0
  /\ pc = [w \in Writer |-> "idle"]
  /\ script = [w \in Writer |-> <<>>]
  /\ cat = [w \in Writer |-> [t \in Table |-> NoTable]]
  /\ pol = [w \in Writer |-> [t \in Table |-> {}]]
  /\ pend = [w \in Writer |-> <<>>]
  /\ chain = [w \in Writer |-> <<>>]
  /\ stack = [w \in Writer |-> <<>>]
  /\ at = [w \in Writer |-> 0]
  /\ ran = [w \in Writer |-> {}]
  /\ bad = [w \in Writer |-> {}]

Ended == {"refused", "failed", "done", "dead"}

Statement(w) ==
  \/ Refresh(w) \/ RefreshFails(w) \/ Prepare(w) \/ Accept(w)
  \/ Evaluate(w) \/ Return(w) \/ NextAppend(w)
  \/ Commit(w) \/ CommitFails(w) \/ Written(w)
  \/ LateEvaluated(w) \/ LateWritten(w)

\* Every process has ended its statement.
AllEnded == (\A w \in Writer : pc[w] \in Ended) /\ UNCHANGED vars

Next ==
  \/ \E w \in Writer : Submit(w) \/ Statement(w) \/ Die(w)
  \/ Alter \/ OtherCreates
  \/ AllEnded

Spec == Init /\ [][Next]_vars /\ \A w \in Writer : WF_vars(Statement(w))
------------------------------------------------------------------------------
(* Properties.                                                               *)

Ran(w, b, p) == \E r \in ran[w] : r[1] = b /\ r[2] = p

\* All or nothing (commitWithPolicies): when any batch of a statement is on
\* disk, every transactional policy that its commands trigger, the later
\* commands of a script included, has been evaluated and none has failed, and a
\* statement that was refused has written nothing.
TransactionalFirst ==
  \A b \in stored :
    LET w == b.by
    IN  /\ pc[w] # "refused"
        /\ Prepared(w) = Len(script[w])
        /\ \A r \in ran[w] : r[2].tx => r[3] # "failed"
        /\ \A i \in 1..Prepared(w), p \in Policy :
             pend[w][i].cmd.mode # "ingest" /\ p \in Triggered(w, pend[w][i], TRUE)
               => Ran(w, pend[w][i], p)

\* What prepareAppend found holds when commitAppend runs: no write of a
\* statement, an atomic script of several commands included, is refused because
\* of an earlier write of the same statement.
PlanHolds == \A w \in Writer : \A x \in bad[w] : x[2] # "stale"

\* Rows that came through transactional policies are in a target only with the
\* rows they were made from in the source, whenever the process dies.
FromItsSource ==
  \A b \in stored :
    ~Direct(b) /\ (\A i \in DOMAIN b.via : b.via[i].tx) => Parent(b) \in stored

\* A statement that reports success has written every append and every batch
\* its policies gave, or has reported that it could not, and has run every
\* policy on the appends, and on a policy's rows those of the same kind.
Accounted ==
  \A w \in Writer : pc[w] = "done" =>
    /\ \A i \in 1..Len(script[w]) : i <= Prepared(w) /\ pend[w][i] \in stored
    /\ \A r \in ran[w] : r[3] = "rows" =>
         LET b == Derive(r[1], r[2])
         IN  b \in stored \/ <<b, "unwritten">> \in bad[w]
    /\ \A b \in {x \in stored : x.by = w} : \A tx \in BOOLEAN :
         (b.cmd.mode # "ingest" /\ (Direct(b) \/ Last(b.via).tx = tx))
           => \A p \in Triggered(w, b, tx) :
                Ran(w, b, p) \/ <<b, "deep">> \in bad[w]

\* A statement that has begun ends, with policies that form a cycle too.
StatementEnds == \A w \in Writer : pc[w] = "refresh" ~> pc[w] \in Ended
==============================================================================
