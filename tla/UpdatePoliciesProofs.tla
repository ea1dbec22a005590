------------------------- MODULE UpdatePoliciesProofs -------------------------
(***************************************************************************)
(* All or nothing, the plan, the order of writes and the account of update *)
(* policies, proved for any writers, tables, scripts, schemas and policies *)
(* (cycles included), with failures, deaths, other processes' tables and   *)
(* changes of policies in the middle.                                      *)
(*                                                                         *)
(* A statement's own batches carry everything: what is in its chain was    *)
(* prepared, or came through a policy from what is before it or on disk;   *)
(* nothing goes to a table that a later append is to create; and every     *)
(* policy whose turn has come has been evaluated or waits on the stack.    *)
(***************************************************************************)
EXTENDS UpdatePolicies, SequenceTheorems, TLAPS

PC == {"idle", "refresh", "prepare", "tx", "commit", "late", "latecommit",
       "refused", "failed", "done", "dead"}

\* Where a statement has begun to write, and where it may go on to.
Writing == {"commit", "late", "latecommit", "done", "failed", "dead"}
Active == {"tx", "commit", "late", "latecommit", "done"}

Batch == [by : Writer, n : Nat, cmd : Command, create : BOOLEAN, via : Seq(Policy)]
Level == [batch : Batch, left : SUBSET Policy]
Result == Batch \X Policy \X {"rows", "none", "failed"}
Trouble == Batch \X {"failed", "deep", "stale", "unwritten"}

Types ==
  /\ policies \in [Table -> SUBSET Policy]
  /\ stored \subseteq Batch
  /\ pc \in [Writer -> PC]
  /\ script \in [Writer -> Seq(Command)]
  /\ DOMAIN cat = Writer /\ \A w \in Writer : DOMAIN cat[w] = Table
  /\ pol \in [Writer -> [Table -> SUBSET Policy]]
  /\ pend \in [Writer -> Seq(Batch)]
  /\ chain \in [Writer -> Seq(Batch)]
  /\ stack \in [Writer -> Seq(Level)]
  /\ at \in [Writer -> Nat]
  /\ ran \in [Writer -> SUBSET Result]
  /\ bad \in [Writer -> SUBSET Trouble]

\* The appends a statement has prepared: those of its commands, in their order, none to
\* a table that another of them is to create.
Appends(w) ==
  /\ Len(pend[w]) <= Len(script[w])
  /\ \A i \in DOMAIN pend[w] :
       pend[w][i].by = w /\ pend[w][i].n = i /\ pend[w][i].via = <<>> /\ pend[w][i].cmd = script[w][i]
  /\ \A i, j \in DOMAIN pend[w] :
       i # j /\ pend[w][i].create => pend[w][i].cmd.table # pend[w][j].cmd.table
  /\ pc[w] \in {"prepare", "tx"} =>
       \A i \in DOMAIN pend[w] : pend[w][i].create => cat[w][pend[w][i].cmd.table] = NoTable
  /\ pc[w] \in {"idle", "refresh"} => pend[w] = <<>>
  /\ pc[w] # "idle" => script[w] # <<>>
  /\ \A i \in DOMAIN script[w] : script[w][i].mode = "ingest" => Len(script[w]) = 1
  /\ pc[w] \in {"tx"} \cup Writing => Len(pend[w]) = Len(script[w]) /\ at[w] \in 1..Len(pend[w])
  /\ pc[w] = "commit" => at[w] = Len(pend[w])
  /\ pc[w] = "done" /\ script[w][1].mode # "ingest" => at[w] = Len(pend[w])

Between(c, k, b) == \E l \in 1..(k - 1) : c[l] = b

\* The batches whose turn has been decided.  Nothing before an append that is to create
\* its table goes to that table; what came through a policy comes after what it was made
\* from, until that is on disk.
Chain(w) ==
  /\ \A k \in DOMAIN chain[w] :
       /\ chain[w][k].by = w
       /\ Direct(chain[w][k]) => chain[w][k].n \in 1..at[w] /\ chain[w][k] = pend[w][chain[w][k].n]
       /\ ~Direct(chain[w][k]) => (Last(chain[w][k].via).tx <=> pc[w] \in {"tx", "commit"})
       /\ pc[w] \in {"tx", "commit"} /\ ~Direct(chain[w][k]) =>
            Parent(chain[w][k]) \in stored \/ Between(chain[w], k, Parent(chain[w][k]))
       /\ pc[w] = "tx" /\ ~Direct(chain[w][k]) => cat[w][TableOf(chain[w][k])] # NoTable
       /\ pc[w] \in {"late", "latecommit"} => ~Direct(chain[w][k])
       /\ Direct(chain[w][k]) /\ chain[w][k].create =>
            /\ cat[w][TableOf(chain[w][k])] = NoTable
            /\ \A l \in DOMAIN chain[w] : l # k => TableOf(chain[w][l]) # TableOf(chain[w][k])
  /\ pc[w] \notin {"tx", "commit", "late", "latecommit"} => chain[w] = <<>>

\* The batches whose policies are being evaluated.
Stack(w) ==
  /\ pc[w] \notin {"tx", "late"} => stack[w] = <<>>
  /\ \A i \in DOMAIN stack[w] :
       /\ stack[w][i].batch.by = w
       /\ \A q \in stack[w][i].left : q.tx <=> pc[w] = "tx"
       /\ pc[w] = "tx" => stack[w][i].batch \in ToSet(chain[w])

\* What a statement has written.
StoredBy(w) ==
  \A b \in stored : b.by = w =>
    /\ pc[w] \in Writing
    /\ Direct(b) => b.n \in DOMAIN pend[w] /\ b = pend[w][b.n]

\* Where its appends are.
Placed(w) ==
  /\ pc[w] = "tx" => \A i \in 1..at[w] : pend[w][i] \in ToSet(chain[w])
  /\ pc[w] = "commit" => \A i \in DOMAIN pend[w] : pend[w][i] \in stored \cup ToSet(chain[w])
  /\ pc[w] \in {"late", "latecommit", "done"} => \A i \in DOMAIN pend[w] : pend[w][i] \in stored

\* The policies whose turn on batch b has come.
Due(w, b, tx) ==
  /\ b.cmd.mode # "ingest"
  /\ \/ Direct(b) /\ tx
     \/ Direct(b) /\ ~tx /\ pc[w] \in {"late", "latecommit", "done"} /\ b.n <= at[w]
     \/ ~Direct(b) /\ Last(b.via).tx = tx

Waits(w, b, p) == \E i \in DOMAIN stack[w] : stack[w][i].batch = b /\ p \in stack[w][i].left

\* What has become of the policies.
Evaluated(w) ==
  /\ pc[w] \in {"idle", "refresh", "prepare"} => ran[w] = {}
  /\ \A r \in ran[w] : r[2].tx /\ r[3] = "failed" => pc[w] = "refused"
  /\ \A x \in bad[w] : x[2] # "stale" /\ (x[2] = "deep" => ~Direct(x[1]))
  /\ pc[w] \in Active =>
       /\ \A r \in ran[w] : r[3] = "rows" =>
            LET b == Derive(r[1], r[2])
            IN  b \in stored \cup ToSet(chain[w]) \/ <<b, "unwritten">> \in bad[w]
       /\ \A b \in stored \cup ToSet(chain[w]), tx \in BOOLEAN :
            b.by = w /\ Due(w, b, tx) =>
              \A p \in Triggered(w, b, tx) :
                Ran(w, b, p) \/ <<b, "deep">> \in bad[w] \/ Waits(w, b, p)
  /\ pc[w] \in Writing =>
       \A i \in DOMAIN pend[w] : pend[w][i].cmd.mode # "ingest" =>
         \A p \in Triggered(w, pend[w][i], TRUE) : Ran(w, pend[w][i], p)

Inv(w) == Appends(w) /\ Chain(w) /\ Stack(w) /\ StoredBy(w) /\ Placed(w) /\ Evaluated(w)

IInv == Types /\ FromItsSource /\ \A w \in Writer : Inv(w)

------------------------------------------------------------------------------
(* Sequences and batches.                                                    *)

LEMMA AppendIs ==
  ASSUME NEW S, NEW s \in Seq(S), NEW x \in S
  PROVE  /\ Append(s, x) \in Seq(S) /\ Len(s) \in Nat /\ Len(Append(s, x)) = Len(s) + 1
         /\ DOMAIN Append(s, x) = 1..(Len(s) + 1) /\ DOMAIN s = 1..Len(s)
         /\ \A i \in 1..Len(s) : Append(s, x)[i] = s[i]
         /\ Append(s, x)[Len(s) + 1] = x
         /\ \A i \in 1..(Len(s) + 1) : i \in 1..Len(s) \/ i = Len(s) + 1
         /\ \A i \in 1..Len(s) : i \in 1..(Len(s) + 1)
         /\ Len(s) + 1 \in 1..(Len(s) + 1)
         /\ Append(s, x) # << >>
         /\ ToSet(Append(s, x)) = ToSet(s) \cup {x}
<1>1. /\ Append(s, x) \in Seq(S) /\ Len(s) \in Nat /\ Len(Append(s, x)) = Len(s) + 1
      /\ DOMAIN Append(s, x) = 1..(Len(s) + 1) /\ DOMAIN s = 1..Len(s)
      /\ \A i \in 1..Len(s) : Append(s, x)[i] = s[i]
      /\ Append(s, x)[Len(s) + 1] = x
  OBVIOUS
<1>2. /\ \A i \in 1..(Len(s) + 1) : i \in 1..Len(s) \/ i = Len(s) + 1
      /\ \A i \in 1..Len(s) : i \in 1..(Len(s) + 1)
      /\ Len(s) + 1 \in 1..(Len(s) + 1)
  BY <1>1
<1>3. ToSet(Append(s, x)) = ToSet(s) \cup {x}
  BY <1>1, <1>2 DEF ToSet
<1>4. Append(s, x) # << >>
  BY <1>1
<1> QED
  BY <1>1, <1>2, <1>3, <1>4

LEMMA FrontIs ==
  ASSUME NEW S, NEW s \in Seq(S), s # << >>
  PROVE  /\ Front(s) \in Seq(S) /\ Len(s) \in Nat \ {0} /\ Len(Front(s)) = Len(s) - 1
         /\ DOMAIN Front(s) = 1..(Len(s) - 1) /\ DOMAIN s = 1..Len(s)
         /\ \A i \in 1..(Len(s) - 1) : Front(s)[i] = s[i] /\ i \in 1..Len(s)
         /\ \A i \in 1..Len(s) : i \in 1..(Len(s) - 1) \/ i = Len(s)
         /\ Last(s) = s[Len(s)] /\ Last(s) \in S /\ Len(s) \in DOMAIN s
<1> DEFINE n == Len(s)
           f == Front(s)
<1>1. n \in Nat /\ n >= 1 /\ DOMAIN s = 1..n /\ \A i \in 1..n : s[i] \in S
  <2>1. n \in Nat \ {0}
    BY EmptySeq
  <2> QED
    BY <2>1
<1>2. \A i \in 1..(n - 1) : s[i] \in S /\ i \in 1..n
  BY <1>1
<1>3. /\ f \in Seq(S) /\ Len(f) = IF 1 <= n - 1 THEN (n - 1) - 1 + 1 ELSE 0
      /\ \A i \in 1..((n - 1) - 1 + 1) : f[i] = s[1 + i - 1]
  <2>1. 1 \in Int /\ n - 1 \in Int
    BY <1>1
  <2> QED
    BY <1>2, <2>1, SubSeqProperties DEF Front
<1>4. DOMAIN f = 1..Len(f)
  BY <1>3
<1>5. Last(s) = s[n]
  BY DEF Last
<1> HIDE DEF n, f
<1>6. Len(f) = n - 1 /\ n \in Nat \ {0} /\ n \in 1..n
  BY <1>1, <1>3
<1>7. \A i \in 1..(n - 1) : f[i] = s[i]
  <2>1. \A i \in 1..(n - 1) : i \in 1..((n - 1) - 1 + 1) /\ 1 + i - 1 = i
    BY <1>1
  <2> QED
    BY <1>3, <2>1
<1>8. \A i \in 1..n : i \in 1..(n - 1) \/ i = n
  BY <1>1
<1>9. s[n] \in S /\ n \in DOMAIN s
  BY <1>1, <1>6
<1>10. DOMAIN f = 1..(n - 1)
  BY <1>4, <1>6
<1> QED
  BY <1>1, <1>2, <1>3, <1>5, <1>6, <1>7, <1>8, <1>9, <1>10 DEF n, f

LEMMA TailIs ==
  ASSUME NEW S, NEW s \in Seq(S), s # << >>
  PROVE  /\ Tail(s) \in Seq(S) /\ Len(s) \in Nat \ {0} /\ Len(Tail(s)) = Len(s) - 1
         /\ DOMAIN Tail(s) = 1..(Len(s) - 1) /\ DOMAIN s = 1..Len(s)
         /\ \A i \in 1..(Len(s) - 1) : Tail(s)[i] = s[i + 1] /\ i + 1 \in 1..Len(s)
         /\ Head(s) = s[1] /\ Head(s) \in S /\ 1 \in DOMAIN s
         /\ ToSet(s) = ToSet(Tail(s)) \cup {Head(s)}
<1>1. Len(s) \in Nat \ {0} /\ DOMAIN s = 1..Len(s)
  BY EmptySeq
<1>2. /\ Head(s) \in S /\ Tail(s) \in Seq(S) /\ Len(Tail(s)) = Len(s) - 1 /\ Head(s) = s[1]
      /\ \A i \in 1..Len(Tail(s)) : Tail(s)[i] = s[i + 1]
  BY HeadTailProperties
<1>3. /\ DOMAIN Tail(s) = 1..(Len(s) - 1) /\ 1 \in 1..Len(s)
      /\ \A i \in 1..(Len(s) - 1) : i + 1 \in 1..Len(s)
  BY <1>1, <1>2
<1>4. \A x : x \in ToSet(s) <=> (x \in ToSet(Tail(s)) \/ x = Head(s))
  <2>1. SUFFICES ASSUME NEW x PROVE x \in ToSet(s) <=> (x \in ToSet(Tail(s)) \/ x = Head(s))
    OBVIOUS
  <2>2. x \in ToSet(s) <=> \E i \in 1..Len(s) : x = s[i]
    BY <1>1 DEF ToSet
  <2>3. x \in ToSet(Tail(s)) <=> \E i \in 1..(Len(s) - 1) : x = s[i + 1]
    BY <1>2, <1>3 DEF ToSet
  <2>4. ASSUME NEW i \in 1..Len(s) PROVE i = 1 \/ (i - 1 \in 1..(Len(s) - 1) /\ i = (i - 1) + 1)
    BY <1>1
  <2> QED
    BY <1>2, <1>3, <2>2, <2>3, <2>4
<1> QED
  BY <1>1, <1>2, <1>3, <1>4

LEMMA RestIs ==
  ASSUME NEW s \in Seq(Level), s # << >>, NEW p
  PROVE  /\ Rest(s, p) \in Seq(Level) /\ Len(Rest(s, p)) = Len(s) /\ Len(s) \in Nat \ {0}
         /\ DOMAIN Rest(s, p) = 1..Len(s) /\ DOMAIN s = 1..Len(s)
         /\ \A i \in 1..(Len(s) - 1) : Rest(s, p)[i] = s[i]
         /\ \A i \in 1..Len(s) : i \in 1..(Len(s) - 1) \/ i = Len(s)
         /\ Rest(s, p)[Len(s)].batch = s[Len(s)].batch
         /\ Rest(s, p)[Len(s)].left = s[Len(s)].left \ {p}
         /\ Last(s) = s[Len(s)] /\ Last(s) \in Level
<1> DEFINE less == [Last(s) EXCEPT !.left = Last(s).left \ {p}]
<1>1. /\ Front(s) \in Seq(Level) /\ Len(s) \in Nat \ {0} /\ Len(Front(s)) = Len(s) - 1
      /\ DOMAIN s = 1..Len(s) /\ \A i \in 1..(Len(s) - 1) : Front(s)[i] = s[i]
      /\ \A i \in 1..Len(s) : i \in 1..(Len(s) - 1) \/ i = Len(s)
      /\ Last(s) = s[Len(s)] /\ Last(s) \in Level
  BY FrontIs
<1>2. less \in Level /\ less.batch = Last(s).batch /\ less.left = Last(s).left \ {p}
  BY <1>1 DEF Level
<1>3. Rest(s, p) = Append(Front(s), less)
  BY DEF Rest
<1> HIDE DEF less
<1>4. /\ Rest(s, p) \in Seq(Level) /\ Len(Rest(s, p)) = Len(Front(s)) + 1
      /\ DOMAIN Rest(s, p) = 1..(Len(Front(s)) + 1)
      /\ \A i \in 1..Len(Front(s)) : Rest(s, p)[i] = Front(s)[i]
      /\ Rest(s, p)[Len(Front(s)) + 1] = less
  BY <1>1, <1>2, <1>3, AppendIs
<1>5. Len(Front(s)) + 1 = Len(s)
  BY <1>1
<1> QED
  BY <1>1, <1>2, <1>4, <1>5

\* What comes through a policy.
LEMMA DeriveIs ==
  ASSUME NEW b \in Batch, NEW p \in Policy
  PROVE  LET d == Derive(b, p)
         IN  /\ d \in Batch /\ d.by = b.by /\ d.n = b.n /\ d.cmd = b.cmd /\ d.create = b.create
             /\ ~Direct(d) /\ Last(d.via) = p /\ Parent(d) = b /\ TableOf(d) = p.target
<1> DEFINE d == Derive(b, p)
<1>1. b.via \in Seq(Policy)
  BY DEF Batch
<1>2. /\ Append(b.via, p) \in Seq(Policy) /\ Append(b.via, p) # << >> /\ Len(b.via) \in Nat
      /\ Len(Append(b.via, p)) = Len(b.via) + 1
      /\ \A i \in 1..Len(b.via) : Append(b.via, p)[i] = b.via[i]
      /\ Append(b.via, p)[Len(b.via) + 1] = p
  BY <1>1, AppendIs
<1>3. d = [b EXCEPT !.via = Append(b.via, p)]
  BY DEF Derive
<1> DEFINE via == Append(b.via, p)
<1> HIDE DEF d, via
<1>4. d \in Batch /\ d.by = b.by /\ d.n = b.n /\ d.cmd = b.cmd /\ d.create = b.create /\ d.via = via
  BY <1>2, <1>3 DEF Batch, via
<1>5. Last(d.via) = p /\ d.via # << >>
  BY <1>2, <1>4 DEF Last, via
<1>6. Front(d.via) = b.via
  <2>1. d.via \in Seq(Policy) /\ d.via # << >> /\ Len(d.via) = Len(b.via) + 1
    BY <1>2, <1>4 DEF via
  <2>2. /\ Front(d.via) \in Seq(Policy) /\ Len(Front(d.via)) = Len(d.via) - 1
        /\ \A i \in 1..(Len(d.via) - 1) : Front(d.via)[i] = d.via[i]
    BY <2>1, FrontIs
  <2>3. Len(d.via) - 1 = Len(b.via)
    BY <1>2, <2>1
  <2>4. \A i \in 1..Len(b.via) : Front(d.via)[i] = b.via[i]
    BY <1>2, <1>4, <2>2, <2>3 DEF via
  <2> QED
    BY <1>1, <2>2, <2>3, <2>4, SeqEqual
<1>7. Parent(d) = b
  BY <1>3, <1>4, <1>6 DEF Parent, Batch
<1> QED
  BY <1>4, <1>5, <1>7 DEF Direct, TableOf, d
------------------------------------------------------------------------------
(* Other writers.                                                            *)

\* A step leaves writer v's statement alone.
Same(v) ==
  /\ pc'[v] = pc[v] /\ script'[v] = script[v] /\ cat'[v] = cat[v] /\ pol'[v] = pol[v]
  /\ pend'[v] = pend[v] /\ chain'[v] = chain[v] /\ stack'[v] = stack[v]
  /\ at'[v] = at[v] /\ ran'[v] = ran[v] /\ bad'[v] = bad[v]

\* It may write batches, but none of v's.
WritesNone(v) == stored \subseteq stored' /\ \A b \in stored' : b \in stored \/ b.by # v

LEMMA OthersKeep ==
  ASSUME NEW v \in Writer, Inv(v), Same(v), WritesNone(v)
  PROVE  Inv(v)'
<1> USE DEF Same
<1>1. Appends(v)'
  BY DEF Inv, Appends
<1>2. Chain(v)'
  BY DEF Inv, Chain, WritesNone, Between
<1>3. Stack(v)'
  BY DEF Inv, Stack
<1>4. StoredBy(v)'
  BY DEF Inv, StoredBy, WritesNone
<1>5. Placed(v)'
  BY DEF Inv, Placed, WritesNone
<1>6. Evaluated(v)'
  <2>1. /\ \A b, p : Ran(v, b, p)' <=> Ran(v, b, p)
        /\ \A b, p : Waits(v, b, p)' <=> Waits(v, b, p)
        /\ \A b, tx : Due(v, b, tx)' <=> Due(v, b, tx)
        /\ \A b, tx : Triggered(v, b, tx)' = Triggered(v, b, tx)
    BY DEF Ran, Waits, Due, Triggered
  <2> QED
    BY <2>1 DEF Inv, Evaluated, WritesNone
<1> QED
  BY <1>1, <1>2, <1>3, <1>4, <1>5, <1>6 DEF Inv
------------------------------------------------------------------------------
(* Before anything is written.                                               *)

\* Statement w goes on, and the others stay where they are.
Moves(w) ==
  Types' /\ Inv(w)' /\ \A v \in Writer \ {w} : Same(v) /\ WritesNone(v)

LEMMA SubmitMoves ==
  ASSUME NEW w \in Writer, Types, Inv(w), Submit(w)
  PROVE  Moves(w)
<1>1. PICK s \in Script[w] : script' = [script EXCEPT ![w] = s]
  BY DEF Submit
<1>2. s \in Seq(Command) /\ s # <<>> /\ \A i \in DOMAIN s : s[i].mode = "ingest" => Len(s) = 1
  BY ConstantsOK
<1>3. /\ pc[w] = "idle" /\ pc' = [pc EXCEPT ![w] = "refresh"]
      /\ stored' = stored /\ policies' = policies
      /\ cat' = cat /\ pol' = pol /\ pend' = pend /\ chain' = chain /\ stack' = stack /\ at' = at
      /\ ran' = ran /\ bad' = bad
  BY DEF Submit, world
<1>4. Types'
  BY <1>1, <1>2, <1>3 DEF Types, PC
<1>5. \A v \in Writer \ {w} : Same(v) /\ WritesNone(v)
  BY <1>1, <1>3 DEF Same, WritesNone, Types
<1>6. script'[w] = s /\ pc'[w] = "refresh"
  BY <1>1, <1>3 DEF Types
<1>7. pend[w] = <<>> /\ chain[w] = <<>> /\ stack[w] = <<>> /\ ran[w] = {}
  BY <1>3 DEF Inv, Appends, Chain, Stack, Evaluated
<1>8. Appends(w)'
  <2>1. Len(pend[w]) = 0 /\ DOMAIN pend[w] = {} /\ Len(s) \in Nat
    BY <1>2, <1>7
  <2> QED
    BY <1>2, <1>3, <1>6, <1>7, <2>1 DEF Appends, Writing
<1>9. Chain(w)' /\ Stack(w)'
  BY <1>3, <1>6, <1>7 DEF Chain, Stack
<1>10. StoredBy(w)' /\ Placed(w)'
  BY <1>3, <1>6 DEF Inv, StoredBy, Placed, Writing
<1>11. Evaluated(w)'
  BY <1>3, <1>6, <1>7 DEF Inv, Evaluated, Active, Writing
<1> QED
  BY <1>4, <1>5, <1>8, <1>9, <1>10, <1>11 DEF Moves, Inv

LEMMA RefreshMoves ==
  ASSUME NEW w \in Writer, Types, Inv(w), Refresh(w)
  PROVE  Moves(w)
<1>1. /\ pc[w] = "refresh" /\ pc' = [pc EXCEPT ![w] = "prepare"]
      /\ cat' = [cat EXCEPT ![w] = [t \in Table |-> Merged(t)]]
      /\ pol' = [pol EXCEPT ![w] = policies]
      /\ stored' = stored /\ policies' = policies /\ script' = script
      /\ pend' = pend /\ chain' = chain /\ stack' = stack /\ at' = at /\ ran' = ran /\ bad' = bad
  BY DEF Refresh, world
<1>2. Types'
  BY <1>1 DEF Types, PC
<1>3. \A v \in Writer \ {w} : Same(v) /\ WritesNone(v)
  BY <1>1 DEF Same, WritesNone, Types
<1>4. pc'[w] = "prepare"
  BY <1>1 DEF Types
<1>5. pend[w] = <<>> /\ chain[w] = <<>> /\ stack[w] = <<>> /\ ran[w] = {}
  BY <1>1 DEF Inv, Appends, Chain, Stack, Evaluated
<1>6. Appends(w)'
  <2>1. DOMAIN pend[w] = {}
    BY <1>5
  <2> QED
    BY <1>1, <1>4, <1>5, <2>1 DEF Inv, Appends, Writing
<1>7. Chain(w)' /\ Stack(w)'
  BY <1>1, <1>4, <1>5 DEF Chain, Stack
<1>8. StoredBy(w)' /\ Placed(w)'
  BY <1>1, <1>4 DEF Inv, StoredBy, Placed, Writing
<1>9. Evaluated(w)'
  BY <1>1, <1>4, <1>5 DEF Inv, Evaluated, Active, Writing
<1> QED
  BY <1>2, <1>3, <1>6, <1>7, <1>8, <1>9 DEF Moves, Inv

\* A statement that ends before it has written anything, whatever it has evaluated.
LEMMA RefusalMoves ==
  ASSUME NEW w \in Writer, Types, Inv(w), pc[w] \in {"refresh", "prepare", "tx"},
         pc' = [pc EXCEPT ![w] = "refused"],
         chain' = [chain EXCEPT ![w] = <<>>],
         stack' = [stack EXCEPT ![w] = <<>>],
         NEW more \in SUBSET Result, ran' = [ran EXCEPT ![w] = ran[w] \cup more],
         UNCHANGED <<world, script, cat, pol, pend, at, bad>>
  PROVE  Moves(w)
<1>1. /\ stored' = stored /\ policies' = policies /\ script' = script /\ cat' = cat /\ pol' = pol
      /\ pend' = pend /\ at' = at /\ bad' = bad
  BY DEF world
<1>2. Types'
  <2>1. ran[w] \cup more \in SUBSET Result
    BY DEF Types
  <2> QED
    BY <1>1, <2>1 DEF Types, PC
<1>3. \A v \in Writer \ {w} : Same(v) /\ WritesNone(v)
  BY <1>1 DEF Same, WritesNone, Types
<1>4. pc'[w] = "refused" /\ chain'[w] = <<>> /\ stack'[w] = <<>>
  BY DEF Types
<1>5. Appends(w)'
  BY <1>1, <1>4 DEF Inv, Appends, Writing
<1>6. Chain(w)' /\ Stack(w)'
  BY <1>4 DEF Chain, Stack
<1>7. StoredBy(w)' /\ Placed(w)'
  BY <1>1, <1>4 DEF Inv, StoredBy, Placed, Writing
<1>8. Evaluated(w)'
  BY <1>1, <1>4 DEF Inv, Evaluated, Active, Writing
<1> QED
  BY <1>2, <1>3, <1>5, <1>6, <1>7, <1>8 DEF Moves, Inv

LEMMA RefuseMoves ==
  ASSUME NEW w \in Writer, Types, Inv(w), pc[w] \in {"refresh", "prepare"}, Refuse(w)
  PROVE  Moves(w)
<1>1. ran' = [ran EXCEPT ![w] = ran[w] \cup {}] /\ {} \in SUBSET Result
  BY DEF Refuse, Types
<1> QED
  BY <1>1, RefusalMoves DEF Refuse

\* The next append: no other of the script changes the schema of a table that one
\* of them creates (Independent).
LEMMA PrepareMoves ==
  ASSUME NEW w \in Writer, Types, Inv(w), Prepare(w)
  PROVE  Moves(w)
<1> DEFINE c == script[w][Prepared(w) + 1]
           create == cat[w][c.table] = NoTable
           b == [by |-> w, n |-> Prepared(w) + 1, cmd |-> c, create |-> create, via |-> <<>>]
           m == Len(pend[w])
<1>1. pc[w] = "prepare" /\ m < Len(script[w])
  BY DEF Prepare, Prepared
<1>2. CASE Refuse(w)
  BY <1>1, <1>2, RefuseMoves
<1>3. CASE ~Refuse(w)
  <2>1. /\ Fits(w, c) /\ Independent(w, c)
        /\ pend' = [pend EXCEPT ![w] = Append(pend[w], b)]
        /\ stored' = stored /\ policies' = policies
        /\ pc' = pc /\ script' = script /\ cat' = cat /\ pol' = pol /\ chain' = chain
        /\ stack' = stack /\ at' = at /\ ran' = ran /\ bad' = bad
    BY <1>3 DEF Prepare, world
  <2>2. /\ pend[w] \in Seq(Batch) /\ m \in Nat /\ DOMAIN pend[w] = 1..m
        /\ Len(script[w]) \in Nat /\ DOMAIN script[w] = 1..Len(script[w])
        /\ \A i \in 1..m : pend[w][i] \in Batch
    <3>1. pend[w] \in Seq(Batch) /\ script[w] \in Seq(Command)
      BY DEF Types
    <3> QED
      BY <3>1
  <2>3. m + 1 \in 1..Len(script[w]) /\ c \in Command
    <3>1. m + 1 \in 1..Len(script[w])
      BY <1>1, <2>2
    <3> QED
      BY <3>1 DEF Types, Prepared
  <2>4. b \in Batch
    <3>1. create \in BOOLEAN /\ m + 1 \in Nat /\ <<>> \in Seq(Policy)
      BY <2>2
    <3> HIDE DEF create, c
    <3> QED
      BY <2>3, <3>1 DEF Batch, Prepared
  <2>5. b.by = w /\ b.n = m + 1 /\ b.cmd = c /\ b.via = <<>> /\ (b.create <=> cat[w][c.table] = NoTable)
    BY DEF Prepared
  <2> HIDE DEF b, c
  <2> DEFINE q == Append(pend[w], b)
  <2>6. /\ q \in Seq(Batch) /\ Len(q) = m + 1 /\ DOMAIN q = 1..(m + 1)
        /\ \A i \in 1..m : q[i] = pend[w][i]
        /\ q[m + 1] = b
        /\ \A i \in 1..(m + 1) : i \in 1..m \/ i = m + 1
    BY <2>2, <2>4, AppendIs
  <2>7. pend'[w] = q
    BY <2>1 DEF Types
  <2> HIDE DEF q
  <2>8. Types'
    <3>1. pend' \in [Writer -> Seq(Batch)]
      BY <2>1, <2>6 DEF Types, q
    <3> QED
      BY <2>1, <3>1 DEF Types
  <2>9. \A v \in Writer \ {w} : Same(v) /\ WritesNone(v)
    BY <2>1 DEF Same, WritesNone, Types
  <2>10. Appends(w)'
    <3>1. \A i \in 1..m : pend[w][i].create => cat[w][pend[w][i].cmd.table] = NoTable
      BY <1>1, <2>2 DEF Inv, Appends
    <3>2. \A i \in 1..m : pend[w][i].cmd.table = c.table =>
            ~(ChangesSchema(w, c) \/ ChangesSchema(w, pend[w][i].cmd))
      BY <2>1 DEF Independent, Prepared
    <3>3. \A i \in 1..m : pend[w][i].cmd.table = c.table => ~pend[w][i].create /\ ~b.create
      BY <2>5, <3>1, <3>2 DEF ChangesSchema
    <3>4. \A i \in 1..(m + 1) : q[i].by = w /\ q[i].n = i /\ q[i].via = <<>> /\ q[i].cmd = script[w][i]
      <4>1. \A i \in 1..m : pend[w][i].by = w /\ pend[w][i].n = i /\ pend[w][i].via = <<>> /\ pend[w][i].cmd = script[w][i]
        BY <2>2 DEF Inv, Appends
      <4> QED
        BY <2>5, <2>6, <4>1 DEF c, Prepared
    <3>5. \A i, j \in 1..(m + 1) : i # j /\ q[i].create => q[i].cmd.table # q[j].cmd.table
      <4>1. \A i, j \in 1..m : i # j /\ pend[w][i].create => pend[w][i].cmd.table # pend[w][j].cmd.table
        BY <2>2 DEF Inv, Appends
      <4>2. TAKE i, j \in 1..(m + 1)
      <4>3. CASE i \in 1..m /\ j \in 1..m
        BY <2>6, <4>1, <4>3
      <4>4. CASE i \in 1..m /\ j = m + 1
        BY <2>5, <2>6, <3>3, <4>4
      <4>5. CASE i = m + 1 /\ j \in 1..m
        BY <2>5, <2>6, <3>3, <4>5
      <4> QED
        BY <2>6, <4>3, <4>4, <4>5
    <3>6. \A i \in 1..(m + 1) : q[i].create => cat[w][q[i].cmd.table] = NoTable
      BY <2>5, <2>6, <3>1
    <3>7. m + 1 <= Len(script[w])
      BY <2>3
    <3> QED
      BY <1>1, <2>1, <2>6, <2>7, <3>4, <3>5, <3>6, <3>7 DEF Inv, Appends, Writing
  <2>11. chain[w] = <<>> /\ stack[w] = <<>> /\ ran[w] = {}
    BY <1>1 DEF Inv, Chain, Stack, Evaluated
  <2>12. Chain(w)' /\ Stack(w)'
    BY <1>1, <2>1, <2>11 DEF Chain, Stack
  <2>13. StoredBy(w)' /\ Placed(w)'
    BY <1>1, <2>1 DEF Inv, StoredBy, Placed, Writing
  <2>14. Evaluated(w)'
    BY <1>1, <2>1, <2>11 DEF Inv, Evaluated, Active, Writing
  <2> QED
    BY <2>8, <2>9, <2>10, <2>12, <2>13, <2>14 DEF Moves, Inv
<1> QED
  BY <1>2, <1>3

\* All appends are prepared: the first is to be written, and its policies come next.
LEMMA AcceptMoves ==
  ASSUME NEW w \in Writer, Types, Inv(w), Accept(w)
  PROVE  Moves(w)
<1> DEFINE m == Len(pend[w])
<1>b. PICK b : b = pend[w][1]
  OBVIOUS
<1>t. PICK turn : turn = Triggered(w, b, TRUE)
  OBVIOUS
<1>l. PICK level : level = [batch |-> b, left |-> turn]
  OBVIOUS
<1>i. PICK ingest \in BOOLEAN : ingest = (script[w][1].mode = "ingest")
  OBVIOUS
<1>1. pc[w] = "prepare" /\ m = Len(script[w])
  BY DEF Accept, Prepared
<1>2. CASE Refuse(w)
  BY <1>1, <1>2, RefuseMoves
<1>3. CASE ~Refuse(w)
  <2>1. /\ at' = [at EXCEPT ![w] = 1]
        /\ chain' = [chain EXCEPT ![w] = <<b>>]
        /\ stored' = stored /\ policies' = policies
        /\ script' = script /\ cat' = cat /\ pol' = pol /\ pend' = pend /\ ran' = ran /\ bad' = bad
    BY <1>3, <1>b DEF Accept, world
  <2>2. /\ ingest => pc' = [pc EXCEPT ![w] = "commit"] /\ stack' = stack
        /\ ~ingest => /\ pc' = [pc EXCEPT ![w] = "tx"]
                      /\ stack' = [stack EXCEPT ![w] = <<level>>]
    BY <1>3, <1>b, <1>t, <1>l, <1>i DEF Accept
  <2>3. /\ pend[w] \in Seq(Batch) /\ m \in Nat /\ DOMAIN pend[w] = 1..m /\ 1 \in 1..m /\ DOMAIN script[w] = 1..m
        /\ b \in Batch
    <3>1. pend[w] \in Seq(Batch) /\ script[w] \in Seq(Command)
      BY DEF Types
    <3>2. script[w] # <<>>
      BY <1>1 DEF Inv, Appends
    <3>3. Len(script[w]) \in Nat \ {0}
      BY <3>1, <3>2, EmptySeq
    <3> QED
      BY <1>1, <1>b, <3>1, <3>3
  <2>4. turn \in SUBSET Policy /\ \A p \in turn : p.tx
    BY <1>t DEF Triggered, Types
  <2>5. b.by = w /\ b.n = 1 /\ b.via = <<>> /\ b.cmd = script[w][1] /\ Direct(b) /\ TableOf(b) = b.cmd.table
    BY <1>b, <2>3 DEF Inv, Appends, Direct, TableOf
  <2>6. b.create => cat[w][b.cmd.table] = NoTable
    BY <1>1, <1>b, <2>3 DEF Inv, Appends
  <2>7. ran[w] = {} /\ stack[w] = <<>> /\ \A x \in stored : x.by # w
    BY <1>1 DEF Inv, Stack, StoredBy, Evaluated, Writing
  <2>8. level \in Level /\ level.batch = b /\ level.left = turn
    BY <1>l, <2>3, <2>4 DEF Level
  <2>9. /\ <<b>> \in Seq(Batch) /\ Len(<<b>>) = 1 /\ DOMAIN <<b>> = {1} /\ <<b>>[1] = b /\ ToSet(<<b>>) = {b}
        /\ <<level>> \in Seq(Level) /\ DOMAIN <<level>> = {1} /\ <<level>>[1] = level
    BY <2>3, <2>8 DEF ToSet
  <2>10. Types'
    <3>1. chain' \in [Writer -> Seq(Batch)] /\ at' \in [Writer -> Nat]
      BY <2>1, <2>9 DEF Types
    <3>2. CASE ingest
      BY <2>1, <2>2, <3>1, <3>2 DEF Types, PC
    <3>3. CASE ~ingest
      <4>1. stack' \in [Writer -> Seq(Level)]
        BY <2>2, <2>9, <3>3 DEF Types
      <4> QED
        BY <2>1, <2>2, <3>1, <3>3, <4>1 DEF Types, PC
    <3> QED
      BY <3>2, <3>3
  <2>11. \A v \in Writer \ {w} : Same(v) /\ WritesNone(v)
    BY <2>1, <2>2 DEF Same, WritesNone, Types
  <2>12. /\ at'[w] = 1 /\ chain'[w] = <<b>>
         /\ ingest => pc'[w] = "commit" /\ stack'[w] = <<>>
         /\ ~ingest => pc'[w] = "tx" /\ stack'[w] = <<level>>
    BY <2>1, <2>2, <2>7 DEF Types
  <2>13. pc'[w] \in {"tx", "commit"}
    BY <2>12
  <2>14. ingest => m = 1
    BY <1>1, <1>i, <2>3 DEF Inv, Appends
  <2>15. Appends(w)'
    <3>1. m \in 1..m /\ (m = 1 => at'[w] = m) /\ 1 <= m
      BY <2>3, <2>12
    <3> QED
      BY <1>1, <2>1, <2>3, <2>12, <2>13, <2>14, <3>1 DEF Inv, Appends, Writing
  <2>16. Chain(w)'
    <3>1. 1 \in 1..1 /\ \A l \in {1} : l = 1
      OBVIOUS
    <3> QED
      BY <1>b, <2>1, <2>5, <2>6, <2>9, <2>12, <2>13, <3>1 DEF Chain
  <2>17. Stack(w)'
    <3>1. CASE ingest
      BY <2>12, <3>1 DEF Stack
    <3>2. CASE ~ingest
      BY <2>4, <2>5, <2>8, <2>9, <2>12, <3>2 DEF Stack
    <3> QED
      BY <3>1, <3>2
  <2>18. StoredBy(w)'
    BY <2>1, <2>7 DEF StoredBy
  <2>19. Placed(w)'
    <3>1. \A i \in 1..1 : i = 1
      OBVIOUS
    <3> QED
      BY <1>b, <2>1, <2>3, <2>9, <2>12, <2>13, <2>14, <3>1 DEF Placed
  <2>20. Evaluated(w)'
    <3>1. \A x \in bad[w] : x[2] # "stale" /\ (x[2] = "deep" => ~Direct(x[1]))
      BY DEF Inv, Evaluated
    <3>2. \A x \in stored \cup ToSet(chain'[w]) : x.by = w => x = b
      BY <2>7, <2>9, <2>12
    <3>3. ASSUME NEW tx \in BOOLEAN, Due(w, b, tx)', NEW p \in Triggered(w, b, tx)'
          PROVE  Waits(w, b, p)'
      <4>1. tx = TRUE /\ b.cmd.mode # "ingest"
        BY <2>5, <2>13, <3>3 DEF Due, Direct
      <4>2. ~ingest
        BY <1>i, <2>5, <4>1
      <4>3. p \in turn
        BY <1>t, <2>1, <3>3, <4>1 DEF Triggered
      <4> QED
        BY <2>8, <2>9, <2>12, <4>2, <4>3 DEF Waits
    <3>4. pc'[w] \in Writing => \A i \in DOMAIN pend[w] : pend[w][i].cmd.mode = "ingest"
      <4>1. ASSUME pc'[w] \in Writing, NEW i \in 1..m PROVE pend[w][i].cmd.mode = "ingest"
        <5>1. ingest
          BY <2>12, <4>1 DEF Writing
        <5>2. i \in 1..1
          BY <2>14, <4>1, <5>1
        <5>3. i = 1
          BY <5>2
        <5> QED
          BY <1>b, <1>i, <2>5, <5>1, <5>3
      <4> QED
        BY <2>3, <4>1
    <3> QED
      BY <2>1, <2>7, <2>13, <3>1, <3>2, <3>3, <3>4 DEF Evaluated
  <2> QED
    BY <2>10, <2>11, <2>15, <2>16, <2>17, <2>18, <2>19, <2>20 DEF Moves, Inv
<1> QED
  BY <1>2, <1>3

------------------------------------------------------------------------------
(* Policies.                                                                 *)

\* Policy p of batch b has been evaluated, with outcome o and perhaps a new batch d.  The
\* levels s are those there were, p done, and maybe one for d.
Levels(w, b, p, d, c, s) ==
  /\ \A i \in DOMAIN s :
       \/ \E j \in DOMAIN stack[w] : s[i].batch = stack[w][j].batch /\ s[i].left \subseteq stack[w][j].left
       \/ s[i].batch = d /\ s[i].left = Triggered(w, d, p.tx) /\ d \in ToSet(c)
  /\ \A j \in DOMAIN stack[w], q \in Policy : q \in stack[w][j].left =>
       \/ \E i \in DOMAIN s : s[i].batch = stack[w][j].batch /\ q \in s[i].left
       \/ stack[w][j].batch = b /\ q = p

\* The policies of d have a level, or it is too deep for them.
Follows(w, p, d, c, s, more) ==
  \/ c = chain[w]
  \/ \A q \in Triggered(w, d, p.tx) : \E i \in DOMAIN s : s[i].batch = d /\ q \in s[i].left
  \/ <<d, "deep">> \in more

\* What may come of a policy: d is last in the chain c and its target exists, or there
\* is no new batch; a failure that is not reported is no transactional policy's.
Outcome(w, p, d, o, c, more) ==
  /\ c = chain[w] \/ (c = Append(chain[w], d) /\ cat[w][p.target] # NoTable)
  /\ o = "rows" => d \in ToSet(c)
  /\ o = "failed" => ~p.tx
  /\ \A x \in more : x[2] # "stale" /\ (x[2] = "deep" => x[1] = d)

Changes(w, c, s, r, more) ==
  /\ chain' = [chain EXCEPT ![w] = c]
  /\ stack' = [stack EXCEPT ![w] = s]
  /\ ran' = [ran EXCEPT ![w] = ran[w] \cup {r}]
  /\ bad' = [bad EXCEPT ![w] = bad[w] \cup more]
  /\ UNCHANGED <<world, pc, script, cat, pol, pend, at>>

\* Batch b is being worked on, and p is a policy of the kind whose turn it is.
AtHand(w, b, p) ==
  b.by = w /\ (pc[w] = "tx" => b \in ToSet(chain[w])) /\ (p.tx <=> pc[w] = "tx")

LEMMA EvaluatedMoves ==
  ASSUME NEW w \in Writer, Types, Inv(w), pc[w] \in {"tx", "late"},
         NEW b \in Batch, NEW p \in Policy, AtHand(w, b, p),
         NEW d, d = Derive(b, p),
         NEW o \in {"rows", "none", "failed"}, NEW c, NEW s \in Seq(Level),
         NEW more, more \subseteq Trouble,
         Levels(w, b, p, d, c, s), Follows(w, p, d, c, s, more), Outcome(w, p, d, o, c, more),
         Changes(w, c, s, <<b, p, o>>, more)
  PROVE  Moves(w)
<1> DEFINE old == chain[w]
           n == Len(old)
<1>1. /\ stored' = stored /\ policies' = policies /\ pc' = pc /\ script' = script /\ cat' = cat
      /\ pol' = pol /\ pend' = pend /\ at' = at
  BY DEF Changes, world
<1>0. b.by = w /\ (pc[w] = "tx" => b \in ToSet(old)) /\ (p.tx <=> pc[w] = "tx")
  BY DEF AtHand
<1>o. /\ c = old \/ (c = Append(old, d) /\ cat[w][p.target] # NoTable)
      /\ o = "rows" => d \in ToSet(c)
      /\ o = "failed" => ~p.tx
      /\ \A x \in more : x[2] # "stale" /\ (x[2] = "deep" => x[1] = d)
  BY DEF Outcome
<1>2. /\ d \in Batch /\ d.by = w /\ ~Direct(d) /\ Last(d.via) = p /\ Parent(d) = b /\ TableOf(d) = p.target
      /\ d.cmd = b.cmd
  BY <1>0, DeriveIs
<1>3. old \in Seq(Batch) /\ DOMAIN old = 1..n /\ n \in Nat
  <2>1. old \in Seq(Batch)
    BY DEF Types
  <2> QED
    BY <2>1
<1>4. /\ c \in Seq(Batch)
      /\ \A k \in DOMAIN old : k \in DOMAIN c /\ c[k] = old[k]
      /\ \A k \in DOMAIN c : k \in DOMAIN old \/ (k = n + 1 /\ c[k] = d /\ cat[w][p.target] # NoTable)
      /\ ToSet(old) \subseteq ToSet(c)
      /\ \A x \in ToSet(c) : x \in ToSet(old) \/ (x = d /\ c # old)
      /\ DOMAIN c \subseteq Nat
  <2>1. CASE c = old
    BY <1>3, <2>1
  <2>2. CASE c = Append(old, d) /\ cat[w][p.target] # NoTable
    <3>1. /\ c \in Seq(Batch) /\ DOMAIN c = 1..(n + 1) /\ Len(c) = n + 1
          /\ \A k \in 1..n : c[k] = old[k] /\ k \in 1..(n + 1)
          /\ c[n + 1] = d
          /\ \A k \in 1..(n + 1) : k \in 1..n \/ k = n + 1
          /\ ToSet(c) = ToSet(old) \cup {d}
      BY <1>2, <1>3, <2>2, AppendIs
    <3>2. c # old
      BY <1>3, <3>1
    <3> QED
      BY <1>3, <2>2, <3>1, <3>2
  <2> QED
    BY <1>o, <2>1, <2>2
<1>5. /\ chain'[w] = c /\ stack'[w] = s
      /\ ran'[w] = ran[w] \cup {<<b, p, o>>} /\ bad'[w] = bad[w] \cup more
  BY DEF Types, Changes
<1>6. Types'
  <2>1. <<b, p, o>> \in Result
    BY DEF Result
  <2>2. ran[w] \cup {<<b, p, o>>} \in SUBSET Result /\ bad[w] \cup more \in SUBSET Trouble
    BY <2>1 DEF Types
  <2> QED
    BY <1>1, <1>4, <2>2 DEF Types, Changes
<1>7. \A v \in Writer \ {w} : Same(v) /\ WritesNone(v)
  BY <1>1 DEF Same, WritesNone, Types, Changes
<1>8. Appends(w)'
  BY <1>1 DEF Inv, Appends
<1>9. Chain(w)'
  <2>1. ASSUME NEW k \in DOMAIN old
        PROVE  /\ Between(old, k, Parent(old[k])) => Between(c, k, Parent(old[k]))
               /\ Direct(old[k]) /\ old[k].create => p.target # TableOf(old[k]) \/ cat[w][p.target] = NoTable
    <3>1. \A l \in 1..(k - 1) : l \in DOMAIN old
      BY <1>3
    <3> QED
      BY <1>4, <3>1 DEF Between, Inv, Chain
  <2>2. ASSUME pc[w] = "tx" PROVE Between(c, n + 1, b)
    <3>1. PICK l \in DOMAIN old : old[l] = b
      BY <1>0, <2>2 DEF ToSet
    <3>2. l \in 1..((n + 1) - 1)
      BY <1>3
    <3> QED
      BY <1>4, <3>1, <3>2 DEF Between
  <2>3. ASSUME NEW k \in DOMAIN c
        PROVE  /\ c[k].by = w
               /\ Direct(c[k]) => c[k].n \in 1..at[w] /\ c[k] = pend[w][c[k].n]
               /\ ~Direct(c[k]) => (Last(c[k].via).tx <=> pc[w] \in {"tx", "commit"})
               /\ pc[w] \in {"tx", "commit"} /\ ~Direct(c[k]) =>
                    Parent(c[k]) \in stored \/ Between(c, k, Parent(c[k]))
               /\ pc[w] = "tx" /\ ~Direct(c[k]) => cat[w][TableOf(c[k])] # NoTable
               /\ pc[w] \in {"late", "latecommit"} => ~Direct(c[k])
    <3>1. CASE k \in DOMAIN old
      BY <1>4, <2>1, <3>1 DEF Inv, Chain
    <3>2. CASE k = n + 1 /\ c[k] = d /\ cat[w][p.target] # NoTable
      BY <1>0, <1>2, <2>2, <3>2
    <3> QED
      BY <1>4, <3>1, <3>2
  <2>4. ASSUME NEW k \in DOMAIN c, Direct(c[k]) /\ c[k].create
        PROVE  /\ cat[w][TableOf(c[k])] = NoTable
               /\ \A l \in DOMAIN c : l # k => TableOf(c[l]) # TableOf(c[k])
    <3>1. k \in DOMAIN old /\ c[k] = old[k]
      BY <1>2, <1>4, <2>4
    <3>2. /\ cat[w][TableOf(old[k])] = NoTable
          /\ \A l \in DOMAIN old : l # k => TableOf(old[l]) # TableOf(old[k])
      BY <2>4, <3>1 DEF Inv, Chain
    <3>3. ASSUME NEW l \in DOMAIN c, l # k PROVE TableOf(c[l]) # TableOf(c[k])
      BY <1>2, <1>4, <3>1, <3>2, <3>3
    <3> QED
      BY <3>1, <3>2, <3>3
  <2> QED
    BY <1>1, <1>5, <2>3, <2>4 DEF Chain
<1>10. Stack(w)'
  <2>1. \A q \in Triggered(w, d, p.tx) : q.tx <=> pc[w] = "tx"
    BY <1>0 DEF Triggered
  <2>2. \A j \in DOMAIN stack[w] :
          /\ stack[w][j].batch.by = w
          /\ \A q \in stack[w][j].left : q.tx <=> pc[w] = "tx"
          /\ pc[w] = "tx" => stack[w][j].batch \in ToSet(old)
    BY DEF Inv, Stack
  <2>3. ASSUME NEW i \in DOMAIN s
        PROVE  /\ s[i].batch.by = w
               /\ \A q \in s[i].left : q.tx <=> pc[w] = "tx"
               /\ pc[w] = "tx" => s[i].batch \in ToSet(c)
    <3>1. CASE \E j \in DOMAIN stack[w] : s[i].batch = stack[w][j].batch /\ s[i].left \subseteq stack[w][j].left
      BY <1>4, <2>2, <3>1
    <3>2. CASE s[i].batch = d /\ s[i].left = Triggered(w, d, p.tx) /\ d \in ToSet(c)
      BY <1>2, <2>1, <3>2
    <3> QED
      BY <3>1, <3>2 DEF Levels
  <2> QED
    BY <1>1, <1>5, <2>3 DEF Stack
<1>11. StoredBy(w)'
  BY <1>1 DEF Inv, StoredBy
<1>12. Placed(w)'
  BY <1>1, <1>4, <1>5 DEF Inv, Placed
<1>13. Evaluated(w)'
  <2>1. \A x, q : Ran(w, x, q) => Ran(w, x, q)'
    BY <1>5 DEF Ran
  <2>2. Ran(w, b, p)'
    <3>1. <<b, p, o>> \in ran'[w] /\ <<b, p, o>>[1] = b /\ <<b, p, o>>[2] = p
      BY <1>5
    <3> QED
      BY <3>1 DEF Ran
  <2>3. ASSUME NEW x, NEW q \in Policy, Waits(w, x, q) PROVE Waits(w, x, q)' \/ Ran(w, x, q)'
    <3>1. PICK j \in DOMAIN stack[w] : stack[w][j].batch = x /\ q \in stack[w][j].left
      BY <2>3 DEF Waits
    <3> QED
      BY <1>5, <2>2, <3>1 DEF Waits, Levels
  <2>4. \A x \in bad'[w] : x[2] # "stale" /\ (x[2] = "deep" => ~Direct(x[1]))
    BY <1>2, <1>5, <1>o DEF Inv, Evaluated
  <2>5. \A r \in ran'[w] : r[2].tx /\ r[3] = "failed" => pc'[w] = "refused"
    <3>1. \A r \in ran[w] : r[2].tx /\ r[3] = "failed" => pc[w] = "refused"
      BY DEF Inv, Evaluated
    <3>2. <<b, p, o>>[2] = p /\ <<b, p, o>>[3] = o
      OBVIOUS
    <3>3. \A r \in ran'[w] : r \in ran[w] \/ r = <<b, p, o>>
      BY <1>5
    <3> QED
      BY <1>0, <1>1, <1>o, <3>1, <3>2, <3>3
  <2>6. ASSUME NEW r \in ran'[w], r[3] = "rows", NEW e, e = Derive(r[1], r[2])
        PROVE  e \in stored \cup ToSet(c) \/ <<e, "unwritten">> \in bad'[w]
    <3>1. CASE r \in ran[w]
      BY <1>4, <1>5, <2>6, <3>1 DEF Inv, Evaluated, Active
    <3>2. CASE r = <<b, p, o>>
      BY <1>o, <2>6, <3>2
    <3> QED
      BY <1>5, <3>1, <3>2
  <2>7. ASSUME NEW x \in stored \cup ToSet(c), NEW tx \in BOOLEAN, x.by = w, Due(w, x, tx),
               NEW q \in Triggered(w, x, tx)
        PROVE  Ran(w, x, q)' \/ <<x, "deep">> \in bad'[w] \/ Waits(w, x, q)'
    <3>1. q \in Policy
      BY DEF Triggered, Types
    <3>2. CASE x \in stored \cup ToSet(old)
      <4>1. Ran(w, x, q) \/ <<x, "deep">> \in bad[w] \/ Waits(w, x, q)
        BY <2>7, <3>2 DEF Inv, Evaluated, Active
      <4> QED
        BY <1>5, <2>1, <2>3, <3>1, <4>1
    <3>3. CASE x = d /\ c # old
      <4>1. tx = p.tx
        BY <1>2, <2>7, <3>3 DEF Due
      <4> QED
        BY <1>5, <3>3, <4>1 DEF Waits, Follows
    <3> QED
      BY <1>4, <3>2, <3>3
  <2>8. /\ \A x, tx : Due(w, x, tx)' <=> Due(w, x, tx)
        /\ \A x, tx : Triggered(w, x, tx)' = Triggered(w, x, tx)
    BY <1>1 DEF Due, Triggered
  <2>9. pc'[w] \in Writing =>
          \A i \in DOMAIN pend'[w] : pend'[w][i].cmd.mode # "ingest" =>
            \A q \in Triggered(w, pend[w][i], TRUE) : Ran(w, pend[w][i], q)'
    BY <1>1, <2>1 DEF Inv, Evaluated
  <2>10. \A r \in ran'[w] : r[3] = "rows" =>
           LET e == Derive(r[1], r[2])
           IN  e \in stored' \cup ToSet(chain'[w]) \/ <<e, "unwritten">> \in bad'[w]
    BY <1>1, <1>5, <2>6
  <2>11. pc'[w] \notin {"idle", "refresh", "prepare"}
    BY <1>1
  <2>12. \A x \in stored' \cup ToSet(chain'[w]), tx \in BOOLEAN : x.by = w /\ Due(w, x, tx)' =>
           \A q \in Triggered(w, x, tx)' :
             Ran(w, x, q)' \/ <<x, "deep">> \in bad'[w] \/ Waits(w, x, q)'
    BY <1>1, <1>5, <2>7, <2>8
  <2>13. \A i : Triggered(w, pend[w][i], TRUE)' = Triggered(w, pend[w][i], TRUE)
    BY <1>1 DEF Triggered, TableOf
  <2> QED
    BY <1>1, <2>4, <2>5, <2>9, <2>10, <2>11, <2>12, <2>13 DEF Evaluated
<1> QED
  BY <1>6, <1>7, <1>8, <1>9, <1>10, <1>11, <1>12, <1>13 DEF Moves, Inv

\* The level on top, with p done.
LEMMA TopIs ==
  ASSUME NEW w \in Writer, Types, Inv(w), pc[w] \in {"tx", "late"}, stack[w] # <<>>,
         NEW p \in Last(stack[w]).left, NEW b, b = Last(stack[w]).batch,
         NEW d, d = Derive(b, p), NEW c
  PROVE  /\ b \in Batch /\ p \in Policy /\ AtHand(w, b, p) /\ d \in Batch
         /\ stack[w] \in Seq(Level)
         /\ Rest(stack[w], p) \in Seq(Level) /\ Levels(w, b, p, d, c, Rest(stack[w], p))
<1> DEFINE old == stack[w]
           n == Len(old)
           s == Rest(old, p)
<1>1. old \in Seq(Level)
  BY DEF Types
<1>2. /\ s \in Seq(Level) /\ n \in Nat \ {0}
      /\ DOMAIN s = 1..n /\ DOMAIN old = 1..n
      /\ \A i \in 1..(n - 1) : s[i] = old[i]
      /\ \A i \in 1..n : i \in 1..(n - 1) \/ i = n
      /\ s[n].batch = old[n].batch
      /\ s[n].left = old[n].left \ {p}
      /\ Last(old) = old[n] /\ Last(old) \in Level
  BY <1>1, RestIs
<1>3. n \in 1..n
  BY <1>2
<1>4. b \in Batch /\ p \in Policy
  BY <1>2 DEF Level
<1>5. AtHand(w, b, p)
  BY <1>2, <1>3 DEF Inv, Stack, AtHand
<1>6. d \in Batch
  BY <1>4, DeriveIs
<1> HIDE DEF s, n
<1>7. \A i \in DOMAIN s :
        \E j \in DOMAIN old : s[i].batch = old[j].batch /\ s[i].left \subseteq old[j].left
  <2>1. \A i \in 1..n : s[i].batch = old[i].batch /\ s[i].left \subseteq old[i].left
    BY <1>2
  <2> QED
    BY <1>2, <2>1
<1>8. \A j \in DOMAIN old, q \in Policy : q \in old[j].left =>
        \/ \E i \in DOMAIN s : s[i].batch = old[j].batch /\ q \in s[i].left
        \/ old[j].batch = b /\ q = p
  <2>1. \A j \in 1..n, q \in Policy : q \in old[j].left =>
          \/ s[j].batch = old[j].batch /\ q \in s[j].left
          \/ old[j].batch = b /\ q = p
    BY <1>2
  <2> QED
    BY <1>2, <2>1
<1>9. Levels(w, b, p, d, c, s)
  BY <1>7, <1>8 DEF Levels
<1> QED
  BY <1>1, <1>2, <1>4, <1>5, <1>6, <1>9 DEF s

LEMMA GivesRowsMoves ==
  ASSUME NEW w \in Writer, Types, Inv(w), pc[w] \in {"tx", "late"}, stack[w] # <<>>,
         NEW p \in Last(stack[w]).left, PolicyGivesRows(w, p)
  PROVE  Moves(w)
<1>b. PICK b : b = Last(stack[w]).batch
  OBVIOUS
<1>d. PICK d : d = Derive(b, p)
  OBVIOUS
<1>c. PICK c : c = Append(chain[w], d)
  OBVIOUS
<1>r. PICK rest : rest = Rest(stack[w], p)
  OBVIOUS
<1>l. PICK level : level = [batch |-> d, left |-> Triggered(w, d, p.tx)]
  OBVIOUS
<1>s. PICK s : s = Append(rest, level)
  OBVIOUS
<1>m. PICK more : more = {}
  OBVIOUS
<1>1. /\ cat[w][p.target] # NoTable
      /\ chain' = [chain EXCEPT ![w] = c]
      /\ stack' = [stack EXCEPT ![w] = s]
      /\ ran' = [ran EXCEPT ![w] = ran[w] \cup {<<b, p, "rows">>}]
      /\ bad' = bad
      /\ UNCHANGED <<world, pc, script, cat, pol, pend, at>>
  BY <1>b, <1>d, <1>c, <1>r, <1>l, <1>s DEF PolicyGivesRows
<1>2. /\ b \in Batch /\ p \in Policy /\ AtHand(w, b, p) /\ d \in Batch
      /\ rest \in Seq(Level) /\ Levels(w, b, p, d, c, rest)
  BY <1>b, <1>d, <1>r, TopIs
<1>3. Triggered(w, d, p.tx) \in SUBSET Policy
  BY DEF Triggered, Types
<1>4. level \in Level /\ level.batch = d /\ level.left = Triggered(w, d, p.tx)
  BY <1>l, <1>2, <1>3 DEF Level
<1>5. chain[w] \in Seq(Batch)
  BY DEF Types
<1>6. d \in ToSet(c)
  BY <1>c, <1>2, <1>5, AppendIs
<1> DEFINE n == Len(rest)
<1>7. /\ s \in Seq(Level) /\ n \in Nat
      /\ DOMAIN s = 1..(n + 1) /\ DOMAIN rest = 1..n
      /\ \A i \in 1..n : s[i] = rest[i]
      /\ s[n + 1] = level
      /\ \A i \in 1..(n + 1) : i \in 1..n \/ i = n + 1
      /\ \A i \in 1..n : i \in 1..(n + 1)
      /\ n + 1 \in 1..(n + 1)
  BY <1>s, <1>2, <1>4, AppendIs
<1> HIDE DEF n
<1>8. Levels(w, b, p, d, c, s)
  <2>1. \A i \in DOMAIN s :
          \/ \E j \in DOMAIN stack[w] : s[i].batch = stack[w][j].batch /\ s[i].left \subseteq stack[w][j].left
          \/ s[i].batch = d /\ s[i].left = Triggered(w, d, p.tx) /\ d \in ToSet(c)
    <3>1. TAKE i \in DOMAIN s
    <3>2. CASE i \in 1..n
      BY <1>2, <1>7, <3>2 DEF Levels
    <3>3. CASE i = n + 1
      BY <1>4, <1>6, <1>7, <3>3
    <3> QED
      BY <1>7, <3>2, <3>3
  <2>2. \A j \in DOMAIN stack[w], q \in Policy : q \in stack[w][j].left =>
          \/ \E i \in DOMAIN s : s[i].batch = stack[w][j].batch /\ q \in s[i].left
          \/ stack[w][j].batch = b /\ q = p
    BY <1>2, <1>7 DEF Levels
  <2> QED
    BY <2>1, <2>2 DEF Levels
<1>9. Follows(w, p, d, c, s, more)
  BY <1>4, <1>7 DEF Follows
<1>10. Outcome(w, p, d, "rows", c, more)
  BY <1>c, <1>m, <1>1, <1>6 DEF Outcome
<1>11. bad' = [bad EXCEPT ![w] = bad[w] \cup more]
  BY <1>m, <1>1 DEF Types
<1>12. Changes(w, c, s, <<b, p, "rows">>, more)
  BY <1>1, <1>11 DEF Changes
<1>13. more \subseteq Trouble /\ "rows" \in {"rows", "none", "failed"}
  BY <1>m
<1> QED
  BY <1>d, <1>2, <1>7, <1>8, <1>9, <1>10, <1>12, <1>13, EvaluatedMoves

LEMMA GivesNoneMoves ==
  ASSUME NEW w \in Writer, Types, Inv(w), pc[w] \in {"tx", "late"}, stack[w] # <<>>,
         NEW p \in Last(stack[w]).left, PolicyGivesNone(w, p)
  PROVE  Moves(w)
<1>b. PICK b : b = Last(stack[w]).batch
  OBVIOUS
<1>d. PICK d : d = Derive(b, p)
  OBVIOUS
<1>c. PICK c : c = chain[w]
  OBVIOUS
<1>s. PICK s : s = Rest(stack[w], p)
  OBVIOUS
<1>m. PICK more : more = {}
  OBVIOUS
<1>1. /\ stack' = [stack EXCEPT ![w] = s]
      /\ ran' = [ran EXCEPT ![w] = ran[w] \cup {<<b, p, "none">>}]
      /\ bad' = bad /\ chain' = chain
      /\ UNCHANGED <<world, pc, script, cat, pol, pend, at>>
  BY <1>b, <1>s DEF PolicyGivesNone
<1>2. /\ b \in Batch /\ p \in Policy /\ AtHand(w, b, p)
      /\ s \in Seq(Level) /\ Levels(w, b, p, d, c, s)
  BY <1>b, <1>d, <1>s, TopIs
<1>3. Follows(w, p, d, c, s, more) /\ Outcome(w, p, d, "none", c, more)
  BY <1>c, <1>m DEF Follows, Outcome
<1>4. bad' = [bad EXCEPT ![w] = bad[w] \cup more] /\ chain' = [chain EXCEPT ![w] = c]
  BY <1>c, <1>m, <1>1 DEF Types
<1>5. Changes(w, c, s, <<b, p, "none">>, more)
  BY <1>1, <1>4 DEF Changes
<1>6. more \subseteq Trouble /\ "none" \in {"rows", "none", "failed"}
  BY <1>m
<1> QED
  BY <1>d, <1>2, <1>3, <1>5, <1>6, EvaluatedMoves

LEMMA FailsMoves ==
  ASSUME NEW w \in Writer, Types, Inv(w), pc[w] \in {"tx", "late"}, stack[w] # <<>>,
         NEW p \in Last(stack[w]).left, PolicyFails(w, p)
  PROVE  Moves(w)
<1>b. PICK b : b = Last(stack[w]).batch
  OBVIOUS
<1>d. PICK d : d = Derive(b, p)
  OBVIOUS
<1>c. PICK c : c = chain[w]
  OBVIOUS
<1>s. PICK s : s = Rest(stack[w], p)
  OBVIOUS
<1>m. PICK more : more = {<<d, "failed">>}
  OBVIOUS
<1>1. /\ ran' = [ran EXCEPT ![w] = ran[w] \cup {<<b, p, "failed">>}]
      /\ UNCHANGED <<world, script, cat, pol, pend, at>>
      /\ p.tx => /\ pc' = [pc EXCEPT ![w] = "refused"]
                 /\ chain' = [chain EXCEPT ![w] = <<>>]
                 /\ stack' = [stack EXCEPT ![w] = <<>>]
                 /\ bad' = bad
      /\ ~p.tx => /\ stack' = [stack EXCEPT ![w] = s]
                  /\ bad' = [bad EXCEPT ![w] = bad[w] \cup more]
                  /\ pc' = pc /\ chain' = chain
  BY <1>b, <1>d, <1>s, <1>m DEF PolicyFails
<1>2. /\ b \in Batch /\ p \in Policy /\ AtHand(w, b, p) /\ d \in Batch
      /\ s \in Seq(Level) /\ Levels(w, b, p, d, c, s)
  BY <1>b, <1>d, <1>s, TopIs
<1>3. CASE p.tx
  <2>1. pc[w] = "tx"
    BY <1>2, <1>3 DEF AtHand
  <2>2. {<<b, p, "failed">>} \in SUBSET Result
    BY <1>2 DEF Result
  <2> QED
    BY <1>1, <1>3, <2>1, <2>2, RefusalMoves
<1>4. CASE ~p.tx
  <2>1. Follows(w, p, d, c, s, more)
    BY <1>c DEF Follows
  <2>2. \A x \in more : x[2] = "failed"
    BY <1>m
  <2>3. Outcome(w, p, d, "failed", c, more)
    BY <1>c, <1>4, <2>2 DEF Outcome
  <2>4. chain' = [chain EXCEPT ![w] = c]
    BY <1>c, <1>1, <1>4 DEF Types
  <2>5. Changes(w, c, s, <<b, p, "failed">>, more)
    BY <1>1, <1>4, <2>4 DEF Changes
  <2>6. more \subseteq Trouble /\ "failed" \in {"rows", "none", "failed"}
    BY <1>m, <1>2 DEF Trouble
  <2> QED
    BY <1>d, <1>2, <2>1, <2>3, <2>5, <2>6, EvaluatedMoves
<1> QED
  BY <1>3, <1>4

LEMMA TooDeepMoves ==
  ASSUME NEW w \in Writer, Types, Inv(w), pc[w] \in {"tx", "late"}, stack[w] # <<>>,
         NEW p \in Last(stack[w]).left, PolicyTooDeep(w, p)
  PROVE  Moves(w)
<1>1. CASE p.tx
  BY <1>1, FailsMoves DEF PolicyTooDeep
<1>2. CASE ~p.tx
  <2>b. PICK b : b = Last(stack[w]).batch
    OBVIOUS
  <2>d. PICK d : d = Derive(b, p)
    OBVIOUS
  <2>c. PICK c : c = Append(chain[w], d)
    OBVIOUS
  <2>s. PICK s : s = Rest(stack[w], p)
    OBVIOUS
  <2>m. PICK more : more = {<<d, "deep">>}
    OBVIOUS
  <2>1. /\ cat[w][p.target] # NoTable
        /\ chain' = [chain EXCEPT ![w] = c]
        /\ stack' = [stack EXCEPT ![w] = s]
        /\ ran' = [ran EXCEPT ![w] = ran[w] \cup {<<b, p, "rows">>}]
        /\ bad' = [bad EXCEPT ![w] = bad[w] \cup more]
        /\ UNCHANGED <<world, pc, script, cat, pol, pend, at>>
    BY <1>2, <2>b, <2>d, <2>c, <2>s, <2>m DEF PolicyTooDeep
  <2>2. /\ b \in Batch /\ p \in Policy /\ AtHand(w, b, p) /\ d \in Batch
        /\ s \in Seq(Level) /\ Levels(w, b, p, d, c, s)
    BY <2>b, <2>d, <2>s, TopIs
  <2>3. chain[w] \in Seq(Batch)
    BY DEF Types
  <2>4. d \in ToSet(c)
    BY <2>c, <2>2, <2>3, AppendIs
  <2>5. \A x \in more : x[2] = "deep" /\ x[1] = d
    BY <2>m
  <2>6. Follows(w, p, d, c, s, more)
    BY <2>m DEF Follows
  <2>7. Outcome(w, p, d, "rows", c, more)
    BY <2>c, <2>1, <2>4, <2>5 DEF Outcome
  <2>8. Changes(w, c, s, <<b, p, "rows">>, more)
    BY <2>1 DEF Changes
  <2>9. more \subseteq Trouble /\ "rows" \in {"rows", "none", "failed"}
    BY <2>m, <2>2 DEF Trouble
  <2> QED
    BY <2>d, <2>2, <2>6, <2>7, <2>8, <2>9, EvaluatedMoves
<1> QED
  BY <1>1, <1>2

LEMMA EvaluateMoves ==
  ASSUME NEW w \in Writer, Types, Inv(w), Evaluate(w)
  PROVE  Moves(w)
BY GivesRowsMoves, GivesNoneMoves, FailsMoves, TooDeepMoves DEF Evaluate

\* A level whose policies have all been evaluated is left.
LEMMA ReturnMoves ==
  ASSUME NEW w \in Writer, Types, Inv(w), Return(w)
  PROVE  Moves(w)
<1>s. PICK s : s = Front(stack[w])
  OBVIOUS
<1>1. /\ pc[w] \in {"tx", "late"} /\ stack[w] # <<>> /\ Last(stack[w]).left = {}
      /\ stack' = [stack EXCEPT ![w] = s]
      /\ stored' = stored /\ policies' = policies /\ pc' = pc /\ script' = script /\ cat' = cat
      /\ pol' = pol /\ pend' = pend /\ chain' = chain /\ at' = at /\ ran' = ran /\ bad' = bad
  BY <1>s DEF Return, world
<1> DEFINE old == stack[w]
           n == Len(old)
<1>2. old \in Seq(Level)
  BY DEF Types
<1>3. /\ s \in Seq(Level) /\ DOMAIN s = 1..(n - 1) /\ DOMAIN old = 1..n
      /\ \A i \in 1..(n - 1) : s[i] = old[i] /\ i \in 1..n
      /\ \A i \in 1..n : i \in 1..(n - 1) \/ i = n
      /\ Last(old) = old[n]
  BY <1>s, <1>1, <1>2, FrontIs
<1> HIDE DEF n
<1>4. Types'
  BY <1>1, <1>3 DEF Types
<1>5. \A v \in Writer \ {w} : Same(v) /\ WritesNone(v)
  BY <1>1 DEF Same, WritesNone, Types
<1>6. stack'[w] = s
  BY <1>1 DEF Types
<1>7. Appends(w)' /\ StoredBy(w)' /\ Placed(w)'
  BY <1>1 DEF Inv, Appends, StoredBy, Placed
<1>8. Chain(w)'
  BY <1>1 DEF Inv, Chain, Between
<1>9. Stack(w)'
  <2>1. \A i \in DOMAIN old :
          /\ old[i].batch.by = w
          /\ \A q \in old[i].left : q.tx <=> pc[w] = "tx"
          /\ pc[w] = "tx" => old[i].batch \in ToSet(chain[w])
    BY DEF Inv, Stack
  <2>2. ASSUME NEW i \in 1..(n - 1)
        PROVE  /\ s[i].batch.by = w
               /\ \A q \in s[i].left : q.tx <=> pc[w] = "tx"
               /\ pc[w] = "tx" => s[i].batch \in ToSet(chain[w])
    <3>1. s[i] = old[i] /\ i \in DOMAIN old
      BY <1>3
    <3> HIDE DEF old
    <3> QED
      BY <2>1, <3>1
  <2> HIDE DEF old
  <2> QED
    BY <1>1, <1>3, <1>6, <2>2 DEF Stack
<1>10. Evaluated(w)'
  <2>1. \A x, q : Waits(w, x, q) => Waits(w, x, q)'
    BY <1>1, <1>3, <1>6 DEF Waits
  <2>2. /\ \A x, q : Ran(w, x, q)' <=> Ran(w, x, q)
        /\ \A x, tx : Due(w, x, tx)' <=> Due(w, x, tx)
        /\ \A x, tx : Triggered(w, x, tx)' = Triggered(w, x, tx)
    BY <1>1 DEF Ran, Due, Triggered
  <2> QED
    BY <1>1, <2>1, <2>2 DEF Inv, Evaluated
<1> QED
  BY <1>4, <1>5, <1>7, <1>8, <1>9, <1>10 DEF Moves, Inv

\* Where the evaluation of an append's transactional policies has ended, no policy waits.
LEMMA NextAppendMoves ==
  ASSUME NEW w \in Writer, Types, Inv(w), NextAppend(w)
  PROVE  Moves(w)
<1> DEFINE old == chain[w]
           n == Len(old)
           m == Len(pend[w])
<1>1. /\ pc[w] = "tx" /\ stack[w] = <<>>
      /\ stored' = stored /\ policies' = policies /\ script' = script /\ cat' = cat
      /\ pol' = pol /\ pend' = pend /\ ran' = ran /\ bad' = bad
  BY DEF NextAppend, world
<1>2. /\ pend[w] \in Seq(Batch) /\ DOMAIN pend[w] = 1..m /\ m \in Nat
      /\ at[w] \in 1..m /\ old \in Seq(Batch) /\ DOMAIN old = 1..n /\ n \in Nat
  <2>1. pend[w] \in Seq(Batch) /\ old \in Seq(Batch)
    BY DEF Types
  <2>2. at[w] \in 1..m
    BY <1>1 DEF Inv, Appends
  <2> QED
    BY <2>1, <2>2
<1>3. \A x, q : ~Waits(w, x, q)
  BY <1>1 DEF Waits
<1>4. \A x \in stored : x.by # w
  BY <1>1 DEF Inv, StoredBy, Writing
<1>5. \A i \in 1..m : /\ pend[w][i].by = w /\ pend[w][i].n = i /\ pend[w][i].via = <<>>
                      /\ Direct(pend[w][i]) /\ TableOf(pend[w][i]) = pend[w][i].cmd.table
                      /\ pend[w][i].create => cat[w][pend[w][i].cmd.table] = NoTable
  BY <1>1, <1>2 DEF Inv, Appends, Direct, TableOf
<1>6. \A x, tx : Triggered(w, x, tx)' = Triggered(w, x, tx)
  BY <1>1 DEF Triggered
<1>7. CASE at[w] < Prepared(w)
  <2>b. PICK b : b = pend[w][at[w] + 1]
    OBVIOUS
  <2>t. PICK turn : turn = Triggered(w, b, TRUE)
    OBVIOUS
  <2>l. PICK level : level = [batch |-> b, left |-> turn]
    OBVIOUS
  <2>c. PICK c : c = Append(old, b)
    OBVIOUS
  <2>1. /\ at' = [at EXCEPT ![w] = at[w] + 1]
        /\ chain' = [chain EXCEPT ![w] = c]
        /\ stack' = [stack EXCEPT ![w] = <<level>>]
        /\ pc' = pc
    BY <1>7, <2>b, <2>t, <2>l, <2>c DEF NextAppend
  <2>2. at[w] \in Nat /\ at[w] + 1 \in 1..m /\ \A i \in 1..at[w] : i \in 1..(at[w] + 1) /\ i # at[w] + 1
    BY <1>2, <1>7 DEF Prepared
  <2>3. b \in Batch
    BY <1>2, <2>2, <2>b
  <2>4. turn \in SUBSET Policy /\ \A q \in turn : q.tx
    BY <2>t DEF Triggered, Types
  <2>5. level \in Level /\ level.batch = b /\ level.left = turn
    BY <2>3, <2>4, <2>l DEF Level
  <2>6. <<level>> \in Seq(Level) /\ DOMAIN <<level>> = {1} /\ <<level>>[1] = level
    BY <2>5
  <2>7. /\ c \in Seq(Batch) /\ DOMAIN c = 1..(n + 1)
        /\ \A k \in 1..n : c[k] = old[k] /\ k \in 1..(n + 1)
        /\ c[n + 1] = b
        /\ \A k \in 1..(n + 1) : k \in 1..n \/ k = n + 1
        /\ ToSet(c) = ToSet(old) \cup {b}
    BY <1>2, <2>3, <2>c, AppendIs
  <2>8. /\ b.by = w /\ b.n = at[w] + 1 /\ Direct(b) /\ TableOf(b) = b.cmd.table /\ b = pend[w][b.n]
        /\ b.create => cat[w][b.cmd.table] = NoTable
    BY <1>5, <2>2, <2>b
  <2>9. Types'
    <3>1. at' \in [Writer -> Nat]
      BY <2>1, <2>2 DEF Types
    <3>2. chain' \in [Writer -> Seq(Batch)] /\ stack' \in [Writer -> Seq(Level)]
      BY <2>1, <2>6, <2>7 DEF Types
    <3> QED
      BY <1>1, <2>1, <3>1, <3>2 DEF Types
  <2>10. \A v \in Writer \ {w} : Same(v) /\ WritesNone(v)
    BY <1>1, <2>1 DEF Same, WritesNone, Types
  <2>11. at'[w] = at[w] + 1 /\ chain'[w] = c /\ stack'[w] = <<level>>
    BY <2>1 DEF Types
  <2>12. Appends(w)'
    BY <1>1, <2>1, <2>2, <2>11 DEF Inv, Appends, Writing
  <2> HIDE DEF n, m
  <2>13. Chain(w)'
    <3>1. ASSUME NEW k \in 1..n, Between(old, k, Parent(old[k])) PROVE Between(c, k, Parent(old[k]))
      <4>1. \A l \in 1..(k - 1) : l \in 1..n
        BY <1>2
      <4> QED
        BY <2>7, <3>1, <4>1 DEF Between
    <3>2. ASSUME NEW k \in 1..(n + 1)
          PROVE  /\ c[k].by = w
                 /\ Direct(c[k]) => c[k].n \in 1..at'[w] /\ c[k] = pend[w][c[k].n]
                 /\ ~Direct(c[k]) => Last(c[k].via).tx
                 /\ ~Direct(c[k]) => Parent(c[k]) \in stored \/ Between(c, k, Parent(c[k]))
                 /\ ~Direct(c[k]) => cat[w][TableOf(c[k])] # NoTable
      <4>1. CASE k \in 1..n
        <5>1. /\ old[k].by = w
              /\ Direct(old[k]) => old[k].n \in 1..at[w] /\ old[k] = pend[w][old[k].n]
              /\ ~Direct(old[k]) => Last(old[k].via).tx
              /\ ~Direct(old[k]) => Parent(old[k]) \in stored \/ Between(old, k, Parent(old[k]))
              /\ ~Direct(old[k]) => cat[w][TableOf(old[k])] # NoTable
          BY <1>1, <1>2, <4>1 DEF Inv, Chain
        <5>2. \A i \in 1..at[w] : i \in 1..at'[w]
          BY <2>2, <2>11
        <5>3. c[k] = old[k]
          BY <2>7, <4>1
        <5> QED
          BY <3>1, <4>1, <5>1, <5>2, <5>3
      <4>2. CASE k = n + 1
        <5>1. at[w] + 1 \in 1..at'[w]
          BY <2>2, <2>11
        <5> QED
          BY <2>7, <2>8, <4>2, <5>1
      <4> QED
        BY <2>7, <4>1, <4>2
    <3>3. ASSUME NEW k \in 1..n, Direct(old[k])
          PROVE  /\ old[k] = pend[w][old[k].n] /\ old[k].n \in 1..m /\ old[k].n # at[w] + 1
                 /\ TableOf(old[k]) = old[k].cmd.table
      <4>1. old[k].n \in 1..at[w] /\ old[k] = pend[w][old[k].n]
        BY <1>2, <3>3 DEF Inv, Chain
      <4>2. old[k].n \in 1..m
        BY <1>2, <4>1
      <4> QED
        BY <1>5, <2>2, <4>1, <4>2
    <3>4. \A i, j \in 1..m : i # j /\ pend[w][i].create => pend[w][i].cmd.table # pend[w][j].cmd.table
      BY <1>2 DEF Inv, Appends
    <3>5. ASSUME NEW k \in 1..n
          PROVE  /\ b.create => TableOf(old[k]) # TableOf(b)
                 /\ Direct(old[k]) /\ old[k].create => TableOf(old[k]) # TableOf(b)
      <4>1. CASE Direct(old[k])
        BY <2>2, <2>8, <3>3, <3>4, <4>1
      <4>2. CASE ~Direct(old[k])
        BY <1>1, <1>2, <2>8, <4>2 DEF Inv, Chain
      <4> QED
        BY <4>1, <4>2
    <3>6. ASSUME NEW k \in 1..(n + 1), Direct(c[k]) /\ c[k].create
          PROVE  /\ cat[w][TableOf(c[k])] = NoTable
                 /\ \A l \in 1..(n + 1) : l # k => TableOf(c[l]) # TableOf(c[k])
      <4>1. CASE k \in 1..n
        <5>1. /\ cat[w][TableOf(old[k])] = NoTable
              /\ \A l \in 1..n : l # k => TableOf(old[l]) # TableOf(old[k])
          BY <1>2, <2>7, <3>6, <4>1 DEF Inv, Chain
        <5> QED
          BY <2>7, <3>5, <3>6, <4>1, <5>1
      <4>2. CASE k = n + 1
        BY <2>7, <2>8, <3>5, <3>6, <4>2
      <4> QED
        BY <2>7, <4>1, <4>2
    <3>7. pc'[w] = "tx" /\ DOMAIN chain'[w] = 1..(n + 1) /\ chain'[w] = c /\ cat'[w] = cat[w] /\ stored' = stored
      BY <1>1, <2>1, <2>7, <2>11
    <3>8. \A k \in 1..(n + 1) :
            /\ c[k].by = w
            /\ Direct(c[k]) => c[k].n \in 1..at'[w] /\ c[k] = pend'[w][c[k].n]
            /\ ~Direct(c[k]) => (Last(c[k].via).tx <=> pc'[w] \in {"tx", "commit"})
            /\ ~Direct(c[k]) => Parent(c[k]) \in stored' \/ Between(c, k, Parent(c[k]))
            /\ ~Direct(c[k]) => cat'[w][TableOf(c[k])] # NoTable
      BY <1>1, <3>2, <3>7
    <3>9. \A k \in 1..(n + 1) : Direct(c[k]) /\ c[k].create =>
            /\ cat'[w][TableOf(c[k])] = NoTable
            /\ \A l \in 1..(n + 1) : l # k => TableOf(c[l]) # TableOf(c[k])
      BY <3>6, <3>7
    <3> QED
      BY <3>7, <3>8, <3>9 DEF Chain
  <2>14. Stack(w)'
    BY <1>1, <2>1, <2>4, <2>5, <2>6, <2>7, <2>8, <2>11 DEF Stack
  <2>15. StoredBy(w)'
    BY <1>1, <1>4 DEF StoredBy
  <2>16. Placed(w)'
    <3>1. \A i \in 1..(at[w] + 1) : i \in 1..at[w] \/ i = at[w] + 1
      BY <2>2
    <3>2. \A i \in 1..at[w] : pend[w][i] \in ToSet(old)
      BY <1>1 DEF Inv, Placed
    <3>3. \A i \in 1..at'[w] : pend[w][i] \in ToSet(c)
      BY <2>7, <2>11, <2>b, <3>1, <3>2
    <3> QED
      BY <1>1, <2>1, <2>11, <3>3 DEF Placed
  <2>17. Evaluated(w)'
    <3>1. \A x, q : Ran(w, x, q)' <=> Ran(w, x, q)
      BY <1>1 DEF Ran
    <3>2. \A q \in turn : Waits(w, b, q)'
      BY <2>5, <2>6, <2>11 DEF Waits
    <3>3. ASSUME NEW x \in ToSet(c), NEW tx \in BOOLEAN, Due(w, x, tx)', NEW q \in Triggered(w, x, tx)
          PROVE  Ran(w, x, q) \/ <<x, "deep">> \in bad[w] \/ Waits(w, x, q)'
      <4>1. CASE x = b
        <5>1. tx = TRUE
          BY <1>1, <2>1, <2>8, <3>3, <4>1 DEF Due
        <5> QED
          BY <2>t, <3>2, <3>3, <4>1, <5>1
      <4>2. CASE x \in ToSet(old)
        <5>1. Due(w, x, tx) /\ x.by = w
          <6>1. Due(w, x, tx)
            BY <1>1, <2>1, <3>3 DEF Due
          <6>2. PICK k \in DOMAIN old : x = old[k]
            BY <4>2 DEF ToSet
          <6> QED
            BY <6>1, <6>2 DEF Inv, Chain
        <5> QED
          BY <1>1, <1>3, <3>3, <4>2, <5>1 DEF Inv, Evaluated, Active
      <4> QED
        BY <2>7, <4>1, <4>2
    <3>4. \A x \in stored' \cup ToSet(chain'[w]), tx \in BOOLEAN : x.by = w /\ Due(w, x, tx)' =>
            \A q \in Triggered(w, x, tx)' : Ran(w, x, q)' \/ <<x, "deep">> \in bad'[w] \/ Waits(w, x, q)'
      BY <1>1, <1>4, <1>6, <2>11, <3>1, <3>3
    <3>5. \A r \in ran[w] : r[3] = "rows" =>
            LET e == Derive(r[1], r[2])
            IN  e \in stored \cup ToSet(old) \/ <<e, "unwritten">> \in bad[w]
      BY <1>1 DEF Inv, Evaluated, Active
    <3>6. \A r \in ran'[w] : r[3] = "rows" =>
            LET e == Derive(r[1], r[2])
            IN  e \in stored' \cup ToSet(chain'[w]) \/ <<e, "unwritten">> \in bad'[w]
      BY <1>1, <2>7, <2>11, <3>5
    <3>7. /\ \A r \in ran'[w] : r[2].tx /\ r[3] = "failed" => pc'[w] = "refused"
          /\ \A x \in bad'[w] : x[2] # "stale" /\ (x[2] = "deep" => ~Direct(x[1]))
      BY <1>1, <2>1 DEF Inv, Evaluated
    <3>8. pc'[w] = "tx"
      BY <1>1, <2>1
    <3> QED
      BY <3>4, <3>6, <3>7, <3>8 DEF Evaluated, Writing
  <2> QED
    BY <2>9, <2>10, <2>12, <2>13, <2>14, <2>15, <2>16, <2>17 DEF Moves, Inv
<1>8. CASE ~(at[w] < Prepared(w))
  <2>1. pc' = [pc EXCEPT ![w] = "commit"] /\ at' = at /\ chain' = chain /\ stack' = stack
    BY <1>8 DEF NextAppend
  <2>2. at[w] = m
    BY <1>2, <1>8 DEF Prepared
  <2>3. pc'[w] = "commit"
    BY <2>1 DEF Types
  <2>4. Types'
    BY <1>1, <2>1 DEF Types, PC
  <2>5. \A v \in Writer \ {w} : Same(v) /\ WritesNone(v)
    BY <1>1, <2>1 DEF Same, WritesNone, Types
  <2> HIDE DEF n
  <2>6. Appends(w)'
    BY <1>1, <2>1, <2>2, <2>3 DEF Inv, Appends, Writing
  <2>7. Chain(w)'
    BY <1>1, <2>1, <2>3 DEF Inv, Chain, Between
  <2>8. Stack(w)' /\ StoredBy(w)'
    BY <1>1, <1>4, <2>1, <2>3 DEF Stack, StoredBy
  <2>9. \A i \in 1..m : pend[w][i] \in ToSet(old)
    BY <1>1, <2>2 DEF Inv, Placed
  <2>10. Placed(w)'
    BY <1>1, <1>2, <2>1, <2>3, <2>9 DEF Placed
  <2>11. Evaluated(w)'
    <3>1. /\ \A x, q : Ran(w, x, q)' <=> Ran(w, x, q)
          /\ \A x, tx : Due(w, x, tx)' => Due(w, x, tx)
      BY <1>1, <2>1, <2>3 DEF Ran, Due
    <3>2. ASSUME NEW x \in stored \cup ToSet(old), NEW tx \in BOOLEAN, x.by = w, Due(w, x, tx),
                 NEW q \in Triggered(w, x, tx)
          PROVE  Ran(w, x, q) \/ <<x, "deep">> \in bad[w]
      BY <1>1, <1>3, <3>2 DEF Inv, Evaluated, Active
    <3>3. ASSUME NEW i \in 1..m, pend[w][i].cmd.mode # "ingest", NEW q \in Triggered(w, pend[w][i], TRUE)
          PROVE  Ran(w, pend[w][i], q)
      <4>x. PICK x : x = pend[w][i]
        OBVIOUS
      <4>1. x \in ToSet(old) /\ x.by = w /\ Direct(x) /\ x.cmd.mode # "ingest"
        BY <1>5, <2>9, <3>3, <4>x
      <4>2. Due(w, x, TRUE)
        BY <4>1 DEF Due
      <4>3. Ran(w, x, q) \/ <<x, "deep">> \in bad[w]
        BY <3>2, <3>3, <4>1, <4>2, <4>x
      <4>4. <<x, "deep">> \notin bad[w]
        <5>1. \A y \in bad[w] : y[2] = "deep" => ~Direct(y[1])
          BY DEF Inv, Evaluated
        <5>2. <<x, "deep">>[1] = x /\ <<x, "deep">>[2] = "deep"
          OBVIOUS
        <5> QED
          BY <4>1, <5>1, <5>2
      <4> QED
        BY <4>3, <4>4, <4>x
    <3>4. \A i \in DOMAIN pend'[w] : pend'[w][i].cmd.mode # "ingest" =>
            \A q \in Triggered(w, pend[w][i], TRUE) : Ran(w, pend[w][i], q)'
      BY <1>1, <1>2, <3>1, <3>3
    <3>5. \A x \in stored' \cup ToSet(chain'[w]), tx \in BOOLEAN : x.by = w /\ Due(w, x, tx)' =>
            \A q \in Triggered(w, x, tx)' : Ran(w, x, q)' \/ <<x, "deep">> \in bad'[w] \/ Waits(w, x, q)'
      BY <1>1, <1>6, <2>1, <3>1, <3>2
    <3>6. \A r \in ran'[w] : r[3] = "rows" =>
            LET e == Derive(r[1], r[2])
            IN  e \in stored' \cup ToSet(chain'[w]) \/ <<e, "unwritten">> \in bad'[w]
      BY <1>1, <2>1 DEF Inv, Evaluated, Active
    <3>7. /\ \A r \in ran'[w] : r[2].tx /\ r[3] = "failed" => pc'[w] = "refused"
          /\ \A x \in bad'[w] : x[2] # "stale" /\ (x[2] = "deep" => ~Direct(x[1]))
      BY <1>1, <2>1 DEF Inv, Evaluated
    <3>8. \A i : Triggered(w, pend[w][i], TRUE)' = Triggered(w, pend[w][i], TRUE)
      BY <1>1 DEF Triggered, TableOf
    <3> QED
      BY <1>1, <2>3, <3>4, <3>5, <3>6, <3>7, <3>8 DEF Evaluated
  <2> QED
    BY <2>4, <2>5, <2>6, <2>7, <2>8, <2>10, <2>11 DEF Moves, Inv
<1> QED
  BY <1>7, <1>8

------------------------------------------------------------------------------
(* Writing.                                                                  *)

\* A batch is written: what it was made from is on disk already, and the appends behind it
\* that are to create a table are for other tables.
LEMMA CommitMoves ==
  ASSUME NEW w \in Writer, Types, FromItsSource, Inv(w), Commit(w)
  PROVE  Moves(w) /\ FromItsSource'
<1>o. PICK old : old = chain[w]
  OBVIOUS
<1>n. PICK n : n = Len(old)
  OBVIOUS
<1>b. PICK b : b = Head(old)
  OBVIOUS
<1>c. PICK c : c = Tail(old)
  OBVIOUS
<1>s. PICK schema : schema = SchemaAfter(w, b)
  OBVIOUS
<1>1. /\ pc[w] \in {"commit", "latecommit"} /\ old # <<>>
      /\ stored' = stored \cup {b}
      /\ cat' = [cat EXCEPT ![w][TableOf(b)] = schema]
      /\ chain' = [chain EXCEPT ![w] = c]
      /\ policies' = policies /\ pc' = pc /\ script' = script /\ pol' = pol /\ pend' = pend
      /\ stack' = stack /\ at' = at /\ ran' = ran /\ bad' = bad
  BY <1>o, <1>b, <1>c, <1>s DEF Commit
<1>2. /\ old \in Seq(Batch) /\ n \in Nat \ {0} /\ DOMAIN old = 1..n
      /\ c \in Seq(Batch) /\ DOMAIN c = 1..(n - 1)
      /\ \A k \in 1..(n - 1) : c[k] = old[k + 1] /\ k + 1 \in 1..n
      /\ b = old[1] /\ b \in Batch /\ 1 \in 1..n
      /\ ToSet(old) = ToSet(c) \cup {b}
  <2>1. old \in Seq(Batch)
    BY <1>o DEF Types
  <2> QED
    BY <1>1, <1>n, <1>b, <1>c, <2>1, TailIs
<1>3. chain'[w] = c /\ cat'[w] = [cat[w] EXCEPT ![TableOf(b)] = schema]
  BY <1>1 DEF Types
<1>4. Types'
  <2>1. stored' \subseteq Batch /\ chain' \in [Writer -> Seq(Batch)]
    BY <1>1, <1>2 DEF Types
  <2>2. DOMAIN cat' = Writer /\ \A v \in Writer : DOMAIN cat'[v] = Table
    BY <1>1 DEF Types
  <2> QED
    BY <1>1, <2>1, <2>2 DEF Types
<1>5. ASSUME NEW k \in 1..n
      PROVE  /\ old[k].by = w
             /\ Direct(old[k]) => old[k].n \in 1..at[w] /\ old[k] = pend[w][old[k].n]
             /\ ~Direct(old[k]) => (Last(old[k].via).tx <=> pc[w] = "commit")
             /\ pc[w] = "commit" /\ ~Direct(old[k]) =>
                  Parent(old[k]) \in stored \/ Between(old, k, Parent(old[k]))
             /\ pc[w] = "latecommit" => ~Direct(old[k])
             /\ Direct(old[k]) /\ old[k].create =>
                  /\ cat[w][TableOf(old[k])] = NoTable
                  /\ \A l \in 1..n : l # k => TableOf(old[l]) # TableOf(old[k])
  BY <1>1, <1>2, <1>o DEF Inv, Chain
<1>6. \A v \in Writer \ {w} : Same(v) /\ WritesNone(v)
  <2>1. b.by = w
    BY <1>2, <1>5
  <2> QED
    BY <1>1, <2>1 DEF Same, WritesNone, Types
<1>7. Appends(w)'
  BY <1>1 DEF Inv, Appends, Writing
<1>8. Chain(w)'
  <2>1. ASSUME NEW k \in 1..(n - 1), Between(old, k + 1, Parent(old[k + 1]))
        PROVE  Parent(c[k]) \in stored' \/ Between(c, k, Parent(c[k]))
    <3>1. PICK l \in 1..((k + 1) - 1) : old[l] = Parent(old[k + 1])
      BY <2>1 DEF Between
    <3>2. CASE l = 1
      BY <1>1, <1>2, <3>1, <3>2
    <3>3. CASE l # 1
      <4>1. l - 1 \in 1..(k - 1) /\ l - 1 \in 1..(n - 1) /\ (l - 1) + 1 = l
        BY <1>2, <3>3
      <4>2. c[l - 1] = old[l] /\ c[k] = old[k + 1]
        BY <1>2, <4>1
      <4> QED
        BY <3>1, <4>1, <4>2 DEF Between
    <3> QED
      BY <3>2, <3>3
  <2>2. ASSUME NEW k \in 1..(n - 1)
        PROVE  /\ c[k].by = w
               /\ Direct(c[k]) => c[k].n \in 1..at[w] /\ c[k] = pend[w][c[k].n]
               /\ ~Direct(c[k]) => (Last(c[k].via).tx <=> pc[w] = "commit")
               /\ pc[w] = "commit" /\ ~Direct(c[k]) =>
                    Parent(c[k]) \in stored' \/ Between(c, k, Parent(c[k]))
               /\ pc[w] = "latecommit" => ~Direct(c[k])
    <3>1. k + 1 \in 1..n /\ c[k] = old[k + 1]
      BY <1>2
    <3>2. Parent(c[k]) \in stored => Parent(c[k]) \in stored'
      BY <1>1
    <3> QED
      BY <1>5, <2>1, <3>1, <3>2
  <2>3. ASSUME NEW k \in 1..(n - 1), Direct(c[k]) /\ c[k].create
        PROVE  /\ cat'[w][TableOf(c[k])] = NoTable
               /\ \A l \in 1..(n - 1) : l # k => TableOf(c[l]) # TableOf(c[k])
    <3>1. k + 1 \in 1..n /\ c[k] = old[k + 1] /\ k + 1 # 1
      BY <1>2
    <3>2. /\ cat[w][TableOf(c[k])] = NoTable
          /\ \A l \in 1..n : l # k + 1 => TableOf(old[l]) # TableOf(c[k])
      BY <1>5, <2>3, <3>1
    <3>3. TableOf(b) # TableOf(c[k])
      BY <1>2, <3>1, <3>2
    <3>4. TableOf(c[k]) \in Table
      <4>1. c[k] \in Batch
        BY <1>2, <3>1
      <4> QED
        BY <2>3, <4>1 DEF Batch, Command, Direct, TableOf
    <3>5. cat'[w][TableOf(c[k])] = NoTable
      <4>1. DOMAIN cat[w] = Table
        BY DEF Types
      <4> QED
        BY <1>3, <3>2, <3>3, <3>4, <4>1
    <3>6. ASSUME NEW l \in 1..(n - 1), l # k PROVE TableOf(c[l]) # TableOf(c[k])
      <4>1. l + 1 \in 1..n /\ c[l] = old[l + 1] /\ l + 1 # k + 1
        BY <1>2, <3>6
      <4> QED
        BY <3>2, <4>1
    <3> QED
      BY <3>5, <3>6
  <2>4. pc'[w] = pc[w] /\ at'[w] = at[w] /\ pend'[w] = pend[w]
    BY <1>1
  <2>5. DOMAIN chain'[w] = 1..(n - 1)
    BY <1>2, <1>3
  <2>6. \A k \in 1..(n - 1) : Direct(c[k]) /\ c[k].create =>
          /\ cat'[w][TableOf(c[k])] = NoTable
          /\ \A l \in 1..(n - 1) : l # k => TableOf(c[l]) # TableOf(c[k])
    BY <2>3
  <2>7. \A k \in 1..(n - 1) :
          /\ c[k].by = w
          /\ Direct(c[k]) => c[k].n \in 1..at'[w] /\ c[k] = pend'[w][c[k].n]
          /\ ~Direct(c[k]) => (Last(c[k].via).tx <=> pc'[w] \in {"tx", "commit"})
          /\ pc'[w] \in {"tx", "commit"} /\ ~Direct(c[k]) =>
               Parent(c[k]) \in stored' \/ Between(c, k, Parent(c[k]))
          /\ pc'[w] \in {"late", "latecommit"} => ~Direct(c[k])
    BY <1>1, <2>2, <2>4
  <2>8. chain'[w] = c /\ pc'[w] \in {"commit", "latecommit"}
    BY <1>1, <1>3
  <2> QED
    BY <2>5, <2>6, <2>7, <2>8 DEF Chain
<1>9. Stack(w)'
  BY <1>1 DEF Inv, Stack
<1>10. StoredBy(w)'
  <2>1. Direct(b) => b.n \in DOMAIN pend[w] /\ b = pend[w][b.n]
    <3>1. pend[w] \in Seq(Batch) /\ at[w] \in 1..Len(pend[w])
      BY <1>1 DEF Types, Inv, Appends, Writing
    <3>2. \A i \in 1..at[w] : i \in DOMAIN pend[w]
      BY <3>1
    <3> QED
      BY <1>2, <1>5, <3>2
  <2>2. pc[w] \in Writing
    BY <1>1 DEF Writing
  <2> QED
    BY <1>1, <2>1, <2>2 DEF Inv, StoredBy
<1>11. stored' \cup ToSet(c) = stored \cup ToSet(old)
  BY <1>1, <1>2
<1>12. Placed(w)'
  BY <1>1, <1>3, <1>11, <1>o DEF Inv, Placed
<1>13. Evaluated(w)'
  <2>1. /\ \A x, p : Ran(w, x, p)' <=> Ran(w, x, p)
        /\ \A x, p : Waits(w, x, p)' <=> Waits(w, x, p)
        /\ \A x, tx : Due(w, x, tx)' <=> Due(w, x, tx)
        /\ \A x, tx : Triggered(w, x, tx)' = Triggered(w, x, tx)
    BY <1>1 DEF Ran, Waits, Due, Triggered
  <2>2. stored' \cup ToSet(chain'[w]) = stored \cup ToSet(chain[w])
    BY <1>3, <1>11, <1>o
  <2> QED
    BY <1>1, <2>1, <2>2 DEF Inv, Evaluated
<1>14. FromItsSource'
  <2>1. ASSUME ~Direct(b), \A i \in DOMAIN b.via : b.via[i].tx PROVE Parent(b) \in stored
    <3>1. CASE pc[w] = "commit"
      <4>1. ~Between(old, 1, Parent(b))
        BY DEF Between
      <4> QED
        BY <1>2, <1>5, <2>1, <3>1, <4>1
    <3>2. CASE pc[w] = "latecommit"
      <4>1. ~Last(b.via).tx
        BY <1>2, <1>5, <2>1, <3>2
      <4>2. b.via \in Seq(Policy) /\ b.via # <<>>
        BY <1>2, <2>1 DEF Batch, Direct
      <4>3. Last(b.via) = b.via[Len(b.via)] /\ Len(b.via) \in DOMAIN b.via
        BY <4>2, FrontIs
      <4> QED
        BY <2>1, <4>1, <4>3
    <3> QED
      BY <1>1, <3>1, <3>2
  <2>2. \A x \in stored' : x \in stored \/ x = b
    BY <1>1
  <2> QED
    BY <1>1, <2>1, <2>2 DEF FromItsSource
<1> QED
  BY <1>4, <1>6, <1>7, <1>8, <1>9, <1>10, <1>12, <1>13, <1>14 DEF Moves, Inv

\* A write that fails is reported; it is never one that the statement could have foreseen.
LEMMA CommitFailsMoves ==
  ASSUME NEW w \in Writer, Types, Inv(w), CommitFails(w)
  PROVE  Moves(w)
<1>o. PICK old : old = chain[w]
  OBVIOUS
<1>n. PICK n : n = Len(old)
  OBVIOUS
<1>b. PICK b : b = Head(old)
  OBVIOUS
<1>x. PICK x : x = <<b, "unwritten">>
  OBVIOUS
<1>c. PICK c : c = IF pc[w] = "commit" THEN <<>> ELSE Tail(old)
  OBVIOUS
<1>1. /\ pc[w] \in {"commit", "latecommit"} /\ old # <<>>
      /\ bad' = [bad EXCEPT ![w] = bad[w] \cup {<<b, IF Stale(w, b) THEN "stale" ELSE "unwritten">>}]
      /\ chain' = [chain EXCEPT ![w] = c]
      /\ pc' = [pc EXCEPT ![w] = IF pc[w] = "commit" THEN "failed" ELSE pc[w]]
      /\ stored' = stored /\ policies' = policies /\ script' = script /\ cat' = cat /\ pol' = pol
      /\ pend' = pend /\ stack' = stack /\ at' = at /\ ran' = ran
  BY <1>o, <1>b, <1>c DEF CommitFails, world
<1>2. /\ old \in Seq(Batch) /\ n \in Nat \ {0} /\ DOMAIN old = 1..n
      /\ Tail(old) \in Seq(Batch) /\ DOMAIN Tail(old) = 1..(n - 1)
      /\ \A k \in 1..(n - 1) : Tail(old)[k] = old[k + 1] /\ k + 1 \in 1..n
      /\ b = old[1] /\ b \in Batch /\ 1 \in 1..n
      /\ ToSet(old) = ToSet(Tail(old)) \cup {b}
  <2>1. old \in Seq(Batch)
    BY <1>o DEF Types
  <2> QED
    BY <1>1, <1>n, <1>b, <2>1, TailIs
<1>3. ~Stale(w, b)
  BY <1>2, <1>o DEF Inv, Chain, Stale
<1>4. bad' = [bad EXCEPT ![w] = bad[w] \cup {x}]
  BY <1>1, <1>3, <1>x
<1>5. chain'[w] = c /\ bad'[w] = bad[w] \cup {x}
      /\ pc'[w] = IF pc[w] = "commit" THEN "failed" ELSE pc[w]
  BY <1>1, <1>4 DEF Types
<1>6. c \in Seq(Batch) /\ x \in Trouble /\ x[1] = b /\ x[2] = "unwritten"
  BY <1>2, <1>c, <1>x DEF Trouble
<1>7. Types'
  <2>1. chain' \in [Writer -> Seq(Batch)]
    BY <1>1, <1>6 DEF Types
  <2>2. bad' \in [Writer -> SUBSET Trouble]
    BY <1>4, <1>6 DEF Types
  <2>3. pc' \in [Writer -> PC]
    BY <1>1 DEF Types, PC
  <2> QED
    BY <1>1, <2>1, <2>2, <2>3 DEF Types
<1>8. \A v \in Writer \ {w} : Same(v) /\ WritesNone(v)
  BY <1>1, <1>4 DEF Same, WritesNone, Types
<1>9. Appends(w)'
  BY <1>1, <1>5 DEF Inv, Appends, Writing
<1>10. Stack(w)' /\ StoredBy(w)' /\ Placed(w)'
  BY <1>1, <1>5 DEF Inv, Stack, StoredBy, Placed, Writing
<1>11. /\ \A y \in bad'[w] : y[2] # "stale" /\ (y[2] = "deep" => ~Direct(y[1]))
       /\ \A r \in ran'[w] : r[2].tx /\ r[3] = "failed" => pc'[w] = "refused"
       /\ \A i \in DOMAIN pend'[w] : pend'[w][i].cmd.mode # "ingest" =>
            \A p \in Triggered(w, pend[w][i], TRUE) : Ran(w, pend[w][i], p)'
       /\ \A i : Triggered(w, pend[w][i], TRUE)' = Triggered(w, pend[w][i], TRUE)
  <2>1. \A y \in bad[w] : y[2] # "stale" /\ (y[2] = "deep" => ~Direct(y[1]))
    BY DEF Inv, Evaluated
  <2>2. \A r \in ran[w] : ~(r[2].tx /\ r[3] = "failed")
    BY <1>1 DEF Inv, Evaluated
  <2>3. \A i \in DOMAIN pend[w] : pend[w][i].cmd.mode # "ingest" =>
          \A p \in Triggered(w, pend[w][i], TRUE) : Ran(w, pend[w][i], p)
    BY <1>1 DEF Inv, Evaluated, Writing
  <2>4. \A y, p : Ran(w, y, p)' <=> Ran(w, y, p)
    BY <1>1 DEF Ran
  <2>5. \A i : Triggered(w, pend[w][i], TRUE)' = Triggered(w, pend[w][i], TRUE)
    BY <1>1 DEF Triggered, TableOf
  <2> QED
    BY <1>1, <1>5, <1>6, <2>1, <2>2, <2>3, <2>4, <2>5
<1>12. CASE pc[w] = "commit"
  <2>1. pc'[w] = "failed" /\ chain'[w] = <<>>
    BY <1>5, <1>12, <1>c
  <2>2. Chain(w)'
    BY <2>1 DEF Chain
  <2>3. Evaluated(w)'
    BY <1>11, <2>1 DEF Evaluated, Active
  <2> QED
    BY <1>7, <1>8, <1>9, <1>10, <2>2, <2>3 DEF Moves, Inv
<1>13. CASE pc[w] = "latecommit"
  <2>1. pc'[w] = "latecommit" /\ c = Tail(old)
    BY <1>5, <1>13, <1>c
  <2>2. \A k \in 1..n : old[k].by = w /\ ~Direct(old[k]) /\ ~Last(old[k].via).tx
    BY <1>2, <1>13, <1>o DEF Inv, Chain
  <2>3. \A k \in 1..(n - 1) : c[k].by = w /\ ~Direct(c[k]) /\ ~Last(c[k].via).tx
    BY <1>2, <2>1, <2>2
  <2>4. DOMAIN c = 1..(n - 1)
    BY <1>2, <2>1
  <2>5. Chain(w)'
    BY <1>5, <2>1, <2>3, <2>4 DEF Chain
  <2>6. /\ \A y, p : Ran(w, y, p)' <=> Ran(w, y, p)
        /\ \A y, p : Waits(w, y, p)' <=> Waits(w, y, p)
        /\ \A y, tx : Due(w, y, tx)' <=> Due(w, y, tx)
        /\ \A y, tx : Triggered(w, y, tx)' = Triggered(w, y, tx)
    BY <1>1, <1>13, <2>1 DEF Ran, Waits, Due, Triggered
  <2>7. ToSet(old) = ToSet(c) \cup {b}
    BY <1>2, <2>1
  <2>8. \A r \in ran'[w] : r[3] = "rows" =>
          LET e == Derive(r[1], r[2])
          IN  e \in stored' \cup ToSet(chain'[w]) \/ <<e, "unwritten">> \in bad'[w]
    <3>1. \A r \in ran[w] : r[3] = "rows" =>
            LET e == Derive(r[1], r[2])
            IN  e \in stored \cup ToSet(old) \/ <<e, "unwritten">> \in bad[w]
      BY <1>13, <1>o DEF Inv, Evaluated, Active
    <3> QED
      BY <1>1, <1>5, <1>x, <2>7, <3>1
  <2>9. \A y \in stored' \cup ToSet(chain'[w]), tx \in BOOLEAN : y.by = w /\ Due(w, y, tx)' =>
          \A q \in Triggered(w, y, tx)' : Ran(w, y, q)' \/ <<y, "deep">> \in bad'[w] \/ Waits(w, y, q)'
    <3>1. \A y \in stored \cup ToSet(old), tx \in BOOLEAN : y.by = w /\ Due(w, y, tx) =>
            \A q \in Triggered(w, y, tx) : Ran(w, y, q) \/ <<y, "deep">> \in bad[w] \/ Waits(w, y, q)
      BY <1>13, <1>o DEF Inv, Evaluated, Active
    <3> QED
      BY <1>1, <1>5, <2>6, <2>7, <3>1
  <2>10. Evaluated(w)'
    BY <1>11, <2>1, <2>8, <2>9 DEF Evaluated
  <2> QED
    BY <1>7, <1>8, <1>9, <1>10, <2>5, <2>10 DEF Moves, Inv
<1> QED
  BY <1>1, <1>12, <1>13

\* The policies of append n come next; those of the appends before it have been evaluated.
LEMMA BeginLateMoves ==
  ASSUME NEW w \in Writer, Types, Inv(w), pc[w] \in {"commit", "latecommit"}, chain[w] = <<>>,
         NEW n \in 1..Len(pend[w]), BeginLate(w, n),
         \A i \in 1..Len(pend[w]) : i < n => pc[w] = "latecommit" /\ i <= at[w],
         UNCHANGED <<world, script, cat, pol, pend, chain, ran, bad>>
  PROVE  Moves(w)
<1> DEFINE m == Len(pend[w])
<1>b. PICK b : b = pend[w][n]
  OBVIOUS
<1>t. PICK turn : turn = Triggered(w, b, FALSE)
  OBVIOUS
<1>l. PICK level : level = [batch |-> b, left |-> turn]
  OBVIOUS
<1>1. /\ at' = [at EXCEPT ![w] = n]
      /\ pc' = [pc EXCEPT ![w] = "late"]
      /\ stack' = [stack EXCEPT ![w] = <<level>>]
      /\ stored' = stored /\ policies' = policies /\ script' = script /\ cat' = cat /\ pol' = pol
      /\ pend' = pend /\ chain' = chain /\ ran' = ran /\ bad' = bad
  BY <1>b, <1>t, <1>l DEF BeginLate, world
<1>2. m \in Nat /\ DOMAIN pend[w] = 1..m /\ b \in Batch /\ n \in Nat
  <2>1. pend[w] \in Seq(Batch)
    BY DEF Types
  <2> QED
    BY <1>b, <2>1
<1>3. turn \in SUBSET Policy /\ \A p \in turn : ~p.tx
  BY <1>t DEF Triggered, Types
<1>4. level \in Level /\ level.batch = b /\ level.left = turn
  BY <1>2, <1>3, <1>l DEF Level
<1>5. <<level>> \in Seq(Level) /\ DOMAIN <<level>> = {1} /\ <<level>>[1] = level
  BY <1>4
<1>6. at'[w] = n /\ pc'[w] = "late" /\ stack'[w] = <<level>>
  BY <1>1 DEF Types
<1>7. b.by = w
  BY <1>2, <1>b DEF Inv, Appends
<1>8. stack[w] = <<>>
  BY DEF Inv, Stack
<1>9. Types'
  <2>1. stack' \in [Writer -> Seq(Level)]
    BY <1>1, <1>5 DEF Types
  <2> QED
    BY <1>1, <1>2, <2>1 DEF Types, PC
<1>10. \A v \in Writer \ {w} : Same(v) /\ WritesNone(v)
  BY <1>1 DEF Same, WritesNone, Types
<1>11. Appends(w)'
  BY <1>1, <1>6 DEF Inv, Appends, Writing
<1>12. Chain(w)'
  BY <1>1 DEF Chain
<1>13. Stack(w)'
  BY <1>3, <1>4, <1>5, <1>6, <1>7 DEF Stack
<1>14. ToSet(chain[w]) = {}
  BY DEF ToSet
<1>15. StoredBy(w)' /\ Placed(w)'
  BY <1>1, <1>6, <1>14 DEF Inv, StoredBy, Placed, Writing
<1>16. Evaluated(w)'
  <2>1. /\ \A x, p : Ran(w, x, p)' <=> Ran(w, x, p)
        /\ \A x, tx : Triggered(w, x, tx)' = Triggered(w, x, tx)
        /\ \A x, p : ~Waits(w, x, p)
    BY <1>1, <1>8 DEF Ran, Triggered, Waits
  <2>2. \A p \in turn : Waits(w, b, p)'
    BY <1>4, <1>5, <1>6 DEF Waits
  <2>3. ASSUME NEW x \in stored, x.by = w, NEW tx \in BOOLEAN, Due(w, x, tx)', ~Due(w, x, tx)
        PROVE  x = b /\ tx = FALSE
    <3>1. Direct(x) /\ tx = FALSE /\ x.n <= n /\ x.cmd.mode # "ingest"
      BY <1>1, <1>6, <2>3 DEF Due, Direct
    <3>2. x.n \in 1..m /\ x = pend[w][x.n]
      BY <1>2, <2>3, <3>1 DEF Inv, StoredBy
    <3>3. ~(x.n < n)
      <4>1. ~(pc[w] = "latecommit" /\ x.n <= at[w])
        BY <2>3, <3>1 DEF Due
      <4> QED
        BY <3>2, <4>1
    <3>4. x.n = n
      BY <1>2, <3>1, <3>2, <3>3
    <3> QED
      BY <1>b, <3>1, <3>2, <3>4
  <2>4. ASSUME NEW x \in stored, NEW tx \in BOOLEAN, x.by = w, Due(w, x, tx)', NEW p \in Triggered(w, x, tx)
        PROVE  Ran(w, x, p) \/ <<x, "deep">> \in bad[w] \/ Waits(w, x, p)'
    <3>1. CASE Due(w, x, tx)
      BY <2>1, <2>4, <3>1 DEF Inv, Evaluated, Active
    <3>2. CASE ~Due(w, x, tx)
      BY <1>t, <2>2, <2>3, <2>4, <3>2
    <3> QED
      BY <3>1, <3>2
  <2>5. \A x \in stored' \cup ToSet(chain'[w]), tx \in BOOLEAN : x.by = w /\ Due(w, x, tx)' =>
          \A p \in Triggered(w, x, tx)' : Ran(w, x, p)' \/ <<x, "deep">> \in bad'[w] \/ Waits(w, x, p)'
    BY <1>1, <1>14, <2>1, <2>4
  <2>6. \A r \in ran'[w] : r[3] = "rows" =>
          LET e == Derive(r[1], r[2])
          IN  e \in stored' \cup ToSet(chain'[w]) \/ <<e, "unwritten">> \in bad'[w]
    BY <1>1 DEF Inv, Evaluated, Active
  <2>7. /\ \A r \in ran'[w] : r[2].tx /\ r[3] = "failed" => pc'[w] = "refused"
        /\ \A y \in bad'[w] : y[2] # "stale" /\ (y[2] = "deep" => ~Direct(y[1]))
    <3>1. \A r \in ran[w] : ~(r[2].tx /\ r[3] = "failed")
      BY DEF Inv, Evaluated
    <3> QED
      BY <1>1, <3>1 DEF Inv, Evaluated
  <2>8. \A i \in DOMAIN pend'[w] : pend'[w][i].cmd.mode # "ingest" =>
          \A p \in Triggered(w, pend[w][i], TRUE) : Ran(w, pend[w][i], p)'
    BY <1>1, <2>1 DEF Inv, Evaluated, Writing
  <2>9. \A i : Triggered(w, pend[w][i], TRUE)' = Triggered(w, pend[w][i], TRUE)
    BY <1>1 DEF Triggered, TableOf
  <2> QED
    BY <1>6, <2>5, <2>6, <2>7, <2>8, <2>9 DEF Evaluated
<1> QED
  BY <1>9, <1>10, <1>11, <1>12, <1>13, <1>15, <1>16 DEF Moves, Inv

\* A statement that has nothing more to do has run the policies of all its appends.
LEMMA DoneMoves ==
  ASSUME NEW w \in Writer, Types, Inv(w), pc[w] \in {"commit", "latecommit"}, chain[w] = <<>>,
         script[w][1].mode = "ingest" \/ (pc[w] = "latecommit" /\ at[w] = Len(pend[w])),
         pc' = [pc EXCEPT ![w] = "done"],
         UNCHANGED <<world, script, cat, pol, pend, chain, stack, at, ran, bad>>
  PROVE  Moves(w)
<1> DEFINE m == Len(pend[w])
<1>1. /\ stored' = stored /\ policies' = policies /\ script' = script /\ cat' = cat /\ pol' = pol
      /\ pend' = pend /\ chain' = chain /\ stack' = stack /\ at' = at /\ ran' = ran /\ bad' = bad
  BY DEF world
<1>2. pc'[w] = "done"
  BY DEF Types
<1>3. m \in Nat /\ DOMAIN pend[w] = 1..m /\ DOMAIN script[w] = 1..m /\ 1 \in 1..m
  <2>1. pend[w] \in Seq(Batch) /\ script[w] \in Seq(Command)
    BY DEF Types
  <2>2. Len(script[w]) = m /\ script[w] # <<>>
    BY DEF Inv, Appends, Writing
  <2>3. m \in Nat \ {0}
    BY <2>1, <2>2, EmptySeq
  <2> QED
    BY <2>1, <2>2, <2>3
<1>4. Types'
  BY <1>1 DEF Types, PC
<1>5. \A v \in Writer \ {w} : Same(v) /\ WritesNone(v)
  BY <1>1 DEF Same, WritesNone, Types
<1>6. Appends(w)'
  BY <1>1, <1>2 DEF Inv, Appends, Writing
<1>7. ToSet(chain[w]) = {}
  BY DEF ToSet
<1>8. Chain(w)' /\ Stack(w)' /\ StoredBy(w)' /\ Placed(w)'
  <2>1. Chain(w)'
    BY <1>1 DEF Chain
  <2>2. Stack(w)'
    BY <1>1, <1>2 DEF Inv, Stack
  <2> QED
    BY <1>1, <1>2, <1>7, <2>1, <2>2 DEF Inv, StoredBy, Placed, Writing
<1>9. Evaluated(w)'
  <2>1. /\ \A x, p : Ran(w, x, p)' <=> Ran(w, x, p)
        /\ \A x, p : Waits(w, x, p)' <=> Waits(w, x, p)
        /\ \A x, tx : Triggered(w, x, tx)' = Triggered(w, x, tx)
    BY <1>1 DEF Ran, Triggered, Waits
  <2>2. ASSUME NEW x \in stored, x.by = w, NEW tx \in BOOLEAN, Due(w, x, tx)' PROVE Due(w, x, tx)
    <3>1. CASE pc[w] = "latecommit"
      BY <1>1, <1>2, <2>2, <3>1 DEF Due
    <3>2. CASE script[w][1].mode = "ingest"
      <4>1. ~Direct(x)
        <5>1. SUFFICES ASSUME Direct(x) PROVE x.cmd.mode = "ingest"
          BY <2>2 DEF Due
        <5>2. x.n \in 1..m /\ x = pend[w][x.n]
          BY <1>3, <2>2, <5>1 DEF Inv, StoredBy
        <5>3. m = 1
          BY <1>3, <3>2 DEF Inv, Appends, Writing
        <5>4. x.n = 1
          BY <5>2, <5>3
        <5>5. pend[w][1].cmd = script[w][1]
          BY <1>3 DEF Inv, Appends
        <5> QED
          BY <3>2, <5>2, <5>4, <5>5
      <4> QED
        BY <1>1, <2>2, <4>1 DEF Due, Direct
    <3> QED
      BY <3>1, <3>2
  <2>3. \A x \in stored' \cup ToSet(chain'[w]), tx \in BOOLEAN : x.by = w /\ Due(w, x, tx)' =>
          \A p \in Triggered(w, x, tx)' : Ran(w, x, p)' \/ <<x, "deep">> \in bad'[w] \/ Waits(w, x, p)'
    BY <1>1, <1>7, <2>1, <2>2 DEF Inv, Evaluated, Active
  <2>4. \A r \in ran'[w] : r[3] = "rows" =>
          LET e == Derive(r[1], r[2])
          IN  e \in stored' \cup ToSet(chain'[w]) \/ <<e, "unwritten">> \in bad'[w]
    BY <1>1 DEF Inv, Evaluated, Active
  <2>5. /\ \A r \in ran'[w] : r[2].tx /\ r[3] = "failed" => pc'[w] = "refused"
        /\ \A y \in bad'[w] : y[2] # "stale" /\ (y[2] = "deep" => ~Direct(y[1]))
    <3>1. \A r \in ran[w] : ~(r[2].tx /\ r[3] = "failed")
      BY DEF Inv, Evaluated
    <3> QED
      BY <1>1, <3>1 DEF Inv, Evaluated
  <2>6. \A i \in DOMAIN pend'[w] : pend'[w][i].cmd.mode # "ingest" =>
          \A p \in Triggered(w, pend[w][i], TRUE) : Ran(w, pend[w][i], p)'
    BY <1>1, <2>1 DEF Inv, Evaluated, Writing
  <2>7. \A i : Triggered(w, pend[w][i], TRUE)' = Triggered(w, pend[w][i], TRUE)
    BY <1>1 DEF Triggered, TableOf
  <2> QED
    BY <1>2, <2>3, <2>4, <2>5, <2>6, <2>7 DEF Evaluated
<1> QED
  BY <1>4, <1>5, <1>6, <1>8, <1>9 DEF Moves, Inv

LEMMA WrittenMoves ==
  ASSUME NEW w \in Writer, Types, Inv(w), Written(w)
  PROVE  Moves(w)
<1>1. pc[w] = "commit" /\ chain[w] = <<>> /\ UNCHANGED <<world, script, cat, pol, pend, chain, ran, bad>>
  BY DEF Written
<1>2. CASE script[w][1].mode = "ingest"
  BY <1>1, <1>2, DoneMoves DEF Written
<1>3. CASE script[w][1].mode # "ingest"
  <2>1. BeginLate(w, 1)
    BY <1>3 DEF Written
  <2>2. at[w] \in 1..Len(pend[w]) /\ pend[w] \in Seq(Batch)
    BY <1>1 DEF Types, Inv, Appends, Writing
  <2>3. 1 \in 1..Len(pend[w]) /\ \A i \in 1..Len(pend[w]) : ~(i < 1)
    BY <2>2
  <2> QED
    BY <1>1, <2>1, <2>3, BeginLateMoves
<1> QED
  BY <1>2, <1>3

LEMMA LateWrittenMoves ==
  ASSUME NEW w \in Writer, Types, Inv(w), LateWritten(w)
  PROVE  Moves(w)
<1>1. /\ pc[w] = "latecommit" /\ chain[w] = <<>>
      /\ UNCHANGED <<world, script, cat, pol, pend, chain, ran, bad>>
  BY DEF LateWritten
<1>2. at[w] \in 1..Len(pend[w]) /\ pend[w] \in Seq(Batch)
  BY <1>1 DEF Types, Inv, Appends, Writing
<1>3. CASE at[w] < Prepared(w)
  <2>1. BeginLate(w, at[w] + 1)
    BY <1>3 DEF LateWritten
  <2>2. at[w] + 1 \in 1..Len(pend[w]) /\ \A i \in 1..Len(pend[w]) : i < at[w] + 1 => i <= at[w]
    BY <1>2, <1>3 DEF Prepared
  <2> QED
    BY <1>1, <2>1, <2>2, BeginLateMoves
<1>4. CASE ~(at[w] < Prepared(w))
  <2>1. at[w] = Len(pend[w])
    BY <1>2, <1>4 DEF Prepared
  <2>2. pc' = [pc EXCEPT ![w] = "done"] /\ UNCHANGED <<at, stack>>
    BY <1>4 DEF LateWritten
  <2> QED
    BY <1>1, <2>1, <2>2, DoneMoves
<1> QED
  BY <1>3, <1>4

LEMMA LateEvaluatedMoves ==
  ASSUME NEW w \in Writer, Types, Inv(w), LateEvaluated(w)
  PROVE  Moves(w)
<1>1. /\ pc[w] = "late" /\ stack[w] = <<>> /\ pc' = [pc EXCEPT ![w] = "latecommit"]
      /\ stored' = stored /\ policies' = policies /\ script' = script /\ cat' = cat /\ pol' = pol
      /\ pend' = pend /\ chain' = chain /\ stack' = stack /\ at' = at /\ ran' = ran /\ bad' = bad
  BY DEF LateEvaluated, world
<1>2. pc'[w] = "latecommit"
  BY <1>1 DEF Types
<1>3. Types'
  BY <1>1 DEF Types, PC
<1>4. \A v \in Writer \ {w} : Same(v) /\ WritesNone(v)
  BY <1>1 DEF Same, WritesNone, Types
<1>5. Appends(w)'
  BY <1>1, <1>2 DEF Inv, Appends, Writing
<1>6. Chain(w)'
  BY <1>1, <1>2 DEF Inv, Chain, Between
<1>7. Stack(w)' /\ StoredBy(w)' /\ Placed(w)'
  BY <1>1, <1>2 DEF Inv, Stack, StoredBy, Placed, Writing
<1>8. Evaluated(w)'
  <2>1. /\ \A x, p : Ran(w, x, p)' <=> Ran(w, x, p)
        /\ \A x, p : Waits(w, x, p)' <=> Waits(w, x, p)
        /\ \A x, tx : Due(w, x, tx)' <=> Due(w, x, tx)
        /\ \A x, tx : Triggered(w, x, tx)' = Triggered(w, x, tx)
        /\ \A i : Triggered(w, pend[w][i], TRUE)' = Triggered(w, pend[w][i], TRUE)
    BY <1>1, <1>2 DEF Ran, Waits, Due, Triggered, TableOf
  <2>2. \A r \in ran[w] : ~(r[2].tx /\ r[3] = "failed")
    BY <1>1 DEF Inv, Evaluated
  <2>3. \A x \in stored' \cup ToSet(chain'[w]), tx \in BOOLEAN : x.by = w /\ Due(w, x, tx)' =>
          \A p \in Triggered(w, x, tx)' : Ran(w, x, p)' \/ <<x, "deep">> \in bad'[w] \/ Waits(w, x, p)'
    <3>1. \A x \in stored \cup ToSet(chain[w]), tx \in BOOLEAN : x.by = w /\ Due(w, x, tx) =>
            \A p \in Triggered(w, x, tx) : Ran(w, x, p) \/ <<x, "deep">> \in bad[w] \/ Waits(w, x, p)
      BY <1>1 DEF Inv, Evaluated, Active
    <3> QED
      BY <1>1, <2>1, <3>1
  <2>4. \A r \in ran'[w] : r[3] = "rows" =>
          LET e == Derive(r[1], r[2])
          IN  e \in stored' \cup ToSet(chain'[w]) \/ <<e, "unwritten">> \in bad'[w]
    BY <1>1 DEF Inv, Evaluated, Active
  <2>5. \A y \in bad'[w] : y[2] # "stale" /\ (y[2] = "deep" => ~Direct(y[1]))
    BY <1>1 DEF Inv, Evaluated
  <2>6. \A i \in DOMAIN pend'[w] : pend'[w][i].cmd.mode # "ingest" =>
          \A p \in Triggered(w, pend[w][i], TRUE) : Ran(w, pend[w][i], p)'
    BY <1>1, <2>1 DEF Inv, Evaluated, Writing
  <2> QED
    BY <1>1, <1>2, <2>1, <2>2, <2>3, <2>4, <2>5, <2>6 DEF Evaluated
<1> QED
  BY <1>3, <1>4, <1>5, <1>6, <1>7, <1>8 DEF Moves, Inv

LEMMA DieMoves ==
  ASSUME NEW w \in Writer, Types, Inv(w), Die(w)
  PROVE  Moves(w)
<1>1. /\ pc[w] \in {"commit", "late", "latecommit"} /\ pc' = [pc EXCEPT ![w] = "dead"]
      /\ chain' = [chain EXCEPT ![w] = <<>>] /\ stack' = [stack EXCEPT ![w] = <<>>]
      /\ stored' = stored /\ policies' = policies /\ script' = script /\ cat' = cat /\ pol' = pol
      /\ pend' = pend /\ at' = at /\ ran' = ran /\ bad' = bad
  BY DEF Die, world
<1>2. pc'[w] = "dead" /\ chain'[w] = <<>> /\ stack'[w] = <<>>
  BY <1>1 DEF Types
<1>3. Types'
  BY <1>1 DEF Types, PC
<1>4. \A v \in Writer \ {w} : Same(v) /\ WritesNone(v)
  BY <1>1 DEF Same, WritesNone, Types
<1>5. Appends(w)'
  BY <1>1, <1>2 DEF Inv, Appends, Writing
<1>6. Chain(w)' /\ Stack(w)'
  BY <1>2 DEF Chain, Stack
<1>7. StoredBy(w)' /\ Placed(w)'
  BY <1>1, <1>2 DEF Inv, StoredBy, Placed, Writing
<1>8. Evaluated(w)'
  <2>1. /\ \A x, p : Ran(w, x, p)' <=> Ran(w, x, p)
        /\ \A i : Triggered(w, pend[w][i], TRUE)' = Triggered(w, pend[w][i], TRUE)
    BY <1>1, <1>2 DEF Ran, Triggered, TableOf
  <2>2. \A r \in ran[w] : ~(r[2].tx /\ r[3] = "failed")
    BY <1>1 DEF Inv, Evaluated
  <2> QED
    BY <1>1, <1>2, <2>1, <2>2 DEF Inv, Evaluated, Active, Writing
<1> QED
  BY <1>3, <1>4, <1>5, <1>6, <1>7, <1>8 DEF Moves, Inv

------------------------------------------------------------------------------
(* The invariant.                                                            *)

LEMMA InitIs == Init => IInv
<1> SUFFICES ASSUME Init PROVE IInv
  OBVIOUS
<1> USE DEF Init
<1>1. Types
  <2>1. policies \in [Table -> SUBSET Policy]
    BY ConstantsOK
  <2>2. /\ pol \in [Writer -> [Table -> SUBSET Policy]]
        /\ ran \in [Writer -> SUBSET Result] /\ bad \in [Writer -> SUBSET Trouble]
    OBVIOUS
  <2>3. script \in [Writer -> Seq(Command)] /\ pend \in [Writer -> Seq(Batch)]
    OBVIOUS
  <2>4. chain \in [Writer -> Seq(Batch)] /\ stack \in [Writer -> Seq(Level)]
    OBVIOUS
  <2> QED
    BY <2>1, <2>2, <2>3, <2>4 DEF Types, PC
<1>2. FromItsSource
  BY DEF FromItsSource
<1>3. ASSUME NEW w \in Writer PROVE Inv(w)
  <2>1. /\ pc[w] = "idle" /\ script[w] = <<>> /\ pend[w] = <<>> /\ chain[w] = <<>> /\ stack[w] = <<>>
        /\ ran[w] = {} /\ bad[w] = {} /\ stored = {}
    OBVIOUS
  <2>2. DOMAIN <<>> = {} /\ Len(<<>>) = 0
    OBVIOUS
  <2>3. Appends(w)
    BY <2>1, <2>2 DEF Appends, Writing
  <2>4. Chain(w) /\ Stack(w)
    BY <2>1, <2>2 DEF Chain, Stack
  <2>5. StoredBy(w) /\ Placed(w)
    BY <2>1 DEF StoredBy, Placed
  <2>6. Evaluated(w)
    BY <2>1 DEF Evaluated, Active, Writing
  <2> QED
    BY <2>3, <2>4, <2>5, <2>6 DEF Inv
<1> QED
  BY <1>1, <1>2, <1>3 DEF IInv

\* Only a commit changes what is stored.
LEMMA StepMoves ==
  ASSUME NEW w \in Writer, Types, FromItsSource, Inv(w), Submit(w) \/ Statement(w) \/ Die(w)
  PROVE  Moves(w) /\ FromItsSource'
<1>1. CASE Commit(w)
  BY <1>1, CommitMoves
<1>2. CASE ~Commit(w)
  <2>1. Moves(w)
    <3>1. CASE RefreshFails(w)
      BY <3>1, RefuseMoves DEF RefreshFails
    <3> QED
      BY <1>2, <3>1, SubmitMoves, RefreshMoves, PrepareMoves, AcceptMoves, EvaluateMoves, ReturnMoves,
         NextAppendMoves, CommitFailsMoves, WrittenMoves, LateEvaluatedMoves, LateWrittenMoves, DieMoves
         DEF Statement
  <2>2. stored' = stored
    BY <1>2 DEF Submit, Statement, Refresh, RefreshFails, Refuse, Prepare, Accept, Evaluate,
                PolicyGivesRows, PolicyGivesNone, PolicyFails, PolicyTooDeep, Return, NextAppend,
                CommitFails, Written, LateEvaluated, LateWritten, Die, world
  <2> QED
    BY <2>1, <2>2 DEF FromItsSource
<1> QED
  BY <1>1, <1>2

LEMMA StepKeeps == IInv /\ [Next]_vars => IInv'
<1> SUFFICES ASSUME IInv, [Next]_vars PROVE IInv'
  OBVIOUS
<1>1. ASSUME NEW w \in Writer, Submit(w) \/ Statement(w) \/ Die(w) PROVE IInv'
  <2>1. Moves(w) /\ FromItsSource'
    BY <1>1, StepMoves DEF IInv
  <2>2. \A v \in Writer \ {w} : Inv(v)'
    BY <2>1, OthersKeep DEF IInv, Moves
  <2> QED
    BY <2>1, <2>2 DEF IInv, Moves
<1>2. ASSUME policies' \in [Table -> SUBSET Policy], stored' = stored,
             UNCHANGED <<pc, script, cat, pol, pend, chain, stack, at, ran, bad>>
      PROVE  IInv'
  <2>1. \A v \in Writer : Same(v) /\ WritesNone(v)
    BY <1>2 DEF Same, WritesNone
  <2>2. \A v \in Writer : Inv(v)'
    BY <2>1, OthersKeep DEF IInv
  <2>3. Types'
    BY <1>2 DEF IInv, Types
  <2>4. FromItsSource'
    BY <1>2 DEF IInv, FromItsSource
  <2> QED
    BY <2>2, <2>3, <2>4 DEF IInv
<1>3. policies \in [Table -> SUBSET Policy]
  BY DEF IInv, Types
<1>4. CASE Alter
  <2>1. policies' \in [Table -> SUBSET Policy]
    <3>1. PICK f \in Config, t \in Table : policies' = [policies EXCEPT ![t] = f[t]]
      BY <1>4 DEF Alter
    <3>2. f[t] \in SUBSET Policy
      BY ConstantsOK
    <3> QED
      BY <1>3, <3>1, <3>2
  <2> QED
    BY <1>2, <1>4, <2>1 DEF Alter
<1>5. CASE OtherCreates
  BY <1>2, <1>3, <1>5 DEF OtherCreates
<1>6. CASE UNCHANGED vars
  BY <1>2, <1>3, <1>6 DEF vars
<1> QED
  BY <1>1, <1>4, <1>5, <1>6 DEF Next, AllEnded

LEMMA AlwaysInv == Spec => []IInv
BY InitIs, StepKeeps, PTL DEF Spec
------------------------------------------------------------------------------
(* What follows from it.                                                     *)

\* All or nothing: with a batch of a statement on disk, every transactional policy that its
\* commands trigger has been evaluated (the commands behind the batch's own included) and
\* none has failed (commitWithPolicies, executeScriptAtomic).
THEOREM AllOrNothing == Spec => []TransactionalFirst
<1>1. IInv => TransactionalFirst
  <2> SUFFICES ASSUME IInv, NEW b \in stored
               PROVE  LET w == b.by
                      IN  /\ pc[w] # "refused"
                          /\ Prepared(w) = Len(script[w])
                          /\ \A r \in ran[w] : r[2].tx => r[3] # "failed"
                          /\ \A i \in 1..Prepared(w), p \in Policy :
                               pend[w][i].cmd.mode # "ingest" /\ p \in Triggered(w, pend[w][i], TRUE)
                                 => Ran(w, pend[w][i], p)
    BY DEF TransactionalFirst
  <2> DEFINE w == b.by
  <2>1. w \in Writer
    BY DEF IInv, Types, Batch
  <2>2. Inv(w) /\ pend[w] \in Seq(Batch)
    BY <2>1 DEF IInv, Types
  <2> HIDE DEF w
  <2>3. pc[w] \in Writing
    BY <2>2 DEF Inv, StoredBy, w
  <2>4. Prepared(w) = Len(script[w]) /\ DOMAIN pend[w] = 1..Prepared(w)
    BY <2>2, <2>3 DEF Inv, Appends, Prepared
  <2>5. pc[w] # "refused"
    BY <2>3 DEF Writing
  <2> QED
    BY <2>2, <2>3, <2>4, <2>5 DEF Inv, Evaluated, w
<1> QED
  BY <1>1, AlwaysInv, PTL

\* No write of a statement is refused because of an earlier write of the same statement
\* (commitAppend's check that a table to be created is still missing from its catalog).
THEOREM PlansHold == Spec => []PlanHolds
<1>1. IInv => PlanHolds
  BY DEF IInv, Inv, Evaluated, PlanHolds
<1> QED
  BY <1>1, AlwaysInv, PTL

\* Rows that came through transactional policies are never on disk without the rows they
\* were made from, wherever a write fails or the process dies (commitWithPolicies writes the
\* chain in the order in which it was decided).
THEOREM TargetsFollowSources == Spec => []FromItsSource
<1>1. IInv => FromItsSource
  BY DEF IInv
<1> QED
  BY <1>1, AlwaysInv, PTL

\* A statement that reports success has written its appends and what its policies gave, or
\* said what it could not write, and has evaluated every policy that it had to, with cycles
\* of policies and a depth limit in the way (runPolicies).
THEOREM SuccessIsAccounted == Spec => []Accounted
<1>1. IInv => Accounted
  <2> SUFFICES ASSUME IInv, NEW w \in Writer, pc[w] = "done"
               PROVE  /\ \A i \in 1..Len(script[w]) : i <= Prepared(w) /\ pend[w][i] \in stored
                      /\ \A r \in ran[w] : r[3] = "rows" =>
                           LET b == Derive(r[1], r[2])
                           IN  b \in stored \/ <<b, "unwritten">> \in bad[w]
                      /\ \A b \in {x \in stored : x.by = w} : \A tx \in BOOLEAN :
                           (b.cmd.mode # "ingest" /\ (Direct(b) \/ Last(b.via).tx = tx))
                             => \A p \in Triggered(w, b, tx) :
                                  Ran(w, b, p) \/ <<b, "deep">> \in bad[w]
    BY DEF Accounted
  <2>1. Inv(w) /\ pend[w] \in Seq(Batch) /\ script[w] \in Seq(Command)
    BY DEF IInv, Types
  <2>2. chain[w] = <<>> /\ stack[w] = <<>>
    BY <2>1 DEF Inv, Chain, Stack
  <2>3. ToSet(chain[w]) = {} /\ \A x, p : ~Waits(w, x, p)
    BY <2>2 DEF ToSet, Waits
  <2>4. Prepared(w) = Len(script[w]) /\ DOMAIN pend[w] = 1..Len(script[w]) /\ Len(script[w]) \in Nat
    BY <2>1 DEF Inv, Appends, Writing, Prepared
  <2>5. \A i \in 1..Len(script[w]) : i <= Prepared(w) /\ pend[w][i] \in stored
    BY <2>1, <2>4 DEF Inv, Placed
  <2>6. \A r \in ran[w] : r[3] = "rows" =>
          LET b == Derive(r[1], r[2])
          IN  b \in stored \/ <<b, "unwritten">> \in bad[w]
    BY <2>1, <2>3 DEF Inv, Evaluated, Active
  <2>7. ASSUME NEW b \in stored, b.by = w, NEW tx \in BOOLEAN, b.cmd.mode # "ingest",
               Direct(b) \/ Last(b.via).tx = tx, NEW p \in Triggered(w, b, tx)
        PROVE  Ran(w, b, p) \/ <<b, "deep">> \in bad[w]
    <3>1. Direct(b) => b.n <= at[w]
      <4>1. SUFFICES ASSUME Direct(b) PROVE b.n <= at[w]
        OBVIOUS
      <4>2. b.n \in 1..Len(script[w]) /\ b = pend[w][b.n]
        BY <2>1, <2>4, <2>7, <4>1 DEF Inv, StoredBy
      <4>3. script[w][b.n].mode # "ingest"
        BY <2>1, <2>4, <2>7, <4>2 DEF Inv, Appends
      <4>4. script[w][1].mode # "ingest"
        <5>1. SUFFICES ASSUME script[w][1].mode = "ingest" PROVE FALSE
          OBVIOUS
        <5>2. 1 \in DOMAIN script[w]
          BY <2>1, <2>4, <4>2
        <5>3. Len(script[w]) = 1
          BY <2>1, <5>1, <5>2 DEF Inv, Appends
        <5>4. b.n = 1
          BY <4>2, <5>3
        <5> QED
          BY <4>3, <5>1, <5>4
      <4>5. at[w] = Len(script[w])
        BY <2>1, <2>4, <4>4 DEF Inv, Appends, Prepared
      <4> QED
        BY <2>4, <4>2, <4>5
    <3>2. Due(w, b, tx)
      BY <2>7, <3>1 DEF Due
    <3> QED
      BY <2>1, <2>3, <2>7, <3>2 DEF Inv, Evaluated, Active
  <2> QED
    BY <2>5, <2>6, <2>7
<1> QED
  BY <1>1, AlwaysInv, PTL
==============================================================================
