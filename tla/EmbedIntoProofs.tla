---------------------------- MODULE EmbedIntoProofs ----------------------------
(***************************************************************************)
(* What .embed-into writes, proved for any processes, Ids, sources, models *)
(* and widths, any chunk and request sizes, with every failure and restart *)
(* of the model: vectors of their own rows' texts, one model and one width *)
(* in a table and no Id twice unless statements overlapped, and no Id of a *)
(* source missing after a statement that ended well.                       *)
(***************************************************************************)
EXTENDS EmbedInto, SequenceTheorems, WellFoundedInduction, TLAPS

Run == [pc : PC, source : Seq(Ids), view : Seq(Seq(Row)), known : BOOLEAN,
        todo : Seq(Ids), at : Nat, got : Seq(Vector), attempt : Nat]

\* No extent is empty.
Types ==
  /\ extents \in Seq(Seq(Row)) /\ \A i \in DOMAIN extents : extents[i] # << >>
  /\ created \in BOOLEAN
  /\ model \in [Procs -> Models]
  /\ width \in [Procs -> Widths \cup {0}]
  /\ run \in [Procs -> Run]
  /\ started \in Nat
  /\ overlapped \in BOOLEAN

\* The Ids a statement has still to write.
Remaining(r) == {r.todo[i] : i \in (r.at + 1)..Len(r.todo)}

\* What a statement has done so far is a beginning of what it has to do: its chunk
\* begins after the rows it has written, and the vectors it has are of the chunk's
\* first texts, in their order.
Progress(r) ==
  /\ r.at <= Len(r.todo)
  /\ r.pc \in {"chunk", "request", "write", "flush"} => r.at < Len(r.todo)
  /\ r.pc = "ok" => r.at = Len(r.todo)
  /\ r.pc \in {"request", "write", "flush"} =>
       /\ Len(r.got) <= Len(Chunk(r))
       /\ \A i \in DOMAIN r.got : r.got[i].text = Chunk(r)[i]
  /\ r.pc \in {"write", "flush"} => Len(r.got) = Len(Chunk(r))

\* Every Id of its source is in the table or still to be written.
Covered(r) == ToSet(r.source) \subseteq IdsIn(extents) \cup Remaining(r)

OwnInv == Types /\ (\A p \in Procs : Progress(run[p]) /\ Covered(run[p])) /\ OwnVector

\* A statement that runs alone: what it read at its beginning is what is there, but for
\* what it wrote itself.
AloneInv(p) ==
  /\ \A q \in Procs : Running(q) => q = p
  /\ run[p].view = extents
  /\ \A row \in Stored : row.model = model[p]
  /\ run[p].pc \in {"request", "write", "flush"} =>
       \A i \in DOMAIN run[p].got : run[p].got[i].width = width[p]
  /\ run[p].pc = "flush" => \A row \in Stored : row.vec.width = run[p].got[1].width
  /\ \A i, j \in (run[p].at + 1)..Len(run[p].todo) : run[p].todo[i] = run[p].todo[j] => i = j
  /\ Remaining(run[p]) \cap IdsIn(extents) = {}

SpaceInv ==
  /\ OneSpace /\ EachIdOnce
  /\ ~overlapped => \A p \in Procs : Running(p) => AloneInv(p)
------------------------------------------------------------------------------
(* What the loop over the source computes.  Induction is over a set of       *)
(* numbers: one that is not all of Nat misses a least one.                   *)

LEMMA SetInduction ==
  ASSUME NEW S \in SUBSET Nat, 0 \in S, \A n \in S : n + 1 \in S
  PROVE  Nat \subseteq S
<1> DEFINE T == Nat \ S
<1>1. SUFFICES ASSUME T # {} PROVE FALSE
  OBVIOUS
<1>2. IsWellFoundedOn(OpToRel(<, Nat), Nat)
  BY NatLessThanWellFounded
<1>3. \E x \in T : \A y \in T : ~ (<<y, x>> \in OpToRel(<, Nat))
  BY <1>1, <1>2, WFMin, Zenon
<1>4. PICK x \in T : \A y \in T : ~ (<<y, x>> \in OpToRel(<, Nat))
  BY <1>3
<1>5. x - 1 \in S
  <2>1. x # 0
    OBVIOUS
  <2>2. x - 1 \in Nat /\ x - 1 < x
    BY <2>1
  <2>3. <<x - 1, x>> \in OpToRel(<, Nat)
    BY <2>2 DEF OpToRel
  <2> QED
    BY <1>4, <2>2, <2>3
<1> QED
  BY <1>5

\* One round of the loop.
Round(source, have, kept, n) ==
  IF n = 0 THEN << >>
  ELSE IF source[n] \in have THEN kept[n - 1] ELSE Append(kept[n - 1], source[n])

LEMMA LoopRuns ==
  ASSUME NEW source, NEW have, Len(source) \in Nat
  PROVE  Without(source, have) =
           [n \in 0..Len(source) |-> Round(source, have, Without(source, have), n)]
<1> DEFINE Partial(m) == \E kept : kept = [n \in 0..m |-> Round(source, have, kept, n)]
           S == {m \in Nat : Partial(m)}
<1>1. 0 \in S
  <2> DEFINE g == [n \in 0..0 |-> << >>]
  <2>1. g = [n \in 0..0 |-> Round(source, have, g, n)]
    BY DEF Round
  <2> QED
    BY <2>1
<1>2. ASSUME NEW m \in S PROVE m + 1 \in S
  <2>1. PICK kept : kept = [n \in 0..m |-> Round(source, have, kept, n)]
    BY <1>2
  <2> DEFINE g == [n \in 0..(m + 1) |-> IF n = m + 1 THEN Round(source, have, kept, n) ELSE kept[n]]
  <2>2. ASSUME NEW n \in 0..(m + 1) PROVE g[n] = Round(source, have, g, n)
    <3>1. CASE n = m + 1
      <4>1. g[n] = Round(source, have, kept, n) /\ n - 1 \in 0..m
        BY <3>1
      <4>2. g[n - 1] = kept[n - 1]
        BY <4>1
      <4> QED
        BY <4>1, <4>2 DEF Round
    <3>2. CASE n # m + 1
      <4>1. n \in 0..m /\ g[n] = kept[n]
        BY <3>2
      <4>2. kept[n] = Round(source, have, kept, n)
        BY <4>1, <2>1
      <4>3. n # 0 => n - 1 \in 0..(m + 1) /\ g[n - 1] = kept[n - 1]
        BY <4>1
      <4> QED
        BY <4>1, <4>2, <4>3 DEF Round
    <3> QED
      BY <3>1, <3>2
  <2>3. g = [n \in 0..(m + 1) |-> Round(source, have, g, n)]
    BY <2>2
  <2>4. Partial(m + 1)
    BY <2>3
  <2> QED
    BY <2>4
<1>3. Len(source) \in S
  BY <1>1, <1>2, SetInduction
<1>4. \E kept : kept = [n \in 0..Len(source) |-> Round(source, have, kept, n)]
  BY <1>3
<1> QED
  BY <1>4 DEF Without, Round

LEMMA Rounds ==
  ASSUME NEW source \in Seq(Ids), NEW have
  PROVE  LET kept == Without(source, have)
         IN  /\ kept[0] = << >>
             /\ \A n \in 1..Len(source) :
                  kept[n] = IF source[n] \in have THEN kept[n - 1] ELSE Append(kept[n - 1], source[n])
<1> DEFINE kept == Without(source, have)
<1>1. Len(source) \in Nat
  OBVIOUS
<1>r. kept = [n \in 0..Len(source) |-> Round(source, have, kept, n)]
  BY <1>1, LoopRuns
<1> HIDE DEF kept
<1>2. \A n \in 0..Len(source) : kept[n] = Round(source, have, kept, n)
  BY <1>r
<1>3. kept[0] = << >>
  BY <1>1, <1>2 DEF Round
<1>4. ASSUME NEW n \in 1..Len(source)
      PROVE  kept[n] = IF source[n] \in have THEN kept[n - 1] ELSE Append(kept[n - 1], source[n])
  <2>1. n \in 0..Len(source) /\ n # 0
    BY <1>1
  <2> QED
    BY <2>1, <1>2 DEF Round
<1> QED
  BY <1>3, <1>4 DEF kept

\* What is kept of the first n Ids.
KeptSoFar(source, have, kept, n) ==
  /\ kept \in Seq(Ids)
  /\ \A id : (\E i \in 1..Len(kept) : kept[i] = id) <=> (id \notin have /\ \E j \in 1..n : source[j] = id)
  /\ Unique(source) => Unique(kept)

LEMMA KeepsOn ==
  ASSUME NEW source \in Seq(Ids), NEW have, NEW n \in Nat, n + 1 <= Len(source), NEW k, NEW k2,
         KeptSoFar(source, have, k, n),
         k2 = IF source[n + 1] \in have THEN k ELSE Append(k, source[n + 1])
  PROVE  KeptSoFar(source, have, k2, n + 1)
<1>0. k \in Seq(Ids) /\ n + 1 \in 1..Len(source) /\ source[n + 1] \in Ids
  BY DEF KeptSoFar
<1>1. CASE source[n + 1] \in have
  <2>1. k2 = k
    BY <1>1
  <2>2. ASSUME NEW id PROVE (id \notin have /\ \E j \in 1..(n + 1) : source[j] = id) <=> (id \notin have /\ \E j \in 1..n : source[j] = id)
    BY <1>1
  <2> QED
    BY <2>1, <2>2 DEF KeptSoFar
<1>2. CASE source[n + 1] \notin have
  <2>1. k2 = Append(k, source[n + 1]) /\ k2 \in Seq(Ids) /\ Len(k2) = Len(k) + 1
    BY <1>0, <1>2
  <2>2. k2[Len(k) + 1] = source[n + 1] /\ \A i \in 1..Len(k) : k2[i] = k[i]
    BY <1>0, <2>1
  <2>3. ASSUME NEW id
        PROVE  (\E i \in 1..Len(k2) : k2[i] = id) <=> (id \notin have /\ \E j \in 1..(n + 1) : source[j] = id)
    <3>1. (\E i \in 1..Len(k) : k[i] = id) <=> (id \notin have /\ \E j \in 1..n : source[j] = id)
      BY DEF KeptSoFar
    <3>2. (\E i \in 1..Len(k2) : k2[i] = id) <=> (id = source[n + 1] \/ \E i \in 1..Len(k) : k[i] = id)
      BY <1>0, <2>1, <2>2
    <3>3. (\E j \in 1..(n + 1) : source[j] = id) <=> (id = source[n + 1] \/ \E j \in 1..n : source[j] = id)
      <4>1. \A j \in 1..(n + 1) : j = n + 1 \/ j \in 1..n
        OBVIOUS
      <4>2. n + 1 \in 1..(n + 1) /\ \A j \in 1..n : j \in 1..(n + 1)
        OBVIOUS
      <4> QED
        BY <4>1, <4>2
    <3> QED
      BY <1>2, <3>1, <3>2, <3>3
  <2>4. ASSUME Unique(source) PROVE Unique(k2)
    <3>1. SUFFICES ASSUME NEW i \in 1..Len(k2), NEW j \in 1..Len(k2), k2[i] = k2[j], i < j PROVE FALSE
      BY <2>1 DEF Unique
    <3>2. i \in 1..Len(k) /\ k2[i] = k[i]
      BY <1>0, <2>1, <2>2, <3>1
    <3>3. CASE j \in 1..Len(k)
      BY <1>0, <2>2, <2>4, <3>1, <3>2, <3>3 DEF KeptSoFar, Unique
    <3>4. CASE j = Len(k) + 1
      <4>1. k[i] = source[n + 1]
        BY <2>2, <3>1, <3>2, <3>4
      <4>2. PICK m \in 1..n : source[m] = source[n + 1]
        BY <3>2, <4>1 DEF KeptSoFar
      <4>3. m \in DOMAIN source /\ n + 1 \in DOMAIN source /\ m # n + 1
        BY <1>0, <4>2
      <4> QED
        BY <2>4, <4>2, <4>3 DEF Unique
    <3>5. j \in 1..Len(k) \/ j = Len(k) + 1
      <4>1. Len(k) \in Nat
        BY <1>0
      <4>2. j \in 1..(Len(k) + 1)
        BY <2>1, <3>1
      <4> QED
        BY <4>1, <4>2
    <3> QED
      BY <3>3, <3>4, <3>5
  <2> QED
    BY <2>1, <2>3, <2>4 DEF KeptSoFar
<1> QED
  BY <1>1, <1>2

LEMMA LoopKeeps ==
  ASSUME NEW source \in Seq(Ids), NEW have
  PROVE  KeptSoFar(source, have, Without(source, have)[Len(source)], Len(source))
<1> DEFINE W == Without(source, have)
           S == {n \in Nat : n <= Len(source) => KeptSoFar(source, have, W[n], n)}
<1>0. /\ W[0] = << >>
      /\ \A n \in 1..Len(source) :
           W[n] = IF source[n] \in have THEN W[n - 1] ELSE Append(W[n - 1], source[n])
  BY Rounds
<1>l. Len(source) \in Nat
  OBVIOUS
<1> HIDE DEF W
<1>1. 0 \in S
  <2>1. W[0] \in Seq(Ids) /\ Len(W[0]) = 0 /\ 1..0 = {}
    BY <1>0
  <2>2. KeptSoFar(source, have, W[0], 0)
    BY <2>1 DEF KeptSoFar, Unique
  <2> QED
    BY <2>2
<1>2. ASSUME NEW n \in S PROVE n + 1 \in S
  <2>1. SUFFICES ASSUME n + 1 <= Len(source) PROVE KeptSoFar(source, have, W[n + 1], n + 1)
    BY <1>2
  <2>2. n \in Nat /\ n <= Len(source) /\ KeptSoFar(source, have, W[n], n)
    BY <1>2, <2>1, <1>l
  <2>3. n + 1 \in 1..Len(source) /\ (n + 1) - 1 = n
    BY <2>1, <2>2, <1>l
  <2>4. W[n + 1] = IF source[n + 1] \in have THEN W[n] ELSE Append(W[n], source[n + 1])
    BY <1>0, <2>3
  <2> QED
    BY <2>1, <2>2, <2>4, KeepsOn
<1>3. Len(source) \in S
  <2> HIDE DEF S
  <2>1. S \in SUBSET Nat
    BY DEF S
  <2> QED
    BY <1>1, <1>2, <1>l, <2>1, SetInduction
<1> QED
  BY <1>3, <1>l DEF W

\* A statement embeds what the table does not have of its source, and nothing twice.
LEMMA PendingIs ==
  ASSUME NEW source \in Seq(Ids), NEW view
  PROVE  LET todo == Pending(source, view)
         IN  /\ todo \in Seq(Ids)
             /\ \A id : (\E i \in DOMAIN todo : todo[i] = id)
                          <=> (id \notin IdsIn(view) /\ \E j \in DOMAIN source : source[j] = id)
             /\ Unique(source) => Unique(todo)
<1> DEFINE todo == Pending(source, view)
<1>1. KeptSoFar(source, IdsIn(view), todo, Len(source))
  BY LoopKeeps DEF Pending
<1> HIDE DEF todo
<1>2. todo \in Seq(Ids) /\ DOMAIN todo = 1..Len(todo) /\ DOMAIN source = 1..Len(source)
  BY <1>1 DEF KeptSoFar
<1>3. QED
  BY <1>1, <1>2, Zenon DEF KeptSoFar, todo

------------------------------------------------------------------------------
(* Chunks, requests and replies.                                             *)

LEMMA ChunkIs ==
  ASSUME NEW r \in Run, r.at <= Len(r.todo)
  PROVE  /\ Chunk(r) \in Seq(Ids)
         /\ Len(Chunk(r)) = Least(r.at + CommitRows, Len(r.todo)) - r.at
         /\ Len(Chunk(r)) \in Nat /\ r.at + Len(Chunk(r)) <= Len(r.todo)
         /\ r.at < Len(r.todo) => Len(Chunk(r)) > 0
         /\ \A i \in 1..Len(Chunk(r)) : Chunk(r)[i] = r.todo[r.at + i] /\ r.at + i \in 1..Len(r.todo)
<1> DEFINE a == r.at
           z == Least(a + CommitRows, Len(r.todo))
<1>1. a \in Nat /\ r.todo \in Seq(Ids) /\ CommitRows \in Nat \ {0}
  BY BoundsAssumption DEF Run
<1>2. Len(r.todo) \in Nat /\ z \in Nat /\ a <= z /\ z <= Len(r.todo) /\ (a < Len(r.todo) => a < z)
  BY <1>1 DEF Least
<1>3. \A i \in (a + 1)..z : r.todo[i] \in Ids
  BY <1>1, <1>2
<1>c. Chunk(r) = SubSeq(r.todo, a + 1, z)
  BY DEF Chunk
<1> HIDE DEF a, z
<1>4. a + 1 \in Int /\ z \in Int
  BY <1>1, <1>2
<1>5. /\ Chunk(r) \in Seq(Ids)
      /\ Len(Chunk(r)) = IF a + 1 <= z THEN z - (a + 1) + 1 ELSE 0
      /\ \A i \in 1..(z - (a + 1) + 1) : Chunk(r)[i] = r.todo[(a + 1) + i - 1]
  BY <1>3, <1>4, <1>c, SubSeqProperties
<1>6. Len(Chunk(r)) = z - a
  BY <1>1, <1>2, <1>5
<1>7. ASSUME NEW i \in 1..(z - a) PROVE Chunk(r)[i] = r.todo[a + i] /\ a + i \in 1..Len(r.todo)
  <2>1. i \in 1..(z - (a + 1) + 1) /\ (a + 1) + i - 1 = a + i
    BY <1>1, <1>2
  <2> QED
    BY <1>1, <1>2, <1>5, <2>1
<1>8. z - a \in Nat /\ a + (z - a) <= Len(r.todo) /\ (a < Len(r.todo) => z - a > 0)
  BY <1>1, <1>2
<1> QED
  BY <1>5, <1>6, <1>7, <1>8 DEF a, z

LEMMA TextsAre ==
  ASSUME NEW r \in Run, r.at <= Len(r.todo), Len(r.got) <= Len(Chunk(r))
  PROVE  /\ Len(Texts(r)) \in Nat /\ Len(r.got) + Len(Texts(r)) <= Len(Chunk(r))
         /\ \A i \in 1..Len(Texts(r)) : Texts(r)[i] = Chunk(r)[Len(r.got) + i] /\ Texts(r)[i] \in Ids
<1> DEFINE c == Chunk(r)
           g == Len(r.got)
           z == Least(g + MaxBatch, Len(c))
<1>1. g \in Nat /\ c \in Seq(Ids) /\ Len(c) \in Nat /\ MaxBatch \in Nat \ {0} /\ g <= Len(c)
  <2>1. c \in Seq(Ids) /\ Len(c) \in Nat
    BY ChunkIs
  <2> QED
    BY <2>1, BoundsAssumption DEF Run
<1>t. Texts(r) = SubSeq(c, g + 1, z)
  BY DEF Texts
<1> HIDE DEF c, g
<1>2. z \in Nat /\ g <= z /\ z <= Len(c)
  BY <1>1 DEF Least
<1> HIDE DEF z
<1>3. \A i \in (g + 1)..z : c[i] \in Ids
  BY <1>1, <1>2
<1>4. g + 1 \in Int /\ z \in Int
  BY <1>1, <1>2
<1>5. /\ Len(Texts(r)) = IF g + 1 <= z THEN z - (g + 1) + 1 ELSE 0
      /\ \A i \in 1..(z - (g + 1) + 1) : Texts(r)[i] = c[(g + 1) + i - 1]
  BY <1>3, <1>4, <1>t, SubSeqProperties
<1>6. Len(Texts(r)) = z - g
  BY <1>1, <1>2, <1>5
<1>7. ASSUME NEW i \in 1..(z - g) PROVE Texts(r)[i] = c[g + i] /\ Texts(r)[i] \in Ids
  <2>1. i \in 1..(z - (g + 1) + 1) /\ (g + 1) + i - 1 = g + i /\ g + i \in (g + 1)..z
    BY <1>1, <1>2
  <2> QED
    BY <1>3, <1>5, <2>1
<1> QED
  BY <1>1, <1>2, <1>6, <1>7 DEF c, g

LEMMA SortedIs ==
  ASSUME NEW n \in Nat, NEW reply \in Replies(n), NEW data \in Sorted(reply)
  PROVE  /\ data \in Seq([index : 1..n, width : Widths])
         /\ Len(data) <= n
<1>1. PICK m \in 0..n : reply \in [1..m -> [index : 1..n, width : Widths]]
  BY DEF Replies
<1>2. PICK order \in Bijection(DOMAIN reply, DOMAIN reply) : data = [i \in DOMAIN reply |-> reply[order[i]]]
  BY DEF Sorted
<1>3. order \in [1..m -> 1..m]
  BY <1>1, <1>2 DEF Bijection, Injection
<1>4. data \in [1..m -> [index : 1..n, width : Widths]]
  BY <1>1, <1>2, <1>3
<1>5. data \in Seq([index : 1..n, width : Widths])
  <2> DEFINE R == [index : 1..n, width : Widths]
  <2>1. data \in [1..m -> R] /\ m \in Nat
    BY <1>4
  <2> HIDE DEF R
  <2>2. data \in Seq(R)
    BY <2>1
  <2> QED
    BY <2>2 DEF R
<1>6. DOMAIN data = 1..m /\ Len(data) = m
  BY <1>4
<1> QED
  BY <1>5, <1>6

------------------------------------------------------------------------------
(* Steps that write nothing.                                                 *)

SameTask(r, s) == r.source = s.source /\ r.view = s.view /\ r.todo = s.todo /\ r.at = s.at

LEMMA RunOf ==
  ASSUME Types, NEW p \in Procs
  PROVE  /\ run[p] \in Run
         /\ run[p].pc \in PC /\ run[p].source \in Seq(Ids) /\ run[p].view \in Seq(Seq(Row))
         /\ run[p].todo \in Seq(Ids) /\ run[p].at \in Nat /\ run[p].got \in Seq(Vector)
         /\ run[p].attempt \in Nat
  BY DEF Types, Run

\* A statement's next chunk is its own business.
LEMMA QuietStep ==
  ASSUME OwnInv, NEW p \in Procs, NEW r \in Run, SameTask(r, run[p]), Progress(r),
         run' = [run EXCEPT ![p] = r], width' \in [Procs -> Widths \cup {0}],
         created' \in BOOLEAN, UNCHANGED <<extents, model, started, overlapped>>
  PROVE  OwnInv'
<1>1. Types'
  BY DEF OwnInv, Types
<1>2. OwnVector'
  BY DEF OwnInv, OwnVector, Stored
<1>3. ASSUME NEW q \in Procs PROVE Progress(run'[q]) /\ Covered(run[q])'
  <2>1. CASE q = p
    <3>1. run'[q] = r
      BY <2>1 DEF OwnInv, Types
    <3>2. Covered(run[p])
      BY DEF OwnInv
    <3>3. IdsIn(extents') = IdsIn(extents)
      OBVIOUS
    <3>4. r.source = run[p].source /\ Remaining(r) = Remaining(run[p])
      BY DEF SameTask, Remaining
    <3> QED
      BY <3>1, <3>2, <3>3, <3>4 DEF Covered
  <2>2. CASE q # p
    <3>1. run'[q] = run[q]
      BY <2>2 DEF OwnInv, Types
    <3>2. Covered(run[q]) /\ Progress(run[q])
      BY DEF OwnInv
    <3>3. IdsIn(extents') = IdsIn(extents)
      OBVIOUS
    <3> QED
      BY <3>1, <3>2, <3>3 DEF Covered
  <2> QED
    BY <2>1, <2>2
<1> QED
  BY <1>1, <1>2, <1>3 DEF OwnInv, Progress

\* And while it runs alone, what it read still is what there is.
LEMMA QuietAlone ==
  ASSUME OwnInv, SpaceInv, NEW p \in Procs, NEW r \in Run, SameTask(r, run[p]),
         Running(p), run' = [run EXCEPT ![p] = r],
         UNCHANGED <<extents, model, started, overlapped>>,
         r.pc \in {"request", "write", "flush"} /\ ~overlapped =>
           \A i \in DOMAIN r.got : r.got[i].width = width'[p],
         r.pc = "flush" /\ ~overlapped => \A row \in Stored : row.vec.width = r.got[1].width
  PROVE  SpaceInv'
<1>1. (OneSpace /\ EachIdOnce)'
  BY DEF SpaceInv, OneSpace, EachIdOnce, Stored
<1>2. ASSUME ~overlapped, NEW q \in Procs, Running(q)' PROVE AloneInv(q)'
  <2>0. run \in [Procs -> Run]
    BY DEF OwnInv, Types
  <2>1. AloneInv(p)
    BY <1>2 DEF SpaceInv
  <2>2. q = p
    BY <1>2, <2>0, <2>1 DEF AloneInv, Running
  <2>3. run'[p] = r
    BY <2>0
  <2>4. \A x \in Procs : Running(x)' => x = p
    BY <2>0, <2>1 DEF AloneInv, Running
  <2>5. Stored' = Stored /\ IdsIn(extents') = IdsIn(extents)
    BY DEF Stored
  <2>6. Remaining(r) = Remaining(run[p])
    BY DEF SameTask, Remaining
  <2> QED
    BY <1>2, <2>1, <2>2, <2>3, <2>4, <2>5, <2>6 DEF AloneInv, SameTask
<1> QED
  BY <1>1, <1>2 DEF SpaceInv

LEMMA Chunking ==
  ASSUME NEW r, NEW s, r.todo = s.todo, r.at = s.at
  PROVE  Chunk(r) = Chunk(s)
  BY DEF Chunk

\* A statement that fails.
LEMMA Failing ==
  ASSUME OwnInv, SpaceInv, NEW p \in Procs, Running(p), Goto(p, "failed"),
         width' \in [Procs -> Widths \cup {0}], created' \in BOOLEAN,
         UNCHANGED <<extents, model, started, overlapped>>
  PROVE  OwnInv' /\ SpaceInv'
<1> DEFINE r == [run[p] EXCEPT !.pc = "failed"]
<1>1. run[p] \in Run /\ run[p].at <= Len(run[p].todo)
  BY RunOf DEF OwnInv, Progress
<1>2. r \in Run /\ SameTask(r, run[p]) /\ r.pc = "failed"
  BY <1>1 DEF Run, SameTask, PC, Idle, Outcomes
<1>3. run' = [run EXCEPT ![p] = r]
  BY DEF Goto
<1> HIDE DEF r
<1>4. Progress(r)
  BY <1>1, <1>2 DEF Progress, SameTask
<1> QED
  BY <1>2, <1>3, <1>4, QuietStep, QuietAlone

LEMMA NextChunkStep ==
  ASSUME OwnInv, SpaceInv, NEW p \in Procs, NextChunk(p)
  PROVE  OwnInv' /\ SpaceInv'
<1>1. /\ run[p].pc = "chunk" /\ Running(p) /\ width' \in [Procs -> Widths \cup {0}] /\ created' \in BOOLEAN
      /\ UNCHANGED <<extents, model, started, overlapped>>
  BY DEF NextChunk, Unwritten, Running, Idle, Outcomes, OwnInv, Types
<1>2. CASE Goto(p, "failed")
  BY <1>1, <1>2, Failing
<1>3. CASE run' = [run EXCEPT ![p].pc = "request", ![p].got = << >>, ![p].attempt = 0]
  <2> DEFINE r == [run[p] EXCEPT !.pc = "request", !.got = << >>, !.attempt = 0]
  <2>1. run[p] \in Run /\ run[p].at < Len(run[p].todo)
    BY <1>1, RunOf DEF OwnInv, Progress
  <2>2. r \in Run /\ SameTask(r, run[p]) /\ r.pc = "request" /\ r.got = << >>
    <3>1. << >> \in Seq(Vector) /\ "request" \in PC /\ 0 \in Nat
      BY DEF PC
    <3>2. r \in Run
      BY <2>1, <3>1 DEF Run
    <3>3. SameTask(r, run[p]) /\ r.pc = "request" /\ r.got = << >>
      BY <2>1 DEF Run, SameTask
    <3> QED
      BY <3>2, <3>3
  <2>3. run' = [run EXCEPT ![p] = r]
    BY <1>3 DEF OwnInv, Types
  <2> HIDE DEF r
  <2>4. Progress(r)
    <3>1. r.at < Len(r.todo) /\ r.at <= Len(r.todo)
      BY <2>1, <2>2 DEF SameTask, Run
    <3>2. Len(Chunk(r)) \in Nat
      BY <2>2, <3>1, ChunkIs
    <3> QED
      BY <2>2, <3>1, <3>2 DEF Progress
  <2>5. OwnInv'
    BY <1>1, <2>2, <2>3, <2>4, QuietStep
  <2>6. (\A i \in DOMAIN r.got : r.got[i].width = width'[p]) /\ r.pc # "flush"
    BY <2>2
  <2>7. SpaceInv'
    BY <1>1, <2>2, <2>3, <2>6, QuietAlone
  <2> QED
    BY <2>5, <2>7
<1> QED
  BY <1>2, <1>3 DEF NextChunk

LEMMA HiccupStep ==
  ASSUME OwnInv, SpaceInv, NEW p \in Procs, Hiccup(p)
  PROVE  OwnInv' /\ SpaceInv'
<1>1. /\ run[p].pc = "request" /\ Running(p) /\ width' \in [Procs -> Widths \cup {0}] /\ created' \in BOOLEAN
      /\ UNCHANGED <<extents, model, started, overlapped>> /\ width' = width
  BY DEF Hiccup, Unwritten, Running, Idle, Outcomes, OwnInv, Types
<1>2. run[p] \in Run
  BY RunOf DEF OwnInv
<1>3. CASE Goto(p, "failed")
  BY <1>1, <1>3, Failing
<1>4. CASE run' = [run EXCEPT ![p].attempt = @ + 1]
  <2> DEFINE r == [run[p] EXCEPT !.attempt = run[p].attempt + 1]
  <2>1. run[p].attempt + 1 \in Nat
    BY <1>2 DEF Run
  <2>2. r \in Run
    BY <1>2, <2>1 DEF Run
  <2>3. SameTask(r, run[p]) /\ r.pc = "request" /\ r.got = run[p].got
    BY <1>1, <1>2 DEF Run, SameTask
  <2>4. run' = [run EXCEPT ![p] = r]
    BY <1>4
  <2> HIDE DEF r
  <2>5. Progress(r)
    <3>1. Progress(run[p])
      BY DEF OwnInv
    <3>2. Chunk(r) = Chunk(run[p])
      BY <2>3, Chunking DEF SameTask
    <3> QED
      BY <1>1, <2>3, <3>1, <3>2 DEF Progress, SameTask
  <2>6. ~overlapped => \A i \in DOMAIN r.got : r.got[i].width = width'[p]
    BY <1>1, <2>3 DEF SpaceInv, AloneInv
  <2>7. OwnInv'
    BY <1>1, <2>2, <2>3, <2>4, <2>5, QuietStep
  <2>8. SpaceInv'
    BY <1>1, <2>2, <2>3, <2>4, <2>6, QuietAlone
  <2> QED
    BY <2>7, <2>8
<1> QED
  BY <1>3, <1>4 DEF Hiccup

LEMMA RejectStep ==
  ASSUME OwnInv, SpaceInv, NEW p \in Procs, Reject(p)
  PROVE  OwnInv' /\ SpaceInv'
<1>1. /\ Running(p) /\ width' \in [Procs -> Widths \cup {0}] /\ created' \in BOOLEAN
      /\ UNCHANGED <<extents, model, started, overlapped>> /\ Goto(p, "failed")
  BY DEF Reject, Unwritten, Running, Idle, Outcomes, OwnInv, Types
<1> QED
  BY <1>1, Failing

LEMMA FlushFailsStep ==
  ASSUME OwnInv, SpaceInv, NEW p \in Procs, FlushFails(p)
  PROVE  OwnInv' /\ SpaceInv'
<1>1. /\ Running(p) /\ width' \in [Procs -> Widths \cup {0}] /\ created' \in BOOLEAN
      /\ UNCHANGED <<extents, model, started, overlapped>> /\ Goto(p, "failed")
  BY DEF FlushFails, Running, Idle, Outcomes, OwnInv, Types
<1> QED
  BY <1>1, Failing

LEMMA VectorFields ==
  ASSUME NEW t, NEW w, NEW v, v = [text |-> t, width |-> w]
  PROVE  v.text = t /\ v.width = w
  OBVIOUS

LEMMA AnswerStep ==
  ASSUME OwnInv, SpaceInv, NEW p \in Procs, Answer(p)
  PROVE  OwnInv' /\ SpaceInv'
<1> DEFINE texts == Texts(run[p])
<1>1. /\ run[p].pc = "request" /\ Running(p) /\ created' \in BOOLEAN
      /\ UNCHANGED <<extents, model, started, overlapped>>
  BY DEF Answer, Unwritten, Running, Idle, Outcomes, OwnInv, Types
<1>2. /\ run[p] \in Run /\ run[p].at < Len(run[p].todo) /\ run[p].at <= Len(run[p].todo)
      /\ Len(run[p].got) <= Len(Chunk(run[p])) /\ run[p].got \in Seq(Vector)
      /\ width \in [Procs -> Widths \cup {0}]
  BY <1>1, RunOf DEF OwnInv, Progress, Types, Run
<1>3. /\ Len(texts) \in Nat /\ Len(run[p].got) + Len(texts) <= Len(Chunk(run[p]))
      /\ \A i \in 1..Len(texts) :
           texts[i] = Chunk(run[p])[Len(run[p].got) + i] /\ texts[i] \in Ids
  BY <1>2, TextsAre
<1> DEFINE Effect(data) ==
             LET good == WellFormed(p, data)
                 got == run[p].got \o [i \in DOMAIN data |-> [text |-> texts[data[i].index], width |-> data[i].width]]
                 whole == Len(got) = Len(Chunk(run[p]))
             IN  /\ run' = [run EXCEPT ![p] =
                       IF good /\ Len(data) = Len(texts)
                       THEN [run[p] EXCEPT !.got = got, !.attempt = 0, !.pc = IF whole THEN "write" ELSE "request"]
                       ELSE [run[p] EXCEPT !.pc = "failed"]]
                 /\ width' = [width EXCEPT ![p] = IF good THEN data[1].width ELSE width[p]]
<1>e. \E reply \in Replies(Len(texts)) : \E data \in Sorted(reply) : Effect(data)
  BY DEF Answer
<1>r. PICK reply \in Replies(Len(texts)) : \E data \in Sorted(reply) : Effect(data)
  BY <1>e
<1>4. PICK data \in Sorted(reply) : Effect(data)
  BY <1>r
<1>w. WellFormed(p, data) /\ Len(data) = Len(texts) =>
        run' = [run EXCEPT ![p] =
          [run[p] EXCEPT !.got = run[p].got \o [i \in DOMAIN data |-> [text |-> texts[data[i].index], width |-> data[i].width]],
                         !.attempt = 0,
                         !.pc = IF Len(run[p].got \o [i \in DOMAIN data |-> [text |-> texts[data[i].index], width |-> data[i].width]])
                                   = Len(Chunk(run[p])) THEN "write" ELSE "request"]]
  BY <1>4
<1>f. ~(WellFormed(p, data) /\ Len(data) = Len(texts)) => Goto(p, "failed")
  BY <1>4 DEF Goto
<1>v. width' = [width EXCEPT ![p] = IF WellFormed(p, data) THEN data[1].width ELSE width[p]]
  BY <1>4
<1> HIDE DEF texts, Effect
<1>5. data \in Seq([index : 1..Len(texts), width : Widths])
  BY <1>3, SortedIs
<1>6. DOMAIN data = 1..Len(data) /\ Len(data) \in Nat
      /\ \A i \in 1..Len(data) : data[i].index \in 1..Len(texts) /\ data[i].width \in Widths
  <2> DEFINE R == [index : 1..Len(texts), width : Widths]
  <2>1. \A x \in R : x.index \in 1..Len(texts) /\ x.width \in Widths
    OBVIOUS
  <2>2. data \in Seq(R)
    BY <1>5
  <2> HIDE DEF R
  <2>3. DOMAIN data = 1..Len(data) /\ Len(data) \in Nat /\ \A i \in 1..Len(data) : data[i] \in R
    BY <2>2
  <2> QED
    BY <2>1, <2>3
<1>7. width' \in [Procs -> Widths \cup {0}]
  <2>1. CASE WellFormed(p, data)
    <3>1. data # << >> /\ 1 \in 1..Len(data)
      BY <1>5, <1>6, <2>1 DEF WellFormed
    <3>2. data[1].width \in Widths
      BY <1>6, <3>1
    <3> QED
      BY <1>2, <1>v, <2>1, <3>2
  <2>2. CASE ~WellFormed(p, data)
    BY <1>2, <1>v, <2>2
  <2> QED
    BY <2>1, <2>2
<1>8. CASE ~(WellFormed(p, data) /\ Len(data) = Len(texts))
  <2>1. Goto(p, "failed")
    BY <1>8, <1>f
  <2> QED
    BY <1>1, <1>7, <2>1, Failing
<1>9. CASE WellFormed(p, data) /\ Len(data) = Len(texts)
  <2> DEFINE new == [i \in DOMAIN data |-> [text |-> texts[data[i].index], width |-> data[i].width]]
             got == run[p].got \o new
             r == [run[p] EXCEPT !.got = got, !.attempt = 0,
                                 !.pc = IF Len(got) = Len(Chunk(run[p])) THEN "write" ELSE "request"]
  <2>1. /\ \A i \in 1..Len(data) : data[i].index = i /\ data[i].width = data[1].width
        /\ width[p] \in {0, data[1].width}
    BY <1>6, <1>9 DEF WellFormed
  <2>2. /\ new \in Seq(Vector) /\ Len(new) = Len(texts)
        /\ \A i \in 1..Len(texts) : new[i].text = texts[i] /\ new[i].width = data[1].width
    <3>1. \A i \in 1..Len(data) : [text |-> texts[data[i].index], width |-> data[i].width] \in Vector
      BY <1>3, <1>6 DEF Vector
    <3>2. new \in [1..Len(data) -> Vector]
      BY <1>6, <3>1
    <3>3. new \in Seq(Vector) /\ Len(new) = Len(data)
      BY <1>6, <3>2
    <3>4. \A i \in 1..Len(data) : new[i] = [text |-> texts[i], width |-> data[1].width]
      BY <1>6, <2>1
    <3> HIDE DEF new
    <3>5. ASSUME NEW i \in 1..Len(data) PROVE new[i].text = texts[i] /\ new[i].width = data[1].width
      <4>1. new[i] = [text |-> texts[i], width |-> data[1].width]
        BY <3>4
      <4>2. new[i].text = texts[i]
        BY <4>1, VectorFields
      <4> DEFINE w == data[1].width
      <4>3. new[i] = [text |-> texts[i], width |-> w]
        BY <4>1
      <4> HIDE DEF w
      <4>4. new[i].width = w
        BY <4>3
      <4> QED
        BY <4>2, <4>4 DEF w
    <3> QED
      BY <1>9, <3>3, <3>5
  <2>3. run' = [run EXCEPT ![p] = r]
    BY <1>w, <1>9
  <2> HIDE DEF new
  <2>4. /\ got \in Seq(Vector) /\ Len(got) = Len(run[p].got) + Len(texts)
        /\ \A i \in 1..Len(run[p].got) : got[i] = run[p].got[i]
        /\ \A i \in 1..Len(texts) : got[Len(run[p].got) + i] = new[i]
    <3>1. /\ run[p].got \in Seq(Vector) /\ new \in Seq(Vector) /\ Len(run[p].got) \in Nat /\ Len(new) \in Nat
          /\ Len(new) = Len(texts)
      BY <1>2, <1>3, <2>2
    <3>2. /\ got \in Seq(Vector) /\ Len(got) = Len(run[p].got) + Len(new)
          /\ \A i \in 1..(Len(run[p].got) + Len(new)) :
               got[i] = IF i <= Len(run[p].got) THEN run[p].got[i] ELSE new[i - Len(run[p].got)]
      BY <3>1, ConcatProperties
    <3>3. ASSUME NEW i \in 1..Len(run[p].got) PROVE got[i] = run[p].got[i]
      BY <3>1, <3>2
    <3>4. ASSUME NEW i \in 1..Len(new) PROVE got[Len(run[p].got) + i] = new[i]
      <4>1. /\ Len(run[p].got) + i \in 1..(Len(run[p].got) + Len(new))
            /\ ~(Len(run[p].got) + i <= Len(run[p].got)) /\ (Len(run[p].got) + i) - Len(run[p].got) = i
        BY <3>1
      <4> QED
        BY <3>2, <4>1
    <3> QED
      BY <3>1, <3>2, <3>3, <3>4
  <2>5. Len(got) <= Len(Chunk(run[p])) /\ Len(got) \in Nat /\ Len(run[p].got) \in Nat
    BY <1>2, <1>3, <2>4
  <2> HIDE DEF got
  <2>6. r \in Run
    <3>1. {"write", "request"} \subseteq PC /\ 0 \in Nat
      BY DEF PC
    <3> QED
      BY <1>2, <2>4, <3>1 DEF Run
  <2>7. /\ SameTask(r, run[p]) /\ r.got = got /\ r.pc \in {"write", "request"}
        /\ r.pc = "write" => Len(got) = Len(Chunk(run[p]))
    BY <1>2 DEF Run, SameTask
  <2> HIDE DEF r
  <2>8. Chunk(r) = Chunk(run[p])
    BY <2>7, Chunking DEF SameTask
  <2>9. ASSUME NEW i \in 1..Len(got)
        PROVE  i \in 1..Len(run[p].got) \/ \E j \in 1..Len(texts) : i = Len(run[p].got) + j
    <3>1. CASE i > Len(run[p].got)
      <4>1. i - Len(run[p].got) \in 1..Len(texts)
        BY <1>3, <2>4, <2>5, <3>1
      <4>2. i = Len(run[p].got) + (i - Len(run[p].got))
        BY <2>5
      <4> QED
        BY <4>1, <4>2, Zenon
    <3>2. CASE ~(i > Len(run[p].got))
      BY <2>5, <3>2
    <3> QED
      BY <3>1, <3>2
  <2>10. \A i \in 1..Len(got) : got[i].text = Chunk(run[p])[i]
    <3>1. ASSUME NEW i \in 1..Len(run[p].got) PROVE got[i].text = Chunk(run[p])[i]
      <4>1. run[p].got[i].text = Chunk(run[p])[i]
        BY <1>1, <1>2 DEF OwnInv, Progress
      <4> QED
        BY <2>4, <4>1
    <3>2. ASSUME NEW j \in 1..Len(texts) PROVE got[Len(run[p].got) + j].text = Chunk(run[p])[Len(run[p].got) + j]
      BY <1>3, <2>2, <2>4
    <3> QED
      BY <2>9, <3>1, <3>2
  <2>11. Progress(r)
    <3>1. DOMAIN got = 1..Len(got)
      BY <2>4
    <3> QED
      BY <1>2, <2>5, <2>7, <2>8, <2>10, <3>1 DEF Progress, SameTask
  <2>12. width'[p] = data[1].width
    BY <1>2, <1>v, <1>9
  <2>13. ASSUME ~overlapped PROVE \A i \in DOMAIN r.got : r.got[i].width = width'[p]
    <3>1. ASSUME NEW i \in 1..Len(run[p].got) PROVE got[i].width = data[1].width
      <4>1. run[p].got[i].width = width[p] /\ run[p].got[i] \in Vector
        BY <1>1, <1>2, <2>13 DEF SpaceInv, AloneInv
      <4>2. width[p] \in Widths
        BY <4>1 DEF Vector
      <4>3. width[p] # 0
        BY <4>2, BoundsAssumption
      <4> QED
        BY <2>1, <2>4, <4>1, <4>3
    <3>2. ASSUME NEW j \in 1..Len(texts) PROVE got[Len(run[p].got) + j].width = data[1].width
      BY <2>2, <2>4
    <3>3. DOMAIN got = 1..Len(got)
      BY <2>4
    <3>4. ASSUME NEW i \in 1..Len(got) PROVE got[i].width = width'[p]
      <4>1. CASE i \in 1..Len(run[p].got)
        BY <2>12, <3>1, <4>1
      <4>2. CASE i \notin 1..Len(run[p].got)
        <5>1. PICK j \in 1..Len(texts) : i = Len(run[p].got) + j
          BY <2>9, <4>2
        <5> QED
          BY <2>12, <3>2, <5>1
      <4> QED
        BY <4>1, <4>2
    <3> QED
      BY <2>7, <3>3, <3>4
  <2>14. OwnInv'
    BY <1>1, <1>7, <2>3, <2>6, <2>7, <2>11, QuietStep
  <2>15. SpaceInv'
    BY <1>1, <2>3, <2>6, <2>7, <2>13, QuietAlone
  <2> QED
    BY <2>14, <2>15
<1> QED
  BY <1>8, <1>9

LEMMA StoredIs ==
  ASSUME Types
  PROVE  /\ \A row : row \in Stored <=> \E i \in DOMAIN extents : \E j \in DOMAIN extents[i] : row = extents[i][j]
         /\ \A id : id \in IdsIn(extents) <=> \E row \in Stored : id = row.id
         /\ \A s \in Samples(extents) : s \in Stored
  BY DEF Types, Stored, ToSet, IdsIn, Samples

LEMMA CheckStep ==
  ASSUME OwnInv, SpaceInv, NEW p \in Procs, Check(p)
  PROVE  OwnInv' /\ SpaceInv'
<1>1. /\ run[p].pc = "write" /\ Running(p) /\ width' = width /\ width' \in [Procs -> Widths \cup {0}]
      /\ UNCHANGED <<extents, model, started, overlapped>>
  BY DEF Check, Running, Idle, Outcomes, OwnInv, Types
<1>2. CASE Goto(p, "failed") /\ UNCHANGED created
  <2>1. created' \in BOOLEAN
    BY <1>2 DEF OwnInv, Types
  <2> QED
    BY <1>1, <1>2, <2>1, Failing
<1>3. CASE /\ run[p].view = << >> \/ \E s \in Samples(run[p].view) : ~WidthDiffers(s, run[p].got)
           /\ run' = [run EXCEPT ![p].pc = "flush", ![p].known = TRUE]
           /\ created' = TRUE
  <2> DEFINE r == [run[p] EXCEPT !.pc = "flush", !.known = TRUE]
  <2>1. run[p] \in Run /\ Types
    BY RunOf DEF OwnInv
  <2>2. r \in Run /\ SameTask(r, run[p]) /\ r.pc = "flush" /\ r.got = run[p].got
    <3>1. "flush" \in PC /\ TRUE \in BOOLEAN
      BY DEF PC
    <3>2. r \in Run
      BY <2>1, <3>1 DEF Run
    <3>3. SameTask(r, run[p]) /\ r.pc = "flush" /\ r.got = run[p].got
      BY <2>1 DEF Run, SameTask
    <3> QED
      BY <3>2, <3>3
  <2>3. run' = [run EXCEPT ![p] = r]
    BY <1>3, <2>1 DEF Types
  <2> HIDE DEF r
  <2>4. Progress(r)
    <3>1. Progress(run[p])
      BY DEF OwnInv
    <3>2. Chunk(r) = Chunk(run[p])
      BY <2>2, Chunking DEF SameTask
    <3> QED
      BY <1>1, <2>2, <3>1, <3>2 DEF Progress, SameTask
  <2>5. ASSUME ~overlapped
        PROVE  /\ \A i \in DOMAIN r.got : r.got[i].width = width'[p]
               /\ \A row \in Stored : row.vec.width = r.got[1].width
    <3>1. AloneInv(p)
      BY <1>1, <2>5 DEF SpaceInv
    <3>2. CASE run[p].view = << >>
      <4>1. extents = << >>
        BY <3>1, <3>2 DEF AloneInv
      <4>2. Stored = {}
        BY <4>1 DEF Stored
      <4> QED
        BY <1>1, <2>2, <3>1, <4>2 DEF AloneInv
    <3>3. CASE \E s \in Samples(run[p].view) : ~WidthDiffers(s, run[p].got)
      <4>1. PICK s \in Samples(extents) : s.vec.width = run[p].got[1].width
        BY <3>1, <3>3 DEF AloneInv, WidthDiffers
      <4>2. s \in Stored
        BY <2>1, <4>1, StoredIs
      <4>3. \A row \in Stored : row.vec.width = s.vec.width
        BY <2>5, <4>2 DEF SpaceInv, OneSpace
      <4> QED
        BY <1>1, <2>2, <3>1, <4>1, <4>3 DEF AloneInv
    <3> QED
      BY <1>3, <3>2, <3>3
  <2>6. OwnInv'
    <3>1. created' \in BOOLEAN
      BY <1>3
    <3> QED
      BY <1>1, <2>2, <2>3, <2>4, <3>1, QuietStep
  <2>7. SpaceInv'
    BY <1>1, <2>2, <2>3, <2>5, QuietAlone
  <2> QED
    BY <2>6, <2>7
<1> QED
  BY <1>2, <1>3 DEF Check

\* What a statement is when it begins.
LEMMA BeginStep ==
  ASSUME OwnInv, SpaceInv, NEW p \in Procs, Begin(p)
  PROVE  OwnInv' /\ SpaceInv'
<1> DEFINE Fresh(source) ==
             [NoRun EXCEPT !.source = source, !.view = extents, !.known = created,
                           !.todo = Pending(source, extents)]
           Refused(source, requested) ==
             \/ source = << >>
             \/ ~Unique(source)
             \/ requested # model[p]
             \/ ModelDiffers(p, extents)
           Becomes(source, requested) ==
             [Fresh(source) EXCEPT !.pc = IF Refused(source, requested) THEN "refused"
                                          ELSE IF Pending(source, extents) = << >> THEN "ok" ELSE "chunk"]
<1>1. /\ ~Running(p)
      /\ \E source \in Sources : \E requested \in Models : run' = [run EXCEPT ![p] = Becomes(source, requested)]
      /\ started' = started + 1
      /\ overlapped' = (overlapped \/ \E q \in Procs \ {p} : Running(q))
      /\ UNCHANGED <<extents, created, model, width>>
  BY DEF Begin
<1>2. PICK source \in Sources : \E requested \in Models : run' = [run EXCEPT ![p] = Becomes(source, requested)]
  BY <1>1
<1>3. PICK requested \in Models : run' = [run EXCEPT ![p] = Becomes(source, requested)]
  BY <1>2
<1> DEFINE todo == Pending(source, extents)
           r == Becomes(source, requested)
<1>4. source \in Seq(Ids) /\ Types /\ run \in [Procs -> Run]
  BY BoundsAssumption DEF OwnInv, Types
<1>5. /\ todo \in Seq(Ids)
      /\ \A id : (\E i \in DOMAIN todo : todo[i] = id)
                   <=> (id \notin IdsIn(extents) /\ \E j \in DOMAIN source : source[j] = id)
      /\ Unique(source) => Unique(todo)
  BY <1>4, PendingIs
<1> HIDE DEF todo
<1>6. /\ r = [pc |-> IF Refused(source, requested) THEN "refused" ELSE IF todo = << >> THEN "ok" ELSE "chunk",
              source |-> source, view |-> extents, known |-> created, todo |-> todo,
              at |-> 0, got |-> << >>, attempt |-> 0]
  <2> DEFINE pc == IF Refused(source, requested) THEN "refused" ELSE IF todo = << >> THEN "ok" ELSE "chunk"
  <2>1. r = [Fresh(source) EXCEPT !.pc = pc]
    BY DEF todo
  <2> HIDE DEF pc, Becomes, r
  <2>2. Fresh(source) = [NoRun EXCEPT !.source = source, !.view = extents, !.known = created, !.todo = todo]
    BY DEF todo
  <2> HIDE DEF Fresh
  <2>3. Fresh(source) = [pc |-> "idle", source |-> source, view |-> extents, known |-> created, todo |-> todo,
                         at |-> 0, got |-> << >>, attempt |-> 0]
    BY <2>2 DEF NoRun
  <2>4. r = [pc |-> pc, source |-> source, view |-> extents, known |-> created, todo |-> todo,
             at |-> 0, got |-> << >>, attempt |-> 0]
    BY <2>1, <2>3
  <2> QED
    BY <2>4 DEF pc
<1>7. run' = [run EXCEPT ![p] = r]
  BY <1>3
<1> HIDE DEF r, Becomes, Fresh
<1>8. /\ r.source = source /\ r.view = extents /\ r.todo = todo /\ r.at = 0 /\ r.got = << >>
      /\ r.pc \in {"refused", "ok", "chunk"}
      /\ r.pc = "ok" => todo = << >>
      /\ r.pc = "chunk" => ~Refused(source, requested) /\ todo # << >>
  BY <1>6
<1>9. r \in Run
  <2>1. /\ extents \in Seq(Seq(Row)) /\ created \in BOOLEAN /\ << >> \in Seq(Vector) /\ 0 \in Nat
        /\ {"refused", "ok", "chunk"} \subseteq PC
    BY <1>4 DEF Types, PC, Idle, Outcomes
  <2>2. r.pc \in PC
    BY <1>8, <2>1
  <2> QED
    BY <1>4, <1>5, <1>6, <2>1, <2>2 DEF Run
<1> HIDE DEF Refused
<1>10. run' \in [Procs -> Run] /\ run'[p] = r /\ \A q \in Procs \ {p} : run'[q] = run[q]
  BY <1>4, <1>7, <1>9
<1>11. Types'
  <2>1. started' \in Nat /\ overlapped' \in BOOLEAN
    BY <1>1 DEF OwnInv, Types
  <2> QED
    BY <1>1, <1>10, <2>1 DEF OwnInv, Types
<1>12. Progress(r)
  <2>1. Len(todo) \in Nat /\ (todo = << >> <=> Len(todo) = 0)
    BY <1>5
  <2> QED
    BY <1>8, <2>1 DEF Progress
<1>13. Remaining(r) = {todo[i] : i \in DOMAIN todo}
  BY <1>5, <1>8 DEF Remaining
<1>14. ToSet(source) \subseteq IdsIn(extents) \cup Remaining(r)
  BY <1>5, <1>13 DEF ToSet
<1>15. OwnInv'
  <2>1. OwnVector'
    BY <1>1 DEF OwnInv, OwnVector, Stored
  <2>2. IdsIn(extents') = IdsIn(extents)
    BY <1>1
  <2>3. ASSUME NEW q \in Procs PROVE Progress(run'[q]) /\ Covered(run[q])'
    <3>1. CASE q = p
      BY <1>8, <1>10, <1>12, <1>14, <2>2, <3>1 DEF Covered
    <3>2. CASE q # p
      BY <1>10, <2>2, <3>2 DEF OwnInv, Covered
    <3> QED
      BY <3>1, <3>2
  <2> QED
    BY <1>11, <2>1, <2>3 DEF OwnInv, Progress
<1>16. (OneSpace /\ EachIdOnce)'
  <2>1. overlapped => overlapped'
    BY <1>1
  <2>2. Stored' = Stored
    BY <1>1 DEF Stored
  <2> QED
    BY <1>1, <2>1, <2>2 DEF SpaceInv, OneSpace, EachIdOnce
<1>17. ASSUME ~overlapped', NEW q \in Procs, Running(q)' PROVE AloneInv(q)'
  <2>1. ~overlapped /\ \A x \in Procs \ {p} : ~Running(x)
    BY <1>1, <1>17
  <2>2. \A x \in Procs \ {p} : ~Running(x)'
    BY <1>10, <2>1 DEF Running
  <2>3. q = p /\ r.pc = "chunk"
    <3>1. q = p
      BY <1>17, <2>2
    <3> QED
      BY <1>8, <1>10, <1>17, <3>1 DEF Running, Idle, Outcomes
  <2>4. ~Refused(source, requested)
    BY <1>8, <2>3
  <2>5. Unique(source) /\ ~ModelDiffers(p, extents)
    BY <2>4 DEF Refused
  <2>6. Stored' = Stored /\ IdsIn(extents') = IdsIn(extents) /\ model' = model
    BY <1>1 DEF Stored
  <2>7. \A row \in Stored : row.model = model[p]
    <3>1. SUFFICES ASSUME NEW row \in Stored PROVE row.model = model[p]
      OBVIOUS
    <3>2. PICK i \in DOMAIN extents : row \in ToSet(extents[i])
      BY DEF Stored
    <3>3. extents[i][1] \in Samples(extents)
      BY <3>2 DEF Samples
    <3>4. extents[i][1] \in Stored
      BY <1>4, <3>3, StoredIs
    <3>5. extents[i][1].model = model[p]
      BY <2>5, <3>3 DEF ModelDiffers
    <3> QED
      BY <2>1, <3>4, <3>5 DEF SpaceInv, OneSpace
  <2>8. \A i, j \in (r.at + 1)..Len(r.todo) : r.todo[i] = r.todo[j] => i = j
    BY <1>5, <1>8, <2>5 DEF Unique
  <2>9. Remaining(r) \cap IdsIn(extents) = {}
    BY <1>5, <1>13
  <2> QED
    BY <1>1, <1>8, <1>10, <2>2, <2>3, <2>6, <2>7, <2>8, <2>9 DEF AloneInv
<1> QED
  BY <1>15, <1>16, <1>17 DEF SpaceInv

LEMMA RestartStep ==
  ASSUME OwnInv, SpaceInv, NEW p \in Procs, Restart(p)
  PROVE  OwnInv' /\ SpaceInv'
<1>1. /\ run' = [run EXCEPT ![p] = NoRun] /\ width' = [width EXCEPT ![p] = 0]
      /\ UNCHANGED <<extents, created, started, overlapped>>
  BY DEF Restart
<1>2. Types /\ run \in [Procs -> Run] /\ width \in [Procs -> Widths \cup {0}] /\ model \in [Procs -> Models]
  BY DEF OwnInv, Types
<1>3. PICK m \in Models : model' = [model EXCEPT ![p] = m]
  BY DEF Restart
<1>4. NoRun \in Run /\ NoRun.pc = "idle" /\ NoRun.source = << >> /\ NoRun.todo = << >> /\ NoRun.at = 0
  <2>1. << >> \in Seq(Ids) /\ << >> \in Seq(Seq(Row)) /\ << >> \in Seq(Vector) /\ "idle" \in PC /\ 0 \in Nat
    BY DEF PC, Idle
  <2> QED
    BY <2>1 DEF NoRun, Run
<1>5. run' \in [Procs -> Run] /\ run'[p] = NoRun /\ \A q \in Procs \ {p} : run'[q] = run[q]
  BY <1>1, <1>2, <1>4
<1>6. /\ model' \in [Procs -> Models] /\ width' \in [Procs -> Widths \cup {0}]
      /\ \A q \in Procs \ {p} : model'[q] = model[q] /\ width'[q] = width[q]
  BY <1>1, <1>2, <1>3
<1>7. Types'
  BY <1>1, <1>2, <1>5, <1>6 DEF Types
<1>8. Stored' = Stored /\ IdsIn(extents') = IdsIn(extents)
  BY <1>1 DEF Stored
<1>9. OwnInv'
  <2>1. ASSUME NEW q \in Procs PROVE Progress(run'[q]) /\ Covered(run[q])'
    <3>1. CASE q = p
      <4>1. Progress(NoRun)
        BY <1>4 DEF Progress
      <4>2. ToSet(NoRun.source) = {}
        BY <1>4 DEF ToSet
      <4> QED
        BY <1>5, <3>1, <4>1, <4>2 DEF Covered
    <3>2. CASE q # p
      BY <1>5, <1>8, <3>2 DEF OwnInv, Covered
    <3> QED
      BY <3>1, <3>2
  <2> QED
    BY <1>7, <1>8, <2>1 DEF OwnInv, OwnVector, Progress
<1>10. ASSUME ~overlapped', NEW q \in Procs, Running(q)' PROVE AloneInv(q)'
  <2>1. q # p /\ run'[q] = run[q]
    BY <1>4, <1>5, <1>10 DEF Running, Idle
  <2>2. AloneInv(q)
    BY <1>1, <1>10, <2>1 DEF SpaceInv, Running
  <2>3. \A x \in Procs : Running(x)' => x = q
    <3>1. \A x \in Procs : Running(x)' => x # p
      BY <1>4, <1>5 DEF Running, Idle
    <3> QED
      BY <1>5, <2>2, <3>1 DEF Running, AloneInv
  <2> QED
    BY <1>1, <1>6, <1>8, <2>1, <2>2, <2>3 DEF AloneInv
<1>11. (OneSpace /\ EachIdOnce)'
  BY <1>1, <1>8 DEF SpaceInv, OneSpace, EachIdOnce
<1> QED
  BY <1>9, <1>10, <1>11 DEF SpaceInv

LEMMA StutterStep ==
  ASSUME OwnInv, SpaceInv, UNCHANGED vars
  PROVE  OwnInv' /\ SpaceInv'
<1>1. UNCHANGED <<extents, created, model, width, run, started, overlapped>>
  BY DEF vars
<1>2. Stored' = Stored /\ IdsIn(extents') = IdsIn(extents)
  BY <1>1 DEF Stored
<1>3. Types' /\ OwnVector'
  BY <1>1, <1>2 DEF OwnInv, Types, OwnVector
<1>4. ASSUME NEW p \in Procs PROVE Progress(run'[p]) /\ Covered(run[p])'
  BY <1>1, <1>2 DEF OwnInv, Covered
<1>5. (OneSpace /\ EachIdOnce)'
  BY <1>1, <1>2 DEF SpaceInv, OneSpace, EachIdOnce
<1>6. ASSUME NEW p \in Procs, ~overlapped', Running(p)' PROVE AloneInv(p)'
  <2>1. AloneInv(p)
    BY <1>1, <1>6 DEF SpaceInv, Running
  <2> QED
    BY <1>1, <1>2, <2>1 DEF AloneInv, Running
<1> QED
  BY <1>3, <1>4, <1>5, <1>6 DEF OwnInv, SpaceInv, Progress

------------------------------------------------------------------------------
(* Writing a chunk.                                                          *)

LEMMA RowsAre ==
  ASSUME OwnInv, NEW p \in Procs, run[p].pc = "flush"
  PROVE  LET rows == Rows(p)
             chunk == Chunk(run[p])
         IN  /\ rows \in Seq(Row) /\ DOMAIN rows = 1..Len(chunk) /\ rows # << >>
             /\ Len(rows) = Len(chunk) /\ Len(run[p].got) = Len(chunk)
             /\ Len(chunk) \in Nat \ {0}
             /\ \A i \in 1..Len(chunk) :
                  /\ rows[i].id = run[p].todo[run[p].at + i] /\ rows[i].vec.text = rows[i].id
                  /\ rows[i].model = model[p] /\ rows[i].vec = run[p].got[i]
<1> DEFINE r == run[p]
           chunk == Chunk(r)
           rows == Rows(p)
<1>1. /\ r \in Run /\ r.at < Len(r.todo) /\ r.at <= Len(r.todo) /\ Len(r.got) = Len(chunk)
      /\ r.got \in Seq(Vector) /\ model[p] \in Models
      /\ \A i \in DOMAIN r.got : r.got[i].text = chunk[i]
  BY RunOf DEF OwnInv, Progress, Types, Run
<1>2. /\ chunk \in Seq(Ids) /\ Len(chunk) \in Nat \ {0}
      /\ \A i \in 1..Len(chunk) : chunk[i] = r.todo[r.at + i]
  <2>1. /\ Chunk(r) \in Seq(Ids) /\ Len(Chunk(r)) \in Nat /\ Len(Chunk(r)) > 0
        /\ \A i \in 1..Len(Chunk(r)) : Chunk(r)[i] = r.todo[r.at + i]
    <3> HIDE DEF r
    <3> QED
      BY <1>1, ChunkIs
  <2> QED
    BY <2>1
<1>3. rows = [i \in DOMAIN r.got |-> [id |-> chunk[i], model |-> model[p], vec |-> r.got[i]]]
  BY DEF Rows
<1> HIDE DEF chunk, rows, r
<1>4. DOMAIN r.got = 1..Len(chunk) /\ \A i \in 1..Len(chunk) : r.got[i] \in Vector /\ chunk[i] \in Ids
  BY <1>1, <1>2
<1>5. \A i \in 1..Len(chunk) : [id |-> chunk[i], model |-> model[p], vec |-> r.got[i]] \in Row
  BY <1>1, <1>4 DEF Row
<1>6. rows \in [1..Len(chunk) -> Row]
  BY <1>3, <1>4, <1>5
<1>7. rows \in Seq(Row) /\ DOMAIN rows = 1..Len(chunk) /\ Len(rows) = Len(chunk) /\ rows # << >>
  BY <1>2, <1>6
<1>8. ASSUME NEW i \in 1..Len(chunk)
      PROVE  /\ rows[i].id = r.todo[r.at + i] /\ rows[i].vec.text = rows[i].id
             /\ rows[i].model = model[p] /\ rows[i].vec = r.got[i]
  <2>1. rows[i] = [id |-> chunk[i], model |-> model[p], vec |-> r.got[i]]
    BY <1>3, <1>4
  <2>2. rows[i].id = chunk[i] /\ rows[i].model = model[p] /\ rows[i].vec = r.got[i]
    BY <2>1
  <2>3. r.got[i].text = chunk[i] /\ chunk[i] = r.todo[r.at + i]
    BY <1>1, <1>2, <1>4
  <2> QED
    BY <2>2, <2>3
<1> QED
  BY <1>1, <1>2, <1>7, <1>8 DEF chunk, rows, r

LEMMA IdsAre ==
  ASSUME NEW exts
  PROVE  \A id : id \in IdsIn(exts) <=> \E i \in DOMAIN exts : \E j \in DOMAIN exts[i] : id = exts[i][j].id
  BY DEF IdsIn

LEMMA AddedRows ==
  ASSUME Types, NEW rows \in Seq(Row), rows # << >>, extents' = Append(extents, rows)
  PROVE  /\ extents' \in Seq(Seq(Row)) /\ Len(extents') = Len(extents) + 1 /\ Len(extents) \in Nat
         /\ \A i \in DOMAIN extents' : extents'[i] # << >>
         /\ DOMAIN extents' = 1..(Len(extents) + 1) /\ DOMAIN extents = 1..Len(extents)
         /\ \A i \in 1..Len(extents) : extents'[i] = extents[i]
         /\ extents'[Len(extents) + 1] = rows
         /\ \A row : row \in Stored' <=> (row \in Stored \/ \E i \in DOMAIN rows : row = rows[i])
         /\ \A id : id \in IdsIn(extents') <=> (id \in IdsIn(extents) \/ \E i \in DOMAIN rows : id = rows[i].id)
<1>1. extents \in Seq(Seq(Row)) /\ rows \in Seq(Row) /\ \A i \in DOMAIN extents : extents[i] # << >>
  BY DEF Types
<1>2. /\ extents' \in Seq(Seq(Row)) /\ Len(extents') = Len(extents) + 1 /\ Len(extents) \in Nat
      /\ DOMAIN extents' = 1..(Len(extents) + 1) /\ DOMAIN extents = 1..Len(extents)
      /\ \A i \in 1..Len(extents) : extents'[i] = extents[i]
      /\ extents'[Len(extents) + 1] = rows
  <2> DEFINE S == Seq(Row)
  <2>1. extents \in Seq(S) /\ rows \in S
    BY <1>1
  <2> HIDE DEF S
  <2>2. extents' \in Seq(S) /\ Len(extents') = Len(extents) + 1 /\ Len(extents) \in Nat
    BY <2>1
  <2> QED
    BY <2>1, <2>2 DEF S
<1>3. \A i \in DOMAIN extents' : i \in 1..Len(extents) \/ i = Len(extents) + 1
  BY <1>2
<1>4. \A i \in 1..Len(extents) : i \in DOMAIN extents' /\ i \in DOMAIN extents
  BY <1>2
<1>5. Len(extents) + 1 \in DOMAIN extents'
  BY <1>2
<1>6. \A i \in DOMAIN extents' : extents'[i] # << >>
  BY <1>1, <1>2, <1>3, <1>4
<1>7. ASSUME NEW row PROVE row \in Stored' <=> (row \in Stored \/ \E i \in DOMAIN rows : row = rows[i])
  <2>1. row \in Stored <=> \E i \in 1..Len(extents) : row \in ToSet(extents[i])
    BY <1>2 DEF Stored
  <2>2. row \in Stored' <=> \E i \in DOMAIN extents' : row \in ToSet(extents'[i])
    BY DEF Stored
  <2>3. row \in ToSet(rows) <=> \E i \in DOMAIN rows : row = rows[i]
    BY DEF ToSet
  <2> QED
    BY <1>2, <1>3, <1>4, <1>5, <2>1, <2>2, <2>3
<1>i. /\ \A id : id \in IdsIn(extents) <=> \E i \in DOMAIN extents : \E j \in DOMAIN extents[i] : id = extents[i][j].id
      /\ \A id : id \in IdsIn(extents') <=> \E i \in DOMAIN extents' : \E j \in DOMAIN extents'[i] : id = extents'[i][j].id
  BY DEF IdsIn
<1>8. ASSUME NEW id PROVE id \in IdsIn(extents') <=> (id \in IdsIn(extents) \/ \E i \in DOMAIN rows : id = rows[i].id)
  <2>1. id \in IdsIn(extents) <=> \E i \in 1..Len(extents) : \E j \in DOMAIN extents[i] : id = extents[i][j].id
    <3>1. DOMAIN extents = 1..Len(extents)
      BY <1>2
    <3>2. id \in IdsIn(extents) <=> \E i \in DOMAIN extents : \E j \in DOMAIN extents[i] : id = extents[i][j].id
      BY <1>i
    <3> QED
      BY <3>1, <3>2, Zenon
  <2>2. id \in IdsIn(extents') <=> \E i \in DOMAIN extents' : \E j \in DOMAIN extents'[i] : id = extents'[i][j].id
    BY <1>i
  <2>3. ASSUME NEW i \in DOMAIN extents', NEW j \in DOMAIN extents'[i], id = extents'[i][j].id
        PROVE  id \in IdsIn(extents) \/ \E m \in DOMAIN rows : id = rows[m].id
    <3>1. CASE i \in 1..Len(extents)
      BY <1>2, <2>1, <2>3, <3>1
    <3>2. CASE i = Len(extents) + 1
      BY <1>2, <2>3, <3>2
    <3> QED
      BY <1>3, <3>1, <3>2
  <2>4. ASSUME NEW m \in DOMAIN rows, id = rows[m].id PROVE id \in IdsIn(extents')
    BY <1>2, <1>5, <2>2, <2>4
  <2>5. ASSUME id \in IdsIn(extents) PROVE id \in IdsIn(extents')
    <3>1. PICK i \in 1..Len(extents) : \E j \in DOMAIN extents[i] : id = extents[i][j].id
      BY <2>1, <2>5
    <3>2. extents'[i] = extents[i] /\ i \in DOMAIN extents'
      BY <1>2, <1>4
    <3> QED
      BY <2>2, <3>1, <3>2
  <2> QED
    BY <2>2, <2>3, <2>4, <2>5
<1> QED
  BY <1>2, <1>6, <1>7, <1>8

LEMMA FlushStep ==
  ASSUME OwnInv, SpaceInv, NEW p \in Procs, Flush(p)
  PROVE  OwnInv' /\ SpaceInv'
<1> DEFINE rows == Rows(p)
           n == Len(Chunk(run[p]))
           a == run[p].at
           todo == run[p].todo
           r == [run[p] EXCEPT !.view = Append(run[p].view, rows), !.at = a + n, !.got = << >>,
                               !.pc = IF a + n < Len(todo) THEN "chunk" ELSE "ok"]
<1>1. /\ run[p].pc = "flush" /\ Running(p) /\ extents' = Append(extents, rows)
      /\ UNCHANGED <<created, model, width, started, overlapped>>
  BY DEF Flush, Running, Idle, Outcomes
<1>2. /\ rows \in Seq(Row) /\ DOMAIN rows = 1..n /\ rows # << >> /\ Len(run[p].got) = n
      /\ n \in Nat \ {0}
      /\ \A i \in 1..n :
           /\ rows[i].id = todo[a + i] /\ rows[i].vec.text = rows[i].id
           /\ rows[i].model = model[p] /\ rows[i].vec = run[p].got[i]
  BY <1>1, RowsAre
<1>3. /\ Types /\ run \in [Procs -> Run] /\ run[p] \in Run /\ a \in Nat /\ todo \in Seq(Ids) /\ Len(todo) \in Nat
      /\ a + n <= Len(todo) /\ \A i \in 1..n : a + i \in 1..Len(todo)
  <2>1. Types /\ run \in [Procs -> Run] /\ run[p] \in Run /\ run[p].at <= Len(run[p].todo)
    BY DEF OwnInv, Types, Progress
  <2>2. /\ run[p].at + Len(Chunk(run[p])) <= Len(run[p].todo)
        /\ \A i \in 1..Len(Chunk(run[p])) : run[p].at + i \in 1..Len(run[p].todo)
    BY <2>1, ChunkIs
  <2>3. run[p].at \in Nat /\ run[p].todo \in Seq(Ids) /\ Len(run[p].todo) \in Nat
    BY <2>1, RunOf
  <2> QED
    BY <2>1, <2>2, <2>3
<1>4. run' = [run EXCEPT ![p] = r]
  BY <1>2 DEF Flush, Advance
<1>5. /\ extents' \in Seq(Seq(Row)) /\ Len(extents') = Len(extents) + 1 /\ Len(extents) \in Nat
      /\ \A i \in DOMAIN extents' : extents'[i] # << >>
      /\ DOMAIN extents' = 1..(Len(extents) + 1) /\ DOMAIN extents = 1..Len(extents)
      /\ \A i \in 1..Len(extents) : extents'[i] = extents[i]
      /\ extents'[Len(extents) + 1] = rows
      /\ \A row : row \in Stored' <=> (row \in Stored \/ \E i \in 1..n : row = rows[i])
      /\ \A id : id \in IdsIn(extents') <=> (id \in IdsIn(extents) \/ \E i \in 1..n : id = rows[i].id)
  <2>1. rows \in Seq(Row) /\ rows # << >> /\ extents' = Append(extents, rows) /\ Types /\ DOMAIN rows = 1..n
    BY <1>1, <1>2, <1>3
  <2> HIDE DEF rows, n
  <2>2. /\ extents' \in Seq(Seq(Row)) /\ Len(extents') = Len(extents) + 1 /\ Len(extents) \in Nat
        /\ \A i \in DOMAIN extents' : extents'[i] # << >>
        /\ DOMAIN extents' = 1..(Len(extents) + 1) /\ DOMAIN extents = 1..Len(extents)
        /\ \A i \in 1..Len(extents) : extents'[i] = extents[i]
        /\ extents'[Len(extents) + 1] = rows
        /\ \A row : row \in Stored' <=> (row \in Stored \/ \E i \in DOMAIN rows : row = rows[i])
        /\ \A id : id \in IdsIn(extents') <=> (id \in IdsIn(extents) \/ \E i \in DOMAIN rows : id = rows[i].id)
    BY <2>1, AddedRows
  <2> QED
    BY <2>1, <2>2
<1>6. r \in Run
  <2>1. {"chunk", "ok"} \subseteq PC /\ << >> \in Seq(Vector) /\ a + n \in Nat
    BY <1>2, <1>3 DEF PC, Idle, Outcomes
  <2>2. Append(run[p].view, rows) \in Seq(Seq(Row))
    <3> DEFINE S == Seq(Row)
    <3>1. run[p].view \in Seq(S) /\ rows \in S
      BY <1>2, <1>3 DEF Run
    <3> HIDE DEF S, rows
    <3>2. Append(run[p].view, rows) \in Seq(S)
      BY <3>1
    <3> QED
      BY <3>2 DEF S
  <2> HIDE DEF rows, n, a, todo
  <2> QED
    BY <1>3, <2>1, <2>2 DEF Run
<1>7. /\ r.source = run[p].source /\ r.view = Append(run[p].view, rows) /\ r.todo = todo /\ r.at = a + n
      /\ r.got = << >> /\ r.pc = IF a + n < Len(todo) THEN "chunk" ELSE "ok"
  BY <1>3 DEF Run
<1> HIDE DEF r, rows, n
<1>8. run' \in [Procs -> Run] /\ run'[p] = r /\ \A q \in Procs \ {p} : run'[q] = run[q]
  BY <1>3, <1>4, <1>6
<1>9. Types'
  BY <1>1, <1>3, <1>5, <1>8 DEF Types
<1>10. OwnVector'
  BY <1>2, <1>5 DEF OwnInv, OwnVector
<1> HIDE DEF a, todo
<1>11. Progress(r)
  BY <1>2, <1>3, <1>7 DEF Progress
<1>12. \A id : id \in Remaining(run[p]) <=> (id \in Remaining(r) \/ \E i \in 1..n : id = rows[i].id)
  <2>1. SUFFICES ASSUME NEW id
                 PROVE  id \in Remaining(run[p]) <=> (id \in Remaining(r) \/ \E i \in 1..n : id = rows[i].id)
    OBVIOUS
  <2>2. id \in Remaining(run[p]) <=> \E j \in (a + 1)..Len(todo) : id = todo[j]
    BY DEF Remaining, a, todo
  <2>3. id \in Remaining(r) <=> \E j \in (a + n + 1)..Len(todo) : id = todo[j]
    BY <1>7 DEF Remaining
  <2>4. ASSUME NEW j \in (a + 1)..Len(todo)
        PROVE  j \in (a + n + 1)..Len(todo) \/ \E i \in 1..n : j = a + i
    <3>1. CASE j > a + n
      BY <1>2, <1>3, <3>1
    <3>2. CASE ~(j > a + n)
      <4>1. j - a \in 1..n /\ j = a + (j - a)
        BY <1>2, <1>3, <3>2
      <4> QED
        BY <4>1
    <3> QED
      BY <3>1, <3>2
  <2>5. \A j \in (a + n + 1)..Len(todo) : j \in (a + 1)..Len(todo)
    BY <1>2, <1>3
  <2>6. \A i \in 1..n : a + i \in (a + 1)..Len(todo) /\ rows[i].id = todo[a + i]
    BY <1>2, <1>3 DEF a, todo
  <2> QED
    BY <2>2, <2>3, <2>4, <2>5, <2>6
<1>13. OwnInv'
  <2>1. ASSUME NEW q \in Procs PROVE Progress(run'[q]) /\ Covered(run[q])'
    <3>1. CASE q = p
      <4>1. Covered(run[p])
        BY DEF OwnInv
      <4>2. ToSet(r.source) \subseteq IdsIn(extents') \cup Remaining(r)
        BY <1>5, <1>7, <1>12, <4>1 DEF Covered
      <4> QED
        BY <1>8, <1>11, <3>1, <4>2 DEF Covered
    <3>2. CASE q # p
      <4>1. Covered(run[q]) /\ Progress(run[q])
        BY DEF OwnInv
      <4>2. IdsIn(extents) \subseteq IdsIn(extents')
        BY <1>5
      <4> QED
        BY <1>8, <3>2, <4>1, <4>2 DEF Covered
    <3> QED
      BY <3>1, <3>2
  <2> QED
    BY <1>9, <1>10, <2>1 DEF OwnInv, Progress
<1>14. SpaceInv'
  <2> SUFFICES ASSUME ~overlapped PROVE (OneSpace /\ EachIdOnce)' /\ \A q \in Procs : Running(q)' => AloneInv(q)'
    BY <1>1 DEF SpaceInv, OneSpace, EachIdOnce
  <2>1. AloneInv(p) /\ OneSpace /\ EachIdOnce
    BY <1>1 DEF SpaceInv
  <2>2. ASSUME NEW i \in 1..n
        PROVE  /\ rows[i].model = model[p] /\ rows[i].vec.width = width[p] /\ a + i \in (a + 1)..Len(todo)
               /\ rows[i].id \notin IdsIn(extents) /\ rows[i].id = todo[a + i]
    <3>1. i \in DOMAIN run[p].got
      BY <1>2, <1>3 DEF Run
    <3>2. rows[i].vec.width = width[p]
      BY <1>1, <1>2, <2>1, <3>1 DEF AloneInv
    <3>3. rows[i].id \in Remaining(run[p])
      BY <1>12
    <3>4. a + i \in (a + 1)..Len(todo)
      BY <1>2, <1>3
    <3> QED
      BY <1>2, <2>1, <3>2, <3>3, <3>4 DEF AloneInv, a, todo
  <2>3. \A row \in Stored : row.model = model[p] /\ row.vec.width = width[p]
    <3>1. 1 \in DOMAIN run[p].got
      BY <1>2, <1>3 DEF Run
    <3> QED
      BY <1>1, <2>1, <3>1 DEF AloneInv
  <2>4. \A row \in Stored' : row.model = model[p] /\ row.vec.width = width[p]
    BY <1>5, <2>2, <2>3
  <2>5. OneSpace'
    BY <2>4 DEF OneSpace
  <2>6. \A i, j \in (a + 1)..Len(todo) : todo[i] = todo[j] => i = j
    BY <2>1 DEF AloneInv, a, todo
  <2>7. \A k, l \in 1..n : rows[k].id = rows[l].id => k = l
    <3>1. SUFFICES ASSUME NEW k \in 1..n, NEW l \in 1..n, rows[k].id = rows[l].id PROVE k = l
      OBVIOUS
    <3>2. a + k = a + l
      BY <2>2, <2>6, <3>1
    <3> QED
      BY <1>2, <1>3, <3>2
  <2>8. EachIdOnce'
    <3>1. SUFFICES ASSUME NEW i \in DOMAIN extents', NEW j \in DOMAIN extents',
                          NEW k \in DOMAIN extents'[i], NEW l \in DOMAIN extents'[j],
                          extents'[i][k].id = extents'[j][l].id
                   PROVE  i = j /\ k = l
      BY DEF EachIdOnce
    <3>2. ASSUME NEW x \in 1..Len(extents), NEW y \in DOMAIN extents'[x] PROVE extents'[x][y].id \in IdsIn(extents)
      <4>1. extents'[x] = extents[x] /\ x \in DOMAIN extents
        BY <1>5
      <4> QED
        BY <4>1, IdsAre
    <3>3. \A x \in DOMAIN extents' : x \in 1..Len(extents) \/ x = Len(extents) + 1
      BY <1>5
    <3>4. DOMAIN rows = 1..n
      BY <1>2
    <3>5. CASE i \in 1..Len(extents) /\ j \in 1..Len(extents)
      <4>1. extents'[i] = extents[i] /\ extents'[j] = extents[j] /\ i \in DOMAIN extents /\ j \in DOMAIN extents
        BY <1>5, <3>5
      <4> QED
        BY <2>1, <3>1, <4>1 DEF EachIdOnce
    <3>6. CASE i \in 1..Len(extents) /\ j = Len(extents) + 1
      <4>1. l \in 1..n /\ extents'[j][l].id = rows[l].id
        BY <1>5, <3>4, <3>6
      <4>2. extents'[i][k].id \in IdsIn(extents)
        BY <3>2, <3>6
      <4> QED
        BY <2>2, <3>1, <4>1, <4>2
    <3>7. CASE i = Len(extents) + 1 /\ j \in 1..Len(extents)
      <4>1. k \in 1..n /\ extents'[i][k].id = rows[k].id
        BY <1>5, <3>4, <3>7
      <4>2. extents'[j][l].id \in IdsIn(extents)
        BY <3>2, <3>7
      <4> QED
        BY <2>2, <3>1, <4>1, <4>2
    <3>8. CASE i = Len(extents) + 1 /\ j = Len(extents) + 1
      <4>1. k \in 1..n /\ l \in 1..n /\ rows[k].id = rows[l].id
        BY <1>5, <3>1, <3>4, <3>8
      <4> QED
        BY <2>7, <3>8, <4>1
    <3> QED
      BY <3>3, <3>5, <3>6, <3>7, <3>8
  <2>9. ASSUME NEW q \in Procs, Running(q)' PROVE AloneInv(q)'
    <3>1. \A x \in Procs : Running(x)' => x = p
      BY <1>8, <2>1 DEF AloneInv, Running
    <3>2. q = p
      BY <2>9, <3>1
    <3>3. r.view = extents'
      BY <1>1, <1>7, <2>1 DEF AloneInv
    <3>4. r.pc \in {"chunk", "ok"}
      BY <1>7
    <3>5. \A i, j \in (r.at + 1)..Len(r.todo) : r.todo[i] = r.todo[j] => i = j
      <4>1. \A i \in (a + n + 1)..Len(todo) : i \in (a + 1)..Len(todo)
        BY <1>2, <1>3 DEF a, todo
      <4> QED
        BY <1>7, <2>6, <4>1
    <3>6. Remaining(r) \cap IdsIn(extents') = {}
      <4>1. SUFFICES ASSUME NEW id \in Remaining(r), id \in IdsIn(extents') PROVE FALSE
        OBVIOUS
      <4>2. PICK j \in (a + n + 1)..Len(todo) : id = todo[j]
        BY <1>7 DEF Remaining
      <4>3. id \notin IdsIn(extents)
        BY <1>12, <2>1 DEF AloneInv
      <4>4. PICK i \in 1..n : id = rows[i].id
        BY <1>5, <4>1, <4>3
      <4>5. j \in (a + 1)..Len(todo) /\ j # a + i
        BY <1>2, <1>3, <4>2 DEF a, todo
      <4> QED
        BY <2>2, <2>6, <4>2, <4>4, <4>5
    <3>7. \A row \in Stored' : row.model = model'[p]
      BY <1>1, <2>4
    <3> QED
      BY <1>1, <1>8, <3>1, <3>2, <3>3, <3>4, <3>5, <3>6, <3>7 DEF AloneInv
  <2> QED
    BY <2>5, <2>8, <2>9
<1> QED
  BY <1>13, <1>14

------------------------------------------------------------------------------
(* The theorems.                                                             *)

LEMMA Initially ==
  ASSUME Init
  PROVE  OwnInv /\ SpaceInv
<1>1. NoRun \in Run /\ NoRun.pc = "idle" /\ NoRun.source = << >> /\ NoRun.todo = << >> /\ NoRun.at = 0
  <2>1. << >> \in Seq(Ids) /\ << >> \in Seq(Seq(Row)) /\ << >> \in Seq(Vector) /\ "idle" \in PC /\ 0 \in Nat
    BY DEF PC, Idle
  <2> QED
    BY <2>1 DEF NoRun, Run
<1>2. \A p \in Procs : run[p] = NoRun
  BY DEF Init
<1>3. Types
  <2>1. << >> \in Seq(Seq(Row)) /\ DOMAIN << >> = {}
    OBVIOUS
  <2> QED
    BY <1>1, <2>1 DEF Init, Types
<1>4. Stored = {} /\ DOMAIN extents = {}
  BY DEF Init, Stored
<1>5. Progress(NoRun) /\ ToSet(NoRun.source) = {}
  BY <1>1 DEF Progress, ToSet
<1>6. \A p \in Procs : Progress(run[p]) /\ Covered(run[p])
  BY <1>2, <1>5 DEF Covered
<1>7. OwnVector /\ OneSpace /\ EachIdOnce
  BY <1>4 DEF OwnVector, OneSpace, EachIdOnce
<1>8. \A p \in Procs : ~Running(p)
  BY <1>1, <1>2 DEF Running, Idle
<1> QED
  BY <1>3, <1>6, <1>7, <1>8 DEF OwnInv, SpaceInv

LEMMA Inductive == OwnInv /\ SpaceInv /\ [Next]_vars => OwnInv' /\ SpaceInv'
<1> SUFFICES ASSUME OwnInv, SpaceInv, [Next]_vars PROVE OwnInv' /\ SpaceInv'
  OBVIOUS
<1>1. CASE UNCHANGED vars
  BY <1>1, StutterStep
<1>2. ASSUME NEW p \in Procs, Begin(p) PROVE OwnInv' /\ SpaceInv'
  BY <1>2, BeginStep
<1>3. ASSUME NEW p \in Procs, NextChunk(p) PROVE OwnInv' /\ SpaceInv'
  BY <1>3, NextChunkStep
<1>4. ASSUME NEW p \in Procs, Answer(p) PROVE OwnInv' /\ SpaceInv'
  BY <1>4, AnswerStep
<1>5. ASSUME NEW p \in Procs, Hiccup(p) PROVE OwnInv' /\ SpaceInv'
  BY <1>5, HiccupStep
<1>6. ASSUME NEW p \in Procs, Reject(p) PROVE OwnInv' /\ SpaceInv'
  BY <1>6, RejectStep
<1>7. ASSUME NEW p \in Procs, Check(p) PROVE OwnInv' /\ SpaceInv'
  BY <1>7, CheckStep
<1>8. ASSUME NEW p \in Procs, Flush(p) PROVE OwnInv' /\ SpaceInv'
  BY <1>8, FlushStep
<1>9. ASSUME NEW p \in Procs, FlushFails(p) PROVE OwnInv' /\ SpaceInv'
  BY <1>9, FlushFailsStep
<1>10. ASSUME NEW p \in Procs, Restart(p) PROVE OwnInv' /\ SpaceInv'
  BY <1>10, RestartStep
<1> QED
  BY <1>1, <1>2, <1>3, <1>4, <1>5, <1>6, <1>7, <1>8, <1>9, <1>10 DEF Next, Step

LEMMA Always == Spec => [](OwnInv /\ SpaceInv)
<1>1. Init => OwnInv /\ SpaceInv
  BY Initially
<1> QED
  BY <1>1, Inductive, PTL DEF Spec

\* A vector is in the row of the text it was made from (embedOnce puts the answers in
\* the order of their indices and has them numbered without a gap, EmbedBatch appends
\* them in the order of the requests, buildEmbedRows pairs them with the chunk).
THEOREM VectorsAreOwn == Spec => []OwnVector
<1>1. OwnInv /\ SpaceInv => OwnVector
  BY DEF OwnInv
<1> QED
  BY <1>1, Always, PTL

\* Statements that do not overlap leave one model's vectors of one width in a table
\* (checkModelIdentity on a sample, checkVectorWidth on another, the client's width).
THEOREM TableIsOneSpace == Spec => []OneSpace
<1>1. OwnInv /\ SpaceInv => OneSpace
  BY DEF SpaceInv
<1> QED
  BY <1>1, Always, PTL

\* Nor do they leave an Id in it twice (existingEmbedIds, firstDuplicateId).
THEOREM NoIdTwice == Spec => []EachIdOnce
<1>1. OwnInv /\ SpaceInv => EachIdOnce
  BY DEF SpaceInv
<1> QED
  BY <1>1, Always, PTL

\* Every Id of its source is in the table after a statement that ended well
\* (applyEmbedInto).
THEOREM NoIdMissing == Spec => []AllEmbedded
<1>1. ASSUME OwnInv PROVE AllEmbedded
  <2>1. SUFFICES ASSUME NEW p \in Procs, run[p].pc = "ok" PROVE ToSet(run[p].source) \subseteq IdsIn(extents)
    BY DEF AllEmbedded
  <2>2. run[p].at = Len(run[p].todo) /\ run[p].at \in Nat /\ Covered(run[p])
    BY <1>1, <2>1 DEF OwnInv, Progress, Types, Run
  <2>3. Remaining(run[p]) = {}
    BY <2>2 DEF Remaining
  <2> QED
    BY <2>2, <2>3 DEF Covered
<1>2. OwnInv /\ SpaceInv => AllEmbedded
  BY <1>1
<1> QED
  BY <1>2, Always, PTL
==============================================================================
