------------------------ MODULE ViewMaintenanceProofs ------------------------
(***************************************************************************)
(* Exactness of a materialized view whose merges nothing disturbs, proved  *)
(* for any engines, groups, numbers of files and statements.               *)
(*                                                                         *)
(* As long as nothing is disturbed one goroutine or one statement at most  *)
(* is at work on the view, and everybody else is idle or only appends and  *)
(* asks.  Where it stands says what the directory holds: the old view,     *)
(* what is left of it, nothing, an empty shell, the new view.              *)
(***************************************************************************)
EXTENDS ViewMaintenance, WellFoundedInduction, TLAPS

Places == {"none", "idle", "append", "trigger", "query", "scan", "answered", "rewrite", "look",
           "read", "unmark", "signal", "done"} \cup Replacing

Count == [Group -> Nat]

Types ==
    /\ src \in Count /\ told \in Count
    /\ vstate \in [File -> {"none", "live", "archived"}]
    /\ counts \in [File -> Count]
    /\ marker \in Nat
    /\ vtab \in [Engine -> BOOLEAN]
    /\ vcat \in [Engine -> [File -> Nat]]
    /\ pc \in [Worker -> Places]
    /\ DOMAIN owner = Merge
    /\ delta \in [Worker -> Count] /\ base \in [Worker -> Count]
    /\ todo \in [Worker -> SUBSET File]
    /\ awaits \in [Engine -> Nat] /\ basis \in [Engine -> Count]

\* Where a statement has the scope lock for itself.
Solo == {"rewrite", "look"} \cup Replacing

\* Who is at work: one goroutine and no statement, one statement that replaces the view,
\* or statements that leave the view alone.
Alone ==
    /\ \A e \in Engine : pc[e] \notin {"none", "read", "unmark", "signal", "done"}
    /\ \A m, n \in Merging : m = n
    /\ \A m \in Merging : /\ \A e \in Engine : At(e, "idle")
                          /\ owner[m] \in Engine
                          /\ marker = IF At(m, "signal") THEN NoMerge ELSE m
    /\ Merging = {} => marker = NoMerge
    /\ \A e \in Engine : awaits[e] = NoMerge
    /\ \A e \in Engine : pc[e] \in Solo => \A f \in Engine \ {e} : At(f, "idle")

\* The rows whose statement has not returned yet are those of the appends under way.
Pending ==
    /\ \A e \in Engine : ~At(e, "trigger") => delta[e] = Nothing
    /\ (\A e \in Engine : ~At(e, "trigger")) => told = src
    /\ \A e \in Engine : At(e, "trigger") /\ (\A f \in Engine \ {e} : ~At(f, "trigger")) =>
         src = Plus(told, delta[e])
    /\ \A g \in Group : told[g] <= src[g]

\* The view's files hold c: one of them does, and the others nothing.
Holds(c) ==
    \E f \in Live : counts[f] = c /\ \A k \in Live \ {f} : counts[k] = Nothing

\* The engine's catalog is what a refresh would find.
Fresh(e) ==
    /\ vtab[e]
    /\ vcat[e] = [f \in File |-> IF vstate[f] = "live" /\ counts[f] # Nothing THEN 1 ELSE 0]

\* What the directory holds while worker w replaces the view.
Replaces(w) ==
    /\ base[w] = src
    /\ At(w, "list") => Live # {} /\ vtab[Eng(w)]
    /\ At(w, "move") => Live # {} /\ todo[w] = Live
    /\ pc[w] \in {"create", "shell"} => Live = {}
    /\ At(w, "flush") => \A f \in Live : counts[f] = Nothing
    /\ At(w, "register") => Holds(src)

View ==
    /\ \A m \in Merging :
         /\ pc[m] \in Replacing => Replaces(m)
         /\ At(m, "read") => /\ Fresh(owner[m])
                             /\ \E c \in Count : Holds(c) /\ told = Plus(c, delta[m])
         /\ pc[m] \in {"unmark", "signal"} => Holds(src)
    /\ \A e \in Engine : /\ pc[e] \in Replacing => Replaces(e)
                         /\ At(e, "look") => Live # {}
    /\ Merging = {} /\ (\A e \in Engine : pc[e] \notin {"look"} \cup Replacing) => Holds(told)

\* What statements know.
Knows ==
    \A e \in Engine :
      /\ pc[e] \in {"append", "trigger", "query", "scan", "rewrite", "look"} => Fresh(e)
      /\ pc[e] \in {"query", "scan", "answered"} => basis[e] = told
      /\ At(e, "answered") => base[e] = told

Exact == Types /\ Alone /\ Pending /\ View /\ Knows

Inv == ~disturbed => Exact
-----------------------------------------------------------------------------
(* Sums over files.  Induction is over a set of numbers: one that is not     *)
(* all of Nat misses a least one.                                            *)

\* A set of naturals that is not empty has a least member.
LEMMA LeastOf ==
    ASSUME NEW T \in SUBSET Nat, T # {}
    PROVE  \E x \in T : \A y \in T : x <= y
<1>1. IsWellFoundedOn(OpToRel(<, Nat), Nat)
  BY NatLessThanWellFounded
<1>2. PICK x \in T : \A y \in T : ~ (<<y, x>> \in OpToRel(<, Nat))
  <2>1. \E x \in T : \A y \in T : ~ (<<y, x>> \in OpToRel(<, Nat))
    BY <1>1, WFMin, Zenon
  <2> QED
    BY <2>1
<1>3. ASSUME NEW y \in T PROVE x <= y
  <2>1. x \in Nat /\ y \in Nat
    OBVIOUS
  <2>2. y < x => <<y, x>> \in OpToRel(<, Nat)
    BY <2>1 DEF OpToRel
  <2>3. ~ (<<y, x>> \in OpToRel(<, Nat))
    BY <1>2
  <2>4. ~ (y < x)
    BY <2>2, <2>3
  <2> QED
    BY <2>1, <2>4
<1> QED
  BY <1>3

LEMMA SetInduction ==
    ASSUME NEW S \in SUBSET Nat, 0 \in S, \A n \in S : n + 1 \in S
    PROVE  Nat \subseteq S
<1>1. SUFFICES ASSUME Nat \ S # {} PROVE FALSE
  OBVIOUS
<1>2. PICK x \in Nat \ S : \A y \in Nat \ S : x <= y
  <2>1. (Nat \ S) \in SUBSET Nat
    OBVIOUS
  <2> QED
    BY <1>1, <2>1, LeastOf
<1>3. x # 0 /\ x - 1 \in Nat /\ ~(x <= x - 1)
  BY <1>2
<1>4. x - 1 \in S /\ (x - 1) + 1 = x
  BY <1>2, <1>3
<1> QED
  BY <1>2, <1>4

\* One round of the loop.
Round(x, sum, n) == IF n = 0 THEN 0 ELSE sum[n - 1] + x[n]

LEMMA LoopRuns ==
    ASSUME NEW x, NEW N \in Nat
    PROVE  \E sum : sum = [n \in 0 .. N |-> Round(x, sum, n)]
<1> DEFINE Partial(m) == \E sum : sum = [n \in 0 .. m |-> Round(x, sum, n)]
           S == {m \in Nat : Partial(m)}
<1>1. 0 \in S
  <2> DEFINE h == [n \in 0 .. 0 |-> 0]
  <2>1. h = [n \in 0 .. 0 |-> Round(x, h, n)]
    BY DEF Round
  <2> QED
    BY <2>1
<1>2. ASSUME NEW m \in S PROVE m + 1 \in S
  <2>1. PICK sum : sum = [n \in 0 .. m |-> Round(x, sum, n)]
    BY <1>2
  <2> DEFINE h == [n \in 0 .. (m + 1) |-> IF n = m + 1 THEN Round(x, sum, n) ELSE sum[n]]
  <2>2. ASSUME NEW n \in 0 .. (m + 1) PROVE h[n] = Round(x, h, n)
    <3>1. CASE n = m + 1
      <4>1. h[n] = Round(x, sum, n) /\ n - 1 \in 0 .. m
        BY <3>1
      <4>2. h[n - 1] = sum[n - 1]
        BY <4>1
      <4> QED
        BY <4>1, <4>2 DEF Round
    <3>2. CASE n # m + 1
      <4>1. n \in 0 .. m /\ h[n] = sum[n]
        BY <3>2
      <4>2. sum[n] = Round(x, sum, n)
        BY <4>1, <2>1
      <4>3. n # 0 => n - 1 \in 0 .. (m + 1) /\ h[n - 1] = sum[n - 1]
        BY <4>1
      <4> QED
        BY <4>1, <4>2, <4>3 DEF Round
    <3> QED
      BY <3>1, <3>2
  <2>3. h = [n \in 0 .. (m + 1) |-> Round(x, h, n)]
    BY <2>2
  <2>4. Partial(m + 1)
    BY <2>3
  <2> QED
    BY <2>4
<1>3. N \in S
  BY <1>1, <1>2, SetInduction
<1> QED
  BY <1>3

\* Where all but one are nothing, the sum is the one.
LEMMA SumOfOne ==
    ASSUME NEW x \in [File -> Nat], NEW f \in File, \A k \in File \ {f} : x[k] = 0
    PROVE  SumOf(x) = x[f]
<1> DEFINE sum == CHOOSE s : s = [n \in 0 .. MaxFile |-> Round(x, s, n)]
<1>0. MaxFile \in Nat
  BY ConstantsOK
<1>1. \E s : s = [n \in 0 .. MaxFile |-> Round(x, s, n)]
  BY <1>0, LoopRuns
<1>2. sum = [n \in 0 .. MaxFile |-> Round(x, sum, n)]
  BY <1>1
<1>3. SumOf(x) = sum[MaxFile]
  BY DEF SumOf, Round
<1> HIDE DEF sum
<1>4. /\ sum[0] = 0
      /\ \A n \in 1 .. MaxFile : sum[n] = sum[n - 1] + x[n]
  <2>1. \A n \in 0 .. MaxFile : sum[n] = Round(x, sum, n)
    BY <1>2
  <2>2. 0 \in 0 .. MaxFile /\ \A n \in 1 .. MaxFile : n \in 0 .. MaxFile /\ n # 0
    BY <1>0
  <2> QED
    BY <2>1, <2>2 DEF Round
<1> DEFINE S == {n \in Nat : n <= MaxFile => sum[n] = IF n < f THEN 0 ELSE x[f]}
<1>5. f \in 1 .. MaxFile /\ x[f] \in Nat
  BY DEF File
<1>6. 0 \in S
  BY <1>4, <1>5
<1>7. ASSUME NEW n \in S PROVE n + 1 \in S
  <2>1. SUFFICES ASSUME n + 1 <= MaxFile PROVE sum[n + 1] = IF n + 1 < f THEN 0 ELSE x[f]
    OBVIOUS
  <2>2. n \in Nat /\ n + 1 \in File /\ (n + 1) - 1 = n /\ n <= MaxFile
    BY <1>0, <2>1 DEF File
  <2>3. sum[n + 1] = sum[n] + x[n + 1] /\ sum[n] = IF n < f THEN 0 ELSE x[f]
    BY <1>4, <2>2 DEF File
  <2>4. CASE n + 1 = f
    BY <1>5, <2>2, <2>3, <2>4
  <2>5. CASE n + 1 # f
    <3>1. x[n + 1] = 0
      BY <2>2, <2>5
    <3> QED
      BY <1>5, <2>2, <2>3, <2>5, <3>1
  <2> QED
    BY <2>4, <2>5
<1>8. MaxFile \in S
  <2> HIDE DEF S
  <2>1. S \in SUBSET Nat
    BY DEF S
  <2> QED
    BY <1>0, <1>6, <1>7, <2>1, SetInduction
<1> QED
  BY <1>0, <1>3, <1>5, <1>8

\* What the view's files count, by a catalog that has each of them once.
LEMMA CountedIs ==
    ASSUME Types, NEW c, Holds(c), NEW times \in [File -> Nat],
           \A k \in File : k \notin Live => times[k] = 0,
           \A k \in Live : counts[k] # Nothing => times[k] = 1
    PROVE  Counted(times) = c
<1>1. PICK f \in Live : counts[f] = c /\ \A k \in Live \ {f} : counts[k] = Nothing
  BY DEF Holds
<1>2. /\ \A a \in Nat : 0 * a = 0 /\ a * 0 = 0 /\ 1 * a = a
      /\ f \in File /\ \A k \in File : counts[k] \in Count
      /\ \A g \in Group : Nothing[g] = 0
  BY DEF Live, Types, Nothing
<1>3. ASSUME NEW g \in Group
      PROVE  SumOf([k \in File |-> times[k] * counts[k][g]]) = c[g]
  <2> DEFINE x == [k \in File |-> times[k] * counts[k][g]]
  <2>1. \A k \in File : counts[k][g] \in Nat /\ times[k] \in Nat
    BY <1>2 DEF Count
  <2>2. x \in [File -> Nat]
    BY <2>1
  <2>3. ASSUME NEW k \in File \ {f} PROVE x[k] = 0
    <3>1. CASE k \in Live
      BY <1>1, <1>2, <2>1, <3>1
    <3>2. CASE k \notin Live
      BY <1>2, <2>1, <3>2
    <3> QED
      BY <3>1, <3>2
  <2>4. x[f] = c[g]
    <3>1. x[f] = times[f] * counts[f][g]
      BY <1>2
    <3>2. CASE counts[f] = Nothing
      BY <1>1, <1>2, <2>1, <3>1, <3>2
    <3>3. CASE counts[f] # Nothing
      BY <1>1, <1>2, <2>1, <3>1, <3>3
    <3> QED
      BY <3>2, <3>3
  <2> HIDE DEF x
  <2>5. SumOf(x) = x[f]
    BY <1>2, <2>2, <2>3, SumOfOne
  <2> QED
    BY <2>4, <2>5 DEF x
<1>4. c \in Count
  BY <1>1, <1>2
<1> QED
  BY <1>3, <1>4 DEF Counted, Count

LEMMA ContentIs ==
    ASSUME Types, NEW c, Holds(c)
    PROVE  Content = c
<1> DEFINE times == [f \in File |-> IF f \in Live THEN 1 ELSE 0]
<1>1. times \in [File -> Nat] /\ \A k \in File : (k \notin Live => times[k] = 0) /\ (k \in Live => times[k] = 1)
  OBVIOUS
<1>2. \A k \in Live : k \in File
  BY DEF Live
<1> HIDE DEF times
<1>3. Counted(times) = c
  BY <1>1, <1>2, CountedIs
<1> QED
  BY <1>3 DEF Content, times

LEMMA FreshIs ==
    ASSUME Types, NEW c, Holds(c), NEW e \in Engine, Fresh(e)
    PROVE  Counted(vcat[e]) = c /\ Registered(e) \subseteq Live
<1>1. /\ vcat[e] \in [File -> Nat]
      /\ \A k \in File : k \notin Live => vcat[e][k] = 0
      /\ \A k \in Live : counts[k] # Nothing => vcat[e][k] = 1
  BY DEF Types, Fresh, Live
<1>2. Counted(vcat[e]) = c
  BY <1>1, CountedIs
<1>3. Registered(e) \subseteq Live
  BY <1>1 DEF Registered
<1> QED
  BY <1>2, <1>3

LEMMA NewFileIs ==
    ASSUME Types, \E f \in File : vstate[f] = "none"
    PROVE  NewFile \in File /\ vstate[NewFile] = "none"
<1> DEFINE T == {f \in File : vstate[f] = "none"}
<1>1. T \in SUBSET Nat /\ T # {}
  BY DEF File
<1>2. PICK f \in T : \A g \in T : f <= g
  BY <1>1, LeastOf
<1> QED
  BY <1>2 DEF NewFile
-----------------------------------------------------------------------------
(* Who is at work.                                                           *)

LEMMA WorkersApart ==
    /\ NoMerge \notin Merge /\ Merge \subseteq Nat
    /\ Engine \cap Merge = {} /\ Engine \subseteq Worker /\ Merge \subseteq Worker
    /\ \A w \in Worker : w \notin Merge => w \in Engine
  BY ConstantsOK DEF Merge, Worker, NoMerge

LEMMA Moves ==
    ASSUME Types, NEW w \in Worker, NEW p \in Places, Goto(w, p)
    PROVE  /\ pc' \in [Worker -> Places] /\ pc'[w] = p
           /\ \A v \in Worker : v # w => pc'[v] = pc[v]
  BY DEF Types, Goto

\* A statement's step leaves the goroutines where they are.
LEMMA EngineMoves ==
    ASSUME Types, NEW e \in Engine, NEW p \in Places, Goto(e, p)
    PROVE  /\ pc' \in [Worker -> Places] /\ pc'[e] = p
           /\ \A v \in Worker : v # e => pc'[v] = pc[v]
           /\ \A f \in Engine : f # e => pc'[f] = pc[f]
           /\ Merging' = Merging
<1>1. e \in Worker
  BY WorkersApart
<1>2. /\ pc' \in [Worker -> Places] /\ pc'[e] = p
      /\ \A v \in Worker : v # e => pc'[v] = pc[v]
  BY <1>1, Moves
<1>3. \A m \in Merge : pc'[m] = pc[m]
  BY <1>2, WorkersApart
<1>4. \A f \in Engine : f # e => pc'[f] = pc[f]
  BY <1>2, WorkersApart
<1> QED
  BY <1>2, <1>3, <1>4 DEF Merging

\* A statement that is not idle and does not replace the view runs beside others of
\* its kind only, and finds the view with the rows told.
LEMMA Beside ==
    ASSUME Exact, NEW e \in Engine, pc[e] \notin {"idle", "look"} \cup Replacing
    PROVE  /\ Merging = {} /\ marker = NoMerge
           /\ \A f \in Engine : f # e => pc[f] \notin Solo
           /\ Holds(told)
<1>1. Merging = {} /\ marker = NoMerge
  BY DEF Exact, Alone, At
<1>2. ASSUME NEW f \in Engine, f # e PROVE pc[f] \notin Solo
  BY <1>2 DEF Exact, Alone, At
<1>3. \A f \in Engine : pc[f] \notin {"look"} \cup Replacing
  BY <1>2 DEF Solo
<1>4. Holds(told)
  BY <1>1, <1>3 DEF Exact, View
<1> QED
  BY <1>1, <1>2, <1>4

\* The places of a statement that leaves the view alone.
Bystander == {"idle", "append", "trigger", "query", "scan", "answered", "rewrite"}

\* A step of such a statement.
LEMMA Bystands ==
    ASSUME Exact, NEW e \in Engine, NEW p \in Bystander, Goto(e, p),
           Merging = {}, Holds(told), pc[e] \in Bystander,
           \A f \in Engine : f # e => pc[f] \notin Solo,
           p = "rewrite" => \A f \in Engine : f # e => At(f, "idle"),
           UNCHANGED <<vstate, counts, told, marker, awaits>>
    PROVE  Alone' /\ View'
<1>1. /\ pc'[e] = p /\ Merging' = Merging
      /\ \A f \in Engine : f # e => pc'[f] = pc[f]
  <2>1. p \in Places
    BY DEF Bystander, Places
  <2> QED
    BY <2>1, EngineMoves DEF Exact
<1>2. Alone'
  <2>1. \A f \in Engine : pc'[f] \notin {"none", "read", "unmark", "signal", "done"}
    BY <1>1 DEF Exact, Alone, Bystander
  <2>2. marker' = NoMerge
    BY DEF Exact, Alone
  <2>3. \A f \in Engine : awaits'[f] = NoMerge
    BY DEF Exact, Alone
  <2>4. \A f \in Engine : pc'[f] \in Solo => \A k \in Engine \ {f} : At(k, "idle")'
    <3>1. \A f \in Engine : pc'[f] \in Solo => f = e /\ p = "rewrite"
      BY <1>1 DEF Bystander, Solo, Replacing
    <3> QED
      BY <1>1, <3>1 DEF At
  <2> QED
    BY <1>1, <2>1, <2>2, <2>3, <2>4 DEF Alone
<1>3. View'
  <2>1. \A f \in Engine : pc'[f] \notin {"look"} \cup Replacing
    BY <1>1 DEF Bystander, Solo, Replacing
  <2>2. Holds(told)'
    BY DEF Holds, Live
  <2> QED
    BY <1>1, <2>1, <2>2 DEF View, At
<1> QED
  BY <1>2, <1>3

\* A worker that replaces the view is alone; no append is under way.
LEMMA AtWork ==
    ASSUME Exact, NEW w \in Worker, pc[w] \in Replacing \/ w \in Merging
    PROVE  /\ \A e \in Engine : e # w => At(e, "idle")
           /\ Merging \subseteq {w}
           /\ w \in Engine => Merging = {}
           /\ w \in Merge => Merging = {w} /\ owner[w] \in Engine
           /\ Eng(w) \in Engine
           /\ told = src
           /\ pc[w] \in Replacing => Replaces(w)
<1>1. CASE w \in Merge
  <2>1. w \in Merging
    BY <1>1, WorkersApart DEF Merging
  <2>2. Merging = {w}
    BY <2>1 DEF Exact, Alone
  <2>3. owner[w] \in Engine /\ \A e \in Engine : At(e, "idle")
    BY <2>1 DEF Exact, Alone
  <2>4. told = src
    BY <2>3 DEF Exact, Pending, At
  <2>5. pc[w] \in Replacing => Replaces(w)
    BY <2>1 DEF Exact, View
  <2>6. w \notin Engine
    BY <1>1, WorkersApart
  <2> QED
    BY <2>2, <2>3, <2>4, <2>5, <2>6 DEF Eng
<1>2. CASE w \in Engine /\ w \notin Merge
  <2>1. pc[w] \in Replacing
    BY <1>2 DEF Merging
  <2>2. \A e \in Engine : e # w => At(e, "idle")
    BY <1>2, <2>1 DEF Exact, Alone, Solo
  <2>3. Merging = {}
    BY <1>2, <2>1 DEF Exact, Alone, At, Replacing
  <2>4. told = src
    BY <1>2, <2>1, <2>2 DEF Exact, Pending, At, Replacing
  <2>5. Replaces(w)
    BY <1>2, <2>1 DEF Exact, View
  <2> QED
    BY <1>2, <2>2, <2>3, <2>4, <2>5 DEF Eng
<1> QED
  BY <1>1, <1>2, WorkersApart

\* A step of the worker that replaces the view: to the next place, with the directory
\* as it has to be there, or to its end, with the view replaced.
LEMMA WorkStep ==
    ASSUME Exact, NEW w \in Worker, pc[w] \in Replacing,
           NEW p \in Replacing \cup {Ended(w)}, Goto(w, p), Types',
           UNCHANGED <<src, told, marker, owner, delta, awaits>>,
           p \in Replacing => Replaces(w)',
           p = Ended(w) => Holds(src)'
    PROVE  Exact'
<1>1. /\ \A e \in Engine : e # w => At(e, "idle")
      /\ Merging \subseteq {w}
      /\ w \in Engine => Merging = {}
      /\ w \in Merge => Merging = {w} /\ owner[w] \in Engine
      /\ told = src
  BY AtWork
<1>2. /\ pc'[w] = p
      /\ \A v \in Worker : v # w => pc'[v] = pc[v]
  <2>1. p \in Places
    BY DEF Places, Ended
  <2> QED
    BY <2>1, Moves DEF Exact
<1>3. /\ p \in Replacing \/ (w \in Merge /\ p = "unmark") \/ (w \notin Merge /\ p = "idle")
      /\ p = "unmark" \/ p = "idle" => p = Ended(w)
  BY DEF Ended, Replacing
<1>4. \A e \in Engine : e # w => pc'[e] = "idle" /\ pc[e] = "idle"
  BY <1>1, <1>2, WorkersApart DEF At
<1>5. w \in Engine => pc'[w] \in Replacing \cup {"idle"}
  BY <1>2, <1>3, WorkersApart
<1>6. Merging' = Merging
  <2>1. CASE w \in Merge
    <3>1. pc'[w] \in {"read", "unmark", "signal"} \cup Replacing
      BY <1>2, <1>3, <2>1, WorkersApart
    <3>2. \A m \in Merge : m # w => pc'[m] = pc[m]
      BY <1>2, WorkersApart
    <3> QED
      BY <1>1, <2>1, <3>1, <3>2 DEF Merging
  <2>2. CASE w \notin Merge
    <3>1. \A m \in Merge : pc'[m] = pc[m]
      BY <1>2, <2>2, WorkersApart
    <3> QED
      BY <3>1 DEF Merging
  <2> QED
    BY <2>1, <2>2
<1>7. Alone'
  <2>1. \A e \in Engine : pc'[e] \notin {"none", "read", "unmark", "signal", "done"}
    BY <1>4, <1>5 DEF Replacing
  <2>2. \A m, n \in Merging' : m = n
    BY <1>1, <1>6
  <2>3. ASSUME NEW m \in Merging'
        PROVE  /\ \A e \in Engine : At(e, "idle")'
               /\ owner'[m] \in Engine
               /\ marker' = IF At(m, "signal")' THEN NoMerge ELSE m
    <3>1. m = w /\ w \in Merge /\ w \in Merging
      BY <1>1, <1>6, <2>3 DEF Merging
    <3>2. \A e \in Engine : e # w
      BY <3>1, WorkersApart
    <3>3. marker = w
      BY <3>1 DEF Exact, Alone, At, Replacing
    <3>4. pc'[w] # "signal"
      BY <1>2, <1>3 DEF Replacing
    <3> QED
      BY <1>1, <1>4, <3>1, <3>2, <3>3, <3>4 DEF At
  <2>4. Merging' = {} => marker' = NoMerge
    BY <1>6 DEF Exact, Alone
  <2>5. \A e \in Engine : awaits'[e] = NoMerge
    BY DEF Exact, Alone
  <2>6. \A e \in Engine : pc'[e] \in Solo => \A f \in Engine \ {e} : At(f, "idle")'
    <3>1. \A e \in Engine : pc'[e] \in Solo => e = w
      BY <1>4 DEF Solo, Replacing
    <3> QED
      BY <1>4, <3>1 DEF At
  <2> QED
    BY <2>1, <2>2, <2>3, <2>4, <2>5, <2>6 DEF Alone
<1>8. Pending'
  <2>1. \A e \in Engine : pc'[e] # "trigger" /\ pc[e] # "trigger"
    BY <1>4, <1>5 DEF Replacing
  <2> QED
    BY <2>1 DEF Exact, Pending, At
<1>9. View'
  <2>1. ASSUME NEW m \in Merging'
        PROVE  /\ pc'[m] \in Replacing => Replaces(m)'
               /\ pc'[m] # "read"
               /\ pc'[m] \in {"unmark", "signal"} => Holds(src)'
    <3>1. m = w
      BY <1>1, <1>6, <2>1
    <3> QED
      BY <1>2, <1>3, <3>1 DEF Replacing
  <2>2. ASSUME NEW e \in Engine
        PROVE  /\ pc'[e] \in Replacing => Replaces(e)'
               /\ pc'[e] # "look"
    BY <1>2, <1>4, <1>5 DEF Replacing
  <2>3. ASSUME Merging' = {}, \A e \in Engine : pc'[e] \notin {"look"} \cup Replacing
        PROVE  Holds(told)'
    <3>1. w \in Engine /\ w \notin Merge
      BY <1>1, <1>6, <2>3, WorkersApart
    <3>2. p = Ended(w)
      BY <1>2, <1>3, <2>3, <3>1
    <3>3. Holds(src)' /\ told' = src'
      BY <1>1, <3>2
    <3> QED
      BY <3>3 DEF Holds
  <2> QED
    BY <2>1, <2>2, <2>3 DEF View, At
<1>10. Knows'
  BY <1>4, <1>5 DEF Knows, At, Replacing
<1> QED
  BY <1>7, <1>8, <1>9, <1>10 DEF Exact
-----------------------------------------------------------------------------
(* Statements keep what is exact.                                            *)

LEMMA ConstantCounts ==
    /\ Nothing \in Count
    /\ \A c, d \in Count : Plus(c, d) \in Count
  BY DEF Nothing, Count, Plus

LEMMA Begins ==
    ASSUME Exact, NEW e \in Engine, NEW place \in {"append", "query", "rewrite"},
           Begin(e, place), ~disturbed'
    PROVE  Exact'
<1>1. /\ pc[e] = "idle" /\ Merging = {} /\ Goto(e, place)
      /\ \A f \in Engine : pc[f] \notin Solo
      /\ place = "rewrite" => \A f \in Engine : At(f, "idle")
      /\ vtab' = [vtab EXCEPT ![e] = Live # {}]
      /\ vcat' = [vcat EXCEPT ![e] =
           [f \in File |-> IF vstate[f] = "live" /\ counts[f] # Nothing THEN 1 ELSE 0]]
      /\ basis' = [basis EXCEPT ![e] = IF place = "query" THEN told ELSE Nothing]
      /\ UNCHANGED <<src, vstate, counts, marker, owner, delta, base, todo, awaits, told>>
  BY DEF Begin, At, disk, Solo
<1>2. Holds(told)
  BY <1>1 DEF Exact, View, Solo
<1>3. /\ place \in Bystander /\ place \in Places /\ pc[e] \in Bystander
  BY <1>1 DEF Bystander, Places
<1>4. Alone' /\ View'
  BY <1>1, <1>2, <1>3, Bystands
<1>5. /\ pc' \in [Worker -> Places] /\ pc'[e] = place
      /\ \A f \in Engine : f # e => pc'[f] = pc[f]
  BY <1>1, <1>3, EngineMoves DEF Exact
<1>6. Types'
  <2>1. basis' \in [Engine -> Count]
    BY <1>1, ConstantCounts DEF Exact, Types
  <2>2. vtab' \in [Engine -> BOOLEAN] /\ vcat' \in [Engine -> [File -> Nat]]
    BY <1>1 DEF Exact, Types
  <2> QED
    BY <1>1, <1>5, <2>1, <2>2 DEF Exact, Types
<1>7. Pending'
  <2>1. \A f \in Engine : pc'[f] = "trigger" <=> pc[f] = "trigger"
    BY <1>1, <1>5
  <2> QED
    BY <1>1, <2>1 DEF Exact, Pending, At
<1>8. Knows'
  <2>1. Fresh(e)'
    <3>1. Live # {}
      BY <1>2 DEF Holds
    <3>2. vtab'[e] /\ vcat'[e] = [f \in File |-> IF vstate[f] = "live" /\ counts[f] # Nothing THEN 1 ELSE 0]
      BY <1>1, <3>1 DEF Exact, Types
    <3> QED
      BY <1>1, <3>2 DEF Fresh
  <2>2. place = "query" => basis'[e] = told'
    BY <1>1 DEF Exact, Types
  <2>3. ASSUME NEW f \in Engine, f # e
        PROVE  (Fresh(f) => Fresh(f)') /\ basis'[f] = basis[f]
    <3>1. vtab'[f] = vtab[f] /\ vcat'[f] = vcat[f] /\ basis'[f] = basis[f]
      BY <1>1, <2>3 DEF Exact, Types
    <3> QED
      BY <1>1, <3>1 DEF Fresh
  <2>4. /\ pc'[e] \in {"append", "trigger", "query", "scan", "rewrite", "look"} => Fresh(e)'
        /\ pc'[e] \in {"query", "scan", "answered"} => basis'[e] = told'
        /\ pc'[e] = "answered" => base'[e] = told'
    BY <1>5, <2>1, <2>2
  <2>5. ASSUME NEW f \in Engine, f # e
        PROVE  /\ pc'[f] \in {"append", "trigger", "query", "scan", "rewrite", "look"} => Fresh(f)'
               /\ pc'[f] \in {"query", "scan", "answered"} => basis'[f] = told'
               /\ pc'[f] = "answered" => base'[f] = told'
    BY <1>1, <1>5, <2>3, <2>5 DEF Exact, Knows, At
  <2> QED
    BY <2>4, <2>5 DEF Knows, At
<1> QED
  BY <1>4, <1>6, <1>7, <1>8 DEF Exact

LEMMA AppendsCommit ==
    ASSUME Exact, NEW e \in Engine, CommitAppend(e)
    PROVE  Exact'
<1>1. PICK g \in Group : /\ src' = [src EXCEPT ![g] = @ + 1]
                         /\ delta' = [delta EXCEPT ![e][g] = 1]
  BY DEF CommitAppend
<1>2. /\ pc[e] = "append" /\ Goto(e, "trigger")
      /\ UNCHANGED <<vstate, counts, marker, vtab, vcat, owner, base, todo, awaits, told, basis>>
  BY DEF CommitAppend, At, ghost
<1>3. /\ Merging = {} /\ marker = NoMerge
      /\ \A f \in Engine : f # e => pc[f] \notin Solo
      /\ Holds(told)
  BY <1>2, Beside DEF Replacing
<1>4. "trigger" \in Bystander /\ "trigger" \in Places /\ pc[e] \in Bystander
  BY <1>2 DEF Bystander, Places
<1>5. Alone' /\ View'
  BY <1>2, <1>3, <1>4, Bystands
<1>6. /\ pc' \in [Worker -> Places] /\ pc'[e] = "trigger"
      /\ \A f \in Engine : f # e => pc'[f] = pc[f]
  BY <1>2, <1>4, EngineMoves DEF Exact
<1>7. /\ delta \in [Worker -> Count] /\ src \in Count /\ told \in Count
      /\ e \in Worker /\ delta[e] = Nothing
  BY <1>2, WorkersApart DEF Exact, Types, Pending, At
<1>8. /\ delta'[e] = [Nothing EXCEPT ![g] = 1]
      /\ \A v \in Worker : v # e => delta'[v] = delta[v]
  BY <1>1, <1>7
<1>9. src' \in Count /\ delta' \in [Worker -> Count]
  <2>1. src' \in Count
    BY <1>1, <1>7 DEF Count
  <2>2. [Nothing EXCEPT ![g] = 1] \in Count
    BY DEF Nothing, Count
  <2>3. delta' = [delta EXCEPT ![e] = [Nothing EXCEPT ![g] = 1]]
    BY <1>1, <1>7
  <2> QED
    BY <1>7, <2>1, <2>2, <2>3
<1>10. Types'
  BY <1>2, <1>6, <1>9 DEF Exact, Types
<1>11. Pending'
  <2>1. \A f \in Engine : pc'[f] # "trigger" => delta'[f] = Nothing
    BY <1>6, <1>7, <1>8, WorkersApart DEF Exact, Pending, At
  <2>2. ASSUME NEW f \in Engine, pc'[f] = "trigger",
               \A k \in Engine \ {f} : pc'[k] # "trigger"
        PROVE  src' = Plus(told', delta'[f])
    <3>1. f = e
      BY <1>6, <2>2
    <3>2. \A k \in Engine : pc[k] # "trigger"
      BY <1>2, <1>6, <2>2, <3>1
    <3>3. told = src
      BY <3>2 DEF Exact, Pending, At
    <3>4. src' = Plus(src, [Nothing EXCEPT ![g] = 1])
      <4>1. ASSUME NEW h \in Group PROVE src'[h] = src[h] + [Nothing EXCEPT ![g] = 1][h]
        <5>1. src[h] \in Nat /\ [Nothing EXCEPT ![g] = 1][h] = IF h = g THEN 1 ELSE 0
          BY <1>7 DEF Count, Nothing
        <5>2. src'[h] = IF h = g THEN src[h] + 1 ELSE src[h]
          BY <1>1, <1>7 DEF Count
        <5> QED
          BY <5>1, <5>2
      <4>2. src' = [h \in Group |-> src'[h]]
        BY <1>9 DEF Count
      <4> QED
        BY <4>1, <4>2 DEF Plus
    <3> QED
      BY <1>2, <1>8, <3>1, <3>3, <3>4
  <2>3. \A h \in Group : told'[h] <= src'[h]
    <3>1. \A h \in Group : told[h] <= src[h] /\ src[h] \in Nat /\ told[h] \in Nat
      BY <1>7 DEF Exact, Pending, Count
    <3>2. \A h \in Group : src'[h] = src[h] \/ src'[h] = src[h] + 1
      BY <1>1, <1>7 DEF Count
    <3> QED
      BY <1>2, <3>1, <3>2
  <2>4. ~ \A f \in Engine : pc'[f] # "trigger"
    BY <1>6
  <2> QED
    BY <2>1, <2>2, <2>3, <2>4 DEF Pending, At
<1>12. Knows'
  <2>1. \A f \in Engine : Fresh(f) => Fresh(f)'
    BY <1>2 DEF Fresh
  <2>2. Fresh(e)
    BY <1>2 DEF Exact, Knows
  <2> QED
    BY <1>2, <1>6, <2>1, <2>2 DEF Exact, Knows, At
<1> QED
  BY <1>5, <1>10, <1>11, <1>12 DEF Exact

LEMMA NothingChanges ==
    ASSUME Exact, NEW e \in Engine, ChangeNothing(e)
    PROVE  Exact'
<1>2. /\ pc[e] \in {"append", "rewrite"} /\ Goto(e, "idle")
      /\ UNCHANGED <<src, vstate, counts, marker, vtab, vcat, owner, delta, base, todo, awaits,
                     told, basis>>
  BY DEF ChangeNothing, disk, memory, ghost
<1>3. /\ Merging = {} /\ marker = NoMerge
      /\ \A f \in Engine : f # e => pc[f] \notin Solo
      /\ Holds(told)
  BY <1>2, Beside DEF Replacing
<1>4. "idle" \in Bystander /\ "idle" \in Places /\ pc[e] \in Bystander
  BY <1>2 DEF Bystander, Places
<1>5. Alone' /\ View'
  BY <1>2, <1>3, <1>4, Bystands
<1>6. /\ pc' \in [Worker -> Places] /\ pc'[e] = "idle"
      /\ \A f \in Engine : f # e => pc'[f] = pc[f]
  BY <1>2, <1>4, EngineMoves DEF Exact
<1>7. Types'
  BY <1>2, <1>6 DEF Exact, Types
<1>8. Pending'
  <2>1. \A f \in Engine : pc'[f] = "trigger" <=> pc[f] = "trigger"
    BY <1>2, <1>6
  <2> QED
    BY <1>2, <2>1 DEF Exact, Pending, At
<1>9. Knows'
  <2>1. \A f \in Engine : Fresh(f) => Fresh(f)'
    BY <1>2 DEF Fresh
  <2> QED
    BY <1>2, <1>6, <2>1 DEF Exact, Knows, At
<1> QED
  BY <1>5, <1>7, <1>8, <1>9 DEF Exact

LEMMA MergesStart ==
    ASSUME Exact, NEW e \in Engine, Trigger(e), ~disturbed'
    PROVE  Exact'
<1>1. PICK m \in Merge :
        /\ At(m, "none")
        /\ marker' = m
        /\ owner' = [owner EXCEPT ![m] = e]
        /\ delta' = [delta EXCEPT ![m] = delta[e], ![e] = Nothing]
        /\ pc' = [pc EXCEPT ![m] = "read", ![e] = "idle"]
  BY DEF Trigger
<1>2. /\ pc[e] = "trigger" /\ Merging = {}
      /\ \A f \in Engine : f # e => pc[f] = "idle"
      /\ told' = Plus(told, delta[e])
      /\ UNCHANGED <<src, vstate, counts, vtab, vcat, base, todo, awaits, basis>>
  BY DEF Trigger, At, disk
<1>3. Holds(told) /\ Fresh(e)
  BY <1>2, Beside DEF Exact, Knows, Replacing
<1>4. m # e /\ m \in Worker /\ e \in Worker /\ m # NoMerge /\ m \in Nat /\ m \notin Engine /\ e \notin Merge
  BY WorkersApart
<1>5. pc \in [Worker -> Places] /\ delta \in [Worker -> Count] /\ DOMAIN owner = Merge
  BY DEF Exact, Types
<1>6. /\ pc'[m] = "read" /\ pc'[e] = "idle"
      /\ \A v \in Worker : v # m /\ v # e => pc'[v] = pc[v]
      /\ pc' \in [Worker -> Places]
  BY <1>1, <1>4, <1>5 DEF Places
<1>7. /\ delta'[m] = delta[e] /\ delta'[e] = Nothing
      /\ \A v \in Worker : v # m /\ v # e => delta'[v] = delta[v]
      /\ delta' \in [Worker -> Count]
  BY <1>1, <1>4, <1>5, ConstantCounts
<1>8. owner'[m] = e /\ DOMAIN owner' = Merge
  BY <1>1, <1>5
<1>9. src = Plus(told, delta[e])
  BY <1>2 DEF Exact, Pending, At
<1>10. \A f \in Engine : pc'[f] = "idle"
  BY <1>2, <1>4, <1>6, WorkersApart
<1>11. Merging' = {m}
  <2>1. \A n \in Merge : n # m => pc'[n] = pc[n] /\ n \notin Merging
    BY <1>2, <1>4, <1>6, WorkersApart
  <2> QED
    BY <1>6, <2>1 DEF Merging
<1>12. Types'
  <2>1. told' \in Count
    BY <1>5, <1>2, <1>4, ConstantCounts DEF Exact, Types
  <2> QED
    BY <1>1, <1>2, <1>4, <1>6, <1>7, <1>8, <2>1 DEF Exact, Types
<1>13. Alone'
  <2>1. \A n \in Merging' : n = m
    BY <1>11
  <2>2. \A f \in Engine : awaits'[f] = NoMerge
    BY <1>2 DEF Exact, Alone
  <2> QED
    BY <1>1, <1>4, <1>6, <1>8, <1>10, <1>11, <2>1, <2>2 DEF Alone, At
<1>14. Pending'
  <2>1. \A f \in Engine : delta'[f] = Nothing
    BY <1>2, <1>4, <1>7, WorkersApart DEF Exact, Pending, At
  <2>2. told' = src'
    BY <1>2, <1>9
  <2>3. \A g \in Group : told'[g] <= src'[g]
    BY <1>12, <2>2 DEF Types, Count
  <2> QED
    BY <1>10, <2>1, <2>2, <2>3 DEF Pending, At
<1>15. View'
  <2>1. Fresh(owner[m])'
    <3>1. Fresh(e)'
      BY <1>2, <1>3 DEF Fresh
    <3> QED
      BY <1>8, <3>1 DEF Fresh
  <2>2. \E c \in Count : Holds(c)' /\ told' = Plus(c, delta'[m])
    <3>1. Holds(told)' <=> \E f \in Live' : counts'[f] = told' /\ \A k \in Live' \ {f} : counts'[k] = Nothing
      BY DEF Holds
    <3>2. PICK c : c = told
      OBVIOUS
    <3>3. c \in Count
      BY <3>2 DEF Exact, Types
    <3>4. Holds(c)'
      BY <1>2, <1>3, <3>2 DEF Holds, Live
    <3> QED
      BY <1>2, <1>7, <3>2, <3>3, <3>4
  <2>3. \A n \in Merging' : n = m /\ pc'[n] = "read"
    BY <1>6, <1>11
  <2> QED
    BY <1>10, <1>11, <2>1, <2>2, <2>3 DEF View, At, Replacing
<1>16. Knows'
  BY <1>10 DEF Knows, At
<1> QED
  BY <1>12, <1>13, <1>14, <1>15, <1>16 DEF Exact

LEMMA SourcesRewrite ==
    ASSUME Exact, NEW e \in Engine, RewriteSource(e)
    PROVE  Exact'
<1>1. PICK g \in Group : \E n \in 0 .. src[g] - 1 : src' = [src EXCEPT ![g] = n]
  BY DEF RewriteSource
<1>2. /\ pc[e] = "rewrite" /\ Goto(e, "look") /\ told' = src'
      /\ UNCHANGED <<vstate, counts, marker, vtab, vcat, owner, delta, base, todo, awaits, basis>>
  BY DEF RewriteSource, At, memory
<1>3. /\ Merging = {} /\ marker = NoMerge /\ Holds(told) /\ Fresh(e)
  BY <1>2, Beside DEF Exact, Knows, Replacing
<1>4. \A f \in Engine : f # e => pc[f] = "idle"
  BY <1>2 DEF Exact, Alone, Solo, At
<1>5. /\ pc' \in [Worker -> Places] /\ pc'[e] = "look" /\ Merging' = Merging
      /\ \A f \in Engine : f # e => pc'[f] = "idle"
  <2>1. "look" \in Places
    BY DEF Places
  <2> QED
    BY <1>2, <1>4, <2>1, EngineMoves DEF Exact
<1>6. src' \in Count
  <2>1. PICK n \in 0 .. src[g] - 1 : src' = [src EXCEPT ![g] = n]
    BY <1>1
  <2> QED
    BY <2>1 DEF Exact, Types, Count
<1>7. Types'
  BY <1>2, <1>5, <1>6 DEF Exact, Types
<1>8. Alone'
  <2>1. \A f \in Engine : awaits'[f] = NoMerge
    BY <1>2 DEF Exact, Alone
  <2>2. \A f \in Engine : pc'[f] \in {"look", "idle"}
    BY <1>5
  <2>3. \A f \in Engine : pc'[f] \in Solo => f = e
    BY <1>5 DEF Solo, Replacing
  <2> QED
    BY <1>2, <1>3, <1>5, <2>1, <2>2, <2>3 DEF Alone, At
<1>9. Pending'
  <2>1. \A f \in Engine : pc'[f] # "trigger"
    BY <1>5
  <2>2. \A f \in Engine : delta'[f] = Nothing
    BY <1>2, <1>4 DEF Exact, Pending, At
  <2>3. \A h \in Group : told'[h] <= src'[h]
    BY <1>2, <1>6 DEF Count
  <2> QED
    BY <1>2, <2>1, <2>2, <2>3 DEF Pending, At
<1>10. View'
  <2>1. Live' # {}
    BY <1>2, <1>3 DEF Holds, Live
  <2>2. \A f \in Engine : pc'[f] \notin Replacing
    BY <1>5 DEF Replacing
  <2> QED
    BY <1>3, <1>5, <2>1, <2>2 DEF View, At
<1>11. Knows'
  <2>1. Fresh(e)'
    BY <1>2, <1>3 DEF Fresh
  <2> QED
    BY <1>5, <2>1 DEF Knows, At
<1> QED
  BY <1>7, <1>8, <1>9, <1>10, <1>11 DEF Exact

LEMMA StatementsProceed ==
    ASSUME Exact, NEW e \in Engine, Proceed(e)
    PROVE  Exact'
<1>1. /\ awaits' = [awaits EXCEPT ![e] = NoMerge]
      /\ UNCHANGED <<src, vstate, counts, marker, vtab, vcat, owner, delta, todo, told, basis>>
  BY DEF Proceed, disk, ghost
<1>2. awaits' = awaits
  BY <1>1 DEF Exact, Types, Alone
<1>3. CASE pc[e] = "query"
  <2>1. Goto(e, "scan") /\ base' = base
    BY <1>3 DEF Proceed, At
  <2>2. /\ Merging = {} /\ \A f \in Engine : f # e => pc[f] \notin Solo
        /\ Holds(told)
    BY <1>3, Beside DEF Replacing
  <2>3. "scan" \in Bystander /\ "scan" \in Places /\ pc[e] \in Bystander
    BY <1>3 DEF Bystander, Places
  <2>4. Alone' /\ View'
    BY <1>1, <1>2, <2>1, <2>2, <2>3, Bystands
  <2>5. /\ pc' \in [Worker -> Places] /\ pc'[e] = "scan"
        /\ \A f \in Engine : f # e => pc'[f] = pc[f]
    BY <2>1, <2>3, EngineMoves DEF Exact
  <2>6. Types'
    BY <1>1, <1>2, <2>1, <2>5 DEF Exact, Types
  <2>7. Pending'
    <3>1. \A f \in Engine : pc'[f] = "trigger" <=> pc[f] = "trigger"
      BY <1>3, <2>5
    <3> QED
      BY <1>1, <3>1 DEF Exact, Pending, At
  <2>8. Knows'
    <3>1. \A f \in Engine : Fresh(f) => Fresh(f)'
      BY <1>1 DEF Fresh
    <3> QED
      BY <1>1, <1>3, <2>1, <2>5, <3>1 DEF Exact, Knows, At
  <2> QED
    BY <2>4, <2>6, <2>7, <2>8 DEF Exact
<1>4. CASE pc[e] = "look"
  <2>1. Goto(e, "list") /\ base' = [base EXCEPT ![e] = src]
    BY <1>4 DEF Proceed, At
  <2>2. \A f \in Engine : f # e => pc[f] = "idle"
    BY <1>4 DEF Exact, Alone, At, Solo
  <2>3. Merging = {}
    BY <1>4 DEF Exact, Alone, At
  <2>4. Live # {} /\ Fresh(e)
    BY <1>4 DEF Exact, View, Knows, At
  <2>5. /\ pc' \in [Worker -> Places] /\ pc'[e] = "list" /\ Merging' = Merging
        /\ \A f \in Engine : f # e => pc'[f] = "idle"
    <3>1. "list" \in Places
      BY DEF Places, Replacing
    <3> QED
      BY <2>1, <2>2, <3>1, EngineMoves DEF Exact
  <2>6. base' \in [Worker -> Count] /\ base'[e] = src'
    BY <1>1, <2>1, WorkersApart DEF Exact, Types
  <2>7. Types'
    BY <1>1, <1>2, <2>5, <2>6 DEF Exact, Types
  <2>8. Alone'
    <3>1. \A f \in Engine : pc'[f] \in {"list", "idle"}
      BY <2>5
    <3>2. \A f \in Engine : pc'[f] \in Solo => f = e
      BY <2>5 DEF Solo, Replacing
    <3> QED
      BY <1>1, <1>2, <2>3, <2>5, <3>1, <3>2 DEF Exact, Alone, At
  <2>9. Pending'
    <3>1. \A f \in Engine : pc'[f] # "trigger" /\ pc[f] # "trigger"
      BY <1>4, <2>2, <2>5
    <3> QED
      BY <1>1, <3>1 DEF Exact, Pending, At
  <2>10. View'
    <3>1. Replaces(e)'
      BY <1>1, <2>4, <2>5, <2>6 DEF Replaces, Fresh, At, Live, Eng
    <3>2. \A f \in Engine : pc'[f] \in Replacing => f = e
      BY <2>5 DEF Replacing
    <3>3. \A f \in Engine : pc'[f] # "look"
      BY <2>5
    <3>4. pc'[e] \in Replacing
      BY <2>5 DEF Replacing
    <3> QED
      BY <2>3, <2>5, <3>1, <3>2, <3>3, <3>4 DEF View, At
  <2>11. Knows'
    <3>1. \A f \in Engine : pc'[f] \in {"list", "idle"}
      BY <2>5
    <3> QED
      BY <3>1 DEF Knows, At
  <2> QED
    BY <2>7, <2>8, <2>9, <2>10, <2>11 DEF Exact
<1> QED
  BY <1>3, <1>4 DEF Proceed, At

\* A query answers with the rows told.
LEMMA QueriesAnswer ==
    ASSUME Exact, NEW e \in Engine, Answer(e)
    PROVE  Exact'
<1>1. /\ pc[e] = "scan" /\ Goto(e, "answered")
      /\ base' = [base EXCEPT ![e] = Counted(vcat[e])]
      /\ UNCHANGED <<src, vstate, counts, marker, vtab, vcat, owner, delta, todo, awaits,
                     told, basis>>
  BY DEF Answer, At, disk, ghost
<1>2. /\ Merging = {} /\ \A f \in Engine : f # e => pc[f] \notin Solo
      /\ Holds(told) /\ Fresh(e)
  BY <1>1, Beside DEF Exact, Knows, Replacing
<1>3. "answered" \in Bystander /\ "answered" \in Places /\ pc[e] \in Bystander
  BY <1>1 DEF Bystander, Places
<1>4. Alone' /\ View'
  BY <1>1, <1>2, <1>3, Bystands
<1>5. /\ pc' \in [Worker -> Places] /\ pc'[e] = "answered"
      /\ \A f \in Engine : f # e => pc'[f] = pc[f]
  BY <1>1, <1>3, EngineMoves DEF Exact
<1>6. Counted(vcat[e]) = told
  <2>1. PICK c : c = told
    OBVIOUS
  <2>2. Holds(c)
    BY <1>2, <2>1
  <2>3. Counted(vcat[e]) = c
    BY <1>2, <2>2, FreshIs DEF Exact
  <2> QED
    BY <2>1, <2>3
<1>7. /\ base' \in [Worker -> Count] /\ base'[e] = told
      /\ \A f \in Engine : f # e => base'[f] = base[f]
  BY <1>1, <1>6, WorkersApart DEF Exact, Types
<1>8. Types'
  BY <1>1, <1>5, <1>7 DEF Exact, Types
<1>9. Pending'
  <2>1. \A f \in Engine : pc'[f] = "trigger" <=> pc[f] = "trigger"
    BY <1>1, <1>5
  <2> QED
    BY <1>1, <2>1 DEF Exact, Pending, At
<1>10. Knows'
  <2>1. \A f \in Engine : Fresh(f) => Fresh(f)'
    BY <1>1 DEF Fresh
  <2> QED
    BY <1>1, <1>5, <1>7, <2>1 DEF Exact, Knows, At
<1> QED
  BY <1>4, <1>8, <1>9, <1>10 DEF Exact

\* The view is there to answer from.
LEMMA NoQueryFails ==
    ASSUME Exact, NEW e \in Engine, NoAnswer(e)
    PROVE  FALSE
<1>1. pc[e] = "scan"
  BY DEF NoAnswer, At
<1>2. Holds(told) /\ Fresh(e)
  BY <1>1, Beside DEF Exact, Knows, At, Replacing
<1>3. PICK c : c = told
  OBVIOUS
<1>4. Holds(c)
  BY <1>2, <1>3
<1>5. Registered(e) \subseteq Live
  BY <1>2, <1>4, FreshIs DEF Exact
<1>6. vtab[e]
  BY <1>2 DEF Fresh
<1> QED
  BY <1>5, <1>6 DEF NoAnswer

LEMMA QueriesReturn ==
    ASSUME Exact, NEW e \in Engine, Return(e)
    PROVE  Exact'
<1>1. /\ pc[e] = "answered" /\ Goto(e, "idle")
      /\ base' = [base EXCEPT ![e] = Nothing] /\ basis' = [basis EXCEPT ![e] = Nothing]
      /\ UNCHANGED <<src, vstate, counts, marker, vtab, vcat, owner, delta, todo, awaits, told>>
  BY DEF Return, At, disk
<1>2. /\ Merging = {} /\ \A f \in Engine : f # e => pc[f] \notin Solo
      /\ Holds(told)
  BY <1>1, Beside DEF Replacing
<1>3. "idle" \in Bystander /\ "idle" \in Places /\ pc[e] \in Bystander
  BY <1>1 DEF Bystander, Places
<1>4. Alone' /\ View'
  BY <1>1, <1>2, <1>3, Bystands
<1>5. /\ pc' \in [Worker -> Places] /\ pc'[e] = "idle"
      /\ \A f \in Engine : f # e => pc'[f] = pc[f]
  BY <1>1, <1>3, EngineMoves DEF Exact
<1>6. /\ base' \in [Worker -> Count] /\ basis' \in [Engine -> Count]
      /\ \A f \in Engine : f # e => base'[f] = base[f] /\ basis'[f] = basis[f]
  BY <1>1, ConstantCounts, WorkersApart DEF Exact, Types
<1>7. Types'
  BY <1>1, <1>5, <1>6 DEF Exact, Types
<1>8. Pending'
  <2>1. \A f \in Engine : pc'[f] = "trigger" <=> pc[f] = "trigger"
    BY <1>1, <1>5
  <2> QED
    BY <1>1, <2>1 DEF Exact, Pending, At
<1>9. Knows'
  <2>1. \A f \in Engine : Fresh(f) => Fresh(f)'
    BY <1>1 DEF Fresh
  <2> QED
    BY <1>1, <1>5, <1>6, <2>1 DEF Exact, Knows, At
<1> QED
  BY <1>4, <1>7, <1>8, <1>9 DEF Exact

\* Nobody has to wait: a statement under way excludes merges.
LEMMA NobodyLooks ==
    ASSUME Exact, NEW e \in Engine, Look(e)
    PROVE  FALSE
  BY DEF Exact, Alone, Look, At

-----------------------------------------------------------------------------
(* The steps of a replacement.                                               *)

LEMMA FilesListed ==
    ASSUME Exact, NEW w \in Worker, ListFiles(w)
    PROVE  Exact'
<1>1. /\ pc[w] = "list" /\ pc[w] \in Replacing
      /\ UNCHANGED <<src, vstate, counts, marker, owner, delta, base, awaits, told, basis>>
  BY DEF ListFiles, At, disk, ghost, Replacing
<1>2. Replaces(w) /\ Eng(w) \in Engine /\ told = src
  BY <1>1, AtWork
<1>3. base[w] = src /\ Live # {} /\ vtab[Eng(w)]
  BY <1>1, <1>2 DEF Replaces, At
<1>4. /\ todo' = [todo EXCEPT ![w] = Live]
      /\ vtab' = [vtab EXCEPT ![Eng(w)] = FALSE]
      /\ vcat' = [vcat EXCEPT ![Eng(w)] = [f \in File |-> 0]]
      /\ Goto(w, "move")
  BY <1>3 DEF ListFiles
<1>5. pc' \in [Worker -> Places] /\ pc'[w] = "move"
  BY <1>4, Moves DEF Exact, Places, Replacing
<1>6. Types'
  <2>1. todo' \in [Worker -> SUBSET File]
    BY <1>4 DEF Exact, Types, Live
  <2>2. vtab' \in [Engine -> BOOLEAN] /\ vcat' \in [Engine -> [File -> Nat]]
    BY <1>4 DEF Exact, Types
  <2> QED
    BY <1>1, <1>5, <2>1, <2>2 DEF Exact, Types
<1>7. Replaces(w)'
  <2>1. todo'[w] = Live' /\ Live' # {}
    BY <1>1, <1>3, <1>4 DEF Exact, Types, Live
  <2> QED
    BY <1>1, <1>3, <1>5, <2>1 DEF Replaces, At
<1>8. "move" \in Replacing \cup {Ended(w)} /\ "move" # Ended(w)
  BY DEF Replacing, Ended
<1> QED
  BY <1>1, <1>4, <1>6, <1>7, <1>8, WorkStep

LEMMA FilesMoved ==
    ASSUME Exact, NEW w \in Worker, MoveFile(w)
    PROVE  Exact'
<1>1. /\ pc[w] = "move" /\ pc[w] \in Replacing
      /\ UNCHANGED <<src, marker, vtab, vcat, owner, delta, base, awaits, told, basis>>
  BY DEF MoveFile, At, ghost, Replacing
<1>2. PICK f \in todo[w] :
        /\ vstate' = [vstate EXCEPT ![f] = "archived"]
        /\ counts' = [counts EXCEPT ![f] = Nothing]
        /\ todo' = [todo EXCEPT ![w] = @ \ {f}]
        /\ IF todo[w] = {f} THEN Goto(w, "create") ELSE UNCHANGED pc
  BY DEF MoveFile
<1>3. base[w] = src /\ todo[w] = Live
  BY <1>1, AtWork DEF Replaces, At
<1>4. Live' = Live \ {f} /\ todo'[w] = Live \ {f} /\ f \in File
  BY <1>2, <1>3 DEF Exact, Types, Live
<1>5. PICK p : p = IF todo[w] = {f} THEN "create" ELSE "move"
  OBVIOUS
<1>6. Goto(w, p)
  BY <1>1, <1>2, <1>5 DEF Goto, Exact, Types
<1>7. /\ p \in Replacing /\ p \in Places /\ p # Ended(w)
      /\ p \in Replacing \cup {Ended(w)}
  BY <1>5 DEF Replacing, Places, Ended
<1>8. pc' \in [Worker -> Places] /\ pc'[w] = p
  BY <1>6, <1>7, Moves DEF Exact
<1>9. Types'
  <2>1. vstate' \in [File -> {"none", "live", "archived"}]
    BY <1>2, <1>4 DEF Exact, Types
  <2>2. counts' \in [File -> Count]
    BY <1>2, <1>4, ConstantCounts DEF Exact, Types
  <2>3. todo' \in [Worker -> SUBSET File]
    BY <1>2 DEF Exact, Types
  <2> QED
    BY <1>1, <1>8, <2>1, <2>2, <2>3 DEF Exact, Types
<1>10. Replaces(w)'
  <2>1. CASE todo[w] = {f}
    <3>1. p = "create" /\ Live' = {}
      BY <1>3, <1>4, <1>5, <2>1
    <3> QED
      BY <1>1, <1>3, <1>8, <3>1 DEF Replaces, At
  <2>2. CASE todo[w] # {f}
    <3>1. p = "move" /\ Live' # {}
      BY <1>3, <1>2, <1>4, <1>5, <2>2
    <3> QED
      BY <1>1, <1>3, <1>4, <1>8, <3>1 DEF Replaces, At
  <2> QED
    BY <2>1, <2>2
<1> QED
  BY <1>1, <1>6, <1>7, <1>9, <1>10, WorkStep

LEMMA TablesCreated ==
    ASSUME Exact, NEW w \in Worker, CreateTable(w)
    PROVE  Exact'
<1>1. /\ pc[w] = "create" /\ pc[w] \in Replacing /\ Goto(w, "shell")
      /\ vtab' = [vtab EXCEPT ![Eng(w)] = TRUE]
      /\ UNCHANGED <<src, vstate, counts, marker, vcat, owner, delta, base, todo, awaits, told, basis>>
  BY DEF CreateTable, At, disk, ghost, Replacing
<1>2. base[w] = src /\ Live = {}
  BY <1>1, AtWork DEF Replaces, At
<1>3. /\ "shell" \in Replacing \cup {Ended(w)} /\ "shell" # Ended(w) /\ "shell" \in Places
  BY DEF Replacing, Ended, Places
<1>4. pc' \in [Worker -> Places] /\ pc'[w] = "shell"
  BY <1>1, <1>3, Moves DEF Exact
<1>5. Types'
  BY <1>1, <1>4 DEF Exact, Types
<1>6. Replaces(w)'
  <2>1. Live' = {}
    BY <1>1, <1>2 DEF Live
  <2> QED
    BY <1>1, <1>2, <1>4, <2>1 DEF Replaces, At
<1> QED
  BY <1>1, <1>3, <1>5, <1>6, WorkStep

\* A commit adds a file with its counts to the directory.
LEMMA Commits ==
    ASSUME Types, NEW c \in Count, Commit(c)
    PROVE  /\ vstate' \in [File -> {"none", "live", "archived"}]
           /\ counts' \in [File -> Count]
           /\ NewFile \in File
           /\ Live' = Live \cup {NewFile}
           /\ counts'[NewFile] = c
           /\ \A f \in File : f # NewFile => counts'[f] = counts[f]
           /\ NewFile \notin Live
<1>1. /\ vstate' = [vstate EXCEPT ![NewFile] = "live"]
      /\ counts' = [counts EXCEPT ![NewFile] = c]
      /\ NewFile \in File /\ vstate[NewFile] = "none"
  BY NewFileIs DEF Commit
<1>2. vstate \in [File -> {"none", "live", "archived"}] /\ counts \in [File -> Count]
  BY DEF Types
<1> QED
  BY <1>1, <1>2 DEF Live

LEMMA ShellsPersisted ==
    ASSUME Exact, NEW w \in Worker, PersistShell(w)
    PROVE  Exact'
<1>1. /\ pc[w] = "shell" /\ pc[w] \in Replacing /\ Commit(Nothing)
      /\ Goto(w, IF base[w] = Nothing THEN Ended(w) ELSE "flush")
      /\ UNCHANGED <<src, marker, vtab, vcat, owner, delta, base, todo, awaits, told, basis>>
  BY DEF PersistShell, At, memory, ghost, Replacing
<1>2. base[w] = src /\ Live = {}
  BY <1>1, AtWork DEF Replaces, At
<1>3. PICK p : p = IF base[w] = Nothing THEN Ended(w) ELSE "flush"
  OBVIOUS
<1>4. p \in Replacing \cup {Ended(w)} /\ p \in Places
  BY <1>3 DEF Replacing, Ended, Places
<1>5. Goto(w, p)
  BY <1>1, <1>3
<1>6. pc' \in [Worker -> Places] /\ pc'[w] = p
  BY <1>4, <1>5, Moves DEF Exact
<1>7. /\ vstate' \in [File -> {"none", "live", "archived"}]
      /\ counts' \in [File -> Count]
      /\ NewFile \in File
      /\ Live' = Live \cup {NewFile}
      /\ counts'[NewFile] = Nothing
  BY <1>1, Commits, ConstantCounts DEF Exact
<1>8. Types'
  BY <1>1, <1>6, <1>7 DEF Exact, Types
<1>9. p \in Replacing => Replaces(w)'
  <2>1. SUFFICES ASSUME p \in Replacing PROVE Replaces(w)'
    OBVIOUS
  <2>2. p = "flush"
    BY <1>3, <2>1 DEF Ended, Replacing
  <2>3. \A f \in Live' : counts'[f] = Nothing
    BY <1>2, <1>7
  <2> QED
    BY <1>1, <1>2, <1>6, <2>2, <2>3 DEF Replaces, At
<1>10. p = Ended(w) => Holds(src)'
  <2>1. SUFFICES ASSUME p = Ended(w) PROVE Holds(src)'
    OBVIOUS
  <2>2. base[w] = Nothing
    BY <1>3, <2>1 DEF Ended
  <2>3. NewFile \in Live' /\ counts'[NewFile] = src' /\ \A k \in Live' : k = NewFile
    BY <1>1, <1>2, <1>7, <2>2
  <2>4. \E f \in Live' : counts'[f] = src' /\ \A k \in Live' : k = f
    BY <2>3
  <2> QED
    BY <2>4 DEF Holds
<1> QED
  BY <1>1, <1>4, <1>5, <1>8, <1>9, <1>10, WorkStep

LEMMA ViewsFlushed ==
    ASSUME Exact, NEW w \in Worker, Flush(w)
    PROVE  Exact'
<1>1. /\ pc[w] = "flush" /\ pc[w] \in Replacing /\ Commit(base[w]) /\ Goto(w, "register")
      /\ todo' = [todo EXCEPT ![w] = {NewFile}]
      /\ UNCHANGED <<src, marker, vtab, vcat, owner, delta, base, awaits, told, basis>>
  BY DEF Flush, At, ghost, Replacing
<1>2. base[w] = src /\ \A f \in Live : counts[f] = Nothing
  BY <1>1, AtWork DEF Replaces, At
<1>3. /\ "register" \in Replacing \cup {Ended(w)} /\ "register" # Ended(w) /\ "register" \in Places
  BY DEF Replacing, Ended, Places
<1>4. pc' \in [Worker -> Places] /\ pc'[w] = "register"
  BY <1>1, <1>3, Moves DEF Exact
<1>5. base[w] \in Count
  BY DEF Exact, Types
<1>6. /\ vstate' \in [File -> {"none", "live", "archived"}]
      /\ counts' \in [File -> Count]
      /\ NewFile \in File
      /\ Live' = Live \cup {NewFile}
      /\ counts'[NewFile] = base[w]
      /\ \A f \in File : f # NewFile => counts'[f] = counts[f]
  BY <1>1, <1>5, Commits DEF Exact
<1>7. Types'
  <2>1. todo' \in [Worker -> SUBSET File]
    BY <1>1, <1>6 DEF Exact, Types
  <2> QED
    BY <1>1, <1>4, <1>6, <2>1 DEF Exact, Types
<1>8. Holds(src)'
  <2>1. NewFile \in Live' /\ counts'[NewFile] = src'
    BY <1>1, <1>2, <1>6
  <2>2. \A k \in Live' \ {NewFile} : counts'[k] = Nothing
    BY <1>2, <1>6 DEF Live
  <2>3. \E f \in Live' : counts'[f] = src' /\ \A k \in Live' \ {f} : counts'[k] = Nothing
    BY <2>1, <2>2
  <2> QED
    BY <2>3 DEF Holds
<1>9. Replaces(w)'
  BY <1>1, <1>2, <1>4, <1>8 DEF Replaces, At
<1> QED
  BY <1>1, <1>3, <1>7, <1>9, WorkStep

LEMMA ViewsRegistered ==
    ASSUME Exact, NEW w \in Worker, Register(w)
    PROVE  Exact'
<1>1. /\ pc[w] = "register" /\ pc[w] \in Replacing /\ Goto(w, Ended(w))
      /\ todo' = [todo EXCEPT ![w] = {}]
      /\ base' = [base EXCEPT ![w] = Nothing]
      /\ UNCHANGED <<src, vstate, counts, marker, vtab, owner, delta, awaits, told, basis>>
  BY DEF Register, At, disk, ghost, Replacing
<1>2. PICK f \in todo[w] : vcat' = [vcat EXCEPT ![Eng(w)][f] = @ + 1]
  BY DEF Register
<1>3. Holds(src) /\ Eng(w) \in Engine
  BY <1>1, AtWork DEF Replaces, At
<1>4. Ended(w) \in Places /\ Ended(w) \notin Replacing
  BY DEF Ended, Places, Replacing
<1>5. pc' \in [Worker -> Places]
  BY <1>1, <1>4, Moves DEF Exact
<1>6. f \in File
  BY <1>2 DEF Exact, Types
<1>7. vcat' \in [Engine -> [File -> Nat]]
  BY <1>2, <1>3, <1>6 DEF Exact, Types
<1>8. Types'
  <2>1. base' \in [Worker -> Count] /\ todo' \in [Worker -> SUBSET File]
    BY <1>1, ConstantCounts DEF Exact, Types
  <2> QED
    BY <1>1, <1>5, <1>7, <2>1 DEF Exact, Types
<1>9. Holds(src)'
  BY <1>1, <1>3 DEF Holds, Live
<1> QED
  BY <1>1, <1>4, <1>8, <1>9, WorkStep

-----------------------------------------------------------------------------
(* The steps of a goroutine around the replacement.                          *)

\* A step of the goroutine at work on the view that stays at work on it.
LEMMA MergeStep ==
    ASSUME Exact, NEW m \in Merging, NEW p \in {"list", "signal"}, Goto(m, p), Types',
           UNCHANGED <<src, told, owner, awaits>>,
           marker' = IF p = "signal" THEN NoMerge ELSE m,
           \A e \in Engine : delta'[e] = delta[e],
           p = "list" => Replaces(m)',
           p = "signal" => Holds(src)'
    PROVE  Exact'
<1>1. m \in Merge /\ m \in Worker /\ m \notin Engine
  BY WorkersApart DEF Merging
<1>2. /\ \A e \in Engine : pc[e] = "idle"
      /\ Merging = {m} /\ owner[m] \in Engine /\ told = src
  BY <1>1, AtWork DEF At
<1>3. pc'[m] = p /\ \A v \in Worker : v # m => pc'[v] = pc[v]
  BY <1>1, Moves DEF Exact, Places, Replacing
<1>4. \A e \in Engine : pc'[e] = "idle"
  BY <1>1, <1>2, <1>3, WorkersApart
<1>5. Merging' = {m}
  <2>1. pc'[m] \in {"read", "unmark", "signal"} \cup Replacing
    BY <1>3 DEF Replacing
  <2>2. \A n \in Merge : n # m => pc'[n] = pc[n] /\ n \notin Merging
    BY <1>2, <1>3, WorkersApart
  <2> QED
    BY <1>1, <2>1, <2>2 DEF Merging
<1>6. Alone'
  <2>1. \A n \in Merging' : n = m
    BY <1>5
  <2>2. \A e \in Engine : awaits'[e] = NoMerge
    BY DEF Exact, Alone
  <2> QED
    BY <1>2, <1>3, <1>4, <1>5, <2>1, <2>2 DEF Alone, At
<1>7. Pending'
  <2>1. \A e \in Engine : delta'[e] = Nothing
    BY <1>2 DEF Exact, Pending, At
  <2> QED
    BY <1>2, <1>4, <2>1 DEF Exact, Pending, At
<1>8. View'
  <2>1. ASSUME NEW n \in Merging'
        PROVE  /\ pc'[n] \in Replacing => Replaces(n)'
               /\ pc'[n] # "read"
               /\ pc'[n] \in {"unmark", "signal"} => Holds(src)'
    <3>1. n = m
      BY <1>5, <2>1
    <3> QED
      BY <1>3, <3>1 DEF Replacing
  <2>2. \A e \in Engine : pc'[e] # "look" /\ pc'[e] \notin Replacing
    BY <1>4 DEF Replacing
  <2> QED
    BY <1>5, <2>1, <2>2 DEF View, At
<1>9. Knows'
  BY <1>4 DEF Knows, At
<1> QED
  BY <1>6, <1>7, <1>8, <1>9 DEF Exact

LEMMA ViewsRead ==
    ASSUME Exact, NEW m \in Merge, ReadView(m)
    PROVE  Exact'
<1>1. /\ pc[m] = "read" /\ Goto(m, "list")
      /\ UNCHANGED <<src, vstate, counts, marker, vtab, vcat, owner, delta, todo, awaits, told, basis>>
  BY DEF ReadView, At, disk, ghost
<1>2. m \in Merging /\ m \in Worker
  BY <1>1, WorkersApart DEF Merging
<1>3. /\ owner[m] \in Engine /\ told = src /\ m \notin Engine
  BY <1>2, AtWork, WorkersApart
<1>4. Fresh(owner[m])
  BY <1>1, <1>2 DEF Exact, View, At
<1>5. PICK c \in Count : Holds(c) /\ told = Plus(c, delta[m])
  BY <1>1, <1>2 DEF Exact, View, At
<1>6. Counted(vcat[owner[m]]) = c
  BY <1>3, <1>4, <1>5, FreshIs DEF Exact
<1>7. vtab[owner[m]]
  BY <1>4 DEF Fresh
<1>8. base' = [base EXCEPT ![m] = src]
  <2>1. base' = [base EXCEPT ![m] =
                   Plus(IF vtab[owner[m]] THEN Counted(vcat[owner[m]]) ELSE Nothing, delta[m])]
    BY DEF ReadView
  <2> QED
    BY <1>3, <1>5, <1>6, <1>7, <2>1
<1>9. base' \in [Worker -> Count] /\ base'[m] = src'
  BY <1>1, <1>2, <1>8 DEF Exact, Types
<1>10. "list" \in Places
  BY DEF Places, Replacing
<1>11. pc' \in [Worker -> Places] /\ pc'[m] = "list"
  BY <1>1, <1>2, <1>10, Moves DEF Exact
<1>12. Types'
  BY <1>1, <1>9, <1>11 DEF Exact, Types
<1>13. Replaces(m)'
  <2>1. Live' # {}
    BY <1>1, <1>5 DEF Holds, Live
  <2>2. Eng(m)' = owner[m]
    BY <1>1, <1>3 DEF Eng
  <2> QED
    BY <1>1, <1>7, <1>9, <1>11, <2>1, <2>2 DEF Replaces, At
<1>14. marker' = m
  BY <1>1, <1>2 DEF Exact, Alone, At
<1>15. "list" \in {"list", "signal"} /\ "list" # "signal"
  OBVIOUS
<1>16. Goto(m, "list")
  BY <1>1
<1> QED
  BY <1>1, <1>2, <1>12, <1>13, <1>14, <1>15, <1>16, MergeStep

LEMMA MarkersGo ==
    ASSUME Exact, NEW m \in Merge, Unmark(m)
    PROVE  Exact'
<1>1. /\ pc[m] = "unmark" /\ Goto(m, "signal") /\ marker' = NoMerge
      /\ base' = [base EXCEPT ![m] = Nothing] /\ delta' = [delta EXCEPT ![m] = Nothing]
      /\ UNCHANGED <<src, vstate, counts, vtab, vcat, owner, todo, awaits, told, basis>>
  BY DEF Unmark, At, disk, ghost
<1>2. m \in Merging /\ m \in Worker /\ m \notin Engine
  BY <1>1, WorkersApart DEF Merging
<1>3. Holds(src)
  BY <1>1, <1>2 DEF Exact, View
<1>4. pc' \in [Worker -> Places]
  BY <1>1, <1>2, Moves DEF Exact, Places
<1>5. Types'
  <2>1. base' \in [Worker -> Count] /\ delta' \in [Worker -> Count]
    BY <1>1, ConstantCounts DEF Exact, Types
  <2>2. marker' \in Nat
    BY <1>1 DEF NoMerge
  <2> QED
    BY <1>1, <1>4, <2>1, <2>2 DEF Exact, Types
<1>6. Holds(src)'
  BY <1>1, <1>3 DEF Holds, Live
<1>7. \A e \in Engine : delta'[e] = delta[e]
  BY <1>1, <1>2, WorkersApart DEF Exact, Types
<1>8. "signal" \in {"list", "signal"} /\ "signal" # "list"
  OBVIOUS
<1> QED
  BY <1>1, <1>2, <1>5, <1>6, <1>7, <1>8, MergeStep

LEMMA MergesEnd ==
    ASSUME Exact, NEW m \in Merge, Signal(m)
    PROVE  Exact'
<1>1. /\ pc[m] = "signal" /\ Goto(m, "done")
      /\ UNCHANGED <<src, vstate, counts, marker, vtab, vcat, owner, delta, base, todo, awaits,
                     told, basis>>
  BY DEF Signal, At, disk, memory, ghost
<1>2. m \in Merging /\ m \in Worker /\ m \notin Engine
  BY <1>1, WorkersApart DEF Merging
<1>3. /\ \A e \in Engine : pc[e] = "idle"
      /\ Merging = {m} /\ told = src
  BY <1>2, AtWork DEF At
<1>4. Holds(src) /\ marker = NoMerge
  BY <1>1, <1>2 DEF Exact, View, Alone, At
<1>5. /\ pc' \in [Worker -> Places] /\ pc'[m] = "done"
      /\ \A v \in Worker : v # m => pc'[v] = pc[v]
  BY <1>1, <1>2, Moves DEF Exact, Places
<1>6. \A e \in Engine : pc'[e] = "idle"
  BY <1>2, <1>3, <1>5, WorkersApart
<1>7. Merging' = {}
  <2>1. \A n \in Merge : n # m => pc'[n] = pc[n] /\ n \notin Merging
    BY <1>3, <1>5, WorkersApart
  <2> QED
    BY <1>5, <2>1 DEF Merging, Replacing
<1>8. Types'
  BY <1>1, <1>5 DEF Exact, Types
<1>9. Alone'
  <2>1. \A e \in Engine : awaits'[e] = NoMerge
    BY <1>1 DEF Exact, Alone
  <2> QED
    BY <1>1, <1>4, <1>6, <1>7, <2>1 DEF Alone, At, Solo, Replacing
<1>10. Pending'
  BY <1>1, <1>3, <1>6 DEF Exact, Pending, At
<1>11. View'
  <2>1. Holds(told)'
    BY <1>1, <1>3, <1>4 DEF Holds, Live
  <2> QED
    BY <1>6, <1>7, <2>1 DEF View, At, Replacing
<1>12. Knows'
  BY <1>6 DEF Knows, At
<1> QED
  BY <1>8, <1>9, <1>10, <1>11, <1>12 DEF Exact

-----------------------------------------------------------------------------
(* The process.                                                              *)

\* The exit waits for the merge whose marker it finds; a goroutine it does not wait
\* for has nothing left to write.
LEMMA ProcessExits ==
    ASSUME Exact, Exit
    PROVE  Exact'
<1>1. /\ \A e \in Engine : pc[e] = "idle"
      /\ marker # NoMerge => pc[marker] = "done"
      /\ Restart
  BY DEF Exit, At
<1>2. /\ marker' = NoMerge
      /\ vtab' = [e \in Engine |-> FALSE]
      /\ vcat' = [e \in Engine |-> [f \in File |-> 0]]
      /\ pc' = [w \in Worker |-> IF w \in Engine THEN "idle" ELSE
                                 IF pc[w] = "none" THEN "none" ELSE "done"]
      /\ delta' = [w \in Worker |-> Nothing]
      /\ base' = [w \in Worker |-> Nothing]
      /\ todo' = [w \in Worker |-> {}]
      /\ awaits' = [e \in Engine |-> NoMerge]
      /\ told' = src
      /\ UNCHANGED <<src, vstate, counts, owner, basis>>
  BY <1>1 DEF Restart, At, disk
<1>3. /\ \A e \in Engine : pc'[e] = "idle"
      /\ \A m \in Merge : pc'[m] \in {"none", "done"}
      /\ pc' \in [Worker -> Places]
  BY <1>2, WorkersApart DEF Places
<1>4. Merging' = {}
  BY <1>3 DEF Merging, Replacing
<1>5. told = src
  BY <1>1 DEF Exact, Pending, At
<1>6. Holds(src)
  <2>1. CASE Merging = {}
    <3>1. Holds(told)
      BY <1>1, <2>1 DEF Exact, View, Replacing
    <3> QED
      BY <1>5, <3>1 DEF Holds
  <2>2. CASE Merging # {}
    <3>1. PICK m \in Merging : TRUE
      BY <2>2
    <3>2. marker = IF pc[m] = "signal" THEN NoMerge ELSE m
      BY <3>1 DEF Exact, Alone, At
    <3>3. m \in Merge /\ m # NoMerge /\ pc[m] # "done"
      BY <3>1, WorkersApart DEF Merging, Replacing
    <3>4. pc[m] = "signal"
      BY <1>1, <3>2, <3>3
    <3> QED
      BY <3>1, <3>4 DEF Exact, View
  <2> QED
    BY <2>1, <2>2
<1>7. Types'
  <2>1. delta' \in [Worker -> Count] /\ base' \in [Worker -> Count] /\ todo' \in [Worker -> SUBSET File]
    BY <1>2, ConstantCounts
  <2>2. /\ marker' \in Nat /\ awaits' \in [Engine -> Nat]
        /\ vtab' \in [Engine -> BOOLEAN] /\ vcat' \in [Engine -> [File -> Nat]]
    BY <1>2 DEF NoMerge
  <2> QED
    BY <1>2, <1>3, <2>1, <2>2 DEF Exact, Types
<1>8. Alone'
  BY <1>2, <1>3, <1>4 DEF Alone, At, Solo, Replacing
<1>9. Pending'
  <2>1. \A e \in Engine : delta'[e] = Nothing
    BY <1>2, WorkersApart
  <2>2. \A g \in Group : told'[g] <= src'[g]
    BY <1>2, <1>7 DEF Types, Count
  <2> QED
    BY <1>2, <1>3, <2>1, <2>2 DEF Pending, At
<1>10. View'
  <2>1. Holds(told)'
    BY <1>2, <1>6 DEF Holds, Live
  <2> QED
    BY <1>3, <1>4, <2>1 DEF View, At, Replacing
<1>11. Knows'
  BY <1>3 DEF Knows, At
<1> QED
  BY <1>7, <1>8, <1>9, <1>10, <1>11 DEF Exact

-----------------------------------------------------------------------------
(* The theorem.                                                              *)

LEMMA ReplacementsKeep ==
    ASSUME Exact, NEW w \in Worker, Replace(w), ~disturbed'
    PROVE  Exact'
<1>1. ~ (MoveFails(w) \/ CreateFails(w) \/ Panic(w) \/ WriteFails(w) \/ RegisterFails(w))
  BY DEF MoveFails, CreateFails, Panic, WriteFails, RegisterFails, Stop
<1>2. CASE ListFiles(w)
  BY <1>2, FilesListed
<1>3. CASE MoveFile(w)
  BY <1>3, FilesMoved
<1>4. CASE CreateTable(w)
  BY <1>4, TablesCreated
<1>5. CASE PersistShell(w)
  BY <1>5, ShellsPersisted
<1>6. CASE Flush(w)
  BY <1>6, ViewsFlushed
<1>7. CASE Register(w)
  BY <1>7, ViewsRegistered
<1> QED
  BY <1>1, <1>2, <1>3, <1>4, <1>5, <1>6, <1>7 DEF Replace

LEMMA StartsExact == Init => Exact
<1> SUFFICES ASSUME Init PROVE Exact
  OBVIOUS
<1>1. /\ \A e \in Engine : pc[e] = "idle"
      /\ \A m \in Merge : pc[m] = "none"
      /\ pc \in [Worker -> Places]
  BY WorkersApart DEF Init, Places
<1>2. Merging = {}
  BY <1>1 DEF Merging, Replacing
<1>3. 1 \in File /\ vstate = [f \in File |-> IF f = 1 THEN "live" ELSE "none"]
  BY ConstantsOK DEF File, Init
<1>4. Types
  <2>1. /\ src \in Count /\ told \in Count /\ counts \in [File -> Count]
        /\ delta \in [Worker -> Count] /\ base \in [Worker -> Count] /\ basis \in [Engine -> Count]
    BY ConstantCounts DEF Init
  <2>2. /\ vtab \in [Engine -> BOOLEAN] /\ vcat \in [Engine -> [File -> Nat]]
        /\ marker \in Nat /\ awaits \in [Engine -> Nat]
        /\ todo \in [Worker -> SUBSET File] /\ DOMAIN owner = Merge
    BY DEF Init, NoMerge
  <2> QED
    BY <1>1, <1>3, <2>1, <2>2 DEF Types
<1>5. Alone
  BY <1>1, <1>2 DEF Alone, At, Init, Solo, Replacing
<1>6. Pending
  <2>1. \A e \in Engine : delta[e] = Nothing
    BY WorkersApart DEF Init
  <2>2. told = src /\ \A g \in Group : told[g] <= src[g]
    BY DEF Init, Nothing
  <2> QED
    BY <1>1, <2>1, <2>2 DEF Pending, At
<1>7. View
  <2>1. Holds(told)
    BY <1>3 DEF Holds, Live, Init
  <2> QED
    BY <1>1, <1>2, <2>1 DEF View, At, Replacing
<1>8. Knows
  BY <1>1 DEF Knows, At
<1> QED
  BY <1>4, <1>5, <1>6, <1>7, <1>8 DEF Exact

LEMMA StaysExact == Inv /\ [Next]_vars => Inv'
<1> SUFFICES ASSUME Inv, [Next]_vars, ~disturbed' PROVE Exact'
  BY DEF Inv
<1>1. CASE UNCHANGED vars
  <2>1. Exact
    BY <1>1 DEF Inv, vars, ghost
  <2>2. UNCHANGED <<src, vstate, counts, marker, vtab, vcat, pc, owner, delta, base, todo, awaits, told, basis>>
    BY <1>1 DEF vars, disk, memory, ghost
  <2>3. Types' /\ Alone' /\ Pending' /\ Knows'
    BY <2>1, <2>2 DEF Exact, Types, Alone, Pending, Knows, Merging, At, Fresh
  <2>4. View'
    BY <2>1, <2>2 DEF Exact, View, Merging, At, Fresh, Holds, Live, Replaces, Eng
  <2> QED
    BY <2>3, <2>4 DEF Exact
<1>2. CASE Next
  <2>1. ASSUME NEW e \in Engine, NEW place \in {"append", "query", "rewrite"}, Begin(e, place)
        PROVE  Exact'
    <3>1. Exact
      BY <2>1 DEF Begin, Inv
    <3> QED
      BY <2>1, <3>1, Begins
  <2>2. ASSUME NEW e \in Engine, Statement(e) PROVE Exact'
    <3>1. e \in Worker
      BY WorkersApart
    <3>2. Exact
      <4>1. CASE disturbed' = disturbed
        BY <4>1 DEF Inv
      <4>2. CASE Trigger(e)
        BY <4>2 DEF Inv, Trigger
      <4>3. CASE ~ Trigger(e) /\ ~ Replace(e)
        BY <2>2, <4>3, <4>1 DEF Statement, CommitAppend, ChangeNothing, RewriteSource, Look, Proceed, Answer, NoAnswer, Return, ghost
      <4>4. CASE Replace(e)
        BY <4>4, <4>1 DEF Replace, ListFiles, MoveFile, MoveFails, CreateTable, CreateFails,
             PersistShell, Panic, Flush, WriteFails, Register, RegisterFails, Stop, ghost
      <4> QED
        BY <4>2, <4>3, <4>4
    <3>3. ~ Look(e) /\ ~ NoAnswer(e)
      BY <3>2, NobodyLooks, NoQueryFails
    <3> QED
      BY <2>2, <3>1, <3>2, <3>3, AppendsCommit, NothingChanges, MergesStart, SourcesRewrite,
         StatementsProceed, QueriesAnswer, QueriesReturn, ReplacementsKeep DEF Statement
  <2>3. ASSUME NEW m \in Merge, Goroutine(m) PROVE Exact'
    <3>1. m \in Worker
      BY WorkersApart
    <3>2. ~ ReadFails(m)
      BY DEF ReadFails, Stop
    <3>3. Exact
      <4>1. CASE disturbed' = disturbed
        BY <4>1 DEF Inv
      <4>2. CASE Replace(m)
        BY <4>2, <4>1 DEF Replace, ListFiles, MoveFile, MoveFails, CreateTable, CreateFails,
             PersistShell, Panic, Flush, WriteFails, Register, RegisterFails, Stop, ghost
      <4>3. CASE ~ Replace(m)
        BY <2>3, <3>2, <4>3, <4>1 DEF Goroutine, ReadView, Unmark, Signal, ghost
      <4> QED
        BY <4>2, <4>3
    <3> QED
      BY <2>3, <3>1, <3>2, <3>3, ViewsRead, MarkersGo, MergesEnd, ReplacementsKeep DEF Goroutine
  <2>4. CASE Exit
    <3>1. Exact
      BY <2>4 DEF Exit, Inv
    <3> QED
      BY <2>4, <3>1, ProcessExits
  <2>5. ~ Killed
    BY DEF Killed
  <2> QED
    BY <1>2, <2>1, <2>2, <2>3, <2>4, <2>5 DEF Next
<1> QED
  BY <1>1, <1>2

LEMMA ExactViews == Inv => ViewExact
<1> SUFFICES ASSUME Inv, ~disturbed PROVE ViewExact
  BY DEF ViewExact
<1>1. Exact
  BY DEF Inv
<1>2. ASSUME Quiet PROVE Content = src
  <2>1. Holds(told) /\ told = src
    BY <1>1, <1>2 DEF Quiet, Exact, View, Pending, At, Replacing
  <2>2. PICK c : c = src
    OBVIOUS
  <2>3. Holds(c)
    BY <2>1, <2>2
  <2>4. Content = c
    BY <1>1, <2>3, ContentIs DEF Exact
  <2> QED
    BY <2>2, <2>4
<1>3. ASSUME NEW e \in Engine, At(e, "answered"), NEW g \in Group
      PROVE  basis[e][g] <= base[e][g] /\ base[e][g] <= src[g]
  <2>1. basis[e] = told /\ base[e] = told
    BY <1>1, <1>3 DEF Exact, Knows, At
  <2>2. told[g] \in Nat /\ told[g] <= src[g]
    BY <1>1 DEF Exact, Types, Pending, Count
  <2> QED
    BY <2>1, <2>2
<1> QED
  BY <1>2, <1>3 DEF ViewExact

\* While statements and merges come one by one and nothing fails, the view counts what the
\* source has whenever nothing is going on, and a query of it counts every row whose
\* append had returned, and no row that is not there.
THEOREM ViewsAreExact == Spec => []ViewExact
<1>1. Init => Inv
  BY StartsExact DEF Inv
<1>2. Inv /\ [Next]_vars => Inv'
  BY StaysExact
<1>3. Inv => ViewExact
  BY ExactViews
<1> QED
  BY <1>1, <1>2, <1>3, PTL DEF Spec
=============================================================================
