--------------------------- MODULE SharedDictProofs ---------------------------
(***************************************************************************)
(* OneCodePerValue, CodesPermanent and ImplementsColumn for any number of  *)
(* engines, values, files and extents, with failures and deaths.           *)
(*                                                                         *)
(* The dictionary in the files only grows, and only by the engine that has *)
(* the lock, from what is in the files to what is in the files and new     *)
(* codes; so an engine that wrote with a dictionary wrote with part of the *)
(* one that is there.  An engine's cached dictionary is part of it too,    *)
(* and has all that was in the files it remembers; when these are the      *)
(* files there are, it is the dictionary, and has all that any extent of   *)
(* the statement needs.  A founder's (blind) remembers no file, and is     *)
(* only a part: a code it has stands for the right value.                  *)
(***************************************************************************)
EXTENDS SharedDict, FiniteSetTheorems, TLAPS

TypeOK ==
  /\ fstate \in [File -> {"none", "live", "superseded"}]
  /\ holds \in [File -> SUBSET Entry]
  /\ dictLock \in Proc \cup {NoProc}
  /\ pc \in [Proc -> PC]
  /\ cat \in [Proc -> SUBSET extents]
  /\ filesSeen \in [Proc -> SUBSET File]
  /\ cache \in [Proc -> (SUBSET Entry) \cup {NoDict}]
  /\ want \in [Proc -> SUBSET Cells]
  /\ plan \in [Proc -> SUBSET Entry]
  /\ todo \in [Proc -> SUBSET File]
  /\ blind \in [Proc -> BOOLEAN]

\* A dictionary: each value has one code and each code one value, without gaps, "" first.
IsDictionary(D) ==
  /\ D \subseteq Entry
  /\ IsFiniteSet(D)
  /\ \A d, e \in D : d.code = e.code <=> d.value = e.value
  /\ {e.code : e \in D} = 0 .. Cardinality(D) - 1
  /\ Cardinality(D) <= Cap
  /\ D # {} => [code |-> 0, value |-> Empty] \in D

\* What files hold; they are written once.
Content(F) == UNION {holds[f] : f \in F}

\* Dictionary D has all that extent x needs.
Codes(x, D) == \A v \in DOMAIN x : [code |-> x[v], value |-> Shown(v)] \in D

ExtentsCoded == \A x \in extents : DOMAIN x \in (SUBSET Cells) \ {{}} /\ Codes(x, OnDisk)

\* What an engine remembers of the files is still in the dictionary.
Remembers(p) ==
  /\ \A f \in filesSeen[p] : fstate[f] # "none"
  /\ Content(filesSeen[p]) \subseteq OnDisk
  /\ cache[p] # NoDict =>
       /\ cache[p] \subseteq OnDisk
       /\ ~blind[p] => filesSeen[p] # {} /\ Content(filesSeen[p]) \subseteq cache[p]

\* The dictionary that has all a statement needs: a founder's is that of the files.
Trusted(p) == IF At(p, "revalidate") \/ blind[p] THEN OnDisk ELSE Dictionary(p)

Reads(p) ==
  /\ \A x \in cat[p] : Codes(x, Trusted(p))
  /\ pc[p] \in {"idle", "rewrite", "supersede"} => cat[p] = {}

\* How far an engine is with an extent.
Writes(p) ==
  /\ pc[p] \in {"extend", "table", "append"} => dictLock = p
  /\ pc[p] \in {"lock", "extend", "table", "append", "save"} => want[p] \in Batch
  /\ pc[p] \in {"table", "append"} => IsDictionary(plan[p]) /\ OnDisk \subseteq plan[p]
  /\ pc[p] \in {"table", "append", "save"} =>
       /\ Wanted(p) \subseteq Known(plan[p])
       /\ Content(filesSeen[p]) \subseteq plan[p]
       /\ \A x \in cat[p] : Codes(x, plan[p])
  /\ pc[p] = "save" => plan[p] \subseteq OnDisk

\* Who compacts is alone.
Alone == \A p, q \in Proc : Compacting(p) /\ p # q => pc[q] = "idle"

\* How far a compaction is with the dictionary's files.
Compacts(p) ==
  /\ pc[p] = "rewrite" => todo[p] = Listing
  /\ pc[p] = "supersede" =>
       \E g \in Listing \ todo[p] : \A f \in todo[p] : holds[f] \subseteq holds[g]

IInv ==
  /\ TypeOK
  /\ IsDictionary(OnDisk)
  /\ ExtentsCoded
  /\ Alone
  /\ \A p \in Proc : Remembers(p) /\ Reads(p) /\ Writes(p) /\ Compacts(p)

------------------------------------------------------------------------------
(* Dictionaries.                                                             *)

LEMMA SizeIsCardinality ==
  ASSUME NEW D, IsDictionary(D)
  PROVE  Size(D) = Cardinality(D) /\ Cardinality(D) \in Nat
<1>1. Cardinality(D) \in Nat
  BY FS_CardinalityType DEF IsDictionary
<1>2. CASE D = {}
  BY <1>2, FS_EmptySet DEF Size
<1>3. CASE D # {}
  <2> DEFINE C == {e.code : e \in D}
             k == Cardinality(D) - 1
  <2>1. C = 0 .. k
    BY DEF IsDictionary
  <2>2. k \in Nat
    BY <1>1, <1>3, FS_EmptySet DEF IsDictionary
  <2>3. k \in C /\ \A e \in D : e.code \in 0 .. k
    BY <2>1, <2>2
  <2>4. \A n \in C : (\A e \in D : e.code <= n) <=> n = k
    <3>1. ASSUME NEW n \in C, \A e \in D : e.code <= n
          PROVE  n = k
      <4>1. PICK e \in D : e.code = k
        BY <2>3
      <4>2. k <= n /\ n \in 0 .. k
        BY <2>1, <3>1, <4>1
      <4> QED
        BY <2>2, <4>2
    <3>2. \A e \in D : e.code <= k
      BY <2>2, <2>3
    <3> QED
      BY <3>1, <3>2
  <2>5. (CHOOSE n \in C : \A e \in D : e.code <= n) = k
    <3> HIDE DEF C, k
    <3> QED
      BY <2>3, <2>4
  <2>6. Size(D) = 1 + k
    BY <1>3, <2>5 DEF Size
  <2> HIDE DEF C
  <2> QED
    BY <1>1, <2>6
<1> QED
  BY <1>1, <1>2, <1>3

\* A set of entries with as many codes and as many values as entries.
LEMMA NumberingOneToOne ==
  ASSUME NEW N \in SUBSET Value, IsFiniteSet(N), NEW n \in Nat, NEW A \in Numberings(N, n)
  PROVE  /\ IsFiniteSet(A)
         /\ \A d, e \in A : d.code = e.code <=> d.value = e.value
<1> DEFINE I == n .. n + Cardinality(N) - 1
<1>1. Cardinality(N) \in Nat
  BY FS_CardinalityType
<1>2. IsFiniteSet(I) /\ Cardinality(I) = Cardinality(N)
  <2> DEFINE m == n + Cardinality(N) - 1
  <2>1. m \in Int /\ n \in Int /\ (IF n > m THEN 0 ELSE m - n + 1) = Cardinality(N)
    BY <1>1
  <2>2. I = n .. m
    OBVIOUS
  <2> HIDE DEF I, m
  <2> QED
    BY <2>1, <2>2, FS_Interval
<1>3. /\ A \subseteq [code : I, value : N]
      /\ Cardinality(A) = Cardinality(N)
      /\ Known(A) = N
      /\ {e.code : e \in A} = I
  BY DEF Numberings
<1> HIDE DEF I
<1>4. IsFiniteSet(A)
  <2> DEFINE f == [e \in A |-> <<e.code, e.value>>]
  <2>1. IsFiniteSet(I \X N)
    BY <1>2, FS_Product
  <2>2. \A d, e \in A : f[d] = f[e] => d = e
    <3>1. \A d, e \in A : <<d.code, d.value>> = <<e.code, e.value>> => d.code = e.code /\ d.value = e.value
      OBVIOUS
    <3>2. \A d, e \in A : d.code = e.code /\ d.value = e.value => d = e
      BY <1>3
    <3> QED
      BY <3>1, <3>2
  <2>3. f \in [A -> I \X N]
    BY <1>3
  <2>4. f \in Injection(A, I \X N)
    <3> HIDE DEF f
    <3> QED
      BY <2>2, <2>3 DEF Injection, IsInjective
  <2> HIDE DEF f
  <2> QED
    BY <2>1, <2>4, FS_Injection
<1>5. \A d, e \in A : d.code = e.code => d = e
  <2> DEFINE f == [e \in A |-> e.code]
  <2>1. f \in Surjection(A, I)
    BY <1>3 DEF Surjection
  <2>2. f \in Injection(A, I)
    <3> HIDE DEF f
    <3> QED
      BY <1>2, <1>3, <1>4, <2>1, FS_Surjection
  <2>3. \A e \in A : f[e] = e.code
    OBVIOUS
  <2> HIDE DEF f
  <2> QED
    BY <2>2, <2>3 DEF Injection, IsInjective
<1>6. \A d, e \in A : d.value = e.value => d = e
  <2> DEFINE f == [e \in A |-> e.value]
  <2>1. f \in Surjection(A, N)
    BY <1>3 DEF Surjection, Known
  <2>2. f \in Injection(A, N)
    <3> HIDE DEF f
    <3> QED
      BY <1>3, <1>4, <2>1, FS_Surjection
  <2>3. \A e \in A : f[e] = e.value
    OBVIOUS
  <2> HIDE DEF f
  <2> QED
    BY <2>2, <2>3 DEF Injection, IsInjective
<1> QED
  BY <1>4, <1>5, <1>6

\* New values get the codes after those there are: what comes of it is a dictionary.
LEMMA NumberingExtends ==
  ASSUME NEW D, IsDictionary(D), NEW N \in SUBSET Value, IsFiniteSet(N), N \cap Known(D) = {},
         Empty \in N \cup Known(D), Size(D) + Cardinality(N) <= Cap,
         NEW A \in Numberings(N, Size(D))
  PROVE  IsDictionary(D \cup A) /\ N \subseteq Known(D \cup A)
<1> DEFINE k == Cardinality(D)
           n == Cardinality(N)
<1>1. Size(D) = k /\ k \in Nat /\ n \in Nat
  BY SizeIsCardinality, FS_CardinalityType
<1>2. IsFiniteSet(A) /\ \A d, e \in A : d.code = e.code <=> d.value = e.value
  BY <1>1, NumberingOneToOne
<1>3. /\ A \subseteq [code : k .. k + n - 1, value : N]
      /\ Cardinality(A) = n
      /\ Known(A) = N
      /\ {e.code : e \in A} = k .. k + n - 1
      /\ \A e \in A : e.value = Empty => e.code = k
  BY <1>1 DEF Numberings
<1>4. /\ D \subseteq Entry /\ IsFiniteSet(D)
      /\ \A d, e \in D : d.code = e.code <=> d.value = e.value
      /\ {e.code : e \in D} = 0 .. k - 1
      /\ D # {} => [code |-> 0, value |-> Empty] \in D
  BY DEF IsDictionary
<1>5. \A d \in D, e \in A : d.code # e.code /\ d.value # e.value
  <2>1. ASSUME NEW d \in D, NEW e \in A
        PROVE  d.code # e.code
    <3>1. d.code \in 0 .. k - 1 /\ e.code \in k .. k + n - 1
      BY <1>3, <1>4
    <3> QED
      BY <1>1, <3>1
  <2>2. ASSUME NEW d \in D, NEW e \in A
        PROVE  d.value # e.value
    BY <1>3 DEF Known
  <2> QED
    BY <2>1, <2>2
<1>6. D \cap A = {}
  BY <1>5
<1>7. IsFiniteSet(D \cup A) /\ Cardinality(D \cup A) = k + n
  <2>1. Cardinality(D \cap A) = 0
    BY <1>6, FS_EmptySet
  <2>2. /\ IsFiniteSet(D \cup A)
        /\ Cardinality(D \cup A) = Cardinality(D) + Cardinality(A) - Cardinality(D \cap A)
    BY <1>2, <1>4, FS_Union
  <2>3. Cardinality(A) = n
    BY <1>3
  <2> HIDE DEF n
  <2> QED
    BY <1>1, <2>1, <2>2, <2>3
<1>8. D \cup A \subseteq Entry
  <2>1. \A e \in A : e \in Entry
    BY <1>1, <1>3 DEF Entry
  <2> QED
    BY <1>4, <2>1
<1>9. {e.code : e \in D \cup A} = 0 .. (k + n) - 1
  <2>1. {e.code : e \in D \cup A} = {e.code : e \in D} \cup {e.code : e \in A}
    OBVIOUS
  <2> QED
    BY <1>1, <1>3, <1>4, <2>1
<1>10. [code |-> 0, value |-> Empty] \in D \cup A
  <2>1. CASE D # {}
    BY <1>4, <2>1
  <2>2. CASE D = {}
    <3>1. k = 0 /\ Empty \in N
      BY <2>2, FS_EmptySet DEF Known
    <3>2. PICK e \in A : e.value = Empty
      BY <1>3, <3>1 DEF Known
    <3>3. e.code = 0 /\ e \in [code : k .. k + n - 1, value : N]
      BY <1>3, <3>1, <3>2
    <3>4. e = [code |-> 0, value |-> Empty]
      BY <3>2, <3>3
    <3> QED
      BY <3>4
  <2> QED
    BY <2>1, <2>2
<1>11. \A d, e \in D \cup A : d.code = e.code <=> d.value = e.value
  BY <1>2, <1>4, <1>5
<1>12. k + n <= Cap
  BY <1>1
<1> HIDE DEF k, n
<1>13. IsDictionary(D \cup A)
  BY <1>7, <1>8, <1>9, <1>10, <1>11, <1>12 DEF IsDictionary
<1> QED
  BY <1>3, <1>13 DEF Known

\* With a part of a dictionary, an extent that it codes is read as what was written.
LEMMA ReadsBack ==
  ASSUME NEW D, IsDictionary(D), NEW P \in SUBSET D, NEW x, Codes(x, P)
  PROVE  Decoded(x, P) = [v \in DOMAIN x |-> Shown(v)]
<1>1. ASSUME NEW v \in DOMAIN x
      PROVE  Decode(P, x[v]) = Shown(v)
  <2> DEFINE d == [code |-> x[v], value |-> Shown(v)]
             E == {e \in P : e.code = x[v]}
  <2>1. d \in E
    BY DEF Codes
  <2>2. \A e \in E : e.value = Shown(v)
    <3>1. d \in P /\ d.code = x[v] /\ d.value = Shown(v)
      BY <2>1
    <3> HIDE DEF d
    <3> QED
      BY <3>1 DEF IsDictionary
  <2> HIDE DEF d
  <2> QED
    BY <2>1, <2>2 DEF Decode
<1> QED
  BY <1>1 DEF Decoded

\* What is coded with part of a dictionary is coded with all of it.
LEMMA CodesMonotone ==
  ASSUME NEW D, NEW P \in SUBSET D, NEW x, Codes(x, P)
  PROVE  Codes(x, D)
BY DEF Codes

------------------------------------------------------------------------------
(* What a step leaves as it is.                                              *)

\* A file that was written stays written, and holds what it holds.
FilesKept ==
  \A f \in File : fstate[f] # "none" => fstate'[f] # "none" /\ holds'[f] = holds[f]

OthersRest(p) ==
  \A q \in Proc \ {p} :
    /\ pc'[q] = pc[q] /\ cat'[q] = cat[q] /\ filesSeen'[q] = filesSeen[q] /\ cache'[q] = cache[q]
    /\ want'[q] = want[q] /\ plan'[q] = plan[q] /\ todo'[q] = todo[q] /\ blind'[q] = blind[q]

LEMMA FilesSame ==
  ASSUME UNCHANGED <<fstate, holds>>
  PROVE  /\ OnDisk' = OnDisk /\ Listing' = Listing /\ FilesKept
         /\ \A F : UNION {holds'[f] : f \in F} = Content(F)
BY DEF OnDisk, Listing, FilesKept, Content

LEMMA ContentKept ==
  ASSUME FilesKept, NEW F \in SUBSET File, \A f \in F : fstate[f] # "none"
  PROVE  UNION {holds'[f] : f \in F} = Content(F)
BY DEF FilesKept, Content

LEMMA RestKept ==
  ASSUME IInv, NEW p \in Proc, NEW q \in Proc, q # p, OthersRest(p), FilesKept, OnDisk \subseteq OnDisk',
         pc[q] \in {"table", "append"} => OnDisk' = OnDisk,
         dictLock = q => dictLock' = q,
         Compacting(q) => UNCHANGED <<fstate, holds>>
  PROVE  Remembers(q)' /\ Reads(q)' /\ Writes(q)' /\ Compacts(q)'
<1>1. /\ pc'[q] = pc[q] /\ cat'[q] = cat[q] /\ filesSeen'[q] = filesSeen[q] /\ cache'[q] = cache[q]
      /\ want'[q] = want[q] /\ plan'[q] = plan[q] /\ todo'[q] = todo[q] /\ blind'[q] = blind[q]
  BY DEF OthersRest
<1>2. Remembers(q) /\ Reads(q) /\ Writes(q) /\ Compacts(q)
  BY DEF IInv
<1>3. filesSeen[q] \in SUBSET File /\ \A f \in filesSeen[q] : f \in File
  BY DEF IInv, TypeOK
<1>4. UNION {holds'[f] : f \in filesSeen[q]} = Content(filesSeen[q])
  BY <1>2, <1>3, ContentKept DEF Remembers
<1>5. Content(filesSeen[q])' = Content(filesSeen[q])
  BY <1>1, <1>4 DEF Content
<1>6. Remembers(q)'
  BY <1>1, <1>2, <1>3, <1>5 DEF Remembers, FilesKept
<1>7. Reads(q)'
  <2>1. Trusted(q) \subseteq Trusted(q)'
    BY <1>1 DEF Trusted, Dictionary, At
  <2> QED
    BY <1>1, <1>2, <2>1 DEF Reads, Codes
<1>8. Writes(q)'
  BY <1>1, <1>2, <1>5 DEF Writes, Wanted, Codes
<1>9. Compacts(q)'
  BY <1>1, <1>2 DEF Compacts, Compacting, Listing
<1> QED
  BY <1>6, <1>7, <1>8, <1>9

\* A step of p keeps the invariant when it keeps what is shared and what is p's.
LEMMA StepKeeps ==
  ASSUME IInv, TypeOK', NEW p \in Proc, OthersRest(p), FilesKept, OnDisk \subseteq OnDisk',
         IsDictionary(OnDisk'), ExtentsCoded',
         OnDisk' = OnDisk \/ pc[p] = "append",
         UNCHANGED <<fstate, holds>> \/ pc[p] # "idle",
         \A q \in Proc \ {p} : dictLock = q => dictLock' = q,
         pc'[p] = "idle" \/ (pc[p] # "idle" /\ (Compacting(p)' => Compacting(p)))
           \/ \A q \in Proc : ~Compacting(q) /\ (Compacting(p)' => pc[q] = "idle"),
         Remembers(p)', Reads(p)', Writes(p)', Compacts(p)'
  PROVE  IInv'
<1>1. ASSUME NEW q \in Proc, q # p
      PROVE  Remembers(q)' /\ Reads(q)' /\ Writes(q)' /\ Compacts(q)'
  <2>1. pc[q] \in {"table", "append"} => pc[p] # "append"
    BY <1>1 DEF IInv, Writes
  <2>2. Compacting(q) => pc[p] = "idle"
    BY <1>1 DEF IInv, Alone
  <2> QED
    BY <1>1, <2>1, <2>2, RestKept
<1>2. Alone'
  <2>1. \A q \in Proc : q # p => pc'[q] = pc[q] /\ (Compacting(q)' <=> Compacting(q))
    BY DEF OthersRest, Compacting
  <2>2. pc'[p] = "idle" => ~Compacting(p)'
    BY DEF Compacting
  <2> QED
    BY <2>1, <2>2 DEF IInv, Alone
<1>3. IsDictionary(OnDisk)'
  BY DEF IsDictionary
<1> QED
  BY <1>1, <1>2, <1>3 DEF IInv

\* A statement, or an engine, ends.
LEMMA LeaveKeeps ==
  ASSUME IInv, NEW p \in Proc, Leave(p), UNCHANGED <<fstate, holds, extents>>,
         filesSeen' \in [Proc -> SUBSET File],
         cache' \in [Proc -> (SUBSET Entry) \cup {NoDict}],
         blind' \in [Proc -> BOOLEAN],
         \A q \in Proc \ {p} : filesSeen'[q] = filesSeen[q] /\ cache'[q] = cache[q] /\ blind'[q] = blind[q],
         Remembers(p)'
  PROVE  IInv'
<1> USE DEF IInv
<1>1. OnDisk' = OnDisk /\ Listing' = Listing /\ FilesKept
  BY FilesSame
<1>2. pc' \in [Proc -> PC] /\ pc'[p] = "idle" /\ \A q \in Proc \ {p} : pc'[q] = pc[q]
  BY DEF TypeOK, Leave, Goto, PC
<1>3. cat' \in [Proc -> SUBSET extents'] /\ cat'[p] = {} /\ \A q \in Proc \ {p} : cat'[q] = cat[q]
  BY DEF TypeOK, Leave
<1>4. want' \in [Proc -> SUBSET Cells] /\ \A q \in Proc \ {p} : want'[q] = want[q]
  BY DEF TypeOK, Leave
<1>5. plan' \in [Proc -> SUBSET Entry] /\ \A q \in Proc \ {p} : plan'[q] = plan[q]
  BY DEF TypeOK, Leave
<1>6. todo' \in [Proc -> SUBSET File] /\ \A q \in Proc \ {p} : todo'[q] = todo[q]
  BY DEF TypeOK, Leave
<1>7. dictLock' \in Proc \cup {NoProc} /\ \A q \in Proc \ {p} : dictLock = q => dictLock' = q
  BY DEF TypeOK, Leave
<1>8. TypeOK'
  BY <1>2, <1>3, <1>4, <1>5, <1>6, <1>7 DEF TypeOK
<1>9. OthersRest(p)
  BY <1>2, <1>3, <1>4, <1>5, <1>6 DEF OthersRest
<1>10. Reads(p)' /\ Writes(p)' /\ Compacts(p)'
  BY <1>2, <1>3 DEF Reads, Writes, Compacts
<1>11. ExtentsCoded'
  BY <1>1 DEF ExtentsCoded, Codes
<1>12. OnDisk \subseteq OnDisk' /\ IsDictionary(OnDisk')
  BY <1>1
<1> QED
  BY <1>1, <1>2, <1>7, <1>8, <1>9, <1>10, <1>11, <1>12, StepKeeps

------------------------------------------------------------------------------
(* Each action.                                                              *)

\* A step that leaves the directory, and the lock of others, alone.
LEMMA QuietKeeps ==
  ASSUME IInv, TypeOK', NEW p \in Proc, OthersRest(p), UNCHANGED <<fstate, holds, extents>>,
         \A q \in Proc \ {p} : dictLock = q => dictLock' = q,
         pc'[p] = "idle" \/ (pc[p] # "idle" /\ (Compacting(p)' => Compacting(p)))
           \/ \A q \in Proc : ~Compacting(q) /\ (Compacting(p)' => pc[q] = "idle"),
         Remembers(p)', Reads(p)', Writes(p)', Compacts(p)'
  PROVE  IInv'
<1>1. OnDisk' = OnDisk /\ FilesKept
  BY FilesSame
<1>2. IsDictionary(OnDisk') /\ ExtentsCoded'
  BY <1>1 DEF IInv, ExtentsCoded, Codes
<1> QED
  BY <1>1, <1>2, StepKeeps

LEMMA BeginKeeps ==
  ASSUME IInv, NEW p \in Proc, Begin(p)
  PROVE  IInv'
<1> USE DEF IInv
<1>1. OnDisk' = OnDisk /\ Listing' = Listing
  BY FilesSame DEF Begin
<1>2. pc' \in [Proc -> PC] /\ pc'[p] = "revalidate" /\ \A q \in Proc \ {p} : pc'[q] = pc[q]
  BY DEF TypeOK, Begin, Goto, PC
<1>3. cat' \in [Proc -> SUBSET extents'] /\ cat'[p] = extents /\ \A q \in Proc \ {p} : cat'[q] = cat[q]
  BY DEF TypeOK, Begin
<1>4. TypeOK'
  BY <1>2, <1>3 DEF TypeOK, Begin
<1>5. OthersRest(p)
  BY <1>2, <1>3 DEF OthersRest, Begin
<1>6. Remembers(p)'
  <2>1. Remembers(p)
    OBVIOUS
  <2> QED
    BY <1>1, <2>1 DEF Remembers, Content, Begin
<1>7. Reads(p)'
  BY <1>1, <1>2, <1>3 DEF Reads, Trusted, At, ExtentsCoded, Codes
<1>8. Writes(p)' /\ Compacts(p)'
  BY <1>2 DEF Writes, Compacts
<1>9. \A q \in Proc : ~Compacting(q) /\ ~Compacting(p)'
  BY <1>2 DEF Begin, Compacting
<1> QED
  BY <1>4, <1>5, <1>6, <1>7, <1>8, <1>9, QuietKeeps DEF Begin

\* Revalidating leaves a dictionary that reads everything in the files, or none.
LEMMA DropStaleGives ==
  ASSUME IInv, NEW p \in Proc, DropStale(p), UNCHANGED <<fstate, holds>>
  PROVE  /\ filesSeen' \in [Proc -> SUBSET File]
         /\ cache' \in [Proc -> (SUBSET Entry) \cup {NoDict}]
         /\ blind' \in [Proc -> BOOLEAN]
         /\ \A q \in Proc \ {p} : filesSeen'[q] = filesSeen[q] /\ cache'[q] = cache[q] /\ blind'[q] = blind[q]
         /\ Remembers(p)'
         /\ cache'[p] # NoDict /\ ~blind'[p] => cache'[p] = OnDisk
<1> USE DEF IInv
<1> DEFINE changed == filesSeen[p] # {} /\ filesSeen[p] # Listing
<1>1. filesSeen' \in [Proc -> SUBSET File] /\ filesSeen'[p] = Listing /\ \A q \in Proc \ {p} : filesSeen'[q] = filesSeen[q]
  BY DEF TypeOK, DropStale, Changed, Listing
<1>2. /\ cache' \in [Proc -> (SUBSET Entry) \cup {NoDict}]
      /\ cache'[p] = IF changed THEN NoDict ELSE cache[p]
      /\ \A q \in Proc \ {p} : cache'[q] = cache[q]
  BY DEF TypeOK, DropStale, Changed
<1>3. blind' \in [Proc -> BOOLEAN] /\ (blind'[p] <=> blind[p] /\ ~changed) /\ \A q \in Proc \ {p} : blind'[q] = blind[q]
  <2>1. blind[p] \in BOOLEAN /\ changed \in BOOLEAN
    BY DEF TypeOK
  <2>2. blind' = [blind EXCEPT ![p] = blind[p] /\ ~changed]
    BY DEF DropStale, Changed
  <2> QED
    BY <2>1, <2>2 DEF TypeOK
<1>4. OnDisk' = OnDisk /\ Content(Listing)' = OnDisk /\ Content(Listing) = OnDisk
  BY FilesSame DEF Content, OnDisk
<1>5. Remembers(p)
  OBVIOUS
<1>6. cache'[p] # NoDict => ~changed /\ cache[p] # NoDict /\ cache'[p] = cache[p] /\ (blind'[p] <=> blind[p])
  BY <1>2, <1>3
<1>7. cache'[p] # NoDict /\ ~blind'[p] => filesSeen[p] = Listing /\ Listing # {} /\ cache'[p] = OnDisk
  <2> SUFFICES ASSUME cache'[p] # NoDict, ~blind'[p]
               PROVE  filesSeen[p] = Listing /\ Listing # {} /\ cache'[p] = OnDisk
    OBVIOUS
  <2>1. filesSeen[p] # {} /\ Content(filesSeen[p]) \subseteq cache[p] /\ cache[p] \subseteq OnDisk
    BY <1>5, <1>6 DEF Remembers
  <2>2. filesSeen[p] = Listing
    BY <1>6, <2>1
  <2>3. Content(filesSeen[p]) = OnDisk
    BY <2>2 DEF Content, OnDisk
  <2>4. cache[p] = OnDisk
    BY <2>1, <2>3
  <2> QED
    BY <1>6, <2>1, <2>2, <2>4
<1>8. Remembers(p)'
  <2>1. \A f \in filesSeen'[p] : fstate'[f] # "none"
    BY <1>1 DEF Listing
  <2>2. UNION {holds'[f] : f \in filesSeen'[p]} = OnDisk
    BY <1>1 DEF OnDisk
  <2>3. cache'[p] # NoDict => cache'[p] \subseteq OnDisk
    BY <1>5, <1>6 DEF Remembers
  <2> QED
    BY <1>1, <1>4, <1>7, <2>1, <2>2, <2>3 DEF Remembers, Content
<1> QED
  BY <1>1, <1>2, <1>3, <1>7, <1>8

LEMMA RevalidateKeeps ==
  ASSUME IInv, NEW p \in Proc, Revalidate(p)
  PROVE  IInv'
<1> USE DEF IInv
<1>1. OnDisk' = OnDisk /\ Listing' = Listing
  BY FilesSame DEF Revalidate
<1>2. pc' \in [Proc -> PC] /\ pc'[p] = "run" /\ pc[p] = "revalidate" /\ \A q \in Proc \ {p} : pc'[q] = pc[q]
  BY DEF TypeOK, Revalidate, Goto, PC, At
<1>3. /\ filesSeen' \in [Proc -> SUBSET File]
      /\ cache' \in [Proc -> (SUBSET Entry) \cup {NoDict}]
      /\ blind' \in [Proc -> BOOLEAN]
      /\ \A q \in Proc \ {p} : filesSeen'[q] = filesSeen[q] /\ cache'[q] = cache[q] /\ blind'[q] = blind[q]
      /\ Remembers(p)'
      /\ cache'[p] # NoDict /\ ~blind'[p] => cache'[p] = OnDisk
  BY DropStaleGives DEF Revalidate
<1>4. TypeOK'
  BY <1>2, <1>3 DEF TypeOK, Revalidate
<1>5. OthersRest(p)
  BY <1>2, <1>3 DEF OthersRest, Revalidate
<1>6. Reads(p)'
  <2>1. Trusted(p)' = OnDisk /\ Trusted(p) = OnDisk
    BY <1>1, <1>2, <1>3 DEF Trusted, At, Dictionary
  <2>2. Reads(p) /\ cat' = cat
    BY DEF Revalidate
  <2> QED
    BY <1>2, <2>1, <2>2 DEF Reads, Codes
<1>7. Writes(p)' /\ Compacts(p)'
  BY <1>2 DEF Writes, Compacts
<1>8. ~Compacting(p)'
  BY <1>2 DEF Compacting
<1> QED
  BY <1>2, <1>3, <1>4, <1>5, <1>6, <1>7, <1>8, QuietKeeps DEF Revalidate

LEMMA LoadKeeps ==
  ASSUME IInv, NEW p \in Proc, Load(p)
  PROVE  IInv'
<1> USE DEF IInv
<1>1. OnDisk' = OnDisk
  BY FilesSame DEF Load
<1>2. cache' \in [Proc -> (SUBSET Entry) \cup {NoDict}] /\ cache'[p] = OnDisk /\ \A q \in Proc \ {p} : cache'[q] = cache[q]
  BY DEF TypeOK, Load, IsDictionary
<1>3. blind' \in [Proc -> BOOLEAN] /\ (blind'[p] <=> filesSeen[p] = {}) /\ \A q \in Proc \ {p} : blind'[q] = blind[q]
  <2>1. blind' = [blind EXCEPT ![p] = (filesSeen[p] = {})]
    BY DEF Load
  <2> QED
    BY <2>1 DEF TypeOK
<1>4. pc[p] = "run" /\ cache[p] = NoDict
  BY DEF Load, At
<1>5. TypeOK'
  BY <1>2, <1>3 DEF TypeOK, Load
<1>6. OthersRest(p)
  BY <1>2, <1>3 DEF OthersRest, Load
<1>7. Remembers(p)'
  <2>1. Remembers(p)
    OBVIOUS
  <2> QED
    BY <1>1, <1>2, <1>3, <2>1 DEF Remembers, Content, Load
<1>8. Reads(p)'
  <2>1. Trusted(p) = OnDisk /\ Trusted(p)' = OnDisk
    BY <1>1, <1>2, <1>4 DEF Trusted, Dictionary
  <2>2. Reads(p)
    OBVIOUS
  <2> QED
    BY <1>4, <2>1, <2>2 DEF Reads, Codes, Load
<1>9. Writes(p)' /\ Compacts(p)'
  BY <1>4 DEF Writes, Compacts, Load
<1>10. ~Compacting(p)'
  BY <1>4 DEF Compacting, Load
<1> QED
  BY <1>4, <1>5, <1>6, <1>7, <1>8, <1>9, <1>10, QuietKeeps DEF Load

LEMMA FinishKeeps ==
  ASSUME IInv, NEW p \in Proc, Finish(p)
  PROVE  IInv'
<1>1. OnDisk' = OnDisk
  BY FilesSame DEF Finish
<1>2. Remembers(p)'
  BY <1>1 DEF IInv, Remembers, Content, Finish
<1> QED
  BY <1>2, LeaveKeeps DEF IInv, TypeOK, Finish

\* An extent that was to be written has set the cache.
LEMMA FailKeeps ==
  ASSUME IInv, NEW p \in Proc, Fail(p)
  PROVE  IInv'
<1> USE DEF IInv
<1>1. OnDisk' = OnDisk
  BY FilesSame DEF Fail
<1>2. /\ cache' \in [Proc -> (SUBSET Entry) \cup {NoDict}]
      /\ cache'[p] = IF pc[p] = "save" THEN plan[p] ELSE cache[p]
      /\ \A q \in Proc \ {p} : cache'[q] = cache[q]
  BY DEF TypeOK, Fail, At
<1>3. /\ blind' \in [Proc -> BOOLEAN]
      /\ blind'[p] <=> IF pc[p] = "save" THEN filesSeen[p] = {} ELSE blind[p]
      /\ \A q \in Proc \ {p} : blind'[q] = blind[q]
  <2>1. blind[p] \in BOOLEAN
    BY DEF TypeOK
  <2>2. blind' = [blind EXCEPT ![p] = IF pc[p] = "save" THEN (filesSeen[p] = {}) ELSE blind[p]]
    BY DEF Fail, At
  <2> QED
    BY <2>1, <2>2 DEF TypeOK
<1>4. Remembers(p)'
  <2>1. Remembers(p) /\ Writes(p)
    OBVIOUS
  <2>2. CASE pc[p] = "save"
    <3>1. cache'[p] \subseteq OnDisk /\ Content(filesSeen[p]) \subseteq cache'[p]
      BY <1>2, <2>1, <2>2 DEF Writes
    <3> QED
      BY <1>1, <1>2, <1>3, <2>1, <2>2, <3>1 DEF Remembers, Content, Fail
  <2>3. CASE pc[p] # "save"
    BY <1>1, <1>2, <1>3, <2>1, <2>3 DEF Remembers, Content, Fail
  <2> QED
    BY <2>2, <2>3
<1> QED
  BY <1>2, <1>3, <1>4, LeaveKeeps DEF TypeOK, Fail

LEMMA ExitKeeps ==
  ASSUME IInv, NEW p \in Proc, Exit(p)
  PROVE  IInv'
<1> USE DEF IInv
<1>1. filesSeen' \in [Proc -> SUBSET File] /\ filesSeen'[p] = {} /\ \A q \in Proc \ {p} : filesSeen'[q] = filesSeen[q]
  BY DEF TypeOK, Exit
<1>2. cache' \in [Proc -> (SUBSET Entry) \cup {NoDict}] /\ cache'[p] = NoDict /\ \A q \in Proc \ {p} : cache'[q] = cache[q]
  BY DEF TypeOK, Exit
<1>3. blind' \in [Proc -> BOOLEAN] /\ \A q \in Proc \ {p} : blind'[q] = blind[q]
  BY DEF TypeOK, Exit
<1>4. Remembers(p)'
  BY <1>1, <1>2 DEF Remembers, Content
<1> QED
  BY <1>1, <1>2, <1>3, <1>4, LeaveKeeps DEF Exit

LEMMA ResolveDecisionKeeps ==
  ASSUME IInv, NEW p \in Proc, ResolveDecision(p)
  PROVE  IInv'
<1> USE DEF IInv
<1>1. pc' \in [Proc -> PC] /\ pc'[p] = "lock" /\ pc[p] = "run" /\ \A q \in Proc \ {p} : pc'[q] = pc[q]
  BY DEF TypeOK, ResolveDecision, Goto, PC, At
<1>2. want' \in [Proc -> SUBSET Cells] /\ want'[p] \in Batch /\ \A q \in Proc \ {p} : want'[q] = want[q]
  <2>1. PICK W \in Batch : want' = [want EXCEPT ![p] = W]
    BY DEF ResolveDecision
  <2>2. W \subseteq Cells
    BY <2>1, ConstantsOK DEF Cells
  <2> QED
    BY <2>1, <2>2 DEF TypeOK
<1>3. TypeOK'
  BY <1>1, <1>2 DEF TypeOK, ResolveDecision
<1>4. OthersRest(p)
  BY <1>1, <1>2 DEF OthersRest, ResolveDecision
<1>5. OnDisk' = OnDisk
  BY FilesSame DEF ResolveDecision
<1>6. Remembers(p)' /\ Reads(p)'
  <2>1. Remembers(p) /\ Reads(p)
    OBVIOUS
  <2> QED
    BY <1>1, <1>5, <2>1 DEF Remembers, Content, Reads, Trusted, Dictionary, At, Codes, ResolveDecision
<1>7. Writes(p)' /\ Compacts(p)'
  BY <1>1, <1>2 DEF Writes, Compacts
<1>8. ~Compacting(p)'
  BY <1>1 DEF Compacting
<1> QED
  BY <1>1, <1>3, <1>4, <1>6, <1>7, <1>8, QuietKeeps DEF ResolveDecision

LEMMA TakeDictLockKeeps ==
  ASSUME IInv, NEW p \in Proc, TakeDictLock(p)
  PROVE  IInv'
<1> USE DEF IInv
<1>1. pc' \in [Proc -> PC] /\ pc'[p] = "extend" /\ pc[p] = "lock" /\ \A q \in Proc \ {p} : pc'[q] = pc[q]
  BY DEF TypeOK, TakeDictLock, Goto, PC, At
<1>2. dictLock = NoProc /\ dictLock' = p
  BY DEF TakeDictLock
<1>3. TypeOK'
  BY <1>1, <1>2 DEF TypeOK, TakeDictLock, memory
<1>4. OthersRest(p)
  BY <1>1 DEF OthersRest, TakeDictLock, memory
<1>5. OnDisk' = OnDisk
  BY FilesSame DEF TakeDictLock
<1>6. Remembers(p)' /\ Reads(p)'
  <2>1. Remembers(p) /\ Reads(p)
    OBVIOUS
  <2> QED
    BY <1>1, <1>5, <2>1 DEF Remembers, Content, Reads, Trusted, Dictionary, At, Codes, TakeDictLock, memory
<1>7. Writes(p)' /\ Compacts(p)'
  <2>1. Writes(p)
    OBVIOUS
  <2> QED
    BY <1>1, <1>2, <2>1 DEF Writes, Compacts, TakeDictLock, memory
<1>8. ~Compacting(p)' /\ \A q \in Proc : dictLock # q
  BY <1>1, <1>2, ConstantsOK DEF Compacting
<1> QED
  BY <1>1, <1>3, <1>4, <1>6, <1>7, <1>8, QuietKeeps DEF TakeDictLock

\* A statement's extents are read with part of what is in the files.
LEMMA CodedOnDisk ==
  ASSUME IInv, NEW p \in Proc
  PROVE  \A x \in cat[p] : Codes(x, OnDisk)
BY DEF IInv, TypeOK, ExtentsCoded

\* The extended dictionary has the old entries and codes for what is wanted.
LEMMA ExtendGives ==
  ASSUME IInv, NEW p \in Proc, Extend(p)
  PROVE  /\ pc[p] = "extend" /\ plan' \in [Proc -> SUBSET Entry]
         /\ \A q \in Proc \ {p} : plan'[q] = plan[q]
         /\ \/ pc'[p] = "run" /\ want' = [want EXCEPT ![p] = {}]
            \/ /\ pc'[p] \in {"save", "append", "table"} /\ want' = want
               /\ pc'[p] # "save" => dictLock' = dictLock
               /\ pc'[p] = "save" => plan'[p] = OnDisk
               /\ IsDictionary(plan'[p]) /\ OnDisk \subseteq plan'[p] /\ Wanted(p) \subseteq Known(plan'[p])
<1> USE DEF IInv
<1> DEFINE new == Wanted(p) \ Known(OnDisk)
<1>1. pc \in [Proc -> PC] /\ plan \in [Proc -> SUBSET Entry] /\ pc[p] = "extend"
  BY DEF TypeOK, Extend, At
<1>2. CASE Size(OnDisk) + Cardinality(new) > Cap /\ Goto(p, "run") /\ want' = [want EXCEPT ![p] = {}] /\ UNCHANGED plan
  BY <1>1, <1>2 DEF Goto
<1>3. CASE /\ Size(OnDisk) + Cardinality(new) <= Cap /\ new = {}
           /\ plan' = [plan EXCEPT ![p] = OnDisk] /\ Goto(p, "save") /\ UNCHANGED want
  <2>1. pc'[p] = "save" /\ plan'[p] = OnDisk /\ plan' \in [Proc -> SUBSET Entry]
    BY <1>1, <1>3 DEF Goto, IsDictionary
  <2>2. \A q \in Proc \ {p} : plan'[q] = plan[q]
    BY <1>1, <1>3
  <2>3. Wanted(p) \subseteq Known(OnDisk)
    BY <1>3
  <2> QED
    BY <1>1, <1>3, <2>1, <2>2, <2>3
<1>4. CASE /\ Size(OnDisk) + Cardinality(new) <= Cap /\ new # {}
           /\ \E A \in Numberings(new, Size(OnDisk)) : plan' = [plan EXCEPT ![p] = OnDisk \cup A]
           /\ Goto(p, IF knows[p] THEN "append" ELSE "table") /\ UNCHANGED <<want, dictLock>>
  <2>1. PICK A \in Numberings(new, Size(OnDisk)) : plan' = [plan EXCEPT ![p] = OnDisk \cup A]
    BY <1>4
  <2>2. new \in SUBSET Value /\ Empty \in new \cup Known(OnDisk) /\ new \cap Known(OnDisk) = {}
    BY ConstantsOK DEF TypeOK, Wanted, Cells
  <2>3. IsFiniteSet(new)
    <3>1. want[p] \in Batch
      BY <1>1 DEF Writes
    <3>2. IsFiniteSet(want[p])
      BY <3>1, ConstantsOK
    <3>3. IsFiniteSet(want[p] \cup {Empty})
      BY <3>2, FS_AddElement
    <3>4. new \subseteq want[p] \cup {Empty}
      BY DEF Wanted
    <3> HIDE DEF new
    <3> QED
      BY <3>3, <3>4, FS_Subset
  <2>4. IsDictionary(OnDisk \cup A) /\ new \subseteq Known(OnDisk \cup A)
    <3> HIDE DEF new
    <3> QED
      BY <1>4, <2>2, <2>3, NumberingExtends
  <2>5. Wanted(p) \subseteq Known(OnDisk \cup A)
    BY <2>4 DEF Known
  <2>6. plan' \in [Proc -> SUBSET Entry] /\ plan'[p] = OnDisk \cup A /\ \A q \in Proc \ {p} : plan'[q] = plan[q]
    BY <1>1, <2>1, <2>4 DEF IsDictionary
  <2>7. pc'[p] \in {"append", "table"}
    BY <1>1, <1>4 DEF Goto
  <2> QED
    BY <1>1, <1>4, <2>4, <2>5, <2>6, <2>7
<1> QED
  BY <1>2, <1>3, <1>4 DEF Extend, Current

LEMMA ExtendKeeps ==
  ASSUME IInv, NEW p \in Proc, Extend(p)
  PROVE  IInv'
<1> USE DEF IInv
<1>1. /\ pc[p] = "extend" /\ plan' \in [Proc -> SUBSET Entry]
      /\ \A q \in Proc \ {p} : plan'[q] = plan[q]
      /\ \/ pc'[p] = "run" /\ want' = [want EXCEPT ![p] = {}]
         \/ /\ pc'[p] \in {"save", "append", "table"} /\ want' = want
            /\ pc'[p] # "save" => dictLock' = dictLock
            /\ pc'[p] = "save" => plan'[p] = OnDisk
            /\ IsDictionary(plan'[p]) /\ OnDisk \subseteq plan'[p] /\ Wanted(p) \subseteq Known(plan'[p])
  BY ExtendGives
<1>2. pc' \in [Proc -> PC] /\ \A q \in Proc \ {p} : pc'[q] = pc[q]
  BY DEF TypeOK, Extend, Goto, PC
<1>3. want' \in [Proc -> SUBSET Cells] /\ \A q \in Proc \ {p} : want'[q] = want[q]
  BY <1>1 DEF TypeOK
<1>4. dictLock = p /\ dictLock' \in {dictLock, NoProc}
  BY <1>1 DEF Extend, Writes
<1>5. TypeOK'
  BY <1>1, <1>2, <1>3, <1>4 DEF TypeOK, Extend
<1>6. OthersRest(p)
  BY <1>1, <1>2, <1>3 DEF OthersRest, Extend
<1>7. OnDisk' = OnDisk
  BY FilesSame DEF Extend
<1>8. Remembers(p)' /\ Reads(p)'
  <2>1. Remembers(p) /\ Reads(p)
    OBVIOUS
  <2>2. pc'[p] \in {"run", "save", "append", "table"}
    BY <1>1
  <2> QED
    BY <1>1, <1>7, <2>1, <2>2 DEF Remembers, Content, Reads, Trusted, Dictionary, At, Codes, Extend
<1>9. Writes(p)'
  <2>1. CASE pc'[p] = "run"
    BY <2>1 DEF Writes
  <2>2. CASE pc'[p] # "run"
    <3>1. want[p] \in Batch
      BY <1>1 DEF Writes
    <3>2. Content(filesSeen[p]) \subseteq plan'[p]
      BY <1>1, <2>2 DEF Remembers
    <3>3. \A x \in cat[p] : Codes(x, plan'[p])
      BY <1>1, <2>2, CodedOnDisk DEF Codes
    <3> QED
      BY <1>1, <1>4, <1>7, <2>2, <3>1, <3>2, <3>3 DEF Writes, Wanted, Content, Codes, Extend
  <2> QED
    BY <2>1, <2>2
<1>10. Compacts(p)' /\ ~Compacting(p)'
  BY <1>1 DEF Compacts, Compacting
<1> QED
  BY <1>1, <1>4, <1>5, <1>6, <1>8, <1>9, <1>10, QuietKeeps DEF Extend

\* A file committed: the dictionary is what it was and what the file holds.
LEMMA CommitGives ==
  ASSUME IInv, NEW f \in File, NEW D \in SUBSET Entry, Commit(f, D)
  PROVE  /\ fstate[f] = "none" /\ FilesKept
         /\ fstate' \in [File -> {"none", "live", "superseded"}] /\ holds' \in [File -> SUBSET Entry]
         /\ Listing' = Listing \cup {f} /\ OnDisk' = OnDisk \cup D /\ holds'[f] = D
<1> USE DEF IInv
<1>1. fstate' \in [File -> {"none", "live", "superseded"}] /\ fstate'[f] = "live" /\ \A g \in File \ {f} : fstate'[g] = fstate[g]
  BY DEF TypeOK, Commit
<1>2. holds' \in [File -> SUBSET Entry] /\ holds'[f] = D /\ \A g \in File \ {f} : holds'[g] = holds[g]
  BY DEF TypeOK, Commit
<1>3. fstate[f] = "none"
  BY DEF Commit
<1>4. Listing' = Listing \cup {f}
  BY <1>1 DEF Listing
<1>5. OnDisk' = OnDisk \cup D
  <2>1. \A g \in Listing : g # f /\ holds'[g] = holds[g]
    BY <1>2, <1>3 DEF Listing
  <2> QED
    BY <1>2, <1>4, <2>1 DEF OnDisk
<1>6. FilesKept
  BY <1>1, <1>2, <1>3 DEF FilesKept
<1> QED
  BY <1>1, <1>2, <1>3, <1>4, <1>5, <1>6

\* What an engine remembers when files are added, or superseded, and it does not look.
LEMMA RemembersKept ==
  ASSUME IInv, NEW p \in Proc, FilesKept, OnDisk \subseteq OnDisk', UNCHANGED <<filesSeen, cache, blind>>
  PROVE  Remembers(p)' /\ Content(filesSeen[p])' = Content(filesSeen[p])
<1>1. Remembers(p) /\ filesSeen[p] \in SUBSET File
  BY DEF IInv, TypeOK
<1>2. UNION {holds'[f] : f \in filesSeen[p]} = Content(filesSeen[p])
  BY <1>1, ContentKept DEF Remembers
<1>3. Content(filesSeen[p])' = Content(filesSeen[p])
  BY <1>2 DEF Content
<1> QED
  BY <1>1, <1>3 DEF Remembers, FilesKept

LEMMA CreateDictionariesKeeps ==
  ASSUME IInv, NEW p \in Proc, CreateDictionaries(p)
  PROVE  IInv'
<1> USE DEF IInv
<1>1. PICK f \in File : Commit(f, {})
  BY DEF CreateDictionaries
<1>2. /\ FilesKept /\ OnDisk' = OnDisk
      /\ fstate' \in [File -> {"none", "live", "superseded"}] /\ holds' \in [File -> SUBSET Entry]
  <2>1. {} \in SUBSET Entry /\ OnDisk \cup {} = OnDisk
    OBVIOUS
  <2> QED
    BY <1>1, <2>1, CommitGives
<1>3. pc' \in [Proc -> PC] /\ pc'[p] = "append" /\ pc[p] = "table" /\ \A q \in Proc \ {p} : pc'[q] = pc[q]
  BY DEF TypeOK, CreateDictionaries, Goto, PC, At
<1>4. TypeOK'
  BY <1>2, <1>3 DEF TypeOK, CreateDictionaries
<1>5. OthersRest(p)
  BY <1>3 DEF OthersRest, CreateDictionaries
<1>6. Remembers(p)' /\ Content(filesSeen[p])' = Content(filesSeen[p])
  BY <1>2, RemembersKept DEF CreateDictionaries
<1>7. Reads(p)'
  <2>1. Reads(p)
    OBVIOUS
  <2> QED
    BY <1>2, <1>3, <2>1 DEF Reads, Trusted, Dictionary, At, Codes, CreateDictionaries
<1>8. Writes(p)' /\ Compacts(p)'
  <2>1. Writes(p)
    OBVIOUS
  <2> QED
    BY <1>2, <1>3, <1>6, <2>1 DEF Writes, Compacts, Wanted, Codes, CreateDictionaries
<1>9. IsDictionary(OnDisk') /\ ExtentsCoded'
  BY <1>2 DEF ExtentsCoded, Codes, CreateDictionaries
<1>10. ~Compacting(p)'
  BY <1>3 DEF Compacting
<1> QED
  BY <1>2, <1>3, <1>4, <1>5, <1>6, <1>7, <1>8, <1>9, <1>10, StepKeeps DEF CreateDictionaries

\* The new codes come into the files while the lock is held.
LEMMA AppendEntriesKeeps ==
  ASSUME IInv, NEW p \in Proc, AppendEntries(p)
  PROVE  IInv' /\ OnDisk \subseteq OnDisk'
<1> USE DEF IInv
<1>1. PICK f \in File : Commit(f, plan[p] \ OnDisk)
  BY DEF AppendEntries
<1>2. pc' \in [Proc -> PC] /\ pc'[p] = "save" /\ pc[p] = "append" /\ \A q \in Proc \ {p} : pc'[q] = pc[q]
  BY DEF TypeOK, AppendEntries, Goto, PC, At
<1>3. IsDictionary(plan[p]) /\ OnDisk \subseteq plan[p] /\ dictLock = p
  BY <1>2 DEF Writes
<1>4. /\ FilesKept /\ OnDisk' = plan[p]
      /\ fstate' \in [File -> {"none", "live", "superseded"}] /\ holds' \in [File -> SUBSET Entry]
  <2>1. plan[p] \ OnDisk \in SUBSET Entry
    BY DEF TypeOK
  <2>2. OnDisk \cup (plan[p] \ OnDisk) = plan[p]
    BY <1>3
  <2> QED
    BY <1>1, <2>1, <2>2, CommitGives
<1>5. dictLock' = NoProc
  BY <1>3 DEF AppendEntries
<1>6. TypeOK'
  BY <1>2, <1>4, <1>5 DEF TypeOK, AppendEntries, memory
<1>7. OthersRest(p)
  BY <1>2 DEF OthersRest, AppendEntries, memory
<1>8. Remembers(p)' /\ Content(filesSeen[p])' = Content(filesSeen[p])
  BY <1>3, <1>4, RemembersKept DEF AppendEntries, memory
<1>9. Reads(p)'
  <2>1. Reads(p) /\ Trusted(p) \subseteq Trusted(p)'
    BY <1>2, <1>3, <1>4 DEF Trusted, Dictionary, At, AppendEntries, memory
  <2> QED
    BY <1>2, <2>1 DEF Reads, Codes, AppendEntries, memory
<1>10. Writes(p)' /\ Compacts(p)'
  <2>1. Writes(p)
    OBVIOUS
  <2> QED
    BY <1>2, <1>4, <1>8, <2>1 DEF Writes, Compacts, Wanted, Codes, AppendEntries, memory
<1>11. IsDictionary(OnDisk') /\ ExtentsCoded'
  BY <1>3, <1>4 DEF ExtentsCoded, Codes, AppendEntries
<1>12. ~Compacting(p)'
  BY <1>2 DEF Compacting
<1> QED
  BY <1>2, <1>3, <1>4, <1>6, <1>7, <1>8, <1>9, <1>10, <1>11, <1>12, StepKeeps DEF AppendEntries

\* The extent SaveExtent writes.
Encoded(p) == [v \in want[p] |-> IF v = Null THEN 0 ELSE CodeOf(plan[p], v)]

\* Its cells have codes in the files: a null the code of "".
LEMMA EncodedIsCoded ==
  ASSUME IInv, NEW p \in Proc, pc[p] = "save"
  PROVE  Codes(Encoded(p), plan[p]) /\ DOMAIN Encoded(p) \in (SUBSET Cells) \ {{}}
<1> USE DEF IInv
<1>1. want[p] \in Batch /\ Wanted(p) \subseteq Known(plan[p]) /\ plan[p] \subseteq OnDisk
  BY DEF Writes
<1>2. ASSUME NEW v \in want[p]
      PROVE  [code |-> Encoded(p)[v], value |-> Shown(v)] \in plan[p]
  <2>1. CASE v = Null
    <3>1. PICK e \in plan[p] : e.value = Empty
      BY <1>1 DEF Wanted, Known
    <3>2. [code |-> 0, value |-> Empty] \in OnDisk
      BY <1>1, <3>1 DEF IsDictionary
    <3>3. e \in OnDisk
      BY <1>1, <3>1
    <3>4. e.code = 0
      BY <3>1, <3>2, <3>3 DEF IsDictionary
    <3>5. e = [code |-> 0, value |-> Empty]
      BY <3>1, <3>4, <3>3 DEF IsDictionary, Entry
    <3> QED
      BY <2>1, <3>1, <3>5 DEF Encoded, Shown
  <2>2. CASE v # Null
    <3>1. \E e \in plan[p] : e.value = v
      BY <1>1, <1>2, <2>2 DEF Wanted, Known
    <3> DEFINE e == CHOOSE e \in plan[p] : e.value = v
    <3>2. e \in plan[p] /\ e.value = v
      BY <3>1
    <3>3. Encoded(p)[v] = e.code
      BY <2>2, <3>1 DEF Encoded, CodeOf
    <3>4. e = [code |-> e.code, value |-> e.value]
      BY <1>1, <3>2 DEF IsDictionary, Entry
    <3> HIDE DEF e
    <3> QED
      BY <2>2, <3>2, <3>3, <3>4 DEF Shown
  <2> QED
    BY <2>1, <2>2
<1>3. Batch \subseteq (SUBSET Cells) \ {{}}
  BY ConstantsOK DEF Cells
<1> QED
  BY <1>1, <1>2, <1>3 DEF Codes, Encoded

LEMMA SaveExtentKeeps ==
  ASSUME IInv, NEW p \in Proc, SaveExtent(p)
  PROVE  IInv'
<1> USE DEF IInv
<1>1. pc' \in [Proc -> PC] /\ pc'[p] = "run" /\ pc[p] = "save" /\ \A q \in Proc \ {p} : pc'[q] = pc[q]
  BY DEF TypeOK, SaveExtent, Goto, PC, At
<1> DEFINE x == Encoded(p)
<1>2. Codes(x, plan[p]) /\ DOMAIN x \in (SUBSET Cells) \ {{}}
  BY <1>1, EncodedIsCoded
<1>3. extents' = extents \cup {x} /\ cat' = [cat EXCEPT ![p] = cat[p] \cup {x}]
  BY DEF SaveExtent, Encoded
<1>4. /\ plan[p] \subseteq OnDisk /\ Content(filesSeen[p]) \subseteq plan[p] /\ plan[p] \in SUBSET Entry
      /\ \A y \in cat[p] : Codes(y, plan[p])
  BY <1>1 DEF Writes, TypeOK
<1> HIDE DEF x
<1>5. OnDisk' = OnDisk /\ FilesKept
  BY FilesSame DEF SaveExtent
<1>6. cache' \in [Proc -> (SUBSET Entry) \cup {NoDict}] /\ cache'[p] = plan[p] /\ \A q \in Proc \ {p} : cache'[q] = cache[q]
  BY <1>4 DEF TypeOK, SaveExtent
<1>7. blind' \in [Proc -> BOOLEAN] /\ (blind'[p] <=> filesSeen[p] = {}) /\ \A q \in Proc \ {p} : blind'[q] = blind[q]
  <2>1. blind' = [blind EXCEPT ![p] = (filesSeen[p] = {})]
    BY DEF SaveExtent
  <2> QED
    BY <2>1 DEF TypeOK
<1>8. cat' \in [Proc -> SUBSET extents'] /\ cat'[p] = cat[p] \cup {x} /\ \A q \in Proc \ {p} : cat'[q] = cat[q]
  <2>1. cat \in [Proc -> SUBSET extents]
    BY DEF TypeOK
  <2> QED
    BY <1>3, <2>1
<1>9. want' \in [Proc -> SUBSET Cells] /\ \A q \in Proc \ {p} : want'[q] = want[q]
  BY DEF TypeOK, SaveExtent
<1>10. plan' \in [Proc -> SUBSET Entry] /\ \A q \in Proc \ {p} : plan'[q] = plan[q]
  BY DEF TypeOK, SaveExtent
<1>11. TypeOK'
  BY <1>1, <1>6, <1>7, <1>8, <1>9, <1>10 DEF TypeOK, SaveExtent
<1>12. OthersRest(p)
  BY <1>1, <1>6, <1>7, <1>8, <1>9, <1>10 DEF OthersRest, SaveExtent
<1>13. Remembers(p)'
  <2>1. Remembers(p) /\ filesSeen' = filesSeen /\ holds' = holds /\ fstate' = fstate
    BY DEF SaveExtent
  <2> QED
    BY <1>4, <1>5, <1>6, <1>7, <2>1 DEF Remembers, Content
<1>14. Reads(p)'
  <2>1. plan[p] \subseteq Trusted(p)'
    BY <1>4, <1>5, <1>6 DEF Trusted, Dictionary
  <2> QED
    BY <1>1, <1>2, <1>4, <1>8, <2>1 DEF Reads, Codes
<1>15. Writes(p)' /\ Compacts(p)' /\ ~Compacting(p)'
  BY <1>1 DEF Writes, Compacts, Compacting
<1>16. IsDictionary(OnDisk') /\ ExtentsCoded'
  BY <1>2, <1>3, <1>4, <1>5 DEF ExtentsCoded, Codes
<1> QED
  BY <1>1, <1>5, <1>11, <1>12, <1>13, <1>14, <1>15, <1>16, StepKeeps DEF SaveExtent

LEMMA BeginCompactKeeps ==
  ASSUME IInv, NEW p \in Proc, BeginCompact(p)
  PROVE  IInv'
<1> USE DEF IInv
<1>1. OnDisk' = OnDisk /\ Listing' = Listing
  BY FilesSame DEF BeginCompact
<1>2. pc' \in [Proc -> PC] /\ pc'[p] = "rewrite" /\ pc[p] = "idle" /\ \A q \in Proc \ {p} : pc'[q] = pc[q]
  BY DEF TypeOK, BeginCompact, Goto, PC, At
<1>3. /\ filesSeen' \in [Proc -> SUBSET File]
      /\ cache' \in [Proc -> (SUBSET Entry) \cup {NoDict}]
      /\ blind' \in [Proc -> BOOLEAN]
      /\ \A q \in Proc \ {p} : filesSeen'[q] = filesSeen[q] /\ cache'[q] = cache[q] /\ blind'[q] = blind[q]
      /\ Remembers(p)'
  BY DropStaleGives DEF BeginCompact
<1>4. todo' \in [Proc -> SUBSET File] /\ todo'[p] = Listing /\ \A q \in Proc \ {p} : todo'[q] = todo[q]
  BY DEF TypeOK, BeginCompact, Listing
<1>5. TypeOK'
  BY <1>2, <1>3, <1>4 DEF TypeOK, BeginCompact
<1>6. OthersRest(p)
  BY <1>2, <1>3, <1>4 DEF OthersRest, BeginCompact
<1>7. Reads(p)'
  <2>1. Reads(p) /\ cat' = cat
    BY DEF BeginCompact
  <2> QED
    BY <1>2, <2>1 DEF Reads
<1>8. Writes(p)' /\ Compacts(p)'
  BY <1>1, <1>2, <1>4 DEF Writes, Compacts
<1>9. \A q \in Proc : pc[q] = "idle" /\ ~Compacting(q)
  BY DEF BeginCompact, At, Compacting
<1> QED
  BY <1>3, <1>5, <1>6, <1>7, <1>8, <1>9, QuietKeeps DEF BeginCompact

LEMMA RewriteKeeps ==
  ASSUME IInv, NEW p \in Proc, Rewrite(p)
  PROVE  IInv' /\ OnDisk' = OnDisk
<1> USE DEF IInv
<1>1. pc' \in [Proc -> PC] /\ pc'[p] = "supersede" /\ pc[p] = "rewrite" /\ \A q \in Proc \ {p} : pc'[q] = pc[q]
  BY DEF TypeOK, Rewrite, Goto, PC, At
<1>2. todo[p] = Listing
  BY <1>1 DEF Compacts
<1>3. PICK f \in File : Commit(f, OnDisk)
  BY <1>2 DEF Rewrite, OnDisk
<1>4. /\ fstate[f] = "none" /\ FilesKept
      /\ fstate' \in [File -> {"none", "live", "superseded"}] /\ holds' \in [File -> SUBSET Entry]
      /\ Listing' = Listing \cup {f} /\ OnDisk' = OnDisk /\ holds'[f] = OnDisk
  <2>1. OnDisk \in SUBSET Entry
    BY DEF IsDictionary
  <2> QED
    BY <1>3, <2>1, CommitGives
<1>5. TypeOK'
  BY <1>1, <1>4 DEF TypeOK, Rewrite, memory
<1>6. OthersRest(p)
  BY <1>1 DEF OthersRest, Rewrite, memory
<1>7. Remembers(p)'
  BY <1>4, RemembersKept DEF Rewrite, memory
<1>8. Reads(p)' /\ Writes(p)'
  <2>1. Reads(p)
    OBVIOUS
  <2> QED
    BY <1>1, <2>1 DEF Reads, Writes, Rewrite, memory
<1>9. Compacts(p)'
  <2>1. f \in Listing' \ todo'[p]
    BY <1>2, <1>4 DEF Listing, Rewrite, memory
  <2>2. \A g \in todo'[p] : holds'[g] \subseteq holds'[f]
    <3>1. \A g \in Listing : holds'[g] = holds[g] /\ holds[g] \subseteq OnDisk
      BY <1>4 DEF FilesKept, Listing, OnDisk
    <3> QED
      BY <1>2, <1>4, <3>1 DEF Rewrite, memory
  <2> QED
    BY <1>1, <2>1, <2>2 DEF Compacts
<1>10. IsDictionary(OnDisk') /\ ExtentsCoded'
  BY <1>4 DEF ExtentsCoded, Codes, Rewrite
<1>11. Compacting(p)
  BY <1>1 DEF Compacting
<1> QED
  BY <1>1, <1>4, <1>5, <1>6, <1>7, <1>8, <1>9, <1>10, <1>11, StepKeeps DEF Rewrite

\* What is superseded is in the new file too.
LEMMA SupersedeKeeps ==
  ASSUME IInv, NEW p \in Proc, Supersede(p)
  PROVE  IInv' /\ OnDisk' = OnDisk
<1> USE DEF IInv
<1>1. pc[p] = "supersede" /\ pc' = pc
  BY DEF Supersede, At
<1>2. PICK f \in todo[p] : fstate' = [fstate EXCEPT ![f] = "superseded"] /\ todo' = [todo EXCEPT ![p] = todo[p] \ {f}]
  BY DEF Supersede
<1>3. PICK g \in Listing \ todo[p] : \A h \in todo[p] : holds[h] \subseteq holds[g]
  BY <1>1 DEF Compacts
<1>4. fstate' \in [File -> {"none", "live", "superseded"}] /\ fstate'[f] = "superseded" /\ \A h \in File \ {f} : fstate'[h] = fstate[h]
  BY <1>2 DEF TypeOK
<1>5. Listing' = Listing \ {f}
  BY <1>4 DEF Listing
<1>6. holds' = holds
  BY DEF Supersede
<1>7. OnDisk' = OnDisk
  <2>1. OnDisk' = UNION {holds[h] : h \in Listing \ {f}}
    BY <1>5, <1>6 DEF OnDisk
  <2>2. g \in Listing \ {f} /\ holds[f] \subseteq holds[g]
    BY <1>2, <1>3
  <2> QED
    BY <2>1, <2>2 DEF OnDisk
<1>8. FilesKept
  BY <1>4, <1>6 DEF FilesKept
<1>9. todo' \in [Proc -> SUBSET File] /\ todo'[p] = todo[p] \ {f} /\ \A q \in Proc \ {p} : todo'[q] = todo[q]
  BY <1>2 DEF TypeOK
<1>10. TypeOK'
  BY <1>4, <1>9 DEF TypeOK, Supersede
<1>11. OthersRest(p)
  BY <1>9 DEF OthersRest, Supersede
<1>12. Remembers(p)'
  BY <1>7, <1>8, RemembersKept DEF Supersede
<1>13. Reads(p)' /\ Writes(p)'
  <2>1. Reads(p)
    OBVIOUS
  <2> QED
    BY <1>1, <2>1 DEF Reads, Writes, Supersede
<1>14. Compacts(p)'
  <2>1. g \in Listing' \ todo'[p] /\ \A h \in todo'[p] : holds'[h] \subseteq holds'[g]
    BY <1>2, <1>3, <1>5, <1>6, <1>9
  <2> QED
    BY <1>1, <2>1 DEF Compacts
<1>15. IsDictionary(OnDisk') /\ ExtentsCoded'
  BY <1>7 DEF ExtentsCoded, Codes, Supersede
<1>16. Compacting(p)
  BY <1>1 DEF Compacting
<1> QED
  BY <1>1, <1>7, <1>8, <1>10, <1>11, <1>12, <1>13, <1>14, <1>15, <1>16, StepKeeps DEF Supersede

------------------------------------------------------------------------------
(* The theorems.                                                             *)

LEMMA InitIInv ==
  ASSUME Init
  PROVE  IInv
<1>1. TypeOK
  BY DEF Init, TypeOK, PC
<1>2. OnDisk = {}
  BY DEF Init, OnDisk, Listing
<1>3. IsDictionary({})
  <2>1. IsFiniteSet({}) /\ Cardinality({}) = 0
    BY FS_EmptySet
  <2>2. 0 .. 0 - 1 = {}
    BY SMT
  <2> QED
    BY <2>1, <2>2, ConstantsOK DEF IsDictionary
<1>4. ExtentsCoded
  BY DEF Init, ExtentsCoded
<1>5. Alone
  BY DEF Init, Alone, Compacting
<1>6. ASSUME NEW p \in Proc
      PROVE  Remembers(p) /\ Reads(p) /\ Writes(p) /\ Compacts(p)
  BY DEF Init, Remembers, Content, Reads, Writes, Compacts
<1> QED
  BY <1>1, <1>2, <1>3, <1>4, <1>5, <1>6 DEF IInv

LEMMA NextIInv ==
  ASSUME IInv, [Next]_vars
  PROVE  IInv'
<1>1. ASSUME NEW p \in Proc,
             \/ Begin(p) \/ Revalidate(p) \/ Load(p) \/ Finish(p)
             \/ ResolveDecision(p) \/ TakeDictLock(p) \/ Extend(p)
             \/ CreateDictionaries(p) \/ AppendEntries(p) \/ SaveExtent(p) \/ Fail(p)
             \/ BeginCompact(p) \/ Rewrite(p) \/ Supersede(p) \/ Exit(p)
      PROVE  IInv'
  BY <1>1, BeginKeeps, RevalidateKeeps, LoadKeeps, FinishKeeps, ResolveDecisionKeeps, TakeDictLockKeeps,
     ExtendKeeps, CreateDictionariesKeeps, AppendEntriesKeeps, SaveExtentKeeps, FailKeeps,
     BeginCompactKeeps, RewriteKeeps, SupersedeKeeps, ExitKeeps
<1>2. CASE UNCHANGED vars
  <2>1. IInv' = IInv
    BY <1>2 DEF IInv, TypeOK, ExtentsCoded, Alone, Compacting, Remembers, Reads, Writes, Compacts, Content, Codes,
       OnDisk, Listing, Trusted, Dictionary, At, Wanted, vars, memory
  <2> QED
    BY <2>1
<1> QED
  BY <1>1, <1>2 DEF Next

LEMMA Inductive == Spec => []IInv
<1>1. Init => IInv
  BY InitIInv
<1>2. IInv /\ [Next]_vars => IInv'
  BY NextIInv
<1> QED
  BY <1>1, <1>2, PTL DEF Spec

\* Whatever engines interleave, fail or die, each value has one code and each code one
\* value, without gaps, within the cap, and "" has code 0 (extendTableDict reads the
\* directory, under the lock, and commits before it lets go).
THEOREM CodesAreUnique == Spec => []OneCodePerValue
<1>1. IInv => OneCodePerValue
  BY DEF IInv, IsDictionary, OneCodePerValue
<1> QED
  BY <1>1, Inductive, PTL

\* No step takes an entry out of the dictionary, or changes it: entries are appended, and
\* .compact supersedes a file when another one has what it holds.
THEOREM CodesStay == Spec => CodesPermanent
<1>1. ASSUME IInv, [Next]_vars
      PROVE  [OnDisk \subseteq OnDisk']_vars
  <2>1. ASSUME NEW p \in Proc, fstate' = fstate /\ holds' = holds
        PROVE  OnDisk' = OnDisk
    BY <2>1, FilesSame
  <2>2. ASSUME NEW p \in Proc, CreateDictionaries(p)
        PROVE  OnDisk \subseteq OnDisk'
    <3>1. PICK f \in File : Commit(f, {})
      BY <2>2 DEF CreateDictionaries
    <3>2. {} \in SUBSET Entry
      OBVIOUS
    <3> QED
      BY <1>1, <3>1, <3>2, CommitGives
  <2>3. ASSUME NEW p \in Proc,
               \/ Begin(p) \/ Revalidate(p) \/ Load(p) \/ Finish(p)
               \/ ResolveDecision(p) \/ TakeDictLock(p) \/ Extend(p)
               \/ SaveExtent(p) \/ Fail(p) \/ BeginCompact(p) \/ Exit(p)
        PROVE  OnDisk' = OnDisk
    BY <2>1, <2>3 DEF Begin, Revalidate, Load, Finish, ResolveDecision, TakeDictLock, Extend, SaveExtent, Fail,
       BeginCompact, Exit
  <2> QED
    BY <1>1, <2>2, <2>3, AppendEntriesKeeps, RewriteKeeps, SupersedeKeeps DEF Next
<1> QED
  BY <1>1, Inductive, PTL DEF Spec, CodesPermanent

------------------------------------------------------------------------------
(* The codes are out of sight.                                               *)

\* The cells an extent was written from, as they are read.
Meant(x) == [v \in DOMAIN x |-> Shown(v)]

\* What the column's extents are read as, what each engine's are, and as what it
\* reads them.
AsWritten == {Decoded(x, OnDisk) : x \in extents}
AsHeld == [p \in Proc |-> {Decoded(x, OnDisk) : x \in cat[p]}]
AsSeen == [p \in Proc |-> {Decoded(x, ReadsWith(p)) : x \in cat[p]}]

\* With the files' dictionary every extent is read as it was meant.
ReadAsMeant ==
  /\ AsWritten = {Meant(x) : x \in extents}
  /\ AsHeld = [p \in Proc |-> {Meant(x) : x \in cat[p]}]

LEMMA CodesReadAsMeant == IInv => ReadAsMeant
<1> SUFFICES ASSUME IInv
             PROVE  ReadAsMeant
  OBVIOUS
<1> USE DEF IInv
<1>1. ASSUME NEW x \in extents
      PROVE  Decoded(x, OnDisk) = Meant(x)
  BY ReadsBack DEF ExtentsCoded, Meant
<1>2. \A p \in Proc : cat[p] \subseteq extents
  BY DEF TypeOK
<1>3. AsWritten = {Meant(x) : x \in extents}
  BY <1>1 DEF AsWritten
<1>4. \A p \in Proc : {Decoded(x, OnDisk) : x \in cat[p]} = {Meant(x) : x \in cat[p]}
  BY <1>1, <1>2
<1> QED
  BY <1>3, <1>4 DEF AsHeld, ReadAsMeant

\* What is not dropped is the trusted dictionary, unless a founder has it.
LEMMA OthersTrust ==
  ASSUME IInv, NEW p \in Proc, ~blind[p]
  PROVE  ReadsWith(p) = Trusted(p)
<1>1. CASE At(p, "revalidate") /\ ~Changed(p) /\ cache[p] # NoDict
  <2>1. /\ cache[p] \subseteq OnDisk
        /\ filesSeen[p] # {} /\ Content(filesSeen[p]) \subseteq cache[p]
    BY <1>1 DEF IInv, Remembers
  <2>2. filesSeen[p] = Listing
    BY <1>1, <2>1 DEF Changed
  <2>3. Content(filesSeen[p]) = OnDisk
    BY <2>2 DEF Content, OnDisk
  <2>4. cache[p] = OnDisk
    BY <2>1, <2>3
  <2> QED
    BY <1>1, <2>4 DEF ReadsWith, Trusted, Dictionary
<1> QED
  BY <1>1 DEF ReadsWith, Trusted, Dictionary

\* An engine's dictionary is part of that in the files.
LEMMA PartOfFiles ==
  ASSUME IInv, NEW p \in Proc
  PROVE  ReadsWith(p) \subseteq OnDisk
BY DEF IInv, ReadsWith, Dictionary, Remembers

\* With part of a dictionary an extent is read as with all of it, but for values lost.
LEMMA PartMisses ==
  ASSUME NEW D, IsDictionary(D), NEW P \in SUBSET D, NEW x, Codes(x, D)
  PROVE  Column!Misses(Decoded(x, D), Decoded(x, P))
<1>1. Decoded(x, D) = [v \in DOMAIN x |-> Shown(v)]
  BY ReadsBack
<1>2. ASSUME NEW v \in DOMAIN x
      PROVE  Decode(P, x[v]) \in {Shown(v), NoValue}
  <2> DEFINE E == {e \in P : e.code = x[v]}
  <2>1. \A e \in E : e.value = Shown(v)
    <3> DEFINE d == [code |-> x[v], value |-> Shown(v)]
    <3>1. d \in D /\ d.code = x[v] /\ d.value = Shown(v)
      BY DEF Codes
    <3> HIDE DEF d
    <3> QED
      BY <3>1 DEF IsDictionary
  <2>2. CASE E = {}
    BY <2>2 DEF Decode
  <2>3. CASE E # {}
    BY <2>1, <2>3 DEF Decode
  <2> QED
    BY <2>2, <2>3
<1>3. DOMAIN Decoded(x, P) = DOMAIN x /\ \A v \in DOMAIN x : Decoded(x, P)[v] = Decode(P, x[v])
  BY DEF Decoded
<1> QED
  BY <1>1, <1>2, <1>3 DEF Column!Misses

\* Who is no founder reads its extents as they were written; a founder misses
\* values, and has none wrong.
LEMMA AllReadHolds == IInv => Column!AllRead
<1> SUFFICES ASSUME IInv, NEW p \in Proc
             PROVE  Column!Reads(p)
  BY DEF Column!AllRead
<1> DEFINE held == {Decoded(x, OnDisk) : x \in cat[p]}
           read == {Decoded(x, ReadsWith(p)) : x \in cat[p]}
<1>1. IsDictionary(OnDisk) /\ \A x \in cat[p] : Codes(x, OnDisk)
  BY DEF IInv, TypeOK, ExtentsCoded
<1>2. ReadsWith(p) \in SUBSET OnDisk
  BY PartOfFiles
<1>3. CASE blind[p]
  <2>1. \A x \in cat[p] : Column!Misses(Decoded(x, OnDisk), Decoded(x, ReadsWith(p)))
    BY <1>1, <1>2, PartMisses
  <2>2. \A x \in held : \E y \in read : Column!Misses(x, y)
    BY <2>1
  <2>3. \A y \in read : \E x \in held : Column!Misses(x, y)
    BY <2>1
  <2> QED
    BY <1>3, <2>2, <2>3 DEF Column!Reads
<1>4. CASE ~blind[p]
  <2>1. ASSUME NEW x \in cat[p]
        PROVE  Decoded(x, ReadsWith(p)) = Decoded(x, OnDisk)
    <3>1. Codes(x, ReadsWith(p))
      BY <1>4, OthersTrust DEF IInv, Reads
    <3> QED
      BY <1>1, <1>2, <3>1, ReadsBack
  <2>2. read = held
    BY <2>1
  <2> QED
    BY <1>4, <2>2 DEF Column!Reads
<1> QED
  BY <1>3, <1>4

LEMMA ReadAsMeantNext ==
  ASSUME IInv, IInv'
  PROVE  /\ AsWritten = {Meant(x) : x \in extents}
         /\ AsHeld = [p \in Proc |-> {Meant(x) : x \in cat[p]}]
         /\ AsWritten' = {Meant(x) : x \in extents'}
         /\ AsHeld' = [p \in Proc |-> {Meant(x) : x \in cat'[p]}]
<1>1. ReadAsMeant
  BY CodesReadAsMeant
<1>2. ReadAsMeant'
  BY CodesReadAsMeant, PTL
<1> QED
  BY <1>1, <1>2 DEF ReadAsMeant, Meant

\* A statement of p begins or ends: its extents become those of the table, or none.
LEMMA TurnHeld ==
  ASSUME IInv, IInv', NEW p \in Proc, extents' = extents,
         cat' = [cat EXCEPT ![p] = extents] \/ cat' = [cat EXCEPT ![p] = {}]
  PROVE  Column!Turn(p)
<1>1. /\ AsWritten = {Meant(x) : x \in extents}
      /\ AsHeld = [q \in Proc |-> {Meant(x) : x \in cat[q]}]
      /\ AsWritten' = {Meant(x) : x \in extents'}
      /\ AsHeld' = [q \in Proc |-> {Meant(x) : x \in cat'[q]}]
  BY ReadAsMeantNext
<1>2. cat \in [Proc -> SUBSET extents]
  BY DEF IInv, TypeOK
<1>3. AsWritten' = AsWritten
  BY <1>1
<1>4. AsHeld' = [AsHeld EXCEPT ![p] = AsWritten] \/ AsHeld' = [AsHeld EXCEPT ![p] = {}]
  <2>1. CASE cat' = [cat EXCEPT ![p] = extents]
    BY <1>1, <1>2, <2>1
  <2>2. CASE cat' = [cat EXCEPT ![p] = {}]
    BY <1>1, <1>2, <2>2
  <2> QED
    BY <2>1, <2>2
<1> QED
  BY <1>3, <1>4 DEF AsWritten, AsHeld, Column!Turn

LEMMA AppendHeld ==
  ASSUME IInv, IInv', NEW p \in Proc, SaveExtent(p)
  PROVE  Column!Append(p)
<1>1. /\ AsWritten = {Meant(y) : y \in extents}
      /\ AsHeld = [q \in Proc |-> {Meant(y) : y \in cat[q]}]
      /\ AsWritten' = {Meant(y) : y \in extents'}
      /\ AsHeld' = [q \in Proc |-> {Meant(y) : y \in cat'[q]}]
  BY ReadAsMeantNext
<1> DEFINE x == Encoded(p)
<1>2. extents' = extents \cup {x} /\ cat' = [cat EXCEPT ![p] = cat[p] \cup {x}]
  BY DEF SaveExtent, Encoded
<1>3. DOMAIN x \in (SUBSET Cells) \ {{}}
  BY EncodedIsCoded DEF SaveExtent, At
<1>4. Meant(x) \in Column!Extents
  BY <1>3 DEF Column!Extents, Meant
<1>5. cat \in [Proc -> SUBSET extents]
  BY DEF IInv, TypeOK
<1> HIDE DEF x
<1>6. AsWritten' = AsWritten \cup {Meant(x)}
  BY <1>1, <1>2
<1>7. AsHeld' = [AsHeld EXCEPT ![p] = AsHeld[p] \cup {Meant(x)}]
  <2>1. cat'[p] = cat[p] \cup {x} /\ \A q \in Proc \ {p} : cat'[q] = cat[q]
    BY <1>2, <1>5
  <2>2. {Meant(y) : y \in cat'[p]} = {Meant(y) : y \in cat[p]} \cup {Meant(x)}
    BY <2>1
  <2>3. \A q \in Proc \ {p} : {Meant(y) : y \in cat'[q]} = {Meant(y) : y \in cat[q]}
    BY <2>1
  <2> HIDE DEF Meant
  <2> QED
    BY <1>1, <2>2, <2>3
<1>8. Meant(x) \in AsHeld'[p]
  BY <1>1, <1>7
<1> QED
  BY <1>4, <1>6, <1>7, <1>8 DEF AsWritten, AsHeld, Column!Append

LEMMA NothingHeld ==
  ASSUME IInv, IInv', UNCHANGED <<extents, cat>>
  PROVE  Column!Rest
<1>1. UNCHANGED <<AsWritten, AsHeld>>
  BY ReadAsMeantNext
<1> QED
  BY <1>1 DEF AsWritten, AsHeld, Column!Rest

\* The codes are out of sight: a statement's extents change only when it begins,
\* writes one, or ends, and are read as the cells they were written from, whatever
\* dictionary an engine has in its memory; a founder that kept its cache reads a cell
\* as it was written or not at all (revalidateDicts, shareddict.go).
THEOREM ImplementsAColumn == Spec => ImplementsColumn
<1>1. ASSUME Init
      PROVE  Column!Init
  <2>1. extents = {} /\ blind = [p \in Proc |-> FALSE] /\ \A p \in Proc : cat[p] = {}
    BY <1>1 DEF Init
  <2> QED
    BY <2>1 DEF Column!Init, Column!AllRead, Column!Reads
<1>2. ASSUME IInv, IInv', [Next]_vars
      PROVE  Column!Next
  <2>1. ASSUME NEW p \in Proc, Begin(p)
        PROVE  Column!Turn(p)
    BY <1>2, <2>1, TurnHeld DEF Begin
  <2>2. ASSUME NEW p \in Proc, Finish(p) \/ Fail(p) \/ Exit(p)
        PROVE  Column!Turn(p)
    BY <1>2, <2>2, TurnHeld DEF Finish, Fail, Exit, Leave
  <2>3. ASSUME NEW p \in Proc, SaveExtent(p)
        PROVE  Column!Append(p)
    BY <1>2, <2>3, AppendHeld
  <2>4. ASSUME NEW p \in Proc,
               \/ Revalidate(p) \/ Load(p) \/ ResolveDecision(p) \/ TakeDictLock(p) \/ Extend(p)
               \/ CreateDictionaries(p) \/ AppendEntries(p) \/ BeginCompact(p) \/ Rewrite(p) \/ Supersede(p)
        PROVE  Column!Rest
    <3>1. UNCHANGED <<extents, cat>>
      BY <2>4 DEF Revalidate, Load, ResolveDecision, TakeDictLock, Extend, CreateDictionaries, AppendEntries,
         BeginCompact, Rewrite, Supersede, memory
    <3> QED
      BY <1>2, <3>1, NothingHeld
  <2>5. ASSUME UNCHANGED vars
        PROVE  Column!Rest
    <3>1. UNCHANGED <<extents, cat>>
      BY <2>5 DEF vars, memory
    <3> QED
      BY <1>2, <3>1, NothingHeld
  <2>6. Column!Rest \/ \E p \in Proc : Column!Turn(p) \/ Column!Append(p)
    BY <1>2, <2>1, <2>2, <2>3, <2>4, <2>5 DEF Next
  <2>7. (Column!AllRead)'
    BY <1>2, AllReadHolds, PTL
  <2> QED
    BY <2>6, <2>7 DEF Column!Next
<1>3. Column!Spec <=> Column!Init /\ [][Column!Next]_<<AsWritten, AsHeld, AsSeen, blind>>
  BY PTL DEF Column!Spec, AsWritten, AsHeld, AsSeen
<1> QED
  BY <1>1, <1>2, <1>3, Inductive, PTL DEF Spec, ImplementsColumn
==============================================================================
