------------------------------ MODULE EmbedInto ------------------------------
(***************************************************************************)
(* .embed-into: the rows of a query are embedded by an outside service and *)
(* written in chunks that are durable one by one; run again, the command   *)
(* skips the Ids the table already has (embed_bulk.go), over a client that *)
(* asks for a few texts at a time, retries what is transient and checks    *)
(* what comes back (embed/openai.go).                                      *)
(*                                                                         *)
(* A text is its row's Id.  A vector is [text, width]: what was embedded,  *)
(* and how wide the vectors of the model that answered are.                *)
(***************************************************************************)
EXTENDS Integers, Sequences, FiniteSets, SequencesExt

CONSTANTS
  Procs,        \* processes, each with one embedding client
  Ids,
  Sources,      \* the Id columns a source query may give
  Models,       \* the names a client may be configured with
  Widths,       \* widths of the models the service may have loaded
  CommitRows,   \* EmbedCommitRows
  MaxBatch,     \* texts per request
  Retries,      \* the length of openAIBackoff
  MaxRuns       \* bound: statements started

ASSUME BoundsAssumption ==
  /\ Sources \subseteq Seq(Ids)
  /\ {CommitRows, MaxBatch} \subseteq Nat \ {0}
  /\ {Retries, MaxRuns} \subseteq Nat
  /\ 0 \notin Widths

VARIABLES
  extents,      \* the table's extents on disk, each a sequence of rows
  created,      \* is the table on disk at all?
  model,        \* per process, its client's model name
  width,        \* the width its client has learned, 0 before the first answer
  run,          \* the statement it executes
  started,      \* statements started so far
  overlapped    \* have two statements been under way at once?

vars == <<extents, created, model, width, run, started, overlapped>>

Outcomes == {"ok", "failed", "refused"}
Idle == {"idle"} \cup Outcomes
PC == Idle \cup {"chunk", "request", "write", "flush"}

Vector == [text : Ids, width : Widths]
Row == [id : Ids, model : Models, vec : Vector]

\* view: the extents its catalog lists; known: whether it lists the table; todo: the
\* Ids to embed; at: how many of them are written; got: this chunk's vectors so far.
NoRun == [pc |-> "idle", source |-> << >>, view |-> << >>, known |-> FALSE,
          todo |-> << >>, at |-> 0, got |-> << >>, attempt |-> 0]

IdsIn(exts) == UNION {{exts[i][j].id : j \in DOMAIN exts[i]} : i \in DOMAIN exts}

Init ==
  /\ extents = << >>
  /\ created = FALSE
  /\ model \in [Procs -> Models]
  /\ width = [p \in Procs |-> 0]
  /\ run = [p \in Procs |-> NoRun]
  /\ started = 0
  /\ overlapped = FALSE

Running(p) == run[p].pc \notin Idle

Goto(p, pc) == run' = [run EXCEPT ![p].pc = pc]

Unwritten == UNCHANGED <<extents, created, model, started, overlapped>>

\* firstDuplicateId.
Unique(source) == \A i, j \in DOMAIN source : source[i] = source[j] => i = j

\* sampleEmbedRow: the first row of the extent the catalog lists first; extents are
\* listed in no order that tells which is older.
Samples(view) == {view[i][1] : i \in DOMAIN view}

\* The loop of applyEmbedInto over the source: how the Ids that are not in have come
\* together after so many of them.
Without(source, have) ==
  LET kept[n \in 0..Len(source)] ==
        IF n = 0 THEN << >>
        ELSE IF source[n] \in have THEN kept[n - 1] ELSE Append(kept[n - 1], source[n])
  IN  kept

\* Mutant of Pending: only the first extent is asked which Ids it has.
Pending_FirstExtent(source, view) ==
  Without(source, IdsIn(SubSeq(view, 1, IF view = << >> THEN 0 ELSE 1)))[Len(source)]

\* The Ids the table does not have (existingEmbedIds).
Pending(source, view) == Without(source, IdsIn(view))[Len(source)]

\* checkModelIdentity finds another model's vectors.
ModelDiffers(p, view) == \E row \in Samples(view) : row.model # model[p]

\* The statement up to its first chunk: everything is decided on the catalog it
\* starts with, before any vector is asked for.
Begin(p) ==
  /\ ~Running(p)
  /\ started < MaxRuns
  /\ \E source \in Sources, requested \in Models :
       LET todo == Pending(source, extents)
           fresh == [NoRun EXCEPT !.source = source, !.view = extents, !.known = created, !.todo = todo]
           refused == \/ source = << >>
                      \/ ~Unique(source)
                      \/ requested # model[p]
                      \/ ModelDiffers(p, extents)
       IN  run' = [run EXCEPT ![p] =
                     [fresh EXCEPT !.pc = IF refused THEN "refused"
                                          ELSE IF todo = << >> THEN "ok" ELSE "chunk"]]
  /\ started' = started + 1
  /\ overlapped' = (overlapped \/ \E q \in Procs \ {p} : Running(q))
  /\ UNCHANGED <<extents, created, model, width>>

\* The loop over chunks: a cancelled context ends it between two of them.
NextChunk(p) ==
  /\ run[p].pc = "chunk"
  /\ \/ run' = [run EXCEPT ![p].pc = "request", ![p].got = << >>, ![p].attempt = 0]
     \/ Goto(p, "failed")
  /\ UNCHANGED width
  /\ Unwritten

Least(m, n) == IF m < n THEN m ELSE n

Chunk(r) == SubSeq(r.todo, r.at + 1, Least(r.at + CommitRows, Len(r.todo)))

\* The texts of the next request.
Texts(r) == SubSeq(Chunk(r), Len(r.got) + 1, Least(Len(r.got) + MaxBatch, Len(Chunk(r))))

\* What the service may answer with status 200: objects in any order, each with the
\* index of a text and a vector for it; some missing, some twice, some by another
\* model than the others.
Replies(n) == UNION {[1..m -> [index : 1..n, width : Widths]] : m \in 0..n}

\* The orders sort.Slice may leave them in: by index, equal ones in any order.
Sorted(reply) ==
  {data \in {[i \in DOMAIN reply |-> reply[order[i]]] : order \in Bijection(DOMAIN reply, DOMAIN reply)} :
     \A i, j \in DOMAIN data : i < j => data[i].index <= data[j].index}

\* Mutant of WellFormed: the objects are sorted and their indices trusted.
WellFormed_IndexTrusted(p, data) ==
  /\ data # << >>
  /\ \A i \in DOMAIN data : data[i].width = data[1].width
  /\ width[p] \in {0, data[1].width}

\* embedOnce: indices from the first on without a gap, one width, and the one the
\* client has learned.
WellFormed(p, data) ==
  /\ data # << >>
  /\ \A i \in DOMAIN data : data[i].index = i /\ data[i].width = data[1].width
  /\ width[p] \in {0, data[1].width}

\* The service answers: a reply that is not well-formed fails the run for good, as
\* one too short does once its width is learned (EmbedBatch).
Answer(p) ==
  /\ run[p].pc = "request"
  /\ LET texts == Texts(run[p])
     IN  \E reply \in Replies(Len(texts)) : \E data \in Sorted(reply) :
           LET good == WellFormed(p, data)
               got == run[p].got \o [i \in DOMAIN data |-> [text |-> texts[data[i].index], width |-> data[i].width]]
               whole == Len(got) = Len(Chunk(run[p]))
           IN  /\ run' = [run EXCEPT ![p] =
                     IF good /\ Len(data) = Len(texts)
                     THEN [@ EXCEPT !.got = got, !.attempt = 0, !.pc = IF whole THEN "write" ELSE "request"]
                     ELSE [@ EXCEPT !.pc = "failed"]]
               /\ width' = [width EXCEPT ![p] = IF good THEN data[1].width ELSE @]
  /\ Unwritten

\* Mutant of Hiccup: the attempts wrap instead of running out.
Hiccup_Wraps(p) ==
  /\ run[p].pc = "request"
  /\ run' = [run EXCEPT ![p].attempt = (@ + 1) % (Retries + 1)]
  /\ UNCHANGED width
  /\ Unwritten

\* A lost connection or a server error: asked again, so many times.
Hiccup(p) ==
  /\ run[p].pc = "request"
  /\ \/ run[p].attempt < Retries /\ run' = [run EXCEPT ![p].attempt = @ + 1]
     \/ run[p].attempt = Retries /\ Goto(p, "failed")
  /\ UNCHANGED width
  /\ Unwritten

\* A request that is wrong, or cancelled while under way.
Reject(p) ==
  /\ run[p].pc = "request"
  /\ Goto(p, "failed")
  /\ UNCHANGED width
  /\ Unwritten

\* Mutant of WidthDiffers: the table's vectors are not compared with.
WidthDiffers_Unchecked(sample, vecs) == FALSE

\* checkVectorWidth.
WidthDiffers(sample, vecs) == sample.vec.width # vecs[1].width

\* checkUniformWidth and checkVectorWidth, and with the first chunk in hand the table
\* is created.
Check(p) ==
  /\ run[p].pc = "write"
  /\ LET r == run[p]
         uniform == \A i \in DOMAIN r.got : r.got[i].width = r.got[1].width
         fits == r.view = << >> \/ \E s \in Samples(r.view) : ~WidthDiffers(s, r.got)
         differs == \E s \in Samples(r.view) : WidthDiffers(s, r.got)
     IN  \/ /\ ~uniform \/ differs
            /\ Goto(p, "failed")
            /\ UNCHANGED created
         \/ /\ uniform /\ fits
            /\ run' = [run EXCEPT ![p].pc = "flush", ![p].known = TRUE]
            /\ created' = TRUE
  /\ UNCHANGED <<extents, model, width, started, overlapped>>

\* buildEmbedRows: the model is the client's own.
Rows(p) ==
  LET r == run[p]
  IN  [i \in DOMAIN r.got |-> [id |-> Chunk(r)[i], model |-> model[p], vec |-> r.got[i]]]

\* Mutant of Advance: the next chunk starts one row too far.
Advance_OneTooFar(r) == r.at + Len(r.got) + 1

Advance(r) == r.at + Len(r.got)

\* flushBatch: the chunk becomes an extent.
Flush(p) ==
  /\ run[p].pc = "flush"
  /\ extents' = Append(extents, Rows(p))
  /\ run' = [run EXCEPT ![p] =
       [@ EXCEPT !.view = Append(run[p].view, Rows(p)), !.at = Advance(run[p]), !.got = << >>,
                 !.pc = IF Advance(run[p]) < Len(run[p].todo) THEN "chunk" ELSE "ok"]]
  /\ UNCHANGED <<created, model, width, started, overlapped>>

FlushFails(p) ==
  /\ run[p].pc = "flush"
  /\ Goto(p, "failed")
  /\ UNCHANGED <<extents, created, model, width, started, overlapped>>

\* The process ends, in the middle of a run or not, and another takes its place.
Restart(p) ==
  /\ run' = [run EXCEPT ![p] = NoRun]
  /\ width' = [width EXCEPT ![p] = 0]
  /\ model' \in {[model EXCEPT ![p] = m] : m \in Models}
  /\ UNCHANGED <<extents, created, started, overlapped>>

Step(p) ==
  NextChunk(p) \/ Answer(p) \/ Hiccup(p) \/ Reject(p) \/ Check(p) \/ Flush(p) \/ FlushFails(p)

Next == \E p \in Procs : Begin(p) \/ Step(p) \/ Restart(p)

Fairness == \A p \in Procs : WF_vars(Step(p))

Spec == Init /\ [][Next]_vars /\ Fairness

------------------------------------------------------------------------------
(* Properties.                                                               *)

Stored == UNION {ToSet(extents[i]) : i \in DOMAIN extents}

\* Every vector in the table was made from the text of its own row, in whatever
\* order and shape the service answered (embedOnce, EmbedBatch, buildEmbedRows).
OwnVector == \A row \in Stored : row.vec.text = row.id

\* Unless two statements were under way at once, a table holds the vectors of one
\* model and of one width, whatever the service had loaded when and whatever clients
\* were restarted with (checkModelIdentity, checkVectorWidth, embedOnce).
OneSpace ==
  ~overlapped => \A a, b \in Stored : a.model = b.model /\ a.vec.width = b.vec.width

\* Nor does it hold an Id twice, however often runs failed, died and were repeated
\* (existingEmbedIds).
EachIdOnce ==
  ~overlapped =>
    \A i, j \in DOMAIN extents : \A k \in DOMAIN extents[i], l \in DOMAIN extents[j] :
      extents[i][k].id = extents[j][l].id => i = j /\ k = l

\* A run that reports OK leaves every Id of its source in the table, those it skipped
\* included, even when others write at the same time (applyEmbedInto).
AllEmbedded == \A p \in Procs : run[p].pc = "ok" => ToSet(run[p].source) \subseteq IdsIn(extents)

\* A run ends, whatever the service does, provided calls return (embedOneRequest).
RunEnds == \A p \in Procs : Running(p) ~> ~Running(p)
==============================================================================
