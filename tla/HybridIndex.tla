------------------------------ MODULE HybridIndex ------------------------------
(***************************************************************************)
(* The codebase context index (context/codebase/service.py) at a scale and *)
(* configuration that request hybrid retrieval.  `index` copies changed    *)
(* files into SQLite in one transaction and queues the vector points of    *)
(* what it replaced for deletion; `worker` does the same in a loop and     *)
(* then synchronises Qdrant: it embeds and upserts the chunks that have no *)
(* chunk_vectors row, batch by batch, and deletes the queued points.       *)
(* Nothing locks the index against the other command, Qdrant shares no     *)
(* transaction with SQLite, and the point id is a function of the chunk.   *)
(*                                                                         *)
(* A text is its sequence of blocks: definitions, the gaps between them,   *)
(* or paragraphs; how tree-sitter and the patterns find them is left out,  *)
(* and so are ranks, graph edges (CodeGraph) and the values of vectors.    *)
(*                                                                         *)
(* Definitions named A_B are mutants of A, not part of the specification.  *)
(***************************************************************************)
EXTENDS Naturals, Sequences, FiniteSets, SequencesExt

CONSTANTS
  Paths,       \* numbered in their order
  Texts,       \* Texts[p]: the texts file p may have, sequences of blocks
  Lines,       \* Lines[b]: how many lines block b has
  Undecodable, \* the texts that are no UTF-8
  MaxSize,     \* max_file_size_bytes, in lines
  Window,      \* the lines of the longest chunk (80 in the code)
  Worker,      \* the `worker` process of the index; one, as it is deployed
  Indexers,    \* `index` commands that may run beside it
  BatchSize,   \* embedding.batch_size
  MaxEdits,    \* bound: how often files change
  MaxFaults    \* bound: how many calls fail or processes die

ASSUME IndexAssumption ==
  /\ Paths \subseteq Nat /\ IsFiniteSet(Paths)
  /\ \A p \in Paths : Texts[p] \subseteq Seq(DOMAIN Lines)
  /\ \A b \in DOMAIN Lines : Lines[b] \in Nat \ {0}
  /\ Worker \notin Indexers
  /\ {MaxSize, Window} \subseteq Nat \ {0} /\ BatchSize \in Nat \ {0} /\ MaxEdits \in Nat /\ MaxFaults \in Nat

VARIABLES
  disk,     \* the repository: text and modification time of each file
  files,    \* tables files and chunks
  vectors,  \* table chunk_vectors: the chunks that have a row
  encoder,  \* is a sparse encoder persisted (sparse_terms, index_state)?
  pending,  \* table hybrid_pending_deletions
  points,   \* the points of the Qdrant collection
  proc,     \* the local state of each process
  edits, faults,  \* how much of the two bounds is used
  raced     \* history: did an index transaction meet a sync that holds rows?

tables == <<files, vectors, encoder, pending>>
vars   == <<disk, tables, points, proc, edits, faults, raced>>

Procs == {Worker} \cup Indexers

Gone == [text |-> <<>>, mtime |-> 0]
File(p) == [text : Texts[p], mtime : 1..MaxEdits + 1] \cup {Gone}
Files   == {f \in [Paths -> UNION {File(p) : p \in Paths}] : \A p \in Paths : f[p] \in File(p)}

-------------------------------------------------------------------------------
\* _split_text_block: windows of at most 80 lines.  A chunk_id hashes path,
\* symbol, lines and text, and a text is a block and a line within it.
SplitTextBlock(p, b, start) ==
  {[path |-> p, block |-> b, line |-> l, start_line |-> start + l] :
     l \in {l \in 0..Lines[b] - 1 : l % Window = 0}}

\* build_chunks: block after block, each where those before it end.
BuildChunks(p, text) ==
  LET start[i \in DOMAIN text] == IF i = 1 THEN 1 ELSE start[i - 1] + Lines[text[i - 1]]
  IN  UNION {SplitTextBlock(p, text[i], start[i]) : i \in DOMAIN text}

\* The chunks of each text, worked out once.
ChunksOf == [p \in Paths |-> [text \in Texts[p] \cup {<<>>} |-> BuildChunks(p, text)]]
Chunks   == UNION {UNION {ChunksOf[p][text] : text \in Texts[p]} : p \in Paths}

SizeOf   == [p \in Paths |-> [text \in Texts[p] |-> FoldSeq(LAMBDA b, n : n + Lines[b], 0, text)]]

\* The chunks of the last committed index.
Corpus == UNION {ChunksOf[p][files[p].text] : p \in Paths}

\* Where a pass of _sync_hybrid_index holds the rows it read.
HoldsRows == {"clear", "plan", "upsert", "record"}
PC == {"idle", "select", "commit", "stale", "rows", "delete", "ack"} \cup HoldsRows

\* seen, touched: what the walk found and which files it takes for changed or
\* removed; first, queue: the files whose points were selected before the
\* transaction, and these points; stale: stale_point_ids; todo: rows still to
\* sync; batch: upserted.
Idle == [pc |-> "idle", seen |-> [p \in Paths |-> Gone], touched |-> {},
         first |-> {}, queue |-> {}, stale |-> {}, rows |-> {}, todo |-> {}, batch |-> {}]

Become(p, loc) == proc' = [proc EXCEPT ![p] = IF loc.pc = "idle" THEN Idle ELSE loc]

\* Every file exists at first; edits remove files and bring them back.
Init ==
  /\ disk \in {d \in Files : \A p \in Paths : d[p].mtime = 1}
  /\ files = [p \in Paths |-> Gone]
  /\ vectors = {} /\ encoder = FALSE /\ pending = {} /\ points = {}
  /\ proc = [p \in Procs |-> Idle]
  /\ edits = 0 /\ faults = 0 /\ raced = FALSE

-------------------------------------------------------------------------------
\* Somebody saves a file, with a new text or the old one, or removes it.
Edit(p) ==
  /\ edits < MaxEdits
  /\ edits' = edits + 1
  /\ \/ \E t \in Texts[p] : disk' = [disk EXCEPT ![p] = [text |-> t, mtime |-> edits + 2]]
     \/ disk[p] # Gone /\ disk' = [disk EXCEPT ![p] = Gone]
  /\ UNCHANGED <<tables, points, proc, faults, raced>>

\* The files the walk yields: those that are not too large, whatever they were
\* before.  (One that a glob or the symlink policy shuts out is never there.)
IterFiles == {p \in Paths : disk[p] # Gone /\ SizeOf[p][disk[p].text] <= MaxSize}

\* What the index should hold.
Walked == [p \in Paths |-> IF p \in IterFiles THEN disk[p] ELSE Gone]

\* read_text refuses the text of a file.
Refused == {f \in IterFiles : disk[f].text \in Undecodable}

\* index_with_stats reads the stored metadata and walks the repository: a file
\* is read again when its modification time or size is not the stored one.  One
\* that cannot be decoded, or that cannot be read this time, keeps its rows.
\* (An index command that finds nothing to do is left out.)
Scan(p) ==
  LET changed == {f \in Paths : Walked[f].mtime # files[f].mtime} IN
  /\ proc[p].pc = "idle"
  /\ \E unreadable \in SUBSET (changed \cap IterFiles) :
       LET touched == changed \ (Refused \cup unreadable) IN
       /\ unreadable # {} => faults < MaxFaults
       /\ faults' = IF unreadable = {} THEN faults ELSE faults + 1
       /\ p = Worker \/ touched # {}
       /\ Become(p, [Idle EXCEPT !.pc = "select", !.touched = touched,
                                 !.seen = [f \in Paths |-> IF f \in touched THEN Walked[f] ELSE Gone]])
  /\ UNCHANGED <<disk, tables, points, edits, raced>>

\* The chunk_vectors rows of some files.
Rows(fs) == {c \in vectors : c.path \in fs}

\* _store_changed_file: the file and chunk rows after the run of p.
Stored(p) == [f \in Paths |-> IF f \in proc[p].touched THEN proc[p].seen[f] ELSE files[f]]

\* An index run whose transaction meets rows a sync has read, or the reverse.
Meets(p) == proc[p].touched # {} /\ proc[Worker].pc \in HoldsRows

\* The points to queue are selected before the statement that opens the
\* transaction: of the removed files together, else of the first changed file.
IndexSelect(p) ==
  LET removed == {f \in proc[p].touched : proc[p].seen[f] = Gone} IN
  /\ proc[p].pc = "select"
  /\ \E first \in SUBSET proc[p].touched :
       /\ IF removed # {} THEN first = removed
          ELSE Cardinality(first) = IF proc[p].touched = {} THEN 0 ELSE 1
       /\ Become(p, [proc[p] EXCEPT !.pc = "commit", !.first = first, !.queue = Rows(first)])
  /\ raced' = (raced \/ Meets(p))
  /\ UNCHANGED <<disk, tables, points, edits, faults>>

\* Mutant: the vector rows of a changed file are left for the worker to replace.
IndexCommit_KeepRows(p) ==
  LET touched == proc[p].touched
      removed == {f \in touched : proc[p].seen[f] = Gone} IN
  /\ proc[p].pc = "commit"
  /\ files' = Stored(p)
  /\ vectors' = vectors \ Rows(removed)
  /\ pending' = pending \cup Rows(removed)
  /\ raced' = (raced \/ Meets(p))
  /\ Become(p, [Idle EXCEPT !.pc = IF p = Worker THEN "stale" ELSE "idle"])
  /\ UNCHANGED <<disk, encoder, points, edits, faults>>

\* The transaction: the rows of touched files are replaced or removed, their
\* chunk_vectors rows go and the points these name are queued for deletion.
\* The points of the other files are selected inside it.
IndexCommit(p) ==
  LET touched == proc[p].touched IN
  /\ proc[p].pc = "commit"
  /\ files' = Stored(p)
  /\ vectors' = vectors \ Rows(touched)
  /\ pending' = pending \cup proc[p].queue \cup Rows(touched \ proc[p].first)
  /\ raced' = (raced \/ Meets(p))
  /\ Become(p, [Idle EXCEPT !.pc = IF p = Worker THEN "stale" ELSE "idle"])
  /\ UNCHANGED <<disk, encoder, points, edits, faults>>

-------------------------------------------------------------------------------
\* _sync_hybrid_index.  Each read of the database is a snapshot of its own.
At(l) == proc[Worker].pc = l
Step(loc) == Become(Worker, loc)

\* _load_pending_hybrid_deletions.
LoadStale ==
  /\ At("stale")
  /\ Step([proc[Worker] EXCEPT !.pc = "rows", !.stale = pending])
  /\ UNCHANGED <<disk, tables, points, edits, faults, raced>>

\* The chunks of the index as they are now.
LoadRows ==
  /\ At("rows")
  /\ Step([proc[Worker] EXCEPT !.pc = IF Corpus = {} THEN "clear" ELSE "plan", !.rows = Corpus])
  /\ raced' = (raced \/ \E p \in Indexers : proc[p].pc = "commit")
  /\ UNCHANGED <<disk, tables, points, edits, faults>>

\* What follows the upserts: the queued points, when there are any.
ThenDelete(loc) == [loc EXCEPT !.pc = IF loc.stale = {} THEN "idle" ELSE "delete"]

\* _clear_hybrid_state when no chunk is indexed; it queues nothing.
Clear ==
  /\ At("clear")
  /\ vectors' = {}
  /\ encoder' = FALSE
  /\ Step(ThenDelete(proc[Worker]))
  /\ UNCHANGED <<disk, files, pending, points, edits, faults, raced>>

\* The loop over the batches: the next one, or the deletions.
NextBatch(loc) == IF loc.todo = {} THEN ThenDelete(loc) ELSE [loc EXCEPT !.pc = "upsert"]

\* Mutant: nothing to upsert ends the pass, whatever is queued.
Plan_IgnoreQueue ==
  LET w    == proc[Worker]
      todo == w.rows \ vectors IN
  /\ At("plan")
  /\ encoder' = TRUE
  /\ Step(IF todo = {} THEN Idle ELSE NextBatch([w EXCEPT !.rows = {}, !.todo = todo]))
  /\ UNCHANGED <<disk, files, vectors, pending, points, edits, faults, raced>>

\* _persist_sparse_encoder replaces the vocabulary by that of all rows.
PersistEncoder == encoder' = TRUE

\* The rows without a vector row are to be embedded.  When there are none and
\* an encoder exists only deletions are left; otherwise the encoder of all rows
\* is persisted before the first upsert.
Plan ==
  LET w    == proc[Worker]
      todo == w.rows \ vectors IN
  /\ At("plan")
  /\ PersistEncoder
  /\ Step(NextBatch([w EXCEPT !.rows = {}, !.todo = todo]))
  /\ UNCHANGED <<disk, files, vectors, pending, points, edits, faults, raced>>

\* The rows are ordered by path and line, and _iter_batches cuts them.
Before(c, d) == c.path < d.path \/ (c.path = d.path /\ c.start_line < d.start_line)
Batch(todo) == {c \in todo : Cardinality({d \in todo : Before(d, c)}) < BatchSize}

\* Qdrant takes the batch; SQLite learns of it in the next step.
Upsert ==
  /\ At("upsert")
  /\ LET b == Batch(proc[Worker].todo) IN
       /\ points' = points \cup b
       /\ Step([proc[Worker] EXCEPT !.pc = "record", !.batch = b])
  /\ UNCHANGED <<disk, tables, edits, faults, raced>>

\* INSERT INTO chunk_vectors, committed batch by batch.
Record ==
  LET w == proc[Worker] IN
  /\ At("record")
  /\ vectors' = vectors \cup w.batch
  /\ Step(NextBatch([w EXCEPT !.todo = @ \ w.batch, !.batch = {}]))
  /\ UNCHANGED <<disk, files, encoder, pending, points, edits, faults, raced>>

\* The points loaded at the start of the pass are deleted after the upserts.
Delete ==
  /\ At("delete")
  /\ points' = points \ proc[Worker].stale
  /\ Step([proc[Worker] EXCEPT !.pc = "ack"])
  /\ UNCHANGED <<disk, tables, edits, faults, raced>>

\* Mutant: the whole queue is emptied, with what was queued meanwhile.
Ack_All ==
  /\ At("ack")
  /\ pending' = {}
  /\ Step(Idle)
  /\ UNCHANGED <<disk, files, vectors, encoder, points, edits, faults, raced>>

\* _clear_pending_hybrid_deletions acknowledges the ids that were loaded.
Ack ==
  /\ At("ack")
  /\ pending' = pending \ proc[Worker].stale
  /\ Step(Idle)
  /\ UNCHANGED <<disk, files, vectors, encoder, points, edits, faults, raced>>

-------------------------------------------------------------------------------
\* A remote call fails: the health check, an embedding, an upsert or a delete
\* whose effect may have happened all the same.  The pass ends degraded.
RemoteFails ==
  /\ faults < MaxFaults /\ faults' = faults + 1
  /\ \/ At("plan") /\ UNCHANGED points
     \/ At("upsert") /\ points' \in {points, points \cup Batch(proc[Worker].todo)}
     \/ At("delete") /\ points' \in {points, points \ proc[Worker].stale}
  /\ Step(Idle)
  /\ UNCHANGED <<disk, tables, edits, raced>>

\* The worker is killed, or stops at a locked database, and is started again.
\* (An index command that dies before its commit is one that was not given.)
Crash ==
  /\ faults < MaxFaults /\ faults' = faults + 1
  /\ ~At("idle")
  /\ Step(Idle)
  /\ UNCHANGED <<disk, tables, points, edits, raced>>

Sync == LoadStale \/ LoadRows \/ Clear \/ Plan \/ Upsert \/ Record \/ Delete \/ Ack
Work == Scan(Worker) \/ IndexSelect(Worker) \/ IndexCommit(Worker) \/ Sync

Next ==
  \/ \E p \in Paths : Edit(p)
  \/ \E p \in Procs : Scan(p) \/ IndexSelect(p) \/ IndexCommit(p)
  \/ Sync
  \/ RemoteFails \/ Crash

Spec == Init /\ [][Next]_vars

\* The worker's loop goes on while it is not killed: no call blocks for ever,
\* since the embedding and Qdrant clients carry timeouts.
FairSpec == Spec /\ WF_vars(Work)

-------------------------------------------------------------------------------
LocalState == [pc : PC, seen : Files, touched : SUBSET Paths, first : SUBSET Paths,
               queue : SUBSET Chunks, stale : SUBSET Chunks, rows : SUBSET Chunks,
               todo : SUBSET Chunks, batch : SUBSET Chunks]

\* Types, and that only the worker is ever inside a synchronisation.
TypeOK ==
  /\ disk \in Files /\ files \in Files
  /\ vectors \subseteq Chunks /\ pending \subseteq Chunks /\ points \subseteq Chunks
  /\ {encoder, raced} \subseteq BOOLEAN
  /\ proc \in [Procs -> LocalState]
  /\ \A p \in Indexers : proc[p].pc \in {"idle", "select", "commit"}
  /\ edits \in 0..MaxEdits /\ faults \in 0..MaxFaults

\* _hybrid_state_ready compares three counts; it opens hybrid retrieval.
Ready ==
  /\ Corpus # {}
  /\ Cardinality(vectors) = Cardinality(Corpus)
  /\ encoder
  /\ pending = {}

\* _load_chunk_rows_by_item_ids: what a search of Qdrant found is a hit when
\* it is recorded and indexed.
Rowed(found) == found \cap vectors \cap Corpus

\* query: the chunks a text search found and, while hybrid retrieval is open,
\* those the two vector searches found.
Query(lexical, found) == IF Ready THEN lexical \cup Rowed(found) ELSE lexical

\* The readiness test counts rows and never compares them with the chunks.
\* It is right all the same while no index command commits into a sync: then
\* every indexed chunk is recorded as embedded and no other (service.py:1608),
\* so that a query loses no indexed chunk that the vector searches found.
ReadyMeansRecorded ==
  ~raced /\ Ready =>
    /\ vectors = Corpus
    /\ \A found \in {points, points \ Corpus} : Query({}, found) = found \cap Corpus

\* A point of Qdrant the code still knows of: it is recorded, queued for
\* deletion, or upserted by a pass that has not recorded it yet.
Known == vectors \cup pending \cup proc[Worker].batch

\* No point is forgotten by index and worker, however their steps interleave:
\* only a pass that stops between an upsert and its record, a pass that empties
\* the table of an empty index, or a racing index transaction that had selected
\* its points before they were recorded, may leave one nobody will delete.
PointsStayKnown ==
  [][ \/ points' \ Known' \subseteq points \ Known
      \/ proc[Worker].pc \in {"upsert", "record"} /\ proc'[Worker].pc = "idle" /\ faults' > faults
      \/ proc[Worker].pc = "clear"
      \/ raced /\ \E p \in Indexers : proc[p].pc = "commit" /\ proc'[p].pc = "idle" ]_vars

\* After the last edit and the last fault the worker brings the index up to
\* date and hybrid retrieval opens, whatever pass was interrupted before,
\* unless an index command committed into a sync.  What the index holds of a
\* file that is no text now is what it held before.
Converges ==
  <>[](raced \/ /\ \A f \in Paths \ Refused : files[f] = Walked[f]
                /\ Corpus = {} \/ Ready)

\* When hybrid retrieval is open every indexed chunk has its point in Qdrant.
\* It does not hold: a changed file queues the points of all its chunks, and
\* those of unchanged chunks have the ids just upserted (service.py:2294).
VectorsExist == Ready => Corpus \subseteq points
===============================================================================
