--------------------------- MODULE HybridIndexProofs ---------------------------
(***************************************************************************)
(* Proofs about the vector rows, the queue and the points of HybridIndex,  *)
(* for every repository, number of `index` commands, batch and bound.      *)
(***************************************************************************)
EXTENDS HybridIndex, FiniteSetTheorems, SequenceTheorems, TLAPS

\* Only between an upsert and its record does a pass hold a batch.
BatchInv == proc[Worker].pc # "record" => proc[Worker].batch = {}

\* What is recorded, or will be by the pass that runs, is indexed.
CorpusInv ==
  ~raced =>
    /\ vectors \subseteq Corpus
    /\ proc[Worker].pc = "plan" => proc[Worker].rows \subseteq Corpus
    /\ proc[Worker].pc \in {"upsert", "record"} =>
         proc[Worker].todo \cup proc[Worker].batch \subseteq Corpus

\* The points that were selected before a transaction are still those of the
\* files they were selected for.
QueueInv ==
  \A p \in Procs : proc[p].pc = "commit" /\ (p = Worker \/ ~raced) =>
    Rows(proc[p].first) \subseteq proc[p].queue

\* While an index command waits for its transaction no sync holds rows.
MeetInv ==
  \A p \in Indexers : proc[p].pc = "commit" /\ proc[p].first # {} /\ ~raced =>
    proc[Worker].pc \notin HoldsRows

\* What is acknowledged has been deleted.
AckInv == proc[Worker].pc = "ack" => points \cap proc[Worker].stale = {}

IndexInv == TypeOK /\ BatchInv /\ CorpusInv /\ QueueInv /\ MeetInv /\ AckInv

-------------------------------------------------------------------------------
(* The chunks of a text.                                                    *)

LEMMA FiniteImage ==
  ASSUME NEW S, IsFiniteSet(S), NEW g
  PROVE  IsFiniteSet({g[x] : x \in S})
<1> DEFINE T == {g[x] : x \in S}
           h == [x \in S |-> g[x]]
<1>1. h \in Surjection(S, T)
  BY DEF Surjection
<1>2. QED
  BY <1>1, FS_Surjection

LEMMA BlockChunks ==
  ASSUME NEW p, NEW b \in DOMAIN Lines, NEW start
  PROVE  IsFiniteSet(SplitTextBlock(p, b, start)) /\ \A c \in SplitTextBlock(p, b, start) : c.path = p
<1> DEFINE S == {l \in 0..Lines[b] - 1 : l % Window = 0}
           g == [l \in S |-> [path |-> p, block |-> b, line |-> l, start_line |-> start + l]]
<1>1. IsFiniteSet(S)
  <2>1. Lines[b] \in Nat
    BY IndexAssumption
  <2>2. IsFiniteSet(0..Lines[b] - 1)
    BY <2>1, FS_Interval
  <2>3. QED
    BY <2>2, FS_Subset
<1>2. SplitTextBlock(p, b, start) = {g[l] : l \in S}
  BY DEF SplitTextBlock
<1> HIDE DEF S
<1>3. IsFiniteSet({g[l] : l \in S})
  BY <1>1, FiniteImage
<1>4. QED
  BY <1>2, <1>3

\* The chunks of a text are finitely many and carry the path of their file.
LEMMA TextChunks ==
  ASSUME NEW p \in Paths, NEW text \in Texts[p] \cup {<<>>}
  PROVE  /\ IsFiniteSet(ChunksOf[p][text])
         /\ \A c \in ChunksOf[p][text] : c.path = p
         /\ ChunksOf[p][text] \subseteq Chunks
<1>1. text \in Seq(DOMAIN Lines)
  BY IndexAssumption, EmptySeq
<1>2. PICK start : BuildChunks(p, text) = UNION {SplitTextBlock(p, text[i], start[i]) : i \in DOMAIN text}
  BY DEF BuildChunks
<1>3. \A i \in DOMAIN text : text[i] \in DOMAIN Lines
  BY <1>1, LenProperties, ElementOfSeq
<1>4. ChunksOf[p][text] = BuildChunks(p, text)
  BY DEF ChunksOf
<1>5. \A i \in DOMAIN text :
        /\ IsFiniteSet(SplitTextBlock(p, text[i], start[i]))
        /\ \A c \in SplitTextBlock(p, text[i], start[i]) : c.path = p
  BY <1>3, BlockChunks
<1>6. IsFiniteSet(BuildChunks(p, text))
  <2> DEFINE g == [i \in DOMAIN text |-> SplitTextBlock(p, text[i], start[i])]
             parts == {g[i] : i \in DOMAIN text}
  <2>1. IsFiniteSet(DOMAIN text)
    BY <1>1, LenProperties, FS_Interval
  <2>2. IsFiniteSet(parts)
    BY <2>1, FiniteImage
  <2>3. \A T \in parts : IsFiniteSet(T)
    BY <1>5
  <2>4. UNION parts = BuildChunks(p, text)
    BY <1>2
  <2> HIDE DEF parts
  <2>5. QED
    BY <2>2, <2>3, <2>4, FS_UNION
<1>7. \A c \in ChunksOf[p][text] : c.path = p
  BY <1>2, <1>4, <1>5
<1>8. ChunksOf[p][text] \subseteq Chunks
  <2>1. CASE text \in Texts[p]
    BY <2>1 DEF Chunks
  <2>2. CASE text = <<>>
    <3>1. DOMAIN text = {}
      BY <2>2
    <3>2. QED
      BY <1>2, <1>4, <3>1
  <2>3. QED
    BY <2>1, <2>2
<1>9. QED
  BY <1>4, <1>6, <1>7, <1>8

LEMMA FileText ==
  ASSUME NEW fs \in Files, NEW p \in Paths
  PROVE  fs[p].text \in Texts[p] \cup {<<>>}
BY DEF Files, File, Gone

\* The chunks of an index, file by file.
LEMMA CorpusChunks ==
  ASSUME files \in Files
  PROVE  /\ IsFiniteSet(Corpus) /\ Corpus \subseteq Chunks
         /\ \A c : c \in Corpus <=> (c.path \in Paths /\ c \in ChunksOf[c.path][files[c.path].text])
<1>1. \A p \in Paths :
        /\ IsFiniteSet(ChunksOf[p][files[p].text])
        /\ \A c \in ChunksOf[p][files[p].text] : c.path = p
        /\ ChunksOf[p][files[p].text] \subseteq Chunks
  BY FileText, TextChunks
<1>2. IsFiniteSet(Corpus)
  <2> DEFINE g == [p \in Paths |-> ChunksOf[p][files[p].text]]
             parts == {g[p] : p \in Paths}
  <2>1. IsFiniteSet(parts)
    BY IndexAssumption, FiniteImage
  <2>2. \A T \in parts : IsFiniteSet(T)
    BY <1>1
  <2>3. UNION parts = Corpus
    BY DEF Corpus
  <2> HIDE DEF parts
  <2>4. QED
    BY <2>1, <2>2, <2>3, FS_UNION
<1>3. \A c : c \in Corpus <=> (c.path \in Paths /\ c \in ChunksOf[c.path][files[c.path].text])
  BY <1>1 DEF Corpus
<1>4. Corpus \subseteq Chunks
  BY <1>1 DEF Corpus
<1>5. QED
  BY <1>2, <1>3, <1>4

-------------------------------------------------------------------------------
(* Types.                                                                   *)

LEMMA FilesMade ==
  ASSUME NEW fs, fs = [p \in Paths |-> fs[p]], \A p \in Paths : fs[p] \in File(p)
  PROVE  fs \in Files
<1>1. \A p \in Paths : fs[p] \in UNION {File(q) : q \in Paths}
  OBVIOUS
<1>2. fs \in [Paths -> UNION {File(q) : q \in Paths}]
  BY <1>1
<1>3. QED
  BY <1>2 DEF Files

LEMMA FilesHave ==
  ASSUME NEW fs \in Files
  PROVE  fs = [p \in Paths |-> fs[p]] /\ \A p \in Paths : fs[p] \in File(p)
BY DEF Files

LEMMA IdleTyped == Idle \in LocalState /\ Idle.pc = "idle" /\ Idle.batch = {} /\ Idle.stale = {}
<1>1. [p \in Paths |-> Gone] \in Files
  <2> DEFINE fs == [p \in Paths |-> Gone]
  <2>1. fs = [p \in Paths |-> fs[p]] /\ \A p \in Paths : fs[p] \in File(p)
    BY DEF File
  <2> HIDE DEF fs
  <2>2. fs \in Files
    BY <2>1, FilesMade
  <2>3. QED
    BY <2>2 DEF fs
<1>2. QED
  BY <1>1 DEF Idle, LocalState, PC

LEMMA Becomes ==
  ASSUME proc \in [Procs -> LocalState], NEW p \in Procs, NEW loc \in LocalState, Become(p, loc)
  PROVE  /\ proc' \in [Procs -> LocalState]
         /\ proc'[p] = IF loc.pc = "idle" THEN Idle ELSE loc
         /\ \A q \in Procs : q # p => proc'[q] = proc[q]
BY IdleTyped DEF Become

LEMMA ThenDeletes ==
  ASSUME NEW loc \in LocalState
  PROVE  /\ ThenDelete(loc) \in LocalState
         /\ ThenDelete(loc).pc = IF loc.stale = {} THEN "idle" ELSE "delete"
         /\ ThenDelete(loc).batch = loc.batch
BY DEF ThenDelete, LocalState, PC, HoldsRows

LEMMA Batches ==
  ASSUME NEW loc \in LocalState
  PROVE  /\ NextBatch(loc) \in LocalState
         /\ NextBatch(loc).pc \in {"idle", "delete", "upsert"}
         /\ NextBatch(loc).batch = loc.batch /\ NextBatch(loc).todo = loc.todo
         /\ NextBatch(loc).rows = loc.rows
BY DEF NextBatch, ThenDelete, LocalState, PC, HoldsRows

LEMMA WalkedTyped ==
  ASSUME disk \in Files
  PROVE  Walked \in Files
<1>1. \A p \in Paths : Walked[p] \in File(p)
  BY FilesHave DEF Walked, File
<1>2. Walked = [p \in Paths |-> Walked[p]]
  BY DEF Walked
<1>3. QED
  BY <1>1, <1>2, FilesMade

\* The local states that the steps of the worker make.
LEMMA WorkerLocal ==
  ASSUME TypeOK
  PROVE  /\ Worker \in Procs /\ proc[Worker] \in LocalState /\ Corpus \subseteq Chunks
         /\ \A p \in Indexers : p \in Procs /\ p # Worker
BY CorpusChunks, IndexAssumption DEF TypeOK, Procs

LEMMA ScanMakes ==
  ASSUME TypeOK, NEW p \in Procs, Scan(p)
  PROVE  /\ proc' \in [Procs -> LocalState] /\ proc[p].pc = "idle" /\ proc'[p].pc = "select"
         /\ proc'[p].batch = {} /\ \A q \in Procs : q # p => proc'[q] = proc[q]
         /\ faults' \in 0..MaxFaults /\ UNCHANGED <<disk, tables, points, edits, raced>>
<1> DEFINE changed == {f \in Paths : Walked[f].mtime # files[f].mtime}
<1>0. PICK unreadable \in SUBSET (changed \cap IterFiles) :
        /\ unreadable # {} => faults < MaxFaults
        /\ faults' = IF unreadable = {} THEN faults ELSE faults + 1
        /\ LET touched == changed \ (Refused \cup unreadable)
           IN  Become(p, [Idle EXCEPT !.pc = "select", !.touched = touched,
                                      !.seen = [f \in Paths |-> IF f \in touched THEN Walked[f] ELSE Gone]])
  BY DEF Scan
<1> DEFINE touched == changed \ (Refused \cup unreadable)
           seen == [f \in Paths |-> IF f \in touched THEN Walked[f] ELSE Gone]
           loc == [Idle EXCEPT !.pc = "select", !.touched = touched, !.seen = seen]
<1>1. Walked \in Files
  BY WalkedTyped DEF TypeOK
<1>2. seen \in Files
  <2>1. \A f \in Paths : seen[f] \in File(f)
    BY <1>1, FilesHave DEF File
  <2>2. seen = [f \in Paths |-> seen[f]]
    OBVIOUS
  <2> HIDE DEF seen
  <2>3. QED
    BY <2>1, <2>2, FilesMade
<1>3. touched \subseteq Paths
  OBVIOUS
<1>4. Become(p, loc) /\ proc[p].pc = "idle" /\ UNCHANGED <<disk, tables, points, edits, raced>>
  BY <1>0 DEF Scan
<1>5. faults' \in 0..MaxFaults
  BY <1>0, IndexAssumption DEF TypeOK
<1> HIDE DEF touched, seen
<1>6. loc \in LocalState /\ loc.pc = "select" /\ loc.batch = {}
  BY <1>2, <1>3, IdleTyped DEF LocalState, PC
<1> HIDE DEF loc
<1>7. QED
  BY <1>4, <1>5, <1>6, Becomes DEF TypeOK

LEMMA SelectMakes ==
  ASSUME TypeOK, NEW p \in Procs, IndexSelect(p)
  PROVE  /\ proc' \in [Procs -> LocalState] /\ proc[p].pc = "select" /\ proc'[p].pc = "commit"
         /\ proc'[p].batch = proc[p].batch /\ proc'[p].queue = Rows(proc'[p].first)
         /\ proc'[p].first \subseteq proc[p].touched
         /\ \A q \in Procs : q # p => proc'[q] = proc[q]
         /\ raced' = (raced \/ Meets(p))
         /\ UNCHANGED <<disk, tables, points, edits, faults>>
<1>1. PICK first \in SUBSET proc[p].touched :
        Become(p, [proc[p] EXCEPT !.pc = "commit", !.first = first, !.queue = Rows(first)])
  BY DEF IndexSelect
<1> DEFINE loc == [proc[p] EXCEPT !.pc = "commit", !.first = first, !.queue = Rows(first)]
<1>2. proc[p] \in LocalState /\ Rows(first) \subseteq Chunks
  BY DEF TypeOK, Rows
<1>3. /\ loc \in LocalState /\ loc.pc = "commit" /\ loc.batch = proc[p].batch
      /\ loc.first = first /\ loc.queue = Rows(first)
  BY <1>2 DEF LocalState, PC
<1> HIDE DEF loc
<1>4. Become(p, loc)
  BY <1>1 DEF loc
<1>5. proc' \in [Procs -> LocalState] /\ proc'[p] = loc /\ \A q \in Procs : q # p => proc'[q] = proc[q]
  BY <1>3, <1>4, Becomes DEF TypeOK
<1>6. /\ proc[p].pc = "select" /\ raced' = (raced \/ Meets(p))
      /\ UNCHANGED <<disk, tables, points, edits, faults>>
  BY DEF IndexSelect
<1>7. QED
  BY <1>3, <1>5, <1>6

LEMMA CommitMakes ==
  ASSUME TypeOK, NEW p \in Procs, IndexCommit(p)
  PROVE  /\ proc' \in [Procs -> LocalState] /\ proc[p].pc = "commit"
         /\ proc'[p].pc = (IF p = Worker THEN "stale" ELSE "idle")
         /\ proc'[p].batch = {} /\ \A q \in Procs : q # p => proc'[q] = proc[q]
         /\ files' \in Files
<1> DEFINE loc == [Idle EXCEPT !.pc = IF p = Worker THEN "stale" ELSE "idle"]
<1>1. Become(p, loc) /\ proc[p].pc = "commit" /\ files' = Stored(p)
  BY DEF IndexCommit
<1>2. /\ loc \in LocalState /\ loc.pc = (IF p = Worker THEN "stale" ELSE "idle")
      /\ loc.batch = {}
  BY IdleTyped DEF LocalState, PC
<1> HIDE DEF loc
<1>3. Stored(p) \in Files
  <2>1. proc[p].seen \in Files /\ files \in Files
    BY DEF TypeOK, LocalState
  <2>2. /\ Stored(p) = [f \in Paths |-> Stored(p)[f]]
        /\ \A f \in Paths : Stored(p)[f] \in File(f)
    BY <2>1, FilesHave DEF Stored
  <2>3. QED
    BY <2>2, FilesMade
<1>4. /\ proc' \in [Procs -> LocalState]
      /\ proc'[p] = IF loc.pc = "idle" THEN Idle ELSE loc
      /\ \A q \in Procs : q # p => proc'[q] = proc[q]
  BY <1>1, <1>2, Becomes DEF TypeOK
<1>5. QED
  BY <1>1, <1>2, <1>3, <1>4, IdleTyped

\* What a step of the worker's synchronisation leaves in its local state.
LEMMA Steps ==
  ASSUME TypeOK, NEW loc \in LocalState, Step(loc)
  PROVE  /\ proc' \in [Procs -> LocalState]
         /\ proc'[Worker] = IF loc.pc = "idle" THEN Idle ELSE loc
         /\ \A q \in Indexers : proc'[q] = proc[q]
BY WorkerLocal, Becomes DEF TypeOK, Step

LEMMA LoadStaleMakes ==
  ASSUME TypeOK, LoadStale
  PROVE  /\ proc' \in [Procs -> LocalState] /\ proc[Worker].pc = "stale" /\ proc'[Worker].pc = "rows"
         /\ proc'[Worker].batch = proc[Worker].batch /\ \A q \in Indexers : proc'[q] = proc[q]
         /\ UNCHANGED <<disk, tables, points, edits, faults, raced>>
<1> DEFINE loc == [proc[Worker] EXCEPT !.pc = "rows", !.stale = pending]
<1>1. loc \in LocalState /\ loc.pc = "rows" /\ loc.batch = proc[Worker].batch
  BY WorkerLocal DEF TypeOK, LocalState, PC
<1>2. Step(loc) /\ proc[Worker].pc = "stale" /\ UNCHANGED <<disk, tables, points, edits, faults, raced>>
  BY DEF LoadStale, At
<1> HIDE DEF loc
<1>3. QED
  BY <1>1, <1>2, Steps

LEMMA LoadRowsMakes ==
  ASSUME TypeOK, LoadRows
  PROVE  /\ proc' \in [Procs -> LocalState] /\ proc[Worker].pc = "rows" /\ proc'[Worker].pc \in {"clear", "plan"}
         /\ proc'[Worker].batch = proc[Worker].batch /\ proc'[Worker].todo = proc[Worker].todo
         /\ proc'[Worker].rows = Corpus /\ \A q \in Indexers : proc'[q] = proc[q]
         /\ raced' = (raced \/ \E p \in Indexers : proc[p].pc = "commit")
         /\ UNCHANGED <<disk, tables, points, edits, faults>>
<1> DEFINE loc == [proc[Worker] EXCEPT !.pc = IF Corpus = {} THEN "clear" ELSE "plan", !.rows = Corpus]
<1>1. /\ loc \in LocalState /\ loc.pc \in {"clear", "plan"} /\ loc.batch = proc[Worker].batch
      /\ loc.todo = proc[Worker].todo /\ loc.rows = Corpus
  BY WorkerLocal DEF LocalState, PC, HoldsRows
<1>2. /\ Step(loc) /\ proc[Worker].pc = "rows" /\ UNCHANGED <<disk, tables, points, edits, faults>>
      /\ raced' = (raced \/ \E p \in Indexers : proc[p].pc = "commit")
  BY DEF LoadRows, At
<1> HIDE DEF loc
<1>3. QED
  BY <1>1, <1>2, Steps

LEMMA ClearMakes ==
  ASSUME TypeOK, Clear
  PROVE  /\ proc' \in [Procs -> LocalState] /\ proc[Worker].pc = "clear" /\ proc'[Worker].pc \in {"idle", "delete"}
         /\ (proc[Worker].batch = {} => proc'[Worker].batch = {}) /\ \A q \in Indexers : proc'[q] = proc[q]
         /\ vectors' = {} /\ encoder' = FALSE
         /\ UNCHANGED <<disk, files, pending, points, edits, faults, raced>>
<1> DEFINE loc == ThenDelete(proc[Worker])
<1>1. loc \in LocalState /\ loc.pc \in {"idle", "delete"} /\ loc.batch = proc[Worker].batch
  BY WorkerLocal, ThenDeletes
<1>2. /\ Step(loc) /\ proc[Worker].pc = "clear" /\ vectors' = {} /\ encoder' = FALSE
      /\ UNCHANGED <<disk, files, pending, points, edits, faults, raced>>
  BY DEF Clear, At
<1> HIDE DEF loc
<1>3. QED
  BY <1>1, <1>2, Steps, IdleTyped

LEMMA PlanMakes ==
  ASSUME TypeOK, Plan
  PROVE  /\ proc' \in [Procs -> LocalState] /\ proc[Worker].pc = "plan"
         /\ proc'[Worker].pc \in {"idle", "delete", "upsert"}
         /\ (proc[Worker].batch = {} => proc'[Worker].batch = {}) /\ \A q \in Indexers : proc'[q] = proc[q]
         /\ (proc'[Worker].pc = "upsert" =>
               /\ proc'[Worker].todo \subseteq proc[Worker].rows
               /\ proc'[Worker].rows = {} /\ proc'[Worker].batch = proc[Worker].batch)
         /\ encoder' = TRUE
         /\ UNCHANGED <<disk, files, vectors, pending, points, edits, faults, raced>>
<1> DEFINE todo == proc[Worker].rows \ vectors
           mid == [proc[Worker] EXCEPT !.rows = {}, !.todo = todo]
           loc == NextBatch(mid)
<1>1. mid \in LocalState /\ mid.batch = proc[Worker].batch /\ mid.todo = todo /\ mid.rows = {}
  BY WorkerLocal DEF LocalState
<1>2. /\ Step(loc) /\ proc[Worker].pc = "plan" /\ encoder' = TRUE
      /\ UNCHANGED <<disk, files, vectors, pending, points, edits, faults, raced>>
  BY DEF Plan, At, PersistEncoder
<1>3. todo \subseteq proc[Worker].rows
  OBVIOUS
<1> HIDE DEF mid, todo
<1>4. /\ loc \in LocalState /\ loc.pc \in {"idle", "delete", "upsert"} /\ loc.batch = proc[Worker].batch
      /\ loc.todo = todo /\ loc.rows = {}
  BY <1>1, Batches
<1> HIDE DEF loc
<1>5. QED
  BY <1>2, <1>3, <1>4, Steps, IdleTyped

LEMMA UpsertMakes ==
  ASSUME TypeOK, Upsert
  PROVE  /\ proc' \in [Procs -> LocalState] /\ proc[Worker].pc = "upsert" /\ proc'[Worker].pc = "record"
         /\ proc'[Worker].batch \subseteq proc[Worker].todo /\ proc'[Worker].todo = proc[Worker].todo
         /\ proc'[Worker].rows = proc[Worker].rows /\ \A q \in Indexers : proc'[q] = proc[q]
         /\ points' = points \cup proc'[Worker].batch
         /\ UNCHANGED <<disk, tables, edits, faults, raced>>
<1> DEFINE b == Batch(proc[Worker].todo)
           loc == [proc[Worker] EXCEPT !.pc = "record", !.batch = b]
<1>1. b \subseteq proc[Worker].todo
  BY DEF Batch
<1>2. /\ Step(loc) /\ proc[Worker].pc = "upsert" /\ points' = points \cup b
      /\ UNCHANGED <<disk, tables, edits, faults, raced>>
  BY DEF Upsert, At
<1> HIDE DEF b
<1>3. /\ loc \in LocalState /\ loc.pc = "record" /\ loc.batch = b
      /\ loc.todo = proc[Worker].todo /\ loc.rows = proc[Worker].rows
  BY <1>1, WorkerLocal DEF LocalState, PC, HoldsRows
<1> HIDE DEF loc
<1>4. QED
  BY <1>1, <1>2, <1>3, Steps

LEMMA RecordMakes ==
  ASSUME TypeOK, Record
  PROVE  /\ proc' \in [Procs -> LocalState] /\ proc[Worker].pc = "record"
         /\ proc'[Worker].pc \in {"idle", "delete", "upsert"} /\ proc'[Worker].batch = {}
         /\ \A q \in Indexers : proc'[q] = proc[q]
         /\ (proc'[Worker].pc = "upsert" =>
               /\ proc'[Worker].todo \subseteq proc[Worker].todo
               /\ proc'[Worker].rows = proc[Worker].rows)
         /\ vectors' = vectors \cup proc[Worker].batch
         /\ UNCHANGED <<disk, files, encoder, pending, points, edits, faults, raced>>
<1> DEFINE todo == proc[Worker].todo \ proc[Worker].batch
           mid == [proc[Worker] EXCEPT !.todo = todo, !.batch = {}]
           loc == NextBatch(mid)
<1>1. mid \in LocalState /\ mid.batch = {} /\ mid.todo = todo /\ mid.rows = proc[Worker].rows
  BY WorkerLocal DEF LocalState
<1>2. /\ Step(loc) /\ proc[Worker].pc = "record" /\ vectors' = vectors \cup proc[Worker].batch
      /\ UNCHANGED <<disk, files, encoder, pending, points, edits, faults, raced>>
  BY DEF Record, At
<1>3. todo \subseteq proc[Worker].todo
  OBVIOUS
<1> HIDE DEF mid, todo
<1>4. /\ loc \in LocalState /\ loc.pc \in {"idle", "delete", "upsert"} /\ loc.batch = {}
      /\ loc.todo = todo /\ loc.rows = proc[Worker].rows
  BY <1>1, Batches
<1> HIDE DEF loc
<1>5. QED
  BY <1>2, <1>3, <1>4, Steps, IdleTyped

LEMMA DeleteMakes ==
  ASSUME TypeOK, Delete
  PROVE  /\ proc' \in [Procs -> LocalState] /\ proc[Worker].pc = "delete" /\ proc'[Worker].pc = "ack"
         /\ proc'[Worker].batch = proc[Worker].batch /\ proc'[Worker].stale = proc[Worker].stale
         /\ \A q \in Indexers : proc'[q] = proc[q]
         /\ points' = points \ proc[Worker].stale
         /\ UNCHANGED <<disk, tables, edits, faults, raced>>
<1> DEFINE loc == [proc[Worker] EXCEPT !.pc = "ack"]
<1>1. /\ loc \in LocalState /\ loc.pc = "ack" /\ loc.batch = proc[Worker].batch
      /\ loc.stale = proc[Worker].stale
  BY WorkerLocal DEF LocalState, PC
<1>2. /\ Step(loc) /\ proc[Worker].pc = "delete" /\ points' = points \ proc[Worker].stale
      /\ UNCHANGED <<disk, tables, edits, faults, raced>>
  BY DEF Delete, At
<1> HIDE DEF loc
<1>3. QED
  BY <1>1, <1>2, Steps

\* The steps after which the worker is idle.
LEMMA StopMakes ==
  ASSUME TypeOK, Ack \/ RemoteFails \/ Crash
  PROVE  /\ proc' \in [Procs -> LocalState] /\ proc'[Worker].pc = "idle" /\ proc'[Worker].batch = {}
         /\ \A q \in Indexers : proc'[q] = proc[q]
<1>1. Step(Idle)
  BY DEF Ack, RemoteFails, Crash
<1>2. QED
  BY <1>1, IdleTyped, Steps

\* The parts of TypeOK.
LEMMA TypeParts ==
  ASSUME disk \in Files, files \in Files, vectors \subseteq Chunks, pending \subseteq Chunks,
         points \subseteq Chunks, encoder \in BOOLEAN, raced \in BOOLEAN,
         proc \in [Procs -> LocalState],
         \A p \in Indexers : proc[p].pc \in {"idle", "select", "commit"},
         edits \in 0..MaxEdits, faults \in 0..MaxFaults
  PROVE  TypeOK
BY DEF TypeOK

LEMMA EditTyped ==
  ASSUME TypeOK, NEW p \in Paths, Edit(p)
  PROVE  disk' \in Files /\ edits' \in 0..MaxEdits
         /\ UNCHANGED <<tables, points, proc, faults, raced>>
<1>1. UNCHANGED <<tables, points, proc, faults, raced>> /\ edits < MaxEdits /\ edits' = edits + 1
  BY DEF Edit
<1>2. MaxEdits \in Nat /\ edits \in 0..MaxEdits
  BY IndexAssumption DEF TypeOK
<1>3. PICK f \in File(p) : disk' = [disk EXCEPT ![p] = f]
  <2>1. CASE \E t \in Texts[p] : disk' = [disk EXCEPT ![p] = [text |-> t, mtime |-> edits + 2]]
    <3>1. PICK t \in Texts[p] : disk' = [disk EXCEPT ![p] = [text |-> t, mtime |-> edits + 2]]
      BY <2>1
    <3>2. [text |-> t, mtime |-> edits + 2] \in File(p)
      BY <1>1, <1>2 DEF File
    <3>3. QED
      BY <3>1, <3>2
  <2>2. CASE disk' = [disk EXCEPT ![p] = Gone]
    BY <2>2 DEF File
  <2>3. QED
    BY <2>1, <2>2 DEF Edit
<1>4. disk = [q \in Paths |-> disk[q]] /\ \A q \in Paths : disk[q] \in File(q)
  BY FilesHave DEF TypeOK
<1>5. disk' = [q \in Paths |-> disk'[q]] /\ \A q \in Paths : disk'[q] \in File(q)
  BY <1>3, <1>4
<1>6. disk' \in Files
  BY <1>5, FilesMade
<1>7. QED
  BY <1>1, <1>2, <1>6

LEMMA TypeStep ==
  ASSUME TypeOK, [Next]_vars
  PROVE  TypeOK'
<1>0. /\ disk \in Files /\ files \in Files /\ vectors \subseteq Chunks /\ pending \subseteq Chunks
      /\ points \subseteq Chunks /\ encoder \in BOOLEAN /\ raced \in BOOLEAN
      /\ proc \in [Procs -> LocalState]
      /\ \A p \in Indexers : proc[p].pc \in {"idle", "select", "commit"}
      /\ edits \in 0..MaxEdits /\ faults \in 0..MaxFaults
  BY DEF TypeOK
<1>1. Worker \in Procs /\ proc[Worker] \in LocalState /\ Corpus \subseteq Chunks
      /\ \A p \in Indexers : p \in Procs /\ p # Worker
  BY WorkerLocal
<1>2. proc[Worker].batch \subseteq Chunks /\ proc[Worker].todo \subseteq Chunks
      /\ \A p \in Procs : proc[p].queue \subseteq Chunks
  BY <1>0, <1>1 DEF LocalState
<1>3. CASE \E p \in Paths : Edit(p)
  <2>1. PICK p \in Paths : Edit(p)
    BY <1>3
  <2>2. QED
    BY <1>0, <2>1, EditTyped DEF TypeOK, tables
<1>4. CASE \E p \in Procs : Scan(p)
  <2>1. PICK p \in Procs : Scan(p)
    BY <1>4
  <2>2. /\ proc' \in [Procs -> LocalState] /\ proc'[p].pc = "select"
        /\ \A q \in Procs : q # p => proc'[q] = proc[q]
        /\ faults' \in 0..MaxFaults
        /\ UNCHANGED <<disk, files, vectors, encoder, pending, points, edits, raced>>
    BY <2>1, ScanMakes DEF tables
  <2>3. \A q \in Indexers : proc'[q].pc \in {"idle", "select", "commit"}
    BY <1>0, <1>1, <2>2
  <2>4. QED
    BY <1>0, <2>2, <2>3 DEF TypeOK
<1>5. CASE \E p \in Procs : IndexSelect(p)
  <2>1. PICK p \in Procs : IndexSelect(p)
    BY <1>5
  <2>2. /\ proc' \in [Procs -> LocalState] /\ proc'[p].pc = "commit"
        /\ \A q \in Procs : q # p => proc'[q] = proc[q]
        /\ raced' = (raced \/ Meets(p))
        /\ UNCHANGED <<disk, files, vectors, encoder, pending, points, edits, faults>>
    BY <2>1, SelectMakes DEF tables
  <2>3. \A q \in Indexers : proc'[q].pc \in {"idle", "select", "commit"}
    BY <1>0, <1>1, <2>2
  <2>4. raced' \in BOOLEAN
    BY <2>2
  <2>5. QED
    BY <1>0, <2>2, <2>3, <2>4 DEF TypeOK
<1>6. CASE \E p \in Procs : IndexCommit(p)
  <2>1. PICK p \in Procs : IndexCommit(p)
    BY <1>6
  <2>2. /\ proc' \in [Procs -> LocalState] /\ files' \in Files
        /\ proc'[p].pc = (IF p = Worker THEN "stale" ELSE "idle")
        /\ \A q \in Procs : q # p => proc'[q] = proc[q]
    BY <2>1, CommitMakes
  <2>3. \A q \in Indexers : proc'[q].pc \in {"idle", "select", "commit"}
    BY <1>0, <1>1, <2>2
  <2>4. raced' \in BOOLEAN /\ vectors' \subseteq Chunks /\ pending' \subseteq Chunks
        /\ UNCHANGED <<disk, encoder, points, edits, faults>>
    BY <1>0, <1>2, <2>1 DEF IndexCommit, Rows
  <2>5. QED
    BY <1>0, <2>2, <2>3, <2>4 DEF TypeOK
<1>7. CASE LoadStale
  BY <1>0, <1>7, LoadStaleMakes DEF TypeOK, tables
<1>8. CASE LoadRows
  <2>1. raced' \in BOOLEAN
    BY <1>8, LoadRowsMakes
  <2>2. QED
    BY <1>0, <1>8, <2>1, LoadRowsMakes DEF TypeOK, tables
<1>9. CASE Clear
  BY <1>0, <1>9, ClearMakes DEF TypeOK
<1>10. CASE Plan
  BY <1>0, <1>10, PlanMakes DEF TypeOK
<1>11. CASE Upsert
  <2>1. points' \subseteq Chunks
    BY <1>0, <1>2, <1>11, UpsertMakes
  <2>2. QED
    BY <1>0, <1>11, <2>1, UpsertMakes DEF TypeOK, tables
<1>12. CASE Record
  <2>1. vectors' \subseteq Chunks
    BY <1>0, <1>2, <1>12, RecordMakes
  <2>2. QED
    BY <1>0, <1>12, <2>1, RecordMakes DEF TypeOK
<1>13. CASE Delete
  BY <1>0, <1>13, DeleteMakes DEF TypeOK, tables
<1>14. CASE Ack
  <2>1. pending' \subseteq Chunks /\ UNCHANGED <<disk, files, vectors, encoder, points, edits, faults, raced>>
    BY <1>0, <1>14 DEF Ack
  <2>2. QED
    BY <1>0, <1>14, <2>1, StopMakes DEF TypeOK
<1>15. CASE RemoteFails
  <2>1. faults' \in 0..MaxFaults /\ UNCHANGED <<disk, files, vectors, encoder, pending, edits, raced>>
    BY <1>0, <1>15, IndexAssumption DEF RemoteFails, tables
  <2>2. Batch(proc[Worker].todo) \subseteq Chunks
    BY <1>2 DEF Batch
  <2>3. points' \subseteq points \cup Batch(proc[Worker].todo)
    BY <1>15 DEF RemoteFails
  <2>4. points' \subseteq Chunks
    BY <1>0, <2>2, <2>3
  <2>5. QED
    BY <1>0, <1>15, <2>1, <2>4, StopMakes DEF TypeOK
<1>16. CASE Crash
  <2>1. /\ faults' \in 0..MaxFaults
        /\ UNCHANGED <<disk, files, vectors, encoder, pending, points, edits, raced>>
    BY <1>0, <1>16, IndexAssumption DEF Crash, tables
  <2>2. QED
    BY <1>0, <1>16, <2>1, StopMakes DEF TypeOK
<1>17. CASE UNCHANGED vars
  BY <1>17 DEF vars, tables, TypeOK
<1>18. QED
  BY <1>3, <1>4, <1>5, <1>6, <1>7, <1>8, <1>9, <1>10, <1>11, <1>12, <1>13, <1>14, <1>15, <1>16, <1>17 DEF Next, Sync

LEMMA InitTyped == Init => TypeOK
<1>1. SUFFICES ASSUME Init
               PROVE  TypeOK
  OBVIOUS
<1>2. Idle \in LocalState /\ Idle.pc = "idle"
  BY IdleTyped
<1>3. [p \in Paths |-> Gone] \in Files
  BY IdleTyped DEF LocalState, Idle
<1>4. /\ disk \in {d \in Files : \A p \in Paths : d[p].mtime = 1}
      /\ files = [p \in Paths |-> Gone] /\ proc = [p \in Procs |-> Idle]
      /\ vectors = {} /\ pending = {} /\ points = {} /\ encoder = FALSE /\ raced = FALSE
      /\ edits = 0 /\ faults = 0
  BY <1>1 DEF Init
<1>5. disk \in Files
  BY <1>4
<1>6. 0 \in 0..MaxEdits /\ 0 \in 0..MaxFaults
  BY IndexAssumption
<1>7. Indexers \subseteq Procs
  BY DEF Procs
<1>8. proc \in [Procs -> LocalState] /\ \A p \in Indexers : proc[p].pc = "idle"
  BY <1>2, <1>4, <1>7
<1>9. QED
  BY <1>3, <1>4, <1>5, <1>6, <1>8, TypeParts

\* Every step keeps the types, and only the worker ever synchronises.
THEOREM TypesHold == Spec => []TypeOK
<1>1. TypeOK /\ [Next]_vars => TypeOK'
  BY TypeStep
<1>2. QED
  BY <1>1, InitTyped, PTL DEF Spec

-------------------------------------------------------------------------------
(* The index, its vector rows and the queue.                                *)

\* A transaction of an index run leaves no vector row of a chunk that is gone.
LEMMA CommitKeepsRows ==
  ASSUME TypeOK, NEW p \in Procs, IndexCommit(p), vectors \subseteq Corpus
  PROVE  vectors' \subseteq Corpus'
<1>1. files \in Files /\ files' \in Files /\ vectors \subseteq Chunks
  BY CommitMakes DEF TypeOK
<1>2. /\ \A c : c \in Corpus <=> (c.path \in Paths /\ c \in ChunksOf[c.path][files[c.path].text])
  BY <1>1, CorpusChunks
<1>3. \A q \in Paths : \A c \in ChunksOf[q][files'[q].text] : c \in Corpus'
  BY DEF Corpus
<1>4. vectors' = vectors \ Rows(proc[p].touched) /\ files' = Stored(p)
  BY DEF IndexCommit
<1>5. ASSUME NEW c \in vectors'
      PROVE  c \in Corpus'
  <2>1. c \in vectors /\ c.path \notin proc[p].touched
    BY <1>4, <1>5 DEF Rows
  <2>2. c.path \in Paths /\ c \in ChunksOf[c.path][files[c.path].text]
    BY <1>2, <2>1
  <2>3. files'[c.path] = files[c.path]
    BY <1>4, <2>1, <2>2 DEF Stored
  <2>4. QED
    BY <1>3, <2>2, <2>3
<1>6. QED
  BY <1>5

LEMMA InvStep ==
  ASSUME IndexInv, [Next]_vars
  PROVE  BatchInv' /\ CorpusInv' /\ QueueInv' /\ MeetInv' /\ AckInv'
<1>0. /\ Worker \in Procs /\ \A p \in Procs : p # Worker => p \in Indexers
      /\ \A p \in Indexers : p \in Procs /\ p # Worker
      /\ TypeOK /\ BatchInv /\ CorpusInv /\ QueueInv /\ MeetInv /\ AckInv
  BY WorkerLocal DEF IndexInv, Procs
<1>1. ASSUME UNCHANGED <<files, vectors, points, raced>>,
             \A q \in Indexers : proc'[q] = proc[q],
             proc'[Worker].batch = {},
             proc'[Worker].pc \notin HoldsRows \cup {"commit", "ack"}
      PROVE  BatchInv' /\ CorpusInv' /\ QueueInv' /\ MeetInv' /\ AckInv'
  <2>1. BatchInv' /\ AckInv'
    BY <1>1 DEF BatchInv, AckInv
  <2>2. CorpusInv'
    BY <1>0, <1>1 DEF CorpusInv, Corpus, HoldsRows
  <2>3. QueueInv' /\ MeetInv'
    BY <1>0, <1>1 DEF QueueInv, MeetInv, Rows
  <2>4. QED
    BY <2>1, <2>2, <2>3
<1>2. ASSUME UNCHANGED <<files, vectors, points, raced, proc>>
      PROVE  BatchInv' /\ CorpusInv' /\ QueueInv' /\ MeetInv' /\ AckInv'
  BY <1>0, <1>2 DEF BatchInv, CorpusInv, QueueInv, MeetInv, AckInv, Corpus, Rows
<1>3. CASE \E p \in Paths : Edit(p)
  BY <1>2, <1>3 DEF Edit, tables
<1>4. CASE \E p \in Procs : Scan(p)
  <2>1. PICK p \in Procs : Scan(p)
    BY <1>4
  <2>2. /\ proc'[p].pc = "select" /\ proc'[p].batch = {}
        /\ \A q \in Procs : q # p => proc'[q] = proc[q]
        /\ UNCHANGED <<files, vectors, points, raced>>
    BY <1>0, <2>1, ScanMakes DEF tables
  <2>3. CASE p = Worker
    BY <1>0, <1>1, <2>2, <2>3 DEF HoldsRows
  <2>4. CASE p # Worker
    <3>1. proc'[Worker] = proc[Worker]
      BY <1>0, <2>2, <2>4
    <3>2. BatchInv' /\ AckInv'
      BY <1>0, <2>2, <3>1 DEF BatchInv, AckInv
    <3>3. CorpusInv'
      BY <1>0, <2>2, <3>1 DEF CorpusInv, Corpus
    <3>4. QueueInv' /\ MeetInv'
      BY <1>0, <2>2, <3>1 DEF QueueInv, MeetInv, Rows
    <3>5. QED
      BY <3>2, <3>3, <3>4
  <2>5. QED
    BY <2>3, <2>4
<1>5. CASE \E p \in Procs : IndexSelect(p)
  <2>1. PICK p \in Procs : IndexSelect(p)
    BY <1>5
  <2>2. /\ proc[p].pc = "select" /\ proc'[p].pc = "commit"
        /\ proc'[p].batch = proc[p].batch /\ proc'[p].queue = Rows(proc'[p].first)
        /\ proc'[p].first \subseteq proc[p].touched
        /\ \A q \in Procs : q # p => proc'[q] = proc[q]
        /\ raced' = (raced \/ Meets(p))
        /\ UNCHANGED <<files, vectors, points>>
    BY <1>0, <2>1, SelectMakes DEF tables
  <2>3. /\ p = Worker => proc'[Worker].pc = "commit" /\ proc'[Worker].batch = {}
        /\ p # Worker => proc'[Worker] = proc[Worker]
    BY <1>0, <2>2 DEF BatchInv
  <2>4. BatchInv' /\ AckInv'
    BY <1>0, <2>2, <2>3 DEF BatchInv, AckInv
  <2>5. CorpusInv'
    BY ZenonT(60), <1>0, <2>2, <2>3 DEF CorpusInv, Corpus, HoldsRows
  <2>6. ~raced' => ~raced /\ ~Meets(p)
    BY <2>2
  <2>7. QueueInv'
    BY <1>0, <2>2, <2>6 DEF QueueInv, Rows
  <2>8. MeetInv'
    <3>1. ASSUME NEW q \in Indexers, proc'[q].pc = "commit", proc'[q].first # {}, ~raced'
          PROVE  proc'[Worker].pc \notin HoldsRows
      <4>1. CASE p = Worker
        BY <2>3, <4>1 DEF HoldsRows
      <4>2. CASE p # Worker /\ q = p
        BY <2>2, <2>3, <2>6, <3>1, <4>2 DEF Meets
      <4>3. CASE p # Worker /\ q # p
        BY <1>0, <2>2, <2>3, <2>6, <3>1, <4>3 DEF MeetInv
      <4>4. QED
        BY <4>1, <4>2, <4>3
    <3>2. QED
      BY <3>1 DEF MeetInv
  <2>9. QED
    BY <2>4, <2>5, <2>7, <2>8
<1>6. CASE \E p \in Procs : IndexCommit(p)
  <2>1. PICK p \in Procs : IndexCommit(p)
    BY <1>6
  <2>2. /\ proc[p].pc = "commit" /\ proc'[p].pc = (IF p = Worker THEN "stale" ELSE "idle")
        /\ proc'[p].batch = {} /\ \A q \in Procs : q # p => proc'[q] = proc[q]
    BY <1>0, <2>1, CommitMakes
  <2>3. /\ vectors' = vectors \ Rows(proc[p].touched) /\ files' = Stored(p)
        /\ raced' = (raced \/ Meets(p)) /\ points' = points
    BY <2>1 DEF IndexCommit
  <2>4. /\ p = Worker => proc'[Worker].pc = "stale" /\ proc'[Worker].batch = {}
        /\ p # Worker => proc'[Worker] = proc[Worker] /\ proc'[p].pc = "idle"
    BY <1>0, <2>2
  <2>5. ~raced' => ~raced /\ ~Meets(p)
    BY <2>3
  <2>6. BatchInv' /\ AckInv'
    BY <1>0, <2>3, <2>4 DEF BatchInv, AckInv
  <2>7. CorpusInv'
    <3>1. ASSUME ~raced'
          PROVE  vectors' \subseteq Corpus'
      BY <1>0, <2>1, <2>5, <3>1, CommitKeepsRows DEF CorpusInv
    <3>2. ASSUME ~raced', proc'[Worker].pc \in HoldsRows
          PROVE  p # Worker /\ files' = files
      <4>1. p # Worker
        BY <2>4, <3>2 DEF HoldsRows
      <4>2. proc[p].touched = {}
        BY <2>4, <2>5, <3>2, <4>1 DEF Meets
      <4>3. files = [f \in Paths |-> files[f]]
        BY <1>0, FilesHave DEF TypeOK
      <4>4. QED
        BY <2>3, <4>1, <4>2, <4>3 DEF Stored
    <3>3. ASSUME ~raced', proc'[Worker].pc \in HoldsRows
          PROVE  proc'[Worker] = proc[Worker] /\ Corpus' = Corpus
      BY <2>4, <3>2, <3>3 DEF Corpus
    <3>4. QED
      BY <1>0, <2>5, <3>1, <3>3 DEF CorpusInv, HoldsRows
  <2>8. QueueInv'
    <3>1. \A fs : Rows(fs)' \subseteq Rows(fs)
      BY <2>3 DEF Rows
    <3>2. ASSUME NEW q \in Procs, proc'[q].pc = "commit"
          PROVE  proc'[q] = proc[q]
      BY <2>2, <2>4, <3>2
    <3>3. ASSUME NEW q \in Procs, proc'[q].pc = "commit", q = Worker \/ ~raced', NEW fs, fs = proc'[q].first
          PROVE  Rows(fs)' \subseteq proc'[q].queue
      <4>1. Rows(fs) \subseteq proc[q].queue
        BY <1>0, <2>5, <3>2, <3>3 DEF QueueInv
      <4>2. QED
        BY <3>1, <3>2, <3>3, <4>1
    <3>4. QED
      BY <3>3 DEF QueueInv, Rows
  <2>9. MeetInv'
    BY <1>0, <2>2, <2>4, <2>5 DEF MeetInv, HoldsRows
  <2>10. QED
    BY <2>6, <2>7, <2>8, <2>9
<1>7. CASE LoadStale
  BY <1>0, <1>1, <1>7, LoadStaleMakes DEF tables, BatchInv, HoldsRows
<1>8. CASE LoadRows
  <2>1. /\ proc[Worker].pc = "rows" /\ proc'[Worker].pc \in {"clear", "plan"}
        /\ proc'[Worker].batch = {} /\ proc'[Worker].rows = Corpus
        /\ \A q \in Indexers : proc'[q] = proc[q]
        /\ raced' = (raced \/ \E p \in Indexers : proc[p].pc = "commit")
        /\ UNCHANGED <<files, vectors, points>>
    BY <1>0, <1>8, LoadRowsMakes DEF tables, BatchInv
  <2>2. ~raced' => ~raced /\ \A p \in Indexers : proc[p].pc # "commit"
    BY <2>1
  <2>3. BatchInv' /\ AckInv'
    BY <2>1 DEF BatchInv, AckInv
  <2>4. CorpusInv'
    <3>1. Corpus' = Corpus
      BY <2>1 DEF Corpus
    <3>2. QED
      BY <1>0, <2>1, <2>2, <3>1 DEF CorpusInv
  <2>5. QueueInv' /\ MeetInv'
    BY <1>0, <2>1, <2>2 DEF QueueInv, MeetInv, Rows
  <2>6. QED
    BY <2>3, <2>4, <2>5
<1>9. CASE Clear
  <2>1. /\ proc'[Worker].pc \in {"idle", "delete"} /\ proc'[Worker].batch = {}
        /\ \A q \in Indexers : proc'[q] = proc[q]
        /\ vectors' = {} /\ UNCHANGED <<files, points, raced>>
    BY <1>0, <1>9, ClearMakes DEF BatchInv
  <2>2. BatchInv' /\ AckInv'
    BY <2>1 DEF BatchInv, AckInv
  <2>3. CorpusInv'
    BY <2>1 DEF CorpusInv, HoldsRows
  <2>4. QueueInv' /\ MeetInv'
    BY <1>0, <2>1 DEF QueueInv, MeetInv, Rows, HoldsRows
  <2>5. QED
    BY <2>2, <2>3, <2>4
<1>10. CASE Plan
  <2>1. /\ proc[Worker].pc = "plan" /\ proc'[Worker].pc \in {"idle", "delete", "upsert"}
        /\ proc'[Worker].batch = {} /\ \A q \in Indexers : proc'[q] = proc[q]
        /\ (proc'[Worker].pc = "upsert" => proc'[Worker].todo \subseteq proc[Worker].rows)
        /\ UNCHANGED <<files, vectors, points, raced>>
    BY <1>0, <1>10, PlanMakes DEF BatchInv
  <2>2. BatchInv' /\ AckInv'
    BY <2>1 DEF BatchInv, AckInv
  <2>3. CorpusInv'
    <3>1. Corpus' = Corpus
      BY <2>1 DEF Corpus
    <3>2. QED
      BY <1>0, <2>1, <3>1 DEF CorpusInv, HoldsRows
  <2>4. QueueInv' /\ MeetInv'
    BY <1>0, <2>1 DEF QueueInv, MeetInv, Rows, HoldsRows
  <2>5. QED
    BY <2>2, <2>3, <2>4
<1>11. CASE Upsert
  <2>1. /\ proc[Worker].pc = "upsert" /\ proc'[Worker].pc = "record"
        /\ proc'[Worker].batch \subseteq proc[Worker].todo /\ proc'[Worker].todo = proc[Worker].todo
        /\ \A q \in Indexers : proc'[q] = proc[q]
        /\ UNCHANGED <<files, vectors, raced>>
    BY <1>0, <1>11, UpsertMakes DEF tables
  <2>2. BatchInv' /\ AckInv'
    BY <2>1 DEF BatchInv, AckInv
  <2>3. CorpusInv'
    <3>1. Corpus' = Corpus
      BY <2>1 DEF Corpus
    <3>2. QED
      BY <1>0, <2>1, <3>1 DEF CorpusInv, HoldsRows
  <2>4. QueueInv' /\ MeetInv'
    BY <1>0, <2>1 DEF QueueInv, MeetInv, Rows, HoldsRows
  <2>5. QED
    BY <2>2, <2>3, <2>4
<1>12. CASE Record
  <2>1. /\ proc[Worker].pc = "record" /\ proc'[Worker].pc \in {"idle", "delete", "upsert"}
        /\ proc'[Worker].batch = {} /\ \A q \in Indexers : proc'[q] = proc[q]
        /\ (proc'[Worker].pc = "upsert" => proc'[Worker].todo \subseteq proc[Worker].todo)
        /\ vectors' = vectors \cup proc[Worker].batch
        /\ UNCHANGED <<files, points, raced>>
    BY <1>0, <1>12, RecordMakes
  <2>2. BatchInv' /\ AckInv'
    BY <2>1 DEF BatchInv, AckInv
  <2>3. CorpusInv'
    <3>1. Corpus' = Corpus
      BY <2>1 DEF Corpus
    <3>2. QED
      BY <1>0, <2>1, <3>1 DEF CorpusInv, HoldsRows
  <2>4. MeetInv'
    BY <1>0, <2>1 DEF MeetInv, HoldsRows
  <2>5. QueueInv'
    <3>1. ASSUME NEW q \in Indexers, proc[q].pc = "commit", ~raced
          PROVE  proc[q].first = {}
      BY <1>0, <2>1, <3>1 DEF MeetInv, HoldsRows
    <3>2. QED
      BY <1>0, <2>1, <3>1 DEF QueueInv, Rows
  <2>6. QED
    BY <2>2, <2>3, <2>4, <2>5
<1>13. CASE Delete
  <2>1. /\ proc[Worker].pc = "delete" /\ proc'[Worker].pc = "ack"
        /\ proc'[Worker].batch = {} /\ proc'[Worker].stale = proc[Worker].stale
        /\ \A q \in Indexers : proc'[q] = proc[q]
        /\ points' = points \ proc[Worker].stale
        /\ UNCHANGED <<files, vectors, raced>>
    BY <1>0, <1>13, DeleteMakes DEF tables, BatchInv
  <2>2. BatchInv' /\ AckInv'
    BY <2>1 DEF BatchInv, AckInv
  <2>3. CorpusInv'
    <3>1. Corpus' = Corpus
      BY <2>1 DEF Corpus
    <3>2. QED
      BY <1>0, <2>1, <3>1 DEF CorpusInv, HoldsRows
  <2>4. QueueInv' /\ MeetInv'
    BY <1>0, <2>1 DEF QueueInv, MeetInv, Rows, HoldsRows
  <2>5. QED
    BY <2>2, <2>3, <2>4
<1>14. CASE Ack \/ RemoteFails \/ Crash
  <2>1. /\ proc'[Worker].pc = "idle" /\ proc'[Worker].batch = {} /\ \A q \in Indexers : proc'[q] = proc[q]
        /\ UNCHANGED <<files, vectors, raced>>
    BY <1>0, <1>14, StopMakes DEF Ack, RemoteFails, Crash, tables
  <2>2. BatchInv' /\ AckInv'
    BY <2>1 DEF BatchInv, AckInv
  <2>3. CorpusInv'
    <3>1. Corpus' = Corpus
      BY <2>1 DEF Corpus
    <3>2. QED
      BY <1>0, <2>1, <3>1 DEF CorpusInv, HoldsRows
  <2>4. QueueInv' /\ MeetInv'
    BY <1>0, <2>1 DEF QueueInv, MeetInv, Rows, HoldsRows
  <2>5. QED
    BY <2>2, <2>3, <2>4
<1>15. CASE UNCHANGED vars
  BY <1>2, <1>15 DEF vars, tables
<1>16. QED
  BY <1>3, <1>4, <1>5, <1>6, <1>7, <1>8, <1>9, <1>10, <1>11, <1>12, <1>13, <1>14, <1>15 DEF Next, Sync

LEMMA AlwaysIndex == Spec => []IndexInv
<1>1. Init => BatchInv /\ CorpusInv /\ QueueInv /\ MeetInv /\ AckInv
  <2>1. SUFFICES ASSUME Init
                 PROVE  BatchInv /\ CorpusInv /\ QueueInv /\ MeetInv /\ AckInv
    OBVIOUS
  <2>2. vectors = {} /\ \A p \in Procs : proc[p] = Idle
    BY <2>1 DEF Init
  <2>3. Worker \in Procs /\ Indexers \subseteq Procs
    BY DEF Procs
  <2>4. \A p \in Procs : proc[p].pc = "idle" /\ proc[p].batch = {}
    BY <2>2, IdleTyped
  <2>5. QED
    BY <2>2, <2>3, <2>4 DEF BatchInv, CorpusInv, QueueInv, MeetInv, AckInv, HoldsRows
<1>2. IndexInv /\ [Next]_vars => IndexInv'
  BY TypeStep, InvStep DEF IndexInv
<1>3. Init => TypeOK
  BY InitTyped
<1>4. QED
  BY <1>1, <1>2, <1>3, PTL DEF Spec, IndexInv

\* As long as no index command commits into a sync, the readiness test that
\* only counts rows is right: every indexed chunk is recorded as embedded and
\* no other, so that a query drops no indexed chunk a vector search found.
THEOREM CountsAreEnough == Spec => []ReadyMeansRecorded
<1>1. IndexInv => ReadyMeansRecorded
  <2>1. SUFFICES ASSUME IndexInv, ~raced, Ready
                 PROVE  /\ vectors = Corpus
                        /\ \A found \in {points, points \ Corpus} : Query({}, found) = found \cap Corpus
    BY DEF ReadyMeansRecorded
  <2>2. IsFiniteSet(Corpus) /\ vectors \in SUBSET Corpus
    BY <2>1, CorpusChunks DEF IndexInv, TypeOK, CorpusInv
  <2>3. Cardinality(Corpus) = Cardinality(vectors)
    BY <2>1 DEF Ready
  <2>4. vectors = Corpus
    BY <2>2, <2>3, FS_Subset
  <2>5. QED
    BY <2>1, <2>4 DEF Query, Rowed
<1>2. QED
  BY <1>1, AlwaysIndex, PTL

\* No point of Qdrant is forgotten, however the steps of `index` and `worker`
\* interleave, but for the cases that PointsStayKnown names.
THEOREM PointsAreKnown == Spec => PointsStayKnown
<1> DEFINE Keeps ==
      \/ points' \ Known' \subseteq points \ Known
      \/ proc[Worker].pc \in {"upsert", "record"} /\ proc'[Worker].pc = "idle" /\ faults' > faults
      \/ proc[Worker].pc = "clear"
      \/ raced /\ \E p \in Indexers : proc[p].pc = "commit" /\ proc'[p].pc = "idle"
<1>1. ASSUME IndexInv, [Next]_vars
      PROVE  Keeps
  <2>0. /\ Worker \in Procs /\ \A p \in Procs : p # Worker => p \in Indexers
        /\ TypeOK /\ BatchInv /\ QueueInv /\ AckInv
    BY <1>1, WorkerLocal DEF IndexInv, Procs
  <2>1. CASE \E p \in Paths : Edit(p)
    BY <2>1 DEF Edit, tables, Known
  <2>2. CASE \E p \in Procs : Scan(p)
    <3>1. PICK p \in Procs : Scan(p)
      BY <2>2
    <3>2. proc'[Worker].batch = proc[Worker].batch /\ UNCHANGED <<vectors, pending, points>>
      BY <2>0, <3>1, ScanMakes DEF tables, BatchInv
    <3>3. QED
      BY <3>2 DEF Known
  <2>3. CASE \E p \in Procs : IndexSelect(p)
    <3>1. PICK p \in Procs : IndexSelect(p)
      BY <2>3
    <3>2. proc'[Worker].batch = proc[Worker].batch /\ UNCHANGED <<vectors, pending, points>>
      BY <2>0, <3>1, SelectMakes DEF tables
    <3>3. QED
      BY <3>2 DEF Known
  <2>4. CASE \E p \in Procs : IndexCommit(p)
    <3>1. PICK p \in Procs : IndexCommit(p)
      BY <2>4
    <3>2. /\ proc[p].pc = "commit" /\ (p # Worker => proc'[p].pc = "idle")
          /\ proc'[Worker].batch = proc[Worker].batch
      BY <2>0, <3>1, CommitMakes DEF BatchInv
    <3>3. /\ vectors' = vectors \ Rows(proc[p].touched) /\ points' = points
          /\ pending' = pending \cup proc[p].queue \cup Rows(proc[p].touched \ proc[p].first)
      BY <3>1 DEF IndexCommit
    <3>4. CASE p # Worker /\ raced
      BY <2>0, <3>2, <3>4
    <3>5. CASE p = Worker \/ ~raced
      <4>1. Rows(proc[p].first) \subseteq proc[p].queue
        BY <2>0, <3>2, <3>5 DEF QueueInv
      <4>2. Rows(proc[p].touched) \subseteq pending'
        BY <3>3, <4>1 DEF Rows
      <4>3. Known \subseteq Known'
        BY <3>2, <3>3, <4>2 DEF Known
      <4>4. QED
        BY <3>3, <4>3
    <3>6. QED
      BY <3>4, <3>5
  <2>5. CASE LoadStale
    BY <2>0, <2>5, LoadStaleMakes DEF Known, tables
  <2>6. CASE LoadRows
    BY <2>0, <2>6, LoadRowsMakes DEF Known, tables
  <2>7. CASE Clear
    BY <2>7 DEF Clear, At
  <2>8. CASE Plan
    <3>1. proc[Worker].batch = {} /\ proc'[Worker].batch = {} /\ UNCHANGED <<vectors, pending, points>>
      BY <2>0, <2>8, PlanMakes DEF BatchInv
    <3>2. QED
      BY <3>1 DEF Known
  <2>9. CASE Upsert
    <3>1. /\ proc[Worker].batch = {} /\ points' = points \cup proc'[Worker].batch
          /\ UNCHANGED <<vectors, pending>>
      BY <2>0, <2>9, UpsertMakes DEF BatchInv, tables
    <3>2. QED
      BY <3>1 DEF Known
  <2>10. CASE Record
    <3>1. /\ proc'[Worker].batch = {} /\ vectors' = vectors \cup proc[Worker].batch
          /\ UNCHANGED <<pending, points>>
      BY <2>0, <2>10, RecordMakes
    <3>2. QED
      BY <3>1 DEF Known
  <2>11. CASE Delete
    <3>1. /\ proc'[Worker].batch = proc[Worker].batch /\ points' \subseteq points
          /\ UNCHANGED <<vectors, pending>>
      BY <2>0, <2>11, DeleteMakes DEF tables
    <3>2. QED
      BY <3>1 DEF Known
  <2>12. CASE Ack
    <3>1. /\ proc[Worker].pc = "ack" /\ pending' = pending \ proc[Worker].stale
          /\ UNCHANGED <<vectors, points>>
      BY <2>12 DEF Ack, At
    <3>2. proc[Worker].batch = {} /\ points \cap proc[Worker].stale = {}
      BY <2>0, <3>1 DEF BatchInv, AckInv
    <3>3. QED
      BY <3>1, <3>2 DEF Known
  <2>13. CASE RemoteFails
    <3>1. faults' = faults + 1 /\ faults \in Nat /\ proc'[Worker].pc = "idle" /\ proc'[Worker].batch = {}
          /\ UNCHANGED <<vectors, pending>>
      BY <2>0, <2>13, StopMakes DEF RemoteFails, tables, TypeOK
    <3>2. CASE proc[Worker].pc = "upsert"
      BY <3>1, <3>2
    <3>3. CASE proc[Worker].pc # "upsert"
      <4>1. points' \subseteq points /\ proc[Worker].pc \in {"plan", "delete"}
        BY <2>13, <3>3 DEF RemoteFails, At
      <4>2. proc[Worker].batch = {}
        BY <2>0, <4>1 DEF BatchInv
      <4>3. QED
        BY <3>1, <4>1, <4>2 DEF Known
    <3>4. QED
      BY <3>2, <3>3
  <2>14. CASE Crash
    <3>1. faults' = faults + 1 /\ faults \in Nat /\ proc'[Worker].pc = "idle" /\ proc'[Worker].batch = {}
          /\ UNCHANGED <<vectors, pending, points>>
      BY <2>0, <2>14, StopMakes DEF Crash, tables, TypeOK
    <3>2. CASE proc[Worker].pc = "record"
      BY <3>1, <3>2
    <3>3. CASE proc[Worker].pc # "record"
      BY <2>0, <3>1, <3>3 DEF BatchInv, Known
    <3>4. QED
      BY <3>2, <3>3
  <2>15. CASE UNCHANGED vars
    BY <2>15 DEF vars, tables, Known
  <2>16. QED
    BY <1>1, <2>1, <2>2, <2>3, <2>4, <2>5, <2>6, <2>7, <2>8, <2>9, <2>10, <2>11, <2>12, <2>13, <2>14, <2>15 DEF Next, Sync
<1> HIDE DEF Keeps
<1>2. IndexInv /\ [Next]_vars => [Keeps]_vars
  BY <1>1
<1>3. [][Keeps]_vars => PointsStayKnown
  BY PTL DEF Keeps, PointsStayKnown
<1>4. QED
  BY <1>2, <1>3, AlwaysIndex, PTL DEF Spec

===============================================================================
