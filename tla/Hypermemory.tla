------------------------------ MODULE Hypermemory ------------------------------
(***************************************************************************)
(* The durable memory of hypermemory: Markdown files that are canonical,   *)
(* a SQLite index rebuilt from them as a whole, and a Qdrant collection    *)
(* brought into line after each rebuild.  The commands of the canonical    *)
(* store service (store, supersede, forget, update, reflect, record_*,     *)
(* flush_metadata) write the files first and reindex afterwards; feedback  *)
(* counts go the other way: they are kept in the index rows and flushed to *)
(* the lines whose numbers the rows remember.  The plugin kills a command  *)
(* with SIGKILL when its timeout passes, and people edit the files.        *)
(*                                                                         *)
(* One command runs at a time.  A file is written in one step.  All        *)
(* entries are facts of one writable scope; the proposals file, corpus     *)
(* documents, confidence, tier, evidence and the scores of a search are    *)
(* left out.                                                               *)
(*                                                                         *)
(* Definitions named A_B are mutants of A, not part of the specification.  *)
(***************************************************************************)
EXTENDS Naturals, Sequences, FiniteSets, SequencesExt, FiniteSetsExt

CONSTANTS
  Texts,      \* what an entry says
  KeyOf,      \* KeyOf[t]: the fact key that store infers from t, or NoKey
  NoKey, NoText,
  Typed,      \* what people type into the files
  Captures,   \* what is extracted from conversations: sequences of texts
  Notes,      \* the daily logs a workspace may start with
  MaxHits,    \* bound: feedback counted on one entry
  MaxEvents   \* bound: commands that write, vector syncs that fail, commands
              \* killed and edits by people, together

Keys == {KeyOf[t] : t \in Texts} \ {NoKey}

\* In the order in which _iter_memory_documents yields them.
Files == <<"daily", "bank">>

\* A typed bullet: fact_key, invalidated_at and a feedback count are metadata.
Line == [text : Texts, key : Keys \cup {NoKey}, dead : BOOLEAN, hits : 0..MaxHits]

Fresh(t, k) == [text |-> t, key |-> k, dead |-> FALSE, hits |-> 0]

ASSUME HypermemoryAssumption ==
  /\ DOMAIN KeyOf = Texts /\ NoText \notin Texts /\ Typed \subseteq Texts
  /\ Captures \subseteq Seq(Texts) \ {<<>>} /\ Notes \subseteq Seq(Line)
  /\ {MaxHits, MaxEvents} \subseteq Nat

VARIABLES
  file,     \* the Markdown files
  rows,     \* search_items: the row id is the position
  indexed,  \* documents: the contents that were last indexed
  encoded,  \* backend_state: the contents the sparse vocabulary was built from
  vectors,  \* vector_items: row id -> point id
  points,   \* the collection: <<point id, the row id in its payload>>
  cmd,      \* the command that runs
  recalled, \* the row ids a session got from its last search
  told,     \* history: the value a store reported last, of each key
  disturbed, \* history: was a command killed, or a file edited?
  events    \* how much of the bound is used

disk   == <<file, points>>
tables == <<rows, indexed, encoded, vectors>>
vars   == <<disk, tables, cmd, recalled, told, disturbed, events>>

\* at: the next step; then: what follows the reindex; text: of a store; more:
\* candidates of a capture that are still to be stored;
\* todo: files still to flush, or notes still to promote; stale: the points
\* the reindex found in vector_items.
Rest == [at |-> "rest", then |-> "rest", text |-> NoText, more |-> <<>>, todo |-> {}, stale |-> {}]

Init ==
  /\ \E n \in Notes : file = [f \in ToSet(Files) |-> IF f = "daily" THEN n ELSE <<>>]
  /\ rows = <<>> /\ vectors = <<>> /\ points = {}
  /\ indexed = [f \in ToSet(Files) |-> <<>>] /\ encoded = <<>>
  /\ cmd = Rest /\ recalled = {}
  /\ told = [k \in Keys |-> NoText] /\ disturbed = FALSE
  /\ events = 0

-------------------------------------------------------------------------------
(* The derived index.                                                       *)

RowsOf(f, fs) == [i \in DOMAIN fs[f] |-> [file |-> f, pos |-> i, line |-> fs[f][i]]]

\* reindex numbers the rows of all documents anew.
AllRows(fs) == RowsOf(Files[1], fs) \o RowsOf(Files[2], fs)

\* The sparse fingerprint depends on how often each entry occurs, not on where.
Fingerprint(fs) ==
  LET all == AllRows(fs) IN
  [l \in {all[i].line : i \in DOMAIN all} |-> {i \in DOMAIN all : all[i].line = l}]

Count(fp) == [l \in DOMAIN fp |-> Cardinality(fp[l])]

IsDirty_Size ==
  \E f \in DOMAIN file : Len(file[f]) # Len(indexed[f])

IsDirty ==
  \/ file # indexed
  \/ encoded # Count(Fingerprint(file))

\* point_id hashes path, lines and snippet, and the snippet holds the metadata.
PointId(r) == <<r.file, r.pos, r.line>>

\* The live rows of a key, in the order of the paths: bank before memory.
Live(k, f) == {i \in DOMAIN rows : rows[i].file = f /\ rows[i].line.key = k /\ ~rows[i].line.dead}

\* fact_registry: the last live row of the key, 0 when there is none.
Current(k) ==
  IF Live(k, "daily") # {} THEN Max(Live(k, "daily"))
  ELSE IF Live(k, "bank") # {} THEN Max(Live(k, "bank")) ELSE 0

Synced_OffByOne(f) ==
  [i \in DOMAIN file[f] |->
     IF \E r \in ToSet(rows) : r.file = f /\ r.pos + 1 = i
     THEN LET r == CHOOSE r \in ToSet(rows) : r.file = f /\ r.pos + 1 = i
          IN [r.line EXCEPT !.text = file[f][i].text]
     ELSE file[f][i]]

\* flush_metadata: the row's metadata on the text the line has now.
Synced(f) ==
  [i \in DOMAIN file[f] |->
     IF \E r \in ToSet(rows) : r.file = f /\ r.pos = i
     THEN LET r == CHOOSE r \in ToSet(rows) : r.file = f /\ r.pos = i
          IN [r.line EXCEPT !.text = file[f][i].text]
     ELSE file[f][i]]

\* Where a reindex starts: with the flush of metadata, or without.
Reindex(flush, then, text) ==
  cmd' = [Rest EXCEPT !.at = IF flush THEN "flush" ELSE "rebuild", !.then = then,
                      !.text = text, !.more = cmd.more, !.todo = IF flush THEN ToSet(Files) ELSE {}]

\* Commands that write Markdown and skip the flush: forget, update, supersede.
ReindexQuietly(then, text) == Reindex(FALSE, then, text)

FlushFile(f) ==
  /\ cmd.at = "flush" /\ f \in cmd.todo
  /\ file' = [file EXCEPT ![f] = Synced(f)]
  /\ cmd' = [cmd EXCEPT !.todo = @ \ {f}]
  /\ UNCHANGED <<points, tables, recalled, told, disturbed, events>>

\* One transaction drops every derived row and inserts those of the files; the
\* vector_items of the dropped rows go with them (ON DELETE CASCADE).
Rebuild ==
  /\ \/ cmd.at = "rebuild"
     \/ cmd.at = "flush" /\ cmd.todo = {} /\ cmd.then # "rest"
  /\ rows' = AllRows(file)
  /\ indexed' = file
  /\ vectors' = <<>>
  /\ cmd' = [cmd EXCEPT !.at = "sync", !.stale = Range(vectors)]
  /\ UNCHANGED <<disk, encoded, recalled, told, disturbed, events>>

\* A flush that no reindex follows ends the command.
FlushEnds ==
  /\ cmd.at = "flush" /\ cmd.todo = {} /\ cmd.then = "rest"
  /\ cmd' = Rest
  /\ UNCHANGED <<disk, tables, recalled, told, disturbed, events>>

\* The end of a store: of the command, or a capture goes on.
Stored == cmd' = [Rest EXCEPT !.at = IF cmd.more = <<>> THEN "rest" ELSE "capture", !.more = cmd.more]

\* The reindex returns to the command; only `store` outlives a failed sync.
Return(ok) ==
  /\ IF cmd.then = "stored" THEN Stored
     ELSE cmd' = IF cmd.then = "slot" \/ (ok /\ cmd.then \in {"search", "forget"})
                 THEN [Rest EXCEPT !.at = cmd.then, !.text = cmd.text, !.more = cmd.more] ELSE Rest
  /\ told' = IF cmd.then = "stored" /\ KeyOf[cmd.text] # NoKey
             THEN [told EXCEPT ![KeyOf[cmd.text]] = cmd.text] ELSE told

\* Upserting points replaces the ones with their ids.
Upserted(ids) ==
  {p \in points : p[1] \notin ids} \cup
  {<<PointId(rows[i]), i>> : i \in {j \in DOMAIN rows : PointId(rows[j]) \in ids}}

PointIds == {PointId(rows[i]) : i \in DOMAIN rows}

StalePoints_All == cmd.stale

\* What a sync deletes: points known before and no longer produced.
StalePoints == cmd.stale \ PointIds

\* With no rows nothing is sent; else all points are upserted, the stale ones
\* deleted, and vector_items and the sparse state written in one transaction.
SyncVectors ==
  /\ cmd.at = "sync"
  /\ points' = IF rows = <<>> THEN points
               ELSE {p \in Upserted(PointIds) : p[1] \notin StalePoints}
  /\ vectors' = [i \in DOMAIN rows |-> PointId(rows[i])]
  /\ encoded' = Count(Fingerprint(indexed))
  /\ Return(TRUE)
  /\ UNCHANGED <<file, rows, indexed, recalled, disturbed, events>>

Event == events < MaxEvents /\ events' = events + 1

\* Embedding, an upsert batch or the delete fails: some points may have arrived.
\* The sparse state is written and the error recorded; vector_items stays empty.
SyncFails ==
  /\ cmd.at = "sync" /\ rows # <<>> /\ Event
  /\ \E ids \in {{}, PointIds} : points' = Upserted(ids)
  /\ encoded' = Count(Fingerprint(indexed))
  /\ Return(FALSE)
  /\ UNCHANGED <<file, rows, indexed, vectors, recalled, disturbed>>

-------------------------------------------------------------------------------
(* The commands.                                                            *)

Command == cmd.at = "rest" /\ Event

\* What entry_identity compares: the fact key, or the text.
Same(l, m) == IF l.key # NoKey THEN m.key = l.key ELSE m.key = NoKey /\ m.text = l.text

Present_Dead(l, ls) == \E i \in DOMAIN ls : ls[i] = l \/ Same(l, ls[i])

\* append_unique_entry passes over invalidated lines.
Present(l, ls) == \E i \in DOMAIN ls : ls[i] = l \/ (~ls[i].dead /\ Same(l, ls[i]))

AppendUnique(l) == IF Present(l, file["bank"]) THEN file ELSE [file EXCEPT !["bank"] = Append(@, l)]

\* _apply_forget: marks a line as invalidated, or deletes it.
Forgotten(f, i, hard) ==
  [file EXCEPT ![f] = IF hard THEN RemoveAt(@, i) ELSE [@ EXCEPT ![i].dead = TRUE]]

Untold(ks) == [k \in Keys |-> IF k \in ks THEN NoText ELSE told[k]]

\* store: an index that is dirty is rebuilt first, whatever its vector sync does.
BeginStore(t, more) ==
  LET store == [Rest EXCEPT !.text = t, !.more = more] IN
  cmd' = IF IsDirty THEN [store EXCEPT !.at = "flush", !.then = "slot", !.todo = ToSet(Files)]
         ELSE [store EXCEPT !.at = "slot"]

Store(t) ==
  /\ Command
  /\ BeginStore(t, <<>>)
  /\ UNCHANGED <<disk, tables, recalled, told, disturbed>>

\* capture: what the model or the patterns extract from a conversation and what
\* passes the noise and admission filters is stored, one after the other.
Capture(candidates) ==
  /\ Command
  /\ cmd' = [Rest EXCEPT !.at = "capture", !.more = candidates]
  /\ UNCHANGED <<disk, tables, recalled, told, disturbed>>

StoreCandidate ==
  /\ cmd.at = "capture"
  /\ BeginStore(Head(cmd.more), Tail(cmd.more))
  /\ UNCHANGED <<disk, tables, recalled, told, disturbed, events>>

\* The typed slot of the key has the text already.
SlotHolds ==
  LET k == KeyOf[cmd.text] IN
  /\ cmd.at = "slot" /\ k # NoKey /\ Current(k) # 0
  /\ rows[Current(k)].line.text = cmd.text
  /\ told' = [told EXCEPT ![k] = cmd.text]
  /\ Stored
  /\ UNCHANGED <<disk, tables, recalled, disturbed, events>>

\* supersede: the line of the current value is invalidated, then the new appended.
Supersede ==
  LET k == KeyOf[cmd.text] IN
  /\ cmd.at = "slot" /\ k # NoKey /\ Current(k) # 0
  /\ rows[Current(k)].line.text # cmd.text
  /\ file' = Forgotten(rows[Current(k)].file, rows[Current(k)].pos, FALSE)
  /\ cmd' = [cmd EXCEPT !.at = "append", !.then = "superseded"]
  /\ UNCHANGED <<points, tables, recalled, told, disturbed, events>>

SlotFree ==
  /\ cmd.at = "slot"
  /\ KeyOf[cmd.text] = NoKey \/ Current(KeyOf[cmd.text]) = 0

\* An entry that the search finds similar enough: only one of the same text may be.
Duplicate ==
  /\ SlotFree
  /\ \E i \in DOMAIN rows : rows[i].line.text = cmd.text /\ ~rows[i].line.dead
  /\ Stored
  /\ UNCHANGED <<disk, tables, recalled, told, disturbed, events>>

AppendEntry ==
  /\ cmd.at = "append" \/ SlotFree
  /\ file' = AppendUnique(Fresh(cmd.text, KeyOf[cmd.text]))
  /\ IF cmd.then = "superseded" THEN ReindexQuietly("stored", cmd.text)
                                ELSE Reindex(TRUE, "stored", cmd.text)
  /\ UNCHANGED <<points, tables, recalled, told, disturbed, events>>

\* forget --entry-text: the first line of the bank with that text, dead or not.
ForgetText(t, hard) ==
  LET found == {i \in DOMAIN file["bank"] : file["bank"][i].text = t} IN
  /\ Command /\ found # {}
  /\ file' = Forgotten("bank", Min(found), hard)
  /\ told' = Untold({file["bank"][Min(found)].key})
  /\ ReindexQuietly("forgotten", NoText)
  /\ UNCHANGED <<points, tables, recalled, disturbed>>

\* forget --query resolves the entry by a search, which may reindex first.
ForgetQuery ==
  /\ Command
  /\ IF IsDirty THEN Reindex(TRUE, "forget", NoText) ELSE cmd' = [Rest EXCEPT !.at = "forget"]
  /\ UNCHANGED <<disk, tables, recalled, told, disturbed>>

ForgetHit(hard) ==
  /\ cmd.at = "forget"
  /\ \/ \E i \in DOMAIN rows :
          /\ ~rows[i].line.dead
          /\ file' = Forgotten(rows[i].file, rows[i].pos, hard)
          /\ told' = Untold({rows[i].line.key})
          /\ ReindexQuietly("forgotten", NoText)
     \/ UNCHANGED <<file, told>> /\ cmd' = Rest
  /\ UNCHANGED <<points, tables, recalled, disturbed, events>>

\* update: the first or every occurrence of a text in one file.
Update(f, t, u) ==
  LET found == {i \in DOMAIN file[f] : file[f][i].text = t} IN
  /\ Command /\ found # {} /\ t # u
  /\ \E some \in {found, {Min(found)}} :
       /\ file' = [file EXCEPT ![f] =
                     [i \in DOMAIN @ |-> IF i \in some THEN [@[i] EXCEPT !.text = u] ELSE @[i]]]
       /\ told' = Untold({file[f][i].key : i \in some})
  /\ ReindexQuietly("updated", NoText)
  /\ UNCHANGED <<points, tables, recalled, disturbed>>

\* reflect: the retained notes whose scope is applied are promoted one by one.
Reflect ==
  /\ Command
  /\ cmd' = [Rest EXCEPT !.at = "reflect", !.todo = DOMAIN file["daily"]]
  /\ UNCHANGED <<disk, tables, recalled, told, disturbed>>

Promote ==
  /\ cmd.at = "reflect"
  /\ IF cmd.todo = {} THEN file' = file /\ Reindex(TRUE, "reflected", NoText)
     ELSE /\ file' = AppendUnique(file["daily"][Min(cmd.todo)])
          /\ cmd' = [cmd EXCEPT !.todo = @ \ {Min(@)}]
  /\ UNCHANGED <<points, tables, recalled, told, disturbed, events>>

FlushMetadata ==
  /\ Command
  /\ cmd' = [Rest EXCEPT !.at = "flush", !.todo = ToSet(Files)]
  /\ UNCHANGED <<disk, tables, recalled, told, disturbed>>

\* A recall: searches reindex when the index is dirty, then return rows.
Search ==
  /\ cmd.at = "rest"
  /\ IF IsDirty THEN Reindex(TRUE, "search", NoText) ELSE cmd' = [Rest EXCEPT !.at = "search"]
  /\ UNCHANGED <<disk, tables, recalled, told, disturbed, events>>

Recall ==
  /\ cmd.at = "search"
  /\ recalled' \in {{}} \cup {{i} : i \in {j \in DOMAIN rows : ~rows[j].line.dead}}
  /\ cmd' = Rest
  /\ UNCHANGED <<disk, tables, told, disturbed, events>>

\* record_access and its siblings: a command of its own, in one statement, with
\* the ids of a search that may be over since long.
Record ==
  /\ recalled # {}
  /\ rows' = [i \in DOMAIN rows |->
               IF i \in recalled /\ rows[i].line.hits < MaxHits
               THEN [rows[i] EXCEPT !.line.hits = @ + 1] ELSE rows[i]]
  /\ recalled' = {}
  /\ UNCHANGED <<disk, indexed, encoded, vectors, cmd, told, disturbed, events>>

\* The plugin's timeout: SIGKILL between two steps of a command.
Kill ==
  /\ cmd.at # "rest" /\ Event
  /\ disturbed' = TRUE
  /\ cmd' = Rest
  /\ UNCHANGED <<disk, tables, recalled, told>>

\* A person adds a note above the others, or changes the metadata of a line.
Edit(f) ==
  /\ Event
  /\ disturbed' = TRUE
  /\ \/ \E t \in Typed : file' = [file EXCEPT ![f] = <<Fresh(t, NoKey)>> \o @]
     \/ \E i \in DOMAIN file[f] : file' = [file EXCEPT ![f][i].dead = ~@]
  /\ UNCHANGED <<points, tables, cmd, recalled, told>>

-------------------------------------------------------------------------------
Continue ==
  \/ \E f \in ToSet(Files) : FlushFile(f)
  \/ Rebuild \/ FlushEnds \/ SyncVectors
  \/ SlotHolds \/ Supersede \/ Duplicate \/ AppendEntry
  \/ \E hard \in BOOLEAN : ForgetHit(hard)
  \/ Promote \/ Recall \/ StoreCandidate

Next ==
  \/ Continue \/ SyncFails
  \/ \E t \in Texts : Store(t)
  \/ \E candidates \in Captures : Capture(candidates)
  \/ \E t \in Texts, hard \in BOOLEAN : ForgetText(t, hard)
  \/ \E f \in ToSet(Files), t, u \in Texts : Update(f, t, u)
  \/ ForgetQuery \/ Reflect \/ FlushMetadata
  \/ Search \/ Record \/ Kill
  \/ \E f \in ToSet(Files) : Edit(f)

Spec == Init /\ [][Next]_vars

\* A command that is not killed goes on, and the agent recalls again and again.
FairSpec == Spec /\ WF_vars(Continue) /\ WF_vars(Search)

-------------------------------------------------------------------------------
(* Properties.                                                              *)

TypeOK ==
  /\ file \in [ToSet(Files) -> Seq(Line)] /\ indexed \in [ToSet(Files) -> Seq(Line)]
  /\ rows \in Seq([file : ToSet(Files), pos : Nat, line : Line])
  /\ DOMAIN vectors \in {DOMAIN rows, {}}
  /\ told \in [Keys -> Texts \cup {NoText}]
  /\ recalled \subseteq Nat \ {0}

\* As long as nobody killed a command or edited a file, the registry answers a
\* key with the value that the last store of the key reported (get_fact), over
\* duplicates, supersessions, forgets, flushes and syncs that fail.
StoredFactIsCurrent ==
  cmd.at = "rest" /\ ~disturbed =>
    \A k \in Keys : told[k] # NoText =>
      Current(k) # 0 /\ rows[Current(k)].line.text = told[k]

\* Flushing feedback counts never changes which fact a line is about or whether
\* it is forgotten: the row that is written over a line was read from it.
FlushKeepsMeaning ==
  [][cmd.at = "flush" /\ ~disturbed' =>
       \A f \in DOMAIN file : \A i \in DOMAIN file[f] :
         /\ file'[f][i].key = file[f][i].key
         /\ file'[f][i].dead = file[f][i].dead]_vars

\* The same whatever happened: what the Markdown says wins over the index.
MarkdownWins ==
  [][cmd.at = "flush" /\ cmd' # cmd =>
       \A f \in DOMAIN file : \A i \in DOMAIN file[f] :
         /\ file'[f][i].key = file[f][i].key
         /\ file'[f][i].dead = file[f][i].dead]_vars

\* A vector_items entry tells the truth, through kills and failed syncs: the
\* row has that point id, feedback aside, and the point in the collection
\* carries the row's id.
VectorsTellTruth ==
  \A i \in DOMAIN vectors :
    /\ <<vectors[i], i>> \in points
    /\ [vectors[i][3] EXCEPT !.hits = 0] = [rows[i].line EXCEPT !.hits = 0]

\* An index that differs from the Markdown is rebuilt, whatever failed before.
Refreshes == (file # indexed) ~> (file = indexed)
===============================================================================
