# TLA+ verification of StrongClaw (clawops)

StrongClaw hardens an agent platform with a Python package, `clawops` (`src/src/clawops`),
that runs as many short-lived command-line processes on one host.  The processes share
SQLite files, lock files, git worktrees, Markdown files, containers and two remote stores
(Qdrant, Neo4j), and nothing else: no daemon serialises them.  What must be right is
therefore spread over statements that other processes can interleave with, and over commands
that are killed and run again.  This directory models those parts, checks them with TLC, and
proves the properties that matter most with TLAPS.

Definitions named `A_B` in a module are *mutants* of the definition `A`: a plausible bug (a
dropped guard, a swapped source, a missing write) that is used in place of `A` to confirm
that the property listed with it in `PROJECT.json` notices.  They are not part of any
specification.

## 1. Inventory

| Component | State it keeps | Operations that change it | Shared with | Hard behaviour |
|---|---|---|---|---|
| Operation journal, `op_journal.py` | table `op` (status, attempt, policy verdict, execution contract, review), table `session_lease` | `begin`, `transition`, `approve`, `reject`, `delegate`, `ingest_review`, `acquire_lease`, `release_lease` | every wrapper, reviewer, workflow and session process | every call is SELECT, check in Python, unconditional UPDATE: two calls interleave |
| Side-effect wrappers, `wrappers/*.py` | none of their own: the `Operation` object read from the journal | `prepare_operation`, `ensure_execution_contract`, `execute_http_operation`, `--execute-approved` | journal, remote HTTP services | act on a row read earlier; crash between `running` and the terminal record; a lost answer; an exception that is no transport error |
| Approval dispatch and queue, `approval_dispatch.py`, `approvals.py` | reviewer packet files, review columns of `op` | dispatch, approve, reject, delegate, ingest | journal | a dispatch that runs after the review |
| ACP sessions, `acp_runner.py`, `process_runner.py` | a flock file per state directory, a lease row, the worker process | `run_session` | journal, worktrees | lease runs out under a live worker; killed session; late release |
| Devflow, `devflow*.py`, `workflow_runner.py` | `devflow_run`, `devflow_stage`, `devflow_event`, workspaces, one journal operation per stage | `run`, `resume`, `cancel`, the `worker_dispatch` step | journal, sessions, git | two executors of one run; a stop between any two of its three records; clear-then-copy of workspaces |
| Policy engine, `policy_engine.py` | none (a policy file) | `evaluate` | wrappers, workflows | precedence of rules |
| Codebase index, `context/codebase/service.py` | SQLite (files, chunks, symbols, chunk_vectors, pending deletions), a Qdrant collection | `index_with_stats`, `_sync_hybrid_index`, `query` | Qdrant, the repository being edited | two stores without a common transaction; deterministic point ids deleted and inserted by one sync; a worker that holds rows while an index run commits |
| Code graph, the same file | table `edges`, a Neo4j graph | edge extraction, `Neo4jGraphBackend.upsert`, `SqliteGraphBackend.upsert`, `pack` | index runs | four statements after the commit, stamped with a snapshot; the SQLite fallback writes back what it read |
| Hypermemory files and index, `hypermemory/services/{canonical_store,indexing,backend}_service.py` | Markdown with one entry per line; `search_items`, `documents`, `vector_items`; Qdrant points | `store`, `supersede`, `forget`, `update`, `reflect`, capture, `record_*`, `flush_metadata`, `reindex`, `sync_vectors` | people who edit, the plugin that kills | rows remember lines by number; a rebuild commits before its vectors do; row ids are reused |
| Hypermemory search, `query_service.py`, `retrieval.py`, `ranking` | none | `search` | rebuilds | ids from Qdrant meet rows of a later rebuild; fallbacks; scores that change while hits are chosen |
| Sidecars, `strongclaw_ops.py` | containers, postgres' directory | `sidecars up/down`, `reset-compose-state`, `status` | setup, service units | docker calls that time out while the container gets healthy; looking, stopping and emptying are three steps |
| Backup and recovery, `recovery/*.py` | archives and temporary files of one directory | `backup-create`, `prune-retention`, `verify`, `restore` | timers | a stop between file and rename; two writers of one name |
| Setup, `setup_cli.py`, `strongclaw_bootstrap.py`, `strongclaw_varlock_env.py`, `strongclaw_model_auth.py`, `strongclaw_services.py`, ... | state files, `.env.local`, `.env.plugins`, `openclaw.json`, assets, units | `setup`, `bootstrap`, `configure`, `activate`, the baseline verification, `doctor` | sidecars, docker group | every step may be the last of its command; later commands skip what earlier ones recorded |
| Platform checks, `platform_verify.py` | none | the reports on sidecars, observability, channels and browser lab | doctor, setup | containers of another tree answer |
| Context envelopes, `context_envelope.py` | cached envelopes | build, validate, expire | context service | a snapshot that no longer matches |
| HTTP client, `JsonHttpClient` | none | `request` with retries | wrappers | a POST repeated after a timeout |
| Rendering, supply chain, migration, CLI helpers, plugins | files of the host | sequential commands | none | none of the above |

Components interact in one direction: devflow calls the workflow runner, which calls the
policy engine, the journal and `run_session`; `run_session` takes the flock and the lease;
wrappers call the policy engine, the journal, the approval dispatch and the HTTP client;
setup calls bootstrap, the environment and model configuration, the services and the
verification; the hypermemory plugin starts one `clawops hypermemory` command per call.
Everything asynchronous is another operating-system process.

What makes each component correct:

* **Journal and wrappers**: the status follows `ALLOWED_TRANSITIONS`; a side effect is
  delivered at most once per `(scope, idempotency_key)`; nothing is sent against policy or
  before its approval; a reviewer's verdict stands; `running` is resolved; a replay tells
  the truth about what was executed.
* **Sessions**: one worker per lock identity; one active lease; a lease is taken over only
  when it has run out.
* **Devflow**: stages in order, each worker once, success means that the work was done,
  approval precedes work, a worker finds the work of the stages before it, a run settles or
  can be resumed.
* **Codebase index and graph**: what counts as searchable by vector is recorded, no point is
  forgotten, edges are those of the texts, both graphs give the same packs.
* **Hypermemory**: what was stored last is the current fact, feedback lands on its own line,
  a hit names the row it was computed from, an outdated fact is never answered, the index
  catches up with the files.
* **Sidecars, recovery, setup**: a command that reports success has done what later ones
  take for granted, wherever the ones before it were interrupted; repeating it mends the
  rest; nothing in use is emptied, no backup is lost, no password replaced.

## 2. Modules

| Module | Models | Extends / used by |
|---|---|---|
| `JournalRow` | a row of table `op`; what `_validate_transition`, `transition`, the review calls and the replay helpers compute from it | no variables; used by the three below |
| `OperationLifecycle` | abstract specification: what the journal promises about the status of an operation | refined by `OperationWrappers` (`Lifecycle == INSTANCE ... WITH status <- ...`) |
| `OperationWrappers` | wrapper, reviewer and raw-journal processes over the shared table, statement by statement | `OperationWrappersMC`, `OperationWrappersProofs` |
| `SessionLeases` | `run_session`: flock, lease, worker, timeout, kill, clock | `SessionLeasesMC`, `SessionLeasesProofs` |
| `Devflow` | run, resume and cancel commands over the run row, the stage rows, the stages' journal operations and their workspaces | `DevflowMC`, `DevflowProofs` |
| `HybridIndex` | `index` and `worker` over the context index: the walk, chunking, incremental indexing, queue of deletions, vector sync with Qdrant, hybrid queries | `HybridIndexMC`, `HybridIndexProofs` |
| `CodeGraph` | the same two over the dependency graph: edges, the Neo4j mirror, the SQLite fallback, packs | `CodeGraphMC`, `RetrievalProofs` |
| `Hypermemory` | the commands over Markdown files, derived index and vector collection | `HypermemoryMC`, `HypermemoryProofs` |
| `MemorySearch` | one search, statement by statement, beside rebuilds and vector syncs | `MemorySearchMC`, `RetrievalProofs` |
| `Sidecars` | `up`, `down` and `reset-compose-state` over docker compose | `SidecarsMC`, `OperationsProofs` |
| `Recovery` | backup, prune, verify and restore over inodes and names | `RecoveryMC`, `OperationsProofs` |
| `PlatformChecks` | the reports of `verify-platform` over an asset tree and the listeners of the host | no variables; `HostSetup` |
| `HostSetup` | setup, bootstrap, configure, activate and doctor as sequences of steps | `HostSetupMC`, `HostSetupProofs` |

### OperationWrappers

`op` is the table (one row per key), `proc[p]` the local state of a process: where it is
(`pc`), the `Operation` object it holds (`view`), the row its current journal call has read
(`snap`), that call's arguments (`call`) and what follows (`next`).  One journal call is
three steps (`TransitionRead`, `TransitionWrite`, `TransitionReread`), because
`OperationJournal` opens its connections in autocommit mode and checks the transition in
Python between the SELECT and the UPDATE.  `TransitionRow` takes the row that the table
holds *now* only for the columns the UPDATE does not name.  The wrapper goes on with the
row it re-reads: one it had found pending and dispatched again may have been approved
meanwhile, and is then executed (`Answer`).  `Evaluate`, `StampContract`,
`Dispatch`, `Execute` and `Send` are the bodies of `prepare_operation`,
`ensure_execution_contract`, `dispatch_pending_approval` and `execute_http_operation`. A
request may arrive although its answer is an error or is lost.  The policy engine's answer
is a choice from `Verdicts`.  `sends`, `verdicts` and `granted` are history: what the remote
side received, which verdicts were obtained, whether a person approved.

Left out: timestamps, notes, error texts, request metadata, artifact paths (no decision
depends on them), the retry loop inside one `request` call, and the read-only listings.

### SessionLeases

`pc[s]` follows `run_session`.  `Dir` and `Journal` are the two things sessions may share:
the flock is a file of the state directory, the lease a row of the journal
(`effective_journal_db`).  The flock is held from `TryLock` to `Unlock` and is dropped
by the kernel when the process ends.  `since[s]` is the clock value `acquire_lease` computes
the expiry from, and later the time the worker was started.  `acquire_lease` is one
transaction because its first statement writes.  Time advances only while no worker is past
its timeout (`subprocess.run` kills it) and no session takes longer than `Slack` from
reading the clock to starting its worker.  Sessions in `Orphans` may be killed and leave
their worker running.

### Devflow

`run`, `token`, `stage` are the devflow tables; `op` the status of each stage's journal
operation, found again at every resume because its key is the task contract; `tree[i]` the
set of stages whose work is in the workspace of stage `i` (0 is the repository's own);
`proc[p]` a `run`, `resume` or `cancel` command.  The actions follow `_execute_plan` from
`Prepare` to `Finish`.  An exception of the try block goes through `Handle`/`Recover`, the
handler of `_execute_plan`; one before the first stage, in the handler, after the last stage
or in a `resume` or `cancel` around it ends the command (`stopped`), which leaves the tables
the way a kill at that place does.  The journal calls are single steps here, and the other
statuses of `run_session` are one failure; `OperationWrappers` and `SessionLeases` look
inside. `retry_budget`, `retry_count` and the event log are recorded by the code and never
read by an operation, so they are left out.

### HybridIndex and CodeGraph

Both follow `index_with_stats` and what the worker does after it, for the parts of the index
that have different stores; the SQLite transaction is the same.  `disk` is the repository,
`files` the committed table.

In `HybridIndex`, `vectors` is `chunk_vectors`, `pending` the queue of deletions, `points`
what Qdrant holds.  `Scan` is the walk (`iter_files`: what is too large is as if it were
gone, what cannot be read or is no UTF-8 text keeps its row), `IndexSelect` and
`IndexCommit` the rest of `index_with_stats`: the metadata is read and the repository walked
before anything is locked, and the points of the first touched files are selected just
before the statement that opens the transaction.  `LoadStale` to `Ack` are
`_sync_hybrid_index`, one action per snapshot, commit or remote call; a remote call may fail
with or without its effect.  A text is a sequence of blocks; `BuildChunks` cuts them into
windows of lines, and a chunk is its id, which hashes path, lines and text and is its point
id too. `raced` is history: an index transaction met a sync that held rows. One worker per
index, a scale and configuration that request hybrid retrieval.

In `CodeGraph` a text is what it imports, defines and uses.  `Commit` replaces the import
edges of the touched files and derives all symbol edges; a run that touched nothing opens
its transaction with the deletion of the symbol edges and has read the rows for the new ones
before (`Refresh`).  `LoadNodes`/`LoadEdges` read them
back; `MergeNodes`, `MergeEdges`, `DropEdges`, `DropNodes` are the four transactions of
`Neo4jGraphBackend.upsert` (every node and edge carries the `snapshot_id` that merged it
last), `WriteBack` the SQLite fallback of a medium scale.  `Pack` is the file set of a
context pack over either graph; `Uncut` are the packs that no LIMIT of the graph queries
cuts.  `raced` names a run that read, refreshed or wrote back edges beside another run's
transaction.

Left out of both: scores, vector values and sparse term ids, languages and how blocks and
symbols are found, the LIMITs of the hybrid queries, benchmarks, a `stat` that fails (the
file then counts as gone), the branch for scale `small`.

### Hypermemory and MemorySearch

In `Hypermemory`, `file` holds the Markdown (a bank page and a daily log), a line is an
entry with its metadata (`key`, `dead`, `hits`); `rows` is `search_items` with the row id as
its position; `indexed` and `encoded` say from which contents the documents and the sparse
vocabulary were built, so that `IsDirty` is `dirty()`; `vectors` and `points` are
`vector_items` and the collection.  A command is a sequence of steps in `cmd`: it writes its
file, flushes feedback or not (`Reindex(TRUE, ...)` or `ReindexQuietly`), rebuilds in one
transaction, syncs the vectors, and returns.  `Capture` stores one extracted candidate after
the other. `SyncFails` covers the three ways a sync can end early, `Kill` the SIGKILL of the
plugin's timeout between any two steps, `Edit` a person.  `told`, the value the last store
of a key reported, is history.  One command runs at a time; a file write is one step;
scopes, proposals, corpus documents, confidence, tiers and evidence are left out.
Deduplication is assumed to be on (`dedup.enabled`): both shipped configurations turn it on,
the engine's own default is off.

In `MemorySearch`, `q` is the search: `ExactFact`/`Resolve`, `DenseSearch`, `SparseSearch`,
`VectorSearchFails`, the lexical candidates per lane, `LoadDense`/`LaneCandidates` (ids to
rows), `Rerank`/`RerankFails`, `Choose` (the diversity penalty), `FilterCurrent` or
`AddForgotten`. `Reindex`, `Sync` and `SyncFails` happen between any two of them.  What a
query makes of an entry (terms, phrase, cosine, boost) is the constant `About`; `q.seen` is
history: the tables that were committed while the search ran.  The reranker's score is a
choice.

### Sidecars and Recovery

`ctr` holds the container of each service and the directory it mounts, `data` what is in
postgres' directory, `cmd[p]` a command.  `StartPostgres` to `Report` are `sidecars up`;
`Inspect`, `Stop`, `Remove` are `reset-compose-state`.  `ComposeUp` is what `docker compose
up -d` does: it recreates what mounts another directory and waits for the dependencies.
`HealthPasses` and `HealthLost` are docker's.  A stuck container is one that only a new one
mends; any service may get stuck, and `up` recreates postgres and litellm only.  `replaced`,
`alone` and `served` are history.

In `Recovery` a file is an inode, so that a writer goes on writing to a file that was
renamed or unlinked; `tmp` and `arch` are the names of the directory.  `UnlinkTmp` to
`Replace` are `create_backup_execution`, `CliFails` the takeover by the tar writer; `Prune`
is `prune-retention`, `Verify`, `Extract`, `Restored` are `restore`.  What is in an archive
is left out except hard links, which `restore` refuses.

### PlatformChecks and HostSetup

`PlatformChecks` has the reports as predicates over a record of the tree's facts and a set
of listeners.  It compares allowlists as sets, where the code compares lists in order, and
reads a port mapping of `[::1]`, which the code's parser ignores.  In `HostSetup` a command
is the list of steps it has left (`run.todo`), one action per step (`Docker`, `Varlock`,
..., `Validate`, `Models`, `Sidecars`, `Verify`, `Done`); a step reads and writes what the
code reads and writes: the docker group and its refresh flag, the bootstrap mark, tools,
assets per profile, `.env.local` (`env`), `.env.plugins` (`overlay`), `openclaw.json`
(`config`), units, and the secret with which postgres made its database (`stack`).  `Fails`
stops a command at any step, `Torn` and `TornConfig` in the middle of a file that is
truncated before it is written.  `DoctorScan` is one read, because it changes almost
nothing; it does create or complete `.env.local`. A host that has docker from the start is
one whose user may use it (`Init`): `SETUP_GUIDE.md:19` and the Linux runbook ask for it,
and bootstrap relies on it: it grants access only to the docker it installs, and records its
mark all the same (`strongclaw_bootstrap.py:642`, `663`).  `Defaults` does not fill the
embedding model, which `_ensure_required_defaults` does, so the model admits environments
without one that the code does not leave behind. macOS, timers,
`OPENCLAW_MODEL_SETUP_MODE=skip`, `--no-verify` and the contents of rendered files are left
out.

## 3. Runs

Every run finishes in less than four minutes with two workers.

| Run | Configuration and bounds | Shows |
|---|---|---|
| `wrappers_racing` | 1 key, 2 wrappers, 1 reviewer, 1 operator, every verdict, overlapping, every statement interleaving, no crashes | `PolicyGate`, `ApprovalGate` |
| `wrappers_serial` | the same actors with every command and verdict, wrapper invocations one after the other, journal calls uninterrupted, crashes, fairness | `TypeOK`, `ReplayReportsExecution`, `AtMostOnce`, `LifecycleSpec`, `ReviewStands`, `RunningResolves` |
| `leases` | 4 sessions, one lock identity: two with one journal, two with one state directory, one pair with neither, a fourth with a ttl of 1 and an orphan; ttl 3, timeout 1, slack 1, clock to 5 | `ExclusiveWorkers`, `OneActiveLease`, `LeaseIsKept` |
| `devflow_serial` | 3 stages (two mutable, one to verify that needs approval), one run, two resumes, one cancel, queue reviews, exceptions inside and outside the try block, crashes, fairness | `WorkerOncePerStage`, `WorkerBuildsOnLast`, `RestingRunResumes`, `RunSettles` |
| `devflow_overlap` | 2 stages, a run with an approver and a resume without executing at once, a cancel, queue reviews, exceptions, crashes | `StagesInOrder`, `ApprovalBeforeWork`, `NoHollowSuccess` |
| `hybrid` | a file whose blocks move and one that may grow too large or turn into no text, 2 edits, 1 fault (an unreadable file, a failed remote call, a crash), batches of 2, windows of one line, the worker and one index command | `ReadyMeansRecorded`, `PointsStayKnown`, `Converges` |
| `graph` | 2 files that import and use each other, 2 edits, 1 fault, depth and limit 2, the worker (with the fallback) and one index command | `EdgesMatchFiles`, `GraphsAlign` |
| `hyper` | 3 texts, two of them values of one fact key, one typed by people, a capture of both values, 3 events (writing commands, failed syncs, kills, edits) | `StoredFactIsCurrent`, `FlushKeepsMeaning`, `VectorsTellTruth`, `Refreshes` |
| `search` | 4 entries (old and new value of a fact, a note with the words of one, an entry of another scope), 7 tables, 3 backends, with and without fallback, limits 1 and 3, 1 rebuild | `HitsAreLive`, `NoOutdatedFact`, `BestFirst` |
| `sidecars` | 2 commands at once, 2 directories, 3 required services, each may get stuck, 2 events (commands, docker failures, lost health) | `SchemaServed`, `NeverEmptiedInUse`, `Recovers` |
| `recovery` | 2 backups (one of them finds hard links), 1 restore, with and without CLI, retention 1, clock to 3 | `PublishedIsWhole`, `BackupIsKept`, `LeftoversGo` |
| `setup` | 2 commands with every combination of flags and answers, 1 fault, then the guided setup again and again; 2 profiles, 2 trees | `SetupDelivers`, `MarkedHostWorks`, `DatabaseOpens`, `Recovers` |

Wrapper invocations that overlap while each journal call is uninterrupted have no run of
their own: their lifecycle is the theorem `JournalRefinesLifecycle`, and `wrappers_racing`
covers their gates under a finer interleaving.

Why the bounds are enough.  Keys do not interact (an op_id collision is the one exception,
and it only makes `begin` raise), so one key is a whole table.  Two wrappers show every
interleaving of a stale holder with a current one.  Any conflict between sessions involves
two of them; three make the pairs that share one lock, the other or none, and the fourth is
the one that outdates or breaks the rules the others keep.  A clock of 5 leaves room for a
lease to be taken, to run out, to be taken over and to run out again.  Three stages are the
first length at which the last mutable stage differs from the first, and at which a stage
lies between a failed one and the end.  Two edits are enough to queue a point, embed its
chunk again and queue it again while the first pass still runs, and to remove an import and
bring it back; no query over two files and two symbols has more than two answers, so a limit
of 2 cuts none of them in the run; a batch of 2 makes a pass of two batches; a second file
is needed because the points of the first one are selected outside the transaction. Three
events on a memory are a store, a supersession and a forget, or any of these with a failed
sync and a kill or an edit; two values of one key are enough to supersede and to return. One
rebuild is the only thing that changes what a row id means, and it can fall between any two
statements of the search.  Two sidecar commands and two events give every pair of commands
with a failure in one of them; two backups and three ticks of a clock give a takeover in the
same second, an expired file and a newer one.  Two commands before the guided setup are one
that leaves something half done and one that builds on it.

Symmetry is used for the processes of `wrappers_racing` only.  `search` checks deadlock; the
other systems end or stop when their bounds are used up.

Fairness is weak fairness of each process's own steps, unless said otherwise.  It is what
the operating system gives a process that is not killed, since no step waits for another
process: the locks are non-blocking, SQLite's busy timeout raises, and the embedding,
Qdrant, Neo4j and docker calls carry timeouts.  A killed process is an action of its own
(`Crash`, `Kill`, `Fails`), and the liveness properties name it as the exception where it is
one.

* `RunningResolves`, `RunSettles`: the steps of every command that was begun.
* `Converges`: the worker's loop.  `GraphsAlign`: the same; an index command may stop
  anywhere.
* `Refreshes`: a command goes on, and somebody searches (with `autoRecall` the plugin does
  before every prompt), which is what notices that the files changed.
* `Sidecars!Recovers`: health checks pass, commands go on or time out, and the operator
  repeats `up` while the status is not ok.
* `LeftoversGo`: the maintenance timer fires.
* `HostSetup!Recovers`: a command goes on and the person repeats the guided setup; strong
  fairness of `FreshShell` and `AddCompose`, because a person who is told to log in again,
  or to install the compose plugin, does so although commands may run in between.

## 4. Proofs

Every safety property that a run lists, invariant, action property or refinement, is a
theorem; what stays with TLC is at the end of this section.

The theorems hold for every value of the constants that the `ASSUME`s of the modules admit:
any sets of keys, processes, commands, policies, texts and files, any plan, ttl and
retention, and bounds of any size, so that a proof speaks of runs of any length.  TLC
evaluates the assumptions in every run.  Each inductive invariant was checked by TLC on the
bounds of its run before it was proved.  A hypothesis beyond the assumptions stands in the
theorem itself (`ASSUME Isolated PROVE ...`) and is named below.

### Operation journal and wrappers (`OperationWrappersProofs`)

* `TypeCorrectness` (`TypeInv`): the types, plus that a process inside a journal call
  carries arguments of the right kind.
* `PolicyIsEnforced`, `ApprovalIsEnforced` (`GateInv`): not inductive by themselves, because
  a stale process may write an old row back.  The strengthening says of *every* copy of a
  row, in the table, in `view` and in `snap`, that a contract in it stands for a verdict
  that was obtained, that `approved` or later without an `allow` verdict stands for a grant,
  and that a process at `send` holds such a row.  Writing back a copy then cannot invent a
  permission.  No assumption on interleaving is needed.
* `JournalRefinesLifecycle` (`SerialInv`), under `Isolated`: between the SELECT and the
  UPDATE of a call the table still holds what was read, so the UPDATE is a move of the
  lifecycle or a stutter.  Without `Isolated` it is false: two reviewers whose calls overlap
  both pass the check, and the later UPDATE replaces the verdict of the earlier one
  (`op_journal.py:763`).
* `ReplaysReportExecution` (`AttemptInv`), under `Isolated`: a row whose request was sent
  has counted an attempt, because the only call that leads to `send` writes `running`.  It
  speaks of `succeeded` and `failed`: what a replay says of `cancelled` does not look at the
  attempts (§5).
* `VerdictsStand` (`VerdictInv`), under `Isolated`: a closed review is never reopened, and
  whoever may still write a review status over a closed row holds the verdict that closed
  it.  The first formulation of `ReviewStands`, that a verdict in the row never changes, has
  no proof: a stamping that read a row before a person reviewed it *after* the raw journal
  CLI had closed it writes the older status back.  The property now speaks of the verdict
  that closed the review (`decided`).
* `SentAtMostOnce` (`OnceInv`), under `Isolated` and `~Overlap`: a wrapper about to send
  holds a row nothing was sent for, and a row for which something was sent stays in
  `running` or a terminal status (`OverStays`).  Both hypotheses are needed: see
  `AtMostOnce` in §5.

### Sessions (`SessionLeasesProofs`)

* `LeaseIsUnique`, `FlockIsExclusive`, `LeaseIsNotTaken` (`LockInv`): for any ttl.
  `FlockIsExclusive` is listed by no run (`ExclusiveInDir`).
* `WorkersAreExclusive` (`LeaseInv`): sessions with `Slack + Timeout < Ttl` whose worker
  dies with them exclude each other if they share a journal, by the lease, or a state
  directory, by the flock.  `LeaseHeld` says how much of
  the lease is left at each place of `run_session`, and that the slack is spent once.

### Devflow (`DevflowProofs`)

* `WorkersStartInOrder`, `ApprovalComesFirst`, `SuccessIsWhole` (`OrderInv`), for any number
  of overlapping commands: success of a stage's journal operation is final, and wherever a
  command is, the operations of the stages before its own have succeeded (`Prior`), so a
  stale command cannot start a stage too early whatever it writes to the run row.
* `WorkIsNotRepeated` (`OnceInv`), `WorkBuildsOnLast` (`TableInv`, `SourceInv`) and
  `RestingRunsResume` (`RestInv`), under `~Overlap`: `run` and `resume` check the run's
  status and nothing else keeps a second command out (`devflow.py`); with two executing at
  once each of the three fails.  `TableInv` says that the stage table is a row of succeeded
  stages, at most one other and nothing behind it; `SourceInv` that the source of a
  workspace is its stage or the last mutable one before it; `RestInv` that an unfinished run
  without an executor has a stage left, unless a command was killed or ended by an exception
  that no handler was left for (`CutShort`).  That
  `next_incomplete_stage` names the least such stage rests on `LeastOf`.

### Codebase index (`HybridIndexProofs`)

* `PointsAreKnown` and `CountsAreEnough` (`IndexInv`): every phase of a sync says what its
  lists still mean: what is recorded or about to be is in the corpus (`CorpusInv`), the
  queue selected before a transaction is that of the files it was selected for (`QueueInv`),
  no sync holds rows while an index command that has selected points waits (`MeetInv`), what
  is acknowledged has been deleted (`AckInv`).  `CorpusInv`, and for index commands the next
  two, hold while no index command commits into a sync (`raced`).  That equal counts mean
  equal sets is an argument on finite cardinalities: the recorded chunks are a subset of the
  indexed ones, which are finite because `Paths` is (`IndexAssumption`) and a text has
  finitely many chunks.
* `TypesHold` is the type correctness both rest on; no run lists `TypeOK`.

### Hypermemory (`HypermemoryProofs`)

* `VectorsBelongToRows` (`BaseInv`): a sync writes the vector rows only after its upsert
  succeeded, and a rebuild drops them with the rows; `TypesHold` comes with it.
* `FlushesKeepMeaning` (`RowsAgree`): outside a write and the rebuild that follows it, every
  row says what its line says, feedback aside, so a flush to remembered line numbers meets
  the lines it means.
* `StoredFactsAreCurrent` (`Facts`): a key has at most one live line in the bank
  (`OneLine`), a store between its two writes has cleared it (`Cleared`), what was told is
  written (`ToldIsWritten`), and once indexed the line has a row (`LinesHaveRows`); the
  registry's answer, the last of the rows, is then that line.  The hypothesis `NotesKeyless`
  says that the daily log a workspace starts with has no live line of a fact key; without it
  the property is false (`KeyedNotes`, §5).
* `HypermemoryAssumption` asks that a capture extracts at least one text and that notes are
  lines: the extraction loop is not entered for nothing.

### Retrieval (`RetrievalProofs`)

The module speaks of `CodeGraph` (`GraphSpec`) and of `MemorySearch` (`Spec`).

* `EdgesFollowFiles` (`GraphInv`): only `Commit` and `WriteBack` write the edge tables.  A
  commit replaces the import edges of what it touched, keeps the row of what it did not, and
  derives the symbol edges anew or, with nothing touched, stores those of the rows it had
  read, which are others only if it is marked (`stale`); a write-back that is not `raced`
  writes what the tables hold.
* `HitsWereLive`, `FactsAreCurrent`, `BestComesFirst` (`SearchInv`): a rebuild may fall
  between any two statements, so the invariant never speaks of the table that is there, but
  of the tables that were there while the search ran (`q.seen`): each candidate
  (`CandidatesWereLive`) and each hit (`ChosenWereLive`) is a row that was live in one of
  them, and the present table is one (`StagesFollow`).  Ids from Qdrant may be anything
  until `Loaded` has met them with a table.  Without a rebuild there is one table, and what
  the fact filter or the registry lets through is its current value.
* `ChosenInOrder` is why the order survives the diversity penalty: while hits are chosen,
  the last one is worth at least what is left of every candidate, since a penalty only ever
  lowers a score.
* The lists are filtered with `Picked`, which names the n-th position by a cardinality, and
  not with the library's recursive `SelectSeq`; `MemorySearchMC` has TLC compare the two
  (`PickedFilters`).  That the n-th least member of a finite set exists is shown by the
  least counterexample on finite cardinalities (`GreatestIn`, `NthIn`), which needs no
  induction theorem with an operator parameter.  `SearchAssumption` asks for finitely many
  entries and integer scores.

### Sidecars, recovery, setup (`OperationsProofs`, `HostSetupProofs`)

* `SchemaIsServed` (`SidecarsInv`): a litellm container that exists, and a command past its
  bootstrap, are evidence that the directory postgres mounts has the schema or that postgres
  was given another one (`Provisioned`), and every step keeps that evidence true.
* `ResetsAreSafe`: a reset that is alone (`AloneNow`) and about to remove a directory has
  seen postgres' container gone, and nobody was there to create it (`NoneToEmpty`).
* `ArchivesAreWhole`, `ReportedBackupsStay` (`RecoveryInv`): of a second in which one
  command began (`Sole`), the temporary and the published name are absent or a file that
  this command alone opened; a published one is finished (`Finished`), and a restore that
  reads it has read it whole.  Other commands, fallbacks and prunes only touch names of
  other seconds or files past their retention.
* `RecordedBootstrapWorks` (`MarkInv`) is about the *order* of the steps a command has left:
  whatever bootstrap still has to install stands before the step that records it
  (`ToolsBeforeMark`), and a docker it installed is granted before anything relies on it
  (`GrantAhead`, `AccessAhead`).
* `SetupKeepsItsWord` (`DeliverInv`) goes the same way for everything a setup promises: each
  fact (`Promised`: the profile's configuration and assets, the tools, the secret, the
  overlay, the services and units, the models) holds, or a step that establishes it is still
  in the list, and the steps that disturb it come before that one (`Plan`).  With an empty
  list nothing is ahead, so `Done` reports what is there; `AfterSetup` keeps it until the
  doctor that follows a full setup.  Two hypotheses speak of the asset trees:
  `TreesAgreeOnPorts`, that any listener of one tree is on a port the doctor probes for
  another, and `ShippedTreeIsSound`, that the shipped tree passes its reports when its own
  services run.  They are facts about files that the code does not check, and
  without the first the claim is false: a further service on 0.0.0.0 that no report looks
  for goes unnoticed.  TLC evaluates both for the trees of the run (`TreesAreShipped` in
  `HostSetupMC`).
* `SecretStays` (`SecretInv`): postgres never starts without a secret, a secret that exists
  is not generated again, and only a torn rewrite loses one.

### What stays with TLC

* Liveness under fairness: `RunningResolves`, `RunSettles`, `Converges`, `GraphsAlign`,
  `Refreshes`, `LeftoversGo`, both `Recovers`.
* What a recursive definition computes for every input: the windows of `BuildChunks` and
  the closure `Reached` of a pack.  A proof would be an induction over data, and the
  induction theorems of the library cannot be instantiated.  No invariant above depends on
  it: what is proved of chunks and packs holds for any windows and any file sets.
* What a docker, Qdrant or Neo4j does is an assumption of the models, in proofs and runs
  alike.

## 5. Where code and documents disagree

Each of these is a definition that a module states and no run lists, because the code
violates it; naming it in the cfg given shows the counterexample.  (`AtMostOnce` is listed,
for one invocation after the other.)

* `AtMostOnce` in `wrappers_racing.cfg`: wrapper operations are idempotent
  (`POLICY_ENGINE_AND_WRAPPERS.md:42`) only if their invocations do not overlap.  The
  transition from `running` to `running` is accepted, so two processes that both hold the
  approved row both send.
* `CancelIsFinal` (`devflow_overlap.cfg` with `Resumes = {}`;
  `DEVFLOW.md:46`): `record_stage_started`, `_finish_stage` and `mark_run_succeeded` write
  the run's status unconditionally and undo a cancellation.
* `ResumeTokenWorks` (`devflow_overlap.cfg`; `DEVFLOW.md:38`): a resume token is issued
  where a resume cannot succeed: a stage whose worker failed has a terminal journal
  operation under a key that does not change, so every resume fails at the first transition.
* `WorkerSeesWork` (`devflow_serial.cfg`; `devflow_workspaces.py:206`): a failed mutable
  stage is its own source when it is resumed, and its workspace is cleared before the copy.
* `VectorsExist` (`hybrid.cfg`; `CONTEXT_SERVICE.md:146`): indexing a changed file queues
  the points of all its chunks; the worker upserts those that did not change under the same
  id and then deletes them.  They stay recorded as embedded, so no later pass brings them
  back.  Saving a file without a change is enough.
* `ImportsComplete` (`graph.cfg`; `CONTEXT_SERVICE.md:14`): a file that is imported before
  it exists never gets its import edge, until the importing file changes.
* `MarkdownWins` (`hyper.cfg`; `HYPERMEMORY.md:55`): after a kill or an edit, a flush writes
  the metadata of old rows over the lines that now have their numbers.
* `StoredFactIsCurrent` with `Notes <- KeyedNotes` in `hyper.cfg` (the docstring of
  `get_fact`, `canonical_store_service.py:172`): an entry of a daily log keeps the
  registry's answer, whatever is stored in the bank later, because the registry takes the
  last row and daily rows come last.
* `GuidedConfigures` (`setup.cfg`; `README.md:84`): a guided setup with a managed secret
  backend is refused at the validation for want of an answer it does not ask for.

The models show, or exclude by a named exception, the following too:

* an operation that an operator cancels while its request is on the way is replayed as not
  executed, although it was delivered (`base.py:1035`; `ReplayReportsExecution` speaks of
  `succeeded` and `failed`);
* two sessions of one lock identity that share neither a journal nor a state directory have
  no lock in common and may run two workers.  A session that names no journal keeps it in
  its state directory (`acp_runner.py:96`, `655`), a stand-alone workflow in one of its
  workspace (`workflow_runner.py:641`); the stages of devflow are given the journal of the
  repository (`devflow.py:212`);
* overlapping `approve` and `reject` (`LifecycleSpec` in `wrappers_serial.cfg` with
  `Isolated = FALSE`); a request callable that raises leaves the row in `running` (the
  `raised` case of `RunningResolves`); a resume that read the run before it succeeded sets
  it back to running; a command that is killed, or that an exception ends outside the try
  block of `_execute_plan`, leaves a run that nobody can resume if it had no stage row yet
  or had done its last stage, and otherwise a run in `running` (the `CutShort` case of
  `RestingRunResumes` and `RunSettles`); a run all of whose stages succeeded is one of these
  when `mark_run_succeeded` raises; a stage approved in the review queue fails at its next
  dispatch because `approved -> pending_approval` is no move;
* an index command that commits into a sync leaves a vector row of a chunk that is gone: the
  counts differ from then on and retrieval stays lexical (`raced` in `Converges`); a file
  whose new content is no UTF-8 text keeps the rows and points of the old one for as long as
  it stays so (`Refused` in `Converges`); a vector row recorded between `IndexSelect` and
  `IndexCommit` of an index command loses its point (the last exception of
  `PointsStayKnown`); an index that becomes empty never clears its Neo4j graph, so the graph
  is compared over what `pack` can show; a pass that changes nothing and meets the commit of
  another run between its read and its delete stores symbol edges of the old texts, until
  the next run, and mirrors them into Neo4j under the snapshot of the new ones (`stale` in
  `EdgesMatchFiles`, `raced` in `GraphsAlign`); with more than `graph.limit` answers the two
  graphs may give different packs, as their queries have no order (`Uncut`);
* points of a failed hypermemory sync that the next rebuild does not produce stay in Qdrant
  for ever; a search by an exact fact key ignores its scope (the last line of
  `HitsAreLive`), and the fact filter runs after the limit, so hits may be missing;
* two backups that begin in one second share their names (`OwnStamp`); `prune-retention` may
  delete the last archive; an archive of hard links passes verification and cannot be
  restored;
* the schema of postgres is taken for granted when litellm is alive, whatever directory
  postgres has by now (`replaced`); a qdrant, neo4j or collector that is stuck stays so,
  however often `up` is repeated, because only postgres and litellm are recreated
  (`strongclaw_ops.py:724`; the exception of `Recovers`); `reset-compose-state` empties the
  directory when `docker compose ps` fails (`seen`);
* a bootstrap that installed docker and stopped before the grant never grants (`locked`); a
  kill within the rewrite of `.env.local` loses the database password (`torn`); the
  verification of a full `clawops setup` includes the browser lab, which setup does not
  start, so it passes only if that runs or with `--degraded-verify` (as `SETUP_GUIDE.md:391`
  says of the baseline); the embedding model
  is checked against the environment's profile and not the one being set up
  (`strongclaw_varlock_env.py:549`); the check-only scan of `doctor` writes `.env.local`; a
  listener on the IPv6 loopback counts as public.

Not modelled, but seen in the same code: an incremental pass changes the sparse vocabulary
under points that were encoded with the old one; the retry loop of `JsonHttpClient` repeats
a POST.

## 6. Plan

Done: the journal, wrappers and sessions; devflow; the codebase index and its graph;
hypermemory and its search; sidecars, recovery, setup, doctor and the platform checks; the
safety proofs of §4.

Next, in this order:

1. `HybridIndex`: the sparse vocabulary per point, a second worker, the small-scale branch.
2. `Hypermemory`: two commands at once, the proposals file, tier decay; the composition with
   `MemorySearch` over one table.
3. `PolicyEvaluation` and `HttpRetry` as modules with a reference definition; context
   envelopes.

Not modelled:

* configuration rendering beyond the allowlists, supply-chain, skill and repository checks,
  migration tools and CLI parsing: sequential code over files with no state that two steps
  share;
* the arithmetic of retrieval scores and embeddings: floating point; their order is modelled
  where a property needs it;
* the credential broker and backend registry: a pure verdict over the environment;
* launchd and macOS paths: the same steps with other commands;
* the OpenClaw plugins, which forward to the CLI or are vendored (the kill of a command by
  `strongclaw-hypermemory` is `Kill` in `Hypermemory`).
