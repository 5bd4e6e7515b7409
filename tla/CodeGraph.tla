------------------------------- MODULE CodeGraph -------------------------------
(***************************************************************************)
(* The dependency graph of the codebase index (context/codebase/           *)
(* service.py) at a scale whose configuration asks for Neo4j.  An index    *)
(* run replaces the import edges of the files it found changed and derives *)
(* all symbol edges anew, in the SQLite transaction that replaces the      *)
(* files; after the commit it reads nodes and edges back and mirrors them  *)
(* into Neo4j, statement by statement, or, when Neo4j does not answer and  *)
(* the scale allows it, into the SQLite table they came from.  The worker  *)
(* does this in a loop, index commands beside it, and nothing locks.       *)
(* `pack` adds to its hits the files the graph relates them to.            *)
(*                                                                         *)
(* A symbol edge and its converse are one pair, and a symbol called or     *)
(* mentioned is one that is used; weights and languages are left out, and  *)
(* every file that defines a symbol has a chunk that says so.              *)
(*                                                                         *)
(* Definitions named A_B are mutants of A, not part of the specification.  *)
(***************************************************************************)
EXTENDS Naturals, FiniteSets

CONSTANTS
  Paths, Symbols,
  Texts,      \* Texts[p]: the texts of file p, by what they import, define, use
  Worker,     \* the worker loop
  Indexers,   \* index commands that may run beside it
  Degradable, \* the processes whose scale allows the SQLite fallback
  Depth,      \* graph.depth
  Limit,      \* graph.limit (12 in the code)
  None,
  MaxEdits,   \* bound: how often files change
  MaxFaults   \* bound: how often Neo4j or a file cannot be read or a process dies

Procs   == {Worker} \cup Indexers
Imports == Paths \X Paths
Links   == Paths \X Symbols
Nodes   == Paths \cup Symbols

ASSUME GraphAssumption ==
  /\ Paths \cap Symbols = {} /\ Worker \notin Indexers /\ Degradable \subseteq Procs
  /\ \A p \in Paths : Texts[p] \subseteq
       [imports : SUBSET Paths, defines : SUBSET Symbols, uses : SUBSET Symbols]
  /\ {Depth, Limit} \subseteq Nat \ {0} /\ MaxEdits \in Nat /\ MaxFaults \in Nat

VARIABLES
  disk,      \* the repository: text and modification time of each file
  files,     \* table files
  imports,   \* table edges: the IMPORTS edges, their source the column path
  links,     \* table edges: DEFINES, CALLS and REFERENCES
  gnodes,    \* Neo4j: the snapshot_id each node carries
  gedges,    \* Neo4j: the snapshot_id each edge carries
  proc,      \* the local state of each process
  edits, faults,  \* how much of the two bounds is used
  raced      \* history: what met another run's transaction: a read-back, a
             \* write-back, a refresh; stale: the last refresh did

tables    == <<files, imports, links>>
neo4j     == <<gnodes, gedges>>
graphVars == <<disk, tables, neo4j, proc, edits, faults, raced>>

Gone == [text |-> None, mtime |-> 0]
Indexed == {p \in Paths : files[p] # Gone}

NoRun == [pc |-> "idle", seen |-> [p \in Paths |-> Gone], touched |-> {},
         snapshot |-> None, nodes |-> {}, imports |-> {}, links |-> {}]
Become(p, loc) == proc' = [proc EXCEPT ![p] = loc]
At(p, l) == proc[p].pc = l
Goto(p, l) == Become(p, [proc[p] EXCEPT !.pc = l])

GraphInit ==
  /\ disk \in [Paths -> [text : UNION {Texts[p] : p \in Paths}, mtime : {1}]]
  /\ \A p \in Paths : disk[p].text \in Texts[p]
  /\ files = [p \in Paths |-> Gone] /\ imports = {} /\ links = {}
  /\ gnodes = [n \in Nodes |-> None] /\ gedges = [e \in Imports \cup Links |-> None]
  /\ proc = [p \in Procs |-> NoRun]
  /\ edits = 0 /\ faults = 0 /\ raced = {}

-------------------------------------------------------------------------------
Edit(f) ==
  /\ edits < MaxEdits
  /\ edits' = edits + 1
  /\ \/ \E t \in Texts[f] : disk' = [disk EXCEPT ![f] = [text |-> t, mtime |-> edits + 2]]
     \/ disk[f] # Gone /\ disk' = [disk EXCEPT ![f] = Gone]
  /\ UNCHANGED <<tables, neo4j, proc, faults, raced>>

\* The walk of index_with_stats over the repository; a file that cannot be read
\* keeps its row and edges.  (An index command that finds nothing changed does
\* what a pass of the worker does.)
Scan(p) ==
  LET changed == {f \in Paths : disk[f].mtime # files[f].mtime} IN
  /\ At(p, "idle")
  /\ \E unreadable \in SUBSET {f \in changed : disk[f] # Gone} :
       LET touched == changed \ unreadable IN
       /\ unreadable # {} => faults < MaxFaults
       /\ faults' = IF unreadable = {} THEN faults ELSE faults + 1
       /\ p = Worker \/ touched # {}
       /\ Become(p, IF touched = {} THEN [NoRun EXCEPT !.pc = "refresh"]
                    ELSE [NoRun EXCEPT !.pc = "commit", !.seen = disk, !.touched = touched])
  /\ UNCHANGED <<disk, tables, neo4j, edits, raced>>

\* extract_import_edges: a text's imports are the paths its import statements
\* may stand for; those the walk found get an edge.
ImportEdges(f, seen) ==
  {<<f, g>> : g \in {g \in seen[f].text.imports : seen[g] # Gone}}

\* _refresh_symbol_graph_edges: what a file defines, and what it uses of the
\* symbols that some indexed file defines.
SymbolEdges(fs) ==
  LET indexed == {f \in Paths : fs[f] # Gone}
      known   == UNION {fs[f].text.defines : f \in indexed}
  IN  UNION {{f} \X (fs[f].text.defines \cup (fs[f].text.uses \cap known)) : f \in indexed}

\* A run that changes no file reads the rows for it before the statement that
\* opens its transaction.
Refresh(p) ==
  /\ At(p, "refresh")
  /\ Become(p, [proc[p] EXCEPT !.pc = "commit", !.links = SymbolEdges(files)])
  /\ UNCHANGED <<disk, tables, neo4j, edits, faults, raced>>

\* index_snapshot_id hashes paths and contents, not times.
Snapshot(fs) == [f \in Paths |-> fs[f].text]

\* Mutant: the edges of a removed file stay.
Commit_KeepEdges(p) ==
  LET w      == proc[p]
      stored == [f \in Paths |-> IF f \in w.touched THEN w.seen[f] ELSE files[f]]
      there  == {f \in w.touched : w.seen[f] # Gone}
      fresh  == IF w.touched = {} THEN w.links ELSE SymbolEdges(stored)
  IN
  /\ At(p, "commit")
  /\ files' = stored
  /\ imports' = {e \in imports : e[1] \notin there} \cup UNION {ImportEdges(f, w.seen) : f \in there}
  /\ links' = fresh
  /\ Become(p, [NoRun EXCEPT !.pc = "nodes", !.snapshot = Snapshot(stored)])
  /\ raced' = (raced \ {"stale"}) \cup {r \in {"refresh", "stale"} : fresh # SymbolEdges(stored)}
  /\ UNCHANGED <<disk, neo4j, edits, faults>>

\* The transaction of index_with_stats; the walk may be older than the rows.
Commit(p) ==
  LET w      == proc[p]
      stored == [f \in Paths |-> IF f \in w.touched THEN w.seen[f] ELSE files[f]]
      there  == {f \in w.touched : w.seen[f] # Gone}
      fresh  == IF w.touched = {} THEN w.links ELSE SymbolEdges(stored)
  IN
  /\ At(p, "commit")
  /\ files' = stored
  /\ imports' = {e \in imports : e[1] \notin w.touched} \cup UNION {ImportEdges(f, w.seen) : f \in there}
  /\ links' = fresh
  /\ Become(p, [NoRun EXCEPT !.pc = "nodes", !.snapshot = Snapshot(stored)])
  /\ raced' = (raced \ {"stale"}) \cup {r \in {"refresh", "stale"} : fresh # SymbolEdges(stored)}
  /\ UNCHANGED <<disk, neo4j, edits, faults>>

-------------------------------------------------------------------------------
\* _runtime_features finds Neo4j healthy; the nodes are those of the tables now.
LoadNodes(p) ==
  /\ At(p, "nodes")
  /\ Become(p, [proc[p] EXCEPT !.pc = "edges",
       !.nodes = Indexed \cup UNION {files[f].text.defines : f \in Indexed}])
  /\ UNCHANGED <<disk, tables, neo4j, edits, faults, raced>>

\* It does not: the fallback of a medium scale, else the run raises.
Unhealthy(p) ==
  /\ At(p, "nodes")
  /\ faults < MaxFaults /\ faults' = faults + 1
  /\ IF p \in Degradable THEN Goto(p, "degraded") ELSE Become(p, NoRun)
  /\ UNCHANGED <<disk, tables, neo4j, edits, raced>>

LoadEdges(p) ==
  /\ proc[p].pc \in {"edges", "degraded"}
  /\ Become(p, [proc[p] EXCEPT !.imports = imports, !.links = links,
                               !.pc = IF @ = "degraded" THEN "write_back" ELSE "merge_nodes"])
  /\ raced' = raced \cup {r \in {"read"} : Snapshot(files) # proc[p].snapshot}
  /\ UNCHANGED <<disk, tables, neo4j, edits, faults>>

\* SqliteGraphBackend.upsert, on a connection of its own.
WriteBack(p) ==
  LET w == proc[p] IN
  /\ At(p, "write_back")
  /\ imports' = imports \cup w.imports
  /\ links' = links \cup w.links
  /\ raced' = raced \cup {r \in {"write"} : ~(w.imports \subseteq imports /\ w.links \subseteq links)}
  /\ Become(p, NoRun)
  /\ UNCHANGED <<disk, files, neo4j, edits, faults>>

\* Neo4jGraphBackend.upsert: four statements, each a transaction.  Without any
\* node it returns at once.
MergeNodes(p) ==
  LET w == proc[p] IN
  /\ At(p, "merge_nodes")
  /\ gnodes' = [n \in Nodes |-> IF n \in w.nodes THEN w.snapshot ELSE gnodes[n]]
  /\ IF w.nodes = {} THEN Become(p, NoRun) ELSE Goto(p, "merge_edges")
  /\ UNCHANGED <<disk, tables, gedges, edits, faults, raced>>

\* An edge is merged between nodes that exist.
MergeEdges(p) ==
  LET w      == proc[p]
      merged == {e \in w.imports \cup w.links : gnodes[e[1]] # None /\ gnodes[e[2]] # None}
  IN
  /\ At(p, "merge_edges")
  /\ gedges' = [e \in DOMAIN gedges |-> IF e \in merged THEN w.snapshot ELSE gedges[e]]
  /\ Become(p, [NoRun EXCEPT !.pc = "drop_edges", !.snapshot = w.snapshot])
  /\ UNCHANGED <<disk, tables, gnodes, edits, faults, raced>>

Stamped(f, snapshot) == [x \in DOMAIN f |-> IF f[x] = snapshot THEN snapshot ELSE None]

\* Mutant: stale edges go with stale nodes only.
DropEdges_Later(p) ==
  /\ At(p, "drop_edges")
  /\ Goto(p, "drop_nodes")
  /\ UNCHANGED <<disk, tables, neo4j, edits, faults, raced>>

DropEdges(p) ==
  /\ At(p, "drop_edges")
  /\ gedges' = Stamped(gedges, proc[p].snapshot)
  /\ Goto(p, "drop_nodes")
  /\ UNCHANGED <<disk, tables, gnodes, edits, faults, raced>>

\* Stale nodes go with their edges.
DropNodes(p) ==
  /\ At(p, "drop_nodes")
  /\ gnodes' = Stamped(gnodes, proc[p].snapshot)
  /\ gedges' = [e \in DOMAIN gedges |-> IF None \in {gnodes'[e[1]], gnodes'[e[2]]} THEN None ELSE gedges[e]]
  /\ Become(p, NoRun)
  /\ UNCHANGED <<disk, tables, edits, faults, raced>>

\* A process is killed, or an exception of the Neo4j driver ends its run; the
\* worker is started again.
Crash(p) ==
  /\ faults < MaxFaults /\ faults' = faults + 1
  /\ ~At(p, "idle")
  /\ Become(p, NoRun)
  /\ UNCHANGED <<disk, tables, neo4j, edits, raced>>

GraphStep(p) ==
  \/ Scan(p) \/ Refresh(p) \/ Commit(p) \/ LoadNodes(p) \/ LoadEdges(p) \/ WriteBack(p)
  \/ MergeNodes(p) \/ MergeEdges(p) \/ DropEdges(p) \/ DropNodes(p)

GraphNext ==
  \/ \E f \in Paths : Edit(f)
  \/ \E p \in Procs : GraphStep(p) \/ Unhealthy(p) \/ Crash(p)

GraphSpec == GraphInit /\ [][GraphNext]_graphVars

\* The worker's loop goes on; an index command may stop anywhere.
GraphFairness == WF_graphVars(GraphStep(Worker))
GraphFairSpec == GraphSpec /\ GraphFairness

-------------------------------------------------------------------------------
\* What `pack` reads: a graph is a pair of import edges and symbol links.
Sqlite == [imports |-> imports, links |-> links]
Neo4j  == [imports |-> {e \in Imports : gedges[e] # None},
           links   |-> {e \in Links : gedges[e] # None}]

\* neighbors over IMPORTS: what a file reaches in at most Depth edges.
Reached(graph, f) ==
  LET within[d \in Nat] ==
        IF d = 0 THEN {f}
        ELSE within[d - 1] \cup {g \in Paths : \E h \in within[d - 1] : <<h, g>> \in graph.imports}
  IN  within[Depth]

\* neighbors of depth 1 to the symbols, and from these back to files.
Related(graph, f) ==
  {g \in Paths : \E s \in Symbols : {<<f, s>>, <<g, s>>} \subseteq graph.links}

\* _dependency_expansion of the hits.
Expansion(graph, hits) ==
  UNION {Reached(graph, f) \cup Related(graph, f) : f \in hits} \ hits

\* Each of these queries has a LIMIT and no order, so what the pack of the hits
\* shows is determined if no query has more answers.  (Neo4j may answer with
\* the file itself.)
Uncut(graph, hits) ==
  \A f \in hits :
    /\ Cardinality(Reached(graph, f)) <= Limit
    /\ Cardinality({s \in Symbols : <<f, s>> \in graph.links}) <= Limit
    /\ \A s \in Symbols : <<f, s>> \in graph.links =>
         Cardinality({g \in Paths : <<g, s>> \in graph.links}) <= Limit

\* load_file_records: a pack can show what is indexed.
Shown(fs) == fs \cap Indexed

\* The files in the pack of a query with these hits.
Pack(graph, hits) == hits \cup Shown(Expansion(graph, hits))

-------------------------------------------------------------------------------
(* An incremental run leaves no edge that the indexed texts do not justify *)
(* and no symbol edge out, although it looks at changed files only: an     *)
(* import edge is one the present text of its source names, and the symbol *)
(* edges are those of the files.  A write-back of the SQLite fallback that *)
(* meets another run's transaction may bring removed edges back, and a run *)
(* that changes no file may refresh the symbol edges from rows another run *)
(* has replaced, until the next run does it anew.                          *)
EdgesMatchFiles ==
  \/ "write" \in raced
  \/ /\ \A e \in imports : e[1] \in Indexed /\ e[2] \in files[e[1]].text.imports
     /\ "stale" \in raced \/ links = SymbolEdges(files)

\* The graph the indexed texts describe.
Named == [imports |-> {e \in Indexed \X Indexed : e[2] \in files[e[1]].text.imports},
          links   |-> SymbolEdges(files)]

(* The Neo4j graph and its SQLite fallback come to put the same files into *)
(* a pack (CONTEXT_SERVICE.md:153 "keeps the SQLite graph fallback         *)
(* aligned"), whatever upserts of the worker and of index commands were    *)
(* interleaved or cut off: Neo4j shows what SQLite does, and no more than  *)
(* an import the texts name that an earlier run of the same snapshot had   *)
(* put there.  It speaks of packs no LIMIT cuts: beyond graph.limit either *)
(* backend may answer with any of the files.  Exception: a run that read   *)
(* rows or edges of another run's snapshot back, or wrote edges over it    *)
(* (raced).                                                                *)
GraphsAlign ==
  <>[](raced # {} \/ \A hits \in SUBSET Indexed :
                       (\A graph \in {Sqlite, Neo4j} : Uncut(graph, hits)) =>
                         /\ Pack(Sqlite, hits) \subseteq Pack(Neo4j, hits)
                         /\ Pack(Neo4j, hits) \subseteq Pack(Named, hits))

(* Every import of an indexed file by an indexed file has its edge.  It    *)
(* does not hold: the edges of a file are resolved when it changes, and an *)
(* imported file that comes later is not seen (service.py:1896).           *)
ImportsComplete ==
  \A f, g \in Indexed : g \in files[f].text.imports => <<f, g>> \in imports
===============================================================================
