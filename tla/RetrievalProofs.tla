---------------------------- MODULE RetrievalProofs ----------------------------
(***************************************************************************)
(* Proofs about what the two kinds of retrieval read: CodeGraph, the       *)
(* dependency graph behind a context pack, and MemorySearch, one search of *)
(* the memory beside the commands that rebuild its index.                  *)
(***************************************************************************)
EXTENDS CodeGraph, MemorySearch, FiniteSetTheorems, SequenceTheorems,
        WellFoundedInduction, NaturalsInduction, TLAPS

(***************************************************************************)
(* CODE GRAPH.  However passes of the worker and index commands overlap,   *)
(* fail or are killed, the edges of the tables are those of the indexed    *)
(* texts, unless a write-back met another run's transaction or the last    *)
(* refresh of the symbol edges did.                                        *)
(***************************************************************************)

AllTexts == UNION {Texts[f] : f \in Paths}
File == {Gone} \cup [text : AllTexts, mtime : Nat \ {0}]

GraphPC == {"idle", "refresh", "commit", "nodes", "edges", "degraded", "write_back",
            "merge_nodes", "merge_edges", "drop_edges", "drop_nodes"}

GraphLocal == [pc : GraphPC, seen : [Paths -> File], touched : SUBSET Paths,
               snapshot : {None} \cup [Paths -> AllTexts \cup {None}], nodes : SUBSET Nodes,
               imports : SUBSET Imports, links : SUBSET Links]

GraphTyped ==
  /\ disk \in [Paths -> File] /\ files \in [Paths -> File]
  /\ imports \subseteq Imports /\ links \subseteq Links
  /\ proc \in [Procs -> GraphLocal] /\ edits \in Nat

GraphInv == GraphTyped /\ EdgesMatchFiles

LEMMA TextParts ==
  ASSUME NEW t \in AllTexts
  PROVE  t.imports \subseteq Paths /\ t.defines \subseteq Symbols /\ t.uses \subseteq Symbols
BY GraphAssumption DEF AllTexts, GraphAssumption

LEMMA FileParts ==
  ASSUME NEW fs \in [Paths -> File], NEW f \in Paths
  PROVE  /\ fs[f].text \in AllTexts \cup {None} /\ fs[f].mtime \in Nat
         /\ fs[f] # Gone => fs[f].text \in AllTexts
BY DEF File, Gone

\* The edges derived from texts join files and symbols.
LEMMA EdgesTyped ==
  ASSUME NEW fs \in [Paths -> File]
  PROVE  /\ SymbolEdges(fs) \subseteq Links
         /\ \A f \in Paths : fs[f] # Gone => ImportEdges(f, fs) \subseteq Imports
<1>1. ASSUME NEW f \in Paths, fs[f] # Gone
      PROVE  /\ fs[f].text.imports \subseteq Paths
             /\ fs[f].text.defines \subseteq Symbols /\ fs[f].text.uses \subseteq Symbols
  BY <1>1, FileParts, TextParts
<1>2. SymbolEdges(fs) \subseteq Links
  BY <1>1 DEF SymbolEdges, Links
<1>3. ASSUME NEW f \in Paths, fs[f] # Gone PROVE ImportEdges(f, fs) \subseteq Imports
  BY <1>1, <1>3 DEF ImportEdges, Imports
<1> QED
  BY <1>2, <1>3

LEMMA NoRunTyped == NoRun \in GraphLocal
BY DEF NoRun, GraphLocal, GraphPC, File

LEMMA GraphInitHolds == GraphInit => GraphInv
<1> SUFFICES ASSUME GraphInit PROVE GraphInv
  OBVIOUS
<1>1. disk \in [Paths -> File]
  BY DEF GraphInit, File, AllTexts
<1>2. files \in [Paths -> File] /\ Indexed = {}
  BY DEF GraphInit, File, Indexed
<1>3. GraphTyped
  BY <1>1, <1>2, NoRunTyped DEF GraphInit, GraphTyped
<1>4. SymbolEdges(files) = {}
  BY <1>2 DEF SymbolEdges, Indexed
<1> QED
  BY <1>3, <1>4 DEF GraphInv, EdgesMatchFiles, GraphInit

\* A process that only moves on, or ends, leaves the tables alone.
LEMMA GraphMoves ==
  ASSUME GraphInv, NEW p \in Procs, NEW loc \in GraphLocal, Become(p, loc),
         UNCHANGED <<disk, tables, edits>>, raced \subseteq raced'
  PROVE  GraphInv'
<1>1. GraphTyped'
  BY DEF GraphInv, GraphTyped, Become, tables
<1>2. EdgesMatchFiles'
  <2>1. CASE "write" \in raced
    BY <2>1 DEF EdgesMatchFiles
  <2>2. CASE "write" \notin raced
    BY <2>2 DEF GraphInv, EdgesMatchFiles, Indexed, SymbolEdges, tables
  <2> QED
    BY <2>1, <2>2
<1> QED
  BY <1>1, <1>2 DEF GraphInv

LEMMA LocalParts ==
  ASSUME GraphTyped, NEW p \in Procs, NEW pc \in GraphPC
  PROVE  proc[p] \in GraphLocal /\ [proc[p] EXCEPT !.pc = pc] \in GraphLocal
BY DEF GraphTyped, GraphLocal

LEMMA EditKeepsGraph ==
  ASSUME GraphInv, NEW f \in Paths, Edit(f)
  PROVE  GraphInv'
<1>1. disk' \in [Paths -> File] /\ edits' \in Nat
  BY DEF Edit, GraphInv, GraphTyped, File, AllTexts
<1>2. UNCHANGED <<files, imports, links, proc, raced>>
  BY DEF Edit, tables
<1> QED
  BY <1>1, <1>2 DEF GraphInv, GraphTyped, EdgesMatchFiles, Indexed, SymbolEdges

\* The transaction of an index run: what it leaves of the old edges has a source
\* it did not touch, and what it adds is in the text it stores.
LEMMA CommitKeepsGraph ==
  ASSUME GraphInv, NEW p \in Procs, Commit(p)
  PROVE  GraphInv'
<1> DEFINE w == proc[p]
           stored == [f \in Paths |-> IF f \in w.touched THEN w.seen[f] ELSE files[f]]
           there == {f \in w.touched : w.seen[f] # Gone}
           fresh == IF w.touched = {} THEN w.links ELSE SymbolEdges(stored)
           loc == [NoRun EXCEPT !.pc = "nodes", !.snapshot = Snapshot(stored)]
<1>1. /\ files' = stored
      /\ imports' = {e \in imports : e[1] \notin w.touched}
                      \cup UNION {ImportEdges(f, w.seen) : f \in there}
      /\ links' = fresh
      /\ proc' = [proc EXCEPT ![p] = loc]
      /\ raced' = (raced \ {"stale"}) \cup {r \in {"refresh", "stale"} : fresh # SymbolEdges(stored)}
      /\ UNCHANGED <<disk, edits>>
  BY DEF Commit, Become
<1>2. /\ w.touched \subseteq Paths /\ w.seen \in [Paths -> File] /\ stored \in [Paths -> File]
      /\ w.links \subseteq Links
  BY DEF GraphInv, GraphTyped, GraphLocal
<1>3. /\ \A f \in Paths : f \in w.touched => stored[f] = w.seen[f]
      /\ \A f \in Paths : f \notin w.touched => stored[f] = files[f]
  OBVIOUS
<1>4. loc \in GraphLocal
  <2>1. Snapshot(stored) \in [Paths -> AllTexts \cup {None}]
    BY <1>2, FileParts DEF Snapshot
  <2> QED
    BY <2>1, NoRunTyped DEF GraphLocal, GraphPC
<1>5. links' \subseteq Links /\ \A f \in there : ImportEdges(f, w.seen) \subseteq Imports
  BY <1>1, <1>2, EdgesTyped
<1>8. /\ "write" \in raced => "write" \in raced'
      /\ "stale" \in raced' \/ links' = SymbolEdges(stored)
  BY <1>1
<1> HIDE DEF stored, loc, fresh
<1>6. GraphTyped'
  BY <1>1, <1>2, <1>4, <1>5 DEF GraphInv, GraphTyped
<1>7. EdgesMatchFiles'
  <2>1. ASSUME "write" \notin raced, NEW e \in imports'
        PROVE  e[1] \in Paths /\ stored[e[1]] # Gone /\ e[2] \in stored[e[1]].text.imports
    <3>1. CASE e \in imports /\ e[1] \notin w.touched
      BY <1>3, <2>1, <3>1 DEF GraphInv, EdgesMatchFiles, Indexed
    <3>2. CASE \E f \in there : e \in ImportEdges(f, w.seen)
      <4>1. PICK f \in there : e \in ImportEdges(f, w.seen)
        BY <3>2
      <4>2. e[1] = f /\ e[2] \in w.seen[f].text.imports
        BY <4>1 DEF ImportEdges
      <4> QED
        BY <1>2, <1>3, <4>1, <4>2
    <3> QED
      BY <1>1, <2>1, <3>1, <3>2
  <2>2. "stale" \in raced' \/ links' = SymbolEdges(files')
    BY <1>1, <1>8
  <2>3. "write" \in raced \/ \A e \in imports' : e[1] \in Indexed' /\ e[2] \in files'[e[1]].text.imports
    BY <1>1, <2>1 DEF Indexed
  <2> QED
    BY <1>8, <2>2, <2>3 DEF EdgesMatchFiles, SymbolEdges
<1> QED
  BY <1>6, <1>7 DEF GraphInv

\* The fallback adds nothing to the tables that was not there, or it met
\* another run's transaction.
LEMMA WriteBackKeepsGraph ==
  ASSUME GraphInv, NEW p \in Procs, WriteBack(p)
  PROVE  GraphInv'
<1>1. /\ imports' = imports \cup proc[p].imports /\ links' = links \cup proc[p].links
      /\ raced' = raced \cup {r \in {"write"} : ~(proc[p].imports \subseteq imports
                                                 /\ proc[p].links \subseteq links)}
      /\ proc' = [proc EXCEPT ![p] = NoRun] /\ UNCHANGED <<disk, files, edits>>
  BY DEF WriteBack, Become
<1>2. GraphTyped'
  BY <1>1, NoRunTyped DEF GraphInv, GraphTyped, GraphLocal
<1>3. EdgesMatchFiles'
  <2>1. CASE "write" \in raced'
    BY <2>1 DEF EdgesMatchFiles
  <2>2. CASE "write" \notin raced'
    <3>1. imports' = imports /\ links' = links /\ "write" \notin raced
      BY <1>1, <2>2
    <3> QED
      BY <1>1, <3>1 DEF GraphInv, EdgesMatchFiles, Indexed, SymbolEdges
  <2> QED
    BY <2>1, <2>2
<1> QED
  BY <1>2, <1>3 DEF GraphInv

LEMMA GraphStepHolds ==
  ASSUME GraphInv, GraphNext
  PROVE  GraphInv'
<1> USE DEF GraphPC
<1>0. GraphTyped
  BY DEF GraphInv
<1>1. CASE \E f \in Paths : Edit(f)
  BY <1>1, EditKeepsGraph
<1>2. ASSUME NEW p \in Procs, Commit(p) \/ WriteBack(p) PROVE GraphInv'
  BY <1>2, CommitKeepsGraph, WriteBackKeepsGraph
<1>3. ASSUME NEW p \in Procs, Scan(p) PROVE GraphInv'
  <2> DEFINE ToCommit(touched) == [NoRun EXCEPT !.pc = "commit", !.seen = disk, !.touched = touched]
             toRefresh == [NoRun EXCEPT !.pc = "refresh"]
  <2>1. PICK touched \in SUBSET Paths :
          Become(p, IF touched = {} THEN toRefresh ELSE ToCommit(touched))
    BY <1>3 DEF Scan
  <2>2. toRefresh \in GraphLocal /\ ToCommit(touched) \in GraphLocal
    BY <1>0, NoRunTyped DEF GraphTyped, GraphLocal
  <2>3. UNCHANGED <<disk, tables, edits, raced>>
    BY <1>3 DEF Scan
  <2> HIDE DEF ToCommit, toRefresh
  <2>4. PICK loc \in GraphLocal : Become(p, loc)
    BY <2>1, <2>2
  <2> QED
    BY <2>3, <2>4, GraphMoves
<1>7. ASSUME NEW p \in Procs, Refresh(p) PROVE GraphInv'
  <2> DEFINE loc == [proc[p] EXCEPT !.pc = "commit", !.links = SymbolEdges(files)]
  <2>1. SymbolEdges(files) \subseteq Links
    BY <1>0, EdgesTyped DEF GraphTyped
  <2>2. loc \in GraphLocal
    BY <1>0, <2>1 DEF GraphTyped, GraphLocal
  <2>3. Become(p, loc) /\ UNCHANGED <<disk, tables, edits, raced>>
    BY <1>7 DEF Refresh
  <2> HIDE DEF loc
  <2> QED
    BY <2>2, <2>3, GraphMoves
<1>8. ASSUME NEW p \in Procs, MergeEdges(p) PROVE GraphInv'
  <2> DEFINE loc == [NoRun EXCEPT !.pc = "drop_edges", !.snapshot = proc[p].snapshot]
  <2>1. loc \in GraphLocal
    BY <1>0, NoRunTyped DEF GraphTyped, GraphLocal
  <2>2. Become(p, loc) /\ UNCHANGED <<disk, tables, edits, raced>>
    BY <1>8 DEF MergeEdges
  <2> HIDE DEF loc
  <2> QED
    BY <2>1, <2>2, GraphMoves
<1>4. ASSUME NEW p \in Procs, LoadNodes(p) PROVE GraphInv'
  <2> DEFINE nodes == Indexed \cup UNION {files[f].text.defines : f \in Indexed}
             loc == [proc[p] EXCEPT !.pc = "edges", !.nodes = nodes]
  <2>1. nodes \subseteq Nodes
    <3>1. \A f \in Indexed : files[f].text.defines \subseteq Symbols
      BY <1>0, FileParts, TextParts DEF Indexed, GraphTyped
    <3> QED
      BY <3>1 DEF Nodes, Indexed
  <2> HIDE DEF nodes
  <2>2. loc \in GraphLocal
    BY <1>0, <2>1 DEF GraphTyped, GraphLocal
  <2>3. Become(p, loc) /\ UNCHANGED <<disk, tables, edits, raced>>
    BY <1>4 DEF LoadNodes, nodes
  <2> HIDE DEF loc
  <2> QED
    BY <2>2, <2>3, GraphMoves
<1>5. ASSUME NEW p \in Procs, LoadEdges(p) PROVE GraphInv'
  <2>1. PICK pc \in GraphPC : pc = IF proc[p].pc = "degraded" THEN "write_back" ELSE "merge_nodes"
    OBVIOUS
  <2> DEFINE loc == [proc[p] EXCEPT !.imports = imports, !.links = links, !.pc = pc]
  <2>2. loc \in GraphLocal
    BY <1>0, <2>1 DEF GraphTyped, GraphLocal
  <2>3. /\ Become(p, loc) /\ UNCHANGED <<disk, tables, edits>>
        /\ raced \subseteq raced'
    BY <1>5, <2>1, <1>0 DEF LoadEdges, GraphTyped, GraphLocal
  <2> HIDE DEF loc
  <2> QED
    BY <2>2, <2>3, GraphMoves
<1>6. ASSUME NEW p \in Procs,
             \/ MergeNodes(p) \/ DropEdges(p) \/ DropNodes(p)
             \/ Unhealthy(p) \/ Crash(p)
      PROVE  GraphInv'
  <2>1. /\ UNCHANGED <<disk, tables, edits, raced>>
        /\ \/ Become(p, NoRun)
           \/ \E pc \in GraphPC : Goto(p, pc)
    BY <1>6 DEF MergeNodes, DropEdges, DropNodes, Unhealthy, Crash
  <2>2. CASE Become(p, NoRun)
    BY <2>1, <2>2, NoRunTyped, GraphMoves
  <2>3. CASE \E pc \in GraphPC : Goto(p, pc)
    <3>1. PICK pc \in GraphPC : Goto(p, pc)
      BY <2>3
    <3>2. PICK loc \in GraphLocal : loc = [proc[p] EXCEPT !.pc = pc]
      BY <1>0, LocalParts
    <3> QED
      BY <2>1, <3>1, <3>2, GraphMoves DEF Goto
  <2> QED
    BY <2>1, <2>2, <2>3
<1> QED
  BY <1>1, <1>2, <1>3, <1>4, <1>5, <1>6, <1>7, <1>8 DEF GraphNext, GraphStep

\* Without a write-back that met another run's transaction, every import edge is
\* one the indexed text of its source names, and the symbol edges are exactly
\* those of the indexed texts, except after a refresh that had read the rows
\* another run then replaced (index_with_stats, _refresh_symbol_graph_edges,
\* SqliteGraphBackend.upsert), for any files, edits, index commands and faults.
THEOREM EdgesFollowFiles == GraphSpec => []EdgesMatchFiles
<1>1. GraphInv /\ [GraphNext]_graphVars => GraphInv'
  <2>1. ASSUME GraphInv, UNCHANGED graphVars PROVE GraphInv'
    BY <2>1 DEF graphVars, tables, GraphInv, GraphTyped, EdgesMatchFiles, Indexed, SymbolEdges
  <2> QED
    BY <2>1, GraphStepHolds
<1>2. GraphInv => EdgesMatchFiles
  BY DEF GraphInv
<1> QED
  BY GraphInitHolds, <1>1, <1>2, PTL DEF GraphSpec


(***************************************************************************)
(* MEMORY SEARCH: the operators.                                           *)
(***************************************************************************)

Less == {x \in Nat \X Nat : x[1] < x[2]}

LEMMA LeastIn ==
  ASSUME NEW S \in SUBSET Nat, S # {}
  PROVE  \E i \in S : \A j \in S : i <= j
<1>1. IsWellFoundedOn(Less, Nat)
  BY NatLessThanWellFounded DEF OpToRel, Less
<1>2. PICK i \in S : \A j \in S : <<j, i>> \notin Less
  BY <1>1, WFMin
<1>3. ASSUME NEW j \in S PROVE i <= j
  <2>1. i \in Nat /\ j \in Nat
    OBVIOUS
  <2>2. j < i => <<j, i>> \in Less
    BY <2>1 DEF Less
  <2> QED
    BY <1>2, <2>1, <2>2
<1> QED
  BY <1>3

\* A finite set of integers has a greatest member: were the n-th number of some
\* enumeration the first to leave none, one of two would still do.
LEMMA GreatestIn ==
  ASSUME NEW S \in SUBSET Int, IsFiniteSet(S), S # {}
  PROVE  \E x \in S : \A y \in S : x >= y
<1> DEFINE N == Cardinality(S)
<1>1. N \in Nat /\ \E f : f \in Bijection(1..N, S)
  BY FS_CardinalityType DEF ExistsBijection
<1>2. PICK f : f \in Bijection(1..N, S)
  BY <1>1
<1> HIDE DEF N
<1>3. /\ \A m \in 1..N : f[m] \in S /\ f[m] \in Int
      /\ \A y \in S : \E m \in 1..N : f[m] = y
  BY <1>2 DEF Bijection, Injection, Surjection
<1>4. N >= 1
  <2>1. PICK y \in S : TRUE
    OBVIOUS
  <2>2. PICK m \in 1..N : f[m] = y
    BY <1>3
  <2> QED
    BY <1>1, <2>2
<1> DEFINE Bad == {n \in 1..N : ~\E m \in 1..n : \A l \in 1..n : f[m] >= f[l]}
<1>5. Bad = {}
  <2> SUFFICES ASSUME Bad # {} PROVE FALSE
    OBVIOUS
  <2>1. Bad \in SUBSET Nat
    BY <1>1
  <2>2. PICK n \in Bad : \A k \in Bad : n <= k
    BY <2>1, LeastIn
  <2>3. n \in 1..N /\ n # 1
    <3>1. 1 \in 1..N /\ f[1] \in Int /\ f[1] >= f[1]
      BY <1>1, <1>3, <1>4, SMTT(60)
    <3>2. \A l \in 1..1 : l = 1
      OBVIOUS
    <3>3. 1 \in 1..1 /\ \A l \in 1..1 : f[1] >= f[l]
      BY <3>1, <3>2
    <3>4. 1 \notin Bad
      BY <3>3
    <3> QED
      BY <2>2, <3>4
  <2>4. n - 1 \in 1..N /\ n - 1 \notin Bad
    <3>1. n - 1 \in 1..N /\ ~(n <= n - 1)
      BY <1>1, <2>3
    <3> HIDE DEF Bad
    <3> QED
      BY <2>2, <3>1
  <2>5. PICK m \in 1..(n - 1) : \A l \in 1..(n - 1) : f[m] >= f[l]
    BY <2>4
  <2>6. /\ m \in 1..n /\ f[m] \in Int /\ f[n] \in Int
        /\ \A l \in 1..n : f[l] \in Int /\ (l = n \/ l \in 1..(n - 1))
    <3>1. m \in 1..n /\ n \in 1..N /\ \A l \in 1..n : l \in 1..N /\ (l = n \/ l \in 1..(n - 1))
      <4>1. m \in 1..(n - 1) /\ n \in Nat /\ n <= N
        BY <1>1, <2>3, <2>5
      <4> QED
        BY <1>1, <2>3, <4>1, SMTT(60)
    <3>2. \A l \in 1..N : f[l] \in Int
      BY <1>3
    <3> QED
      BY <2>3, <3>1, <3>2
  <2>7. CASE f[m] >= f[n]
    <3>1. \A l \in 1..n : f[m] >= f[l]
      BY <2>5, <2>6, <2>7
    <3> QED
      BY <2>2, <2>6, <3>1
  <2>8. CASE f[n] >= f[m]
    <3>1. \A l \in 1..n : f[n] >= f[l]
      BY <2>5, <2>6, <2>8
    <3>2. n \in 1..n
      BY <2>3
    <3> QED
      BY <2>2, <3>1, <3>2
  <2> QED
    BY <2>6, <2>7, <2>8
<1>6. PICK m \in 1..N : \A l \in 1..N : f[m] >= f[l]
  <2>1. N \in 1..N
    BY <1>1, <1>4
  <2>2. N \notin Bad
    BY <1>5
  <2> QED
    BY <2>1, <2>2
<1> QED
  BY <1>3, <1>6

LEMMA MaxOf ==
  ASSUME NEW S \in SUBSET Int, IsFiniteSet(S), S # {}
  PROVE  Max(S) \in S /\ \A y \in S : Max(S) >= y
BY GreatestIn DEF Max

LEMMA MaxOfTwo ==
  ASSUME NEW x \in Int
  PROVE  Max({0, x}) = IF x > 0 THEN x ELSE 0
BY DEF Max

\* The numbers up to i of a set, counted: the count grows by at most one.
LEMMA CountUpTo ==
  ASSUME NEW k \in Nat, NEW S \in SUBSET (1..k)
  PROVE  /\ IsFiniteSet(S) /\ Cardinality(S) \in 0..k
         /\ Cardinality({j \in S : j <= 0}) = 0
         /\ Cardinality({j \in S : j <= k}) = Cardinality(S)
         /\ \A i \in Nat : Cardinality({j \in S : j <= i}) \in Nat
         /\ \A i \in Nat \ {0} :
              Cardinality({j \in S : j <= i}) =
                Cardinality({j \in S : j <= i - 1}) + (IF i \in S THEN 1 ELSE 0)
<1>0. \A j \in S : j \in Nat /\ j > 0 /\ j <= k
  OBVIOUS
<1>1. IsFiniteSet(S) /\ Cardinality(S) \in 0..k
  <2>1. IsFiniteSet(1..k) /\ Cardinality(1..k) = k
    BY FS_Interval
  <2>2. IsFiniteSet(S) /\ Cardinality(S) <= k
    BY <2>1, FS_Subset
  <2> QED
    BY <2>2, FS_CardinalityType
<1>2. {j \in S : j <= 0} = {} /\ {j \in S : j <= k} = S
  <2>1. \A j \in S : ~(j <= 0) /\ j <= k
    BY <1>0
  <2> QED
    BY <2>1
<1>3. \A i \in Nat : IsFiniteSet({j \in S : j <= i}) /\ Cardinality({j \in S : j <= i}) \in Nat
  BY <1>1, FS_Subset, FS_CardinalityType
<1>4. ASSUME NEW i \in Nat \ {0}
      PROVE  Cardinality({j \in S : j <= i}) =
               Cardinality({j \in S : j <= i - 1}) + (IF i \in S THEN 1 ELSE 0)
  <2> DEFINE T == {j \in S : j <= i - 1}
  <2>0. /\ \A j \in S : j <= i <=> j <= i - 1 \/ j = i
        /\ i - 1 \in Nat /\ ~(i <= i - 1)
    BY <1>0
  <2>1. i \in S => {j \in S : j <= i} = T \cup {i}
    BY <2>0
  <2>2. i \notin S => {j \in S : j <= i} = T
    BY <2>0
  <2>3. i \notin T /\ IsFiniteSet(T) /\ Cardinality(T) \in Nat
    BY <1>3, <2>0
  <2> HIDE DEF T
  <2>4. Cardinality(T \cup {i}) = Cardinality(T) + 1
    BY <2>3, FS_AddElement
  <2>5. Cardinality({j \in S : j <= i}) = Cardinality(T) + (IF i \in S THEN 1 ELSE 0)
    BY <2>1, <2>2, <2>3, <2>4
  <2> QED
    BY <2>5 DEF T
<1> QED
  BY <1>1, <1>2, <1>3, <1>4, FS_EmptySet


\* Nth counts a set of numbers through: every place has a member of its own, in
\* their order.
LEMMA NthIn ==
  ASSUME NEW k \in Nat, NEW S \in SUBSET (1..k), NEW n \in 1..Cardinality(S)
  PROVE  Nth(S, n) \in S /\ Cardinality({j \in S : j <= Nth(S, n)}) = n
<1> DEFINE Upto(i) == Cardinality({j \in S : j <= i})
           T == {i \in 0..k : Upto(i) >= n}
<1>1. /\ Cardinality(S) \in 0..k /\ Upto(0) = 0 /\ Upto(k) = Cardinality(S)
      /\ \A i \in Nat : Upto(i) \in Nat
      /\ \A i \in Nat \ {0} : Upto(i) = Upto(i - 1) + (IF i \in S THEN 1 ELSE 0)
  BY CountUpTo
<1> HIDE DEF Upto
<1>2. n \in Nat /\ n >= 1 /\ n <= Cardinality(S) /\ k \in 0..k
  BY <1>1
<1>3. k \in T /\ T \in SUBSET Nat
  BY <1>1, <1>2
<1>4. PICK i \in T : \A j \in T : i <= j
  BY <1>3, LeastIn
<1>5. i \in 0..k /\ Upto(i) >= n /\ i # 0
  BY <1>1, <1>2, <1>4
<1>6. i \in Nat \ {0} /\ i - 1 \in 0..k /\ ~(i <= i - 1)
  BY <1>5
<1>7. ~(Upto(i - 1) >= n)
  BY <1>4, <1>6
<1>8. i \in S /\ Upto(i) = n
  <2>1. Upto(i) \in Nat /\ Upto(i - 1) \in Nat
    BY <1>1, <1>6
  <2>2. Upto(i) = Upto(i - 1) + (IF i \in S THEN 1 ELSE 0)
    BY <1>1, <1>6
  <2> QED
    BY <1>2, <1>5, <1>7, <2>1, <2>2
<1> QED
  BY <1>8 DEF Nth, Upto

LEMMA NthGrows ==
  ASSUME NEW k \in Nat, NEW S \in SUBSET (1..k),
         NEW m \in 1..Cardinality(S), NEW n \in 1..Cardinality(S), m < n
  PROVE  Nth(S, m) < Nth(S, n)
<1>1. PICK i \in S : i = Nth(S, m) /\ Cardinality({j \in S : j <= i}) = m
  BY NthIn
<1>2. PICK l \in S : l = Nth(S, n) /\ Cardinality({j \in S : j <= l}) = n
  BY NthIn
<1>3. i \in Nat /\ l \in Nat
  OBVIOUS
<1>4. CASE i < l
  BY <1>1, <1>2, <1>4
<1>5. CASE l <= i
  <2>1. {j \in S : j <= l} \subseteq {j \in S : j <= i}
    <3>1. \A j \in S : j <= l => j <= i
      BY <1>3, <1>5
    <3> QED
      BY <3>1
  <2>2. IsFiniteSet({j \in S : j <= i})
    BY CountUpTo, FS_Subset
  <2>3. n <= m
    BY <1>1, <1>2, <2>1, <2>2, FS_Subset
  <2>4. m \in Int /\ n \in Int
    OBVIOUS
  <2> QED
    BY <2>3, <2>4
<1> QED
  BY <1>3, <1>4, <1>5

\* The members picked from a sequence are members of it, in its order.
LEMMA PickedMembers ==
  ASSUME NEW X, NEW s \in Seq(X), NEW keep \in SUBSET (DOMAIN s)
  PROVE  /\ Picked(s, keep) \in Seq(X) /\ Len(Picked(s, keep)) = Cardinality(keep)
         /\ Cardinality(keep) \in 0..Len(s)
         /\ \A n \in DOMAIN Picked(s, keep) :
              Nth(keep, n) \in keep /\ Picked(s, keep)[n] = s[Nth(keep, n)]
         /\ \A m, n \in DOMAIN Picked(s, keep) : m < n => Nth(keep, m) < Nth(keep, n)
<1>1. Len(s) \in Nat /\ DOMAIN s = 1..Len(s) /\ keep \in SUBSET (1..Len(s))
  OBVIOUS
<1>2. Cardinality(keep) \in 0..Len(s)
  BY <1>1, CountUpTo
<1>3. \A n \in 1..Cardinality(keep) : Nth(keep, n) \in keep
  BY <1>1, NthIn
<1>4. \A m, n \in 1..Cardinality(keep) : m < n => Nth(keep, m) < Nth(keep, n)
  BY <1>1, NthGrows
<1>5. \A n \in 1..Cardinality(keep) : s[Nth(keep, n)] \in X
  BY <1>1, <1>3
<1> DEFINE N == Cardinality(keep)
           place(n) == Nth(keep, n)
<1>6. Picked(s, keep) = [n \in 1..N |-> s[place(n)]]
  BY DEF Picked
<1> HIDE DEF N, place
<1>7. N \in Nat /\ \A n \in 1..N : s[place(n)] \in X
  BY <1>2, <1>5 DEF N, place
<1>8. Picked(s, keep) \in Seq(X) /\ Len(Picked(s, keep)) = N
  BY <1>6, <1>7
<1> QED
  BY <1>2, <1>3, <1>4, <1>6, <1>8 DEF N, place

LEMMA CutMembers ==
  ASSUME NEW X, NEW s \in Seq(X), q.limit \in Nat
  PROVE  /\ Cut(s) \in Seq(X) /\ Len(Cut(s)) \in 0..Len(s)
         /\ \A n \in DOMAIN Cut(s) : n \in DOMAIN s /\ Cut(s)[n] = s[n]
<1>1. PICK m \in 0..Len(s) : m = Min({Len(s), q.limit})
  BY DEF Min
<1>2. \A i \in 1..m : s[i] \in X
  OBVIOUS
<1>3. /\ SubSeq(s, 1, m) \in Seq(X) /\ Len(SubSeq(s, 1, m)) = m
      /\ \A i \in 1..m : i \in DOMAIN s /\ SubSeq(s, 1, m)[i] = s[i]
  <2>1. \A i \in 1..m : i \in DOMAIN s /\ i \in 1..(m - 1 + 1) /\ 1 + i - 1 = i
    OBVIOUS
  <2> QED
    BY <1>2, <2>1, SubSeqProperties
<1>4. DOMAIN SubSeq(s, 1, m) = 1..m
  BY <1>3
<1> QED
  BY <1>1, <1>3, <1>4 DEF Cut


(***************************************************************************)
(* MEMORY SEARCH: the invariant.  A search carries rows it read at          *)
(* different moments, by ids that a rebuild gives anew: what it holds is    *)
(* therefore stated of the tables it has seen, never of the present one,    *)
(* and each part of it by the stage the search is at.                       *)
(***************************************************************************)

Scores == {About[e].cosine : e \in Entries} \cup {About[e].terms : e \in Entries}
Keys == {NoKey} \cup {About[e].key : e \in Entries}
SearchCand == [entry : Entries, text : Int, dense : Int, rerank : Int]
SearchHit == [id : Nat \ {0}, entry : Entries, score : Nat]
Pools == UNION {[D -> SearchCand] : D \in SUBSET (Nat \ {0})}
SearchStages == {"idle", "facts", "dense", "sparse", "lexical", "load", "rerank", "select",
                 "current", "audit", "answered", "raised"}

Search ==
  [at : SearchStages, limit : Nat, audit : BOOLEAN, ask : Keys, backend : Backends,
   fallback : BOOLEAN, lanes : Seq(ToSet(Lanes)), dense : SUBSET (Nat \X Scores),
   sparse : SUBSET (Nat \X Scores), cands : Pools, hits : Seq(SearchHit), seen : SUBSET Tables]

SearchTyped ==
  /\ table \in Tables /\ points \subseteq Entries \X (Nat \ {0}) /\ orphans \subseteq points
  /\ q \in Search
  /\ IsFiniteSet(q.seen)

StagesFollow ==
  /\ q.at # "idle" => table \in q.seen
  /\ q.at = "audit" => q.audit
  /\ q.at = "current" => ~q.audit
  /\ q.at \notin {"select", "current", "audit", "answered"} => q.hits = <<>>

\* A live row of that id at some moment of the search, in its scope.
WasLive(i, e) ==
  /\ \E t \in q.seen : i \in DOMAIN t /\ t[i].entry = e /\ ~t[i].dead
  /\ About[e].scoped

CandidatesWereLive == \A i \in DOMAIN q.cands : WasLive(i, q.cands[i].entry)

ChosenWereLive ==
  q.at # "answered" => \A n \in DOMAIN q.hits : WasLive(q.hits[n].id, q.hits[n].entry)

InOrder(hits) == \A m, n \in DOMAIN hits : m < n => hits[m].score >= hits[n].score
Distinct(hits) == \A m, n \in DOMAIN hits : m # n => hits[m].id # hits[n].id

\* While it chooses, every hit is worth at least what is left of each candidate.
ChosenInOrder ==
  /\ Distinct(q.hits)
  /\ InOrder(q.hits) \/ (q.at = "answered" /\ q.audit)
  /\ q.at = "select" =>
       \A n \in DOMAIN q.hits, i \in DOMAIN q.cands :
          q.hits[n].id # i /\ q.hits[n].score >= Max({0, Adjusted(q.cands[i])})

SearchInv ==
  /\ SearchTyped /\ StagesFollow /\ CandidatesWereLive /\ ChosenWereLive /\ ChosenInOrder
  /\ HitsAreLive /\ NoOutdatedFact

LEMMA EntryParts ==
  /\ \A e \in Entries : About[e].terms \in Int /\ About[e].cosine \in Int /\ About[e].boost \in Int
  /\ Unit \in Nat /\ Penalty \in Nat /\ MinScore \in Int /\ Limits \subseteq Nat \ {0}
BY SearchAssumption

LEMMA PoolParts ==
  ASSUME NEW c \in Pools
  PROVE  /\ DOMAIN c \in SUBSET (Nat \ {0})
         /\ \A i \in DOMAIN c :
              /\ c[i] \in SearchCand /\ c[i].entry \in Entries
              /\ c[i].text \in Int /\ c[i].dense \in Int /\ c[i].rerank \in Int
<1>1. PICK D \in SUBSET (Nat \ {0}) : c \in [D -> SearchCand]
  BY DEF Pools
<1> QED
  BY <1>1 DEF SearchCand

LEMMA PoolOf ==
  ASSUME NEW D \in SUBSET (Nat \ {0}), NEW c \in [D -> SearchCand]
  PROVE  c \in Pools /\ DOMAIN c = D
BY DEF Pools

LEMMA TableRows ==
  ASSUME NEW t \in Tables
  PROVE  /\ DOMAIN t \in SUBSET (Nat \ {0}) /\ Len(t) \in Nat /\ DOMAIN t = 1..Len(t)
         /\ \A i \in DOMAIN t : t[i].entry \in Entries /\ t[i].dead \in BOOLEAN
<1>1. t \in Seq(Row)
  BY SearchAssumption
<1>2. DOMAIN t = 1..Len(t) /\ Len(t) \in Nat /\ \A i \in DOMAIN t : t[i] \in Row
  BY <1>1
<1> QED
  BY <1>2 DEF Row

\* The registry answers with the last live row of a key.
LEMMA CurrentRow ==
  ASSUME table \in Tables, NEW k
  PROVE  /\ Current(k) \in Nat
         /\ Current(k) # 0 => /\ Current(k) \in DOMAIN table /\ ~table[Current(k)].dead
                              /\ About[table[Current(k)].entry].key = k
         /\ \A i \in DOMAIN table :
              ~table[i].dead /\ About[table[i].entry].key = k => Current(k) >= i
<1> DEFINE R == {i \in DOMAIN table : ~table[i].dead /\ About[table[i].entry].key = k}
<1>1. DOMAIN table = 1..Len(table) /\ Len(table) \in Nat
  BY TableRows
<1>2. R \in SUBSET (1..Len(table))
  BY <1>1
<1>3. IsFiniteSet(R)
  BY <1>1, <1>2, CountUpTo
<1> DEFINE S == {0} \cup R
<1>4. IsFiniteSet(S)
  BY <1>3, FS_AddElement
<1>5. S \in SUBSET Int /\ S # {}
  BY <1>2
<1>6. Max(S) \in S /\ \A y \in S : Max(S) >= y
  BY <1>4, <1>5, MaxOf
<1>7. Current(k) = Max(S)
  BY DEF Current
<1>8. PICK m : m = Max(S)
  OBVIOUS
<1>9. m \in S /\ \A i \in R : m >= i
  BY <1>6, <1>8
<1>10. m \in Nat /\ (m # 0 => m \in R)
  BY <1>2, <1>9
<1> QED
  BY <1>7, <1>8, <1>9, <1>10

\* Qdrant gives a row id one or more scores, the best of which is taken.
LEMMA ScoresFinite == IsFiniteSet(Scores) /\ Scores \subseteq Int
<1> DEFINE C == {About[e].cosine : e \in Entries}
           T == {About[e].terms : e \in Entries}
           c == [e \in Entries |-> About[e].cosine]
           t == [e \in Entries |-> About[e].terms]
<1>1. c \in Surjection(Entries, C) /\ t \in Surjection(Entries, T)
  BY DEF Surjection
<1>2. IsFiniteSet(C) /\ IsFiniteSet(T)
  BY <1>1, FS_Surjection, SearchAssumption
<1>3. IsFiniteSet(C \cup T)
  BY <1>2, FS_Union
<1> QED
  BY <1>3, EntryParts DEF Scores

LEMMA BestScore ==
  ASSUME NEW found \in SUBSET (Nat \X Scores), NEW i, \E p \in found : p[1] = i
  PROVE  Max({p[2] : p \in {p \in found : p[1] = i}}) \in Int
<1> DEFINE S == {p[2] : p \in {p \in found : p[1] = i}}
<1>1. S \subseteq Scores /\ S # {}
  OBVIOUS
<1> HIDE DEF S
<1>2. IsFiniteSet(S) /\ S \in SUBSET Int
  BY <1>1, ScoresFinite, FS_Subset
<1> QED
  BY <1>1, <1>2, MaxOf DEF S


(***************************************************************************)
(* MEMORY SEARCH: the stages that gather candidates.                       *)
(***************************************************************************)

\* Until a hit is chosen only the candidates have to be those of live rows.
LEMMA GatheringKeeps ==
  ASSUME UNCHANGED index, SearchTyped', q'.hits = <<>>, q'.at \notin {"current", "audit"},
         q'.at # "idle" => table \in q'.seen, CandidatesWereLive'
  PROVE  SearchInv'
<1>1. StagesFollow'
  BY DEF StagesFollow, index
<1>2. DOMAIN q'.hits = {} /\ \A h : h \notin ToSet(q'.hits)
  BY DEF ToSet
<1>3. ChosenWereLive' /\ HitsAreLive' /\ NoOutdatedFact'
  BY <1>2 DEF ChosenWereLive, HitsAreLive, NoOutdatedFact
<1>4. ChosenInOrder'
  BY <1>2 DEF ChosenInOrder, Distinct, InOrder
<1> QED
  BY <1>1, <1>3, <1>4 DEF SearchInv

LEMMA SearchParts ==
  ASSUME SearchTyped
  PROVE  /\ q.at \in SearchStages /\ q.limit \in Nat /\ q.audit \in BOOLEAN /\ q.ask \in Keys
         /\ q.backend \in Backends /\ q.fallback \in BOOLEAN /\ q.lanes \in Seq(ToSet(Lanes))
         /\ q.dense \in SUBSET (Nat \X Scores) /\ q.sparse \in SUBSET (Nat \X Scores)
         /\ q.cands \in Pools /\ q.hits \in Seq(SearchHit) /\ q.seen \in SUBSET Tables
         /\ IsFiniteSet(q.seen) /\ table \in Tables
         /\ points \subseteq Entries \X (Nat \ {0}) /\ orphans \subseteq points
BY DEF SearchTyped, Search

LEMMA IdleTyped ==
  /\ Idle \in Search
  /\ \A limit \in Nat, audit, fallback \in BOOLEAN, ask \in Keys, backend \in Backends, t \in Tables :
       [Idle EXCEPT !.at = "facts", !.limit = limit, !.audit = audit, !.ask = ask,
                    !.backend = backend, !.fallback = fallback, !.seen = {t}] \in Search
<1>1. Lanes \in Seq(ToSet(Lanes))
  BY DEF Lanes, ToSet
<1>2. <<>> \in Pools
  <2>1. <<>> \in [{} -> SearchCand]
    OBVIOUS
  <2> QED
    BY <2>1 DEF Pools
<1>3. <<>> \in Seq(SearchHit)
  OBVIOUS
<1>4. NoKey \in Keys /\ "sqlite_fts" \in Backends /\ {"idle", "facts"} \subseteq SearchStages
  BY DEF Keys, Backends, SearchStages
<1>5. Idle \in Search
  BY <1>1, <1>2, <1>3, <1>4 DEF Idle, Search
<1>6. ASSUME NEW limit \in Nat, NEW audit \in BOOLEAN, NEW fallback \in BOOLEAN,
             NEW ask \in Keys, NEW backend \in Backends, NEW t \in Tables
      PROVE  [Idle EXCEPT !.at = "facts", !.limit = limit, !.audit = audit, !.ask = ask,
                    !.backend = backend, !.fallback = fallback, !.seen = {t}] \in Search
  BY <1>1, <1>2, <1>3, <1>4 DEF Idle, Search
<1> QED
  BY <1>5, <1>6

LEMMA SearchInitHolds == Init => SearchInv
<1> SUFFICES ASSUME Init PROVE SearchInv
  OBVIOUS
<1>1. table \in Tables /\ q = Idle
  BY DEF Init
<1>2. \A t \in Tables : PointsOf(t) \subseteq Entries \X (Nat \ {0})
  BY TableRows DEF PointsOf
<1>3. points \subseteq Entries \X (Nat \ {0}) /\ orphans \subseteq points
  BY <1>2 DEF Init
<1>4. Idle \in Search
  BY IdleTyped
<1>5. SearchTyped
  <2>1. IsFiniteSet({})
    BY FS_EmptySet
  <2>2. q.seen = {}
    BY <1>1 DEF Idle
  <2> QED
    BY <1>1, <1>3, <1>4, <2>1, <2>2 DEF SearchTyped
<1>6. q.at = "idle" /\ q.hits = <<>> /\ q.cands = <<>> /\ DOMAIN q.hits = {} /\ DOMAIN q.cands = {}
  BY <1>1 DEF Idle
<1>7. CandidatesWereLive /\ ChosenWereLive /\ ChosenInOrder /\ StagesFollow
  BY <1>6 DEF CandidatesWereLive, ChosenWereLive, ChosenInOrder, StagesFollow, InOrder, Distinct
<1> QED
  BY <1>5, <1>6, <1>7 DEF SearchInv, HitsAreLive, NoOutdatedFact

LEMMA BeginKeeps ==
  ASSUME SearchInv, NEW limit \in Limits, NEW audit \in BOOLEAN, NEW fallback \in BOOLEAN,
         NEW backend \in Backends, NEW ask \in {NoKey} \cup {About[e].key : e \in Entries},
         Begin(limit, audit, ask, backend, fallback)
  PROVE  SearchInv'
<1>0. SearchTyped
  BY DEF SearchInv
<1>1. /\ q' = [Idle EXCEPT !.at = "facts", !.limit = limit, !.audit = audit, !.ask = ask,
                       !.backend = backend, !.fallback = fallback, !.seen = {table}]
      /\ UNCHANGED index
  BY DEF Begin, Step
<1>2. /\ limit \in Nat /\ ask \in Keys /\ {table} \in SUBSET Tables /\ "facts" \in SearchStages
      /\ IsFiniteSet({table})
  BY <1>0, SearchParts, EntryParts, FS_Singleton DEF Keys, SearchStages
<1>3. /\ q'.at = "facts" /\ q'.seen = {table} /\ q'.hits = <<>> /\ q'.cands = <<>>
  BY <1>1 DEF Idle
<1>4. SearchTyped'
  <2>1. q' \in Search
    BY <1>0, <1>1, <1>2, IdleTyped DEF SearchTyped
  <2> QED
    BY <1>0, <1>1, <1>2, <1>3, <2>1 DEF SearchTyped, index
<1>5. CandidatesWereLive'
  BY <1>3 DEF CandidatesWereLive
<1> QED
  BY <1>1, <1>3, <1>4, <1>5, GatheringKeeps

LEMMA DoneKeeps ==
  ASSUME SearchInv, Done
  PROVE  SearchInv'
<1>0. SearchTyped
  BY DEF SearchInv
<1>1. q' = Idle /\ UNCHANGED index
  BY DEF Done, Step
<1>2. /\ q'.at = "idle" /\ q'.seen = {} /\ q'.hits = <<>> /\ q'.cands = <<>>
  BY <1>1 DEF Idle
<1>3. SearchTyped'
  <2>1. IsFiniteSet({})
    BY FS_EmptySet
  <2> QED
    BY <1>0, <1>1, <1>2, <2>1, IdleTyped DEF SearchTyped, index
<1>4. CandidatesWereLive'
  BY <1>2 DEF CandidatesWereLive
<1> QED
  BY <1>1, <1>2, <1>3, <1>4, GatheringKeeps


\* A stage that touches nothing but where the search is and what Qdrant said.
LEMMA ScoringKeeps ==
  ASSUME SearchInv, NEW at \in SearchStages \ {"idle", "current", "audit"}, NEW backend \in Backends,
         NEW dense \in SUBSET (Nat \X Scores), NEW sparse \in SUBSET (Nat \X Scores),
         q.hits = <<>>, q.at # "idle", UNCHANGED index,
         q' = [q EXCEPT !.at = at, !.backend = backend, !.dense = dense, !.sparse = sparse]
  PROVE  SearchInv'
<1>1. SearchTyped /\ table \in q.seen
  BY DEF SearchInv, StagesFollow
<1>2. q \in Search
  BY <1>1 DEF SearchTyped
<1>3. /\ q'.at = at /\ q'.seen = q.seen /\ q'.hits = q.hits /\ q'.cands = q.cands
      /\ q' \in Search
  BY <1>2 DEF Search
<1>4. SearchTyped'
  BY <1>1, <1>3 DEF SearchTyped, index
<1>5. CandidatesWereLive'
  BY <1>3 DEF SearchInv, CandidatesWereLive, WasLive
<1> QED
  BY <1>1, <1>3, <1>4, <1>5, GatheringKeeps DEF index

LEMMA FoundTyped ==
  ASSUME SearchTyped, NEW score \in [Entries -> Scores]
  PROVE  Found(score) \in SUBSET (Nat \X Scores)
BY SearchParts DEF Found

LEMMA AskingKeeps ==
  ASSUME SearchInv, Resolve \/ DenseSearch \/ SparseSearch \/ VectorSearchFails
  PROVE  SearchInv'
<1>1. SearchTyped
  BY DEF SearchInv
<1>2. /\ q.at \in {"facts", "dense", "sparse"} /\ q.hits = <<>> /\ UNCHANGED index
      /\ q.at \in SearchStages /\ q.backend \in Backends /\ q \in Search
      /\ q.dense \in SUBSET (Nat \X Scores) /\ q.sparse \in SUBSET (Nat \X Scores)
  <2>1. q.at \in {"facts", "dense", "sparse"} /\ UNCHANGED index
    BY DEF Resolve, DenseSearch, SparseSearch, VectorSearchFails, Step
  <2>2. q.hits = <<>>
    BY <2>1 DEF SearchInv, StagesFollow
  <2> QED
    BY <1>1, <2>1, <2>2, SearchParts DEF SearchTyped
<1>3. /\ [e \in Entries |-> About[e].cosine] \in [Entries -> Scores]
      /\ [e \in Entries |-> About[e].terms] \in [Entries -> Scores]
  BY DEF Scores
<1>4. /\ Found([e \in Entries |-> About[e].cosine]) \in SUBSET (Nat \X Scores)
      /\ Found([e \in Entries |-> About[e].terms]) \in SUBSET (Nat \X Scores)
  BY <1>1, <1>3, FoundTyped
<1> USE DEF Step
<1>5. CASE Resolve
  <2>1. PICK b \in Backends : b = IF q.fallback /\ sync = "failed" THEN "sqlite_fts" ELSE q.backend
    BY <1>2 DEF Backends
  <2>2. PICK at \in SearchStages \ {"idle", "current", "audit"} :
          at = IF b = "sqlite_fts" THEN "lexical" ELSE "dense"
    BY DEF SearchStages
  <2>3. q' = [q EXCEPT !.backend = b, !.at = at]
    BY <1>5, <2>1, <2>2 DEF Resolve
  <2>4. q' = [q EXCEPT !.at = at, !.backend = b, !.dense = q.dense, !.sparse = q.sparse]
    BY <1>2, <2>3 DEF Search
  <2> QED
    BY <1>2, <2>4, ScoringKeeps
<1>6. CASE DenseSearch
  <2>1. PICK found \in SUBSET (Nat \X Scores) : found = Found([e \in Entries |-> About[e].cosine])
    BY <1>4
  <2>2. PICK at \in SearchStages \ {"idle", "current", "audit"} :
          at = IF q.backend = "qdrant_dense_hybrid" THEN "lexical" ELSE "sparse"
    BY DEF SearchStages
  <2>3. q' = [q EXCEPT !.dense = found, !.at = at]
    BY <1>6, <2>1, <2>2 DEF DenseSearch
  <2>4. q' = [q EXCEPT !.at = at, !.backend = q.backend, !.dense = found, !.sparse = q.sparse]
    BY <1>2, <2>3 DEF Search
  <2> QED
    BY <1>2, <2>4, ScoringKeeps
<1>7. CASE SparseSearch
  <2>1. PICK found \in SUBSET (Nat \X Scores) : found = Found([e \in Entries |-> About[e].terms])
    BY <1>4
  <2>2. PICK at \in SearchStages \ {"idle", "current", "audit"} : at = "lexical"
    BY DEF SearchStages
  <2>3. q' = [q EXCEPT !.sparse = found, !.at = at]
    BY <1>7, <2>1, <2>2 DEF SparseSearch
  <2>4. q' = [q EXCEPT !.at = at, !.backend = q.backend, !.dense = q.dense, !.sparse = found]
    BY <1>2, <2>3 DEF Search
  <2> QED
    BY <1>2, <2>4, ScoringKeeps
<1>8. CASE VectorSearchFails
  <2>1. /\ {"lexical", "raised"} \subseteq SearchStages \ {"idle", "current", "audit"}
        /\ "sqlite_fts" \in Backends /\ {} \in SUBSET (Nat \X Scores)
    BY DEF SearchStages, Backends
  <2>2. CASE q.fallback
    <3>1. q' = [q EXCEPT !.backend = "sqlite_fts", !.dense = {}, !.sparse = {}, !.at = "lexical"]
      BY <1>8, <2>2 DEF VectorSearchFails
    <3>2. q' = [q EXCEPT !.at = "lexical", !.backend = "sqlite_fts", !.dense = {}, !.sparse = {}]
      BY <1>2, <3>1 DEF Search
    <3> QED
      BY <1>2, <2>1, <3>2, ScoringKeeps
  <2>3. CASE ~q.fallback
    <3>1. q' = [q EXCEPT !.at = "raised"]
      BY <1>8, <2>3 DEF VectorSearchFails
    <3>2. q' = [q EXCEPT !.at = "raised", !.backend = q.backend, !.dense = q.dense, !.sparse = q.sparse]
      BY <1>2, <3>1 DEF Search
    <3> QED
      BY <1>2, <2>1, <3>2, ScoringKeeps
  <2> QED
    BY <2>2, <2>3
<1> QED
  BY <1>5, <1>6, <1>7, <1>8


\* A stage that adds candidates: rows that are live now, or that were before.
LEMMA PoolingKeeps ==
  ASSUME SearchInv, NEW at \in SearchStages \ {"idle", "current", "audit"},
         NEW lanes \in Seq(ToSet(Lanes)), NEW c \in Pools,
         \A i \in DOMAIN c : WasLive(i, c[i].entry),
         q.hits = <<>>, q.at # "idle", UNCHANGED index,
         q' = [q EXCEPT !.at = at, !.lanes = lanes, !.cands = c]
  PROVE  SearchInv'
<1>1. SearchTyped /\ table \in q.seen
  BY DEF SearchInv, StagesFollow
<1>2. q \in Search
  BY <1>1 DEF SearchTyped
<1>3. /\ q'.at = at /\ q'.seen = q.seen /\ q'.hits = q.hits /\ q'.cands = c
      /\ q' \in Search
  BY <1>2 DEF Search
<1>4. SearchTyped'
  BY <1>1, <1>3 DEF SearchTyped, index
<1>5. CandidatesWereLive'
  BY <1>3 DEF CandidatesWereLive, WasLive
<1> QED
  BY <1>1, <1>3, <1>4, <1>5, GatheringKeeps DEF index

LEMMA LiveRow ==
  ASSUME SearchInv, q.at # "idle", NEW lane, NEW i \in Live(lane)
  PROVE  /\ i \in Nat \ {0} /\ i \in DOMAIN table /\ table[i].entry \in Entries
         /\ WasLive(i, table[i].entry)
<1>1. table \in Tables /\ table \in q.seen
  BY DEF SearchInv, StagesFollow, SearchTyped
<1>2. i \in DOMAIN table /\ ~table[i].dead /\ About[table[i].entry].scoped
  BY DEF Live
<1> QED
  BY <1>1, <1>2, TableRows DEF WasLive

LEMMA CandidateTyped ==
  ASSUME NEW e \in Entries, NEW text \in Int, NEW dense \in Int
  PROVE  Candidate(e, text, dense) \in SearchCand /\ Candidate(e, text, dense).entry = e
BY DEF Candidate, SearchCand

LEMMA LexicalPool ==
  ASSUME SearchInv, q.at # "idle", NEW lane
  PROVE  Lexical(lane) \in Pools /\ \A i \in DOMAIN Lexical(lane) : WasLive(i, Lexical(lane)[i].entry)
<1> DEFINE fts == {i \in Live(lane) : About[table[i].entry].terms > 0}
           sub == {i \in Live(lane) : About[table[i].entry].phrase}
           byTerm == [i \in fts |-> Candidate(table[i].entry, About[table[i].entry].terms, 0)]
           byPhrase == [i \in sub |-> Candidate(table[i].entry, Unit \div 3, 0)]
<1>1. Lexical(lane) = IF fts # {} THEN byTerm ELSE byPhrase
  BY DEF Lexical
<1>2. \A i \in Live(lane) : /\ i \in Nat \ {0} /\ table[i].entry \in Entries
                            /\ WasLive(i, table[i].entry)
  BY LiveRow
<1>3. Unit \div 3 \in Int
  BY EntryParts
<1>4. \A i \in fts : /\ byTerm[i] \in SearchCand /\ WasLive(i, byTerm[i].entry)
  BY <1>2, EntryParts, CandidateTyped
<1>5. \A i \in sub : /\ byPhrase[i] \in SearchCand /\ WasLive(i, byPhrase[i].entry)
  BY <1>2, <1>3, CandidateTyped
<1>6. fts \in SUBSET (Nat \ {0}) /\ sub \in SUBSET (Nat \ {0})
  BY <1>2
<1>7. byTerm \in [fts -> SearchCand] /\ byPhrase \in [sub -> SearchCand]
  BY <1>4, <1>5
<1> HIDE DEF fts, sub, byTerm, byPhrase
<1>8. byTerm \in Pools /\ DOMAIN byTerm = fts /\ byPhrase \in Pools /\ DOMAIN byPhrase = sub
  BY <1>6, <1>7, PoolOf
<1> QED
  BY <1>1, <1>4, <1>5, <1>8

LEMMA LaneCandidatesKeeps ==
  ASSUME SearchInv, LaneCandidates
  PROVE  SearchInv'
<1>1. SearchTyped /\ q.at = "lexical" /\ q.hits = <<>> /\ UNCHANGED index
  BY DEF SearchInv, StagesFollow, LaneCandidates, Step
<1>2. q \in Search /\ q.lanes \in Seq(ToSet(Lanes)) /\ q.cands \in Pools
  BY <1>1, SearchParts DEF SearchTyped
<1>3. \A i \in DOMAIN q.cands : WasLive(i, q.cands[i].entry)
  BY DEF SearchInv, CandidatesWereLive
<1>4. {"load", "lexical"} \subseteq SearchStages \ {"idle", "current", "audit"}
  BY DEF SearchStages
<1>5. CASE q.lanes = <<>>
  <2>1. q' = [q EXCEPT !.at = "load"]
    BY <1>5 DEF LaneCandidates, Step
  <2>2. q' = [q EXCEPT !.at = "load", !.lanes = q.lanes, !.cands = q.cands]
    BY <1>2, <2>1 DEF Search
  <2> QED
    BY <1>1, <1>2, <1>3, <1>4, <2>2, PoolingKeeps
<1>6. CASE q.lanes # <<>>
  <2>1. PICK lex \in Pools : /\ lex = Lexical(Head(q.lanes))
                             /\ \A i \in DOMAIN lex : WasLive(i, lex[i].entry)
    BY <1>1, LexicalPool
  <2>2. PICK lanes \in Seq(ToSet(Lanes)) : lanes = Tail(q.lanes)
    BY <1>2, <1>6, HeadTailProperties
  <2> DEFINE c == [i \in DOMAIN lex \cup DOMAIN q.cands |->
                     IF i \in DOMAIN lex /\ (i \in DOMAIN q.cands => lex[i].text <= q.cands[i].text)
                     THEN lex[i] ELSE q.cands[i]]
  <2>3. q' = [q EXCEPT !.lanes = lanes, !.cands = c]
    <3>1. Added(Lexical(Head(q.lanes)), q.cands) = c
      BY <2>1 DEF Added
    <3> QED
      BY <1>6, <2>2, <3>1 DEF LaneCandidates, Step
  <2>4. DOMAIN lex \cup DOMAIN q.cands \in SUBSET (Nat \ {0})
    BY <1>2, PoolParts
  <2>5. c \in [DOMAIN lex \cup DOMAIN q.cands -> SearchCand]
    BY <1>2, PoolParts
  <2>6. \A i \in DOMAIN c : WasLive(i, c[i].entry)
    BY <1>3, <2>1
  <2> HIDE DEF c
  <2>7. c \in Pools
    BY <2>4, <2>5, PoolOf
  <2>8. q' = [q EXCEPT !.at = "lexical", !.lanes = lanes, !.cands = c]
    BY <1>1, <1>2, <2>3 DEF Search
  <2> QED
    BY <1>1, <1>4, <2>6, <2>7, <2>8, PoolingKeeps
<1> QED
  BY <1>5, <1>6


LEMMA LoadedRows ==
  ASSUME SearchInv, q.at # "idle", NEW found \in SUBSET (Nat \X Scores)
  PROVE  /\ Loaded(found) \in SUBSET (Nat \X Scores)
         /\ \A p \in Loaded(found) :
              /\ p[1] \in Nat \ {0} /\ table[p[1]].entry \in Entries
              /\ WasLive(p[1], table[p[1]].entry)
<1>1. ASSUME NEW p \in Loaded(found)
      PROVE  /\ p[1] \in Nat \ {0} /\ table[p[1]].entry \in Entries
             /\ WasLive(p[1], table[p[1]].entry)
  <2>1. PICK lane \in ToSet(Lanes) : p[1] \in Live(lane)
    BY DEF Loaded
  <2> QED
    BY <2>1, LiveRow
<1> QED
  BY <1>1 DEF Loaded

LEMMA SparseCandidatesKeeps ==
  ASSUME SearchInv, SparseCandidates
  PROVE  SearchInv'
<1>1. SearchTyped /\ q.at = "lexical" /\ q.hits = <<>> /\ UNCHANGED index
  BY DEF SearchInv, StagesFollow, SparseCandidates, Step
<1>2. /\ q \in Search /\ q.lanes \in Seq(ToSet(Lanes)) /\ q.sparse \in SUBSET (Nat \X Scores)
      /\ "load" \in SearchStages \ {"idle", "current", "audit"}
  BY <1>1, SearchParts DEF SearchTyped, SearchStages
<1> DEFINE found == Loaded(q.sparse)
           best(i) == Max({p[2] : p \in {p \in found : p[1] = i}})
           D == {p[1] : p \in found}
           c == [i \in D |-> Candidate(table[i].entry, best(i), 0)]
<1>3. q' = [q EXCEPT !.at = "load", !.cands = c]
  BY DEF SparseCandidates, Step
<1>4. found \in SUBSET (Nat \X Scores) /\ \A p \in found :
              /\ p[1] \in Nat \ {0} /\ table[p[1]].entry \in Entries
              /\ WasLive(p[1], table[p[1]].entry)
  BY <1>1, <1>2, LoadedRows
<1> HIDE DEF found
<1>5. \A i \in D : best(i) \in Int
  <2> TAKE i \in D
  <2>1. \E p \in found : p[1] = i
    OBVIOUS
  <2> QED
    BY <1>4, <2>1, BestScore
<1> HIDE DEF best
<1>6. \A i \in D : /\ i \in Nat \ {0} /\ table[i].entry \in Entries
                   /\ WasLive(i, table[i].entry)
  BY <1>4
<1> HIDE DEF D
<1>7. \A i \in D : c[i] \in SearchCand /\ WasLive(i, c[i].entry)
  BY <1>5, <1>6, CandidateTyped
<1>8. D \in SUBSET (Nat \ {0}) /\ c \in [D -> SearchCand]
  BY <1>6, <1>7
<1>9. c \in Pools /\ \A i \in DOMAIN c : WasLive(i, c[i].entry)
  BY <1>7, <1>8, PoolOf
<1> HIDE DEF c
<1>10. q' = [q EXCEPT !.at = "load", !.lanes = q.lanes, !.cands = c]
  BY <1>2, <1>3 DEF Search
<1> QED
  BY <1>1, <1>2, <1>9, <1>10, PoolingKeeps

LEMMA LoadDenseKeeps ==
  ASSUME SearchInv, LoadDense
  PROVE  SearchInv'
<1>1. SearchTyped /\ q.at = "load" /\ q.hits = <<>> /\ UNCHANGED index
  BY DEF SearchInv, StagesFollow, LoadDense, Step
<1>2. /\ q \in Search /\ q.lanes \in Seq(ToSet(Lanes)) /\ q.dense \in SUBSET (Nat \X Scores)
      /\ q.cands \in Pools
  BY <1>1, SearchParts DEF SearchTyped
<1> DEFINE found == Loaded(q.dense)
           best(i) == Max({p[2] : p \in {p \in found : p[1] = i}})
           hit == {p[1] : p \in found}
           D == DOMAIN q.cands \cup hit
           c == [i \in D |->
                   IF i \notin hit THEN q.cands[i]
                   ELSE IF i \in DOMAIN q.cands THEN [q.cands[i] EXCEPT !.dense = best(i)]
                   ELSE Candidate(table[i].entry, 0, best(i))]
<1>3. found \in SUBSET (Nat \X Scores) /\ \A p \in found :
              /\ p[1] \in Nat \ {0} /\ table[p[1]].entry \in Entries
              /\ WasLive(p[1], table[p[1]].entry)
  BY <1>1, <1>2, LoadedRows
<1>4. q' = [q EXCEPT !.cands = c, !.at = IF DOMAIN c = {} THEN "select" ELSE "rerank"]
  BY DEF LoadDense, Step, Merged
<1> HIDE DEF found
<1>5. \A i \in hit : best(i) \in Int
  <2> TAKE i \in hit
  <2>1. \E p \in found : p[1] = i
    OBVIOUS
  <2> QED
    BY <1>3, <2>1, BestScore
<1> HIDE DEF best
<1>6. \A i \in hit : /\ i \in Nat \ {0} /\ table[i].entry \in Entries
                     /\ WasLive(i, table[i].entry)
  BY <1>3
<1>7. \A i \in DOMAIN q.cands : i \in Nat \ {0} /\ q.cands[i] \in SearchCand /\ WasLive(i, q.cands[i].entry)
  BY <1>2, PoolParts DEF SearchInv, CandidatesWereLive
<1> HIDE DEF hit
<1>8. ASSUME NEW i \in D PROVE c[i] \in SearchCand /\ WasLive(i, c[i].entry)
  <2>1. CASE i \notin hit
    BY <1>7, <2>1
  <2>2. CASE i \in hit /\ i \in DOMAIN q.cands
    <3>1. PICK b \in Int : b = best(i)
      BY <1>5, <2>2
    <3>2. PICK d \in SearchCand : d = q.cands[i]
      BY <1>7, <2>2
    <3>3. [d EXCEPT !.dense = b] \in SearchCand /\ [d EXCEPT !.dense = b].entry = d.entry
      BY DEF SearchCand
    <3>4. c[i] = [d EXCEPT !.dense = b]
      BY <2>2, <3>1, <3>2
    <3> QED
      BY <1>7, <2>2, <3>2, <3>3, <3>4
  <2>3. CASE i \in hit /\ i \notin DOMAIN q.cands
    <3>1. PICK b \in Int : b = best(i)
      BY <1>5, <2>3
    <3>2. PICK e \in Entries : e = table[i].entry /\ WasLive(i, e)
      BY <1>6, <2>3
    <3>3. c[i] = Candidate(e, 0, b)
      BY <2>3, <3>1, <3>2
    <3>4. Candidate(e, 0, b) \in SearchCand /\ Candidate(e, 0, b).entry = e
      BY CandidateTyped
    <3> QED
      BY <3>2, <3>3, <3>4
  <2> QED
    BY <2>1, <2>2, <2>3
<1>9. D \in SUBSET (Nat \ {0}) /\ c \in [D -> SearchCand] /\ DOMAIN c = D
  BY <1>6, <1>7, <1>8
<1>10. c \in Pools /\ \A i \in DOMAIN c : WasLive(i, c[i].entry)
  BY <1>8, <1>9, PoolOf
<1> HIDE DEF c
<1>11. PICK at \in SearchStages \ {"idle", "current", "audit"} :
         at = IF DOMAIN c = {} THEN "select" ELSE "rerank"
  BY DEF SearchStages
<1>12. q' = [q EXCEPT !.at = at, !.lanes = q.lanes, !.cands = c]
  BY <1>2, <1>4, <1>11 DEF Search
<1> QED
  BY <1>1, <1>2, <1>10, <1>12, PoolingKeeps

LEMMA RerankKeeps ==
  ASSUME SearchInv, Rerank \/ RerankFails
  PROVE  SearchInv'
<1>1. SearchTyped /\ q.at = "rerank" /\ q.hits = <<>> /\ UNCHANGED index
  BY DEF SearchInv, StagesFollow, Rerank, RerankFails, Step
<1>2. /\ q \in Search /\ q.lanes \in Seq(ToSet(Lanes)) /\ q.cands \in Pools
      /\ {"select", "raised"} \subseteq SearchStages \ {"idle", "current", "audit"}
  BY <1>1, SearchParts DEF SearchTyped, SearchStages
<1>3. /\ DOMAIN q.cands \in SUBSET (Nat \ {0})
      /\ \A i \in DOMAIN q.cands : q.cands[i] \in SearchCand /\ WasLive(i, q.cands[i].entry)
  BY <1>2, PoolParts DEF SearchInv, CandidatesWereLive
<1>4. CASE RerankFails
  <2>1. PICK at \in SearchStages \ {"idle", "current", "audit"} :
          at = IF FailOpen THEN "select" ELSE "raised"
    BY <1>2
  <2>2. q' = [q EXCEPT !.at = at]
    BY <1>4, <2>1 DEF RerankFails, Step
  <2>3. q' = [q EXCEPT !.at = at, !.lanes = q.lanes, !.cands = q.cands]
    BY <1>2, <2>2 DEF Search
  <2> QED
    BY <1>1, <1>2, <1>3, <2>3, PoolingKeeps
<1>5. CASE Rerank
  <2>0. PICK pool \in kSubset(Min({RerankPool, Cardinality(DOMAIN q.cands)}), DOMAIN q.cands) :
          \E given \in [pool -> {0, Unit}] :
          q' = [q EXCEPT !.at = "select",
                         !.cands = [i \in DOMAIN q.cands |->
                            IF i \in pool THEN [q.cands[i] EXCEPT !.rerank = given[i]]
                            ELSE q.cands[i]]]
    BY <1>5 DEF Rerank, Step
  <2>1. PICK given \in [pool -> {0, Unit}] :
          q' = [q EXCEPT !.at = "select",
                         !.cands = [i \in DOMAIN q.cands |->
                            IF i \in pool THEN [q.cands[i] EXCEPT !.rerank = given[i]]
                            ELSE q.cands[i]]]
    BY <2>0
  <2> DEFINE c == [i \in DOMAIN q.cands |->
                     IF i \in pool THEN [q.cands[i] EXCEPT !.rerank = given[i]]
                     ELSE q.cands[i]]
  <2>2. \A i \in pool : given[i] \in Int
    BY EntryParts
  <2>3. ASSUME NEW i \in DOMAIN q.cands
        PROVE  c[i] \in SearchCand /\ WasLive(i, c[i].entry)
    <3>1. PICK d \in SearchCand : d = q.cands[i] /\ WasLive(i, d.entry)
      BY <1>3
    <3>2. CASE i \in pool
      <4>1. PICK g \in Int : g = given[i]
        BY <2>2, <3>2
      <4>2. [d EXCEPT !.rerank = g] \in SearchCand /\ [d EXCEPT !.rerank = g].entry = d.entry
        BY DEF SearchCand
      <4>3. c[i] = [d EXCEPT !.rerank = g]
        BY <3>1, <3>2, <4>1
      <4> QED
        BY <3>1, <4>2, <4>3
    <3>3. CASE i \notin pool
      BY <3>1, <3>3
    <3> QED
      BY <3>2, <3>3
  <2>4. c \in [DOMAIN q.cands -> SearchCand]
    BY <2>3
  <2>5. c \in Pools /\ \A i \in DOMAIN c : WasLive(i, c[i].entry)
    BY <1>3, <2>3, <2>4, PoolOf
  <2>6. q' = [q EXCEPT !.at = "select", !.cands = c]
    BY <2>1
  <2> HIDE DEF c
  <2>7. q' = [q EXCEPT !.at = "select", !.lanes = q.lanes, !.cands = c]
    BY <1>2, <2>6 DEF Search
  <2> QED
    BY <1>1, <1>2, <2>5, <2>7, PoolingKeeps
<1> QED
  BY <1>4, <1>5


(***************************************************************************)
(* MEMORY SEARCH: the stages that choose and answer.                       *)
(***************************************************************************)

LEMMA PickedInOrder ==
  ASSUME NEW s \in Seq(SearchHit), NEW keep \in SUBSET (DOMAIN s)
  PROVE  /\ InOrder(s) => InOrder(Picked(s, keep))
         /\ Distinct(s) => Distinct(Picked(s, keep))
<1> DEFINE p == Picked(s, keep)
<1>1. /\ \A n \in DOMAIN p : Nth(keep, n) \in DOMAIN s /\ p[n] = s[Nth(keep, n)]
      /\ \A m, n \in DOMAIN p : m < n => Nth(keep, m) < Nth(keep, n)
      /\ DOMAIN p \subseteq Nat /\ DOMAIN s \subseteq Nat
  BY PickedMembers
<1> HIDE DEF p
<1>2. InOrder(s) => InOrder(p)
  BY <1>1 DEF InOrder
<1>3. ASSUME Distinct(s) PROVE Distinct(p)
  <2> SUFFICES ASSUME NEW m \in DOMAIN p, NEW n \in DOMAIN p, m # n PROVE p[m].id # p[n].id
    BY DEF Distinct
  <2>1. m \in Nat /\ n \in Nat
    BY <1>1
  <2>2. m < n \/ n < m
    BY <2>1
  <2>3. PICK a \in DOMAIN s : a = Nth(keep, m)
    BY <1>1
  <2>4. PICK b \in DOMAIN s : b = Nth(keep, n)
    BY <1>1
  <2>5. a # b
    <3>1. a \in Nat /\ b \in Nat
      BY <1>1
    <3>2. (m < n => a < b) /\ (n < m => b < a)
      BY <1>1, <2>3, <2>4
    <3> QED
      BY <2>2, <3>1, <3>2
  <2>6. p[m] = s[a] /\ p[n] = s[b]
    BY <1>1, <2>3, <2>4
  <2> QED
    BY <1>3, <2>5, <2>6 DEF Distinct
<1> QED
  BY <1>2, <1>3 DEF p

LEMMA QuietSeen ==
  ASSUME SearchTyped, table \in q.seen, Quiet
  PROVE  q.seen = {table}
<1>1. PICK t : q.seen = {t}
  BY FS_Singleton DEF Quiet, SearchTyped
<1> QED
  BY <1>1

\* What a search may answer with, whichever stage gives it.
Answers(h) ==
  /\ \E t \in q.seen : h.id \in DOMAIN t /\ t[h.id].entry = h.entry /\ (t[h.id].dead => q.audit)
  /\ About[h.entry].scoped \/ About[h.entry].key = q.ask
  /\ ~q.audit /\ Quiet /\ About[h.entry].key # NoKey => h.id = Current(About[h.entry].key)

LEMMA AnswerKeeps ==
  ASSUME SearchInv, q.at # "idle", UNCHANGED index, NEW hits \in Seq(SearchHit),
         q' = [q EXCEPT !.at = "answered", !.hits = hits],
         Distinct(hits), InOrder(hits) \/ q.audit,
         \A n \in DOMAIN hits : Answers(hits[n])
  PROVE  SearchInv'
<1>1. SearchTyped /\ q \in Search /\ table \in q.seen
  BY DEF SearchInv, SearchTyped, StagesFollow
<1>2. /\ q' \in Search /\ q'.at = "answered" /\ q'.hits = hits /\ q'.cands = q.cands
      /\ q'.seen = q.seen /\ q'.audit = q.audit /\ q'.ask = q.ask
  BY <1>1 DEF Search, SearchStages
<1>3. SearchTyped' /\ StagesFollow' /\ CandidatesWereLive' /\ ChosenWereLive'
  BY <1>1, <1>2 DEF SearchInv, SearchTyped, StagesFollow, CandidatesWereLive, ChosenWereLive,
                    WasLive, index
<1>4. ChosenInOrder'
  BY <1>2 DEF ChosenInOrder, Distinct, InOrder
<1>5. \A h \in ToSet(hits) : \E n \in DOMAIN hits : h = hits[n]
  BY DEF ToSet
<1>6. HitsAreLive'
  BY <1>2, <1>5 DEF HitsAreLive, Answers
<1>7. NoOutdatedFact'
  <2> SUFFICES ASSUME ~q.audit, Quiet', NEW h \in ToSet(hits), About[h.entry].key # NoKey
               PROVE  h.id = Current(About[h.entry].key)'
    BY <1>2 DEF NoOutdatedFact
  <2>1. PICK n \in DOMAIN hits : h = hits[n]
    BY <1>5
  <2>2. Quiet
    BY <1>2 DEF Quiet
  <2>3. h.id = Current(About[h.entry].key)
    BY <2>1, <2>2 DEF Answers
  <2> QED
    BY <2>3 DEF Current, index
<1> QED
  BY <1>3, <1>4, <1>6, <1>7 DEF SearchInv

LEMMA ExactFactKeeps ==
  ASSUME SearchInv, ExactFact
  PROVE  SearchInv'
<1>1. SearchTyped /\ table \in q.seen /\ table \in Tables /\ q.at = "facts" /\ UNCHANGED index
  BY DEF SearchInv, SearchTyped, StagesFollow, ExactFact, Step
<1>2. PICK i : i = Current(q.ask) /\ i # 0
  BY DEF ExactFact
<1>3. i \in DOMAIN table /\ ~table[i].dead /\ About[table[i].entry].key = q.ask
  BY <1>1, <1>2, CurrentRow
<1>4. i \in Nat \ {0} /\ table[i].entry \in Entries
  BY <1>1, <1>3, TableRows
<1>5. PICK e \in Entries : e = table[i].entry
  BY <1>4
<1>6. PICK h \in SearchHit : h.id = i /\ h.entry = e /\ h = Hit(i, e, Unit)
  BY <1>4, EntryParts DEF Hit, SearchHit
<1>7. PICK hits \in Seq(SearchHit) : hits = <<h>> /\ DOMAIN hits = {1} /\ hits[1] = h
  <2>1. <<h>> \in Seq(SearchHit) /\ <<h>>[1] = h
    OBVIOUS
  <2>2. DOMAIN <<h>> = {1}
    OBVIOUS
  <2> QED
    BY <2>1, <2>2
<1>8. q' = [q EXCEPT !.at = "answered", !.hits = hits]
  BY <1>2, <1>5, <1>6, <1>7 DEF ExactFact, Step
<1>9. Distinct(hits) /\ InOrder(hits)
  BY <1>7 DEF Distinct, InOrder
<1>10. \A n \in DOMAIN hits : Answers(hits[n])
  BY <1>1, <1>2, <1>3, <1>5, <1>6, <1>7 DEF Answers
<1> QED
  BY <1>1, <1>8, <1>9, <1>10, AnswerKeeps

\* Of the hits that were live the registry's row of the key is the only one left.
LEMMA FilterCurrentKeeps ==
  ASSUME SearchInv, FilterCurrent
  PROVE  SearchInv'
<1>1. /\ SearchTyped /\ table \in q.seen /\ table \in Tables /\ q.at = "current"
      /\ UNCHANGED index /\ ~q.audit /\ q.hits \in Seq(SearchHit)
  BY SearchParts DEF SearchInv, StagesFollow, FilterCurrent, Step
<1>2. /\ Distinct(q.hits) /\ InOrder(q.hits)
      /\ \A n \in DOMAIN q.hits : WasLive(q.hits[n].id, q.hits[n].entry)
  BY <1>1 DEF SearchInv, ChosenInOrder, ChosenWereLive
<1> DEFINE keep == {n \in DOMAIN q.hits : IsCurrent(q.hits[n])}
<1>3. PICK hits \in Seq(SearchHit) :
        /\ hits = Picked(q.hits, keep) /\ Distinct(hits) /\ InOrder(hits)
        /\ \A n \in DOMAIN hits : Nth(keep, n) \in keep /\ hits[n] = q.hits[Nth(keep, n)]
  <2>1. PICK s \in Seq(SearchHit) : s = q.hits
    BY <1>1
  <2>2. PICK k \in SUBSET (DOMAIN s) : k = keep
    BY <2>1
  <2>3. /\ Picked(s, k) \in Seq(SearchHit)
        /\ \A n \in DOMAIN Picked(s, k) : Nth(k, n) \in k /\ Picked(s, k)[n] = s[Nth(k, n)]
    BY PickedMembers
  <2>4. Distinct(Picked(s, k)) /\ InOrder(Picked(s, k))
    BY <1>2, <2>1, PickedInOrder
  <2> HIDE DEF keep
  <2> QED
    BY <2>1, <2>2, <2>3, <2>4
<1>4. q' = [q EXCEPT !.at = "answered", !.hits = hits]
  BY <1>3 DEF FilterCurrent, Step
<1>5. ASSUME NEW n \in DOMAIN hits
      PROVE  Answers(hits[n])
  <2>1. PICK m \in DOMAIN q.hits : hits[n] = q.hits[m] /\ IsCurrent(q.hits[m])
    BY <1>3
  <2>2. PICK h : h = hits[n] /\ WasLive(h.id, h.entry) /\ IsCurrent(h)
    BY <1>2, <2>1
  <2>3. ASSUME Quiet, About[h.entry].key # NoKey
        PROVE  h.id = Current(About[h.entry].key)
    <3>1. q.seen = {table}
      BY <1>1, <2>3, QuietSeen
    <3>2. h.id \in DOMAIN table /\ table[h.id].entry = h.entry /\ ~table[h.id].dead
      BY <2>2, <3>1 DEF WasLive
    <3>3. h.id \in Nat \ {0}
      BY <1>1, <3>2, TableRows
    <3>4. PICK k : k = About[h.entry].key
      OBVIOUS
    <3>5. Current(k) \in Nat /\ Current(k) >= h.id
      BY <1>1, <3>2, <3>4, CurrentRow
    <3>6. Current(k) \in {0, h.id}
      BY <2>2, <2>3, <3>4 DEF IsCurrent
    <3> QED
      BY <3>3, <3>4, <3>5, <3>6
  <2> QED
    BY <2>2, <2>3 DEF WasLive, Answers
<1>6. Distinct(hits) /\ InOrder(hits) /\ q.at # "idle"
  BY <1>1, <1>3
<1> QED
  BY <1>1, <1>4, <1>5, <1>6, AnswerKeeps


\* A choice makes no candidate worth more than it was.
LEMMA AdjustedFalls ==
  ASSUME NEW c \in SearchCand, DOMAIN q.hits \subseteq DOMAIN q'.hits,
         \A n \in DOMAIN q.hits : q'.hits[n] = q.hits[n]
  PROVE  /\ Adjusted(c) \in Int /\ Adjusted(c)' \in Int /\ Adjusted(c)' <= Adjusted(c)
         /\ Max({0, Adjusted(c)}) \in Nat /\ Max({0, Adjusted(c)'}) <= Max({0, Adjusted(c)})
<1>1. c.entry \in Entries /\ c.text \in Int /\ c.dense \in Int /\ c.rerank \in Int
  BY DEF SearchCand
<1>2. Score(c) \in Int
  <2>1. PICK x \in Int :
          x = (IF c.rerank = -1 THEN 2 * (c.text + c.dense) ELSE c.text + c.dense + c.rerank)
                + About[c.entry].boost
    BY <1>1, EntryParts
  <2>2. Score(c) = Max({0, x})
    BY <2>1 DEF Score
  <2> QED
    BY <2>2, MaxOfTwo
<1> DEFINE alike(hits) == \E h \in ToSet(hits) : {c.entry, h.entry} \in Alike
<1>3. alike(q.hits) => alike(q'.hits)
  BY DEF ToSet
<1>4. /\ Adjusted(c) = Score(c) - (IF alike(q.hits) THEN Penalty ELSE 0)
      /\ Adjusted(c)' = Score(c) - (IF alike(q'.hits) THEN Penalty ELSE 0)
  BY DEF Adjusted, Score
<1> HIDE DEF alike
<1>5. PICK a \in Int : a = Adjusted(c)
  BY <1>2, <1>4, EntryParts
<1>6. PICK b \in Int : b = Adjusted(c)' /\ b <= a
  BY <1>2, <1>3, <1>4, <1>5, EntryParts
<1>7. Max({0, a}) \in Nat /\ Max({0, b}) <= Max({0, a})
  BY <1>6, MaxOfTwo
<1> QED
  BY <1>5, <1>6, <1>7

LEMMA ChooseKeeps ==
  ASSUME SearchInv, Choose
  PROVE  SearchInv'
<1>1. /\ SearchTyped /\ table \in q.seen /\ q.at = "select" /\ UNCHANGED index
      /\ q \in Search /\ q.hits \in Seq(SearchHit) /\ q.cands \in Pools
  BY SearchParts DEF SearchInv, SearchTyped, StagesFollow, Choose, Step
<1>2. PICK i \in DOMAIN q.cands :
        /\ \A j \in DOMAIN q.cands : Adjusted(q.cands[i]) >= Adjusted(q.cands[j])
        /\ q' = [q EXCEPT !.hits = Append(q.hits, Hit(i, q.cands[i].entry, Max({0, Adjusted(q.cands[i])}))),
                         !.cands = Restrict(q.cands, DOMAIN q.cands \ {i})]
  BY DEF Choose, Step
<1>3. /\ DOMAIN q.cands \in SUBSET (Nat \ {0})
      /\ \A j \in DOMAIN q.cands : q.cands[j] \in SearchCand /\ WasLive(j, q.cands[j].entry)
  BY <1>1, PoolParts DEF SearchInv, CandidatesWereLive
<1>4. PICK e \in Entries : e = q.cands[i].entry
  BY <1>3 DEF SearchCand
<1>5. PICK s \in Nat : s = Max({0, Adjusted(q.cands[i])})
  <2>1. \A x \in Int : Max({0, x}) \in Nat
    BY MaxOfTwo
  <2>2. PICK c \in SearchCand : c = q.cands[i]
    BY <1>3
  <2>3. Adjusted(c) \in Int
    <3>1. PICK x \in Int :
          x = (IF c.rerank = -1 THEN 2 * (c.text + c.dense) ELSE c.text + c.dense + c.rerank)
                + About[c.entry].boost
      BY EntryParts DEF SearchCand
    <3>2. Score(c) = Max({0, x})
      BY <3>1 DEF Score
    <3> QED
      BY <2>1, <3>2, EntryParts DEF Adjusted
  <2> QED
    BY <2>1, <2>2, <2>3
<1>6. PICK h \in SearchHit : h = Hit(i, e, s) /\ h.id = i /\ h.entry = e /\ h.score = s
  <2>1. i \in Nat \ {0}
    BY <1>3
  <2>2. PICK k \in Nat \ {0} : k = i
    BY <2>1
  <2>3. Hit(k, e, s) \in SearchHit /\ Hit(k, e, s).id = k
    BY DEF Hit, SearchHit
  <2>4. Hit(k, e, s).entry = e /\ Hit(k, e, s).score = s
    BY DEF Hit
  <2> QED
    BY <2>2, <2>3, <2>4
<1>7. PICK N \in Nat : N = Len(q.hits) /\ DOMAIN q.hits = 1..N
  BY <1>1
<1>8. PICK hits \in Seq(SearchHit) :
        /\ hits = Append(q.hits, h) /\ DOMAIN hits = 1..(N + 1) /\ hits[N + 1] = h
        /\ \A n \in 1..N : hits[n] = q.hits[n]
  <2>1. PICK t \in Seq(SearchHit) : t = q.hits
    BY <1>1
  <2>2. /\ Append(t, h) \in Seq(SearchHit) /\ Len(Append(t, h)) = N + 1
        /\ \A n \in 1..N : Append(t, h)[n] = t[n]
        /\ Append(t, h)[N + 1] = h
    BY <1>7, <2>1, AppendProperties
  <2>3. DOMAIN Append(t, h) = 1..(N + 1)
    BY <2>2
  <2> QED
    BY <2>1, <2>2, <2>3
<1>9. PICK left \in Pools :
        /\ left = Restrict(q.cands, DOMAIN q.cands \ {i}) /\ DOMAIN left = DOMAIN q.cands \ {i}
        /\ \A j \in DOMAIN left : left[j] = q.cands[j]
  <2> DEFINE D == DOMAIN q.cands \ {i}
             r == [j \in D |-> q.cands[j]]
  <2>1. r \in [D -> SearchCand] /\ D \in SUBSET (Nat \ {0})
    BY <1>3
  <2>2. r = Restrict(q.cands, D)
    BY DEF Restrict
  <2> QED
    BY <2>1, <2>2, PoolOf
<1>10. q' = [q EXCEPT !.hits = hits, !.cands = left]
  BY <1>2, <1>4, <1>5, <1>6, <1>8, <1>9
<1>11. /\ q' \in Search /\ q'.at = "select" /\ q'.hits = hits /\ q'.cands = left
       /\ q'.seen = q.seen /\ q'.audit = q.audit
  BY <1>1, <1>10 DEF Search
<1>12. SearchTyped' /\ StagesFollow' /\ HitsAreLive' /\ NoOutdatedFact'
  BY <1>1, <1>11 DEF SearchTyped, StagesFollow, HitsAreLive, NoOutdatedFact, index
<1>13. CandidatesWereLive'
  <2>1. \A j \in DOMAIN left : WasLive(j, left[j].entry)
    BY <1>3, <1>9
  <2>2. \A j, x : WasLive(j, x) => WasLive(j, x)'
    BY <1>11 DEF WasLive
  <2> QED
    BY <1>11, <2>1, <2>2 DEF CandidatesWereLive, WasLive
<1>14. ASSUME NEW n \in 1..(N + 1) PROVE n = N + 1 \/ n \in 1..N
  OBVIOUS
<1>15. ChosenWereLive'
  <2>1. \A n \in 1..N : WasLive(q.hits[n].id, q.hits[n].entry)
    BY <1>1, <1>7 DEF SearchInv, ChosenWereLive
  <2>2. WasLive(h.id, h.entry)
    BY <1>3, <1>4, <1>6
  <2>3. \A n \in 1..(N + 1) : WasLive(hits[n].id, hits[n].entry)
    BY <1>8, <1>14, <2>1, <2>2
  <2> QED
    BY <1>8, <1>11, <2>3 DEF ChosenWereLive, WasLive
<1>16. /\ \A n \in 1..N : q.hits[n].score \in Nat
       /\ Distinct(q.hits) /\ InOrder(q.hits)
       /\ \A n \in 1..N, j \in DOMAIN q.cands :
             q.hits[n].id # j /\ q.hits[n].score >= Max({0, Adjusted(q.cands[j])})
  <2>1. \A n \in 1..N : q.hits[n] \in SearchHit
    BY <1>1, <1>7
  <2>2. \A h0 \in SearchHit : h0.score \in Nat
    BY DEF SearchHit
  <2>3. ChosenInOrder
    BY DEF SearchInv
  <2> QED
    BY <1>1, <1>7, <2>1, <2>2, <2>3 DEF ChosenInOrder
<1>17. \A n \in 1..N : q.hits[n].id # h.id /\ q.hits[n].score >= h.score
  BY <1>5, <1>6, <1>16
<1>18. Distinct(hits)
  <2> SUFFICES ASSUME NEW m \in 1..(N + 1), NEW n \in 1..(N + 1), m # n
               PROVE  hits[m].id # hits[n].id
    BY <1>8 DEF Distinct
  <2> QED
    BY <1>7, <1>8, <1>14, <1>16, <1>17 DEF Distinct
<1>19. InOrder(hits)
  <2> SUFFICES ASSUME NEW m \in 1..(N + 1), NEW n \in 1..(N + 1), m < n
               PROVE  hits[m].score >= hits[n].score
    BY <1>8 DEF InOrder
  <2>1. m \in 1..N
    OBVIOUS
  <2> QED
    BY <1>7, <1>8, <1>14, <1>16, <1>17, <2>1 DEF InOrder
<1>20. ASSUME NEW n \in 1..(N + 1), NEW j \in DOMAIN left
       PROVE  hits[n].id # j /\ hits[n].score >= Max({0, Adjusted(left[j])'})
  <2>1. PICK c \in SearchCand : c = q.cands[j] /\ c = left[j] /\ j # i /\ j \in DOMAIN q.cands
    BY <1>3, <1>9
  <2>2. PICK d \in SearchCand : d = q.cands[i]
    BY <1>3
  <2>3. /\ Adjusted(c) \in Int /\ Max({0, Adjusted(c)}) \in Nat /\ Adjusted(d) \in Int
        /\ Max({0, Adjusted(c)'}) <= Max({0, Adjusted(c)}) /\ Adjusted(c)' \in Int
    <3>1. /\ DOMAIN q.hits \subseteq DOMAIN q'.hits
          /\ \A k \in DOMAIN q.hits : q'.hits[k] = q.hits[k]
      BY <1>7, <1>8, <1>11
    <3>2. /\ Adjusted(c) \in Int /\ Max({0, Adjusted(c)}) \in Nat
          /\ Max({0, Adjusted(c)'}) <= Max({0, Adjusted(c)}) /\ Adjusted(c)' \in Int
      BY <3>1, AdjustedFalls
    <3>3. Adjusted(d) \in Int
      BY <3>1, AdjustedFalls
    <3> QED
      BY <3>2, <3>3
  <2>4. Adjusted(d) >= Adjusted(c) /\ s = Max({0, Adjusted(d)})
    BY <1>2, <1>5, <2>1, <2>2
  <2>5. s >= Max({0, Adjusted(c)})
    BY <2>3, <2>4, MaxOfTwo
  <2>6. Max({0, Adjusted(c)'}) \in Nat
    BY <2>3, MaxOfTwo
  <2>7. CASE n = N + 1
    BY <1>6, <1>8, <2>1, <2>3, <2>5, <2>6, <2>7
  <2>8. CASE n \in 1..N
    <3>1. q.hits[n].id # j /\ q.hits[n].score >= Max({0, Adjusted(c)}) /\ q.hits[n].score \in Nat
      BY <1>16, <2>1, <2>8
    <3> QED
      BY <1>8, <2>1, <2>3, <2>6, <2>8, <3>1
  <2> QED
    BY <1>14, <2>7, <2>8
<1>21. ChosenInOrder'
  BY <1>8, <1>11, <1>18, <1>19, <1>20 DEF ChosenInOrder, Distinct, InOrder, Adjusted
<1> QED
  BY <1>12, <1>13, <1>15, <1>21 DEF SearchInv


LEMMA ChosenKeeps ==
  ASSUME SearchInv, Chosen
  PROVE  SearchInv'
<1>1. /\ SearchTyped /\ table \in q.seen /\ q.at = "select" /\ UNCHANGED index
      /\ q \in Search /\ q.audit \in BOOLEAN
  BY SearchParts DEF SearchInv, SearchTyped, StagesFollow, Chosen, Step
<1>2. PICK s \in Seq(SearchHit) : s = q.hits
  BY <1>1, SearchParts
<1>3. Distinct(s) /\ InOrder(s) /\ \A n \in DOMAIN s : WasLive(s[n].id, s[n].entry)
  BY <1>1, <1>2 DEF SearchInv, ChosenInOrder, ChosenWereLive
<1>4. PICK keep \in SUBSET (DOMAIN s) : keep = {n \in DOMAIN s : s[n].score >= MinScore}
  OBVIOUS
<1>5. PICK hits \in Seq(SearchHit) :
        /\ hits = Picked(s, keep)
        /\ \A n \in DOMAIN hits : Nth(keep, n) \in DOMAIN s /\ hits[n] = s[Nth(keep, n)]
  BY PickedMembers
<1>6. Distinct(hits) /\ InOrder(hits)
  BY <1>3, <1>5, PickedInOrder
<1>7. PICK at \in {"audit", "current"} : at = IF q.audit THEN "audit" ELSE "current"
  OBVIOUS
<1>8. q' = [q EXCEPT !.hits = hits, !.cands = <<>>, !.at = at]
  BY <1>2, <1>4, <1>5, <1>7 DEF Chosen, Step
<1>9. <<>> \in Pools /\ DOMAIN <<>> = {} /\ at \in SearchStages
  <2>1. <<>> \in [{} -> SearchCand]
    OBVIOUS
  <2> QED
    BY <2>1 DEF Pools, SearchStages
<1>10. /\ q' \in Search /\ q'.at = at /\ q'.hits = hits /\ q'.cands = <<>>
       /\ q'.seen = q.seen /\ q'.audit = q.audit
  BY <1>1, <1>8, <1>9 DEF Search
<1>11. SearchTyped' /\ HitsAreLive' /\ NoOutdatedFact' /\ CandidatesWereLive'
  BY <1>1, <1>9, <1>10 DEF SearchTyped, HitsAreLive, NoOutdatedFact, CandidatesWereLive, index
<1>12. StagesFollow'
  BY <1>1, <1>7, <1>10 DEF StagesFollow, index
<1>13. ChosenWereLive'
  BY <1>3, <1>5, <1>10 DEF ChosenWereLive, WasLive
<1>14. ChosenInOrder'
  BY <1>6, <1>10 DEF ChosenInOrder, Distinct, InOrder
<1> QED
  BY <1>11, <1>12, <1>13, <1>14 DEF SearchInv

LEMMA CutDistinct ==
  ASSUME NEW s \in Seq(SearchHit), q.limit \in Nat, Distinct(s)
  PROVE  Distinct(Cut(s))
BY CutMembers DEF Distinct

\* The forgotten rows come first and the hits of their ids are dropped.
LEMMA AuditDistinct ==
  ASSUME NEW d \in Seq(SearchHit), Distinct(d), q.hits \in Seq(SearchHit), Distinct(q.hits)
  PROVE  /\ Audit(d) \in Seq(SearchHit) /\ Distinct(Audit(d))
         /\ \A n \in DOMAIN Audit(d) :
              \/ \E m \in DOMAIN d : Audit(d)[n] = d[m]
              \/ \E m \in DOMAIN q.hits : Audit(d)[n] = q.hits[m]
<1>1. PICK s \in Seq(SearchHit) : s = q.hits
  OBVIOUS
<1>2. PICK keep \in SUBSET (DOMAIN s) : keep = {n \in DOMAIN s : s[n].id \notin {h.id : h \in ToSet(d)}}
  OBVIOUS
<1>3. PICK p \in Seq(SearchHit) :
        /\ p = Picked(s, keep) /\ Distinct(p)
        /\ \A n \in DOMAIN p : Nth(keep, n) \in keep /\ p[n] = s[Nth(keep, n)]
  BY <1>1, PickedMembers, PickedInOrder
<1>4. Audit(d) = d \o p
  BY <1>1, <1>2, <1>3 DEF Audit
<1>5. PICK M \in Nat : M = Len(d) /\ DOMAIN d = 1..M
  OBVIOUS
<1>6. PICK N \in Nat : N = Len(p) /\ DOMAIN p = 1..N
  OBVIOUS
<1>7. PICK a \in Seq(SearchHit) :
        /\ a = Audit(d) /\ Len(a) = M + N
        /\ \A i \in 1..(M + N) : a[i] = IF i <= M THEN d[i] ELSE p[i - M]
  <2>1. /\ d \o p \in Seq(SearchHit) /\ Len(d \o p) = M + N
        /\ \A i \in 1..(M + N) : (d \o p)[i] = IF i <= M THEN d[i] ELSE p[i - M]
    BY <1>5, <1>6, ConcatProperties
  <2> QED
    BY <1>4, <2>1
<1>8. DOMAIN a = 1..(M + N)
  BY <1>7
<1>9. \A n \in 1..N : p[n] \in {s[m] : m \in keep}
  BY <1>3, <1>6
<1>10. ASSUME NEW m \in 1..M, NEW n \in 1..N PROVE d[m].id # p[n].id
  <2>1. PICK k \in keep : p[n] = s[k]
    BY <1>9
  <2>2. d[m] \in ToSet(d)
    BY <1>5 DEF ToSet
  <2> QED
    BY <1>2, <2>1, <2>2
<1>11. ASSUME NEW i \in 1..(M + N)
       PROVE  \/ i \in 1..M /\ a[i] = d[i]
              \/ i - M \in 1..N /\ a[i] = p[i - M]
  <2>1. a[i] = IF i <= M THEN d[i] ELSE p[i - M]
    BY <1>7
  <2>2. (i <= M => i \in 1..M) /\ (~(i <= M) => i - M \in 1..N)
    OBVIOUS
  <2> QED
    BY <2>1, <2>2
<1>12. Distinct(a)
  <2> SUFFICES ASSUME NEW i \in 1..(M + N), NEW j \in 1..(M + N), i # j PROVE a[i].id # a[j].id
    BY <1>8 DEF Distinct
  <2>1. CASE i \in 1..M /\ a[i] = d[i] /\ j \in 1..M /\ a[j] = d[j]
    BY <1>5, <2>1 DEF Distinct
  <2>2. CASE i - M \in 1..N /\ a[i] = p[i - M] /\ j - M \in 1..N /\ a[j] = p[j - M]
    <3>1. PICK x \in 1..N : x = i - M
      BY <2>2
    <3>2. PICK y \in 1..N : y = j - M
      BY <2>2
    <3>3. x # y
      BY <3>1, <3>2
    <3>4. p[x].id # p[y].id
      BY <1>3, <1>6, <3>3 DEF Distinct
    <3> QED
      BY <2>2, <3>1, <3>2, <3>4
  <2>3. CASE i \in 1..M /\ a[i] = d[i] /\ j - M \in 1..N /\ a[j] = p[j - M]
    BY <1>10, <2>3
  <2>4. CASE i - M \in 1..N /\ a[i] = p[i - M] /\ j \in 1..M /\ a[j] = d[j]
    BY <1>10, <2>4
  <2> QED
    BY <1>11, <2>1, <2>2, <2>3, <2>4
<1>13. ASSUME NEW n \in 1..(M + N)
       PROVE  (\E m \in DOMAIN d : a[n] = d[m]) \/ (\E m \in DOMAIN s : a[n] = s[m])
  <2>1. CASE n \in 1..M /\ a[n] = d[n]
    BY <1>5, <2>1
  <2>2. CASE n - M \in 1..N /\ a[n] = p[n - M]
    BY <1>9, <2>2
  <2> QED
    BY <1>11, <2>1, <2>2
<1> QED
  BY <1>1, <1>7, <1>8, <1>12, <1>13

\* The ids of the forgotten rows are counted down, each once.
LEMMA DeadRows ==
  ASSUME table \in Tables
  PROVE  LET id(n) == Nth(DeadIds, Cardinality(DeadIds) + 1 - n)
             dead  == [n \in 1..Cardinality(DeadIds) |-> Hit(id(n), table[id(n)].entry, 0)]
         IN  /\ dead \in Seq(SearchHit) /\ Distinct(dead)
             /\ \A n \in DOMAIN dead : dead[n].id \in DeadIds /\ dead[n].entry = table[dead[n].id].entry
<1> DEFINE id(n) == Nth(DeadIds, Cardinality(DeadIds) + 1 - n)
           dead  == [n \in 1..Cardinality(DeadIds) |-> Hit(id(n), table[id(n)].entry, 0)]
<1>1. PICK k \in Nat : k = Len(table) /\ DOMAIN table = 1..k
  BY TableRows
<1>2. PICK S \in SUBSET (1..k) : S = DeadIds
  BY <1>1 DEF DeadIds
<1>3. PICK N \in Nat : N = Cardinality(S)
  BY CountUpTo
<1>4. \A n \in 1..N : N + 1 - n \in 1..N
  OBVIOUS
<1>5. \A n \in 1..N : Nth(S, n) \in S
  BY <1>3, NthIn
<1>6. \A m, n \in 1..N : m < n => Nth(S, m) < Nth(S, n)
  BY <1>3, NthGrows
<1>7. \A n \in 1..N : id(n) = Nth(S, N + 1 - n) /\ id(n) \in S
  BY <1>2, <1>3, <1>4, <1>5
<1>8. ASSUME NEW m \in 1..N, NEW n \in 1..N, m < n PROVE id(n) < id(m)
  <2>1. N + 1 - n < N + 1 - m
    BY <1>8
  <2> QED
    BY <1>4, <1>6, <1>7, <2>1
<1> HIDE DEF id
<1>9. ASSUME NEW n \in 1..N PROVE id(n) \in Nat \ {0} /\ table[id(n)].entry \in Entries
  <2>1. PICK i \in 1..k : i = id(n)
    BY <1>7
  <2> QED
    BY <1>1, <2>1, TableRows
<1>10. ASSUME NEW n \in 1..N
       PROVE  LET h == Hit(id(n), table[id(n)].entry, 0)
              IN  h \in SearchHit /\ h.id = id(n) /\ h.entry = table[id(n)].entry
  <2>1. PICK i \in Nat \ {0} : i = id(n)
    BY <1>9
  <2>2. PICK e \in Entries : e = table[id(n)].entry
    BY <1>9
  <2>3. Hit(i, e, 0) \in SearchHit /\ Hit(i, e, 0).id = i /\ Hit(i, e, 0).entry = e
    BY DEF Hit, SearchHit
  <2> QED
    BY <2>1, <2>2, <2>3
<1>11. dead = [n \in 1..N |-> Hit(id(n), table[id(n)].entry, 0)]
  BY <1>2, <1>3
<1> HIDE DEF dead
<1>12. /\ DOMAIN dead = 1..N
       /\ \A n \in 1..N : dead[n] \in SearchHit /\ dead[n].id = id(n) /\ dead[n].entry = table[id(n)].entry
  BY <1>10, <1>11
<1>13. dead \in Seq(SearchHit)
  BY <1>11, <1>12
<1>14. Distinct(dead)
  <2> SUFFICES ASSUME NEW m \in 1..N, NEW n \in 1..N, m # n PROVE id(m) # id(n)
    BY <1>12 DEF Distinct
  <2>1. PICK i \in Nat : i = id(m)
    BY <1>9
  <2>2. PICK j \in Nat : j = id(n)
    BY <1>9
  <2>3. m < n \/ n < m
    OBVIOUS
  <2>4. i < j \/ j < i
    BY <1>8, <2>1, <2>2, <2>3
  <2> QED
    BY <2>1, <2>2, <2>4
<1>15. \A n \in DOMAIN dead : dead[n].id \in DeadIds /\ dead[n].entry = table[dead[n].id].entry
  BY <1>2, <1>7, <1>12
<1> QED
  BY <1>13, <1>14, <1>15 DEF dead, id


LEMMA AddForgottenKeeps ==
  ASSUME SearchInv, AddForgotten
  PROVE  SearchInv'
<1>1. /\ SearchTyped /\ table \in q.seen /\ table \in Tables /\ q.at = "audit" /\ q.audit
      /\ UNCHANGED index /\ q.limit \in Nat /\ q.hits \in Seq(SearchHit)
  BY SearchParts DEF SearchInv, StagesFollow, AddForgotten, Step
<1>2. Distinct(q.hits) /\ \A n \in DOMAIN q.hits : WasLive(q.hits[n].id, q.hits[n].entry)
  BY <1>1 DEF SearchInv, ChosenInOrder, ChosenWereLive
<1> DEFINE id(n) == Nth(DeadIds, Cardinality(DeadIds) + 1 - n)
           rows == [n \in 1..Cardinality(DeadIds) |-> Hit(id(n), table[id(n)].entry, 0)]
<1>3. q' = [q EXCEPT !.hits = Cut(Audit(Cut(rows))), !.at = "answered"]
  BY DEF AddForgotten, Step
<1>4. PICK dead \in Seq(SearchHit) :
        /\ dead = rows /\ Distinct(dead)
        /\ \A n \in DOMAIN dead : dead[n].id \in DeadIds /\ dead[n].entry = table[dead[n].id].entry
  BY <1>1, DeadRows
<1> HIDE DEF rows
<1>5. PICK d \in Seq(SearchHit) :
        d = Cut(dead) /\ Distinct(d) /\ \A n \in DOMAIN d : n \in DOMAIN dead /\ d[n] = dead[n]
  BY <1>1, <1>4, CutMembers, CutDistinct
<1>6. PICK a \in Seq(SearchHit) :
        /\ a = Audit(d) /\ Distinct(a)
        /\ \A n \in DOMAIN a : \/ \E m \in DOMAIN d : a[n] = d[m]
                               \/ \E m \in DOMAIN q.hits : a[n] = q.hits[m]
  BY <1>1, <1>2, <1>5, AuditDistinct
<1>7. PICK hits \in Seq(SearchHit) :
        hits = Cut(a) /\ Distinct(hits) /\ \A n \in DOMAIN hits : n \in DOMAIN a /\ hits[n] = a[n]
  BY <1>1, <1>6, CutMembers, CutDistinct
<1>8. q' = [q EXCEPT !.at = "answered", !.hits = hits]
  <2>1. q' = [q EXCEPT !.hits = hits, !.at = "answered"]
    BY <1>3, <1>4, <1>5, <1>6, <1>7
  <2> QED
    BY <1>1, <2>1 DEF SearchTyped, Search
<1>9. \A i \in DeadIds : i \in DOMAIN table /\ About[table[i].entry].scoped
  BY DEF DeadIds
<1>10. ASSUME NEW n \in DOMAIN hits PROVE Answers(hits[n])
  <2>1. CASE \E m \in DOMAIN d : a[n] = d[m]
    <3>1. PICK m \in DOMAIN dead : hits[n] = dead[m]
      BY <1>5, <1>7, <2>1
    <3>2. PICK h : h = hits[n] /\ h.id \in DeadIds /\ h.entry = table[h.id].entry
      BY <1>4, <3>1
    <3> QED
      BY <1>1, <1>9, <3>2 DEF Answers
  <2>2. CASE \E m \in DOMAIN q.hits : a[n] = q.hits[m]
    <3>1. PICK m \in DOMAIN q.hits : hits[n] = q.hits[m]
      BY <1>7, <2>2
    <3>2. PICK h : h = hits[n] /\ WasLive(h.id, h.entry)
      BY <1>2, <3>1
    <3> QED
      BY <1>1, <3>2 DEF Answers, WasLive
  <2> QED
    BY <1>6, <1>7, <2>1, <2>2
<1>11. q.at # "idle" /\ Distinct(hits)
  BY <1>1, <1>7
<1> QED
  BY <1>1, <1>8, <1>10, <1>11, AnswerKeeps

(***************************************************************************)
(* MEMORY SEARCH: the other commands, and the theorems.                     *)
(***************************************************************************)

\* A rebuild leaves the search what it holds; a search that was alone with its
\* table has now seen another, or the same one again.
LEMMA ReindexKeeps ==
  ASSUME SearchInv, Reindex
  PROVE  SearchInv'
<1>1. SearchTyped /\ q \in Search /\ q.seen \in SUBSET Tables /\ IsFiniteSet(q.seen)
  BY SearchParts DEF SearchInv, SearchTyped
<1>2. table' \in Tables /\ UNCHANGED <<points, orphans>>
  BY DEF Reindex
<1>3. CASE q.at = "idle"
  <2>1. q' = q
    BY <1>3 DEF Reindex
  <2>2. SearchTyped' /\ StagesFollow' /\ CandidatesWereLive' /\ ChosenWereLive' /\ ChosenInOrder'
    BY <1>2, <1>3, <2>1 DEF SearchInv, SearchTyped, StagesFollow, CandidatesWereLive,
         ChosenWereLive, WasLive, ChosenInOrder, Distinct, InOrder, Adjusted
  <2> QED
    BY <1>3, <2>1, <2>2 DEF SearchInv, HitsAreLive, NoOutdatedFact
<1>4. CASE q.at # "idle"
  <2>1. q' = [q EXCEPT !.seen = q.seen \cup {table'}]
    BY <1>4 DEF Reindex
  <2>2. /\ q'.seen = q.seen \cup {table'} /\ q'.at = q.at /\ q'.audit = q.audit /\ q'.ask = q.ask
        /\ q'.hits = q.hits /\ q'.cands = q.cands /\ q' \in Search
    BY <1>1, <1>2, <2>1 DEF Search
  <2>3. SearchTyped'
    BY <1>1, <1>2, <2>2, FS_AddElement DEF SearchTyped
  <2>4. StagesFollow'
    BY <2>2 DEF SearchInv, StagesFollow
  <2>5. \A i, e : WasLive(i, e) => WasLive(i, e)'
    BY <2>2 DEF WasLive
  <2>6. CandidatesWereLive' /\ ChosenWereLive'
    BY <2>2, <2>5 DEF SearchInv, CandidatesWereLive, ChosenWereLive
  <2>7. ChosenInOrder'
    BY <2>2 DEF SearchInv, ChosenInOrder, Distinct, InOrder, Adjusted
  <2>8. HitsAreLive'
    BY <2>2 DEF SearchInv, HitsAreLive
  <2>9. NoOutdatedFact'
    <3>1. CASE table' = table
      <4>1. q'.seen = q.seen
        BY <1>4, <2>2, <3>1 DEF SearchInv, StagesFollow
      <4> QED
        BY <2>2, <3>1, <4>1 DEF SearchInv, NoOutdatedFact, Quiet, Current
    <3>2. CASE table' # table
      <4>1. table \in q'.seen /\ table' \in q'.seen /\ IsFiniteSet(q'.seen)
        BY <1>1, <1>4, <2>2, FS_AddElement DEF SearchInv, StagesFollow
      <4>2. ~(Cardinality(q'.seen) = 1)
        BY <3>2, <4>1, FS_Singleton
      <4> QED
        BY <4>2 DEF NoOutdatedFact, Quiet
    <3> QED
      BY <3>1, <3>2
  <2> QED
    BY <2>3, <2>4, <2>6, <2>7, <2>8, <2>9 DEF SearchInv
<1> QED
  BY <1>3, <1>4

\* Neither a sync nor its failure touches the table or the search.
LEMMA SyncKeeps ==
  ASSUME SearchInv, Sync \/ SyncFails \/ UNCHANGED vars
  PROVE  SearchInv'
<1>1. UNCHANGED <<table, q>>
  BY DEF Sync, SyncFails, vars, index
<1>2. SearchTyped
  BY DEF SearchInv
<1>3. PointsOf(table) \subseteq Entries \X (Nat \ {0})
  BY <1>2, TableRows DEF PointsOf, SearchTyped
<1>4. points' \subseteq Entries \X (Nat \ {0}) /\ orphans' \subseteq points'
  <2>1. points \subseteq Entries \X (Nat \ {0}) /\ orphans \subseteq points
    BY <1>2 DEF SearchTyped
  <2> QED
    BY <1>3, <2>1 DEF Sync, SyncFails, vars, index
<1>5. SearchTyped'
  BY <1>1, <1>2, <1>4 DEF SearchTyped
<1>6. StagesFollow' /\ CandidatesWereLive' /\ ChosenWereLive' /\ ChosenInOrder'
  <2>1. StagesFollow'
    BY <1>1 DEF SearchInv, StagesFollow
  <2>2. CandidatesWereLive' /\ ChosenWereLive'
    BY <1>1 DEF SearchInv, CandidatesWereLive, ChosenWereLive, WasLive
  <2>3. ChosenInOrder'
    BY <1>1 DEF SearchInv, ChosenInOrder, Distinct, InOrder, Adjusted
  <2> QED
    BY <2>1, <2>2, <2>3
<1>7. HitsAreLive' /\ NoOutdatedFact'
  BY <1>1 DEF SearchInv, HitsAreLive, NoOutdatedFact, Quiet, Current
<1> QED
  BY <1>5, <1>6, <1>7 DEF SearchInv

LEMMA SearchStepHolds == SearchInv /\ [Next]_vars => SearchInv'
<1> SUFFICES ASSUME SearchInv, [Next]_vars PROVE SearchInv'
  OBVIOUS
<1>1. ASSUME NEW limit \in Limits, NEW audit \in BOOLEAN, NEW fallback \in BOOLEAN,
             NEW backend \in Backends, NEW ask \in {NoKey} \cup {About[e].key : e \in Entries},
             Begin(limit, audit, ask, backend, fallback)
      PROVE  SearchInv'
  BY <1>1, BeginKeeps
<1>2. CASE ExactFact
  BY <1>2, ExactFactKeeps
<1>3. CASE Resolve \/ DenseSearch \/ SparseSearch \/ VectorSearchFails
  BY <1>3, AskingKeeps
<1>4. CASE LaneCandidates
  BY <1>4, LaneCandidatesKeeps
<1>5. CASE SparseCandidates
  BY <1>5, SparseCandidatesKeeps
<1>6. CASE LoadDense
  BY <1>6, LoadDenseKeeps
<1>7. CASE Rerank \/ RerankFails
  BY <1>7, RerankKeeps
<1>8. CASE Choose
  BY <1>8, ChooseKeeps
<1>9. CASE Chosen
  BY <1>9, ChosenKeeps
<1>10. CASE FilterCurrent
  BY <1>10, FilterCurrentKeeps
<1>11. CASE AddForgotten
  BY <1>11, AddForgottenKeeps
<1>12. CASE Done
  BY <1>12, DoneKeeps
<1>13. CASE Reindex
  BY <1>13, ReindexKeeps
<1>14. CASE Sync \/ SyncFails \/ UNCHANGED vars
  BY <1>14, SyncKeeps
<1> QED
  BY <1>1, <1>2, <1>3, <1>4, <1>5, <1>6, <1>7, <1>8, <1>9, <1>10, <1>11, <1>12, <1>13, <1>14
  DEF Next

LEMMA SearchInvHolds == Spec => []SearchInv
BY SearchInitHolds, SearchStepHolds, PTL DEF Spec

\* What a search returns was a live row of that id at a moment of the search and
\* is in its scope (_load_rows_by_item_ids, _lane_candidates), for any tables,
\* entries and points of Qdrant, and however rebuilds and syncs come between.
THEOREM HitsWereLive == Spec => []HitsAreLive
<1>1. SearchInv => HitsAreLive
  BY DEF SearchInv
<1> QED
  BY <1>1, SearchInvHolds, PTL

\* A search that no rebuild overlaps returns no outdated value of a fact
\* (_exact_fact_lookup, _filter_current_fact_hits).
THEOREM FactsAreCurrent == Spec => []NoOutdatedFact
<1>1. SearchInv => NoOutdatedFact
  BY DEF SearchInv
<1> QED
  BY <1>1, SearchInvHolds, PTL

\* Hits come in the order of their scores, and no row twice, although every
\* choice lowers the scores of what is left (_apply_diversity).
THEOREM BestComesFirst == Spec => []BestFirst
<1>1. SearchInv => BestFirst
  BY DEF SearchInv, ChosenInOrder, Distinct, InOrder, BestFirst
<1> QED
  BY <1>1, SearchInvHolds, PTL

===============================================================================
