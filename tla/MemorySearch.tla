----------------------------- MODULE MemorySearch -----------------------------
(***************************************************************************)
(* One hypermemory search after the other, beside the commands that rebuild *)
(* the index.  A search asks the fact registry, then Qdrant, then SQLite;   *)
(* every SELECT sees what is committed by then, and row ids are given anew  *)
(* by each reindex, so the ids Qdrant answers with may be those of other    *)
(* rows.  A vector backend that fails degrades the search to SQLite, a      *)
(* reranker that fails leaves the order as it is.                           *)
(*                                                                         *)
(* A score of 1.0 is Unit; fusion is "weighted" with weights of 1 and the   *)
(* reranker has half the weight, so every score is doubled.  Candidate      *)
(* pools are larger than the table.  What a query makes of an entry is a    *)
(* constant; governance boosts and penalties are one number per entry.      *)
(*                                                                         *)
(* Definitions named A_B are mutants of A, not part of the specification.  *)
(***************************************************************************)
EXTENDS Integers, Sequences, FiniteSets, SequencesExt, FiniteSetsExt, Functions

CONSTANTS
  About,      \* About[e]: lane, key, in scope?, term and phrase match, cosine, boost
  NoKey,
  Alike,      \* pairs of entries with the same words
  Tables,     \* the contents the index may have: sequences of rows
  Limits,     \* the max_results that are asked for
  Unit, Penalty, MinScore, RerankPool,
  FailOpen,   \* rerank.fail_open
  MaxReindexes  \* bound: rebuilds of the index

Entries == DOMAIN About
Lanes == <<"memory", "corpus">>
Row == [entry : Entries, dead : BOOLEAN]
Backends == {"sqlite_fts", "qdrant_dense_hybrid", "qdrant_sparse_dense_hybrid"}

ASSUME SearchAssumption ==
  /\ IsFiniteSet(Entries)
  /\ \A e \in Entries : {About[e].terms, About[e].cosine, About[e].boost} \subseteq Int
  /\ \A t \in Tables : t \in Seq(Row)
  /\ Limits \subseteq Nat \ {0} /\ {Unit, Penalty, RerankPool} \subseteq Nat
  /\ Penalty < Unit /\ MinScore \in Int /\ FailOpen \in BOOLEAN /\ MaxReindexes \in Nat

VARIABLES
  table,    \* search_items: the row id is the position
  points,   \* Qdrant: <<entry, the item_id in its payload>>
  orphans,  \* the points of it that vector_items no longer lists
  sync,     \* the vector sync of the last rebuild: "due", "done" or "failed"
  q,        \* the search
  rebuilt   \* how much of the bound is used

index == <<table, points, orphans, sync, rebuilt>>
vars  == <<index, q>>

\* The n-th smallest number of a set, and the members of a sequence at the
\* positions of a set, in their order.
Nth(S, n) == CHOOSE i \in S : Cardinality({j \in S : j <= i}) = n
Picked(s, keep) == [n \in 1..Cardinality(keep) |-> s[Nth(keep, n)]]

PointsOf(t) == {<<t[i].entry, i>> : i \in DOMAIN t}

\* fact_registry: the last live row of a key, 0 when there is none.
Current(k) ==
  Max({0} \cup {i \in DOMAIN table : ~table[i].dead /\ About[table[i].entry].key = k})

Idle == [at |-> "idle", limit |-> 1, audit |-> FALSE, ask |-> NoKey,
         backend |-> "sqlite_fts", fallback |-> TRUE,
         lanes |-> Lanes, dense |-> {}, sparse |-> {}, cands |-> <<>>, hits |-> <<>>,
         seen |-> {}]

Init ==
  /\ table \in Tables /\ q = Idle /\ rebuilt = 0
  /\ \/ sync = "done" /\ points = PointsOf(table) /\ orphans = {}
     \/ sync = "failed" /\ \E t \in Tables : points = PointsOf(t) /\ orphans = points

-------------------------------------------------------------------------------
(* The stages of query_service.search and retrieval.search_index.           *)

Step(new) == q' = new /\ UNCHANGED index

\* A query that infers a fact key is asked for it before anything else.
Begin(limit, audit, ask, backend, fallback) ==
  /\ q.at = "idle"
  /\ Step([Idle EXCEPT !.at = "facts", !.limit = limit, !.audit = audit, !.ask = ask,
                       !.backend = backend, !.fallback = fallback,
                       !.seen = {table}])

\* row_to_search_hit: the row's id and content go with the score.
Hit(i, e, score) == [id |-> i, entry |-> e, score |-> score]

ExactFact ==
  /\ q.at = "facts" /\ ~q.audit /\ q.ask # NoKey /\ Current(q.ask) # 0
  /\ Step([q EXCEPT !.at = "answered",
                    !.hits = <<Hit(Current(q.ask), table[Current(q.ask)].entry, Unit)>>])

\* A sync that failed last makes the fallback backend answer.
Resolve ==
  LET b == IF q.fallback /\ sync = "failed" THEN "sqlite_fts" ELSE q.backend IN
  /\ q.at = "facts" /\ (q.audit \/ q.ask = NoKey \/ Current(q.ask) = 0)
  /\ Step([q EXCEPT !.backend = b, !.at = IF b = "sqlite_fts" THEN "lexical" ELSE "dense"])

\* Qdrant filters by the lane and scope in the payload and knows no dead rows.
Found(score) == {<<p[2], score[p[1]]>> : p \in {p \in points : About[p[1]].scoped /\ score[p[1]] > 0}}

DenseSearch ==
  /\ q.at = "dense"
  /\ Step([q EXCEPT !.dense = Found([e \in Entries |-> About[e].cosine]),
                    !.at = IF q.backend = "qdrant_dense_hybrid" THEN "lexical" ELSE "sparse"])

SparseSearch ==
  /\ q.at = "sparse"
  /\ Step([q EXCEPT !.sparse = Found([e \in Entries |-> About[e].terms]), !.at = "lexical"])

\* The embedding, the encoder state or Qdrant fails.
VectorSearchFails ==
  /\ q.at \in {"dense", "sparse"}
  /\ Step(IF q.fallback
          THEN [q EXCEPT !.backend = "sqlite_fts", !.dense = {}, !.sparse = {}, !.at = "lexical"]
          ELSE [q EXCEPT !.at = "raised"])

Candidate(e, text, dense) == [entry |-> e, text |-> text, dense |-> dense, rerank |-> -1]

Live(lane) == {i \in DOMAIN table : /\ ~table[i].dead /\ About[table[i].entry].scoped
                                    /\ About[table[i].entry].lane = lane}

\* A lane's rows that match a term; without any, those that hold the phrase.
Lexical(lane) ==
  LET fts == {i \in Live(lane) : About[table[i].entry].terms > 0}
      sub == {i \in Live(lane) : About[table[i].entry].phrase}
  IN IF fts # {}
     THEN [i \in fts |-> Candidate(table[i].entry, About[table[i].entry].terms, 0)]
     ELSE [i \in sub |-> Candidate(table[i].entry, Unit \div 3, 0)]

\* Of a row id that two lanes know, by a rebuild between their SELECTs, the one
\* with the lower text score is merged last and stays.
Added(new, cands) ==
  [i \in DOMAIN new \cup DOMAIN cands |->
     IF i \in DOMAIN new /\ (i \in DOMAIN cands => new[i].text <= cands[i].text)
     THEN new[i] ELSE cands[i]]

\* Where a search looks for the terms: among the sparse hits or in SQLite.
UsesSparseLane == q.backend = "qdrant_sparse_dense_hybrid"

LaneCandidates ==
  /\ q.at = "lexical" /\ ~UsesSparseLane
  /\ IF q.lanes = <<>> THEN Step([q EXCEPT !.at = "load"])
     ELSE Step([q EXCEPT !.lanes = Tail(@), !.cands = Added(Lexical(Head(q.lanes)), @)])

Loaded_Trusting(found) ==
  {p \in found : p[1] \in DOMAIN table /\ ~table[p[1]].dead}

\* Only rows that still exist, are live and in lane and scope are taken.
Loaded(found) ==
  {p \in found : \E lane \in ToSet(Lanes) : p[1] \in Live(lane)}

SparseCandidates ==
  LET found == Loaded(q.sparse)
      best(i) == Max({p[2] : p \in {p \in found : p[1] = i}})
  IN
  /\ q.at = "lexical" /\ UsesSparseLane
  /\ Step([q EXCEPT !.at = "load",
                    !.cands = [i \in {p[1] : p \in found} |-> Candidate(table[i].entry, best(i), 0)]])

\* A row that was found before keeps what was read of it then.
Merged(cands, found) ==
  LET best(i) == Max({p[2] : p \in {p \in found : p[1] = i}})
      hit == {p[1] : p \in found}
  IN [i \in DOMAIN cands \cup hit |->
        IF i \notin hit THEN cands[i]
        ELSE IF i \in DOMAIN cands THEN [cands[i] EXCEPT !.dense = best(i)]
        ELSE Candidate(table[i].entry, 0, best(i))]

LoadDense ==
  LET all == Merged(q.cands, Loaded(q.dense)) IN
  /\ q.at = "load"
  /\ Step([q EXCEPT !.cands = all, !.at = IF DOMAIN all = {} THEN "select" ELSE "rerank"])

\* Reranked candidates mix the fused score with the reranker's, the others do not.
Score(c) ==
  Max({0, (IF c.rerank = -1 THEN 2 * (c.text + c.dense) ELSE c.text + c.dense + c.rerank)
          + About[c.entry].boost})

\* Only the best RerankPool candidates are rescored.
Rerank ==
  /\ q.at = "rerank"
  /\ \E pool \in kSubset(Min({RerankPool, Cardinality(DOMAIN q.cands)}), DOMAIN q.cands) :
     \E given \in [pool -> {0, Unit}] :
       /\ \A i \in pool, j \in DOMAIN q.cands \ pool : Score(q.cands[i]) >= Score(q.cands[j])
       /\ Step([q EXCEPT !.at = "select",
                         !.cands = [i \in DOMAIN @ |->
                            IF i \in pool THEN [@[i] EXCEPT !.rerank = given[i]] ELSE @[i]]])

\* No provider, or every provider of the chain fails: a wrong number of scores
\* is a failure as well.
RerankFails ==
  /\ q.at = "rerank"
  /\ Step([q EXCEPT !.at = IF FailOpen THEN "select" ELSE "raised"])

Adjusted_Last(c) ==
  Score(c) - (IF q.hits # <<>> /\ {c.entry, Last(q.hits).entry} \in Alike THEN Penalty ELSE 0)

\* A candidate that says what a chosen one says loses the novelty penalty.
Adjusted(c) ==
  Score(c) - (IF \E h \in ToSet(q.hits) : {c.entry, h.entry} \in Alike THEN Penalty ELSE 0)

Choose ==
  /\ q.at = "select" /\ Len(q.hits) < q.limit
  /\ \E i \in DOMAIN q.cands :
       /\ \A j \in DOMAIN q.cands : Adjusted(q.cands[i]) >= Adjusted(q.cands[j])
       /\ Step([q EXCEPT !.hits = Append(@, Hit(i, q.cands[i].entry, Max({0, Adjusted(q.cands[i])}))),
                         !.cands = Restrict(@, DOMAIN @ \ {i})])

\* min_score is applied to what was chosen, not before the choice.
Chosen ==
  /\ q.at = "select" /\ (Len(q.hits) = q.limit \/ DOMAIN q.cands = {})
  /\ Step([q EXCEPT !.hits = Picked(@, {n \in DOMAIN @ : @[n].score >= MinScore}),
                    !.cands = <<>>, !.at = IF q.audit THEN "audit" ELSE "current"])

IsCurrent_Registered(h) ==
  About[h.entry].key = NoKey \/ Current(About[h.entry].key) # 0

IsCurrent(h) ==
  About[h.entry].key = NoKey \/ Current(About[h.entry].key) \in {0, h.id}

\* Of the hits with a fact key only the registry's row stays.
FilterCurrent ==
  /\ q.at = "current"
  /\ Step([q EXCEPT !.hits = Picked(@, {n \in DOMAIN @ : IsCurrent(@[n])}), !.at = "answered"])

DeadIds == {i \in DOMAIN table : /\ table[i].dead /\ About[table[i].entry].scoped
                                 /\ About[table[i].entry].phrase}

\* An audit puts the forgotten entries first and drops the hits of their ids.
Audit(dead) ==
  dead \o Picked(q.hits, {n \in DOMAIN q.hits : q.hits[n].id \notin {d.id : d \in ToSet(dead)}})

Cut(s) == SubSeq(s, 1, Min({Len(s), q.limit}))

AddForgotten ==
  LET id(n) == Nth(DeadIds, Cardinality(DeadIds) + 1 - n)
      dead  == [n \in 1..Cardinality(DeadIds) |-> Hit(id(n), table[id(n)].entry, 0)]
  IN
  /\ q.at = "audit"
  /\ Step([q EXCEPT !.hits = Cut(Audit(Cut(dead))), !.at = "answered"])

Done == q.at \in {"answered", "raised"} /\ Step(Idle)

-------------------------------------------------------------------------------
(* Another command: a rebuild commits, then its vectors are brought in line. *)

Reindex ==
  /\ rebuilt < MaxReindexes /\ rebuilt' = rebuilt + 1
  /\ table' \in Tables
  /\ sync' = "due"
  /\ q' = IF q.at = "idle" THEN q ELSE [q EXCEPT !.seen = @ \cup {table'}]
  /\ UNCHANGED <<points, orphans>>

\* A sync deletes the points that vector_items listed, never the orphans.
Sync ==
  /\ sync = "due" /\ sync' = "done"
  /\ points' = orphans \cup PointsOf(table)
  /\ UNCHANGED <<table, orphans, q, rebuilt>>

SyncFails ==
  /\ sync = "due" /\ sync' = "failed"
  /\ points' \in {points, points \cup PointsOf(table)}
  /\ orphans' = points'
  /\ UNCHANGED <<table, q, rebuilt>>

Next ==
  \/ \E limit \in Limits, audit, fallback \in BOOLEAN, backend \in Backends,
        ask \in {NoKey} \cup {About[e].key : e \in Entries} :
       Begin(limit, audit, ask, backend, fallback)
  \/ ExactFact \/ Resolve
  \/ DenseSearch \/ SparseSearch \/ VectorSearchFails
  \/ LaneCandidates \/ SparseCandidates \/ LoadDense
  \/ Rerank \/ RerankFails \/ Choose \/ Chosen
  \/ FilterCurrent \/ AddForgotten \/ Done
  \/ Reindex \/ Sync \/ SyncFails

Spec == Init /\ [][Next]_vars

-------------------------------------------------------------------------------
(* Properties.                                                              *)

TypeOK ==
  /\ table \in Tables /\ points \subseteq Entries \X Nat /\ orphans \subseteq points
  /\ sync \in {"due", "done", "failed"} /\ rebuilt \in 0..MaxReindexes
  /\ q.backend \in Backends /\ DOMAIN q.cands \subseteq Nat \ {0}
  /\ \A h \in ToSet(q.hits) : h.entry \in Entries /\ h.score \in Nat
  /\ Len(q.hits) <= q.limit

\* What a ranked search returns was a live row of that id at some moment of the
\* search and is in its scope, whatever row ids Qdrant answered with; an audit
\* adds rows that were forgotten.
HitsAreLive ==
  q.at = "answered" =>
    \A h \in ToSet(q.hits) :
      /\ \E t \in q.seen : /\ h.id \in DOMAIN t /\ t[h.id].entry = h.entry
                           /\ t[h.id].dead => q.audit
      /\ About[h.entry].scoped \/ About[h.entry].key = q.ask

Quiet == Cardinality(q.seen) = 1

\* A search that no rebuild overlaps returns no outdated value of a fact, by
\* whatever route the row came in (_filter_current_fact_hits).
NoOutdatedFact ==
  q.at = "answered" /\ ~q.audit /\ Quiet =>
    \A h \in ToSet(q.hits) :
      About[h.entry].key # NoKey => h.id = Current(About[h.entry].key)

\* Hits are in the order of their scores and no row is returned twice, although
\* scores change with every choice, and rows and ids between two SELECTs.
BestFirst ==
  q.at = "answered" =>
    /\ ~q.audit => \A m, n \in DOMAIN q.hits : m < n => q.hits[m].score >= q.hits[n].score
    /\ \A m, n \in DOMAIN q.hits : m # n => q.hits[m].id # q.hits[n].id
===============================================================================
