---------------------------- MODULE MemorySearchMC ----------------------------
(* Instances of MemorySearch: two values of one fact, a note that says what  *)
(* one of them says, and an entry of another scope.                          *)
EXTENDS MemorySearch

Entry(lane, key, scoped, terms, phrase, cosine, boost) ==
  [lane |-> lane, key |-> key, scoped |-> scoped, terms |-> terms, phrase |-> phrase,
   cosine |-> cosine, boost |-> boost]

FourEntries ==
  [e \in {"old", "new", "note", "other"} |->
     CASE e = "old"   -> Entry("memory", "zone", TRUE, 2, TRUE, 1, 1)
       [] e = "new"   -> Entry("memory", "zone", TRUE, 0, TRUE, 3, 0)
       [] e = "note"  -> Entry("corpus", "none", TRUE, 2, TRUE, 2, -1)
       [] e = "other" -> Entry("memory", "zone", FALSE, 3, TRUE, 3, 0)]

SameWords == {{"old", "note"}}

Rows(es, dead) == [i \in DOMAIN es |-> [entry |-> es[i], dead |-> es[i] \in dead]]

SmallTables ==
  {Rows(<<"old", "new", "note">>, {}), Rows(<<"old", "new", "note">>, {"old"}),
   Rows(<<"note", "old">>, {}),
   Rows(<<"other", "note", "new">>, {}), Rows(<<"note", "new", "other">>, {"new"}),
   Rows(<<"old", "note">>, {"old", "note"}), <<>>}

\* The n-th smallest number and the picked members agree with the library's
\* sorting and filtering.
ASSUME PickedFilters ==
  /\ \A S \in SUBSET (1..5) : [n \in 1..Cardinality(S) |-> Nth(S, n)] = SetToSortSeq(S, <)
  /\ \A s \in BoundedSeq(1..3, 4), T \in SUBSET (1..3) :
       Picked(s, {n \in DOMAIN s : s[n] \in T}) = SelectSeq(s, LAMBDA x : x \in T)
===============================================================================
