---------------------------- MODULE HypermemoryMC ----------------------------
(* Instances of Hypermemory: two values of one key and a text without one. *)
EXTENDS Hypermemory

Keyed == [t \in {"utc", "cet", "tea"} |-> IF t = "tea" THEN "none" ELSE "zone"]

NoteLine(t, k) == [text |-> t, key |-> k, dead |-> FALSE, hits |-> 0]

\* A conversation that says one thing and then another.
TwoZones == {<<"utc", "cet">>}

PlainNotes == {<<NoteLine("tea", "none")>>}
KeyedNotes == {<<NoteLine("utc", "zone")>>}
===============================================================================
