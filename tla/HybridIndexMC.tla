----------------------------- MODULE HybridIndexMC -----------------------------
(* Two files: one has its second block moved by a third, longer than a     *)
(* window, while the first block stays where it is; the other has a block  *)
(* and may grow too large to be indexed or turn into something that is no  *)
(* text.                                                                   *)
EXTENDS HybridIndex

TwoFiles == <<{<<"a", "b">>, <<"a", "c", "b">>}, {<<"d">>, <<"d", "c", "c">>, <<"e">>}>>
Binary   == {<<"e">>}
Blocks   == [b \in {"a", "b", "c", "d", "e"} |-> IF b = "c" THEN 2 ELSE 1]

\* The first edit inserts the block or touches a file, the second undoes it.
MCInit == Init /\ disk[1].text = <<"a", "b">> /\ disk[2].text = <<"d">>
MCSpec == MCInit /\ [][Next]_vars /\ WF_vars(Work)
===============================================================================
