------------------------------ MODULE CodeGraphMC ------------------------------
(* Two files: one imports and uses the other or stands alone, the other    *)
(* imports the first.                                                      *)
EXTENDS CodeGraph

Text(i, d, u) == [imports |-> i, defines |-> d, uses |-> u]
TwoTexts == [p \in {"f", "g"} |->
  IF p = "f" THEN {Text({"g"}, {"s"}, {"t"}), Text({}, {"s"}, {})}
             ELSE {Text({"f"}, {"t"}, {})}]

\* They import each other when the worker first sees them.
MCInit == GraphInit /\ disk["f"].text.imports = {"g"}
MCSpec == MCInit /\ [][GraphNext]_graphVars /\ GraphFairness
===============================================================================
