---------------------------- MODULE SessionLeasesMC ----------------------------
(* An instance of SessionLeases: four sessions on one lock identity.       *)
(* Three are timely: s1 and s2 have nothing but a journal in common (two   *)
(* stages of devflow), s1 and s4 nothing but a state directory (two        *)
(* sessions of the CLI, one of which was given the journal).  s3 shares    *)
(* both with s1, its lease runs out before its worker must end, and a kill *)
(* leaves that worker running.                                             *)
EXTENDS SessionLeases, TLC

CONSTANTS s1, s2, s3, s4

OneLock      == [s \in Sessions |-> "branch"]
MixedDir     == (s2 :> "stage") @@ [s \in Sessions |-> "cli"]
MixedJournal == (s4 :> "cli") @@ [s \in Sessions |-> "repository"]
MixedTtl     == (s3 :> 1) @@ [s \in Sessions |-> 3]
OneTick      == [s \in Sessions |-> 1]
===============================================================================
