-------------------------- MODULE OperationWrappersMC --------------------------
(* Instances of OperationWrappers for TLC. *)
EXTENDS OperationWrappers, TLC

\* Commands of one kind with the same arguments are interchangeable.
CommandSymmetry ==
  Permutations(Wrappers) \cup Permutations(Reviewers) \cup Permutations(Operators)
===============================================================================
