-------------------------- MODULE OperationLifecycle --------------------------
(***************************************************************************)
(* What the operation journal promises about one operation: its status     *)
(* starts at proposed, moves only along ALLOWED_TRANSITIONS, and never     *)
(* leaves a terminal status.                                               *)
(***************************************************************************)
EXTENDS JournalRow

CONSTANT Keys     \* the (scope, idempotency_key) pairs of the table

VARIABLE status

LifecycleInit == status = [k \in Keys |-> Absent]

Propose(k) ==
  /\ status[k] = Absent
  /\ status' = [status EXCEPT ![k] = "proposed"]

Move(k, s) ==
  /\ s \in AllowedTransitions(status[k])
  /\ status' = [status EXCEPT ![k] = s]

LifecycleNext ==
  \E k \in Keys : Propose(k) \/ \E s \in Status : Move(k, s)

LifecycleSpec == LifecycleInit /\ [][LifecycleNext]_status
===============================================================================
