------------------------------ MODULE JournalRow ------------------------------
(***************************************************************************)
(* One row of the operation journal (table op of op_journal.py) and what   *)
(* each journal call computes from the row it read and writes back.  The   *)
(* module has no variables: OperationWrappers and Devflow decide when a    *)
(* call reads and when it writes.                                          *)
(*                                                                         *)
(* Columns that no property tells apart (timestamps, notes, request        *)
(* metadata, error text, artifact paths) are left out.  scope, kind,       *)
(* target and inputs never change after the INSERT, so they are the        *)
(* identity of the row and not fields of it.                               *)
(*                                                                         *)
(* Definitions named A_B are mutants of A: plausible bugs that the checks  *)
(* put in the place of A to see that a property notices.                   *)
(***************************************************************************)
EXTENDS Naturals

\* "absent" stands for "no row with this (scope, idempotency_key)".
Absent == "absent"
None   == "none"
\* The _UNSET sentinel of transition(): keep the value that was read.
Unset  == "unset"

Status == {"proposed", "pending_approval", "approved", "running",
           "succeeded", "failed", "cancelled", "rejected"}

\* ALLOWED_TRANSITIONS, the lifecycle the journal is meant to enforce.
AllowedTransitions(s) ==
  CASE s = "proposed"         -> {"failed", "pending_approval", "approved",
                                  "cancelled", "rejected"}
    [] s = "pending_approval" -> {"approved", "failed", "cancelled", "rejected"}
    [] s = "approved"         -> {"running", "failed", "cancelled"}
    [] s = "running"          -> {"succeeded", "failed", "cancelled"}
    [] OTHER                  -> {}

Terminal == {s \in Status : AllowedTransitions(s) = {}}

\* Verdicts of PolicyEngine.evaluate as stored in policy_decision.
Verdict == {"allow", "require_approval", "deny"}

ReviewStatus == {None, "pending", "delegated", "approved", "rejected"}

(* contract is the policy_decision the stamped execution contract carries, *)
(* None when execution_contract_json is NULL.  Its other fields repeat the *)
(* identity of the row and always match it.                                *)
Row == [status            : Status \cup {Absent},
        attempt           : Nat,
        policy_decision   : Verdict \cup {None},
        contract          : (Verdict \ {"deny"}) \cup {None},
        approval_required : BOOLEAN,
        approved_by       : BOOLEAN,
        review_status     : ReviewStatus,
        result_ok         : {None, "ok", "error"}]

NoRow == [status |-> Absent, attempt |-> 0, policy_decision |-> None,
          contract |-> None, approval_required |-> FALSE, approved_by |-> FALSE,
          review_status |-> None, result_ok |-> None]

\* The row begin() inserts.
ProposedRow == [NoRow EXCEPT !.status = "proposed"]

\* Mutants: the check lets a terminal row be cancelled, lets a failed row be
\* approved for a retry, lets an approved row be queued again.
ValidTransition_CancelAny(s, t) == s = t \/ t \in AllowedTransitions(s) \cup {"cancelled"}
ValidTransition_Retry(s, t) ==
  s = t \/ t \in AllowedTransitions(s) \/ (s = "failed" /\ t = "approved")
ValidTransition_Requeue(s, t) ==
  s = t \/ t \in AllowedTransitions(s) \/ (s = "approved" /\ t = "pending_approval")

\* _validate_transition: repeating the current status is always accepted.
ValidTransition(s, t) == s = t \/ t \in AllowedTransitions(s)

-------------------------------------------------------------------------------
(* The keyword arguments of transition(), with Unset for those not given.  *)
Call == [status            : Status,
         policy_decision   : Verdict \cup {Unset},
         contract          : (Verdict \ {"deny"}) \cup {Unset},
         approval_required : {Unset, "yes", "no"},
         review_status     : ReviewStatus \cup {Unset},
         result_ok         : {Unset, "ok", "error"}]

\* transition(op_id, s) with no keyword argument.
StatusCall(s) == [status |-> s, policy_decision |-> Unset, contract |-> Unset,
                  approval_required |-> Unset, review_status |-> Unset,
                  result_ok |-> Unset]

Given(new, old) == IF new = Unset THEN old ELSE new

\* Mutant: entering running does not count an attempt.
TransitionRow_NoAttempt(cur, read, call) ==
  [read EXCEPT !.status = call.status,
               !.policy_decision = Given(call.policy_decision, @),
               !.contract = Given(call.contract, @),
               !.approved_by = cur.approved_by,
               !.review_status = Given(call.review_status, @),
               !.result_ok = Given(call.result_ok, @)]

(* The UPDATE of transition(): every column but the approved_* ones gets   *)
(* the argument or the value read earlier (read), whatever the table holds *)
(* now (cur).  attempt counts the entries into running.                    *)
TransitionRow(cur, read, call) ==
  [status            |-> call.status,
   attempt           |-> IF call.status = "running" /\ read.status # "running"
                         THEN read.attempt + 1 ELSE read.attempt,
   policy_decision   |-> Given(call.policy_decision, read.policy_decision),
   contract          |-> Given(call.contract, read.contract),
   approval_required |-> IF call.approval_required = Unset
                         THEN read.approval_required
                         ELSE call.approval_required = "yes",
   approved_by       |-> cur.approved_by,
   review_status     |-> Given(call.review_status, read.review_status),
   result_ok         |-> Given(call.result_ok, read.result_ok)]

-------------------------------------------------------------------------------
(* The reviewer commands: what each requires of the row it read, and the   *)
(* columns its UPDATE sets on the row the table holds now.                 *)
ReviewDecision == {"approve", "reject", "delegate", "ingest_allow", "ingest_deny"}

ReviewAccepted(read, d) ==
  CASE d = "approve"      -> /\ read.approval_required => read.status = "pending_approval"
                             /\ ValidTransition(read.status, "approved")
    [] d = "reject"       -> ValidTransition(read.status, "rejected")
    [] d = "delegate"     -> read.status = "pending_approval"
    [] d = "ingest_allow" -> ValidTransition(read.status, "approved")
    [] d = "ingest_deny"  -> ValidTransition(read.status, "rejected")

\* Mutant: the reviewer's word is stored instead of a review status.
ReviewRow_Verbatim(cur, d) ==
  [cur EXCEPT !.status = IF d \in {"approve", "ingest_allow"} THEN "approved" ELSE @,
              !.review_status = d]

ReviewRow(cur, d) ==
  CASE d = "delegate" -> [cur EXCEPT !.review_status = "delegated"]
    [] d \in {"approve", "ingest_allow"} ->
         [cur EXCEPT !.status = "approved", !.approved_by = TRUE,
                     !.review_status = "approved"]
    [] d = "reject" ->
         [cur EXCEPT !.status = "rejected", !.review_status = "rejected"]
    [] d = "ingest_deny" ->
         [cur EXCEPT !.status = "rejected", !.approved_by = FALSE,
                     !.review_status = "rejected"]

-------------------------------------------------------------------------------
(* replay_result_from_operation: whether an existing row is answered from  *)
(* the journal, and the "executed" flag of that answer.                    *)
Replayable(row, dryRun) ==
  \/ row.status \in {"pending_approval", "running", "succeeded", "failed", "cancelled"}
  \/ row.status = "approved" /\ dryRun

ReplayAccepted(row) ==
  row.status = "failed" => ~(row.policy_decision = "deny" /\ row.attempt = 0)

ReplayExecuted(row) ==
  \/ row.status = "succeeded"
  \/ row.status = "failed" /\ ReplayAccepted(row) /\ row.attempt > 0

\* ExecutionContract.matches, given that a contract is present.
ContractMatches(row) == row.contract = row.policy_decision
===============================================================================
