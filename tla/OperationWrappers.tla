--------------------------- MODULE OperationWrappers ---------------------------
(***************************************************************************)
(* The side-effect wrappers over the operation journal: every command is a *)
(* process of its own (one CLI invocation), all of them share one SQLite   *)
(* table, and nothing but that table coordinates them.                     *)
(*                                                                         *)
(*   Wrappers  `clawops wrapper github|webhook`: prepare_operation and     *)
(*             execute_http_operation, or --execute-approved on a row      *)
(*   Reviewers `clawops approvals approve|reject|delegate|ingest-review`   *)
(*   Operators `clawops op-journal begin|transition`, the raw journal CLI  *)
(*                                                                         *)
(* A journal call is a SELECT in autocommit mode, a check in Python, and   *)
(* then an UPDATE or INSERT that opens its own transaction and has no      *)
(* guard on what was read: the read, the write and the SELECT that returns *)
(* the stored row are separate steps.  A wrapper then acts on the row it   *)
(* holds in memory (view), which other commands may have outdated.         *)
(*                                                                         *)
(* Definitions named A_B are mutants of A, not part of the specification.  *)
(***************************************************************************)
EXTENDS JournalRow

CONSTANTS
  Keys,              \* the (scope, idempotency_key) pairs requests map to
  Wrappers, Reviewers, Operators,   \* the command invocations, by kind
  WrapperCommands, ReviewerCommands, OperatorCommands,  \* what they may run
  Verdicts,          \* what the policy files in use can answer
  Crashes,           \* may a command be killed between two steps?
  Overlap,           \* may two wrapper invocations be in flight at once?
  Isolated           \* do no two journal calls overlap in time?

ASSUME ProcessesAssumption ==
  /\ Wrappers \cap Reviewers = {}
  /\ Wrappers \cap Operators = {}
  /\ Reviewers \cap Operators = {}
ASSUME CommandsAssumption ==
  /\ WrapperCommands \subseteq {"create", "dry_run", "execute"}
  /\ ReviewerCommands \subseteq ReviewDecision
  /\ OperatorCommands \subseteq {"begin"} \cup Status
ASSUME PolicyAssumption == Verdicts \subseteq Verdict
ASSUME ModeAssumption == {Crashes, Overlap, Isolated} \subseteq BOOLEAN

VARIABLES
  op,        \* table op
  proc,      \* the local state of each command
  key, cmd,  \* its command line: the operation and the subcommand
  sends,     \* history: requests of each operation the remote side received
  verdicts,  \* history: the policy verdicts obtained for each operation
  granted,   \* history: did a person approve the operation?
  decided    \* history: the reviewer's verdict that closed an open operation

argv    == <<key, cmd>>
history == <<sends, verdicts, granted, decided>>
vars    == <<op, proc, argv, history>>

Procs == Wrappers \cup Reviewers \cup Operators
Commands == WrapperCommands \cup ReviewerCommands \cup OperatorCommands

\* Inside a journal call: after its SELECT, before its last statement.
MidCall == {"insert", "write", "reread", "review_write"}
Ended   == {"done", "raised", "crashed"}
PC      == {"idle", "evaluate", "contract", "queue", "dispatch", "execute", "read",
            "send"} \cup MidCall \cup Ended
\* Where a command goes on when transition() returns.
After   == {"queue", "queued", "dispatched", "resume", "execute", "send", "done"}
\* The packet of a pending row is being registered.
Dispatching == {"queued", "dispatched"}

(* view is the Operation object held, snap the row read by the journal     *)
(* call in progress, call its arguments and next what follows it.          *)
Local == [pc : PC, view : Row, snap : Row, call : Call, next : After]

\* The statuses in which a reviewer's verdict still decides the operation.
Open == {"proposed", "pending_approval"}

\* A command that holds nothing: not started, or ended.
Holding(l) == [pc |-> l, view |-> NoRow, snap |-> NoRow,
               call |-> StatusCall("proposed"), next |-> "done"]

Become(p, loc) ==
  proc' = [proc EXCEPT ![p] = IF loc.pc \in Ended THEN Holding(loc.pc) ELSE loc]

Goto(p, l) == Become(p, [proc[p] EXCEPT !.pc = l])

\* Call transition(key, arguments c) and go on at l with the row it returns.
Request(p, c, l) ==
  Become(p, [Holding("read") EXCEPT !.call = c, !.next = l])

\* A command may issue the first statement of a journal call.
MayCall(p) == Isolated => \A q \in Procs \ {p} : proc[q].pc \notin MidCall

InFlight(p) == proc[p].pc \notin {"idle"} \cup Ended
MayStart(p) ==
  /\ proc[p].pc = "idle"
  /\ p \in Wrappers => Overlap \/ \A q \in Wrappers \ {p} : ~InFlight(q)
  /\ MayCall(p)

Init ==
  /\ op = [k \in Keys |-> NoRow]
  /\ proc = [p \in Procs |-> Holding("idle")]
  /\ key \in [Procs -> Keys]
  /\ cmd \in [Procs -> Commands]
  /\ \A p \in Procs : /\ p \in Wrappers  => cmd[p] \in WrapperCommands
                      /\ p \in Reviewers => cmd[p] \in ReviewerCommands
                      /\ p \in Operators => cmd[p] \in OperatorCommands
  /\ sends = [k \in Keys |-> 0]
  /\ verdicts = [k \in Keys |-> {}]
  /\ granted = [k \in Keys |-> FALSE]
  /\ decided = [k \in Keys |-> None]

-------------------------------------------------------------------------------
(* OperationJournal.begin: look the key up, insert a proposed row if there *)
(* is none.  A concurrent begin may have inserted it in between (UNIQUE on *)
(* scope and key), and an op_id built from the target and the millisecond  *)
(* may collide with another row's: both raise IntegrityError.              *)
BeginLookup(p) ==
  /\ cmd[p] \in {"create", "dry_run", "begin"}
  /\ MayStart(p)
  /\ LET row == op[key[p]] IN
       Become(p, [proc[p] EXCEPT
         !.view = row,
         !.pc = CASE row.status = Absent     -> "insert"
                  [] row.status # Absent /\ p \in Operators -> "done"
                  [] row.status = "proposed" /\ p \notin Operators -> "evaluate"
                  [] OTHER                   -> "contract"])
  /\ UNCHANGED <<op, argv, history>>

BeginInsert(p) ==
  /\ proc[p].pc = "insert"
  /\ op[key[p]].status = Absent
  /\ op' = [op EXCEPT ![key[p]] = ProposedRow]
  /\ Become(p, [proc[p] EXCEPT !.view = ProposedRow,
                               !.pc = IF p \in Operators THEN "done" ELSE "evaluate"])
  /\ UNCHANGED <<argv, history>>

BeginRaises(p) ==
  /\ proc[p].pc = "insert"
  /\ \/ op[key[p]].status # Absent
     \/ \E k \in Keys \ {key[p]} : op[k].status # Absent
  /\ Goto(p, "raised")
  /\ UNCHANGED <<op, argv, history>>

(* OperationJournal.transition: read the row and check the move, then      *)
(* write all columns back, then read what is stored.  A refused move       *)
(* raises; dispatch_pending_approval swallows the exception.               *)
TransitionRead(p) ==
  /\ proc[p].pc = "read"
  /\ MayCall(p)
  /\ LET row == op[key[p]] IN
       IF ValidTransition(row.status, proc[p].call.status)
       THEN Become(p, [proc[p] EXCEPT !.snap = row, !.pc = "write"])
       ELSE Goto(p, IF proc[p].next \in Dispatching THEN "done" ELSE "raised")
  /\ UNCHANGED <<op, argv, history>>

TransitionWrite(p) ==
  /\ proc[p].pc = "write"
  /\ op' = [op EXCEPT ![key[p]] = TransitionRow(@, proc[p].snap, proc[p].call)]
  /\ granted' = [granted EXCEPT ![key[p]] =
                   @ \/ (p \in Operators /\ proc[p].call.status = "approved")]
  /\ Become(p, [Holding("reread") EXCEPT !.next = proc[p].next])
  /\ UNCHANGED <<argv, sends, verdicts, decided>>

-------------------------------------------------------------------------------
\* A replayable row is answered from the journal, any other goes to the executor.
Answer(p, row) == IF Replayable(row, cmd[p] = "dry_run") THEN "done" ELSE "execute"

(* What follows ensure_execution_contract: --execute-approved executes at  *)
(* once; prepare_operation dispatches a pending row first.                 *)
Resume(p, row) ==
  CASE cmd[p] = "execute" -> "execute"
    [] cmd[p] # "execute" /\ row.status = "pending_approval" -> "dispatch"
    [] cmd[p] # "execute" /\ row.status # "pending_approval" -> Answer(p, row)

(* The SELECT that ends transition() may return a row others have written  *)
(* since.  prepare_operation answers a row it has just queued as pending   *)
(* whatever it reads, but a row it found pending and dispatched again goes *)
(* by the row read: approved meanwhile, it is executed.                    *)
TransitionReread(p) ==
  /\ proc[p].pc = "reread"
  /\ LET row == op[key[p]]
         l   == proc[p].next
     IN  Become(p, [Holding("reread") EXCEPT
           !.view = row,
           !.pc = CASE l = "resume"     -> Resume(p, row)
                    [] l = "dispatched" -> Answer(p, row)
                    [] l = "queued"     -> "done"
                    [] OTHER            -> l])
  /\ UNCHANGED <<op, argv, history>>

Record(p, v) == verdicts' = [verdicts EXCEPT ![key[p]] = @ \cup {v}]

\* Mutant: the require_approval branch is missing.
Evaluate_SkipApproval(p) ==
  /\ proc[p].pc = "evaluate"
  /\ \E v \in Verdicts :
       /\ Record(p, v)
       /\ Request(p, [StatusCall(IF v = "deny" THEN "failed" ELSE "approved")
                        EXCEPT !.policy_decision = v,
                               !.contract = IF v = "deny" THEN Unset ELSE v],
                  IF v = "deny" THEN "done" ELSE "execute")
  /\ UNCHANGED <<op, argv, sends, granted, decided>>

(* prepare_operation on a row that was proposed when begin() returned it:  *)
(* the policy verdict decides the next status and stamps the contract.     *)
Evaluate(p) ==
  /\ proc[p].pc = "evaluate"
  /\ \E v \in Verdicts :
       /\ Record(p, v)
       /\ CASE v = "deny" ->
                 Request(p, [StatusCall("failed") EXCEPT
                               !.policy_decision = v, !.approval_required = "no",
                               !.result_ok = "error"], "done")
            [] v = "require_approval" ->
                 Request(p, [StatusCall("pending_approval") EXCEPT
                               !.policy_decision = v, !.contract = v,
                               !.approval_required = "yes",
                               !.review_status = "pending"], "queue")
            [] v = "allow" ->
                 Request(p, [StatusCall("approved") EXCEPT
                               !.policy_decision = v, !.contract = v,
                               !.approval_required = "no"],
                         IF cmd[p] = "dry_run" THEN "done" ELSE "execute")
  /\ UNCHANGED <<op, argv, sends, granted, decided>>

(* ensure_execution_contract: a row without a contract is evaluated again  *)
(* and stamped, keeping the status the wrapper read.  prepare_operation    *)
(* asks only for the three live statuses; --execute-approved may run       *)
(* without a policy file, and then stamps nothing.                         *)
NeedsContract(p, row) ==
  /\ row.contract = None
  /\ cmd[p] = "execute" \/ row.status \in {"pending_approval", "approved", "running"}

KeepContract(p) ==
  /\ proc[p].pc = "contract"
  /\ NeedsContract(p, proc[p].view) => cmd[p] = "execute"
  /\ Goto(p, Resume(p, proc[p].view))
  /\ UNCHANGED <<op, argv, history>>

StampContract(p) ==
  LET row == proc[p].view IN
  /\ proc[p].pc = "contract"
  /\ NeedsContract(p, row)
  /\ \E v \in Verdicts :
       /\ Record(p, v)
       /\ IF v = "deny" THEN Goto(p, "raised")
          ELSE Request(p,
                 [StatusCall(row.status) EXCEPT
                    !.policy_decision = v, !.contract = v,
                    !.approval_required =
                      IF row.approval_required \/ v = "require_approval" THEN "yes" ELSE "no",
                    !.review_status =
                      IF row.status = "pending_approval" /\ v = "require_approval"
                      THEN "pending" ELSE row.review_status],
                 "resume")
  /\ UNCHANGED <<op, argv, sends, granted, decided>>

(* dispatch_pending_approval: write the reviewer packet and register it    *)
(* with the review status of the row held; a failed write is swallowed.    *)
Dispatch(p) ==
  LET row == proc[p].view IN
  /\ proc[p].pc \in {"queue", "dispatch"}
  /\ IF row.status # "pending_approval" THEN Goto(p, "raised")
     ELSE \/ Goto(p, "done")
          \/ Request(p, [StatusCall("pending_approval") EXCEPT
                           !.review_status = IF row.review_status = None
                                             THEN "pending" ELSE row.review_status],
                     IF proc[p].pc = "queue" THEN "queued" ELSE "dispatched")
  /\ UNCHANGED <<op, argv, history>>

\* execute_github_approved and execute_webhook_approved: fetch the row.
GetApproved(p) ==
  /\ cmd[p] = "execute"
  /\ MayStart(p)
  /\ op[key[p]].status # Absent
  /\ Become(p, [proc[p] EXCEPT !.view = op[key[p]], !.pc = "contract"])
  /\ UNCHANGED <<op, argv, history>>

\* Mutant: an approved row is executed without its contract.
Execute_NoContract(p) ==
  LET row == proc[p].view IN
  /\ proc[p].pc = "execute"
  /\ IF row.status = "approved" THEN Request(p, StatusCall("running"), "send")
                                ELSE Goto(p, "done")
  /\ UNCHANGED <<op, argv, history>>

\* The guards of execute_http_operation, on the row the wrapper holds.
Execute(p) ==
  LET row == proc[p].view IN
  /\ proc[p].pc = "execute"
  /\ CASE Replayable(row, FALSE) -> Goto(p, "done")
       [] ~Replayable(row, FALSE) /\ row.status = "approved"
            /\ row.contract # None /\ ContractMatches(row) ->
            Request(p, StatusCall("running"), "send")
       [] OTHER -> Goto(p, "raised")
  /\ UNCHANGED <<op, argv, history>>

\* Mutant: a failed request is returned to the caller and not recorded.
Send_Unrecorded(p) ==
  /\ proc[p].pc = "send"
  /\ \/ /\ sends' = [sends EXCEPT ![key[p]] = @ + 1]
        /\ Request(p, [StatusCall("succeeded") EXCEPT !.result_ok = "ok"], "done")
     \/ Goto(p, "done") /\ UNCHANGED sends
  /\ UNCHANGED <<op, argv, verdicts, granted, decided>>

(* The request and the terminal record of its outcome.  A remote side may  *)
(* act on a request whose answer is an error or is lost.                   *)
Send(p) ==
  /\ proc[p].pc = "send"
  /\ \E delivered, ok \in BOOLEAN :
       /\ ok => delivered
       /\ sends' = [sends EXCEPT ![key[p]] = IF delivered THEN @ + 1 ELSE @]
       /\ Request(p, IF ok THEN [StatusCall("succeeded") EXCEPT !.result_ok = "ok"]
                     ELSE [StatusCall("failed") EXCEPT !.result_ok = "error"], "done")
  /\ UNCHANGED <<op, argv, verdicts, granted, decided>>

\* The request callable raises something that is no transport error (the
\* headers need GITHUB_TOKEN): nothing catches it and the row stays running.
SendRaises(p) ==
  /\ proc[p].pc = "send"
  /\ Goto(p, "raised")
  /\ UNCHANGED <<op, argv, history>>

-------------------------------------------------------------------------------
\* The reviewer commands: approve, reject, delegate and ingest_review.
ReviewRead(p) ==
  /\ cmd[p] \in ReviewDecision
  /\ MayStart(p)
  /\ LET row == op[key[p]] IN
       /\ row.status # Absent
       /\ IF ReviewAccepted(row, cmd[p])
          THEN Become(p, [proc[p] EXCEPT !.snap = row, !.pc = "review_write"])
          ELSE Goto(p, "raised")
  /\ UNCHANGED <<op, argv, history>>

ReviewWrite(p) ==
  /\ proc[p].pc = "review_write"
  /\ op' = [op EXCEPT ![key[p]] = ReviewRow(@, cmd[p])]
  /\ granted' = [granted EXCEPT ![key[p]] = @ \/ cmd[p] \in {"approve", "ingest_allow"}]
  /\ decided' = [decided EXCEPT ![key[p]] =
                   IF op[key[p]].status \in Open /\ cmd[p] # "delegate"
                   THEN ReviewRow(op[key[p]], cmd[p]).review_status ELSE @]
  /\ Goto(p, "done")
  /\ UNCHANGED <<argv, sends, verdicts>>

\* op-journal transition: a status given by hand, no other column.
OperatorTransition(p) ==
  /\ cmd[p] \in Status
  /\ MayStart(p)
  /\ op[key[p]].status # Absent
  /\ Request(p, StatusCall(cmd[p]), "done")
  /\ UNCHANGED <<op, argv, history>>

\* A killed command leaves the row as it is; SQLite rolls an open write back.
Crash(p) ==
  /\ Crashes
  /\ InFlight(p)
  /\ Goto(p, "crashed")
  /\ UNCHANGED <<op, argv, history>>

Step(p) ==
  \/ BeginLookup(p) \/ BeginInsert(p) \/ BeginRaises(p)
  \/ TransitionRead(p) \/ TransitionWrite(p) \/ TransitionReread(p)
  \/ Evaluate(p) \/ KeepContract(p) \/ StampContract(p) \/ Dispatch(p)
  \/ GetApproved(p) \/ Execute(p) \/ Send(p) \/ SendRaises(p)
  \/ ReviewRead(p) \/ ReviewWrite(p) \/ OperatorTransition(p)

Next == \E p \in Procs : Step(p) \/ Crash(p)

Spec == Init /\ [][Next]_vars

-------------------------------------------------------------------------------
\* Types of the table, of the commands' local state and of the history.
TypeOK ==
  /\ op \in [Keys -> Row]
  /\ proc \in [Procs -> Local]
  /\ key \in [Procs -> Keys]
  /\ cmd \in [Procs -> Commands]
  /\ sends \in [Keys -> Nat]
  /\ verdicts \in [Keys -> SUBSET Verdict]
  /\ granted \in [Keys -> BOOLEAN]
  /\ decided \in [Keys -> {None, "approved", "rejected"}]

(* The execution contract keeps a journal row from bypassing the policy    *)
(* (execute_http_operation refuses a row without a matching contract): a   *)
(* request leaves only for an operation some policy evaluation did not     *)
(* deny, whatever the raw journal CLI and stale writes did to the row.     *)
PolicyGate ==
  \A k \in Keys : sends[k] > 0 => verdicts[k] \cap {"allow", "require_approval"} # {}

(* An operation every policy evaluation of which asks for approval is sent *)
(* only after a person approved it, through approve, ingest_review or the  *)
(* raw CLI: no interleaving of stale reads and write-backs moves a row to  *)
(* approved on its own.                                                    *)
ApprovalGate ==
  \A k \in Keys : sends[k] > 0 /\ "allow" \notin verdicts[k] => granted[k]

(* An operation that was sent and ended as succeeded or failed is answered *)
(* with executed = true by every later replay: the attempt counter is not  *)
(* lost to a write-back between the executor's own writes.  It does not    *)
(* hold of one an operator cancelled while it was running: the replay of a *)
(* cancelled row says executed = false even if its request was delivered.  *)
ReplayReportsExecution ==
  \A k \in Keys :
    op[k].status \in {"succeeded", "failed"} /\ sends[k] > 0 => ReplayExecuted(op[k])

(* One wrapper invocation at a time: whatever reviewers and operators do   *)
(* in between, and wherever an invocation is killed, re-running a command  *)
(* never delivers the request of an operation twice.  The documentation    *)
(* states it without the condition ("idempotent by (scope,                 *)
(* idempotency_key)"), and two overlapping invocations violate it.         *)
AtMostOnce == \A k \in Keys : sends[k] <= 1

(* The journal implements the lifecycle of OperationLifecycle as long as   *)
(* no two journal calls overlap.                                           *)
Lifecycle == INSTANCE OperationLifecycle WITH status <- [k \in Keys |-> op[k].status]
LifecycleSpec == Lifecycle!LifecycleSpec

(* The verdict that closed the review of an operation is the one its row   *)
(* reports for good: no dispatch and no stamping that runs later with an   *)
(* older row in hand reopens or reverses it.  It does not hold of a review *)
(* of a row the raw journal CLI had already closed: a stamping that read   *)
(* the row before such a review writes the older review status back.       *)
ReviewStands == \A k \in Keys : decided[k] # None => op[k].review_status = decided[k]

-------------------------------------------------------------------------------
\* A command that is not killed runs on: nothing in it blocks for ever.
Fairness == \A p \in Procs : WF_vars(Step(p))
FairSpec == Spec /\ Fairness

(* An operation that is running is resolved, or the executor that held it  *)
(* was killed or raised: no third way leaves a row in running.             *)
RunningResolves ==
  \A k \in Keys : op[k].status = "running" ~>
    \/ op[k].status \in Terminal
    \/ \E p \in Wrappers : key[p] = k /\ proc[p].pc \in {"raised", "crashed"}
===============================================================================
