-------------------------------- MODULE Devflow --------------------------------
(***************************************************************************)
(* One devflow run (devflow.py, devflow_state.py and the worker_dispatch   *)
(* step of workflow_runner.py): the stages of a plan are executed in order *)
(* by a `devflow run` or `devflow resume` command, each in a workspace     *)
(* synchronised from the last mutable one.  Three records describe the     *)
(* run: the devflow_run row, one devflow_stage row per stage, and one      *)
(* journal operation per stage, whose key is the task contract and so does *)
(* not change when the stage is tried again.  Every command is a process   *)
(* of its own and nothing stops two of them from executing the same run.   *)
(*                                                                         *)
(* A journal call is one step here (OperationWrappers looks inside them),  *)
(* and the journal operation is its status.  retry_budget and retry_count  *)
(* are recorded by the code and never consulted, so they are left out.     *)
(*                                                                         *)
(* Definitions named A_B are mutants of A, not part of the specification.  *)
(***************************************************************************)
EXTENDS JournalRow

CONSTANTS
  N,              \* number of stages in the plan
  Mode,           \* Mode[i]: workspace_mode of stage i
  NeedsApproval,  \* the stages with approval_required
  Git,            \* is the project root a git repository?
  Runs, Resumes, Cancels,   \* the commands, by kind
  Approvers,      \* the commands given --approved-by
  Reviews,        \* what `clawops approvals` may do to a stage's operation
  Overlap,        \* may two commands execute the run at once?
  Faults,         \* may steps fail with an exception (disk, database, ...)?
  Crashes         \* may a command be killed between two steps?

Stages == 1..N
Procs  == Runs \cup Resumes \cup Cancels

ASSUME PlanAssumption ==
  /\ N \in Nat \ {0}
  /\ Mode \in [Stages -> {"mutable_primary", "mutable_test", "verify_only", "read_only"}]
  /\ NeedsApproval \subseteq Stages
  /\ Reviews \subseteq {"approved", "rejected"}
  /\ {Git, Overlap, Faults, Crashes} \subseteq BOOLEAN
ASSUME CommandsAssumption ==
  /\ Runs \cap Resumes = {} /\ Runs \cap Cancels = {} /\ Resumes \cap Cancels = {}
  /\ Approvers \subseteq Procs

VARIABLES
  run,      \* devflow_run.status
  token,    \* is devflow_run.resume_token set?
  stage,    \* devflow_stage.status of each stage
  op,       \* status of each stage's journal operation
  tree,     \* whose work each stage's workspace holds; 0 is the repository's
  proc,     \* the local state of each command
  workers,  \* history: how often the worker of each stage was started
  granted   \* history: did a person approve the stage?

table   == <<run, token, stage>>
history == <<workers, granted>>
vars    == <<table, op, tree, proc, history>>

RunStatus   == {Absent, "planned", "running", "succeeded", "failed", "cancelled"}
StageStatus == {Absent, "running", "succeeded", "failed", "cancelled"}

\* Inside the try block of _execute_plan.
InTry == {"prepare", "record", "dispatch", "authorize", "approve", "launch",
          "session", "working", "conclude", "gates", "complete", "snapshot",
          "fail", "token"}
\* In its handler, and elsewhere: no handler is left for an exception.
Handler   == {"except", "recover", "refail", "retoken"}
Unguarded == Handler \cup {"finish", "resume_write", "resume_view", "cancel_write"}
\* stopped: killed, or ended by an exception of Unguarded, which leaves the
\* tables the way a kill at that place does.
Ended == {"done", "raised", "stopped"}
PC == InTry \cup Unguarded \cup Ended \cup {"idle"}

\* at: the stage being executed; src: the stage its workspace is synchronised
\* from (current_source_root), 0 for the repository; ok: SessionSummary.ok.
Local == [pc : PC, at : Stages, src : 0..N, ok : BOOLEAN]
Holding(l) == [pc |-> l, at |-> 1, src |-> 0, ok |-> FALSE]

Become(p, loc) ==
  proc' = [proc EXCEPT ![p] = IF loc.pc \in Ended THEN Holding(loc.pc) ELSE loc]
Goto(p, l) == Become(p, [proc[p] EXCEPT !.pc = l])

InFlight(p) == proc[p].pc \notin {"idle"} \cup Ended
MayStart(p) ==
  /\ proc[p].pc = "idle"
  /\ p \notin Cancels => Overlap \/ \A q \in Runs \cup Resumes : ~InFlight(q)

Mutable(i) == Mode[i] \in {"mutable_primary", "mutable_test"}

\* A worktree that was never made stands for the one git would make of HEAD.
Init ==
  /\ run = Absent
  /\ token = FALSE
  /\ stage = [i \in Stages |-> Absent]
  /\ op = [i \in Stages |-> Absent]
  /\ tree = [i \in Stages |-> {0}]
  /\ proc = [p \in Procs |-> Holding("idle")]
  /\ workers = [i \in Stages |-> 0]
  /\ granted = [i \in Stages |-> FALSE]

-------------------------------------------------------------------------------
\* devflow run: begin_run inserts the row; a run id is used once.  What comes
\* between it and the first stage may raise.
BeginRun(p) ==
  /\ p \in Runs
  /\ MayStart(p)
  /\ run = Absent
  /\ run' = "planned"
  /\ Goto(p, "prepare") \/ (Faults /\ Goto(p, "stopped"))
  /\ UNCHANGED <<token, stage, op, tree, history>>

(* DevflowWorkspacePlanner.prepare: the destination is cleared and filled  *)
(* from the source root, except that the primary git worktree is left      *)
(* alone when it is its own source.                                        *)
Synchronised(i, src) ==
  CASE src = i /\ Git /\ Mode[i] = "mutable_primary"    -> tree[i]
    [] src = i /\ ~(Git /\ Mode[i] = "mutable_primary") -> {}
    [] src # i -> IF src = 0 THEN {0} ELSE tree[src]

Prepare(p) ==
  LET i == proc[p].at IN
  /\ proc[p].pc = "prepare"
  /\ tree' = [tree EXCEPT ![i] = Synchronised(i, proc[p].src)]
  /\ Goto(p, "record")
  /\ UNCHANGED <<table, op, history>>

\* It may also fail before or after the destination was cleared.
PrepareFails(p) ==
  /\ Faults
  /\ proc[p].pc = "prepare"
  /\ tree' \in {tree, [tree EXCEPT ![proc[p].at] = {}]}
  /\ Goto(p, "except")
  /\ UNCHANGED <<table, op, history>>

\* record_stage_started, one transaction.
StageRunning(i) ==
  /\ stage' = [stage EXCEPT ![i] = "running"]
  /\ run' = "running"
  /\ token' = FALSE

RecordStarted(p) ==
  /\ proc[p].pc = "record"
  /\ StageRunning(proc[p].at)
  /\ Goto(p, "dispatch")
  /\ UNCHANGED <<op, tree, history>>

-------------------------------------------------------------------------------
\* Mutant: a finished operation of the stage is begun anew.
JournalBegin_Anew(p) ==
  LET i == proc[p].at IN
  /\ proc[p].pc = "dispatch"
  /\ op' = [op EXCEPT ![i] = IF @ \in Terminal \cup {Absent} THEN "proposed" ELSE @]
  /\ Goto(p, "authorize")
  /\ UNCHANGED <<table, tree, history>>

(* The worker_dispatch step: begin the operation of this task contract,    *)
(* authorise it, run the session, record how it ended.                     *)
JournalBegin(p) ==
  LET i == proc[p].at IN
  /\ proc[p].pc = "dispatch"
  /\ op' = [op EXCEPT ![i] = IF @ = Absent THEN "proposed" ELSE @]
  /\ Goto(p, "authorize")
  /\ UNCHANGED <<table, tree, history>>

\* transition() raises on a move the lifecycle does not have.
JournalMove(p, t, l) ==
  LET i == proc[p].at IN
  IF ValidTransition(op[i], t)
  THEN op' = [op EXCEPT ![i] = t] /\ Goto(p, l)
  ELSE op' = op /\ Goto(p, "except")

\* Mutant: a resumed stage counts as approved.
Authorize_ResumeApproves(p) ==
  /\ proc[p].pc = "authorize"
  /\ \/ /\ proc[p].at \notin NeedsApproval \/ p \in Resumes
        /\ JournalMove(p, "approved", "launch")
     \/ /\ proc[p].at \in NeedsApproval /\ p \notin Resumes
        /\ JournalMove(p, "pending_approval", "fail")
  /\ UNCHANGED <<table, tree, history>>

\* A stage that needs approval always asks for it first; without an approver
\* on the command line (or when the packet cannot be written) it fails here.
Authorize(p) ==
  LET asks == proc[p].at \in NeedsApproval IN
  /\ proc[p].pc = "authorize"
  /\ \/ ~asks /\ JournalMove(p, "approved", "launch")
     \/ asks /\ p \in Approvers /\ JournalMove(p, "pending_approval", "approve")
     \/ asks /\ (p \notin Approvers \/ Faults) /\ JournalMove(p, "pending_approval", "fail")
  /\ UNCHANGED <<table, tree, history>>

\* journal.approve with the approver of the command line.
Approve(p) ==
  LET i == proc[p].at IN
  /\ proc[p].pc = "approve"
  /\ IF op[i] = "pending_approval"
     THEN /\ op' = [op EXCEPT ![i] = "approved"]
          /\ granted' = [granted EXCEPT ![i] = TRUE]
          /\ Goto(p, "launch")
     ELSE Goto(p, "except") /\ UNCHANGED <<op, granted>>
  /\ UNCHANGED <<table, tree, workers>>

Launch(p) ==
  /\ proc[p].pc = "launch"
  /\ JournalMove(p, "running", "session")
  /\ UNCHANGED <<table, tree, history>>

\* run_session (SessionLeases): the worker starts, unless another session of
\* the same workspace is running or it cannot be started.
StartWorker(p) ==
  LET i == proc[p].at IN
  /\ proc[p].pc = "session"
  /\ \A q \in Procs \ {p} : ~(proc[q].pc = "working" /\ proc[q].at = i)
  /\ workers' = [workers EXCEPT ![i] = @ + 1]
  /\ Goto(p, "working")
  /\ UNCHANGED <<table, op, tree, granted>>

SessionFails(p) ==
  /\ proc[p].pc = "session"
  /\ Become(p, [proc[p] EXCEPT !.pc = "conclude", !.ok = FALSE])
  /\ UNCHANGED <<table, op, tree, history>>

WorkerEnds(p) ==
  LET i == proc[p].at IN
  /\ proc[p].pc = "working"
  /\ tree' = [tree EXCEPT ![i] = IF Mutable(i) THEN @ \cup {i} ELSE @]
  /\ \E ok \in BOOLEAN : Become(p, [proc[p] EXCEPT !.pc = "conclude", !.ok = ok])
  /\ UNCHANGED <<table, op, history>>

\* Mutant: the stage goes on although its session failed.
Conclude_IgnoreFailure(p) ==
  /\ proc[p].pc = "conclude"
  /\ JournalMove(p, IF proc[p].ok THEN "succeeded" ELSE "failed", "gates")
  /\ UNCHANGED <<table, tree, history>>

Conclude(p) ==
  /\ proc[p].pc = "conclude"
  /\ IF proc[p].ok THEN JournalMove(p, "succeeded", "gates")
                   ELSE JournalMove(p, "failed", "fail")
  /\ UNCHANGED <<table, tree, history>>

\* artifact_gate, git_mutation_gate and artifact_manifest.
Gates(p) ==
  /\ proc[p].pc = "gates"
  /\ Goto(p, "complete") \/ Goto(p, "fail")
  /\ UNCHANGED <<table, op, tree, history>>

-------------------------------------------------------------------------------
\* record_stage_completed, unconditional like every write of _finish_stage.
Complete(p) ==
  LET i == proc[p].at IN
  /\ proc[p].pc = "complete"
  /\ stage' = [stage EXCEPT ![i] = "succeeded"]
  /\ run' = "running"
  /\ Become(p, [proc[p] EXCEPT !.pc = "snapshot", !.src = IF Mutable(i) THEN i ELSE @])
  /\ UNCHANGED <<token, op, tree, history>>

\* Mutant: the last stage is left out.
Advance_OffByOne(p) ==
  /\ proc[p].pc = "snapshot"
  /\ IF proc[p].at + 1 < N
     THEN Become(p, [proc[p] EXCEPT !.pc = "prepare", !.at = @ + 1])
     ELSE Goto(p, "finish")
  /\ UNCHANGED <<table, op, tree, history>>

Advance(p) ==
  /\ proc[p].pc = "snapshot"
  /\ IF proc[p].at < N
     THEN Become(p, [proc[p] EXCEPT !.pc = "prepare", !.at = @ + 1])
     ELSE Goto(p, "finish")
  /\ UNCHANGED <<table, op, tree, history>>

\* mark_run_succeeded, whatever the run's status has become.
Finish(p) ==
  /\ proc[p].pc = "finish"
  /\ run' = "succeeded"
  /\ Goto(p, "done")
  /\ UNCHANGED <<token, stage, op, tree, history>>

TokenPlace(p) == IF proc[p].pc = "fail" THEN "token" ELSE "retoken"

\* Mutants: an approval-blocked stage gets a status of its own; only the stage
\* is marked as failed.
Fail_Blocked(p) ==
  /\ proc[p].pc \in {"fail", "refail"}
  /\ stage' = [stage EXCEPT ![proc[p].at] =
                 IF op[proc[p].at] = "pending_approval" THEN "blocked" ELSE "failed"]
  /\ run' = "failed"
  /\ Goto(p, TokenPlace(p))
  /\ UNCHANGED <<token, op, tree, history>>

Fail_StageOnly(p) ==
  /\ proc[p].pc \in {"fail", "refail"}
  /\ stage' = [stage EXCEPT ![proc[p].at] = "failed"]
  /\ Goto(p, TokenPlace(p))
  /\ UNCHANGED <<run, token, op, tree, history>>

\* record_stage_failed: two transactions, in the try block or its handler.
Fail(p) ==
  /\ proc[p].pc \in {"fail", "refail"}
  /\ stage' = [stage EXCEPT ![proc[p].at] = "failed"]
  /\ run' = "failed"
  /\ Goto(p, TokenPlace(p))
  /\ UNCHANGED <<token, op, tree, history>>

\* The snapshot and the log that follow may fail, in the try block as well.
SetToken(p) ==
  /\ proc[p].pc \in {"token", "retoken"}
  /\ token' = TRUE
  /\ Goto(p, "done") \/ (Faults /\ proc[p].pc = "token" /\ Goto(p, "except"))
  /\ UNCHANGED <<run, stage, op, tree, history>>

(* An exception anywhere in the try block, the worker's own included, goes *)
(* to the handler; one of the handler itself, of the statements after the  *)
(* last stage and of the commands around _execute_plan ends the command.   *)
Raise(p) ==
  /\ Faults
  /\ \/ proc[p].pc \in InTry \ {"prepare"} /\ Goto(p, "except")
     \/ proc[p].pc \in Unguarded /\ Goto(p, "stopped")
  /\ UNCHANGED <<table, op, tree, history>>

\* The handler starts the stage again, on paper, if it is not running.
Handle(p) ==
  /\ proc[p].pc = "except"
  /\ Goto(p, IF stage[proc[p].at] = "running" THEN "refail" ELSE "recover")
  /\ UNCHANGED <<table, op, tree, history>>

Recover(p) ==
  /\ proc[p].pc = "recover"
  /\ StageRunning(proc[p].at)
  /\ Goto(p, "refail")
  /\ UNCHANGED <<op, tree, history>>

-------------------------------------------------------------------------------
\* next_incomplete_stage looks at recorded stages only.
Incomplete == {i \in Stages : stage[i] \in {"running", "failed"}}
NextIncomplete == CHOOSE i \in Incomplete : \A j \in Incomplete : i <= j

\* Mutant: the earliest mutable stage is the source instead of the latest.
SourceRoot_Earliest(i) ==
  LET before == {j \in 1..(i - 1) : stage[j] = "succeeded" /\ Mutable(j)} IN
  IF Mutable(i) THEN i
  ELSE IF before = {} THEN 0 ELSE CHOOSE j \in before : \A k \in before : j <= k

\* _stage_source_root when stage i is the first incomplete one.
SourceRoot(i) ==
  LET before == {j \in 1..(i - 1) : stage[j] = "succeeded" /\ Mutable(j)} IN
  IF Mutable(i) THEN i
  ELSE CHOOSE j \in before \cup {0} : \A k \in before : k <= j

\* devflow resume: read, write unconditionally, read again.
ResumeRead(p) ==
  /\ p \in Resumes
  /\ MayStart(p)
  /\ run # Absent
  /\ Goto(p, IF run \in {"failed", "planned", "running"} /\ Incomplete # {}
             THEN "resume_write" ELSE "raised")
  /\ UNCHANGED <<table, op, tree, history>>

ResumeWrite(p) ==
  /\ proc[p].pc = "resume_write"
  /\ run' = "running"
  /\ Goto(p, "resume_view")
  /\ UNCHANGED <<token, stage, op, tree, history>>

ResumeView(p) ==
  /\ proc[p].pc = "resume_view"
  /\ IF Incomplete = {} THEN Goto(p, "done")
     ELSE Become(p, [proc[p] EXCEPT !.pc = "prepare", !.at = NextIncomplete,
                                    !.src = SourceRoot(NextIncomplete)])
  /\ UNCHANGED <<table, op, tree, history>>

\* devflow cancel: read and check, then one transaction.
CancelRead(p) ==
  /\ p \in Cancels
  /\ MayStart(p)
  /\ run # Absent
  /\ Goto(p, IF run \in {"succeeded", "failed", "cancelled"} THEN "done" ELSE "cancel_write")
  /\ UNCHANGED <<table, op, tree, history>>

CancelWrite(p) ==
  /\ proc[p].pc = "cancel_write"
  /\ run' = "cancelled"
  /\ stage' = [i \in Stages |-> IF stage[i] = "running" THEN "cancelled" ELSE stage[i]]
  /\ Goto(p, "done")
  /\ UNCHANGED <<token, op, tree, history>>

\* clawops approvals approve|reject on the operation of a stage.
Review(i, t) ==
  /\ t \in Reviews \cap AllowedTransitions(op[i])
  /\ op' = [op EXCEPT ![i] = t]
  /\ granted' = [granted EXCEPT ![i] = @ \/ t = "approved"]
  /\ UNCHANGED <<table, tree, proc, workers>>

Crash(p) ==
  /\ Crashes
  /\ InFlight(p)
  /\ Goto(p, "stopped")
  /\ UNCHANGED <<table, op, tree, history>>

Step(p) ==
  \/ BeginRun(p) \/ Prepare(p) \/ PrepareFails(p) \/ RecordStarted(p)
  \/ JournalBegin(p) \/ Authorize(p) \/ Approve(p) \/ Launch(p)
  \/ StartWorker(p) \/ SessionFails(p) \/ WorkerEnds(p) \/ Conclude(p) \/ Gates(p)
  \/ Complete(p) \/ Advance(p) \/ Finish(p) \/ Fail(p) \/ SetToken(p)
  \/ Raise(p) \/ Handle(p) \/ Recover(p)
  \/ ResumeRead(p) \/ ResumeWrite(p) \/ ResumeView(p)
  \/ CancelRead(p) \/ CancelWrite(p)

Next ==
  \/ \E p \in Procs : Step(p) \/ Crash(p)
  \/ \E i \in Stages, t \in Status : Review(i, t)

Spec == Init /\ [][Next]_vars
FairSpec == Spec /\ \A p \in Procs : WF_vars(Step(p))

-------------------------------------------------------------------------------
\* Types of the tables, of the workspaces and of the commands' local state.
TypeOK ==
  /\ run \in RunStatus
  /\ token \in BOOLEAN
  /\ stage \in [Stages -> StageStatus]
  /\ op \in [Stages -> Status \cup {Absent}]
  /\ tree \in [Stages -> SUBSET (0..N)]
  /\ proc \in [Procs -> Local]
  /\ workers \in [Stages -> Nat]
  /\ granted \in [Stages -> BOOLEAN]

(* The journal key of a stage survives resumes, so its worker is started   *)
(* at most once in a run that one command at a time executes, wherever     *)
(* commands crash, fail or are cancelled: work is never silently repeated. *)
WorkerOncePerStage == \A i \in Stages : workers[i] <= 1

(* Even when several commands execute the run at once, the worker of a     *)
(* stage starts only after the workers of all earlier stages succeeded.    *)
StagesInOrder ==
  \A i \in Stages : workers[i] > 0 => \A j \in 1..(i - 1) : op[j] = "succeeded"

(* A stage marked approval_required starts its worker only after a person  *)
(* approved it, on a command line or through the review queue.             *)
ApprovalBeforeWork == \A i \in NeedsApproval : workers[i] > 0 => granted[i]

(* A run recorded as succeeded, by whichever command, did all its work.    *)
NoHollowSuccess == run = "succeeded" => \A i \in Stages : op[i] = "succeeded"

(* A worker whose stage is not resumed in its own workspace starts from    *)
(* the last mutable stage before it: that stage succeeded, and its work is *)
(* in the workspace, however often the run failed and was resumed.         *)
LastMutableBefore(i) ==
  LET before == {j \in 1..(i - 1) : Mutable(j)} IN
  CHOOSE j \in before \cup {0} : \A k \in before : k <= j

WorkerBuildsOnLast ==
  \A p \in Procs : proc[p].pc = "working" /\ proc[p].src # proc[p].at =>
    LET src == proc[p].src IN
    /\ src = LastMutableBefore(proc[p].at)
    /\ src # 0 => op[src] = "succeeded" /\ tree[src] \subseteq tree[proc[p].at]

AtRest == \A p \in Procs : ~InFlight(p)

\* A command that may execute the run was killed, or an exception ended it
\* where nothing catches one.
CutShort == \E p \in Runs \cup Resumes : proc[p].pc = "stopped"

(* A run that is not over and that nobody executes can be resumed from a   *)
(* stage: every failure of a stage, wherever it strikes in the try block,  *)
(* leaves a row that next_incomplete_stage finds.  A command cut short may *)
(* leave none: before its first stage, in its handler or after its last    *)
(* stage.                                                                  *)
RestingRunResumes ==
  AtRest /\ run \in {"planned", "running", "failed"} => Incomplete # {} \/ CutShort

(* A run comes to rest in a terminal status: no command leaves it planned  *)
(* or running unless it was cut short.                                     *)
RunSettles ==
  run \in {"planned", "running"} ~>
    run \in {"succeeded", "failed", "cancelled"} \/ CutShort

-------------------------------------------------------------------------------
\* Statements of the documentation and the tests that the code contradicts.

\* A worker finds in its workspace the repository and the work of every
\* earlier mutable stage.
WorkerSeesWork ==
  \A p \in Procs : proc[p].pc = "working" =>
    LET i == proc[p].at IN {0} \cup {j \in 1..(i - 1) : Mutable(j)} \subseteq tree[i]

\* A cancelled run stays cancelled: it is one of RUN_TERMINAL_STATUSES.
CancelIsFinal == [][run = "cancelled" => run' = "cancelled"]_run

\* A failed run that was given a resume token can get past its failed stage:
\* the operation of that stage still admits a dispatch.
ResumeTokenWorks ==
  AtRest /\ token /\ run = "failed" =>
    op[NextIncomplete] \in {Absent, "proposed", "pending_approval"}
===============================================================================
