------------------------- MODULE OperationWrappersProofs -------------------------
(***************************************************************************)
(* Theorems about OperationWrappers, for every set of keys, commands and   *)
(* policies.                                                               *)
(***************************************************************************)
EXTENDS OperationWrappers, TLAPS

(* The kind of a command fixes what it can do: only an operator names a    *)
(* status on its command line.                                             *)
KindsOK == \A p \in Procs : cmd[p] \in Status => p \in Operators

(* The local state l of command p is well typed, a row that goes to        *)
(* ensure_execution_contract exists, and only reviewers write reviews.     *)
WellFormed(p, l) ==
  /\ l \in Local
  /\ l.pc = "contract" => l.view.status \in Status
  /\ l.pc = "review_write" => cmd[p] \in ReviewDecision

TypeInv ==
  /\ TypeOK
  /\ KindsOK
  /\ \A p \in Procs : WellFormed(p, proc[p])

-------------------------------------------------------------------------------
LEMMA StatusValues ==
  /\ Absent \notin Status
  /\ Absent \notin Status /\ None \notin Verdict /\ Unset \notin Verdict
  /\ Unset \notin ReviewStatus
BY DEF Absent, None, Unset, Status, Verdict, ReviewStatus

\* Calls built by the wrappers are well typed, and transition() computes a row.
LEMMA StatusCallType == ASSUME NEW s \in Status PROVE StatusCall(s) \in Call
BY DEF StatusCall, Call

LEMMA NoRowType == NoRow \in Row /\ ProposedRow \in Row
BY DEF NoRow, ProposedRow, Row, Absent, None, ReviewStatus, Status

LEMMA TransitionRowType ==
  ASSUME NEW cur \in Row, NEW read \in Row, NEW c \in Call
  PROVE  TransitionRow(cur, read, c) \in Row
<1>1. TransitionRow(cur, read, c).attempt \in Nat
  BY DEF TransitionRow, Row
<1>2. QED
  BY <1>1 DEF TransitionRow, Given, Row, Call, Unset, None, Verdict, ReviewStatus

LEMMA ReviewRowType ==
  ASSUME NEW cur \in Row, NEW d \in ReviewDecision
  PROVE  ReviewRow(cur, d) \in Row
BY DEF ReviewRow, ReviewDecision, Row, ReviewStatus, Status

\* A command that holds nothing is well formed.
LEMMA HoldingType == ASSUME NEW l \in PC PROVE Holding(l) \in Local
<1>1. StatusCall("proposed") \in Call
  BY StatusCallType DEF Status
<1>2. QED
  BY <1>1, NoRowType DEF Holding, Local, After

\* transition() is always called with arguments of the right types.
LEMMA RequestType ==
  ASSUME NEW p \in Procs, NEW c \in Call, NEW l \in After
  PROVE  WellFormed(p, [Holding("read") EXCEPT !.call = c, !.next = l])
<1>1. Holding("read") \in Local
  BY HoldingType DEF PC
<1>2. Holding("read").pc = "read"
  BY DEF Holding
<1>3. QED
  BY <1>1, <1>2 DEF WellFormed, Local

\* Becoming loc changes the state of p only, and an ended command holds nothing.
LEMMA BecomeType ==
  ASSUME NEW p \in Procs, NEW loc, Become(p, loc), WellFormed(p, loc),
         proc \in [Procs -> Local], \A q \in Procs : WellFormed(q, proc[q])
  PROVE  /\ proc' \in [Procs -> Local]
         /\ \A q \in Procs : WellFormed(q, proc'[q])
<1> DEFINE new == IF loc.pc \in Ended THEN Holding(loc.pc) ELSE loc
<1>1. WellFormed(p, new)
  <2>1. CASE loc.pc \in Ended
    <3>1. Holding(loc.pc) \in Local
      BY <2>1, HoldingType DEF PC
    <3>2. Holding(loc.pc).pc \notin {"contract", "review_write"}
      BY <2>1 DEF Holding, Ended
    <3>3. QED
      BY <2>1, <3>1, <3>2 DEF WellFormed
  <2>2. CASE loc.pc \notin Ended
    BY <2>2
  <2>3. QED
    BY <2>1, <2>2
<1>2. new \in Local
  BY <1>1 DEF WellFormed
<1>3. proc' = [proc EXCEPT ![p] = new]
  BY DEF Become
<1> HIDE DEF new
<1>4. QED
  BY <1>1, <1>2, <1>3

LEMMA GotoType ==
  ASSUME NEW p \in Procs, NEW l \in PC \ {"contract", "review_write"}, Goto(p, l),
         proc \in [Procs -> Local], \A q \in Procs : WellFormed(q, proc[q])
  PROVE  /\ proc' \in [Procs -> Local]
         /\ \A q \in Procs : WellFormed(q, proc'[q])
<1>1. WellFormed(p, [proc[p] EXCEPT !.pc = l])
  BY DEF WellFormed, Local
<1>2. QED
  BY <1>1, BecomeType DEF Goto

\* Where prepare_operation may go on after the contract is settled.
LEMMA ResumeType ==
  ASSUME NEW p \in Procs, NEW row \in Row
  PROVE  /\ Answer(p, row) \in {"execute", "done"}
         /\ Resume(p, row) \in {"execute", "dispatch", "done"}
BY DEF Resume, Answer

-------------------------------------------------------------------------------
LEMMA InitTypes == Init => TypeInv
<1> SUFFICES ASSUME Init PROVE TypeInv
  OBVIOUS
<1>1. proc \in [Procs -> Local] /\ \A p \in Procs : WellFormed(p, proc[p])
  <2>1. Holding("idle") \in Local /\ Holding("idle").pc = "idle"
    BY HoldingType DEF PC, Holding
  <2>2. QED
    BY <2>1 DEF Init, WellFormed
<1>2. TypeOK
  BY <1>1, NoRowType DEF Init, TypeOK
<1>3. KindsOK
  BY ProcessesAssumption, CommandsAssumption
     DEF Init, KindsOK, Procs, Status, ReviewDecision
<1>4. QED
  BY <1>1, <1>2, <1>3 DEF TypeInv

\* The part of a step that only concerns the local states.
LocalTypes ==
  /\ proc' \in [Procs -> Local]
  /\ \A q \in Procs : WellFormed(q, proc'[q])

LEMMA BecomeTypes ==
  ASSUME TypeInv, NEW p \in Procs, NEW loc, Become(p, loc), WellFormed(p, loc)
  PROVE  LocalTypes
BY BecomeType DEF TypeInv, TypeOK, LocalTypes

LEMMA GotoTypes ==
  ASSUME TypeInv, NEW p \in Procs, NEW l \in PC \ {"contract", "review_write"}, Goto(p, l)
  PROVE  LocalTypes
BY GotoType DEF TypeInv, TypeOK, LocalTypes

LEMMA RequestTypes ==
  ASSUME TypeInv, NEW p \in Procs, NEW c \in Call, NEW l \in After, Request(p, c, l)
  PROVE  LocalTypes
BY RequestType, BecomeTypes DEF Request

\* A step that leaves the table and the history alone is typed by its locals.
LEMMA LocalStep ==
  ASSUME TypeInv, LocalTypes, UNCHANGED <<op, argv, history>>
  PROVE  TypeInv'
BY DEF TypeInv, TypeOK, KindsOK, LocalTypes, WellFormed, argv, history

LEMMA BeginTypes ==
  ASSUME TypeInv, NEW p \in Procs, BeginLookup(p) \/ BeginInsert(p) \/ BeginRaises(p)
  PROVE  TypeInv'
<1>1. CASE BeginLookup(p)
  <2> DEFINE row == op[key[p]]
             l == CASE row.status = Absent     -> "insert"
                    [] row.status # Absent /\ p \in Operators -> "done"
                    [] row.status = "proposed" /\ p \notin Operators -> "evaluate"
                    [] OTHER                   -> "contract"
  <2>1. row \in Row /\ proc[p] \in Local
    BY DEF TypeInv, TypeOK
  <2>2. l \in PC \ {"review_write"} /\ (l = "contract" => row.status \in Status)
    BY <2>1 DEF PC, MidCall, Ended, Row
  <2>3. Become(p, [proc[p] EXCEPT !.view = row, !.pc = l])
    BY <1>1 DEF BeginLookup
  <2> HIDE DEF row, l
  <2>4. WellFormed(p, [proc[p] EXCEPT !.view = row, !.pc = l])
    BY <2>1, <2>2 DEF WellFormed, Local
  <2>5. QED
    BY <1>1, <2>3, <2>4, BecomeTypes, LocalStep DEF BeginLookup
<1>2. CASE BeginInsert(p)
  <2> DEFINE l == IF p \in Operators THEN "done" ELSE "evaluate"
  <2>1. WellFormed(p, [proc[p] EXCEPT !.view = ProposedRow, !.pc = l])
    BY NoRowType DEF TypeInv, TypeOK, WellFormed, Local, PC, Ended
  <2>2. LocalTypes
    BY <1>2, <2>1, BecomeTypes DEF BeginInsert
  <2>3. op' \in [Keys -> Row]
    BY <1>2, NoRowType DEF BeginInsert, TypeInv, TypeOK
  <2>4. QED
    BY <1>2, <2>2, <2>3 DEF BeginInsert, TypeInv, TypeOK, KindsOK, LocalTypes, WellFormed, argv, history
<1>3. CASE BeginRaises(p)
  BY <1>3, GotoTypes, LocalStep DEF BeginRaises, PC, Ended
<1>4. QED
  BY <1>1, <1>2, <1>3

LEMMA TransitionTypes ==
  ASSUME TypeInv, NEW p \in Procs,
         TransitionRead(p) \/ TransitionWrite(p) \/ TransitionReread(p)
  PROVE  TypeInv'
<1>0. proc[p] \in Local /\ key[p] \in Keys /\ op[key[p]] \in Row
  BY DEF TypeInv, TypeOK
<1>1. CASE TransitionRead(p)
  <2>1. CASE ValidTransition(op[key[p]].status, proc[p].call.status)
    <3>1. WellFormed(p, [proc[p] EXCEPT !.snap = op[key[p]], !.pc = "write"])
      BY <1>0 DEF WellFormed, Local, PC, MidCall
    <3>2. QED
      BY <1>1, <2>1, <3>1, BecomeTypes, LocalStep DEF TransitionRead
  <2>2. CASE ~ValidTransition(op[key[p]].status, proc[p].call.status)
    BY <1>1, <2>2, GotoTypes, LocalStep DEF TransitionRead, PC, Ended
  <2>3. QED
    BY <2>1, <2>2
<1>2. CASE TransitionWrite(p)
  <2>1. WellFormed(p, [Holding("reread") EXCEPT !.next = proc[p].next])
    <3>1. Holding("reread") \in Local /\ Holding("reread").pc = "reread"
      BY HoldingType DEF PC, MidCall, Holding
    <3>2. QED
      BY <1>0, <3>1 DEF WellFormed, Local
  <2>2. LocalTypes
    BY <1>2, <2>1, BecomeTypes DEF TransitionWrite
  <2>3. TransitionRow(op[key[p]], proc[p].snap, proc[p].call) \in Row
    BY <1>0, TransitionRowType DEF Local
  <2>4. op' \in [Keys -> Row]
    BY <1>2, <2>3 DEF TransitionWrite, TypeInv, TypeOK
  <2>5. granted' \in [Keys -> BOOLEAN]
    BY <1>2 DEF TransitionWrite, TypeInv, TypeOK
  <2>6. QED
    BY <1>2, <2>2, <2>4, <2>5 DEF TransitionWrite, TypeInv, TypeOK, KindsOK, LocalTypes, WellFormed, argv
<1>3. CASE TransitionReread(p)
  <2> DEFINE row == op[key[p]]
             l == CASE proc[p].next = "resume"     -> Resume(p, row)
                    [] proc[p].next = "dispatched" -> Answer(p, row)
                    [] proc[p].next = "queued"     -> "done"
                    [] OTHER                       -> proc[p].next
  <2>1. l \in PC \ {"contract", "review_write"}
    BY <1>0, ResumeType DEF Local, After, PC, Ended
  <2>2. WellFormed(p, [Holding("reread") EXCEPT !.view = row, !.pc = l])
    <3>1. Holding("reread") \in Local
      BY HoldingType DEF PC, MidCall
    <3> HIDE DEF l
    <3>2. QED
      BY <1>0, <2>1, <3>1 DEF WellFormed, Local
  <2>3. QED
    BY <1>3, <2>2, BecomeTypes, LocalStep DEF TransitionReread
<1>4. QED
  BY <1>1, <1>2, <1>3

\* A recorded verdict is one the policy can answer.
LEMMA RecordType ==
  ASSUME TypeInv, NEW p \in Procs, NEW v \in Verdicts, Record(p, v)
  PROVE  verdicts' \in [Keys -> SUBSET Verdict]
BY PolicyAssumption DEF Record, TypeInv, TypeOK

LEMMA EvaluateTypes ==
  ASSUME TypeInv, NEW p \in Procs, Evaluate(p)
  PROVE  TypeInv'
<1>1. PICK v \in Verdicts :
        /\ Record(p, v)
        /\ CASE v = "deny" ->
                  Request(p, [StatusCall("failed") EXCEPT
                                !.policy_decision = v, !.approval_required = "no",
                                !.result_ok = "error"], "done")
             [] v = "require_approval" ->
                  Request(p, [StatusCall("pending_approval") EXCEPT
                                !.policy_decision = v, !.contract = v,
                                !.approval_required = "yes",
                                !.review_status = "pending"], "queue")
             [] v = "allow" ->
                  Request(p, [StatusCall("approved") EXCEPT
                                !.policy_decision = v, !.contract = v,
                                !.approval_required = "no"],
                          IF cmd[p] = "dry_run" THEN "done" ELSE "execute")
  BY DEF Evaluate
<1>2. v \in Verdict
  BY PolicyAssumption
<1>3. /\ [StatusCall("failed") EXCEPT !.policy_decision = v,
            !.approval_required = "no", !.result_ok = "error"] \in Call
      /\ v = "require_approval" =>
           [StatusCall("pending_approval") EXCEPT !.policy_decision = v,
              !.contract = v, !.approval_required = "yes",
              !.review_status = "pending"] \in Call
      /\ v = "allow" =>
           [StatusCall("approved") EXCEPT !.policy_decision = v,
              !.contract = v, !.approval_required = "no"] \in Call
  BY <1>2 DEF StatusCall, Call, Verdict, Status, ReviewStatus
<1>4. LocalTypes
  <2>1. CASE v = "deny"
    BY <1>1, <1>3, <2>1, RequestTypes DEF After
  <2>2. CASE v = "require_approval"
    BY <1>1, <1>3, <2>2, RequestTypes DEF After
  <2>3. CASE v = "allow"
    BY <1>1, <1>3, <2>3, RequestTypes DEF After
  <2>4. QED
    BY <1>2, <2>1, <2>2, <2>3 DEF Verdict
<1>5. verdicts' \in [Keys -> SUBSET Verdict]
  BY <1>1, RecordType
<1>6. QED
  BY <1>4, <1>5 DEF Evaluate, TypeInv, TypeOK, KindsOK, LocalTypes, WellFormed, argv

LEMMA ContractTypes ==
  ASSUME TypeInv, NEW p \in Procs, KeepContract(p) \/ StampContract(p)
  PROVE  TypeInv'
<1> DEFINE row == proc[p].view
<1>0. proc[p] \in Local /\ row \in Row
  BY DEF TypeInv, TypeOK, Local
<1>1. CASE KeepContract(p)
  <2>1. Resume(p, row) \in PC \ {"contract", "review_write"}
    BY <1>0, ResumeType DEF PC, Ended
  <2>2. QED
    BY <1>1, <2>1, GotoTypes, LocalStep DEF KeepContract
<1>2. CASE StampContract(p)
  <2> DEFINE c(v) ==
        [StatusCall(row.status) EXCEPT
           !.policy_decision = v, !.contract = v,
           !.approval_required =
             IF row.approval_required \/ v = "require_approval" THEN "yes" ELSE "no",
           !.review_status =
             IF row.status = "pending_approval" /\ v = "require_approval"
             THEN "pending" ELSE row.review_status]
  <2>1. PICK v \in Verdicts :
          /\ Record(p, v)
          /\ IF v = "deny" THEN Goto(p, "raised") ELSE Request(p, c(v), "resume")
    BY <1>2 DEF StampContract
  <2>2. row.status \in Status
    BY <1>2 DEF StampContract, TypeInv, WellFormed
  <2>3. v \in Verdict
    BY PolicyAssumption
  <2>4. LocalTypes
    <3>1. CASE v = "deny"
      BY <2>1, <3>1, GotoTypes DEF PC, Ended
    <3>2. CASE v # "deny"
      <4>1. c(v) \in Call
        BY <1>0, <2>2, <2>3, <3>2 DEF StatusCall, Call, Row, ReviewStatus
      <4> HIDE DEF c
      <4>2. QED
        BY <2>1, <3>2, <4>1, RequestTypes DEF After
    <3>3. QED
      BY <3>1, <3>2
  <2>5. verdicts' \in [Keys -> SUBSET Verdict]
    BY <2>1, RecordType
  <2>6. QED
    BY <1>2, <2>4, <2>5 DEF StampContract, TypeInv, TypeOK, KindsOK, LocalTypes, WellFormed, argv
<1>3. QED
  BY <1>1, <1>2

LEMMA ExecutorTypes ==
  ASSUME TypeInv, NEW p \in Procs,
         Dispatch(p) \/ GetApproved(p) \/ Execute(p) \/ Send(p) \/ SendRaises(p)
  PROVE  TypeInv'
<1>0. proc[p] \in Local /\ proc[p].view \in Row /\ op[key[p]] \in Row
  BY DEF TypeInv, TypeOK, Local
<1>1. CASE Dispatch(p)
  <2> DEFINE r == IF proc[p].view.review_status = None
                  THEN "pending" ELSE proc[p].view.review_status
  <2>1. [StatusCall("pending_approval") EXCEPT !.review_status = r] \in Call
    BY <1>0 DEF StatusCall, Call, Row, ReviewStatus, Status
  <2>2. LocalTypes
    <3>1. CASE Goto(p, "raised") \/ Goto(p, "done")
      BY <3>1, GotoTypes DEF PC, Ended
    <3>2. CASE \E l \in Dispatching :
                 Request(p, [StatusCall("pending_approval") EXCEPT !.review_status = r], l)
      <4> HIDE DEF r
      <4>1. QED
        BY <2>1, <3>2, RequestTypes DEF After, Dispatching
    <3>3. QED
      BY <1>1, <3>1, <3>2 DEF Dispatch, Dispatching
  <2>3. QED
    BY <1>1, <2>2, LocalStep DEF Dispatch
<1>2. CASE GetApproved(p)
  <2>1. WellFormed(p, [proc[p] EXCEPT !.view = op[key[p]], !.pc = "contract"])
    BY <1>0, <1>2 DEF GetApproved, WellFormed, Local, PC, Row
  <2>2. QED
    BY <1>2, <2>1, BecomeTypes, LocalStep DEF GetApproved
<1>3. CASE Execute(p)
  <2>1. LocalTypes
    <3>1. CASE Goto(p, "raised") \/ Goto(p, "done")
      BY <3>1, GotoTypes DEF PC, Ended
    <3>2. CASE Request(p, StatusCall("running"), "send")
      BY <3>2, StatusCallType, RequestTypes DEF After, Status
    <3>3. QED
      BY <1>3, <3>1, <3>2 DEF Execute
  <2>2. QED
    BY <1>3, <2>1, LocalStep DEF Execute
<1>4. CASE Send(p)
  <2>1. PICK delivered \in BOOLEAN, ok \in BOOLEAN :
          /\ sends' = [sends EXCEPT ![key[p]] = IF delivered THEN @ + 1 ELSE @]
          /\ Request(p, IF ok THEN [StatusCall("succeeded") EXCEPT !.result_ok = "ok"]
                        ELSE [StatusCall("failed") EXCEPT !.result_ok = "error"], "done")
    BY <1>4 DEF Send
  <2>2. /\ [StatusCall("succeeded") EXCEPT !.result_ok = "ok"] \in Call
        /\ [StatusCall("failed") EXCEPT !.result_ok = "error"] \in Call
    BY DEF StatusCall, Call, Status
  <2>3. LocalTypes
    BY <2>1, <2>2, RequestTypes DEF After
  <2>4. sends' \in [Keys -> Nat]
    BY <2>1 DEF TypeInv, TypeOK
  <2>5. QED
    BY <1>4, <2>3, <2>4 DEF Send, TypeInv, TypeOK, KindsOK, LocalTypes, WellFormed, argv
<1>5. CASE SendRaises(p)
  BY <1>5, GotoTypes, LocalStep DEF SendRaises, PC, Ended
<1>6. QED
  BY <1>1, <1>2, <1>3, <1>4, <1>5

LEMMA PeopleTypes ==
  ASSUME TypeInv, NEW p \in Procs,
         ReviewRead(p) \/ ReviewWrite(p) \/ OperatorTransition(p) \/ Crash(p)
  PROVE  TypeInv'
<1>0. proc[p] \in Local /\ op[key[p]] \in Row
  BY DEF TypeInv, TypeOK
<1>1. CASE ReviewRead(p)
  <2>1. WellFormed(p, [proc[p] EXCEPT !.snap = op[key[p]], !.pc = "review_write"])
    BY <1>0, <1>1 DEF ReviewRead, WellFormed, Local, PC, MidCall
  <2>2. LocalTypes
    BY <1>1, <2>1, BecomeTypes, GotoTypes DEF ReviewRead, PC, Ended
  <2>3. QED
    BY <1>1, <2>2, LocalStep DEF ReviewRead
<1>2. CASE ReviewWrite(p)
  <2>1. ReviewRow(op[key[p]], cmd[p]) \in Row
    BY <1>0, <1>2, ReviewRowType DEF ReviewWrite, TypeInv, WellFormed
  <2>2. op' \in [Keys -> Row]
    BY <1>2, <2>1 DEF ReviewWrite, TypeInv, TypeOK
  <2>3. granted' \in [Keys -> BOOLEAN]
    BY <1>2 DEF ReviewWrite, TypeInv, TypeOK
  <2>4. decided' \in [Keys -> {None, "approved", "rejected"}]
    <3>1. /\ cmd[p] \in ReviewDecision /\ key[p] \in Keys
          /\ decided \in [Keys -> {None, "approved", "rejected"}]
      BY <1>2 DEF ReviewWrite, TypeInv, TypeOK, WellFormed
    <3>2. cmd[p] # "delegate" =>
            ReviewRow(op[key[p]], cmd[p]).review_status \in {"approved", "rejected"}
      BY <1>0, <3>1 DEF ReviewRow, ReviewDecision, Row
    <3>3. QED
      BY <1>2, <3>1, <3>2 DEF ReviewWrite
  <2>5. LocalTypes
    BY <1>2, GotoTypes DEF ReviewWrite, PC, Ended
  <2>6. QED
    BY <1>2, <2>2, <2>3, <2>4, <2>5
       DEF ReviewWrite, TypeInv, TypeOK, KindsOK, LocalTypes, WellFormed, argv
<1>3. CASE OperatorTransition(p)
  BY <1>3, StatusCallType, RequestTypes, LocalStep DEF OperatorTransition, After
<1>4. CASE Crash(p)
  BY <1>4, GotoTypes, LocalStep DEF Crash, PC, Ended
<1>5. QED
  BY <1>1, <1>2, <1>3, <1>4

LEMMA StepTypes == TypeInv /\ [Next]_vars => TypeInv'
<1> SUFFICES ASSUME TypeInv, [Next]_vars PROVE TypeInv'
  OBVIOUS
<1>1. CASE UNCHANGED vars
  BY <1>1 DEF vars, argv, history, TypeInv, TypeOK, KindsOK, WellFormed
<1>2. ASSUME NEW p \in Procs, Step(p) \/ Crash(p) PROVE TypeInv'
  BY <1>2, BeginTypes, TransitionTypes, EvaluateTypes, ContractTypes,
     ExecutorTypes, PeopleTypes DEF Step
<1>3. QED
  BY <1>1, <1>2 DEF Next

LEMMA TypesAlways == Spec => []TypeInv
BY InitTypes, StepTypes, PTL DEF Spec

(* The journal's table, the commands and the history keep their types      *)
(* under every interleaving of the journal calls: no call writes a value   *)
(* the schema of table op does not admit.                                  *)
THEOREM TypeCorrectness == Spec => []TypeOK
<1>1. TypeInv => TypeOK
  BY DEF TypeInv
<1>2. QED
  BY <1>1, TypesAlways, PTL

-------------------------------------------------------------------------------
(* The two gates.  A contract can only be stamped by a policy evaluation   *)
(* that did not deny (cleared), and approved is reached only by a person   *)
(* or by an allowing evaluation (backed).  Both facts have to hold of      *)
(* every copy of the row a command may write back: the row it holds, the   *)
(* one its journal call has read, and the arguments of that call.          *)
Cleared == {k \in Keys : verdicts[k] \cap {"allow", "require_approval"} # {}}
Backed  == {k \in Keys : granted[k] \/ "allow" \in verdicts[k]}

RowGated(k, row, cleared, backed) ==
  /\ row.contract # None => k \in cleared
  /\ row.status \in {"approved", "running", "succeeded"} => k \in backed

LocalGated(p, l, cleared, backed) ==
  /\ RowGated(key[p], l.view, cleared, backed)
  /\ RowGated(key[p], l.snap, cleared, backed)
  /\ l.call.contract # Unset => key[p] \in cleared
  /\ l.pc = "write" => ValidTransition(l.snap.status, l.call.status)
  /\ l.call.status = "approved" => p \in Operators \/ key[p] \in backed
  /\ "send" \in {l.pc, l.next} => key[p] \in cleared \cap backed

GateInv ==
  /\ \A k \in Keys : RowGated(k, op[k], Cleared, Backed)
  /\ \A k \in Keys : sends[k] > 0 => k \in Cleared \cap Backed
  /\ \A p \in Procs : LocalGated(p, proc[p], Cleared, Backed)

-------------------------------------------------------------------------------
LEMMA HoldingGated ==
  ASSUME NEW p \in Procs, NEW l \in PC \ {"write", "send"}, NEW cleared, NEW backed
  PROVE  LocalGated(p, Holding(l), cleared, backed)
BY DEF LocalGated, RowGated, Holding, NoRow, StatusCall, Absent

\* What is gated stays gated when more verdicts and approvals are recorded.
LEMMA GatedGrows ==
  ASSUME NEW p, NEW l, NEW c1, NEW b1, NEW c2, NEW b2,
         c1 \subseteq c2, b1 \subseteq b2, LocalGated(p, l, c1, b1)
  PROVE  LocalGated(p, l, c2, b2)
BY DEF LocalGated, RowGated

\* The conditions under which a step of p keeps GateInv.
LEMMA GateStep ==
  ASSUME TypeInv, GateInv, NEW p \in Procs, NEW loc,
         Become(p, loc), UNCHANGED argv,
         Cleared \subseteq Cleared', Backed \subseteq Backed',
         LocalGated(p, loc, Cleared', Backed'),
         \A k \in Keys : RowGated(k, op'[k], Cleared', Backed'),
         \A k \in Keys : sends'[k] > 0 => k \in Cleared' \cap Backed'
  PROVE  GateInv'
<1> DEFINE new == IF loc.pc \in Ended THEN Holding(loc.pc) ELSE loc
<1>1. LocalGated(p, new, Cleared', Backed')
  <2>1. CASE loc.pc \in Ended
    <3>1. loc.pc \in PC \ {"write", "send"}
      BY <2>1 DEF PC, Ended
    <3>2. LocalGated(p, Holding(loc.pc), Cleared', Backed')
      BY <3>1, HoldingGated
    <3>3. QED
      BY <2>1, <3>2
  <2>2. CASE loc.pc \notin Ended
    BY <2>2
  <2>3. QED
    BY <2>1, <2>2
<1>2. proc' = [proc EXCEPT ![p] = new] /\ proc \in [Procs -> Local]
  BY DEF Become, TypeInv, TypeOK
<1> HIDE DEF new
<1>3. \A q \in Procs : LocalGated(q, proc'[q], Cleared', Backed')
  BY <1>1, <1>2, GatedGrows DEF GateInv
<1>4. \A q \in Procs : LocalGated(q, proc[q], Cleared, Backed)'
  BY <1>3 DEF LocalGated, RowGated, argv
<1>5. QED
  BY <1>4 DEF GateInv, RowGated

\* A step that leaves the table and the history alone.
LEMMA GateLocal ==
  ASSUME TypeInv, GateInv, NEW p \in Procs, NEW loc, Become(p, loc),
         UNCHANGED <<op, argv, history>>, LocalGated(p, loc, Cleared, Backed)
  PROVE  GateInv'
<1>1. Cleared' = Cleared /\ Backed' = Backed
  BY DEF Cleared, Backed, history
<1>2. /\ \A k \in Keys : RowGated(k, op'[k], Cleared', Backed')
      /\ \A k \in Keys : sends'[k] > 0 => k \in Cleared' \cap Backed'
  BY <1>1 DEF GateInv, history
<1>3. LocalGated(p, loc, Cleared', Backed')
  BY <1>1
<1>4. QED
  BY <1>1, <1>2, <1>3, GateStep

LEMMA GateGoto ==
  ASSUME TypeInv, GateInv, NEW p \in Procs, NEW l \in PC \ {"write", "send"},
         Goto(p, l), UNCHANGED <<op, argv, history>>
  PROVE  GateInv'
<1>1. LocalGated(p, [proc[p] EXCEPT !.pc = l], Cleared, Backed)
  BY DEF GateInv, TypeInv, TypeOK, Local, LocalGated
<1>2. QED
  BY <1>1, GateLocal DEF Goto

\* The arguments of a call to transition() that no gate has to be asked about.
LEMMA RequestGated ==
  ASSUME NEW p \in Procs, NEW c \in Call, NEW l \in After, NEW cleared, NEW backed,
         c.contract # Unset => key[p] \in cleared,
         c.status = "approved" => p \in Operators \/ key[p] \in backed,
         l = "send" => key[p] \in cleared \cap backed
  PROVE  LocalGated(p, [Holding("read") EXCEPT !.call = c, !.next = l], cleared, backed)
<1>1. Holding("read") \in Local
  BY HoldingType DEF PC
<1>2. LocalGated(p, Holding("read"), cleared, backed)
  BY HoldingGated DEF PC
<1>3. Holding("read").pc = "read"
  BY DEF Holding
<1>4. QED
  BY <1>1, <1>2, <1>3 DEF LocalGated, Local

LEMMA GateRequest ==
  ASSUME TypeInv, GateInv, NEW p \in Procs, NEW c \in Call, NEW l \in After,
         Request(p, c, l), UNCHANGED <<op, argv, history>>,
         c.contract # Unset => key[p] \in Cleared,
         c.status = "approved" => p \in Operators \/ key[p] \in Backed,
         l = "send" => key[p] \in Cleared \cap Backed
  PROVE  GateInv'
<1>1. LocalGated(p, [Holding("read") EXCEPT !.call = c, !.next = l], Cleared, Backed)
  BY RequestGated
<1>2. QED
  BY <1>1, GateLocal DEF Request

LEMMA GateInit == Init => GateInv
<1> SUFFICES ASSUME Init PROVE GateInv
  OBVIOUS
<1>1. \A p \in Procs : LocalGated(p, proc[p], Cleared, Backed)
  BY HoldingGated DEF Init, PC
<1>2. \A k \in Keys : RowGated(k, op[k], Cleared, Backed)
  BY DEF Init, RowGated, NoRow, Absent
<1>3. QED
  BY <1>1, <1>2 DEF Init, GateInv

LEMMA GateBegin ==
  ASSUME TypeInv, GateInv, NEW p \in Procs,
         BeginLookup(p) \/ BeginInsert(p) \/ BeginRaises(p)
  PROVE  GateInv'
<1>0. proc[p] \in Local /\ key[p] \in Keys /\ LocalGated(p, proc[p], Cleared, Backed)
  BY DEF TypeInv, TypeOK, GateInv
<1>1. CASE BeginLookup(p)
  <2> DEFINE row == op[key[p]]
             l == CASE row.status = Absent     -> "insert"
                    [] row.status # Absent /\ p \in Operators -> "done"
                    [] row.status = "proposed" /\ p \notin Operators -> "evaluate"
                    [] OTHER                   -> "contract"
  <2>1. l \notin {"write", "send"}
    OBVIOUS
  <2>2. RowGated(key[p], row, Cleared, Backed) /\ row \in Row
    BY <1>0 DEF GateInv, TypeInv, TypeOK
  <2>3. Become(p, [proc[p] EXCEPT !.view = row, !.pc = l])
    BY <1>1 DEF BeginLookup
  <2> HIDE DEF row, l
  <2>4. LocalGated(p, [proc[p] EXCEPT !.view = row, !.pc = l], Cleared, Backed)
    BY <1>0, <2>1, <2>2 DEF LocalGated, Local
  <2>5. QED
    BY <1>1, <2>3, <2>4, GateLocal DEF BeginLookup
<1>2. CASE BeginInsert(p)
  <2> DEFINE l == IF p \in Operators THEN "done" ELSE "evaluate"
             loc == [proc[p] EXCEPT !.view = ProposedRow, !.pc = l]
  <2>1. \A k : RowGated(k, ProposedRow, Cleared, Backed)
    BY DEF RowGated, ProposedRow, NoRow
  <2>2. Cleared' = Cleared /\ Backed' = Backed
    BY <1>2 DEF BeginInsert, Cleared, Backed, history
  <2>3. LocalGated(p, loc, Cleared, Backed)
    BY <1>0, <2>1 DEF LocalGated, Local
  <2>4. \A k \in Keys : RowGated(k, op'[k], Cleared, Backed)
    BY <1>2, <2>1 DEF BeginInsert, GateInv, TypeInv, TypeOK
  <2>5. \A k \in Keys : sends'[k] > 0 => k \in Cleared \cap Backed
    BY <1>2 DEF BeginInsert, GateInv, history
  <2>6. Become(p, loc) /\ UNCHANGED argv
    BY <1>2 DEF BeginInsert
  <2> HIDE DEF loc
  <2>7. QED
    BY <2>2, <2>3, <2>4, <2>5, <2>6, GateStep
<1>3. CASE BeginRaises(p)
  BY <1>3, GateGoto DEF BeginRaises, PC, Ended
<1>4. QED
  BY <1>1, <1>2, <1>3

\* transition() writes a gated row: the status it moves to was either backed
\* when the row was read, or is approved and backed by the caller.
LEMMA GateWrite ==
  ASSUME TypeInv, GateInv, NEW p \in Procs, TransitionWrite(p)
  PROVE  GateInv'
<1> DEFINE k == key[p]
           c == proc[p].call
           snap == proc[p].snap
           loc == [Holding("reread") EXCEPT !.next = proc[p].next]
<1>0. /\ proc[p] \in Local /\ k \in Keys /\ op[k] \in Row /\ snap \in Row /\ c \in Call
      /\ LocalGated(p, proc[p], Cleared, Backed)
  BY DEF TypeInv, TypeOK, GateInv, Local
<1>1. Cleared' = Cleared
  BY DEF TransitionWrite, Cleared
<1>2. Backed \subseteq Backed'
  BY DEF TransitionWrite, Backed, TypeInv, TypeOK
<1>3. p \in Operators /\ c.status = "approved" => k \in Backed'
  BY <1>0 DEF TransitionWrite, Backed, TypeInv, TypeOK
<1>4. c.status = "approved" => k \in Backed'
  BY <1>0, <1>2, <1>3 DEF LocalGated
<1>5. c.status \in {"running", "succeeded"} => k \in Backed'
  <2>1. ValidTransition(snap.status, c.status)
    BY <1>0 DEF TransitionWrite, LocalGated
  <2>2. c.status \in {"running", "succeeded"} =>
          snap.status \in {"approved", "running", "succeeded"}
    BY <2>1 DEF ValidTransition, AllowedTransitions
  <2>3. QED
    BY <1>0, <1>2, <2>2 DEF LocalGated, RowGated
<1>6. RowGated(k, TransitionRow(op[k], snap, c), Cleared', Backed')
  <2>1. TransitionRow(op[k], snap, c).contract # None => k \in Cleared
    BY <1>0 DEF TransitionRow, Given, LocalGated, RowGated
  <2>2. TransitionRow(op[k], snap, c).status = c.status
    BY DEF TransitionRow
  <2>3. QED
    BY <1>1, <1>4, <1>5, <2>1, <2>2 DEF RowGated
<1>7. \A j \in Keys : RowGated(j, op'[j], Cleared', Backed')
  BY <1>0, <1>1, <1>2, <1>6 DEF TransitionWrite, GateInv, TypeInv, TypeOK, RowGated
<1>8. \A j \in Keys : sends'[j] > 0 => j \in Cleared' \cap Backed'
  BY <1>1, <1>2 DEF TransitionWrite, GateInv
<1>9. LocalGated(p, loc, Cleared', Backed')
  <2>1. Holding("reread") \in Local /\ Holding("reread").pc = "reread"
    BY HoldingType DEF PC, MidCall, Holding
  <2>2. LocalGated(p, Holding("reread"), Cleared', Backed')
    BY HoldingGated DEF PC, MidCall
  <2>3. QED
    BY <1>0, <1>1, <1>2, <2>1, <2>2 DEF LocalGated, Local
<1>10. Become(p, loc) /\ UNCHANGED argv
  BY DEF TransitionWrite
<1> HIDE DEF loc
<1>11. QED
  BY <1>1, <1>2, <1>7, <1>8, <1>9, <1>10, GateStep

LEMMA GateTransition ==
  ASSUME TypeInv, GateInv, NEW p \in Procs, TransitionRead(p) \/ TransitionReread(p)
  PROVE  GateInv'
<1> DEFINE row == op[key[p]]
<1>0. /\ proc[p] \in Local /\ key[p] \in Keys /\ row \in Row
      /\ LocalGated(p, proc[p], Cleared, Backed)
      /\ RowGated(key[p], row, Cleared, Backed)
  BY DEF TypeInv, TypeOK, GateInv
<1>1. CASE TransitionRead(p)
  <2>1. CASE ValidTransition(row.status, proc[p].call.status)
    <3>1. LocalGated(p, [proc[p] EXCEPT !.snap = row, !.pc = "write"], Cleared, Backed)
      BY <1>0, <2>1 DEF LocalGated, Local
    <3>2. QED
      BY <1>1, <2>1, <3>1, GateLocal DEF TransitionRead
  <2>2. CASE ~ValidTransition(row.status, proc[p].call.status)
    BY <1>1, <2>2, GateGoto DEF TransitionRead, PC, Ended
  <2>3. QED
    BY <2>1, <2>2
<1>2. CASE TransitionReread(p)
  <2> DEFINE l == CASE proc[p].next = "resume"     -> Resume(p, row)
                    [] proc[p].next = "dispatched" -> Answer(p, row)
                    [] proc[p].next = "queued"     -> "done"
                    [] OTHER                       -> proc[p].next
             loc == [Holding("reread") EXCEPT !.view = row, !.pc = l]
  <2>1. l \in PC \ {"write"} /\ (l = "send" => proc[p].next = "send")
    BY <1>0, ResumeType DEF Local, After, PC, Ended
  <2>2. Become(p, loc)
    BY <1>2 DEF TransitionReread
  <2>3. LocalGated(p, loc, Cleared, Backed)
    <3> HIDE DEF l
    <3>1. /\ Holding("reread") \in Local
          /\ LocalGated(p, Holding("reread"), Cleared, Backed)
      BY HoldingType, HoldingGated DEF PC, MidCall
    <3>2. Holding("reread").next = "done"
      BY DEF Holding
    <3>3. QED
      BY <1>0, <2>1, <3>1, <3>2 DEF LocalGated, Local
  <2> HIDE DEF loc
  <2>4. QED
    BY <1>2, <2>2, <2>3, GateLocal DEF TransitionReread
<1>3. QED
  BY <1>1, <1>2

\* Recording a verdict clears or backs the operation and withdraws nothing.
LEMMA RecordGrows ==
  ASSUME TypeInv, NEW p \in Procs, NEW v \in Verdicts, Record(p, v), UNCHANGED granted
  PROVE  /\ Cleared \subseteq Cleared' /\ Backed \subseteq Backed'
         /\ v # "deny" => key[p] \in Cleared'
         /\ v = "allow" => key[p] \in Backed'
<1>1. key[p] \in Keys /\ v \in Verdict /\ verdicts \in [Keys -> SUBSET Verdict]
  BY PolicyAssumption DEF TypeInv, TypeOK
<1>2. \A k \in Keys : verdicts[k] \subseteq verdicts'[k]
  BY <1>1 DEF Record
<1>3. v \in verdicts'[key[p]]
  BY <1>1 DEF Record
<1>4. QED
  BY <1>1, <1>2, <1>3 DEF Cleared, Backed, Verdict

\* After a recorded verdict the call it leads to is gated.
LEMMA GateRecorded ==
  ASSUME TypeInv, GateInv, NEW p \in Procs, NEW v \in Verdicts, Record(p, v),
         UNCHANGED <<op, argv, sends, granted>>,
         NEW loc, Become(p, loc), LocalGated(p, loc, Cleared', Backed')
  PROVE  GateInv'
<1>1. Cleared \subseteq Cleared' /\ Backed \subseteq Backed'
  BY RecordGrows
<1>2. /\ \A k \in Keys : RowGated(k, op'[k], Cleared', Backed')
      /\ \A k \in Keys : sends'[k] > 0 => k \in Cleared' \cap Backed'
  BY <1>1 DEF GateInv, RowGated
<1>3. QED
  BY <1>1, <1>2, GateStep

LEMMA GateRequestRecorded ==
  ASSUME TypeInv, GateInv, NEW p \in Procs, NEW v \in Verdicts, Record(p, v),
         UNCHANGED <<op, argv, sends, granted>>,
         NEW c \in Call, NEW l \in After \ {"send"}, Request(p, c, l),
         c.contract # Unset => key[p] \in Cleared',
         c.status = "approved" => key[p] \in Backed'
  PROVE  GateInv'
<1>1. LocalGated(p, [Holding("read") EXCEPT !.call = c, !.next = l], Cleared', Backed')
  BY RequestGated
<1>2. QED
  BY <1>1, GateRecorded DEF Request

LEMMA GateEvaluate ==
  ASSUME TypeInv, GateInv, NEW p \in Procs, Evaluate(p)
  PROVE  GateInv'
<1> DEFINE denied(v) == [StatusCall("failed") EXCEPT
                           !.policy_decision = v, !.approval_required = "no",
                           !.result_ok = "error"]
           review(v) == [StatusCall("pending_approval") EXCEPT
                           !.policy_decision = v, !.contract = v,
                           !.approval_required = "yes", !.review_status = "pending"]
           allowed(v) == [StatusCall("approved") EXCEPT
                            !.policy_decision = v, !.contract = v,
                            !.approval_required = "no"]
           l == IF cmd[p] = "dry_run" THEN "done" ELSE "execute"
<1>1. PICK v \in Verdicts :
        /\ Record(p, v)
        /\ CASE v = "deny"             -> Request(p, denied(v), "done")
             [] v = "require_approval" -> Request(p, review(v), "queue")
             [] v = "allow"            -> Request(p, allowed(v), l)
  BY DEF Evaluate
<1>2. v \in Verdict
  BY PolicyAssumption
<1>3. /\ denied(v) \in Call /\ denied(v).contract = Unset /\ denied(v).status = "failed"
      /\ v = "require_approval" =>
           review(v) \in Call /\ review(v).status = "pending_approval"
      /\ v = "allow" => allowed(v) \in Call
  BY <1>2 DEF StatusCall, Call, Verdict, Status, ReviewStatus
<1>4. /\ v # "deny" => key[p] \in Cleared'
      /\ v = "allow" => key[p] \in Backed'
  BY <1>1, RecordGrows DEF Evaluate
<1>5. UNCHANGED <<op, argv, sends, granted>>
  BY DEF Evaluate
<1> HIDE DEF denied, review, allowed
<1>6. CASE v = "deny"
  <2>1. Request(p, denied(v), "done")
    BY <1>1, <1>6
  <2>2. QED
    BY <1>1, <1>3, <1>5, <2>1, GateRequestRecorded DEF After
<1>7. CASE v = "require_approval"
  <2>1. Request(p, review(v), "queue")
    BY <1>1, <1>7
  <2>2. QED
    BY <1>1, <1>3, <1>4, <1>5, <1>7, <2>1, GateRequestRecorded DEF After
<1>8. CASE v = "allow"
  <2>1. Request(p, allowed(v), l)
    BY <1>1, <1>8
  <2>2. QED
    BY <1>1, <1>3, <1>4, <1>5, <1>8, <2>1, GateRequestRecorded DEF After
<1>9. QED
  BY <1>2, <1>6, <1>7, <1>8 DEF Verdict

LEMMA GateContract ==
  ASSUME TypeInv, GateInv, NEW p \in Procs, KeepContract(p) \/ StampContract(p)
  PROVE  GateInv'
<1> DEFINE row == proc[p].view
<1>0. /\ proc[p] \in Local /\ row \in Row /\ key[p] \in Keys
      /\ RowGated(key[p], row, Cleared, Backed)
  BY DEF TypeInv, TypeOK, Local, GateInv, LocalGated
<1>1. CASE KeepContract(p)
  <2>1. Resume(p, row) \in PC \ {"write", "send"}
    BY <1>0, ResumeType DEF PC, Ended
  <2>2. QED
    BY <1>1, <2>1, GateGoto DEF KeepContract
<1>2. CASE StampContract(p)
  <2> DEFINE c(v) ==
        [StatusCall(row.status) EXCEPT
           !.policy_decision = v, !.contract = v,
           !.approval_required =
             IF row.approval_required \/ v = "require_approval" THEN "yes" ELSE "no",
           !.review_status =
             IF row.status = "pending_approval" /\ v = "require_approval"
             THEN "pending" ELSE row.review_status]
  <2>1. PICK v \in Verdicts :
          /\ Record(p, v)
          /\ IF v = "deny" THEN Goto(p, "raised") ELSE Request(p, c(v), "resume")
    BY <1>2 DEF StampContract
  <2>2. /\ Cleared \subseteq Cleared' /\ Backed \subseteq Backed'
        /\ v # "deny" => key[p] \in Cleared'
    BY <1>2, <2>1, RecordGrows DEF StampContract
  <2>3. UNCHANGED <<op, argv, sends, granted>>
    BY <1>2 DEF StampContract
  <2>4. CASE v = "deny"
    <3>1. LocalGated(p, [proc[p] EXCEPT !.pc = "raised"], Cleared', Backed')
      BY <1>0, <2>2 DEF GateInv, LocalGated, RowGated, Local
    <3>2. QED
      BY <2>1, <2>3, <2>4, <3>1, GateRecorded DEF Goto
  <2>5. CASE v # "deny"
    <3>1. row.status \in Status /\ v \in Verdict
      BY <1>2, PolicyAssumption DEF StampContract, TypeInv, WellFormed
    <3>2. c(v) \in Call /\ c(v).status = row.status
      BY <1>0, <2>5, <3>1 DEF StatusCall, Call, Row, ReviewStatus
    <3>3. row.status = "approved" => key[p] \in Backed'
      BY <1>0, <2>2 DEF RowGated
    <3> HIDE DEF c
    <3>4. QED
      BY <2>1, <2>2, <2>3, <2>5, <3>2, <3>3, GateRequestRecorded DEF After
  <2>6. QED
    BY <2>4, <2>5
<1>3. QED
  BY <1>1, <1>2

\* Only a row with a matching contract that was read as approved is sent.
LEMMA GateExecutor ==
  ASSUME TypeInv, GateInv, NEW p \in Procs,
         Dispatch(p) \/ GetApproved(p) \/ Execute(p) \/ SendRaises(p)
  PROVE  GateInv'
<1>0. /\ proc[p] \in Local /\ proc[p].view \in Row /\ op[key[p]] \in Row /\ key[p] \in Keys
      /\ LocalGated(p, proc[p], Cleared, Backed)
      /\ RowGated(key[p], op[key[p]], Cleared, Backed)
  BY DEF TypeInv, TypeOK, Local, GateInv
<1>1. CASE Dispatch(p)
  <2> DEFINE r == IF proc[p].view.review_status = None
                  THEN "pending" ELSE proc[p].view.review_status
             c == [StatusCall("pending_approval") EXCEPT !.review_status = r]
  <2>1. c \in Call /\ c.contract = Unset /\ c.status = "pending_approval"
    BY <1>0 DEF StatusCall, Call, Row, ReviewStatus, Status
  <2>2. CASE Goto(p, "raised") \/ Goto(p, "done")
    BY <1>1, <2>2, GateGoto DEF Dispatch, PC, Ended
  <2>3. CASE \E l \in Dispatching : Request(p, c, l)
    <3> HIDE DEF c
    <3>1. QED
      BY <1>1, <2>1, <2>3, GateRequest DEF Dispatch, Dispatching, After
  <2>4. QED
    BY <1>1, <2>2, <2>3 DEF Dispatch, Dispatching
<1>2. CASE GetApproved(p)
  <2>1. LocalGated(p, [proc[p] EXCEPT !.view = op[key[p]], !.pc = "contract"],
                   Cleared, Backed)
    BY <1>0 DEF LocalGated, Local
  <2>2. QED
    BY <1>2, <2>1, GateLocal DEF GetApproved
<1>3. CASE Execute(p)
  <2>1. CASE Goto(p, "raised") \/ Goto(p, "done")
    BY <1>3, <2>1, GateGoto DEF Execute, PC, Ended
  <2>2. CASE /\ Request(p, StatusCall("running"), "send")
             /\ proc[p].view.status = "approved" /\ proc[p].view.contract # None
    <3>1. key[p] \in Cleared \cap Backed
      BY <1>0, <2>2 DEF LocalGated, RowGated
    <3>2. /\ StatusCall("running") \in Call
          /\ StatusCall("running").status = "running"
          /\ StatusCall("running").contract = Unset
      BY StatusCallType DEF Status, StatusCall
    <3>3. QED
      BY <1>3, <2>2, <3>1, <3>2, GateRequest DEF Execute, After
  <2>3. QED
    BY <1>3, <2>1, <2>2 DEF Execute
<1>4. CASE SendRaises(p)
  BY <1>4, GateGoto DEF SendRaises, PC, Ended
<1>5. QED
  BY <1>1, <1>2, <1>3, <1>4

LEMMA GateSend ==
  ASSUME TypeInv, GateInv, NEW p \in Procs, Send(p)
  PROVE  GateInv'
<1> DEFINE won  == [StatusCall("succeeded") EXCEPT !.result_ok = "ok"]
           lost == [StatusCall("failed") EXCEPT !.result_ok = "error"]
<1>1. PICK delivered \in BOOLEAN, ok \in BOOLEAN :
        /\ sends' = [sends EXCEPT ![key[p]] = IF delivered THEN @ + 1 ELSE @]
        /\ Request(p, IF ok THEN won ELSE lost, "done")
  BY DEF Send
<1>2. /\ won \in Call /\ won.contract = Unset /\ won.status = "succeeded"
      /\ lost \in Call /\ lost.contract = Unset /\ lost.status = "failed"
  BY DEF StatusCall, Call, Status
<1>3. Cleared' = Cleared /\ Backed' = Backed
  BY DEF Send, Cleared, Backed
<1>4. key[p] \in Cleared \cap Backed
  BY DEF Send, GateInv, LocalGated
<1> DEFINE c == IF ok THEN won ELSE lost
           loc == [Holding("read") EXCEPT !.call = c, !.next = "done"]
<1>5. c \in Call /\ c.contract = Unset /\ c.status # "approved"
  BY <1>2
<1> HIDE DEF won, lost, c
<1>6. LocalGated(p, loc, Cleared, Backed)
  BY <1>5, RequestGated DEF After
<1>7. \A k \in Keys : sends'[k] > 0 => k \in Cleared \cap Backed
  BY <1>1, <1>4 DEF GateInv, TypeInv, TypeOK
<1>8. \A k \in Keys : RowGated(k, op'[k], Cleared, Backed)
  BY DEF Send, GateInv
<1>9. Become(p, loc) /\ UNCHANGED argv
  BY <1>1 DEF Send, Request, c
<1> HIDE DEF loc
<1>10. QED
  BY <1>3, <1>6, <1>7, <1>8, <1>9, GateStep

\* A person's approval backs the operation in the step that records it.
LEMMA GatePeople ==
  ASSUME TypeInv, GateInv, NEW p \in Procs,
         ReviewRead(p) \/ ReviewWrite(p) \/ OperatorTransition(p) \/ Crash(p)
  PROVE  GateInv'
<1>0. /\ proc[p] \in Local /\ op[key[p]] \in Row /\ key[p] \in Keys
      /\ LocalGated(p, proc[p], Cleared, Backed)
      /\ RowGated(key[p], op[key[p]], Cleared, Backed)
  BY DEF TypeInv, TypeOK, GateInv
<1>1. CASE ReviewRead(p)
  <2>1. LocalGated(p, [proc[p] EXCEPT !.snap = op[key[p]], !.pc = "review_write"],
                   Cleared, Backed)
    BY <1>0 DEF LocalGated, Local
  <2>2. QED
    BY <1>1, <2>1, GateLocal, GateGoto DEF ReviewRead, PC, Ended
<1>2. CASE ReviewWrite(p)
  <2> DEFINE loc == [proc[p] EXCEPT !.pc = "done"]
  <2>1. Cleared' = Cleared
    BY <1>2 DEF ReviewWrite, Cleared
  <2>2. /\ Backed \subseteq Backed'
        /\ cmd[p] \in {"approve", "ingest_allow"} => key[p] \in Backed'
    BY <1>0, <1>2 DEF ReviewWrite, Backed, TypeInv, TypeOK
  <2>3. cmd[p] \in ReviewDecision
    BY <1>2 DEF ReviewWrite, TypeInv, WellFormed
  <2>4. RowGated(key[p], ReviewRow(op[key[p]], cmd[p]), Cleared', Backed')
    BY <1>0, <2>1, <2>2, <2>3 DEF ReviewRow, ReviewDecision, RowGated, Row
  <2>5. \A k \in Keys : RowGated(k, op'[k], Cleared', Backed')
    BY <1>2, <2>1, <2>2, <2>4 DEF ReviewWrite, GateInv, TypeInv, TypeOK, RowGated
  <2>6. \A k \in Keys : sends'[k] > 0 => k \in Cleared' \cap Backed'
    BY <1>2, <2>1, <2>2 DEF ReviewWrite, GateInv
  <2>7. LocalGated(p, loc, Cleared', Backed')
    BY <1>0, <2>1, <2>2 DEF LocalGated, RowGated, Local
  <2>8. Become(p, loc) /\ UNCHANGED argv
    BY <1>2 DEF ReviewWrite, Goto
  <2> HIDE DEF loc
  <2>9. QED
    BY <2>1, <2>2, <2>5, <2>6, <2>7, <2>8, GateStep
<1>3. CASE OperatorTransition(p)
  <2>1. p \in Operators /\ StatusCall(cmd[p]) \in Call
    BY <1>3, StatusCallType DEF OperatorTransition, TypeInv, KindsOK
  <2>2. StatusCall(cmd[p]).contract = Unset
    BY DEF StatusCall
  <2>3. QED
    BY <1>3, <2>1, <2>2, GateRequest DEF OperatorTransition, After
<1>4. CASE Crash(p)
  BY <1>4, GateGoto DEF Crash, PC, Ended
<1>5. QED
  BY <1>1, <1>2, <1>3, <1>4

LEMMA GateNext == TypeInv /\ GateInv /\ [Next]_vars => GateInv'
<1> SUFFICES ASSUME TypeInv, GateInv, [Next]_vars PROVE GateInv'
  OBVIOUS
<1>1. CASE UNCHANGED vars
  BY <1>1 DEF vars, argv, history, GateInv, Cleared, Backed, LocalGated, RowGated
<1>2. ASSUME NEW p \in Procs, Step(p) \/ Crash(p) PROVE GateInv'
  BY <1>2, GateBegin, GateWrite, GateTransition, GateEvaluate, GateContract,
     GateExecutor, GateSend, GatePeople DEF Step
<1>3. QED
  BY <1>1, <1>2 DEF Next

LEMMA GatesAlways == Spec => []GateInv
<1>1. Init => GateInv
  BY GateInit
<1>2. TypeInv /\ GateInv /\ [Next]_vars => GateInv'
  BY GateNext
<1>3. QED
  BY <1>1, <1>2, TypesAlways, PTL DEF Spec

(* No request leaves for an operation whose every policy evaluation was a  *)
(* deny, for any number of wrappers, reviewers and raw journal commands in *)
(* any interleaving of their reads and writes, with or without crashes.    *)
THEOREM PolicyIsEnforced == Spec => []PolicyGate
<1>1. GateInv => PolicyGate
  BY DEF GateInv, PolicyGate, Cleared
<1>2. QED
  BY <1>1, GatesAlways, PTL

(* No request leaves for an operation that policy never allowed outright   *)
(* unless a person approved it, under the same generality.                 *)
THEOREM ApprovalIsEnforced == Spec => []ApprovalGate
<1>1. GateInv => ApprovalGate
  BY DEF GateInv, ApprovalGate, Backed
<1>2. QED
  BY <1>1, GatesAlways, PTL

-------------------------------------------------------------------------------
(* The lifecycle.  When journal calls do not overlap, the row a call has   *)
(* read is still the row of the table when it writes, so the check it made *)
(* in Python is a check of the move it makes.                              *)
ReadStands(p, l, row) ==
  /\ l.pc = "write" => l.snap = row /\ ValidTransition(row.status, l.call.status)
  /\ l.pc = "review_write" => ReviewAccepted(row, cmd[p])

SerialInv ==
  /\ \A p, q \in Procs : proc[p].pc \in MidCall /\ proc[q].pc \in MidCall => p = q
  /\ \A p \in Procs : ReadStands(p, proc[p], op[key[p]])

LEMMA SerialInit == Init => SerialInv
BY DEF Init, SerialInv, Holding, MidCall, ReadStands

\* The conditions under which a step of p keeps SerialInv.
LEMMA SerialStep ==
  ASSUME TypeInv, SerialInv, Isolated, NEW p \in Procs, NEW loc,
         Become(p, loc), UNCHANGED argv,
         loc.pc \in MidCall => proc[p].pc \in MidCall \/ MayCall(p),
         op' = op \/ proc[p].pc \in MidCall,
         ReadStands(p, loc, op'[key[p]])
  PROVE  SerialInv'
<1> DEFINE new == IF loc.pc \in Ended THEN Holding(loc.pc) ELSE loc
<1>1. proc' = [proc EXCEPT ![p] = new] /\ proc \in [Procs -> Local]
  BY DEF Become, TypeInv, TypeOK
<1>2. new.pc = loc.pc
  BY DEF Holding
<1>3. ReadStands(p, new, op'[key[p]])
  BY <1>2 DEF ReadStands, Ended
<1> HIDE DEF new
<1>4. \A q \in Procs \ {p} : proc'[q] = proc[q]
  BY <1>1
<1>5. proc'[p] = new
  BY <1>1
<1>6. \A q \in Procs \ {p} :
        ~(proc[q].pc \in MidCall /\ (loc.pc \in MidCall \/ op' # op))
  BY DEF SerialInv, MayCall
<1>7. \A q, r \in Procs : proc'[q].pc \in MidCall /\ proc'[r].pc \in MidCall => q = r
  BY <1>2, <1>4, <1>5, <1>6 DEF SerialInv
<1>8. \A q \in Procs \ {p} : ReadStands(q, proc[q], op'[key[q]])
  BY <1>6 DEF SerialInv, ReadStands, MidCall
<1>9. \A q \in Procs : ReadStands(q, proc'[q], op'[key[q]])
  BY <1>3, <1>4, <1>5, <1>8
<1>10. QED
  BY <1>7, <1>9 DEF SerialInv, ReadStands, argv

\* Outside the calls nothing depends on what was read.
LEMMA SerialQuiet ==
  ASSUME TypeInv, SerialInv, Isolated, NEW p \in Procs, NEW loc,
         Become(p, loc), UNCHANGED argv, loc.pc \notin MidCall,
         op' = op \/ proc[p].pc \in MidCall
  PROVE  SerialInv'
<1>1. ReadStands(p, loc, op'[key[p]])
  BY DEF ReadStands, MidCall
<1>2. QED
  BY <1>1, SerialStep

LEMMA SerialRequest ==
  ASSUME TypeInv, SerialInv, Isolated, NEW p \in Procs, NEW c, NEW l,
         Request(p, c, l), UNCHANGED <<op, argv>>
  PROVE  SerialInv'
<1>1. [Holding("read") EXCEPT !.call = c, !.next = l].pc = "read"
  BY DEF Holding
<1>2. QED
  BY <1>1, SerialQuiet DEF Request, MidCall

LEMMA SerialGoto ==
  ASSUME TypeInv, SerialInv, Isolated, NEW p \in Procs, NEW l \in PC \ MidCall,
         Goto(p, l), UNCHANGED argv, op' = op \/ proc[p].pc \in MidCall
  PROVE  SerialInv'
<1>1. [proc[p] EXCEPT !.pc = l].pc = l
  BY DEF TypeInv, TypeOK, Local
<1>2. QED
  BY <1>1, SerialQuiet DEF Goto

LEMMA SerialJournal ==
  ASSUME TypeInv, SerialInv, Isolated, NEW p \in Procs,
         \/ BeginLookup(p) \/ BeginInsert(p) \/ BeginRaises(p)
         \/ TransitionRead(p) \/ TransitionWrite(p) \/ TransitionReread(p)
  PROVE  SerialInv'
<1>0. proc[p] \in Local /\ op[key[p]] \in Row
  BY DEF TypeInv, TypeOK
<1>1. CASE BeginLookup(p)
  <2> DEFINE row == op[key[p]]
             l == CASE row.status = Absent     -> "insert"
                    [] row.status # Absent /\ p \in Operators -> "done"
                    [] row.status = "proposed" /\ p \notin Operators -> "evaluate"
                    [] OTHER                   -> "contract"
             loc == [proc[p] EXCEPT !.view = row, !.pc = l]
  <2>1. Become(p, loc) /\ MayCall(p) /\ UNCHANGED <<op, argv>>
    BY <1>1 DEF BeginLookup, MayStart
  <2>2. loc.pc = l /\ l \notin {"write", "review_write"}
    BY <1>0 DEF Local
  <2>3. ReadStands(p, loc, op'[key[p]])
    BY <2>2 DEF ReadStands
  <2> HIDE DEF loc
  <2>4. QED
    BY <2>1, <2>3, SerialStep
<1>2. CASE BeginInsert(p)
  <2> DEFINE l == IF p \in Operators THEN "done" ELSE "evaluate"
             loc == [proc[p] EXCEPT !.view = ProposedRow, !.pc = l]
  <2>1. Become(p, loc) /\ UNCHANGED argv /\ proc[p].pc \in MidCall
    BY <1>2 DEF BeginInsert, MidCall
  <2>2. loc.pc \notin MidCall
    BY <1>0 DEF Local, MidCall
  <2> HIDE DEF loc
  <2>3. QED
    BY <2>1, <2>2, SerialQuiet
<1>3. CASE BeginRaises(p)
  BY <1>3, SerialGoto DEF BeginRaises, PC, Ended, MidCall
<1>4. CASE TransitionRead(p)
  <2>1. CASE ValidTransition(op[key[p]].status, proc[p].call.status)
    <3> DEFINE loc == [proc[p] EXCEPT !.snap = op[key[p]], !.pc = "write"]
    <3>1. Become(p, loc) /\ MayCall(p) /\ UNCHANGED <<op, argv>>
      BY <1>4, <2>1 DEF TransitionRead
    <3>2. ReadStands(p, loc, op'[key[p]])
      BY <1>0, <2>1, <3>1 DEF ReadStands, Local
    <3> HIDE DEF loc
    <3>3. QED
      BY <3>1, <3>2, SerialStep
  <2>2. CASE ~ValidTransition(op[key[p]].status, proc[p].call.status)
    BY <1>4, <2>2, SerialGoto DEF TransitionRead, PC, Ended, MidCall
  <2>3. QED
    BY <2>1, <2>2
<1>5. CASE TransitionWrite(p)
  <2> DEFINE loc == [Holding("reread") EXCEPT !.next = proc[p].next]
  <2>1. Become(p, loc) /\ UNCHANGED argv /\ proc[p].pc \in MidCall
    BY <1>5 DEF TransitionWrite, MidCall
  <2>2. loc.pc = "reread"
    BY DEF Holding
  <2>3. ReadStands(p, loc, op'[key[p]])
    BY <2>2 DEF ReadStands
  <2> HIDE DEF loc
  <2>4. QED
    BY <2>1, <2>3, SerialStep
<1>6. CASE TransitionReread(p)
  <2> DEFINE row == op[key[p]]
             l == CASE proc[p].next = "resume"     -> Resume(p, row)
                    [] proc[p].next = "dispatched" -> Answer(p, row)
                    [] proc[p].next = "queued"     -> "done"
                    [] OTHER                       -> proc[p].next
             loc == [Holding("reread") EXCEPT !.view = row, !.pc = l]
  <2>1. Become(p, loc) /\ UNCHANGED <<op, argv>>
    BY <1>6 DEF TransitionReread
  <2>2. l \notin MidCall
    BY <1>0, ResumeType DEF Local, After, MidCall
  <2>3. loc.pc = l
    BY DEF Holding
  <2> HIDE DEF loc
  <2>4. QED
    BY <2>1, <2>2, <2>3, SerialQuiet
<1>7. QED
  BY <1>1, <1>2, <1>3, <1>4, <1>5, <1>6

LEMMA SerialCommands ==
  ASSUME TypeInv, SerialInv, Isolated, NEW p \in Procs,
         \/ Evaluate(p) \/ KeepContract(p) \/ StampContract(p) \/ Dispatch(p)
         \/ GetApproved(p) \/ Execute(p) \/ Send(p) \/ SendRaises(p)
         \/ ReviewRead(p) \/ ReviewWrite(p) \/ OperatorTransition(p) \/ Crash(p)
  PROVE  SerialInv'
<1>0. proc[p] \in Local /\ proc[p].view \in Row /\ op[key[p]] \in Row
  BY DEF TypeInv, TypeOK, Local
<1>1. ASSUME NEW c, NEW l, Request(p, c, l), UNCHANGED <<op, argv>> PROVE SerialInv'
  BY <1>1, SerialRequest
<1>2. CASE Evaluate(p)
  <2>1. PICK v \in Verdicts :
          CASE v = "deny" ->
                  Request(p, [StatusCall("failed") EXCEPT
                                !.policy_decision = v, !.approval_required = "no",
                                !.result_ok = "error"], "done")
             [] v = "require_approval" ->
                  Request(p, [StatusCall("pending_approval") EXCEPT
                                !.policy_decision = v, !.contract = v,
                                !.approval_required = "yes",
                                !.review_status = "pending"], "queue")
             [] v = "allow" ->
                  Request(p, [StatusCall("approved") EXCEPT
                                !.policy_decision = v, !.contract = v,
                                !.approval_required = "no"],
                          IF cmd[p] = "dry_run" THEN "done" ELSE "execute")
    BY <1>2 DEF Evaluate
  <2>2. v \in {"deny", "require_approval", "allow"}
    BY PolicyAssumption DEF Verdict
  <2>3. UNCHANGED <<op, argv>>
    BY <1>2 DEF Evaluate
  <2>4. CASE v = "deny"
    BY <1>1, <2>1, <2>3, <2>4
  <2>5. CASE v = "require_approval"
    BY <1>1, <2>1, <2>3, <2>5
  <2>6. CASE v = "allow"
    BY <1>1, <2>1, <2>3, <2>6
  <2>7. QED
    BY <2>2, <2>4, <2>5, <2>6
<1>3. CASE KeepContract(p)
  <2>1. Resume(p, proc[p].view) \in PC \ MidCall
    BY <1>0, ResumeType DEF PC, Ended, MidCall
  <2>2. QED
    BY <1>3, <2>1, SerialGoto DEF KeepContract
<1>4. CASE StampContract(p)
  BY <1>1, <1>4, SerialGoto DEF StampContract, PC, Ended, MidCall
<1>5. CASE Dispatch(p)
  BY <1>1, <1>5, SerialGoto DEF Dispatch, PC, Ended, MidCall
<1>6. CASE GetApproved(p)
  <2>1. [proc[p] EXCEPT !.view = op[key[p]], !.pc = "contract"].pc = "contract"
    BY <1>0 DEF Local
  <2>2. QED
    BY <1>6, <2>1, SerialQuiet DEF GetApproved, MidCall
<1>7. CASE Execute(p)
  BY <1>1, <1>7, SerialGoto DEF Execute, PC, Ended, MidCall
<1>8. CASE Send(p)
  BY <1>1, <1>8 DEF Send
<1>9. CASE SendRaises(p)
  BY <1>9, SerialGoto DEF SendRaises, PC, Ended, MidCall
<1>10. CASE ReviewRead(p)
  <2>1. CASE ReviewAccepted(op[key[p]], cmd[p])
    <3> DEFINE loc == [proc[p] EXCEPT !.snap = op[key[p]], !.pc = "review_write"]
    <3>1. Become(p, loc) /\ MayCall(p) /\ UNCHANGED <<op, argv>>
      BY <1>10, <2>1 DEF ReviewRead, MayStart
    <3>2. loc.pc = "review_write"
      BY <1>0 DEF Local
    <3>3. ReadStands(p, loc, op'[key[p]])
      BY <2>1, <3>1, <3>2 DEF ReadStands
    <3> HIDE DEF loc
    <3>4. QED
      BY <3>1, <3>3, SerialStep
  <2>2. CASE ~ReviewAccepted(op[key[p]], cmd[p])
    BY <1>10, <2>2, SerialGoto DEF ReviewRead, PC, Ended, MidCall
  <2>3. QED
    BY <2>1, <2>2
<1>11. CASE ReviewWrite(p)
  BY <1>11, SerialGoto DEF ReviewWrite, PC, Ended, MidCall
<1>12. CASE OperatorTransition(p)
  BY <1>1, <1>12 DEF OperatorTransition
<1>13. CASE Crash(p)
  BY <1>13, SerialGoto DEF Crash, PC, Ended, MidCall
<1>14. QED
  BY <1>2, <1>3, <1>4, <1>5, <1>6, <1>7, <1>8, <1>9, <1>10, <1>11, <1>12, <1>13

LEMMA SerialNext == TypeInv /\ SerialInv /\ Isolated /\ [Next]_vars => SerialInv'
<1> SUFFICES ASSUME TypeInv, SerialInv, Isolated, [Next]_vars PROVE SerialInv'
  OBVIOUS
<1>1. CASE UNCHANGED vars
  BY <1>1 DEF vars, argv, SerialInv, ReadStands
<1>2. ASSUME NEW p \in Procs, Step(p) \/ Crash(p) PROVE SerialInv'
  BY <1>2, SerialJournal, SerialCommands DEF Step
<1>3. QED
  BY <1>1, <1>2 DEF Next

\* The status of every row, as the abstract specification sees it.
Statuses == [k \in Keys |-> op[k].status]

\* Writing row w over the row of key k moves along the lifecycle, or does not
\* change the status.
LEMMA WriteRefines ==
  ASSUME NEW k \in Keys, NEW w, op' = [op EXCEPT ![k] = w], op \in [Keys -> Row],
         \/ w.status = op[k].status
         \/ w.status \in Status /\ w.status \in AllowedTransitions(op[k].status)
         \/ w.status = "proposed" /\ op[k].status = Absent
  PROVE  [Lifecycle!LifecycleNext]_Statuses
<1>1. Statuses' = [Statuses EXCEPT ![k] = w.status]
  BY DEF Statuses
<1>2. Statuses[k] = op[k].status
  BY DEF Statuses
<1>3. CASE w.status = op[k].status
  BY <1>1, <1>2, <1>3 DEF Statuses
<1>4. CASE w.status \in Status /\ w.status \in AllowedTransitions(op[k].status)
  <2>1. Lifecycle!Move(k, w.status)
    BY <1>1, <1>2, <1>4 DEF Lifecycle!Move, Statuses, AllowedTransitions,
       Lifecycle!AllowedTransitions
  <2>2. QED
    BY <1>4, <2>1 DEF Lifecycle!LifecycleNext, Status, Lifecycle!Status
<1>5. CASE w.status = "proposed" /\ op[k].status = Absent
  <2>1. Lifecycle!Propose(k)
    BY <1>1, <1>2, <1>5 DEF Lifecycle!Propose, Statuses, Absent, Lifecycle!Absent
  <2>2. QED
    BY <2>1 DEF Lifecycle!LifecycleNext
<1>6. QED
  BY <1>3, <1>4, <1>5

\* A review that was accepted for the row it overwrites is a legal move.
LEMMA ReviewMoves ==
  ASSUME NEW row \in Row, NEW d \in ReviewDecision, ReviewAccepted(row, d)
  PROVE  LET w == ReviewRow(row, d) IN
           \/ w.status = row.status
           \/ w.status \in Status /\ w.status \in AllowedTransitions(row.status)
<1>1. CASE d = "delegate"
  BY <1>1 DEF ReviewRow, Row
<1>2. CASE d \in {"approve", "ingest_allow"}
  <2>1. ReviewRow(row, d).status = "approved" /\ ValidTransition(row.status, "approved")
    BY <1>2 DEF ReviewRow, ReviewAccepted, Row
  <2>2. QED
    BY <2>1 DEF ValidTransition, Status
<1>3. CASE d \in {"reject", "ingest_deny"}
  <2>1. ReviewRow(row, d).status = "rejected" /\ ValidTransition(row.status, "rejected")
    BY <1>3 DEF ReviewRow, ReviewAccepted, Row
  <2>2. QED
    BY <2>1 DEF ValidTransition, Status
<1>4. QED
  BY <1>1, <1>2, <1>3 DEF ReviewDecision

LEMMA StepRefines ==
  ASSUME TypeInv, SerialInv, [Next]_vars
  PROVE  [Lifecycle!LifecycleNext]_Statuses
<1>1. CASE op' = op
  BY <1>1 DEF Statuses
<1>2. ASSUME NEW p \in Procs, BeginInsert(p)
      PROVE  [Lifecycle!LifecycleNext]_Statuses
  <2>1. ProposedRow.status = "proposed"
    BY DEF ProposedRow, NoRow
  <2>2. QED
    BY <1>2, <2>1, WriteRefines DEF BeginInsert, TypeInv, TypeOK
<1>3. ASSUME NEW p \in Procs, TransitionWrite(p)
      PROVE  [Lifecycle!LifecycleNext]_Statuses
  <2> DEFINE w == TransitionRow(op[key[p]], proc[p].snap, proc[p].call)
  <2>1. w.status = proc[p].call.status /\ proc[p].call.status \in Status
    BY DEF TransitionRow, TypeInv, TypeOK, Local, Call
  <2>2. ValidTransition(op[key[p]].status, proc[p].call.status)
    BY <1>3 DEF TransitionWrite, SerialInv, ReadStands
  <2>3. op' = [op EXCEPT ![key[p]] = w] /\ key[p] \in Keys /\ op \in [Keys -> Row]
    BY <1>3 DEF TransitionWrite, TypeInv, TypeOK
  <2> HIDE DEF w
  <2>4. QED
    BY <2>1, <2>2, <2>3, WriteRefines DEF ValidTransition
<1>4. ASSUME NEW p \in Procs, ReviewWrite(p)
      PROVE  [Lifecycle!LifecycleNext]_Statuses
  <2> DEFINE w == ReviewRow(op[key[p]], cmd[p])
  <2>1. cmd[p] \in ReviewDecision /\ op[key[p]] \in Row
    BY <1>4 DEF ReviewWrite, TypeInv, TypeOK, WellFormed
  <2>2. ReviewAccepted(op[key[p]], cmd[p])
    BY <1>4 DEF ReviewWrite, SerialInv, ReadStands
  <2>3. op' = [op EXCEPT ![key[p]] = w] /\ key[p] \in Keys /\ op \in [Keys -> Row]
    BY <1>4 DEF ReviewWrite, TypeInv, TypeOK
  <2>4. \/ w.status = op[key[p]].status
        \/ w.status \in Status /\ w.status \in AllowedTransitions(op[key[p]].status)
    BY <2>1, <2>2, ReviewMoves
  <2> HIDE DEF w
  <2>5. QED
    BY <2>3, <2>4, WriteRefines
<1>5. ASSUME NEW p \in Procs, Step(p) \/ Crash(p)
      PROVE  op' = op \/ BeginInsert(p) \/ TransitionWrite(p) \/ ReviewWrite(p)
  BY <1>5 DEF Step, Crash, BeginLookup, BeginRaises, TransitionRead, TransitionReread,
     Evaluate, KeepContract, StampContract, Dispatch, GetApproved, Execute, Send,
     SendRaises, ReviewRead, OperatorTransition
<1>6. CASE UNCHANGED vars
  BY <1>1, <1>6 DEF vars
<1>7. QED
  BY <1>1, <1>2, <1>3, <1>4, <1>5, <1>6 DEF Next

(* As long as no two journal calls overlap in time, the journal implements *)
(* the operation lifecycle: every status change moves along                *)
(* ALLOWED_TRANSITIONS and a terminal row is final, for any number of      *)
(* commands, killed at any point.                                          *)
THEOREM JournalRefinesLifecycle ==
  ASSUME Isolated
  PROVE  Spec => LifecycleSpec
<1>1. Init => Lifecycle!LifecycleInit
  BY DEF Init, Lifecycle!LifecycleInit, NoRow, Absent, Lifecycle!Absent
<1>2. TypeInv /\ SerialInv /\ [Next]_vars =>
        [Lifecycle!LifecycleNext]_([k \in Keys |-> op[k].status])
  BY StepRefines DEF Statuses
<1>3. TypeInv /\ SerialInv /\ [Next]_vars => SerialInv'
  BY SerialNext
<1>4. Init => SerialInv
  BY SerialInit
<1>5. QED
  BY <1>1, <1>2, <1>3, <1>4, TypesAlways, PTL
     DEF Spec, LifecycleSpec, Lifecycle!LifecycleSpec

-------------------------------------------------------------------------------
(* What the calls to transition() of the wrappers and operators have in    *)
(* common, for the three invariants below.                                 *)

\* The row can no longer be decided by a reviewer: it exists and is not open.
Closed(row) == row.status \notin Open \cup {Absent}

(* p asks for transition(c) and goes on at l.  Only an approved row is set *)
(* to running, and a review status is written back with the status the row *)
(* had in hand, which is open unless a contract is being stamped on it.    *)
Asked(p, c, l) ==
  /\ l = "send" => /\ c.status = "running"
                   /\ proc[p].pc = "execute"
                   /\ proc[p].view.status = "approved"
  /\ c.review_status # Unset /\ c.status \notin Open =>
       /\ proc[p].pc = "contract"
       /\ Closed(proc[p].view)
       /\ c.review_status = proc[p].view.review_status
  /\ l # "done" => proc[p].pc \in {"evaluate", "contract", "queue", "dispatch", "execute"}

\* The steps in which a command asks for a transition, or ends instead.
Asking(p) ==
  \/ Evaluate(p) \/ StampContract(p) \/ Dispatch(p) \/ Execute(p) \/ Send(p)
  \/ OperatorTransition(p)

LEMMA AskingShape ==
  ASSUME TypeInv, NEW p \in Procs, Asking(p)
  PROVE  /\ UNCHANGED <<op, argv, decided>>
         /\ Send(p) \/ UNCHANGED sends
         /\ \/ Goto(p, "raised") \/ Goto(p, "done")
            \/ \E c \in Call, l \in After : Request(p, c, l) /\ Asked(p, c, l)
<1> DEFINE row == proc[p].view
           Shape == \/ Goto(p, "raised") \/ Goto(p, "done")
                    \/ \E c \in Call, l \in After : Request(p, c, l) /\ Asked(p, c, l)
<1>0. /\ proc[p] \in Local /\ row \in Row
      /\ \A v \in Verdicts : v \in Verdict
  BY PolicyAssumption DEF TypeInv, TypeOK, Local
<1>1. UNCHANGED <<op, argv, decided>> /\ (Send(p) \/ UNCHANGED sends)
  BY DEF Asking, Evaluate, StampContract, Dispatch, Execute, Send, OperatorTransition, history
<1>2. CASE Evaluate(p)
  <2> DEFINE denied(v) == [StatusCall("failed") EXCEPT
                             !.policy_decision = v, !.approval_required = "no",
                             !.result_ok = "error"]
             review(v) == [StatusCall("pending_approval") EXCEPT
                             !.policy_decision = v, !.contract = v,
                             !.approval_required = "yes", !.review_status = "pending"]
             allowed(v) == [StatusCall("approved") EXCEPT
                              !.policy_decision = v, !.contract = v,
                              !.approval_required = "no"]
             l == IF cmd[p] = "dry_run" THEN "done" ELSE "execute"
  <2>1. PICK v \in Verdicts :
          CASE v = "deny"             -> Request(p, denied(v), "done")
            [] v = "require_approval" -> Request(p, review(v), "queue")
            [] v = "allow"            -> Request(p, allowed(v), l)
    BY <1>2 DEF Evaluate
  <2>2. proc[p].pc = "evaluate"
    BY <1>2 DEF Evaluate
  <2>3. /\ denied(v) \in Call /\ Asked(p, denied(v), "done")
        /\ v = "require_approval" => review(v) \in Call /\ Asked(p, review(v), "queue")
        /\ v = "allow" => allowed(v) \in Call /\ Asked(p, allowed(v), l)
    BY <1>0, <2>2 DEF StatusCall, Call, Verdict, Status, ReviewStatus, Asked, Open, Unset
  <2>4. CASE v = "deny"
    <3>1. Request(p, denied(v), "done") /\ "done" \in After
      BY <2>1, <2>4 DEF After
    <3>2. QED
      BY <1>1, <2>3, <3>1
  <2>5. CASE v = "require_approval"
    <3>1. Request(p, review(v), "queue") /\ "queue" \in After
      BY <2>1, <2>5 DEF After
    <3>2. QED
      BY <1>1, <2>3, <2>5, <3>1
  <2>6. CASE v = "allow"
    <3>1. Request(p, allowed(v), l) /\ l \in After
      BY <2>1, <2>6 DEF After
    <3>2. QED
      BY <1>1, <2>3, <2>6, <3>1
  <2>7. QED
    BY <1>0, <2>4, <2>5, <2>6 DEF Verdict
<1>3. CASE StampContract(p)
  <2> DEFINE c(v) ==
        [StatusCall(row.status) EXCEPT
           !.policy_decision = v, !.contract = v,
           !.approval_required =
             IF row.approval_required \/ v = "require_approval" THEN "yes" ELSE "no",
           !.review_status =
             IF row.status = "pending_approval" /\ v = "require_approval"
             THEN "pending" ELSE row.review_status]
  <2>1. PICK v \in Verdicts : IF v = "deny" THEN Goto(p, "raised") ELSE Request(p, c(v), "resume")
    BY <1>3 DEF StampContract
  <2>2. row.status \in Status /\ proc[p].pc = "contract"
    BY <1>3 DEF StampContract, TypeInv, WellFormed
  <2>3. CASE v = "deny"
    BY <1>1, <2>1, <2>3
  <2>4. CASE v # "deny"
    <3>1. c(v) \in Call /\ c(v).status = row.status
      BY <1>0, <2>2, <2>4 DEF StatusCall, Call, Row, ReviewStatus
    <3>2. row.status \notin Open => c(v).review_status = row.review_status
      BY <1>0 DEF StatusCall, Call, Row, Open
    <3>3. Request(p, c(v), "resume") /\ "resume" \in After
      BY <2>1, <2>4 DEF After
    <3> HIDE DEF c
    <3>4. Asked(p, c(v), "resume")
      BY <2>2, <3>1, <3>2, StatusValues DEF Asked, Closed
    <3>5. QED
      BY <1>1, <3>1, <3>3, <3>4
  <2>5. QED
    BY <2>3, <2>4
<1>4. CASE Dispatch(p)
  <2> DEFINE r == IF row.review_status = None THEN "pending" ELSE row.review_status
             c == [StatusCall("pending_approval") EXCEPT !.review_status = r]
  <2>1. c \in Call /\ c.status = "pending_approval"
    BY <1>0 DEF StatusCall, Call, Row, ReviewStatus, Status
  <2> DEFINE l == IF proc[p].pc = "queue" THEN "queued" ELSE "dispatched"
  <2>2. Goto(p, "raised") \/ Goto(p, "done") \/ Request(p, c, l)
    BY <1>4 DEF Dispatch
  <2>3. proc[p].pc \in {"queue", "dispatch"} /\ l \in After /\ l # "send"
    BY <1>4 DEF Dispatch, After
  <2> HIDE DEF c, l
  <2>4. Asked(p, c, l)
    BY <2>1, <2>3 DEF Asked, Open
  <2>5. QED
    BY <1>1, <2>1, <2>2, <2>3, <2>4
<1>5. CASE Execute(p)
  <2> DEFINE c == StatusCall("running")
  <2>1. c \in Call /\ c.status = "running" /\ c.review_status = Unset
    BY StatusCallType DEF StatusCall, Status
  <2>2. \/ Goto(p, "raised") \/ Goto(p, "done")
        \/ Request(p, c, "send") /\ row.status = "approved"
    BY <1>5 DEF Execute
  <2>3. proc[p].pc = "execute" /\ "send" \in After
    BY <1>5 DEF Execute, After
  <2> HIDE DEF c
  <2>4. row.status = "approved" => Asked(p, c, "send")
    BY <2>1, <2>3 DEF Asked
  <2>5. QED
    BY <1>1, <2>1, <2>2, <2>3, <2>4
<1>6. CASE Send(p)
  <2> DEFINE won  == [StatusCall("succeeded") EXCEPT !.result_ok = "ok"]
             lost == [StatusCall("failed") EXCEPT !.result_ok = "error"]
  <2>1. PICK ok \in BOOLEAN : Request(p, IF ok THEN won ELSE lost, "done")
    BY <1>6 DEF Send
  <2>2. /\ won \in Call /\ won.review_status = Unset
        /\ lost \in Call /\ lost.review_status = Unset
    BY DEF StatusCall, Call, Status
  <2> DEFINE c == IF ok THEN won ELSE lost
  <2>3. c \in Call /\ c.review_status = Unset /\ Request(p, c, "done")
    BY <2>1, <2>2
  <2> HIDE DEF won, lost, c
  <2>4. Asked(p, c, "done") /\ "done" \in After
    BY <2>3 DEF Asked, After
  <2>5. QED
    BY <1>1, <2>3, <2>4
<1>7. CASE OperatorTransition(p)
  <2>1. StatusCall(cmd[p]) \in Call /\ StatusCall(cmd[p]).review_status = Unset
    BY <1>7, StatusCallType DEF OperatorTransition, StatusCall
  <2>2. Asked(p, StatusCall(cmd[p]), "done") /\ "done" \in After
    BY <2>1 DEF Asked, After
  <2>3. QED
    BY <1>1, <1>7, <2>1, <2>2 DEF OperatorTransition
<1>8. QED
  BY <1>2, <1>3, <1>4, <1>5, <1>6, <1>7 DEF Asking

\* The steps that leave the table and the history alone and only move on.
LEMMA MovingShape ==
  ASSUME TypeInv, NEW p \in Procs,
         BeginRaises(p) \/ KeepContract(p) \/ SendRaises(p) \/ Crash(p)
  PROVE  /\ UNCHANGED <<op, argv, history>>
         /\ \/ \E l \in {"raised", "crashed"} : Goto(p, l)
            \/ /\ proc[p].pc = "contract"
               /\ \E l \in {"execute", "dispatch", "done"} : Goto(p, l)
<1>1. Resume(p, proc[p].view) \in {"execute", "dispatch", "done"}
  BY ResumeType DEF TypeInv, TypeOK, Local
<1>2. QED
  BY <1>1 DEF BeginRaises, KeepContract, SendRaises, Crash

-------------------------------------------------------------------------------
(* Attempts.  The row was set to running for the request that p is about   *)
(* to send, and the write counted an attempt.                              *)
Sending(l) == l.pc = "send" \/ (l.pc = "reread" /\ l.next = "send")

\* A row that runs, or whose request was sent, has an attempt.
Counted(row, n) ==
  /\ row.status = Absent => row.attempt = 0
  /\ row.status = "running" \/ n > 0 => row.attempt > 0

CallCounted(l, row) ==
  /\ Sending(l) => row.attempt > 0
  /\ l.pc \in {"read", "write"} /\ l.next = "send" => l.call.status = "running"

AttemptInv ==
  /\ \A k \in Keys : Counted(op[k], sends[k])
  /\ \A p \in Procs : CallCounted(proc[p], op[key[p]])

LEMMA AttemptInit == Init => AttemptInv
BY DEF Init, AttemptInv, Counted, CallCounted, Sending, Holding, NoRow, Absent

\* The conditions under which a step of p keeps AttemptInv.
LEMMA AttemptStep ==
  ASSUME TypeInv, AttemptInv, NEW p \in Procs, NEW loc, Become(p, loc), UNCHANGED argv,
         \A k \in Keys : Counted(op'[k], sends'[k]),
         \A k \in Keys : op[k].attempt > 0 => op'[k].attempt > 0,
         CallCounted(loc, op'[key[p]])
  PROVE  AttemptInv'
<1> DEFINE new == IF loc.pc \in Ended THEN Holding(loc.pc) ELSE loc
<1>1. proc' = [proc EXCEPT ![p] = new] /\ proc \in [Procs -> Local]
  BY DEF Become, TypeInv, TypeOK
<1>2. CallCounted(new, op'[key[p]])
  BY DEF CallCounted, Sending, Holding, Ended
<1> HIDE DEF new
<1>3. \A q \in Procs : key[q] \in Keys
  BY DEF TypeInv, TypeOK
<1>4. \A q \in Procs : CallCounted(proc[q], op'[key[q]])
  BY <1>3 DEF AttemptInv, CallCounted
<1>5. \A q \in Procs : CallCounted(proc'[q], op'[key[q]])
  BY <1>1, <1>2, <1>4
<1>6. key' = key
  BY DEF argv
<1>7. QED
  BY <1>5, <1>6 DEF AttemptInv

\* A step of p that leaves the table alone.
LEMMA AttemptQuiet ==
  ASSUME TypeInv, AttemptInv, NEW p \in Procs, NEW loc, Become(p, loc),
         UNCHANGED <<op, argv>>, CallCounted(loc, op[key[p]]),
         \A k \in Keys : sends'[k] = sends[k] \/ op[k].attempt > 0
  PROVE  AttemptInv'
<1>1. \A k \in Keys : Counted(op'[k], sends'[k])
  BY DEF AttemptInv, Counted, TypeInv, TypeOK, Row
<1>2. CallCounted(loc, op'[key[p]])
  OBVIOUS
<1>3. QED
  BY <1>1, <1>2, AttemptStep

LEMMA AttemptGoto ==
  ASSUME TypeInv, AttemptInv, NEW p \in Procs,
         NEW l \in PC \ {"read", "write", "reread", "send"}, Goto(p, l),
         UNCHANGED <<op, argv>>,
         \A k \in Keys : sends'[k] = sends[k] \/ op[k].attempt > 0
  PROVE  AttemptInv'
<1>1. [proc[p] EXCEPT !.pc = l].pc = l
  BY DEF TypeInv, TypeOK, Local
<1>2. CallCounted([proc[p] EXCEPT !.pc = l], op[key[p]])
  BY <1>1 DEF CallCounted, Sending
<1>3. QED
  BY <1>2, AttemptQuiet DEF Goto

\* transition() counts the attempt when it moves the row to running.
LEMMA AttemptWrite ==
  ASSUME TypeInv, AttemptInv, SerialInv, NEW p \in Procs, TransitionWrite(p)
  PROVE  AttemptInv'
<1> DEFINE k == key[p]
           c == proc[p].call
           w == TransitionRow(op[k], proc[p].snap, c)
           loc == [Holding("reread") EXCEPT !.next = proc[p].next]
<1>0. /\ proc[p] \in Local /\ k \in Keys /\ op[k] \in Row /\ c \in Call
      /\ proc[p].snap = op[k] /\ op \in [Keys -> Row] /\ sends[k] \in Nat
      /\ Counted(op[k], sends[k]) /\ CallCounted(proc[p], op[k])
  BY DEF TypeInv, TypeOK, Local, SerialInv, ReadStands, TransitionWrite, AttemptInv
<1>1. w.status = c.status /\ c.status # Absent
  BY <1>0 DEF TransitionRow, Call, Status, Absent
<1>2. /\ w.attempt = IF c.status = "running" /\ op[k].status # "running"
                     THEN op[k].attempt + 1 ELSE op[k].attempt
      /\ op[k].attempt \in Nat
  BY <1>0 DEF TransitionRow, Row
<1>3. /\ op[k].attempt > 0 => w.attempt > 0
      /\ c.status = "running" => w.attempt > 0
  BY <1>0, <1>2 DEF Counted
<1>4. op' = [op EXCEPT ![k] = w] /\ sends' = sends /\ Become(p, loc) /\ UNCHANGED argv
  BY DEF TransitionWrite
<1>5. proc[p].next = "send" => c.status = "running"
  BY <1>0 DEF CallCounted, TransitionWrite
<1> HIDE DEF w
<1>6. \A j \in Keys : Counted(op'[j], sends'[j])
  BY <1>0, <1>1, <1>3, <1>4 DEF AttemptInv, Counted
<1>7. \A j \in Keys : op[j].attempt > 0 => op'[j].attempt > 0
  BY <1>0, <1>3, <1>4
<1>8. CallCounted(loc, op'[k])
  <2>1. loc.pc = "reread" /\ loc.next = proc[p].next
    BY DEF Holding
  <2>2. QED
    BY <1>0, <1>3, <1>4, <1>5, <2>1 DEF CallCounted, Sending
<1> HIDE DEF loc, k
<1>9. QED
  BY <1>4, <1>6, <1>7, <1>8, AttemptStep DEF k

LEMMA AttemptJournal ==
  ASSUME TypeInv, AttemptInv, NEW p \in Procs,
         BeginLookup(p) \/ BeginInsert(p) \/ TransitionRead(p) \/ TransitionReread(p)
         \/ GetApproved(p)
  PROVE  AttemptInv'
<1> DEFINE row == op[key[p]]
<1>0. /\ proc[p] \in Local /\ key[p] \in Keys /\ row \in Row /\ op \in [Keys -> Row]
      /\ CallCounted(proc[p], row) /\ Counted(row, sends[key[p]])
  BY DEF TypeInv, TypeOK, AttemptInv
<1>1. CASE BeginLookup(p)
  <2> DEFINE l == CASE row.status = Absent     -> "insert"
                    [] row.status # Absent /\ p \in Operators -> "done"
                    [] row.status = "proposed" /\ p \notin Operators -> "evaluate"
                    [] OTHER                   -> "contract"
             loc == [proc[p] EXCEPT !.view = row, !.pc = l]
  <2>1. loc.pc = l /\ l \notin {"read", "write", "reread", "send"}
    BY <1>0 DEF Local
  <2>2. Become(p, loc) /\ UNCHANGED <<op, argv, sends>>
    BY <1>1 DEF BeginLookup, history
  <2> HIDE DEF loc
  <2>3. CallCounted(loc, row)
    BY <2>1 DEF CallCounted, Sending
  <2>4. QED
    BY <2>2, <2>3, AttemptQuiet
<1>2. CASE BeginInsert(p)
  <2> DEFINE l == IF p \in Operators THEN "done" ELSE "evaluate"
             loc == [proc[p] EXCEPT !.view = ProposedRow, !.pc = l]
  <2>1. loc.pc = l /\ l \notin {"read", "write", "reread", "send"}
    BY <1>0 DEF Local
  <2>2. /\ Become(p, loc) /\ UNCHANGED <<argv, sends>> /\ row.status = Absent
        /\ op' = [op EXCEPT ![key[p]] = ProposedRow]
    BY <1>2 DEF BeginInsert, history
  <2>3. ProposedRow.status = "proposed" /\ row.attempt = 0 /\ ~(sends[key[p]] > 0)
    BY <1>0, <2>2 DEF ProposedRow, NoRow, Counted
  <2>4. \A k \in Keys : Counted(op'[k], sends'[k])
    BY <1>0, <2>2, <2>3 DEF AttemptInv, Counted, Absent
  <2>5. \A k \in Keys : op[k].attempt > 0 => op'[k].attempt > 0
    BY <1>0, <2>2, <2>3
  <2> HIDE DEF loc
  <2>6. CallCounted(loc, op'[key[p]])
    BY <2>1 DEF CallCounted, Sending
  <2>7. QED
    BY <2>2, <2>4, <2>5, <2>6, AttemptStep
<1>3. CASE TransitionRead(p)
  <2>1. UNCHANGED <<op, argv, sends>> /\ proc[p].pc = "read"
    BY <1>3 DEF TransitionRead, history
  <2>2. CASE ValidTransition(row.status, proc[p].call.status)
    <3> DEFINE loc == [proc[p] EXCEPT !.snap = row, !.pc = "write"]
    <3>1. CallCounted(loc, row)
      BY <1>0, <2>1 DEF CallCounted, Sending, Local
    <3>2. Become(p, loc)
      BY <1>3, <2>2 DEF TransitionRead
    <3> HIDE DEF loc
    <3>3. QED
      BY <2>1, <3>1, <3>2, AttemptQuiet
  <2>3. CASE ~ValidTransition(row.status, proc[p].call.status)
    BY <1>3, <2>1, <2>3, AttemptGoto DEF TransitionRead, PC, Ended
  <2>4. QED
    BY <2>2, <2>3
<1>4. CASE TransitionReread(p)
  <2> DEFINE l == CASE proc[p].next = "resume"     -> Resume(p, row)
                    [] proc[p].next = "dispatched" -> Answer(p, row)
                    [] proc[p].next = "queued"     -> "done"
                    [] OTHER                       -> proc[p].next
             loc == [Holding("reread") EXCEPT !.view = row, !.pc = l]
  <2>1. UNCHANGED <<op, argv, sends>> /\ proc[p].pc = "reread" /\ Become(p, loc)
    BY <1>4 DEF TransitionReread, history
  <2>2. loc.pc = l /\ l \notin {"read", "write", "reread"}
    BY <1>0, ResumeType DEF Holding, Local, After
  <2>3. l = "send" => proc[p].next = "send"
    BY <1>0, ResumeType
  <2> HIDE DEF loc, l
  <2>4. CallCounted(loc, row)
    BY <1>0, <2>1, <2>2, <2>3 DEF CallCounted, Sending
  <2>5. QED
    BY <2>1, <2>4, AttemptQuiet
<1>5. CASE GetApproved(p)
  <2> DEFINE loc == [proc[p] EXCEPT !.view = row, !.pc = "contract"]
  <2>1. loc.pc = "contract"
    BY <1>0 DEF Local
  <2>2. Become(p, loc) /\ UNCHANGED <<op, argv, sends>>
    BY <1>5 DEF GetApproved, history
  <2> HIDE DEF loc
  <2>3. CallCounted(loc, row)
    BY <2>1 DEF CallCounted, Sending
  <2>4. QED
    BY <2>2, <2>3, AttemptQuiet
<1>6. QED
  BY <1>1, <1>2, <1>3, <1>4, <1>5

\* A review leaves the counter alone and sets no row to running.
LEMMA AttemptReview ==
  ASSUME TypeInv, AttemptInv, NEW p \in Procs, ReviewRead(p) \/ ReviewWrite(p)
  PROVE  AttemptInv'
<1> DEFINE row == op[key[p]]
<1>0. /\ proc[p] \in Local /\ key[p] \in Keys /\ row \in Row /\ op \in [Keys -> Row]
      /\ Counted(row, sends[key[p]])
  BY DEF TypeInv, TypeOK, AttemptInv
<1>1. CASE ReviewRead(p)
  <2>1. UNCHANGED <<op, argv, sends>>
    BY <1>1 DEF ReviewRead, history
  <2> DEFINE loc == [proc[p] EXCEPT !.snap = row, !.pc = "review_write"]
  <2>2. loc.pc = "review_write"
    BY <1>0 DEF Local
  <2>3. Become(p, loc) \/ Goto(p, "raised")
    BY <1>1 DEF ReviewRead
  <2> HIDE DEF loc
  <2>4. CallCounted(loc, row)
    BY <2>2 DEF CallCounted, Sending
  <2>5. QED
    BY <2>1, <2>3, <2>4, AttemptQuiet, AttemptGoto DEF PC, Ended
<1>2. CASE ReviewWrite(p)
  <2> DEFINE w == ReviewRow(row, cmd[p])
             loc == [proc[p] EXCEPT !.pc = "done"]
  <2>1. cmd[p] \in ReviewDecision
    BY <1>2 DEF ReviewWrite, TypeInv, WellFormed
  <2>2. /\ w.attempt = row.attempt
        /\ w.status = row.status \/ w.status \in {"approved", "rejected"}
    BY <1>0, <2>1 DEF ReviewRow, ReviewDecision, Row
  <2>3. /\ op' = [op EXCEPT ![key[p]] = w] /\ sends' = sends /\ UNCHANGED argv
        /\ Become(p, loc)
    BY <1>2 DEF ReviewWrite, Goto
  <2> HIDE DEF w
  <2>4. \A k \in Keys : Counted(op'[k], sends'[k])
    BY <1>0, <2>2, <2>3 DEF AttemptInv, Counted, Absent
  <2>5. \A k \in Keys : op[k].attempt > 0 => op'[k].attempt > 0
    BY <1>0, <2>2, <2>3
  <2>6. loc.pc = "done"
    BY <1>0 DEF Local
  <2> HIDE DEF loc
  <2>7. CallCounted(loc, op'[key[p]])
    BY <2>6 DEF CallCounted, Sending
  <2>8. QED
    BY <2>3, <2>4, <2>5, <2>7, AttemptStep
<1>3. QED
  BY <1>1, <1>2

LEMMA AttemptAsking ==
  ASSUME TypeInv, AttemptInv, NEW p \in Procs, Asking(p)
  PROVE  AttemptInv'
<1>1. /\ UNCHANGED <<op, argv>> /\ (Send(p) \/ UNCHANGED sends)
      /\ \/ Goto(p, "raised") \/ Goto(p, "done")
         \/ \E c \in Call, l \in After : Request(p, c, l) /\ Asked(p, c, l)
  BY AskingShape
<1>2. \A k \in Keys : sends'[k] = sends[k] \/ op[k].attempt > 0
  <2>1. CASE UNCHANGED sends
    BY <2>1
  <2>2. CASE Send(p)
    <3>1. op[key[p]].attempt > 0
      BY <2>2 DEF Send, AttemptInv, CallCounted, Sending
    <3>2. \A k \in Keys : k # key[p] => sends'[k] = sends[k]
      BY <2>2 DEF Send, TypeInv, TypeOK
    <3>3. QED
      BY <3>1, <3>2
  <2>3. QED
    BY <1>1, <2>1, <2>2
<1>3. ASSUME NEW c \in Call, NEW l \in After, Request(p, c, l), Asked(p, c, l)
      PROVE  AttemptInv'
  <2> DEFINE loc == [Holding("read") EXCEPT !.call = c, !.next = l]
  <2>1. loc.pc = "read" /\ loc.call = c /\ loc.next = l
    BY DEF Holding
  <2>2. Become(p, loc)
    BY <1>3 DEF Request
  <2> HIDE DEF loc
  <2>3. CallCounted(loc, op[key[p]])
    BY <1>3, <2>1 DEF CallCounted, Sending, Asked
  <2>4. QED
    BY <1>1, <1>2, <2>2, <2>3, AttemptQuiet
<1>4. CASE Goto(p, "raised") \/ Goto(p, "done")
  BY <1>1, <1>2, <1>4, AttemptGoto DEF PC, Ended
<1>5. QED
  BY <1>1, <1>3, <1>4

LEMMA AttemptNext == TypeInv /\ SerialInv /\ AttemptInv /\ [Next]_vars => AttemptInv'
<1> SUFFICES ASSUME TypeInv, SerialInv, AttemptInv, [Next]_vars PROVE AttemptInv'
  OBVIOUS
<1>1. CASE UNCHANGED vars
  BY <1>1 DEF vars, argv, history, AttemptInv, Counted, CallCounted
<1>2. ASSUME NEW p \in Procs,
             BeginRaises(p) \/ KeepContract(p) \/ SendRaises(p) \/ Crash(p)
      PROVE  AttemptInv'
  <2>1. UNCHANGED <<op, argv, sends>>
    BY <1>2, MovingShape DEF history
  <2>2. PICK l \in {"raised", "crashed", "execute", "dispatch", "done"} : Goto(p, l)
    BY <1>2, MovingShape
  <2>3. QED
    BY <2>1, <2>2, AttemptGoto DEF PC, Ended
<1>3. ASSUME NEW p \in Procs, Step(p) \/ Crash(p) PROVE AttemptInv'
  BY <1>2, <1>3, AttemptWrite, AttemptJournal, AttemptReview, AttemptAsking
     DEF Step, Asking
<1>4. QED
  BY <1>1, <1>3 DEF Next

LEMMA SerialAlways == ASSUME Isolated PROVE Spec => []SerialInv
<1>1. TypeInv /\ SerialInv /\ [Next]_vars => SerialInv'
  BY SerialNext
<1>2. Init => SerialInv
  BY SerialInit
<1>3. QED
  BY <1>1, <1>2, TypesAlways, PTL DEF Spec

(* When no two journal calls overlap, an operation whose request was sent  *)
(* and which ended as succeeded or failed is reported as executed by every *)
(* later replay: no interleaving of commands loses the attempt that was    *)
(* counted before the request left.  One cancelled while running is not.   *)
THEOREM ReplaysReportExecution ==
  ASSUME Isolated
  PROVE  Spec => []ReplayReportsExecution
<1>1. TypeInv /\ AttemptInv => ReplayReportsExecution
  BY DEF TypeInv, TypeOK, AttemptInv, Counted, ReplayReportsExecution, ReplayExecuted,
     ReplayAccepted, Row
<1>2. Init => AttemptInv
  BY AttemptInit
<1>3. TypeInv /\ SerialInv /\ AttemptInv /\ [Next]_vars => AttemptInv'
  BY AttemptNext
<1>4. QED
  BY <1>1, <1>2, <1>3, TypesAlways, SerialAlways, PTL DEF Spec

-------------------------------------------------------------------------------
(* Reviews.  A decided row is closed and reports the decision; whoever may *)
(* still write a review status of a closed row back holds that decision.   *)
Ruled(row, d) ==
  d # None =>
    /\ row.review_status = d
    /\ d = "rejected" => row.status = "rejected"
    /\ d = "approved" => row.status \notin Open \cup {Absent, "rejected"}

LocalRuled(l, row, d) ==
  /\ l.pc = "contract" /\ Closed(l.view) =>
       Closed(row) /\ (d # None => l.view.review_status = d)
  /\ l.pc \in {"read", "write"} /\ l.call.review_status # Unset /\ l.call.status \notin Open =>
       Closed(row) /\ (d # None => l.call.review_status = d)

VerdictInv ==
  /\ \A k \in Keys : Ruled(op[k], decided[k])
  /\ \A p \in Procs : LocalRuled(proc[p], op[key[p]], decided[key[p]])

\* The lifecycle never opens a closed row again.
LEMMA ClosedStays ==
  ASSUME NEW s \in Status \ Open, NEW t \in Status, ValidTransition(s, t)
  PROVE  /\ t \notin Open
         /\ s # "rejected" /\ t = "rejected" => FALSE
         /\ s = "rejected" => t = "rejected"
BY DEF Status, Open, ValidTransition, AllowedTransitions

LEMMA VerdictInit == Init => VerdictInv
BY DEF Init, VerdictInv, Ruled, LocalRuled, Holding

\* The conditions under which a step of p keeps VerdictInv.
LEMMA VerdictStep ==
  ASSUME TypeInv, VerdictInv, NEW p \in Procs, NEW loc, Become(p, loc), UNCHANGED argv,
         \A k \in Keys : Ruled(op'[k], decided'[k]),
         \A k \in Keys : Closed(op[k]) => Closed(op'[k]) /\ decided'[k] = decided[k],
         LocalRuled(loc, op'[key[p]], decided'[key[p]])
  PROVE  VerdictInv'
<1> DEFINE new == IF loc.pc \in Ended THEN Holding(loc.pc) ELSE loc
<1>1. proc' = [proc EXCEPT ![p] = new] /\ proc \in [Procs -> Local]
  BY DEF Become, TypeInv, TypeOK
<1>2. LocalRuled(new, op'[key[p]], decided'[key[p]])
  BY DEF LocalRuled, Holding, Ended
<1> HIDE DEF new
<1>3. \A q \in Procs : key[q] \in Keys
  BY DEF TypeInv, TypeOK
<1>4. \A q \in Procs : LocalRuled(proc[q], op'[key[q]], decided'[key[q]])
  BY <1>3 DEF VerdictInv, LocalRuled
<1>5. \A q \in Procs : LocalRuled(proc'[q], op'[key[q]], decided'[key[q]])
  BY <1>1, <1>2, <1>4
<1>6. key' = key
  BY DEF argv
<1>7. QED
  BY <1>5, <1>6 DEF VerdictInv

\* A step of p that leaves the table alone.
LEMMA VerdictQuiet ==
  ASSUME TypeInv, VerdictInv, NEW p \in Procs, NEW loc, Become(p, loc),
         UNCHANGED <<op, argv, decided>>, LocalRuled(loc, op[key[p]], decided[key[p]])
  PROVE  VerdictInv'
<1>1. \A k \in Keys : Ruled(op'[k], decided'[k])
  BY DEF VerdictInv
<1>2. \A k \in Keys : Closed(op[k]) => Closed(op'[k]) /\ decided'[k] = decided[k]
  OBVIOUS
<1>3. LocalRuled(loc, op'[key[p]], decided'[key[p]])
  OBVIOUS
<1>4. QED
  BY <1>1, <1>2, <1>3, VerdictStep

LEMMA VerdictGoto ==
  ASSUME TypeInv, VerdictInv, NEW p \in Procs,
         NEW l \in PC \ {"contract", "read", "write"}, Goto(p, l),
         UNCHANGED <<op, argv, decided>>
  PROVE  VerdictInv'
<1>1. [proc[p] EXCEPT !.pc = l].pc = l
  BY DEF TypeInv, TypeOK, Local
<1>2. LocalRuled([proc[p] EXCEPT !.pc = l], op[key[p]], decided[key[p]])
  BY <1>1 DEF LocalRuled
<1>3. QED
  BY <1>2, VerdictQuiet DEF Goto

\* transition() writes a review status over a decided row only if it is the
\* decision: every other one comes with an open status, which was refused.
LEMMA VerdictWrite ==
  ASSUME TypeInv, VerdictInv, SerialInv, NEW p \in Procs, TransitionWrite(p)
  PROVE  VerdictInv'
<1> DEFINE k == key[p]
           c == proc[p].call
           w == TransitionRow(op[k], proc[p].snap, c)
           loc == [Holding("reread") EXCEPT !.next = proc[p].next]
<1>0. /\ proc[p] \in Local /\ k \in Keys /\ op[k] \in Row /\ c \in Call
      /\ proc[p].snap = op[k] /\ op \in [Keys -> Row]
      /\ ValidTransition(op[k].status, c.status)
      /\ Ruled(op[k], decided[k]) /\ LocalRuled(proc[p], op[k], decided[k])
      /\ decided[k] \in {None, "approved", "rejected"}
  BY DEF TypeInv, TypeOK, Local, SerialInv, ReadStands, TransitionWrite, VerdictInv
<1>1. /\ w.status = c.status /\ c.status \in Status /\ Absent \notin Status
      /\ w.review_status = IF c.review_status = Unset
                           THEN op[k].review_status ELSE c.review_status
  BY <1>0, StatusValues DEF TransitionRow, Given, Call
<1>2. /\ op' = [op EXCEPT ![k] = w] /\ decided' = decided /\ Become(p, loc)
      /\ UNCHANGED argv /\ proc[p].pc = "write"
  BY DEF TransitionWrite
<1>3. Closed(op[k]) => op[k].status \in Status \ Open
  BY <1>0 DEF Closed, Row
<1>4. Closed(op[k]) => Closed(w)
  BY <1>0, <1>1, <1>3, ClosedStays DEF Closed
<1>5. decided[k] # None => Closed(op[k])
  BY <1>0 DEF Ruled, Closed, Open, Absent
<1>6. decided[k] # None => w.review_status = decided[k]
  BY <1>0, <1>1, <1>2, <1>4, <1>5 DEF Ruled, LocalRuled, Closed
<1>7. Ruled(w, decided[k])
  <2>1. decided[k] = "rejected" => w.status = "rejected"
    BY <1>0, <1>1, <1>3, <1>5, ClosedStays DEF Ruled, None
  <2>2. decided[k] = "approved" => w.status \notin Open \cup {Absent, "rejected"}
    BY <1>0, <1>1, <1>3, <1>5, ClosedStays DEF Ruled, None
  <2>3. QED
    BY <1>6, <2>1, <2>2 DEF Ruled
<1>8. loc.pc = "reread"
  BY DEF Holding
<1>9. LocalRuled(loc, op'[k], decided'[k])
  BY <1>8 DEF LocalRuled
<1> HIDE DEF w, loc
<1>10. \A j \in Keys : Ruled(op'[j], decided'[j])
  BY <1>0, <1>2, <1>7 DEF VerdictInv
<1>11. \A j \in Keys : Closed(op[j]) => Closed(op'[j]) /\ decided'[j] = decided[j]
  BY <1>0, <1>2, <1>4
<1> HIDE DEF k
<1>12. QED
  BY <1>2, <1>9, <1>10, <1>11, VerdictStep DEF k

LEMMA VerdictJournal ==
  ASSUME TypeInv, VerdictInv, NEW p \in Procs,
         BeginLookup(p) \/ BeginInsert(p) \/ TransitionRead(p) \/ TransitionReread(p)
         \/ GetApproved(p)
  PROVE  VerdictInv'
<1> DEFINE row == op[key[p]]
           d == decided[key[p]]
<1>0. /\ proc[p] \in Local /\ key[p] \in Keys /\ row \in Row /\ op \in [Keys -> Row]
      /\ Ruled(row, d) /\ LocalRuled(proc[p], row, d)
      /\ d \in {None, "approved", "rejected"}
  BY DEF TypeInv, TypeOK, VerdictInv
<1>1. CASE BeginLookup(p)
  <2> DEFINE l == CASE row.status = Absent     -> "insert"
                    [] row.status # Absent /\ p \in Operators -> "done"
                    [] row.status = "proposed" /\ p \notin Operators -> "evaluate"
                    [] OTHER                   -> "contract"
             loc == [proc[p] EXCEPT !.view = row, !.pc = l]
  <2>1. loc.pc = l /\ l \notin {"read", "write"} /\ loc.view = row
    BY <1>0 DEF Local
  <2>2. Become(p, loc) /\ UNCHANGED <<op, argv, decided>>
    BY <1>1 DEF BeginLookup, history
  <2> HIDE DEF loc
  <2>3. LocalRuled(loc, row, d)
    BY <1>0, <2>1 DEF LocalRuled, Ruled
  <2>4. QED
    BY <2>2, <2>3, VerdictQuiet
<1>2. CASE BeginInsert(p)
  <2> DEFINE l == IF p \in Operators THEN "done" ELSE "evaluate"
             loc == [proc[p] EXCEPT !.view = ProposedRow, !.pc = l]
  <2>1. loc.pc = l /\ l \notin {"read", "write", "contract"}
    BY <1>0 DEF Local
  <2>2. /\ Become(p, loc) /\ UNCHANGED <<argv, decided>> /\ row.status = Absent
        /\ op' = [op EXCEPT ![key[p]] = ProposedRow]
    BY <1>2 DEF BeginInsert, history
  <2>3. d = None /\ ~Closed(row)
    BY <1>0, <2>2 DEF Ruled, Closed, Absent
  <2>4. \A k \in Keys : Ruled(op'[k], decided'[k])
    BY <1>0, <2>2, <2>3 DEF VerdictInv, Ruled
  <2>5. \A k \in Keys : Closed(op[k]) => Closed(op'[k]) /\ decided'[k] = decided[k]
    BY <1>0, <2>2, <2>3
  <2> HIDE DEF loc
  <2>6. LocalRuled(loc, op'[key[p]], decided'[key[p]])
    BY <2>1 DEF LocalRuled
  <2>7. QED
    BY <2>2, <2>4, <2>5, <2>6, VerdictStep
<1>3. CASE TransitionRead(p)
  <2>1. UNCHANGED <<op, argv, decided>> /\ proc[p].pc = "read"
    BY <1>3 DEF TransitionRead, history
  <2>2. CASE ValidTransition(row.status, proc[p].call.status)
    <3> DEFINE loc == [proc[p] EXCEPT !.snap = row, !.pc = "write"]
    <3>1. LocalRuled(loc, row, d)
      BY <1>0, <2>1 DEF LocalRuled, Local
    <3>2. Become(p, loc)
      BY <1>3, <2>2 DEF TransitionRead
    <3> HIDE DEF loc
    <3>3. QED
      BY <2>1, <3>1, <3>2, VerdictQuiet
  <2>3. CASE ~ValidTransition(row.status, proc[p].call.status)
    BY <1>3, <2>1, <2>3, VerdictGoto DEF TransitionRead, PC, Ended
  <2>4. QED
    BY <2>2, <2>3
<1>4. CASE TransitionReread(p)
  <2> DEFINE l == CASE proc[p].next = "resume"     -> Resume(p, row)
                    [] proc[p].next = "dispatched" -> Answer(p, row)
                    [] proc[p].next = "queued"     -> "done"
                    [] OTHER                       -> proc[p].next
             loc == [Holding("reread") EXCEPT !.view = row, !.pc = l]
  <2>1. UNCHANGED <<op, argv, decided>> /\ Become(p, loc)
    BY <1>4 DEF TransitionReread, history
  <2>2. loc.pc = l /\ l \notin {"read", "write", "contract"}
    BY <1>0, ResumeType DEF Holding, Local, After
  <2> HIDE DEF loc, l
  <2>3. LocalRuled(loc, row, d)
    BY <2>2 DEF LocalRuled
  <2>4. QED
    BY <2>1, <2>3, VerdictQuiet
<1>5. CASE GetApproved(p)
  <2> DEFINE loc == [proc[p] EXCEPT !.view = row, !.pc = "contract"]
  <2>1. loc.pc = "contract" /\ loc.view = row
    BY <1>0 DEF Local
  <2>2. Become(p, loc) /\ UNCHANGED <<op, argv, decided>>
    BY <1>5 DEF GetApproved, history
  <2> HIDE DEF loc
  <2>3. LocalRuled(loc, row, d)
    BY <1>0, <2>1 DEF LocalRuled, Ruled
  <2>4. QED
    BY <2>2, <2>3, VerdictQuiet
<1>6. QED
  BY <1>1, <1>2, <1>3, <1>4, <1>5

\* A review is accepted on an open row, or repeats the decision.
LEMMA VerdictReview ==
  ASSUME TypeInv, VerdictInv, SerialInv, NEW p \in Procs, ReviewRead(p) \/ ReviewWrite(p)
  PROVE  VerdictInv'
<1> DEFINE k == key[p]
           row == op[k]
           d == decided[k]
<1>0. /\ proc[p] \in Local /\ k \in Keys /\ row \in Row /\ op \in [Keys -> Row]
      /\ Ruled(row, d) /\ d \in {None, "approved", "rejected"}
      /\ decided \in [Keys -> {None, "approved", "rejected"}]
  BY DEF TypeInv, TypeOK, VerdictInv
<1>1. CASE ReviewRead(p)
  <2>1. UNCHANGED <<op, argv, decided>>
    BY <1>1 DEF ReviewRead, history
  <2> DEFINE loc == [proc[p] EXCEPT !.snap = row, !.pc = "review_write"]
  <2>2. loc.pc = "review_write"
    BY <1>0 DEF Local
  <2>3. Become(p, loc) \/ Goto(p, "raised")
    BY <1>1 DEF ReviewRead
  <2> HIDE DEF loc
  <2>4. LocalRuled(loc, row, d)
    BY <2>2 DEF LocalRuled
  <2>5. QED
    BY <2>1, <2>3, <2>4, VerdictQuiet, VerdictGoto DEF PC, Ended
<1>2. CASE ReviewWrite(p)
  <2> DEFINE w == ReviewRow(row, cmd[p])
             e == IF row.status \in Open /\ cmd[p] # "delegate" THEN w.review_status ELSE d
             loc == [proc[p] EXCEPT !.pc = "done"]
  <2>1. cmd[p] \in ReviewDecision /\ ReviewAccepted(row, cmd[p])
    BY <1>2 DEF ReviewWrite, TypeInv, WellFormed, SerialInv, ReadStands
  <2>2. /\ op' = [op EXCEPT ![k] = w] /\ decided' = [decided EXCEPT ![k] = e]
        /\ UNCHANGED argv /\ Become(p, loc)
    BY <1>2 DEF ReviewWrite, Goto
  <2>3. Ruled(w, e) /\ (Closed(row) => Closed(w) /\ e = d)
    <3>1. CASE cmd[p] = "delegate"
      <4>1. row.status = "pending_approval" /\ d = None /\ e = d
        BY <1>0, <2>1, <3>1 DEF ReviewAccepted, Ruled, Open
      <4>2. QED
        BY <4>1 DEF Ruled, Closed, Open
    <3>2. CASE cmd[p] \in {"approve", "ingest_allow"}
      <4>1. w.status = "approved" /\ w.review_status = "approved"
        BY <1>0, <3>2 DEF ReviewRow, Row
      <4>2. ValidTransition(row.status, "approved")
        BY <2>1, <3>2 DEF ReviewAccepted
      <4>3. row.status \in Open \cup {"approved"} /\ d \in {None, "approved"}
        BY <1>0, <4>2 DEF ValidTransition, AllowedTransitions, Open, Ruled
      <4>4. QED
        BY <3>2, <4>1, <4>3 DEF Ruled, Closed, Open, Absent
    <3>3. CASE cmd[p] \in {"reject", "ingest_deny"}
      <4>1. w.status = "rejected" /\ w.review_status = "rejected"
        BY <1>0, <3>3 DEF ReviewRow, Row
      <4>2. ValidTransition(row.status, "rejected")
        BY <2>1, <3>3 DEF ReviewAccepted
      <4>3. row.status \in Open \cup {"rejected"} /\ d \in {None, "rejected"}
        BY <1>0, <4>2 DEF ValidTransition, AllowedTransitions, Open, Ruled
      <4>4. QED
        BY <3>3, <4>1, <4>3 DEF Ruled, Closed, Open, Absent
    <3>4. QED
      BY <2>1, <3>1, <3>2, <3>3 DEF ReviewDecision
  <2>4. loc.pc = "done"
    BY <1>0 DEF Local
  <2> HIDE DEF w, e, loc
  <2>5. \A j \in Keys : Ruled(op'[j], decided'[j])
    BY <1>0, <2>2, <2>3 DEF VerdictInv
  <2>6. \A j \in Keys : Closed(op[j]) => Closed(op'[j]) /\ decided'[j] = decided[j]
    BY <1>0, <2>2, <2>3
  <2>7. LocalRuled(loc, op'[k], decided'[k])
    BY <2>4 DEF LocalRuled
  <2> HIDE DEF k
  <2>8. QED
    BY <2>2, <2>5, <2>6, <2>7, VerdictStep DEF k
<1>3. QED
  BY <1>1, <1>2

LEMMA VerdictAsking ==
  ASSUME TypeInv, VerdictInv, NEW p \in Procs, Asking(p)
  PROVE  VerdictInv'
<1>1. /\ UNCHANGED <<op, argv, decided>>
      /\ \/ Goto(p, "raised") \/ Goto(p, "done")
         \/ \E c \in Call, l \in After : Request(p, c, l) /\ Asked(p, c, l)
  BY AskingShape
<1>2. ASSUME NEW c \in Call, NEW l \in After, Request(p, c, l), Asked(p, c, l)
      PROVE  VerdictInv'
  <2> DEFINE loc == [Holding("read") EXCEPT !.call = c, !.next = l]
  <2>1. loc.pc = "read" /\ loc.call = c
    BY DEF Holding
  <2>2. Become(p, loc)
    BY <1>2 DEF Request
  <2>3. LocalRuled(proc[p], op[key[p]], decided[key[p]])
    BY DEF VerdictInv
  <2> HIDE DEF loc
  <2>4. LocalRuled(loc, op[key[p]], decided[key[p]])
    BY <1>2, <2>1, <2>3 DEF LocalRuled, Asked
  <2>5. QED
    BY <1>1, <2>2, <2>4, VerdictQuiet
<1>3. CASE Goto(p, "raised") \/ Goto(p, "done")
  BY <1>1, <1>3, VerdictGoto DEF PC, Ended
<1>4. QED
  BY <1>1, <1>2, <1>3

LEMMA VerdictNext == TypeInv /\ SerialInv /\ VerdictInv /\ [Next]_vars => VerdictInv'
<1> SUFFICES ASSUME TypeInv, SerialInv, VerdictInv, [Next]_vars PROVE VerdictInv'
  OBVIOUS
<1>1. CASE UNCHANGED vars
  BY <1>1 DEF vars, argv, history, VerdictInv, Ruled, LocalRuled, Closed
<1>2. ASSUME NEW p \in Procs,
             BeginRaises(p) \/ KeepContract(p) \/ SendRaises(p) \/ Crash(p)
      PROVE  VerdictInv'
  <2>1. UNCHANGED <<op, argv, decided>>
    BY <1>2, MovingShape DEF history
  <2>2. PICK l \in {"raised", "crashed", "execute", "dispatch", "done"} : Goto(p, l)
    BY <1>2, MovingShape
  <2>3. QED
    BY <2>1, <2>2, VerdictGoto DEF PC, Ended
<1>3. ASSUME NEW p \in Procs, Step(p) \/ Crash(p) PROVE VerdictInv'
  BY <1>2, <1>3, VerdictWrite, VerdictJournal, VerdictReview, VerdictAsking
     DEF Step, Asking
<1>4. QED
  BY <1>1, <1>3 DEF Next

(* When no two journal calls overlap, the verdict that closed a review is  *)
(* the review status of the row from then on, for any number of wrappers   *)
(* with older rows in hand, reviewers and raw journal commands.            *)
THEOREM VerdictsStand ==
  ASSUME Isolated
  PROVE  Spec => []ReviewStands
<1>1. VerdictInv => ReviewStands
  BY DEF VerdictInv, Ruled, ReviewStands
<1>2. Init => VerdictInv
  BY VerdictInit
<1>3. TypeInv /\ SerialInv /\ VerdictInv /\ [Next]_vars => VerdictInv'
  BY VerdictNext
<1>4. QED
  BY <1>1, <1>2, <1>3, TypesAlways, SerialAlways, PTL DEF Spec

-------------------------------------------------------------------------------
(* One delivery.  With one wrapper invocation in flight at a time, nobody  *)
(* else sends while a wrapper acts on a row it has seen approved; once the *)
(* request was sent, the row runs or is finished and is never approved     *)
(* again.                                                                  *)
Over == {"running"} \cup Terminal

\* The places of a command that only a wrapper reaches.
Working == {"evaluate", "contract", "queue", "dispatch", "execute", "send"}

RoleOK(p, l) ==
  /\ l.pc \in Working \/ l.next # "done" => p \in Wrappers
  /\ l.pc = "insert" => p \in Wrappers \cup Operators
  /\ l.pc \in {"idle"} \cup Ended => l.next = "done"

LocalOnce(l, row, n) ==
  /\ l.pc \in {"contract", "execute"} /\ l.view.status = "approved" => n = 0
  /\ "send" \in {l.pc, l.next} => n = 0
  /\ Sending(l) => row.status \in Over

SentOnce(row, n) == n <= 1 /\ (n > 0 => row.status \in Over)

OnceInv ==
  /\ \A p \in Procs : cmd[p] \in {"create", "dry_run", "execute"} => p \in Wrappers
  /\ \A p \in Procs : cmd[p] = "begin" => p \in Operators
  /\ \A p, q \in Wrappers : InFlight(p) /\ InFlight(q) => p = q
  /\ \A p \in Procs : RoleOK(p, proc[p])
  /\ \A k \in Keys : SentOnce(op[k], sends[k])
  /\ \A p \in Procs : LocalOnce(proc[p], op[key[p]], sends[key[p]])

LEMMA OverStays ==
  ASSUME NEW s \in Over, NEW t \in Status, ValidTransition(s, t)
  PROVE  t \in Over
BY DEF Over, Terminal, Status, ValidTransition, AllowedTransitions

LEMMA NotOver == Over \cap {Absent, "proposed", "pending_approval", "approved"} = {}
BY DEF Over, Terminal, Status, AllowedTransitions, Absent

LEMMA OnceInit == Init => OnceInv
<1> SUFFICES ASSUME Init PROVE OnceInv
  OBVIOUS
<1>1. \A p \in Procs : proc[p] = Holding("idle")
  BY DEF Init
<1>2. \A p \in Procs : cmd[p] \in {"create", "dry_run", "execute"} => p \in Wrappers
  BY CommandsAssumption DEF Init, Procs, Status, ReviewDecision
<1>3. \A p \in Procs : cmd[p] = "begin" => p \in Operators
  BY CommandsAssumption DEF Init, Procs, ReviewDecision
<1>4. \A p \in Procs : RoleOK(p, proc[p]) /\ LocalOnce(proc[p], op[key[p]], sends[key[p]])
  BY <1>1 DEF RoleOK, LocalOnce, Sending, Holding, Working, Ended
<1>5. \A p \in Wrappers : ~InFlight(p)
  BY <1>1 DEF InFlight, Holding, Procs
<1>6. \A k \in Keys : SentOnce(op[k], sends[k])
  BY DEF Init, SentOnce
<1>7. QED
  BY <1>2, <1>3, <1>4, <1>5, <1>6 DEF OnceInv

\* The conditions under which a step of p keeps OnceInv.
LEMMA OnceStep ==
  ASSUME TypeInv, OnceInv, NEW p \in Procs, NEW loc, Become(p, loc), UNCHANGED argv,
         InFlight(p) \/ p \notin Wrappers \/ \A q \in Wrappers \ {p} : ~InFlight(q),
         RoleOK(p, loc),
         \A k \in Keys : SentOnce(op'[k], sends'[k]),
         \A k \in Keys : op[k].status \in Over => op'[k].status \in Over,
         sends' = sends \/ (p \in Wrappers /\ InFlight(p)),
         LocalOnce(loc, op'[key[p]], sends'[key[p]])
  PROVE  OnceInv'
<1> DEFINE new == IF loc.pc \in Ended THEN Holding(loc.pc) ELSE loc
<1>1. proc' = [proc EXCEPT ![p] = new] /\ proc \in [Procs -> Local]
  BY DEF Become, TypeInv, TypeOK
<1>2. LocalOnce(new, op'[key[p]], sends'[key[p]])
  BY DEF LocalOnce, Sending, Holding, Ended
<1>3. RoleOK(p, new)
  BY DEF RoleOK, Holding, Ended, Working
<1>4. new.pc = loc.pc
  BY DEF Holding
<1> HIDE DEF new
<1>5. /\ \A q \in Procs : key[q] \in Keys
      /\ \A q \in Wrappers : q \in Procs
  BY DEF TypeInv, TypeOK, Procs
<1>6. proc'[p] = new /\ \A q \in Procs \ {p} : proc'[q] = proc[q]
  BY <1>1
<1>7. \A q \in Procs \ {p} : LocalOnce(proc[q], op'[key[q]], sends'[key[q]])
  <2> SUFFICES ASSUME NEW q \in Procs \ {p}
               PROVE  LocalOnce(proc[q], op'[key[q]], sends'[key[q]])
    OBVIOUS
  <2>1. LocalOnce(proc[q], op[key[q]], sends[key[q]]) /\ RoleOK(q, proc[q])
    BY DEF OnceInv
  <2>2. CASE sends' = sends
    BY <1>5, <2>1, <2>2 DEF LocalOnce
  <2>3. CASE p \in Wrappers /\ InFlight(p)
    <3>1. q \in Wrappers => proc[q].pc \in {"idle"} \cup Ended
      BY <2>3 DEF OnceInv, InFlight
    <3>2. proc[q].next = "done" /\ proc[q].pc \notin Working
      BY <2>1, <3>1 DEF RoleOK, Working, Ended
    <3>3. QED
      BY <3>2 DEF LocalOnce, Sending, Working
  <2>4. QED
    BY <2>2, <2>3
<1>8. \A q \in Procs : LocalOnce(proc'[q], op'[key[q]], sends'[key[q]])
  BY <1>2, <1>6, <1>7
<1>9. \A q \in Procs : RoleOK(q, proc'[q])
  BY <1>3, <1>6 DEF OnceInv
<1>10. \A q, r \in Wrappers : InFlight(q)' /\ InFlight(r)' => q = r
  <2>1. \A q \in Wrappers \ {p} : InFlight(q)' = InFlight(q)
    BY <1>5, <1>6 DEF InFlight
  <2>2. CASE p \notin Wrappers \/ InFlight(p)
    BY <2>1, <2>2 DEF OnceInv
  <2>3. CASE \A q \in Wrappers \ {p} : ~InFlight(q)
    BY <2>1, <2>3
  <2>4. QED
    BY <2>2, <2>3
<1>11. key' = key /\ cmd' = cmd
  BY DEF argv
<1>12. QED
  BY <1>8, <1>9, <1>10, <1>11 DEF OnceInv

\* A step of p that leaves the table and the count of requests alone.
LEMMA OnceQuiet ==
  ASSUME TypeInv, OnceInv, NEW p \in Procs, NEW loc, Become(p, loc),
         UNCHANGED <<op, argv, sends>>,
         InFlight(p) \/ p \notin Wrappers \/ \A q \in Wrappers \ {p} : ~InFlight(q),
         RoleOK(p, loc), LocalOnce(loc, op[key[p]], sends[key[p]])
  PROVE  OnceInv'
<1>1. /\ \A k \in Keys : SentOnce(op'[k], sends'[k])
      /\ \A k \in Keys : op[k].status \in Over => op'[k].status \in Over
  BY DEF OnceInv
<1>2. LocalOnce(loc, op'[key[p]], sends'[key[p]])
  OBVIOUS
<1>3. QED
  BY <1>1, <1>2, OnceStep

\* An ended command holds nothing, whatever it held before.
LEMMA OnceEnds ==
  ASSUME TypeInv, OnceInv, NEW p \in Procs, NEW l \in Ended, Goto(p, l),
         UNCHANGED <<op, argv, sends>>,
         InFlight(p) \/ p \notin Wrappers \/ \A q \in Wrappers \ {p} : ~InFlight(q)
  PROVE  OnceInv'
<1>1. [proc[p] EXCEPT !.pc = l].pc = l
  BY DEF TypeInv, TypeOK, Local
<1>2. Become(p, Holding(l))
  BY <1>1 DEF Goto, Become, Holding
<1>3. /\ RoleOK(p, Holding(l))
      /\ LocalOnce(Holding(l), op[key[p]], sends[key[p]])
  BY DEF RoleOK, LocalOnce, Sending, Holding, Ended, Working
<1>4. QED
  BY <1>2, <1>3, OnceQuiet

LEMMA OnceWrite ==
  ASSUME TypeInv, OnceInv, AttemptInv, SerialInv, NEW p \in Procs, TransitionWrite(p)
  PROVE  OnceInv'
<1> DEFINE k == key[p]
           c == proc[p].call
           w == TransitionRow(op[k], proc[p].snap, c)
           loc == [Holding("reread") EXCEPT !.next = proc[p].next]
<1>0. /\ proc[p] \in Local /\ k \in Keys /\ op[k] \in Row /\ c \in Call
      /\ op \in [Keys -> Row] /\ ValidTransition(op[k].status, c.status)
      /\ SentOnce(op[k], sends[k]) /\ LocalOnce(proc[p], op[k], sends[k])
      /\ RoleOK(p, proc[p]) /\ CallCounted(proc[p], op[k])
  BY DEF TypeInv, TypeOK, Local, SerialInv, ReadStands, TransitionWrite, OnceInv, AttemptInv
<1>1. w.status = c.status /\ c.status \in Status
  BY <1>0 DEF TransitionRow, Call
<1>2. /\ op' = [op EXCEPT ![k] = w] /\ sends' = sends /\ Become(p, loc)
      /\ UNCHANGED argv /\ proc[p].pc = "write"
  BY DEF TransitionWrite
<1>3. op[k].status \in Over => w.status \in Over
  BY <1>0, <1>1, OverStays
<1>4. InFlight(p)
  BY <1>2 DEF InFlight, Ended
<1>5. loc.pc = "reread" /\ loc.next = proc[p].next
  BY DEF Holding
<1>6. RoleOK(p, loc)
  BY <1>0, <1>5 DEF RoleOK, Working, Ended
<1>7. proc[p].next = "send" => w.status \in Over
  BY <1>0, <1>1, <1>2 DEF CallCounted, Over
<1>8. LocalOnce(loc, op'[k], sends'[k])
  BY <1>0, <1>2, <1>5, <1>7 DEF LocalOnce, Sending
<1> HIDE DEF w, loc
<1>9. \A j \in Keys : SentOnce(op'[j], sends'[j])
  BY <1>0, <1>2, <1>3 DEF OnceInv, SentOnce
<1>10. \A j \in Keys : op[j].status \in Over => op'[j].status \in Over
  BY <1>0, <1>2, <1>3
<1> HIDE DEF k
<1>11. QED
  BY <1>2, <1>4, <1>6, <1>8, <1>9, <1>10, OnceStep DEF k

LEMMA OnceJournal ==
  ASSUME TypeInv, OnceInv, ~Overlap, NEW p \in Procs,
         BeginLookup(p) \/ BeginInsert(p) \/ TransitionRead(p) \/ TransitionReread(p)
         \/ GetApproved(p)
  PROVE  OnceInv'
<1> DEFINE row == op[key[p]]
           n == sends[key[p]]
<1>0. /\ proc[p] \in Local /\ key[p] \in Keys /\ row \in Row /\ op \in [Keys -> Row]
      /\ SentOnce(row, n) /\ LocalOnce(proc[p], row, n) /\ RoleOK(p, proc[p]) /\ n \in Nat
  BY DEF TypeInv, TypeOK, OnceInv
<1>1. row.status = "approved" => n = 0
  BY <1>0, NotOver DEF SentOnce
<1>2. CASE BeginLookup(p)
  <2> DEFINE l == CASE row.status = Absent     -> "insert"
                    [] row.status # Absent /\ p \in Operators -> "done"
                    [] row.status = "proposed" /\ p \notin Operators -> "evaluate"
                    [] OTHER                   -> "contract"
             loc == [proc[p] EXCEPT !.view = row, !.pc = l]
  <2>1. /\ loc.pc = l /\ loc.view = row /\ loc.next = proc[p].next
        /\ l \in {"insert", "done", "evaluate", "contract"}
    BY <1>0 DEF Local
  <2>2. /\ Become(p, loc) /\ UNCHANGED <<op, argv, sends>> /\ proc[p].pc = "idle"
        /\ p \in Wrappers \cup Operators
        /\ p \notin Wrappers \/ \A q \in Wrappers \ {p} : ~InFlight(q)
    BY <1>2 DEF BeginLookup, MayStart, history, OnceInv
  <2>3. l \in {"evaluate", "contract"} => p \in Wrappers
    BY <2>2
  <2>4. proc[p].next = "done"
    BY <1>0, <2>2 DEF RoleOK
  <2> HIDE DEF loc, l
  <2>5. RoleOK(p, loc)
    BY <1>0, <2>1, <2>2, <2>3, <2>4 DEF RoleOK, Working
  <2>6. LocalOnce(loc, row, n)
    BY <1>1, <2>1, <2>4 DEF LocalOnce, Sending
  <2>7. QED
    BY <2>2, <2>5, <2>6, OnceQuiet
<1>3. CASE BeginInsert(p)
  <2> DEFINE l == IF p \in Operators THEN "done" ELSE "evaluate"
             loc == [proc[p] EXCEPT !.view = ProposedRow, !.pc = l]
  <2>1. loc.pc = l /\ l \in {"done", "evaluate"} /\ loc.next = proc[p].next
    BY <1>0 DEF Local
  <2>2. /\ Become(p, loc) /\ UNCHANGED <<argv, sends>> /\ row.status = Absent
        /\ op' = [op EXCEPT ![key[p]] = ProposedRow] /\ proc[p].pc = "insert"
    BY <1>3 DEF BeginInsert, history
  <2>3. n = 0 /\ row.status \notin Over
    BY <1>0, <2>2, NotOver DEF SentOnce
  <2>4. \A k \in Keys : SentOnce(op'[k], sends'[k])
    BY <1>0, <2>2, <2>3 DEF OnceInv, SentOnce
  <2>5. \A k \in Keys : op[k].status \in Over => op'[k].status \in Over
    BY <1>0, <2>2, <2>3
  <2>6. proc[p].next # "done" => p \in Wrappers
    BY <1>0 DEF RoleOK
  <2>7. InFlight(p) /\ (l = "evaluate" => p \in Wrappers) /\ ~Sending(loc)
    BY <1>0, <2>1, <2>2 DEF InFlight, Ended, RoleOK, Sending
  <2>8. CASE l = "done"
    <3>1. Become(p, Holding("done"))
      BY <2>1, <2>2, <2>8 DEF Become, Ended, Holding
    <3>2. RoleOK(p, Holding("done")) /\ LocalOnce(Holding("done"), op'[key[p]], sends'[key[p]])
      BY DEF RoleOK, LocalOnce, Sending, Holding, Ended, Working
    <3>3. QED
      BY <2>2, <2>4, <2>5, <2>7, <3>1, <3>2, OnceStep
  <2>9. CASE l = "evaluate"
    <3>1. RoleOK(p, loc)
      BY <2>1, <2>6, <2>7, <2>9 DEF RoleOK, Ended
    <3>2. LocalOnce(loc, op'[key[p]], sends'[key[p]])
      BY <2>1, <2>2, <2>3, <2>7, <2>9 DEF LocalOnce
    <3> HIDE DEF loc
    <3>3. QED
      BY <2>2, <2>4, <2>5, <2>7, <3>1, <3>2, OnceStep
  <2>10. QED
    BY <2>1, <2>8, <2>9
<1>4. CASE TransitionRead(p)
  <2>1. UNCHANGED <<op, argv, sends>> /\ proc[p].pc = "read" /\ InFlight(p)
    BY <1>4 DEF TransitionRead, history, InFlight, Ended
  <2>2. CASE ValidTransition(row.status, proc[p].call.status)
    <3> DEFINE loc == [proc[p] EXCEPT !.snap = row, !.pc = "write"]
    <3>1. Become(p, loc) /\ loc.pc = "write" /\ loc.next = proc[p].next
      BY <1>0, <1>4, <2>2 DEF TransitionRead, Local
    <3> HIDE DEF loc
    <3>2. RoleOK(p, loc) /\ LocalOnce(loc, row, n)
      BY <1>0, <2>1, <3>1 DEF RoleOK, LocalOnce, Sending, Working, Ended
    <3>3. QED
      BY <2>1, <3>1, <3>2, OnceQuiet
  <2>3. CASE ~ValidTransition(row.status, proc[p].call.status)
    BY <1>4, <2>1, <2>3, OnceEnds DEF TransitionRead, Ended
  <2>4. QED
    BY <2>2, <2>3
<1>5. CASE TransitionReread(p)
  <2> DEFINE l == CASE proc[p].next = "resume"     -> Resume(p, row)
                    [] proc[p].next = "dispatched" -> Answer(p, row)
                    [] proc[p].next = "queued"     -> "done"
                    [] OTHER                       -> proc[p].next
             loc == [Holding("reread") EXCEPT !.view = row, !.pc = l]
  <2>1. /\ UNCHANGED <<op, argv, sends>> /\ proc[p].pc = "reread" /\ Become(p, loc)
        /\ InFlight(p)
    BY <1>5 DEF TransitionReread, history, InFlight, Ended
  <2>2. /\ loc.pc = l /\ loc.view = row /\ loc.next = "done"
        /\ l \in {"queue", "dispatch", "execute", "send", "done"}
    BY <1>0, ResumeType DEF Holding, Local, After
  <2>3. l = "send" => proc[p].next = "send"
    BY <1>0, ResumeType
  <2>4. l # "done" => proc[p].next # "done"
    OBVIOUS
  <2> HIDE DEF loc, l
  <2>5. RoleOK(p, loc)
    BY <1>0, <2>2, <2>4 DEF RoleOK, Working
  <2>6. LocalOnce(loc, row, n)
    BY <1>0, <1>1, <2>1, <2>2, <2>3 DEF LocalOnce, Sending
  <2>7. QED
    BY <2>1, <2>5, <2>6, OnceQuiet
<1>6. CASE GetApproved(p)
  <2> DEFINE loc == [proc[p] EXCEPT !.view = row, !.pc = "contract"]
  <2>1. loc.pc = "contract" /\ loc.view = row /\ loc.next = proc[p].next
    BY <1>0 DEF Local
  <2>2. /\ Become(p, loc) /\ UNCHANGED <<op, argv, sends>> /\ proc[p].pc = "idle"
        /\ p \in Wrappers /\ \A q \in Wrappers \ {p} : ~InFlight(q)
    BY <1>6 DEF GetApproved, MayStart, history, OnceInv
  <2>3. proc[p].next = "done"
    BY <1>0, <2>2 DEF RoleOK
  <2> HIDE DEF loc
  <2>4. RoleOK(p, loc) /\ LocalOnce(loc, row, n)
    BY <1>1, <2>1, <2>2, <2>3 DEF RoleOK, LocalOnce, Sending, Ended
  <2>5. QED
    BY <2>2, <2>4, OnceQuiet
<1>7. QED
  BY <1>2, <1>3, <1>4, <1>5, <1>6

LEMMA OnceReview ==
  ASSUME TypeInv, OnceInv, SerialInv, ~Overlap, NEW p \in Procs,
         ReviewRead(p) \/ ReviewWrite(p)
  PROVE  OnceInv'
<1> DEFINE k == key[p]
           row == op[k]
<1>0. /\ proc[p] \in Local /\ k \in Keys /\ row \in Row /\ op \in [Keys -> Row]
      /\ RoleOK(p, proc[p]) /\ LocalOnce(proc[p], row, sends[k])
  BY DEF TypeInv, TypeOK, OnceInv
<1>1. CASE ReviewRead(p)
  <2>1. /\ UNCHANGED <<op, argv, sends>> /\ proc[p].pc = "idle"
        /\ p \notin Wrappers \/ \A q \in Wrappers \ {p} : ~InFlight(q)
    BY <1>1 DEF ReviewRead, MayStart, history
  <2> DEFINE loc == [proc[p] EXCEPT !.snap = row, !.pc = "review_write"]
  <2>2. loc.pc = "review_write" /\ loc.next = "done"
    BY <1>0, <2>1 DEF Local, RoleOK
  <2>3. Become(p, loc) \/ Goto(p, "raised")
    BY <1>1 DEF ReviewRead
  <2> HIDE DEF loc
  <2>4. RoleOK(p, loc) /\ LocalOnce(loc, row, sends[k])
    BY <2>2 DEF RoleOK, LocalOnce, Sending, Working, Ended
  <2>5. QED
    BY <2>1, <2>3, <2>4, OnceQuiet, OnceEnds DEF Ended
<1>2. CASE ReviewWrite(p)
  <2> DEFINE w == ReviewRow(row, cmd[p])
  <2>1. cmd[p] \in ReviewDecision /\ ReviewAccepted(row, cmd[p])
    BY <1>2 DEF ReviewWrite, TypeInv, WellFormed, SerialInv, ReadStands
  <2>2. row.status \in Over => w.status \in Over
    BY <1>0, <2>1, ReviewMoves, OverStays DEF ValidTransition
  <2>3. /\ op' = [op EXCEPT ![k] = w] /\ sends' = sends /\ UNCHANGED argv
        /\ Goto(p, "done") /\ proc[p].pc = "review_write"
    BY <1>2 DEF ReviewWrite
  <2>4. InFlight(p)
    BY <2>3 DEF InFlight, Ended
  <2>5. Become(p, Holding("done"))
    BY <1>0, <2>3 DEF Goto, Become, Holding, Ended, Local
  <2>6. RoleOK(p, Holding("done")) /\ LocalOnce(Holding("done"), op'[k], sends'[k])
    BY DEF RoleOK, LocalOnce, Sending, Holding, Ended, Working
  <2> HIDE DEF w
  <2>7. \A j \in Keys : SentOnce(op'[j], sends'[j])
    BY <1>0, <2>2, <2>3 DEF OnceInv, SentOnce
  <2>8. \A j \in Keys : op[j].status \in Over => op'[j].status \in Over
    BY <1>0, <2>2, <2>3
  <2> HIDE DEF k
  <2>9. QED
    BY <2>3, <2>4, <2>5, <2>6, <2>7, <2>8, OnceStep DEF k
<1>3. QED
  BY <1>1, <1>2

\* Only a wrapper whose operation was not sent yet asks for running or sends.
LEMMA OnceAsking ==
  ASSUME TypeInv, OnceInv, ~Overlap, NEW p \in Procs, Asking(p)
  PROVE  OnceInv'
<1> DEFINE row == op[key[p]]
           n == sends[key[p]]
<1>0. /\ proc[p] \in Local /\ key[p] \in Keys /\ row \in Row /\ sends \in [Keys -> Nat]
      /\ SentOnce(row, n) /\ LocalOnce(proc[p], row, n) /\ RoleOK(p, proc[p])
  BY DEF TypeInv, TypeOK, OnceInv
<1>1. /\ UNCHANGED <<op, argv>> /\ (Send(p) \/ UNCHANGED sends)
      /\ \/ Goto(p, "raised") \/ Goto(p, "done")
         \/ \E c \in Call, l \in After : Request(p, c, l) /\ Asked(p, c, l)
  BY AskingShape
<1>2. InFlight(p) \/ p \notin Wrappers
  BY ProcessesAssumption DEF Asking, Evaluate, StampContract, Dispatch, Execute, Send,
     OperatorTransition, InFlight, Ended, TypeInv, KindsOK
<1>3. ASSUME NEW c \in Call, NEW l \in After, Request(p, c, l), Asked(p, c, l),
             UNCHANGED sends
      PROVE  OnceInv'
  <2> DEFINE loc == [Holding("read") EXCEPT !.call = c, !.next = l]
  <2>1. loc.pc = "read" /\ loc.next = l
    BY DEF Holding
  <2>2. Become(p, loc)
    BY <1>3 DEF Request
  <2> HIDE DEF loc
  <2>3. RoleOK(p, loc)
    BY <1>0, <1>3, <2>1 DEF RoleOK, Asked, Working, Ended
  <2>4. LocalOnce(loc, row, n)
    BY <1>0, <1>3, <2>1 DEF LocalOnce, Sending, Asked
  <2>5. QED
    BY <1>1, <1>2, <1>3, <2>2, <2>3, <2>4, OnceQuiet
<1>4. CASE Send(p)
  <2>1. PICK c :
          /\ Request(p, c, "done")
          /\ \E delivered \in BOOLEAN :
               sends' = [sends EXCEPT ![key[p]] = IF delivered THEN @ + 1 ELSE @]
    BY <1>4 DEF Send
  <2>2. proc[p].pc = "send" /\ InFlight(p) /\ p \in Wrappers
    BY <1>0, <1>4 DEF Send, InFlight, Ended, RoleOK, Working
  <2>3. n = 0 /\ row.status \in Over
    BY <1>0, <2>2 DEF LocalOnce, Sending
  <2> DEFINE loc == [Holding("read") EXCEPT !.call = c, !.next = "done"]
  <2>4. loc.pc = "read" /\ loc.next = "done" /\ Become(p, loc)
    BY <2>1 DEF Holding, Request
  <2> HIDE DEF loc
  <2>5. RoleOK(p, loc) /\ LocalOnce(loc, op'[key[p]], sends'[key[p]])
    BY <2>4 DEF RoleOK, LocalOnce, Sending, Working, Ended
  <2>6. \A k \in Keys : SentOnce(op'[k], sends'[k])
    BY <1>0, <1>1, <2>1, <2>3 DEF OnceInv, SentOnce
  <2>7. QED
    BY <1>1, <2>2, <2>4, <2>5, <2>6, OnceStep
<1>5. CASE (Goto(p, "raised") \/ Goto(p, "done")) /\ UNCHANGED sends
  BY <1>1, <1>2, <1>5, OnceEnds DEF Ended
<1>6. QED
  BY <1>1, <1>3, <1>4, <1>5

LEMMA OnceMoving ==
  ASSUME TypeInv, OnceInv, NEW p \in Procs,
         BeginRaises(p) \/ KeepContract(p) \/ SendRaises(p) \/ Crash(p)
  PROVE  OnceInv'
<1>0. /\ proc[p] \in Local /\ RoleOK(p, proc[p])
      /\ LocalOnce(proc[p], op[key[p]], sends[key[p]])
  BY DEF TypeInv, TypeOK, OnceInv
<1>1. UNCHANGED <<op, argv, sends>> /\ InFlight(p)
  BY DEF BeginRaises, KeepContract, SendRaises, Crash, history, InFlight, Ended
<1>2. CASE \E l \in Ended : Goto(p, l)
  BY <1>1, <1>2, OnceEnds
<1>3. ASSUME NEW l \in {"execute", "dispatch"}, Goto(p, l), proc[p].pc = "contract"
      PROVE  OnceInv'
  <2> DEFINE loc == [proc[p] EXCEPT !.pc = l]
  <2>1. /\ loc.pc = l /\ loc.view = proc[p].view /\ loc.next = proc[p].next
        /\ Become(p, loc)
    BY <1>0, <1>3 DEF Goto, Local
  <2> HIDE DEF loc
  <2>2. RoleOK(p, loc)
    BY <1>0, <1>3, <2>1 DEF RoleOK, Working, Ended
  <2>3. LocalOnce(loc, op[key[p]], sends[key[p]])
    BY <1>0, <1>3, <2>1 DEF LocalOnce, Sending
  <2>4. QED
    BY <1>1, <2>1, <2>2, <2>3, OnceQuiet
<1>4. QED
  BY <1>2, <1>3, MovingShape DEF Ended

LEMMA OnceNext ==
  ASSUME ~Overlap
  PROVE  TypeInv /\ SerialInv /\ AttemptInv /\ OnceInv /\ [Next]_vars => OnceInv'
<1> SUFFICES ASSUME TypeInv, SerialInv, AttemptInv, OnceInv, [Next]_vars PROVE OnceInv'
  OBVIOUS
<1>1. CASE UNCHANGED vars
  BY <1>1 DEF vars, argv, history, OnceInv, SentOnce, LocalOnce, RoleOK, InFlight
<1>2. ASSUME NEW p \in Procs, Step(p) \/ Crash(p) PROVE OnceInv'
  BY <1>2, OnceWrite, OnceJournal, OnceReview, OnceAsking, OnceMoving DEF Step, Asking
<1>3. QED
  BY <1>1, <1>2 DEF Next

(* With one wrapper invocation in flight at a time and journal calls that  *)
(* do not overlap, no operation is ever sent twice, however many wrapper,  *)
(* reviewer and raw journal commands run and wherever each is killed.      *)
THEOREM SentAtMostOnce ==
  ASSUME ~Overlap, Isolated
  PROVE  Spec => []AtMostOnce
<1>1. OnceInv => AtMostOnce
  BY DEF OnceInv, SentOnce, AtMostOnce
<1>2. Init => AttemptInv /\ OnceInv
  BY AttemptInit, OnceInit
<1>3. TypeInv /\ SerialInv /\ AttemptInv /\ [Next]_vars => AttemptInv'
  BY AttemptNext
<1>4. TypeInv /\ SerialInv /\ AttemptInv /\ OnceInv /\ [Next]_vars => OnceInv'
  BY OnceNext
<1>5. QED
  BY <1>1, <1>2, <1>3, <1>4, TypesAlways, SerialAlways, PTL DEF Spec

===============================================================================
