----------------------------- MODULE DevflowProofs -----------------------------
(***************************************************************************)
(* Theorems about Devflow, for every plan and every set of commands.  The  *)
(* order of the stages, their approval and what a succeeded run stands for *)
(* hold however the commands overlap; what the tables, the workspaces and  *)
(* the workers promise holds when one command at a time executes the run   *)
(* (~Overlap), whoever cancels or reviews it meanwhile.                    *)
(***************************************************************************)
EXTENDS Devflow, TLAPS, WellFoundedInduction

Executors == Runs \cup Resumes

\* The command is somewhere in _execute_plan.
Executing(l) == l.pc \in InTry \cup Handler \cup {"finish"}

\* cancel does nothing but cancel, and nothing else does.
KindsOK ==
  \A p \in Procs :
    /\ p \in Cancels => ~Executing(proc[p]) /\ proc[p].pc \notin {"resume_write", "resume_view"}
    /\ p \notin Cancels => proc[p].pc # "cancel_write"

TypeInv == TypeOK /\ KindsOK

-------------------------------------------------------------------------------
(* Whatever the commands do at the same time: the stages before one that   *)
(* is recorded, executed or was worked on have succeeded operations, which *)
(* are final, and past the approval a stage that needs one has it.         *)
Prior(i) == \A j \in 1..(i - 1) : op[j] = "succeeded"

PlaceInOrder(p) ==
  LET i == proc[p].at IN
  /\ Prior(i)
  /\ proc[p].pc \in {"gates", "complete", "snapshot"} => op[i] = "succeeded"
  /\ proc[p].pc = "finish" => \A j \in Stages : op[j] = "succeeded"
  /\ proc[p].pc \in {"launch", "session"} /\ i \in NeedsApproval => granted[i]

OrderInv ==
  /\ \A p \in Procs : PlaceInOrder(p)
  /\ \A i \in Stages : stage[i] # Absent \/ workers[i] > 0 => Prior(i)
  /\ NoHollowSuccess
  /\ ApprovalBeforeWork

-------------------------------------------------------------------------------
(* One executing command at a time.  The operation of a stage whose worker *)
(* was started admits no other launch.                                     *)
Settled == {"running"} \cup Terminal

OneExecutor ==
  \A p, q \in Executors : InFlight(p) /\ InFlight(q) => p = q

OnceInv ==
  /\ OneExecutor
  /\ WorkerOncePerStage
  /\ \A i \in Stages : workers[i] > 0 => op[i] \in Settled
  /\ \A p \in Procs :
       /\ proc[p].pc = "launch" => workers[proc[p].at] = 0
       /\ proc[p].pc = "session" => workers[proc[p].at] = 0 /\ op[proc[p].at] \in Settled

(* Then the stage table is a row of succeeded stages, at most one other    *)
(* and nothing behind it, and the executing command is at its end.         *)
PlaceInTable(p) ==
  Executing(proc[p]) =>
    /\ run # Absent
    /\ \A j \in Stages : j < proc[p].at => stage[j] = "succeeded"
    /\ \A j \in Stages : j > proc[p].at => stage[j] = Absent
    /\ proc[p].pc \in {"snapshot", "finish"} => stage[proc[p].at] = "succeeded"
    /\ proc[p].pc = "finish" => proc[p].at = N
    /\ proc[p].pc \in {"token", "retoken"} => stage[proc[p].at] = "failed"

TableInv ==
  /\ \A p \in Procs : proc[p].pc = "idle" => proc[p] = Holding("idle")
  /\ run = Absent => \A i \in Stages : stage[i] = Absent
  /\ \A i, j \in Stages : j < i /\ stage[i] # Absent => stage[j] = "succeeded"
  /\ \A p \in Procs : PlaceInTable(p)

(* The source of a workspace is the stage itself or the last mutable one   *)
(* before it, and from there its work is copied before the worker starts.  *)
Filled == InTry \ {"prepare", "conclude", "gates", "complete", "snapshot", "fail", "token"}

SourceOK(p) ==
  LET i == proc[p].at
      src == proc[p].src IN
  /\ proc[p].pc \in InTry =>
       /\ src = LastMutableBefore(i) \/ (Mutable(i) /\ src = i)
       /\ proc[p].pc = "snapshot" /\ Mutable(i) => src = i
  /\ proc[p].pc \in Filled /\ src \in 1..(i - 1) => tree[src] \subseteq tree[i]

SourceInv == \A p \in Procs : SourceOK(p)

(* Unless a command is cut short, a stage is running only while it is      *)
(* executed, and a run that is not over has a failed stage or an executor. *)
Idle   == \A p \in Procs : ~Executing(proc[p])

RestInv ==
  \/ CutShort
  \/ /\ Idle => \A i \in Stages : stage[i] # "running"
     /\ \A p \in Procs : proc[p].pc \in {"resume_write", "resume_view"} => Incomplete # {}
     /\ Idle /\ run \in {"planned", "running", "failed"} => Incomplete # {}

-------------------------------------------------------------------------------
(* Nonempty sets of stages have a least and a greatest member, so that     *)
(* next_incomplete_stage and _stage_source_root name one of theirs.        *)
LessThan == {ss \in Nat \X Nat : ss[1] < ss[2]}

LEMMA LeastOf ==
  ASSUME NEW S \in SUBSET Nat, S # {}
  PROVE  \E i \in S : \A j \in S : i <= j
<1>1. IsWellFoundedOn(LessThan, Nat)
  BY NatLessThanWellFounded DEF OpToRel, LessThan
<1>2. PICK i \in S : \A j \in S : ~(<<j, i>> \in LessThan)
  BY <1>1, WFMin
<1>3. ASSUME NEW j \in S PROVE i <= j
  <2>1. i \in Nat /\ j \in Nat
    OBVIOUS
  <2>2. j < i => <<j, i>> \in LessThan
    BY <2>1 DEF LessThan
  <2>3. QED
    BY <1>2, <2>1, <2>2
<1>4. QED
  BY <1>3

LEMMA GreatestOf ==
  ASSUME NEW m \in Nat, NEW S \in SUBSET (0..m), S # {}
  PROVE  \E i \in S : \A j \in S : j <= i
<1> DEFINE T == {x \in 0..m : m - x \in S}
<1>1. T \in SUBSET Nat /\ T # {}
  <2>1. PICK i \in S : TRUE
    OBVIOUS
  <2>2. i \in 0..m /\ m - i \in 0..m /\ m - (m - i) = i
    BY <2>1
  <2>3. m - i \in T
    BY <2>2
  <2>4. T \subseteq 0..m /\ 0..m \subseteq Nat
    OBVIOUS
  <2>5. QED
    BY <2>3, <2>4
<1>2. PICK x \in T : \A y \in T : x <= y
  BY <1>1, LeastOf
<1>3. ASSUME NEW j \in S PROVE j <= m - x
  <2>1. j \in 0..m /\ m - j \in 0..m /\ m - (m - j) = j
    OBVIOUS
  <2>2. m - j \in T
    BY <2>1
  <2>3. x <= m - j
    BY <1>2, <2>2
  <2>4. QED
    BY <2>1, <2>3
<1>4. QED
  BY <1>3

LEMMA NextIncompleteIn ==
  ASSUME Incomplete # {}
  PROVE  NextIncomplete \in Incomplete /\ NextIncomplete \in Stages
<1>1. Incomplete \in SUBSET Stages /\ Stages \in SUBSET Nat
  BY PlanAssumption DEF Incomplete, Stages
<1>2. \E i \in Incomplete : \A j \in Incomplete : i <= j
  BY <1>1, LeastOf
<1>3. NextIncomplete \in Incomplete
  BY <1>2 DEF NextIncomplete
<1>4. QED
  BY <1>1, <1>3

\* The greatest of a set of earlier stages and 0 is one of them.
LEMMA LastOfIn ==
  ASSUME NEW i \in Stages, NEW before \in SUBSET (1..(i - 1))
  PROVE  LET last == CHOOSE j \in before \cup {0} : \A k \in before : k <= j
         IN  /\ last \in before \cup {0}
             /\ \A k \in before : k <= last
<1> DEFINE all == before \cup {0}
<1>1. i - 1 \in Nat /\ all \in SUBSET (0..(i - 1)) /\ all # {}
  BY PlanAssumption DEF Stages
<1>2. PICK j \in all : \A k \in all : k <= j
  BY <1>1, GreatestOf
<1>3. \E l \in before \cup {0} : \A k \in before : k <= l
  BY <1>2
<1>4. QED
  BY <1>3

LEMMA LastMutableIn ==
  ASSUME NEW i \in Stages
  PROVE  LastMutableBefore(i) \in 0..(i - 1)
<1> DEFINE before == {j \in 1..(i - 1) : Mutable(j)}
<1>1. before \in SUBSET (1..(i - 1))
  OBVIOUS
<1>2. LastMutableBefore(i) = CHOOSE j \in before \cup {0} : \A k \in before : k <= j
  BY DEF LastMutableBefore
<1> HIDE DEF before
<1>3. LastMutableBefore(i) \in before \cup {0}
  BY <1>1, <1>2, LastOfIn
<1>4. i \in Nat /\ i >= 1
  BY PlanAssumption DEF Stages
<1>5. before \cup {0} \subseteq 0..(i - 1)
  BY <1>1, <1>4
<1>6. QED
  BY <1>3, <1>5

LEMMA SourceRootIn ==
  ASSUME NEW i \in Stages
  PROVE  SourceRoot(i) \in 0..i
<1> DEFINE before == {j \in 1..(i - 1) : stage[j] = "succeeded" /\ Mutable(j)}
           last == CHOOSE j \in before \cup {0} : \A k \in before : k <= j
<1>1. before \in SUBSET (1..(i - 1))
  OBVIOUS
<1>2. SourceRoot(i) = IF Mutable(i) THEN i ELSE last
  BY DEF SourceRoot
<1>3. last \in before \cup {0}
  <2> HIDE DEF before
  <2>1. QED
    BY <1>1, LastOfIn
<1>4. i \in Nat /\ i >= 1
  BY PlanAssumption DEF Stages
<1> HIDE DEF last, before
<1>5. QED
  BY <1>1, <1>2, <1>3, <1>4

-------------------------------------------------------------------------------
\* A command that goes on is where the step says, one that ends holds nothing,
\* and no other command is moved.
LEMMA BecomeMoves ==
  ASSUME TypeOK, NEW p \in Procs, NEW loc \in Local, Become(p, loc)
  PROVE  /\ proc' \in [Procs -> Local]
         /\ \A q \in Procs : q # p => proc'[q] = proc[q]
         /\ proc'[p] = IF loc.pc \in Ended THEN Holding(loc.pc) ELSE loc
         /\ proc'[p].pc = loc.pc
<1>1. loc.pc \in Ended => Holding(loc.pc) \in Local /\ Holding(loc.pc).pc = loc.pc
  BY PlanAssumption DEF Holding, Local, PC, Handler, Unguarded, Stages
<1>2. proc \in [Procs -> Local]
  BY DEF TypeOK
<1>3. QED
  BY <1>1, <1>2 DEF Become

LEMMA GotoMoves ==
  ASSUME TypeOK, NEW p \in Procs, NEW l \in PC, Goto(p, l)
  PROVE  /\ proc' \in [Procs -> Local]
         /\ \A q \in Procs : q # p => proc'[q] = proc[q]
         /\ proc'[p].pc = l
         /\ l \notin Ended => proc'[p] = [proc[p] EXCEPT !.pc = l]
         /\ l \in Ended => proc'[p] = Holding(l)
<1> DEFINE loc == [proc[p] EXCEPT !.pc = l]
<1>1. loc \in Local /\ loc.pc = l
  BY DEF TypeOK, Local
<1>2. Become(p, loc)
  BY DEF Goto
<1> HIDE DEF loc
<1>3. /\ proc' \in [Procs -> Local]
      /\ \A q \in Procs : q # p => proc'[q] = proc[q]
      /\ proc'[p] = IF loc.pc \in Ended THEN Holding(loc.pc) ELSE loc
      /\ proc'[p].pc = loc.pc
  BY <1>1, <1>2, BecomeMoves
<1>4. QED
  BY <1>1, <1>3 DEF loc

-------------------------------------------------------------------------------
\* Types.  A journal call writes a status of the lifecycle or nothing.
LEMMA JournalMoveTypes ==
  ASSUME TypeOK, NEW p \in Procs, NEW t \in Status, NEW l \in PC \ Ended,
         JournalMove(p, t, l)
  PROVE  /\ op' \in [Stages -> Status \cup {Absent}]
         /\ proc' \in [Procs -> Local]
         /\ \A q \in Procs : q # p => proc'[q] = proc[q]
         /\ \/ /\ op' = [op EXCEPT ![proc[p].at] = t]
               /\ ValidTransition(op[proc[p].at], t)
               /\ proc'[p] = [proc[p] EXCEPT !.pc = l]
            \/ /\ op' = op
               /\ proc'[p] = [proc[p] EXCEPT !.pc = "except"]
<1>1. "except" \in PC \ Ended
  BY DEF PC, Handler, Unguarded, Ended
<1>2. CASE ValidTransition(op[proc[p].at], t)
  <2>1. Goto(p, l) /\ op' = [op EXCEPT ![proc[p].at] = t]
    BY <1>2 DEF JournalMove
  <2>2. QED
    BY <1>2, <2>1, GotoMoves DEF TypeOK
<1>3. CASE ~ValidTransition(op[proc[p].at], t)
  <2>1. Goto(p, "except") /\ op' = op
    BY <1>3 DEF JournalMove
  <2>2. QED
    BY <1>1, <2>1, GotoMoves DEF TypeOK
<1>4. QED
  BY <1>2, <1>3


LocalTypes == proc' \in [Procs -> Local] /\ KindsOK'

\* A command stays with the steps of its kind.
FitsKind(p, l) ==
  /\ p \in Cancels => l \in Ended \cup {"cancel_write"}
  /\ p \notin Cancels => l # "cancel_write"

LEMMA MovedTypes ==
  ASSUME TypeInv, NEW p \in Procs, proc' \in [Procs -> Local],
         \A q \in Procs : q # p => proc'[q] = proc[q], FitsKind(p, proc'[p].pc)
  PROVE  LocalTypes
<1>1. ASSUME NEW q \in Procs
      PROVE  /\ q \in Cancels => ~Executing(proc'[q]) /\ proc'[q].pc \notin {"resume_write", "resume_view"}
             /\ q \notin Cancels => proc'[q].pc # "cancel_write"
  <2>1. CASE q = p
    BY <2>1 DEF FitsKind, Executing, InTry, Handler, Ended
  <2>2. CASE q # p
    BY <2>2 DEF TypeInv, KindsOK
  <2>3. QED
    BY <2>1, <2>2
<1>2. KindsOK'
  BY <1>1 DEF KindsOK, Executing
<1>3. QED
  BY <1>2 DEF LocalTypes

LEMMA GotoTypes ==
  ASSUME TypeInv, NEW p \in Procs, NEW l \in PC, Goto(p, l), FitsKind(p, l)
  PROVE  LocalTypes
BY GotoMoves, MovedTypes DEF TypeInv

LEMMA BecomeTypes ==
  ASSUME TypeInv, NEW p \in Procs, NEW loc \in Local, Become(p, loc), FitsKind(p, loc.pc)
  PROVE  LocalTypes
BY BecomeMoves, MovedTypes DEF TypeInv

LEMMA JournalTypes ==
  ASSUME TypeInv, NEW p \in Procs, NEW t \in Status, NEW l \in PC \ (Ended \cup {"cancel_write"}),
         JournalMove(p, t, l), p \notin Cancels
  PROVE  LocalTypes /\ op' \in [Stages -> Status \cup {Absent}]
<1>1. /\ op' \in [Stages -> Status \cup {Absent}]
      /\ proc' \in [Procs -> Local]
      /\ \A q \in Procs : q # p => proc'[q] = proc[q]
      /\ \/ proc'[p] = [proc[p] EXCEPT !.pc = l]
         \/ proc'[p] = [proc[p] EXCEPT !.pc = "except"]
  BY JournalMoveTypes DEF TypeInv
<1>2. proc'[p].pc \in {l, "except"}
  BY <1>1 DEF TypeInv, TypeOK, Local
<1>3. QED
  BY <1>1, <1>2, MovedTypes DEF FitsKind

\* Only run and resume execute.
LEMMA ExecutorKind ==
  ASSUME TypeInv, NEW p \in Procs,
         Executing(proc[p]) \/ proc[p].pc \in {"resume_write", "resume_view"}
  PROVE  p \notin Cancels
BY DEF TypeInv, KindsOK

LEMMA InitTypes == Init => TypeInv
<1> SUFFICES ASSUME Init PROVE TypeInv
  OBVIOUS
<1>1. Holding("idle") \in Local /\ Holding("idle").pc = "idle"
  BY PlanAssumption DEF Holding, Local, PC, Handler, Unguarded, Stages
<1>2. TypeOK
  <2>1. {0} \in SUBSET (0..N)
    BY PlanAssumption
  <2>2. proc \in [Procs -> Local]
    BY <1>1 DEF Init
  <2>3. QED
    BY <2>1, <2>2 DEF Init, TypeOK, RunStatus, StageStatus
<1>3. KindsOK
  BY <1>1 DEF Init, KindsOK, Executing, InTry, Handler
<1>4. QED
  BY <1>2, <1>3 DEF TypeInv

\* A step that changes no record is typed by the local states it leaves.
LEMMA LocalStep ==
  ASSUME TypeInv, LocalTypes, UNCHANGED <<table, op, tree, history>>
  PROVE  TypeInv'
BY DEF TypeInv, TypeOK, LocalTypes, table, history

LEMMA StageRunningTypes ==
  ASSUME TypeInv, LocalTypes, NEW i \in Stages, StageRunning(i), UNCHANGED <<op, tree, history>>
  PROVE  TypeInv'
BY DEF TypeInv, TypeOK, LocalTypes, StageRunning, history, RunStatus, StageStatus


\* The steps of a run on its way through the stages.
LEMMA StageStepTypes ==
  ASSUME TypeInv, NEW p \in Procs,
         BeginRun(p) \/ Prepare(p) \/ PrepareFails(p) \/ RecordStarted(p)
           \/ Complete(p) \/ Advance(p) \/ Finish(p) \/ Fail(p) \/ SetToken(p)
           \/ Raise(p) \/ Handle(p) \/ Recover(p) \/ Gates(p)
  PROVE  TypeInv'
<1>0. TypeOK /\ proc[p] \in Local
  BY DEF TypeInv, TypeOK
<1>1. CASE BeginRun(p)
  <2>1. LocalTypes
    BY <1>1, CommandsAssumption, GotoTypes DEF BeginRun, FitsKind, PC, InTry, Ended
  <2>2. QED
    BY <1>1, <2>1 DEF BeginRun, TypeInv, TypeOK, LocalTypes, RunStatus, history
<1>2. ASSUME Executing(proc[p]), NEW l \in PC \ {"cancel_write"}, Goto(p, l)
      PROVE  LocalTypes
  BY <1>2, ExecutorKind, GotoTypes DEF FitsKind
<1>3. CASE Prepare(p)
  <2>1. LocalTypes
    BY <1>2, <1>3 DEF Prepare, Executing, InTry, PC, Handler, Unguarded
  <2>2. Synchronised(proc[p].at, proc[p].src) \in SUBSET (0..N)
    <3>1. {0} \in SUBSET (0..N) /\ \A j \in 1..N : j \in Stages
      BY PlanAssumption DEF Stages
    <3>2. proc[p].at \in Stages /\ proc[p].src \in 0..N
      BY <1>0 DEF Local
    <3>3. proc[p].src # 0 => proc[p].src \in Stages
      BY <3>1, <3>2, PlanAssumption
    <3>4. QED
      BY <1>0, <3>1, <3>2, <3>3 DEF Synchronised, TypeOK
  <2>3. QED
    BY <1>3, <2>1, <2>2 DEF Prepare, TypeInv, TypeOK, LocalTypes, table, history
<1>4. CASE PrepareFails(p)
  <2>1. LocalTypes
    BY <1>2, <1>4 DEF PrepareFails, Executing, InTry, PC, Handler, Unguarded
  <2>2. QED
    BY <1>4, <2>1 DEF PrepareFails, TypeInv, TypeOK, LocalTypes, table, history
<1>5. CASE RecordStarted(p)
  <2>1. LocalTypes
    BY <1>2, <1>5 DEF RecordStarted, Executing, InTry, PC, Handler, Unguarded
  <2>2. QED
    BY <1>0, <1>5, <2>1, StageRunningTypes DEF RecordStarted, Local
<1>6. CASE Complete(p)
  <2> DEFINE loc == [proc[p] EXCEPT !.pc = "snapshot",
                                    !.src = IF Mutable(proc[p].at) THEN proc[p].at ELSE @]
  <2>1. proc[p].at \in 0..N
    BY <1>0, PlanAssumption DEF Local, Stages
  <2>2. loc \in Local /\ loc.pc = "snapshot"
    BY <1>0, <2>1 DEF Local, PC, Handler, Unguarded, InTry
  <2>3. Become(p, loc) /\ p \notin Cancels
    BY <1>6, ExecutorKind DEF Complete, Executing, InTry, Handler
  <2> HIDE DEF loc
  <2>4. LocalTypes
    BY <2>2, <2>3, BecomeTypes DEF FitsKind
  <2>5. QED
    BY <1>6, <2>4 DEF Complete, TypeInv, TypeOK, LocalTypes, RunStatus, StageStatus, history
<1>7. CASE Advance(p)
  <2>1. CASE proc[p].at < N
    <3> DEFINE loc == [proc[p] EXCEPT !.pc = "prepare", !.at = @ + 1]
    <3>1. proc[p].at + 1 \in Stages
      BY <1>0, <2>1, PlanAssumption DEF Local, Stages
    <3>2. loc \in Local /\ loc.pc = "prepare"
      BY <1>0, <3>1 DEF Local, PC, Handler, Unguarded, InTry
    <3>3. Become(p, loc) /\ p \notin Cancels
      BY <1>7, <2>1, ExecutorKind DEF Advance, Executing, InTry, Handler
    <3> HIDE DEF loc
    <3>4. LocalTypes
      BY <3>2, <3>3, BecomeTypes DEF FitsKind
    <3>5. QED
      BY <1>7, <3>4, LocalStep DEF Advance
  <2>2. CASE ~(proc[p].at < N)
    BY <1>2, <1>7, <2>2, LocalStep DEF Advance, Executing, InTry, PC, Handler, Unguarded
  <2>3. QED
    BY <2>1, <2>2
<1>8. CASE Finish(p) \/ Fail(p) \/ SetToken(p)
  <2>1. LocalTypes
    BY <1>2, <1>8 DEF Finish, Fail, TokenPlace, SetToken, Executing, InTry, PC, Handler,
       Unguarded, Ended
  <2>2. QED
    BY <1>8, <2>1 DEF Finish, Fail, SetToken, TypeInv, TypeOK, LocalTypes, RunStatus,
       StageStatus, history
<1>9. CASE Handle(p) \/ Gates(p)
  BY <1>2, <1>9, LocalStep DEF Handle, Gates, Executing, PC, InTry, Handler, Unguarded
<1>10. CASE Recover(p)
  <2>1. LocalTypes
    BY <1>2, <1>10 DEF Recover, Executing, InTry, PC, Handler, Unguarded
  <2>2. QED
    BY <1>0, <1>10, <2>1, StageRunningTypes DEF Recover, Local
<1>11. CASE Raise(p)
  <2>1. CASE Goto(p, "except") /\ proc[p].pc \in InTry
    BY <1>2, <1>11, <2>1, LocalStep DEF Raise, Executing, PC, Handler, Unguarded
  <2>2. CASE Goto(p, "stopped")
    BY <1>11, <2>2, GotoTypes, LocalStep DEF Raise, FitsKind, PC, Ended
  <2>3. QED
    BY <1>11, <2>1, <2>2 DEF Raise
<1>12. QED
  BY <1>1, <1>3, <1>4, <1>5, <1>6, <1>7, <1>8, <1>9, <1>10, <1>11

\* The steps of the dispatch of a worker.
LEMMA DispatchTypes ==
  ASSUME TypeInv, NEW p \in Procs,
         JournalBegin(p) \/ Authorize(p) \/ Approve(p) \/ Launch(p)
           \/ StartWorker(p) \/ SessionFails(p) \/ WorkerEnds(p) \/ Conclude(p)
  PROVE  TypeInv'
<1>0. TypeOK /\ proc[p] \in Local /\ proc[p].at \in Stages
  BY DEF TypeInv, TypeOK, Local
<1>1. Executing(proc[p]) /\ p \notin Cancels
  BY ExecutorKind DEF Executing, InTry, Handler, JournalBegin, Authorize, Approve, Launch,
     StartWorker, SessionFails, WorkerEnds, Conclude
<1>2. ASSUME NEW l \in PC \ {"cancel_write"}, Goto(p, l)
      PROVE  LocalTypes
  BY <1>1, <1>2, GotoTypes DEF FitsKind
<1>3. CASE JournalBegin(p)
  <2>1. LocalTypes
    BY <1>2, <1>3 DEF JournalBegin, PC, Handler, Unguarded, InTry
  <2>2. QED
    BY <1>3, <2>1 DEF JournalBegin, TypeInv, TypeOK, LocalTypes, Status, table, history
<1>4. CASE Authorize(p) \/ Launch(p) \/ Conclude(p)
  <2>1. \E t \in Status, l \in PC \ (Ended \cup {"cancel_write"}) : JournalMove(p, t, l)
    BY <1>4 DEF Authorize, Launch, Conclude, Status, PC, Handler, Unguarded, InTry, Ended
  <2>2. LocalTypes /\ op' \in [Stages -> Status \cup {Absent}]
    BY <1>1, <2>1, JournalTypes
  <2>3. QED
    BY <1>4, <2>2 DEF Authorize, Launch, Conclude, TypeInv, TypeOK, LocalTypes, table, history
<1>5. CASE Approve(p)
  <2>1. LocalTypes
    BY <1>2, <1>5 DEF Approve, PC, Handler, Unguarded, InTry
  <2>2. QED
    BY <1>5, <2>1 DEF Approve, TypeInv, TypeOK, LocalTypes, Status, table
<1>6. CASE StartWorker(p)
  <2>1. LocalTypes
    BY <1>2, <1>6 DEF StartWorker, PC, Handler, Unguarded, InTry
  <2>2. QED
    BY <1>0, <1>6, <2>1 DEF StartWorker, TypeInv, TypeOK, LocalTypes, table
<1>7. CASE SessionFails(p)
  <2> DEFINE loc == [proc[p] EXCEPT !.pc = "conclude", !.ok = FALSE]
  <2>1. loc \in Local /\ loc.pc = "conclude" /\ Become(p, loc)
    BY <1>0, <1>7 DEF SessionFails, Local, PC, Handler, Unguarded, InTry
  <2> HIDE DEF loc
  <2>2. QED
    BY <1>1, <1>7, <2>1, BecomeTypes, LocalStep DEF SessionFails, FitsKind
<1>8. CASE WorkerEnds(p)
  <2>1. PICK ok \in BOOLEAN : Become(p, [proc[p] EXCEPT !.pc = "conclude", !.ok = ok])
    BY <1>8 DEF WorkerEnds
  <2> DEFINE loc == [proc[p] EXCEPT !.pc = "conclude", !.ok = ok]
  <2>2. loc \in Local /\ loc.pc = "conclude"
    BY <1>0 DEF Local, PC, Handler, Unguarded, InTry
  <2> HIDE DEF loc
  <2>3. LocalTypes
    BY <1>1, <2>1, <2>2, BecomeTypes DEF FitsKind, loc
  <2>4. {proc[p].at} \in SUBSET (0..N)
    BY <1>0, PlanAssumption DEF Stages
  <2>5. QED
    BY <1>8, <2>3, <2>4 DEF WorkerEnds, TypeInv, TypeOK, LocalTypes, table, history
<1>9. QED
  BY <1>3, <1>4, <1>5, <1>6, <1>7, <1>8

\* The steps of resume and cancel, and the kill of any command.
LEMMA OtherTypes ==
  ASSUME TypeInv, NEW p \in Procs,
         ResumeRead(p) \/ ResumeWrite(p) \/ ResumeView(p)
           \/ CancelRead(p) \/ CancelWrite(p) \/ Crash(p)
  PROVE  TypeInv'
<1>0. TypeOK /\ proc[p] \in Local
  BY DEF TypeInv, TypeOK
<1>1. CASE ResumeRead(p)
  BY <1>1, CommandsAssumption, GotoTypes, LocalStep DEF ResumeRead, FitsKind, PC, Handler,
     Unguarded, Ended
<1>2. CASE ResumeWrite(p)
  <2>1. LocalTypes
    BY <1>2, ExecutorKind, GotoTypes DEF ResumeWrite, FitsKind, PC, Handler, Unguarded
  <2>2. QED
    BY <1>2, <2>1 DEF ResumeWrite, TypeInv, TypeOK, LocalTypes, RunStatus, history
<1>3. CASE ResumeView(p)
  <2>1. p \notin Cancels
    BY <1>3, ExecutorKind DEF ResumeView
  <2>2. CASE Incomplete = {}
    BY <1>3, <2>1, <2>2, GotoTypes, LocalStep DEF ResumeView, FitsKind, PC, Handler, Unguarded,
       Ended
  <2>3. CASE Incomplete # {}
    <3> DEFINE i == NextIncomplete
               loc == [proc[p] EXCEPT !.pc = "prepare", !.at = i, !.src = SourceRoot(i)]
    <3>1. i \in Stages
      BY <2>3, NextIncompleteIn
    <3>2. SourceRoot(i) \in 0..N
      BY <3>1, SourceRootIn, PlanAssumption DEF Stages
    <3>3. loc \in Local /\ loc.pc = "prepare"
      BY <1>0, <3>1, <3>2 DEF Local, PC, Handler, Unguarded, InTry
    <3>4. Become(p, loc)
      BY <1>3, <2>3 DEF ResumeView
    <3> HIDE DEF loc, i
    <3>5. QED
      BY <1>3, <2>1, <3>3, <3>4, BecomeTypes, LocalStep DEF ResumeView, FitsKind
  <2>4. QED
    BY <2>2, <2>3
<1>4. CASE CancelRead(p)
  BY <1>4, GotoTypes, LocalStep DEF CancelRead, FitsKind, PC, Handler, Unguarded, Ended
<1>5. CASE CancelWrite(p)
  <2>1. LocalTypes
    BY <1>5, GotoTypes DEF CancelWrite, FitsKind, PC, Handler, Unguarded, Ended
  <2>2. stage' \in [Stages -> StageStatus]
    BY <1>0, <1>5 DEF CancelWrite, TypeOK, StageStatus
  <2>3. QED
    BY <1>5, <2>1, <2>2 DEF CancelWrite, TypeInv, TypeOK, LocalTypes, RunStatus, history
<1>6. CASE Crash(p)
  BY <1>6, GotoTypes, LocalStep DEF Crash, FitsKind, PC, Handler, Unguarded, Ended
<1>7. QED
  BY <1>1, <1>2, <1>3, <1>4, <1>5, <1>6

LEMMA StepTypes == TypeInv /\ [Next]_vars => TypeInv'
<1> SUFFICES ASSUME TypeInv, [Next]_vars PROVE TypeInv'
  OBVIOUS
<1>1. CASE \E p \in Procs : Step(p) \/ Crash(p)
  BY <1>1, StageStepTypes, DispatchTypes, OtherTypes DEF Step
<1>2. CASE \E i \in Stages, t \in Status : Review(i, t)
  BY <1>2 DEF Review, TypeInv, TypeOK, KindsOK, table
<1>3. CASE UNCHANGED vars
  BY <1>3 DEF vars, table, history, TypeInv, TypeOK, KindsOK
<1>4. QED
  BY <1>1, <1>2, <1>3 DEF Next

(* Every record and every local state keeps its type, and a cancel command *)
(* never executes, for any plan and any commands.                          *)
THEOREM TypesHold == Spec => []TypeInv
BY InitTypes, StepTypes, PTL DEF Spec


-------------------------------------------------------------------------------
\* What the journal does to the operation of a stage, whoever calls it: begin
\* inserts it, transition and the reviews follow the lifecycle.
OpMoves(i) ==
  \/ op'[i] = op[i]
  \/ op[i] = Absent /\ op'[i] = "proposed"
  \/ op'[i] \in AllowedTransitions(op[i])

LEMMA JournalMoveOp ==
  ASSUME TypeInv, NEW p \in Procs, NEW t, NEW l, JournalMove(p, t, l), NEW i \in Stages
  PROVE  OpMoves(i)
BY DEF JournalMove, OpMoves, ValidTransition, TypeInv, TypeOK

LEMMA OperationMoves ==
  ASSUME TypeInv, [Next]_vars, NEW i \in Stages
  PROVE  OpMoves(i) /\ (granted[i] => granted'[i])
<1>0. op \in [Stages -> Status \cup {Absent}] /\ granted \in [Stages -> BOOLEAN]
  BY DEF TypeInv, TypeOK
<1>1. CASE UNCHANGED vars
  BY <1>1 DEF vars, history, OpMoves
<1>2. CASE \E j \in Stages, t \in Status : Review(j, t)
  BY <1>0, <1>2 DEF Review, OpMoves
<1>3. ASSUME NEW p \in Procs, JournalBegin(p)
      PROVE  OpMoves(i) /\ (granted[i] => granted'[i])
  BY <1>0, <1>3 DEF JournalBegin, OpMoves, history
<1>4. ASSUME NEW p \in Procs, Authorize(p) \/ Launch(p) \/ Conclude(p)
      PROVE  OpMoves(i) /\ (granted[i] => granted'[i])
  <2>1. \E t, l : JournalMove(p, t, l)
    BY <1>4 DEF Authorize, Launch, Conclude
  <2>2. granted' = granted
    BY <1>4 DEF Authorize, Launch, Conclude, history
  <2>3. QED
    BY <2>1, <2>2, JournalMoveOp
<1>5. ASSUME NEW p \in Procs, Approve(p)
      PROVE  OpMoves(i) /\ (granted[i] => granted'[i])
  BY <1>0, <1>5 DEF Approve, OpMoves, AllowedTransitions
<1>6. ASSUME NEW p \in Procs, Step(p) \/ Crash(p),
             ~(JournalBegin(p) \/ Authorize(p) \/ Launch(p) \/ Conclude(p) \/ Approve(p))
      PROVE  op' = op /\ granted' = granted
  BY <1>6 DEF Step, Crash, BeginRun, Prepare, PrepareFails, RecordStarted, StartWorker,
     SessionFails, WorkerEnds, Gates, Complete, Advance, Finish, Fail, SetToken, Raise,
     Handle, Recover, ResumeRead, ResumeWrite, ResumeView, CancelRead, CancelWrite, history
<1>7. QED
  BY <1>1, <1>2, <1>3, <1>4, <1>5, <1>6 DEF Next, OpMoves

\* A succeeded operation is final, and so is the success of all earlier ones.
LEMMA SuccessIsFinal ==
  ASSUME TypeInv, [Next]_vars, NEW i \in Stages, op[i] = "succeeded"
  PROVE  op'[i] = "succeeded"
BY OperationMoves DEF OpMoves, AllowedTransitions, Absent

LEMMA PriorIsStable ==
  ASSUME TypeInv, [Next]_vars, NEW i \in Stages, Prior(i)
  PROVE  Prior(i)'
<1>1. ASSUME NEW j \in 1..(i - 1) PROVE op'[j] = "succeeded"
  <2>1. j \in Stages /\ op[j] = "succeeded"
    BY PlanAssumption DEF Stages, Prior
  <2>2. QED
    BY <2>1, SuccessIsFinal
<1>2. QED
  BY <1>1 DEF Prior


-------------------------------------------------------------------------------
\* A command that is not moved, or moves on within its stage to a place that
\* promises nothing, keeps its place in the order.
LEMMA StaysInOrder ==
  ASSUME TypeInv, [Next]_vars, NEW p \in Procs, PlaceInOrder(p),
         proc'[p].at = proc[p].at,
         proc'[p].pc = proc[p].pc \/
           proc'[p].pc \notin {"gates", "complete", "snapshot", "finish", "launch", "session"}
  PROVE  PlaceInOrder(p)'
<1>1. PICK i \in Stages : proc[p].at = i
  BY DEF TypeInv, TypeOK, Local
<1>2. Prior(i)'
  BY <1>1, PriorIsStable DEF PlaceInOrder
<1>3. /\ op[i] = "succeeded" => op'[i] = "succeeded"
      /\ granted[i] => granted'[i]
      /\ (\A j \in Stages : op[j] = "succeeded") => \A j \in Stages : op'[j] = "succeeded"
  BY <1>1, SuccessIsFinal, OperationMoves
<1>4. QED
  BY <1>1, <1>2, <1>3 DEF PlaceInOrder

\* An ended command is at no place in particular.
LEMMA EndsInOrder ==
  ASSUME NEW p \in Procs, NEW l \in Ended, proc'[p] = Holding(l)
  PROVE  PlaceInOrder(p)'
<1>1. proc'[p].at = 1 /\ proc'[p].pc = l
  BY DEF Holding
<1>2. QED
  BY <1>1 DEF PlaceInOrder, Prior, Ended

LEMMA GotoInOrder ==
  ASSUME TypeInv, [Next]_vars, NEW p \in Procs, PlaceInOrder(p), NEW l \in PC, Goto(p, l),
         l \notin {"gates", "complete", "snapshot", "finish", "launch", "session"}
  PROVE  PlaceInOrder(p)'
<1>1. CASE l \in Ended
  BY <1>1, GotoMoves, EndsInOrder DEF TypeInv
<1>2. CASE l \notin Ended
  <2>1. proc'[p] = [proc[p] EXCEPT !.pc = l]
    BY <1>2, GotoMoves DEF TypeInv
  <2>2. proc'[p].at = proc[p].at /\ proc'[p].pc = l
    BY <2>1 DEF TypeInv, TypeOK, Local
  <2>3. QED
    BY <2>2, StaysInOrder
<1>3. QED
  BY <1>1, <1>2

\* The places that do promise something are reached when it holds.
LEMMA DispatchInOrder ==
  ASSUME TypeInv, [Next]_vars, NEW p \in Procs, PlaceInOrder(p),
         JournalBegin(p) \/ Authorize(p) \/ Approve(p) \/ Launch(p)
           \/ StartWorker(p) \/ SessionFails(p) \/ WorkerEnds(p) \/ Conclude(p)
  PROVE  PlaceInOrder(p)'
<1> PICK i \in Stages : proc[p].at = i
  BY DEF TypeInv, TypeOK, Local
<1>0. /\ TypeOK /\ proc[p] \in Local
      /\ op \in [Stages -> Status \cup {Absent}] /\ granted \in [Stages -> BOOLEAN]
  BY DEF TypeInv, TypeOK
<1>1. /\ Prior(i)'
      /\ granted[i] => granted'[i]
  BY <1>0, PriorIsStable, OperationMoves DEF PlaceInOrder
<1>2. ASSUME NEW l \in {"launch", "session"}, proc'[p].at = i, proc'[p].pc = l,
             i \in NeedsApproval => granted'[i]
      PROVE  PlaceInOrder(p)'
  BY <1>1, <1>2 DEF PlaceInOrder
<1>3. ASSUME NEW t \in Status, NEW l \in PC \ Ended, JournalMove(p, t, l)
      PROVE  proc'[p].at = i /\ (proc'[p].pc = "except" \/ (proc'[p].pc = l /\ op'[i] = t))
  <2>1. \/ op' = [op EXCEPT ![i] = t] /\ proc'[p] = [proc[p] EXCEPT !.pc = l]
        \/ proc'[p] = [proc[p] EXCEPT !.pc = "except"]
    BY <1>0, <1>3, JournalMoveTypes
  <2>2. CASE op' = [op EXCEPT ![i] = t] /\ proc'[p] = [proc[p] EXCEPT !.pc = l]
    BY <1>0, <2>2 DEF Local
  <2>3. CASE proc'[p] = [proc[p] EXCEPT !.pc = "except"]
    <3>1. proc'[p].at = proc[p].at /\ proc'[p].pc = "except"
      BY <1>0, <2>3 DEF Local
    <3>2. QED
      BY <3>1
  <2>4. QED
    BY <2>1, <2>2, <2>3
<1>4. CASE JournalBegin(p)
  BY <1>4, GotoInOrder DEF JournalBegin, PC, Handler, Unguarded, InTry
<1>5. CASE Authorize(p)
  <2>1. CASE i \notin NeedsApproval /\ JournalMove(p, "approved", "launch")
    <3>1. proc'[p].at = i /\ proc'[p].pc \in {"except", "launch"}
      BY <1>3, <2>1 DEF Status, PC, Handler, Unguarded, InTry, Ended
    <3>2. QED
      BY <1>2, <2>1, <3>1, StaysInOrder
  <2>2. ASSUME NEW l \in {"approve", "fail"}, JournalMove(p, "pending_approval", l)
        PROVE  PlaceInOrder(p)'
    <3>1. proc'[p].at = i /\ proc'[p].pc \in {"except", l}
      BY <1>3, <2>2 DEF Status, PC, Handler, Unguarded, InTry, Ended
    <3>2. QED
      BY <3>1, StaysInOrder
  <2>3. QED
    BY <1>5, <2>1, <2>2 DEF Authorize
<1>6. CASE Approve(p)
  <2>1. CASE op[i] = "pending_approval"
    <3>1. granted'[i] /\ Goto(p, "launch")
      BY <1>0, <1>6, <2>1 DEF Approve
    <3>2. proc'[p] = [proc[p] EXCEPT !.pc = "launch"]
      BY <1>0, <3>1, GotoMoves DEF PC, Handler, Unguarded, InTry, Ended
    <3>3. QED
      BY <1>0, <1>2, <3>1, <3>2 DEF Local
  <2>2. CASE op[i] # "pending_approval"
    BY <1>6, <2>2, GotoInOrder DEF Approve, PC, Handler, Unguarded
  <2>3. QED
    BY <2>1, <2>2
<1>7. CASE Launch(p)
  <2>1. i \in NeedsApproval => granted'[i]
    BY <1>1, <1>7 DEF Launch, PlaceInOrder
  <2>2. proc'[p].at = i /\ proc'[p].pc \in {"except", "session"}
    BY <1>3, <1>7 DEF Launch, Status, PC, Handler, Unguarded, InTry, Ended
  <2>3. QED
    BY <1>2, <2>1, <2>2, StaysInOrder
<1>8. CASE StartWorker(p)
  BY <1>8, GotoInOrder DEF StartWorker, PC, Handler, Unguarded, InTry
<1>9. CASE SessionFails(p) \/ WorkerEnds(p)
  <2>1. PICK ok \in BOOLEAN : Become(p, [proc[p] EXCEPT !.pc = "conclude", !.ok = ok])
    BY <1>9 DEF SessionFails, WorkerEnds
  <2> DEFINE loc == [proc[p] EXCEPT !.pc = "conclude", !.ok = ok]
  <2>2. loc \in Local /\ loc.pc = "conclude" /\ loc.at = i /\ loc.pc \notin Ended
    BY <1>0 DEF Local, PC, Handler, Unguarded, InTry, Ended
  <2> HIDE DEF loc
  <2>3. proc'[p] = loc
    BY <1>0, <2>1, <2>2, BecomeMoves DEF loc
  <2>4. QED
    BY <2>2, <2>3, StaysInOrder
<1>10. CASE Conclude(p)
  <2>1. CASE proc[p].ok
    <3>1. proc'[p].at = i /\ (proc'[p].pc = "except" \/ (proc'[p].pc = "gates" /\ op'[i] = "succeeded"))
      BY <1>3, <1>10, <2>1 DEF Conclude, Status, PC, Handler, Unguarded, InTry, Ended
    <3>2. CASE proc'[p].pc = "except"
      BY <3>1, <3>2, StaysInOrder
    <3>3. CASE proc'[p].pc = "gates" /\ op'[i] = "succeeded"
      BY <1>1, <3>1, <3>3 DEF PlaceInOrder
    <3>4. QED
      BY <3>1, <3>2, <3>3
  <2>2. CASE ~proc[p].ok
    <3>1. proc'[p].at = i /\ proc'[p].pc \in {"except", "fail"}
      BY <1>3, <1>10, <2>2 DEF Conclude, Status, PC, Handler, Unguarded, InTry, Ended
    <3>2. QED
      BY <3>1, StaysInOrder
  <2>3. QED
    BY <2>1, <2>2
<1>11. QED
  BY <1>4, <1>5, <1>6, <1>7, <1>8, <1>9, <1>10

\* So are the ends of a stage and of the run, and the stage a resume picks.
LEMMA StageInOrder ==
  ASSUME TypeInv, OrderInv, [Next]_vars, NEW p \in Procs,
         Gates(p) \/ Complete(p) \/ Advance(p) \/ ResumeView(p)
  PROVE  PlaceInOrder(p)'
<1> PICK i \in Stages : proc[p].at = i
  BY DEF TypeInv, TypeOK, Local
<1>0. /\ TypeOK /\ proc[p] \in Local /\ PlaceInOrder(p)
      /\ op \in [Stages -> Status \cup {Absent}]
  BY DEF TypeInv, TypeOK, OrderInv
<1>1. Prior(i)' /\ (op[i] = "succeeded" => op'[i] = "succeeded")
  BY <1>0, PriorIsStable, SuccessIsFinal DEF PlaceInOrder
<1>2. ASSUME NEW l \in {"complete", "snapshot"}, op[i] = "succeeded",
             proc'[p].at = i, proc'[p].pc = l
      PROVE  PlaceInOrder(p)'
  BY <1>1, <1>2 DEF PlaceInOrder
<1>3. CASE Gates(p)
  <2>1. CASE Goto(p, "fail")
    BY <1>0, <2>1, GotoInOrder DEF PC, InTry
  <2>2. CASE Goto(p, "complete")
    <3>1. proc'[p] = [proc[p] EXCEPT !.pc = "complete"]
      BY <1>0, <2>2, GotoMoves DEF PC, Handler, Unguarded, InTry, Ended
    <3>2. op[i] = "succeeded"
      BY <1>0, <1>3 DEF Gates, PlaceInOrder
    <3>3. QED
      BY <1>0, <1>2, <3>1, <3>2 DEF Local
  <2>3. QED
    BY <1>3, <2>1, <2>2 DEF Gates
<1>4. CASE Complete(p)
  <2> DEFINE loc == [proc[p] EXCEPT !.pc = "snapshot", !.src = IF Mutable(i) THEN i ELSE @]
  <2>0. i \in 0..N
    BY PlanAssumption DEF Stages
  <2>1. loc \in Local /\ loc.pc = "snapshot" /\ loc.at = i /\ loc.pc \notin Ended
    BY <1>0, <2>0 DEF Local, PC, Handler, Unguarded, InTry, Ended
  <2>2. Become(p, loc) /\ op[i] = "succeeded"
    BY <1>0, <1>4 DEF Complete, PlaceInOrder
  <2> HIDE DEF loc
  <2>3. proc'[p] = loc
    BY <1>0, <2>1, <2>2, BecomeMoves
  <2>4. QED
    BY <1>2, <2>1, <2>2, <2>3
<1>5. CASE Advance(p)
  <2>0. op[i] = "succeeded" /\ op' = op
    BY <1>0, <1>5 DEF Advance, PlaceInOrder
  <2>1. CASE i < N
    <3> DEFINE loc == [proc[p] EXCEPT !.pc = "prepare", !.at = @ + 1]
    <3>1. i + 1 \in Stages /\ 1..(i + 1 - 1) = 1..i /\ 1..i = 1..(i - 1) \cup {i}
      BY <1>0, <2>1, PlanAssumption DEF Stages
    <3>2. loc \in Local /\ loc.pc = "prepare" /\ loc.at = i + 1 /\ loc.pc \notin Ended
      BY <1>0, <3>1 DEF Local, PC, Handler, Unguarded, InTry, Ended
    <3>3. Become(p, loc)
      BY <1>5, <2>1 DEF Advance
    <3> HIDE DEF loc
    <3>4. proc'[p] = loc
      BY <1>0, <3>2, <3>3, BecomeMoves
    <3>5. PICK n \in Stages : n = i + 1
      BY <3>1
    <3>6. Prior(n)'
      BY <1>0, <2>0, <3>1, <3>5 DEF Prior, PlaceInOrder
    <3>7. QED
      BY <3>2, <3>4, <3>5, <3>6 DEF PlaceInOrder
  <2>2. CASE ~(i < N)
    <3>1. i = N /\ Stages = 1..(i - 1) \cup {i}
      BY <1>0, <2>2, PlanAssumption DEF Stages
    <3>2. proc'[p] = [proc[p] EXCEPT !.pc = "finish"]
      BY <1>0, <1>5, <2>2, GotoMoves DEF Advance, PC, Handler, Unguarded, Ended
    <3>3. \A j \in Stages : op'[j] = "succeeded"
      BY <1>0, <2>0, <3>1 DEF PlaceInOrder, Prior
    <3>4. proc'[p].at = i /\ proc'[p].pc = "finish"
      BY <1>0, <3>2 DEF Local
    <3>5. QED
      BY <1>1, <3>3, <3>4 DEF PlaceInOrder
  <2>3. QED
    BY <2>1, <2>2
<1>6. CASE ResumeView(p)
  <2>1. CASE Incomplete = {}
    BY <1>0, <1>6, <2>1, GotoInOrder DEF ResumeView, PC, Handler, Unguarded, Ended
  <2>2. CASE Incomplete # {}
    <3> PICK n \in Stages : n = NextIncomplete /\ stage[n] # Absent
      BY <2>2, NextIncompleteIn DEF Incomplete, Absent
    <3> DEFINE loc == [proc[p] EXCEPT !.pc = "prepare", !.at = n, !.src = SourceRoot(n)]
    <3>2. SourceRoot(n) \in 0..N
      BY SourceRootIn, PlanAssumption DEF Stages
    <3>3. loc \in Local /\ loc.pc = "prepare" /\ loc.at = n /\ loc.pc \notin Ended
      BY <1>0, <3>2 DEF Local, PC, Handler, Unguarded, InTry, Ended
    <3>4. Become(p, loc)
      BY <1>6, <2>2 DEF ResumeView
    <3>5. Prior(n)
      BY DEF OrderInv
    <3> HIDE DEF loc
    <3>6. proc'[p] = loc
      BY <1>0, <3>3, <3>4, BecomeMoves
    <3>7. Prior(n)'
      BY <3>5, PriorIsStable
    <3>8. QED
      BY <3>3, <3>6, <3>7 DEF PlaceInOrder
  <2>3. QED
    BY <2>1, <2>2
<1>7. QED
  BY <1>3, <1>4, <1>5, <1>6


\* Every other step leads to a place that promises nothing.
LEMMA OthersInOrder ==
  ASSUME TypeInv, OrderInv, [Next]_vars, NEW p \in Procs, Step(p) \/ Crash(p)
  PROVE  PlaceInOrder(p)'
<1>0. PlaceInOrder(p)
  BY DEF OrderInv
<1>1. CASE BeginRun(p)
  BY <1>0, <1>1, GotoInOrder DEF BeginRun, PC, InTry, Ended
<1>2. CASE Prepare(p) \/ PrepareFails(p) \/ RecordStarted(p) \/ Handle(p) \/ Recover(p)
  BY <1>0, <1>2, GotoInOrder DEF Prepare, PrepareFails, RecordStarted, Handle, Recover,
     PC, Handler, Unguarded, InTry
<1>3. CASE Finish(p) \/ Fail(p) \/ SetToken(p) \/ Raise(p) \/ Crash(p)
  <2>1. \E l \in {"done", "token", "retoken", "except", "stopped"} : Goto(p, l)
    BY <1>3 DEF Finish, Fail, TokenPlace, SetToken, Raise, Crash
  <2>2. QED
    BY <1>0, <2>1, GotoInOrder DEF PC, InTry, Handler, Unguarded, Ended
<1>4. CASE ResumeRead(p) \/ ResumeWrite(p) \/ CancelRead(p) \/ CancelWrite(p)
  BY <1>0, <1>4, GotoInOrder DEF ResumeRead, ResumeWrite, CancelRead, CancelWrite, PC, Handler,
     Unguarded, Ended
<1>5. QED
  BY <1>0, <1>1, <1>2, <1>3, <1>4, DispatchInOrder, StageInOrder DEF Step

\* A stage is recorded or worked on only by the command whose place it is.
LEMMA StageWrites ==
  ASSUME TypeInv, NEW p \in Procs, Step(p) \/ Crash(p), NEW i \in Stages
  PROVE  /\ stage[i] = Absent /\ stage'[i] # Absent => i = proc[p].at
         /\ workers'[i] # workers[i] =>
              i = proc[p].at /\ proc[p].pc = "session" /\ workers'[i] = workers[i] + 1
         /\ run' = "succeeded" => run = "succeeded" \/ proc[p].pc = "finish"
<1>0. stage \in [Stages -> StageStatus] /\ workers \in [Stages -> Nat]
  BY DEF TypeInv, TypeOK
<1>1. CASE RecordStarted(p) \/ Recover(p)
  BY <1>0, <1>1 DEF RecordStarted, Recover, StageRunning, history
<1>2. CASE Complete(p) \/ Fail(p)
  BY <1>0, <1>2 DEF Complete, Fail, history
<1>3. CASE CancelWrite(p)
  BY <1>0, <1>3 DEF CancelWrite, history, Absent
<1>4. CASE StartWorker(p)
  BY <1>0, <1>4 DEF StartWorker, table
<1>5. CASE Approve(p)
  BY <1>5 DEF Approve, table
<1>6. CASE BeginRun(p) \/ Finish(p) \/ SetToken(p) \/ ResumeWrite(p)
  BY <1>6 DEF BeginRun, Finish, SetToken, ResumeWrite, history
<1>7. CASE UNCHANGED <<table, history>>
  BY <1>7 DEF table, history
<1>8. QED
  BY <1>1, <1>2, <1>3, <1>4, <1>5, <1>6, <1>7 DEF Step, Crash, Prepare, PrepareFails,
     JournalBegin, Authorize, Launch, SessionFails, WorkerEnds, Conclude, Gates, Advance,
     Raise, Handle, ResumeRead, ResumeView, CancelRead

\* A step moves one command.
LEMMA OnlyOneMoves ==
  ASSUME TypeInv, NEW p \in Procs, Step(p) \/ Crash(p), NEW q \in Procs, q # p
  PROVE  proc'[q] = proc[q]
<1>1. CASE Authorize(p) \/ Launch(p) \/ Conclude(p)
  BY <1>1 DEF Authorize, Launch, Conclude, JournalMove, Goto, Become, TypeInv, TypeOK
<1>2. CASE ~(Authorize(p) \/ Launch(p) \/ Conclude(p))
  BY <1>2 DEF Step, Crash, BeginRun, Prepare, PrepareFails, RecordStarted, JournalBegin,
     Approve, StartWorker, SessionFails, WorkerEnds, Gates, Complete, Advance, Finish, Fail,
     SetToken, Raise, Handle, Recover, ResumeRead, ResumeWrite, ResumeView, CancelRead,
     CancelWrite, Goto, Become, TypeInv, TypeOK
<1>3. QED
  BY <1>1, <1>2

LEMMA StepOrder == TypeInv /\ OrderInv /\ [Next]_vars => OrderInv'
<1> SUFFICES ASSUME TypeInv, OrderInv, [Next]_vars PROVE OrderInv'
  OBVIOUS
<1>1. ASSUME NEW p \in Procs, proc'[p] = proc[p]
      PROVE  PlaceInOrder(p)'
  BY <1>1, StaysInOrder DEF OrderInv
<1>2. CASE \E p \in Procs : Step(p) \/ Crash(p)
  <2>1. PICK p \in Procs : Step(p) \/ Crash(p)
    BY <1>2
  <2>2. ASSUME NEW q \in Procs PROVE PlaceInOrder(q)'
    <3>1. CASE q = p
      BY <2>1, <3>1, OthersInOrder
    <3>2. CASE q # p
      BY <1>1, <2>1, <3>2, OnlyOneMoves
    <3>3. QED
      BY <3>1, <3>2
  <2>3. PlaceInOrder(p)
    BY DEF OrderInv
  <2>4. ASSUME NEW i \in Stages, stage'[i] # Absent \/ workers'[i] > 0
        PROVE  Prior(i)'
    <3>1. CASE stage[i] # Absent \/ workers[i] > 0
      BY <3>1, PriorIsStable DEF OrderInv
    <3>2. CASE ~(stage[i] # Absent \/ workers[i] > 0)
      <4>1. i = proc[p].at
        BY <2>1, <2>4, <3>2, StageWrites
      <4>2. QED
        BY <2>3, <4>1, PriorIsStable DEF PlaceInOrder
    <3>3. QED
      BY <3>1, <3>2
  <2>5. NoHollowSuccess'
    <3>1. run' = "succeeded" => \A i \in Stages : op[i] = "succeeded"
      BY <2>1, <2>3, PlanAssumption, StageWrites DEF OrderInv, NoHollowSuccess, PlaceInOrder, Stages
    <3>2. QED
      BY <3>1, SuccessIsFinal DEF NoHollowSuccess
  <2>6. ASSUME NEW i \in NeedsApproval, workers'[i] > 0
        PROVE  granted'[i]
    <3>0. i \in Stages
      BY PlanAssumption
    <3>1. CASE workers[i] > 0
      BY <3>0, <3>1, OperationMoves DEF OrderInv, ApprovalBeforeWork
    <3>2. CASE ~(workers[i] > 0)
      <4>1. i = proc[p].at /\ proc[p].pc = "session"
        BY <2>1, <2>6, <3>0, <3>2, StageWrites
      <4>2. QED
        BY <2>3, <3>0, <4>1, OperationMoves DEF PlaceInOrder
    <3>3. QED
      BY <3>1, <3>2
  <2>7. QED
    BY <2>2, <2>4, <2>5, <2>6 DEF OrderInv, ApprovalBeforeWork
<1>3. CASE ~(\E p \in Procs : Step(p) \/ Crash(p))
  <2>1. UNCHANGED <<run, stage, proc, workers>>
    BY <1>3 DEF Next, Review, vars, table, history
  <2>2. \A p \in Procs : PlaceInOrder(p)'
    BY <1>1, <2>1
  <2>3. \A i \in Stages : stage'[i] # Absent \/ workers'[i] > 0 => Prior(i)'
    BY <2>1, PriorIsStable DEF OrderInv
  <2>4. NoHollowSuccess'
    BY <2>1, SuccessIsFinal DEF OrderInv, NoHollowSuccess
  <2>5. ApprovalBeforeWork'
    BY <2>1, OperationMoves, PlanAssumption DEF OrderInv, ApprovalBeforeWork
  <2>6. QED
    BY <2>2, <2>3, <2>4, <2>5 DEF OrderInv
<1>4. QED
  BY <1>2, <1>3

LEMMA InitOrder == Init => OrderInv
<1> SUFFICES ASSUME Init PROVE OrderInv
  OBVIOUS
<1>1. \A p \in Procs : PlaceInOrder(p)
  BY DEF Init, Holding, PlaceInOrder, Prior
<1>2. QED
  BY <1>1, PlanAssumption DEF Init, OrderInv, NoHollowSuccess, ApprovalBeforeWork, Absent

LEMMA OrderAlways == Spec => [](TypeInv /\ OrderInv)
BY InitTypes, StepTypes, InitOrder, StepOrder, PTL DEF Spec

(* However many commands execute the run at once, and wherever they fail   *)
(* or are killed: the worker of a stage is started only after the          *)
(* operations of all earlier stages succeeded.                             *)
THEOREM WorkersStartInOrder == Spec => []StagesInOrder
<1>1. OrderInv => StagesInOrder
  BY DEF OrderInv, StagesInOrder, Prior
<1>2. QED
  BY <1>1, OrderAlways, PTL

(* No worker of a stage marked approval_required is started before a       *)
(* person approved it, through whichever command or queue.                 *)
THEOREM ApprovalComesFirst == Spec => []ApprovalBeforeWork
<1>1. OrderInv => ApprovalBeforeWork
  BY DEF OrderInv
<1>2. QED
  BY <1>1, OrderAlways, PTL

(* A run recorded as succeeded did all the work of its plan.               *)
THEOREM SuccessIsWhole == Spec => []NoHollowSuccess
<1>1. OrderInv => NoHollowSuccess
  BY DEF OrderInv
<1>2. QED
  BY <1>1, OrderAlways, PTL


-------------------------------------------------------------------------------
\* Wherever it takes its stage and source from, a command comes to the place
\* the step names.
LEMMA LeadsOn ==
  ASSUME TypeOK, NEW p \in Procs, NEW l \in PC
  PROVE  /\ Goto(p, l) => proc'[p].pc = l
         /\ \A i : Become(p, [proc[p] EXCEPT !.pc = l, !.at = i]) => proc'[p].pc = l
         /\ \A j : Become(p, [proc[p] EXCEPT !.pc = l, !.src = j]) => proc'[p].pc = l
         /\ \A i, j : Become(p, [proc[p] EXCEPT !.pc = l, !.at = i, !.src = j]) => proc'[p].pc = l
<1>0. proc \in [Procs -> Local] /\ proc[p] \in Local
  BY DEF TypeOK
<1>1. ASSUME NEW loc, loc.pc = l, Become(p, loc)
      PROVE  proc'[p].pc = l
  BY <1>0, <1>1 DEF Become, Holding
<1>2. [proc[p] EXCEPT !.pc = l].pc = l
  BY <1>0 DEF Local
<1>3. \A i, j : /\ [proc[p] EXCEPT !.pc = l, !.at = i].pc = l
                /\ [proc[p] EXCEPT !.pc = l, !.src = j].pc = l
                /\ [proc[p] EXCEPT !.pc = l, !.at = i, !.src = j].pc = l
  BY <1>0 DEF Local
<1>4. QED
  BY <1>1, <1>2, <1>3 DEF Goto

\* From here on one command at a time executes the run.
LEMMA SettledIsStable ==
  ASSUME TypeInv, [Next]_vars, NEW i \in Stages, op[i] \in Settled
  PROVE  op'[i] \in Settled
BY OperationMoves DEF OpMoves, Settled, Terminal, AllowedTransitions, Status, Absent

\* Whoever moves as an executor was on its way already, or nobody was.
LEMMA WasInFlight ==
  ASSUME TypeInv, ~Overlap, NEW p \in Executors, Step(p) \/ Crash(p)
  PROVE  InFlight(p) \/ \A q \in Executors : ~InFlight(q)
<1>0. p \in Procs /\ p \notin Cancels
  BY CommandsAssumption DEF Executors, Procs
<1>1. CASE BeginRun(p) \/ ResumeRead(p)
  BY <1>0, <1>1 DEF BeginRun, ResumeRead, MayStart, Executors
<1>2. CASE ~(BeginRun(p) \/ ResumeRead(p))
  <2>1. proc[p].pc \notin {"idle"} \cup Ended
    BY <1>0, <1>2 DEF Step, Crash, Prepare, PrepareFails, RecordStarted, JournalBegin,
       Authorize, Approve, Launch, StartWorker, SessionFails, WorkerEnds, Conclude, Gates,
       Complete, Advance, Finish, Fail, SetToken, Raise, Handle, Recover, ResumeWrite,
       ResumeView, CancelRead, CancelWrite, InFlight, InTry, Handler, Unguarded, Ended
  <2>2. QED
    BY <2>1 DEF InFlight
<1>3. QED
  BY <1>1, <1>2

LEMMA OneExecutorStep ==
  ASSUME TypeInv, OneExecutor, ~Overlap, NEW p \in Procs, Step(p) \/ Crash(p)
  PROVE  OneExecutor'
<1> SUFFICES ASSUME NEW u \in Executors, NEW v \in Executors, InFlight(u)', InFlight(v)'
             PROVE  u = v
  BY DEF OneExecutor
<1>1. u \in Procs /\ v \in Procs
  BY DEF Executors, Procs
<1>2. \A q \in {u, v} : q # p => InFlight(q)
  BY <1>1, OnlyOneMoves DEF InFlight
<1>3. CASE u # p /\ v # p
  BY <1>2, <1>3 DEF OneExecutor
<1>4. CASE u = p \/ v = p
  BY <1>2, <1>4, WasInFlight DEF OneExecutor
<1>5. QED
  BY <1>3, <1>4

\* While one command executes, no other does.
LEMMA ExecutesAlone ==
  ASSUME TypeInv, OneExecutor, NEW p \in Procs, NEW q \in Procs,
         Executing(proc[p]) \/ proc[p].pc \in {"resume_write", "resume_view"},
         Executing(proc[q]) \/ proc[q].pc \in {"resume_write", "resume_view"}
  PROVE  p = q
<1>1. p \in Executors /\ q \in Executors
  BY ExecutorKind DEF Executors, Procs
<1>2. InFlight(p) /\ InFlight(q)
  BY DEF InFlight, Executing, InTry, Handler, Ended
<1>3. QED
  BY <1>1, <1>2 DEF OneExecutor

\* The journal lets a command come to the launch of a worker only if the stage
\* has had none.
LaunchesFirst(p) ==
  /\ proc[p].pc = "launch" => workers[proc[p].at] = 0
  /\ proc[p].pc = "session" => workers[proc[p].at] = 0 /\ op[proc[p].at] \in Settled

LEMMA LaunchStep ==
  ASSUME TypeInv, OnceInv, [Next]_vars, NEW p \in Procs, Step(p) \/ Crash(p)
  PROVE  LaunchesFirst(p)'
<1> PICK i \in Stages : proc[p].at = i
  BY DEF TypeInv, TypeOK, Local
<1>0. /\ TypeOK /\ proc[p] \in Local
      /\ op \in [Stages -> Status \cup {Absent}] /\ workers \in [Stages -> Nat]
      /\ workers[i] = 0 \/ op[i] \in Settled
  BY DEF TypeInv, TypeOK, OnceInv
<1>1. ASSUME NEW l \in PC \ {"launch", "session"}, Goto(p, l)
      PROVE  LaunchesFirst(p)'
  BY <1>0, <1>1, GotoMoves DEF LaunchesFirst
<1>2. ASSUME NEW loc \in Local, Become(p, loc), loc.pc \notin {"launch", "session"}
      PROVE  LaunchesFirst(p)'
  BY <1>0, <1>2, BecomeMoves DEF LaunchesFirst
<1>3. ASSUME NEW t \in Status, NEW l \in PC \ Ended, JournalMove(p, t, l)
      PROVE  /\ proc'[p].at = i
             /\ \/ proc'[p].pc = "except"
                \/ proc'[p].pc = l /\ op'[i] = t /\ ValidTransition(op[i], t)
  <2>1. CASE /\ op' = [op EXCEPT ![i] = t] /\ ValidTransition(op[i], t)
             /\ proc'[p] = [proc[p] EXCEPT !.pc = l]
    BY <1>0, <2>1 DEF Local
  <2>2. CASE proc'[p] = [proc[p] EXCEPT !.pc = "except"]
    BY <1>0, <2>2 DEF Local
  <2>3. QED
    BY <1>0, <1>3, <2>1, <2>2, JournalMoveTypes
<1>4. CASE Authorize(p)
  <2>1. CASE JournalMove(p, "approved", "launch")
    <3>1. /\ proc'[p].at = i
          /\ \/ proc'[p].pc = "except"
             \/ proc'[p].pc = "launch" /\ ValidTransition(op[i], "approved")
      BY <1>3, <2>1 DEF Status, PC, Handler, Unguarded, InTry, Ended
    <3>2. ValidTransition(op[i], "approved") => op[i] \notin Settled
      BY <1>0 DEF ValidTransition, AllowedTransitions, Settled, Terminal, Absent, Status
    <3>3. workers' = workers
      BY <1>4 DEF Authorize, history
    <3>4. QED
      BY <1>0, <3>1, <3>2, <3>3 DEF LaunchesFirst
  <2>2. ASSUME NEW l \in {"approve", "fail"}, JournalMove(p, "pending_approval", l)
        PROVE  LaunchesFirst(p)'
    <3>1. proc'[p].pc \in {"except", l}
      BY <1>3, <2>2 DEF Status, PC, Handler, Unguarded, InTry, Ended
    <3>2. QED
      BY <3>1 DEF LaunchesFirst
  <2>3. QED
    BY <1>4, <2>1, <2>2 DEF Authorize
<1>5. CASE Approve(p)
  <2>1. CASE op[i] = "pending_approval"
    <3>1. Goto(p, "launch") /\ workers' = workers
      BY <1>5, <2>1 DEF Approve
    <3>2. proc'[p] = [proc[p] EXCEPT !.pc = "launch"]
      BY <1>0, <3>1, GotoMoves DEF PC, Handler, Unguarded, InTry, Ended
    <3>3. op[i] \notin Settled
      BY <2>1 DEF Settled, Terminal, AllowedTransitions
    <3>4. proc'[p].at = i /\ proc'[p].pc = "launch"
      BY <1>0, <3>2 DEF Local
    <3>5. QED
      BY <1>0, <3>1, <3>3, <3>4 DEF LaunchesFirst
  <2>2. CASE op[i] # "pending_approval"
    BY <1>1, <1>5, <2>2 DEF Approve, PC, Handler, Unguarded
  <2>3. QED
    BY <2>1, <2>2
<1>6. CASE Launch(p)
  <2>1. workers[i] = 0 /\ workers' = workers
    BY <1>6 DEF Launch, OnceInv, history
  <2>2. /\ proc'[p].at = i
        /\ proc'[p].pc = "except" \/ (proc'[p].pc = "session" /\ op'[i] = "running")
    BY <1>3, <1>6 DEF Launch, Status, PC, Handler, Unguarded, InTry, Ended
  <2>3. QED
    BY <2>1, <2>2 DEF LaunchesFirst, Settled
<1>7. CASE Conclude(p)
  <2>1. PICK t \in Status, l \in {"gates", "fail"} : JournalMove(p, t, l)
    BY <1>7 DEF Conclude, Status
  <2>2. proc'[p].pc \in {"except", l}
    BY <1>3, <2>1 DEF PC, Handler, Unguarded, InTry, Ended
  <2>3. QED
    BY <2>2 DEF LaunchesFirst
<1>8. CASE SessionFails(p) \/ WorkerEnds(p)
  <2>1. PICK ok \in BOOLEAN : Become(p, [proc[p] EXCEPT !.pc = "conclude", !.ok = ok])
    BY <1>8 DEF SessionFails, WorkerEnds
  <2>2. /\ [proc[p] EXCEPT !.pc = "conclude", !.ok = ok] \in Local
        /\ [proc[p] EXCEPT !.pc = "conclude", !.ok = ok].pc = "conclude"
    BY <1>0 DEF Local, PC, Handler, Unguarded, InTry
  <2>3. QED
    BY <1>2, <2>1, <2>2
<1>9. CASE Complete(p) \/ Advance(p) \/ ResumeView(p)
  <2>1. proc'[p].pc \notin {"launch", "session"}
    BY <1>0, <1>9, LeadsOn DEF Complete, Advance, ResumeView, PC, Handler, Unguarded, InTry, Ended
  <2>2. QED
    BY <2>1 DEF LaunchesFirst
<1>10. CASE BeginRun(p) \/ Prepare(p) \/ PrepareFails(p) \/ RecordStarted(p)
              \/ JournalBegin(p) \/ StartWorker(p) \/ Gates(p)
  BY <1>1, <1>10 DEF BeginRun, Prepare, PrepareFails, RecordStarted, JournalBegin,
     StartWorker, Gates, PC, InTry, Handler, Unguarded, Ended
<1>11. CASE Finish(p) \/ Fail(p) \/ SetToken(p) \/ Raise(p) \/ Handle(p) \/ Recover(p) \/ Crash(p)
  <2>1. \E l \in {"done", "token", "recover", "refail", "retoken", "except", "stopped"} : Goto(p, l)
    BY <1>11 DEF Finish, Fail, TokenPlace, SetToken, Raise, Handle, Recover, Crash
  <2>2. QED
    BY <1>1, <2>1 DEF PC, InTry, Handler, Unguarded, Ended
<1>12. CASE ResumeRead(p) \/ ResumeWrite(p) \/ CancelRead(p) \/ CancelWrite(p)
  BY <1>1, <1>12 DEF ResumeRead, ResumeWrite, CancelRead, CancelWrite, PC, Handler, Unguarded, Ended
<1>13. QED
  BY <1>4, <1>5, <1>6, <1>7, <1>8, <1>9, <1>10, <1>11, <1>12 DEF Step

LEMMA StepOnce == ~Overlap /\ TypeInv /\ OnceInv /\ [Next]_vars => OnceInv'
<1> SUFFICES ASSUME ~Overlap, TypeInv, OnceInv, [Next]_vars PROVE OnceInv'
  OBVIOUS
<1>1. CASE \E p \in Procs : Step(p) \/ Crash(p)
  <2>1. PICK p \in Procs : Step(p) \/ Crash(p)
    BY <1>1
  <2>2. OneExecutor'
    BY <2>1, OneExecutorStep DEF OnceInv
  <2>3. ASSUME NEW i \in Stages
        PROVE  workers'[i] <= 1 /\ (workers'[i] > 0 => op'[i] \in Settled)
    <3>0. workers[i] \in Nat
      BY DEF TypeInv, TypeOK
    <3>1. CASE workers'[i] = workers[i]
      BY <3>1, SettledIsStable DEF OnceInv, WorkerOncePerStage
    <3>2. CASE workers'[i] # workers[i]
      <4>1. i = proc[p].at /\ proc[p].pc = "session" /\ workers'[i] = workers[i] + 1
        BY <2>1, <3>2, StageWrites
      <4>2. workers[i] = 0 /\ op[i] \in Settled
        BY <4>1 DEF OnceInv
      <4>3. QED
        BY <3>0, <4>1, <4>2, SettledIsStable
    <3>3. QED
      BY <3>1, <3>2
  <2>4. ASSUME NEW q \in Procs PROVE LaunchesFirst(q)'
    <3>1. CASE q = p
      BY <2>1, <3>1, LaunchStep
    <3>2. CASE q # p
      <4>1. PICK i \in Stages : proc[q].at = i
        BY DEF TypeInv, TypeOK, Local
      <4>2. proc'[q] = proc[q]
        BY <2>1, <3>2, OnlyOneMoves
      <4>3. proc[q].pc \in {"launch", "session"} => proc[p].pc # "session"
        BY <3>2, ExecutesAlone DEF OnceInv, Executing, InTry, Handler
      <4>4. proc[q].pc \in {"launch", "session"} => workers'[i] = workers[i]
        BY <2>1, <4>3, StageWrites
      <4>5. op[i] \in Settled => op'[i] \in Settled
        BY SettledIsStable
      <4>6. LaunchesFirst(q)
        BY DEF OnceInv, LaunchesFirst
      <4>7. QED
        BY <4>1, <4>2, <4>4, <4>5, <4>6 DEF LaunchesFirst
    <3>3. QED
      BY <3>1, <3>2
  <2>5. QED
    BY <2>2, <2>3, <2>4 DEF OnceInv, WorkerOncePerStage, LaunchesFirst
<1>2. CASE ~(\E p \in Procs : Step(p) \/ Crash(p))
  <2>1. proc' = proc /\ workers' = workers
    BY <1>2 DEF Next, Review, vars, history
  <2>2. OneExecutor' /\ WorkerOncePerStage'
    BY <2>1 DEF OnceInv, OneExecutor, InFlight, WorkerOncePerStage
  <2>3. \A i \in Stages : workers'[i] > 0 => op'[i] \in Settled
    BY <2>1, SettledIsStable DEF OnceInv
  <2>4. ASSUME NEW q \in Procs PROVE LaunchesFirst(q)'
    <3>1. PICK i \in Stages : proc[q].at = i
      BY DEF TypeInv, TypeOK, Local
    <3>2. op[i] \in Settled => op'[i] \in Settled
      BY SettledIsStable
    <3>3. QED
      BY <2>1, <3>1, <3>2 DEF OnceInv, LaunchesFirst
  <2>5. QED
    BY <2>2, <2>3, <2>4 DEF OnceInv, LaunchesFirst
<1>3. QED
  BY <1>1, <1>2

LEMMA InitOnce == Init => OnceInv
BY DEF Init, OnceInv, OneExecutor, WorkerOncePerStage, InFlight, Holding, Executors, Procs

(* If one command at a time executes the run, no worker is started twice,  *)
(* wherever commands fail, are killed, resumed, cancelled or reviewed.     *)
THEOREM WorkIsNotRepeated ==
  ASSUME ~Overlap
  PROVE  Spec => []WorkerOncePerStage
<1>1. OnceInv => WorkerOncePerStage
  BY DEF OnceInv
<1>2. TypeInv /\ OnceInv /\ [Next]_vars => OnceInv'
  BY StepOnce
<1>3. QED
  BY <1>1, <1>2, InitTypes, StepTypes, InitOnce, PTL DEF Spec


-------------------------------------------------------------------------------
\* What happens beside an executing command: the run and its running stage may
\* be cancelled.
LEMMA CancelOnly ==
  ASSUME TypeInv, NEW p \in Cancels, Step(p) \/ Crash(p)
  PROVE  CancelRead(p) \/ CancelWrite(p) \/ Raise(p) \/ Crash(p)
<1>0. p \in Procs /\ p \notin Runs /\ p \notin Resumes
  BY CommandsAssumption DEF Procs
<1>1. ~Executing(proc[p]) /\ proc[p].pc \notin {"resume_write", "resume_view"}
  BY <1>0, ExecutorKind
<1>2. QED
  BY <1>0, <1>1 DEF Step, BeginRun, Prepare, PrepareFails, RecordStarted, JournalBegin,
     Authorize, Approve, Launch, StartWorker, SessionFails, WorkerEnds, Conclude, Gates,
     Complete, Advance, Finish, Fail, SetToken, Handle, Recover, ResumeRead,
     ResumeWrite, ResumeView, Executing, InTry, Handler

LEMMA Bystanders ==
  ASSUME TypeInv, OneExecutor, ~Overlap, NEW p \in Procs, Step(p) \/ Crash(p),
         NEW q \in Procs, q # p,
         Executing(proc[q]) \/ proc[q].pc \in {"resume_write", "resume_view"}
  PROVE  /\ tree' = tree
         /\ run' \in {run, "cancelled"}
         /\ \A i \in Stages : stage'[i] = stage[i] \/
              (stage[i] = "running" /\ stage'[i] = "cancelled" /\ run' = "cancelled")
<1>1. q \in Executors /\ InFlight(q)
  BY ExecutorKind DEF Executors, Procs, InFlight, Executing, InTry, Handler, Ended
<1>2. p \in Cancels
  BY <1>1, WasInFlight DEF OneExecutor, Executors, Procs
<1>3. CASE CancelRead(p) \/ Raise(p) \/ Crash(p)
  BY <1>3 DEF CancelRead, Raise, Crash, table
<1>4. CASE CancelWrite(p)
  BY <1>4 DEF CancelWrite
<1>5. QED
  BY <1>2, <1>3, <1>4, CancelOnly

\* The rows of the stages, after a command wrote the one of its own stage.
LEMMA OwnRowWritten ==
  ASSUME TypeInv, TableInv, NEW p \in Procs, Executing(proc[p]), NEW x \in StageStatus \ {Absent},
         stage' = [stage EXCEPT ![proc[p].at] = x]
  PROVE  /\ \A j \in Stages : j < proc[p].at => stage'[j] = "succeeded"
         /\ \A j \in Stages : j > proc[p].at => stage'[j] = Absent
         /\ stage'[proc[p].at] = x
         /\ \A i, j \in Stages : j < i /\ stage'[i] # Absent => stage'[j] = "succeeded"
<1> DEFINE a == proc[p].at
<1>0. a \in Stages /\ stage \in [Stages -> StageStatus] /\ \A i \in Stages : i \in Nat
  BY PlanAssumption DEF TypeInv, TypeOK, Local, Stages
<1>1. /\ \A j \in Stages : j < a => stage[j] = "succeeded"
      /\ \A j \in Stages : j > a => stage[j] = Absent
  BY DEF TableInv, PlaceInTable
<1>2. /\ \A j \in Stages : j < a => stage'[j] = "succeeded"
      /\ \A j \in Stages : j > a => stage'[j] = Absent
      /\ stage'[a] = x
  BY <1>0, <1>1
<1>3. ASSUME NEW i \in Stages, NEW j \in Stages, j < i, stage'[i] # Absent
      PROVE  stage'[j] = "succeeded"
  <2>1. ~(i > a)
    BY <1>2, <1>3
  <2>2. j < a
    BY <1>0, <1>3, <2>1
  <2>3. QED
    BY <1>2, <2>2
<1>4. QED
  BY <1>2, <1>3

\* How the tables change in a step.
LEMMA TableWrites ==
  ASSUME TypeInv, NEW p \in Procs, Step(p) \/ Crash(p)
  PROVE  /\ run' \in {run, "planned", "running", "succeeded", "failed", "cancelled"}
         /\ \/ stage' = stage
            \/ /\ Executing(proc[p]) /\ run' # Absent
               /\ \E x \in StageStatus \ {Absent} : stage' = [stage EXCEPT ![proc[p].at] = x]
            \/ /\ run' = "cancelled"
               /\ \A i \in Stages : stage'[i] =
                    IF stage[i] = "running" THEN "cancelled" ELSE stage[i]
<1>1. CASE RecordStarted(p) \/ Recover(p) \/ Complete(p) \/ Fail(p)
  BY <1>1 DEF RecordStarted, Recover, Complete, Fail, StageRunning, Executing, InTry, Handler,
     StageStatus, Absent
<1>2. CASE CancelWrite(p)
  BY <1>2 DEF CancelWrite
<1>3. CASE BeginRun(p) \/ Finish(p) \/ SetToken(p) \/ ResumeWrite(p) \/ Approve(p) \/ StartWorker(p)
  BY <1>3 DEF BeginRun, Finish, SetToken, ResumeWrite, Approve, StartWorker, table
<1>4. CASE UNCHANGED table
  BY <1>4 DEF table
<1>5. QED
  BY <1>1, <1>2, <1>3, <1>4 DEF Step, Crash, Prepare, PrepareFails, JournalBegin, Authorize,
     Launch, SessionFails, WorkerEnds, Conclude, Gates, Advance, Raise, Handle, ResumeRead,
     ResumeView, CancelRead

\* No row of a stage stands behind one that has not succeeded.
RowsInOrder ==
  /\ run = Absent => \A i \in Stages : stage[i] = Absent
  /\ \A i, j \in Stages : j < i /\ stage[i] # Absent => stage[j] = "succeeded"

LEMMA RowsStep ==
  ASSUME TypeInv, TableInv, NEW p \in Procs, Step(p) \/ Crash(p)
  PROVE  RowsInOrder'
<1>0. RowsInOrder
  BY DEF TableInv, RowsInOrder
<1>1. run # Absent => run' # Absent
  BY TableWrites DEF Absent
<1>2. CASE stage' = stage
  BY <1>0, <1>1, <1>2 DEF RowsInOrder
<1>3. CASE \E x \in StageStatus \ {Absent} :
             Executing(proc[p]) /\ run' # Absent /\ stage' = [stage EXCEPT ![proc[p].at] = x]
  BY <1>3, OwnRowWritten DEF RowsInOrder
<1>4. CASE /\ run' = "cancelled"
           /\ \A i \in Stages : stage'[i] = IF stage[i] = "running" THEN "cancelled" ELSE stage[i]
  BY <1>0, <1>4 DEF RowsInOrder, Absent
<1>5. QED
  BY <1>2, <1>3, <1>4, TableWrites


-------------------------------------------------------------------------------
\* Where a command may go from where it is, unless it is killed.
Follows(l) ==
  CASE l = "idle"         -> {"prepare", "resume_write", "cancel_write", "raised", "done", "stopped"}
    [] l = "prepare"      -> {"record", "except"}
    [] l = "record"       -> {"dispatch", "except"}
    [] l = "dispatch"     -> {"authorize", "except"}
    [] l = "authorize"    -> {"approve", "launch", "fail", "except"}
    [] l = "approve"      -> {"launch", "except"}
    [] l = "launch"       -> {"session", "except"}
    [] l = "session"      -> {"working", "conclude", "except"}
    [] l = "working"      -> {"conclude", "except"}
    [] l = "conclude"     -> {"gates", "fail", "except"}
    [] l = "gates"        -> {"complete", "fail", "except"}
    [] l = "complete"     -> {"snapshot", "except"}
    [] l = "snapshot"     -> {"prepare", "finish", "except"}
    [] l = "fail"         -> {"token", "except"}
    [] l = "token"        -> {"done", "except"}
    [] l = "except"       -> {"recover", "refail", "stopped"}
    [] l = "recover"      -> {"refail", "stopped"}
    [] l = "refail"       -> {"retoken", "stopped"}
    [] l = "resume_write" -> {"resume_view", "stopped"}
    [] l = "resume_view"  -> {"prepare", "done", "stopped"}
    [] OTHER              -> {"done", "stopped"}

LEMMA StepFollows ==
  ASSUME TypeInv, NEW p \in Procs, Step(p)
  PROVE  proc'[p].pc \in Follows(proc[p].pc)
<1>0. /\ TypeOK
      /\ {"approved", "pending_approval", "running", "succeeded", "failed"} \subseteq Status
      /\ {"approve", "launch", "fail", "session", "gates"} \subseteq PC \ Ended
  BY DEF TypeInv, Status, PC, Handler, Unguarded, InTry, Ended
<1>1. ASSUME NEW t \in Status, NEW l \in PC \ Ended, JournalMove(p, t, l)
      PROVE  proc'[p].pc \in {l, "except"}
  <2>1. \/ proc'[p] = [proc[p] EXCEPT !.pc = l]
        \/ proc'[p] = [proc[p] EXCEPT !.pc = "except"]
    BY <1>0, <1>1, JournalMoveTypes
  <2>2. proc[p] \in Local
    BY <1>0 DEF TypeOK
  <2>3. QED
    BY <2>1, <2>2 DEF Local
<1>2. CASE Authorize(p)
  BY <1>0, <1>1, <1>2 DEF Authorize, Follows
<1>3. CASE Launch(p)
  BY <1>0, <1>1, <1>3 DEF Launch, Follows
<1>4. CASE Conclude(p)
  BY <1>0, <1>1, <1>4 DEF Conclude, Follows
<1>5. CASE SessionFails(p) \/ WorkerEnds(p)
  <2>1. PICK ok \in BOOLEAN : Become(p, [proc[p] EXCEPT !.pc = "conclude", !.ok = ok])
    BY <1>5 DEF SessionFails, WorkerEnds
  <2>2. /\ [proc[p] EXCEPT !.pc = "conclude", !.ok = ok] \in Local
        /\ [proc[p] EXCEPT !.pc = "conclude", !.ok = ok].pc = "conclude"
    BY <1>0 DEF TypeOK, Local, PC, Handler, Unguarded, InTry
  <2>3. QED
    BY <1>0, <1>5, <2>1, <2>2, BecomeMoves DEF SessionFails, WorkerEnds, Follows
<1>6. CASE BeginRun(p) \/ ResumeRead(p) \/ CancelRead(p)
  BY <1>0, <1>6, LeadsOn DEF BeginRun, ResumeRead, CancelRead, MayStart, Follows, PC, Handler,
     Unguarded, InTry, Ended
<1>7. CASE Prepare(p) \/ PrepareFails(p) \/ RecordStarted(p) \/ JournalBegin(p)
             \/ StartWorker(p) \/ Gates(p)
  BY <1>0, <1>7, LeadsOn DEF Prepare, PrepareFails, RecordStarted, JournalBegin,
     StartWorker, Gates, Follows, PC, Handler, Unguarded, InTry
<1>8. CASE Approve(p)
  BY <1>0, <1>8, LeadsOn DEF Approve, Follows, PC, Handler, Unguarded, InTry
<1>9. CASE Complete(p) \/ Advance(p)
  BY <1>0, <1>9, LeadsOn DEF Complete, Advance, Follows, PC, Handler, Unguarded, InTry
<1>10. CASE Finish(p) \/ Fail(p) \/ SetToken(p) \/ Handle(p) \/ Recover(p)
  BY <1>0, <1>10, LeadsOn DEF Finish, Fail, TokenPlace, SetToken, Handle, Recover, Follows,
     PC, InTry, Handler, Unguarded, Ended
<1>11. CASE Raise(p)
  <2>1. CASE proc[p].pc \in InTry \ {"prepare"} /\ Goto(p, "except")
    BY <1>0, <2>1, LeadsOn DEF Follows, PC, InTry, Handler, Unguarded
  <2>2. CASE proc[p].pc \in Unguarded /\ Goto(p, "stopped")
    BY <1>0, <2>2, LeadsOn DEF Follows, PC, Handler, Unguarded, Ended
  <2>3. QED
    BY <1>11, <2>1, <2>2 DEF Raise
<1>12. CASE ResumeWrite(p) \/ ResumeView(p) \/ CancelWrite(p)
  BY <1>0, <1>12, LeadsOn DEF ResumeWrite, ResumeView, CancelWrite, Follows, PC, Handler,
     Unguarded, InTry, Ended
<1>13. QED
  BY <1>2, <1>3, <1>4, <1>5, <1>6, <1>7, <1>8, <1>9, <1>10, <1>11, <1>12 DEF Step

LEMMA CrashFollows ==
  ASSUME TypeInv, NEW p \in Procs, Crash(p)
  PROVE  proc'[p].pc = "stopped" /\ UNCHANGED <<table, tree>>
BY LeadsOn DEF Crash, TypeInv, PC, Handler, Unguarded, Ended

\* An executing command keeps its stage and its source from step to step; the
\* end of a stage changes the source, the next stage the stage.
LEMMA KeepsStage ==
  ASSUME TypeInv, NEW p \in Procs, Step(p), Executing(proc[p]), proc'[p].pc \notin Ended
  PROVE  /\ proc[p].pc # "snapshot" => proc'[p].at = proc[p].at
         /\ proc[p].pc \notin {"snapshot", "complete"} => proc'[p].src = proc[p].src
<1>0. TypeOK /\ proc[p] \in Local
  BY DEF TypeInv, TypeOK
<1>1. ASSUME NEW l, Goto(p, l) PROVE proc'[p].at = proc[p].at /\ proc'[p].src = proc[p].src
  BY <1>0, <1>1 DEF Goto, Become, TypeOK, Local, Holding
<1>2. CASE Authorize(p) \/ Launch(p) \/ Conclude(p)
  BY <1>1, <1>2 DEF Authorize, Launch, Conclude, JournalMove
<1>3. CASE SessionFails(p) \/ WorkerEnds(p)
  <2>1. PICK ok \in BOOLEAN : Become(p, [proc[p] EXCEPT !.pc = "conclude", !.ok = ok])
    BY <1>3 DEF SessionFails, WorkerEnds
  <2>2. proc'[p] = [proc[p] EXCEPT !.pc = "conclude", !.ok = ok]
    BY <1>0, <2>1 DEF Become, TypeOK, Local, Ended
  <2>3. QED
    BY <1>0, <2>2 DEF Local
<1>4. CASE Complete(p)
  <2>1. proc'[p] = [proc[p] EXCEPT !.pc = "snapshot",
                       !.src = IF Mutable(proc[p].at) THEN proc[p].at ELSE @]
    BY <1>0, <1>4 DEF Complete, Become, TypeOK, Local, Ended
  <2>2. QED
    BY <1>0, <1>4, <2>1 DEF Complete, Local
<1>5. CASE Advance(p)
  BY <1>5 DEF Advance
<1>6. CASE Raise(p) /\ proc[p].pc \in {"snapshot", "complete"}
  BY <1>1, <1>6 DEF Raise
<1>7. QED
  BY <1>1, <1>2, <1>3, <1>4, <1>5, <1>6 DEF Step, BeginRun, MayStart, Prepare, PrepareFails,
     RecordStarted, JournalBegin, Approve, StartWorker, Gates, Finish, Fail, SetToken, Raise,
     Handle, Recover, ResumeRead, ResumeWrite, ResumeView, CancelRead, CancelWrite, Executing, InTry, Handler


\* The stage a resume picks is the end of the table.
LEMMA ResumeViewPlace ==
  ASSUME TypeInv, RowsInOrder, NEW p \in Procs, ResumeView(p), Incomplete # {}
  PROVE  /\ proc'[p].pc = "prepare"
         /\ proc'[p].at \in Stages
         /\ proc'[p].at = NextIncomplete
         /\ proc'[p].src = SourceRoot(NextIncomplete)
         /\ stage[NextIncomplete] # Absent
         /\ \A j \in Stages : j < NextIncomplete => stage[j] = "succeeded"
         /\ \A j \in Stages : j > NextIncomplete => stage[j] = Absent
<1> PICK n \in Stages : n = NextIncomplete /\ stage[n] \in {"running", "failed"}
  BY NextIncompleteIn DEF Incomplete
<1> DEFINE loc == [proc[p] EXCEPT !.pc = "prepare", !.at = n, !.src = SourceRoot(n)]
<1>1. SourceRoot(n) \in 0..N
  BY SourceRootIn, PlanAssumption DEF Stages
<1>2. loc \in Local /\ loc.pc = "prepare" /\ loc.at = n /\ loc.src = SourceRoot(n) /\ loc.pc \notin Ended
  BY <1>1 DEF TypeInv, TypeOK, Local, PC, Handler, Unguarded, InTry, Ended
<1>3. Become(p, loc)
  BY DEF ResumeView
<1> HIDE DEF loc
<1>4. proc'[p] = loc
  BY <1>2, <1>3, BecomeMoves DEF TypeInv
<1>5. stage[n] # Absent /\ stage[n] # "succeeded"
  BY DEF Absent
<1>6. \A j \in Stages : j < n => stage[j] = "succeeded"
  BY <1>5 DEF RowsInOrder
<1>7. \A j \in Stages : j > n => stage[j] = Absent
  BY <1>5, PlanAssumption DEF RowsInOrder, Stages
<1>8. QED
  BY <1>2, <1>4, <1>5, <1>6, <1>7

\* The next stage, or the end of the run.
LEMMA AdvancePlace ==
  ASSUME TypeInv, NEW p \in Procs, Advance(p)
  PROVE  \/ /\ proc[p].at < N /\ proc'[p].pc = "prepare"
            /\ proc'[p].at = proc[p].at + 1 /\ proc'[p].src = proc[p].src
         \/ /\ proc[p].at = N /\ proc'[p].pc = "finish" /\ proc'[p].at = N
<1>0. proc[p] \in Local /\ proc[p].at \in 1..N /\ TypeOK
  BY DEF TypeInv, TypeOK, Local, Stages
<1>1. CASE proc[p].at < N
  <2>1. proc'[p] = [proc[p] EXCEPT !.pc = "prepare", !.at = @ + 1]
    BY <1>0, <1>1 DEF Advance, Become, TypeOK, Local, Ended
  <2>2. QED
    BY <1>0, <1>1, <2>1 DEF Local
<1>2. CASE ~(proc[p].at < N)
  <2>1. proc[p].at = N
    BY <1>0, <1>2, PlanAssumption
  <2>2. proc'[p] = [proc[p] EXCEPT !.pc = "finish"]
    BY <1>0, <1>2, GotoMoves DEF Advance, PC, Handler, Unguarded, Ended
  <2>3. QED
    BY <1>0, <2>1, <2>2 DEF Local
<1>3. QED
  BY <1>1, <1>2

LEMMA PlaceStep ==
  ASSUME TypeInv, TableInv, NEW p \in Procs, Step(p) \/ Crash(p)
  PROVE  PlaceInTable(p)'
<1> SUFFICES ASSUME Executing(proc'[p]) PROVE PlaceInTable(p)'
  BY DEF PlaceInTable
<1>0. /\ stage \in [Stages -> StageStatus] /\ proc[p].at \in Stages /\ proc[p] \in Local
      /\ \A i \in Stages : i \in Nat
  BY PlanAssumption DEF TypeInv, TypeOK, Local, Stages
<1>1. Step(p) /\ proc'[p].pc \in Follows(proc[p].pc) /\ proc'[p].pc \notin Ended
  BY StepFollows, CrashFollows DEF Executing, InTry, Handler, Ended
<1>2. CASE Executing(proc[p]) /\ proc[p].pc # "snapshot"
  <2>1. proc'[p].at = proc[p].at
    BY <1>1, <1>2, KeepsStage
  <2>2. /\ \A j \in Stages : j < proc[p].at => stage[j] = "succeeded"
        /\ \A j \in Stages : j > proc[p].at => stage[j] = Absent
        /\ run # Absent
    BY <1>2 DEF TableInv, PlaceInTable
  <2>3. /\ \A j \in Stages : j < proc[p].at => stage'[j] = "succeeded"
        /\ \A j \in Stages : j > proc[p].at => stage'[j] = Absent
        /\ run' # Absent
    <3>1. run' # Absent
      BY <2>2, TableWrites DEF Absent
    <3>2. CASE stage' = stage
      BY <2>2, <3>1, <3>2
    <3>3. CASE \E x \in StageStatus \ {Absent} : stage' = [stage EXCEPT ![proc[p].at] = x]
      BY <1>2, <3>1, <3>3, OwnRowWritten
    <3>4. CASE \A i \in Stages : stage'[i] = IF stage[i] = "running" THEN "cancelled" ELSE stage[i]
      BY <2>2, <3>1, <3>4 DEF Absent
    <3>5. QED
      BY <3>2, <3>3, <3>4, TableWrites
  <2>4. proc'[p].pc = "snapshot" => stage'[proc[p].at] = "succeeded"
    <3>1. CASE Complete(p)
      BY <1>0, <3>1 DEF Complete
    <3>2. CASE ~Complete(p)
      BY <1>1, <3>2, LeadsOn DEF Follows, Step, BeginRun, MayStart, Prepare, PrepareFails,
         RecordStarted, JournalBegin, Authorize, Approve, Launch, StartWorker, SessionFails,
         WorkerEnds, Conclude, Gates, Advance, Finish, Fail, TokenPlace, SetToken, Raise,
            Handle, Recover,
         ResumeRead, ResumeWrite, ResumeView, CancelRead, CancelWrite, TypeInv, PC, Handler, Unguarded
    <3>3. QED
      BY <3>1, <3>2
  <2>5. proc'[p].pc # "finish"
    BY <1>1, <1>2 DEF Follows, Executing, InTry, Handler
  <2>6. proc'[p].pc \in {"token", "retoken"} => stage'[proc[p].at] = "failed"
    <3>1. CASE Fail(p)
      BY <1>0, <3>1 DEF Fail
    <3>2. CASE Raise(p)
      BY <3>2, LeadsOn DEF Raise, TypeInv, PC, Handler, Unguarded, Ended
    <3>3. CASE ~Fail(p) /\ ~Raise(p)
      BY <1>1, <3>3 DEF Follows, Step, BeginRun, MayStart, Prepare, PrepareFails,
         RecordStarted, JournalBegin, Authorize, Approve, Launch, StartWorker, SessionFails,
         WorkerEnds, Conclude, Gates, Advance, Finish, Complete, SetToken, Handle, Recover,
         ResumeRead, ResumeWrite, ResumeView, CancelRead, CancelWrite, InTry
    <3>4. QED
      BY <3>1, <3>2, <3>3
  <2>7. QED
    BY <2>1, <2>3, <2>4, <2>5, <2>6 DEF PlaceInTable
<1>3. CASE proc[p].pc = "snapshot"
  <2>1. CASE Advance(p)
    <3>1. /\ \A j \in Stages : j < proc[p].at => stage[j] = "succeeded"
          /\ \A j \in Stages : j > proc[p].at => stage[j] = Absent
          /\ run # Absent /\ stage[proc[p].at] = "succeeded"
      BY <1>3 DEF TableInv, PlaceInTable, Executing, InTry, Handler
    <3>2. run' = run /\ stage' = stage
      BY <2>1 DEF Advance, table
    <3>3. CASE proc[p].at < N /\ proc'[p].pc = "prepare" /\ proc'[p].at = proc[p].at + 1
      BY <1>0, <3>1, <3>2, <3>3 DEF PlaceInTable
    <3>4. CASE proc[p].at = N /\ proc'[p].pc = "finish" /\ proc'[p].at = N
      BY <3>1, <3>2, <3>4 DEF PlaceInTable
    <3>5. QED
      BY <2>1, <3>3, <3>4, AdvancePlace
  <2>2. CASE Raise(p)
    <3>1. proc'[p].pc = "except" /\ proc'[p].at = proc[p].at
      <4>1. Goto(p, "except")
        BY <1>3, <2>2 DEF Raise, Handler, Unguarded
      <4>2. proc'[p] = [proc[p] EXCEPT !.pc = "except"]
        BY <4>1, GotoMoves DEF TypeInv, PC, Handler, Unguarded, Ended
      <4>3. QED
        BY <1>0, <4>2 DEF Local
    <3>2. run' = run /\ stage' = stage
      BY <2>2 DEF Raise, table
    <3>3. PlaceInTable(p) /\ Executing(proc[p])
      BY <1>3 DEF TableInv, Executing, InTry, Handler
    <3>4. QED
      BY <3>1, <3>2, <3>3 DEF PlaceInTable
  <2>3. QED
    BY <1>1, <1>3, <2>1, <2>2 DEF Step, BeginRun, MayStart, Prepare, PrepareFails,
       RecordStarted, JournalBegin, Authorize, Approve, Launch, StartWorker, SessionFails,
       WorkerEnds, Conclude, Gates, Complete, Finish, Fail, SetToken, Handle, Recover,
       ResumeRead, ResumeWrite, ResumeView, CancelRead, CancelWrite
<1>4. CASE BeginRun(p)
  <2>1. proc[p] = Holding("idle") /\ run = Absent /\ run' # Absent /\ stage' = stage
    BY <1>4 DEF BeginRun, MayStart, TableInv, Absent
  <2>2. proc'[p] = [proc[p] EXCEPT !.pc = "prepare"]
    BY <1>1, <1>4, GotoMoves DEF BeginRun, TypeInv, PC, Handler, Unguarded, InTry, Ended
  <2>3. proc'[p].at = 1 /\ proc'[p].pc = "prepare"
    BY <2>1, <2>2 DEF Holding
  <2>4. QED
    BY <1>0, <2>1, <2>3, PlanAssumption DEF PlaceInTable, TableInv, Stages
<1>5. CASE ResumeView(p)
  <2>1. Incomplete # {}
    BY <1>5, LeadsOn DEF ResumeView, TypeInv, PC, Handler, Unguarded, Ended, Executing, InTry
  <2>2. RowsInOrder
    BY DEF TableInv, RowsInOrder
  <2>3. stage' = stage /\ run' = run
    BY <1>5 DEF ResumeView, table
  <2>4. run # Absent
    BY <2>1, <2>2, NextIncompleteIn, ResumeViewPlace, <1>5 DEF RowsInOrder
  <2>5. QED
    BY <1>5, <2>1, <2>2, <2>3, <2>4, ResumeViewPlace DEF PlaceInTable
<1>6. CASE ~Executing(proc[p]) /\ ~BeginRun(p) /\ ~ResumeView(p)
  <2>1. proc[p].pc \in {"idle", "resume_write", "resume_view", "cancel_write"} \cup Ended
    BY <1>0, <1>6 DEF Executing, Local, PC, Handler, Unguarded
  <2>2. ~Executing(proc'[p])
    BY <1>1, <1>6, <2>1, LeadsOn DEF Follows, Step, Prepare, PrepareFails,
       RecordStarted, JournalBegin, Authorize, Approve, Launch, StartWorker, SessionFails,
       WorkerEnds, Conclude, Gates, Complete, Advance, Finish, Fail, TokenPlace, SetToken,
          Raise, Handle,
       Recover, ResumeRead, ResumeWrite, CancelRead, CancelWrite, Executing, InTry, Ended,
       TypeInv, PC, Handler, Unguarded
  <2>3. QED
    BY <2>2
<1>7. QED
  BY <1>2, <1>3, <1>4, <1>5, <1>6 DEF Executing, InTry, Handler


SerialInv == TypeInv /\ OrderInv /\ OnceInv /\ TableInv

LEMMA StepTable == ~Overlap /\ SerialInv /\ [Next]_vars => TableInv'
<1> SUFFICES ASSUME ~Overlap, SerialInv, [Next]_vars PROVE TableInv'
  OBVIOUS
<1>0. TypeInv /\ OneExecutor /\ TableInv
  BY DEF SerialInv, OnceInv
<1>1. CASE \E p \in Procs : Step(p) \/ Crash(p)
  <2>1. PICK p \in Procs : Step(p) \/ Crash(p)
    BY <1>1
  <2>2. RowsInOrder'
    BY <1>0, <2>1, RowsStep
  <2>3. ASSUME NEW q \in Procs PROVE PlaceInTable(q)'
    <3>1. CASE q = p
      BY <1>0, <2>1, <3>1, PlaceStep
    <3>2. CASE q # p /\ Executing(proc[q])
      <4>1. proc'[q] = proc[q] /\ PlaceInTable(q)
        BY <1>0, <2>1, <3>2, OnlyOneMoves DEF TableInv
      <4>2. /\ run' \in {run, "cancelled"}
            /\ \A i \in Stages : stage'[i] = stage[i] \/
                 (stage[i] = "running" /\ stage'[i] = "cancelled")
        BY <1>0, <2>1, <3>2, Bystanders
      <4>3. proc[q].at \in Stages
        BY <1>0 DEF TypeInv, TypeOK, Local
      <4>4. QED
        BY <3>2, <4>1, <4>2, <4>3 DEF PlaceInTable, Absent
    <3>3. CASE q # p /\ ~Executing(proc[q])
      BY <1>0, <2>1, <3>3, OnlyOneMoves DEF PlaceInTable
    <3>4. QED
      BY <3>1, <3>2, <3>3
  <2>4. ASSUME NEW q \in Procs, proc'[q].pc = "idle" PROVE proc'[q] = Holding("idle")
    <3>1. CASE q = p
      <4>1. proc'[q].pc \in Follows(proc[q].pc) \cup {"stopped"}
        BY <1>0, <2>1, <3>1, StepFollows, CrashFollows
      <4>2. QED
        BY <2>4, <4>1 DEF Follows
    <3>2. CASE q # p
      BY <1>0, <2>1, <2>4, <3>2, OnlyOneMoves DEF TableInv
    <3>3. QED
      BY <3>1, <3>2
  <2>5. QED
    BY <2>2, <2>3, <2>4 DEF TableInv, RowsInOrder
<1>2. CASE ~(\E p \in Procs : Step(p) \/ Crash(p))
  <2>1. UNCHANGED <<run, stage, proc>>
    BY <1>2 DEF Next, Review, vars, table
  <2>2. QED
    BY <1>0, <2>1 DEF TableInv, PlaceInTable
<1>3. QED
  BY <1>1, <1>2

LEMMA InitSerial == Init => SerialInv
<1> SUFFICES ASSUME Init PROVE SerialInv
  OBVIOUS
<1>1. TableInv
  BY DEF Init, TableInv, PlaceInTable, Holding, Executing, InTry, Handler, Absent
<1>2. QED
  BY <1>1, InitTypes, InitOrder, InitOnce DEF SerialInv

LEMMA StepSerial == ~Overlap /\ SerialInv /\ [Next]_vars => SerialInv'
BY StepTypes, StepOrder, StepOnce, StepTable DEF SerialInv

-------------------------------------------------------------------------------
\* The last mutable stage before the first one is none, and before the next one
\* it is this one, if it is mutable, or the one before this one.
LEMMA LastMutableFirst == LastMutableBefore(1) = 0
<1>1. {j \in 1..(1 - 1) : Mutable(j)} = {}
  OBVIOUS
<1>2. LastMutableBefore(1) = CHOOSE j \in {} \cup {0} : \A k \in {} : k <= j
  BY <1>1 DEF LastMutableBefore
<1>3. QED
  BY <1>2

LEMMA LastMutableNext ==
  ASSUME NEW i \in Stages, i < N
  PROVE  LastMutableBefore(i + 1) = IF Mutable(i) THEN i ELSE LastMutableBefore(i)
<1> DEFINE before == {j \in 1..(i - 1) : Mutable(j)}
           next   == {j \in 1..((i + 1) - 1) : Mutable(j)}
           Last(S) == CHOOSE j \in S \cup {0} : \A k \in S : k <= j
<1>1. i \in Nat /\ i >= 1 /\ 1..((i + 1) - 1) = 1..(i - 1) \cup {i}
  BY PlanAssumption DEF Stages
<1>2. LastMutableBefore(i) = Last(before) /\ LastMutableBefore(i + 1) = Last(next)
  BY DEF LastMutableBefore
<1>3. CASE Mutable(i)
  <2>1. next = before \cup {i} /\ \A k \in before : k \in 1..(i - 1)
    BY <1>1, <1>3
  <2>2. i \in next \cup {0} /\ (\A k \in next : k <= i)
    BY <1>1, <2>1
  <2>3. \A j \in next \cup {0} : (\A k \in next : k <= j) => j = i
    BY <1>1, <2>1
  <2> HIDE DEF next, before
  <2>4. Last(next) = i
    BY <2>2, <2>3
  <2>5. LastMutableBefore(i + 1) = i
    BY <1>2, <2>4
  <2>6. QED
    BY <1>3, <2>5
<1>4. CASE ~Mutable(i)
  <2>1. next = before
    BY <1>1, <1>4
  <2>2. QED
    BY <1>2, <1>4, <2>1
<1>5. QED
  BY <1>3, <1>4

\* The source of a resumed stage, all stages before which have succeeded.
LEMMA SourceRootLast ==
  ASSUME NEW i \in Stages, \A j \in Stages : j < i => stage[j] = "succeeded"
  PROVE  SourceRoot(i) = IF Mutable(i) THEN i ELSE LastMutableBefore(i)
<1>1. \A j \in 1..(i - 1) : j \in Stages /\ j < i
  BY PlanAssumption DEF Stages
<1> DEFINE done == {j \in 1..(i - 1) : stage[j] = "succeeded" /\ Mutable(j)}
           all  == {j \in 1..(i - 1) : Mutable(j)}
           Last(S) == CHOOSE j \in S \cup {0} : \A k \in S : k <= j
<1>2. done = all
  BY <1>1
<1>3. SourceRoot(i) = IF Mutable(i) THEN i ELSE Last(done)
  BY DEF SourceRoot
<1>4. LastMutableBefore(i) = Last(all)
  BY DEF LastMutableBefore
<1> HIDE DEF done, all, Last
<1>5. QED
  BY <1>2, <1>3, <1>4


\* Only the preparation of a workspace and the worker change one.
LEMMA TreeWrites ==
  ASSUME NEW p \in Procs, Step(p)
  PROVE  tree' = tree \/ Prepare(p) \/ PrepareFails(p) \/ WorkerEnds(p)
BY DEF Step, BeginRun, RecordStarted, JournalBegin, Authorize, Approve, Launch, StartWorker,
   SessionFails, Conclude, Gates, Complete, Advance, Finish, Fail, SetToken, Raise, Handle,
   Recover, ResumeRead, ResumeWrite, ResumeView, CancelRead, CancelWrite

\* A workspace that is not resumed in place is filled with its source's work.
LEMMA PrepareFills ==
  ASSUME TypeInv, NEW p \in Procs, Prepare(p), proc[p].src \in 1..(proc[p].at - 1)
  PROVE  tree'[proc[p].src] = tree'[proc[p].at]
<1>0. /\ tree \in [Stages -> SUBSET (0..N)] /\ proc[p].at \in Stages
      /\ proc[p].src \in Stages /\ proc[p].src # proc[p].at /\ proc[p].src # 0
  BY PlanAssumption DEF TypeInv, TypeOK, Local, Stages
<1>1. Synchronised(proc[p].at, proc[p].src) = tree[proc[p].src]
  BY <1>0 DEF Synchronised
<1>2. QED
  BY <1>0, <1>1 DEF Prepare

LEMMA SourceStep ==
  ASSUME SerialInv, SourceInv, NEW p \in Procs, Step(p) \/ Crash(p)
  PROVE  SourceOK(p)'
<1> SUFFICES ASSUME proc'[p].pc \in InTry PROVE SourceOK(p)'
  BY DEF SourceOK, Filled
<1>0. /\ TypeInv /\ TableInv /\ SourceOK(p) /\ proc[p] \in Local /\ proc[p].at \in Stages
      /\ Step(p) /\ proc'[p].pc \in Follows(proc[p].pc) /\ proc'[p].pc \notin Ended
  BY StepFollows, CrashFollows DEF SerialInv, SourceInv, TypeInv, TypeOK, Local, InTry, Ended
<1>1. CASE proc[p].pc \in InTry \ {"complete", "snapshot"}
  <2>1. proc'[p].at = proc[p].at /\ proc'[p].src = proc[p].src /\ proc'[p].pc # "snapshot"
    BY <1>0, <1>1, KeepsStage DEF Executing, Follows, InTry
  <2>2. ASSUME proc'[p].pc \in Filled, proc[p].src \in 1..(proc[p].at - 1)
        PROVE  tree'[proc[p].src] \subseteq tree'[proc[p].at]
    <3>1. CASE Prepare(p)
      BY <1>0, <2>2, <3>1, PrepareFills
    <3>2. CASE ~Prepare(p)
      <4>1. proc[p].pc \in Filled
        BY <1>0, <1>1, <2>2, <3>2, LeadsOn DEF Follows, Filled, InTry, Step, BeginRun, MayStart,
           PrepareFails, RecordStarted, JournalBegin, Authorize, Approve, Launch, StartWorker,
           SessionFails, WorkerEnds, Conclude, Gates, Complete, Advance, Finish, Fail,
              TokenPlace, SetToken,
           Raise, Handle, Recover, ResumeRead, ResumeWrite, ResumeView, CancelRead, CancelWrite,
           TypeInv, PC, Handler, Unguarded
      <4>2. tree' = tree
        BY <1>0, <2>2, <3>2, <4>1, TreeWrites DEF PrepareFails, WorkerEnds, Filled, Follows, InTry
      <4>3. QED
        BY <1>0, <2>2, <4>1, <4>2 DEF SourceOK
    <3>3. QED
      BY <3>1, <3>2
  <2>3. QED
    BY <1>0, <1>1, <2>1, <2>2 DEF SourceOK
<1>2. CASE proc[p].pc = "complete"
  <2>1. proc'[p].at = proc[p].at /\ proc'[p].pc = "snapshot"
    BY <1>0, <1>2, KeepsStage DEF Executing, Follows, InTry
  <2>2. Complete(p)
    BY <1>0, <1>2, <2>1, LeadsOn DEF Step, BeginRun, MayStart, Prepare, PrepareFails,
       RecordStarted, JournalBegin, Authorize, Approve, Launch, StartWorker, SessionFails,
       WorkerEnds, Conclude, Gates, Advance, Finish, Fail, TokenPlace, SetToken, Raise, Handle,
          Recover,
       ResumeRead, ResumeWrite, ResumeView, CancelRead, CancelWrite, TypeInv, PC, Handler, Unguarded
  <2>3. proc'[p] = [proc[p] EXCEPT !.pc = "snapshot",
                       !.src = IF Mutable(proc[p].at) THEN proc[p].at ELSE @]
    BY <1>0, <2>2 DEF Complete, Become, TypeInv, TypeOK, Local, Ended
  <2>4. proc'[p].src = IF Mutable(proc[p].at) THEN proc[p].at ELSE proc[p].src
    BY <1>0, <2>3 DEF Local
  <2>5. QED
    BY <1>0, <1>2, <2>1, <2>4 DEF SourceOK, InTry, Filled
<1>3. CASE proc[p].pc = "snapshot"
  <2>1. Advance(p)
    BY <1>0, <1>3, LeadsOn DEF Step, BeginRun, MayStart, Prepare, PrepareFails,
       RecordStarted, JournalBegin, Authorize, Approve, Launch, StartWorker, SessionFails,
       WorkerEnds, Conclude, Gates, Complete, Finish, Fail, TokenPlace, SetToken, Raise,
          Handle, Recover,
       ResumeRead, ResumeWrite, ResumeView, CancelRead, CancelWrite, TypeInv, PC, Handler, Unguarded, InTry
  <2>2. /\ proc[p].at < N /\ proc'[p].pc = "prepare"
        /\ proc'[p].at = proc[p].at + 1 /\ proc'[p].src = proc[p].src
    BY <1>0, <2>1, AdvancePlace DEF InTry
  <2>3. /\ proc[p].src = LastMutableBefore(proc[p].at) \/ (Mutable(proc[p].at) /\ proc[p].src = proc[p].at)
        /\ Mutable(proc[p].at) => proc[p].src = proc[p].at
    BY <1>0, <1>3 DEF SourceOK, InTry
  <2>4. proc'[p].src = LastMutableBefore(proc'[p].at)
    BY <1>0, <2>2, <2>3, LastMutableNext
  <2>5. QED
    BY <2>2, <2>4 DEF SourceOK, Filled, InTry
<1>4. CASE BeginRun(p)
  <2>1. proc[p] = Holding("idle")
    BY <1>0, <1>4 DEF BeginRun, MayStart, TableInv
  <2>2. proc'[p] = [proc[p] EXCEPT !.pc = "prepare"]
    BY <1>0, <1>4, GotoMoves DEF BeginRun, TypeInv, PC, Handler, Unguarded, InTry, Ended
  <2>3. proc'[p].at = 1 /\ proc'[p].src = 0 /\ proc'[p].pc = "prepare"
    BY <2>1, <2>2 DEF Holding
  <2>4. QED
    BY <2>3, LastMutableFirst DEF SourceOK, Filled, InTry
<1>5. CASE ResumeView(p)
  <2>1. Incomplete # {}
    BY <1>0, <1>5, LeadsOn DEF ResumeView, TypeInv, PC, Handler, Unguarded, Ended
  <2>2. RowsInOrder
    BY <1>0 DEF TableInv, RowsInOrder
  <2>3. /\ proc'[p].pc = "prepare" /\ proc'[p].at = NextIncomplete /\ proc'[p].at \in Stages
        /\ proc'[p].src = SourceRoot(NextIncomplete)
        /\ \A j \in Stages : j < NextIncomplete => stage[j] = "succeeded"
    BY <1>0, <1>5, <2>1, <2>2, ResumeViewPlace
  <2>4. SourceRoot(NextIncomplete) =
          IF Mutable(NextIncomplete) THEN NextIncomplete ELSE LastMutableBefore(NextIncomplete)
    BY <2>3, SourceRootLast
  <2>5. QED
    BY <2>3, <2>4 DEF SourceOK, Filled, InTry
<1>6. CASE proc[p].pc \notin InTry /\ ~BeginRun(p) /\ ~ResumeView(p)
  <2>1. FALSE
    BY <1>0, <1>6, LeadsOn DEF Follows, InTry, PC, Handler, Unguarded, Local, Step, Prepare,
       PrepareFails,
       RecordStarted, JournalBegin, Authorize, Approve, Launch, StartWorker, SessionFails,
       WorkerEnds, Conclude, Gates, Complete, Advance, Finish, Fail, TokenPlace, SetToken,
          Raise, Handle,
       Recover, ResumeRead, ResumeWrite, CancelRead, CancelWrite, Ended, TypeInv
  <2>2. QED
    BY <2>1
<1>7. QED
  BY <1>1, <1>2, <1>3, <1>4, <1>5, <1>6

LEMMA StepSource == ~Overlap /\ SerialInv /\ SourceInv /\ [Next]_vars => SourceInv'
<1> SUFFICES ASSUME ~Overlap, SerialInv, SourceInv, [Next]_vars, NEW q \in Procs
             PROVE  SourceOK(q)'
  BY DEF SourceInv
<1>0. TypeInv /\ OneExecutor /\ SourceOK(q)
  BY DEF SerialInv, OnceInv, SourceInv
<1>1. ASSUME proc'[q] = proc[q], tree' = tree PROVE SourceOK(q)'
  BY <1>0, <1>1 DEF SourceOK
<1>2. CASE \E p \in Procs : Step(p) \/ Crash(p)
  <2>1. PICK p \in Procs : Step(p) \/ Crash(p)
    BY <1>2
  <2>2. CASE q = p
    BY <2>1, <2>2, SourceStep
  <2>3. CASE q # p /\ Executing(proc[q])
    BY <1>0, <1>1, <2>1, <2>3, OnlyOneMoves, Bystanders
  <2>4. CASE q # p /\ ~Executing(proc[q])
    BY <1>0, <2>1, <2>4, OnlyOneMoves DEF SourceOK, Executing, Filled
  <2>5. QED
    BY <2>2, <2>3, <2>4
<1>3. CASE ~(\E p \in Procs : Step(p) \/ Crash(p))
  BY <1>1, <1>3 DEF Next, Review, vars
<1>4. QED
  BY <1>2, <1>3

(* A worker that is not resumed in its own workspace builds on the work of *)
(* the last mutable stage before it, and that stage succeeded, however     *)
(* often the run failed, was resumed, cancelled or killed.                 *)
THEOREM WorkBuildsOnLast ==
  ASSUME ~Overlap
  PROVE  Spec => []WorkerBuildsOnLast
<1>1. Init => SourceInv
  BY DEF Init, SourceInv, SourceOK, Holding, Filled, InTry
<1>2. SerialInv /\ SourceInv => WorkerBuildsOnLast
  <2> SUFFICES ASSUME SerialInv, SourceInv, NEW p \in Procs,
                      proc[p].pc = "working", proc[p].src # proc[p].at
               PROVE  LET src == proc[p].src IN
                        /\ src = LastMutableBefore(proc[p].at)
                        /\ src # 0 => op[src] = "succeeded" /\ tree[src] \subseteq tree[proc[p].at]
    BY DEF WorkerBuildsOnLast
  <2>0. proc[p].at \in Stages /\ SourceOK(p) /\ Prior(proc[p].at)
    BY DEF SerialInv, TypeInv, TypeOK, Local, SourceInv, OrderInv, PlaceInOrder
  <2>1. proc[p].src = LastMutableBefore(proc[p].at)
    BY <2>0 DEF SourceOK, InTry
  <2>2. proc[p].src # 0 => proc[p].src \in 1..(proc[p].at - 1)
    BY <2>0, <2>1, LastMutableIn, PlanAssumption DEF Stages
  <2>3. QED
    BY <2>0, <2>1, <2>2 DEF SourceOK, Filled, InTry, Prior
<1>3. SerialInv /\ SourceInv /\ [Next]_vars => SerialInv' /\ SourceInv'
  BY StepSerial, StepSource
<1>4. QED
  BY <1>1, <1>2, <1>3, InitSerial, PTL DEF Spec


-------------------------------------------------------------------------------
\* A command that was cut short stays so.
LEMMA CutShortForGood ==
  ASSUME TypeInv, CutShort, [Next]_vars
  PROVE  CutShort'
<1>1. PICK q \in Executors : proc[q].pc = "stopped" /\ q \in Procs
  BY DEF CutShort, Executors, Procs
<1>2. CASE \E p \in Procs : Step(p) \/ Crash(p)
  <2>1. PICK p \in Procs : Step(p) \/ Crash(p)
    BY <1>2
  <2>2. CASE q # p
    BY <1>1, <2>1, <2>2, OnlyOneMoves DEF CutShort, Executors
  <2>3. CASE q = p
    BY <1>1, <2>1, <2>3 DEF Step, Crash, BeginRun, Prepare, PrepareFails, RecordStarted,
       JournalBegin, Authorize, Approve, Launch, StartWorker, SessionFails, WorkerEnds,
       Conclude, Gates, Complete, Advance, Finish, Fail, SetToken, Raise, Handle, Recover,
       ResumeRead, ResumeWrite, ResumeView, CancelRead, CancelWrite, MayStart, InFlight,
       InTry, Handler, Unguarded, Ended
  <2>4. QED
    BY <2>2, <2>3
<1>3. CASE ~(\E p \in Procs : Step(p) \/ Crash(p))
  BY <1>1, <1>3 DEF Next, Review, vars, CutShort, Executors
<1>4. QED
  BY <1>2, <1>3

\* What RestInv says when no command was cut short.
Resumable ==
  /\ Idle => \A i \in Stages : stage[i] # "running"
  /\ \A p \in Procs : proc[p].pc \in {"resume_write", "resume_view"} => Incomplete # {}
  /\ Idle /\ run \in {"planned", "running", "failed"} => Incomplete # {}

\* A command that executes the run leaves it finished or with a failed stage.
LEMMA ExecutorLeaves ==
  ASSUME SerialInv, NEW p \in Procs, Step(p), Executing(proc[p]), ~Executing(proc'[p]),
         proc'[p].pc # "stopped"
  PROVE  /\ stage' = stage
         /\ \A i \in Stages : stage[i] # "running"
         /\ run' = "succeeded" \/ Incomplete # {}
<1>0. /\ TypeInv /\ PlaceInTable(p) /\ proc[p].at \in Stages
      /\ stage \in [Stages -> StageStatus] /\ \A i \in Stages : i \in 1..N
  BY DEF SerialInv, TypeInv, TypeOK, Local, TableInv, Stages
<1>1. proc[p].pc \in {"finish", "token", "retoken"}
  BY <1>0, StepFollows DEF Follows, Executing, InTry, Handler
<1>2. CASE Finish(p)
  <2>1. \A i \in Stages : stage[i] = "succeeded"
    BY <1>0, <1>2, PlanAssumption DEF Finish, PlaceInTable, Executing, InTry, Handler
  <2>2. QED
    BY <1>2, <2>1 DEF Finish
<1>3. CASE SetToken(p)
  <2>1. /\ stage[proc[p].at] = "failed"
        /\ \A i \in Stages : stage[i] \in {"succeeded", "failed", Absent}
    BY <1>0, <1>3, PlanAssumption DEF SetToken, PlaceInTable, Executing, InTry, Handler
  <2>2. QED
    BY <1>0, <1>3, <2>1 DEF SetToken, Incomplete, Absent
<1>4. ~Raise(p)
  <2>1. Raise(p) => proc'[p].pc \in {"except", "stopped"}
    BY <1>0, LeadsOn DEF Raise, TypeInv, PC, Handler, Unguarded, Ended
  <2>2. QED
    BY <2>1 DEF Executing, Handler
<1>5. QED
  BY <1>1, <1>2, <1>3, <1>4 DEF Step, BeginRun, MayStart, Prepare, PrepareFails, RecordStarted,
     JournalBegin, Authorize, Approve, Launch, StartWorker, SessionFails, WorkerEnds, Conclude,
     Gates, Complete, Advance, Fail, Handle, Recover, ResumeRead, ResumeWrite,
     ResumeView, CancelRead, CancelWrite, InTry

LEMMA RestStep ==
  ASSUME ~Overlap, SerialInv, Resumable, [Next]_vars, NEW p \in Procs, Step(p),
         proc'[p].pc # "stopped"
  PROVE  Resumable'
<1>0. /\ TypeInv /\ OneExecutor /\ stage \in [Stages -> StageStatus]
      /\ proc'[p].pc \in Follows(proc[p].pc)
      /\ \A q \in Procs : q # p => proc'[q] = proc[q]
  BY StepFollows, OnlyOneMoves DEF SerialInv, OnceInv, TypeInv, TypeOK
<1>1. CASE Executing(proc[p])
  <2>1. \A q \in Procs : proc'[q].pc \notin {"resume_write", "resume_view"}
    <3>1. \A q \in Procs : q # p => proc[q].pc \notin {"resume_write", "resume_view"}
      BY <1>0, <1>1, ExecutesAlone
    <3>2. proc'[p].pc \notin {"resume_write", "resume_view"}
      BY <1>0, <1>1 DEF Follows, Executing, InTry, Handler
    <3>3. QED
      BY <1>0, <3>1, <3>2
  <2>2. CASE Executing(proc'[p])
    BY <2>1, <2>2 DEF Resumable, Idle
  <2>3. CASE ~Executing(proc'[p])
    BY <1>1, <2>1, <2>3, ExecutorLeaves DEF Resumable, Incomplete
  <2>4. QED
    BY <2>2, <2>3
<1>2. ASSUME ~Executing(proc[p]), NEW q \in Procs, Executing(proc[q])
      PROVE  Resumable'
  <2>1. q # p /\ Executing(proc'[q])
    BY <1>0, <1>2
  <2>2. p \in Cancels
    <3>1. q \in Executors /\ InFlight(q)
      BY <1>0, <1>2, ExecutorKind DEF Executors, Procs, InFlight, Executing, InTry, Handler, Ended
    <3>2. QED
      BY <1>0, <2>1, <3>1, WasInFlight DEF OneExecutor, Executors, Procs
  <2>3. ASSUME NEW u \in Procs PROVE proc'[u].pc \notin {"resume_write", "resume_view"}
    <3>1. CASE u = p
      BY <2>2, <3>1, StepTypes, ExecutorKind, <1>0 DEF TypeInv, KindsOK
    <3>2. CASE u # p
      BY <1>0, <1>2, <3>2, ExecutesAlone DEF Executing, InTry, Handler
    <3>3. QED
      BY <3>1, <3>2
  <2>4. QED
    BY <2>1, <2>3 DEF Resumable, Idle
<1>3. CASE Idle
  <2>0. /\ ~Executing(proc[p]) /\ \A i \in Stages : stage[i] # "running"
        /\ \A q \in Procs : proc[q].pc \in {"resume_write", "resume_view"} => Incomplete # {}
        /\ run \in {"planned", "running", "failed"} => Incomplete # {}
    BY <1>3 DEF Idle, Resumable
  <2>1. ASSUME Executing(proc'[p]), stage' = stage PROVE Resumable'
    <3>1. \A q \in Procs : proc'[q].pc \in {"resume_write", "resume_view"} => Incomplete # {}
      BY <1>0, <2>0, <2>1 DEF Executing, InTry, Handler
    <3>2. QED
      BY <2>1, <3>1 DEF Resumable, Idle, Incomplete
  <2>2. CASE BeginRun(p)
    <3>1. stage' = stage /\ (Goto(p, "prepare") \/ Goto(p, "stopped"))
      BY <2>2 DEF BeginRun
    <3>2. proc'[p].pc = "prepare"
      BY <1>0, <3>1, LeadsOn DEF TypeInv, PC, InTry, Ended
    <3>3. QED
      BY <2>1, <3>1, <3>2 DEF Executing, InTry
  <2>3. CASE ResumeRead(p)
    <3>1. UNCHANGED <<run, stage>> /\ (proc'[p].pc \in {"resume_write", "resume_view"} => Incomplete # {})
      BY <2>3, LeadsOn, <1>0 DEF ResumeRead, TypeInv, PC, Handler, Unguarded, Ended, table
    <3>2. QED
      BY <1>0, <2>0, <3>1 DEF Resumable, Incomplete
  <2>4. CASE ResumeWrite(p)
    <3>1. Incomplete # {} /\ stage' = stage
      BY <2>0, <2>4 DEF ResumeWrite
    <3>2. QED
      BY <2>0, <3>1 DEF Resumable, Incomplete
  <2>5. CASE ResumeView(p)
    <3>1. Incomplete # {} /\ stage' = stage
      BY <2>0, <2>5 DEF ResumeView, table
    <3>2. Executing(proc'[p])
      BY <1>0, <2>5, <3>1, LeadsOn DEF ResumeView, TypeInv, PC, Handler, Unguarded, InTry, Executing
    <3>3. QED
      BY <2>1, <3>1, <3>2
  <2>6. CASE CancelRead(p)
    <3>1. UNCHANGED <<run, stage>> /\ proc'[p].pc \notin {"resume_write", "resume_view"}
      BY <2>6, LeadsOn, <1>0 DEF CancelRead, TypeInv, PC, Handler, Unguarded, Ended, table
    <3>2. QED
      BY <1>0, <2>0, <3>1 DEF Resumable, Incomplete
  <2>7. CASE CancelWrite(p)
    <3>1. run' = "cancelled" /\ proc'[p].pc = "done"
      BY <1>0, <2>7 DEF CancelWrite, Follows
    <3>2. \A i \in Stages : stage'[i] = stage[i]
      BY <2>0, <2>7 DEF CancelWrite
    <3>3. Incomplete' = Incomplete
      BY <3>2 DEF Incomplete
    <3>4. QED
      BY <1>0, <2>0, <3>1, <3>2, <3>3 DEF Resumable
  <2>8. ~Raise(p)
    <3>1. Raise(p) /\ proc[p].pc \in InTry => Executing(proc[p])
      BY DEF Executing
    <3>2. Raise(p) => proc'[p].pc = "stopped"
      BY <1>0, <2>0, <3>1, LeadsOn DEF Raise, TypeInv, PC, Ended
    <3>3. QED
      BY <3>2
  <2>9. QED
    BY <2>0, <2>2, <2>3, <2>4, <2>5, <2>6, <2>7, <2>8 DEF Step, Prepare, PrepareFails,
       RecordStarted,
       JournalBegin, Authorize, Approve, Launch, StartWorker, SessionFails, WorkerEnds, Conclude,
       Gates, Complete, Advance, Finish, Fail, SetToken, Handle, Recover, Executing, InTry, Handler
<1>4. QED
  BY <1>1, <1>2, <1>3 DEF Idle

LEMMA StepRest == ~Overlap /\ SerialInv /\ RestInv /\ [Next]_vars => RestInv'
<1> SUFFICES ASSUME ~Overlap, SerialInv, RestInv, [Next]_vars, ~CutShort'
             PROVE  RestInv'
  BY DEF RestInv
<1>0. TypeInv /\ ~CutShort
  BY CutShortForGood DEF SerialInv
<1>1. Resumable
  BY <1>0 DEF RestInv, Resumable
<1>2. Resumable'
  <2>1. ASSUME NEW p \in Procs, Step(p) \/ Crash(p), proc'[p].pc = "stopped"
        PROVE  Resumable'
    <3>1. p \in Cancels
      BY <2>1 DEF CutShort, Procs
    <3>2. /\ Raise(p) \/ Crash(p) => UNCHANGED <<run, stage>>
          /\ ~CancelRead(p) /\ ~CancelWrite(p)
      BY <1>0, <2>1, LeadsOn DEF Raise, Crash, CancelRead, CancelWrite, TypeInv, table, PC,
         Unguarded, Ended
    <3>3. UNCHANGED <<run, stage>>
      BY <1>0, <2>1, <3>1, <3>2, CancelOnly
    <3>4. \A q \in Procs : q # p => proc'[q] = proc[q]
      BY <1>0, <2>1, OnlyOneMoves
    <3>5. ~Executing(proc[p]) /\ ~Executing(proc'[p])
      BY <1>0, <2>1, <3>1, ExecutorKind DEF Executing, InTry, Handler
    <3>6. QED
      BY <1>1, <2>1, <3>3, <3>4, <3>5 DEF Resumable, Idle, Incomplete
  <2>2. ASSUME NEW p \in Procs, Step(p) \/ Crash(p), proc'[p].pc # "stopped"
        PROVE  Resumable'
    <3>1. Step(p)
      BY <1>0, <2>2, CrashFollows
    <3>2. QED
      BY <1>1, <2>2, <3>1, RestStep
  <2>3. CASE UNCHANGED <<run, stage, proc>>
    BY <1>1, <2>3 DEF Resumable, Idle, Incomplete
  <2>4. QED
    BY <2>1, <2>2, <2>3 DEF Next, Review, vars, table
<1>3. QED
  BY <1>2 DEF RestInv, Resumable

(* A run that is not over and that nobody executes has a stage that resume *)
(* picks up, unless a command of it was killed, or ended by an exception   *)
(* outside the try block of _execute_plan: no failure inside, at whatever  *)
(* step, leaves a run that can neither be resumed nor counts as over.      *)
THEOREM RestingRunsResume ==
  ASSUME ~Overlap
  PROVE  Spec => []RestingRunResumes
<1>1. Init => RestInv
  BY DEF Init, RestInv, Holding, Absent
<1>2. SerialInv /\ RestInv => RestingRunResumes
  <2>1. AtRest => Idle
    BY DEF AtRest, Idle, InFlight, Executing, InTry, Handler, Ended
  <2>2. QED
    BY <2>1 DEF RestInv, RestingRunResumes, CutShort
<1>3. SerialInv /\ RestInv /\ [Next]_vars => SerialInv' /\ RestInv'
  BY StepSerial, StepRest
<1>4. QED
  BY <1>1, <1>2, <1>3, InitSerial, PTL DEF Spec

===============================================================================
