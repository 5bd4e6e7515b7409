----------------------------- MODULE SessionLeases -----------------------------
(***************************************************************************)
(* ACP worker sessions (acp_runner.py): one session at a time may work on  *)
(* a lock identity (a branch of a project, a worktree).  run_session takes *)
(* two locks: a non-blocking flock on a file under its own state_dir, and  *)
(* a lease row in its journal, which blocks until it is released or its    *)
(* ttl has passed.  The stages of devflow have a state directory each and  *)
(* share the journal of the repository; a session of the CLI that names no *)
(* journal keeps one in its state directory.  Sessions that share neither  *)
(* have no lock in common.                                                 *)
(*                                                                         *)
(* Time is the wall clock of the host, in ticks.  An advance of the clock  *)
(* is held back by a worker at its timeout (subprocess.run kills it) and   *)
(* by a session that has read the clock and has not started its worker for *)
(* Slack ticks (waiting for the database, forking).                        *)
(*                                                                         *)
(* Definitions named A_B are mutants of A, not part of the specification.  *)
(***************************************************************************)
EXTENDS Naturals

CONSTANTS
  Sessions,      \* invocations of run_session
  Lock,          \* Lock[s]: SessionSpec.lock_identity
  Dir,           \* Dir[s]: SessionSpec.state_dir
  Journal,       \* Journal[s]: SessionSpec.effective_journal_db
  Ttl, Timeout,  \* Ttl[s], Timeout[s]: ttl_seconds, timeout_seconds
  Slack,         \* longest time from reading the clock to starting the worker
  Orphans,       \* the sessions that may be killed and leave their worker running
  MaxTime        \* bound on the clock

ASSUME SessionsAssumption ==
  /\ Ttl \in [Sessions -> Nat \ {0}]
  /\ Timeout \in [Sessions -> Nat \ {0}]
  /\ Slack \in Nat
  /\ MaxTime \in Nat
  /\ Orphans \subseteq Sessions

VARIABLES
  now,       \* utc_now_ms
  pc,        \* where each session is
  since,     \* the clock value acquire_lease works with, then the time the
             \* worker was started
  lease      \* the session_lease row each session inserted

vars == <<now, pc, since, lease>>

\* Statuses run_session ends with, and the two ways of not returning.
Ended == {"done", "lock_conflict", "raised", "killed"}
PC == {"start", "stamped", "leased", "running", "finished", "released", "orphaned"} \cup Ended

Lease == [status : {"none", "active", "expired", "released"}, expires : Nat]
NoLease == [status |-> "none", expires |-> 0]

\* branch_lock is held from TryLock to Unlock; the kernel drops it at exit.
HoldsFlock(s) == pc[s] \in {"stamped", "leased", "running", "finished", "released"}

\* The acpx process of session s is alive.
Working(s) == pc[s] \in {"running", "orphaned"}

TypeOK ==
  /\ now \in Nat
  /\ pc \in [Sessions -> PC]
  /\ since \in [Sessions -> Nat]
  /\ lease \in [Sessions -> Lease]

Init ==
  /\ now = 0
  /\ pc = [s \in Sessions |-> "start"]
  /\ since = [s \in Sessions |-> 0]
  /\ lease = [s \in Sessions |-> NoLease]

Goto(s, l) ==
  /\ pc' = [pc EXCEPT ![s] = l]
  /\ since' = [since EXCEPT ![s] = CASE l \in {"stamped", "running"} -> now
                                     [] l = "leased" -> @
                                     [] OTHER        -> 0]

-------------------------------------------------------------------------------
\* branch_lock: LOCK_EX | LOCK_NB on the file of this state_dir and identity.
TryLock(s) ==
  /\ pc[s] = "start"
  /\ IF \E t \in Sessions \ {s} : HoldsFlock(t) /\ Lock[t] = Lock[s] /\ Dir[t] = Dir[s]
     THEN Goto(s, "lock_conflict")
     ELSE Goto(s, "stamped")
  /\ UNCHANGED <<now, lease>>

\* Leases are compared by lock identity within one journal.
SameLease(s, t) == Lock[s] = Lock[t] /\ Journal[s] = Journal[t]

\* An unreleased row of this lock identity that has run out.
Overdue(t, s) == /\ SameLease(s, t)
                 /\ lease[t].status = "active"
                 /\ lease[t].expires <= since[s]

\* Mutant: leases are looked up per state directory.
Blocking_SameDir(t, s) ==
  SameLease(s, t) /\ Dir[t] = Dir[s] /\ lease[t].status = "active" /\ ~Overdue(t, s)

Blocking(t, s) == SameLease(s, t) /\ lease[t].status = "active" /\ ~Overdue(t, s)

\* Mutant: overdue rows are ignored and not expired.
AcquireLease_KeepOverdue(s) ==
  /\ pc[s] = "stamped"
  /\ ~\E t \in Sessions : Blocking(t, s)
  /\ lease' = [lease EXCEPT ![s] = [status |-> "active", expires |-> since[s] + Ttl[s]]]
  /\ Goto(s, "leased")
  /\ UNCHANGED now

(* acquire_lease: its first statement is the UPDATE that expires overdue   *)
(* rows, so the whole call is one write transaction.  A conflict raises    *)
(* inside it and rolls the expiry back.                                    *)
AcquireLease(s) ==
  /\ pc[s] = "stamped"
  /\ ~\E t \in Sessions : Blocking(t, s)
  /\ lease' = [t \in Sessions |->
                 CASE t = s -> [status |-> "active", expires |-> since[s] + Ttl[s]]
                   [] t # s /\ Overdue(t, s) -> [lease[t] EXCEPT !.status = "expired"]
                   [] OTHER -> lease[t]]
  /\ Goto(s, "leased")
  /\ UNCHANGED now

LeaseConflict(s) ==
  /\ pc[s] = "stamped"
  /\ \E t \in Sessions : Blocking(t, s)
  /\ Goto(s, "lock_conflict")
  /\ UNCHANGED <<now, lease>>

\* AcpxAdapter.run starts the worker, or reports that it could not.
StartWorker(s) ==
  /\ pc[s] = "leased"
  /\ Goto(s, "running") \/ Goto(s, "finished")
  /\ UNCHANGED <<now, lease>>

\* The worker exits, or run_command kills it at its timeout.
EndWorker(s) ==
  /\ pc[s] = "running"
  /\ Goto(s, "finished")
  /\ UNCHANGED <<now, lease>>

\* Mutant: the rows of the whole lock identity are released.
ReleaseLease_ByLock(s) ==
  /\ pc[s] = "finished"
  /\ lease' = [t \in Sessions |-> IF SameLease(s, t) /\ lease[t].status = "active"
                                  THEN [lease[t] EXCEPT !.status = "released"]
                                  ELSE lease[t]]
  /\ Goto(s, "released")
  /\ UNCHANGED now

\* release_lease writes its own row by lease_id, whatever its status is now.
ReleaseLease(s) ==
  /\ pc[s] = "finished"
  /\ lease' = [lease EXCEPT ![s].status = "released"]
  /\ Goto(s, "released")
  /\ UNCHANGED now

\* The artifacts are written and the flock is released.
Unlock(s) ==
  /\ pc[s] = "released"
  /\ Goto(s, "done")
  /\ UNCHANGED <<now, lease>>

\* An exception run_session does not handle (undecodable worker output, a
\* journal error) unwinds through branch_lock and leaves the lease active.
Raise(s) ==
  /\ pc[s] \in {"stamped", "leased", "finished", "released"}
  /\ Goto(s, "raised")
  /\ UNCHANGED <<now, lease>>

\* The session process is killed; nothing stops the worker it was waiting for.
Kill(s) ==
  /\ HoldsFlock(s)
  /\ Goto(s, IF s \in Orphans /\ pc[s] = "running" THEN "orphaned" ELSE "killed")
  /\ UNCHANGED <<now, lease>>

OrphanEnds(s) ==
  /\ pc[s] = "orphaned"
  /\ Goto(s, "killed")
  /\ UNCHANGED <<now, lease>>

MayTick ==
  /\ now < MaxTime
  /\ \A s \in Sessions :
       /\ pc[s] = "running" => now < since[s] + Timeout[s]
       /\ pc[s] \in {"stamped", "leased"} => now < since[s] + Slack

Tick ==
  /\ MayTick
  /\ now' = now + 1
  /\ UNCHANGED <<pc, since, lease>>

Step(s) ==
  \/ TryLock(s) \/ AcquireLease(s) \/ LeaseConflict(s) \/ StartWorker(s)
  \/ EndWorker(s) \/ ReleaseLease(s) \/ Unlock(s)
  \/ Raise(s) \/ Kill(s) \/ OrphanEnds(s)

Next == Tick \/ \E s \in Sessions : Step(s)

Spec == Init /\ [][Next]_vars

-------------------------------------------------------------------------------
\* The condition on a command line under which its lease alone excludes: the
\* ttl outlasts start-up and timeout, and the worker does not outlive it.
Timely(s) == Slack + Timeout[s] < Ttl[s] /\ s \notin Orphans

(* Two workers of timely sessions never run on the same lock identity if   *)
(* the sessions share a journal, even from different state directories, or *)
(* a state directory, even over different journals, and whatever other     *)
(* sessions do in between: the lease of such a worker cannot have run out. *)
ExclusiveWorkers ==
  \A s, t \in Sessions :
    /\ Working(s) /\ Working(t) /\ Lock[s] = Lock[t]
    /\ Journal[s] = Journal[t] \/ Dir[s] = Dir[t]
    /\ Timely(s) /\ Timely(t)
    => s = t

(* Whatever the ttl and timeout are, the flock alone excludes two live     *)
(* sessions with the same state directory.                                 *)
ExclusiveInDir ==
  \A s, t \in Sessions :
    pc[s] = "running" /\ pc[t] = "running" /\ Lock[s] = Lock[t] /\ Dir[s] = Dir[t] => s = t

(* The session_lease_active_lock_idx constraint never fires: the check in  *)
(* acquire_lease leaves at most one unreleased row per lock identity in a  *)
(* journal.                                                                *)
OneActiveLease ==
  \A s, t \in Sessions :
    lease[s].status = "active" /\ lease[t].status = "active" /\ SameLease(s, t) => s = t

(* A lease that has not run out is ended only by the session that holds    *)
(* it: a late release by a predecessor whose lease was taken over, or a    *)
(* conflicting attempt, leaves it alone.                                   *)
LeaseIsKept ==
  [][\A s \in Sessions :
       lease[s].status = "active" /\ lease'[s].status # "active" =>
         pc[s] = "finished" \/ lease[s].expires <= now]_lease
===============================================================================
