-------------------------- MODULE SessionLeasesProofs --------------------------
(***************************************************************************)
(* Theorems about SessionLeases, for every set of sessions, locks, state   *)
(* directories, journals, ttls and timeouts.                               *)
(***************************************************************************)
EXTENDS SessionLeases, TLAPS

\* A session that has read the clock read it in the past.
ClockRead == \A s \in Sessions : pc[s] = "stamped" => since[s] <= now

\* The flock admits one session per lock identity and state directory.
FlockExcludes ==
  \A s, t \in Sessions :
    HoldsFlock(s) /\ HoldsFlock(t) /\ Lock[s] = Lock[t] /\ Dir[s] = Dir[t] => s = t

LockInv == TypeOK /\ ClockRead /\ FlockExcludes /\ OneActiveLease

-------------------------------------------------------------------------------
LEMMA GotoType ==
  ASSUME TypeOK, NEW s \in Sessions, NEW l \in PC, Goto(s, l)
  PROVE  /\ pc' \in [Sessions -> PC] /\ since' \in [Sessions -> Nat]
         /\ pc' = [pc EXCEPT ![s] = l]
         /\ \A t \in Sessions \ {s} : since'[t] = since[t]
         /\ l \in {"stamped", "running"} => since'[s] = now
         /\ l = "leased" => since'[s] = since[s]
BY DEF Goto, TypeOK

LEMMA StepType == TypeOK /\ [Next]_vars => TypeOK'
<1> SUFFICES ASSUME TypeOK, [Next]_vars PROVE TypeOK'
  OBVIOUS
<1> USE DEF PC, Ended
<1>1. CASE UNCHANGED vars
  BY <1>1 DEF vars, TypeOK
<1>2. CASE Tick
  BY <1>2 DEF Tick, TypeOK
<1>3. ASSUME NEW s \in Sessions, Step(s) PROVE TypeOK'
  <2>1. now' \in Nat
    BY <1>3 DEF Step, TypeOK, TryLock, AcquireLease, LeaseConflict, StartWorker,
       EndWorker, ReleaseLease, Unlock, Raise, Kill, OrphanEnds
  <2>2. PICK l \in PC : Goto(s, l)
    BY <1>3 DEF Step, TryLock, AcquireLease, LeaseConflict, StartWorker,
       EndWorker, ReleaseLease, Unlock, Raise, Kill, OrphanEnds
  <2>3. pc' \in [Sessions -> PC] /\ since' \in [Sessions -> Nat]
    BY <2>2, GotoType
  <2>4. lease' \in [Sessions -> Lease]
    <3>1. CASE AcquireLease(s)
      BY <3>1, SessionsAssumption DEF AcquireLease, TypeOK, Lease
    <3>2. CASE ReleaseLease(s)
      BY <3>2 DEF ReleaseLease, TypeOK, Lease
    <3>3. CASE lease' = lease
      BY <3>3 DEF TypeOK
    <3>4. QED
      BY <1>3, <3>1, <3>2, <3>3 DEF Step, TryLock, LeaseConflict, StartWorker,
         EndWorker, Unlock, Raise, Kill, OrphanEnds
  <2>5. QED
    BY <2>1, <2>3, <2>4 DEF TypeOK
<1>4. QED
  BY <1>1, <1>2, <1>3 DEF Next

LEMMA StepClockRead == TypeOK /\ ClockRead /\ [Next]_vars => ClockRead'
<1> SUFFICES ASSUME TypeOK, ClockRead, [Next]_vars PROVE ClockRead'
  OBVIOUS
<1>1. CASE UNCHANGED vars
  BY <1>1 DEF vars, ClockRead
<1>2. CASE Tick
  BY <1>2 DEF Tick, TypeOK, ClockRead
<1>3. ASSUME NEW s \in Sessions, Step(s) PROVE ClockRead'
  <2>1. PICK l \in PC : Goto(s, l)
    BY <1>3 DEF Step, TryLock, AcquireLease, LeaseConflict, StartWorker,
       EndWorker, ReleaseLease, Unlock, Raise, Kill, OrphanEnds, PC, Ended
  <2>2. now' = now
    BY <1>3 DEF Step, TryLock, AcquireLease, LeaseConflict, StartWorker,
       EndWorker, ReleaseLease, Unlock, Raise, Kill, OrphanEnds
  <2>3. QED
    BY <2>1, <2>2, GotoType DEF ClockRead, TypeOK
<1>4. QED
  BY <1>1, <1>2, <1>3 DEF Next

LEMMA StepFlock == TypeOK /\ FlockExcludes /\ [Next]_vars => FlockExcludes'
<1> SUFFICES ASSUME TypeOK, FlockExcludes, [Next]_vars PROVE FlockExcludes'
  OBVIOUS
<1> USE DEF HoldsFlock
<1>1. CASE UNCHANGED vars
  BY <1>1 DEF vars, FlockExcludes
<1>2. CASE Tick
  BY <1>2 DEF Tick, FlockExcludes
<1>3. ASSUME NEW s \in Sessions, Step(s) PROVE FlockExcludes'
  <2>1. CASE TryLock(s)
    BY <2>1 DEF TryLock, Goto, FlockExcludes, TypeOK
  <2>2. CASE ~TryLock(s)
    \* every other step leaves s with a flock only if s already held it
    <3>1. PICK l \in PC : /\ pc' = [pc EXCEPT ![s] = l]
                          /\ l \in {"stamped", "leased", "running", "finished", "released"}
                               => HoldsFlock(s)
      BY <1>3, <2>2 DEF Step, Goto, AcquireLease, LeaseConflict, StartWorker, EndWorker,
         ReleaseLease, Unlock, Raise, Kill, OrphanEnds, PC, Ended
    <3>2. QED
      BY <3>1 DEF FlockExcludes, TypeOK
  <2>3. QED
    BY <2>1, <2>2
<1>4. QED
  BY <1>1, <1>2, <1>3 DEF Next

LEMMA StepOneLease == TypeOK /\ OneActiveLease /\ [Next]_vars => OneActiveLease'
<1> SUFFICES ASSUME TypeOK, OneActiveLease, [Next]_vars PROVE OneActiveLease'
  OBVIOUS
<1>1. CASE lease' = lease
  BY <1>1 DEF OneActiveLease
<1>2. ASSUME NEW s \in Sessions, AcquireLease(s) PROVE OneActiveLease'
  <2>1. \A t \in Sessions \ {s} :
          lease'[t].status = "active" => lease[t].status = "active" /\ ~SameLease(t, s)
    BY <1>2 DEF AcquireLease, Blocking, Overdue, SameLease, TypeOK, Lease
  <2>2. QED
    BY <2>1 DEF OneActiveLease, SameLease
<1>3. ASSUME NEW s \in Sessions, ReleaseLease(s) PROVE OneActiveLease'
  BY <1>3 DEF ReleaseLease, OneActiveLease, TypeOK, Lease
<1>4. QED
  BY <1>1, <1>2, <1>3 DEF Next, Step, vars, Tick, TryLock, LeaseConflict, StartWorker,
     EndWorker, Unlock, Raise, Kill, OrphanEnds

LEMMA LocksAlways == Spec => []LockInv
<1>1. Init => LockInv
  BY DEF Init, LockInv, TypeOK, ClockRead, FlockExcludes, OneActiveLease, HoldsFlock,
     NoLease, Lease, PC
<1>2. LockInv /\ [Next]_vars => LockInv'
  BY StepType, StepClockRead, StepFlock, StepOneLease DEF LockInv
<1>3. QED
  BY <1>1, <1>2, PTL DEF Spec

(* acquire_lease never inserts a second unreleased row for a lock identity *)
(* into a journal, whatever the ttls: the unique index on active leases is *)
(* never what stops a session.                                             *)
THEOREM LeaseIsUnique == Spec => []OneActiveLease
<1>1. LockInv => OneActiveLease
  BY DEF LockInv
<1>2. QED
  BY <1>1, LocksAlways, PTL

(* Two live sessions with one state directory never have their workers     *)
(* running on the same lock identity, even when the lease runs out first.  *)
THEOREM FlockIsExclusive == Spec => []ExclusiveInDir
<1>1. LockInv => ExclusiveInDir
  BY DEF LockInv, FlockExcludes, HoldsFlock, ExclusiveInDir
<1>2. QED
  BY <1>1, LocksAlways, PTL

(* A lease that has not run out is ended only by its own session.          *)
THEOREM LeaseIsNotTaken == Spec => LeaseIsKept
<1>1. LockInv /\ [Next]_vars =>
        [\A s \in Sessions :
           lease[s].status = "active" /\ lease'[s].status # "active" =>
             pc[s] = "finished" \/ lease[s].expires <= now]_lease
  <2> SUFFICES ASSUME LockInv, [Next]_vars, NEW s \in Sessions,
                      lease[s].status = "active", lease'[s].status # "active"
               PROVE  pc[s] = "finished" \/ lease[s].expires <= now
    OBVIOUS
  <2>1. CASE \E u \in Sessions : AcquireLease(u)
    <3>1. PICK u \in Sessions : AcquireLease(u)
      BY <2>1
    <3>2. lease[s].expires <= since[u] /\ since[u] <= now
      BY <3>1 DEF AcquireLease, Overdue, LockInv, ClockRead, TypeOK
    <3>3. QED
      BY <3>2 DEF LockInv, TypeOK, Lease
  <2>2. CASE \E u \in Sessions : ReleaseLease(u)
    BY <2>2 DEF ReleaseLease, LockInv, TypeOK
  <2>3. CASE lease' = lease
    BY <2>3
  <2>4. QED
    BY <2>1, <2>2, <2>3 DEF Next, Step, vars, Tick, TryLock, LeaseConflict, StartWorker,
       EndWorker, Unlock, Raise, Kill, OrphanEnds
<1>2. QED
  BY <1>1, LocksAlways, PTL DEF Spec, LeaseIsKept

-------------------------------------------------------------------------------
(* A timely session that may start or has started its worker holds a lease *)
(* that has not run out.  The slack is spent once, between the clock       *)
(* reading the expiry is computed from and the start of the worker.        *)
LeaseHeld(s) ==
  /\ pc[s] \in {"stamped", "leased"} => now <= since[s] + Slack
  /\ pc[s] = "leased" => /\ lease[s].status = "active"
                         /\ lease[s].expires = since[s] + Ttl[s]
  /\ pc[s] = "running" => /\ lease[s].status = "active"
                          /\ now <= since[s] + Timeout[s]
                          /\ since[s] + Ttl[s] <= lease[s].expires + Slack

LeaseInv == \A s \in Sessions : Timely(s) => LeaseHeld(s) /\ pc[s] # "orphaned"

\* No other session finds that lease overdue.
LEMMA NotOverdue ==
  ASSUME LockInv, NEW s \in Sessions, NEW u \in Sessions, Timely(s), LeaseHeld(s),
         pc[s] \in {"leased", "running"}, pc[u] = "stamped"
  PROVE  ~Overdue(s, u)
<1>1. /\ now \in Nat /\ since[s] \in Nat /\ since[u] \in Nat /\ lease[s].expires \in Nat
      /\ Slack \in Nat /\ Ttl[s] \in Nat /\ Timeout[s] \in Nat
  BY SessionsAssumption DEF LockInv, TypeOK, Lease
<1>2. since[u] <= now
  BY DEF LockInv, ClockRead
<1>3. Slack + Timeout[s] < Ttl[s]
  BY DEF Timely
<1>4. now < lease[s].expires
  BY <1>1, <1>3 DEF LeaseHeld
<1>5. QED
  BY <1>1, <1>2, <1>4 DEF Overdue

LEMMA StepLeaseInv == LockInv /\ LeaseInv /\ [Next]_vars => LeaseInv'
<1> SUFFICES ASSUME LockInv, LeaseInv, [Next]_vars, NEW s \in Sessions, Timely(s)
             PROVE  LeaseHeld(s)' /\ pc'[s] # "orphaned"
  BY DEF LeaseInv, Timely
<1>0. TypeOK /\ LeaseHeld(s) /\ pc[s] # "orphaned"
  BY DEF LockInv, LeaseInv
<1>1. CASE UNCHANGED vars
  BY <1>0, <1>1 DEF vars, LeaseHeld
<1>2. CASE Tick
  <2>1. now \in Nat /\ since[s] \in Nat /\ Timeout[s] \in Nat
    BY <1>0, SessionsAssumption DEF TypeOK
  <2>2. QED
    BY <1>0, <1>2, <2>1, SessionsAssumption DEF Tick, MayTick, LeaseHeld
<1>3. ASSUME NEW u \in Sessions, Step(u)
      PROVE  LeaseHeld(s)' /\ pc'[s] # "orphaned"
  <2>0. /\ now \in Nat /\ since[s] \in Nat /\ lease[s] \in Lease /\ Slack \in Nat
        /\ Ttl[s] \in Nat /\ Timeout[s] \in Nat
    BY <1>0, SessionsAssumption DEF TypeOK
  <2>1. now' = now
    BY <1>3 DEF Step, TryLock, AcquireLease, LeaseConflict, StartWorker,
       EndWorker, ReleaseLease, Unlock, Raise, Kill, OrphanEnds
  <2>2. PICK l \in PC : Goto(u, l)
    BY <1>3 DEF Step, TryLock, AcquireLease, LeaseConflict, StartWorker,
       EndWorker, ReleaseLease, Unlock, Raise, Kill, OrphanEnds, PC, Ended
  <2>3. CASE u # s
    <3>1. pc'[s] = pc[s] /\ since'[s] = since[s]
      BY <1>0, <2>2, <2>3, GotoType DEF TypeOK
    <3>2. pc[s] \in {"leased", "running"} => lease'[s] = lease[s]
      <4>1. CASE AcquireLease(u)
        BY <1>0, <2>3, <4>1, NotOverdue DEF AcquireLease
      <4>2. CASE ReleaseLease(u)
        BY <1>0, <2>3, <4>2 DEF ReleaseLease, TypeOK
      <4>3. CASE lease' = lease
        BY <4>3
      <4>4. QED
        BY <1>3, <4>1, <4>2, <4>3 DEF Step, TryLock, LeaseConflict, StartWorker,
           EndWorker, Unlock, Raise, Kill, OrphanEnds
    <3>3. QED
      BY <1>0, <2>1, <3>1, <3>2 DEF LeaseHeld
  <2>4. CASE u = s
    <3>1. CASE TryLock(s)
      BY <1>0, <2>0, <2>1, <3>1 DEF TryLock, Goto, LeaseHeld, TypeOK
    <3>2. CASE AcquireLease(s)
      <4>1. pc'[s] = "leased" /\ since'[s] = since[s]
        BY <1>0, <3>2 DEF AcquireLease, Goto, TypeOK
      <4>2. lease'[s] = [status |-> "active", expires |-> since[s] + Ttl[s]]
        BY <3>2 DEF AcquireLease
      <4>3. now <= since[s] + Slack
        BY <1>0, <3>2 DEF AcquireLease, LeaseHeld
      <4>4. QED
        BY <2>1, <4>1, <4>2, <4>3 DEF LeaseHeld
    <3>3. CASE StartWorker(s)
      <4>1. pc[s] = "leased" /\ lease' = lease
        BY <3>3 DEF StartWorker
      <4>2. pc'[s] \in {"running", "finished"} /\ (pc'[s] = "running" => since'[s] = now)
        BY <1>0, <3>3 DEF StartWorker, Goto, TypeOK
      <4>3. /\ lease[s].status = "active" /\ lease[s].expires = since[s] + Ttl[s]
            /\ now <= since[s] + Slack
        BY <1>0, <4>1 DEF LeaseHeld
      <4>4. now + Ttl[s] <= lease[s].expires + Slack /\ now <= now + Timeout[s]
        BY <2>0, <4>3
      <4>5. QED
        BY <2>1, <4>1, <4>2, <4>3, <4>4 DEF LeaseHeld
    <3>4. CASE ~TryLock(s) /\ ~AcquireLease(s) /\ ~StartWorker(s)
      <4>1. pc'[s] \notin {"stamped", "leased", "running", "orphaned"}
        BY <1>0, <1>3, <2>4, <3>4 DEF Step, Goto, LeaseConflict, EndWorker, ReleaseLease,
           Unlock, Raise, Kill, OrphanEnds, TypeOK, Timely
      <4>2. QED
        BY <4>1 DEF LeaseHeld
    <3>5. QED
      BY <3>1, <3>2, <3>3, <3>4
  <2>5. QED
    BY <2>3, <2>4
<1>4. QED
  BY <1>1, <1>2, <1>3 DEF Next

(* Sessions whose ttl outlasts the start-up delay and the worker's timeout *)
(* and whose worker dies with them never run two workers on one lock       *)
(* identity if they share a journal or a state directory, whatever other   *)
(* sessions do.  Of sessions that share neither it says nothing.           *)
THEOREM WorkersAreExclusive == Spec => []ExclusiveWorkers
<1>1. Init => LeaseInv
  BY DEF Init, LeaseInv, LeaseHeld
<1>2. LockInv /\ LeaseInv /\ [Next]_vars => LeaseInv'
  BY StepLeaseInv
<1>3. LockInv /\ LeaseInv => ExclusiveWorkers
  <2> SUFFICES ASSUME LockInv, LeaseInv, NEW s \in Sessions, NEW t \in Sessions,
                      Working(s), Working(t), Lock[s] = Lock[t], Timely(s), Timely(t),
                      Journal[s] = Journal[t] \/ Dir[s] = Dir[t]
               PROVE  s = t
    BY DEF ExclusiveWorkers
  <2>1. pc[s] = "running" /\ pc[t] = "running"
    BY DEF LeaseInv, Working
  <2>2. CASE Journal[s] = Journal[t]
    BY <2>1, <2>2 DEF LockInv, LeaseInv, LeaseHeld, OneActiveLease, SameLease
  <2>3. CASE Dir[s] = Dir[t]
    BY <2>1, <2>3 DEF LockInv, FlockExcludes, HoldsFlock
  <2>4. QED
    BY <2>2, <2>3
<1>4. QED
  BY <1>1, <1>2, <1>3, LocksAlways, PTL DEF Spec
===============================================================================
