---------------------------- MODULE OperationsProofs ----------------------------
(***************************************************************************)
(* Proofs about the operations on a host that runs: Recovery, its backups, *)
(* and Sidecars, its containers.                                           *)
(***************************************************************************)
EXTENDS Recovery, Sidecars, FiniteSetTheorems, TLAPS

(***************************************************************************)
(* RECOVERY.  Whatever commands are killed, fail or fall back to the tar   *)
(* writer, and whenever prune-retention runs, an archive whose second      *)
(* belongs to one command is whole, is what a restore reads to the end,    *)
(* and stays until its retention ends.                                     *)
(***************************************************************************)


(***************************************************************************)
(* The inductive invariant.                                                *)
(***************************************************************************)

Inode == [by : SUBSET Jobs, closed : SUBSET Jobs, mtime : Nat]

Typed ==
  /\ clock \in Ticks /\ job \in [Jobs -> Job]
  /\ tmp \in [Ticks -> Inodes \cup {0}] /\ arch \in [Ticks -> Inodes \cup {0}]
  /\ inode \in [Inodes -> Inode]
  /\ restore \in [Restores -> Restore]

Began(j, t) == j \in Jobs /\ job[j].at # "idle" /\ job[j].stamp = t

\* The one command that began in that second.
Sole(j, t) == Began(j, t) /\ \A k \in Jobs : Began(k, t) => k = j

\* A file that this command alone opened, and finished.
Finished(i, j) == i \in Inodes /\ inode[i].by = {j} /\ inode[i].closed = {j}

\* Only who opened a file closes it.
ClosersOpened == \A i \in Inodes : inode[i].closed \subseteq inode[i].by

\* Who writes a file has opened it.
WritersOpened ==
  \A j \in Jobs : job[j].at \in {"write", "replace"} =>
    job[j].file \in Inodes /\ j \in inode[job[j].file].by

\* The files under the names of a second were opened by commands of that second.
NamesOfStamp(dir) ==
  \A t \in Ticks : dir[t] # 0 =>
    inode[dir[t]].by # {} /\ \A k \in inode[dir[t]].by : Began(k, t)

\* What the sole command of a second finds under its names.
Finds(j, t) ==
  /\ job[j].at = "open" => tmp[t] = 0
  /\ job[j].at \in {"write", "replace"} =>
       tmp[t] \in {0, job[j].file} /\ inode[job[j].file].by = {j}
  /\ job[j].at = "replace" => Finished(job[j].file, j)
  /\ arch[t] # 0 => job[j].at = "done" /\ Finished(arch[t], j)
  /\ job[j].ok => job[j].at = "done" /\ Finished(job[j].file, j)
                  /\ (arch[t] = job[j].file \/ Old(job[j].file))

SoleWriter == \A t \in Ticks, j \in Jobs : Sole(j, t) => Finds(j, t)

\* Nothing is reported before the command begins.
IdleUnreported == \A j \in Jobs : job[j].at = "idle" => ~job[j].ok

\* What a restore reads was published by the sole command, which is gone.
Reads(r) ==
  LET t == restore[r].stamp IN
  /\ restore[r].at = "read" =>
       /\ \E k \in Jobs : Began(k, t)
       /\ \A j \in Jobs : Sole(j, t) =>
            restore[r].sound /\ job[j].at = "done" /\ Finished(restore[r].file, j)
  /\ restore[r].ok =>
       /\ restore[r].at = "done"
       /\ \E k \in Jobs : Began(k, t)
       /\ \A j \in Jobs : Sole(j, t) => restore[r].sound

ReadsFinished == \A r \in Restores : Reads(r)

RecoveryInv ==
  /\ Typed /\ ClosersOpened /\ WritersOpened /\ NamesOfStamp(tmp) /\ NamesOfStamp(arch)
  /\ SoleWriter /\ IdleUnreported /\ ReadsFinished


-------------------------------------------------------------------------------
(***************************************************************************)
(* Types, and what a step of a command leaves alone.                       *)
(***************************************************************************)

LEMMA TicksFact == Ticks \subseteq Nat /\ 0 \in Ticks /\ 0 \notin Inodes
BY RecoveryAssumption DEF Ticks, Inodes

LEMMA InitTyped == Init => Typed
<1> SUFFICES ASSUME Init PROVE Typed
  OBVIOUS
<1>1. job \in [Jobs -> Job]
  BY DEF Init
<1>2. inode \in [Inodes -> Inode]
  BY DEF Init, Inode
<1> QED
  BY <1>1, <1>2, TicksFact DEF Init, Typed, Restore

LEMMA StepTyped == Typed /\ WritersOpened /\ [Next]_vars => Typed'
<1> SUFFICES ASSUME Typed, WritersOpened, [Next]_vars PROVE Typed'
  OBVIOUS
<1> USE TicksFact
<1>1. CASE UNCHANGED vars
  BY <1>1 DEF vars, Typed
<1>2. CASE Prune
  BY <1>2 DEF Prune, Typed, Without
<1>3. CASE Tick
  BY <1>3, RecoveryAssumption DEF Tick, Typed, Ticks
<1>4. ASSUME NEW j \in Jobs,
             \/ Create(j) \/ UnlinkTmp(j) \/ Open(j) \/ Write(j) \/ CliFails(j) \/ TarFails(j)
             \/ Replace(j) \/ ReplaceFails(j) \/ JobDies(j)
      PROVE Typed'
  <2>0. job[j] \in Job /\ job[j].stamp \in Ticks
    BY DEF Typed, Job
  <2>1. CASE Create(j)
    BY <2>0, <2>1 DEF Create, Typed, Job
  <2>2. CASE UnlinkTmp(j)
    BY <2>0, <2>2 DEF UnlinkTmp, To, Typed, Job
  <2>3. CASE Open(j)
    <3>1. PICK i \in Inodes :
            /\ tmp' = [tmp EXCEPT ![job[j].stamp] = i]
            /\ inode' = [inode EXCEPT ![i] = [by |-> @.by \cup {j}, closed |-> {}, mtime |-> clock]]
            /\ job' = [job EXCEPT ![j].at = "write", ![j].file = i]
      BY <2>3 DEF Open
    <3>2. inode' \in [Inodes -> Inode]
      BY <3>1 DEF Typed, Inode
    <3>3. job' \in [Jobs -> Job]
      BY <3>1, <2>0 DEF Typed, Job
    <3> QED
      BY <2>3, <2>0, <3>1, <3>2, <3>3 DEF Open, Typed
  <2>4. CASE Write(j)
    <3>1. job[j].file \in Inodes
      BY <2>4 DEF Write, WritersOpened
    <3>2. inode' \in [Inodes -> Inode]
      BY <3>1, <2>4 DEF Write, Typed, Inode
    <3>3. job' \in [Jobs -> Job]
      BY <2>4, <2>0 DEF Write, To, Typed, Job
    <3> QED
      BY <2>4, <3>2, <3>3 DEF Write, Typed
  <2>5. CASE CliFails(j)
    <3>1. job' \in [Jobs -> Job]
      BY <2>0, <2>5 DEF CliFails, Typed, Job
    <3> QED
      BY <2>0, <2>5, <3>1 DEF CliFails, Typed
  <2>6. CASE TarFails(j)
    BY <2>0, <2>6 DEF TarFails, To, Typed, Job
  <2>7. CASE Replace(j)
    <3>1. job' \in [Jobs -> Job]
      BY <2>0, <2>7 DEF Replace, Typed, Job
    <3> QED
      BY <2>0, <2>7, <3>1 DEF Replace, Typed
  <2>8. CASE ReplaceFails(j)
    BY <2>0, <2>8 DEF ReplaceFails, To, Typed, Job
  <2>9. CASE JobDies(j)
    BY <2>0, <2>9 DEF JobDies, To, Typed, Job
  <2> QED
    BY <1>4, <2>1, <2>2, <2>3, <2>4, <2>5, <2>6, <2>7, <2>8, <2>9
<1>5. ASSUME NEW r \in Restores, Verify(r) \/ Extract(r) \/ Restored(r) PROVE Typed'
  <2>0. restore[r] \in Restore /\ restore[r].stamp \in Ticks
    BY DEF Typed, Restore
  <2>1. CASE Verify(r)
    <3>1. PICK t \in Ticks, passes \in BOOLEAN :
            restore' = [restore EXCEPT ![r].at = IF passes THEN "extract" ELSE "done", ![r].stamp = t]
      BY <2>1 DEF Verify
    <3>2. restore' \in [Restores -> Restore]
      BY <2>0, <3>1 DEF Typed, Restore
    <3> QED
      BY <2>1, <3>2 DEF Verify, Typed
  <2>2. CASE Extract(r)
    <3>1. arch[restore[r].stamp] \in Inodes \cup {0}
      BY <2>0 DEF Typed
    <3>2. (arch[restore[r].stamp] # 0 /\ Whole(arch[restore[r].stamp])) \in BOOLEAN
      OBVIOUS
    <3> QED
      BY <2>0, <2>2, <3>1, <3>2 DEF Extract, Typed, Restore
  <2>3. CASE Restored(r)
    <3>1. PICK ok \in BOOLEAN :
            restore' = [restore EXCEPT ![r].at = "done", ![r].ok = ok, ![r].sound = @ /\ Whole(restore[r].file)]
      BY <2>3 DEF Restored
    <3>2. (restore[r].sound /\ Whole(restore[r].file)) \in BOOLEAN
      OBVIOUS
    <3>3. restore' \in [Restores -> Restore]
      BY <2>0, <3>1, <3>2 DEF Typed, Restore
    <3> QED
      BY <2>3, <3>3 DEF Restored, Typed
  <2> QED
    BY <1>5, <2>1, <2>2, <2>3
<1> QED
  BY <1>1, <1>2, <1>3, <1>4, <1>5 DEF Next

-------------------------------------------------------------------------------
(***************************************************************************)
(* A step of a command: others, other seconds and others' files stay.      *)
(***************************************************************************)

JobStep(j) ==
  \/ Create(j) \/ UnlinkTmp(j) \/ Open(j) \/ Write(j) \/ CliFails(j) \/ TarFails(j)
  \/ Replace(j) \/ ReplaceFails(j) \/ JobDies(j)

LEMMA JobStepFrame ==
  ASSUME Typed, NEW j \in Jobs, JobStep(j)
  PROVE  /\ clock' = clock /\ restore' = restore
         /\ \A k \in Jobs \ {j} : job'[k] = job[k]
         /\ job[j].at # "done" /\ job'[j].at # "idle"
         /\ job'[j].at \in {"write", "replace"} => Open(j) \/ Write(j)
         /\ IF job[j].at = "idle" THEN job'[j].stamp = clock ELSE job'[j].stamp = job[j].stamp
         /\ \A t \in Ticks : t # job'[j].stamp => tmp'[t] = tmp[t] /\ arch'[t] = arch[t]
<1>0. job[j] \in Job
  BY DEF Typed
<1>1. CASE Create(j)
  BY <1>0, <1>1 DEF Create, Typed, Job
<1>2. CASE UnlinkTmp(j)
  BY <1>0, <1>2 DEF UnlinkTmp, To, Typed, Job
<1>3. CASE Open(j)
  <2>1. PICK i \in Inodes :
          /\ tmp' = [tmp EXCEPT ![job[j].stamp] = i]
          /\ job' = [job EXCEPT ![j].at = "write", ![j].file = i]
    BY <1>3 DEF Open
  <2> QED
    BY <1>0, <1>3, <2>1 DEF Open, Typed, Job
<1>4. CASE Write(j)
  BY <1>0, <1>4 DEF Write, To, Typed, Job
<1>5. CASE CliFails(j)
  BY <1>0, <1>5 DEF CliFails, Typed, Job
<1>6. CASE TarFails(j)
  BY <1>0, <1>6 DEF TarFails, To, Typed, Job
<1>7. CASE Replace(j)
  BY <1>0, <1>7 DEF Replace, Typed, Job
<1>8. CASE ReplaceFails(j)
  BY <1>0, <1>8 DEF ReplaceFails, To, Typed, Job
<1>9. CASE JobDies(j)
  BY <1>0, <1>9 DEF JobDies, To, Typed, Job
<1> QED
  BY <1>1, <1>2, <1>3, <1>4, <1>5, <1>6, <1>7, <1>8, <1>9 DEF JobStep

LEMMA JobStepBegan ==
  ASSUME Typed, NEW j \in Jobs, JobStep(j)
  PROVE  /\ \A k \in Jobs, t \in Ticks : Began(k, t) => Began(k, t)'
         /\ \A k \in Jobs \ {j}, t \in Ticks : Sole(k, t)' => Sole(k, t) /\ job'[j].stamp # t
BY JobStepFrame DEF Began, Sole

\* What one command alone opened, no other command touches.
LEMMA OthersFile ==
  ASSUME RecoveryInv, NEW j \in Jobs, JobStep(j), NEW k \in Jobs \ {j}, NEW t \in Ticks, Sole(k, t)',
         NEW i \in Inodes, inode[i].by = {k}
  PROVE  inode'[i] = inode[i]
<1> USE DEF RecoveryInv
<1>1. Sole(k, t) /\ job'[j].stamp # t
  BY JobStepBegan
<1>2. CASE Open(j)
  <2>0. job[j].stamp \in Ticks /\ job'[j].stamp = job[j].stamp
    BY <1>2, JobStepFrame DEF Open, Typed, Job
  <2>1. PICK n \in Inodes :
          /\ IF tmp[job[j].stamp] # 0 THEN n = tmp[job[j].stamp] ELSE inode[n].by = {}
          /\ inode' = [inode EXCEPT ![n] = [by |-> @.by \cup {j}, closed |-> {}, mtime |-> clock]]
    BY <1>2 DEF Open
  <2>2. n # i
    BY <1>1, <2>0, <2>1 DEF NamesOfStamp, Sole, Began
  <2> QED
    BY <2>1, <2>2 DEF Typed
<1>3. CASE Write(j)
  <2>1. job[j].file # i
    BY <1>3 DEF Write, WritersOpened
  <2> QED
    BY <1>3, <2>1 DEF Write, Typed
<1>4. CASE inode' = inode
  BY <1>4
<1> QED
  BY <1>2, <1>3, <1>4 DEF JobStep, Create, UnlinkTmp, CliFails, TarFails, Replace, ReplaceFails, JobDies

\* The sole command of a second still finds what it did when nothing of its own
\* changed but for old files that went.
LEMMA StillFinds ==
  ASSUME Typed, Typed', NEW k \in Jobs, NEW t \in Ticks, Finds(k, t),
         clock' >= clock, job'[k] = job[k], tmp'[t] \in {0, tmp[t]},
         \/ arch'[t] = arch[t]
         \/ arch'[t] = 0 /\ Old(arch[t]),
         \A i \in Inodes : inode[i].by = {k} => inode'[i] = inode[i],
         job[k].at \in {"write", "replace"} => job[k].file \in Inodes
  PROVE  Finds(k, t)'
<1>1. ASSUME NEW i \in Inodes, Finished(i, k) PROVE Finished(i, k)' /\ (Old(i) => Old(i)')
  <2>1. inode'[i] = inode[i]
    BY <1>1 DEF Finished
  <2>2. clock \in Nat /\ clock' \in Nat /\ inode[i].mtime \in Nat /\ Retain \in Nat
    BY RecoveryAssumption, TicksFact DEF Typed, Inode
  <2>3. Old(i) => Old(i)'
    BY <2>1, <2>2 DEF Old
  <2> QED
    BY <1>1, <2>1, <2>3 DEF Finished
<1>2. job[k].ok => Finished(job[k].file, k)
  BY DEF Finds
<1>3. job[k].ok => (arch'[t] = job[k].file \/ Old(job[k].file)')
  BY <1>1, <1>2 DEF Finds, Finished
<1>4. arch'[t] # 0 => job[k].at = "done" /\ arch'[t] \in Inodes
                     /\ inode'[arch'[t]].by = {k} /\ inode'[arch'[t]].closed = {k}
  BY <1>1 DEF Finds, Finished
<1>5. job[k].at \in {"write", "replace"} => inode'[job[k].file].by = {k}
  BY DEF Finds
<1>6. job[k].at = "replace" => Finished(job[k].file, k)'
  BY <1>1 DEF Finds, Finished
<1>7. job[k].ok => Finished(job[k].file, k)'
  BY <1>1, <1>2 DEF Finished
<1>8. job[k].at = "open" => tmp'[t] = 0
  BY DEF Finds
<1> QED
  BY <1>3, <1>4, <1>5, <1>6, <1>7, <1>8 DEF Finds, Finished

-------------------------------------------------------------------------------
(***************************************************************************)
(* The invariant holds after every step.                                   *)
(***************************************************************************)

LEMMA JobStepWriters ==
  ASSUME RecoveryInv, NEW j \in Jobs, JobStep(j)
  PROVE  WritersOpened' /\ ClosersOpened'
<1> USE DEF RecoveryInv
<1>0. job[j] \in Job
  BY DEF Typed
<1>1. ASSUME NEW k \in Jobs, k # j, job'[k].at \in {"write", "replace"}
      PROVE  job'[k].file \in Inodes /\ k \in inode'[job'[k].file].by
  <2>1. job'[k] = job[k]
    BY <1>1, JobStepFrame
  <2>2. job[k].file \in Inodes /\ k \in inode[job[k].file].by
    BY <1>1, <2>1 DEF WritersOpened
  <2>3. inode[job[k].file].by \subseteq inode'[job[k].file].by
    <3>1. CASE Open(j)
      BY <2>2, <3>1 DEF Open, Typed, Inode
    <3>2. CASE Write(j)
      BY <2>2, <3>2 DEF Write, Typed, Inode
    <3> QED
      BY <3>1, <3>2 DEF JobStep, Create, UnlinkTmp, CliFails, TarFails, Replace, ReplaceFails, JobDies
  <2> QED
    BY <2>1, <2>2, <2>3
<1>2. ASSUME job'[j].at \in {"write", "replace"}
      PROVE  job'[j].file \in Inodes /\ j \in inode'[job'[j].file].by
  <2>1. CASE Open(j)
    BY <2>1 DEF Open, Typed, Inode, Job
  <2>2. CASE Write(j)
    BY <1>0, <2>2 DEF Write, To, WritersOpened, Typed, Inode, Job
  <2> QED
    BY <1>2, <2>1, <2>2, JobStepFrame
<1>3. ClosersOpened'
  <2>1. CASE Open(j)
    BY <2>1 DEF Open, ClosersOpened, Typed, Inode
  <2>2. CASE Write(j)
    BY <2>2 DEF Write, ClosersOpened, WritersOpened, Typed, Inode
  <2> QED
    BY <2>1, <2>2 DEF JobStep, Create, UnlinkTmp, CliFails, TarFails, Replace, ReplaceFails,
       JobDies, ClosersOpened
<1> QED
  BY <1>1, <1>2, <1>3 DEF WritersOpened

\* Names only lose their file, and archives take over a temporary name's.
LEMMA NamesKept ==
  ASSUME RecoveryInv, Typed', \A i \in Inodes : inode'[i].by = inode[i].by,
         \A k \in Jobs, t \in Ticks : Began(k, t) => Began(k, t)',
         \A t \in Ticks : tmp'[t] \in {0, tmp[t]} /\ arch'[t] \in {0, tmp[t], arch[t]}
  PROVE  NamesOfStamp(tmp)' /\ NamesOfStamp(arch)'
<1> USE DEF RecoveryInv, NamesOfStamp, Typed
<1>1. ASSUME NEW t \in Ticks, NEW i \in {tmp[t], arch[t]}, i # 0
      PROVE  inode'[i].by # {} /\ \A k \in inode'[i].by : Began(k, t)'
  <2>1. i \in Inodes /\ inode[i].by # {} /\ \A k \in inode[i].by : Began(k, t)
    BY <1>1
  <2>2. \A k \in inode[i].by : k \in Jobs
    BY <2>1 DEF Began
  <2> QED
    BY <2>1, <2>2
<1> QED
  BY <1>1

LEMMA JobStepNames ==
  ASSUME RecoveryInv, Typed', NEW j \in Jobs, JobStep(j)
  PROVE  NamesOfStamp(tmp)' /\ NamesOfStamp(arch)'
<1> USE DEF RecoveryInv
<1>0. PICK u \in Ticks : u = job[j].stamp
  BY DEF Typed, Job
<1>1. \A k \in Jobs, t \in Ticks : Began(k, t) => Began(k, t)'
  BY JobStepBegan
<1>2. CASE Open(j)
  <2>1. PICK n \in Inodes :
          /\ IF tmp[u] # 0 THEN n = tmp[u] ELSE inode[n].by = {}
          /\ tmp' = [tmp EXCEPT ![u] = n]
          /\ inode' = [inode EXCEPT ![n] = [by |-> @.by \cup {j}, closed |-> {}, mtime |-> clock]]
    BY <1>0, <1>2 DEF Open
  <2>2. Began(j, u)'
    BY <1>0, <1>1, <1>2 DEF Open, Began
  <2>3. inode[n].by \subseteq Jobs /\ inode'[n].by = inode[n].by \cup {j}
    BY <2>1 DEF Typed, Inode
  <2>4. \A k \in inode[n].by : Began(k, u)
    BY <1>0, <2>1, TicksFact DEF NamesOfStamp
  <2>5. \A k \in inode'[n].by : Began(k, u)'
    BY <1>0, <1>1, <2>2, <2>3, <2>4
  <2>6. ASSUME NEW t \in Ticks, NEW i \in Inodes, i \in {tmp[t], arch[t]}, i = n
        PROVE  t = u
    BY <1>0, <2>1, <2>4, <2>6, TicksFact DEF NamesOfStamp, Began
  <2>7. ASSUME NEW t \in Ticks, NEW i \in Inodes, i = tmp'[t] \/ i = arch'[t]
        PROVE  inode'[i].by # {} /\ \A k \in inode'[i].by : Began(k, t)'
    <3>1. CASE i = n
      <4>1. t = u
        BY <1>0, <1>2, <2>1, <2>6, <2>7, <3>1 DEF Open, Typed
      <4> QED
        BY <2>3, <2>5, <3>1, <4>1
    <3>2. CASE i # n
      <4>1. i \in {tmp[t], arch[t]} /\ inode'[i] = inode[i]
        BY <1>0, <1>2, <2>1, <2>7, <3>2 DEF Open, Typed
      <4>2. inode[i].by # {} /\ \A k \in inode[i].by : Began(k, t)
        BY <4>1, TicksFact DEF NamesOfStamp
      <4>3. inode[i].by \subseteq Jobs
        BY DEF Typed, Inode
      <4> QED
        BY <1>1, <4>1, <4>2, <4>3
    <3> QED
      BY <3>1, <3>2
  <2> QED
    BY <2>7 DEF NamesOfStamp, Typed
<1>3. CASE ~Open(j)
  <2>1. \A i \in Inodes : inode'[i].by = inode[i].by
    BY <1>0, <1>3 DEF JobStep, Create, UnlinkTmp, Write, CliFails, TarFails, Replace, ReplaceFails,
       JobDies, Typed, Inode
  <2>2. \A t \in Ticks : tmp'[t] \in {0, tmp[t]} /\ arch'[t] \in {0, tmp[t], arch[t]}
    BY <1>0, <1>3 DEF JobStep, Create, UnlinkTmp, Write, CliFails, TarFails, Replace, ReplaceFails,
       JobDies, Typed
  <2> QED
    BY <1>1, <2>1, <2>2, NamesKept
<1> QED
  BY <1>2, <1>3

LEMMA JobStepFinds ==
  ASSUME RecoveryInv, Typed', NEW j \in Jobs, JobStep(j), NEW t \in Ticks, Sole(j, t)'
  PROVE  Finds(j, t)'
<1> USE DEF RecoveryInv
<1>0. job[j] \in Job /\ job'[j].stamp = t
  BY DEF Typed, Sole, Began
<1>1. CASE Create(j)
  <2>1. ASSUME NEW k \in Jobs, Began(k, t) PROVE FALSE
    <3>1. Began(k, t)'
      BY <2>1, JobStepBegan
    <3>2. k = j
      BY <3>1 DEF Sole
    <3> QED
      BY <1>1, <2>1, <3>2 DEF Create, Began
  <2>2. arch[t] = 0
    BY <2>1 DEF NamesOfStamp, Began
  <2>3. ~job[j].ok
    BY <1>1 DEF Create, IdleUnreported
  <2> QED
    BY <1>0, <1>1, <2>2, <2>3 DEF Create, Finds, Typed
<1>2. CASE job[j].at # "idle"
  <2>1. job[j].stamp = t /\ Sole(j, t) /\ Finds(j, t)
    <3>1. job[j].stamp = t /\ Began(j, t)
      BY <1>0, <1>2, JobStepFrame DEF Began
    <3>2. Sole(j, t)
      BY <3>1, JobStepBegan DEF Sole
    <3> QED
      BY <3>1, <3>2 DEF SoleWriter
  <2>2. ~job[j].ok /\ arch[t] = 0
    BY <2>1, JobStepFrame DEF Finds
  <2>3. CASE UnlinkTmp(j)
    BY <1>0, <2>1, <2>2, <2>3 DEF UnlinkTmp, To, Finds, Typed, Job
  <2>4. CASE Open(j)
    <3>1. tmp[t] = 0
      BY <2>1, <2>4 DEF Open, Finds
    <3>2. PICK n \in Inodes :
            /\ inode[n].by = {}
            /\ tmp' = [tmp EXCEPT ![t] = n]
            /\ inode' = [inode EXCEPT ![n] = [by |-> @.by \cup {j}, closed |-> {}, mtime |-> clock]]
            /\ job' = [job EXCEPT ![j].at = "write", ![j].file = n]
      BY <2>1, <2>4, <3>1 DEF Open
    <3>3. job'[j].at = "write" /\ job'[j].file = n /\ ~job'[j].ok
      BY <1>0, <2>2, <3>2 DEF Typed, Job
    <3>4. inode'[n].by = {j} /\ tmp'[t] = n
      BY <3>2 DEF Typed
    <3> QED
      BY <2>2, <2>4, <3>3, <3>4 DEF Open, Finds
  <2>5. CASE Write(j)
    <3>1. tmp[t] \in {0, job[j].file} /\ inode[job[j].file].by = {j} /\ job[j].file \in Inodes
      BY <2>1, <2>5 DEF Write, Finds, WritersOpened
    <3>2. job'[j].at = "replace" /\ job'[j].file = job[j].file /\ ~job'[j].ok
      BY <1>0, <2>2, <2>5 DEF Write, To, Typed, Job
    <3>3. inode'[job[j].file].by = {j}
          /\ inode'[job[j].file].closed = inode[job[j].file].closed \cup {j}
      BY <2>5, <3>1 DEF Write, Typed, Inode
    <3>4. inode[job[j].file].closed \subseteq {j}
      BY <3>1 DEF ClosersOpened
    <3> QED
      BY <2>2, <2>5, <3>1, <3>2, <3>3, <3>4 DEF Write, Finds, Finished
  <2>6. CASE CliFails(j)
    BY <1>0, <2>1, <2>2, <2>6 DEF CliFails, Finds, Typed, Job
  <2>7. CASE TarFails(j)
    BY <1>0, <2>1, <2>2, <2>7 DEF TarFails, To, Finds, Typed, Job
  <2>8. CASE Replace(j)
    <3>1. tmp[t] = job[j].file /\ Finished(job[j].file, j)
      BY <2>1, <2>8 DEF Replace, Finds
    <3>2. job'[j].at = "done" /\ job'[j].file = job[j].file /\ arch'[t] = job[j].file /\ inode' = inode
      BY <1>0, <2>1, <2>8, <3>1 DEF Replace, Typed, Job
    <3> QED
      BY <3>1, <3>2 DEF Finds, Finished
  <2>9. CASE ReplaceFails(j)
    BY <1>0, <2>1, <2>2, <2>9 DEF ReplaceFails, To, Finds, Typed, Job
  <2>10. CASE JobDies(j)
    BY <1>0, <2>1, <2>2, <2>10 DEF JobDies, To, Finds, Typed, Job
  <2> QED
    BY <1>2, <2>3, <2>4, <2>5, <2>6, <2>7, <2>8, <2>9, <2>10 DEF JobStep, Create
<1> QED
  BY <1>1, <1>2, JobStepFrame DEF JobStep, UnlinkTmp, Open, Write, CliFails, TarFails, Replace,
     ReplaceFails, JobDies

LEMMA JobStepReads ==
  ASSUME RecoveryInv, Typed', NEW j \in Jobs, JobStep(j) PROVE ReadsFinished'
<1> USE DEF RecoveryInv
<1> SUFFICES ASSUME NEW r \in Restores, NEW t \in Ticks, t = restore[r].stamp,
                    restore[r].at = "read" \/ restore[r].ok
             PROVE  /\ restore[r].ok => restore[r].at = "done"
                    /\ \E k \in Jobs : Began(k, t)'
                    /\ \A k \in Jobs : Sole(k, t)' =>
                         /\ restore[r].sound
                         /\ restore[r].at = "read" =>
                              job'[k].at = "done" /\ Finished(restore[r].file, k)'
  <2>1. restore' = restore
    BY JobStepFrame
  <2> QED
    BY <2>1 DEF ReadsFinished, Reads, Typed, Restore
<1>1. PICK b \in Jobs : Began(b, t)
  BY DEF ReadsFinished, Reads
<1>2. Began(b, t)'
  BY <1>1, JobStepBegan
<1>3. ASSUME NEW k \in Jobs, Sole(k, t)'
      PROVE  /\ restore[r].sound
             /\ restore[r].at = "read" => job'[k].at = "done" /\ Finished(restore[r].file, k)'
  <2>1. k = b /\ Sole(k, t)
    BY <1>1, <1>2, <1>3, JobStepBegan DEF Sole
  <2>2. CASE restore[r].at = "read"
    <3>1. restore[r].sound /\ job[k].at = "done" /\ Finished(restore[r].file, k)
      BY <2>1, <2>2 DEF ReadsFinished, Reads
    <3>2. k # j /\ job'[k] = job[k]
      BY <3>1, JobStepFrame
    <3>3. inode'[restore[r].file] = inode[restore[r].file]
      BY <1>3, <3>1, <3>2, OthersFile DEF Finished
    <3> QED
      BY <3>1, <3>2, <3>3, JobStepFrame DEF Finished
  <2>3. CASE restore[r].at # "read"
    BY <2>1, <2>3 DEF ReadsFinished, Reads
  <2> QED
    BY <2>2, <2>3
<1> QED
  BY <1>2, <1>3 DEF ReadsFinished, Reads

LEMMA JobStepInv == ASSUME RecoveryInv, Typed', NEW j \in Jobs, JobStep(j) PROVE RecoveryInv'
<1> USE DEF RecoveryInv
<1>1. SoleWriter'
  <2> SUFFICES ASSUME NEW t \in Ticks, NEW k \in Jobs, Sole(k, t)' PROVE Finds(k, t)'
    BY DEF SoleWriter
  <2>1. CASE k = j
    BY <2>1, JobStepFinds
  <2>2. CASE k # j
    <3>1. Sole(k, t) /\ job'[j].stamp # t
      BY <2>2, JobStepBegan
    <3>2. Finds(k, t)
      BY <3>1 DEF SoleWriter
    <3>3. clock' = clock /\ clock \in Nat /\ job'[k] = job[k] /\ tmp'[t] = tmp[t] /\ arch'[t] = arch[t]
      BY <2>2, <3>1, JobStepFrame, TicksFact DEF Typed
    <3>4. \A i \in Inodes : inode[i].by = {k} => inode'[i] = inode[i]
      BY <2>2, OthersFile
    <3>5. clock' >= clock
      BY <3>3
    <3> QED
      BY <3>2, <3>3, <3>4, <3>5, StillFinds DEF WritersOpened
  <2> QED
    BY <2>1, <2>2
<1>2. IdleUnreported'
  BY JobStepFrame DEF IdleUnreported
<1> QED
  BY <1>1, <1>2, JobStepWriters, JobStepNames, JobStepReads

\* Prune, the clock and restores change neither commands nor files.
LEMMA OtherStepInv ==
  ASSUME RecoveryInv, Typed', job' = job, inode' = inode, clock' \in {clock, clock + 1},
         \A t \in Ticks :
           /\ tmp'[t] \in {0, tmp[t]}
           /\ \/ arch'[t] = arch[t]
              \/ arch'[t] = 0 /\ Old(arch[t])
  PROVE  /\ ClosersOpened' /\ WritersOpened' /\ NamesOfStamp(tmp)' /\ NamesOfStamp(arch)'
         /\ SoleWriter' /\ IdleUnreported'
<1> USE DEF RecoveryInv
<1>1. \A k, t : (Began(k, t) <=> Began(k, t)') /\ (Sole(k, t) <=> Sole(k, t)')
  BY DEF Began, Sole
<1>2. NamesOfStamp(tmp)' /\ NamesOfStamp(arch)'
  BY <1>1, NamesKept
<1>3. SoleWriter'
  <2>1. clock \in Nat /\ clock' >= clock
    BY TicksFact DEF Typed
  <2> SUFFICES ASSUME NEW t \in Ticks, NEW k \in Jobs, Sole(k, t) PROVE Finds(k, t)'
    BY <1>1 DEF SoleWriter
  <2>2. Finds(k, t)
    BY DEF SoleWriter
  <2> QED
    BY <2>1, <2>2, StillFinds DEF WritersOpened
<1> QED
  BY <1>2, <1>3 DEF ClosersOpened, WritersOpened, IdleUnreported

LEMMA ReadsKept ==
  ASSUME RecoveryInv, job' = job, inode' = inode, restore' = restore PROVE ReadsFinished'
BY DEF RecoveryInv, ReadsFinished, Reads, Began, Sole, Finished

LEMMA WholeIsFinished ==
  ASSUME Typed, NEW i \in Inodes, NEW j \in Jobs, Finished(i, j) PROVE Whole(i)
BY FS_Singleton DEF Finished, Whole

LEMMA RestoreReads ==
  ASSUME RecoveryInv, NEW r \in Restores, Verify(r) \/ Extract(r) \/ Restored(r)
  PROVE  ReadsFinished'
<1> USE DEF RecoveryInv
<1>0. restore[r] \in Restore /\ job' = job /\ inode' = inode
  BY DEF Typed, Verify, Extract, Restored
<1>1. \A k, t : (Began(k, t) <=> Began(k, t)') /\ (Sole(k, t) <=> Sole(k, t)')
  BY <1>0 DEF Began, Sole
<1>2. ASSUME NEW q \in Restores, restore'[q] = restore[q] PROVE Reads(q)'
  BY <1>0, <1>1, <1>2 DEF ReadsFinished, Reads, Finished
<1>3. Reads(r)'
  <2>1. CASE Verify(r)
    <3>1. PICK t \in Ticks, passes \in BOOLEAN :
            restore' = [restore EXCEPT ![r].at = IF passes THEN "extract" ELSE "done", ![r].stamp = t]
      BY <2>1 DEF Verify
    <3>2. ~restore[r].ok
      BY <2>1 DEF Verify, ReadsFinished, Reads
    <3>3. restore'[r].at # "read" /\ ~restore'[r].ok
      BY <1>0, <3>1, <3>2 DEF Typed, Restore
    <3> QED
      BY <3>3 DEF Reads
  <2>2. CASE Extract(r)
    <3>1. PICK t \in Ticks, i \in Inodes \cup {0} : t = restore[r].stamp /\ i = arch[t]
      BY <1>0 DEF Typed, Restore
    <3>2. restore'[r].stamp = t /\ restore'[r].file = i /\ ~restore'[r].ok
      BY <1>0, <2>2, <3>1 DEF Extract, ReadsFinished, Reads, Typed, Restore
    <3>3. restore'[r].at = "read" => i # 0 /\ (Whole(i) => restore'[r].sound)
      <4>1. restore' = [restore EXCEPT ![r].at = IF Acceptable(i) THEN "read" ELSE "done",
                                       ![r].file = i, ![r].sound = i # 0 /\ Whole(i)]
        BY <2>2, <3>1 DEF Extract
      <4>2. /\ restore'[r].at = IF Acceptable(i) THEN "read" ELSE "done"
            /\ restore'[r].sound = (i # 0 /\ Whole(i))
        BY <1>0, <4>1 DEF Typed, Restore
      <4>3. Acceptable(i) => i # 0
        BY DEF Acceptable
      <4> QED
        BY <4>2, <4>3
    <3>4. i # 0 => \E k \in Jobs : Began(k, t)
      BY <3>1 DEF NamesOfStamp, Began
    <3>5. ASSUME i # 0, NEW k \in Jobs, Sole(k, t)
          PROVE  job[k].at = "done" /\ Finished(i, k) /\ Whole(i)
      BY <3>1, <3>5, WholeIsFinished DEF SoleWriter, Finds
    <3> QED
      BY <1>0, <1>1, <3>2, <3>3, <3>4, <3>5 DEF Reads, Finished
  <2>3. CASE Restored(r)
    <3>1. PICK t \in Ticks : t = restore[r].stamp
      BY <1>0 DEF Restore
    <3>2. /\ restore'[r].at = "done" /\ restore'[r].stamp = t
          /\ restore'[r].sound = (restore[r].sound /\ Whole(restore[r].file))
      <4>1. PICK ok \in BOOLEAN :
              restore' = [restore EXCEPT ![r].at = "done", ![r].ok = ok, ![r].sound = @ /\ Whole(restore[r].file)]
        BY <2>3 DEF Restored
      <4> QED
        BY <1>0, <3>1, <4>1 DEF Typed, Restore
    <3>3. /\ \E k \in Jobs : Began(k, t)
          /\ \A k \in Jobs : Sole(k, t) => restore[r].sound /\ Finished(restore[r].file, k)
      BY <2>3, <3>1 DEF Restored, ReadsFinished, Reads
    <3>4. \A k \in Jobs : Sole(k, t) => Whole(restore[r].file)
      BY <3>3, WholeIsFinished DEF Finished
    <3> QED
      BY <1>1, <3>2, <3>3, <3>4 DEF Reads
  <2> QED
    BY <2>1, <2>2, <2>3
<1>4. \A q \in Restores \ {r} : restore'[q] = restore[q]
  BY <1>0 DEF Verify, Extract, Restored, Typed
<1> QED
  BY <1>2, <1>3, <1>4 DEF ReadsFinished, Reads

LEMMA InitInv == Init => RecoveryInv
<1> SUFFICES ASSUME Init PROVE RecoveryInv
  OBVIOUS
<1>1. Typed
  BY InitTyped
<1>2. \A j \in Jobs : job[j].at = "idle" /\ ~job[j].ok
  BY DEF Init
<1>3. tmp = [t \in Ticks |-> 0] /\ arch = [t \in Ticks |-> 0]
  BY DEF Init
<1>4. ClosersOpened /\ ReadsFinished
  BY DEF Init, ClosersOpened, ReadsFinished, Reads
<1>5. NamesOfStamp(tmp) /\ NamesOfStamp(arch)
  BY <1>3 DEF NamesOfStamp
<1> QED
  BY <1>1, <1>2, <1>4, <1>5 DEF RecoveryInv, WritersOpened, SoleWriter, Sole, Began, IdleUnreported

LEMMA StepInv == RecoveryInv /\ [Next]_vars => RecoveryInv'
<1> SUFFICES ASSUME RecoveryInv, [Next]_vars PROVE RecoveryInv'
  OBVIOUS
<1>0. Typed'
  BY StepTyped DEF RecoveryInv
<1>1. CASE UNCHANGED vars
  BY <1>0, <1>1, OtherStepInv, ReadsKept DEF vars, RecoveryInv
<1>2. CASE Prune
  <2>1. \A t \in Ticks : /\ tmp'[t] \in {0, tmp[t]}
                        /\ \/ arch'[t] = arch[t]
                           \/ arch'[t] = 0 /\ Old(arch[t])
    BY <1>2 DEF Prune, Without, OldFiles
  <2> QED
    BY <1>0, <1>2, <2>1, OtherStepInv, ReadsKept DEF Prune, RecoveryInv
<1>3. CASE Tick
  BY <1>0, <1>3, OtherStepInv, ReadsKept DEF Tick, RecoveryInv
<1>4. ASSUME NEW j \in Jobs, JobStep(j) PROVE RecoveryInv'
  BY <1>0, <1>4, JobStepInv
<1>5. ASSUME NEW r \in Restores, Verify(r) \/ Extract(r) \/ Restored(r) PROVE RecoveryInv'
  <2>1. /\ clock' = clock /\ job' = job /\ inode' = inode /\ tmp' = tmp /\ arch' = arch
    BY <1>5 DEF Verify, Extract, Restored
  <2> QED
    BY <1>0, <1>5, <2>1, OtherStepInv, RestoreReads DEF RecoveryInv
<1> QED
  BY <1>1, <1>2, <1>3, <1>4, <1>5 DEF Next, JobStep

-------------------------------------------------------------------------------
(***************************************************************************)
(* The theorems.                                                           *)
(***************************************************************************)

\* The commands of a second are one command exactly when one is the sole one.
LEMMA OwnStampIsSole ==
  ASSUME NEW t, OwnStamp(t) PROVE \E j \in Jobs : Sole(j, t)
<1> DEFINE S == {j \in Jobs : job[j].at # "idle" /\ job[j].stamp = t}
<1>1. IsFiniteSet(S) /\ Cardinality(S) = 1
  BY RecoveryAssumption, FS_Subset DEF OwnStamp
<1>2. PICK x : S = {x}
  BY <1>1, FS_Singleton
<1>3. x \in S /\ \A k \in S : k = x
  BY <1>2
<1> QED
  BY <1>3 DEF Sole, Began

\* However commands of other seconds, killed commands, failed backends, fallbacks
\* and prune-retention interleave (create_backup_execution, run_prune_retention),
\* the inductive invariant holds, for any number of commands and restores.
THEOREM RecoveryHolds == Spec => []RecoveryInv
<1>1. Init => RecoveryInv
  BY InitInv
<1>2. RecoveryInv /\ [Next]_vars => RecoveryInv'
  BY StepInv
<1> QED
  BY <1>1, <1>2, PTL DEF Spec

\* An archive of a second in which one command began is whole, and a restore that
\* succeeded read a whole archive to its end (verify_backup_execution, then
\* restore_backup_execution on the same name).
THEOREM ArchivesAreWhole == Spec => []PublishedIsWhole
<1>1. RecoveryInv => PublishedIsWhole
  <2> SUFFICES ASSUME RecoveryInv PROVE PublishedIsWhole
    OBVIOUS
  <2> USE DEF RecoveryInv
  <2>1. ASSUME NEW t \in Ticks, arch[t] # 0, OwnStamp(t) PROVE Whole(arch[t])
    <3>1. PICK j \in Jobs : Sole(j, t)
      BY <2>1, OwnStampIsSole
    <3>2. Finished(arch[t], j)
      BY <2>1, <3>1 DEF SoleWriter, Finds
    <3> QED
      BY <3>2, WholeIsFinished DEF Finished
  <2>2. ASSUME NEW r \in Restores, restore[r].ok, OwnStamp(restore[r].stamp) PROVE restore[r].sound
    BY <2>2, OwnStampIsSole DEF ReadsFinished, Reads
  <2> QED
    BY <2>1, <2>2 DEF PublishedIsWhole
<1> QED
  BY <1>1, RecoveryHolds, PTL

\* A backup that was reported as created keeps its name and its file until
\* prune-retention may remove it for its age.
THEOREM ReportedBackupsStay == Spec => []BackupIsKept
<1>1. RecoveryInv => BackupIsKept
  <2> SUFFICES ASSUME RecoveryInv, NEW j \in Jobs, job[j].ok, OwnStamp(job[j].stamp)
               PROVE  arch[job[j].stamp] = job[j].file \/ Old(job[j].file)
    BY DEF BackupIsKept
  <2> USE DEF RecoveryInv
  <2>1. PICK t \in Ticks : t = job[j].stamp
    BY DEF Typed, Job
  <2>2. Sole(j, t)
    BY <2>1, OwnStampIsSole DEF IdleUnreported, Sole, Began
  <2> QED
    BY <2>1, <2>2 DEF SoleWriter, Finds
<1> QED
  BY <1>1, RecoveryHolds, PTL

-------------------------------------------------------------------------------
(***************************************************************************)
(* SIDECARS.  Whatever the commands, docker and the timeouts do, in any    *)
(* order and any number of them, an `up` that returns 0 has seen to the    *)
(* schema of the database postgres serves, and a reset that runs alone     *)
(* empties no directory under a container.                                 *)
(***************************************************************************)


(***************************************************************************)
(* The inductive invariant.                                                *)
(***************************************************************************)

Steps == {"rest", "up", "wait postgres", "recreate", "check litellm", "bootstrap",
          "start litellm", "start runtime", "wait", "down", "reset", "stop", "remove"}

Command == [at : Steps, dir : Dirs, force : BOOLEAN, again : BOOLEAN, dep : BOOLEAN,
            ready : BOOLEAN, met : SUBSET Required, seen : {"nothing", "error"}]

SidecarsTyped ==
  /\ ctr \in [Services -> Container]
  /\ data \in [Dirs -> {"empty", "cold", "schema"}]
  /\ cmd \in [Procs -> Command]
  /\ alone \in [Procs -> BOOLEAN]

\* The database of postgres' container has the schema, unless the container got
\* another directory since the last bootstrap.
Provisioned == data[ctr["postgres"].dir] = "schema" \/ replaced

\* A litellm that exists, healthy or not, was started after a bootstrap.
LitellmIsEvidence == ctr["litellm"].state # "none" => Provisioned

\* So was every command past its bootstrap, or it saw such a litellm.
PastBootstrap ==
  \A p \in Procs :
    cmd[p].at \in {"start litellm", "start runtime", "wait"} => Provisioned

\* Who began alone, and was alone ever since, is alone now.
AloneNow ==
  \A p, q \in Procs : alone[p] /\ cmd[p].at # "rest" /\ q # p => cmd[q].at = "rest"

\* A reset that is alone and about to remove a directory has seen, or made,
\* postgres' container go, and nobody has created it since.
NoneToEmpty ==
  \A p \in Procs :
    alone[p] /\ cmd[p].at = "remove" /\ cmd[p].seen # "error" => ctr["postgres"].state = "none"

SidecarsInv ==
  SidecarsTyped /\ LitellmIsEvidence /\ PastBootstrap /\ served /\ AloneNow /\ NoneToEmpty


(***************************************************************************)
(* The initial state.                                                      *)
(***************************************************************************)

LEMMA SomeDir == (CHOOSE d \in Dirs : TRUE) \in Dirs
BY SidecarsAssumption DEF SidecarsAssumption

LEMMA IdleCommand == Idle \in Command /\ Idle.at = "rest"
BY SomeDir DEF Idle, Command, Steps

LEMMA InitHolds == SidecarsInit => SidecarsInv
<1> SUFFICES ASSUME SidecarsInit PROVE SidecarsInv
  OBVIOUS
<1>1. SidecarsTyped
  BY SomeDir, IdleCommand DEF SidecarsInit, SidecarsTyped, Container
<1>2. \A p \in Procs : cmd[p].at = "rest" /\ ~alone[p]
  BY IdleCommand DEF SidecarsInit
<1>3. ctr["litellm"].state = "none"
  BY DEF SidecarsInit, Services
<1>4. AloneNow /\ NoneToEmpty
  BY <1>2, Zenon DEF AloneNow, NoneToEmpty
<1> QED
  BY <1>1, <1>2, <1>3, <1>4 DEF SidecarsInv, LitellmIsEvidence, PastBootstrap, SidecarsInit

(***************************************************************************)
(* The steps of a command.                                                 *)
(***************************************************************************)

\* A command goes to its next step.
LEMMA GoesOn ==
  ASSUME SidecarsTyped, NEW p \in Procs, NEW next \in Steps, Go(p, next)
  PROVE  /\ cmd' \in [Procs -> Command] /\ cmd'[p].at = next
         /\ \A q \in Procs \ {p} : cmd'[q] = cmd[q]
<1> DEFINE e == [cmd[p] EXCEPT !.at = next, !.dep = FALSE]
<1>1. cmd[p] \in Command /\ cmd' = [cmd EXCEPT ![p] = e]
  BY DEF Go, SidecarsTyped, Command
<1>2. e \in Command /\ e.at = next
  BY <1>1 DEF Command
<1> HIDE DEF e
<1> QED
  BY <1>1, <1>2 DEF SidecarsTyped

\* What a step of a running command owes the invariant: the other commands are
\* where they were, so it is enough to look at its own next step.
LEMMA OwnStep ==
  ASSUME SidecarsInv, NEW p \in Procs, cmd[p].at # "rest", UNCHANGED alone,
         SidecarsTyped', served',
         \A q \in Procs \ {p} : cmd'[q] = cmd[q],
         Provisioned => Provisioned',
         ctr'["litellm"].state # "none" => Provisioned',
         cmd'[p].at \in {"start litellm", "start runtime", "wait"} => Provisioned',
         cmd'[p].at = "remove" /\ alone[p] /\ cmd'[p].seen # "error" =>
           ctr'["postgres"].state = "none"
  PROVE  SidecarsInv'
<1>1. LitellmIsEvidence'
  BY DEF LitellmIsEvidence
<1>2. PastBootstrap'
  <2> SUFFICES ASSUME NEW q \in Procs,
                      cmd'[q].at \in {"start litellm", "start runtime", "wait"}
               PROVE  Provisioned'
    BY DEF PastBootstrap
  <2>1. CASE q = p
    BY <2>1
  <2>2. CASE q # p
    BY <2>2 DEF SidecarsInv, PastBootstrap
  <2> QED
    BY <2>1, <2>2
<1>3. AloneNow'
  <2> SUFFICES ASSUME NEW q \in Procs, NEW r \in Procs,
                      alone[q], cmd'[q].at # "rest", r # q
               PROVE  cmd'[r].at = "rest"
    BY Zenon DEF AloneNow
  <2>1. CASE q = p
    BY <2>1 DEF SidecarsInv, AloneNow
  <2>2. CASE q # p
    BY <2>2 DEF SidecarsInv, AloneNow
  <2> QED
    BY <2>1, <2>2
<1>4. NoneToEmpty'
  <2> SUFFICES ASSUME NEW q \in Procs,
                      alone[q], cmd'[q].at = "remove", cmd'[q].seen # "error"
               PROVE  ctr'["postgres"].state = "none"
    BY Zenon DEF NoneToEmpty
  <2>1. CASE q = p
    BY <2>1
  <2>2. CASE q # p
    BY <2>2 DEF SidecarsInv, AloneNow
  <2> QED
    BY <2>1, <2>2
<1> QED
  BY <1>1, <1>2, <1>3, <1>4 DEF SidecarsInv

\* A step that moves its command on, and no container.
LEMMA GoStep ==
  ASSUME SidecarsInv, NEW p \in Procs, cmd[p].at # "rest",
         UNCHANGED <<ctr, data, replaced, alone, served>>,
         NEW c \in Command, cmd' = [cmd EXCEPT ![p] = c],
         c.at \in {"start litellm", "start runtime", "wait"} => Provisioned,
         c.at = "remove" /\ alone[p] /\ c.seen # "error" => ctr["postgres"].state = "none"
  PROVE  SidecarsInv'
<1>1. SidecarsTyped' /\ cmd'[p] = c /\ \A q \in Procs \ {p} : cmd'[q] = cmd[q]
  BY DEF SidecarsInv, SidecarsTyped
<1>2. Provisioned' = Provisioned
  BY DEF Provisioned
<1>3. ctr'["litellm"].state # "none" => Provisioned'
  BY <1>2 DEF SidecarsInv, LitellmIsEvidence
<1>4. served'
  BY DEF SidecarsInv
<1> QED
  BY <1>1, <1>2, <1>3, <1>4, OwnStep

\* A command that ends, with no other effect, leaves the invariant.
LEMMA DoneStep ==
  ASSUME SidecarsInv, NEW p \in Procs, cmd[p].at # "rest",
         UNCHANGED <<ctr, data, replaced, alone, served>>, Done(p)
  PROVE  SidecarsInv'
BY GoStep, IdleCommand DEF Done

\* `up -d` creates a container on a directory or leaves it alone.  One that
\* puts postgres on another directory is noted, and litellm is created only
\* where the bootstrap is done.
LEMMA ComposeStep ==
  ASSUME SidecarsInv, NEW p \in Procs, cmd[p].at # "rest",
         NEW S \in SUBSET Services, NEW force \in BOOLEAN, NEW next \in Steps \ {"remove"},
         ComposeUp(p, S, force, next), UNCHANGED <<data, alone, served>>,
         cmd[p].at # "remove",
         "litellm" \in S \/ next \in {"start litellm", "start runtime", "wait"} => Provisioned
  PROVE  SidecarsInv'
<1> DEFINE now == IF Depends(S) /\ ~Waits(p) THEN {"postgres"} ELSE S
           d == cmd[p].dir
<1>1. /\ ctr' = Upped(now, d, force /\ now = S)
      /\ replaced' = (replaced \/ Moves(now, d))
      /\ \/ now = S /\ Go(p, next)
         \/ cmd' = [cmd EXCEPT ![p].dep = TRUE]
  BY DEF ComposeUp
<1>2. d \in Dirs /\ now \in SUBSET Services
  BY DEF SidecarsInv, SidecarsTyped, Command, Services
<1> HIDE DEF now, d
<1>3. /\ ctr' \in [Services -> Container]
      /\ \A s \in Services : s \notin now => ctr'[s] = ctr[s]
      /\ "postgres" \in now => ctr'["postgres"].dir \in {d, ctr["postgres"].dir}
  BY <1>1, <1>2 DEF SidecarsInv, SidecarsTyped, Container, Upped, Services
<1>4. /\ cmd' \in [Procs -> Command] /\ \A q \in Procs \ {p} : cmd'[q] = cmd[q]
      /\ cmd'[p].at = cmd[p].at \/ cmd'[p].at = next
  <2>1. CASE Go(p, next)
    BY <2>1, GoesOn DEF SidecarsInv
  <2>2. CASE cmd' = [cmd EXCEPT ![p].dep = TRUE]
    <3> DEFINE e == [cmd[p] EXCEPT !.dep = TRUE]
    <3>1. cmd[p] \in Command /\ cmd' = [cmd EXCEPT ![p] = e]
      BY <2>2 DEF SidecarsInv, SidecarsTyped, Command
    <3>2. e \in Command /\ e.at = cmd[p].at
      BY <3>1 DEF Command
    <3> HIDE DEF e
    <3> QED
      BY <3>1, <3>2 DEF SidecarsInv, SidecarsTyped
  <2> QED
    BY <1>1, <2>1, <2>2
<1>5. SidecarsTyped' /\ served'
  BY <1>3, <1>4 DEF SidecarsTyped, SidecarsInv
<1>6. Provisioned => Provisioned'
  <2>1. CASE Moves(now, d)
    BY <2>1, <1>1, Zenon DEF Provisioned
  <2>2. CASE ~Moves(now, d)
    <3>1. ctr'["postgres"].dir = ctr["postgres"].dir
      BY <2>2, <1>3 DEF Moves, Services
    <3>2. replaced => replaced'
      BY <1>1, Zenon
    <3> QED
      BY <3>1, <3>2 DEF Provisioned
  <2> QED
    BY <2>1, <2>2
<1>7. ctr'["litellm"].state # "none" => Provisioned'
  <2>1. CASE "litellm" \in S
    BY <2>1, <1>6
  <2>2. CASE "litellm" \notin S
    <3>1. "litellm" \notin now
      BY <2>2 DEF now
    <3> QED
      BY <3>1, <1>3, <1>6 DEF SidecarsInv, LitellmIsEvidence, Services
  <2> QED
    BY <2>1, <2>2
<1>8. cmd'[p].at \in {"start litellm", "start runtime", "wait"} => Provisioned'
  BY <1>4, <1>6 DEF SidecarsInv, PastBootstrap
<1>9. cmd'[p].at # "remove"
  BY <1>4
<1> QED
  BY <1>4, <1>5, <1>6, <1>7, <1>8, <1>9, OwnStep


(***************************************************************************)
(* `sidecars up`.                                                          *)
(***************************************************************************)

\* The commands that only look, or end, leave the invariant: what they go on
\* to is no later than what they have seen.
LEMMA LookingHolds ==
  ASSUME SidecarsInv, NEW p \in Procs,
         \/ WaitPostgres(p) \/ PostgresTimesOut(p) \/ CheckLitellm(p) \/ BootstrapFails(p)
         \/ DependencyFails(p) \/ (\E s \in Services : WaitFor(p, s)) \/ WaitTimesOut(p)
         \/ UpFails(p)
  PROVE  SidecarsInv'
<1> DEFINE c == cmd[p]
<1>1. c \in Command
  BY DEF SidecarsInv, SidecarsTyped
<1>2. CASE WaitPostgres(p)
  <2>1. cmd' = [cmd EXCEPT ![p] = [c EXCEPT !.at = "check litellm", !.dep = FALSE]]
    BY <1>2 DEF WaitPostgres, Go, SidecarsInv, SidecarsTyped, Command
  <2>2. [c EXCEPT !.at = "check litellm", !.dep = FALSE] \in Command
    BY <1>1 DEF Command, Steps
  <2>3. [c EXCEPT !.at = "check litellm", !.dep = FALSE].at = "check litellm"
    BY <1>1 DEF Command
  <2> QED
    BY <1>2, <2>1, <2>2, <2>3, GoStep DEF WaitPostgres
<1>3. CASE PostgresTimesOut(p)
  <2>1. CASE Done(p)
    BY <1>3, <2>1, DoneStep DEF PostgresTimesOut
  <2>2. CASE cmd' = [cmd EXCEPT ![p].at = "recreate", ![p].again = TRUE]
    <3>1. cmd' = [cmd EXCEPT ![p] = [c EXCEPT !.at = "recreate", !.again = TRUE]]
      BY <2>2 DEF SidecarsInv, SidecarsTyped, Command
    <3>2. [c EXCEPT !.at = "recreate", !.again = TRUE] \in Command
      BY <1>1 DEF Command, Steps
    <3>3. [c EXCEPT !.at = "recreate", !.again = TRUE].at = "recreate"
      BY <1>1 DEF Command
    <3> QED
      BY <1>3, <3>1, <3>2, <3>3, GoStep DEF PostgresTimesOut
  <2> QED
    BY <1>3, <2>1, <2>2 DEF PostgresTimesOut
<1>4. CASE CheckLitellm(p)
  <2> DEFINE ready == Matches("litellm")
             next == IF ready THEN "start runtime" ELSE "bootstrap"
             e == [c EXCEPT !.ready = ready, !.at = next]
  <2>1. cmd' = [cmd EXCEPT ![p] = e]
    BY <1>4 DEF CheckLitellm, SidecarsInv, SidecarsTyped, Command
  <2>2. ready \in BOOLEAN /\ next \in {"start runtime", "bootstrap"}
    BY DEF Matches
  <2>3. next = "start runtime" => Provisioned
    BY DEF Matches, SidecarsInv, LitellmIsEvidence
  <2> HIDE DEF ready, next
  <2>4. e \in Command /\ e.at = next
    BY <1>1, <2>2 DEF Command, Steps
  <2> HIDE DEF e
  <2> QED
    BY <1>4, <2>1, <2>2, <2>3, <2>4, GoStep DEF CheckLitellm
<1>5. CASE BootstrapFails(p) \/ DependencyFails(p) \/ WaitTimesOut(p) \/ UpFails(p)
  <2>1. cmd[p].at # "rest" /\ Done(p) /\ UNCHANGED <<ctr, data, replaced, alone, served>>
    BY <1>5 DEF BootstrapFails, DependencyFails, WaitTimesOut, Awaited, UpFails
  <2> QED
    BY <2>1, DoneStep
<1>6. CASE \E s \in Services : WaitFor(p, s)
  <2>1. PICK s \in Services : WaitFor(p, s)
    BY <1>6
  <2> DEFINE e == [c EXCEPT !.met = @ \cup {s}]
  <2>2. cmd' = [cmd EXCEPT ![p] = e] /\ e \in Command /\ e.at = "wait"
    BY <2>1, <1>1 DEF WaitFor, Awaited, SidecarsInv, SidecarsTyped, Command
  <2>3. Provisioned
    BY <2>1 DEF WaitFor, Awaited, SidecarsInv, PastBootstrap
  <2> HIDE DEF e
  <2> QED
    BY <2>1, <2>2, <2>3, GoStep DEF WaitFor, Awaited
<1> QED
  BY <1>2, <1>3, <1>4, <1>5, <1>6

\* postgres is started or recreated where the command wants it: another
\* directory than before is noted.
LEMMA StartPostgresHolds ==
  ASSUME SidecarsInv, NEW p \in Procs, StartPostgres(p) \/ RecreatePostgres(p)
  PROVE  SidecarsInv'
<1>1. PICK force \in BOOLEAN : ComposeUp(p, {"postgres"}, force, "wait postgres")
  BY DEF StartPostgres, RecreatePostgres
<1>2. /\ cmd[p].at # "rest" /\ cmd[p].at # "remove"
      /\ UNCHANGED <<data, alone, served>>
  BY DEF StartPostgres, RecreatePostgres
<1> QED
  BY <1>1, <1>2, ComposeStep DEF Services, Steps

\* litellm and the others are started by commands past the bootstrap.
LEMMA StartOthersHolds ==
  ASSUME SidecarsInv, NEW p \in Procs, StartLitellm(p) \/ StartRuntime(p)
  PROVE  SidecarsInv'
<1>1. PICK S \in SUBSET Services, force \in BOOLEAN, next \in {"start runtime", "wait"} :
        ComposeUp(p, S, force, next)
  BY DEF StartLitellm, StartRuntime, Services
<1>2. /\ cmd[p].at # "rest" /\ cmd[p].at # "remove" /\ Provisioned
      /\ UNCHANGED <<data, alone, served>>
  BY DEF StartLitellm, StartRuntime, SidecarsInv, PastBootstrap
<1> QED
  BY <1>1, <1>2, ComposeStep DEF Steps

\* A bootstrap that succeeds has put the schema where postgres keeps its data.
LEMMA BootstrapHolds ==
  ASSUME SidecarsInv, NEW p \in Procs, Bootstrap(p)
  PROVE  SidecarsInv'
<1>1. ctr["postgres"].dir \in Dirs
  BY DEF SidecarsInv, SidecarsTyped, Container, Services
<1>2. SidecarsTyped' /\ cmd'[p].at = "start litellm" /\ \A q \in Procs \ {p} : cmd'[q] = cmd[q]
  <2>1. Go(p, "start litellm")
    BY DEF Bootstrap
  <2> QED
    BY <1>1, <2>1, GoesOn DEF Bootstrap, SidecarsInv, SidecarsTyped, Steps
<1>3. Provisioned'
  BY <1>1 DEF Bootstrap, SidecarsInv, SidecarsTyped, Provisioned
<1>4. cmd[p].at # "rest" /\ UNCHANGED <<alone, served>>
  BY DEF Bootstrap
<1> QED
  BY <1>2, <1>3, <1>4, OwnStep DEF SidecarsInv

\* An `up` that returns 0 is past its bootstrap.
LEMMA ReportHolds ==
  ASSUME SidecarsInv, NEW p \in Procs, Report(p)
  PROVE  SidecarsInv'
<1>1. Provisioned
  BY DEF Report, SidecarsInv, PastBootstrap
<1>2. PICK json \in BOOLEAN :
        served' = IF json /\ ~Ready THEN served
                  ELSE data[ctr["postgres"].dir] = "schema" \/ replaced
  BY DEF Report
<1>3. served'
  BY <1>1, <1>2, Zenon DEF Provisioned, SidecarsInv
<1>4. /\ cmd[p].at # "rest" /\ cmd' = [cmd EXCEPT ![p] = Idle]
      /\ UNCHANGED <<ctr, data, replaced, alone>>
  BY DEF Report, Done
<1>5. SidecarsTyped' /\ cmd'[p].at = "rest" /\ \A q \in Procs \ {p} : cmd'[q] = cmd[q]
  BY <1>4, IdleCommand DEF SidecarsInv, SidecarsTyped
<1>6. Provisioned'
  BY <1>1, <1>4 DEF Provisioned
<1> QED
  BY <1>3, <1>4, <1>5, <1>6, OwnStep

(***************************************************************************)
(* `sidecars down` and `reset-compose-state`.                              *)
(***************************************************************************)

\* `down` removes every container, and no data.
LEMMA DownHolds ==
  ASSUME SidecarsInv, NEW p \in Procs, Down(p)
  PROVE  SidecarsInv'
<1>1. /\ cmd[p].at # "rest" /\ cmd' = [cmd EXCEPT ![p] = Idle]
      /\ UNCHANGED <<data, replaced, alone, served>>
  BY DEF Down, Done
<1>2. /\ ctr' \in [Services -> Container]
      /\ \A s \in Services : ctr'[s].state = "none" /\ ctr'[s].dir = ctr[s].dir
  BY DEF Down, SidecarsInv, SidecarsTyped, Container
<1>3. SidecarsTyped' /\ cmd'[p].at = "rest" /\ \A q \in Procs \ {p} : cmd'[q] = cmd[q]
  BY <1>1, <1>2, IdleCommand DEF SidecarsInv, SidecarsTyped
<1>4. Provisioned' = Provisioned /\ ctr'["litellm"].state = "none"
  BY <1>1, <1>2 DEF Provisioned, Services
<1>5. served'
  BY <1>1 DEF SidecarsInv
<1> QED
  BY <1>1, <1>3, <1>4, <1>5, OwnStep

\* A reset goes on to the removal when no container of postgres is there, or
\* `ps` failed.
LEMMA InspectHolds ==
  ASSUME SidecarsInv, NEW p \in Procs, Inspect(p) \/ InspectFails(p) \/ StopFails(p)
  PROVE  SidecarsInv'
<1> DEFINE c == cmd[p]
<1>1. c \in Command
  BY DEF SidecarsInv, SidecarsTyped
<1>2. cmd[p].at # "rest" /\ UNCHANGED <<ctr, data, replaced, alone, served>>
  BY DEF Inspect, InspectFails, StopFails
<1>3. CASE Done(p)
  BY <1>2, <1>3, DoneStep
<1>4. CASE Inspect(p) /\ ~Done(p)
  <2>1. PICK next \in {"remove", "stop"} :
          Go(p, next) /\ (next = "remove" => ctr["postgres"].state = "none")
    BY <1>4 DEF Inspect
  <2> DEFINE e == [c EXCEPT !.at = next, !.dep = FALSE]
  <2>2. cmd' = [cmd EXCEPT ![p] = e]
    BY <2>1 DEF Go, SidecarsInv, SidecarsTyped, Command
  <2>3. e \in Command /\ e.at = next
    BY <1>1 DEF Command, Steps
  <2> HIDE DEF e
  <2> QED
    BY <1>2, <2>1, <2>2, <2>3, GoStep
<1>5. CASE InspectFails(p)
  <2> DEFINE e == [c EXCEPT !.at = "remove", !.seen = "error"]
  <2>1. cmd' = [cmd EXCEPT ![p] = e]
    BY <1>5 DEF InspectFails, SidecarsInv, SidecarsTyped, Command
  <2>2. e \in Command /\ e.at = "remove" /\ e.seen = "error"
    BY <1>1 DEF Command, Steps
  <2> HIDE DEF e
  <2> QED
    BY <1>2, <2>1, <2>2, GoStep
<1>6. CASE StopFails(p)
  BY <1>3, <1>6 DEF StopFails
<1> QED
  BY <1>3, <1>4, <1>5, <1>6

\* `--force-stop` removes postgres' container first.
LEMMA StopHolds ==
  ASSUME SidecarsInv, NEW p \in Procs, Stop(p)
  PROVE  SidecarsInv'
<1>1. /\ cmd[p].at # "rest" /\ ctr' = [ctr EXCEPT !["postgres"].state = "none"]
      /\ UNCHANGED <<data, replaced, alone, served>>
  BY DEF Stop
<1>2. /\ ctr' \in [Services -> Container]
      /\ ctr'["postgres"].state = "none" /\ ctr'["postgres"].dir = ctr["postgres"].dir
      /\ ctr'["litellm"] = ctr["litellm"]
  BY <1>1 DEF SidecarsInv, SidecarsTyped, Container, Services
<1>3. SidecarsTyped' /\ cmd'[p].at = "remove" /\ \A q \in Procs \ {p} : cmd'[q] = cmd[q]
  <2>1. Go(p, "remove")
    BY DEF Stop
  <2> QED
    BY <1>1, <1>2, <2>1, GoesOn DEF SidecarsInv, SidecarsTyped, Steps
<1>4. Provisioned' = Provisioned
  BY <1>1, <1>2 DEF Provisioned
<1>5. served' /\ (ctr'["litellm"].state # "none" => Provisioned')
  BY <1>1, <1>2, <1>4 DEF SidecarsInv, LitellmIsEvidence
<1> QED
  BY <1>1, <1>2, <1>3, <1>4, <1>5, OwnStep

\* Emptying the directory of a container is noted: whose schema it was goes
\* with it.
LEMMA RemoveHolds ==
  ASSUME SidecarsInv, NEW p \in Procs, Remove(p)
  PROVE  SidecarsInv'
<1>1. /\ cmd[p].at # "rest" /\ cmd' = [cmd EXCEPT ![p] = Idle]
      /\ data' = [data EXCEPT ![cmd[p].dir] = "empty"]
      /\ replaced' = (replaced \/ cmd[p].dir = ctr["postgres"].dir)
      /\ UNCHANGED <<ctr, alone, served>>
  BY DEF Remove, Done
<1>2. SidecarsTyped' /\ cmd'[p].at = "rest" /\ \A q \in Procs \ {p} : cmd'[q] = cmd[q]
  BY <1>1, IdleCommand DEF SidecarsInv, SidecarsTyped
<1>3. Provisioned => Provisioned'
  <2>1. CASE cmd[p].dir = ctr["postgres"].dir
    BY <2>1, <1>1, Zenon DEF Provisioned
  <2>2. CASE cmd[p].dir # ctr["postgres"].dir
    <3>1. replaced => replaced'
      BY <1>1, Zenon
    <3>2. data'[ctr["postgres"].dir] = data[ctr["postgres"].dir]
      BY <2>2, <1>1 DEF SidecarsInv, SidecarsTyped, Container, Services
    <3> QED
      BY <1>1, <3>1, <3>2 DEF Provisioned
  <2> QED
    BY <2>1, <2>2
<1>4. served' /\ (ctr'["litellm"].state # "none" => Provisioned')
  BY <1>1, <1>3 DEF SidecarsInv, LitellmIsEvidence
<1> QED
  BY <1>1, <1>2, <1>3, <1>4, OwnStep


(***************************************************************************)
(* Docker, and commands that begin.                                        *)
(***************************************************************************)

\* A health check decides no more than the state of containers that exist; a
\* directory it fills had nothing in it.
LEMMA HealthHolds ==
  ASSUME SidecarsInv, NEW s \in Services, HealthPasses(s) \/ HealthLost(s)
  PROVE  SidecarsInv'
<1>1. /\ ctr[s].state # "none" /\ UNCHANGED <<cmd, replaced, alone, served>>
      /\ \E state \in {"running", "healthy", "stuck"} : ctr' = [ctr EXCEPT ![s].state = state]
  BY DEF HealthPasses, HealthLost
<1>2. /\ ctr' \in [Services -> Container]
      /\ \A t \in Services : /\ ctr'[t].dir = ctr[t].dir
                             /\ ctr'[t].state = "none" <=> ctr[t].state = "none"
  BY <1>1 DEF SidecarsInv, SidecarsTyped, Container
<1>3. /\ data' \in [Dirs -> {"empty", "cold", "schema"}]
      /\ \A d \in Dirs : data[d] = "schema" => data'[d] = "schema"
  BY DEF HealthPasses, HealthLost, SidecarsInv, SidecarsTyped
<1>4. ctr["postgres"].dir \in Dirs
  BY DEF SidecarsInv, SidecarsTyped, Container, Services
<1>5. Provisioned => Provisioned'
  BY <1>1, <1>2, <1>3, <1>4 DEF Provisioned, Services
<1>6. SidecarsTyped'
  BY <1>1, <1>2, <1>3 DEF SidecarsInv, SidecarsTyped
<1>7. LitellmIsEvidence'
  BY <1>2, <1>5 DEF SidecarsInv, LitellmIsEvidence, Services
<1>8. PastBootstrap'
  BY <1>1, <1>5 DEF SidecarsInv, PastBootstrap
<1>9. AloneNow' /\ NoneToEmpty'
  <2>1. ctr["postgres"].state = "none" => ctr'["postgres"].state = "none"
    BY <1>2 DEF Services
  <2> QED
    BY <1>1, <2>1 DEF SidecarsInv, AloneNow, NoneToEmpty
<1> QED
  BY <1>1, <1>6, <1>7, <1>8, <1>9 DEF SidecarsInv

\* A command that begins ends the solitude of those that run, and has its own
\* only if none does.
LEMMA BeginHolds ==
  ASSUME SidecarsInv, NEW p \in Procs, NEW kind \in Kinds, Begin(p, kind)
  PROVE  SidecarsInv'
<1>1. PICK d \in Dirs, force \in BOOLEAN :
        cmd' = [cmd EXCEPT ![p] = [Idle EXCEPT !.at = kind, !.dir = d, !.force = force]]
  BY DEF Begin
<1> DEFINE c == [Idle EXCEPT !.at = kind, !.dir = d, !.force = force]
<1>2. c \in Command /\ c.at \in {"up", "down", "reset"}
  BY IdleCommand, SidecarsAssumption DEF SidecarsAssumption, Command, Steps
<1> HIDE DEF c
<1>3. /\ cmd' \in [Procs -> Command] /\ cmd'[p].at \in {"up", "down", "reset"}
      /\ \A q \in Procs \ {p} : cmd'[q] = cmd[q]
  BY <1>1, <1>2 DEF c, SidecarsInv, SidecarsTyped
<1>4. /\ cmd[p].at = "rest" /\ UNCHANGED <<ctr, data, replaced, served>>
      /\ alone' \in [Procs -> BOOLEAN]
      /\ alone'[p] => \A q \in Procs \ {p} : cmd[q].at = "rest"
      /\ \A q \in Procs \ {p} : alone'[q] => cmd[q].at = "rest"
  BY DEF Begin, SidecarsInv, SidecarsTyped
<1>5. SidecarsTyped'
  BY <1>3, <1>4 DEF SidecarsInv, SidecarsTyped
<1>6. LitellmIsEvidence' /\ PastBootstrap'
  BY <1>3, <1>4 DEF SidecarsInv, LitellmIsEvidence, PastBootstrap, Provisioned
<1>7. AloneNow'
  <2> SUFFICES ASSUME NEW q \in Procs, NEW r \in Procs,
                      alone'[q], cmd'[q].at # "rest", r # q
               PROVE  cmd'[r].at = "rest"
    BY Zenon DEF AloneNow
  <2>1. q = p
    BY <1>3, <1>4
  <2> QED
    BY <1>3, <1>4, <2>1
<1>8. NoneToEmpty'
  <2> SUFFICES ASSUME NEW q \in Procs, alone'[q], cmd'[q].at = "remove"
               PROVE  FALSE
    BY Zenon DEF NoneToEmpty
  <2> QED
    BY <1>3, <1>4
<1> QED
  BY <1>4, <1>5, <1>6, <1>7, <1>8 DEF SidecarsInv

(***************************************************************************)
(* The theorems.                                                           *)
(***************************************************************************)

LEMMA StepHolds ==
  ASSUME SidecarsInv, SidecarsNext
  PROVE  SidecarsInv'
<1>1. CASE Docker \/ \E s \in Services : HealthLost(s)
  BY <1>1, HealthHolds DEF Docker
<1>2. CASE \E p \in Procs : Step(p)
  <2>1. PICK p \in Procs : Step(p)
    BY <1>2
  <2> QED
    BY <2>1, LookingHolds, StartPostgresHolds, StartOthersHolds, BootstrapHolds, ReportHolds,
       DownHolds, InspectHolds, StopHolds, RemoveHolds DEF Step
<1>3. CASE \E p \in Procs : \/ PostgresTimesOut(p) \/ WaitTimesOut(p) \/ UpFails(p)
                            \/ InspectFails(p) \/ StopFails(p)
  BY <1>3, LookingHolds, InspectHolds
<1>4. CASE \E p \in Procs : Repeat(p) \/ \E kind \in Kinds : Begin(p, kind) /\ Event
  <2>1. PICK p \in Procs : Repeat(p) \/ \E kind \in Kinds : Begin(p, kind)
    BY <1>4
  <2>2. \E kind \in Kinds : Begin(p, kind)
    BY <2>1 DEF Repeat, Begin
  <2> QED
    BY <2>2, BeginHolds
<1> QED
  BY <1>1, <1>2, <1>3, <1>4 DEF SidecarsNext

LEMMA StutterHolds ==
  ASSUME SidecarsInv, UNCHANGED <<sidecarVars, events>>
  PROVE  SidecarsInv'
BY DEF sidecarVars, SidecarsInv, SidecarsTyped, LitellmIsEvidence, PastBootstrap, Provisioned,
   AloneNow, NoneToEmpty

\* All that SidecarsInv says holds whatever the commands and docker do.
THEOREM SidecarsHold == SidecarsSpec => []SidecarsInv
<1>1. SidecarsInv /\ [SidecarsNext]_<<sidecarVars, events>> => SidecarsInv'
  BY StepHolds, StutterHolds
<1> QED
  BY InitHolds, <1>1, PTL DEF SidecarsSpec

\* Whenever `sidecars up` returned 0, the database that postgres served had the
\* schema, unless postgres got another directory since the last bootstrap
\* (_sidecars_up_report).
THEOREM SchemaIsServed == SidecarsSpec => []SchemaServed
<1>1. SidecarsInv => SchemaServed
  BY DEF SidecarsInv, SchemaServed
<1> QED
  BY SidecarsHold, <1>1, PTL

\* `reset-compose-state` that ran alone, and that docker answered, empties a
\* directory only when postgres has no container.
THEOREM ResetsAreSafe == SidecarsSpec => NeverEmptiedInUse
<1>1. SidecarsInv => \A p \in Procs :
        cmd[p].at = "remove" /\ cmd'[p].at = "rest" /\ alone[p] /\ cmd[p].seen # "error" =>
          ctr["postgres"].state = "none"
  BY DEF SidecarsInv, NoneToEmpty
<1> QED
  BY SidecarsHold, <1>1, PTL DEF NeverEmptiedInUse
===============================================================================
