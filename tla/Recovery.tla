-------------------------------- MODULE Recovery --------------------------------
(***************************************************************************)
(* `clawops recovery backup-create` and `prune-retention`, started by      *)
(* timers and by people, over one backups directory.  A backup is written  *)
(* to a temporary name made from the second the command began in, and then *)
(* renamed; the OpenClaw CLI writes it, or the tar writer when the CLI is  *)
(* missing, or failed and the operator allowed the fallback.               *)
(*                                                                         *)
(* A file is an inode, because a writer goes on writing to a file that was *)
(* renamed or unlinked.  `restore` verifies an archive and opens the name  *)
(* again to extract it.  Of what is in a backup only matters whether a     *)
(* hard link is among it: tar keeps such a file as a link, and restore     *)
(* takes no links.                                                         *)
(***************************************************************************)
EXTENDS Naturals, FiniteSets

CONSTANTS
  Jobs,       \* backup-create commands; each runs once
  Restores,   \* restore commands; each runs once
  Linked,     \* the backup-create commands that find hard links to save
  Clis,       \* the values "the OpenClaw CLI is installed" may have
  Retain,     \* ticks after which prune-retention removes a file
  MaxClock    \* bound: the last tick

ASSUME RecoveryAssumption ==
  Linked \subseteq Jobs /\ Clis \subseteq BOOLEAN /\ Retain \in Nat /\ MaxClock \in Nat /\ IsFiniteSet(Jobs)

Ticks  == 0..MaxClock
Inodes == 1..(2 * Cardinality(Jobs))

VARIABLES
  clock,      \* in seconds
  job,        \* the commands: where they are, their stamp, the inode they write
  tmp, arch,  \* the directory: stamp -> inode, 0 where there is no file
  inode,      \* the files: who opened them, who finished them, when
  restore     \* the restore commands: the archive they name and the inode they read

vars == <<clock, job, tmp, arch, inode, restore>>

Job == [at : {"idle", "unlink", "open", "write", "replace", "done"}, stamp : Ticks,
        file : Inodes \cup {0}, via : {"cli", "tar"}, fallback : BOOLEAN, ok : BOOLEAN]

\* sound: the archive was whole when it was opened and when it had been read.
Restore == [at : {"idle", "extract", "read", "done"}, stamp : Ticks,
            file : Inodes \cup {0}, sound : BOOLEAN, ok : BOOLEAN]

Init ==
  /\ clock = 0
  /\ \E cli \in Clis : job \in [Jobs -> {k \in Job :
       k.at = "idle" /\ k.stamp = 0 /\ k.file = 0 /\ ~k.ok /\ k.via = IF cli THEN "cli" ELSE "tar"}]
  /\ tmp = [t \in Ticks |-> 0] /\ arch = [t \in Ticks |-> 0]
  /\ inode = [i \in Inodes |-> [by |-> {}, closed |-> {}, mtime |-> 0]]
  /\ restore = [r \in Restores |-> [at |-> "idle", stamp |-> 0, file |-> 0, sound |-> FALSE, ok |-> FALSE]]

To(j, step) == job' = [job EXCEPT ![j].at = step]

\* An archive that one command wrote and finished.
Whole(i) == Cardinality(inode[i].by) = 1 /\ inode[i].closed = inode[i].by

-------------------------------------------------------------------------------
(* backup-create: create_backup_execution.                                  *)

Create(j) ==
  /\ job[j].at = "idle"
  /\ job' = [job EXCEPT ![j].at = "unlink", ![j].stamp = clock]
  /\ UNCHANGED <<clock, tmp, arch, inode, restore>>

UnlinkTmp(j) ==
  /\ job[j].at = "unlink"
  /\ tmp' = [tmp EXCEPT ![job[j].stamp] = 0]
  /\ To(j, "open")
  /\ UNCHANGED <<clock, arch, inode, restore>>

\* Opening for writing truncates a file of that name, whoever writes it.
Open(j) ==
  LET t == job[j].stamp IN
  /\ job[j].at = "open"
  /\ \E i \in Inodes :
       /\ IF tmp[t] # 0 THEN i = tmp[t]
          ELSE inode[i].by = {} /\ \A k \in 1..(i - 1) : inode[k].by # {}
       /\ tmp' = [tmp EXCEPT ![t] = i]
       /\ inode' = [inode EXCEPT ![i] = [by |-> @.by \cup {j}, closed |-> {}, mtime |-> clock]]
       /\ job' = [job EXCEPT ![j].at = "write", ![j].file = i]
  /\ UNCHANGED <<clock, arch, restore>>

Write(j) ==
  /\ job[j].at = "write"
  /\ inode' = [inode EXCEPT ![job[j].file].closed = @ \cup {j}, ![job[j].file].mtime = clock]
  /\ To(j, "replace")
  /\ UNCHANGED <<clock, tmp, arch, restore>>

\* The CLI fails: without the fallback that is the end, with it the tar writer
\* begins anew under the same names.
CliFails(j) ==
  /\ job[j].at = "write" /\ job[j].via = "cli"
  /\ tmp' = [tmp EXCEPT ![job[j].stamp] = 0]
  /\ job' = [job EXCEPT ![j].via = "tar", ![j].at = IF job[j].fallback THEN "unlink" ELSE "done"]
  /\ UNCHANGED <<clock, arch, inode, restore>>

\* A file of the state directory is gone when the tar writer comes to it.
TarFails(j) ==
  /\ job[j].at = "write" /\ job[j].via = "tar"
  /\ tmp' = [tmp EXCEPT ![job[j].stamp] = 0]
  /\ arch' = [arch EXCEPT ![job[j].stamp] = 0]
  /\ To(j, "done")
  /\ UNCHANGED <<clock, inode, restore>>

Replace_Early(j) ==
  LET t == job[j].stamp IN
  /\ job[j].at \in {"replace", "write"} /\ tmp[t] # 0
  /\ arch' = [arch EXCEPT ![t] = tmp[t]]
  /\ tmp' = [tmp EXCEPT ![t] = 0]
  /\ job' = [job EXCEPT ![j].at = "done", ![j].ok = TRUE]
  /\ UNCHANGED <<clock, inode, restore>>

\* The rename publishes whatever has the temporary name now.
Replace(j) ==
  LET t == job[j].stamp IN
  /\ job[j].at = "replace" /\ tmp[t] # 0
  /\ arch' = [arch EXCEPT ![t] = tmp[t]]
  /\ tmp' = [tmp EXCEPT ![t] = 0]
  /\ job' = [job EXCEPT ![j].at = "done", ![j].ok = TRUE]
  /\ UNCHANGED <<clock, inode, restore>>

\* Nothing has it: the tar branch cleans up, and takes the published file along.
ReplaceFails(j) ==
  /\ job[j].at = "replace" /\ tmp[job[j].stamp] = 0
  /\ arch' = IF job[j].via = "tar" THEN [arch EXCEPT ![job[j].stamp] = 0] ELSE arch
  /\ To(j, "done")
  /\ UNCHANGED <<clock, tmp, inode, restore>>

\* Killed, or the host stops: the temporary file stays.
JobDies(j) ==
  /\ job[j].at \in {"unlink", "open", "write", "replace"}
  /\ To(j, "done")
  /\ UNCHANGED <<clock, tmp, arch, inode, restore>>

-------------------------------------------------------------------------------
Old(i) == i # 0 /\ clock - inode[i].mtime > Retain

OldFiles(dir) == {t \in Ticks : Old(dir[t])}

Without(dir, gone) == [t \in Ticks |-> IF t \in gone THEN 0 ELSE dir[t]]

Prune_Archives ==
  /\ \E gone \in SUBSET OldFiles(arch) \ {{}} : arch' = Without(arch, gone)
  /\ UNCHANGED <<clock, job, tmp, inode, restore>>

Prune_KeepNewest ==
  /\ \E t \in Ticks : arch[t] # 0 /\ arch' = Without(arch, {u \in Ticks : u < t})
  /\ UNCHANGED <<clock, job, tmp, inode, restore>>

\* prune-retention: all files of the directory, temporary ones too; a name that
\* vanished since it was listed ends the command half way.
Prune ==
  /\ \E gone \in SUBSET OldFiles(arch), left \in SUBSET OldFiles(tmp) :
       /\ gone # {} \/ left # {}
       /\ arch' = Without(arch, gone)
       /\ tmp' = Without(tmp, left)
  /\ UNCHANGED <<clock, job, inode, restore>>

-------------------------------------------------------------------------------
(* restore.                                                                 *)

\* verify_backup: the CLI or the tar check looks at names and at the manifest,
\* and refuses what the other backend wrote, or a broken archive, or neither.
Verify(r) ==
  /\ restore[r].at = "idle"
  /\ \E t \in Ticks, passes \in BOOLEAN :
       /\ arch[t] # 0
       /\ restore' = [restore EXCEPT ![r].at = IF passes THEN "extract" ELSE "done", ![r].stamp = t]
  /\ UNCHANGED <<clock, job, tmp, arch, inode>>

\* _validated_archive_members, over the file that has the name now.
Acceptable(i) == i # 0 /\ \A j \in inode[i].by \cap Linked : job[j].via = "cli"

Extract(r) ==
  LET i == arch[restore[r].stamp] IN
  /\ restore[r].at = "extract"
  /\ restore' = [restore EXCEPT ![r].at = IF Acceptable(i) THEN "read" ELSE "done",
                                ![r].file = i, ![r].sound = i # 0 /\ Whole(i)]
  /\ UNCHANGED <<clock, job, tmp, arch, inode>>

\* extractall ends, or fails half way, and leaves what it has written.
Restored(r) ==
  /\ restore[r].at = "read"
  /\ \E ok \in BOOLEAN :
       restore' = [restore EXCEPT ![r].at = "done", ![r].ok = ok, ![r].sound = @ /\ Whole(restore[r].file)]
  /\ UNCHANGED <<clock, job, tmp, arch, inode>>

Tick == clock < MaxClock /\ clock' = clock + 1 /\ UNCHANGED <<job, tmp, arch, inode, restore>>

Next ==
  \/ Prune \/ Tick
  \/ \E j \in Jobs :
       \/ Create(j) \/ UnlinkTmp(j) \/ Open(j) \/ Write(j) \/ CliFails(j) \/ TarFails(j)
       \/ Replace(j) \/ ReplaceFails(j) \/ JobDies(j)
  \/ \E r \in Restores : Verify(r) \/ Extract(r) \/ Restored(r)

Spec == Init /\ [][Next]_vars

\* The maintenance timer fires every day.
FairSpec == Spec /\ WF_vars(Prune)

-------------------------------------------------------------------------------
(* Properties.                                                              *)

TypeOK ==
  /\ clock \in Ticks /\ job \in [Jobs -> Job]
  /\ tmp \in [Ticks -> Inodes \cup {0}] /\ arch \in [Ticks -> Inodes \cup {0}]
  /\ restore \in [Restores -> Restore]
  /\ \A i \in Inodes : inode[i].closed \subseteq inode[i].by /\ inode[i].mtime <= clock

\* The second is the name: no other command began in it.
OwnStamp(t) == Cardinality({j \in Jobs : job[j].at # "idle" /\ job[j].stamp = t}) = 1

\* A published archive is whole, through killed commands, failed backends and the
\* fallback, as long as no two commands began in the same second; so is what a
\* restore has extracted, although it opens the name anew after it verified it.
PublishedIsWhole ==
  /\ \A t \in Ticks : arch[t] # 0 /\ OwnStamp(t) => Whole(arch[t])
  /\ \A r \in Restores : restore[r].ok /\ OwnStamp(restore[r].stamp) => restore[r].sound

\* A backup that was reported as created is there until its retention ends.
BackupIsKept ==
  \A j \in Jobs : job[j].ok /\ OwnStamp(job[j].stamp) =>
    arch[job[j].stamp] = job[j].file \/ Old(job[j].file)

\* What a killed command left behind does not stay when it is old; a file that
\* is still written to is not old for long.
LeftoversGo == \A t \in Ticks : Old(tmp[t]) ~> ~Old(tmp[t])
===============================================================================
