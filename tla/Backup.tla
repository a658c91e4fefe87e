------------------------------- MODULE Backup --------------------------------
(* The backup sidecar: one cycle of backup.sh, run by crond or by an        *)
(* operator, its local rolling buffer, the snapshots on the vmsingle volume *)
(* and the bucket.  The script runs under set -e and pipefail, so the first *)
(* command that fails ends the cycle.  Artifacts are named by the second in *)
(* which their cycle began; here a cycle is the number of its start.        *)
EXTENDS Integers, FiniteSets

CONSTANTS
    Cron,           \* the runner that crond starts
    Manual,         \* docker compose run --rm backup run-once
    Day,            \* how many units of time a day has
    Retention,      \* AXIS_BACKUP_LOCAL_RETENTION_DAYS
    MaxRun,         \* how long a cycle takes at most
    MaxTime,        \* bound: how long a behaviour is followed
    MaxCycles,      \* bound: how many cycles are started
    MaxManual,      \* bound: how many of them by an operator
    MaxFaults       \* bound: how many faults a behaviour may have

ASSUME SettingsAssumption ==
    /\ Cron # Manual
    /\ Day \in Nat \ {0}
    /\ Retention \in Nat
    /\ MaxRun \in Nat
    /\ MaxRun < Day

ASSUME BoundsAssumption ==
    MaxTime \in Nat /\ MaxCycles \in Nat /\ MaxManual \in Nat /\ MaxFaults \in Nat

VARIABLES
    now,        \* the time
    ticked,     \* the first day whose scheduled time crond has not reached
    step,       \* step[r]: the command that runner r executes
    cycle,      \* cycle[r]: the cycle it executes, or the last one
    began,      \* began[r]: when that cycle began
    cycles,     \* how many cycles have begun
    local,      \* the files in /var/lib/axis-backup
    snapshots,  \* the cycles whose snapshot is on the vmsingle volume
    bucket,     \* the objects in the bucket
    finished,   \* the cycles that ran to their end
    manualLeft, faultsLeft

runVars == <<ticked, step, cycle, began, cycles, manualLeft>>
vars == <<now, runVars, local, snapshots, bucket, finished, faultsLeft>>

Runners == {Cron, Manual}
Cycles == 1 .. MaxCycles
Kind == {"postgres", "vmsingle"}
Steps == {"idle", "dump", "snapshot", "tar", "delete", "upload_pg", "upload_vm", "trim"}

\* A dump or archive is whole if the command that wrote it ran to its end.
Object == [kind : Kind, cycle : Cycles, whole : BOOLEAN]
File == [object : Object, mtime : 0 .. MaxTime]

TypeOK ==
    /\ now \in 0 .. MaxTime
    /\ ticked \in 0 .. MaxTime + 1
    /\ step \in [Runners -> Steps]
    /\ cycle \in [Runners -> 0 .. MaxCycles]
    /\ began \in [Runners -> 0 .. MaxTime]
    /\ cycles \in 0 .. MaxCycles
    /\ local \subseteq File
    /\ snapshots \subseteq Cycles
    /\ bucket \subseteq Object
    /\ finished \subseteq Cycles
    /\ manualLeft \in 0 .. MaxManual
    /\ faultsLeft \in 0 .. MaxFaults
    /\ \A f, g \in local : f.object = g.object => f = g

Init ==
    /\ now = 0
    /\ ticked = 0
    /\ step = [r \in Runners |-> "idle"]
    /\ cycle = [r \in Runners |-> 0]
    /\ began = [r \in Runners |-> 0]
    /\ cycles = 0
    /\ local = {}
    /\ snapshots = {}
    /\ bucket = {}
    /\ finished = {}
    /\ manualLeft = MaxManual
    /\ faultsLeft = MaxFaults

-----------------------------------------------------------------------------
(* Who starts a cycle                                                       *)

\* Artifacts named by the date alone.
DateOnly == now \div Day + 1

NextName == cycles + 1

Begin(r) ==
    /\ step[r] = "idle"
    /\ cycles < MaxCycles
    /\ cycles' = cycles + 1
    /\ step' = [step EXCEPT ![r] = "dump"]
    /\ cycle' = [cycle EXCEPT ![r] = NextName]
    /\ began' = [began EXCEPT ![r] = now]
    /\ UNCHANGED <<now, local, snapshots, bucket, finished, faultsLeft>>

\* crond starts the job at its time of the day, unless it is still running.
CronStart ==
    /\ now % Day = 0
    /\ ticked <= now \div Day
    /\ ticked' = now \div Day + 1
    /\ Begin(Cron)
    /\ UNCHANGED manualLeft

ManualStart ==
    /\ manualLeft > 0
    /\ manualLeft' = manualLeft - 1
    /\ Begin(Manual)
    /\ UNCHANGED ticked

-----------------------------------------------------------------------------
(* The commands of do_backup                                                *)

At(r, s) == step[r] = s

Then(r, s) ==
    /\ step' = [step EXCEPT ![r] = s]
    /\ UNCHANGED <<now, ticked, cycle, began, cycles, manualLeft>>

Artifact(r, kind, whole) == [kind |-> kind, cycle |-> cycle[r], whole |-> whole]

\* What the runner has written is in the buffer under the name of its cycle.
Write(r, kind, whole) ==
    local' = local \cup {[object |-> Artifact(r, kind, whole), mtime |-> now]}

Dump(r) ==
    /\ At(r, "dump")
    /\ Write(r, "postgres", TRUE)
    /\ Then(r, "snapshot")
    /\ UNCHANGED <<snapshots, bucket, finished, faultsLeft>>

CreateSnapshot(r) ==
    /\ At(r, "snapshot")
    /\ snapshots' = snapshots \cup {cycle[r]}
    /\ Then(r, "tar")
    /\ UNCHANGED <<local, bucket, finished, faultsLeft>>

Tar(r) ==
    /\ At(r, "tar")
    /\ Write(r, "vmsingle", TRUE)
    /\ Then(r, "delete")
    /\ UNCHANGED <<snapshots, bucket, finished, faultsLeft>>

\* A script that deletes the newest snapshot that vmsingle lists.
NewestSnapshot(r) == cycles

SnapName(r) == cycle[r]

DeleteSnapshot(r) ==
    /\ At(r, "delete")
    /\ snapshots' = snapshots \ {SnapName(r)}
    /\ Then(r, "upload_pg")
    /\ UNCHANGED <<local, bucket, finished, faultsLeft>>

\* aws s3 cp puts the file into the bucket as it is on the disk.
Put(r, kind) ==
    \E f \in local :
        /\ f.object.kind = kind /\ f.object.cycle = cycle[r]
        /\ bucket' = bucket \cup {f.object}

UploadPg(r) ==
    /\ At(r, "upload_pg")
    /\ Put(r, "postgres")
    /\ Then(r, "upload_vm")
    /\ UNCHANGED <<local, snapshots, finished, faultsLeft>>

UploadVm(r) ==
    /\ At(r, "upload_vm")
    /\ Put(r, "vmsingle")
    /\ Then(r, "trim")
    /\ UNCHANGED <<local, snapshots, finished, faultsLeft>>

\* A script that takes find -mtime +N for "N days or more".
ExpiresEarly(f) == (now - f.mtime) \div Day >= Retention

\* find -mtime +N: the age in whole days is greater than N.
Expired(f) == (now - f.mtime) \div Day > Retention

Trim(r) ==
    /\ At(r, "trim")
    /\ local' = {f \in local : ~Expired(f)}
    /\ finished' = finished \cup {cycle[r]}
    /\ Then(r, "idle")
    /\ UNCHANGED <<snapshots, bucket, faultsLeft>>

-----------------------------------------------------------------------------
(* Faults                                                                   *)

\* What a command that did not run to its end may have done: a truncated file,
\* a snapshot or an object whose acknowledgement was lost, or nothing.
LeavesBehind(r) ==
    \/ At(r, "dump") /\ Write(r, "postgres", FALSE) /\ UNCHANGED <<snapshots, bucket>>
    \/ At(r, "snapshot") /\ snapshots' = snapshots \cup {cycle[r]} /\ UNCHANGED <<local, bucket>>
    \/ At(r, "tar") /\ Write(r, "vmsingle", FALSE) /\ UNCHANGED <<snapshots, bucket>>
    \/ At(r, "delete") /\ snapshots' = snapshots \ {SnapName(r)} /\ UNCHANGED <<local, bucket>>
    \/ At(r, "upload_pg") /\ Put(r, "postgres") /\ UNCHANGED <<local, snapshots>>
    \/ At(r, "upload_vm") /\ Put(r, "vmsingle") /\ UNCHANGED <<local, snapshots>>
    \/ At(r, "trim") /\ local' \in SUBSET local /\ (\A f \in local \ local' : Expired(f))
                     /\ UNCHANGED <<snapshots, bucket>>
    \/ ~At(r, "dump") /\ UNCHANGED <<local, snapshots, bucket>>

\* A script without pipefail: the status of the pipeline is that of gzip.
NoPipefail(r) == IF At(r, "dump") THEN "snapshot" ELSE "idle"

\* A script that shrugs off an upload that failed.
ShrugsUploads(r) == IF At(r, "upload_pg") THEN "upload_vm"
                    ELSE IF At(r, "upload_vm") THEN "trim" ELSE "idle"

\* A script that trims the buffer in a trap on EXIT.
TrimsOnExit(r) == IF At(r, "trim") THEN "idle" ELSE "trim"

\* set -e: only the deletion of the snapshot may fail.
AfterFailure(r) == IF At(r, "delete") THEN "upload_pg" ELSE "idle"

CommandFails(r) ==
    /\ ~At(r, "idle")
    /\ LeavesBehind(r)
    /\ Then(r, AfterFailure(r))
    /\ UNCHANGED finished

\* The container is stopped or dies.
Crash(r) ==
    /\ ~At(r, "idle")
    /\ LeavesBehind(r)
    /\ Then(r, "idle")
    /\ UNCHANGED finished

Fault ==
    /\ faultsLeft > 0
    /\ faultsLeft' = faultsLeft - 1
    /\ \E r \in Runners : CommandFails(r) \/ Crash(r)

\* A cycle is over within MaxRun.  A scheduled time may be missed.
Tick ==
    /\ now < MaxTime
    /\ \A r \in Runners : ~At(r, "idle") => now < began[r] + MaxRun
    /\ now' = now + 1
    /\ UNCHANGED <<runVars, local, snapshots, bucket, finished, faultsLeft>>

Run(r) ==
    \/ Dump(r) \/ CreateSnapshot(r) \/ Tar(r) \/ DeleteSnapshot(r)
    \/ UploadPg(r) \/ UploadVm(r) \/ Trim(r)

Next ==
    \/ CronStart \/ ManualStart
    \/ \E r \in Runners : Run(r)
    \/ Fault
    \/ Tick

Spec == Init /\ [][Next]_vars

-----------------------------------------------------------------------------
(* Properties                                                               *)

Pair(c) == {[kind |-> k, cycle |-> c, whole |-> TRUE] : k \in Kind}

Buffered == {f.object : f \in local}

\* Whatever fails or overlaps, no truncated dump or archive ever reaches the
\* bucket, and an archive of the metrics comes with its database dump.
BucketIsRestorable ==
    \A o \in bucket :
        /\ o.whole
        /\ o.kind = "vmsingle" => [o EXCEPT !.kind = "postgres"] \in bucket

\* From the first successful cycle on, the local buffer always holds the whole
\* dump and the whole archive of one cycle, however many later cycles fail and
\* however long they do ("an honest mistake is recoverable without pulling from
\* the bucket").  Whole files are all it speaks of: what tar put into the archive,
\* such as the symbolic links of a snapshot, is outside the model.
BufferIsRestorable ==
    finished # {} => \E c \in Cycles : Pair(c) \subseteq Buffered

\* A whole file leaves the buffer only when a later backup of both stores is
\* in the bucket: a bucket that cannot be reached stops the trimming.
TrimHasSuccessor ==
    [][\A o \in Buffered :
           o.whole => \/ o \in Buffered'
                      \/ \E c \in o.cycle + 1 .. MaxCycles : Pair(c) \subseteq bucket]_vars

\* The last backup of either runner, if it was successful, stays in the buffer
\* for the days the operator asked for (AXIS_BACKUP_LOCAL_RETENTION_DAYS) and
\* the one it began on, whichever cycles trim the buffer meanwhile.
RecentBackupsAreKept ==
    \A r \in Runners :
        cycle[r] \in finished /\ now < began[r] + (Retention + 1) * Day
            => Pair(cycle[r]) \subseteq Buffered

\* A cycle has its own snapshot to archive, and a snapshot nobody will delete
\* any more comes from a fault, one from each at most, also when two cycles
\* overlap ("ask vmsingle to delete the snapshot to reclaim disk").
SnapshotsAreAccounted ==
    /\ \A r \in Runners : At(r, "tar") => cycle[r] \in snapshots
    /\ Cardinality({c \in snapshots :
                       \A r \in Runners : At(r, "idle") \/ cycle[r] # c})
           <= MaxFaults - faultsLeft
=============================================================================
