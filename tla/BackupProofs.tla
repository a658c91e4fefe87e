---------------------------- MODULE BackupProofs -----------------------------
(* The theorems of Backup, for any settings and bounds: whatever fails or   *)
(* overlaps, what is in the bucket and in the buffer can be restored.       *)
EXTENDS Backup, FiniteSetTheorems, TLAPS

-----------------------------------------------------------------------------
(* The invariant                                                            *)

Types ==
    /\ now \in 0 .. MaxTime
    /\ ticked \in 0 .. MaxTime + 1
    /\ step \in [Runners -> Steps]
    /\ cycle \in [Runners -> 0 .. MaxCycles]
    /\ began \in [Runners -> 0 .. MaxTime]
    /\ cycles \in 0 .. MaxCycles
    /\ local \subseteq File
    /\ snapshots \subseteq Cycles
    /\ bucket \subseteq Object
    /\ finished \subseteq Cycles
    /\ manualLeft \in 0 .. MaxManual
    /\ faultsLeft \in 0 .. MaxFaults

\* Two runners never execute the same cycle, and a cycle that runs began less
\* than MaxRun ago.
CycleInv ==
    /\ \A r \in Runners : cycle[r] <= cycles /\ began[r] <= now
    /\ \A r \in Runners : ~At(r, "idle") => /\ cycle[r] \in Cycles
                                            /\ cycle[r] \notin finished
                                            /\ now <= began[r] + MaxRun
    /\ \A r, q \in Runners : r # q /\ cycle[r] = cycle[q] => cycle[r] = 0
    /\ \A c \in finished : c <= cycles

\* A file is as young as the cycle that wrote it, or a later one.
FileInv ==
    \A f \in local :
        /\ f.object.cycle <= cycles
        /\ f.mtime <= now
        /\ \A r \in Runners : f.object.cycle >= cycle[r] => f.mtime >= began[r]

\* An object is one file.
OneFileEach == \A f, g \in local : f.object = g.object => f = g

\* The commands before and after the one that writes the file of this kind.
Before(kind) == IF kind = "postgres" THEN {"dump"}
                ELSE {"dump", "snapshot", "tar"}
Past(kind) == IF kind = "postgres"
              THEN {"snapshot", "tar", "delete", "upload_pg", "upload_vm", "trim"}
              ELSE {"delete", "upload_pg", "upload_vm", "trim"}

\* What the cycle under way has written is whole, and there is no more of it.
Written(r, kind) ==
    /\ step[r] \in Before(kind) =>
           \A f \in local : ~(f.object.cycle = cycle[r] /\ f.object.kind = kind)
    /\ step[r] \in Past(kind) =>
           /\ Artifact(r, kind, TRUE) \in Buffered
           /\ Artifact(r, kind, FALSE) \notin Buffered

WrittenInv == \A r \in Runners, kind \in Kind : Written(r, kind)

\* What the cycle under way has uploaded is in the bucket.
UploadedInv ==
    \A r \in Runners :
        /\ step[r] \in {"upload_vm", "trim"} => Artifact(r, "postgres", TRUE) \in bucket
        /\ At(r, "trim") => Artifact(r, "vmsingle", TRUE) \in bucket

\* The commands between which a cycle keeps a snapshot, or is about to have one.
Snapping == {"snapshot", "tar", "delete"}

\* The snapshots that no runner is still going to delete.
Abandoned ==
    {c \in snapshots :
        \A r \in Runners :
            step[r] \in Snapping => cycle[r] # c}

SnapshotInv ==
    /\ \A r \in Runners : At(r, "tar") => cycle[r] \in snapshots
    /\ Cardinality(Abandoned) <= MaxFaults - faultsLeft

-----------------------------------------------------------------------------
(* What a step of a cycle does, whether its command succeeds, fails or is   *)
(* cut short                                                                *)

\* The command that writes the file of this kind, and the one that uploads it.
Writer(kind) == IF kind = "postgres" THEN "dump" ELSE "tar"
Uploader(kind) == IF kind = "postgres" THEN "upload_pg" ELSE "upload_vm"

\* The cycle goes on only with a whole file.
WriteStep(r) ==
    \E kind \in Kind, whole \in BOOLEAN, s \in Steps :
        /\ At(r, Writer(kind))
        /\ Write(r, kind, whole)
        /\ Then(r, s)
        /\ s = "idle" \/ (whole /\ s = IF kind = "postgres" THEN "snapshot" ELSE "delete")
        /\ UNCHANGED <<bucket, finished>>

PutStep(r) ==
    \E kind \in Kind, s \in Steps :
        /\ At(r, Uploader(kind))
        /\ Put(r, kind)
        /\ Then(r, s)
        /\ s = "idle" \/ s = IF kind = "postgres" THEN "upload_vm" ELSE "trim"
        /\ UNCHANGED <<local, finished>>

TrimStep(r) ==
    /\ At(r, "trim")
    /\ local' \subseteq local
    /\ \A f \in local : f \in local' \/ Expired(f)
    /\ Then(r, "idle")
    /\ finished' = finished \/ finished' = finished \cup {cycle[r]}
    /\ UNCHANGED bucket

OtherStep(r) ==
    \E s \in Steps :
        /\ ~At(r, "idle")
        /\ Then(r, s)
        /\ s = "idle" \/ (At(r, "snapshot") /\ s = "tar")
               \/ (At(r, "delete") /\ s = "upload_pg")
        /\ UNCHANGED <<local, bucket, finished>>

CycleStep(r) == WriteStep(r) \/ PutStep(r) \/ TrimStep(r) \/ OtherStep(r)

LEMMA RunForm ==
    ASSUME NEW r \in Runners, Run(r)
    PROVE  CycleStep(r)
<1> USE DEF At, Steps, Kind
<1>1. CASE Dump(r)
  BY <1>1 DEF Dump, CycleStep, WriteStep, Writer
<1>2. CASE Tar(r)
  BY <1>2 DEF Tar, CycleStep, WriteStep, Writer
<1>3. CASE CreateSnapshot(r) \/ DeleteSnapshot(r)
  BY <1>3 DEF CreateSnapshot, DeleteSnapshot, CycleStep, OtherStep
<1>4. CASE UploadPg(r)
  BY <1>4 DEF UploadPg, CycleStep, PutStep, Uploader
<1>5. CASE UploadVm(r)
  BY <1>5 DEF UploadVm, CycleStep, PutStep, Uploader
<1>6. CASE Trim(r)
  BY <1>6 DEF Trim, CycleStep, TrimStep
<1> QED
  BY <1>1, <1>2, <1>3, <1>4, <1>5, <1>6 DEF Run

LEMMA FaultForm ==
    ASSUME NEW r \in Runners, CommandFails(r) \/ Crash(r)
    PROVE  CycleStep(r)
<1> USE DEF At, Steps, Kind
<1>1. PICK s \in {"idle", AfterFailure(r)} :
          /\ ~At(r, "idle") /\ LeavesBehind(r)
          /\ Then(r, s) /\ UNCHANGED finished
  BY DEF CommandFails, Crash
<1>2. s = "idle" \/ (At(r, "delete") /\ s = "upload_pg")
  BY <1>1 DEF AfterFailure
<1>3. CASE At(r, "dump") /\ Write(r, "postgres", FALSE) /\ UNCHANGED bucket
  BY <1>1, <1>2, <1>3 DEF CycleStep, WriteStep, Writer
<1>4. CASE At(r, "tar") /\ Write(r, "vmsingle", FALSE) /\ UNCHANGED bucket
  BY <1>1, <1>2, <1>4 DEF CycleStep, WriteStep, Writer
<1>5. CASE At(r, "upload_pg") /\ Put(r, "postgres") /\ UNCHANGED local
  BY <1>1, <1>2, <1>5 DEF CycleStep, PutStep, Uploader
<1>6. CASE At(r, "upload_vm") /\ Put(r, "vmsingle") /\ UNCHANGED local
  BY <1>1, <1>2, <1>6 DEF CycleStep, PutStep, Uploader
<1>7. CASE /\ At(r, "trim") /\ local' \in SUBSET local
           /\ \A f \in local \ local' : Expired(f)
           /\ UNCHANGED bucket
  BY <1>1, <1>2, <1>7 DEF CycleStep, TrimStep
<1>8. CASE UNCHANGED <<local, bucket>>
  BY <1>1, <1>2, <1>8 DEF CycleStep, OtherStep
<1> QED
  BY <1>1, <1>3, <1>4, <1>5, <1>6, <1>7, <1>8 DEF LeavesBehind

\* Every step starts a cycle, is a step of one, or lets time pass.
LEMMA Forms ==
    ASSUME [Next]_vars
    PROVE  \/ \E r \in Runners : Begin(r) \/ CycleStep(r)
           \/ Tick
           \/ UNCHANGED vars
BY RunForm, FaultForm DEF Next, CronStart, ManualStart, Fault, Runners

-----------------------------------------------------------------------------
(* Types                                                                    *)

LEMMA WriteTypes ==
    ASSUME Types, NEW r \in Runners, cycle[r] \in Cycles,
           NEW kind \in Kind, NEW whole \in BOOLEAN, Write(r, kind, whole)
    PROVE  local' \subseteq File
<1>1. Artifact(r, kind, whole) \in Object
  BY DEF Artifact, Object
<1>2. [object |-> Artifact(r, kind, whole), mtime |-> now] \in File
  BY <1>1 DEF File, Types
<1> QED
  BY <1>2 DEF Types, Write

LEMMA PutTypes ==
    ASSUME Types, NEW r \in Runners, NEW kind \in Kind, Put(r, kind)
    PROVE  bucket' \subseteq Object
<1>1. PICK f \in local : bucket' = bucket \cup {f.object}
  BY DEF Put
<1>2. f.object \in Object
  BY DEF Types, File
<1> QED
  BY <1>1, <1>2 DEF Types

LEMMA ThenTypes ==
    ASSUME Types, NEW r \in Runners, NEW s \in Steps, Then(r, s)
    PROVE  /\ step' \in [Runners -> Steps]
           /\ UNCHANGED <<now, ticked, cycle, began, cycles, manualLeft>>
BY DEF Types, Then

LEMMA BeginTypes ==
    ASSUME Types, CronStart \/ ManualStart
    PROVE  Types'
<1>1. PICK r \in Runners : Begin(r)
  BY DEF CronStart, ManualStart, Runners
<1>2. NextName \in 0 .. MaxCycles /\ cycles' \in 0 .. MaxCycles
  BY <1>1, BoundsAssumption DEF Types, Begin, NextName
<1>3. /\ step' \in [Runners -> Steps]
      /\ cycle' \in [Runners -> 0 .. MaxCycles]
      /\ began' \in [Runners -> 0 .. MaxTime]
  <2>1. step' = [step EXCEPT ![r] = "dump"] /\ "dump" \in Steps
    BY <1>1 DEF Begin, Steps
  <2>2. cycle' = [cycle EXCEPT ![r] = NextName]
    BY <1>1 DEF Begin
  <2>3. began' = [began EXCEPT ![r] = now]
    BY <1>1 DEF Begin
  <2>4. step' \in [Runners -> Steps]
    BY <2>1 DEF Types
  <2>5. cycle' \in [Runners -> 0 .. MaxCycles]
    BY <1>2, <2>2 DEF Types
  <2>6. began' \in [Runners -> 0 .. MaxTime]
    BY <2>3 DEF Types
  <2> QED
    BY <2>4, <2>5, <2>6
<1>4. ticked' \in 0 .. MaxTime + 1
  <2>1. CASE CronStart
    <3>1. ticked' = now \div Day + 1
      BY <2>1 DEF CronStart
    <3>2. now \in Nat /\ now <= MaxTime /\ MaxTime \in Nat
      BY BoundsAssumption DEF Types
    <3>3. now \div Day \in Nat /\ now \div Day <= now
      <4>1. PICK q : q = now \div Day
        OBVIOUS
      <4>2. q \in Int
        BY <3>2, <4>1, SettingsAssumption
      <4>3. q >= 0
        BY <3>2, <4>1, SettingsAssumption
      <4>4. q <= now
        BY <3>2, <4>1, SettingsAssumption
      <4> QED
        BY <4>1, <4>2, <4>3, <4>4
    <3> QED
      BY <3>1, <3>2, <3>3
  <2>2. CASE ManualStart
    BY <2>2 DEF ManualStart, Types
  <2> QED
    BY <2>1, <2>2
<1>5. manualLeft' \in 0 .. MaxManual
  BY BoundsAssumption DEF CronStart, ManualStart, Types
<1> QED
  BY <1>1, <1>2, <1>3, <1>4, <1>5 DEF Types, Begin

LEMMA CycleStepTypes ==
    ASSUME Types, CycleInv, NEW r \in Runners, CycleStep(r)
    PROVE  /\ step' \in [Runners -> Steps]
           /\ UNCHANGED <<now, ticked, cycle, began, cycles, manualLeft>>
           /\ local' \subseteq File
           /\ bucket' \subseteq Object
           /\ finished' \subseteq Cycles
<1>1. CASE WriteStep(r)
  <2>1. PICK kind \in Kind, whole \in BOOLEAN, s \in Steps :
            /\ At(r, Writer(kind))
            /\ Write(r, kind, whole)
            /\ Then(r, s)
            /\ UNCHANGED <<bucket, finished>>
    BY <1>1 DEF WriteStep
  <2>2. cycle[r] \in Cycles
    BY <2>1 DEF CycleInv, At, Writer
  <2> QED
    BY <2>1, <2>2, WriteTypes, ThenTypes DEF Types
<1>2. CASE PutStep(r)
  <2>1. PICK kind \in Kind, s \in Steps :
            Put(r, kind) /\ Then(r, s) /\ UNCHANGED <<local, finished>>
    BY <1>2 DEF PutStep
  <2> QED
    BY <2>1, PutTypes, ThenTypes DEF Types
<1>3. CASE TrimStep(r)
  <2>1. cycle[r] \in Cycles
    BY <1>3 DEF CycleInv, At, TrimStep
  <2>2. Then(r, "idle") /\ "idle" \in Steps
    BY <1>3 DEF TrimStep, Steps
  <2> QED
    BY <1>3, <2>1, <2>2, ThenTypes DEF Types, TrimStep
<1>4. CASE OtherStep(r)
  BY <1>4, ThenTypes DEF Types, OtherStep
<1> QED
  BY <1>1, <1>2, <1>3, <1>4 DEF CycleStep

LEMMA TypesNext ==
    ASSUME Types, CycleInv, [Next]_vars
    PROVE  Types'
<1>1. CASE CronStart \/ ManualStart
  BY <1>1, BeginTypes
<1>2. ASSUME NEW r \in Runners, Run(r)
      PROVE  Types'
  <2>1. CycleStep(r)
    BY <1>2, RunForm
  <2>2. UNCHANGED faultsLeft
    BY <1>2
    DEF Run, Dump, CreateSnapshot, Tar, DeleteSnapshot, UploadPg, UploadVm, Trim
  <2>3. snapshots' \subseteq Cycles
    <3>1. snapshots' \subseteq snapshots \cup {cycle[r]} /\ step[r] # "idle"
      BY <1>2
      DEF Run, Dump, CreateSnapshot, Tar, DeleteSnapshot, UploadPg, UploadVm,
          Trim, At
    <3>2. cycle[r] \in Cycles
      BY <3>1 DEF CycleInv, At
    <3> QED
      BY <3>1, <3>2 DEF Types
  <2> QED
    BY <2>1, <2>2, <2>3, CycleStepTypes DEF Types
<1>3. CASE Fault
  <2>1. PICK r \in Runners : CommandFails(r) \/ Crash(r)
    BY <1>3 DEF Fault
  <2>2. CycleStep(r)
    BY <2>1, FaultForm
  <2>3. faultsLeft' \in 0 .. MaxFaults
    BY <1>3, BoundsAssumption DEF Fault, Types
  <2>4. snapshots' \subseteq Cycles
    <3>1. snapshots' \subseteq snapshots \cup {cycle[r]} /\ step[r] # "idle"
      BY <2>1 DEF CommandFails, Crash, LeavesBehind, At
    <3>2. cycle[r] \in Cycles
      BY <3>1 DEF CycleInv, At
    <3> QED
      BY <3>1, <3>2 DEF Types
  <2> QED
    BY <2>2, <2>3, <2>4, CycleStepTypes DEF Types
<1>4. CASE Tick
  BY <1>4, BoundsAssumption DEF Tick, runVars, Types
<1>5. CASE UNCHANGED vars
  BY <1>5 DEF vars, runVars, Types
<1> QED
  BY <1>1, <1>2, <1>3, <1>4, <1>5 DEF Next

-----------------------------------------------------------------------------
(* Cycles and files                                                         *)

\* The runners, and which of them run what.
LEMMA ThenOthers ==
    ASSUME Types, NEW r \in Runners, NEW s \in Steps, Then(r, s)
    PROVE  /\ step'[r] = s
           /\ \A q \in Runners : q # r => step'[q] = step[q]
           /\ UNCHANGED <<now, cycle, began, cycles>>
BY DEF Types, Then

LEMMA BeginFacts ==
    ASSUME Types, NEW r \in Runners, Begin(r)
    PROVE  /\ cycles' = cycles + 1 /\ cycles' \in Cycles
           /\ step'[r] = "dump" /\ cycle'[r] = cycles' /\ began'[r] = now
           /\ \A q \in Runners : q # r => /\ step'[q] = step[q]
                                          /\ cycle'[q] = cycle[q]
                                          /\ began'[q] = began[q]
           /\ step[r] = "idle"
           /\ UNCHANGED <<now, local, bucket, finished>>
BY BoundsAssumption DEF Types, Begin, NextName, Cycles

\* A step of a cycle touches its own runner only, which was not idle.
LEMMA CycleStepFacts ==
    ASSUME Types, CycleInv, NEW r \in Runners, CycleStep(r)
    PROVE  /\ step[r] # "idle" /\ cycle[r] \in Cycles
           /\ \A q \in Runners : q # r => step'[q] = step[q]
           /\ UNCHANGED <<now, cycle, began, cycles>>
           /\ \/ finished' = finished
              \/ finished' = finished \cup {cycle[r]} /\ step'[r] = "idle"
           /\ \/ local' \subseteq local
              \/ \E kind \in Kind, whole \in BOOLEAN : Write(r, kind, whole)
<1>1. CASE WriteStep(r)
  <2>1. PICK kind \in Kind, whole \in BOOLEAN, s \in Steps :
            /\ At(r, Writer(kind))
            /\ Write(r, kind, whole)
            /\ Then(r, s)
            /\ UNCHANGED <<bucket, finished>>
    BY <1>1 DEF WriteStep
  <2>2. step[r] # "idle" /\ cycle[r] \in Cycles
    BY <2>1 DEF CycleInv, At, Writer
  <2> QED
    BY <2>1, <2>2, ThenOthers
<1>2. CASE PutStep(r)
  <2>1. PICK kind \in Kind, s \in Steps :
            /\ At(r, Uploader(kind)) /\ Then(r, s)
            /\ UNCHANGED <<local, finished>>
    BY <1>2 DEF PutStep
  <2>2. step[r] # "idle" /\ cycle[r] \in Cycles
    BY <2>1 DEF CycleInv, At, Uploader
  <2> QED
    BY <2>1, <2>2, ThenOthers
<1>3. CASE TrimStep(r)
  <2>1. step[r] # "idle" /\ cycle[r] \in Cycles
    BY <1>3 DEF CycleInv, At, TrimStep
  <2> QED
    BY <1>3, <2>1, ThenOthers DEF TrimStep, Steps
<1>4. CASE OtherStep(r)
  <2>1. step[r] # "idle" /\ cycle[r] \in Cycles
    BY <1>4 DEF CycleInv, At, OtherStep
  <2> QED
    BY <1>4, <2>1, ThenOthers DEF OtherStep
<1> QED
  BY <1>1, <1>2, <1>3, <1>4 DEF CycleStep

LEMMA CycleNext ==
    ASSUME Types, CycleInv, [Next]_vars
    PROVE  CycleInv'
<1> USE DEF At
<1>0. /\ now \in Nat /\ cycles \in Nat
      /\ \A r \in Runners : cycle[r] \in Nat /\ began[r] \in Nat
      /\ finished \subseteq Cycles
  BY BoundsAssumption DEF Types
<1>1. ASSUME NEW r \in Runners, Begin(r)
      PROVE  CycleInv'
  <2>1. \A q \in Runners : q # r => cycle[q] # cycle'[r]
    BY <1>0, <1>1, BeginFacts DEF CycleInv
  <2>2. cycle'[r] \notin finished'
    BY <1>0, <1>1, BeginFacts DEF CycleInv, Cycles
  <2>3. \A q \in Runners : cycle'[q] <= cycles' /\ began'[q] <= now'
    BY <1>0, <1>1, BeginFacts DEF CycleInv
  <2>4. \A q \in Runners : step'[q] # "idle" =>
            /\ cycle'[q] \in Cycles /\ cycle'[q] \notin finished'
            /\ now' <= began'[q] + MaxRun
    BY <1>0, <1>1, <2>2, BeginFacts, SettingsAssumption DEF CycleInv
  <2>5. \A q, p \in Runners : q # p /\ cycle'[q] = cycle'[p] => cycle'[q] = 0
    BY <1>1, <2>1, BeginFacts DEF CycleInv
  <2>6. \A c \in finished' : c <= cycles'
    BY <1>0, <1>1, BeginFacts DEF CycleInv, Cycles
  <2> QED
    BY <2>3, <2>4, <2>5, <2>6 DEF CycleInv
<1>2. ASSUME NEW r \in Runners, CycleStep(r)
      PROVE  CycleInv'
  <2>1. \A q \in Runners : step'[q] # "idle" => step[q] # "idle"
    BY <1>2, CycleStepFacts
  <2>2. \A q \in Runners : step'[q] # "idle" => cycle[q] \notin finished'
    <3>1. CASE finished' = finished
      BY <2>1, <3>1 DEF CycleInv
    <3>2. CASE finished' = finished \cup {cycle[r]} /\ step'[r] = "idle"
      <4>1. cycle[r] # 0
        BY <1>2, CycleStepFacts DEF Cycles
      <4> QED
        BY <2>1, <3>2, <4>1 DEF CycleInv
    <3> QED
      BY <1>2, <3>1, <3>2, CycleStepFacts
  <2>3. \A c \in finished' : c <= cycles
    BY <1>2, CycleStepFacts DEF CycleInv
  <2> QED
    BY <1>2, <2>1, <2>2, <2>3, CycleStepFacts DEF CycleInv
<1>3. CASE Tick
  <2>1. /\ now' = now + 1
        /\ UNCHANGED <<step, cycle, began, cycles, finished>>
        /\ \A r \in Runners : step[r] # "idle" => now < began[r] + MaxRun
    BY <1>3 DEF Tick, runVars
  <2> QED
    BY <1>0, <2>1, SettingsAssumption DEF CycleInv
<1>4. CASE UNCHANGED vars
  BY <1>4 DEF vars, runVars, CycleInv
<1> QED
  BY <1>1, <1>2, <1>3, <1>4, Forms

\* What is in the buffer after a step was there before, or has been written.
LEMMA FileNext ==
    ASSUME Types, CycleInv, FileInv, [Next]_vars
    PROVE  FileInv'
<1> USE DEF At
<1>0. /\ now \in Nat /\ cycles \in Nat
      /\ \A r \in Runners : cycle[r] \in Nat /\ began[r] \in Nat
      /\ \A f \in local : f.object.cycle \in Nat /\ f.mtime \in Nat
  BY BoundsAssumption DEF Types, File, Object, Cycles
<1>1. ASSUME NEW r \in Runners, Begin(r)
      PROVE  FileInv'
  <2> SUFFICES ASSUME NEW f \in local
               PROVE  /\ f.object.cycle <= cycles + 1
                      /\ f.mtime <= now
                      /\ \A q \in Runners : f.object.cycle >= cycle'[q] =>
                                                f.mtime >= began'[q]
    BY <1>1, BeginFacts DEF FileInv
  <2>1. f.object.cycle <= cycles /\ f.mtime <= now
    BY DEF FileInv
  <2>2. ~(f.object.cycle >= cycle'[r])
    BY <1>0, <1>1, <2>1, BeginFacts
  <2> QED
    BY <1>0, <1>1, <2>1, <2>2, BeginFacts DEF FileInv
<1>2. ASSUME NEW r \in Runners, CycleStep(r)
      PROVE  FileInv'
  <2>1. UNCHANGED <<now, cycle, began, cycles>>
    BY <1>2, CycleStepFacts
  <2>2. CASE local' \subseteq local
    BY <2>1, <2>2 DEF FileInv
  <2>3. ASSUME NEW kind \in Kind, NEW whole \in BOOLEAN, Write(r, kind, whole)
        PROVE  FileInv'
    <3>1. PICK g : g = [object |-> Artifact(r, kind, whole), mtime |-> now]
      OBVIOUS
    <3>2. local' = local \cup {g}
      BY <2>3, <3>1 DEF Write
    <3>3. g.object.cycle = cycle[r] /\ g.mtime = now
      BY <3>1 DEF Artifact
    <3>4. /\ g.object.cycle <= cycles /\ g.mtime <= now
          /\ \A q \in Runners : g.mtime >= began[q]
      BY <1>0, <3>3 DEF CycleInv
    <3> QED
      BY <2>1, <3>2, <3>4 DEF FileInv
  <2> QED
    BY <1>2, <2>2, <2>3, CycleStepFacts
<1>3. CASE Tick
  <2>1. now' = now + 1 /\ UNCHANGED <<cycle, began, cycles, local>>
    BY <1>3 DEF Tick, runVars
  <2> QED
    BY <1>0, <2>1 DEF FileInv
<1>4. CASE UNCHANGED vars
  BY <1>4 DEF vars, runVars, FileInv
<1> QED
  BY <1>1, <1>2, <1>3, <1>4, Forms

-----------------------------------------------------------------------------
(* What the buffer holds of the cycles under way                            *)

LEMMA AgeInDays ==
    ASSUME NEW x \in Nat, NEW d \in Nat \ {0}, NEW n \in Nat, x \div d > n
    PROVE  x >= (n + 1) * d
OBVIOUS

LEMMA LessThanADay ==
    ASSUME NEW x \in Nat, NEW d \in Nat \ {0}, x < d
    PROVE  x \div d = 0
OBVIOUS

LEMMA FileNumbers ==
    ASSUME Types, FileInv, NEW f \in local
    PROVE  /\ f.object \in Object
           /\ f.object.cycle \in Nat /\ f.mtime \in Nat /\ now \in Nat
           /\ f.mtime <= now
BY BoundsAssumption DEF Types, FileInv, File, Object, Cycles

\* What find -mtime removes is older than the days to keep, and one.
LEMMA Aged ==
    ASSUME Types, FileInv, NEW f \in local, Expired(f)
    PROVE  now - f.mtime >= (Retention + 1) * Day
<1>1. now - f.mtime \in Nat
  BY FileNumbers
<1> QED
  BY <1>1, AgeInDays, SettingsAssumption DEF Expired

\* A cycle is shorter than a day: it removes nothing of its own, nor of a
\* cycle that began after it.
LEMMA Fresh ==
    ASSUME Types, CycleInv, FileInv, NEW r \in Runners, step[r] # "idle",
           NEW f \in local, f.object.cycle >= cycle[r]
    PROVE  ~Expired(f)
<1>1. /\ now \in Nat /\ f.mtime \in Nat /\ f.mtime <= now
      /\ began[r] \in Nat
  BY FileNumbers, BoundsAssumption DEF Types
<1>2. now <= began[r] + MaxRun /\ f.mtime >= began[r]
  BY DEF CycleInv, FileInv, At
<1>3. now - f.mtime \in Nat /\ now - f.mtime < Day
  BY <1>1, <1>2, SettingsAssumption
<1>4. (now - f.mtime) \div Day = 0
  BY <1>3, LessThanADay, SettingsAssumption
<1> QED
  BY <1>4, SettingsAssumption DEF Expired

\* What a step of a cycle adds to the buffer is of that cycle, and what it
\* removes has expired.
LEMMA BufferStep ==
    ASSUME NEW r \in Runners, CycleStep(r)
    PROVE  /\ \A f \in local' : f \in local \/ f.object.cycle = cycle[r]
           /\ \A f \in local : f \in local' \/ (step[r] = "trim" /\ Expired(f))
<1>1. ASSUME NEW kind \in Kind, NEW whole \in BOOLEAN, Write(r, kind, whole)
      PROVE  /\ \A f \in local' : f \in local \/ f.object.cycle = cycle[r]
             /\ \A f \in local : f \in local'
  BY <1>1 DEF Write, Artifact
<1> QED
  BY <1>1 DEF CycleStep, WriteStep, PutStep, TrimStep, OtherStep, At

LEMMA KindSteps ==
    ASSUME NEW kind \in Kind
    PROVE  /\ "idle" \notin Before(kind) \cup Past(kind)
           /\ "dump" \in Before(kind) \ Past(kind)
BY DEF Kind, Before, Past

LEMMA WrittenOther ==
    ASSUME Types, CycleInv, FileInv, NEW kind \in Kind,
           NEW r \in Runners, CycleStep(r),
           NEW q \in Runners, q # r, Written(q, kind)
    PROVE  Written(q, kind)'
<1>1. /\ step'[q] = step[q] /\ UNCHANGED cycle /\ cycle[r] # 0
  BY CycleStepFacts DEF Cycles
<1>2. cycle[q] # cycle[r]
  BY <1>1 DEF CycleInv
<1>3. \A w \in BOOLEAN : Artifact(q, kind, w)' = Artifact(q, kind, w)
  BY <1>1 DEF Artifact
<1>4. ASSUME step[q] \in Before(kind), NEW f \in local',
             f.object.cycle = cycle[q], f.object.kind = kind
      PROVE  FALSE
  BY <1>2, <1>4, BufferStep DEF Written
<1>5. ASSUME step[q] \in Past(kind)
      PROVE  Artifact(q, kind, TRUE) \in Buffered'
  <2>1. PICK f \in local : f.object = Artifact(q, kind, TRUE)
    BY <1>5 DEF Written, Buffered
  <2>2. f.object.cycle >= cycle[q]
    BY <2>1, FileNumbers DEF Artifact
  <2>3. f \in local'
    BY <1>5, <2>2, BufferStep, Fresh, KindSteps
  <2> QED
    BY <2>1, <2>3 DEF Buffered
<1>6. ASSUME step[q] \in Past(kind), Artifact(q, kind, FALSE) \in Buffered'
      PROVE  FALSE
  <2>1. PICK f \in local' : f.object = Artifact(q, kind, FALSE)
    BY <1>6 DEF Buffered
  <2>2. f.object.cycle # cycle[r]
    BY <1>2, <2>1 DEF Artifact
  <2> QED
    BY <1>6, <2>1, <2>2, BufferStep DEF Written, Buffered
<1> QED
  BY <1>1, <1>3, <1>4, <1>5, <1>6 DEF Written

\* The cycle goes on from a command that writes only with a whole file.
LEMMA WrittenOwn ==
    ASSUME Types, CycleInv, WrittenInv, NEW r \in Runners, CycleStep(r),
           NEW kind \in Kind
    PROVE  Written(r, kind)'
<1>1. UNCHANGED cycle
  BY CycleStepFacts
<1>2. \A w \in BOOLEAN : Artifact(r, kind, w)' = Artifact(r, kind, w)
  BY <1>1 DEF Artifact
<1>3. Written(r, kind)
  BY DEF WrittenInv
<1>4. CASE step'[r] = "idle"
  BY <1>4, KindSteps DEF Written
<1>5. ASSUME UNCHANGED local,
             step'[r] \in Before(kind) => step[r] \in Before(kind),
             step'[r] \in Past(kind) => step[r] \in Past(kind)
      PROVE  Written(r, kind)'
  BY <1>1, <1>2, <1>3, <1>5 DEF Written, Buffered
<1>6. CASE WriteStep(r) /\ step'[r] # "idle"
  <2>1. PICK k \in Kind :
            /\ step[r] = Writer(k)
            /\ Write(r, k, TRUE)
            /\ step'[r] = IF k = "postgres" THEN "snapshot" ELSE "delete"
    BY <1>6, ThenOthers DEF WriteStep, At
  <2>2. PICK g : g = [object |-> Artifact(r, k, TRUE), mtime |-> now]
    OBVIOUS
  <2>3. local' = local \cup {g}
    BY <2>1, <2>2 DEF Write
  <2>4. /\ g.object = Artifact(r, k, TRUE)
        /\ g.object.kind = k /\ g.object.whole = TRUE
    BY <2>2 DEF Artifact
  <2>5. CASE kind = k
    <3>1. step[r] \in Before(kind) /\ step'[r] \notin Before(kind)
      BY <2>1, <2>5 DEF Writer, Before, Kind
    <3>2. Artifact(r, kind, TRUE) \in Buffered'
      BY <2>3, <2>4, <2>5 DEF Buffered
    <3>3. Artifact(r, kind, FALSE) \notin Buffered'
      <4> SUFFICES ASSUME NEW f \in local', f.object = Artifact(r, kind, FALSE)
                   PROVE  FALSE
        BY DEF Buffered
      <4>1. f.object.cycle = cycle[r] /\ f.object.kind = kind /\ f.object.whole = FALSE
        BY DEF Artifact
      <4> QED
        BY <1>3, <2>3, <2>4, <3>1, <4>1 DEF Written
    <3> QED
      BY <1>2, <3>1, <3>2, <3>3 DEF Written
  <2>6. CASE kind # k
    <3>1. Artifact(r, kind, TRUE) \in Buffered => Artifact(r, kind, TRUE) \in Buffered'
      BY <2>3 DEF Buffered
    <3>2. Artifact(r, kind, FALSE) \in Buffered' => Artifact(r, kind, FALSE) \in Buffered
      <4> SUFFICES ASSUME NEW f \in local', f.object = Artifact(r, kind, FALSE)
                   PROVE  f \in local
        BY DEF Buffered
      <4>1. f.object.kind = kind
        BY DEF Artifact
      <4> QED
        BY <2>3, <2>4, <2>6, <4>1
    <3>3. \A f \in local' : f.object.kind = kind => f \in local
      BY <2>3, <2>4, <2>6
    <3>4. /\ step'[r] \in Before(kind) => step[r] \in Before(kind)
          /\ step'[r] \in Past(kind) => step[r] \in Past(kind)
      BY <2>1, <2>6 DEF Writer, Before, Past, Kind
    <3> QED
      BY <1>1, <1>2, <1>3, <3>1, <3>2, <3>3, <3>4 DEF Written
  <2> QED
    BY <2>5, <2>6
<1>7. CASE PutStep(r) /\ step'[r] # "idle"
  <2>1. PICK k \in Kind :
            /\ step[r] = Uploader(k) /\ UNCHANGED local
            /\ step'[r] = IF k = "postgres" THEN "upload_vm" ELSE "trim"
    BY <1>7, ThenOthers DEF PutStep, At
  <2>2. /\ step'[r] \in Before(kind) => step[r] \in Before(kind)
        /\ step'[r] \in Past(kind) => step[r] \in Past(kind)
    BY <2>1 DEF Uploader, Before, Past, Kind
  <2> QED
    BY <1>5, <2>1, <2>2
<1>8. CASE TrimStep(r)
  BY <1>4, <1>8, ThenOthers DEF TrimStep, Steps
<1>9. CASE OtherStep(r) /\ step'[r] # "idle"
  <2>1. /\ UNCHANGED local
        /\ (step[r] = "snapshot" /\ step'[r] = "tar")
           \/ (step[r] = "delete" /\ step'[r] = "upload_pg")
    BY <1>9, ThenOthers DEF OtherStep, At
  <2>2. /\ step'[r] \in Before(kind) => step[r] \in Before(kind)
        /\ step'[r] \in Past(kind) => step[r] \in Past(kind)
    BY <2>1 DEF Before, Past, Kind
  <2> QED
    BY <1>5, <2>1, <2>2
<1> QED
  BY <1>4, <1>6, <1>7, <1>8, <1>9 DEF CycleStep

LEMMA WrittenNext ==
    ASSUME Types, CycleInv, FileInv, WrittenInv, [Next]_vars
    PROVE  WrittenInv'
<1>1. ASSUME NEW r \in Runners, Begin(r)
      PROVE  WrittenInv'
  <2> SUFFICES ASSUME NEW q \in Runners, NEW kind \in Kind
               PROVE  Written(q, kind)'
    BY DEF WrittenInv
  <2>1. Written(q, kind) /\ UNCHANGED local
    BY <1>1, BeginFacts DEF WrittenInv
  <2>2. CASE q = r
    <3>1. \A f \in local : f.object.cycle # cycle'[r]
      <4>1. \A f \in local : f.object.cycle \in Nat /\ f.object.cycle <= cycles
        BY FileNumbers DEF FileInv
      <4>2. cycles \in Nat /\ cycle'[r] = cycles + 1
        BY <1>1, BeginFacts, BoundsAssumption DEF Types
      <4> QED
        BY <4>1, <4>2
    <3>2. step'[r] = "dump"
      BY <1>1, BeginFacts
    <3> QED
      BY <2>1, <2>2, <3>1, <3>2, KindSteps DEF Written
  <2>3. CASE q # r
    <3>1. step'[q] = step[q] /\ cycle'[q] = cycle[q]
      BY <1>1, <2>3, BeginFacts
    <3> QED
      BY <2>1, <3>1 DEF Written, Buffered, Artifact
  <2> QED
    BY <2>2, <2>3
<1>2. ASSUME NEW r \in Runners, CycleStep(r)
      PROVE  WrittenInv'
  BY <1>2, WrittenOther, WrittenOwn DEF WrittenInv
<1>3. CASE Tick \/ UNCHANGED vars
  BY <1>3 DEF Tick, vars, runVars, WrittenInv, Written, Buffered, Artifact
<1> QED
  BY <1>1, <1>2, <1>3, Forms

\* A command does not write a file that is there already.
LEMMA OneFileNext ==
    ASSUME Types, CycleInv, WrittenInv, OneFileEach, [Next]_vars
    PROVE  OneFileEach'
<1>1. ASSUME NEW r \in Runners, Begin(r)
      PROVE  OneFileEach'
  BY <1>1, BeginFacts DEF OneFileEach
<1>2. ASSUME NEW r \in Runners, CycleStep(r)
      PROVE  OneFileEach'
  <2>1. CASE local' \subseteq local
    BY <2>1 DEF OneFileEach
  <2>2. CASE WriteStep(r)
    <3>1. PICK kind \in Kind, whole \in BOOLEAN :
              step[r] = Writer(kind) /\ Write(r, kind, whole)
      BY <2>2 DEF WriteStep, At
    <3>2. PICK g : g = [object |-> Artifact(r, kind, whole), mtime |-> now]
      OBVIOUS
    <3>3. local' = local \cup {g}
      BY <3>1, <3>2 DEF Write
    <3>4. g.object.cycle = cycle[r] /\ g.object.kind = kind
      BY <3>2 DEF Artifact
    <3>5. step[r] \in Before(kind)
      BY <3>1 DEF Writer, Before, Kind
    <3>6. \A f \in local : f.object # g.object
      BY <3>4, <3>5 DEF WrittenInv, Written
    <3> QED
      BY <3>3, <3>6 DEF OneFileEach
  <2> QED
    BY <1>2, <2>1, <2>2 DEF CycleStep, PutStep, TrimStep, OtherStep
<1>3. CASE Tick \/ UNCHANGED vars
  BY <1>3 DEF Tick, vars, runVars, OneFileEach
<1> QED
  BY <1>1, <1>2, <1>3, Forms

-----------------------------------------------------------------------------
(* What is in the bucket                                                    *)

\* What is uploaded of a cycle under way is the whole file of that kind.
LEMMA PutIsWhole ==
    ASSUME Types, WrittenInv, NEW r \in Runners, PutStep(r)
    PROVE  \E kind \in Kind :
               /\ step[r] = Uploader(kind)
               /\ bucket' = bucket \cup {Artifact(r, kind, TRUE)}
               /\ step'[r] = "idle" \/ step'[r] = IF kind = "postgres"
                                                 THEN "upload_vm" ELSE "trim"
<1>1. PICK kind \in Kind, s \in Steps :
          /\ step[r] = Uploader(kind)
          /\ Put(r, kind) /\ Then(r, s)
          /\ s = "idle" \/ s = IF kind = "postgres" THEN "upload_vm" ELSE "trim"
  BY DEF PutStep, At
<1>2. PICK f \in local : /\ f.object.kind = kind /\ f.object.cycle = cycle[r]
                         /\ bucket' = bucket \cup {f.object}
  BY <1>1 DEF Put
<1>3. f.object \in Object
  BY DEF Types, File
<1>4. f.object = Artifact(r, kind, f.object.whole) /\ f.object.whole \in BOOLEAN
  BY <1>2, <1>3 DEF Object, Artifact
<1>5. step[r] \in Past(kind)
  BY <1>1 DEF Uploader, Past, Kind
<1>6. Artifact(r, kind, FALSE) \notin Buffered
  BY <1>5 DEF WrittenInv, Written
<1>7. f.object \in Buffered
  BY DEF Buffered
<1>8. f.object.whole = TRUE
  BY <1>4, <1>6, <1>7
<1>9. f.object = Artifact(r, kind, TRUE)
  BY <1>4, <1>8
<1> QED
  BY <1>1, <1>2, <1>9, ThenOthers

LEMMA BucketGrows ==
    ASSUME NEW r \in Runners, CycleStep(r)
    PROVE  bucket \subseteq bucket' /\ (bucket' = bucket \/ PutStep(r))
BY DEF CycleStep, WriteStep, PutStep, TrimStep, OtherStep, Put

LEMMA UploadedNext ==
    ASSUME Types, CycleInv, WrittenInv, UploadedInv, [Next]_vars
    PROVE  UploadedInv'
<1> USE DEF At
<1>1. ASSUME NEW r \in Runners, Begin(r)
      PROVE  UploadedInv'
  BY <1>1, BeginFacts DEF UploadedInv, Artifact
<1>2. ASSUME NEW r \in Runners, CycleStep(r)
      PROVE  UploadedInv'
  <2>1. \A q \in Runners, kind \in Kind :
            Artifact(q, kind, TRUE)' = Artifact(q, kind, TRUE)
    BY <1>2, CycleStepFacts DEF Artifact
  <2>2. \A q \in Runners : q # r => step'[q] = step[q]
    BY <1>2, CycleStepFacts
  <2>3. /\ step'[r] \in {"upload_vm", "trim"} =>
               Artifact(r, "postgres", TRUE) \in bucket'
        /\ step'[r] = "trim" => Artifact(r, "vmsingle", TRUE) \in bucket'
    <3>1. CASE PutStep(r)
      BY <3>1, PutIsWhole, BucketGrows, <1>2 DEF UploadedInv, Uploader, Kind
    <3>2. CASE WriteStep(r)
      BY <3>2, ThenOthers DEF WriteStep
    <3>3. CASE TrimStep(r)
      BY <3>3, ThenOthers DEF TrimStep, Steps
    <3>4. CASE OtherStep(r)
      BY <3>4, ThenOthers DEF OtherStep
    <3> QED
      BY <1>2, <3>1, <3>2, <3>3, <3>4 DEF CycleStep
  <2> QED
    BY <1>2, <2>1, <2>2, <2>3, BucketGrows DEF UploadedInv, Kind
<1>3. CASE Tick \/ UNCHANGED vars
  BY <1>3 DEF Tick, vars, runVars, UploadedInv, Artifact
<1> QED
  BY <1>1, <1>2, <1>3, Forms

LEMMA WithKind ==
    ASSUME NEW o \in Object, NEW p \in Object,
           p.cycle = o.cycle, p.whole = o.whole
    PROVE  [o EXCEPT !.kind = p.kind] = p
BY DEF Object

\* The archive of the metrics is uploaded after its database dump.
LEMMA RestorableNext ==
    ASSUME Types, CycleInv, WrittenInv, UploadedInv, BucketIsRestorable,
           [Next]_vars
    PROVE  BucketIsRestorable'
<1>1. ASSUME NEW r \in Runners, PutStep(r)
      PROVE  BucketIsRestorable'
  <2>1. PICK kind \in Kind : /\ step[r] = Uploader(kind)
                            /\ bucket' = bucket \cup {Artifact(r, kind, TRUE)}
    BY <1>1, PutIsWhole
  <2>2. Artifact(r, kind, TRUE).whole = TRUE /\ Artifact(r, kind, TRUE).kind = kind
    BY DEF Artifact
  <2>3. [Artifact(r, kind, TRUE) EXCEPT !.kind = "postgres"]
            = Artifact(r, "postgres", TRUE)
    <3>1. /\ Artifact(r, kind, TRUE) \in Object
          /\ Artifact(r, "postgres", TRUE) \in Object
      <4>1. cycle[r] \in Cycles
        BY <1>1, CycleStepFacts DEF CycleStep
      <4> QED
        BY <4>1 DEF Artifact, Object, Kind
    <3>2. /\ Artifact(r, "postgres", TRUE).cycle = Artifact(r, kind, TRUE).cycle
          /\ Artifact(r, "postgres", TRUE).whole = Artifact(r, kind, TRUE).whole
          /\ Artifact(r, "postgres", TRUE).kind = "postgres"
      BY DEF Artifact
    <3> QED
      BY <3>1, <3>2, WithKind
  <2>4. kind = "vmsingle" => Artifact(r, "postgres", TRUE) \in bucket
    BY <2>1 DEF UploadedInv, Uploader
  <2> QED
    BY <2>1, <2>2, <2>3, <2>4 DEF BucketIsRestorable
<1>2. CASE bucket' = bucket
  BY <1>2 DEF BucketIsRestorable
<1>3. bucket' = bucket \/ \E r \in Runners : PutStep(r)
  BY Forms, BeginFacts, BucketGrows DEF Tick, vars
<1> QED
  BY <1>1, <1>2, <1>3

-----------------------------------------------------------------------------
(* What stays in the buffer                                                 *)

LEMMA PairOf ==
    ASSUME NEW r \in Runners
    PROVE  Pair(cycle[r]) = {Artifact(r, kind, TRUE) : kind \in Kind}
BY DEF Pair, Artifact

LEMMA PairWithin ==
    ASSUME NEW r \in Runners, NEW S, \A kind \in Kind : Artifact(r, kind, TRUE) \in S
    PROVE  Pair(cycle[r]) \subseteq S
BY DEF Pair, Artifact

\* A cycle that trims keeps what it has written itself.
LEMMA TrimKeepsOwn ==
    ASSUME Types, CycleInv, FileInv, WrittenInv, NEW r \in Runners, TrimStep(r)
    PROVE  Pair(cycle[r]) \subseteq Buffered'
<1> SUFFICES ASSUME NEW kind \in Kind
             PROVE  Artifact(r, kind, TRUE) \in Buffered'
  BY PairWithin
<1>1. step[r] = "trim" /\ step[r] \in Past(kind)
  BY DEF TrimStep, At, Past, Kind
<1>2. PICK f \in local : f.object = Artifact(r, kind, TRUE)
  BY <1>1 DEF WrittenInv, Written, Buffered
<1>3. f.object.cycle >= cycle[r]
  BY <1>2, FileNumbers DEF Artifact
<1>4. f \in local'
  BY <1>1, <1>3, Fresh DEF TrimStep
<1> QED
  BY <1>2, <1>4 DEF Buffered

LEMMA BufferNext ==
    ASSUME Types, CycleInv, FileInv, WrittenInv, BufferIsRestorable, [Next]_vars
    PROVE  BufferIsRestorable'
<1>1. ASSUME NEW r \in Runners, TrimStep(r)
      PROVE  BufferIsRestorable'
  <2>1. cycle[r] \in Cycles
    BY <1>1, CycleStepFacts DEF CycleStep
  <2>2. Pair(cycle[r]) \subseteq Buffered'
    BY <1>1, TrimKeepsOwn
  <2> QED
    BY <2>1, <2>2 DEF BufferIsRestorable, Pair
<1>2. ASSUME local \subseteq local', UNCHANGED finished
      PROVE  BufferIsRestorable'
  <2>1. Buffered \subseteq Buffered'
    BY <1>2 DEF Buffered
  <2> QED
    BY <1>2, <2>1 DEF BufferIsRestorable, Pair
<1>3. ASSUME NEW r \in Runners, WriteStep(r) \/ PutStep(r) \/ OtherStep(r)
      PROVE  local \subseteq local' /\ UNCHANGED finished
  BY <1>3 DEF WriteStep, PutStep, OtherStep, Write
<1>4. ASSUME NEW r \in Runners, Begin(r)
      PROVE  local \subseteq local' /\ UNCHANGED finished
  BY <1>4, BeginFacts
<1>5. CASE Tick \/ UNCHANGED vars
  BY <1>2, <1>5 DEF Tick, vars
<1> QED
  BY <1>1, <1>2, <1>3, <1>4, <1>5, Forms DEF CycleStep

\* What the last cycle of a runner wrote has not expired in the days to keep.
LEMMA Recent ==
    ASSUME Types, CycleInv, FileInv, NEW r \in Runners,
           now < began[r] + (Retention + 1) * Day,
           NEW f \in local, f.object.cycle >= cycle[r]
    PROVE  ~Expired(f)
<1>1. f.mtime >= began[r]
  BY DEF FileInv
<1>2. PICK days \in Int : days = (Retention + 1) * Day
  BY SettingsAssumption
<1>3. now \in Nat /\ f.mtime \in Nat /\ began[r] \in Nat
  BY FileNumbers, BoundsAssumption DEF Types
<1> QED
  BY <1>1, <1>2, <1>3, Aged

LEMMA RecentNext ==
    ASSUME Types, CycleInv, FileInv, WrittenInv, RecentBackupsAreKept,
           [Next]_vars
    PROVE  RecentBackupsAreKept'
<1>0. PICK days \in Int : days = (Retention + 1) * Day
  BY SettingsAssumption
<1> DEFINE Kept(q) == cycle[q] \in finished /\ now < began[q] + days
                          => Pair(cycle[q]) \subseteq Buffered
<1>1. RecentBackupsAreKept <=> \A q \in Runners : Kept(q)
  BY <1>0 DEF RecentBackupsAreKept
<1>2. RecentBackupsAreKept' <=> \A q \in Runners : Kept(q)'
  BY <1>0 DEF RecentBackupsAreKept
<1>3. ASSUME NEW r \in Runners, Begin(r)
      PROVE  \A q \in Runners : Kept(q)'
  <2>1. cycle'[r] \notin finished'
    <3>1. cycle'[r] = cycles + 1 /\ cycles \in Nat /\ finished' = finished
      BY <1>3, BeginFacts, BoundsAssumption DEF Types
    <3>2. \A c \in finished : c \in Nat /\ c <= cycles
      BY DEF CycleInv, Types, Cycles
    <3> QED
      BY <3>1, <3>2
  <2>2. \A q \in Runners : q # r => cycle'[q] = cycle[q] /\ began'[q] = began[q]
    BY <1>3, BeginFacts
  <2>3. UNCHANGED <<now, local, finished>>
    BY <1>3, BeginFacts
  <2> QED
    BY <1>1, <2>1, <2>2, <2>3 DEF Pair, Buffered
<1>4. ASSUME NEW r \in Runners, CycleStep(r)
      PROVE  \A q \in Runners : Kept(q)'
  <2> SUFFICES ASSUME NEW q \in Runners, cycle[q] \in finished',
                      now < began[q] + days
               PROVE  Pair(cycle[q]) \subseteq Buffered'
    BY <1>4, CycleStepFacts DEF Pair
  <2>1. CASE cycle[q] \in finished
    <3>1. Pair(cycle[q]) \subseteq Buffered
      BY <1>1, <2>1
    <3> SUFFICES ASSUME NEW kind \in Kind
                 PROVE  Artifact(q, kind, TRUE) \in Buffered'
      BY PairWithin
    <3>2. PICK f \in local : f.object = Artifact(q, kind, TRUE)
      BY <3>1, PairOf DEF Buffered
    <3>3. f.object.cycle >= cycle[q]
      BY <3>2, FileNumbers DEF Artifact
    <3>4. ~Expired(f)
      BY <1>0, <3>3, Recent
    <3>5. f \in local'
      BY <1>4, <3>4, BufferStep
    <3> QED
      BY <3>2, <3>5 DEF Buffered
  <2>2. CASE cycle[q] \notin finished
    <3>1. TrimStep(r) /\ cycle[q] = cycle[r]
      BY <1>4, <2>2 DEF CycleStep, WriteStep, PutStep, TrimStep, OtherStep
    <3> QED
      BY <3>1, TrimKeepsOwn
  <2> QED
    BY <2>1, <2>2
<1>5. CASE Tick \/ UNCHANGED vars
  <2>1. now' = now \/ now' = now + 1
    BY <1>5 DEF Tick, vars
  <2>2. UNCHANGED <<cycle, began, local, finished>>
    BY <1>5 DEF Tick, vars, runVars
  <2>3. now \in Nat /\ \A q \in Runners : began[q] \in Nat
    BY BoundsAssumption DEF Types
  <2> SUFFICES ASSUME NEW q \in Runners, cycle[q] \in finished, now' < began[q] + days
               PROVE  Pair(cycle[q]) \subseteq Buffered'
    BY <1>2, <2>2 DEF Pair
  <2>4. now < began[q] + days
    BY <1>0, <2>1, <2>3
  <2>5. Pair(cycle[q]) \subseteq Buffered
    BY <1>1, <2>4
  <2> QED
    BY <2>2, <2>5 DEF Buffered
<1> QED
  BY <1>2, <1>3, <1>4, <1>5, Forms

\* A cycle trims after it has uploaded, and only what is older than its own.
LEMMA TrimStepIsSafe ==
    ASSUME Types, CycleInv, FileInv, UploadedInv, [Next]_vars,
           NEW o \in Buffered, o \notin Buffered'
    PROVE  \E c \in o.cycle + 1 .. MaxCycles : Pair(c) \subseteq bucket
<1>1. PICK f \in local : f.object = o /\ f \notin local'
  BY DEF Buffered
<1>2. PICK r \in Runners : CycleStep(r)
  <2>1. \A r \in Runners : Begin(r) => local' = local
    BY BeginFacts
  <2>2. Tick \/ UNCHANGED vars => local' = local
    BY DEF Tick, vars
  <2> QED
    BY <1>1, <2>1, <2>2, Forms
<1>3. step[r] = "trim" /\ Expired(f)
  BY <1>1, <1>2, BufferStep
<1>4. ~(f.object.cycle >= cycle[r])
  BY <1>3, Fresh
<1>5. cycle[r] \in o.cycle + 1 .. MaxCycles
  <2>1. o.cycle \in Nat /\ cycle[r] \in Cycles
    BY <1>1, <1>2, FileNumbers, CycleStepFacts
  <2> QED
    BY <1>1, <1>4, <2>1, BoundsAssumption DEF Cycles
<1>6. Pair(cycle[r]) \subseteq bucket
  BY <1>3, PairOf DEF UploadedInv, At, Kind
<1> QED
  BY <1>5, <1>6

-----------------------------------------------------------------------------
(* Snapshots                                                                *)

\* A command that succeeds leaves a snapshot only to its own deletion.
LEMMA RunSnapshots ==
    ASSUME Types, NEW r \in Runners, Run(r)
    PROVE  /\ \A c \in snapshots' : c \in snapshots \/ (c = cycle[r] /\ step'[r] = "tar")
           /\ snapshots \ {cycle[r]} \subseteq snapshots'
           /\ step[r] \in Snapping => step'[r] \in Snapping \/ cycle[r] \notin snapshots'
           /\ step'[r] = "tar" => cycle[r] \in snapshots'
           /\ UNCHANGED faultsLeft
<1>1. CASE CreateSnapshot(r)
  <2>1. Then(r, "tar") /\ "tar" \in Steps
    BY <1>1 DEF CreateSnapshot, Steps
  <2>2. step'[r] = "tar"
    BY <2>1, ThenOthers
  <2> QED
    BY <1>1, <2>2 DEF CreateSnapshot, Snapping
<1>2. CASE DeleteSnapshot(r)
  <2>1. Then(r, "upload_pg") /\ "upload_pg" \in Steps
    BY <1>2 DEF DeleteSnapshot, Steps
  <2>2. step'[r] = "upload_pg"
    BY <2>1, ThenOthers
  <2> QED
    BY <1>2, <2>2 DEF DeleteSnapshot, SnapName, Snapping
<1>3. CASE Dump(r) \/ Tar(r) \/ UploadPg(r) \/ UploadVm(r) \/ Trim(r)
  <2>1. UNCHANGED <<snapshots, faultsLeft>>
    BY <1>3 DEF Dump, Tar, UploadPg, UploadVm, Trim
  <2>2. PICK s \in {"snapshot", "delete", "upload_vm", "trim", "idle"} :
            /\ Then(r, s)
            /\ step[r] \in Snapping => s = "delete"
    BY <1>3 DEF Dump, Tar, UploadPg, UploadVm, Trim, At, Snapping
  <2>3. step'[r] = s
    BY <2>2, ThenOthers DEF Steps
  <2> QED
    BY <2>1, <2>2, <2>3 DEF Snapping
<1> QED
  BY <1>1, <1>2, <1>3 DEF Run

\* A fault leaves at most the snapshot of its own cycle.
LEMMA FaultSnapshots ==
    ASSUME Types, NEW r \in Runners, CommandFails(r) \/ Crash(r)
    PROVE  /\ snapshots' \subseteq snapshots \cup {cycle[r]}
           /\ snapshots \ {cycle[r]} \subseteq snapshots'
           /\ step'[r] # "tar"
<1>1. LeavesBehind(r) /\ (Then(r, AfterFailure(r)) \/ Then(r, "idle"))
  BY DEF CommandFails, Crash
<1>2. step'[r] # "tar"
  BY <1>1, ThenOthers DEF AfterFailure, Steps
<1> QED
  BY <1>1, <1>2 DEF LeavesBehind, SnapName

LEMMA AbandonedIsFinite ==
    ASSUME Types
    PROVE  IsFiniteSet(Abandoned) /\ Cardinality(Abandoned) \in Nat
<1>1. IsFiniteSet(Cycles)
  BY FS_Interval, BoundsAssumption DEF Cycles
<1>2. Abandoned \subseteq Cycles
  BY DEF Abandoned, Types
<1> QED
  BY <1>1, <1>2, FS_Subset, FS_CardinalityType

\* Only a fault abandons a snapshot, and only one.
LEMMA AbandonedStep ==
    ASSUME Types, CycleInv, [Next]_vars
    PROVE  \/ Abandoned' \subseteq Abandoned /\ UNCHANGED faultsLeft
           \/ \E c \in Cycles : /\ Abandoned' \subseteq Abandoned \cup {c}
                              /\ faultsLeft > 0 /\ faultsLeft' = faultsLeft - 1
<1> USE DEF Snapping
<1>1. ASSUME NEW r \in Runners, Begin(r)
      PROVE  Abandoned' \subseteq Abandoned /\ UNCHANGED faultsLeft
  <2>1. UNCHANGED <<snapshots, faultsLeft>>
    BY <1>1 DEF Begin
  <2>2. step[r] = "idle"
    BY <1>1, BeginFacts
  <2>3. \A q \in Runners : q # r => step'[q] = step[q] /\ cycle'[q] = cycle[q]
    BY <1>1, BeginFacts
  <2> QED
    BY <2>1, <2>2, <2>3 DEF Abandoned
<1>2. ASSUME NEW r \in Runners, Run(r)
      PROVE  Abandoned' \subseteq Abandoned /\ UNCHANGED faultsLeft
  <2>1. UNCHANGED cycle /\ \A q \in Runners : q # r => step'[q] = step[q]
    BY <1>2, RunForm, CycleStepFacts
  <2> SUFFICES ASSUME NEW c \in Abandoned'
               PROVE  c \in Abandoned
    BY <1>2, RunSnapshots
  <2>2. c \in snapshots' /\ \A q \in Runners : step'[q] \in Snapping => cycle[q] # c
    BY <2>1 DEF Abandoned
  <2>3. c \in snapshots
    BY <1>2, <2>2, RunSnapshots
  <2>4. step[r] \in Snapping => cycle[r] # c
    BY <1>2, <2>2, RunSnapshots
  <2> QED
    BY <2>1, <2>2, <2>3, <2>4 DEF Abandoned
<1>3. CASE Fault
  <2>1. PICK r \in Runners : CommandFails(r) \/ Crash(r)
    BY <1>3 DEF Fault
  <2>2. UNCHANGED cycle /\ \A q \in Runners : q # r => step'[q] = step[q]
    BY <2>1, FaultForm, CycleStepFacts
  <2>3. cycle[r] \in Cycles
    BY <2>1, FaultForm, CycleStepFacts
  <2>4. Abandoned' \subseteq Abandoned \cup {cycle[r]}
    BY <2>1, <2>2, FaultSnapshots DEF Abandoned
  <2> QED
    BY <1>3, <2>3, <2>4 DEF Fault
<1>4. CASE Tick \/ UNCHANGED vars
  BY <1>4 DEF Tick, vars, runVars, Abandoned
<1> QED
  BY <1>1, <1>2, <1>3, <1>4 DEF Next, CronStart, ManualStart, Runners

LEMMA SnapshotNext ==
    ASSUME Types, CycleInv, SnapshotInv, [Next]_vars, Types'
    PROVE  SnapshotInv'
<1>1. \A r \in Runners : step'[r] = "tar" => cycle'[r] \in snapshots'
  <2>1. ASSUME NEW r \in Runners, Begin(r)
        PROVE  \A q \in Runners : step'[q] = "tar" => cycle'[q] \in snapshots'
    <3>1. UNCHANGED snapshots /\ step'[r] = "dump"
      BY <2>1, BeginFacts DEF Begin
    <3>2. \A q \in Runners : q # r => step'[q] = step[q] /\ cycle'[q] = cycle[q]
      BY <2>1, BeginFacts
    <3> QED
      BY <3>1, <3>2 DEF SnapshotInv, At
  <2>2. ASSUME NEW r \in Runners, Run(r) \/ CommandFails(r) \/ Crash(r)
        PROVE  \A q \in Runners : step'[q] = "tar" => cycle'[q] \in snapshots'
    <3>1. UNCHANGED cycle /\ \A q \in Runners : q # r => step'[q] = step[q]
      BY <2>2, RunForm, FaultForm, CycleStepFacts
    <3>2. cycle[r] # 0
      BY <2>2, RunForm, FaultForm, CycleStepFacts DEF Cycles
    <3>3. \A q \in Runners : q # r => cycle[q] # cycle[r]
      BY <3>2 DEF CycleInv
    <3>4. /\ snapshots \ {cycle[r]} \subseteq snapshots'
          /\ step'[r] = "tar" => cycle[r] \in snapshots'
      BY <2>2, RunSnapshots, FaultSnapshots
    <3> QED
      BY <3>1, <3>3, <3>4 DEF SnapshotInv, At
  <2>3. CASE Tick \/ UNCHANGED vars
    BY <2>3 DEF Tick, vars, runVars, SnapshotInv, At
  <2> QED
    BY <2>1, <2>2, <2>3 DEF Next, CronStart, ManualStart, Fault, Runners
<1>2. Cardinality(Abandoned') <= MaxFaults - faultsLeft'
  <2>1. /\ IsFiniteSet(Abandoned) /\ Cardinality(Abandoned) \in Nat
        /\ Cardinality(Abandoned) <= MaxFaults - faultsLeft
        /\ faultsLeft \in Nat /\ MaxFaults \in Nat
    BY AbandonedIsFinite, BoundsAssumption DEF SnapshotInv, Types
  <2>2. CASE Abandoned' \subseteq Abandoned /\ UNCHANGED faultsLeft
    <3>1. Cardinality(Abandoned') \in Nat /\ Cardinality(Abandoned') <= Cardinality(Abandoned)
      BY <2>1, <2>2, FS_Subset, FS_CardinalityType
    <3> QED
      BY <2>1, <2>2, <3>1
  <2>3. ASSUME NEW c \in Cycles, Abandoned' \subseteq Abandoned \cup {c},
               faultsLeft > 0, faultsLeft' = faultsLeft - 1
        PROVE  Cardinality(Abandoned') <= MaxFaults - faultsLeft'
    <3>1. /\ IsFiniteSet(Abandoned \cup {c})
          /\ Cardinality(Abandoned \cup {c}) \in Nat
          /\ Cardinality(Abandoned \cup {c}) <= Cardinality(Abandoned) + 1
      <4>1. /\ IsFiniteSet(Abandoned \cup {c})
            /\ Cardinality(Abandoned \cup {c})
                   = IF c \in Abandoned THEN Cardinality(Abandoned)
                     ELSE Cardinality(Abandoned) + 1
        BY <2>1, FS_AddElement
      <4> QED
        BY <2>1, <4>1
    <3>2. /\ Cardinality(Abandoned') \in Nat
          /\ Cardinality(Abandoned') <= Cardinality(Abandoned \cup {c})
      BY <2>3, <3>1, FS_Subset, FS_CardinalityType
    <3> QED
      BY <2>1, <2>3, <3>1, <3>2
  <2> QED
    BY <2>2, <2>3, AbandonedStep
<1> QED
  BY <1>1, <1>2 DEF SnapshotInv, At

\* A snapshot whose cycle is not under way is one nobody is going to delete.
LEMMA SnapshotsCountedHere ==
    ASSUME Types, CycleInv, SnapshotInv
    PROVE  SnapshotsAreAccounted
<1> DEFINE Left == {c \in snapshots : \A r \in Runners : At(r, "idle") \/ cycle[r] # c}
<1>1. Left \subseteq Abandoned
  BY DEF Abandoned, Snapping, At
<1>2. /\ IsFiniteSet(Abandoned) /\ Cardinality(Abandoned) \in Nat
      /\ Cardinality(Abandoned) <= MaxFaults - faultsLeft
      /\ faultsLeft \in Nat /\ MaxFaults \in Nat
  BY AbandonedIsFinite, BoundsAssumption DEF SnapshotInv, Types
<1>3. Cardinality(Left) \in Nat /\ Cardinality(Left) <= Cardinality(Abandoned)
  BY <1>1, <1>2, FS_Subset, FS_CardinalityType
<1>4. Cardinality(Left) <= MaxFaults - faultsLeft
  BY <1>2, <1>3
<1>5. \A r \in Runners : At(r, "tar") => cycle[r] \in snapshots
  BY DEF SnapshotInv
<1>6. Cardinality({c \in snapshots : \A r \in Runners : At(r, "idle") \/ cycle[r] # c})
          <= MaxFaults - faultsLeft
  BY <1>4
<1> QED
  BY <1>5, <1>6 DEF SnapshotsAreAccounted

-----------------------------------------------------------------------------
(* The theorems                                                             *)

BackupInv ==
    /\ Types /\ CycleInv /\ FileInv /\ OneFileEach
    /\ WrittenInv /\ UploadedInv /\ SnapshotInv

LEMMA BackupInit ==
    ASSUME Init
    PROVE  /\ BackupInv
           /\ BucketIsRestorable /\ BufferIsRestorable /\ RecentBackupsAreKept
<1> USE BoundsAssumption, SettingsAssumption
<1>1. Types
  BY DEF Init, Types, Steps
<1>2. CycleInv /\ FileInv /\ OneFileEach
  BY DEF Init, CycleInv, FileInv, OneFileEach, At
<1>3. WrittenInv /\ UploadedInv
  BY KindSteps DEF Init, WrittenInv, Written, UploadedInv, At
<1>4. SnapshotInv
  <2>1. Abandoned = {}
    BY DEF Init, Abandoned
  <2>2. Cardinality(Abandoned) = 0
    BY <2>1, FS_EmptySet
  <2> QED
    BY <2>2 DEF Init, SnapshotInv, At
<1> QED
  BY <1>1, <1>2, <1>3, <1>4
  DEF Init, BackupInv, BucketIsRestorable, BufferIsRestorable, RecentBackupsAreKept

LEMMA BackupNext ==
    ASSUME BackupInv, [Next]_vars
    PROVE  BackupInv'
BY TypesNext, CycleNext, FileNext, OneFileNext, WrittenNext, UploadedNext,
   SnapshotNext
DEF BackupInv

\* Every variable keeps its type, and no two files have the same name.
THEOREM BackupTyped == Spec => []TypeOK
<1>1. Init => BackupInv
  BY BackupInit
<1>2. BackupInv /\ [Next]_vars => BackupInv'
  BY BackupNext
<1>3. BackupInv => TypeOK
  BY DEF BackupInv, Types, OneFileEach, TypeOK
<1> QED
  BY <1>1, <1>2, <1>3, PTL DEF Spec

\* Whatever fails or overlaps, what is in the bucket is whole, and an archive
\* of the metrics comes with its database dump.
THEOREM BucketRestores == Spec => []BucketIsRestorable
<1>1. Init => BackupInv /\ BucketIsRestorable
  BY BackupInit
<1>2. BackupInv /\ BucketIsRestorable /\ [Next]_vars
          => (BackupInv /\ BucketIsRestorable)'
  BY BackupNext, RestorableNext DEF BackupInv
<1> QED
  BY <1>1, <1>2, PTL DEF Spec

\* From the first cycle that succeeds on, the buffer holds one whole pair of files.
THEOREM BufferRestores == Spec => []BufferIsRestorable
<1>1. Init => BackupInv /\ BufferIsRestorable
  BY BackupInit
<1>2. BackupInv /\ BufferIsRestorable /\ [Next]_vars
          => (BackupInv /\ BufferIsRestorable)'
  BY BackupNext, BufferNext DEF BackupInv
<1> QED
  BY <1>1, <1>2, PTL DEF Spec

\* The last successful backup of a runner stays for the days asked for and one.
THEOREM RecentKept == Spec => []RecentBackupsAreKept
<1>1. Init => BackupInv /\ RecentBackupsAreKept
  BY BackupInit
<1>2. BackupInv /\ RecentBackupsAreKept /\ [Next]_vars
          => (BackupInv /\ RecentBackupsAreKept)'
  BY BackupNext, RecentNext DEF BackupInv
<1> QED
  BY <1>1, <1>2, PTL DEF Spec

\* Nothing leaves the buffer before a later backup is in the bucket.
THEOREM TrimsSafely == Spec => TrimHasSuccessor
<1>1. Init => BackupInv
  BY BackupInit
<1>2. BackupInv /\ [Next]_vars => BackupInv'
  BY BackupNext
<1>3. BackupInv /\ [Next]_vars =>
          [\A o \in Buffered :
               o.whole => \/ o \in Buffered'
                          \/ \E c \in o.cycle + 1 .. MaxCycles :
                                 Pair(c) \subseteq bucket]_vars
  BY TrimStepIsSafe DEF BackupInv
<1> QED
  BY <1>1, <1>2, <1>3, PTL DEF Spec, TrimHasSuccessor

\* A snapshot nobody deletes comes from a fault of its own.
THEOREM SnapshotsCounted == Spec => []SnapshotsAreAccounted
<1>1. Init => BackupInv
  BY BackupInit
<1>2. BackupInv /\ [Next]_vars => BackupInv'
  BY BackupNext
<1>3. BackupInv => SnapshotsAreAccounted
  BY SnapshotsCountedHere DEF BackupInv
<1> QED
  BY <1>1, <1>2, <1>3, PTL DEF Spec
=============================================================================
