-------------------------- MODULE ProxyUpdateProofs --------------------------
(***************************************************************************)
(* For any set of versions and any sequence of failures, deaths, restarts  *)
(* and uses of the service: what an update of the core leaves on disk can  *)
(* be recovered, a disk without a record is consistent, the service is as  *)
(* it was found or as the update promises, and an update happens at once   *)
(* or not at all (VersionSwitch).                                          *)
(*                                                                         *)
(* The record promises these things only while it tells how far the update *)
(* has come, so IInv says what a record means (Sound) and, for each step,  *)
(* what the process that wrote it knows of record, pointer and directories.*)
(***************************************************************************)
EXTENDS ProxyUpdate, TLAPS

Settled ==
  /\ pointer.dir \in slots
  /\ unit = pointer.dir /\ seen = pointer.dir
  /\ running \in {NoVersion, pointer.dir}

\* The service runs if and only if it did when the record was begun.
AsBefore ==
  /\ before = "stopped" => running = NoVersion
  /\ before = "running" => running # NoVersion

\* The service is as an update that recorded `was` must leave it.
AsRecorded(was) ==
  /\ before = "stopped" => running = NoVersion
  /\ before = "running" /\ was => running # NoVersion

\* What recovery may conclude from a record it finds.
Sound(r) ==
  /\ before = "stopped" => ~r.was
  /\ r.prepared =>
       /\ pointer \in {r.old, r.new}
       /\ r.old.dir \in slots \ {r.new.dir}
       /\ ~PhaseHasServiceSideEffects(r.phase) => pointer = r.old /\ Settled /\ AsBefore
  /\ ~r.prepared => r.new.dir = NoVersion /\ Settled /\ AsBefore

RecordInv ==
  /\ record = NoRecord => Settled
  /\ record # NoRecord => Sound(record)

\* Steps of an update, by what it has done.
Fresh == {"prepare", "prepared"}
Checked == {"same", "read_status", "save_status", "stopping-service", "stop", "exists",
            "installing-version"}
Staged == {"rename", "switching-pointer", "swap"}
Cutover == {"starting-service", "start", "verifying", "verify", "restop", "finish"}
GivingUp == Undo \cup {"discard", "undo_discard"}
Updating == Fresh \cup Checked \cup Staged \cup Cutover \cup GivingUp \cup {"resume"}

\* Steps after the service's state was recorded, and after the new version was started.
StatusKnown == {"stopping-service", "stop", "exists", "installing-version"} \cup Staged \cup Cutover
NewRuns == {"verifying", "verify", "restop", "finish"}

OldKnown == record.old = job.old
NewKnown == record.new = Target(job.want, TRUE) /\ PhaseHasServiceSideEffects(record.phase)

UpdateInv ==
  /\ pc \in {"read", "begin"} => record = NoRecord
  /\ pc \in Fresh \cup {"begin"} => job.old = pointer
  /\ pc \in Updating => record # NoRecord
  /\ pc \in Updating \ {"prepare"} => job.want \in Versions
  /\ pc \in Fresh => ~record.prepared
  /\ pc \in Updating \ Fresh => record.prepared
  /\ pc \in Checked => OldKnown /\ pointer = record.old /\ record.new.dir = NoVersion /\ Settled
  /\ pc \in {"same", "read_status", "save_status"}
       => ~PhaseHasServiceSideEffects(record.phase)
  /\ pc = "save_status" => (before = "stopped" => ~job.was)
  /\ pc \in StatusKnown => record.was = job.was
  /\ pc \in {"stopping-service", "stop"} => job.was
  /\ pc \in {"stop", "exists", "installing-version", "resume"} /\ job.was
       => PhaseHasServiceSideEffects(record.phase)
  /\ pc \in Staged => OldKnown /\ NewKnown /\ pointer = record.old
  /\ pc \in {"installing-version", "rename"} => job.want \notin slots
  /\ pc \in {"switching-pointer", "swap"} \cup Cutover => job.want \in slots
  /\ pc \in Cutover => OldKnown /\ NewKnown /\ pointer = record.new
  /\ pc \in NewRuns => unit = job.want /\ seen = job.want /\ running \in {NoVersion, job.want}
  /\ pc \in {"restop", "finish"} => job.want \in verified
  /\ pc = "restop" => ~job.was
  /\ pc = "finish" => AsRecorded(job.was)
  /\ pc \in GivingUp => OldKnown /\ NewKnown

\* Steps of recovery, after the record was read and marked.
Restoring == {"r_stop", "r_swap", "r_start", "r_verify", "r_restop", "r_clean"}

RecoveryInv ==
  pc \in Restoring \cup {"inspect", "r_clear"} =>
    /\ job.mem \in Record
    /\ record = [job.mem EXCEPT !.phase = "recovering"]
    /\ pc = "inspect" => Sound(job.mem)
    /\ pc \in Restoring => job.mem.prepared
    /\ pc \in {"r_start", "r_verify", "r_restop", "r_clean"} => pointer = job.mem.old
    /\ pc \in {"r_verify", "r_restop", "r_clean", "r_clear"} => Settled
    /\ pc = "r_restop" => ~job.mem.was
    /\ pc \in {"r_clean", "r_clear"} => AsRecorded(job.mem.was)
    /\ pc = "r_clear" => /\ job.mem.new.dir \notin slots
                         /\ job.mem.prepared => pointer = job.mem.old

IInv == TypeOK /\ RecordInv /\ UpdateInv /\ RecoveryInv
USE NoVersionAssumption, FirstPointersAssumption, NoRecordAssumption
    DEF NoVersionAssumption, FirstPointersAssumption, NoRecordAssumption

-----------------------------------------------------------------------------
\* The fields of records, jobs and link targets, for the provers.
LEMMA RecordFields ==
  ASSUME NEW r \in Record
  PROVE  /\ r.phase \in Phases /\ r.prepared \in BOOLEAN /\ r.old \in Targets
         /\ r.new \in Targets /\ r.was \in BOOLEAN
         /\ r.old.dir \in Versions \cup {NoVersion} /\ r.new.dir \in Versions \cup {NoVersion}
BY DEF Record, Targets, Target

LEMMA TargetFields ==
  ASSUME NEW v \in Versions \cup {NoVersion}, NEW abs \in BOOLEAN
  PROVE  Target(v, abs) \in Targets /\ Target(v, abs).dir = v /\ Target(v, abs).abs = abs
BY DEF Targets, Target

LEMMA NoJobType == NoJob \in Jobs /\ NoJob.then = "idle" /\ NoTarget \in Targets
BY TargetFields DEF NoJob, Jobs, NoTarget

\* A job keeps its type when one local variable is assigned.
LEMMA JobFields ==
  ASSUME NEW j \in Jobs
  PROVE  /\ j.cur \in Versions \cup {NoVersion} /\ j.want \in Versions \cup {NoVersion}
         /\ j.old \in Targets /\ j.was \in BOOLEAN /\ j.mem \in Record \cup {NoRecord}
         /\ j.then \in {"read", "idle"} /\ j.errs \in BOOLEAN
         /\ \A v \in Versions : [j EXCEPT !.want = v] \in Jobs
         /\ \A t \in Targets : [j EXCEPT !.old = t] \in Jobs
         /\ \A b \in BOOLEAN : [j EXCEPT !.was = b] \in Jobs /\ [j EXCEPT !.errs = b] \in Jobs
         /\ \A r \in Record : [j EXCEPT !.mem = r] \in Jobs
BY DEF Jobs

\* A recovery hands its job back without the record it read.
LEMMA RecoveredType ==
  ASSUME NEW j \in Jobs
  PROVE  j.then \in PCs /\ [j EXCEPT !.mem = NoRecord, !.then = "idle"] \in Jobs
<1>1. j.then \in {"read", "idle"} /\ j.then \in PCs
  BY DEF Jobs, PCs
<1>2. [j EXCEPT !.mem = NoRecord, !.then = "idle"] \in Jobs
  BY DEF Jobs
<1> QED
  BY <1>1, <1>2

LEMMA InitIInv == Init => IInv
<1> SUFFICES ASSUME Init PROVE IInv
  OBVIOUS
<1>1. PICK v \in Versions, abs \in FirstPointers :
        /\ pointer = Target(v, abs) /\ slots = {v}
        /\ unit = v /\ running \in {v, NoVersion} /\ seen = v
  BY DEF Init
<1>2. pointer \in Targets /\ pointer.dir = v
  BY <1>1, TargetFields
<1>3. TypeOK
  BY <1>1, <1>2, NoJobType DEF Init, TypeOK, PCs
<1>4. RecordInv
  BY <1>1, <1>2 DEF Init, RecordInv, Settled
<1>5. UpdateInv /\ RecoveryInv
  BY DEF Init, UpdateInv, RecoveryInv, Fresh, Checked, Staged, Cutover, GivingUp, Undo, Updating,
         StatusKnown, NewRuns, Restoring
<1> QED
  BY <1>3, <1>4, <1>5 DEF IInv

-----------------------------------------------------------------------------
(* Steps that end an attempt: whatever else holds, a sound disk is enough. *)

LEMMA IdleStep ==
  ASSUME TypeOK', RecordInv', pc' = "idle"
  PROVE  IInv'
<1>1. UpdateInv'
  BY DEF UpdateInv, Fresh, Checked, Staged, Cutover, GivingUp, Undo, Updating, StatusKnown,
         NewRuns
<1>2. RecoveryInv'
  BY DEF RecoveryInv, Restoring
<1> QED
  BY <1>1, <1>2 DEF IInv

LEMMA MarkStep ==
  ASSUME TypeOK', RecordInv', pc' = "mark"
  PROVE  IInv'
<1>1. UpdateInv'
  BY DEF UpdateInv, Fresh, Checked, Staged, Cutover, GivingUp, Undo, Updating, StatusKnown,
         NewRuns
<1>2. RecoveryInv'
  BY DEF RecoveryInv, Restoring
<1> QED
  BY <1>1, <1>2 DEF IInv

\* A record stays sound as long as the disk, the service and the history do.
LEMMA SameDisk ==
  ASSUME RecordInv, UNCHANGED <<disk, service, before>>
  PROVE  RecordInv'
BY DEF disk, service, RecordInv, Sound, Settled, AsBefore
-----------------------------------------------------------------------------
(* Types                                                                   *)

\* The steps that continue at OkNext or ErrNext.
Calls == Saves \cup Undo
           \cup {"stop", "exists", "rename", "swap", "discard", "resume", "start", "verify",
                 "restop", "undo_discard", "r_stop", "r_swap", "r_start", "r_verify", "r_restop",
                 "r_clean"}

LEMMA ContinueType ==
  ASSUME TypeOK, pc \in Calls, Succeed \/ Fail
  PROVE  pc' \in PCs /\ job' \in Jobs
<1>1. OkNext(pc) \in PCs
  BY DEF Calls, Saves, Undo, Recovering, OkNext, PCs
<1>2. pc \notin {"verify", "undo_verify", "r_verify", "prepared", "save_status"} => ErrNext(pc) \in PCs
  BY <1>1 DEF Calls, Saves, Undo, Recovering, ErrNext, PCs
<1>3. pc \in {"verify", "undo_verify", "r_verify", "prepared", "save_status"} => ErrNext(pc) \in PCs
  BY DEF Saves, Undo, Recovering, ErrNext, PCs
<1>4. job' \in Jobs
  BY NoJobType, JobFields DEF TypeOK, Succeed, Fail, Goto
<1> QED
  BY <1>1, <1>2, <1>3, <1>4 DEF Succeed, Fail, Goto

\* What the steps of an update and of recovery may write keeps its type.
LEMMA UpdateType ==
  ASSUME IInv, Update
  PROVE  TypeOK'
<1> USE DEF TypeOK
<1>0. /\ TypeOK
      /\ pc \in Saves => record # NoRecord
      /\ pc = "rename" => job.want \in Versions
      /\ pc = "r_swap" => job.mem \in Record
  BY DEF IInv, UpdateInv, RecoveryInv, Updating, Saves, Fresh, Checked, Staged, Cutover, Restoring
<1>1. job \in Jobs /\ pc \in PCs /\ pointer \in Targets /\ pointer.dir \in Versions \cup {NoVersion}
      /\ NoTarget \in Targets
  BY <1>0, NoJobType DEF Targets, Target
<1>2. ASSUME UNCHANGED <<disk, service, before>>, verified' \subseteq Versions, pc' \in PCs,
             job' \in Jobs
      PROVE  TypeOK'
  BY <1>0, <1>2 DEF disk, service
<1>3. CASE Attempt \/ ReadPointer \/ Prepare \/ ReadStatus \/ Exists \/ Verify
  <2>1. pc' \in PCs /\ job' \in Jobs
    <3>1. CASE Attempt
      BY <1>0, <3>1, NoJobType DEF Attempt, NoJob, Jobs, PCs, Recovering
    <3>2. CASE ReadPointer
      BY <1>0, <1>1, <3>2, NoJobType, JobFields DEF ReadPointer, Goto, PCs
    <3>3. CASE Prepare
      BY <1>0, <1>1, <3>3, NoJobType, JobFields DEF Prepare, Goto, PCs, Saves, Recovering
    <3>4. CASE ReadStatus
      BY <1>0, <1>1, <3>4, NoJobType, JobFields DEF ReadStatus, Goto, PCs, Saves, Recovering
    <3>5. CASE Exists \/ Verify
      BY <1>0, <3>5, ContinueType DEF Exists, Verify, Calls, Undo
    <3> QED
      BY <1>0, <1>3, <3>1, <3>2, <3>3, <3>4, <3>5
  <2>2. verified' \subseteq Versions
    BY <1>0, <1>3 DEF Attempt, ReadPointer, Prepare, ReadStatus, Exists, Verify, history
  <2> QED
    BY <1>0, <1>2, <1>3, <2>1, <2>2
       DEF Attempt, ReadPointer, Prepare, ReadStatus, Exists, Verify, history
<1>4. CASE BeginRecord \/ SameVersion \/ Finish
  <2>1. pc' \in PCs /\ job' \in Jobs
    BY <1>0, <1>1, <1>4, NoJobType DEF BeginRecord, SameVersion, Finish, Goto, PCs
  <2>2. Started \in Record
    BY <1>0, <1>1 DEF Started, Record, Phases
  <2> QED
    BY <1>0, <1>4, <2>1, <2>2 DEF BeginRecord, SameVersion, Finish, service, history
<1>5. CASE Save
  <2>1. pc' \in PCs /\ job' \in Jobs
    BY <1>0, <1>5, ContinueType DEF Save, Calls
  <2>2. record # NoRecord => Checkpointed(pc) \in Record
    <3>1. Target(job.want, TRUE) \in Targets
      BY <1>0, <1>1, JobFields, TargetFields
    <3> QED
      BY <1>0, <1>1, <1>5, <3>1, JobFields DEF Save, Checkpointed, Saves, Phases, Record
  <2> QED
    BY <1>0, <1>5, <2>1, <2>2 DEF Save, service, history
<1>6. CASE Stop \/ Start \/ Resume
  <2>1. pc' \in PCs /\ job' \in Jobs
    BY <1>0, <1>6, ContinueType DEF Stop, Start, Resume, Calls, Undo
  <2>2. {unit', running', seen'} \subseteq Versions \cup {NoVersion}
    BY <1>0, <1>1, <1>6 DEF Stop, Start, Resume, StartedAs, StartErr, service, disk
  <2> QED
    BY <1>0, <1>6, <2>1, <2>2 DEF Stop, Start, Resume, disk, history
<1>7. CASE Rename \/ Swap \/ Discard
  <2>1. pc' \in PCs /\ job' \in Jobs
    BY <1>0, <1>7, ContinueType DEF Rename, Swap, Discard, Calls, Undo
  <2>2. pointer' \in Targets
    <3>1. CASE Swap
      <4>1. pc \in {"swap", "undo_swap"} => Selects(pc) \in Targets
        BY <1>0, <1>1, JobFields, TargetFields DEF Selects
      <4>2. pc = "r_swap" => Selects(pc) \in Targets
        BY <1>0, <1>1, JobFields, RecordFields DEF Selects
      <4> QED
        BY <1>0, <3>1, <4>1, <4>2 DEF Swap
    <3> QED
      BY <1>0, <1>7, <3>1 DEF Rename, Discard
  <2>3. slots' \subseteq Versions
    BY <1>0, <1>7 DEF Rename, Swap, Discard
  <2> QED
    BY <1>0, <1>7, <2>1, <2>2, <2>3 DEF Rename, Swap, Discard, service, history
<1> QED
  BY <1>0, <1>3, <1>4, <1>5, <1>6, <1>7 DEF Update
LEMMA RecoveryType ==
  ASSUME IInv, Recovery \/ Crash \/ ServiceChanges
  PROVE  TypeOK'
<1> USE DEF TypeOK
<1>1. TypeOK /\ job \in Jobs /\ pc \in PCs
  BY DEF IInv
<1>2. CASE Mark \/ Clear
  <2>1. pc' \in PCs /\ job' \in Jobs
    <3>1. Recovered => pc' \in PCs /\ job' \in Jobs
      BY <1>1, NoJobType, RecoveredType DEF Recovered
    <3>2. Goto("idle") => pc' \in PCs /\ job' \in Jobs
      BY NoJobType DEF Goto, PCs
    <3> QED
      BY <1>1, <1>2, <3>1, <3>2, JobFields DEF Mark, Clear, PCs, Recovering
  <2>2. record' \in Record \cup {NoRecord}
    BY <1>1, <1>2 DEF Mark, Clear, Record, Phases
  <2> QED
    BY <1>1, <1>2, <2>1, <2>2 DEF Mark, Clear, service, history
<1>3. CASE Inspect \/ Refused \/ Crash
  <2>1. pc' \in PCs /\ job' \in Jobs
    BY <1>1, <1>3, NoJobType DEF Inspect, Refused, Crash, Goto, Inspected, PCs, Recovering
  <2> QED
    BY <1>1, <1>3, <2>1 DEF Inspect, Refused, Crash, disk, service, history
<1>4. CASE Clean
  <2>1. pc' \in PCs /\ job' \in Jobs
    BY <1>1, <1>4, ContinueType DEF Clean, Calls
  <2> QED
    BY <1>1, <1>4, <2>1 DEF Clean, service, history
<1>5. CASE ServiceChanges
  BY <1>1, <1>5 DEF ServiceChanges, disk
<1> QED
  BY <1>2, <1>3, <1>4, <1>5 DEF Recovery

-----------------------------------------------------------------------------
(* UpdateProxy up to the cutover                                           *)

\* A step that changes neither disk nor service and ends or goes on to recover.
LEMMA LeaveStep ==
  ASSUME IInv, TypeOK', UNCHANGED <<disk, service, before>>, pc' \in {"idle", "mark", "refused"}
  PROVE  IInv'
<1>1. RecordInv'
  BY SameDisk DEF IInv
<1>2. CASE pc' \in {"idle", "mark"}
  BY <1>1, <1>2, IdleStep, MarkStep
<1>3. CASE pc' = "refused"
  <2>1. UpdateInv' /\ RecoveryInv'
    BY <1>3 DEF UpdateInv, RecoveryInv, Fresh, Checked, Staged, Cutover, GivingUp, Undo, Updating,
           StatusKnown, NewRuns, Restoring
  <2> QED
    BY <1>1, <2>1 DEF IInv
<1> QED
  BY <1>2, <1>3

LEMMA BeforeCutover ==
  ASSUME IInv, Attempt \/ ReadPointer \/ BeginRecord \/ Prepare \/ SameVersion \/ ReadStatus
  PROVE  IInv'
<1>1. TypeOK'
  BY UpdateType DEF Update
<1>2. TypeOK /\ RecordInv /\ UpdateInv /\ RecoveryInv
  BY DEF IInv
<1> USE DEF Fresh, Checked, Staged, Cutover, GivingUp, Undo, Updating, StatusKnown, NewRuns,
            Restoring
<1>3. CASE Attempt
  BY <1>1, <1>3, LeaveStep DEF Attempt
<1>4. CASE ReadPointer
  <2>1. CASE pc' = "begin"
    BY <1>1, <1>2, <1>4, <2>1, SameDisk
       DEF ReadPointer, Goto, history, disk, IInv, UpdateInv, RecoveryInv, TypeOK, Jobs
  <2>2. CASE pc' = "idle"
    BY <1>1, <1>4, <2>2, LeaveStep DEF ReadPointer, history
  <2> QED
    BY <1>4, <2>1, <2>2 DEF ReadPointer, Goto
<1>5. CASE BeginRecord
  <2>1. record = NoRecord /\ Settled /\ job.old = pointer
    BY <1>2, <1>5 DEF BeginRecord, UpdateInv, RecordInv
  <2>2. Settled' /\ AsBefore'
    BY <1>5, <2>1 DEF BeginRecord, service, Settled, AsBefore
  <2>3. Started.new.dir = NoVersion /\ ~Started.prepared /\ ~Started.was
    BY DEF Started, NoTarget, Target
  <2>4. RecordInv'
    BY <1>5, <2>1, <2>2, <2>3 DEF BeginRecord, RecordInv, Sound
  <2>5. CASE pc' = "idle"
    BY <1>1, <2>4, <2>5, IdleStep
  <2>6. CASE pc' = "prepare" /\ record' = Started /\ job' = job
    <3>1. Started \in Record
      BY TargetFields DEF Started, Record, Phases, NoTarget
    <3>2. UpdateInv' /\ RecoveryInv'
      BY <1>5, <2>1, <2>3, <2>6, <3>1 DEF BeginRecord, UpdateInv, RecoveryInv
    <3> QED
      BY <1>1, <2>4, <3>2 DEF IInv
  <2> QED
    BY <1>5, <2>5, <2>6 DEF BeginRecord, Goto
<1>6. CASE Prepare
  <2>1. CASE pc' = "prepared"
    BY <1>1, <1>2, <1>6, <2>1, SameDisk
       DEF Prepare, Goto, history, disk, IInv, UpdateInv, RecoveryInv, TypeOK, Jobs
  <2>2. CASE pc' = "mark"
    BY <1>1, <1>6, <2>2, LeaveStep DEF Prepare, history
  <2> QED
    BY <1>6, <2>1, <2>2 DEF Prepare, Goto
<1>7. CASE SameVersion
  <2>1. Settled /\ pc' = "idle"
    BY <1>2, <1>7 DEF SameVersion, UpdateInv, Goto
  <2>2. RecordInv'
    BY <1>2, <1>7, <2>1 DEF SameVersion, RecordInv, Sound, Settled, AsBefore, service, history
  <2> QED
    BY <1>1, <2>1, <2>2, IdleStep
<1>8. CASE ReadStatus
  <2>1. CASE pc' = "save_status"
    <3>1. pc = "read_status" /\ job' = [job EXCEPT !.was = running # NoVersion] /\ job \in Jobs
      BY <1>2, <1>8, <2>1 DEF ReadStatus, Goto, TypeOK
    <3>2. job'.old = job.old /\ job'.want = job.want /\ job'.was = (running # NoVersion)
      BY <3>1 DEF Jobs
    <3>3. before = "stopped" => running = NoVersion
      BY <1>2, <3>1 DEF UpdateInv, RecordInv, Sound, AsBefore
    <3>4. UpdateInv'
      BY <1>2, <1>8, <2>1, <3>1, <3>2, <3>3
         DEF ReadStatus, history, disk, service, UpdateInv, OldKnown, Settled
    <3>5. RecoveryInv'
      BY <2>1 DEF RecoveryInv
    <3> QED
      BY <1>1, <1>2, <1>8, <3>4, <3>5, SameDisk DEF ReadStatus, history, IInv
  <2>2. CASE pc' = "mark"
    BY <1>1, <1>8, <2>2, LeaveStep DEF ReadStatus, history
  <2> QED
    BY <1>8, <2>1, <2>2 DEF ReadStatus, Goto
<1> QED
  BY <1>3, <1>4, <1>5, <1>6, <1>7, <1>8
-----------------------------------------------------------------------------
(* Checkpoints                                                             *)

\* The next step keeps the job's memory, apart from the note of an error.
LEMMA Continues ==
  ASSUME TypeOK, Succeed \/ Fail, pc' # "idle"
  PROVE  /\ job'.old = job.old /\ job'.want = job.want /\ job'.was = job.was
         /\ job'.mem = job.mem /\ job'.then = job.then
BY DEF Succeed, Fail, Goto, TypeOK, Jobs

\* A checkpoint writes a record that recovery can use.
LEMMA SaveSound ==
  ASSUME IInv, Save
  PROVE  /\ RecordInv' /\ record' # NoRecord
         /\ record' = record \/ record' = Checkpointed(pc)
<1>1. TypeOK /\ RecordInv /\ UpdateInv /\ pc \in Saves /\ record # NoRecord
  BY DEF IInv, UpdateInv, Save, Saves, Updating, Fresh, Checked, Staged, Cutover
<1>2. record' = record \/ record' = Checkpointed(pc)
  BY DEF Save
<1>3. UNCHANGED <<pointer, slots, service, before>>
  BY DEF Save, history
<1>4. record \in Record /\ Sound(record) /\ slots \subseteq Versions
  BY <1>1 DEF TypeOK, RecordInv
<1>5. record' # NoRecord
  <2>1. Checkpointed(pc) \in Record
    <3>1. Target(job.want, TRUE) \in Targets
      BY <1>1, JobFields, TargetFields DEF TypeOK
    <3>2. job.old \in Targets /\ job.was \in BOOLEAN
      BY <1>1, JobFields DEF TypeOK
    <3> QED
      BY <1>1, <1>4, <3>1, <3>2 DEF Checkpointed, Saves, Phases, Record
  <2> QED
    BY <1>1, <1>2, <2>1
<1>6. Sound(record)'
  <2>1. CASE record' = record
    BY <1>3, <1>4, <2>1 DEF Sound, Settled, AsBefore, service
  <2>2. CASE pc = "prepared" /\ record' = Checkpointed(pc)
    <3>1. ~record.prepared /\ job.old = pointer
      BY <1>1, <2>2 DEF UpdateInv, Fresh
    <3>2. /\ record'.phase = "prepared" /\ record'.prepared /\ record'.old = pointer
          /\ record'.new = record.new /\ record'.was = record.was
      BY <1>4, <2>2, <3>1 DEF Checkpointed, Record
    <3> QED
      BY <1>3, <1>4, <3>1, <3>2 DEF Sound, Settled, AsBefore, service
  <2>3. CASE pc = "save_status" /\ record' = Checkpointed(pc)
    <3>1. /\ record'.phase = record.phase /\ record'.prepared = record.prepared
          /\ record'.old = record.old /\ record'.new = record.new /\ record'.was = job.was
      BY <1>4, <2>3 DEF Checkpointed, Record
    <3>2. before = "stopped" => ~job.was
      BY <1>1, <2>3 DEF UpdateInv
    <3> QED
      BY <1>3, <1>4, <3>1, <3>2 DEF Sound, Settled, AsBefore, service
  <2>4. CASE pc = "installing-version" /\ record' = Checkpointed(pc)
    <3>1. /\ record'.phase = pc /\ record'.prepared = record.prepared
          /\ record'.old = record.old /\ record'.new = Target(job.want, TRUE)
          /\ record'.was = record.was
      BY <1>4, <2>4 DEF Checkpointed, Record
    <3>2. record.prepared /\ pointer = record.old /\ job.want \notin slots
      BY <1>1, <2>4 DEF UpdateInv, Updating, Fresh, Checked
    <3>3. record'.new.dir = job.want /\ record.old.dir \in slots
      BY <1>4, <3>1, <3>2 DEF Sound, Target
    <3>4. record'.old.dir \in slots' \ {record'.new.dir} /\ pointer' = record'.old
      BY <1>3, <3>1, <3>2, <3>3
    <3>5. before' = "stopped" => ~record'.was
      BY <1>3, <1>4, <3>1 DEF Sound
    <3>6. PhaseHasServiceSideEffects(record'.phase)
      BY <2>4, <3>1 DEF PhaseHasServiceSideEffects
    <3> QED
      BY <3>1, <3>2, <3>4, <3>5, <3>6 DEF Sound
  <2>5. CASE /\ pc \in {"stopping-service", "switching-pointer", "starting-service", "verifying"}
             /\ record' = Checkpointed(pc)
    <3>1. /\ record'.phase = pc /\ record'.prepared = record.prepared
          /\ record'.old = record.old /\ record'.new = record.new /\ record'.was = record.was
      BY <1>4, <2>5 DEF Checkpointed, Record
    <3>2. record.prepared
      BY <1>1, <2>5 DEF UpdateInv, Updating, Fresh, Checked, Staged, Cutover
    <3> QED
      BY <1>3, <1>4, <2>5, <3>1, <3>2 DEF Sound, Settled, AsBefore, service,
                                          PhaseHasServiceSideEffects
  <2> QED
    BY <1>1, <1>2, <2>1, <2>2, <2>3, <2>4, <2>5 DEF Saves
<1> QED
  BY <1>2, <1>5, <1>6 DEF RecordInv

LEMMA SaveIInv ==
  ASSUME IInv, Save
  PROVE  IInv'
<1>1. TypeOK' /\ RecordInv' /\ record' # NoRecord
      /\ (record' = record \/ record' = Checkpointed(pc))
  BY UpdateType, SaveSound DEF Update
<1>2. TypeOK /\ UpdateInv /\ pc \in Saves /\ record \in Record
  BY DEF IInv, TypeOK, UpdateInv, Save, Saves, Updating, Fresh, Checked, Staged, Cutover
<1>3. UNCHANGED <<pointer, slots, unit, running, seen, before, verified>>
  BY DEF Save, history, service
<1>4. (Succeed /\ record' = Checkpointed(pc)) \/ Fail
  BY DEF Save
<1>5. job.want \in Versions /\ job.was \in BOOLEAN /\ record.prepared \in BOOLEAN
  BY <1>2, JobFields, RecordFields
     DEF UpdateInv, TypeOK, Updating, Fresh, Checked, Staged, Cutover, Saves
<1> USE DEF Fresh, Checked, Staged, Cutover, GivingUp, Undo, Updating, StatusKnown, NewRuns,
            Restoring
<1>6. CASE pc = "prepared"
  <2>1. CASE Fail
    BY <1>1, <1>6, <2>1, MarkStep DEF Fail, ErrNext
  <2>2. CASE Succeed /\ record' = Checkpointed(pc)
    <3>1. pc' \in {"same", "read_status"} /\ job' = job
      BY <1>6, <2>2 DEF Succeed, Goto, OkNext
    <3>2. ~record.prepared /\ job.old = pointer /\ Sound(record)
      BY <1>2, <1>6 DEF UpdateInv, IInv, RecordInv
    <3>3. /\ record'.phase = "prepared" /\ record'.prepared /\ record'.old = pointer
          /\ record'.new = record.new /\ record'.was = record.was
      BY <1>2, <1>6, <2>2, <3>2 DEF Checkpointed, Record
    <3>4. UpdateInv'
      BY <1>1, <1>3, <1>5, <3>1, <3>2, <3>3
         DEF UpdateInv, OldKnown, Sound, Settled, PhaseHasServiceSideEffects
    <3>5. RecoveryInv'
      BY <3>1 DEF RecoveryInv
    <3> QED
      BY <1>1, <3>4, <3>5 DEF IInv
  <2> QED
    BY <1>4, <2>1, <2>2
<1>7. CASE pc = "save_status"
  <2>1. CASE Fail
    BY <1>1, <1>7, <2>1, MarkStep DEF Fail, ErrNext
  <2>2. CASE Succeed /\ record' = Checkpointed(pc)
    <3>1. /\ pc' = IF job.was THEN "stopping-service" ELSE "exists"
          /\ job' = job
      BY <1>7, <2>2 DEF Succeed, Goto, OkNext
    <3>2. record' = [record EXCEPT !.was = job.was]
      BY <1>7, <2>2 DEF Checkpointed
    <3>3. UpdateInv'
      BY <1>1, <1>2, <1>3, <1>5, <1>7, <3>1, <3>2
         DEF UpdateInv, OldKnown, Settled, Record
    <3>4. RecoveryInv'
      BY <3>1 DEF RecoveryInv
    <3> QED
      BY <1>1, <3>3, <3>4 DEF IInv
  <2> QED
    BY <1>4, <2>1, <2>2
<1>8. CASE pc = "stopping-service"
  <2>1. CASE Fail
    BY <1>1, <1>8, <2>1, MarkStep DEF Fail, ErrNext
  <2>2. CASE Succeed /\ record' = Checkpointed(pc)
    <3>1. pc' = "stop" /\ job' = job
      BY <1>8, <2>2 DEF Succeed, Goto, OkNext
    <3>2. record' = [record EXCEPT !.phase = "stopping-service"]
      BY <1>8, <2>2 DEF Checkpointed
    <3>5. /\ record'.phase = pc /\ record'.prepared = record.prepared
          /\ record'.old = record.old /\ record'.new = record.new /\ record'.was = record.was
      BY <1>2, <1>8, <3>2 DEF Record
    <3>3. UpdateInv'
      BY <1>1, <1>2, <1>3, <1>5, <1>8, <3>1, <3>5
         DEF UpdateInv, OldKnown, Settled, PhaseHasServiceSideEffects
    <3>4. RecoveryInv'
      BY <3>1 DEF RecoveryInv
    <3> QED
      BY <1>1, <3>3, <3>4 DEF IInv
  <2> QED
    BY <1>4, <2>1, <2>2
<1>9. CASE pc \in {"installing-version", "switching-pointer", "starting-service", "verifying"}
  <2>1. /\ job'.old = job.old /\ job'.want = job.want /\ job'.was = job.was
        /\ pc' \in {"rename", "swap", "start", "verify", "resume", "discard", "undo_stop"}
    <3>1. pc' \in {"rename", "swap", "start", "verify", "resume", "discard", "undo_stop"}
      BY <1>4, <1>9 DEF Succeed, Fail, Goto, OkNext, ErrNext
    <3> QED
      BY <1>2, <1>4, <3>1, Continues
  <2>2. /\ record.prepared /\ OldKnown
        /\ pc = "installing-version" => Settled /\ job.want \notin slots
        /\ pc # "installing-version" => NewKnown /\ job.want \in slots
    BY <1>2, <1>9 DEF UpdateInv
  <2>3. /\ record'.prepared /\ record'.old = record.old /\ record'.was = record.was
        /\ pc # "installing-version" => record'.new = record.new
        /\ record'.phase \in {record.phase, pc}
    BY <1>1, <1>2, <1>9, <2>2 DEF Checkpointed, Record
  <2>4. record' = Checkpointed(pc) =>
          record'.phase = pc /\ record'.new = Target(job.want, TRUE)
    BY <1>2, <1>9, <2>2 DEF Checkpointed, Record, NewKnown
  <2>5. PhaseHasServiceSideEffects(pc)
    BY <1>9 DEF PhaseHasServiceSideEffects
  <2>6. RecoveryInv'
    BY <2>1 DEF RecoveryInv
  <2>7. CASE Fail
    <3>1. pc' = IF pc = "installing-version" THEN "resume"
                ELSE IF pc = "switching-pointer" THEN "discard" ELSE "undo_stop"
      BY <1>9, <2>7 DEF Fail, ErrNext
    <3>2. \/ PhaseHasServiceSideEffects(record'.phase)
          \/ pc = "installing-version" /\ ~job.was
      BY <1>2, <1>9, <2>2, <2>3, <2>5 DEF UpdateInv, NewKnown
    <3>3. pc # "installing-version" => OldKnown' /\ NewKnown'
      BY <2>1, <2>2, <2>3, <3>2 DEF OldKnown, NewKnown
    <3>4. UpdateInv'
      BY <1>1, <1>5, <1>9, <2>1, <2>3, <3>1, <3>2, <3>3 DEF UpdateInv
    <3> QED
      BY <1>1, <2>6, <3>4 DEF IInv
  <2>8. CASE Succeed /\ record' = Checkpointed(pc)
    <3>1. pc' = CASE pc = "installing-version" -> "rename"
                  [] pc = "switching-pointer" -> "swap"
                  [] pc = "starting-service" -> "start"
                  [] pc = "verifying" -> "verify"
      BY <1>9, <2>8 DEF Succeed, Goto, OkNext
    <3>2. OldKnown' /\ NewKnown'
      BY <2>1, <2>2, <2>3, <2>4, <2>5, <2>8 DEF OldKnown, NewKnown
    <3>3. CASE pc = "installing-version"
      BY <1>1, <1>2, <1>3, <1>5, <2>1, <2>2, <2>3, <2>6, <3>1, <3>2, <3>3 DEF UpdateInv, IInv
    <3>4. CASE pc = "switching-pointer"
      BY <1>1, <1>2, <1>3, <1>5, <2>1, <2>2, <2>3, <2>6, <3>1, <3>2, <3>4 DEF UpdateInv, IInv
    <3>5. CASE pc \in {"starting-service", "verifying"}
      BY <1>1, <1>2, <1>3, <1>5, <2>1, <2>2, <2>3, <2>6, <3>1, <3>2, <3>5 DEF UpdateInv, IInv
    <3> QED
      BY <1>9, <3>3, <3>4, <3>5
  <2> QED
    BY <1>1, <1>4, <2>7, <2>8
<1> QED
  BY <1>2, <1>6, <1>7, <1>8, <1>9 DEF Saves

-----------------------------------------------------------------------------
(* The cutover and its undoing                                             *)

\* From the first stop of the service on the record says so.
Engaged == {"stop"} \cup Staged \cup Cutover \cup GivingUp \cup Restoring

LEMMA EngagedRecord ==
  ASSUME IInv, pc \in Engaged \/ (pc = "resume" /\ job.was)
  PROVE  /\ record # NoRecord /\ record \in Record /\ Sound(record)
         /\ record.prepared /\ PhaseHasServiceSideEffects(record.phase)
         /\ pc \in Engaged \ Restoring => OldKnown
<1>1. TypeOK /\ RecordInv /\ UpdateInv /\ RecoveryInv
  BY DEF IInv
<1>2. CASE pc \in Restoring
  <2>1. job.mem \in Record /\ record = [job.mem EXCEPT !.phase = "recovering"] /\ job.mem.prepared
    BY <1>1, <1>2 DEF RecoveryInv
  <2>2. record \in Record /\ record.phase = "recovering" /\ record.prepared
    BY <2>1 DEF Record, Phases
  <2> QED
    BY <1>1, <1>2, <2>2 DEF RecordInv, PhaseHasServiceSideEffects
<1>3. CASE pc \notin Restoring
  <2>1. /\ record # NoRecord /\ record.prepared /\ PhaseHasServiceSideEffects(record.phase)
        /\ pc \in Engaged => OldKnown
    BY <1>1, <1>3 DEF UpdateInv, NewKnown, Engaged, Updating, Fresh, Checked, Staged, Cutover,
                      GivingUp, Undo, Restoring
  <2> QED
    BY <1>1, <1>3, <2>1 DEF TypeOK, RecordInv
<1> QED
  BY <1>2, <1>3

\* Then it is sound whatever the service does, as long as the old version stays
\* and the pointer is one of the two.
LEMMA EngagedStep ==
  ASSUME IInv, pc \in Engaged \/ (pc = "resume" /\ job.was), UNCHANGED <<record, before>>,
         pointer' \in {pointer, record.old, record.new}, record.old.dir \in slots'
  PROVE  RecordInv'
BY EngagedRecord DEF RecordInv, Sound

\* A failed update tells the service to resume, whatever comes of it.
LEMMA ResumeIInv ==
  ASSUME IInv, Resume
  PROVE  IInv'
<1>1. TypeOK'
  BY UpdateType DEF Update
<1>2. pc' = "mark" /\ pc = "resume" /\ UNCHANGED <<record, pointer, slots, before>>
  BY DEF Resume, Succeed, Goto, OkNext, disk, history
<1>3. CASE job.was
  <2>1. record.old.dir \in slots
    BY <1>2, <1>3, EngagedRecord DEF Sound
  <2>2. RecordInv'
    BY <1>2, <1>3, <2>1, EngagedStep
  <2> QED
    BY <1>1, <1>2, <2>2, MarkStep
<1>4. CASE ~job.was
  <2>1. UNCHANGED service
    BY <1>4 DEF Resume
  <2>2. RecordInv'
    BY <1>2, <2>1, SameDisk DEF IInv, disk
  <2> QED
    BY <1>1, <1>2, <2>2, MarkStep
<1> QED
  BY <1>2, <1>3, <1>4, JobFields DEF IInv, TypeOK

LEMMA ExistsIInv ==
  ASSUME IInv, Exists
  PROVE  IInv'
<1>1. TypeOK' /\ RecordInv'
  BY UpdateType, SameDisk DEF Update, Exists, history, IInv
<1>2. TypeOK /\ UpdateInv /\ pc = "exists" /\ UNCHANGED <<disk, service, history>>
  BY DEF IInv, Exists
<1>3. pc' \in {"installing-version", "resume"} /\ (pc' = "installing-version" => job.want \notin slots)
  BY <1>2 DEF Exists, Succeed, Fail, Goto, OkNext, ErrNext
<1>4. job'.old = job.old /\ job'.want = job.want /\ job'.was = job.was
  BY <1>2, <1>3, Continues DEF Exists
<1>5. UpdateInv'
  BY <1>2, <1>3, <1>4
     DEF UpdateInv, OldKnown, Settled, disk, service, history, Fresh, Checked, Staged, Cutover,
         GivingUp, Undo, Updating, StatusKnown, NewRuns
<1>6. RecoveryInv'
  BY <1>3 DEF RecoveryInv, Restoring
<1> QED
  BY <1>1, <1>5, <1>6 DEF IInv

\* Where an update gives up it still knows the two versions.
LEMMA GivingUpStep ==
  ASSUME TypeOK', RecordInv', pc' \in GivingUp \cup {"resume"}, record' # NoRecord,
         record'.prepared, job'.want \in Versions, OldKnown', NewKnown'
  PROVE  IInv'
<1>1. UpdateInv'
  BY DEF UpdateInv, NewKnown, Fresh, Checked, Staged, Cutover, GivingUp, Undo, Updating,
         StatusKnown, NewRuns
<1>2. RecoveryInv'
  BY DEF RecoveryInv, Restoring, GivingUp, Undo
<1> QED
  BY <1>1, <1>2 DEF IInv

\* What the steps from the rename on know of the record.
LEMMA Known ==
  ASSUME IInv, pc \in Staged \cup Cutover \cup GivingUp
  PROVE  /\ record # NoRecord /\ record \in Record /\ Sound(record) /\ record.prepared
         /\ OldKnown /\ NewKnown /\ job.want \in Versions
         /\ record.old.dir \in slots /\ record.old.dir # job.want
<1>1. UpdateInv /\ job.want \in Versions /\ OldKnown /\ NewKnown
  BY DEF IInv, UpdateInv, Updating, Fresh, Checked, Staged, Cutover, GivingUp, Undo
<1>2. record # NoRecord /\ record \in Record /\ Sound(record) /\ record.prepared
  BY EngagedRecord DEF Engaged
<1> QED
  BY <1>1, <1>2 DEF Sound, NewKnown, Target

LEMMA RenameIInv ==
  ASSUME IInv, Rename
  PROVE  IInv'
<1>1. TypeOK'
  BY UpdateType DEF Update
<1>2. TypeOK /\ UpdateInv /\ pc = "rename" /\ UNCHANGED <<record, pointer, service, history>>
  BY DEF IInv, Rename
<1>3. pc' \in {"switching-pointer", "resume"}
      /\ (pc' = "switching-pointer" => job.want \in slots') /\ slots \subseteq slots'
  BY <1>2 DEF Rename, Succeed, Fail, Goto, OkNext, ErrNext
<1>4. job'.old = job.old /\ job'.want = job.want /\ job'.was = job.was
  BY <1>2, <1>3, Continues DEF Rename
<1>5. RecordInv' /\ record' # NoRecord /\ record'.prepared /\ OldKnown' /\ NewKnown'
      /\ job'.want \in Versions
  BY <1>2, <1>3, <1>4, Known, EngagedStep
     DEF Engaged, Staged, history, OldKnown, NewKnown
<1>6. CASE pc' = "resume"
  BY <1>1, <1>5, <1>6, GivingUpStep
<1>7. CASE pc' = "switching-pointer"
  <2>1. UpdateInv'
    BY <1>2, <1>3, <1>4, <1>5, <1>7
       DEF UpdateInv, Fresh, Checked, Staged, Cutover, GivingUp, Undo, Updating, StatusKnown,
           NewRuns
  <2>2. RecoveryInv'
    BY <1>7 DEF RecoveryInv, Restoring
  <2> QED
    BY <1>1, <1>5, <2>1, <2>2 DEF IInv
<1> QED
  BY <1>3, <1>6, <1>7

LEMMA DiscardIInv ==
  ASSUME IInv, Discard
  PROVE  IInv'
<1>1. TypeOK'
  BY UpdateType DEF Update
<1>2. TypeOK /\ pc \in {"discard", "undo_discard"} /\ UNCHANGED <<record, pointer, service, history>>
  BY DEF IInv, Discard
<1>3. pc' \in {"resume", "mark"}
  BY <1>2 DEF Discard, Succeed, Goto, OkNext
<1>4. job'.old = job.old /\ job'.want = job.want /\ job'.was = job.was
  BY <1>2, <1>3, Continues DEF Discard
<1>5. record.old.dir \in slots'
  BY <1>2, Known DEF GivingUp, Discard
<1>6. RecordInv' /\ record' # NoRecord /\ record'.prepared /\ OldKnown' /\ NewKnown'
      /\ job'.want \in Versions
  BY <1>2, <1>4, <1>5, Known, EngagedStep
     DEF Engaged, GivingUp, history, OldKnown, NewKnown
<1> QED
  BY <1>1, <1>3, <1>6, GivingUpStep, MarkStep

\* The pointer moves between the two versions of the record.
LEMMA SwapIInv ==
  ASSUME IInv, Swap
  PROVE  IInv'
<1>1. TypeOK'
  BY UpdateType DEF Update
<1>2. TypeOK /\ UpdateInv /\ RecoveryInv /\ pc \in {"swap", "undo_swap", "r_swap"}
      /\ UNCHANGED <<record, slots, service, history>>
  BY DEF IInv, Swap
<1>3. CASE pc \in {"swap", "undo_swap"}
  <2>1. pc' \in {"starting-service", "discard", "undo_start", "mark"}
    BY <1>3 DEF Swap, Succeed, Fail, Goto, OkNext, ErrNext, Undo
  <2>2. job'.old = job.old /\ job'.want = job.want /\ job'.was = job.was
    BY <1>2, <2>1, Continues DEF Swap
  <2>3. Selects(pc) \in {record.old, record.new}
    BY <1>3, Known DEF Selects, OldKnown, NewKnown, Staged, GivingUp, Undo
  <2>4. pointer' \in {pointer, record.old, record.new}
    BY <2>3 DEF Swap
  <2>5. RecordInv' /\ record' # NoRecord /\ record'.prepared /\ OldKnown' /\ NewKnown'
        /\ job'.want \in Versions
    BY <1>2, <1>3, <2>2, <2>4, Known, EngagedStep
       DEF Engaged, Staged, GivingUp, Undo, history, OldKnown, NewKnown
  <2>6. CASE pc' # "starting-service"
    BY <1>1, <2>1, <2>5, <2>6, GivingUpStep, MarkStep DEF GivingUp, Undo
  <2>7. CASE pc' = "starting-service"
    <3>1. pc = "swap" /\ pointer' = Target(job.want, TRUE)
      BY <1>3, <2>7 DEF Swap, Succeed, Fail, Goto, OkNext, ErrNext, Undo, Selects
    <3>2. pointer' = record'.new
      BY <2>2, <2>5, <3>1 DEF NewKnown
    <3>3. UpdateInv'
      BY <1>2, <2>2, <2>5, <2>7, <3>1, <3>2
         DEF UpdateInv, Fresh, Checked, Staged, Cutover, GivingUp, Undo, Updating, StatusKnown,
             NewRuns
    <3>4. RecoveryInv'
      BY <2>7 DEF RecoveryInv, Restoring
    <3> QED
      BY <1>1, <2>5, <3>3, <3>4 DEF IInv
  <2> QED
    BY <2>6, <2>7
<1>4. CASE pc = "r_swap"
  <2>1. job.mem \in Record /\ record = [job.mem EXCEPT !.phase = "recovering"] /\ job.mem.prepared
    BY <1>2, <1>4 DEF RecoveryInv, Restoring
  <2>2. record.old = job.mem.old
    BY <2>1 DEF Record
  <2>3. RecordInv'
    <3>1. pointer' \in {pointer, record.old} /\ record.old.dir \in slots'
      BY <1>2, <1>4, <2>2, EngagedRecord DEF Swap, Selects, Sound, Engaged, Restoring
    <3> QED
      BY <1>2, <1>4, <3>1, EngagedStep DEF Engaged, Restoring, history
  <2>4. CASE Succeed /\ pointer' = Selects(pc)
    <3>1. pc' = "r_start" /\ job' = job /\ pointer' = job.mem.old
      BY <1>4, <2>4 DEF Succeed, Goto, OkNext, Selects
    <3>2. RecoveryInv'
      BY <1>2, <2>1, <3>1 DEF RecoveryInv, Restoring
    <3>3. UpdateInv'
      BY <3>1 DEF UpdateInv, Fresh, Checked, Staged, Cutover, GivingUp, Undo, Updating,
                  StatusKnown, NewRuns
    <3> QED
      BY <1>1, <2>3, <3>2, <3>3 DEF IInv
  <2>5. CASE Fail
    BY <1>1, <1>4, <2>3, <2>5, IdleStep DEF Fail, ErrNext
  <2> QED
    BY <2>4, <2>5 DEF Swap
<1> QED
  BY <1>2, <1>3, <1>4

-----------------------------------------------------------------------------
(* The service: stop, start, verify                                        *)

\* While a record with a side effect is there, only the service changes.
LEMMA ServiceStep ==
  ASSUME IInv, pc \in Engaged, UNCHANGED <<disk, before>>
  PROVE  RecordInv'
<1>1. record.old.dir \in slots
  BY EngagedRecord DEF Sound
<1> QED
  BY <1>1, EngagedStep DEF disk

\* The same for the steps of an update that give up.
LEMMA ServiceGivesUp ==
  ASSUME IInv, TypeOK', pc \in Cutover \cup GivingUp, pc' \in GivingUp \cup {"mark"},
         UNCHANGED <<disk, before>>, Succeed \/ Fail
  PROVE  IInv'
<1>1. job'.old = job.old /\ job'.want = job.want
  BY Continues DEF IInv, GivingUp, Undo
<1>2. RecordInv' /\ record' # NoRecord /\ record'.prepared /\ OldKnown' /\ NewKnown'
      /\ job'.want \in Versions
  BY <1>1, Known, ServiceStep DEF Engaged, disk, OldKnown, NewKnown
<1> QED
  BY <1>2, GivingUpStep, MarkStep

LEMMA StopIInv ==
  ASSUME IInv, Stop
  PROVE  IInv'
<1>1. TypeOK'
  BY UpdateType DEF Update
<1>2. /\ TypeOK /\ UpdateInv /\ RecoveryInv
      /\ pc \in {"stop", "restop", "undo_stop", "undo_restop", "r_stop", "r_restop"}
      /\ UNCHANGED <<record, pointer, slots, unit, seen, history>>
  BY DEF IInv, Stop, disk
<1>3. RecordInv' /\ record # NoRecord /\ record.prepared
  BY <1>2, ServiceStep, EngagedRecord
     DEF Stop, history, Engaged, Cutover, GivingUp, Undo, Restoring
<1>4. (Succeed /\ running' = NoVersion) \/ Fail
  BY DEF Stop
<1>5. CASE pc = "stop"
  <2>1. CASE Fail
    BY <1>1, <1>3, <1>5, <2>1, MarkStep DEF Fail, ErrNext
  <2>2. CASE Succeed /\ running' = NoVersion
    <3>1. pc' = "exists" /\ job' = job
      BY <1>5, <2>2 DEF Succeed, Goto, OkNext
    <3>2. UpdateInv'
      BY <1>2, <1>3, <1>5, <2>2, <3>1
         DEF UpdateInv, OldKnown, Settled, Fresh, Checked, Staged, Cutover, GivingUp, Undo,
             Updating, StatusKnown, NewRuns
    <3>3. RecoveryInv'
      BY <3>1 DEF RecoveryInv, Restoring
    <3> QED
      BY <1>1, <1>3, <3>2, <3>3 DEF IInv
  <2> QED
    BY <1>4, <2>1, <2>2
<1>6. CASE pc \in {"restop", "undo_stop", "undo_restop"}
  <2>1. CASE pc' \in GivingUp \cup {"mark"}
    BY <1>1, <1>2, <1>4, <1>6, <2>1, ServiceGivesUp DEF Cutover, GivingUp, Undo, history, disk
  <2>2. CASE pc' \notin GivingUp \cup {"mark"}
    <3>1. pc = "restop" /\ pc' = "finish" /\ running' = NoVersion /\ job' = job
      BY <1>4, <1>6, <2>2 DEF Succeed, Fail, Goto, OkNext, ErrNext, GivingUp, Undo
    <3>2. UpdateInv'
      <4>1. ~job.was /\ AsRecorded(job.was)'
        BY <1>2, <3>1 DEF UpdateInv, AsRecorded, history
      <4> QED
        BY <1>2, <1>3, <3>1, <4>1
           DEF UpdateInv, OldKnown, NewKnown, Fresh, Checked, Staged, Cutover, GivingUp, Undo,
               Updating, StatusKnown, NewRuns, history
    <3>3. RecoveryInv'
      BY <3>1 DEF RecoveryInv, Restoring
    <3> QED
      BY <1>1, <1>3, <3>2, <3>3 DEF IInv
  <2> QED
    BY <2>1, <2>2
<1>7. CASE pc \in {"r_stop", "r_restop"}
  <2>1. CASE pc' = "idle"
    BY <1>1, <1>3, <2>1, IdleStep
  <2>2. CASE pc' # "idle"
    <3>1. /\ pc' = IF pc = "r_stop" THEN "r_swap" ELSE "r_clean"
          /\ pc = "r_restop" => running' = NoVersion
          /\ job'.mem = job.mem
      BY <1>2, <1>4, <1>7, <2>2, Continues DEF Succeed, Fail, Goto, OkNext, ErrNext
    <3>2. RecoveryInv'
      BY <1>2, <1>7, <3>1 DEF RecoveryInv, Restoring, Settled, AsRecorded, history
    <3>3. UpdateInv'
      BY <1>7, <3>1 DEF UpdateInv, Fresh, Checked, Staged, Cutover, GivingUp, Undo, Updating,
                        StatusKnown, NewRuns
    <3> QED
      BY <1>1, <1>3, <3>2, <3>3 DEF IInv
  <2> QED
    BY <2>1, <2>2
<1> QED
  BY <1>2, <1>5, <1>6, <1>7

LEMMA StartIInv ==
  ASSUME IInv, Start
  PROVE  IInv'
<1>1. TypeOK'
  BY UpdateType DEF Update
<1>2. /\ TypeOK /\ UpdateInv /\ RecoveryInv /\ pc \in {"start", "undo_start", "r_start"}
      /\ UNCHANGED <<record, pointer, slots, history>>
  BY DEF IInv, Start, disk
<1>3. RecordInv' /\ record # NoRecord /\ record.prepared
  BY <1>2, ServiceStep, EngagedRecord
     DEF Start, history, Engaged, Cutover, GivingUp, Undo, Restoring
<1>4. (Succeed /\ pointer.dir \in slots /\ StartedAs(pointer.dir)) \/ Fail
  BY DEF Start
<1>5. CASE pc' = "idle"
  BY <1>1, <1>3, <1>5, IdleStep
<1>6. CASE pc' \in GivingUp \cup {"mark"}
  <2>1. pc \in Cutover \cup GivingUp
    BY <1>2, <1>4, <1>6
       DEF Cutover, GivingUp, Undo, Succeed, Fail, Goto, OkNext, ErrNext
  <2> QED
    BY <1>1, <1>2, <1>4, <1>6, <2>1, ServiceGivesUp DEF history, disk
<1>7. CASE pc' \notin GivingUp \cup {"mark", "idle"}
  <2>1. /\ \/ pc = "start" /\ pc' = "verifying"
           \/ pc = "r_start" /\ pc' = "r_verify"
        /\ pointer.dir \in slots /\ StartedAs(pointer.dir) /\ job' = job
    BY <1>2, <1>4, <1>7 DEF GivingUp, Undo, Succeed, Fail, Goto, OkNext, ErrNext
  <2>2. CASE pc = "start"
    <3>1. pointer.dir = job.want
      BY <1>2, <2>2 DEF UpdateInv, Cutover, NewKnown, Target
    <3>2. UpdateInv'
      BY <1>2, <1>3, <2>1, <2>2, <3>1
         DEF UpdateInv, OldKnown, NewKnown, StartedAs, Fresh, Checked, Staged, Cutover, GivingUp,
             Undo, Updating, StatusKnown, NewRuns
    <3>3. RecoveryInv'
      BY <2>1, <2>2 DEF RecoveryInv, Restoring
    <3> QED
      BY <1>1, <1>3, <3>2, <3>3 DEF IInv
  <2>3. CASE pc = "r_start"
    <3>1. UpdateInv'
      BY <2>1, <2>3 DEF UpdateInv, Fresh, Checked, Staged, Cutover, GivingUp, Undo, Updating,
                        StatusKnown, NewRuns
    <3>2. RecoveryInv'
      BY <1>2, <2>1, <2>3 DEF RecoveryInv, Restoring, Settled, StartedAs
    <3> QED
      BY <1>1, <1>3, <3>1, <3>2 DEF IInv
  <2> QED
    BY <2>1, <2>2, <2>3
<1> QED
  BY <1>5, <1>6, <1>7

LEMMA VerifyIInv ==
  ASSUME IInv, Verify
  PROVE  IInv'
<1>1. TypeOK'
  BY UpdateType DEF Update
<1>2. /\ TypeOK /\ UpdateInv /\ RecoveryInv /\ pc \in {"verify", "undo_verify", "r_verify"}
      /\ UNCHANGED <<disk, service, before>>
  BY DEF IInv, Verify
<1>3. RecordInv' /\ record # NoRecord /\ record.prepared /\ Sound(record)
  BY <1>2, ServiceStep, EngagedRecord
     DEF Verify, Engaged, Cutover, GivingUp, Undo, Restoring
<1>4. (Succeed /\ running # NoVersion /\ verified' = {running}) \/ Fail
  BY DEF Verify
<1>5. CASE pc' = "idle"
  BY <1>1, <1>3, <1>5, IdleStep
<1>6. CASE pc' \in GivingUp \cup {"mark"}
  <2>1. pc \in Cutover \cup GivingUp
    BY <1>2, <1>4, <1>6
       DEF Cutover, GivingUp, Undo, Succeed, Fail, Goto, OkNext, ErrNext
  <2> QED
    BY <1>1, <1>2, <1>4, <1>6, <2>1, ServiceGivesUp
<1>7. CASE pc' \notin GivingUp \cup {"mark", "idle"}
  <2>1. /\ pc \in {"verify", "r_verify"} /\ running # NoVersion /\ verified' = {running}
        /\ job' = job
        /\ pc = "verify" => pc' = IF job.was THEN "finish" ELSE "restop"
        /\ pc = "r_verify" => pc' = IF job.mem.was THEN "r_clean" ELSE "r_restop"
    BY <1>2, <1>4, <1>7 DEF GivingUp, Undo, Succeed, Fail, Goto, OkNext, ErrNext
  <2>2. CASE pc = "verify"
    <3>1. running = job.want /\ record.was = job.was
      BY <1>2, <2>1, <2>2 DEF UpdateInv, NewRuns, StatusKnown, Cutover
    <3>2. AsRecorded(job.was)' \/ ~job.was
      BY <1>2, <1>3, <2>1, <3>1 DEF AsRecorded, Sound, service
    <3>3. UpdateInv'
      BY <1>2, <1>3, <2>1, <2>2, <3>1, <3>2
         DEF UpdateInv, OldKnown, NewKnown, AsRecorded, Fresh, Checked, Staged, Cutover,
             GivingUp, Undo, Updating, StatusKnown, NewRuns, disk, service
    <3>4. RecoveryInv'
      BY <2>1, <2>2 DEF RecoveryInv, Restoring
    <3> QED
      BY <1>1, <1>3, <3>3, <3>4 DEF IInv
  <2>3. CASE pc = "r_verify"
    <3>1. job.mem \in Record /\ record.was = job.mem.was
      BY <1>2, <2>3 DEF RecoveryInv, Restoring, Record
    <3>2. job.mem.was => AsRecorded(job.mem.was)'
      BY <1>2, <1>3, <2>1, <3>1 DEF AsRecorded, Sound, service
    <3>3. UpdateInv'
      BY <2>1, <2>3 DEF UpdateInv, Fresh, Checked, Staged, Cutover, GivingUp, Undo, Updating,
                        StatusKnown, NewRuns
    <3>4. RecoveryInv'
      BY <1>2, <2>1, <2>3, <3>1, <3>2
         DEF RecoveryInv, Restoring, Settled, AsRecorded, disk, service
    <3> QED
      BY <1>1, <1>3, <3>3, <3>4 DEF IInv
  <2> QED
    BY <2>1, <2>2, <2>3
<1> QED
  BY <1>5, <1>6, <1>7

\* When the update is over the new version is the settled one.
LEMMA FinishSettles ==
  ASSUME IInv, pc = "finish"
  PROVE  /\ Settled /\ pointer.dir = job.want /\ job.want \in slots \cap verified
         /\ record # NoRecord /\ record.prepared /\ record \in Record
         /\ record.new.dir = job.want /\ AsRecorded(record.was) /\ slots \subseteq Versions
<1>1. UpdateInv /\ TypeOK
  BY DEF IInv
<1>2. NewKnown /\ record # NoRecord /\ record.prepared /\ record \in Record
  BY Known DEF Cutover
<1>3. /\ pointer = record.new /\ job.want \in slots /\ record.was = job.was
      /\ unit = job.want /\ seen = job.want /\ running \in {NoVersion, job.want}
      /\ job.want \in verified /\ AsRecorded(job.was)
  BY <1>1 DEF UpdateInv, Cutover, NewRuns, StatusKnown
<1> QED
  BY <1>1, <1>2, <1>3 DEF NewKnown, Target, Settled, TypeOK

LEMMA FinishIInv ==
  ASSUME IInv, Finish
  PROVE  IInv'
<1>1. TypeOK'
  BY UpdateType DEF Update
<1>2. RecordInv'
  BY FinishSettles DEF Finish, IInv, RecordInv, Sound, Settled, AsBefore, service, history
<1> QED
  BY <1>1, <1>2, IdleStep DEF Finish, Goto

-----------------------------------------------------------------------------
(* Recovery                                                                *)

LEMMA MarkIInv ==
  ASSUME IInv, Mark
  PROVE  IInv'
<1>1. TypeOK'
  BY RecoveryType DEF Recovery
<1>2. TypeOK /\ RecordInv /\ pc = "mark"
      /\ UNCHANGED <<pointer, slots, service, before>>
  BY DEF IInv, Mark, history
<1>3. RecordInv'
  <2>1. CASE record' = record
    BY <1>2, <2>1, SameDisk DEF disk
  <2>2. CASE record # NoRecord /\ record' = [record EXCEPT !.phase = "recovering"]
    <3>1. /\ record \in Record /\ Sound(record)
          /\ record'.phase = "recovering" /\ record'.prepared = record.prepared
          /\ record'.old = record.old /\ record'.new = record.new /\ record'.was = record.was
      BY <1>2, <2>2 DEF TypeOK, RecordInv, Record
    <3>2. Sound(record)'
      BY <1>2, <3>1 DEF Sound, Settled, AsBefore, PhaseHasServiceSideEffects, service
    <3>3. record' # NoRecord
      BY <3>1, <2>2 DEF Record, Phases
    <3> QED
      BY <3>2, <3>3 DEF RecordInv
  <2> QED
    BY <2>1, <2>2 DEF Mark
<1>4. CASE pc' = "idle"
  BY <1>1, <1>3, <1>4, IdleStep
<1>5. CASE pc' = "read" /\ record = NoRecord /\ record' = NoRecord
  <2>1. UpdateInv' /\ RecoveryInv'
    BY <1>5 DEF UpdateInv, RecoveryInv, Fresh, Checked, Staged, Cutover, GivingUp, Undo, Updating,
                StatusKnown, NewRuns, Restoring
  <2> QED
    BY <1>1, <1>3, <2>1 DEF IInv
<1>6. CASE /\ record # NoRecord /\ record' = [record EXCEPT !.phase = "recovering"]
           /\ pc' = "inspect" /\ job' = [job EXCEPT !.mem = record]
  <2>1. record \in Record /\ Sound(record) /\ job'.mem = record
    BY <1>2, <1>6 DEF TypeOK, RecordInv, Jobs
  <2>2. Sound(job.mem)'
    BY <1>2, <2>1 DEF Sound, Settled, AsBefore, service
  <2>3. UpdateInv'
    BY <1>6 DEF UpdateInv, Fresh, Checked, Staged, Cutover, GivingUp, Undo, Updating,
                StatusKnown, NewRuns
  <2>4. RecoveryInv'
    BY <1>6, <2>1, <2>2 DEF RecoveryInv, Restoring
  <2> QED
    BY <1>1, <1>3, <2>3, <2>4 DEF IInv
<1> QED
  BY <1>2, <1>4, <1>5, <1>6, JobFields DEF Mark, Recovered, Goto, TypeOK

LEMMA InspectIInv ==
  ASSUME IInv, Inspect
  PROVE  IInv'
<1>1. TypeOK'
  BY RecoveryType DEF Recovery
<1>2. TypeOK /\ RecoveryInv /\ pc = "inspect" /\ UNCHANGED <<disk, service, before>>
  BY DEF IInv, Inspect, history
<1>3. RecordInv'
  BY <1>2, SameDisk DEF IInv
<1>4. /\ job.mem \in Record /\ record = [job.mem EXCEPT !.phase = "recovering"]
      /\ Sound(job.mem) /\ slots \subseteq Versions
  BY <1>2 DEF RecoveryInv, TypeOK
<1>5. CASE pc' \in {"idle", "refused"}
  BY <1>1, <1>2, <1>5, LeaveStep
<1>6. CASE pc' = Inspected(job.mem) /\ pc' # "refused" /\ job' = job
  <2>1. pc' \in {"r_clear", "r_stop", "r_start", "r_clean"}
    BY <1>6 DEF Inspected
  <2>2. UpdateInv'
    BY <2>1 DEF UpdateInv, Fresh, Checked, Staged, Cutover, GivingUp, Undo, Updating,
                StatusKnown, NewRuns
  <2>3. CASE pc' = "r_clear"
    <3>1. ~job.mem.prepared
      BY <1>6, <2>3 DEF Inspected
    <3>2. job.mem.new.dir \notin slots /\ Settled /\ AsRecorded(job.mem.was)
      BY <1>4, <3>1 DEF Sound, AsBefore, AsRecorded
    <3>3. RecoveryInv'
      BY <1>2, <1>4, <1>6, <2>3, <3>1, <3>2
         DEF RecoveryInv, Restoring, Settled, AsRecorded, disk, service
    <3> QED
      BY <1>1, <1>3, <2>2, <3>3 DEF IInv
  <2>4. CASE pc' \in {"r_stop", "r_start"}
    <3>1. job.mem.prepared /\ (pc' = "r_start" => pointer = job.mem.old)
      BY <1>6, <2>4 DEF Inspected
    <3>2. RecoveryInv'
      BY <1>2, <1>4, <1>6, <2>4, <3>1 DEF RecoveryInv, Restoring, disk
    <3> QED
      BY <1>1, <1>3, <2>2, <3>2 DEF IInv
  <2>5. CASE pc' = "r_clean"
    <3>1. /\ job.mem.prepared /\ pointer = job.mem.old
          /\ ~PhaseHasServiceSideEffects(job.mem.phase)
      BY <1>6, <2>5 DEF Inspected
    <3>2. Settled /\ AsRecorded(job.mem.was)
      BY <1>4, <3>1 DEF Sound, AsBefore, AsRecorded
    <3>3. RecoveryInv'
      BY <1>2, <1>4, <1>6, <2>5, <3>1, <3>2
         DEF RecoveryInv, Restoring, Settled, AsRecorded, disk, service
    <3> QED
      BY <1>1, <1>3, <2>2, <3>3 DEF IInv
  <2> QED
    BY <2>1, <2>3, <2>4, <2>5
<1> QED
  BY <1>5, <1>6 DEF Inspect, Goto

LEMMA CleanIInv ==
  ASSUME IInv, Clean
  PROVE  IInv'
<1>1. TypeOK'
  BY RecoveryType DEF Recovery
<1>2. TypeOK /\ RecoveryInv /\ pc = "r_clean" /\ UNCHANGED <<record, pointer, service, before>>
  BY DEF IInv, Clean, history
<1>3. /\ job.mem \in Record /\ record = [job.mem EXCEPT !.phase = "recovering"]
      /\ job.mem.prepared /\ pointer = job.mem.old /\ Settled /\ AsRecorded(job.mem.was)
      /\ Sound(record)
  BY <1>2, EngagedRecord DEF RecoveryInv, Restoring, Engaged
<1>4. record.old = job.mem.old /\ record.new = job.mem.new
  BY <1>3 DEF Record
<1>5. job.mem.old.dir \in slots /\ job.mem.old.dir # job.mem.new.dir
  BY <1>3, <1>4, EngagedRecord DEF Sound, Engaged, Restoring
<1>6. RecordInv' /\ Settled'
  <2>1. record.old.dir \in slots'
    BY <1>4, <1>5 DEF Clean, Removes
  <2> QED
    BY <1>2, <1>3, <1>4, <2>1, EngagedStep DEF Engaged, Restoring, Settled, service
<1>7. CASE Fail
  BY <1>1, <1>2, <1>6, <1>7, IdleStep DEF Fail, ErrNext
<1>8. CASE Succeed /\ slots' = slots \ Removes(job.mem)
  <2>1. pc' = "r_clear" /\ job' = job /\ job.mem.new.dir \notin slots'
    BY <1>2, <1>5, <1>8 DEF Succeed, Goto, OkNext, Removes
  <2>2. UpdateInv'
    BY <2>1 DEF UpdateInv, Fresh, Checked, Staged, Cutover, GivingUp, Undo, Updating,
                StatusKnown, NewRuns
  <2>3. RecoveryInv'
    BY <1>2, <1>3, <1>6, <2>1 DEF RecoveryInv, Restoring, AsRecorded, service
  <2> QED
    BY <1>1, <1>6, <2>2, <2>3 DEF IInv
<1> QED
  BY <1>7, <1>8 DEF Clean

LEMMA ClearIInv ==
  ASSUME IInv, Clear
  PROVE  IInv'
<1>1. TypeOK'
  BY RecoveryType DEF Recovery
<1>2. /\ TypeOK /\ RecordInv /\ Settled /\ pc = "r_clear"
      /\ UNCHANGED <<pointer, slots, service, before>>
  BY DEF IInv, RecoveryInv, Clear, history
<1>3. RecordInv'
  <2>1. CASE record' = record
    BY <1>2, <2>1, SameDisk DEF disk
  <2>2. CASE record' = NoRecord
    BY <1>2, <2>2 DEF RecordInv, Settled, service
  <2> QED
    BY <2>1, <2>2 DEF Clear
<1>4. CASE pc' = "idle"
  BY <1>1, <1>3, <1>4, IdleStep
<1>5. CASE pc' = "read" /\ record' = NoRecord
  <2>1. UpdateInv' /\ RecoveryInv'
    BY <1>5 DEF UpdateInv, RecoveryInv, Fresh, Checked, Staged, Cutover, GivingUp, Undo, Updating,
                StatusKnown, NewRuns, Restoring
  <2> QED
    BY <1>1, <1>3, <2>1 DEF IInv
<1> QED
  BY <1>2, <1>4, <1>5, JobFields DEF Clear, Recovered, Goto, TypeOK

-----------------------------------------------------------------------------
(* The service changes by itself; all steps together                       *)

LEMMA ServiceChangesIInv ==
  ASSUME IInv, ServiceChanges
  PROVE  IInv'
<1>1. TypeOK'
  BY RecoveryType
<1>2. /\ TypeOK /\ RecordInv /\ UpdateInv /\ RecoveryInv
      /\ UNCHANGED <<record, pointer, slots, unit, seen, pc, job, verified>>
      /\ before' = "changed"
      /\ running' = NoVersion \/ (pc = "idle" /\ running' = unit)
  BY DEF IInv, ServiceChanges, disk
<1>3. Settled => Settled'
  BY <1>2 DEF Settled
<1>4. AsBefore' /\ \A was \in BOOLEAN : AsRecorded(was)'
  BY <1>2 DEF AsBefore, AsRecorded
<1>5. /\ record # NoRecord => Sound(record)'
      /\ pc = "inspect" => Sound(job.mem)'
  <2>1. ASSUME NEW r, Sound(r)
        PROVE  /\ before' = "stopped" => ~r.was
               /\ r.prepared =>
                    /\ pointer' \in {r.old, r.new}
                    /\ r.old.dir \in slots' \ {r.new.dir}
                    /\ ~PhaseHasServiceSideEffects(r.phase)
                         => pointer' = r.old /\ Settled' /\ AsBefore'
               /\ ~r.prepared => r.new.dir = NoVersion /\ Settled' /\ AsBefore'
    BY <1>2, <1>3, <1>4, <2>1 DEF Sound
  <2>2. record # NoRecord => Sound(record)
    BY <1>2 DEF RecordInv
  <2>3. pc = "inspect" => Sound(job.mem)
    BY <1>2 DEF RecoveryInv
  <2>4. record # NoRecord => Sound(record)'
    BY <1>2, <2>1, <2>2 DEF Sound
  <2>5. pc = "inspect" => Sound(job.mem)'
    BY <1>2, <2>1, <2>3 DEF Sound
  <2> QED
    BY <2>4, <2>5
<1>6. RecordInv'
  BY <1>2, <1>3, <1>5 DEF RecordInv
<1>7. CASE pc = "idle"
  BY <1>1, <1>2, <1>6, <1>7, IdleStep
<1>8. CASE pc # "idle"
  <2>1. running' = NoVersion
    BY <1>2, <1>8
  <2>2. UpdateInv'
    BY <1>2, <1>3, <2>1
       DEF UpdateInv, OldKnown, NewKnown, AsRecorded, Fresh, Checked, Staged, Cutover, GivingUp,
           Undo, Updating, StatusKnown, NewRuns
  <2>3. RecoveryInv'
    BY <1>2, <1>3, <1>5 DEF RecoveryInv, AsRecorded, Restoring
  <2> QED
    BY <1>1, <1>6, <2>2, <2>3 DEF IInv
<1> QED
  BY <1>7, <1>8

LEMMA NextIInv ==
  ASSUME IInv, [Next]_vars
  PROVE  IInv'
<1>1. CASE Update
  BY <1>1, BeforeCutover, SaveIInv, StopIInv, ExistsIInv, RenameIInv, SwapIInv, StartIInv,
     ResumeIInv, VerifyIInv, DiscardIInv, FinishIInv DEF Update
<1>2. CASE Recovery
  <2>1. CASE Refused
    BY <1>2, <2>1, RecoveryType, LeaveStep DEF Refused, Goto, history
  <2> QED
    BY <1>2, <2>1, MarkIInv, InspectIInv, CleanIInv, ClearIInv DEF Recovery
<1>3. CASE Crash
  BY <1>3, RecoveryType, LeaveStep DEF Crash, Goto, history
<1>4. CASE ServiceChanges
  BY <1>4, ServiceChangesIInv
<1>5. CASE UNCHANGED vars
  <2>1. /\ UNCHANGED <<record, pointer, slots, unit, running, seen>>
        /\ UNCHANGED <<pc, job, verified, before>>
    BY <1>5 DEF vars, disk, service, history
  <2>2. TypeOK' /\ RecordInv'
    BY <2>1, SameDisk DEF IInv, TypeOK, disk, service
  <2>3. UpdateInv'
    BY <2>1 DEF IInv, UpdateInv, Settled, AsRecorded, OldKnown, NewKnown, Fresh, Checked, Staged,
                Cutover, GivingUp, Undo, Updating, StatusKnown, NewRuns
  <2>4. RecoveryInv'
    BY <2>1 DEF IInv, RecoveryInv, Sound, Settled, AsBefore, AsRecorded
  <2> QED
    BY <2>2, <2>3, <2>4 DEF IInv
<1> QED
  BY <1>1, <1>2, <1>3, <1>4, <1>5 DEF Next

\* What a record means and what each step knows of it hold at all times.
THEOREM ProxyUpdateInvariance == Spec => []IInv
<1>1. Init => IInv
  BY InitIInv
<1>2. IInv /\ [Next]_vars => IInv'
  BY NextIInv
<1> QED
  BY <1>1, <1>2, PTL DEF Spec

\* The state of the updater, of its record and of the service stays within its types.
THEOREM ProxyUpdateTypeCorrect == Spec => []TypeOK
<1>1. IInv => TypeOK
  BY DEF IInv
<1> QED
  BY <1>1, ProxyUpdateInvariance, PTL

\* Without a record the pointer names an existing version, and the service definition
\* and state.json name the same one (engine.go:182, recovery.go:190).
THEOREM UpdatedDiskIsConsistent == Spec => []SettledIsConsistent
<1>1. IInv => SettledIsConsistent
  BY DEF IInv, RecordInv, Settled, SettledIsConsistent
<1> QED
  BY <1>1, ProxyUpdateInvariance, PTL

\* Recovery always finds the pointer at one of the two versions of the record, and the
\* old one on disk (recovery.go:215, :235).
THEOREM RecordStaysRecoverable == Spec => []RecordIsRecoverable
<1>1. IInv => RecordIsRecoverable
  BY DEF IInv, RecordInv, Sound, RecordIsRecoverable
<1> QED
  BY <1>1, ProxyUpdateInvariance, PTL

-----------------------------------------------------------------------------
(* What a step may do to the record                                        *)

LEMMA RestoredStep ==
  ASSUME IInv, [Next]_vars, record # NoRecord, record' = NoRecord
  PROVE  AsRecorded(record.was)
<1>1. TypeOK /\ RecordInv /\ UpdateInv /\ RecoveryInv /\ record \in Record /\ Sound(record)
  BY DEF IInv, TypeOK, RecordInv
<1>2. ~Save
  BY SaveSound
<1>3. ~Mark
  BY <1>1 DEF Mark, Record, Phases
<1>4. SameVersion \/ Finish \/ Clear
  <2>1. ~BeginRecord
    BY <1>1 DEF BeginRecord, UpdateInv
  <2>2. record' # record
    BY <1>1
  <2> QED
    BY <1>2, <1>3, <2>1, <2>2
       DEF Next, Update, Recovery, Attempt, ReadPointer, Prepare, ReadStatus, Stop, Exists, Rename,
           Swap, Start, Resume, Verify, Discard, Inspect, Refused, Clean, Crash, ServiceChanges,
           vars, disk
<1>5. CASE SameVersion
  <2>1. record.prepared /\ ~PhaseHasServiceSideEffects(record.phase)
    BY <1>1, <1>5 DEF SameVersion, UpdateInv, Updating, Checked, Fresh
  <2> QED
    BY <1>1, <2>1 DEF Sound, AsBefore, AsRecorded
<1>6. CASE Finish
  BY <1>6, FinishSettles DEF Finish
<1>7. CASE Clear
  <2>1. job.mem \in Record /\ record = [job.mem EXCEPT !.phase = "recovering"]
        /\ AsRecorded(job.mem.was)
    BY <1>1, <1>7 DEF Clear, RecoveryInv
  <2> QED
    BY <2>1 DEF Record
<1> QED
  BY <1>4, <1>5, <1>6, <1>7

\* When the record goes away a service that was stopped before the update is stopped, and
\* one whose running was recorded runs, unless something else changed it (engine.go:247,
\* recovery.go:231).
THEOREM ServiceStaysRestored == Spec => ServiceIsRestored
<1>1. IInv /\ [Next]_vars =>
        [record # NoRecord /\ record' = NoRecord =>
           /\ before = "stopped" => running = NoVersion
           /\ before = "running" /\ record.was => running # NoVersion]_vars
  BY RestoredStep DEF AsRecorded
<1> QED
  BY <1>1, ProxyUpdateInvariance, PTL DEF Spec, ServiceIsRestored

-----------------------------------------------------------------------------
(* Refinement: an update happens at once                                   *)

\* The version in use and the versions installed, as VersionSwitch sees them.
Selected == IF record # NoRecord /\ record.prepared THEN record.old.dir ELSE pointer.dir
Installed == IF record = NoRecord THEN slots ELSE slots \ {record.new.dir}

LEMMA SaveKeeps ==
  ASSUME IInv, Save
  PROVE  Selected' = Selected /\ Installed' = Installed
<1>1. /\ TypeOK /\ UpdateInv /\ pc \in Saves /\ record # NoRecord /\ record \in Record
      /\ Sound(record) /\ slots \subseteq Versions /\ pointer' = pointer /\ slots' = slots
  BY DEF IInv, TypeOK, UpdateInv, RecordInv, Save, Saves, Updating, Fresh, Checked, Staged, Cutover
<1>2. record' # NoRecord /\ (record' = record \/ record' = Checkpointed(pc))
  BY SaveSound
<1>3. CASE record' = record
  BY <1>1, <1>3 DEF Selected, Installed
<1>4. CASE pc = "prepared" /\ record' = Checkpointed(pc)
  <2>1. ~record.prepared /\ job.old = pointer
    BY <1>1, <1>4 DEF UpdateInv, Fresh
  <2>2. record'.prepared /\ record'.old = pointer /\ record'.new = record.new
    BY <1>1, <1>4, <2>1 DEF Checkpointed, Record
  <2> QED
    BY <1>1, <1>2, <2>1, <2>2 DEF Selected, Installed
<1>5. CASE pc = "installing-version" /\ record' = Checkpointed(pc)
  <2>1. record.prepared /\ job.want \notin slots /\ record.new.dir = NoVersion
    BY <1>1, <1>5 DEF UpdateInv, Updating, Fresh, Checked
  <2>2. record'.prepared /\ record'.old = record.old /\ record'.new = Target(job.want, TRUE)
    BY <1>1, <1>5, <2>1 DEF Checkpointed, Record
  <2>3. record'.new.dir = job.want
    BY <2>2 DEF Target
  <2>4. slots \ {record.new.dir} = slots /\ slots \ {record'.new.dir} = slots
    BY <1>1, <2>1, <2>3
  <2> QED
    BY <1>1, <1>2, <2>1, <2>2, <2>4 DEF Selected, Installed
<1>6. CASE pc \notin {"prepared", "installing-version"} /\ record' = Checkpointed(pc)
  <2>1. record'.prepared = record.prepared /\ record'.old = record.old /\ record'.new = record.new
    BY <1>1, <1>6 DEF Checkpointed, Record
  <2> QED
    BY <1>1, <1>2, <2>1 DEF Selected, Installed
<1> QED
  BY <1>2, <1>3, <1>4, <1>5, <1>6

LEMMA SlotsKeep ==
  ASSUME IInv, Rename \/ Swap \/ Discard \/ Clean
  PROVE  Selected' = Selected /\ Installed' = Installed
<1>1. record' = record /\ record # NoRecord /\ record.prepared
  <2>1. pc \in Engaged
    BY DEF Rename, Swap, Discard, Clean, Engaged, Staged, GivingUp, Undo, Restoring
  <2> QED
    BY <2>1, EngagedRecord DEF Rename, Swap, Discard, Clean
<1>2. slots' \ {record.new.dir} = slots \ {record.new.dir}
  <2>1. CASE Rename \/ Discard
    <3>1. record.new.dir = job.want
      BY <2>1, Known DEF Rename, Discard, Staged, GivingUp, NewKnown, Target
    <3> QED
      BY <2>1, <3>1 DEF Rename, Discard
  <2>2. CASE Swap
    BY <2>2 DEF Swap
  <2>3. CASE Clean
    <3>1. job.mem \in Record /\ record = [job.mem EXCEPT !.phase = "recovering"]
      BY <2>3 DEF IInv, RecoveryInv, Clean, Restoring
    <3>2. record.new = job.mem.new
      BY <3>1 DEF Record
    <3> QED
      BY <2>3, <3>2 DEF Clean, Removes
  <2> QED
    BY <2>1, <2>2, <2>3
<1> QED
  BY <1>1, <1>2 DEF Selected, Installed

\* The steps that begin, mark or abandon a record.
LEMMA RecordKeeps ==
  ASSUME IInv, BeginRecord \/ SameVersion \/ Mark \/ Clear
  PROVE  Selected' = Selected /\ Installed' = Installed
<1>1. /\ TypeOK /\ RecordInv /\ UpdateInv /\ RecoveryInv /\ slots \subseteq Versions
      /\ pointer' = pointer /\ slots' = slots
  BY DEF IInv, TypeOK, BeginRecord, SameVersion, Mark, Clear
<1>2. CASE record' = record
  BY <1>1, <1>2 DEF Selected, Installed
<1>3. CASE BeginRecord /\ record' = Started
  <2>1. record = NoRecord
    BY <1>1, <1>3 DEF BeginRecord, UpdateInv
  <2>2. ~Started.prepared /\ Started.new.dir = NoVersion
    BY DEF Started, NoTarget, Target
  <2>3. slots \ {Started.new.dir} = slots
    BY <1>1, <2>2
  <2> QED
    BY <1>1, <1>3, <2>1, <2>2, <2>3 DEF Selected, Installed
<1>4. CASE SameVersion /\ record' = NoRecord
  <2>1. /\ record # NoRecord /\ record.prepared /\ pointer = record.old
        /\ record.new.dir = NoVersion
    BY <1>1, <1>4 DEF SameVersion, UpdateInv, Updating, Checked, Fresh
  <2>2. slots \ {record.new.dir} = slots
    BY <1>1, <2>1
  <2> QED
    BY <1>1, <1>4, <2>1, <2>2 DEF Selected, Installed
<1>5. CASE Mark /\ record # NoRecord /\ record' = [record EXCEPT !.phase = "recovering"]
  <2>1. /\ record'.prepared = record.prepared /\ record'.old = record.old
        /\ record'.new = record.new /\ record' # NoRecord
    BY <1>1, <1>5 DEF TypeOK, Record, Phases
  <2> QED
    BY <1>1, <1>5, <2>1 DEF Selected, Installed
<1>6. CASE Clear /\ record' = NoRecord
  <2>1. job.mem \in Record /\ record = [job.mem EXCEPT !.phase = "recovering"]
        /\ job.mem.new.dir \notin slots /\ (job.mem.prepared => pointer = job.mem.old)
    BY <1>1, <1>6 DEF Clear, RecoveryInv
  <2>2. record.prepared = job.mem.prepared /\ record.old = job.mem.old
        /\ record.new = job.mem.new
    BY <2>1 DEF Record
  <2>3. slots \ {record.new.dir} = slots
    BY <2>1, <2>2
  <2> QED
    BY <1>1, <1>6, <2>1, <2>2, <2>3 DEF Selected, Installed
<1> QED
  BY <1>2, <1>3, <1>4, <1>5, <1>6 DEF BeginRecord, SameVersion, Mark, Clear

\* The end of an update is where it happens.
LEMMA FinishSwitches ==
  ASSUME IInv, Finish
  PROVE  \/ Selected' = Selected /\ Installed' = Installed
         \/ /\ job.want \in Versions /\ job.want \in verified \ Installed
            /\ Selected' = job.want /\ Installed' = Installed \cup {job.want}
<1>1. pc = "finish" /\ pointer' = pointer /\ slots' = slots /\ record' \in {NoRecord, record}
  BY DEF Finish
<1>2. /\ pointer.dir = job.want /\ job.want \in slots \cap verified /\ record # NoRecord
      /\ record.new.dir = job.want /\ slots \subseteq Versions
  BY <1>1, FinishSettles
<1>3. CASE record' = record
  BY <1>1, <1>3 DEF Selected, Installed
<1>4. CASE record' = NoRecord
  BY <1>1, <1>2, <1>4 DEF Selected, Installed
<1> QED
  BY <1>1, <1>3, <1>4

\* Every step keeps what the user sees, or switches to a verified version.
LEMMA SwitchStep ==
  ASSUME IInv, [Next]_vars
  PROVE  \/ /\ Selected' = Selected /\ Installed' = Installed
            /\ verified' = verified \/ verified' \in SUBSET Versions
         \/ \E v \in Versions : /\ v \in verified \ Installed
                                /\ Selected' = v /\ Installed' = Installed \cup {v}
                                /\ verified' = verified
<1>1. verified' \in SUBSET Versions
  BY NextIInv DEF IInv, TypeOK
<1>2. CASE Finish
  BY <1>1, <1>2, FinishSwitches DEF Finish, history
<1>3. CASE ~Finish
  <2>1. Selected' = Selected /\ Installed' = Installed
    <3>1. CASE Save \/ Rename \/ Swap \/ Discard \/ Clean \/ BeginRecord \/ SameVersion \/ Mark
               \/ Clear
      BY <3>1, SaveKeeps, SlotsKeep, RecordKeeps
    <3>2. CASE UNCHANGED disk
      BY <3>2 DEF disk, Selected, Installed
    <3> QED
      BY <1>3, <3>1, <3>2
         DEF Next, Update, Recovery, Attempt, ReadPointer, Prepare, ReadStatus, Stop, Exists,
             Start, Resume, Verify, Inspect, Refused, Crash, ServiceChanges, vars, disk
  <2> QED
    BY <1>1, <2>1
<1> QED
  BY <1>2, <1>3

\* Seen by its user an update of the core switches to a verified version in one step, with
\* its directory, or changes nothing: with every failure, death and retry in between.
THEOREM UpdateHappensAtOnce == Spec => UpdateIsAtomic
<1>1. Init => Switch!Init
  <2> SUFFICES ASSUME Init PROVE Switch!Init
    OBVIOUS
  <2>1. PICK v \in Versions, abs \in FirstPointers : pointer = Target(v, abs) /\ slots = {v}
    BY DEF Init
  <2> QED
    BY <2>1 DEF Init, Switch!Init, Target
<1>2. IInv /\ [Next]_vars =>
        [Switch!Next]_<<Selected, Installed, verified>>
  <2> SUFFICES ASSUME IInv, [Next]_vars
               PROVE  Switch!Next \/ UNCHANGED <<Selected, Installed, verified>>
    OBVIOUS
  <2> QED
    BY SwitchStep DEF Switch!Next, Switch!Switch, Switch!Verify, Selected, Installed
<1> QED
  BY <1>1, <1>2, ProxyUpdateInvariance, PTL DEF Spec, UpdateIsAtomic, Switch!Spec, Selected, Installed
=============================================================================
