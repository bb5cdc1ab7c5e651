----------------------------- MODULE ProxyUpdate -----------------------------
(***************************************************************************)
(* UpdateProxy and its crash recovery: internal/adapter/updater/engine.go, *)
(* recovery.go and pointer.go, on the service of internal/runtime's        *)
(* proxyUpdateService.  An update keeps a record of how far it has come in *)
(* one file, written atomically; the next update first finishes or undoes  *)
(* what a record left behind (recover).                                    *)
(*                                                                         *)
(* Updates exclude each other by the mutation lock (MutationLock.tla), so  *)
(* one process is modelled: it may die at every step and be started again. *)
(* Every call may fail, at any point of its effect.  Left out: the staging *)
(* workspace, download and extraction (Prepare is one step), evidence and  *)
(* error texts, timeouts.                                                  *)
(***************************************************************************)
EXTENDS Naturals

CONSTANTS
  Versions,       \* released versions of the core
  NoVersion, NoRecord,
  FirstPointers   \* whether the first pointer is absolute: a subset of BOOLEAN

ASSUME NoVersionAssumption == NoVersion \notin Versions
ASSUME FirstPointersAssumption == FirstPointers \subseteq BOOLEAN

VARIABLES
  record,   \* .pmux-proxy-update-pending.json
  pointer,  \* the link `current`
  slots,    \* directories below versions/
  unit,     \* the version the installed service definition runs
  running,  \* the version the service manager runs
  seen,     \* CoreVersionSeen of the installation in state.json
  pc, job,  \* the running update and its local variables
  verified, \* history: what the last verification of this attempt accepted
  before    \* history: the service when the record was begun

disk == <<record, pointer, slots>>
service == <<unit, running, seen>>
history == <<verified, before>>
vars == <<disk, service, pc, job, history>>

\* Link targets, compared as strings: the same directory has two names.
Target(v, abs) == [dir |-> v, abs |-> abs]
NoTarget == Target(NoVersion, TRUE)
Targets == {Target(v, abs) : v \in Versions \cup {NoVersion}, abs \in BOOLEAN}

Saves == {"prepared", "save_status", "stopping-service", "installing-version",
          "switching-pointer", "starting-service", "verifying"}
Phases == (Saves \ {"save_status"}) \cup {"started", "recovering"}

\* prepared: PointerPath and OldTarget are set; new: NewTarget, the same path as FinalDir.
Record == [phase: Phases, prepared: BOOLEAN, old: Targets, new: Targets, was: BOOLEAN]

ASSUME NoRecordAssumption == NoRecord \notin Record

\* Mutant: only the phase of a new record is filled in.
Unset == [phase |-> "started"]

Started == [phase |-> "started", prepared |-> FALSE, old |-> NoTarget, new |-> NoTarget,
            was |-> FALSE]

\* cur: req.CurrentVersion, want: release.Version, mem: the record recover read,
\* then: what follows recovery, errs: rollbackProxy met an error.
NoJob == [cur |-> NoVersion, want |-> NoVersion, old |-> NoTarget, was |-> FALSE,
          mem |-> NoRecord, then |-> "idle", errs |-> FALSE]

Jobs == [cur: Versions \cup {NoVersion}, want: Versions \cup {NoVersion}, old: Targets,
         was: BOOLEAN, mem: Record \cup {NoRecord}, then: {"read", "idle"}, errs: BOOLEAN]

Undo == {"undo_stop", "undo_swap", "undo_start", "undo_verify", "undo_restop"}
Recovering == {"mark", "inspect", "r_stop", "r_swap", "r_start", "r_verify", "r_restop",
               "r_clean", "r_clear"}
PCs == Saves \cup Undo \cup Recovering
         \cup {"idle", "read", "begin", "prepare", "same", "read_status", "stop", "exists",
               "rename", "swap", "discard", "resume", "start", "verify", "restop",
               "finish", "undo_discard", "refused"}

-----------------------------------------------------------------------------
(* Control flow                                                            *)

\* Where each call continues when it succeeded ...
OkNext(at) ==
  CASE at = "prepared" -> IF job.want = job.cur THEN "same" ELSE "read_status"
    [] at = "save_status" -> IF job.was THEN "stopping-service" ELSE "exists"
    [] at = "stopping-service" -> "stop"
    [] at = "stop" -> "exists"
    [] at = "exists" -> "installing-version"
    [] at = "installing-version" -> "rename"
    [] at = "rename" -> "switching-pointer"
    [] at = "switching-pointer" -> "swap"
    [] at = "swap" -> "starting-service"
    [] at = "starting-service" -> "start"
    [] at = "start" -> "verifying"
    [] at = "verifying" -> "verify"
    [] at = "verify" -> IF job.was THEN "finish" ELSE "restop"
    [] at = "restop" -> "finish"
    [] at = "discard" -> "resume"
    [] at = "undo_stop" -> "undo_swap"
    [] at = "undo_swap" -> "undo_start"
    [] at = "undo_start" -> "undo_verify"
    [] at \in {"undo_verify", "undo_restop"} ->
         IF at = "undo_verify" /\ ~job.was THEN "undo_restop"
         ELSE IF job.errs THEN "mark" ELSE "undo_discard"
    [] at = "r_stop" -> "r_swap"
    [] at = "r_swap" -> "r_start"
    [] at = "r_start" -> "r_verify"
    [] at = "r_verify" -> IF job.mem.was THEN "r_clean" ELSE "r_restop"
    [] at = "r_restop" -> "r_clean"
    [] at = "r_clean" -> "r_clear"
    [] at \in {"resume", "undo_discard"} -> "mark"

\* ... and when it failed.  "mark" is the deferred recover of an open update.
ErrNext(at) ==
  CASE at \in {"prepared", "save_status", "stopping-service", "stop", "undo_swap"} -> "mark"
    [] at \in {"exists", "installing-version", "rename"} -> "resume"
    [] at \in {"switching-pointer", "swap"} -> "discard"
    [] at \in {"starting-service", "start", "verifying", "verify", "restop"} -> "undo_stop"
    [] at \in {"undo_start", "undo_verify"} -> IF job.was THEN "mark" ELSE "undo_restop"
    [] at \in {"discard", "undo_stop", "r_stop", "resume", "undo_discard"} -> OkNext(at)
    [] at = "undo_restop" -> "mark"
    [] at \in {"r_swap", "r_start", "r_verify", "r_restop", "r_clean"} -> "idle"

Goto(at) == pc' = at /\ job' = IF at = "idle" THEN NoJob ELSE job
Succeed == Goto(OkNext(pc))
Fail ==
  /\ pc' = ErrNext(pc)
  /\ job' = IF pc' = "idle" THEN NoJob ELSE [job EXCEPT !.errs = @ \/ pc \in Undo]

-----------------------------------------------------------------------------
(* UpdateProxy up to the first checkpoint                                  *)

\* The runtime reads the installation, then UpdateProxy takes the lock and recovers.
Attempt ==
  /\ pc = "idle"
  /\ pc' = "mark"
  /\ job' = [NoJob EXCEPT !.cur = seen, !.then = "read"]
  /\ verified' = {}
  /\ UNCHANGED <<disk, service, before>>

ReadPointer ==
  /\ pc = "read"
  /\ \/ pc' = "begin" /\ job' = [job EXCEPT !.old = pointer]
     \/ Goto("idle")
  /\ UNCHANGED <<disk, service, history>>

\* recovery.begin.  When it fails nothing is deferred yet.
BeginRecord ==
  /\ pc = "begin"
  /\ \/ record' = Started /\ Goto("prepare")
     \/ record' \in {record, Started} /\ Goto("idle")
  /\ before' = IF running = NoVersion THEN "stopped" ELSE "running"
  /\ UNCHANGED <<pointer, slots, service, verified>>

\* prepare: any released version may be the latest or the requested one.
Prepare ==
  /\ pc = "prepare"
  /\ \/ \E v \in Versions : pc' = "prepared" /\ job' = [job EXCEPT !.want = v]
     \/ Goto("mark")
  /\ UNCHANGED <<disk, service, history>>

-----------------------------------------------------------------------------
(* The calls an update and its recovery are made of                        *)

\* Mutant: the target is recorded before it is known not to exist.
EarlyTarget(at) ==
  CASE at = "prepared" -> [record EXCEPT !.phase = at, !.prepared = TRUE, !.old = job.old,
                                         !.new = Target(job.want, TRUE)]
    [] at = "save_status" -> [record EXCEPT !.was = job.was]
    [] OTHER -> [record EXCEPT !.phase = at]

\* Mutant: the phase before the swap is all that is recorded.
NoTargetRecorded(at) ==
  CASE at = "prepared" -> [record EXCEPT !.phase = at, !.prepared = TRUE, !.old = job.old]
    [] at = "save_status" -> [record EXCEPT !.was = job.was]
    [] OTHER -> [record EXCEPT !.phase = at]

\* What each checkpoint writes.
Checkpointed(at) ==
  CASE at = "prepared" -> [record EXCEPT !.phase = at, !.prepared = TRUE, !.old = job.old]
    [] at = "save_status" -> [record EXCEPT !.was = job.was]
    [] at = "installing-version" -> [record EXCEPT !.phase = at, !.new = Target(job.want, TRUE)]
    [] OTHER -> [record EXCEPT !.phase = at]

\* checkpoint: read, change, write a temporary file, rename it, sync the directory.
Save ==
  /\ pc \in Saves
  /\ \/ record' = Checkpointed(pc) /\ Succeed
     \/ record' \in {record, Checkpointed(pc)} /\ Fail
  /\ UNCHANGED <<pointer, slots, service, history>>

\* release.Version == req.CurrentVersion: the error of clear is ignored.
SameVersion ==
  /\ pc = "same"
  /\ record' \in {NoRecord, record}
  /\ Goto("idle")
  /\ UNCHANGED <<pointer, slots, service, history>>

ReadStatus ==
  /\ pc = "read_status"
  /\ \/ pc' = "save_status" /\ job' = [job EXCEPT !.was = running # NoVersion]
     \/ Goto("mark")
  /\ UNCHANGED <<disk, service, history>>

\* Service.Stop.  After a failure the process may have been stopped or not.
Stop ==
  /\ pc \in {"stop", "restop", "undo_stop", "undo_restop", "r_stop", "r_restop"}
  /\ \/ unit # NoVersion /\ running' = NoVersion /\ Succeed
     \/ running' \in {running, NoVersion} /\ Fail
  /\ UNCHANGED <<disk, unit, seen, history>>

\* Lstat of finalDir, chmod of the candidate.
Exists ==
  /\ pc = "exists"
  /\ \/ job.want \notin slots /\ Succeed
     \/ Fail
  /\ UNCHANGED <<disk, service, history>>

Rename ==
  /\ pc = "rename"
  /\ \/ slots' = slots \cup {job.want} /\ Succeed
     \/ UNCHANGED slots /\ Fail
  /\ UNCHANGED <<record, pointer, service, history>>

\* What each swap selects.
Selects(at) ==
  CASE at = "swap" -> Target(job.want, TRUE)
    [] at = "undo_swap" -> job.old
    [] at = "r_swap" -> job.mem.old

\* PointerStore.Swap: rename a link over the pointer, sync the directory.
Swap ==
  /\ pc \in {"swap", "undo_swap", "r_swap"}
  /\ \/ pointer' = Selects(pc) /\ Succeed
     \/ pointer' \in {pointer, Selects(pc)} /\ Fail
  /\ UNCHANGED <<record, slots, service, history>>

\* Mutant: an updated core is started without saving its installation.
StartedUnsaved(v) == unit' = v /\ running' = v /\ UNCHANGED seen

\* proxyUpdateService.Start succeeded: uninstall, install, start, save the state.
StartedAs(v) == unit' = v /\ running' = v /\ seen' = v

\* It failed before, in or after one of these calls.  When the state could not be
\* saved it tries to stop the service again.
StartErr(v) ==
  \/ UNCHANGED service
  \/ unit' \in {unit, NoVersion} /\ running' = NoVersion /\ UNCHANGED seen
  \/ v \in slots /\ unit' = v /\ running' \in {NoVersion, v} /\ seen' \in {seen, v}

\* selectedProxyBinary needs the directory the pointer names.
Start ==
  /\ pc \in {"start", "undo_start", "r_start"}
  /\ \/ pointer.dir \in slots /\ StartedAs(pointer.dir) /\ Succeed
     \/ StartErr(pointer.dir) /\ Fail
  /\ UNCHANGED <<disk, history>>

\* A failed update starts the service it stopped; the outcome is ignored.
Resume ==
  /\ pc = "resume"
  /\ IF job.was
       THEN (pointer.dir \in slots /\ StartedAs(pointer.dir)) \/ StartErr(pointer.dir)
       ELSE UNCHANGED service
  /\ Succeed
  /\ UNCHANGED <<disk, history>>

\* Health, Authenticated and, for an update, Models.
Verify ==
  /\ pc \in {"verify", "undo_verify", "r_verify"}
  /\ \/ running # NoVersion /\ verified' = {running} /\ Succeed
     \/ UNCHANGED verified /\ Fail
  /\ UNCHANGED <<disk, service, before>>

\* os.RemoveAll(finalDir) of an update that gave up.
Discard ==
  /\ pc \in {"discard", "undo_discard"}
  /\ slots' \in {slots, slots \ {job.want}}
  /\ Succeed
  /\ UNCHANGED <<record, pointer, service, history>>

\* recovery.clear at the end of an update; open is already false.
Finish ==
  /\ pc = "finish"
  /\ record' \in {NoRecord, record}
  /\ Goto("idle")
  /\ UNCHANGED <<pointer, slots, service, history>>

-----------------------------------------------------------------------------
(* recover and recoverProxy                                                *)

\* Recovery is over: go on with the update, or return its error.
Recovered == pc' = job.then /\ job' = IF job.then = "idle" THEN NoJob
                                      ELSE [job EXCEPT !.mem = NoRecord, !.then = "idle"]

Mark ==
  /\ pc = "mark"
  /\ \/ record = NoRecord /\ Recovered /\ UNCHANGED record
     \/ /\ record # NoRecord
        /\ record' = [record EXCEPT !.phase = "recovering"]
        /\ pc' = "inspect" /\ job' = [job EXCEPT !.mem = record]
     \/ /\ record' \in {record, IF record = NoRecord THEN NoRecord
                                ELSE [record EXCEPT !.phase = "recovering"]}
        /\ Goto("idle")
  /\ UNCHANGED <<pointer, slots, service, history>>

\* Mutant: a record that says recovering is taken as not started.
MarkedIsQuiet(phase) == phase \notin {"started", "prepared", "recovering"}

\* phaseHasServiceSideEffects
PhaseHasServiceSideEffects(phase) == phase \notin {"started", "prepared"}

\* Where recoverProxy begins, given what it finds; "refused" stands for
\* invalidRecoveryPath and the pointer conflict.
Inspected(mem) ==
  IF ~mem.prepared THEN "r_clear"
  ELSE IF ~mem.old.abs \/ ~mem.new.abs THEN "refused"
  ELSE IF pointer = mem.new THEN "r_stop"
  ELSE IF pointer # mem.old THEN "refused"
  ELSE IF PhaseHasServiceSideEffects(mem.phase) THEN "r_start"
  ELSE "r_clean"

Inspect ==
  /\ pc = "inspect"
  /\ Goto(Inspected(job.mem)) \/ Goto("idle")
  /\ UNCHANGED <<disk, service, history>>

Refused ==
  /\ pc = "refused"
  /\ Goto("idle")
  /\ UNCHANGED <<disk, service, history>>

\* The version directory recovery removes.
Removes(mem) == IF mem.new = mem.old THEN {} ELSE {mem.new.dir}

Clean ==
  /\ pc = "r_clean"
  /\ \/ slots' = slots \ Removes(job.mem) /\ Succeed
     \/ UNCHANGED slots /\ Fail
  /\ UNCHANGED <<record, pointer, service, history>>

Clear ==
  /\ pc = "r_clear"
  /\ \/ record' = NoRecord /\ Recovered
     \/ record' \in {record, NoRecord} /\ Goto("idle")
  /\ UNCHANGED <<pointer, slots, service, history>>

-----------------------------------------------------------------------------
(* External: the process dies; the service dies, or a user starts or stops *)
(* it between two updates.                                                 *)

Crash == pc # "idle" /\ Goto("idle") /\ UNCHANGED <<disk, service, history>>

ServiceChanges ==
  /\ \/ running # NoVersion /\ running' = NoVersion
     \/ pc = "idle" /\ unit \in slots /\ running # unit /\ running' = unit
  /\ before' = "changed"
  /\ UNCHANGED <<disk, unit, seen, pc, job, verified>>

-----------------------------------------------------------------------------
Init ==
  /\ record = NoRecord
  /\ \E v \in Versions, abs \in FirstPointers :
       /\ pointer = Target(v, abs) /\ slots = {v}
       /\ unit = v /\ running \in {v, NoVersion} /\ seen = v
  /\ pc = "idle" /\ job = NoJob
  /\ verified = {} /\ before = "changed"

Update ==
  \/ Attempt \/ ReadPointer \/ BeginRecord \/ Prepare \/ Save \/ SameVersion \/ ReadStatus
  \/ Stop \/ Exists \/ Rename \/ Swap \/ Start \/ Resume \/ Verify \/ Discard \/ Finish

Recovery == Mark \/ Inspect \/ Refused \/ Clean \/ Clear

Next == Update \/ Recovery \/ Crash \/ ServiceChanges

Spec == Init /\ [][Next]_vars
-----------------------------------------------------------------------------
(* Properties                                                              *)

TypeOK ==
  /\ record \in Record \cup {NoRecord}
  /\ pointer \in Targets /\ slots \subseteq Versions
  /\ {unit, running, seen} \subseteq Versions \cup {NoVersion}
  /\ pc \in PCs /\ job \in Jobs
  /\ verified \subseteq Versions /\ before \in {"running", "stopped", "changed"}

\* Without a record nothing is half done: the pointer names a directory that
\* exists, the service definition and state.json name the same version, and no
\* other version runs (engine.go:182, recovery.go:190).
SettledIsConsistent ==
  record = NoRecord =>
    /\ pointer.dir \in slots
    /\ unit = pointer.dir /\ seen = pointer.dir
    /\ running \in {NoVersion, pointer.dir}

\* What recovery needs is there: the pointer is one of the two the record names,
\* so nothing looks like a foreign change, and the version to go back to is on
\* disk and is not the one recovery removes (recovery.go:215, :235).
RecordIsRecoverable ==
  record # NoRecord /\ record.prepared =>
    /\ pointer \in {record.old, record.new}
    /\ record.old.dir \in slots \ {record.new.dir}

\* A cutover that fails or is interrupted can always be rolled back: recoverProxy
\* never rejects the record the update itself has written (recovery.go:197).
RecoveryIsNeverRefused == pc # "refused"

\* A service that was stopped before the update is stopped when the record goes
\* away, and one whose running was recorded runs again, unless something else
\* started or stopped it meanwhile (engine.go:247, recovery.go:231).
ServiceIsRestored ==
  [][record # NoRecord /\ record' = NoRecord =>
       /\ before = "stopped" => running = NoVersion
       /\ before = "running" /\ record.was => running # NoVersion]_vars

\* `update proxy` reports that the requested version is already in use only when
\* it is selected (engine.go:251; router.go "CLIProxyAPI update complete.").
SameVersionIsSelected == pc = "same" => pointer.dir = job.want

\* The update as its user sees it: while a record exists the update has not
\* happened, and clearing the record switches versions or leaves all as it was.
Switch == INSTANCE VersionSwitch WITH
  selected <- IF record # NoRecord /\ record.prepared THEN record.old.dir ELSE pointer.dir,
  installed <- IF record = NoRecord THEN slots ELSE slots \ {record.new.dir},
  verified <- verified

UpdateIsAtomic == Switch!Spec
=============================================================================
