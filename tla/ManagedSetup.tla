---------------------------- MODULE ManagedSetup ----------------------------
(***************************************************************************)
(* Managed setup: nativeRuntime.managed and NewNative of internal/runtime/ *)
(* runtime.go on the installer of internal/adapter/installer (installer.go *)
(* and recovery.go).                                                       *)
(*                                                                         *)
(* A setup runs under the mutation lock and keeps a record of how far it   *)
(* has come; when a call fails the runtime undoes its effects and then the *)
(* installer recovers the record.  Every PMux process recovers a record it *)
(* finds when it starts, without the lock.  Processes may die at any step  *)
(* and every call may fail, before, in or after its effect.                *)
(*                                                                         *)
(* Left out: the contents of files (all are written anew by each setup),   *)
(* release lookup, permissions, and adopted installations.  The cache root *)
(* is never inside the data root (platform_linux.go:29, platform_darwin.go,*)
(* platform_windows.go:29).                                                *)
(***************************************************************************)
EXTENDS MutationLock, Naturals, Sequences, TLC

CONSTANTS
  Procs,
  NoRecord,
  MaxSetups    \* bound on the setups that get as far as a staging directory

VARIABLES
  record,      \* .install-pending.json
  setups,      \* number of staging directories made; the last is in use
  staged,      \* what the last staging directory holds
  slot, pointer,          \* versions/<default version> exists; `current` names it
  files,       \* private files and directories of the instance
  installed, referenced,  \* state.json has the installation, secrets.json its key
  unit, running,          \* the service definition exists; the service runs
  pc, job,     \* the running command of each process and its local variables
  kept,        \* history: a call that failed kept its effect, or an undo failed
  disturbed    \* history: a recovery ran during another setup, or from a record
               \* that was no longer the one on disk

disk == <<record, setups, staged, slot, pointer, files>>
state == <<installed, referenced>>
service == <<unit, running>>
history == <<kept, disturbed>>
vars == <<lock, disk, state, service, pc, job, history>>

InstanceFiles == {"root", "sidecar", "config"}
Files == InstanceFiles \cup {"management", "backup"}
Early == {"planned", "downloading", "downloaded"}
Stages == Early \cup {"verified", "extracting", "extracted", "config", "service"}

\* partial, asset, extract: the record names the partial download, the archive and
\* the extraction directory, all in staging directory `dir`.
Record == [stage: Stages, dir: 0..MaxSetups, partial: BOOLEAN, asset: BOOLEAN,
           extract: BOOLEAN, config: BOOLEAN, service: BOOLEAN]

Planned == [stage |-> "planned", dir |-> setups, partial |-> FALSE, asset |-> FALSE,
            extract |-> FALSE, config |-> FALSE, service |-> FALSE]

\* Mutant: the record is cleared before the state is saved.
CompletesEarly ==
         <<"load", "begin", "d_record", "d_file", "d_commit", "d_done", "verify",
           "x_record", "x_file", "x_done", "slot", "pointer", "layout", "sidecar",
           "management", "config", "backup", "ck_config", "complete", "state", "refs",
           "ck_service", "install", "start", "status", "done">>

\* The order of the calls in managed, of its undo, and of Recover.
Setup == <<"load", "begin", "d_record", "d_file", "d_commit", "d_done", "verify",
           "x_record", "x_file", "x_done", "slot", "pointer", "layout", "sidecar",
           "management", "config", "backup", "ck_config", "state", "refs", "ck_service",
           "install", "start", "status", "complete", "done">>
Undo == <<"u_stop", "u_uninstall", "u_state", "u_refs", "u_files", "u_pointer", "r_read">>
Recovery == <<"r_read", "r_service", "r_config", "r_extract", "r_partial", "r_asset",
              "r_clear">>

StepsOf(seq) == {seq[i] : i \in DOMAIN seq}
PCs == StepsOf(Setup) \cup StepsOf(Undo) \cup StepsOf(Recovery)
         \cup {"off", "ready", "already", "failed", "refused"}

\* mem: the record Recover read; then: where Recover returns to; service:
\* serviceInstalled; created: createdVersion; refs, prev: previousRefs,
\* previousCurrent.
NoJob == [mem |-> NoRecord, then |-> "ready", service |-> FALSE, created |-> FALSE,
          refs |-> FALSE, prev |-> FALSE]

Jobs == [mem: Record \cup {NoRecord}, then: {"ready", "load", "failed"}, service: BOOLEAN,
         created: BOOLEAN, refs: BOOLEAN, prev: BOOLEAN]

-----------------------------------------------------------------------------
(* Control flow                                                            *)

After(seq, at) == seq[1 + (CHOOSE i \in DOMAIN seq : seq[i] = at)]
Before(seq, at, limit) ==
  \E i, j \in DOMAIN seq : seq[i] = at /\ seq[j] = limit /\ i < j

Goto(p, at) == pc' = [pc EXCEPT ![p] = at]

\* Mutant: the undo is registered only after the instance has been written.
UndoesLate(p) ==
  IF pc[p] \in {"load", "begin"} THEN "failed"
  ELSE IF Before(Setup, pc[p], "ck_config") THEN "r_read"
  ELSE IF job[p].service THEN "u_stop" ELSE "u_state"

\* The deferred functions that have been registered when a call of managed fails.
OnError(p) ==
  IF pc[p] \in {"load", "begin"} THEN "failed"
  ELSE IF Before(Setup, pc[p], "layout") THEN "r_read"
  ELSE IF job[p].service THEN "u_stop" ELSE "u_state"

Ok(p) == Goto(p, After(Setup, pc[p]))
Err(p) == Goto(p, OnError(p))

Keeps(what) == kept' = (kept \/ what)

-----------------------------------------------------------------------------
(* The start of a process and of a command                                 *)

\* NewNative recovers before anything else, and takes no lock for it.
Start(p) ==
  /\ pc[p] = "off"
  /\ Goto(p, "r_read")
  /\ UNCHANGED <<lock, disk, state, service, job, history>>

\* `setup` under the mutation lock; managed recovers first.
Command(p) ==
  /\ pc[p] = "ready"
  /\ TryAcquireOk(p)
  /\ Goto(p, "r_read")
  /\ job' = [job EXCEPT ![p].then = "load"]
  /\ UNCHANGED <<disk, state, service, history>>

\* LoadState, LoadSecretReferences and a new staging directory.
Load(p) ==
  /\ pc[p] = "load"
  /\ \/ /\ installed /\ Goto(p, "already") /\ UNCHANGED <<disk, job>>
     \/ /\ ~installed /\ setups < MaxSetups
        /\ Ok(p)
        /\ job' = [job EXCEPT ![p] = [NoJob EXCEPT !.then = "failed", !.refs = referenced]]
        /\ setups' = setups + 1 /\ staged' = {}
        /\ UNCHANGED <<record, slot, pointer, files>>
     \/ Goto(p, "failed") /\ UNCHANGED <<disk, job>>
  /\ UNCHANGED <<lock, state, service, history>>

\* The lock goes back; a setup that began removes its staging directory.
End(p) ==
  /\ pc[p] \in {"done", "already", "failed"}
  /\ Release(p)
  /\ Goto(p, "ready") /\ job' = [job EXCEPT ![p] = NoJob]
  /\ staged' = IF job[p].then = "failed" THEN {} ELSE staged
  /\ UNCHANGED <<record, setups, slot, pointer, files, state, service, history>>

Exit(p) ==
  /\ pc[p] = "ready" /\ Goto(p, "off")
  /\ UNCHANGED <<lock, disk, state, service, job, history>>

Crash(p) ==
  /\ pc[p] \notin {"off", "ready"}
  /\ Abandon(p)
  /\ Goto(p, "off") /\ job' = [job EXCEPT ![p] = NoJob]
  /\ UNCHANGED <<disk, state, service, history>>

-----------------------------------------------------------------------------
(* Download, extraction and activation                                     *)

\* updateRecovery makes a new record when there is none.
Base == IF record = NoRecord THEN Planned ELSE record

Checkpoints == {"d_record", "d_done", "verify", "x_record", "x_done", "ck_config", "ck_service"}

Checkpointed(at) ==
  CASE at = "d_record" -> [Base EXCEPT !.stage = "downloading", !.dir = setups,
                                       !.partial = TRUE, !.asset = TRUE]
    [] at = "d_done" -> [Base EXCEPT !.stage = "downloaded", !.partial = FALSE]
    [] at = "verify" -> [Base EXCEPT !.stage = "verified", !.asset = TRUE]
    [] at = "x_record" -> [Base EXCEPT !.stage = "extracting", !.extract = TRUE]
    [] at = "x_done" -> [Base EXCEPT !.stage = "extracted"]
    [] at = "ck_config" -> [Base EXCEPT !.stage = "config", !.config = TRUE]
    [] at = "ck_service" -> [Base EXCEPT !.stage = "service", !.service = TRUE]

\* What a failed checkpoint takes back: Download its archive, Extract its output.
Discarded(at) == CASE at = "d_done" -> {"asset"} [] at = "x_done" -> {"binary"} [] OTHER -> {}

\* BeginSetup refuses while a record exists.
Begin(p) ==
  /\ pc[p] = "begin"
  /\ \/ record = NoRecord /\ record' = Planned /\ Ok(p)
     \/ record' \in {record, Base} /\ Err(p)
  /\ UNCHANGED <<lock, setups, staged, slot, pointer, files, state, service, job, history>>

Checkpoint(p) ==
  /\ pc[p] \in Checkpoints
  /\ \/ /\ pc[p] \in {"verify", "x_record"} => "asset" \in staged
        /\ record' = Checkpointed(pc[p])
        /\ Ok(p) /\ UNCHANGED staged
     \/ /\ record' \in {record, Checkpointed(pc[p])}
        /\ staged' = staged \ Discarded(pc[p])
        /\ Err(p)
  /\ UNCHANGED <<lock, setups, slot, pointer, files, state, service, job, history>>

\* The partial file, its rename, and the extraction.
Stage(p) ==
  /\ pc[p] \in {"d_file", "d_commit", "x_file"}
  /\ \/ /\ staged' = CASE pc[p] = "d_file" -> staged \cup {"partial"}
                       [] pc[p] = "d_commit" -> (staged \ {"partial"}) \cup {"asset"}
                       [] pc[p] = "x_file" -> staged \cup {"binary"}
        /\ pc[p] = "d_commit" => "partial" \in staged
        /\ pc[p] = "x_file" => "asset" \in staged
        /\ Ok(p)
     \/ staged' = staged \ {"partial", "binary"} /\ Err(p)
  /\ UNCHANGED <<lock, record, setups, slot, pointer, files, state, service, job, history>>

\* Install: the version directory, unless it is there already ...
Slot(p) ==
  /\ pc[p] = "slot"
  /\ \/ /\ "binary" \in staged
        /\ slot' = TRUE /\ job' = [job EXCEPT ![p].created = ~slot]
        /\ Ok(p)
     \/ Err(p) /\ UNCHANGED <<slot, job>>
  /\ UNCHANGED <<lock, record, setups, staged, pointer, files, state, service, history>>

\* ... and the pointer.  A link that was renamed but not flushed stays, and the
\* version it names is removed.
Pointer(p) ==
  /\ pc[p] = "pointer"
  /\ \/ /\ pointer' = TRUE /\ job' = [job EXCEPT ![p].prev = pointer]
        /\ Ok(p) /\ UNCHANGED <<slot, kept>>
     \/ /\ pointer' \in {pointer, TRUE}
        /\ slot' = (slot /\ ~job[p].created)
        /\ Keeps(pointer' # pointer)
        /\ Err(p) /\ UNCHANGED job
  /\ UNCHANGED <<lock, record, setups, staged, files, state, service, disturbed>>

-----------------------------------------------------------------------------
(* The instance, its state and its service                                 *)

Writes == {"layout", "sidecar", "management", "config", "backup"}

\* Mutant: the layout is written under the wrong name.
WrittenAsNamed(at) == {at}

\* The directory layout, or the file of that name.
Written(at) == {IF at = "layout" THEN "root" ELSE at}

Write(p) ==
  /\ pc[p] \in Writes
  /\ \/ files' = files \cup Written(pc[p]) /\ Ok(p)
     \/ files' \in {files, files \cup Written(pc[p])} /\ Err(p)
  /\ UNCHANGED <<lock, record, setups, staged, slot, pointer, state, service, job, history>>

\* SaveState needs the hash of the installed binary.
SaveState(p) ==
  /\ pc[p] = "state"
  /\ \/ slot /\ installed' = TRUE /\ Ok(p)
     \/ installed' \in {installed, TRUE} /\ Err(p)
  /\ UNCHANGED <<lock, disk, referenced, service, job, history>>

SaveReferences(p) ==
  /\ pc[p] = "refs"
  /\ \/ referenced' = TRUE /\ Ok(p)
     \/ referenced' \in {referenced, TRUE} /\ Err(p)
  /\ UNCHANGED <<lock, disk, installed, service, job, history>>

\* A definition that was written by an Install that then failed is not removed.
InstallService(p) ==
  /\ pc[p] = "install"
  /\ \/ unit' = TRUE /\ job' = [job EXCEPT ![p].service = TRUE] /\ Ok(p) /\ UNCHANGED kept
     \/ /\ unit' \in {unit, TRUE}
        /\ Keeps(unit' # unit)
        /\ Err(p) /\ UNCHANGED job
  /\ UNCHANGED <<lock, disk, state, running, disturbed>>

\* Start waits for health; a service that does not become healthy may run on.
StartService(p) ==
  /\ pc[p] = "start"
  /\ \/ unit /\ running' = TRUE /\ Ok(p)
     \/ running' \in {running, running \/ unit} /\ Err(p)
  /\ UNCHANGED <<lock, disk, state, unit, job, history>>

CheckStatus(p) ==
  /\ pc[p] = "status"
  /\ \/ unit /\ running /\ Ok(p)
     \/ Err(p)
  /\ UNCHANGED <<lock, disk, state, service, job, history>>

\* The record may be gone although Complete reports an error; an undo that then
\* crashes is forgotten.
Complete(p) ==
  /\ pc[p] = "complete"
  /\ \/ record' = NoRecord /\ Ok(p) /\ UNCHANGED kept
     \/ /\ record' \in {record, NoRecord}
        /\ Keeps(record' # record)
        /\ Err(p)
  /\ UNCHANGED <<lock, setups, staged, slot, pointer, files, state, service, job, disturbed>>

-----------------------------------------------------------------------------
(* The deferred undo; its errors are ignored                               *)

Undone(p) == Goto(p, After(Undo, pc[p])) /\ UNCHANGED <<lock, job, disturbed>>

UndoService(p) ==
  /\ pc[p] \in {"u_stop", "u_uninstall"}
  /\ \/ running' = FALSE /\ unit' = (unit /\ pc[p] = "u_stop") /\ UNCHANGED kept
     \/ /\ running' \in {running, FALSE}
        /\ unit' \in {unit, unit /\ pc[p] = "u_stop"}
        /\ Keeps(pc[p] = "u_uninstall")
  /\ Undone(p)
  /\ UNCHANGED <<disk, state>>

UndoState(p) ==
  /\ pc[p] = "u_state"
  /\ \/ installed' = FALSE /\ UNCHANGED kept
     \/ installed' \in {installed, FALSE} /\ Keeps(TRUE)
  /\ Undone(p)
  /\ UNCHANGED <<disk, referenced, service>>

UndoReferences(p) ==
  /\ pc[p] = "u_refs"
  /\ \/ referenced' = job[p].refs /\ UNCHANGED kept
     \/ referenced' \in {referenced, job[p].refs} /\ Keeps(TRUE)
  /\ Undone(p)
  /\ UNCHANGED <<disk, installed, service>>

\* RemoveAll of the instance; the management key lies elsewhere and stays.
UndoFiles(p) ==
  /\ pc[p] = "u_files"
  /\ \/ files' = files \ InstanceFiles /\ UNCHANGED kept
     \/ files' \in {files \ gone : gone \in SUBSET {"sidecar", "config"}} /\ Keeps(TRUE)
  /\ Undone(p)
  /\ UNCHANGED <<record, setups, staged, slot, pointer, state, service>>

\* Rollback.
UndoPointer(p) ==
  /\ pc[p] = "u_pointer"
  /\ \/ pointer' = job[p].prev /\ UNCHANGED kept
     \/ pointer' \in {pointer, job[p].prev} /\ Keeps(TRUE)
  /\ Undone(p)
  /\ UNCHANGED <<record, setups, staged, slot, files, state, service>>

-----------------------------------------------------------------------------
(* Recover.  Nothing ever sets its Activated and CreatedVersion.           *)

Proceed(p) == Goto(p, After(Recovery, pc[p]))

\* Recover ends: the process is ready, the setup goes on, or the deferred call is over.
Recovered(p) == Goto(p, job[p].then) /\ job' = [job EXCEPT ![p].mem = NoRecord]

\* NewNative fails, and so does managed.
GiveUp(p) ==
  /\ Goto(p, IF job[p].then = "ready" THEN "off" ELSE "failed")
  /\ job' = [job EXCEPT ![p].mem = NoRecord]

Interferes(p) ==
  disturbed' = (disturbed \/ lock \notin {p, NoProc} \/ record # job[p].mem)

ReadRecord(p) ==
  /\ pc[p] = "r_read"
  /\ \/ record = NoRecord /\ Recovered(p)
     \/ record # NoRecord /\ Proceed(p) /\ job' = [job EXCEPT ![p].mem = record]
     \/ GiveUp(p)
  /\ UNCHANGED <<lock, disk, state, service, history>>

\* restoreManagedServiceCheckpoint finds the service by the installation in state.json.
RestoreService(p) ==
  /\ pc[p] = "r_service"
  /\ \/ job[p].mem.service /\ installed /\ unit' = FALSE /\ running' = FALSE /\ Proceed(p)
        /\ UNCHANGED job
     \/ ~(job[p].mem.service /\ installed) /\ Proceed(p) /\ UNCHANGED <<service, job>>
     \/ /\ job[p].mem.service /\ GiveUp(p)
        /\ unit' \in {unit, unit /\ ~installed}
        /\ running' \in {running, running /\ ~installed}
  /\ Interferes(p)
  /\ UNCHANGED <<lock, disk, state, kept>>

\* restoreExactFile needs the backup and the directory of the target.
RestoreConfig(p) ==
  /\ pc[p] = "r_config"
  /\ \/ ~job[p].mem.config /\ Proceed(p) /\ UNCHANGED <<files, job>>
     \/ /\ job[p].mem.config /\ {"root", "backup"} \subseteq files
        /\ \/ files' = files \cup {"config"} /\ Proceed(p) /\ UNCHANGED job
           \/ files' \in {files, files \cup {"config"}} /\ GiveUp(p)
     \/ /\ job[p].mem.config /\ ~({"root", "backup"} \subseteq files)
        /\ Goto(p, "refused") /\ UNCHANGED <<files, job>>
  /\ Interferes(p)
  /\ UNCHANGED <<lock, record, setups, staged, slot, pointer, state, service, kept>>

\* removeManagedPath accepts paths below the data root; the extraction directory is
\* below the cache root.
RemoveExtract(p) ==
  /\ pc[p] = "r_extract"
  /\ IF job[p].mem.extract THEN Goto(p, "refused") ELSE Proceed(p)
  /\ Interferes(p)
  /\ UNCHANGED <<lock, disk, state, service, job, kept>>

\* An archive that was verified is kept.
Removed(p) ==
  IF pc[p] = "r_partial" THEN IF job[p].mem.partial THEN {"partial"} ELSE {}
  ELSE IF job[p].mem.asset /\ job[p].mem.stage \in Early THEN {"asset"} ELSE {}

RemoveDownload(p) ==
  /\ pc[p] \in {"r_partial", "r_asset"}
  /\ \/ /\ staged' = IF job[p].mem.dir = setups THEN staged \ Removed(p) ELSE staged
        /\ Proceed(p) /\ UNCHANGED job
     \/ Removed(p) # {} /\ GiveUp(p) /\ UNCHANGED staged
  /\ Interferes(p)
  /\ UNCHANGED <<lock, record, setups, slot, pointer, files, state, service, kept>>

ClearRecord(p) ==
  /\ pc[p] = "r_clear"
  /\ \/ record' = NoRecord /\ Recovered(p)
     \/ record' \in {record, NoRecord} /\ GiveUp(p)
  /\ Interferes(p)
  /\ UNCHANGED <<lock, setups, staged, slot, pointer, files, state, service, kept>>

\* The record is one that Recover cannot carry out; it stays.
Refused(p) ==
  /\ pc[p] = "refused"
  /\ GiveUp(p)
  /\ UNCHANGED <<lock, disk, state, service, history>>

-----------------------------------------------------------------------------
Init ==
  /\ LockInit
  /\ record = NoRecord /\ setups = 0 /\ staged = {}
  /\ slot = FALSE /\ pointer = FALSE /\ files = {}
  /\ installed = FALSE /\ referenced = FALSE
  /\ unit = FALSE /\ running = FALSE
  /\ pc = [p \in Procs |-> "off"] /\ job = [p \in Procs |-> NoJob]
  /\ kept = FALSE /\ disturbed = FALSE

Step(p) ==
  \/ Start(p) \/ Command(p) \/ Load(p) \/ End(p) \/ Exit(p) \/ Crash(p)
  \/ Begin(p) \/ Checkpoint(p) \/ Stage(p) \/ Slot(p) \/ Pointer(p)
  \/ Write(p) \/ SaveState(p) \/ SaveReferences(p)
  \/ InstallService(p) \/ StartService(p) \/ CheckStatus(p) \/ Complete(p)
  \/ UndoService(p) \/ UndoState(p) \/ UndoReferences(p) \/ UndoFiles(p) \/ UndoPointer(p)
  \/ ReadRecord(p) \/ RestoreService(p) \/ RestoreConfig(p) \/ RemoveExtract(p)
  \/ RemoveDownload(p) \/ ClearRecord(p) \/ Refused(p)

Next == \E p \in Procs : Step(p)

Spec == Init /\ [][Next]_vars

\* Nothing is claimed of what follows a disturbance: the runs stop there.
Undisturbed == ~disturbed

\* The processes are interchangeable.
Interchangeable == Permutations(Procs)
-----------------------------------------------------------------------------
(* Properties                                                              *)

TypeOK ==
  /\ lock \in Procs \cup {NoProc}
  /\ record \in Record \cup {NoRecord} /\ setups \in 0..MaxSetups
  /\ staged \subseteq {"partial", "asset", "binary"}
  /\ {slot, pointer, installed, referenced, unit, running, kept, disturbed}
       \subseteq BOOLEAN
  /\ files \subseteq Files
  /\ pc \in [Procs -> PCs] /\ job \in [Procs -> Jobs]

Whole ==
  /\ slot /\ pointer /\ installed /\ referenced /\ unit
  /\ InstanceFiles \cup {"management"} \subseteq files

\* A setup that reports success has left a complete installation: the selected
\* version, the instance, both records and the service, and no pending record
\* (runtime.go:344).
SuccessIsWhole ==
  \A p \in Procs : pc[p] = "done" /\ ~disturbed => Whole /\ record = NoRecord

\* A setup that began and reports a failure has left no installation in state.json, no
\* reference, no instance, no pointer and no service, unless the failed call itself or
\* a call of the undo could not take its effect back (runtime.go:243).
FailureIsUndone ==
  \A p \in Procs : pc[p] = "failed" /\ job[p].then = "failed" /\ ~kept /\ ~disturbed =>
    ~installed /\ ~referenced /\ ~pointer /\ ~unit /\ ~running /\ files \cap InstanceFiles = {}

\* What a setup reports is what it has left.
SetupIsAllOrNothing == SuccessIsWhole /\ FailureIsUndone

\* While no setup runs, an installation without a pending record is complete, and without
\* an installation and a record there is no service and no reference: a setup that was
\* interrupted is never forgotten (recovery.go:78).
UnfinishedIsRecorded ==
  record = NoRecord /\ lock = NoProc /\ ~kept /\ ~disturbed =>
    IF installed THEN Whole ELSE ~unit /\ ~running /\ ~referenced

\* An interrupted setup can be rolled back: Recover never meets a record of a setup that
\* it cannot carry out, now or later (recovery.go:156).
RecoveryIsNeverRefused == \A p \in Procs : pc[p] # "refused"
=============================================================================
