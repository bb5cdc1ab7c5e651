------------------------------ MODULE SelfUpdate ------------------------------
(***************************************************************************)
(* UpdateSelf and its crash recovery: internal/adapter/updater/engine.go,  *)
(* recovery.go, selfactivate_{unix,windows}.go and selfhelper.go.  On Unix *)
(* the updating process replaces its own executable; on Windows it starts  *)
(* a detached helper that does so once the process is gone.                *)
(*                                                                         *)
(* The updating processes exclude each other by the mutation lock; the     *)
(* helpers and other installers do not take it.  Every call may fail at    *)
(* any point of its effect and every process may die at every step.        *)
(* A file's content is the release it holds: its fingerprint and what it   *)
(* answers to `version --short` tell releases apart.  Left out: staging,   *)
(* download and extraction (Prepare is one step), permissions, a candidate *)
(* whose fingerprint cannot be read once it is staged, and the             *)
(* phase of the record, which recoverSelf does not look at.                *)
(***************************************************************************)
CONSTANTS
  Versions,    \* releases of PMux
  None,        \* no file, no fingerprint
  NoRecord,
  Helpers,     \* detached helpers that may run at the same time
  Platforms    \* a subset of {"unix", "windows"}

VARIABLES
  platform,  \* the build, fixed from the start
  exe,       \* content of the executable
  previous,  \* content of <executable>.pmux-previous
  record,    \* .pmux-self-update-pending.json
  status,    \* state of <executable>.pmux-update-status.json
  helper,    \* the helpers: next step and plan
  pc, job,   \* the running update and its local variables
  touched,   \* history: since the last fingerprint another installer changed the
             \* executable, or the helper of an earlier update was still at work
  clashed    \* history: a helper was launched while another was at work

files == <<exe, previous>>
history == <<touched, clashed>>
vars == <<platform, files, record, status, helper, pc, job, history>>

Contents == Versions \cup {None}

\* prepared: CurrentPath is set; hash: CurrentSHA256, cand: CandidateSHA256.
Record == [prepared: BOOLEAN, hash: Contents, cand: Contents, old: Contents, new: Contents]

\* Mutant: a field that is left out stays unset.
Unset == [prepared |-> FALSE]

Started == [prepared |-> FALSE, hash |-> None, cand |-> None, old |-> None, new |-> None]

\* cur: req.CurrentVersion, base: originalHash, want: release.Version, helper: the
\* one launched, then: what follows recovery, undone: activateSelf's rollback was needed.
NoJob == [cur |-> None, base |-> None, want |-> None, helper |-> None, then |-> "idle",
          failed |-> FALSE]

Jobs == [cur: Contents, base: Contents, want: Contents, helper: Helpers \cup {None},
         then: {"hash", "idle"}, failed: BOOLEAN]

PCs == {"idle", "mark", "r_status", "r_active", "r_previous", "r_restore", "r_verify", "r_clear",
        "refused", "hash", "begin", "prepare", "prepared", "same", "preflight", "rehash",
        "activating", "activate", "replace", "postflight", "rollback", "reverify",
        "abandon", "finish"}

Steps == {"none", "wait", "check", "retain", "activate", "verify", "undo_remove", "undo_move",
          "undo_verify", "report"}
States == {"none", "succeeded", "rolled_back", "failed", "interrupted", "conflict"}

NoHelper == [at |-> "none", active |-> None, cur |-> None, next |-> None, state |-> "none"]
HelperStates == [at: Steps, active: Contents, cur: Contents, next: Contents, state: States]

Goto(at) == pc' = at /\ job' = IF at = "idle" THEN NoJob ELSE job

-----------------------------------------------------------------------------
(* recover and recoverSelf                                                 *)

\* A process runs the release it was started from.
Attempt ==
  /\ pc = "idle" /\ exe # None
  /\ pc' = "mark"
  /\ job' = [NoJob EXCEPT !.cur = exe, !.then = "hash"]
  /\ UNCHANGED <<platform, files, record, status, helper, history>>

\* Recovery is over: go on with the update, or return its error.
Recovered == pc' = job.then /\ job' = IF job.then = "idle" THEN NoJob
                                      ELSE [job EXCEPT !.then = "idle"]

Recover ==
  /\ pc = "mark"
  /\ \/ record = NoRecord /\ Recovered
     \/ record # NoRecord /\ Goto(IF ~record.prepared THEN "r_clear"
                                  ELSE IF platform = "windows" THEN "r_status" ELSE "r_active")
     \/ Goto("idle")
  /\ UNCHANGED <<platform, files, record, status, helper, history>>

\* What `version --short` of the executable can be accepted as.
Answers(expected) == exe # None /\ exe = expected

\* On Windows a helper's report of success is believed when the files agree.
ReadStatus ==
  /\ pc = "r_status"
  /\ \/ status = "succeeded" /\ exe = record.cand /\ Answers(record.new) /\ Goto("r_clear")
     \/ Goto("r_active")
  /\ UNCHANGED <<platform, files, record, status, helper, history>>

ReadActive ==
  /\ pc = "r_active"
  /\ \/ exe # None /\ Goto(IF exe = record.hash THEN "r_verify" ELSE "r_previous")
     \/ Goto("idle")
  /\ UNCHANGED <<platform, files, record, status, helper, history>>

\* "refused": Interrupted self-update cannot safely restore the previous executable.
ReadPrevious ==
  /\ pc = "r_previous"
  /\ \/ Goto(IF previous # None /\ previous = record.hash THEN "r_restore" ELSE "refused")
     \/ Goto("idle")
  /\ UNCHANGED <<platform, files, record, status, helper, history>>

Refused ==
  /\ pc = "refused"
  /\ Goto("idle")
  /\ UNCHANGED <<platform, files, record, status, helper, history>>

\* copyFileAtomic writes a temporary file, renames it, syncs the directory.
Copied(from, to) == IF from = None THEN to ELSE from

Restore ==
  /\ pc = "r_restore"
  /\ \/ previous # None /\ exe' = previous /\ Goto("r_verify")
     \/ exe' \in {exe, Copied(previous, exe)} /\ Goto("idle")
  /\ UNCHANGED <<platform, previous, record, status, helper, history>>

\* Postflight of what recovery restored.
Restored(r) == Answers(r.old)

RecoveryVerify ==
  /\ pc = "r_verify"
  /\ \/ Restored(record) /\ Goto("r_clear")
     \/ Goto("idle")
  /\ UNCHANGED <<platform, files, record, status, helper, history>>

RecoveryClear ==
  /\ pc = "r_clear"
  /\ \/ record' = NoRecord /\ Recovered
     \/ record' \in {record, NoRecord} /\ Goto("idle")
  /\ UNCHANGED <<platform, files, status, helper, history>>

-----------------------------------------------------------------------------
(* UpdateSelf.  "mark" is the deferred recover of an open update.          *)

Hash ==
  /\ pc = "hash"
  /\ \/ exe # None /\ pc' = "begin" /\ job' = [job EXCEPT !.base = exe]
     \/ Goto("idle")
  /\ UNCHANGED <<platform, files, record, status, helper, history>>

Begin ==
  /\ pc = "begin"
  /\ \/ record' = Started /\ Goto("prepare")
     \/ record' \in {NoRecord, Started} /\ Goto("idle")
  /\ UNCHANGED <<platform, files, status, helper, history>>

\* Any release may be the latest or the requested one.
Prepare ==
  /\ pc = "prepare"
  /\ \/ \E v \in Versions : pc' = "prepared" /\ job' = [job EXCEPT !.want = v]
     \/ Goto("mark")
  /\ UNCHANGED <<platform, files, record, status, helper, history>>

\* What the two checkpoints write.
Checkpointed(at) ==
  IF at = "prepared" THEN [Started EXCEPT !.prepared = TRUE, !.old = job.cur, !.new = job.want]
  ELSE [record EXCEPT !.hash = job.base, !.cand = job.want]

Save ==
  /\ pc \in {"prepared", "activating"}
  /\ \/ /\ record' = Checkpointed(pc)
        /\ Goto(IF pc = "activating" THEN "activate"
                ELSE IF job.want = job.cur THEN "same" ELSE "preflight")
     \/ record' \in {record, Checkpointed(pc)} /\ Goto("mark")
  /\ UNCHANGED <<platform, files, status, helper, history>>

\* The candidate's version, checked before it is activated.
Preflight ==
  /\ pc = "preflight"
  /\ Goto("rehash") \/ Goto("mark")
  /\ UNCHANGED <<platform, files, record, status, helper, history>>

Rehash ==
  /\ pc = "rehash"
  /\ \/ /\ exe = job.base /\ Goto("activating")
        /\ touched' = \E h \in Helpers : helper[h].at # "none"
     \/ Goto("mark") /\ UNCHANGED touched
  /\ UNCHANGED <<platform, files, record, status, helper, clashed>>

\* The same release, a failed activation: the error of clear is ignored.
\* A finished update returns it.
Clear ==
  /\ pc \in {"same", "abandon", "finish"}
  /\ record' \in {NoRecord, record}
  /\ Goto("idle")
  /\ UNCHANGED <<platform, files, status, helper, history>>

-----------------------------------------------------------------------------
(* activateSelf and rollbackSelf on Unix                                   *)

Retain ==
  /\ platform = "unix" /\ pc = "activate"
  /\ \/ exe # None /\ previous' = exe /\ Goto("replace")
     \/ previous' \in {previous, Copied(exe, previous)} /\ Goto("abandon")
  /\ UNCHANGED <<platform, exe, record, status, helper, history>>

Replace ==
  /\ pc = "replace"
  /\ \/ exe' = job.want /\ Goto("postflight")
     \/ UNCHANGED exe /\ Goto("abandon")
  /\ UNCHANGED <<platform, previous, record, status, helper, history>>

\* Mutant: an executable that fails its verification is reported, not rolled back.
ReportOnly == Goto("abandon")

PostflightErr == Goto("rollback")

Postflight ==
  /\ pc = "postflight"
  /\ \/ Answers(job.want) /\ Goto("finish")
     \/ PostflightErr
  /\ UNCHANGED <<platform, files, record, status, helper, history>>

\* Postflight of what rollbackSelf restored.
RolledBack == Answers(job.cur)

Rollback ==
  /\ pc = "rollback"
  /\ \/ previous # None /\ exe' = previous /\ Goto("reverify")
     \/ /\ exe' \in {exe, Copied(previous, exe)}
        /\ pc' = "abandon" /\ job' = [job EXCEPT !.failed = TRUE]
  /\ UNCHANGED <<platform, previous, record, status, helper, history>>

Reverify ==
  /\ pc = "reverify"
  /\ \/ RolledBack /\ Goto("abandon")
     \/ pc' = "abandon" /\ job' = [job EXCEPT !.failed = TRUE]
  /\ UNCHANGED <<platform, files, record, status, helper, history>>

-----------------------------------------------------------------------------
(* activateSelf on Windows and the detached helper                         *)

\* The staged copies of the candidate are fingerprinted into the plan.
Launch(h) ==
  /\ platform = "windows" /\ pc = "activate" /\ helper[h].at = "none"
  /\ helper' = [helper EXCEPT ![h] = [NoHelper EXCEPT
       !.at = "wait", !.active = job.base, !.cur = job.cur, !.next = job.want]]
  /\ pc' = "finish" /\ job' = [job EXCEPT !.helper = h]
  /\ clashed' = (clashed \/ \E g \in Helpers : helper[g].at # "none")
  /\ UNCHANGED <<platform, files, record, status, touched>>

LaunchErr ==
  /\ platform = "windows" /\ pc = "activate"
  /\ Goto("abandon")
  /\ UNCHANGED <<platform, files, record, status, helper, history>>

To(h, at) == helper' = [helper EXCEPT ![h].at = at]
Report(h, state) == helper' = [helper EXCEPT ![h].at = "report", ![h].state = state]

\* WaitParent: the process that started the helper is gone.
WaitParent(h) ==
  /\ helper[h].at = "wait"
  /\ \/ job.helper # h /\ To(h, "check")
     \/ Report(h, "interrupted")
  /\ UNCHANGED files

CheckActive(h) ==
  /\ helper[h].at = "check"
  /\ IF exe = helper[h].active THEN To(h, "retain") ELSE Report(h, "conflict")
  /\ UNCHANGED files

\* Mutant: the active executable is deleted to make room.
MakeRoom == exe' = None /\ UNCHANGED previous

\* MoveReplace(ActivePath, PreviousPath)
MoveAside == previous' = exe /\ exe' = None

RetainActive(h) ==
  /\ helper[h].at = "retain"
  /\ \/ exe # None /\ MoveAside /\ To(h, "activate")
     \/ UNCHANGED files /\ Report(h, "failed")

\* The context may end before the staged replacement is moved into place.
Activate(h) ==
  /\ helper[h].at = "activate"
  /\ \/ exe' = helper[h].next /\ To(h, "verify")
     \/ UNCHANGED exe /\ To(h, "undo_remove")
  /\ UNCHANGED previous

VerifyNext(h) ==
  /\ helper[h].at = "verify"
  /\ \/ Answers(helper[h].next) /\ Report(h, "succeeded")
     \/ To(h, "undo_remove")
  /\ UNCHANGED files

\* rollback ignores the error of Remove.
UndoRemove(h) ==
  /\ helper[h].at = "undo_remove"
  /\ exe' \in {exe, None} /\ To(h, "undo_move")
  /\ UNCHANGED previous

\* An interrupted update that cannot be rolled back stays interrupted.
Unrestored(h) == \E state \in {"failed", "interrupted"} : Report(h, state)

UndoMove(h) ==
  /\ helper[h].at = "undo_move"
  /\ \/ previous # None /\ exe' = previous /\ previous' = None /\ To(h, "undo_verify")
     \/ UNCHANGED files /\ Unrestored(h)

UndoVerify(h) ==
  /\ helper[h].at = "undo_verify"
  /\ \/ Answers(helper[h].cur) /\ Report(h, "rolled_back")
     \/ Unrestored(h)
  /\ UNCHANGED files

HelperMoves(h) ==
  /\ \/ WaitParent(h) \/ CheckActive(h) \/ RetainActive(h) \/ Activate(h) \/ VerifyNext(h)
     \/ UndoRemove(h) \/ UndoMove(h) \/ UndoVerify(h)
  /\ UNCHANGED <<platform, record, status, pc, job, history>>

\* finish: write the status, clean up.
HelperEnds(h) ==
  /\ helper[h].at = "report"
  /\ status' \in {status, helper[h].state}
  /\ helper' = [helper EXCEPT ![h] = NoHelper]
  /\ UNCHANGED <<platform, files, record, pc, job, history>>

-----------------------------------------------------------------------------
(* External: processes die; another installer puts a release in place.     *)

Crash ==
  /\ pc # "idle" /\ Goto("idle")
  /\ UNCHANGED <<platform, files, record, status, helper, history>>

HelperCrash(h) ==
  /\ helper[h].at # "none"
  /\ helper' = [helper EXCEPT ![h] = NoHelper]
  /\ UNCHANGED <<platform, files, record, status, pc, job, history>>

Reinstall ==
  /\ exe' \in Versions /\ touched' = TRUE
  /\ UNCHANGED <<platform, previous, record, status, helper, pc, job, clashed>>

-----------------------------------------------------------------------------
Init ==
  /\ platform \in Platforms
  /\ exe \in Versions /\ previous = None
  /\ record = NoRecord /\ status = "none"
  /\ helper = [h \in Helpers |-> NoHelper]
  /\ pc = "idle" /\ job = NoJob /\ touched = FALSE /\ clashed = FALSE

Recovery ==
  \/ Recover \/ ReadStatus \/ ReadActive \/ ReadPrevious \/ Refused \/ Restore
  \/ RecoveryVerify \/ RecoveryClear

Update ==
  \/ Attempt \/ Hash \/ Begin \/ Prepare \/ Save \/ Preflight \/ Rehash \/ Clear
  \/ Retain \/ Replace \/ Postflight \/ Rollback \/ Reverify
  \/ LaunchErr \/ \E h \in Helpers : Launch(h)

Next ==
  \/ Recovery \/ Update \/ Crash \/ Reinstall
  \/ \E h \in Helpers : HelperMoves(h) \/ HelperEnds(h) \/ HelperCrash(h)

Spec == Init /\ [][Next]_vars
-----------------------------------------------------------------------------
(* Properties                                                              *)

TypeOK ==
  /\ platform \in Platforms
  /\ {exe, previous} \subseteq Contents
  /\ record \in Record \cup {NoRecord}
  /\ status \in States
  /\ helper \in [Helpers -> HelperStates]
  /\ pc \in PCs /\ job \in Jobs
  /\ touched \in BOOLEAN /\ clashed \in BOOLEAN

\* Whatever fails or dies, and whoever else replaces the executable meanwhile, PMux is not
\* deleted, the executable or the retained one is there, as long as no helper was launched
\* beside another.  Helpers hold no lock, and two of them can delete both: the one moves
\* the retained executable back, the other removes it (selfhelper.go:108, :113).
ExecutableSurvives == clashed \/ exe # None \/ previous # None

\* A record that holds a fingerprint is enough to go back: the release with that
\* fingerprint is the executable or the retained one, unless another installer or
\* the helper of an earlier update interferes (engine.go:144, recovery.go:266).
\* On Unix recovery drops the record of an update only when the executable is the
\* one from before the update, at the version it was (recovery.go:280).
FingerprintIsKept == record # NoRecord /\ record.hash # None => record.hash \in {exe, previous}
RecoveredIsOld == platform = "unix" /\ pc = "r_clear" /\ record.prepared =>
                    exe = record.old /\ exe = record.hash
RecordRestorable == ~touched => FingerprintIsKept /\ RecoveredIsOld

\* On Unix an update that succeeds runs the release asked for and keeps the one it
\* replaced; one that fails leaves the executable alone or, unless it says that its
\* rollback failed, has put it back (docs/security.md:56, selfactivate_unix.go:14).
ReportIsTrue ==
  platform = "unix" /\ ~touched =>
    /\ pc = "finish" => exe = job.want /\ previous = job.base
    /\ pc = "abandon" /\ ~job.failed => exe = job.base

\* recoverSelf says that it cannot restore the previous executable only when the
\* executable has been replaced (recovery.go:273).
RefusedOnlyIfReplaced == pc = "refused" => exe # record.old
=============================================================================
