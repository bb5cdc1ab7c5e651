----------------------------- MODULE ConfigFile -----------------------------
(***************************************************************************)
(* config.yaml of the proxy and the commands that change it:               *)
(* internal/adapter/configfile/configfile.go (Read, Plan, Apply),          *)
(* internal/runtime/config_edit.go (Edit), Restore and the safe-mode fix   *)
(* of internal/runtime/runtime.go, run by internal/adapter/doctor/fix.go.  *)
(*                                                                         *)
(* One command runs at a time (the mutation lock); the proxy, its panel    *)
(* and the user's editor write the file whenever they like.  Every call    *)
(* may fail at any point of its effect and PMux may die at every step.     *)
(* A content is what the commands tell apart: its proxy key, the other     *)
(* supported settings, and the rest (unknown settings, comments).          *)
(***************************************************************************)
EXTENDS Naturals

CONSTANTS
  Keys,        \* proxy keys
  Template,    \* a key that IsTemplateAPIKey reports
  NoKey,       \* no sidecar file
  Options,     \* values of the other supported settings
  Rests,       \* values of everything else
  Broken,      \* a file that does not parse
  MaxForeign   \* bound: changes by other writers while a command runs

VARIABLES
  file,      \* content of config.yaml
  managed,   \* the installation has its key in api-key.txt too, an adopted one has not
  sidecar,   \* content of api-key.txt
  ref,       \* the key whose fingerprint state.json records
  backup,    \* content of the newest backup, the one that a restore names
  pc, job,   \* the running command and its local variables
  foreign,   \* number of changes by other writers since the command began
  theirs,    \* history: the file as the last other writer or finished command left it
  unseen,    \* history: another writer changed the file after the command compared it
  refused,   \* history: Apply reported a conflict
  recorded,  \* history: ref when the command began
  slip       \* history: what holds a write that failed after its rename, unnoticed

vars == <<file, managed, sidecar, ref, backup, pc, job, foreign, theirs, unseen, refused, recorded, slip>>
history == <<managed, foreign, theirs, recorded>>

Valid == [key: Keys, opt: Options, rest: Rests]
Contents == Valid \cup {Broken}

Kinds == {"set", "harden", "edit", "restore", "fix"}
Results == {"none", "ok", "failed", "mixed"}

\* base: what the change was made for; snap, want: Snapshot and Rendered of the plan,
\* edited: the editor's copy; orig, origKey, origRef, changed, saved: fields of
\* safeModeFix.
NoJob == [kind |-> "none", base |-> Broken, snap |-> Broken, want |-> Broken, edited |-> Broken,
          orig |-> Broken, origKey |-> NoKey, origRef |-> NoKey, changed |-> FALSE,
          saved |-> FALSE, result |-> "none"]

Jobs == [kind: Kinds \cup {"none"}, base: Contents, snap: Contents, want: Contents,
         edited: Contents, orig: Contents, origKey: Keys \cup {NoKey},
         origRef: Keys \cup {NoKey}, changed: BOOLEAN, saved: BOOLEAN, result: Results]

PCs == {"idle", "read", "editor", "reread", "plan", "confirm", "compare", "keep", "sidecar",
        "check", "backup", "write", "torn", "verify", "revert", "secure", "probe", "save",
        "observe", "overwrite", "undo", "undo_key", "undo_ref", "done"}

Safe(c) == c # Broken /\ c.key # Template

Go(at) == pc' = at /\ UNCHANGED job
GoWith(at, j) == pc' = at /\ job' = j
End(r) == GoWith("done", [job EXCEPT !.result = r])

\* An error: a fix is rolled back, any other command ends.
Fail == IF job.kind = "fix" /\ job.changed THEN Go("undo") ELSE End("failed")

\* AtomicWritePrivate failed: before or after its rename.
MaybeWritten(new) == file' \in {file, new}

-----------------------------------------------------------------------------
(* Read, Edit, Plan and the user's consent                                 *)

\* A fix runs when its check fails: a template key.
Begin(kind) ==
  /\ pc = "idle"
  /\ kind = "fix" => file # Broken /\ file.key = Template
  /\ GoWith(IF kind = "fix" THEN "confirm" ELSE "read", [NoJob EXCEPT !.kind = kind])
  /\ unseen' = FALSE /\ refused' = FALSE
  /\ UNCHANGED <<file, sidecar, ref, backup, history, slip>>

\* Edit reads bytes; everyone else parses them.
Read ==
  /\ pc = "read"
  /\ LET seen == [job EXCEPT !.base = file, !.snap = file]
     IN \/ job.kind = "edit" /\ GoWith("editor", seen)
        \/ job.kind = "restore" /\ file # Broken /\ GoWith("confirm", seen)
        \/ job.kind \in {"set", "harden"} /\ file # Broken /\ GoWith("plan", seen)
        \/ job.kind = "fix" /\ file # Broken
           /\ IF file.key = Template THEN GoWith("plan", seen) ELSE End("ok")
        \/ Fail
  /\ UNCHANGED <<file, sidecar, ref, backup, history, unseen, refused, slip>>

\* The editor ends: canceled, unchanged or with another content of the copy.
Editor ==
  /\ pc = "editor"
  /\ \/ \E c \in Contents \ {job.base}: GoWith("reread", [job EXCEPT !.edited = c])
     \/ Fail
  /\ UNCHANGED <<file, sidecar, ref, backup, history, unseen, refused, slip>>

\* commitProxyEdit reads the file again and compares it with the copy: only supported
\* settings count.
Reread ==
  /\ pc = "reread"
  /\ \/ /\ file # Broken /\ job.edited # Broken
        /\ <<file.key, file.opt>> # <<job.edited.key, job.edited.opt>>
        /\ GoWith("plan", [job EXCEPT !.snap = file])
     \/ Fail
  /\ UNCHANGED <<file, sidecar, ref, backup, history, unseen, refused, slip>>

\* What the operations of the plan make of a snapshot.
Patched(s) ==
  CASE job.kind = "set" -> [key: {s.key}, opt: Options, rest: {s.rest}]
    [] job.kind = "edit" -> [key: {job.edited.key}, opt: {job.edited.opt}, rest: {s.rest}]
    [] job.kind = "harden" ->
         [key: IF s.key = Template THEN Keys ELSE {s.key}, opt: Options, rest: {s.rest}]
    [] job.kind = "fix" -> [key: Keys, opt: {s.opt}, rest: {s.rest}]

\* Plan: refuses a stale snapshot and a candidate that the policy forbids.
Plan ==
  /\ pc = "plan"
  /\ \/ /\ file = job.snap
        /\ \E c \in Patched(job.snap):
             /\ Safe(c)
             /\ GoWith(IF job.kind = "fix" THEN "keep" ELSE "confirm", [job EXCEPT !.want = c])
     \/ Fail
  /\ UNCHANGED <<file, sidecar, ref, backup, history, unseen, refused, slip>>

Confirm ==
  /\ pc = "confirm"
  /\ \/ job.kind = "fix" /\ Go("read")
     \/ job.kind = "edit" /\ Go("compare")
     \/ job.kind = "restore" /\ Go("overwrite")
     \/ job.kind \in {"set", "harden"} /\ Go("check")
     \/ Fail
  /\ UNCHANGED <<file, sidecar, ref, backup, history, unseen, refused, slip>>

\* Mutant: the edit is not compared with what the editor was given.
NotCompared == file # Broken

Unedited == file = job.base

\* Configuration changed while the editor was open; no changes were written.
Compare ==
  /\ pc = "compare"
  /\ \/ Unedited /\ Go("check")
     \/ Fail
  /\ UNCHANGED <<file, sidecar, ref, backup, history, unseen, refused, slip>>

-----------------------------------------------------------------------------
(* Apply                                                                   *)

Check ==
  /\ pc = "check"
  /\ \/ file = job.snap /\ Go("backup") /\ unseen' = FALSE /\ UNCHANGED refused
     \/ file # job.snap /\ Fail /\ refused' = TRUE /\ UNCHANGED unseen
     \/ Fail /\ UNCHANGED <<unseen, refused>>
  /\ UNCHANGED <<file, sidecar, ref, backup, history, slip>>

\* Exclusive: a backup of the same content within the second is an error.
Backup ==
  /\ pc = "backup"
  /\ \/ backup' = job.snap /\ Go("write")
     \/ UNCHANGED backup /\ Fail
  /\ UNCHANGED <<file, sidecar, ref, history, unseen, refused, slip>>

Write ==
  /\ pc = "write"
  /\ \/ file' = job.want /\ Go("verify")
     \/ MaybeWritten(job.want) /\ Go("torn")
  /\ UNCHANGED <<sidecar, ref, backup, history, unseen, refused, slip>>

\* Mutant: an atomic write that fails is taken to have done nothing.
NeverWritten == FALSE

CandidateInPlace == file = job.want

\* When reading back fails too, the candidate stays where it is.
Torn ==
  /\ pc = "torn"
  /\ \/ CandidateInPlace /\ Go("revert") /\ UNCHANGED slip
     \/ ~CandidateInPlace /\ Fail /\ UNCHANGED slip
     \/ Fail /\ slip' = IF CandidateInPlace THEN "file" ELSE slip
  /\ UNCHANGED <<file, sidecar, ref, backup, history, unseen, refused>>

Verify ==
  /\ pc = "verify"
  /\ \/ file = job.want /\ (IF job.kind = "fix" THEN Go("secure") ELSE End("ok"))
     \/ Go("revert")
  /\ UNCHANGED <<file, sidecar, ref, backup, history, unseen, refused, slip>>

\* restorePrior; when it fails the error says so.
Revert ==
  /\ pc = "revert"
  /\ \/ file' = job.snap /\ Fail
     \/ MaybeWritten(job.snap) /\ (IF job.kind = "fix" THEN Go("undo") ELSE End("mixed"))
  /\ UNCHANGED <<sidecar, ref, backup, history, unseen, refused, slip>>

-----------------------------------------------------------------------------
(* The safe-mode fix and its rollback                                      *)

Keep ==
  /\ pc = "keep"
  /\ \/ GoWith("sidecar", [job EXCEPT !.orig = file, !.origKey = sidecar, !.changed = TRUE])
        /\ unseen' = FALSE
     \/ Fail /\ UNCHANGED unseen
  /\ UNCHANGED <<file, sidecar, ref, backup, history, refused, slip>>

\* An adopted installation has its key in config.yaml only.  A sidecar that is missing is
\* made, and removed by the rollback.
WriteSidecar ==
  /\ pc = "sidecar"
  /\ \/ ~managed /\ Go("check") /\ UNCHANGED sidecar
     \/ managed /\ sidecar' = job.want.key /\ Go("check")
     \/ managed /\ sidecar' \in {sidecar, job.want.key} /\ Fail
  /\ UNCHANGED <<file, ref, backup, history, unseen, refused, slip>>

\* SecurePermissions and the key that is read back.
Secure ==
  /\ pc = "secure"
  /\ \/ Safe(file) /\ Go("probe")
     \/ Fail
  /\ UNCHANGED <<file, sidecar, ref, backup, history, unseen, refused, slip>>

\* verifyWithRetry: the proxy answers with the new key, or does not in time.
Probe ==
  /\ pc = "probe"
  /\ \/ Go("save")
     \/ Fail
  /\ UNCHANGED <<file, sidecar, ref, backup, history, unseen, refused, slip>>

\* SaveState that fails after its rename leaves stateChanged unset.
Save ==
  /\ pc = "save"
  /\ \/ /\ ref' = job.want.key /\ GoWith("observe", [job EXCEPT !.origRef = ref, !.saved = TRUE])
        /\ UNCHANGED slip
     \/ Fail /\ UNCHANGED <<ref, slip>>
     \/ Fail /\ ref' = job.want.key /\ slip' = "ref"
  /\ UNCHANGED <<file, sidecar, backup, history, unseen, refused>>

\* The fix's check runs again.
Observe ==
  /\ pc = "observe"
  /\ \/ Safe(file) /\ End("ok")
     \/ Fail
  /\ UNCHANGED <<file, sidecar, ref, backup, history, unseen, refused, slip>>

UndoFile ==
  /\ pc = "undo"
  /\ \/ file' = job.orig /\ Go("undo_key")
     \/ MaybeWritten(job.orig) /\ End("mixed")
  /\ UNCHANGED <<sidecar, ref, backup, history, unseen, refused, slip>>

UndoKey ==
  /\ pc = "undo_key"
  /\ \/ sidecar' = job.origKey /\ (IF job.saved THEN Go("undo_ref") ELSE End("failed"))
     \/ sidecar' \in {sidecar, job.origKey} /\ End("mixed")
  /\ UNCHANGED <<file, ref, backup, history, unseen, refused, slip>>

UndoRef ==
  /\ pc = "undo_ref"
  /\ \/ ref' = job.origRef /\ End("failed")
     \/ ref' \in {ref, job.origRef} /\ End("mixed")
  /\ UNCHANGED <<file, sidecar, backup, history, unseen, refused, slip>>

-----------------------------------------------------------------------------
(* Backup, Restore and the rest of the world                               *)

\* `config backup` copies what it finds.
KeepCopy ==
  /\ pc = "idle"
  /\ backup' = file
  /\ UNCHANGED <<file, sidecar, ref, pc, job, history, unseen, refused, slip>>

\* `config restore` writes the backup as it is, then reads it to classify the change.
Overwrite ==
  /\ pc = "overwrite"
  /\ \/ file' = backup /\ End(IF backup = Broken THEN "failed" ELSE "ok")
     \/ MaybeWritten(backup) /\ End("failed")
     \/ UNCHANGED file /\ End("failed")
  /\ UNCHANGED <<sidecar, ref, backup, history, unseen, refused, slip>>

\* The history begins again.
Over ==
  /\ theirs' = file /\ recorded' = ref /\ foreign' = 0
  /\ unseen' = FALSE /\ refused' = FALSE /\ slip' = "none"
  /\ UNCHANGED <<file, managed, sidecar, ref, backup>>

\* The command's result has been shown.
Finish ==
  /\ pc = "done"
  /\ GoWith("idle", NoJob)
  /\ Over

Foreign ==
  /\ file' \in Contents \ {file}
  /\ IF pc = "idle" THEN UNCHANGED foreign ELSE foreign < MaxForeign /\ foreign' = foreign + 1
  /\ theirs' = file'
  /\ unseen' = (pc # "idle")
  /\ UNCHANGED <<managed, sidecar, ref, backup, pc, job, refused, recorded, slip>>

Die ==
  /\ pc \notin {"idle", "done"}
  /\ GoWith("idle", NoJob)
  /\ Over

Init ==
  /\ ref \in Keys \ {Template}
  /\ file \in {c \in Valid: c.key = Template \/ c.key = ref}
  /\ managed \in BOOLEAN /\ sidecar \in IF managed THEN {NoKey, ref} ELSE {NoKey}
  /\ backup = file
  /\ pc = "idle" /\ job = NoJob
  /\ foreign = 0 /\ theirs = file /\ unseen = FALSE /\ refused = FALSE
  /\ recorded = ref /\ slip = "none"

Next ==
  \/ \E kind \in Kinds: Begin(kind)
  \/ Read \/ Editor \/ Reread \/ Plan \/ Confirm \/ Compare
  \/ Check \/ Backup \/ Write \/ Torn \/ Verify \/ Revert
  \/ Keep \/ WriteSidecar \/ Secure \/ Probe \/ Save \/ Observe
  \/ UndoFile \/ UndoKey \/ UndoRef
  \/ KeepCopy \/ Overwrite \/ Finish \/ Foreign \/ Die

Spec == Init /\ [][Next]_vars

-----------------------------------------------------------------------------
(* Properties                                                              *)

TypeOK ==
  /\ file \in Contents /\ theirs \in Contents /\ backup \in Contents
  /\ sidecar \in Keys \cup {NoKey} /\ ref \in Keys
  /\ pc \in PCs /\ job \in Jobs
  /\ foreign \in 0 .. MaxForeign /\ unseen \in BOOLEAN /\ refused \in BOOLEAN
  /\ managed \in BOOLEAN /\ recorded \in Keys /\ slip \in {"none", "file", "ref"}

\* A command that was made for one content of config.yaml never replaces another one,
\* except what is written between its last comparison and its rename.  An edit makes two
\* comparisons with two contents, of which three changes by others (away from what the
\* editor was given, back to it and away again) show it each at its time.
EditsWhatWasRead ==
  [][pc = "write" /\ file' # file /\ ~unseen /\ foreign < 3 => file = job.base]_vars

\* What a failed command may leave in config.yaml: what was there, as it found it or as
\* another writer left it.  Two more are possible: the candidate, when its write and the
\* reading back have both failed; and what a fix has kept, when the file was changed
\* between plan and copy and changed back before Apply compared it.
LeftByFailure ==
  {theirs} \cup {c \in {job.want} : slip = "file" /\ job.kind # "fix"}
           \cup {c \in {job.orig} : job.changed /\ job.orig # job.snap}

\* A command other than restore that says that it failed, and not that its rollback failed
\* too, leaves config.yaml as it was; one that succeeded leaves what it planned.  A fix
\* leaves the key's copy and the recorded fingerprint together with it: all new, or all
\* as before, but for a fingerprint that SaveState has written and reported as failed.
OutcomeIsWhole ==
  pc = "done" /\ ~unseen =>
    /\ job.result = "failed" /\ job.kind # "restore" => file \in LeftByFailure
    /\ job.result = "ok" /\ job.want # Broken => file = job.want
    /\ job.kind = "fix" /\ job.result = "ok" /\ job.saved =>
         ref = file.key /\ sidecar = IF managed THEN file.key ELSE NoKey
    /\ job.kind = "fix" /\ job.result = "failed" /\ job.changed =>
         sidecar = job.origKey /\ (slip # "ref" => ref = recorded)

\* A change that PMux has refused to overwrite stays.
RefusedIsKept ==
  pc = "done" /\ refused => file = theirs
=============================================================================
