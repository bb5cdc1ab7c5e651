----------------------------- MODULE StateStore -----------------------------
(***************************************************************************)
(* One versioned document of PMux (config.json or state.json) and its      *)
(* backups: internal/state/store.go and recovery.go, with the operations   *)
(* that internal/runtime/config_edit.go adds for config.json (Edit,        *)
(* BackupPMux, PlanRestorePMux, RestorePMux).                              *)
(*                                                                         *)
(* Every process may load the document at any time.  The commands that     *)
(* IsMutation lists (internal/runtime/governance.go) hold the mutation     *)
(* lock from before they load it; `profiles set` and `profiles remove`     *)
(* (internal/app/router_surface.go) are not among them and save what they  *)
(* loaded without it.  Loading a document that does not parse repairs it,  *)
(* lock or no lock.  A content is the set of changes it holds.  Every call *)
(* may fail, processes may die at every step, and the document may be      *)
(* damaged from outside.                                                   *)
(***************************************************************************)
EXTENDS Naturals, Sequences

CONSTANTS
  Procs, NoProc,
  Retention,    \* backups that pruning leaves, 10 in the code
  MaxChanges,   \* bound: changes ever made
  MaxDamage,    \* bound: times the document is damaged
  Corrupt, Missing

VARIABLES
  doc,        \* the document
  saves,      \* <dir>/backups/pmux/<name>.*.bak, oldest first
  copy,       \* newest <state>/backups/pmux/config.json.*.bak, and whether it has its checksum
  lock,       \* holder of the mutation lock
  pc, job,    \* of each process
  issued,     \* number of changes begun
  damage,     \* number of times the document was damaged
  committed,  \* history: what the last command saved, less what repairs have lost
  before,     \* history: the document as the last save found it
  mixed       \* history: a repair, or a save without the lock, mixed with another save

vars == <<doc, saves, copy, lock, pc, job, issued, damage, committed, before, mixed>>

history == <<committed, before, mixed>>
L == INSTANCE MutationLock

Changes == 1 .. MaxChanges
Valid == SUBSET Changes
Contents == {Corrupt, Missing} \cup Valid

Readable(c) == c \notin {Corrupt, Missing}

\* seen: what was read, value: what is to be written, then: where loading leads.
NoJob == [kind |-> "none", seen |-> {}, value |-> {}]
Kinds == {"none", "load", "change", "profile", "edit", "backup", "restore"}
Issuing == {"change", "profile", "edit"}
Jobs == [kind: Kinds, seen: Contents, value: Contents]

PCs == {"idle", "load", "preserve", "choose", "repair", "reload", "apply", "compare", "copy", "save",
        "write", "prune", "restore", "replace"}

Goto(p, at) == pc' = [pc EXCEPT ![p] = at] /\ UNCHANGED job
GotoWith(p, at, j) == pc' = [pc EXCEPT ![p] = at] /\ job' = [job EXCEPT ![p] = j]

\* The command returns, and the lock is released if it has it.
End(p) == GotoWith(p, "idle", NoJob) /\ L!Abandon(p)
Stay == UNCHANGED lock

files == <<doc, saves, copy>>
bounds == <<issued, damage>>

-----------------------------------------------------------------------------
(* LoadConfig and LoadState, with their recovery                           *)

\* Mutant: `config set` is not among the mutations either.
UnlockedSettings == {"load", "profile", "change"}

\* Not in IsMutation.
Unlocked == {"load", "profile"}

Begin(p, kind) ==
  /\ pc[p] = "idle"
  /\ IF kind \in Unlocked THEN Stay ELSE L!TryAcquireOk(p)
  /\ kind \in Issuing => issued < MaxChanges
  /\ issued' = IF kind \in Issuing THEN issued + 1 ELSE issued
  /\ GotoWith(p, "load", [NoJob EXCEPT !.kind = kind,
                           !.value = IF kind \in Issuing THEN {issued'} ELSE {}])
  /\ UNCHANGED <<files, damage, history>>

\* The caller goes on with the value that was loaded.
Loaded(p, v) ==
  CASE job[p].kind = "load" -> End(p)
    [] job[p].kind \in {"change", "profile"} ->
         Stay /\ GotoWith(p, "save", [job[p] EXCEPT !.value = @ \cup v])
    [] job[p].kind = "edit" ->
         Stay /\ GotoWith(p, "compare", [job[p] EXCEPT !.seen = v, !.value = @ \cup v])
    [] job[p].kind = "backup" -> Stay /\ GotoWith(p, "copy", [job[p] EXCEPT !.value = v])
    [] job[p].kind = "restore" -> Stay /\ GotoWith(p, "restore", [job[p] EXCEPT !.seen = v])

Decoded(c) == IF c = Missing THEN {} ELSE c

Load(p) ==
  /\ pc[p] = "load"
  /\ \/ doc # Corrupt /\ Loaded(p, Decoded(doc))
     \/ doc = Corrupt /\ Stay /\ Goto(p, "preserve")
     \/ End(p)
  /\ UNCHANGED <<files, bounds, history>>

\* preserveCorrupt copy what the file holds by now.
Preserve(p) ==
  /\ pc[p] = "preserve"
  /\ \/ doc # Missing /\ Stay /\ Goto(p, "choose")
     \/ End(p)
  /\ UNCHANGED <<files, bounds, history>>

Newest(s) == s[Len(s)]

\* latestValidBackup; without one, RecoveryNeeded is returned.
Choose(p) ==
  /\ pc[p] = "choose"
  /\ \/ saves # <<>> /\ Stay /\ GotoWith(p, "repair", [job[p] EXCEPT !.seen = Newest(saves)])
     \/ End(p)
  /\ UNCHANGED <<files, bounds, history>>

\* writeRawJSON: replaces the document, whatever it holds by now, or fails before or after
\* its rename.
Repair(p) ==
  /\ pc[p] = "repair"
  /\ \/ /\ doc' = job[p].seen /\ committed' = committed \cap doc'
        /\ mixed' = (mixed \/ doc # Corrupt)
        /\ \/ Stay /\ Goto(p, "reload")
           \/ End(p)
     \/ UNCHANGED <<doc, committed, mixed>> /\ End(p)
  /\ UNCHANGED <<saves, copy, bounds, before>>

\* What was restored is read back.
Reload(p) ==
  /\ pc[p] = "reload"
  /\ \/ doc # Corrupt /\ Loaded(p, Decoded(doc))
     \/ End(p)
  /\ UNCHANGED <<files, bounds, history>>

-----------------------------------------------------------------------------
(* SaveConfig and SaveState                                                *)

\* backupCurrent refuses to replace a document that is not valid.
Save(p) ==
  /\ pc[p] = "save"
  /\ \/ doc = Missing /\ UNCHANGED <<saves, before>> /\ Stay /\ Goto(p, "write")
     \/ Readable(doc) /\ saves' = Append(saves, doc) /\ before' = doc /\ Stay /\ Goto(p, "write")
     \/ UNCHANGED <<saves, before>> /\ End(p)
  /\ mixed' = (mixed \/ \E q \in Procs : pc[q] = "repair")
  /\ UNCHANGED <<doc, copy, bounds, committed>>

\* q has read what it is about to save.
AboutToSave(q) == job[q].kind \in Issuing /\ pc[q] \in {"compare", "copy", "save", "write"}

\* p replaces the document by what it has read and changed, or by a copy.
Replaced(p) ==
  /\ doc' = job[p].value /\ committed' = doc'
  /\ mixed' = (mixed \/ \E q \in Procs \ {p} :
                 AboutToSave(q) /\ "profile" \in {job[p].kind, job[q].kind})

NotReplaced == UNCHANGED <<doc, committed, mixed>>

Write(p) ==
  /\ pc[p] = "write"
  /\ \/ /\ Replaced(p)
        /\ \/ Stay /\ Goto(p, "prune")
           \/ End(p)
     \/ NotReplaced /\ End(p)
  /\ UNCHANGED <<saves, copy, bounds, before>>

\* Mutant: the list is not reversed before it is cut.
KeepOldest(s) == SubSeq(s, 1, Retention)

KeepNewest(s) == SubSeq(s, Len(s) - Retention + 1, Len(s))

Prune(p) ==
  /\ pc[p] = "prune"
  /\ \/ saves' = IF Len(saves) <= Retention THEN saves ELSE KeepNewest(saves)
     \/ UNCHANGED saves
  /\ End(p)
  /\ UNCHANGED <<doc, copy, bounds, history>>

-----------------------------------------------------------------------------
(* Settings: Edit, BackupPMux and RestorePMux                              *)

\* Settings that changed while the editor was open are not overwritten; a document that
\* has gone counts as unchanged.
Compare(p) ==
  /\ pc[p] = "compare"
  /\ \/ doc \in {job[p].seen, Missing} /\ Stay /\ Goto(p, "copy")
     \/ End(p)
  /\ UNCHANGED <<files, bounds, history>>

\* writePMuxBackup leaves a partial file when it fails; its name does not match then.
Copy(p) ==
  /\ pc[p] = "copy"
  /\ \/ /\ doc # Corrupt
        /\ copy' = [content |-> Decoded(doc), whole |-> TRUE]
        /\ CASE job[p].kind = "backup" -> End(p)
             [] job[p].kind = "edit" -> Stay /\ Goto(p, "save")
             [] job[p].kind = "restore" -> Stay /\ Goto(p, "replace")
     \/ copy' \in {copy, [copy EXCEPT !.whole = FALSE]} /\ End(p)
  /\ UNCHANGED <<doc, saves, bounds, history>>

\* PlanRestorePMux, the preview, and the same checks again in RestorePMux.
Restore(p) ==
  /\ pc[p] = "restore"
  /\ \/ copy.whole /\ Stay /\ GotoWith(p, IF doc = Missing THEN "replace" ELSE "copy",
                                         [job[p] EXCEPT !.value = copy.content])
     \/ End(p)
  /\ UNCHANGED <<files, bounds, history>>

\* replacePrivateFile, and LoadConfig to compare the result.
Replace(p) ==
  /\ pc[p] = "replace"
  /\ Replaced(p) \/ NotReplaced
  /\ End(p)
  /\ UNCHANGED <<saves, copy, bounds, before>>

-----------------------------------------------------------------------------
Damage ==
  /\ damage < MaxDamage /\ doc # Missing
  /\ damage' = damage + 1 /\ doc' = Corrupt
  /\ UNCHANGED <<saves, copy, lock, pc, job, issued, history>>

Die(p) ==
  /\ pc[p] # "idle"
  /\ End(p)
  /\ UNCHANGED <<files, bounds, history>>

Init ==
  /\ doc \in {Missing, {}} /\ saves = <<>> /\ copy = [content |-> {}, whole |-> FALSE]
  /\ L!LockInit
  /\ pc = [p \in Procs |-> "idle"] /\ job = [p \in Procs |-> NoJob]
  /\ issued = 0 /\ damage = 0 /\ committed = {} /\ before = {}
  /\ mixed = FALSE

Next ==
  \/ \E p \in Procs:
       \/ \E kind \in Kinds \ {"none"}: Begin(p, kind)
       \/ Load(p) \/ Preserve(p) \/ Choose(p) \/ Repair(p) \/ Reload(p)
       \/ Save(p) \/ Write(p) \/ Prune(p)
       \/ Compare(p) \/ Copy(p) \/ Restore(p) \/ Replace(p)
       \/ Die(p)
  \/ Damage

Spec == Init /\ [][Next]_vars

-----------------------------------------------------------------------------
(* Properties                                                              *)

TypeOK ==
  /\ doc \in Contents
  /\ saves \in Seq(Valid)
  /\ copy \in [content: Contents, whole: BOOLEAN]
  /\ lock \in Procs \cup {NoProc}
  /\ pc \in [Procs -> PCs] /\ job \in [Procs -> Jobs]
  /\ issued \in 0 .. MaxChanges /\ damage \in 0 .. MaxDamage /\ committed \in Valid

\* A command saves what the command before it has saved and its own change.  No change is
\* lost to another process, unless a repair has mixed with a save, or `profiles set` or
\* `profiles remove`, which take no lock, with another command (router.go:191,
\* router_surface.go:646, store.go:67).
ChangesSurvive ==
  [][\A p \in Procs: pc[p] = "write" /\ pc'[p] = "prune" /\ ~mixed' => committed \subseteq committed']_vars

\* However often a document is damaged, it comes back as the last save found it, one save
\* back, unless saves or repairs have mixed (recovery.go:150, store.go:103).
RepairGoesBackOneSave ==
  [][doc = Corrupt /\ doc' # doc /\ ~mixed /\ (\E p \in Procs: pc[p] = "repair" /\ pc'[p] # "repair")
       => doc' = before]_vars

\* What a repair replaces is a damaged document, and saves do not overlap.
NothingMixes == ~mixed
=============================================================================
