--------------------------- MODULE LocalFilesProofs ---------------------------
(***************************************************************************)
(* Proofs about MCLocalFiles, for any number of processes and changes and  *)
(* with any failures and deaths.                                           *)
(*                                                                         *)
(* Claude's settings: ClaudeInv says whose content the settings and their  *)
(* backup are at each step of a command.                                   *)
(*                                                                         *)
(* A document of PMux: StoreInv.  Neither a repair nor `profiles set` and  *)
(* `profiles remove` take the lock, so what a command has read             *)
(* (ChangeInv) and what a repair has chosen (RepairInv) are up to date     *)
(* only as long as no such step has mixed with another save.               *)
(*                                                                         *)
(* Managed setup: only the holder of the lock changes anything, or else    *)
(* the setup is disturbed; SetupInv says what is there at each of its      *)
(* steps (DoneInv), what is not there yet or any more (UndoneInv), what    *)
(* its record tells (HeldRecordInv) and what is left when it is over       *)
(* (RestInv).  A record that names the extraction is never cleared by a    *)
(* recovery (recovery.go:156), so RestInv claims nothing while one exists. *)
(*                                                                         *)
(* An update of the core is proved about in ProxyUpdateProofs.             *)
(***************************************************************************)
EXTENDS MCLocalFiles, ProxyUpdateProofs, Sequences

-----------------------------------------------------------------------------
(* Claude's settings                                                       *)

\* Content that is not PMux's.
Plain(c) == c = Absent \/ ~c.env

\* The direction of the plan, and what the step knows of the record.
PlanInv ==
  /\ slotPc \notin {"reread", "own", "write", "record", "failed", "partly"} => ~slotJob.reverse
  /\ slotPc \in {"restore", "disown", "config", "done"} => slotRecord # Absent
  /\ slotJob.reverse => slotRecord # Absent
  /\ slotPc \in {"write", "record"} => (slotJob.first <=> slotRecord = Absent)
  /\ slotPc = "unbackup" => slotRecord = Absent

\* Who owns the settings, as long as no write was torn: before there is a record they are
\* not PMux's but between the write and the record, and afterwards the backup is the one
\* that the record names.
OwnershipInv ==
  ~torn =>
    /\ slotRecord = Absent /\ slotPc # "record" => Plain(settings)
    /\ slotRecord = Absent /\ slotPc \in {"confirm", "reread", "own", "write", "record"} => Plain(slotJob.before)
    /\ slotPc \in {"write", "record"} /\ slotJob.first => slotBackup = slotJob.before
    /\ slotPc = "disown" => Plain(settings)

\* What the command has changed, as long as nobody else wrote the settings.
ChangedInv ==
  ~torn /\ ~meddled =>
    /\ slotPc \in {"confirm", "reread", "own", "write", "record", "config"} => config = slotJob.was
    /\ slotPc \in {"confirm", "reread", "own", "write"} => settings = Claude!From
    /\ slotPc \in {"record", "config"} => settings = Claude!To

ClaudeInv ==
  Claude!TypeOK /\ PlanInv /\ OwnershipInv /\ ChangedInv /\ Claude!SlotIsRecoverable

USE AbsentAssumption, MaxOthersAssumption DEF MaxOthersAssumption, AbsentAssumption, Claude!files,
     Claude!Goto, Claude!From, Claude!To, Plain

-----------------------------------------------------------------------------
(* Claude's settings                                                       *)

LEMMA ClaudeNoJob == Claude!NoJob \in Claude!Jobs /\ ~Claude!NoJob.reverse
BY DEF Claude!NoJob, Claude!Jobs, Claude!File

LEMMA OwnedType ==
  ASSUME Claude!TypeOK, slotJob.first <=> slotRecord = Absent
  PROVE  Claude!Owned \in Claude!Record
BY DEF Claude!TypeOK, Claude!Owned, Claude!Record, Claude!Jobs

LEMMA ClaudePlanStep ==
  ASSUME ClaudeInv, Claude!Plan
  PROVE  ClaudeInv'
<1>1. PICK raw \in Models \cup {NoModel} :
          slotJob' = [Claude!NoJob EXCEPT !.raw = raw, !.before = settings, !.was = config,
             !.after = [user |-> IF settings = Absent THEN 0 ELSE settings.user, env |-> TRUE, slot |-> raw]]
  BY DEF Claude!Plan
<1>2. [user |-> IF settings = Absent THEN 0 ELSE settings.user, env |-> TRUE, slot |-> raw] \in Claude!File
  <2>1. (IF settings = Absent THEN 0 ELSE settings.user) \in 0 .. MaxOthers
    BY DEF ClaudeInv, Claude!TypeOK, Claude!File, Claude!Content
  <2> QED
    BY <2>1 DEF Claude!File, Claude!Content
<1>3. slotJob' \in Claude!Jobs
  BY <1>1, <1>2, ClaudeNoJob DEF ClaudeInv, Claude!TypeOK, Claude!Jobs
<1>4. ~slotJob'.reverse /\ slotJob'.before = settings /\ slotJob'.was = config
  BY <1>1, ClaudeNoJob DEF Claude!Jobs
<1>5. Claude!TypeOK'
  BY <1>3 DEF Claude!Plan, ClaudeInv, Claude!TypeOK, Claude!PCs
<1> QED
  BY <1>4, <1>5
     DEF Claude!Plan, ClaudeInv, PlanInv, OwnershipInv, ChangedInv, Claude!SlotIsRecoverable,
       Claude!BackupIsOriginal, Claude!SlotIsAllOrNothing

LEMMA ClaudeOthersStep ==
  ASSUME ClaudeInv, Claude!Others
  PROVE  ClaudeInv'
<1>1. [user |-> edits + 1, env |-> FALSE, slot |-> NoModel] \in Claude!Content
  BY DEF ClaudeInv, Claude!Others, Claude!TypeOK, Claude!Content
<1>2. settings # Absent =>
        /\ [settings EXCEPT !.user = edits + 1] \in Claude!Content
        /\ [settings EXCEPT !.user = edits + 1].env = settings.env
  BY DEF ClaudeInv, Claude!Others, Claude!TypeOK, Claude!Content, Claude!File
<1>3. settings' \in Claude!File /\ (Plain(settings) => Plain(settings'))
  <2>1. CASE settings' = Absent
    BY <2>1 DEF Claude!File
  <2>2. CASE settings' = [user |-> edits + 1, env |-> FALSE, slot |-> NoModel]
    BY <1>1, <2>2 DEF Claude!File
  <2>3. CASE settings # Absent /\ settings' = [settings EXCEPT !.user = edits + 1]
    BY <1>2, <2>3 DEF Claude!File
  <2> QED
    BY <2>1, <2>2, <2>3 DEF Claude!Others
<1>4. Claude!TypeOK'
  BY <1>3 DEF ClaudeInv, Claude!TypeOK, Claude!Others
<1> QED
  BY <1>3, <1>4
     DEF Claude!Others, ClaudeInv, PlanInv, OwnershipInv, ChangedInv, Claude!SlotIsRecoverable,
       Claude!BackupIsOriginal, Claude!SlotIsAllOrNothing

LEMMA ClaudeConfirmStep ==
  ASSUME ClaudeInv, Claude!Confirm
  PROVE  ClaudeInv'
<1>1. Claude!TypeOK'
  BY DEF ClaudeInv, Claude!TypeOK, Claude!PCs, Claude!Confirm
<1>2. PlanInv'
  BY DEF ClaudeInv, PlanInv, Claude!Confirm
<1>3. OwnershipInv'
  BY DEF ClaudeInv, OwnershipInv, Claude!Confirm
<1>4. ChangedInv'
  BY DEF ClaudeInv, ChangedInv, Claude!Confirm
<1>5. Claude!SlotIsRecoverable'
  BY DEF ClaudeInv, Claude!SlotIsRecoverable, Claude!BackupIsOriginal, Claude!SlotIsAllOrNothing,
     Claude!Confirm
<1> QED
  BY <1>1, <1>2, <1>3, <1>4, <1>5 DEF ClaudeInv

LEMMA ClaudeRereadStep ==
  ASSUME ClaudeInv, Claude!Reread
  PROVE  ClaudeInv'
<1>1. Claude!TypeOK'
  BY DEF ClaudeInv, Claude!TypeOK, Claude!PCs, Claude!Reread, Claude!GiveUp
<1>2. PlanInv'
  BY DEF ClaudeInv, PlanInv, Claude!Reread, Claude!GiveUp
<1>3. OwnershipInv'
  BY DEF ClaudeInv, OwnershipInv, Claude!Reread, Claude!GiveUp
<1>4. ChangedInv'
  BY DEF ClaudeInv, ChangedInv, Claude!Reread, Claude!GiveUp
<1>5. Claude!SlotIsRecoverable'
  BY DEF ClaudeInv, ChangedInv, Claude!SlotIsRecoverable, Claude!BackupIsOriginal,
     Claude!SlotIsAllOrNothing, Claude!Reread, Claude!GiveUp
<1> QED
  BY <1>1, <1>2, <1>3, <1>4, <1>5 DEF ClaudeInv

LEMMA ClaudeOwnStep ==
  ASSUME ClaudeInv, Claude!Own
  PROVE  ClaudeInv'
<1>a. /\ slotJob'.before = slotJob.before /\ slotJob'.after = slotJob.after /\ slotJob'.raw = slotJob.raw
      /\ slotJob'.was = slotJob.was /\ slotJob'.reverse = slotJob.reverse
      /\ slotPc' = "write" => (slotJob'.first <=> slotRecord = Absent)
  BY DEF ClaudeInv, Claude!TypeOK, Claude!Jobs, Claude!Own, Claude!FirstTime
<1>1. Claude!TypeOK'
  BY DEF ClaudeInv, Claude!TypeOK, Claude!PCs, Claude!Jobs, Claude!Own
<1>2. PlanInv'
  BY <1>a DEF ClaudeInv, PlanInv, Claude!Own
<1>3. OwnershipInv'
  BY <1>a DEF ClaudeInv, PlanInv, OwnershipInv, Claude!Own, Claude!FirstTime
<1>4. ChangedInv'
  BY <1>a DEF ClaudeInv, ChangedInv, Claude!Own
<1>5. Claude!SlotIsRecoverable'
  BY <1>a
     DEF ClaudeInv, ChangedInv, Claude!SlotIsRecoverable, Claude!BackupIsOriginal,
       Claude!SlotIsAllOrNothing, Claude!Own, Claude!FirstTime
<1> QED
  BY <1>1, <1>2, <1>3, <1>4, <1>5 DEF ClaudeInv

LEMMA ClaudeWriteStep ==
  ASSUME ClaudeInv, Claude!Write
  PROVE  ClaudeInv'
<1>1. Claude!TypeOK'
  BY DEF ClaudeInv, Claude!TypeOK, Claude!PCs, Claude!Jobs, Claude!Write, Claude!GiveUp,
     Claude!Unbacked
<1>2. PlanInv'
  BY DEF ClaudeInv, PlanInv, Claude!Write, Claude!GiveUp
<1>3. OwnershipInv'
  BY DEF ClaudeInv, OwnershipInv, Claude!Write, Claude!GiveUp
<1>4. ChangedInv'
  BY DEF ClaudeInv, ChangedInv, Claude!Write, Claude!GiveUp
<1>5. Claude!SlotIsRecoverable'
  BY DEF ClaudeInv, PlanInv, ChangedInv, Claude!SlotIsRecoverable, Claude!BackupIsOriginal,
     Claude!SlotIsAllOrNothing, Claude!Write, Claude!GiveUp, Claude!Unbacked
<1> QED
  BY <1>1, <1>2, <1>3, <1>4, <1>5 DEF ClaudeInv

LEMMA ClaudeWriteRecordStep ==
  ASSUME ClaudeInv, Claude!WriteRecord
  PROVE  ClaudeInv'
<1>a. Claude!Owned \in Claude!Record /\ Claude!Owned.after = Claude!To
      /\ Claude!Owned.before = IF slotJob.first THEN Claude!From ELSE slotRecord.before
  BY OwnedType DEF ClaudeInv, PlanInv, Claude!WriteRecord, Claude!Owned
<1>1. Claude!TypeOK'
  BY <1>a
     DEF ClaudeInv, Claude!TypeOK, Claude!PCs, Claude!Jobs, Claude!WriteRecord, Claude!GiveUp,
       Claude!Unbacked
<1>2. PlanInv'
  BY <1>a DEF ClaudeInv, PlanInv, Claude!WriteRecord, Claude!GiveUp
<1>3. OwnershipInv'
  BY <1>a DEF ClaudeInv, PlanInv, OwnershipInv, Claude!WriteRecord, Claude!GiveUp
<1>4. ChangedInv'
  BY DEF ClaudeInv, ChangedInv, Claude!WriteRecord, Claude!GiveUp
<1>5. Claude!SlotIsRecoverable'
  BY <1>a
     DEF ClaudeInv, PlanInv, OwnershipInv, ChangedInv, Claude!SlotIsRecoverable,
       Claude!BackupIsOriginal, Claude!SlotIsAllOrNothing, Claude!WriteRecord, Claude!GiveUp,
       Claude!Unbacked
<1> QED
  BY <1>1, <1>2, <1>3, <1>4, <1>5 DEF ClaudeInv

LEMMA ClaudeSaveConfigStep ==
  ASSUME ClaudeInv, Claude!SaveConfig
  PROVE  ClaudeInv'
<1>a. /\ slotJob'.before = slotJob.before /\ slotJob'.after = slotJob.after /\ slotJob'.raw = slotJob.raw
      /\ slotJob'.was = slotJob.was /\ (slotPc' = "done" => slotJob' = slotJob) /\ (slotPc' # "done" => slotJob'.reverse)
  BY DEF ClaudeInv, Claude!TypeOK, Claude!Jobs, Claude!SaveConfig
<1>1. Claude!TypeOK'
  BY DEF ClaudeInv, Claude!TypeOK, Claude!PCs, Claude!Jobs, Claude!SaveConfig
<1>2. PlanInv'
  BY DEF ClaudeInv, PlanInv, Claude!SaveConfig
<1>3. OwnershipInv'
  BY DEF ClaudeInv, PlanInv, OwnershipInv, Claude!SaveConfig
<1>4. ChangedInv'
  BY <1>a DEF ClaudeInv, PlanInv, ChangedInv, Claude!SaveConfig
<1>5. Claude!SlotIsRecoverable'
  BY DEF ClaudeInv, PlanInv, ChangedInv, Claude!SlotIsRecoverable, Claude!BackupIsOriginal,
     Claude!SlotIsAllOrNothing, Claude!SaveConfig
<1> QED
  BY <1>1, <1>2, <1>3, <1>4, <1>5 DEF ClaudeInv

LEMMA ClaudeEndStep ==
  ASSUME ClaudeInv, Claude!End
  PROVE  ClaudeInv'
<1>1. Claude!TypeOK'
  BY ClaudeNoJob DEF ClaudeInv, Claude!TypeOK, Claude!PCs, Claude!End
<1>2. PlanInv'
  BY ClaudeNoJob DEF PlanInv, Claude!End
<1>3. OwnershipInv'
  BY DEF ClaudeInv, OwnershipInv, Claude!End
<1>4. ChangedInv'
  BY DEF ChangedInv, Claude!End
<1>5. Claude!SlotIsRecoverable'
  BY DEF ClaudeInv, Claude!SlotIsRecoverable, Claude!BackupIsOriginal, Claude!SlotIsAllOrNothing,
     Claude!End
<1> QED
  BY <1>1, <1>2, <1>3, <1>4, <1>5 DEF ClaudeInv

LEMMA ClaudeCrashStep ==
  ASSUME ClaudeInv, Claude!Crash
  PROVE  ClaudeInv'
<1>1. Claude!TypeOK'
  BY ClaudeNoJob DEF ClaudeInv, Claude!TypeOK, Claude!PCs, Claude!Crash
<1>2. PlanInv'
  BY ClaudeNoJob DEF PlanInv, Claude!Crash
<1>3. OwnershipInv'
  BY DEF ClaudeInv, OwnershipInv, Claude!Crash
<1>4. ChangedInv'
  BY DEF ChangedInv, Claude!Crash
<1>5. Claude!SlotIsRecoverable'
  BY DEF ClaudeInv, Claude!SlotIsRecoverable, Claude!BackupIsOriginal, Claude!SlotIsAllOrNothing,
     Claude!Crash
<1> QED
  BY <1>1, <1>2, <1>3, <1>4, <1>5 DEF ClaudeInv

LEMMA ClaudeCheckOwnershipStep ==
  ASSUME ClaudeInv, Claude!CheckOwnership
  PROVE  ClaudeInv'
<1>1. Claude!TypeOK'
  BY DEF ClaudeInv, Claude!TypeOK, Claude!PCs, Claude!CheckOwnership
<1>2. PlanInv'
  BY DEF ClaudeInv, PlanInv, Claude!CheckOwnership
<1>3. OwnershipInv'
  BY DEF OwnershipInv, Claude!CheckOwnership
<1>4. ChangedInv'
  BY DEF ChangedInv, Claude!CheckOwnership
<1>5. Claude!SlotIsRecoverable'
  BY DEF ClaudeInv, Claude!SlotIsRecoverable, Claude!BackupIsOriginal, Claude!SlotIsAllOrNothing,
     Claude!CheckOwnership
<1> QED
  BY <1>1, <1>2, <1>3, <1>4, <1>5 DEF ClaudeInv

LEMMA ClaudeRestoreStep ==
  ASSUME ClaudeInv, Claude!Restore
  PROVE  ClaudeInv'
<1>a. torn' \in BOOLEAN /\ settings' \in Claude!File
  <2>1. slotRecord.before \in Claude!File
    BY DEF ClaudeInv, PlanInv, Claude!Restore, Claude!TypeOK, Claude!Record
  <2>2. torn' = torn \/ torn' = (torn \/ settings' # settings)
    BY DEF Claude!Restore
  <2> QED
    BY <2>1 DEF ClaudeInv, Claude!Restore, Claude!TypeOK
<1>1. Claude!TypeOK'
  BY <1>a DEF ClaudeInv, Claude!TypeOK, Claude!PCs, Claude!Restore
<1>2. PlanInv'
  BY DEF ClaudeInv, PlanInv, Claude!Restore
<1>3. OwnershipInv'
  BY DEF ClaudeInv, PlanInv, OwnershipInv, Claude!SlotIsRecoverable, Claude!BackupIsOriginal,
     Claude!Restore
<1>4. ChangedInv'
  BY DEF ChangedInv, Claude!Restore
<1>5. Claude!SlotIsRecoverable'
  BY DEF ClaudeInv, Claude!SlotIsRecoverable, Claude!BackupIsOriginal, Claude!SlotIsAllOrNothing,
     Claude!Restore
<1> QED
  BY <1>1, <1>2, <1>3, <1>4, <1>5 DEF ClaudeInv

LEMMA ClaudeDisownStep ==
  ASSUME ClaudeInv, Claude!Disown
  PROVE  ClaudeInv'
<1>1. Claude!TypeOK'
  BY DEF ClaudeInv, Claude!TypeOK, Claude!PCs, Claude!Disown
<1>2. PlanInv'
  BY DEF ClaudeInv, PlanInv, Claude!Disown
<1>3. OwnershipInv'
  BY DEF ClaudeInv, OwnershipInv, Claude!Disown
<1>4. ChangedInv'
  BY DEF ChangedInv, Claude!Disown
<1>5. Claude!SlotIsRecoverable'
  BY DEF Claude!SlotIsRecoverable, Claude!BackupIsOriginal, Claude!SlotIsAllOrNothing,
     Claude!Disown
<1> QED
  BY <1>1, <1>2, <1>3, <1>4, <1>5 DEF ClaudeInv

LEMMA ClaudeRemoveBackupStep ==
  ASSUME ClaudeInv, Claude!RemoveBackup
  PROVE  ClaudeInv'
<1>1. Claude!TypeOK'
  BY DEF ClaudeInv, Claude!TypeOK, Claude!PCs, Claude!RemoveBackup
<1>2. PlanInv'
  BY DEF ClaudeInv, PlanInv, Claude!RemoveBackup
<1>3. OwnershipInv'
  BY DEF ClaudeInv, OwnershipInv, Claude!RemoveBackup
<1>4. ChangedInv'
  BY DEF ChangedInv, Claude!RemoveBackup
<1>5. Claude!SlotIsRecoverable'
  BY DEF ClaudeInv, PlanInv, Claude!SlotIsRecoverable, Claude!BackupIsOriginal,
     Claude!SlotIsAllOrNothing, Claude!RemoveBackup
<1> QED
  BY <1>1, <1>2, <1>3, <1>4, <1>5 DEF ClaudeInv

LEMMA ClaudeInitInv == Claude!Init => ClaudeInv
<1> SUFFICES ASSUME Claude!Init PROVE ClaudeInv
  OBVIOUS
<1>1. settings \in Claude!File /\ Plain(settings)
  <2>1. [user |-> 0, env |-> FALSE, slot |-> NoModel] \in Claude!File
    BY DEF Claude!File, Claude!Content
  <2>2. CASE settings = Absent
    BY <2>2 DEF Claude!File
  <2>3. CASE settings = [user |-> 0, env |-> FALSE, slot |-> NoModel]
    BY <2>1, <2>3
  <2> QED
    BY <2>2, <2>3 DEF Claude!Init
<1>2. meddled \in BOOLEAN /\ torn \in BOOLEAN
  BY DEF Claude!Init
<1>3. Claude!TypeOK
  BY <1>1, <1>2, ClaudeNoJob DEF Claude!Init, Claude!TypeOK, Claude!PCs
<1> QED
  BY <1>3, ClaudeNoJob
     DEF Claude!Init, ClaudeInv, PlanInv, OwnershipInv, ChangedInv, Claude!SlotIsRecoverable,
       Claude!BackupIsOriginal, Claude!SlotIsAllOrNothing

LEMMA ClaudeStays == ClaudeInv /\ [FilesNext]_<<part, vars, journalVars, otherFiles>> => ClaudeInv'
<1> SUFFICES ASSUME ClaudeInv, [FilesNext]_<<part, vars, journalVars, otherFiles>> PROVE ClaudeInv'
  OBVIOUS
<1>1. CASE UNCHANGED claudeVars
  BY <1>1
     DEF claudeVars, Claude!TypeOK, ClaudeInv, PlanInv, OwnershipInv, ChangedInv,
       Claude!SlotIsRecoverable, Claude!BackupIsOriginal, Claude!SlotIsAllOrNothing
<1>2. Claude!Next \/ UNCHANGED claudeVars
  BY DEF FilesNext, ProxyMoves, JournalMoves, SetupMoves, StoreMoves, ClaudeMoves, Rest,
     otherFiles
<1> QED
  BY <1>1, <1>2, ClaudePlanStep, ClaudeConfirmStep, ClaudeRereadStep, ClaudeOwnStep,
     ClaudeWriteStep, ClaudeWriteRecordStep, ClaudeSaveConfigStep, ClaudeEndStep,
     ClaudeCheckOwnershipStep, ClaudeRestoreStep, ClaudeDisownStep, ClaudeRemoveBackupStep,
     ClaudeOthersStep, ClaudeCrashStep DEF Claude!Next

\* The invariant of the edit of Claude's settings: what the settings, the backup and the record
\* hold at each step of a plan, its confirmation, its writes and its reversal.
THEOREM ClaudeInvariance == FilesSpec => []ClaudeInv
<1>1. FilesInit => ClaudeInv
  BY ClaudeInitInv DEF FilesInit
<1> QED
  BY <1>1, ClaudeStays, PTL DEF FilesSpec

\* What Claude's settings held before PMux can always be had back, and the record, the settings
\* and PMux's configuration agree when no step is under way, unless a write was torn
\* (claude.go:421, router.go:1561).
THEOREM SlotStaysRecoverable == FilesSpec => []SlotIsRecoverable
<1>1. ClaudeInv => SlotIsRecoverable
  BY DEF ClaudeInv, SlotIsRecoverable
<1> QED
  BY <1>1, ClaudeInvariance, PTL

HIDE DEF MaxOthersAssumption, AbsentAssumption, Claude!files, Claude!Goto, Claude!From, Claude!To, Plain

-----------------------------------------------------------------------------
(* A document of PMux and its backups                                      *)

Changing(p) == storeJob[p].kind \in Store!Issuing

StoreTypes ==
  /\ doc \in Store!Contents /\ saves \in Seq(Store!Valid)
  /\ copy \in [content: Store!Valid, whole: BOOLEAN]
  /\ lock \in Processes \cup {NoProc}
  /\ storePc \in [Processes -> Store!PCs] /\ storeJob \in [Processes -> Store!Jobs]
  /\ changes \in 0 .. MaxChanges /\ damage \in 0 .. MaxDamage
  /\ committed \in Store!Valid /\ mixed \in BOOLEAN

\* What each step has in hand: the commands that IsMutation lists have the lock.
HolderInv(p) ==
  /\ storePc[p] # "idle" /\ storeJob[p].kind \notin Store!Unlocked => lock = p
  /\ storePc[p] = "idle" => lock # p /\ storeJob[p].kind = "none"
  /\ storePc[p] # "idle" => storeJob[p].kind # "none"
  /\ storePc[p] \in {"save", "write", "prune"} => Changing(p)
  /\ storePc[p] = "compare" => storeJob[p].kind = "edit"
  /\ storePc[p] = "copy" => storeJob[p].kind \in {"edit", "backup", "restore"}
  /\ storePc[p] \in {"restore", "replace"} => storeJob[p].kind = "restore"
  /\ storeJob[p].value \in Store!Valid
  /\ storePc[p] = "repair" => storeJob[p].seen \in Store!Valid

\* What is to be written has all that was committed.
ChangeInv(p) == ~mixed /\ Store!AboutToSave(p) => committed \subseteq storeJob[p].value

\* Who is about to repair the document has chosen the last backup.
RepairInv(p) == ~mixed /\ storePc[p] = "repair" => storeJob[p].seen = storeBefore

DocumentInv ==
  /\ doc # Corrupt => committed \subseteq Store!Decoded(doc)
  /\ saves # <<>> => storeBefore = Store!Newest(saves)

StoreInv ==
  /\ StoreTypes /\ DocumentInv
  /\ \A p \in Processes : HolderInv(p) /\ ChangeInv(p) /\ RepairInv(p)

USE DocumentAssumption, NoProcAssumption, MaxChangesAssumption, RetentionAssumption
    DEF DocumentAssumption, NoProcAssumption, MaxChangesAssumption, RetentionAssumption,
        Store!Changes, Store!files, Store!bounds, Store!history, Store!Stay, Store!Issuing,
        Store!Unlocked, Store!AboutToSave
-----------------------------------------------------------------------------
LEMMA StoreNoJob == Store!NoJob \in Store!Jobs /\ Store!NoJob.kind = "none" /\ Store!NoJob.value = {}
                    /\ {} \in Store!Valid
BY DEF Store!NoJob, Store!Jobs, Store!Kinds, Store!Contents, Store!Valid

\* The process that moves is p, and the lock changes hands only with it.
Alone(p) == \A q \in Processes \ {p} : storePc'[q] = storePc[q] /\ storeJob'[q] = storeJob[q]
LockMoves(p) == lock' = lock \/ (lock = NoProc /\ lock' = p) \/ (lock = p /\ lock' = NoProc)

LEMMA StoreGoto ==
  ASSUME StoreTypes, NEW p \in Processes, NEW at \in Store!PCs, Store!Goto(p, at)
  PROVE  /\ Alone(p) /\ storePc'[p] = at /\ storeJob' = storeJob
         /\ storePc' \in [Processes -> Store!PCs]
BY DEF StoreTypes, Store!Goto, Alone

LEMMA StoreGotoWith ==
  ASSUME StoreTypes, NEW p \in Processes, NEW at \in Store!PCs, NEW j \in Store!Jobs, Store!GotoWith(p, at, j)
  PROVE  /\ Alone(p) /\ storePc'[p] = at /\ storeJob'[p] = j
         /\ storePc' \in [Processes -> Store!PCs] /\ storeJob' \in [Processes -> Store!Jobs]
BY DEF StoreTypes, Store!GotoWith, Alone

\* A command that ends.
LEMMA StoreEnd ==
  ASSUME StoreInv, NEW p \in Processes, Store!End(p)
  PROVE  /\ Alone(p) /\ LockMoves(p) /\ storePc'[p] = "idle" /\ storeJob'[p] = Store!NoJob
         /\ lock' # p /\ lock' \in Processes \cup {NoProc}
         /\ storePc' \in [Processes -> Store!PCs] /\ storeJob' \in [Processes -> Store!Jobs]
         /\ HolderInv(p)' /\ ChangeInv(p)' /\ RepairInv(p)'
<1>1. /\ Alone(p) /\ storePc'[p] = "idle" /\ storeJob'[p] = Store!NoJob
      /\ storePc' \in [Processes -> Store!PCs] /\ storeJob' \in [Processes -> Store!Jobs]
  BY StoreNoJob, StoreGotoWith DEF Store!End, Store!PCs, StoreInv
<1>2. lock' = IF lock = p THEN NoProc ELSE lock
  BY DEF Store!End, Store!L!Abandon
<1>3. LockMoves(p) /\ lock' # p /\ lock' \in Processes \cup {NoProc}
  BY <1>2 DEF LockMoves, StoreInv, StoreTypes
<1> QED
  BY <1>1, <1>3, StoreNoJob DEF HolderInv, ChangeInv, RepairInv, Changing

\* Nobody else's reading is out of date, and nobody else's backup, unless saves have mixed.
Unmixed(p) ==
  /\ mixed => mixed'
  /\ \/ mixed' \/ committed' \subseteq committed
     \/ \A q \in Processes \ {p} : ~Store!AboutToSave(q)
  /\ \/ mixed' \/ storeBefore' = storeBefore
     \/ \A q \in Processes \ {p} : storePc[q] # "repair"

LEMMA StoreStep ==
  ASSUME StoreInv, NEW p \in Processes, Alone(p), LockMoves(p), StoreTypes', DocumentInv',
         HolderInv(p)', ChangeInv(p)', RepairInv(p)', Unmixed(p)
  PROVE  StoreInv'
<1>1. ASSUME NEW q \in Processes \ {p}
      PROVE  HolderInv(q)' /\ ChangeInv(q)' /\ RepairInv(q)'
  <2>1. HolderInv(q) /\ ChangeInv(q) /\ RepairInv(q) /\ storePc'[q] = storePc[q] /\ storeJob'[q] = storeJob[q]
    BY DEF StoreInv, Alone
  <2>2. HolderInv(q)'
    BY <2>1 DEF HolderInv, LockMoves, Changing
  <2>3. ChangeInv(q)'
    BY <2>1 DEF ChangeInv, Unmixed
  <2>4. RepairInv(q)'
    BY <2>1 DEF RepairInv, Unmixed
  <2> QED
    BY <2>2, <2>3, <2>4
<1> QED
  BY <1>1 DEF StoreInv

LEMMA StoreLoaded ==
  ASSUME StoreInv, NEW p \in Processes, storePc[p] \in {"load", "reload"}, doc # Corrupt,
         Store!Loaded(p, Store!Decoded(doc)), UNCHANGED <<committed, mixed>>
  PROVE  /\ Alone(p) /\ LockMoves(p) /\ lock' \in Processes \cup {NoProc}
         /\ storePc' \in [Processes -> Store!PCs] /\ storeJob' \in [Processes -> Store!Jobs]
         /\ HolderInv(p)' /\ ChangeInv(p)' /\ RepairInv(p)' /\ storePc'[p] # "prune"
<1> DEFINE v == Store!Decoded(doc)
<1>1. v \in Store!Valid /\ committed \subseteq v
  BY StoreNoJob DEF StoreInv, StoreTypes, DocumentInv, Store!Decoded, Store!Contents
<1>2. storeJob[p] \in Store!Jobs /\ storeJob[p].value \in Store!Valid /\ storeJob[p].kind # "none"
      /\ HolderInv(p) /\ RepairInv(p)
  BY DEF StoreInv, StoreTypes, HolderInv
<1>3. CASE storeJob[p].kind = "load"
  BY <1>3, StoreEnd DEF Store!Loaded
<1>4. CASE storeJob[p].kind # "load"
  <2>0. lock' = lock /\ (storeJob[p].kind # "profile" => lock = p)
    BY <1>2, <1>4 DEF Store!Loaded, HolderInv, Store!Jobs, Store!Kinds
  <2>1. PICK at \in {"save", "compare", "copy", "restore"}, j \in Store!Jobs :
          /\ Store!GotoWith(p, at, j) /\ j.kind = storeJob[p].kind
          /\ j.value \in Store!Valid /\ (Changing(p) => committed \subseteq j.value)
          /\ at = "save" => j.kind \in {"change", "profile"}
          /\ at = "compare" => j.kind = "edit"
          /\ at = "copy" => j.kind = "backup"
          /\ at = "restore" => j.kind = "restore"
    <3>1. CASE storeJob[p].kind \in {"change", "profile"}
      <4> DEFINE j == [storeJob[p] EXCEPT !.value = storeJob[p].value \cup v]
      <4>1. j \in Store!Jobs /\ j.kind = storeJob[p].kind /\ j.value = storeJob[p].value \cup v
        BY <1>1, <1>2, <3>1 DEF Store!Jobs, Store!Contents, Store!Valid
      <4>2. Store!GotoWith(p, "save", j)
        BY <3>1 DEF Store!Loaded
      <4> QED
        BY <1>1, <1>2, <3>1, <4>1, <4>2 DEF Store!Valid
    <3>2. CASE storeJob[p].kind = "edit"
      <4> DEFINE j == [storeJob[p] EXCEPT !.seen = v, !.value = storeJob[p].value \cup v]
      <4>1. j \in Store!Jobs /\ j.kind = "edit" /\ j.value = storeJob[p].value \cup v
        BY <1>1, <1>2, <3>2 DEF Store!Jobs, Store!Contents, Store!Valid
      <4>2. Store!GotoWith(p, "compare", j)
        BY <3>2 DEF Store!Loaded
      <4> QED
        BY <1>1, <1>2, <3>2, <4>1, <4>2 DEF Store!Valid
    <3>3. CASE storeJob[p].kind = "backup"
      <4> DEFINE j == [storeJob[p] EXCEPT !.value = v]
      <4>1. j \in Store!Jobs /\ j.kind = "backup" /\ j.value = v
        BY <1>1, <1>2, <3>3 DEF Store!Jobs, Store!Contents
      <4>2. Store!GotoWith(p, "copy", j)
        BY <3>3 DEF Store!Loaded
      <4> QED
        BY <1>1, <3>3, <4>1, <4>2
    <3>4. CASE storeJob[p].kind = "restore"
      <4> DEFINE j == [storeJob[p] EXCEPT !.seen = v]
      <4>1. j \in Store!Jobs /\ j.kind = "restore" /\ j.value = storeJob[p].value
        BY <1>1, <1>2, <3>4 DEF Store!Jobs, Store!Contents
      <4>2. Store!GotoWith(p, "restore", j)
        BY <3>4 DEF Store!Loaded
      <4> QED
        BY <1>2, <3>4, <4>1, <4>2 DEF Changing
    <3> QED
      BY <1>2, <1>4, <3>1, <3>2, <3>3, <3>4 DEF Store!Jobs, Store!Kinds
  <2>2. /\ Alone(p) /\ storePc'[p] = at /\ storeJob'[p] = j
        /\ storePc' \in [Processes -> Store!PCs] /\ storeJob' \in [Processes -> Store!Jobs]
    BY <2>1, StoreGotoWith DEF StoreInv, Store!PCs
  <2>3. HolderInv(p)'
    BY <2>0, <2>1, <2>2 DEF HolderInv, Changing
  <2>4. ChangeInv(p)'
    BY <2>1, <2>2 DEF ChangeInv, Changing
  <2>5. RepairInv(p)'
    BY <2>1, <2>2 DEF RepairInv
  <2>6. LockMoves(p) /\ lock' \in Processes \cup {NoProc}
    BY <2>0 DEF LockMoves, StoreInv, StoreTypes
  <2> QED
    BY <2>1, <2>2, <2>3, <2>4, <2>5, <2>6
<1> QED
  BY <1>3, <1>4

\* A step that changes no document, backup or count.
LEMMA StoreQuiet ==
  ASSUME StoreInv, NEW p \in Processes, Alone(p), LockMoves(p), lock' \in Processes \cup {NoProc},
         storePc' \in [Processes -> Store!PCs], storeJob' \in [Processes -> Store!Jobs],
         HolderInv(p)', ChangeInv(p)', RepairInv(p)',
         UNCHANGED <<doc, saves, copy, changes, damage, committed, storeBefore, mixed>>
  PROVE  StoreInv'
<1>1. StoreTypes'
  BY DEF StoreInv, StoreTypes
<1>2. DocumentInv'
  BY DEF StoreInv, DocumentInv
<1> QED
  BY <1>1, <1>2, StoreStep DEF Unmixed

\* Next step, same locals.
LEMMA StoreGoes ==
  ASSUME StoreInv, NEW p \in Processes, NEW at \in Store!PCs, Store!Goto(p, at), UNCHANGED lock
  PROVE  /\ Alone(p) /\ LockMoves(p) /\ lock' \in Processes \cup {NoProc}
         /\ storePc'[p] = at /\ storeJob' = storeJob
         /\ storePc' \in [Processes -> Store!PCs] /\ storeJob' \in [Processes -> Store!Jobs]
BY StoreGoto DEF StoreInv, StoreTypes, LockMoves

LEMMA StoreBeginStep ==
  ASSUME StoreInv, NEW p \in Processes, NEW kind \in Store!Kinds \ {"none"}, Store!Begin(p, kind)
  PROVE  StoreInv'
<1> DEFINE j == [Store!NoJob EXCEPT !.kind = kind, !.value = IF kind \in Store!Issuing THEN {changes'} ELSE {}]
<1>1. changes' \in 0 .. MaxChanges /\ (kind \in Store!Issuing => changes' \in 1 .. MaxChanges)
  BY DEF StoreInv, StoreTypes, Store!Begin
<1>2. j \in Store!Jobs /\ j.kind = kind /\ j.value \in Store!Valid
  BY <1>1, StoreNoJob DEF Store!Jobs, Store!Contents, Store!Valid
<1>3. /\ Alone(p) /\ storePc'[p] = "load" /\ storeJob'[p] = j
      /\ storePc' \in [Processes -> Store!PCs] /\ storeJob' \in [Processes -> Store!Jobs]
  BY <1>2, StoreGotoWith DEF Store!Begin, StoreInv, Store!PCs
<1>4. /\ LockMoves(p) /\ lock' \in Processes \cup {NoProc} /\ (kind \notin Store!Unlocked => lock' = p)
  BY DEF Store!Begin, StoreInv, StoreTypes, LockMoves, Store!L!TryAcquireOk, Store!L!Free
<1>5. UNCHANGED <<doc, saves, copy, damage, committed, storeBefore, mixed>>
  BY DEF Store!Begin
<1>6. StoreTypes'
  BY <1>1, <1>3, <1>4, <1>5 DEF StoreInv, StoreTypes
<1>7. DocumentInv'
  BY <1>1, <1>5 DEF StoreInv, StoreTypes, DocumentInv
<1>8. HolderInv(p)' /\ ChangeInv(p)'
  BY <1>2, <1>3, <1>4 DEF HolderInv, ChangeInv
<1>9. RepairInv(p)'
  BY <1>3 DEF RepairInv
<1> QED
  BY <1>3, <1>4, <1>5, <1>6, <1>7, <1>8, <1>9, StoreStep DEF Unmixed

LEMMA StoreLoadStep ==
  ASSUME StoreInv, NEW p \in Processes, Store!Load(p) \/ Store!Reload(p)
  PROVE  StoreInv'
<1>1. UNCHANGED <<doc, saves, copy, changes, damage, committed, storeBefore, mixed>>
  BY DEF Store!Load, Store!Reload
<1>2. CASE doc # Corrupt /\ Store!Loaded(p, Store!Decoded(doc))
  BY <1>2, StoreLoaded, StoreQuiet DEF Store!Load, Store!Reload
<1>3. CASE Store!Load(p) /\ UNCHANGED lock /\ Store!Goto(p, "preserve")
  <2>1. /\ Alone(p) /\ LockMoves(p) /\ lock' \in Processes \cup {NoProc}
        /\ storePc'[p] = "preserve" /\ storeJob' = storeJob
        /\ storePc' \in [Processes -> Store!PCs] /\ storeJob' \in [Processes -> Store!Jobs]
    BY <1>3, StoreGoes DEF Store!PCs
  <2>2. HolderInv(p)' /\ ChangeInv(p)' /\ RepairInv(p)'
    BY <1>3, <2>1 DEF Store!Load, StoreInv, HolderInv, ChangeInv, RepairInv, Changing
  <2> QED
    BY <1>1, <2>1, <2>2, StoreQuiet
<1>4. CASE Store!End(p)
  BY <1>1, <1>4, StoreEnd, StoreQuiet
<1> QED
  BY <1>2, <1>3, <1>4 DEF Store!Load, Store!Reload

LEMMA StorePreserveStep ==
  ASSUME StoreInv, NEW p \in Processes, Store!Preserve(p)
  PROVE  StoreInv'
<1>1. UNCHANGED <<doc, saves, copy, changes, damage, committed, storeBefore, mixed>>
  BY DEF Store!Preserve
<1>2. CASE UNCHANGED lock /\ Store!Goto(p, "choose")
  <2>1. /\ Alone(p) /\ LockMoves(p) /\ lock' \in Processes \cup {NoProc}
        /\ storePc'[p] = "choose" /\ storeJob' = storeJob
        /\ storePc' \in [Processes -> Store!PCs] /\ storeJob' \in [Processes -> Store!Jobs]
    BY <1>2, StoreGoes DEF Store!PCs
  <2>2. HolderInv(p)' /\ ChangeInv(p)' /\ RepairInv(p)'
    BY <1>2, <2>1 DEF Store!Preserve, StoreInv, HolderInv, ChangeInv, RepairInv, Changing
  <2> QED
    BY <1>1, <2>1, <2>2, StoreQuiet
<1>3. CASE Store!End(p)
  BY <1>1, <1>3, StoreEnd, StoreQuiet
<1> QED
  BY <1>2, <1>3 DEF Store!Preserve

LEMMA NewestType ==
  ASSUME StoreTypes, saves # <<>>
  PROVE  Store!Newest(saves) \in Store!Valid
BY DEF StoreTypes, Store!Newest

LEMMA StoreChooseStep ==
  ASSUME StoreInv, NEW p \in Processes, Store!Choose(p)
  PROVE  StoreInv'
<1>1. UNCHANGED <<doc, saves, copy, changes, damage, committed, storeBefore, mixed>>
  BY DEF Store!Choose
<1> DEFINE j == [storeJob[p] EXCEPT !.seen = Store!Newest(saves)]
<1>2. CASE saves # <<>> /\ UNCHANGED lock /\ Store!GotoWith(p, "repair", j)
  <2>1. j \in Store!Jobs /\ j.kind = storeJob[p].kind /\ j.value = storeJob[p].value /\ j.seen \in Store!Valid
    BY <1>2, NewestType DEF StoreInv, StoreTypes, Store!Jobs, Store!Contents
  <2>2. /\ Alone(p) /\ LockMoves(p) /\ lock' \in Processes \cup {NoProc}
        /\ storePc'[p] = "repair" /\ storeJob'[p] = j
        /\ storePc' \in [Processes -> Store!PCs] /\ storeJob' \in [Processes -> Store!Jobs]
    BY <1>2, <2>1, StoreGotoWith DEF StoreInv, StoreTypes, LockMoves, Store!PCs
  <2>3. HolderInv(p)' /\ ChangeInv(p)' /\ RepairInv(p)'
    BY <1>1, <1>2, <2>1, <2>2
       DEF Store!Choose, StoreInv, DocumentInv, HolderInv, ChangeInv, RepairInv, Changing
  <2> QED
    BY <1>1, <2>2, <2>3, StoreQuiet
<1>3. CASE Store!End(p)
  BY <1>1, <1>3, StoreEnd, StoreQuiet
<1> QED
  BY <1>2, <1>3 DEF Store!Choose

LEMMA StoreRepairStep ==
  ASSUME StoreInv, NEW p \in Processes, Store!Repair(p)
  PROVE  StoreInv'
<1>1. UNCHANGED <<saves, copy, changes, damage, storeBefore>>
  BY DEF Store!Repair
<1>2. storePc[p] = "repair" /\ storeJob[p].seen \in Store!Valid /\ HolderInv(p)
  BY DEF StoreInv, HolderInv, Store!Repair
<1>3. CASE UNCHANGED <<doc, committed, mixed>> /\ Store!End(p)
  BY <1>1, <1>3, StoreEnd, StoreQuiet
<1>4. CASE /\ doc' = storeJob[p].seen /\ committed' = committed \cap doc'
           /\ mixed' = (mixed \/ doc # Corrupt)
  <2>1. /\ Alone(p) /\ LockMoves(p) /\ lock' \in Processes \cup {NoProc}
        /\ storePc' \in [Processes -> Store!PCs] /\ storeJob' \in [Processes -> Store!Jobs]
        /\ HolderInv(p)' /\ ChangeInv(p)' /\ RepairInv(p)'
    <3>1. CASE Store!End(p)
      BY <3>1, StoreEnd
    <3>2. CASE UNCHANGED lock /\ Store!Goto(p, "reload")
      <4>1. /\ Alone(p) /\ LockMoves(p) /\ lock' \in Processes \cup {NoProc}
            /\ storePc'[p] = "reload" /\ storeJob' = storeJob
            /\ storePc' \in [Processes -> Store!PCs] /\ storeJob' \in [Processes -> Store!Jobs]
        BY <3>2, StoreGoes DEF Store!PCs
      <4>2. HolderInv(p)' /\ ChangeInv(p)' /\ RepairInv(p)'
        BY <1>1, <1>2, <3>2, <4>1 DEF HolderInv, ChangeInv, RepairInv, Changing
      <4> QED
        BY <4>1, <4>2
    <3> QED
      BY <3>1, <3>2 DEF Store!Repair
  <2>2. doc' \in Store!Contents /\ committed' \in Store!Valid /\ committed' \subseteq doc' /\ committed' \subseteq committed
    BY <1>2, <1>4 DEF Store!Contents, Store!Valid
  <2>3. mixed' \in BOOLEAN /\ (mixed => mixed')
    BY <1>4, Zenon
  <2>4. StoreTypes'
    BY <1>1, <2>1, <2>2, <2>3 DEF StoreInv, StoreTypes
  <2>5. DocumentInv'
    BY <1>1, <1>2, <1>4 DEF StoreInv, DocumentInv, Store!Decoded
  <2> QED
    BY <1>1, <2>1, <2>2, <2>3, <2>4, <2>5, StoreStep DEF Unmixed
<1> QED
  BY <1>3, <1>4 DEF Store!Repair

LEMMA StoreSaveStep ==
  ASSUME StoreInv, NEW p \in Processes, Store!Save(p)
  PROVE  StoreInv'
<1>1. UNCHANGED <<doc, copy, changes, damage, committed>>
  BY DEF Store!Save
<1>2. storePc[p] = "save" /\ Changing(p) /\ HolderInv(p) /\ ChangeInv(p)
  BY DEF StoreInv, HolderInv, Store!Save
<1>3. mixed' \in BOOLEAN /\ (mixed => mixed')
  <2>1. mixed' = (mixed \/ \E q \in Processes : storePc[q] = "repair")
    BY DEF Store!Save
  <2> QED
    BY <2>1, Zenon
<1>4. Unmixed(p)
  BY <1>1, <1>3 DEF Unmixed, Store!Save
<1>5. /\ saves' \in Seq(Store!Valid)
      /\ saves' # <<>> => storeBefore' = Store!Newest(saves')
  <2>1. CASE UNCHANGED <<saves, storeBefore>>
    BY <2>1 DEF StoreInv, StoreTypes, DocumentInv, Store!Newest
  <2>2. CASE Store!Readable(doc) /\ saves' = Append(saves, doc) /\ storeBefore' = doc
    <3>1. doc \in Store!Valid
      BY <2>2 DEF Store!Readable, StoreInv, StoreTypes, Store!Contents
    <3> QED
      BY <2>2, <3>1 DEF StoreInv, StoreTypes, Store!Newest
  <2> QED
    BY <2>1, <2>2 DEF Store!Save
<1>6. DocumentInv'
  BY <1>1, <1>5 DEF StoreInv, DocumentInv
<1>7. /\ Alone(p) /\ LockMoves(p) /\ lock' \in Processes \cup {NoProc}
      /\ storePc' \in [Processes -> Store!PCs] /\ storeJob' \in [Processes -> Store!Jobs]
      /\ HolderInv(p)' /\ ChangeInv(p)' /\ RepairInv(p)'
  <2>1. CASE Store!End(p)
    BY <2>1, StoreEnd
  <2>2. CASE UNCHANGED lock /\ Store!Goto(p, "write")
    <3>1. /\ Alone(p) /\ LockMoves(p) /\ lock' \in Processes \cup {NoProc}
          /\ storePc'[p] = "write" /\ storeJob' = storeJob
          /\ storePc' \in [Processes -> Store!PCs] /\ storeJob' \in [Processes -> Store!Jobs]
      BY <2>2, StoreGoes DEF Store!PCs
    <3>2. HolderInv(p)' /\ ChangeInv(p)' /\ RepairInv(p)'
      BY <1>1, <1>2, <1>3, <2>2, <3>1 DEF HolderInv, ChangeInv, RepairInv, Changing
    <3> QED
      BY <3>1, <3>2
  <2> QED
    BY <2>1, <2>2 DEF Store!Save
<1>8. StoreTypes'
  BY <1>1, <1>3, <1>5, <1>7 DEF StoreInv, StoreTypes
<1> QED
  BY <1>4, <1>6, <1>7, <1>8, StoreStep

\* What was replaced without mixing: nobody else was about to save.
LEMMA StoreReplaced ==
  ASSUME StoreInv, NEW p \in Processes, storePc[p] \in {"write", "replace"},
         Store!Replaced(p), UNCHANGED storeBefore
  PROVE  /\ doc' \in Store!Valid /\ committed' = doc'
         /\ mixed' \in BOOLEAN /\ Unmixed(p)
         /\ storePc[p] = "write" /\ ~mixed' => committed \subseteq committed'
<1>1. /\ storeJob[p].value \in Store!Valid /\ HolderInv(p) /\ ChangeInv(p)
      /\ doc' = storeJob[p].value /\ committed' = doc'
  BY DEF StoreInv, HolderInv, Store!Replaced
<1>2. mixed' = (mixed \/ \E q \in Processes \ {p} :
                  Store!AboutToSave(q) /\ "profile" \in {storeJob[p].kind, storeJob[q].kind})
  BY DEF Store!Replaced
<1>3. mixed' \in BOOLEAN /\ (mixed => mixed')
  BY <1>2, Zenon
<1>4. ASSUME ~mixed', NEW q \in Processes \ {p}, Store!AboutToSave(q) PROVE FALSE
  <2>1. storeJob[p].kind # "profile" /\ storeJob[q].kind # "profile"
    BY <1>2, <1>4
  <2>2. lock = p
    BY <1>1, <2>1 DEF HolderInv, Changing
  <2>3. lock = q
    BY <1>4, <2>1 DEF StoreInv, HolderInv
  <2> QED
    BY <2>2, <2>3
<1>5. storePc[p] = "write" /\ ~mixed' => committed \subseteq committed'
  BY <1>1, <1>3 DEF HolderInv, ChangeInv, Changing
<1> QED
  BY <1>1, <1>3, <1>4, <1>5 DEF Unmixed

LEMMA StoreWriteStep ==
  ASSUME StoreInv, NEW p \in Processes, Store!Write(p)
  PROVE  StoreInv'
<1>1. UNCHANGED <<saves, copy, changes, damage, storeBefore>>
  BY DEF Store!Write
<1>2. storePc[p] = "write" /\ Changing(p) /\ HolderInv(p)
  BY DEF StoreInv, HolderInv, Store!Write
<1>3. CASE Store!NotReplaced /\ Store!End(p)
  BY <1>1, <1>3, StoreEnd, StoreQuiet DEF Store!NotReplaced
<1>4. CASE Store!Replaced(p)
  <2>1. /\ Alone(p) /\ LockMoves(p) /\ lock' \in Processes \cup {NoProc}
        /\ storePc' \in [Processes -> Store!PCs] /\ storeJob' \in [Processes -> Store!Jobs]
        /\ HolderInv(p)' /\ ChangeInv(p)' /\ RepairInv(p)'
    <3>1. CASE Store!End(p)
      BY <3>1, StoreEnd
    <3>2. CASE UNCHANGED lock /\ Store!Goto(p, "prune")
      <4>1. /\ Alone(p) /\ LockMoves(p) /\ lock' \in Processes \cup {NoProc}
            /\ storePc'[p] = "prune" /\ storeJob' = storeJob
            /\ storePc' \in [Processes -> Store!PCs] /\ storeJob' \in [Processes -> Store!Jobs]
        BY <3>2, StoreGoes DEF Store!PCs
      <4>2. HolderInv(p)' /\ ChangeInv(p)' /\ RepairInv(p)'
        BY <1>2, <3>2, <4>1 DEF HolderInv, ChangeInv, RepairInv, Changing
      <4> QED
        BY <4>1, <4>2
    <3> QED
      BY <1>2, <1>4, <3>1, <3>2 DEF Store!Write
  <2>2. doc' \in Store!Valid /\ committed' = doc' /\ mixed' \in BOOLEAN /\ Unmixed(p)
    BY <1>1, <1>2, <1>4, StoreReplaced
  <2>3. StoreTypes'
    BY <1>1, <2>1, <2>2 DEF StoreInv, StoreTypes, Store!Contents
  <2>4. DocumentInv'
    BY <1>1, <2>2 DEF StoreInv, DocumentInv, Store!Decoded
  <2> QED
    BY <2>1, <2>2, <2>3, <2>4, StoreStep
<1> QED
  BY <1>3, <1>4 DEF Store!Write

\* Pruning keeps the newest backup.
LEMMA KeepNewestKeeps ==
  ASSUME saves \in Seq(Store!Valid), Len(saves) > Retention
  PROVE  /\ Store!KeepNewest(saves) \in Seq(Store!Valid) /\ Len(Store!KeepNewest(saves)) <= Len(saves)
         /\ Store!KeepNewest(saves) # <<>>
         /\ Store!Newest(Store!KeepNewest(saves)) = Store!Newest(saves)
<1> DEFINE m == Len(saves)
           n == m - Retention + 1
           s == SubSeq(saves, n, m)
<1>1. m \in Nat /\ n \in 1 .. m /\ Retention \in Nat /\ Retention > 0
  OBVIOUS
<1>2. s \in Seq(Store!Valid) /\ Len(s) = Retention
  BY <1>1
<1>3. s[Retention] = saves[m]
  BY <1>1
<1>4. Store!KeepNewest(saves) = s
  BY DEF Store!KeepNewest
<1>5. Store!Newest(s) = s[Retention] /\ Store!Newest(saves) = saves[m]
  BY <1>2 DEF Store!Newest
<1>6. s # <<>>
  BY <1>1, <1>2
<1> HIDE DEF s
<1> QED
  BY <1>2, <1>3, <1>4, <1>5

LEMMA StorePruneStep ==
  ASSUME StoreInv, NEW p \in Processes, Store!Prune(p)
  PROVE  StoreInv'
<1>1. UNCHANGED <<doc, copy, changes, damage, committed, storeBefore, mixed>> /\ Store!End(p)
  BY DEF Store!Prune
<1>2. saves \in Seq(Store!Valid)
  BY DEF StoreInv, StoreTypes
<1>3. /\ saves' \in Seq(Store!Valid) /\ Len(saves') <= Len(saves)
      /\ saves' # <<>> => saves # <<>> /\ Store!Newest(saves') = Store!Newest(saves)
  <2>1. CASE saves' = saves
    BY <1>2, <2>1
  <2>2. CASE Len(saves) > Retention /\ saves' = Store!KeepNewest(saves)
    BY <1>2, <2>2, KeepNewestKeeps
  <2> QED
    BY <2>1, <2>2 DEF Store!Prune
<1>4. StoreTypes'
  BY <1>1, <1>3, StoreEnd DEF StoreInv, StoreTypes
<1>5. DocumentInv'
  BY <1>1, <1>3 DEF StoreInv, StoreTypes, DocumentInv
<1> QED
  BY <1>1, <1>4, <1>5, StoreEnd, StoreStep DEF Unmixed

LEMMA StoreCompareStep ==
  ASSUME StoreInv, NEW p \in Processes, Store!Compare(p)
  PROVE  StoreInv'
<1>1. UNCHANGED <<doc, saves, copy, changes, damage, committed, storeBefore, mixed>>
  BY DEF Store!Compare
<1>2. CASE UNCHANGED lock /\ Store!Goto(p, "copy")
  <2>1. /\ Alone(p) /\ LockMoves(p) /\ lock' \in Processes \cup {NoProc}
        /\ storePc'[p] = "copy" /\ storeJob' = storeJob
        /\ storePc' \in [Processes -> Store!PCs] /\ storeJob' \in [Processes -> Store!Jobs]
    BY <1>2, StoreGoes DEF Store!PCs
  <2>2. HolderInv(p)' /\ ChangeInv(p)' /\ RepairInv(p)'
    BY <1>2, <2>1 DEF Store!Compare, StoreInv, HolderInv, ChangeInv, RepairInv, Changing
  <2> QED
    BY <1>1, <2>1, <2>2, StoreQuiet
<1>3. CASE Store!End(p)
  BY <1>1, <1>3, StoreEnd, StoreQuiet
<1> QED
  BY <1>2, <1>3 DEF Store!Compare

LEMMA StoreCopyStep ==
  ASSUME StoreInv, NEW p \in Processes, Store!Copy(p)
  PROVE  StoreInv'
<1>1. UNCHANGED <<doc, saves, changes, damage, committed, storeBefore, mixed>>
  BY DEF Store!Copy
<1>2. copy' \in [content: Store!Valid, whole: BOOLEAN]
  <2>1. CASE doc # Corrupt /\ copy' = [content |-> Store!Decoded(doc), whole |-> TRUE]
    <3>1. Store!Decoded(doc) \in Store!Valid
      BY <2>1, StoreNoJob DEF StoreInv, StoreTypes, Store!Decoded, Store!Contents
    <3> QED
      BY <2>1, <3>1
  <2>2. CASE copy' \in {copy, [copy EXCEPT !.whole = FALSE]}
    BY <2>2 DEF StoreInv, StoreTypes
  <2> QED
    BY <2>1, <2>2 DEF Store!Copy
<1>3. /\ Alone(p) /\ LockMoves(p) /\ lock' \in Processes \cup {NoProc}
      /\ storePc' \in [Processes -> Store!PCs] /\ storeJob' \in [Processes -> Store!Jobs]
      /\ HolderInv(p)' /\ ChangeInv(p)' /\ RepairInv(p)'
  <2>1. CASE Store!End(p)
    BY <2>1, StoreEnd
  <2>2. CASE UNCHANGED lock /\ storeJob[p].kind = "edit" /\ Store!Goto(p, "save")
    <3>1. /\ Alone(p) /\ LockMoves(p) /\ lock' \in Processes \cup {NoProc}
          /\ storePc'[p] = "save" /\ storeJob' = storeJob
          /\ storePc' \in [Processes -> Store!PCs] /\ storeJob' \in [Processes -> Store!Jobs]
      BY <2>2, StoreGoes DEF Store!PCs
    <3> QED
      BY <2>2, <3>1 DEF Store!Copy, StoreInv, HolderInv, ChangeInv, RepairInv, Changing
  <2>3. CASE UNCHANGED lock /\ storeJob[p].kind = "restore" /\ Store!Goto(p, "replace")
    <3>1. /\ Alone(p) /\ LockMoves(p) /\ lock' \in Processes \cup {NoProc}
          /\ storePc'[p] = "replace" /\ storeJob' = storeJob
          /\ storePc' \in [Processes -> Store!PCs] /\ storeJob' \in [Processes -> Store!Jobs]
      BY <2>3, StoreGoes DEF Store!PCs
    <3> QED
      BY <2>3, <3>1 DEF StoreInv, HolderInv, ChangeInv, RepairInv, Changing
  <2>4. storePc[p] = "copy" /\ storeJob[p].kind \in {"edit", "backup", "restore"}
    BY DEF Store!Copy, StoreInv, HolderInv
  <2> QED
    BY <2>1, <2>2, <2>3, <2>4 DEF Store!Copy
<1>4. StoreTypes'
  BY <1>1, <1>2, <1>3 DEF StoreInv, StoreTypes
<1>5. DocumentInv'
  BY <1>1 DEF StoreInv, DocumentInv
<1> QED
  BY <1>1, <1>3, <1>4, <1>5, StoreStep DEF Unmixed

LEMMA StoreRestoreStep ==
  ASSUME StoreInv, NEW p \in Processes, Store!Restore(p)
  PROVE  StoreInv'
<1>1. UNCHANGED <<doc, saves, copy, changes, damage, committed, storeBefore, mixed>>
  BY DEF Store!Restore
<1> DEFINE j == [storeJob[p] EXCEPT !.value = copy.content]
           at == IF doc = Missing THEN "replace" ELSE "copy"
<1>2. CASE UNCHANGED lock /\ Store!GotoWith(p, at, j)
  <2>1. j \in Store!Jobs /\ j.kind = storeJob[p].kind /\ j.value \in Store!Valid
    BY DEF StoreInv, StoreTypes, Store!Jobs, Store!Contents
  <2>2. /\ Alone(p) /\ LockMoves(p) /\ lock' \in Processes \cup {NoProc}
        /\ storePc'[p] = at /\ storeJob'[p] = j
        /\ storePc' \in [Processes -> Store!PCs] /\ storeJob' \in [Processes -> Store!Jobs]
    BY <1>2, <2>1, StoreGotoWith DEF StoreInv, StoreTypes, LockMoves, Store!PCs
  <2>3. storeJob[p].kind = "restore" /\ lock = p
    BY DEF Store!Restore, StoreInv, HolderInv
  <2>4. HolderInv(p)' /\ ChangeInv(p)' /\ RepairInv(p)'
    BY <1>2, <2>1, <2>2, <2>3 DEF HolderInv, ChangeInv, RepairInv, Changing
  <2> QED
    BY <1>1, <2>2, <2>4, StoreQuiet
<1>3. CASE Store!End(p)
  BY <1>1, <1>3, StoreEnd, StoreQuiet
<1> QED
  BY <1>2, <1>3 DEF Store!Restore

LEMMA StoreReplaceStep ==
  ASSUME StoreInv, NEW p \in Processes, Store!Replace(p)
  PROVE  StoreInv'
<1>1. UNCHANGED <<saves, copy, changes, damage, storeBefore>> /\ Store!End(p)
  BY DEF Store!Replace
<1>2. CASE Store!NotReplaced
  BY <1>1, <1>2, StoreEnd, StoreQuiet DEF Store!NotReplaced
<1>3. CASE Store!Replaced(p)
  <2>1. doc' \in Store!Valid /\ committed' = doc' /\ mixed' \in BOOLEAN /\ Unmixed(p)
    BY <1>1, <1>3, StoreReplaced DEF Store!Replace
  <2>2. StoreTypes'
    BY <1>1, <2>1, StoreEnd DEF StoreInv, StoreTypes, Store!Contents
  <2>3. DocumentInv'
    BY <1>1, <2>1 DEF StoreInv, DocumentInv, Store!Decoded
  <2> QED
    BY <1>1, <2>1, <2>2, <2>3, StoreEnd, StoreStep
<1> QED
  BY <1>2, <1>3 DEF Store!Replace

LEMMA StoreDieStep ==
  ASSUME StoreInv, NEW p \in Processes, Store!Die(p)
  PROVE  StoreInv'
BY StoreEnd, StoreQuiet DEF Store!Die

LEMMA StoreDamageStep ==
  ASSUME StoreInv, Store!Damage
  PROVE  StoreInv'
<1>1. UNCHANGED <<saves, copy, lock, storePc, storeJob, changes, committed, storeBefore, mixed>> /\ doc' = Corrupt
  BY DEF Store!Damage
<1>2. damage' \in 0 .. MaxDamage
  BY DEF Store!Damage, StoreInv, StoreTypes
<1>3. StoreTypes'
  BY <1>1, <1>2 DEF StoreInv, StoreTypes, Store!Contents
<1> QED
  BY <1>1, <1>3 DEF StoreInv, DocumentInv, HolderInv, ChangeInv, RepairInv, Changing

LEMMA StoreNextStep ==
  ASSUME StoreInv, Store!Next
  PROVE  StoreInv'
BY StoreBeginStep, StoreLoadStep, StorePreserveStep, StoreChooseStep, StoreRepairStep,
   StoreSaveStep, StoreWriteStep, StorePruneStep, StoreCompareStep, StoreCopyStep,
   StoreRestoreStep, StoreReplaceStep, StoreDieStep, StoreDamageStep DEF Store!Next

LEMMA StoreInitInv == Store!Init => StoreInv
<1> SUFFICES ASSUME Store!Init PROVE StoreInv
  OBVIOUS
<1>1. StoreTypes
  <2>0. {} \in Store!Valid /\ doc \in {Missing, {}} /\ saves = <<>> /\ committed = {}
    BY StoreNoJob DEF Store!Init
  <2>1. doc \in Store!Contents /\ saves \in Seq(Store!Valid) /\ committed \in Store!Valid
    BY <2>0 DEF Store!Contents
  <2>2. copy \in [content: Store!Valid, whole: BOOLEAN]
    BY StoreNoJob DEF Store!Init
  <2>3. mixed \in BOOLEAN
    BY DEF Store!Init
  <2>4. storePc \in [Processes -> Store!PCs] /\ storeJob \in [Processes -> Store!Jobs]
    BY StoreNoJob DEF Store!Init, Store!PCs
  <2>5. lock \in Processes \cup {NoProc} /\ changes \in 0 .. MaxChanges /\ damage \in 0 .. MaxDamage
    BY DEF Store!Init, Store!L!LockInit
  <2> QED
    BY <2>1, <2>2, <2>3, <2>4, <2>5 DEF StoreTypes
<1>2. DocumentInv
  BY DEF Store!Init, DocumentInv, Store!Decoded
<1>3. \A p \in Processes : HolderInv(p) /\ ChangeInv(p) /\ RepairInv(p)
  BY StoreNoJob DEF Store!Init, HolderInv, ChangeInv, RepairInv, Changing, Store!L!LockInit
<1> QED
  BY <1>1, <1>2, <1>3 DEF StoreInv

LEMMA StoreStays == StoreInv /\ [FilesNext]_<<part, vars, journalVars, otherFiles>> => StoreInv'
<1> SUFFICES ASSUME StoreInv, [FilesNext]_<<part, vars, journalVars, otherFiles>> PROVE StoreInv'
  OBVIOUS
<1>1. CASE UNCHANGED storeVars
  BY <1>1
     DEF storeVars, StoreInv, StoreTypes, DocumentInv, HolderInv, ChangeInv, RepairInv, Changing
<1>2. Store!Next \/ UNCHANGED storeVars
  BY DEF FilesNext, ProxyMoves, JournalMoves, SetupMoves, StoreMoves, ClaudeMoves, Rest,
     otherFiles
<1> QED
  BY <1>1, <1>2, StoreNextStep

\* The invariant of a document of PMux, as long as no repair and no save without the lock
\* has mixed with a save: what is about to be written has all that was saved, and who is
\* about to repair has the backup of the last save.
THEOREM StoreInvariance == FilesSpec => []StoreInv
<1>1. FilesInit => StoreInv
  BY StoreInitInv DEF FilesInit
<1> QED
  BY <1>1, StoreStays, PTL DEF FilesSpec

\* What the step of one process does to the document.
Stepped(q) ==
  /\ \A r \in Processes \ {q} : storePc'[r] = storePc[r]
  /\ storePc[q] = "repair" /\ doc' # doc => doc' = storeJob[q].seen
  /\ storePc[q] = "write" /\ storePc'[q] = "prune" /\ ~mixed' => committed \subseteq committed'

StepOf(q) ==
  \/ \E kind \in Store!Kinds \ {"none"} : Store!Begin(q, kind)
  \/ Store!Load(q) \/ Store!Preserve(q) \/ Store!Choose(q) \/ Store!Repair(q) \/ Store!Reload(q)
  \/ Store!Save(q) \/ Store!Write(q) \/ Store!Prune(q)
  \/ Store!Compare(q) \/ Store!Copy(q) \/ Store!Restore(q) \/ Store!Replace(q)
  \/ Store!Die(q)

\* The steps that go to another step than "prune" and come from another than "repair".
LEMMA OtherSteps ==
  ASSUME StoreInv, NEW q \in Processes, NEW at \in Store!PCs \ {"prune"}, NEW j,
         storePc[q] # "repair", Store!Goto(q, at) \/ Store!GotoWith(q, at, j)
  PROVE  Stepped(q)
BY DEF Stepped, StoreInv, StoreTypes, Store!Goto, Store!GotoWith

LEMMA StepsOfTheStore ==
  ASSUME StoreInv, NEW q \in Processes, StepOf(q)
  PROVE  Stepped(q)
<1>0. storePc \in [Processes -> Store!PCs]
  BY DEF StoreInv, StoreTypes
<1>1. ASSUME NEW kind \in Store!Kinds \ {"none"}, Store!Begin(q, kind)
      PROVE  Stepped(q)
  BY <1>1, OtherSteps DEF Store!Begin, Store!PCs
<1>2. CASE Store!Load(q) \/ Store!Reload(q)
  <2>1. UNCHANGED <<committed, mixed>> /\ storePc[q] \in {"load", "reload"}
    BY <1>2 DEF Store!Load, Store!Reload
  <2>2. CASE doc # Corrupt /\ Store!Loaded(q, Store!Decoded(doc))
    BY <2>1, <2>2, StoreLoaded DEF Stepped, Alone
  <2>3. CASE Store!Goto(q, "preserve") \/ Store!End(q)
    BY <2>1, <2>3, OtherSteps DEF Store!End, Store!PCs
  <2> QED
    BY <1>2, <2>2, <2>3 DEF Store!Load, Store!Reload
<1>3. CASE Store!Preserve(q) \/ Store!Choose(q)
  BY <1>3, OtherSteps DEF Store!Preserve, Store!Choose, Store!End, Store!PCs
<1>4. CASE Store!Repair(q)
  <2>1. storePc[q] = "repair" /\ (doc' = storeJob[q].seen \/ doc' = doc)
    BY <1>4 DEF Store!Repair
  <2>2. Store!Goto(q, "reload") \/ Store!End(q)
    BY <1>4 DEF Store!Repair
  <2> QED
    BY <1>0, <2>1, <2>2 DEF Store!Goto, Store!End, Store!GotoWith, Stepped
<1>5. CASE Store!Save(q)
  BY <1>5, OtherSteps DEF Store!Save, Store!End, Store!PCs
<1>6. CASE Store!Write(q)
  <2>1. storePc[q] = "write" /\ UNCHANGED storeBefore
    BY <1>6 DEF Store!Write
  <2>2. CASE Store!End(q)
    BY <2>1, <2>2, OtherSteps DEF Store!End, Store!PCs
  <2>3. CASE Store!Replaced(q) /\ Store!Goto(q, "prune")
    <3>1. storePc' = [storePc EXCEPT ![q] = "prune"]
      BY <2>3 DEF Store!Goto
    <3> QED
      BY <1>0, <2>1, <2>3, <3>1, StoreReplaced DEF Stepped
  <2> QED
    BY <1>6, <2>2, <2>3 DEF Store!Write
<1>7. CASE Store!Prune(q) \/ Store!Compare(q) \/ Store!Copy(q) \/ Store!Replace(q)
  <2>1. storePc[q] \in {"prune", "compare", "copy", "replace"}
    BY <1>7 DEF Store!Prune, Store!Compare, Store!Copy, Store!Replace
  <2>2. storePc[q] = "copy" => storeJob[q].kind \in {"edit", "backup", "restore"}
    BY DEF StoreInv, HolderInv
  <2>3. Store!End(q) \/ \E at \in {"copy", "save", "replace"} : Store!Goto(q, at)
    BY <1>7, <2>1, <2>2 DEF Store!Prune, Store!Compare, Store!Copy, Store!Replace
  <2> QED
    BY <2>1, <2>3, OtherSteps DEF Store!End, Store!PCs
<1>8. CASE Store!Restore(q)
  BY <1>8, OtherSteps DEF Store!Restore, Store!End, Store!PCs
<1>9. CASE Store!Die(q)
  <2>1. doc' = doc /\ Store!GotoWith(q, "idle", Store!NoJob)
    BY <1>9 DEF Store!Die, Store!End
  <2> QED
    BY <1>0, <2>1 DEF Stepped, Store!GotoWith
<1> QED
  BY <1>1, <1>2, <1>3, <1>4, <1>5, <1>6, <1>7, <1>8, <1>9 DEF StepOf

LEMMA StoreSteps ==
  ASSUME [FilesNext]_<<part, vars, journalVars, otherFiles>>
  PROVE  (\E q \in Processes : StepOf(q)) \/ Store!Damage \/ UNCHANGED storeVars
<1>1. Store!Next \/ UNCHANGED storeVars
  BY DEF FilesNext, ProxyMoves, JournalMoves, SetupMoves, StoreMoves, ClaudeMoves, Rest,
     otherFiles
<1>2. Store!Next => (\E q \in Processes : StepOf(q)) \/ Store!Damage
  BY DEF Store!Next, StepOf
<1> QED
  BY <1>1, <1>2

\* A process that goes from write to prune has written.
LEMMA PrunesWhatWasWritten ==
  ASSUME StoreInv, NEW p \in Processes, storePc[p] = "write", storePc'[p] = "prune", ~mixed',
         [FilesNext]_<<part, vars, journalVars, otherFiles>>
  PROVE  committed \subseteq committed'
<1>1. ~Store!Damage /\ ~UNCHANGED storeVars
  BY DEF Store!Damage, storeVars
<1>2. PICK q \in Processes : StepOf(q)
  BY <1>1, StoreSteps
<1> QED
  BY <1>2, StepsOfTheStore DEF Stepped

\* No change that was saved is lost to another process: what a command has saved holds
\* what the commands before it have saved (store.go:103), however often the document is
\* damaged and whoever dies in between, as long as saves have not mixed.
THEOREM ChangesAlwaysSurvive == FilesSpec => ChangesSurvive
<1>1. StoreInv /\ [FilesNext]_<<part, vars, journalVars, otherFiles>> =>
        [\A p \in Processes : storePc[p] = "write" /\ storePc'[p] = "prune" /\ ~mixed' =>
            committed \subseteq committed']_Store!vars
  BY PrunesWhatWasWritten
<1> QED
  BY <1>1, StoreInvariance, PTL DEF FilesSpec, ChangesSurvive, Store!ChangesSurvive

LEMMA RepairsWithTheLastSave ==
  ASSUME StoreInv, doc = Corrupt, doc' # doc, ~mixed,
         NEW p \in Processes, storePc[p] = "repair", storePc'[p] # "repair",
         [FilesNext]_<<part, vars, journalVars, otherFiles>>
  PROVE  doc' = storeBefore
<1>1. ~Store!Damage /\ ~UNCHANGED storeVars
  BY DEF Store!Damage, storeVars
<1>2. PICK q \in Processes : StepOf(q)
  BY <1>1, StoreSteps
<1>3. p = q
  BY <1>2, StepsOfTheStore DEF Stepped
<1> QED
  BY <1>2, <1>3, StepsOfTheStore DEF Stepped, StoreInv, RepairInv

\* However often it is damaged, a document comes back as the last save found it
\* (recovery.go:150), as long as saves have not mixed: the recovery takes no lock, and one
\* that has chosen its backup before the document was saved again goes further back.
THEOREM DamageLosesOneSave == FilesSpec => RepairGoesBackOneSave
<1>1. StoreInv /\ [FilesNext]_<<part, vars, journalVars, otherFiles>> =>
        [doc = Corrupt /\ doc' # doc /\ ~mixed
           /\ (\E p \in Processes : storePc[p] = "repair" /\ storePc'[p] # "repair")
           => doc' = storeBefore]_Store!vars
  BY RepairsWithTheLastSave
<1> QED
  BY <1>1, StoreInvariance, PTL DEF FilesSpec, RepairGoesBackOneSave, Store!RepairGoesBackOneSave

HIDE DEF DocumentAssumption, NoProcAssumption, MaxChangesAssumption, RetentionAssumption,
        Store!Changes, Store!files, Store!bounds, Store!history, Store!Stay, Store!Issuing,
        Store!Unlocked, Store!AboutToSave

-----------------------------------------------------------------------------
(* Managed setup                                                           *)

\* The steps of a setup that come after the one that ...
UnitIsThere == {"start", "status", "complete", "done"}              \* installs the service,
RefsAreThere == {"ck_service", "install"} \cup UnitIsThere          \* saves the references,
StateIsThere == {"refs"} \cup RefsAreThere                          \* saves the state,
ConfigIsThere == {"backup", "ck_config", "state"} \cup StateIsThere \* and writes the files,
KeyIsThere == {"config"} \cup ConfigIsThere
SidecarIsThere == {"management"} \cup KeyIsThere
RootIsThere == {"sidecar"} \cup SidecarIsThere
PointerIsThere == {"layout"} \cup RootIsThere                       \* points to the version,
SlotIsThere == {"pointer"} \cup PointerIsThere                      \* puts it in place,
ExtractIsNoted == {"x_file", "x_done", "slot"} \cup SlotIsThere     \* notes the extraction,
RecordIsThere ==                                                    \* makes the record.
  {"d_record", "d_file", "d_commit", "d_done", "verify", "x_record"} \cup ExtractIsNoted

\* The steps of an undo that come after the one that ...
PointerIsUndone == {"r_read", "r_service", "r_config", "r_extract", "r_partial", "r_asset", "r_clear", "refused", "failed"}
FilesAreUndone == {"u_pointer"} \cup PointerIsUndone
RefsAreUndone == {"u_files"} \cup FilesAreUndone
StateIsUndone == {"u_refs"} \cup RefsAreUndone
ServiceIsUndone == {"u_state"} \cup StateIsUndone

RecoverySteps == {"r_service", "r_config", "r_extract", "r_partial", "r_asset", "r_clear"}
SetupStage == {"begin"} \cup RecordIsThere
UndoStage == {"u_stop", "u_uninstall"} \cup (ServiceIsUndone \ PointerIsUndone)

Began(p) == setupJob[p].then = "failed"

NothingLeft ==
  /\ ~installed /\ ~referenced /\ ~current /\ ~setupUnit /\ ~setupRunning
  /\ files \cap Managed!InstanceFiles = {}

\* Who has the lock, where each kind of run is.
RunInv(p) ==
  /\ setupJob[p].then = "ready" <=> setupLock # p
  /\ setupJob[p].then = "ready" => setupPc[p] \in {"off", "ready", "r_read", "refused"} \cup RecoverySteps
  /\ setupJob[p].then = "load" => setupPc[p] \in {"r_read", "refused", "load", "already", "failed"} \cup RecoverySteps
  /\ Began(p) => setupPc[p] \in SetupStage \cup UndoStage \cup PointerIsUndone
  /\ setupPc[p] \in RecoverySteps => setupJob[p].mem # NoRecord
  /\ setupPc[p] \in {"r_partial", "r_asset", "r_clear"} => ~setupJob[p].mem.extract

\* While no setup has begun.
RestInv ==
  (\A p \in Processes : ~Began(p)) /\ ~kept =>
    IF installed /\ setupRecord = NoRecord THEN Managed!Whole
    ELSE (setupRecord # NoRecord /\ setupRecord.extract) \/ NothingLeft

\* The record while a command is at work.
HeldRecordInv(p) ==
  setupLock = p =>
    /\ setupPc[p] \in RecoverySteps => setupJob[p].mem = setupRecord
    /\ setupPc[p] \in {"load", "begin", "done"} => setupRecord = NoRecord
    /\ setupPc[p] \in RecordIsThere \ {"done"} => setupRecord # NoRecord
    /\ setupPc[p] \in ExtractIsNoted \ {"done"} => setupRecord # NoRecord /\ setupRecord.extract
    /\ setupPc[p] \in UndoStage => kept \/ (setupRecord # NoRecord /\ setupRecord.extract)

\* What a setup has done.
DoneInv(p) ==
  Began(p) =>
    /\ setupPc[p] \in SlotIsThere => slot
    /\ setupPc[p] \in PointerIsThere => current
    /\ setupPc[p] \in RootIsThere => "root" \in files
    /\ setupPc[p] \in SidecarIsThere => "sidecar" \in files
    /\ setupPc[p] \in KeyIsThere => "management" \in files
    /\ setupPc[p] \in ConfigIsThere => "config" \in files
    /\ setupPc[p] \in StateIsThere => installed
    /\ setupPc[p] \in RefsAreThere => referenced
    /\ setupPc[p] \in UnitIsThere => setupUnit

\* What a setup has not done yet or has undone.
UndoneInv(p) ==
  Began(p) /\ ~kept =>
    /\ ~setupJob[p].refs /\ ~setupJob[p].prev
    /\ setupPc[p] \in SetupStage \ PointerIsThere => NothingLeft
    /\ setupPc[p] \in SetupStage /\ ~setupJob[p].service => ~setupUnit /\ ~setupRunning
    /\ setupPc[p] \in ServiceIsUndone => ~setupUnit /\ ~setupRunning
    /\ setupPc[p] \in StateIsUndone => ~installed
    /\ setupPc[p] \in RefsAreUndone => ~referenced
    /\ setupPc[p] \in FilesAreUndone => files \cap Managed!InstanceFiles = {}
    /\ setupPc[p] \in PointerIsUndone => ~current

ClaimInv == RestInv /\ \A p \in Processes : HeldRecordInv(p) /\ DoneInv(p) /\ UndoneInv(p)

SetupTypes ==
  /\ setupLock \in Processes \cup {NoProc}
  /\ setupRecord \in Managed!Record \cup {NoRecord} /\ setups \in 0 .. MaxSetups
  /\ staged \subseteq {"partial", "asset", "binary"}
  /\ slot \in BOOLEAN /\ current \in BOOLEAN /\ installed \in BOOLEAN /\ referenced \in BOOLEAN
  /\ setupUnit \in BOOLEAN /\ setupRunning \in BOOLEAN /\ kept \in BOOLEAN /\ disturbed \in BOOLEAN
  /\ files \subseteq Managed!Files
  /\ setupPc \in [Processes -> Managed!PCs] /\ setupJob \in [Processes -> Managed!Jobs]

SetupInv ==
  /\ SetupTypes
  /\ \A p \in Processes : RunInv(p)
  /\ ~disturbed => ClaimInv

USE NoProcAssumption, MaxSetupsAssumption, SetupRecordAssumption DEF NoProcAssumption,
     MaxSetupsAssumption, SetupRecordAssumption, Managed!disk, Managed!state, Managed!service,
     Managed!history, UnitIsThere, RefsAreThere, StateIsThere, ConfigIsThere, KeyIsThere,
     SidecarIsThere, RootIsThere, PointerIsThere, SlotIsThere, ExtractIsNoted, RecordIsThere,
     PointerIsUndone, FilesAreUndone, RefsAreUndone, StateIsUndone, ServiceIsUndone,
     RecoverySteps, SetupStage, UndoStage
-----------------------------------------------------------------------------
\* The order of the steps, spelled out.
LEMMA SetupOrder ==
  /\ Managed!After(Managed!Setup, "load") = "begin"
  /\ Managed!After(Managed!Setup, "begin") = "d_record"
  /\ Managed!After(Managed!Setup, "d_record") = "d_file"
  /\ Managed!After(Managed!Setup, "d_file") = "d_commit"
  /\ Managed!After(Managed!Setup, "d_commit") = "d_done"
  /\ Managed!After(Managed!Setup, "d_done") = "verify"
  /\ Managed!After(Managed!Setup, "verify") = "x_record"
  /\ Managed!After(Managed!Setup, "x_record") = "x_file"
  /\ Managed!After(Managed!Setup, "x_file") = "x_done"
  /\ Managed!After(Managed!Setup, "x_done") = "slot"
  /\ Managed!After(Managed!Setup, "slot") = "pointer"
  /\ Managed!After(Managed!Setup, "pointer") = "layout"
  /\ Managed!After(Managed!Setup, "layout") = "sidecar"
  /\ Managed!After(Managed!Setup, "sidecar") = "management"
  /\ Managed!After(Managed!Setup, "management") = "config"
  /\ Managed!After(Managed!Setup, "config") = "backup"
  /\ Managed!After(Managed!Setup, "backup") = "ck_config"
  /\ Managed!After(Managed!Setup, "ck_config") = "state"
  /\ Managed!After(Managed!Setup, "state") = "refs"
  /\ Managed!After(Managed!Setup, "refs") = "ck_service"
  /\ Managed!After(Managed!Setup, "ck_service") = "install"
  /\ Managed!After(Managed!Setup, "install") = "start"
  /\ Managed!After(Managed!Setup, "start") = "status"
  /\ Managed!After(Managed!Setup, "status") = "complete"
  /\ Managed!After(Managed!Setup, "complete") = "done"
BY DEF Managed!After, Managed!Setup

LEMMA UndoOrder ==
  /\ Managed!After(Managed!Undo, "u_stop") = "u_uninstall"
  /\ Managed!After(Managed!Undo, "u_uninstall") = "u_state"
  /\ Managed!After(Managed!Undo, "u_state") = "u_refs"
  /\ Managed!After(Managed!Undo, "u_refs") = "u_files"
  /\ Managed!After(Managed!Undo, "u_files") = "u_pointer"
  /\ Managed!After(Managed!Undo, "u_pointer") = "r_read"
BY DEF Managed!After, Managed!Undo

LEMMA RecoveryOrder ==
  /\ Managed!After(Managed!Recovery, "r_read") = "r_service"
  /\ Managed!After(Managed!Recovery, "r_service") = "r_config"
  /\ Managed!After(Managed!Recovery, "r_config") = "r_extract"
  /\ Managed!After(Managed!Recovery, "r_extract") = "r_partial"
  /\ Managed!After(Managed!Recovery, "r_partial") = "r_asset"
  /\ Managed!After(Managed!Recovery, "r_asset") = "r_clear"
BY DEF Managed!After, Managed!Recovery

LEMMA SetupPCsAre ==
  Managed!PCs = {"off", "ready", "already", "failed", "refused", "load", "done"} \cup SetupStage \cup UndoStage
                  \cup {"r_read"} \cup RecoverySteps
<1>1. Managed!StepsOf(Managed!Setup) = {"load"} \cup SetupStage
  BY DEF Managed!StepsOf, Managed!Setup
<1>2. Managed!StepsOf(Managed!Undo) = UndoStage \cup {"r_read"}
  BY DEF Managed!StepsOf, Managed!Undo
<1>3. Managed!StepsOf(Managed!Recovery) = {"r_read"} \cup RecoverySteps
  BY DEF Managed!StepsOf, Managed!Recovery
<1> QED
  BY <1>1, <1>2, <1>3 DEF Managed!PCs

LEMMA BeforeLayout ==
  ASSUME NEW at
  PROVE  Managed!Before(Managed!Setup, at, "layout") <=> at \in {"load"} \cup (SetupStage \ PointerIsThere)
BY DEF Managed!Before, Managed!Setup

\* Only p moves.
OnlyOf(p) == \A q \in Processes \ {p} : setupPc'[q] = setupPc[q] /\ setupJob'[q] = setupJob[q]

LEMMA SetupGoto ==
  ASSUME SetupTypes, NEW p \in Processes, NEW at \in Managed!PCs, Managed!Goto(p, at)
  PROVE  /\ setupPc'[p] = at /\ setupPc' \in [Processes -> Managed!PCs]
         /\ \A q \in Processes \ {p} : setupPc'[q] = setupPc[q]
BY DEF SetupTypes, Managed!Goto

\* A call of a setup that succeeds, and one that fails.
LEMMA SetupOk ==
  ASSUME SetupTypes, NEW p \in Processes, setupPc[p] \in {"load"} \cup (SetupStage \ {"done"}), Managed!Ok(p)
  PROVE  /\ setupPc'[p] = Managed!After(Managed!Setup, setupPc[p]) /\ setupPc'[p] \in SetupStage
         /\ setupPc' \in [Processes -> Managed!PCs]
         /\ \A q \in Processes \ {p} : setupPc'[q] = setupPc[q]
<1>1. Managed!After(Managed!Setup, setupPc[p]) \in SetupStage
  BY SetupOrder
<1> QED
  BY <1>1, SetupPCsAre, SetupGoto DEF Managed!Ok

LEMMA SetupErr ==
  ASSUME SetupTypes, NEW p \in Processes, setupPc[p] \in SetupStage \ {"done"}, Managed!Err(p)
  PROVE  /\ setupPc[p] = "begin" => setupPc'[p] = "failed"
         /\ setupPc[p] \in RecordIsThere \ PointerIsThere => setupPc'[p] = "r_read"
         /\ setupPc[p] \in PointerIsThere => setupPc'[p] = IF setupJob[p].service THEN "u_stop" ELSE "u_state"
         /\ setupPc' \in [Processes -> Managed!PCs]
         /\ \A q \in Processes \ {p} : setupPc'[q] = setupPc[q]
<1>1. /\ setupPc[p] = "begin" => Managed!OnError(p) = "failed"
      /\ setupPc[p] \in RecordIsThere \ PointerIsThere => Managed!OnError(p) = "r_read"
      /\ setupPc[p] \in PointerIsThere => Managed!OnError(p) = IF setupJob[p].service THEN "u_stop" ELSE "u_state"
  BY BeforeLayout DEF Managed!OnError
<1>2. Managed!OnError(p) \in Managed!PCs
  BY <1>1, SetupPCsAre
<1> QED
  BY <1>1, <1>2, SetupGoto DEF Managed!Err

LEMMA SetupUndone ==
  ASSUME SetupTypes, NEW p \in Processes, setupPc[p] \in UndoStage, Managed!Undone(p)
  PROVE  /\ setupPc'[p] = Managed!After(Managed!Undo, setupPc[p])
         /\ setupPc'[p] \in UndoStage \cup {"r_read"}
         /\ setupPc' \in [Processes -> Managed!PCs]
         /\ \A q \in Processes \ {p} : setupPc'[q] = setupPc[q]
         /\ UNCHANGED <<setupLock, setupJob, disturbed>>
<1>1. Managed!After(Managed!Undo, setupPc[p]) \in UndoStage \cup {"r_read"}
  BY UndoOrder
<1> QED
  BY <1>1, SetupPCsAre, SetupGoto DEF Managed!Undone

\* A step of p keeps the invariant when it does so for p, and when it changes nothing on the
\* disk while another process has the lock.
LEMMA SetupMove ==
  ASSUME SetupInv, NEW p \in Processes, SetupTypes', OnlyOf(p), RunInv(p)',
         \/ setupLock' = setupLock
         \/ setupLock = NoProc /\ setupLock' = p
         \/ setupLock = p /\ setupLock' = NoProc,
         disturbed => disturbed',
         ~disturbed' => \/ setupLock \in {p, NoProc}
                        \/ UNCHANGED <<setupRecord, slot, current, files, installed, referenced, setupUnit,
                                        setupRunning, kept>>,
         ClaimInv /\ ~disturbed' => RestInv' /\ HeldRecordInv(p)' /\ DoneInv(p)' /\ UndoneInv(p)'
  PROVE  SetupInv'
<1>1. ASSUME NEW q \in Processes \ {p}
      PROVE  RunInv(q)'
  BY DEF SetupInv, RunInv, OnlyOf, Began
<1>2. ASSUME ~disturbed', NEW q \in Processes \ {p}
      PROVE  HeldRecordInv(q)' /\ DoneInv(q)' /\ UndoneInv(q)'
  <2>0. setupPc'[q] = setupPc[q] /\ setupJob'[q] = setupJob[q]
    BY DEF OnlyOf
  <2>1. HeldRecordInv(q) /\ DoneInv(q) /\ UndoneInv(q) /\ RunInv(q)
    BY <1>2 DEF SetupInv, ClaimInv
  <2>2. CASE setupLock = q
    <3>1. setupLock' = q /\ UNCHANGED <<setupRecord, slot, current, files, installed, referenced, setupUnit,
                                        setupRunning, kept>>
      BY <1>2, <2>2
    <3> QED
      BY <2>0, <2>1, <3>1 DEF HeldRecordInv, DoneInv, UndoneInv, Began, NothingLeft
  <2>3. CASE setupLock # q
    <3>1. ~Began(q)' /\ setupLock' # q
      BY <2>0, <2>1, <2>3 DEF RunInv, Began
    <3> QED
      BY <3>1 DEF HeldRecordInv, DoneInv, UndoneInv
  <2> QED
    BY <2>2, <2>3
<1> QED
  BY <1>1, <1>2 DEF SetupInv, ClaimInv

\* A step of a setup that has begun, or of its undo.
LEMMA SetupGoesOn ==
  ASSUME SetupInv, NEW p \in Processes, setupPc[p] \in SetupStage \cup UndoStage, SetupTypes',
         \A q \in Processes \ {p} : setupPc'[q] = setupPc[q] /\ setupJob'[q] = setupJob[q],
         setupPc'[p] \in SetupStage \cup UndoStage \cup {"r_read", "failed"},
         setupJob'[p].then = setupJob[p].then, UNCHANGED <<setupLock, disturbed>>,
         ClaimInv => HeldRecordInv(p)' /\ DoneInv(p)' /\ UndoneInv(p)'
  PROVE  SetupInv'
<1>1. Began(p) /\ setupLock = p
  <2>1. setupJob[p].then \in {"ready", "load", "failed"}
    BY DEF SetupInv, SetupTypes, Managed!Jobs
  <2> QED
    BY <2>1 DEF SetupInv, RunInv, Began
<1>2. Began(p)'
  BY <1>1 DEF Began
<1>3. RunInv(p)'
  BY <1>1 DEF RunInv, Began
<1>4. RestInv'
  BY <1>2 DEF RestInv
<1> QED
  BY <1>1, <1>3, <1>4, SetupMove DEF OnlyOf

\* What is known of it before the step.
LEMMA SetupUnderWay ==
  ASSUME SetupInv, NEW p \in Processes, setupPc[p] \in SetupStage \cup UndoStage
  PROVE  /\ SetupTypes /\ Began(p) /\ setupLock = p /\ setupJob[p] \in Managed!Jobs
         /\ ClaimInv => HeldRecordInv(p) /\ DoneInv(p) /\ UndoneInv(p)
<1>1. setupJob[p] \in Managed!Jobs /\ setupJob[p].then \in {"ready", "load", "failed"}
  BY DEF SetupInv, SetupTypes, Managed!Jobs
<1> QED
  BY <1>1 DEF SetupInv, RunInv, Began, ClaimInv

LEMMA PlannedIsRecord ==
  ASSUME SetupTypes
  PROVE  Managed!Planned \in Managed!Record /\ ~Managed!Planned.extract
BY DEF Managed!Planned, Managed!Record, Managed!Stages, Managed!Early, SetupTypes

LEMMA SetupBeginStep ==
  ASSUME SetupInv, NEW p \in Processes, Managed!Begin(p)
  PROVE  SetupInv'
<1>0. /\ setupPc[p] = "begin"
      /\ UNCHANGED <<setupLock, setups, staged, slot, current, files, installed, referenced, setupUnit,
                     setupRunning, setupJob, kept, disturbed>>
  BY DEF Managed!Begin
<1>1. /\ SetupTypes /\ Began(p) /\ setupLock = p
      /\ ClaimInv => HeldRecordInv(p) /\ DoneInv(p) /\ UndoneInv(p)
  BY <1>0, SetupUnderWay
<1>2. \/ /\ setupRecord' = Managed!Planned /\ setupPc'[p] = "d_record"
         /\ setupPc' \in [Processes -> Managed!PCs] /\ \A q \in Processes \ {p} : setupPc'[q] = setupPc[q]
      \/ /\ setupRecord' \in {setupRecord, Managed!Planned} /\ setupPc'[p] = "failed"
         /\ setupPc' \in [Processes -> Managed!PCs] /\ \A q \in Processes \ {p} : setupPc'[q] = setupPc[q]
  BY <1>1, SetupOk, SetupErr, SetupOrder DEF Managed!Begin, Managed!Base
<1>3. Managed!Planned \in Managed!Record
  BY <1>1, PlannedIsRecord
<1>4. SetupTypes'
  BY <1>0, <1>1, <1>2, <1>3 DEF SetupTypes
<1>5. ClaimInv => HeldRecordInv(p)' /\ DoneInv(p)' /\ UndoneInv(p)'
  BY <1>0, <1>1, <1>2, <1>3 DEF HeldRecordInv, DoneInv, UndoneInv, NothingLeft
<1> QED
  BY <1>0, <1>2, <1>4, <1>5, SetupGoesOn

LEMMA CheckpointedIs ==
  ASSUME SetupTypes, NEW at \in Managed!Checkpoints
  PROVE  /\ Managed!Checkpointed(at) \in Managed!Record
         /\ setupRecord # NoRecord /\ setupRecord.extract => Managed!Checkpointed(at).extract
         /\ at = "x_record" => Managed!Checkpointed(at).extract
<1>1. Managed!Base \in Managed!Record /\ (setupRecord # NoRecord => Managed!Base = setupRecord)
  BY PlannedIsRecord DEF SetupTypes, Managed!Base
<1>2. setups \in 0 .. MaxSetups
  BY DEF SetupTypes
<1> QED
  BY <1>1, <1>2
     DEF Managed!Checkpoints, Managed!Checkpointed, Managed!Record, Managed!Stages, Managed!Early

LEMMA SetupCheckpointStep ==
  ASSUME SetupInv, NEW p \in Processes, Managed!Checkpoint(p)
  PROVE  SetupInv'
<1>0. /\ setupPc[p] \in Managed!Checkpoints /\ setupPc[p] \in RecordIsThere \ {"done"}
      /\ UNCHANGED <<setupLock, setups, slot, current, files, installed, referenced, setupUnit,
                     setupRunning, setupJob, kept, disturbed>>
  BY DEF Managed!Checkpoint, Managed!Checkpoints
<1>1. /\ SetupTypes /\ Began(p) /\ setupLock = p
      /\ ClaimInv => HeldRecordInv(p) /\ DoneInv(p) /\ UndoneInv(p)
  BY <1>0, SetupUnderWay
<1> DEFINE r == Managed!Checkpointed(setupPc[p])
<1>2. /\ r \in Managed!Record
      /\ setupRecord # NoRecord /\ setupRecord.extract => r.extract
      /\ setupPc[p] = "x_record" => r.extract
  BY <1>0, <1>1, CheckpointedIs
<1>3. /\ setupPc' \in [Processes -> Managed!PCs] /\ \A q \in Processes \ {p} : setupPc'[q] = setupPc[q]
      /\ staged' \subseteq staged
      /\ \/ setupRecord' = r /\ setupPc'[p] = Managed!After(Managed!Setup, setupPc[p])
         \/ /\ setupRecord' \in {setupRecord, r}
            /\ setupPc[p] \in RecordIsThere \ PointerIsThere => setupPc'[p] = "r_read"
            /\ setupPc[p] \in PointerIsThere => setupPc'[p] = IF setupJob[p].service THEN "u_stop" ELSE "u_state"
  BY <1>0, <1>1, SetupOk, SetupErr DEF Managed!Checkpoint
<1>4. SetupTypes'
  BY <1>0, <1>1, <1>2, <1>3 DEF SetupTypes
<1> HIDE DEF r
<1>5. ClaimInv => HeldRecordInv(p)' /\ DoneInv(p)' /\ UndoneInv(p)'
  <2> SUFFICES ASSUME ClaimInv PROVE HeldRecordInv(p)' /\ DoneInv(p)' /\ UndoneInv(p)'
    OBVIOUS
  <2>1. HeldRecordInv(p)'
    BY <1>0, <1>1, <1>2, <1>3, SetupOrder DEF HeldRecordInv, Managed!Checkpoints
  <2>2. DoneInv(p)'
    BY <1>0, <1>1, <1>3, SetupOrder DEF DoneInv, Managed!Checkpoints
  <2>3. UndoneInv(p)'
    BY <1>0, <1>1, <1>3, SetupOrder DEF UndoneInv, NothingLeft
  <2> QED
    BY <2>1, <2>2, <2>3
<1>6. setupPc'[p] \in SetupStage \cup UndoStage \cup {"r_read", "failed"}
  BY <1>0, <1>3, SetupOrder
<1> QED
  BY <1>0, <1>3, <1>4, <1>5, <1>6, SetupGoesOn

\* A call of a setup, but for the record, which it leaves.

LEMMA SetupStageStep ==
  ASSUME SetupInv, NEW p \in Processes, Managed!Stage(p)
  PROVE  SetupInv'
<1>0. /\ setupPc[p] \in {"d_file", "d_commit", "x_file"}
      /\ UNCHANGED <<setupLock, setupRecord, setups, slot, current, files, installed, referenced, setupUnit, setupRunning, setupJob, kept, disturbed>>
  BY DEF Managed!Stage
<1>1. /\ SetupTypes /\ Began(p) /\ setupLock = p /\ setupJob[p] \in Managed!Jobs
      /\ ClaimInv => HeldRecordInv(p) /\ DoneInv(p) /\ UndoneInv(p)
  BY <1>0, SetupUnderWay
<1>2. /\ setupPc' \in [Processes -> Managed!PCs] /\ \A q \in Processes \ {p} : setupPc'[q] = setupPc[q]
      /\ setupPc'[p] \in SetupStage \cup UndoStage \cup {"r_read"}
  BY <1>1, SetupOk, SetupErr DEF Managed!Stage
<1>3. \/ /\ setupPc'[p] = Managed!After(Managed!Setup, setupPc[p])
         /\ staged' \subseteq staged \cup {"partial", "asset", "binary"}
      \/ /\ setupPc[p] \in RecordIsThere \ PointerIsThere => setupPc'[p] = "r_read"
         /\ setupPc[p] \in PointerIsThere => setupPc'[p] = IF setupJob[p].service THEN "u_stop" ELSE "u_state"
         /\ staged' \subseteq staged
  BY <1>1, SetupOk, SetupErr DEF Managed!Stage
<1>p. setupPc'[p] = Managed!After(Managed!Setup, setupPc[p]) \/
      /\ setupPc[p] \in RecordIsThere \ PointerIsThere => setupPc'[p] = "r_read"
      /\ setupPc[p] \in PointerIsThere => setupPc'[p] = IF setupJob[p].service THEN "u_stop" ELSE "u_state"
  BY <1>3
<1>4. SetupTypes'
  <2>1. staged' \subseteq {"partial", "asset", "binary"}
    BY <1>1 DEF SetupTypes, Managed!Stage
  <2> QED
    BY <1>0, <1>1, <1>2, <2>1 DEF SetupTypes
<1>5. ClaimInv => HeldRecordInv(p)' /\ DoneInv(p)' /\ UndoneInv(p)'
  <2> SUFFICES ASSUME ClaimInv PROVE HeldRecordInv(p)' /\ DoneInv(p)' /\ UndoneInv(p)'
    OBVIOUS
  <2>1. HeldRecordInv(p)'
    BY <1>0, <1>1, <1>p, SetupOrder DEF HeldRecordInv
  <2>2. DoneInv(p)'
    BY <1>0, <1>3, SetupOrder DEF DoneInv
  <2>3. UndoneInv(p)'
    BY <1>0, <1>1 DEF UndoneInv, NothingLeft
  <2> QED
    BY <2>1, <2>2, <2>3
<1>6. setupJob'[p].then = setupJob[p].then /\ \A q \in Processes \ {p} : setupJob'[q] = setupJob[q]
  BY <1>0
<1> QED
  BY <1>0, <1>2, <1>4, <1>5, SetupGoesOn

LEMMA SetupSlotStep ==
  ASSUME SetupInv, NEW p \in Processes, Managed!Slot(p)
  PROVE  SetupInv'
<1>0. /\ setupPc[p] \in {"slot"}
      /\ UNCHANGED <<setupLock, setupRecord, setups, staged, current, files, installed, referenced, setupUnit, setupRunning, kept, disturbed>>
  BY DEF Managed!Slot
<1>1. /\ SetupTypes /\ Began(p) /\ setupLock = p /\ setupJob[p] \in Managed!Jobs
      /\ ClaimInv => HeldRecordInv(p) /\ DoneInv(p) /\ UndoneInv(p)
  BY <1>0, SetupUnderWay
<1>2. /\ setupPc' \in [Processes -> Managed!PCs] /\ \A q \in Processes \ {p} : setupPc'[q] = setupPc[q]
      /\ setupPc'[p] \in SetupStage \cup UndoStage \cup {"r_read"}
  BY <1>1, SetupOk, SetupErr DEF Managed!Slot
<1>3. \/ /\ setupPc'[p] = Managed!After(Managed!Setup, setupPc[p])
         /\ slot' = TRUE /\ setupJob' = [setupJob EXCEPT ![p].created = ~slot]
      \/ /\ setupPc[p] \in RecordIsThere \ PointerIsThere => setupPc'[p] = "r_read"
         /\ setupPc[p] \in PointerIsThere => setupPc'[p] = IF setupJob[p].service THEN "u_stop" ELSE "u_state"
         /\ UNCHANGED <<slot, setupJob>>
  BY <1>1, SetupOk, SetupErr DEF Managed!Slot
<1>j. /\ setupJob' \in [Processes -> Managed!Jobs] /\ setupJob'[p].then = setupJob[p].then
      /\ \A q \in Processes \ {p} : setupJob'[q] = setupJob[q]
      /\ setupJob'[p].refs = setupJob[p].refs /\ setupJob'[p].prev = setupJob[p].prev
      /\ setupJob'[p].service = setupJob[p].service
  <2>1. (~slot) \in BOOLEAN
    BY <1>1 DEF SetupTypes
  <2>2. CASE setupJob' = [setupJob EXCEPT ![p].created = ~slot]
    <3> DEFINE j == [setupJob[p] EXCEPT !.created = ~slot]
    <3>1. j \in Managed!Jobs /\ j.then = setupJob[p].then /\ j.refs = setupJob[p].refs
          /\ j.prev = setupJob[p].prev /\ j.service = setupJob[p].service
      BY <1>1, <2>1 DEF Managed!Jobs
    <3>2. setupJob' = [setupJob EXCEPT ![p] = j]
      BY <2>2
    <3> QED
      BY <1>1, <3>1, <3>2 DEF SetupTypes
  <2>3. CASE UNCHANGED setupJob
    BY <1>1, <2>3 DEF SetupTypes
  <2> QED
    BY <1>3, <2>2, <2>3
<1>p. setupPc'[p] = Managed!After(Managed!Setup, setupPc[p]) \/
      /\ setupPc[p] \in RecordIsThere \ PointerIsThere => setupPc'[p] = "r_read"
      /\ setupPc[p] \in PointerIsThere => setupPc'[p] = IF setupJob[p].service THEN "u_stop" ELSE "u_state"
  BY <1>3
<1>4. SetupTypes'
  <2>1. slot' \in BOOLEAN
    BY <1>1 DEF SetupTypes, Managed!Slot
  <2> QED
    BY <1>0, <1>1, <1>2, <1>j, <2>1 DEF SetupTypes
<1>5. ClaimInv => HeldRecordInv(p)' /\ DoneInv(p)' /\ UndoneInv(p)'
  <2> SUFFICES ASSUME ClaimInv PROVE HeldRecordInv(p)' /\ DoneInv(p)' /\ UndoneInv(p)'
    OBVIOUS
  <2>1. HeldRecordInv(p)'
    BY <1>0, <1>1, <1>p, SetupOrder DEF HeldRecordInv
  <2>2. DoneInv(p)'
    BY <1>0, <1>3, SetupOrder DEF DoneInv
  <2>3. UndoneInv(p)'
    BY <1>0, <1>1, <1>j DEF UndoneInv, NothingLeft
  <2> QED
    BY <2>1, <2>2, <2>3
<1>6. setupJob'[p].then = setupJob[p].then /\ \A q \in Processes \ {p} : setupJob'[q] = setupJob[q]
  BY <1>j
<1> QED
  BY <1>0, <1>2, <1>4, <1>5, <1>6, SetupGoesOn

LEMMA SetupPointerStep ==
  ASSUME SetupInv, NEW p \in Processes, Managed!Pointer(p)
  PROVE  SetupInv'
<1>0. /\ setupPc[p] \in {"pointer"}
      /\ UNCHANGED <<setupLock, setupRecord, setups, staged, files, installed, referenced, setupUnit, setupRunning, disturbed>>
  BY DEF Managed!Pointer, Managed!Keeps
<1>1. /\ SetupTypes /\ Began(p) /\ setupLock = p /\ setupJob[p] \in Managed!Jobs
      /\ ClaimInv => HeldRecordInv(p) /\ DoneInv(p) /\ UndoneInv(p)
  BY <1>0, SetupUnderWay
<1>2. /\ setupPc' \in [Processes -> Managed!PCs] /\ \A q \in Processes \ {p} : setupPc'[q] = setupPc[q]
      /\ setupPc'[p] \in SetupStage \cup UndoStage \cup {"r_read"}
  BY <1>1, SetupOk, SetupErr DEF Managed!Pointer
<1>3. \/ /\ setupPc'[p] = Managed!After(Managed!Setup, setupPc[p])
         /\ current' = TRUE /\ setupJob' = [setupJob EXCEPT ![p].prev = current] /\ UNCHANGED <<slot, kept>>
      \/ /\ setupPc[p] \in RecordIsThere \ PointerIsThere => setupPc'[p] = "r_read"
         /\ setupPc[p] \in PointerIsThere => setupPc'[p] = IF setupJob[p].service THEN "u_stop" ELSE "u_state"
         /\ current' \in {current, TRUE} /\ slot' = (slot /\ ~setupJob[p].created)
         /\ kept' = (kept \/ current' # current) /\ UNCHANGED setupJob
  BY <1>1, SetupOk, SetupErr DEF Managed!Pointer, Managed!Keeps
<1>j. /\ setupJob' \in [Processes -> Managed!Jobs] /\ setupJob'[p].then = setupJob[p].then
      /\ \A q \in Processes \ {p} : setupJob'[q] = setupJob[q]
      /\ setupJob'[p].refs = setupJob[p].refs /\ setupJob'[p].prev \in {setupJob[p].prev, current}
      /\ setupJob'[p].service = setupJob[p].service
      /\ slot' \in BOOLEAN /\ kept' \in BOOLEAN /\ current' \in BOOLEAN
      /\ (~kept' => ~kept /\ (current' = current \/ setupPc'[p] = "layout"))
  <2>1. current \in BOOLEAN /\ slot \in BOOLEAN /\ kept \in BOOLEAN
    BY <1>1 DEF SetupTypes
  <2>2. CASE /\ setupPc'[p] = Managed!After(Managed!Setup, setupPc[p])
             /\ current' = TRUE /\ setupJob' = [setupJob EXCEPT ![p].prev = current] /\ UNCHANGED <<slot, kept>>
    <3> DEFINE j == [setupJob[p] EXCEPT !.prev = current]
    <3>1. j \in Managed!Jobs /\ j.then = setupJob[p].then /\ j.refs = setupJob[p].refs
          /\ j.prev = current /\ j.service = setupJob[p].service
      BY <1>1, <2>1 DEF Managed!Jobs
    <3>2. setupJob' = [setupJob EXCEPT ![p] = j]
      BY <2>2
    <3>3. setupPc'[p] = "layout"
      BY <1>0, <2>2, SetupOrder
    <3> QED
      BY <1>1, <2>2, <3>1, <3>3 DEF SetupTypes
  <2>3. CASE /\ current' \in {current, TRUE} /\ slot' = (slot /\ ~setupJob[p].created)
             /\ kept' = (kept \/ current' # current) /\ UNCHANGED setupJob
    BY <1>1, <2>3 DEF SetupTypes
  <2> QED
    BY <1>3, <2>2, <2>3
<1>p. setupPc'[p] = Managed!After(Managed!Setup, setupPc[p]) \/
      /\ setupPc[p] \in RecordIsThere \ PointerIsThere => setupPc'[p] = "r_read"
      /\ setupPc[p] \in PointerIsThere => setupPc'[p] = IF setupJob[p].service THEN "u_stop" ELSE "u_state"
  BY <1>3
<1>4. SetupTypes'
  BY <1>0, <1>1, <1>2, <1>j DEF SetupTypes
<1>5. ClaimInv => HeldRecordInv(p)' /\ DoneInv(p)' /\ UndoneInv(p)'
  <2> SUFFICES ASSUME ClaimInv PROVE HeldRecordInv(p)' /\ DoneInv(p)' /\ UndoneInv(p)'
    OBVIOUS
  <2>1. HeldRecordInv(p)'
    BY <1>0, <1>1, <1>p, SetupOrder DEF HeldRecordInv
  <2>2. DoneInv(p)'
    BY <1>0, <1>1, <1>3, SetupOrder DEF DoneInv
  <2>3. UndoneInv(p)'
    BY <1>0, <1>1, <1>j DEF UndoneInv, NothingLeft
  <2> QED
    BY <2>1, <2>2, <2>3
<1>6. setupJob'[p].then = setupJob[p].then /\ \A q \in Processes \ {p} : setupJob'[q] = setupJob[q]
  BY <1>j
<1> QED
  BY <1>0, <1>2, <1>4, <1>5, <1>6, SetupGoesOn

LEMMA SetupWriteStep ==
  ASSUME SetupInv, NEW p \in Processes, Managed!Write(p)
  PROVE  SetupInv'
<1>0. /\ setupPc[p] \in {"layout", "sidecar", "management", "config", "backup"}
      /\ UNCHANGED <<setupLock, setupRecord, setups, staged, slot, current, installed, referenced, setupUnit, setupRunning, setupJob, kept, disturbed>>
  BY DEF Managed!Write, Managed!Writes
<1>1. /\ SetupTypes /\ Began(p) /\ setupLock = p /\ setupJob[p] \in Managed!Jobs
      /\ ClaimInv => HeldRecordInv(p) /\ DoneInv(p) /\ UndoneInv(p)
  BY <1>0, SetupUnderWay
<1>2. /\ setupPc' \in [Processes -> Managed!PCs] /\ \A q \in Processes \ {p} : setupPc'[q] = setupPc[q]
      /\ setupPc'[p] \in SetupStage \cup UndoStage \cup {"r_read"}
  BY <1>0, <1>1, SetupOk, SetupErr DEF Managed!Write
<1>3. \/ /\ setupPc'[p] = Managed!After(Managed!Setup, setupPc[p])
         /\ files' = files \cup Managed!Written(setupPc[p])
      \/ /\ setupPc[p] \in RecordIsThere \ PointerIsThere => setupPc'[p] = "r_read"
         /\ setupPc[p] \in PointerIsThere => setupPc'[p] = IF setupJob[p].service THEN "u_stop" ELSE "u_state"
         /\ files' \in {files, files \cup Managed!Written(setupPc[p])}
  BY <1>1, SetupOk, SetupErr DEF Managed!Write, Managed!Writes
<1>j. Managed!Written(setupPc[p]) \subseteq Managed!Files
  BY <1>0 DEF Managed!Written, Managed!Files, Managed!InstanceFiles
<1>p. setupPc'[p] = Managed!After(Managed!Setup, setupPc[p]) \/
      /\ setupPc[p] \in RecordIsThere \ PointerIsThere => setupPc'[p] = "r_read"
      /\ setupPc[p] \in PointerIsThere => setupPc'[p] = IF setupJob[p].service THEN "u_stop" ELSE "u_state"
  BY <1>3
<1>4. SetupTypes'
  BY <1>0, <1>1, <1>2, <1>3, <1>j DEF SetupTypes
<1>5. ClaimInv => HeldRecordInv(p)' /\ DoneInv(p)' /\ UndoneInv(p)'
  <2> SUFFICES ASSUME ClaimInv PROVE HeldRecordInv(p)' /\ DoneInv(p)' /\ UndoneInv(p)'
    OBVIOUS
  <2>1. HeldRecordInv(p)'
    BY <1>0, <1>1, <1>p, SetupOrder DEF HeldRecordInv
  <2>2. DoneInv(p)'
    BY <1>0, <1>1, <1>3, SetupOrder DEF DoneInv, Managed!Written
  <2>3. UndoneInv(p)'
    BY <1>0, <1>1, <1>3, SetupOrder DEF UndoneInv
  <2> QED
    BY <2>1, <2>2, <2>3
<1>6. setupJob'[p].then = setupJob[p].then /\ \A q \in Processes \ {p} : setupJob'[q] = setupJob[q]
  BY <1>0
<1> QED
  BY <1>0, <1>2, <1>4, <1>5, SetupGoesOn

LEMMA SetupSaveStateStep ==
  ASSUME SetupInv, NEW p \in Processes, Managed!SaveState(p)
  PROVE  SetupInv'
<1>0. /\ setupPc[p] \in {"state"}
      /\ UNCHANGED <<setupLock, setupRecord, setups, staged, slot, current, files, referenced, setupUnit, setupRunning, setupJob, kept, disturbed>>
  BY DEF Managed!SaveState
<1>1. /\ SetupTypes /\ Began(p) /\ setupLock = p /\ setupJob[p] \in Managed!Jobs
      /\ ClaimInv => HeldRecordInv(p) /\ DoneInv(p) /\ UndoneInv(p)
  BY <1>0, SetupUnderWay
<1>2. /\ setupPc' \in [Processes -> Managed!PCs] /\ \A q \in Processes \ {p} : setupPc'[q] = setupPc[q]
      /\ setupPc'[p] \in SetupStage \cup UndoStage \cup {"r_read"}
  BY <1>1, SetupOk, SetupErr DEF Managed!SaveState
<1>3. \/ /\ setupPc'[p] = Managed!After(Managed!Setup, setupPc[p])
         /\ installed' = TRUE
      \/ /\ setupPc[p] \in RecordIsThere \ PointerIsThere => setupPc'[p] = "r_read"
         /\ setupPc[p] \in PointerIsThere => setupPc'[p] = IF setupJob[p].service THEN "u_stop" ELSE "u_state"
         /\ installed' \in {installed, TRUE}
  BY <1>1, SetupOk, SetupErr DEF Managed!SaveState
<1>p. setupPc'[p] = Managed!After(Managed!Setup, setupPc[p]) \/
      /\ setupPc[p] \in RecordIsThere \ PointerIsThere => setupPc'[p] = "r_read"
      /\ setupPc[p] \in PointerIsThere => setupPc'[p] = IF setupJob[p].service THEN "u_stop" ELSE "u_state"
  BY <1>3
<1>4. SetupTypes'
  <2>1. installed' \in BOOLEAN
    BY <1>1 DEF SetupTypes, Managed!SaveState
  <2> QED
    BY <1>0, <1>1, <1>2, <2>1 DEF SetupTypes
<1>5. ClaimInv => HeldRecordInv(p)' /\ DoneInv(p)' /\ UndoneInv(p)'
  <2> SUFFICES ASSUME ClaimInv PROVE HeldRecordInv(p)' /\ DoneInv(p)' /\ UndoneInv(p)'
    OBVIOUS
  <2>1. HeldRecordInv(p)'
    BY <1>0, <1>1, <1>p, SetupOrder DEF HeldRecordInv
  <2>2. DoneInv(p)'
    BY <1>0, <1>1, <1>3, SetupOrder DEF DoneInv
  <2>3. UndoneInv(p)'
    BY <1>0, <1>1, <1>p, SetupOrder DEF UndoneInv
  <2> QED
    BY <2>1, <2>2, <2>3
<1>6. setupJob'[p].then = setupJob[p].then /\ \A q \in Processes \ {p} : setupJob'[q] = setupJob[q]
  BY <1>0
<1> QED
  BY <1>0, <1>2, <1>4, <1>5, SetupGoesOn

LEMMA SetupSaveReferencesStep ==
  ASSUME SetupInv, NEW p \in Processes, Managed!SaveReferences(p)
  PROVE  SetupInv'
<1>0. /\ setupPc[p] \in {"refs"}
      /\ UNCHANGED <<setupLock, setupRecord, setups, staged, slot, current, files, installed, setupUnit, setupRunning, setupJob, kept, disturbed>>
  BY DEF Managed!SaveReferences
<1>1. /\ SetupTypes /\ Began(p) /\ setupLock = p /\ setupJob[p] \in Managed!Jobs
      /\ ClaimInv => HeldRecordInv(p) /\ DoneInv(p) /\ UndoneInv(p)
  BY <1>0, SetupUnderWay
<1>2. /\ setupPc' \in [Processes -> Managed!PCs] /\ \A q \in Processes \ {p} : setupPc'[q] = setupPc[q]
      /\ setupPc'[p] \in SetupStage \cup UndoStage \cup {"r_read"}
  BY <1>1, SetupOk, SetupErr DEF Managed!SaveReferences
<1>3. \/ /\ setupPc'[p] = Managed!After(Managed!Setup, setupPc[p])
         /\ referenced' = TRUE
      \/ /\ setupPc[p] \in RecordIsThere \ PointerIsThere => setupPc'[p] = "r_read"
         /\ setupPc[p] \in PointerIsThere => setupPc'[p] = IF setupJob[p].service THEN "u_stop" ELSE "u_state"
         /\ referenced' \in {referenced, TRUE}
  BY <1>1, SetupOk, SetupErr DEF Managed!SaveReferences
<1>p. setupPc'[p] = Managed!After(Managed!Setup, setupPc[p]) \/
      /\ setupPc[p] \in RecordIsThere \ PointerIsThere => setupPc'[p] = "r_read"
      /\ setupPc[p] \in PointerIsThere => setupPc'[p] = IF setupJob[p].service THEN "u_stop" ELSE "u_state"
  BY <1>3
<1>4. SetupTypes'
  <2>1. referenced' \in BOOLEAN
    BY <1>1 DEF SetupTypes, Managed!SaveReferences
  <2> QED
    BY <1>0, <1>1, <1>2, <2>1 DEF SetupTypes
<1>5. ClaimInv => HeldRecordInv(p)' /\ DoneInv(p)' /\ UndoneInv(p)'
  <2> SUFFICES ASSUME ClaimInv PROVE HeldRecordInv(p)' /\ DoneInv(p)' /\ UndoneInv(p)'
    OBVIOUS
  <2>1. HeldRecordInv(p)'
    BY <1>0, <1>1, <1>p, SetupOrder DEF HeldRecordInv
  <2>2. DoneInv(p)'
    BY <1>0, <1>1, <1>3, SetupOrder DEF DoneInv
  <2>3. UndoneInv(p)'
    BY <1>0, <1>1, <1>p, SetupOrder DEF UndoneInv
  <2> QED
    BY <2>1, <2>2, <2>3
<1>6. setupJob'[p].then = setupJob[p].then /\ \A q \in Processes \ {p} : setupJob'[q] = setupJob[q]
  BY <1>0
<1> QED
  BY <1>0, <1>2, <1>4, <1>5, SetupGoesOn

LEMMA SetupInstallServiceStep ==
  ASSUME SetupInv, NEW p \in Processes, Managed!InstallService(p)
  PROVE  SetupInv'
<1>0. /\ setupPc[p] \in {"install"}
      /\ UNCHANGED <<setupLock, setupRecord, setups, staged, slot, current, files, installed, referenced, setupRunning, disturbed>>
  BY DEF Managed!InstallService, Managed!Keeps
<1>1. /\ SetupTypes /\ Began(p) /\ setupLock = p /\ setupJob[p] \in Managed!Jobs
      /\ ClaimInv => HeldRecordInv(p) /\ DoneInv(p) /\ UndoneInv(p)
  BY <1>0, SetupUnderWay
<1>2. /\ setupPc' \in [Processes -> Managed!PCs] /\ \A q \in Processes \ {p} : setupPc'[q] = setupPc[q]
      /\ setupPc'[p] \in SetupStage \cup UndoStage \cup {"r_read"}
  BY <1>1, SetupOk, SetupErr DEF Managed!InstallService
<1>3. \/ /\ setupPc'[p] = Managed!After(Managed!Setup, setupPc[p])
         /\ setupUnit' = TRUE /\ setupJob' = [setupJob EXCEPT ![p].service = TRUE] /\ UNCHANGED kept
      \/ /\ setupPc[p] \in RecordIsThere \ PointerIsThere => setupPc'[p] = "r_read"
         /\ setupPc[p] \in PointerIsThere => setupPc'[p] = IF setupJob[p].service THEN "u_stop" ELSE "u_state"
         /\ setupUnit' \in {setupUnit, TRUE} /\ kept' = (kept \/ setupUnit' # setupUnit) /\ UNCHANGED setupJob
  BY <1>1, SetupOk, SetupErr DEF Managed!InstallService, Managed!Keeps
<1>j. /\ setupJob' \in [Processes -> Managed!Jobs] /\ setupJob'[p].then = setupJob[p].then
      /\ \A q \in Processes \ {p} : setupJob'[q] = setupJob[q]
      /\ setupJob'[p].refs = setupJob[p].refs /\ setupJob'[p].prev = setupJob[p].prev
      /\ kept' \in BOOLEAN /\ setupUnit' \in BOOLEAN
      /\ \/ setupPc'[p] = "start" /\ setupJob'[p].service /\ kept' = kept
         \/ setupPc'[p] \in {"u_stop", "u_state"} /\ setupJob' = setupJob
            /\ (~kept' => ~kept /\ setupUnit' = setupUnit)
  <2>1. setupUnit \in BOOLEAN /\ kept \in BOOLEAN
    BY <1>1 DEF SetupTypes
  <2>2. CASE /\ setupPc'[p] = Managed!After(Managed!Setup, setupPc[p]) /\ setupUnit' = TRUE
             /\ setupJob' = [setupJob EXCEPT ![p].service = TRUE] /\ UNCHANGED kept
    <3> DEFINE j == [setupJob[p] EXCEPT !.service = TRUE]
    <3>1. j \in Managed!Jobs /\ j.then = setupJob[p].then /\ j.refs = setupJob[p].refs
          /\ j.prev = setupJob[p].prev /\ j.service = TRUE
      BY <1>1, <2>1 DEF Managed!Jobs
    <3>2. setupJob' = [setupJob EXCEPT ![p] = j]
      BY <2>2
    <3>3. setupPc'[p] = "start"
      BY <1>0, <2>2, SetupOrder
    <3> QED
      BY <1>1, <2>2, <3>1, <3>3 DEF SetupTypes
  <2>3. CASE /\ setupPc[p] \in PointerIsThere => setupPc'[p] = IF setupJob[p].service THEN "u_stop" ELSE "u_state"
             /\ setupUnit' \in {setupUnit, TRUE} /\ kept' = (kept \/ setupUnit' # setupUnit) /\ UNCHANGED setupJob
    BY <1>0, <1>1, <2>3 DEF SetupTypes
  <2> QED
    BY <1>3, <2>2, <2>3
<1>p. setupPc'[p] = Managed!After(Managed!Setup, setupPc[p]) \/
      /\ setupPc[p] \in RecordIsThere \ PointerIsThere => setupPc'[p] = "r_read"
      /\ setupPc[p] \in PointerIsThere => setupPc'[p] = IF setupJob[p].service THEN "u_stop" ELSE "u_state"
  BY <1>3
<1>4. SetupTypes'
  BY <1>0, <1>1, <1>2, <1>j DEF SetupTypes
<1>5. ClaimInv => HeldRecordInv(p)' /\ DoneInv(p)' /\ UndoneInv(p)'
  <2> SUFFICES ASSUME ClaimInv PROVE HeldRecordInv(p)' /\ DoneInv(p)' /\ UndoneInv(p)'
    OBVIOUS
  <2>1. HeldRecordInv(p)'
    BY <1>0, <1>1, <1>p, SetupOrder DEF HeldRecordInv
  <2>2. DoneInv(p)'
    BY <1>0, <1>1, <1>3 DEF DoneInv
  <2>3. UndoneInv(p)'
    BY <1>0, <1>1, <1>p, <1>j, SetupOrder DEF UndoneInv
  <2> QED
    BY <2>1, <2>2, <2>3
<1>6. setupJob'[p].then = setupJob[p].then /\ \A q \in Processes \ {p} : setupJob'[q] = setupJob[q]
  BY <1>j
<1> QED
  BY <1>0, <1>2, <1>4, <1>5, <1>6, SetupGoesOn

LEMMA SetupStartServiceStep ==
  ASSUME SetupInv, NEW p \in Processes, Managed!StartService(p)
  PROVE  SetupInv'
<1>0. /\ setupPc[p] \in {"start"}
      /\ UNCHANGED <<setupLock, setupRecord, setups, staged, slot, current, files, installed, referenced, setupUnit, setupJob, kept, disturbed>>
  BY DEF Managed!StartService
<1>1. /\ SetupTypes /\ Began(p) /\ setupLock = p /\ setupJob[p] \in Managed!Jobs
      /\ ClaimInv => HeldRecordInv(p) /\ DoneInv(p) /\ UndoneInv(p)
  BY <1>0, SetupUnderWay
<1>2. /\ setupPc' \in [Processes -> Managed!PCs] /\ \A q \in Processes \ {p} : setupPc'[q] = setupPc[q]
      /\ setupPc'[p] \in SetupStage \cup UndoStage \cup {"r_read"}
  BY <1>1, SetupOk, SetupErr DEF Managed!StartService
<1>3. \/ /\ setupPc'[p] = Managed!After(Managed!Setup, setupPc[p])
         /\ setupUnit /\ setupRunning' = TRUE
      \/ /\ setupPc[p] \in RecordIsThere \ PointerIsThere => setupPc'[p] = "r_read"
         /\ setupPc[p] \in PointerIsThere => setupPc'[p] = IF setupJob[p].service THEN "u_stop" ELSE "u_state"
         /\ setupRunning' \in {setupRunning, setupRunning \/ setupUnit}
  BY <1>1, SetupOk, SetupErr DEF Managed!StartService
<1>j. setupRunning' \in BOOLEAN /\ (~setupUnit /\ ~setupRunning => ~setupRunning')
  BY <1>1, <1>3 DEF SetupTypes
<1>p. setupPc'[p] = Managed!After(Managed!Setup, setupPc[p]) \/
      /\ setupPc[p] \in RecordIsThere \ PointerIsThere => setupPc'[p] = "r_read"
      /\ setupPc[p] \in PointerIsThere => setupPc'[p] = IF setupJob[p].service THEN "u_stop" ELSE "u_state"
  BY <1>3
<1>4. SetupTypes'
  BY <1>0, <1>1, <1>2, <1>j DEF SetupTypes
<1>5. ClaimInv => HeldRecordInv(p)' /\ DoneInv(p)' /\ UndoneInv(p)'
  <2> SUFFICES ASSUME ClaimInv PROVE HeldRecordInv(p)' /\ DoneInv(p)' /\ UndoneInv(p)'
    OBVIOUS
  <2>1. HeldRecordInv(p)'
    BY <1>0, <1>1, <1>p, SetupOrder DEF HeldRecordInv
  <2>2. DoneInv(p)'
    BY <1>0, <1>1 DEF DoneInv
  <2>3. UndoneInv(p)'
    BY <1>0, <1>1, <1>3, <1>j, SetupOrder DEF UndoneInv
  <2> QED
    BY <2>1, <2>2, <2>3
<1>6. setupJob'[p].then = setupJob[p].then /\ \A q \in Processes \ {p} : setupJob'[q] = setupJob[q]
  BY <1>0
<1> QED
  BY <1>0, <1>2, <1>4, <1>5, SetupGoesOn

LEMMA SetupCheckStatusStep ==
  ASSUME SetupInv, NEW p \in Processes, Managed!CheckStatus(p)
  PROVE  SetupInv'
<1>0. /\ setupPc[p] \in {"status"}
      /\ UNCHANGED <<setupLock, setupRecord, setups, staged, slot, current, files, installed, referenced, setupUnit, setupRunning, setupJob, kept, disturbed>>
  BY DEF Managed!CheckStatus
<1>1. /\ SetupTypes /\ Began(p) /\ setupLock = p /\ setupJob[p] \in Managed!Jobs
      /\ ClaimInv => HeldRecordInv(p) /\ DoneInv(p) /\ UndoneInv(p)
  BY <1>0, SetupUnderWay
<1>2. /\ setupPc' \in [Processes -> Managed!PCs] /\ \A q \in Processes \ {p} : setupPc'[q] = setupPc[q]
      /\ setupPc'[p] \in SetupStage \cup UndoStage \cup {"r_read"}
  BY <1>1, SetupOk, SetupErr DEF Managed!CheckStatus
<1>3. \/ /\ setupPc'[p] = Managed!After(Managed!Setup, setupPc[p])
         /\ setupUnit
      \/ /\ setupPc[p] \in RecordIsThere \ PointerIsThere => setupPc'[p] = "r_read"
         /\ setupPc[p] \in PointerIsThere => setupPc'[p] = IF setupJob[p].service THEN "u_stop" ELSE "u_state"
         /\ TRUE
  BY <1>1, SetupOk, SetupErr DEF Managed!CheckStatus
<1>p. setupPc'[p] = Managed!After(Managed!Setup, setupPc[p]) \/
      /\ setupPc[p] \in RecordIsThere \ PointerIsThere => setupPc'[p] = "r_read"
      /\ setupPc[p] \in PointerIsThere => setupPc'[p] = IF setupJob[p].service THEN "u_stop" ELSE "u_state"
  BY <1>3
<1>4. SetupTypes'
  BY <1>0, <1>1, <1>2 DEF SetupTypes
<1>5. ClaimInv => HeldRecordInv(p)' /\ DoneInv(p)' /\ UndoneInv(p)'
  <2> SUFFICES ASSUME ClaimInv PROVE HeldRecordInv(p)' /\ DoneInv(p)' /\ UndoneInv(p)'
    OBVIOUS
  <2>1. HeldRecordInv(p)'
    BY <1>0, <1>1, <1>p, SetupOrder DEF HeldRecordInv
  <2>2. DoneInv(p)'
    BY <1>0, <1>1 DEF DoneInv
  <2>3. UndoneInv(p)'
    BY <1>0, <1>1, <1>3, SetupOrder DEF UndoneInv
  <2> QED
    BY <2>1, <2>2, <2>3
<1>6. setupJob'[p].then = setupJob[p].then /\ \A q \in Processes \ {p} : setupJob'[q] = setupJob[q]
  BY <1>0
<1> QED
  BY <1>0, <1>2, <1>4, <1>5, SetupGoesOn

LEMMA SetupCompleteStep ==
  ASSUME SetupInv, NEW p \in Processes, Managed!Complete(p)
  PROVE  SetupInv'
<1>0. /\ setupPc[p] \in {"complete"}
      /\ UNCHANGED <<setupLock, setups, staged, slot, current, files, installed, referenced, setupUnit, setupRunning, setupJob, disturbed>>
  BY DEF Managed!Complete, Managed!Keeps
<1>1. /\ SetupTypes /\ Began(p) /\ setupLock = p /\ setupJob[p] \in Managed!Jobs
      /\ ClaimInv => HeldRecordInv(p) /\ DoneInv(p) /\ UndoneInv(p)
  BY <1>0, SetupUnderWay
<1>2. /\ setupPc' \in [Processes -> Managed!PCs] /\ \A q \in Processes \ {p} : setupPc'[q] = setupPc[q]
      /\ setupPc'[p] \in SetupStage \cup UndoStage \cup {"r_read"}
  BY <1>1, SetupOk, SetupErr DEF Managed!Complete
<1>3. \/ /\ setupPc'[p] = Managed!After(Managed!Setup, setupPc[p])
         /\ setupRecord' = NoRecord /\ UNCHANGED kept
      \/ /\ setupPc[p] \in RecordIsThere \ PointerIsThere => setupPc'[p] = "r_read"
         /\ setupPc[p] \in PointerIsThere => setupPc'[p] = IF setupJob[p].service THEN "u_stop" ELSE "u_state"
         /\ setupRecord' \in {setupRecord, NoRecord} /\ kept' = (kept \/ setupRecord' # setupRecord)
  BY <1>1, SetupOk, SetupErr DEF Managed!Complete, Managed!Keeps
<1>j. /\ kept' \in BOOLEAN
      /\ \/ setupPc'[p] = "done" /\ setupRecord' = NoRecord /\ kept' = kept
         \/ setupPc'[p] \in {"u_stop", "u_state"} /\ (~kept' => ~kept /\ setupRecord' = setupRecord)
  <2>1. kept \in BOOLEAN
    BY <1>1 DEF SetupTypes
  <2>2. CASE setupPc'[p] = Managed!After(Managed!Setup, setupPc[p]) /\ setupRecord' = NoRecord /\ UNCHANGED kept
    BY <1>0, <2>1, <2>2, SetupOrder
  <2>3. CASE /\ setupPc[p] \in PointerIsThere => setupPc'[p] = IF setupJob[p].service THEN "u_stop" ELSE "u_state"
             /\ setupRecord' \in {setupRecord, NoRecord} /\ kept' = (kept \/ setupRecord' # setupRecord)
    BY <1>0, <2>1, <2>3
  <2> QED
    BY <1>3, <2>2, <2>3
<1>p. setupPc'[p] = Managed!After(Managed!Setup, setupPc[p]) \/
      /\ setupPc[p] \in RecordIsThere \ PointerIsThere => setupPc'[p] = "r_read"
      /\ setupPc[p] \in PointerIsThere => setupPc'[p] = IF setupJob[p].service THEN "u_stop" ELSE "u_state"
  BY <1>3
<1>4. SetupTypes'
  BY <1>0, <1>1, <1>2, <1>3, <1>j DEF SetupTypes
<1>5. ClaimInv => HeldRecordInv(p)' /\ DoneInv(p)' /\ UndoneInv(p)'
  <2> SUFFICES ASSUME ClaimInv PROVE HeldRecordInv(p)' /\ DoneInv(p)' /\ UndoneInv(p)'
    OBVIOUS
  <2>1. HeldRecordInv(p)'
    BY <1>0, <1>1, <1>j DEF HeldRecordInv
  <2>2. DoneInv(p)'
    BY <1>0, <1>1 DEF DoneInv
  <2>3. UndoneInv(p)'
    BY <1>0, <1>1, <1>p, <1>j, SetupOrder DEF UndoneInv
  <2> QED
    BY <2>1, <2>2, <2>3
<1>6. setupJob'[p].then = setupJob[p].then /\ \A q \in Processes \ {p} : setupJob'[q] = setupJob[q]
  BY <1>0
<1> QED
  BY <1>0, <1>2, <1>4, <1>5, SetupGoesOn

\* An undo's call.

LEMMA SetupUndoServiceStep ==
  ASSUME SetupInv, NEW p \in Processes, Managed!UndoService(p)
  PROVE  SetupInv'
<1>0. /\ setupPc[p] \in {"u_stop", "u_uninstall"}
      /\ UNCHANGED <<setupRecord, setups, staged, slot, current, files, installed, referenced>>
  BY DEF Managed!UndoService
<1>1. /\ SetupTypes /\ Began(p) /\ setupLock = p /\ setupJob[p] \in Managed!Jobs
      /\ ClaimInv => HeldRecordInv(p) /\ DoneInv(p) /\ UndoneInv(p)
  BY <1>0, SetupUnderWay
<1>2. /\ setupPc' \in [Processes -> Managed!PCs] /\ \A q \in Processes \ {p} : setupPc'[q] = setupPc[q]
      /\ setupPc'[p] = Managed!After(Managed!Undo, setupPc[p])
      /\ UNCHANGED <<setupLock, setupJob, disturbed>>
  BY <1>1, SetupUndone DEF Managed!UndoService
<1>3. kept' \in BOOLEAN /\ (~kept' => ~kept)
  BY <1>1 DEF Managed!UndoService, Managed!Keeps, SetupTypes
<1>4. /\ setupUnit' \in BOOLEAN /\ setupRunning' \in BOOLEAN
      /\ setupPc[p] = "u_uninstall" /\ ~kept' => ~setupUnit' /\ ~setupRunning'
  BY <1>1 DEF Managed!UndoService, Managed!Keeps, SetupTypes
<1>5. SetupTypes'
  BY <1>0, <1>1, <1>2, <1>3, <1>4 DEF SetupTypes
<1>6. ClaimInv => HeldRecordInv(p)' /\ DoneInv(p)' /\ UndoneInv(p)'
  <2> SUFFICES ASSUME ClaimInv PROVE HeldRecordInv(p)' /\ DoneInv(p)' /\ UndoneInv(p)'
    OBVIOUS
  <2>1. HeldRecordInv(p)'
    BY <1>0, <1>1, <1>2, <1>3, UndoOrder DEF HeldRecordInv
  <2>2. DoneInv(p)'
    BY <1>0, <1>2, UndoOrder DEF DoneInv
  <2>3. UndoneInv(p)'
    BY <1>0, <1>1, <1>2, <1>3, <1>4, UndoOrder DEF UndoneInv
  <2> QED
    BY <2>1, <2>2, <2>3
<1>7. setupPc'[p] \in SetupStage \cup UndoStage \cup {"r_read", "failed"}
  BY <1>0, <1>2, UndoOrder
<1> QED
  BY <1>0, <1>2, <1>5, <1>6, <1>7, SetupGoesOn

LEMMA SetupUndoStateStep ==
  ASSUME SetupInv, NEW p \in Processes, Managed!UndoState(p)
  PROVE  SetupInv'
<1>0. /\ setupPc[p] \in {"u_state"}
      /\ UNCHANGED <<setupRecord, setups, staged, slot, current, files, referenced, setupUnit, setupRunning>>
  BY DEF Managed!UndoState
<1>1. /\ SetupTypes /\ Began(p) /\ setupLock = p /\ setupJob[p] \in Managed!Jobs
      /\ ClaimInv => HeldRecordInv(p) /\ DoneInv(p) /\ UndoneInv(p)
  BY <1>0, SetupUnderWay
<1>2. /\ setupPc' \in [Processes -> Managed!PCs] /\ \A q \in Processes \ {p} : setupPc'[q] = setupPc[q]
      /\ setupPc'[p] = Managed!After(Managed!Undo, setupPc[p])
      /\ UNCHANGED <<setupLock, setupJob, disturbed>>
  BY <1>1, SetupUndone DEF Managed!UndoState
<1>3. kept' \in BOOLEAN /\ (~kept' => ~kept)
  BY <1>1 DEF Managed!UndoState, Managed!Keeps, SetupTypes
<1>4. installed' \in BOOLEAN /\ (~kept' => ~installed')
  BY <1>1 DEF Managed!UndoState, Managed!Keeps, SetupTypes
<1>5. SetupTypes'
  BY <1>0, <1>1, <1>2, <1>3, <1>4 DEF SetupTypes
<1>6. ClaimInv => HeldRecordInv(p)' /\ DoneInv(p)' /\ UndoneInv(p)'
  <2> SUFFICES ASSUME ClaimInv PROVE HeldRecordInv(p)' /\ DoneInv(p)' /\ UndoneInv(p)'
    OBVIOUS
  <2>1. HeldRecordInv(p)'
    BY <1>0, <1>1, <1>2, <1>3, UndoOrder DEF HeldRecordInv
  <2>2. DoneInv(p)'
    BY <1>0, <1>2, UndoOrder DEF DoneInv
  <2>3. UndoneInv(p)'
    BY <1>0, <1>1, <1>2, <1>3, <1>4, UndoOrder DEF UndoneInv
  <2> QED
    BY <2>1, <2>2, <2>3
<1>7. setupPc'[p] \in SetupStage \cup UndoStage \cup {"r_read", "failed"}
  BY <1>0, <1>2, UndoOrder
<1> QED
  BY <1>0, <1>2, <1>5, <1>6, <1>7, SetupGoesOn

LEMMA SetupUndoReferencesStep ==
  ASSUME SetupInv, NEW p \in Processes, Managed!UndoReferences(p)
  PROVE  SetupInv'
<1>0. /\ setupPc[p] \in {"u_refs"}
      /\ UNCHANGED <<setupRecord, setups, staged, slot, current, files, installed, setupUnit, setupRunning>>
  BY DEF Managed!UndoReferences
<1>1. /\ SetupTypes /\ Began(p) /\ setupLock = p /\ setupJob[p] \in Managed!Jobs
      /\ ClaimInv => HeldRecordInv(p) /\ DoneInv(p) /\ UndoneInv(p)
  BY <1>0, SetupUnderWay
<1>2. /\ setupPc' \in [Processes -> Managed!PCs] /\ \A q \in Processes \ {p} : setupPc'[q] = setupPc[q]
      /\ setupPc'[p] = Managed!After(Managed!Undo, setupPc[p])
      /\ UNCHANGED <<setupLock, setupJob, disturbed>>
  BY <1>1, SetupUndone DEF Managed!UndoReferences
<1>3. kept' \in BOOLEAN /\ (~kept' => ~kept)
  BY <1>1 DEF Managed!UndoReferences, Managed!Keeps, SetupTypes
<1>4. referenced' \in BOOLEAN /\ (~kept' => referenced' = setupJob[p].refs)
  BY <1>1 DEF Managed!UndoReferences, Managed!Keeps, SetupTypes, Managed!Jobs
<1>5. SetupTypes'
  BY <1>0, <1>1, <1>2, <1>3, <1>4 DEF SetupTypes
<1>6. ClaimInv => HeldRecordInv(p)' /\ DoneInv(p)' /\ UndoneInv(p)'
  <2> SUFFICES ASSUME ClaimInv PROVE HeldRecordInv(p)' /\ DoneInv(p)' /\ UndoneInv(p)'
    OBVIOUS
  <2>1. HeldRecordInv(p)'
    BY <1>0, <1>1, <1>2, <1>3, UndoOrder DEF HeldRecordInv
  <2>2. DoneInv(p)'
    BY <1>0, <1>2, UndoOrder DEF DoneInv
  <2>3. UndoneInv(p)'
    BY <1>0, <1>1, <1>2, <1>3, <1>4, UndoOrder DEF UndoneInv
  <2> QED
    BY <2>1, <2>2, <2>3
<1>7. setupPc'[p] \in SetupStage \cup UndoStage \cup {"r_read", "failed"}
  BY <1>0, <1>2, UndoOrder
<1> QED
  BY <1>0, <1>2, <1>5, <1>6, <1>7, SetupGoesOn

LEMMA SetupUndoFilesStep ==
  ASSUME SetupInv, NEW p \in Processes, Managed!UndoFiles(p)
  PROVE  SetupInv'
<1>0. /\ setupPc[p] \in {"u_files"}
      /\ UNCHANGED <<setupRecord, setups, staged, slot, current, installed, referenced, setupUnit, setupRunning>>
  BY DEF Managed!UndoFiles
<1>1. /\ SetupTypes /\ Began(p) /\ setupLock = p /\ setupJob[p] \in Managed!Jobs
      /\ ClaimInv => HeldRecordInv(p) /\ DoneInv(p) /\ UndoneInv(p)
  BY <1>0, SetupUnderWay
<1>2. /\ setupPc' \in [Processes -> Managed!PCs] /\ \A q \in Processes \ {p} : setupPc'[q] = setupPc[q]
      /\ setupPc'[p] = Managed!After(Managed!Undo, setupPc[p])
      /\ UNCHANGED <<setupLock, setupJob, disturbed>>
  BY <1>1, SetupUndone DEF Managed!UndoFiles
<1>3. kept' \in BOOLEAN /\ (~kept' => ~kept)
  BY <1>1 DEF Managed!UndoFiles, Managed!Keeps, SetupTypes
<1>4. files' \subseteq files /\ (~kept' => files' \cap Managed!InstanceFiles = {})
  <2>1. CASE files' = files \ Managed!InstanceFiles
    BY <2>1
  <2>2. CASE files' \in {files \ gone : gone \in SUBSET {"sidecar", "config"}} /\ Managed!Keeps(TRUE)
    BY <2>2 DEF Managed!Keeps
  <2> QED
    BY <2>1, <2>2 DEF Managed!UndoFiles
<1>5. SetupTypes'
  BY <1>0, <1>1, <1>2, <1>3, <1>4 DEF SetupTypes
<1>6. ClaimInv => HeldRecordInv(p)' /\ DoneInv(p)' /\ UndoneInv(p)'
  <2> SUFFICES ASSUME ClaimInv PROVE HeldRecordInv(p)' /\ DoneInv(p)' /\ UndoneInv(p)'
    OBVIOUS
  <2>1. HeldRecordInv(p)'
    BY <1>0, <1>1, <1>2, <1>3, UndoOrder DEF HeldRecordInv
  <2>2. DoneInv(p)'
    BY <1>0, <1>2, UndoOrder DEF DoneInv
  <2>3. UndoneInv(p)'
    BY <1>0, <1>1, <1>2, <1>3, <1>4, UndoOrder DEF UndoneInv
  <2> QED
    BY <2>1, <2>2, <2>3
<1>7. setupPc'[p] \in SetupStage \cup UndoStage \cup {"r_read", "failed"}
  BY <1>0, <1>2, UndoOrder
<1> QED
  BY <1>0, <1>2, <1>5, <1>6, <1>7, SetupGoesOn

LEMMA SetupUndoPointerStep ==
  ASSUME SetupInv, NEW p \in Processes, Managed!UndoPointer(p)
  PROVE  SetupInv'
<1>0. /\ setupPc[p] \in {"u_pointer"}
      /\ UNCHANGED <<setupRecord, setups, staged, slot, files, installed, referenced, setupUnit, setupRunning>>
  BY DEF Managed!UndoPointer
<1>1. /\ SetupTypes /\ Began(p) /\ setupLock = p /\ setupJob[p] \in Managed!Jobs
      /\ ClaimInv => HeldRecordInv(p) /\ DoneInv(p) /\ UndoneInv(p)
  BY <1>0, SetupUnderWay
<1>2. /\ setupPc' \in [Processes -> Managed!PCs] /\ \A q \in Processes \ {p} : setupPc'[q] = setupPc[q]
      /\ setupPc'[p] = Managed!After(Managed!Undo, setupPc[p])
      /\ UNCHANGED <<setupLock, setupJob, disturbed>>
  BY <1>1, SetupUndone DEF Managed!UndoPointer
<1>3. kept' \in BOOLEAN /\ (~kept' => ~kept)
  BY <1>1 DEF Managed!UndoPointer, Managed!Keeps, SetupTypes
<1>4. current' \in BOOLEAN /\ (~kept' => current' = setupJob[p].prev)
  BY <1>1 DEF Managed!UndoPointer, Managed!Keeps, SetupTypes, Managed!Jobs
<1>5. SetupTypes'
  BY <1>0, <1>1, <1>2, <1>3, <1>4 DEF SetupTypes
<1>6. ClaimInv => HeldRecordInv(p)' /\ DoneInv(p)' /\ UndoneInv(p)'
  <2> SUFFICES ASSUME ClaimInv PROVE HeldRecordInv(p)' /\ DoneInv(p)' /\ UndoneInv(p)'
    OBVIOUS
  <2>1. HeldRecordInv(p)'
    BY <1>0, <1>2, UndoOrder DEF HeldRecordInv
  <2>2. DoneInv(p)'
    BY <1>0, <1>2, UndoOrder DEF DoneInv
  <2>3. UndoneInv(p)'
    BY <1>0, <1>1, <1>2, <1>3, <1>4, UndoOrder DEF UndoneInv
  <2> QED
    BY <2>1, <2>2, <2>3
<1>7. setupPc'[p] \in SetupStage \cup UndoStage \cup {"r_read", "failed"}
  BY <1>0, <1>2, UndoOrder
<1> QED
  BY <1>0, <1>2, <1>5, <1>6, <1>7, SetupGoesOn

-----------------------------------------------------------------------------
\* The start of a process and of a command

LEMMA SetupNoJob == Managed!NoJob \in Managed!Jobs /\ Managed!NoJob.then = "ready"
                    /\ ~Managed!NoJob.refs /\ ~Managed!NoJob.prev
BY DEF Managed!NoJob, Managed!Jobs

LEMMA SetupStartStep ==
  ASSUME SetupInv, NEW p \in Processes, Managed!Start(p) \/ Managed!Exit(p)
  PROVE  SetupInv'
<1>0. /\ setupPc[p] \in {"off", "ready"}
      /\ UNCHANGED <<setupLock, setupRecord, setups, staged, slot, current, files, installed, referenced, setupUnit,
                     setupRunning, setupJob, kept, disturbed>>
  BY DEF Managed!Start, Managed!Exit
<1>1. SetupTypes /\ RunInv(p) /\ setupJob[p].then \in {"ready", "load", "failed"}
  BY DEF SetupInv, SetupTypes, Managed!Jobs
<1>2. /\ setupPc' \in [Processes -> Managed!PCs] /\ \A q \in Processes \ {p} : setupPc'[q] = setupPc[q]
      /\ setupPc'[p] \in {"r_read", "off"}
  BY <1>1, SetupPCsAre, SetupGoto DEF Managed!Start, Managed!Exit
<1>3. SetupTypes'
  BY <1>0, <1>1, <1>2 DEF SetupTypes
<1>4. setupJob[p].then = "ready" /\ setupLock # p
  BY <1>0, <1>1 DEF RunInv, Began
<1>5. RunInv(p)'
  BY <1>0, <1>2, <1>4 DEF RunInv, Began
<1>6. HeldRecordInv(p)' /\ DoneInv(p)' /\ UndoneInv(p)'
  BY <1>0, <1>4 DEF HeldRecordInv, DoneInv, UndoneInv, Began
<1>7. RestInv => RestInv'
  BY <1>0 DEF RestInv, Began, Managed!Whole, NothingLeft
<1> QED
  BY <1>0, <1>2, <1>3, <1>5, <1>6, <1>7, SetupMove DEF OnlyOf, ClaimInv

LEMMA SetupCommandStep ==
  ASSUME SetupInv, NEW p \in Processes, Managed!Command(p)
  PROVE  SetupInv'
<1>0. /\ setupPc[p] = "ready" /\ setupLock = NoProc /\ setupLock' = p
      /\ setupJob' = [setupJob EXCEPT ![p].then = "load"]
      /\ UNCHANGED <<setupRecord, setups, staged, slot, current, files, installed, referenced, setupUnit,
                     setupRunning, kept, disturbed>>
  BY DEF Managed!Command, Managed!TryAcquireOk, Managed!Free
<1>1. SetupTypes /\ setupJob[p] \in Managed!Jobs
  BY DEF SetupInv, SetupTypes
<1>2. /\ setupPc' \in [Processes -> Managed!PCs] /\ \A q \in Processes \ {p} : setupPc'[q] = setupPc[q]
      /\ setupPc'[p] = "r_read"
  BY <1>1, SetupPCsAre, SetupGoto DEF Managed!Command
<1>3. /\ setupJob' \in [Processes -> Managed!Jobs] /\ setupJob'[p].then = "load"
      /\ \A q \in Processes \ {p} : setupJob'[q] = setupJob[q]
  <2> DEFINE j == [setupJob[p] EXCEPT !.then = "load"]
  <2>1. j \in Managed!Jobs /\ j.then = "load"
    BY <1>1 DEF Managed!Jobs
  <2>2. setupJob' = [setupJob EXCEPT ![p] = j]
    BY <1>0
  <2> QED
    BY <1>1, <2>1, <2>2 DEF SetupTypes
<1>4. SetupTypes'
  BY <1>0, <1>1, <1>2, <1>3 DEF SetupTypes
<1>5. RunInv(p)'
  BY <1>0, <1>2, <1>3 DEF RunInv
<1>6. HeldRecordInv(p)' /\ DoneInv(p)' /\ UndoneInv(p)'
  BY <1>2, <1>3 DEF HeldRecordInv, DoneInv, UndoneInv, Began
<1>7. ASSUME NEW q \in Processes PROVE ~Began(q)
  BY <1>0 DEF SetupInv, RunInv, Began
<1>8. RestInv => RestInv'
  BY <1>0, <1>7 DEF RestInv, Managed!Whole, NothingLeft
<1> QED
  BY <1>0, <1>2, <1>4, <1>5, <1>6, <1>8, SetupMove DEF OnlyOf, ClaimInv

LEMMA SetupLoadStep ==
  ASSUME SetupInv, NEW p \in Processes, Managed!Load(p)
  PROVE  SetupInv'
<1>0. /\ setupPc[p] = "load"
      /\ UNCHANGED <<setupLock, setupRecord, slot, current, files, installed, referenced, setupUnit,
                     setupRunning, kept, disturbed>>
  BY DEF Managed!Load
<1>1. /\ SetupTypes /\ setupJob[p] \in Managed!Jobs /\ setupJob[p].then = "load" /\ setupLock = p
      /\ ClaimInv => HeldRecordInv(p) /\ RestInv
  <2>1. setupJob[p].then \in {"ready", "load", "failed"}
    BY DEF SetupInv, SetupTypes, Managed!Jobs
  <2> QED
    BY <1>0, <2>1 DEF SetupInv, SetupTypes, RunInv, Began, ClaimInv
<1>2. ASSUME NEW q \in Processes PROVE ~Began(q)
  BY <1>1 DEF SetupInv, RunInv, Began
<1>3. CASE (Managed!Goto(p, "already") \/ Managed!Goto(p, "failed")) /\ UNCHANGED <<setups, staged, setupJob>>
  <2>1. UNCHANGED <<setups, staged, setupJob>>
    BY <1>3 DEF Managed!Load
  <2>2. /\ setupPc' \in [Processes -> Managed!PCs] /\ \A q \in Processes \ {p} : setupPc'[q] = setupPc[q]
        /\ setupPc'[p] \in {"already", "failed"}
    BY <1>1, <1>3, SetupPCsAre, SetupGoto
  <2>3. SetupTypes'
    BY <1>0, <1>1, <2>1, <2>2 DEF SetupTypes
  <2>4. RunInv(p)' /\ HeldRecordInv(p)' /\ DoneInv(p)' /\ UndoneInv(p)'
    BY <1>0, <1>1, <2>1, <2>2 DEF RunInv, Began, HeldRecordInv, DoneInv, UndoneInv
  <2>5. RestInv => RestInv'
    BY <1>0, <2>1 DEF RestInv, Began, Managed!Whole, NothingLeft
  <2> QED
    BY <1>0, <2>1, <2>2, <2>3, <2>4, <2>5, SetupMove DEF OnlyOf, ClaimInv
<1>4. CASE /\ ~installed /\ setups < MaxSetups
           /\ Managed!Ok(p)
           /\ setupJob' = [setupJob EXCEPT ![p] = [Managed!NoJob EXCEPT !.then = "failed", !.refs = referenced]]
           /\ setups' = setups + 1 /\ staged' = {}
  <2>1. /\ setupPc' \in [Processes -> Managed!PCs] /\ \A q \in Processes \ {p} : setupPc'[q] = setupPc[q]
        /\ setupPc'[p] = "begin"
    BY <1>0, <1>1, <1>4, SetupOk, SetupOrder
  <2> DEFINE j == [Managed!NoJob EXCEPT !.then = "failed", !.refs = referenced]
  <2>2. j \in Managed!Jobs /\ j.then = "failed" /\ j.refs = referenced /\ ~j.prev
    BY <1>1 DEF Managed!NoJob, Managed!Jobs, SetupTypes
  <2>3. /\ setupJob' \in [Processes -> Managed!Jobs] /\ setupJob'[p] = j
        /\ \A q \in Processes \ {p} : setupJob'[q] = setupJob[q]
    BY <1>1, <1>4, <2>2 DEF SetupTypes
  <2>4. SetupTypes'
    BY <1>0, <1>1, <1>4, <2>1, <2>3 DEF SetupTypes
  <2> HIDE DEF j
  <2>5. RunInv(p)' /\ RestInv'
    BY <1>0, <1>1, <2>1, <2>2, <2>3 DEF RunInv, Began, RestInv
  <2>6. ClaimInv => HeldRecordInv(p)' /\ DoneInv(p)' /\ UndoneInv(p)'
    <3>1. ClaimInv => setupRecord = NoRecord /\ (~kept => NothingLeft)
      BY <1>0, <1>1, <1>2, <1>4 DEF HeldRecordInv, RestInv
    <3> QED
      BY <1>0, <2>1, <2>2, <2>3, <3>1 DEF HeldRecordInv, DoneInv, UndoneInv, NothingLeft
  <2> QED
    BY <1>0, <2>1, <2>3, <2>4, <2>5, <2>6, SetupMove DEF OnlyOf
<1> QED
  BY <1>3, <1>4 DEF Managed!Load

\* When a command is over, the claim that holds at rest.
LEMMA SetupAtRest ==
  ASSUME SetupInv, ClaimInv, NEW p \in Processes, setupLock = p, ~kept
  PROVE  IF installed /\ setupRecord = NoRecord THEN Managed!Whole
         ELSE (setupRecord # NoRecord /\ setupRecord.extract) \/ NothingLeft
<1>0. HeldRecordInv(p) /\ DoneInv(p) /\ UndoneInv(p) /\ RunInv(p) /\ RestInv
  BY DEF SetupInv, ClaimInv
<1>1. CASE ~Began(p)
  <2>1. \A q \in Processes : ~Began(q)
    BY <1>1 DEF SetupInv, RunInv, Began
  <2> QED
    BY <1>0, <2>1 DEF RestInv
<1>2. CASE Began(p)
  <2>1. CASE setupPc[p] = "done"
    BY <1>0, <1>2, <2>1 DEF HeldRecordInv, DoneInv, Managed!Whole, Managed!InstanceFiles
  <2>2. CASE setupPc[p] \in SetupStage \ PointerIsThere
    BY <1>0, <1>2, <2>2 DEF UndoneInv, NothingLeft
  <2>3. CASE setupPc[p] \in PointerIsThere \ {"done"}
    BY <1>0, <2>3 DEF HeldRecordInv
  <2>4. CASE setupPc[p] \in UndoStage
    BY <1>0, <2>4 DEF HeldRecordInv
  <2>5. CASE setupPc[p] \in PointerIsUndone
    BY <1>0, <1>2, <2>5 DEF UndoneInv, NothingLeft
  <2> QED
    BY <1>0, <1>2, <2>1, <2>2, <2>3, <2>4, <2>5 DEF RunInv
<1> QED
  BY <1>1, <1>2

LEMMA SetupEndStep ==
  ASSUME SetupInv, NEW p \in Processes, Managed!End(p) \/ (Managed!Crash(p) /\ setupLock = p)
  PROVE  SetupInv'
<1>0. /\ setupLock' = NoProc /\ setupJob' = [setupJob EXCEPT ![p] = Managed!NoJob] /\ staged' \subseteq staged
      /\ UNCHANGED <<setupRecord, setups, slot, current, files, installed, referenced, setupUnit,
                     setupRunning, kept, disturbed>>
  BY DEF Managed!End, Managed!Crash, Managed!Release, Managed!Abandon
<1>1. SetupTypes /\ RunInv(p) /\ setupJob[p].then \in {"ready", "load", "failed"}
  BY DEF SetupInv, SetupTypes, Managed!Jobs
<1>2. setupLock = p
  BY <1>1 DEF Managed!End, RunInv
<1>3. /\ setupPc' \in [Processes -> Managed!PCs] /\ \A q \in Processes \ {p} : setupPc'[q] = setupPc[q]
      /\ setupPc'[p] \in {"ready", "off"}
  BY <1>1, SetupPCsAre, SetupGoto DEF Managed!End, Managed!Crash
<1>4. /\ setupJob' \in [Processes -> Managed!Jobs] /\ setupJob'[p].then = "ready"
      /\ \A q \in Processes \ {p} : setupJob'[q] = setupJob[q]
  BY <1>0, <1>1, SetupNoJob DEF SetupTypes
<1>5. SetupTypes'
  BY <1>0, <1>1, <1>3, <1>4 DEF SetupTypes
<1>6. RunInv(p)' /\ HeldRecordInv(p)' /\ DoneInv(p)' /\ UndoneInv(p)'
  BY <1>0, <1>3, <1>4 DEF RunInv, Began, HeldRecordInv, DoneInv, UndoneInv
<1>7. ClaimInv => RestInv'
  BY <1>0, <1>2, SetupAtRest DEF RestInv, Managed!Whole, NothingLeft
<1> QED
  BY <1>0, <1>2, <1>3, <1>5, <1>6, <1>7, SetupMove DEF OnlyOf

LEMMA SetupCrashStep ==
  ASSUME SetupInv, NEW p \in Processes, Managed!Crash(p), setupLock # p
  PROVE  SetupInv'
<1>0. /\ setupJob' = [setupJob EXCEPT ![p] = Managed!NoJob]
      /\ UNCHANGED <<setupLock, setupRecord, setups, staged, slot, current, files, installed, referenced, setupUnit,
                     setupRunning, kept, disturbed>>
  BY DEF Managed!Crash, Managed!Abandon
<1>1. SetupTypes /\ RunInv(p)
  BY DEF SetupInv
<1>3. /\ setupPc' \in [Processes -> Managed!PCs] /\ \A q \in Processes \ {p} : setupPc'[q] = setupPc[q]
      /\ setupPc'[p] = "off"
  BY <1>1, SetupPCsAre, SetupGoto DEF Managed!Crash
<1>4. /\ setupJob' \in [Processes -> Managed!Jobs] /\ setupJob'[p].then = "ready"
      /\ \A q \in Processes \ {p} : setupJob'[q] = setupJob[q]
  BY <1>0, <1>1, SetupNoJob DEF SetupTypes
<1>5. SetupTypes'
  BY <1>0, <1>1, <1>3, <1>4 DEF SetupTypes
<1>6. RunInv(p)' /\ HeldRecordInv(p)' /\ DoneInv(p)' /\ UndoneInv(p)'
  BY <1>0, <1>3, <1>4 DEF RunInv, Began, HeldRecordInv, DoneInv, UndoneInv
<1>7. ASSUME NEW q \in Processes PROVE Began(q)' <=> Began(q)
  BY <1>1, <1>4 DEF RunInv, Began
<1>8. RestInv => RestInv'
  BY <1>0, <1>7 DEF RestInv, Managed!Whole, NothingLeft
<1> QED
  BY <1>0, <1>3, <1>5, <1>6, <1>8, SetupMove DEF OnlyOf, ClaimInv

-----------------------------------------------------------------------------
\* Recover

\* A step of a recovery: it undoes, and it forgets only a record that has no extraction.
LEMMA SetupRecovers ==
  ASSUME SetupInv, NEW p \in Processes, setupPc[p] \in {"r_read", "refused"} \cup RecoverySteps, SetupTypes',
         OnlyOf(p), UNCHANGED <<setupLock, kept, installed, referenced>>,
         setupJob'[p].then = setupJob[p].then, setupJob'[p].refs = setupJob[p].refs,
         setupJob'[p].prev = setupJob[p].prev,
         \/ /\ setupPc'[p] \in RecoverySteps /\ setupJob'[p].mem # NoRecord
            /\ setupPc'[p] \in {"r_partial", "r_asset", "r_clear"} => ~setupJob'[p].mem.extract
         \/ setupPc'[p] = "refused"
         \/ setupPc'[p] = setupJob[p].then /\ setupRecord' = NoRecord
         \/ setupPc'[p] = IF setupJob[p].then = "ready" THEN "off" ELSE "failed",
         disturbed => disturbed',
         ~disturbed' => \/ setupLock \in {p, NoProc}
                        \/ UNCHANGED <<setupRecord, slot, current, files, installed, referenced, setupUnit,
                                        setupRunning, kept>>,
         ClaimInv /\ ~disturbed' =>
           /\ setupPc'[p] \in RecoverySteps => setupJob'[p].mem = setupRecord'
           /\ NothingLeft => NothingLeft'
           /\ ~setupUnit /\ ~setupRunning => ~setupUnit' /\ ~setupRunning'
           /\ \/ setupRecord' = setupRecord
              \/ setupRecord # NoRecord /\ ~setupRecord.extract /\ setupRecord' = NoRecord
           /\ setupRecord = NoRecord => UNCHANGED <<slot, current, files, setupUnit>>
  PROVE  SetupInv'
<1>1. RunInv(p) /\ setupJob[p].then \in {"ready", "load", "failed"}
  BY DEF SetupInv, SetupTypes, Managed!Jobs
<1>2. RunInv(p)'
  BY <1>1 DEF RunInv, Began
<1>3. ASSUME NEW q \in Processes PROVE Began(q)' <=> Began(q)
  BY DEF OnlyOf, Began
<1>4. ASSUME ClaimInv, ~disturbed' PROVE RestInv'
  <2>1. RestInv /\ (setupRecord = NoRecord /\ Managed!Whole => Managed!Whole')
    BY <1>4 DEF ClaimInv, Managed!Whole
  <2> QED
    BY <1>3, <1>4, <2>1 DEF RestInv, NothingLeft
<1>5. ASSUME ClaimInv, ~disturbed' PROVE HeldRecordInv(p)' /\ DoneInv(p)' /\ UndoneInv(p)'
  <2>1. HeldRecordInv(p)'
    BY <1>1, <1>5 DEF HeldRecordInv
  <2>2. DoneInv(p)'
    BY <1>1 DEF DoneInv, Began
  <2>3. UndoneInv(p) /\ (Began(p) /\ ~kept => NothingLeft)
    BY <1>5 DEF UndoneInv, ClaimInv, NothingLeft
  <2>4. UndoneInv(p)'
    BY <1>5, <2>3 DEF UndoneInv, NothingLeft, Began
  <2> QED
    BY <2>1, <2>2, <2>4
<1> QED
  BY <1>2, <1>4, <1>5, SetupMove

LEMMA SetupProceeds ==
  ASSUME SetupTypes, NEW p \in Processes, setupPc[p] \in ({"r_read"} \cup RecoverySteps) \ {"r_clear"}, Managed!Proceed(p)
  PROVE  /\ setupPc'[p] = Managed!After(Managed!Recovery, setupPc[p]) /\ setupPc'[p] \in RecoverySteps
         /\ setupPc' \in [Processes -> Managed!PCs]
         /\ \A q \in Processes \ {p} : setupPc'[q] = setupPc[q]
<1>1. Managed!After(Managed!Recovery, setupPc[p]) \in RecoverySteps
  BY RecoveryOrder
<1> QED
  BY <1>1, SetupPCsAre, SetupGoto DEF Managed!Proceed

\* A recovery that ends forgets the record it has read.
LEMMA SetupForgets ==
  ASSUME SetupTypes, NEW p \in Processes, Managed!Recovered(p) \/ Managed!GiveUp(p)
  PROVE  /\ Managed!Recovered(p) => setupPc'[p] = setupJob[p].then
         /\ Managed!GiveUp(p) => setupPc'[p] = IF setupJob[p].then = "ready" THEN "off" ELSE "failed"
         /\ setupPc' \in [Processes -> Managed!PCs] /\ setupJob' \in [Processes -> Managed!Jobs]
         /\ OnlyOf(p)
         /\ setupJob'[p].then = setupJob[p].then /\ setupJob'[p].refs = setupJob[p].refs
         /\ setupJob'[p].prev = setupJob[p].prev
         /\ setupPc'[p] \notin RecoverySteps /\ setupPc'[p] # "refused"
<1>1. setupJob[p] \in Managed!Jobs /\ setupJob[p].then \in {"ready", "load", "failed"}
  BY DEF SetupTypes, Managed!Jobs
<1>2. \E at \in Managed!PCs :
        /\ Managed!Goto(p, at)
        /\ at \in {"ready", "load", "failed", "off"}
        /\ Managed!Recovered(p) => at = setupJob[p].then
        /\ Managed!GiveUp(p) => at = IF setupJob[p].then = "ready" THEN "off" ELSE "failed"
  <2>1. CASE Managed!Recovered(p) /\ ~Managed!GiveUp(p)
    BY <1>1, <2>1, SetupPCsAre DEF Managed!Recovered
  <2>2. CASE Managed!GiveUp(p) /\ ~Managed!Recovered(p)
    BY <2>2, SetupPCsAre DEF Managed!GiveUp
  <2>3. CASE Managed!Recovered(p) /\ Managed!GiveUp(p)
    <3>1. setupPc' = [setupPc EXCEPT ![p] = setupJob[p].then]
          /\ setupPc' = [setupPc EXCEPT ![p] = IF setupJob[p].then = "ready" THEN "off" ELSE "failed"]
      BY <2>3 DEF Managed!Recovered, Managed!GiveUp, Managed!Goto
    <3>2. setupJob[p].then = IF setupJob[p].then = "ready" THEN "off" ELSE "failed"
      BY <3>1 DEF SetupTypes
    <3> QED
      BY <2>3, <3>2, SetupPCsAre DEF Managed!GiveUp
  <2> QED
    BY <2>1, <2>2, <2>3
<1>3. /\ setupPc' \in [Processes -> Managed!PCs] /\ \A q \in Processes \ {p} : setupPc'[q] = setupPc[q]
      /\ setupPc'[p] \in {"ready", "load", "failed", "off"}
      /\ Managed!Recovered(p) => setupPc'[p] = setupJob[p].then
      /\ Managed!GiveUp(p) => setupPc'[p] = IF setupJob[p].then = "ready" THEN "off" ELSE "failed"
  BY <1>2, SetupGoto
<1> DEFINE j == [setupJob[p] EXCEPT !.mem = NoRecord]
<1>4. j \in Managed!Jobs /\ j.then = setupJob[p].then /\ j.refs = setupJob[p].refs /\ j.prev = setupJob[p].prev
  BY <1>1 DEF Managed!Jobs
<1>5. setupJob' = [setupJob EXCEPT ![p] = j]
  BY DEF Managed!Recovered, Managed!GiveUp
<1>6. setupJob' \in [Processes -> Managed!Jobs] /\ setupJob'[p] = j /\ \A q \in Processes \ {p} : setupJob'[q] = setupJob[q]
  BY <1>4, <1>5 DEF SetupTypes
<1> QED
  BY <1>3, <1>6 DEF OnlyOf

LEMMA SetupInterferes ==
  ASSUME SetupInv, NEW p \in Processes, setupPc[p] \in RecoverySteps, Managed!Interferes(p)
  PROVE  /\ SetupTypes /\ setupJob[p] \in Managed!Jobs /\ setupJob[p].mem \in Managed!Record
         /\ setupPc[p] \in {"r_partial", "r_asset", "r_clear"} => ~setupJob[p].mem.extract
         /\ disturbed' \in BOOLEAN /\ (disturbed => disturbed')
         /\ ~disturbed' => setupLock \in {p, NoProc} /\ setupRecord = setupJob[p].mem
         /\ ~disturbed' => ClaimInv /\ setupRecord \in Managed!Record /\ setupRecord # NoRecord
         /\ ~disturbed' /\ NothingLeft => "root" \notin files
<1>1. /\ SetupTypes /\ RunInv(p) /\ (~disturbed => ClaimInv)
      /\ setupJob[p] \in Managed!Jobs /\ setupJob[p].mem \in Managed!Record \cup {NoRecord}
      /\ disturbed \in BOOLEAN
  BY DEF SetupInv, SetupTypes, Managed!Jobs
<1>2. setupJob[p].mem \in Managed!Record
      /\ (setupPc[p] \in {"r_partial", "r_asset", "r_clear"} => ~setupJob[p].mem.extract)
  BY <1>1 DEF RunInv
<1>3. disturbed' \in BOOLEAN /\ (disturbed => disturbed')
      /\ (~disturbed' => setupLock \in {p, NoProc} /\ setupRecord = setupJob[p].mem)
  BY <1>1 DEF Managed!Interferes
<1>4. NothingLeft => "root" \notin files
  BY DEF NothingLeft, Managed!InstanceFiles
<1> QED
  BY <1>1, <1>2, <1>3, <1>4

LEMMA SetupRestoreServiceStep ==
  ASSUME SetupInv, NEW p \in Processes, Managed!RestoreService(p)
  PROVE  SetupInv'
<1>0. /\ setupPc[p] \in {"r_service"} /\ Managed!Interferes(p)
      /\ UNCHANGED <<setupLock, setupRecord, setups, staged, slot, current, files, installed, referenced, kept>>
  BY DEF Managed!RestoreService
<1>1. /\ SetupTypes /\ setupJob[p] \in Managed!Jobs /\ setupJob[p].mem \in Managed!Record
      /\ setupPc[p] \in {"r_partial", "r_asset", "r_clear"} => ~setupJob[p].mem.extract
      /\ disturbed' \in BOOLEAN /\ (disturbed => disturbed')
      /\ ~disturbed' => setupLock \in {p, NoProc} /\ setupRecord = setupJob[p].mem
      /\ ~disturbed' => ClaimInv /\ setupRecord \in Managed!Record /\ setupRecord # NoRecord
      /\ ~disturbed' /\ NothingLeft => "root" \notin files
  BY <1>0, SetupInterferes
<1>a. setupUnit \in BOOLEAN /\ setupRunning \in BOOLEAN /\ installed \in BOOLEAN
  BY <1>1 DEF SetupTypes
<1>2. /\ setupUnit' \in BOOLEAN /\ setupRunning' \in BOOLEAN
      /\ ~setupUnit /\ ~setupRunning => ~setupUnit' /\ ~setupRunning'
  <2>1. CASE setupUnit' = FALSE /\ setupRunning' = FALSE
    BY <2>1
  <2>2. CASE UNCHANGED <<setupUnit, setupRunning>>
    BY <1>a, <2>2
  <2>3. CASE /\ setupUnit' \in {setupUnit, setupUnit /\ ~installed}
             /\ setupRunning' \in {setupRunning, setupRunning /\ ~installed}
    BY <1>a, <2>3
  <2> QED
    BY <2>3 DEF Managed!RestoreService
<1>3. /\ OnlyOf(p) /\ setupPc' \in [Processes -> Managed!PCs] /\ setupJob' \in [Processes -> Managed!Jobs]
      /\ setupJob'[p].then = setupJob[p].then /\ setupJob'[p].refs = setupJob[p].refs
      /\ setupJob'[p].prev = setupJob[p].prev
      /\ \/ /\ setupPc'[p] \in RecoverySteps /\ setupJob' = setupJob
            /\ setupPc'[p] \in {"r_partial", "r_asset", "r_clear"} => ~setupJob[p].mem.extract
         \/ setupPc'[p] = "refused"
         \/ setupPc'[p] = setupJob[p].then /\ setupRecord' = NoRecord
         \/ setupPc'[p] = IF setupJob[p].then = "ready" THEN "off" ELSE "failed"
      /\ setupPc'[p] \in RecoverySteps => setupJob' = setupJob
  <2>1. CASE Managed!Proceed(p) /\ UNCHANGED setupJob
    BY <1>0, <1>1, <2>1, SetupProceeds, RecoveryOrder DEF OnlyOf, SetupTypes
  <2>2. CASE Managed!GiveUp(p)
    BY <1>1, <2>2, SetupForgets
  <2> QED
    BY <2>1, <2>2 DEF Managed!RestoreService
<1>4. SetupTypes'
  BY <1>0, <1>1, <1>2, <1>3 DEF SetupTypes
<1>5. ~disturbed' /\ NothingLeft => NothingLeft'
  BY <1>0, <1>2 DEF NothingLeft
<1> QED
  BY <1>0, <1>1, <1>2, <1>3, <1>4, <1>5, SetupRecovers

LEMMA SetupRestoreConfigStep ==
  ASSUME SetupInv, NEW p \in Processes, Managed!RestoreConfig(p)
  PROVE  SetupInv'
<1>0. /\ setupPc[p] \in {"r_config"} /\ Managed!Interferes(p)
      /\ UNCHANGED <<setupLock, setupRecord, setups, staged, slot, current, installed, referenced, setupUnit, setupRunning, kept>>
  BY DEF Managed!RestoreConfig
<1>1. /\ SetupTypes /\ setupJob[p] \in Managed!Jobs /\ setupJob[p].mem \in Managed!Record
      /\ setupPc[p] \in {"r_partial", "r_asset", "r_clear"} => ~setupJob[p].mem.extract
      /\ disturbed' \in BOOLEAN /\ (disturbed => disturbed')
      /\ ~disturbed' => setupLock \in {p, NoProc} /\ setupRecord = setupJob[p].mem
      /\ ~disturbed' => ClaimInv /\ setupRecord \in Managed!Record /\ setupRecord # NoRecord
      /\ ~disturbed' /\ NothingLeft => "root" \notin files
  BY <1>0, SetupInterferes
<1>a. files \subseteq Managed!Files
  BY <1>1 DEF SetupTypes
<1>2. files' \subseteq Managed!Files /\ ("root" \notin files => files' = files)
  BY <1>a DEF Managed!RestoreConfig, Managed!Files, Managed!InstanceFiles
<1>3. /\ OnlyOf(p) /\ setupPc' \in [Processes -> Managed!PCs] /\ setupJob' \in [Processes -> Managed!Jobs]
      /\ setupJob'[p].then = setupJob[p].then /\ setupJob'[p].refs = setupJob[p].refs
      /\ setupJob'[p].prev = setupJob[p].prev
      /\ \/ /\ setupPc'[p] \in RecoverySteps /\ setupJob' = setupJob
            /\ setupPc'[p] \in {"r_partial", "r_asset", "r_clear"} => ~setupJob[p].mem.extract
         \/ setupPc'[p] = "refused"
         \/ setupPc'[p] = setupJob[p].then /\ setupRecord' = NoRecord
         \/ setupPc'[p] = IF setupJob[p].then = "ready" THEN "off" ELSE "failed"
      /\ setupPc'[p] \in RecoverySteps => setupJob' = setupJob
  <2>1. CASE Managed!Proceed(p) /\ UNCHANGED setupJob
    BY <1>0, <1>1, <2>1, SetupProceeds, RecoveryOrder DEF OnlyOf, SetupTypes
  <2>2. CASE Managed!GiveUp(p)
    BY <1>1, <2>2, SetupForgets
  <2>3. CASE Managed!Goto(p, "refused") /\ UNCHANGED setupJob
    BY <1>1, <2>3, SetupPCsAre, SetupGoto DEF OnlyOf, SetupTypes
  <2> QED
    BY <2>1, <2>2, <2>3 DEF Managed!RestoreConfig
<1>4. SetupTypes'
  BY <1>0, <1>1, <1>2, <1>3 DEF SetupTypes
<1>5. ~disturbed' /\ NothingLeft => NothingLeft'
  BY <1>0, <1>1, <1>2 DEF NothingLeft
<1> QED
  BY <1>0, <1>1, <1>3, <1>4, <1>5, SetupRecovers

LEMMA SetupRemoveExtractStep ==
  ASSUME SetupInv, NEW p \in Processes, Managed!RemoveExtract(p)
  PROVE  SetupInv'
<1>0. /\ setupPc[p] \in {"r_extract"} /\ Managed!Interferes(p)
      /\ UNCHANGED <<setupLock, setupRecord, setups, staged, slot, current, files, installed, referenced, setupUnit, setupRunning, kept>>
  BY DEF Managed!RemoveExtract
<1>1. /\ SetupTypes /\ setupJob[p] \in Managed!Jobs /\ setupJob[p].mem \in Managed!Record
      /\ setupPc[p] \in {"r_partial", "r_asset", "r_clear"} => ~setupJob[p].mem.extract
      /\ disturbed' \in BOOLEAN /\ (disturbed => disturbed')
      /\ ~disturbed' => setupLock \in {p, NoProc} /\ setupRecord = setupJob[p].mem
      /\ ~disturbed' => ClaimInv /\ setupRecord \in Managed!Record /\ setupRecord # NoRecord
      /\ ~disturbed' /\ NothingLeft => "root" \notin files
  BY <1>0, SetupInterferes
<1>2. UNCHANGED setupJob
  BY <1>0, <1>1 DEF Managed!RemoveExtract
<1>3. /\ OnlyOf(p) /\ setupPc' \in [Processes -> Managed!PCs] /\ setupJob' \in [Processes -> Managed!Jobs]
      /\ setupJob'[p].then = setupJob[p].then /\ setupJob'[p].refs = setupJob[p].refs
      /\ setupJob'[p].prev = setupJob[p].prev
      /\ \/ /\ setupPc'[p] \in RecoverySteps /\ setupJob' = setupJob
            /\ setupPc'[p] \in {"r_partial", "r_asset", "r_clear"} => ~setupJob[p].mem.extract
         \/ setupPc'[p] = "refused"
         \/ setupPc'[p] = setupJob[p].then /\ setupRecord' = NoRecord
         \/ setupPc'[p] = IF setupJob[p].then = "ready" THEN "off" ELSE "failed"
      /\ setupPc'[p] \in RecoverySteps => setupJob' = setupJob
  <2>1. CASE ~setupJob[p].mem.extract /\ Managed!Proceed(p) /\ UNCHANGED setupJob
    BY <1>0, <1>1, <2>1, SetupProceeds DEF OnlyOf, SetupTypes
  <2>2. CASE Managed!Goto(p, "refused") /\ UNCHANGED setupJob
    BY <1>1, <2>2, SetupPCsAre, SetupGoto DEF OnlyOf, SetupTypes
  <2> QED
    BY <2>1, <2>2 DEF Managed!RemoveExtract
<1>4. SetupTypes'
  BY <1>0, <1>1, <1>3 DEF SetupTypes
<1>5. ~disturbed' /\ NothingLeft => NothingLeft'
  BY <1>0 DEF NothingLeft
<1> QED
  BY <1>0, <1>1, <1>3, <1>4, <1>5, SetupRecovers

LEMMA SetupRemoveDownloadStep ==
  ASSUME SetupInv, NEW p \in Processes, Managed!RemoveDownload(p)
  PROVE  SetupInv'
<1>0. /\ setupPc[p] \in {"r_partial", "r_asset"} /\ Managed!Interferes(p)
      /\ UNCHANGED <<setupLock, setupRecord, setups, slot, current, files, installed, referenced, setupUnit, setupRunning, kept>>
  BY DEF Managed!RemoveDownload
<1>1. /\ SetupTypes /\ setupJob[p] \in Managed!Jobs /\ setupJob[p].mem \in Managed!Record
      /\ setupPc[p] \in {"r_partial", "r_asset", "r_clear"} => ~setupJob[p].mem.extract
      /\ disturbed' \in BOOLEAN /\ (disturbed => disturbed')
      /\ ~disturbed' => setupLock \in {p, NoProc} /\ setupRecord = setupJob[p].mem
      /\ ~disturbed' => ClaimInv /\ setupRecord \in Managed!Record /\ setupRecord # NoRecord
      /\ ~disturbed' /\ NothingLeft => "root" \notin files
  BY <1>0, SetupInterferes
<1>2. staged' \subseteq staged
  BY <1>0, <1>1 DEF Managed!RemoveDownload
<1>3. /\ OnlyOf(p) /\ setupPc' \in [Processes -> Managed!PCs] /\ setupJob' \in [Processes -> Managed!Jobs]
      /\ setupJob'[p].then = setupJob[p].then /\ setupJob'[p].refs = setupJob[p].refs
      /\ setupJob'[p].prev = setupJob[p].prev
      /\ \/ /\ setupPc'[p] \in RecoverySteps /\ setupJob' = setupJob
            /\ setupPc'[p] \in {"r_partial", "r_asset", "r_clear"} => ~setupJob[p].mem.extract
         \/ setupPc'[p] = "refused"
         \/ setupPc'[p] = setupJob[p].then /\ setupRecord' = NoRecord
         \/ setupPc'[p] = IF setupJob[p].then = "ready" THEN "off" ELSE "failed"
      /\ setupPc'[p] \in RecoverySteps => setupJob' = setupJob
  <2>1. CASE Managed!Proceed(p) /\ UNCHANGED setupJob
    BY <1>0, <1>1, <2>1, SetupProceeds DEF OnlyOf, SetupTypes
  <2>2. CASE Managed!GiveUp(p)
    BY <1>1, <2>2, SetupForgets
  <2> QED
    BY <2>1, <2>2 DEF Managed!RemoveDownload
<1>4. SetupTypes'
  BY <1>0, <1>1, <1>2, <1>3 DEF SetupTypes
<1>5. ~disturbed' /\ NothingLeft => NothingLeft'
  BY <1>0 DEF NothingLeft
<1> QED
  BY <1>0, <1>1, <1>3, <1>4, <1>5, SetupRecovers

LEMMA SetupClearRecordStep ==
  ASSUME SetupInv, NEW p \in Processes, Managed!ClearRecord(p)
  PROVE  SetupInv'
<1>0. /\ setupPc[p] \in {"r_clear"} /\ Managed!Interferes(p)
      /\ UNCHANGED <<setupLock, setups, staged, slot, current, files, installed, referenced, setupUnit, setupRunning, kept>>
  BY DEF Managed!ClearRecord
<1>1. /\ SetupTypes /\ setupJob[p] \in Managed!Jobs /\ setupJob[p].mem \in Managed!Record
      /\ setupPc[p] \in {"r_partial", "r_asset", "r_clear"} => ~setupJob[p].mem.extract
      /\ disturbed' \in BOOLEAN /\ (disturbed => disturbed')
      /\ ~disturbed' => setupLock \in {p, NoProc} /\ setupRecord = setupJob[p].mem
      /\ ~disturbed' => ClaimInv /\ setupRecord \in Managed!Record /\ setupRecord # NoRecord
      /\ ~disturbed' /\ NothingLeft => "root" \notin files
  BY <1>0, SetupInterferes
<1>2. setupRecord' \in {setupRecord, NoRecord}
  BY <1>0, <1>1 DEF Managed!ClearRecord
<1>3. /\ OnlyOf(p) /\ setupPc' \in [Processes -> Managed!PCs] /\ setupJob' \in [Processes -> Managed!Jobs]
      /\ setupJob'[p].then = setupJob[p].then /\ setupJob'[p].refs = setupJob[p].refs
      /\ setupJob'[p].prev = setupJob[p].prev
      /\ \/ /\ setupPc'[p] \in RecoverySteps /\ setupJob' = setupJob
            /\ setupPc'[p] \in {"r_partial", "r_asset", "r_clear"} => ~setupJob[p].mem.extract
         \/ setupPc'[p] = "refused"
         \/ setupPc'[p] = setupJob[p].then /\ setupRecord' = NoRecord
         \/ setupPc'[p] = IF setupJob[p].then = "ready" THEN "off" ELSE "failed"
      /\ setupPc'[p] \in RecoverySteps => setupJob' = setupJob
  <2>1. CASE Managed!GiveUp(p)
    BY <1>1, <2>1, SetupForgets
  <2>2. CASE Managed!Recovered(p) /\ setupRecord' = NoRecord
    BY <1>1, <2>2, SetupForgets
  <2> QED
    BY <2>1, <2>2 DEF Managed!ClearRecord
<1>4. SetupTypes'
  BY <1>0, <1>1, <1>2, <1>3 DEF SetupTypes
<1>5. ~disturbed' /\ NothingLeft => NothingLeft'
  BY <1>0 DEF NothingLeft
<1>6. ~disturbed' => \/ setupRecord' = setupRecord
                     \/ setupRecord # NoRecord /\ ~setupRecord.extract /\ setupRecord' = NoRecord
  BY <1>0, <1>1, <1>2
<1>7. setupPc'[p] \notin RecoverySteps
  BY <1>1, SetupForgets DEF Managed!ClearRecord
<1> QED
  BY <1>0, <1>1, <1>3, <1>4, <1>5, <1>6, <1>7, SetupRecovers

LEMMA SetupReadRecordStep ==
  ASSUME SetupInv, NEW p \in Processes, Managed!ReadRecord(p) \/ Managed!Refused(p)
  PROVE  SetupInv'
<1>0. /\ setupPc[p] \in {"r_read", "refused"}
      /\ UNCHANGED <<setupLock, setupRecord, setups, staged, slot, current, files, installed, referenced,
                     setupUnit, setupRunning, kept, disturbed>>
  BY DEF Managed!ReadRecord, Managed!Refused
<1>1. SetupTypes /\ setupJob[p] \in Managed!Jobs
  BY DEF SetupInv, SetupTypes
<1>2. /\ OnlyOf(p) /\ setupPc' \in [Processes -> Managed!PCs] /\ setupJob' \in [Processes -> Managed!Jobs]
      /\ setupJob'[p].then = setupJob[p].then /\ setupJob'[p].refs = setupJob[p].refs
      /\ setupJob'[p].prev = setupJob[p].prev
      /\ \/ /\ setupPc'[p] = "r_service" /\ setupRecord # NoRecord /\ setupJob'[p].mem = setupRecord
         \/ setupPc'[p] = setupJob[p].then /\ setupRecord = NoRecord
         \/ setupPc'[p] = IF setupJob[p].then = "ready" THEN "off" ELSE "failed"
      /\ setupPc'[p] \in RecoverySteps => setupJob'[p].mem = setupRecord
  <2>1. CASE Managed!GiveUp(p) \/ (setupRecord = NoRecord /\ Managed!Recovered(p))
    BY <1>1, <2>1, SetupForgets
  <2>2. CASE /\ setupPc[p] = "r_read" /\ setupRecord # NoRecord /\ Managed!Proceed(p)
             /\ setupJob' = [setupJob EXCEPT ![p].mem = setupRecord]
    <3> DEFINE j == [setupJob[p] EXCEPT !.mem = setupRecord]
    <3>1. j \in Managed!Jobs /\ j.then = setupJob[p].then /\ j.refs = setupJob[p].refs
          /\ j.prev = setupJob[p].prev /\ j.mem = setupRecord
      BY <1>1 DEF Managed!Jobs, SetupTypes
    <3>2. setupJob' = [setupJob EXCEPT ![p] = j]
      BY <2>2
    <3>3. setupJob' \in [Processes -> Managed!Jobs] /\ setupJob'[p] = j
          /\ \A q \in Processes \ {p} : setupJob'[q] = setupJob[q]
      BY <1>1, <3>1, <3>2 DEF SetupTypes
    <3> HIDE DEF j
    <3> QED
      BY <1>1, <2>2, <3>3, SetupProceeds, RecoveryOrder DEF OnlyOf
  <2> QED
    BY <2>1, <2>2 DEF Managed!ReadRecord, Managed!Refused
<1>3. SetupTypes'
  BY <1>0, <1>1, <1>2 DEF SetupTypes
<1>4. NothingLeft => NothingLeft'
  BY <1>0 DEF NothingLeft
<1> QED
  BY <1>0, <1>2, <1>3, <1>4, SetupRecovers

-----------------------------------------------------------------------------
LEMMA SetupInitInv == Managed!Init => SetupInv
<1> SUFFICES ASSUME Managed!Init PROVE SetupInv
  OBVIOUS
<1>1. SetupTypes
  <2>1. /\ slot \in BOOLEAN /\ current \in BOOLEAN /\ installed \in BOOLEAN /\ referenced \in BOOLEAN
        /\ setupUnit \in BOOLEAN /\ setupRunning \in BOOLEAN /\ kept \in BOOLEAN /\ disturbed \in BOOLEAN
    BY DEF Managed!Init
  <2>2. /\ setupPc \in [Processes -> Managed!PCs] /\ setupJob \in [Processes -> Managed!Jobs]
        /\ setupLock = NoProc /\ setupRecord = NoRecord /\ setups = 0 /\ staged = {} /\ files = {}
    BY SetupNoJob, SetupPCsAre DEF Managed!Init, Managed!LockInit
  <2> QED
    BY <2>1, <2>2 DEF SetupTypes
<1>2. \A p \in Processes : RunInv(p) /\ ~Began(p) /\ setupLock # p
  BY SetupNoJob DEF Managed!Init, RunInv, Began, Managed!LockInit
<1>3. NothingLeft /\ setupRecord = NoRecord
  BY DEF Managed!Init, NothingLeft
<1> QED
  BY <1>1, <1>2, <1>3
     DEF SetupInv, ClaimInv, RestInv, HeldRecordInv, DoneInv, UndoneInv, NothingLeft

LEMMA SetupStays == SetupInv /\ [FilesNext]_<<part, vars, journalVars, otherFiles>> => SetupInv'
<1> SUFFICES ASSUME SetupInv, [FilesNext]_<<part, vars, journalVars, otherFiles>> PROVE SetupInv'
  OBVIOUS
<1>1. CASE UNCHANGED setupVars
  BY <1>1
     DEF setupVars, SetupInv, SetupTypes, RunInv, Began, ClaimInv, RestInv, HeldRecordInv,
       DoneInv, UndoneInv, NothingLeft, Managed!Whole
<1>2. Managed!Next \/ UNCHANGED setupVars
  BY DEF FilesNext, ProxyMoves, JournalMoves, SetupMoves, StoreMoves, ClaudeMoves, Rest,
     otherFiles
<1>3. ASSUME NEW p \in Processes, Managed!Step(p) PROVE SetupInv'
  BY <1>3, SetupStartStep, SetupCommandStep, SetupLoadStep, SetupEndStep, SetupCrashStep,
     SetupBeginStep, SetupCheckpointStep, SetupStageStep, SetupSlotStep, SetupPointerStep,
     SetupWriteStep, SetupSaveStateStep, SetupSaveReferencesStep, SetupInstallServiceStep,
     SetupStartServiceStep, SetupCheckStatusStep, SetupCompleteStep, SetupUndoServiceStep,
     SetupUndoStateStep, SetupUndoReferencesStep, SetupUndoFilesStep, SetupUndoPointerStep,
     SetupReadRecordStep, SetupRestoreServiceStep, SetupRestoreConfigStep, SetupRemoveExtractStep,
     SetupRemoveDownloadStep, SetupClearRecordStep DEF Managed!Step
<1> QED
  BY <1>1, <1>2, <1>3 DEF Managed!Next

\* The invariant of managed setup: what the record, the disk, the service and the two
\* documents of PMux hold at each step of a setup, of its undo and of a recovery, and at rest.
THEOREM SetupInvariance == FilesSpec => []SetupInv
<1>1. FilesInit => SetupInv
  BY SetupInitInv DEF FilesInit
<1> QED
  BY <1>1, SetupStays, PTL DEF FilesSpec

LEMMA SetupClaims == SetupInv => SetupIsAllOrNothing /\ UnfinishedIsRecorded
<1> SUFFICES ASSUME SetupInv PROVE SetupIsAllOrNothing /\ UnfinishedIsRecorded
  OBVIOUS
<1>1. ASSUME NEW p \in Processes, setupPc[p] = "done", ~disturbed
      PROVE  Managed!Whole /\ setupRecord = NoRecord
  <2>1. /\ Began(p) /\ setupLock = p /\ HeldRecordInv(p) /\ DoneInv(p)
    BY <1>1, SetupUnderWay DEF SetupInv
  <2> QED
    BY <1>1, <2>1 DEF HeldRecordInv, DoneInv, Managed!Whole, Managed!InstanceFiles
<1>2. ASSUME NEW p \in Processes, setupPc[p] = "failed", Began(p), ~kept, ~disturbed
      PROVE  NothingLeft
  BY <1>2 DEF SetupInv, ClaimInv, UndoneInv, NothingLeft
<1>3. ASSUME setupRecord = NoRecord, setupLock = NoProc, ~kept, ~disturbed
      PROVE  IF installed THEN Managed!Whole ELSE NothingLeft
  <2>1. \A p \in Processes : ~Began(p)
    BY <1>3 DEF SetupInv, RunInv, Began
  <2> QED
    BY <1>3, <2>1 DEF SetupInv, ClaimInv, RestInv
<1> QED
  BY <1>1, <1>2, <1>3
     DEF SetupIsAllOrNothing, Managed!SetupIsAllOrNothing, Managed!SuccessIsWhole,
       Managed!FailureIsUndone, UnfinishedIsRecorded, Managed!UnfinishedIsRecorded, Began,
       NothingLeft

\* A managed setup that reports success has left a complete installation and no record of
\* itself, and one that fails has left nothing (runtime.go:243), at every step at which it
\* may die or fail, unless a call could not take back what it did.
THEOREM SetupStaysAllOrNothing == FilesSpec => []SetupIsAllOrNothing
BY SetupInvariance, SetupClaims, PTL

\* A setup that was interrupted has its record: without one, PMux's state, its service and its
\* references agree (recovery.go:78).
THEOREM UnfinishedStaysRecorded == FilesSpec => []UnfinishedIsRecorded
BY SetupInvariance, SetupClaims, PTL

HIDE DEF NoProcAssumption, MaxSetupsAssumption, SetupRecordAssumption,
        Managed!disk, Managed!state, Managed!service, Managed!history,
        UnitIsThere, RefsAreThere, StateIsThere, ConfigIsThere, KeyIsThere, SidecarIsThere, RootIsThere,
        PointerIsThere, SlotIsThere, ExtractIsNoted, RecordIsThere, PointerIsUndone, FilesAreUndone,
        RefsAreUndone, StateIsUndone, ServiceIsUndone, RecoverySteps, SetupStage, UndoStage

-----------------------------------------------------------------------------
(* Types                                                                   *)

\* An update of the core, as far as it is part of this system.
LEMMA CoreStaysSound == IInv /\ [FilesNext]_<<part, vars, journalVars, otherFiles>> => IInv'
<1> SUFFICES ASSUME IInv, [FilesNext]_<<part, vars, journalVars, otherFiles>> PROVE IInv'
  OBVIOUS
<1>1. Next \/ UNCHANGED vars
  BY DEF FilesNext, ProxyMoves, JournalMoves, SetupMoves, StoreMoves, ClaudeMoves, Rest
<1> QED
  BY <1>1, NextIInv

LEMMA StoreTyped == StoreInv => Store!TypeOK
<1> SUFFICES ASSUME StoreInv PROVE Store!TypeOK
  OBVIOUS
<1>1. /\ doc \in Store!Contents /\ lock \in Processes \cup {NoProc}
      /\ storePc \in [Processes -> Store!PCs] /\ storeJob \in [Processes -> Store!Jobs]
      /\ changes \in 0 .. MaxChanges /\ damage \in 0 .. MaxDamage /\ committed \in Store!Valid
  BY DEF StoreInv, StoreTypes
<1>2. copy \in [content: Store!Contents, whole: BOOLEAN]
  BY DEF StoreInv, StoreTypes, Store!Contents
<1>3. saves \in Seq(Store!Valid)
  BY DEF StoreInv, StoreTypes
<1> QED
  BY <1>1, <1>2, <1>3 DEF Store!TypeOK

LEMMA SetupTyped == SetupInv => Managed!TypeOK
BY DEF SetupInv, SetupTypes, Managed!TypeOK

\* The variables of the component at work have their types, within the bounds of the model.
THEOREM FilesTypeCorrect == FilesSpec => []FilesTypeOK
<1>1. FilesInit => IInv
  BY InitIInv DEF FilesInit
<1>2. FilesSpec => []IInv
  BY <1>1, CoreStaysSound, PTL DEF FilesSpec
<1>3. IInv /\ ClaudeInv /\ StoreInv /\ SetupInv => FilesTypeOK
  BY StoreTyped, SetupTyped DEF IInv, ClaudeInv, FilesTypeOK
<1> QED
  BY <1>2, <1>3, ClaudeInvariance, StoreInvariance, SetupInvariance, PTL
=============================================================================
