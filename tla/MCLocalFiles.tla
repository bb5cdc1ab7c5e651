---------------------------- MODULE MCLocalFiles ----------------------------
(***************************************************************************)
(* The files that PMux makes, keeps or edits, for model checking: the      *)
(* versions of the core, which an update switches, the operation journal   *)
(* as a parser sees it, the installation that a managed setup makes, a     *)
(* document of PMux with its backups, and Claude's settings.  No component *)
(* uses the files of another, and the commands that change them take the   *)
(* mutation lock, but for the two that save a profile, so a behaviour has  *)
(* one component at work (part); the others keep their first state.  What  *)
(* an update asks of the service is part of its module.                    *)
(***************************************************************************)
EXTENDS ProxyUpdate, TLC

CONSTANTS
  Procs, TxIds, MaxLines,                                     \* JournalFold
  Processes, NoProc, MaxSetups,                               \* ManagedSetup
  Retention, MaxChanges, MaxDamage, Corrupt, Missing,         \* StateStore
  Models, NoModel, Absent, NoBackup, MaxOthers                \* ClaudeSettings

ASSUME MaxLinesAssumption == MaxLines \in Nat
ASSUME NoProcAssumption == NoProc \notin Processes
ASSUME MaxSetupsAssumption == MaxSetups \in Nat
ASSUME RetentionAssumption == Retention \in Nat \ {0}
ASSUME MaxChangesAssumption == MaxChanges \in Nat /\ MaxDamage \in Nat
ASSUME MaxOthersAssumption == MaxOthers \in Nat

VARIABLES
  part,
  jlines, jtorn, jsynced, loaded, snap, issued,
  setupLock, setupRecord, setups, staged, slot, current, files, installed, referenced,
  setupUnit, setupRunning, setupPc, setupJob, kept, disturbed,
  doc, saves, copy, lock, storePc, storeJob, changes, damage, committed, storeBefore, mixed,
  settings, slotBackup, slotRecord, config, slotPc, slotJob, edits, meddled, torn

Fold == INSTANCE JournalFold
Managed == INSTANCE ManagedSetup WITH
  Procs <- Processes, lock <- setupLock, record <- setupRecord, pointer <- current,
  unit <- setupUnit, running <- setupRunning, pc <- setupPc, job <- setupJob
Store == INSTANCE StateStore WITH
  Procs <- Processes, pc <- storePc, job <- storeJob, issued <- changes, before <- storeBefore
Claude == INSTANCE ClaudeSettings WITH
  backup <- slotBackup, record <- slotRecord, pc <- slotPc, job <- slotJob

ASSUME SetupRecordAssumption == NoRecord \notin Managed!Record
ASSUME AbsentAssumption == Absent \notin Claude!Record
ASSUME DocumentAssumption == Corrupt # Missing /\ \A c \in Store!Valid : c \notin {Corrupt, Missing}

journalVars == <<jlines, jtorn, jsynced, loaded, snap, issued>>
setupVars ==
  <<setupLock, setupRecord, setups, staged, slot, current, files, installed, referenced,
    setupUnit, setupRunning, setupPc, setupJob, kept, disturbed>>
storeVars ==
  <<doc, saves, copy, lock, storePc, storeJob, changes, damage, committed, storeBefore,
    mixed>>
claudeVars == <<settings, slotBackup, slotRecord, config, slotPc, slotJob, edits, meddled, torn>>

\* One first state for a component that does not move.
ProxyAtRest == pointer = Target(CHOOSE v \in Versions : TRUE, TRUE) /\ running = NoVersion
ClaudeAtRest == settings = Absent
StoreAtRest == doc = Missing

FilesInit ==
  /\ part \in {"proxy", "journal", "setup", "store", "claude"}
  /\ Init /\ Fold!JournalInit /\ Managed!Init /\ Store!Init /\ Claude!Init
  /\ part = "proxy" \/ ProxyAtRest
  /\ part = "store" \/ StoreAtRest
  /\ part = "claude" \/ ClaudeAtRest

otherFiles == <<setupVars, storeVars, claudeVars>>

ProxyMoves == part = "proxy" /\ Next /\ UNCHANGED <<part, journalVars, otherFiles>>
JournalMoves == part = "journal" /\ Fold!AnyLine /\ UNCHANGED <<part, vars, otherFiles>>
SetupMoves ==
  /\ part = "setup" /\ Managed!Next
  /\ UNCHANGED <<part, vars, journalVars, storeVars, claudeVars>>
StoreMoves ==
  /\ part = "store" /\ Store!Next
  /\ UNCHANGED <<part, vars, journalVars, setupVars, claudeVars>>
ClaudeMoves ==
  /\ part = "claude" /\ Claude!Next
  /\ UNCHANGED <<part, vars, journalVars, setupVars, storeVars>>
\* Only a setup and an update may not come to a halt: the others end at a bound.
Rest ==
  /\ part \notin {"setup", "proxy"}
  /\ UNCHANGED <<part, vars, journalVars, otherFiles>>

FilesNext ==
  \/ ProxyMoves \/ JournalMoves \/ SetupMoves \/ StoreMoves \/ ClaudeMoves \/ Rest

FilesSpec == FilesInit /\ [][FilesNext]_<<part, vars, journalVars, otherFiles>>

\* Nothing is claimed of a setup that the recovery of a starting process has disturbed, nor
\* of a document whose saves have mixed.
Undisturbed == Managed!Undisturbed /\ ~mixed

\* Processes are not told apart.
Interchangeable == Permutations(Processes)
-----------------------------------------------------------------------------
\* The types of the component at work; the lines of the journal are those of Line.
FilesTypeOK ==
  /\ part = "proxy" => TypeOK
  /\ part = "setup" => Managed!TypeOK
  /\ part = "store" => Store!TypeOK
  /\ part = "claude" => Claude!TypeOK

\* The formulas the other modules use are the loops of the code (journal.go:234, :275).
FoldsAlike == Fold!FoldsAlike

\* A managed setup that fails leaves nothing, one that succeeds is complete, and one that
\* was interrupted has its record (runtime.go:243, recovery.go:78).
SetupIsAllOrNothing == Managed!SetupIsAllOrNothing
UnfinishedIsRecorded == Managed!UnfinishedIsRecorded

\* A damaged document loses one save, and no change is lost to another process
\* (recovery.go:150, store.go:103).
RepairGoesBackOneSave == Store!RepairGoesBackOneSave
ChangesSurvive == Store!ChangesSurvive

\* Claude's settings can be had back and agree with PMux's configuration (claude.go:421,
\* router.go:1561).
SlotIsRecoverable == Claude!SlotIsRecoverable
=============================================================================
