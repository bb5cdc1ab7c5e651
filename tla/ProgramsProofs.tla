---------------------------- MODULE ProgramsProofs ----------------------------
(***************************************************************************)
(* Proofs about MCPrograms, for any releases, any number of detached       *)
(* helpers and of adoptions.                                               *)
(*                                                                         *)
(* Self-update: SelfInv relates the record, the two files, the step of the *)
(* update and those of the helpers.  Its parts about the files hold until  *)
(* somebody else installs a PMux (touched).  That the executable is never  *)
(* lost holds until a helper is launched beside another (clashed), which   *)
(* another pmux may do while the first waits or rolls back: SurvivesInv    *)
(* says that the one helper at work finds what it has to move back.        *)
(*                                                                         *)
(* Adoption: AdoptInv says at every step what of the hardening is in place *)
(* and, on the way back, what the undo has restored; a process that dies   *)
(* leaves both as they are.  What holds only while no call of the undo has *)
(* failed is guarded by ~kept.                                             *)
(*                                                                         *)
(* The foreground service is proved about in ForegroundProofs.             *)
(***************************************************************************)
EXTENDS MCPrograms, ForegroundProofs

SelfRecovers == {"r_status", "r_active", "r_previous", "r_restore", "r_verify", "r_clear", "refused"}
SelfBegun == {"prepare", "prepared", "same", "preflight", "rehash", "activating"}
SelfActs == {"activate", "replace", "postflight", "rollback", "reverify", "abandon", "finish"}

\* A step that needs a record has one; a fingerprint is recorded last.
SelfJobInv ==
  /\ selfPc \in SelfRecovers \cup SelfBegun \cup SelfActs => selfRecord \in Self!Record
  /\ selfPc \in SelfRecovers => selfRecord # NoRecord
  /\ selfPc \in SelfBegun \cup SelfActs \cup {"begin"} => selfJob.base \in Releases
  /\ selfPc \in (SelfBegun \cup SelfActs) \ {"prepare"} => selfJob.want \in Releases
  /\ selfPc \in SelfBegun => selfRecord.hash = None
  /\ selfPc \in SelfActs => selfRecord.hash = selfJob.base

HelperInv ==
  \A h \in Helpers : helper[h].at # "none" =>
    platform = "windows" /\ helper[h].next \in Releases /\ helper[h].active \in Releases

Late == {"verify", "undo_remove", "undo_move", "undo_verify", "report"}

\* As long as nobody else interferes: the one helper at work is of the update that is
\* recorded, and what each of its steps and of the update's finds in the two files.
HelperFiles ==
  \A h \in Helpers : helper[h].at # "none" =>
    /\ \A g \in Helpers : helper[g].at # "none" => g = h
    /\ selfRecord # NoRecord /\ selfRecord.hash # None => selfRecord.hash = helper[h].active
    /\ helper[h].at \in {"wait", "check", "retain"} => exe = helper[h].active
    /\ helper[h].at = "activate" => exe = None /\ previous = helper[h].active
    /\ helper[h].at \in {"verify", "undo_remove", "undo_move"} => previous = helper[h].active
    /\ helper[h].at = "undo_verify" => exe = helper[h].active /\ previous = None
    /\ selfPc \in {"r_previous", "r_restore"} /\ selfRecord.hash # None => helper[h].at \in Late

UpdateFiles ==
  /\ selfPc \in {"activating", "activate"} =>
       exe = selfJob.base /\ \A h \in Helpers : helper[h].at = "none"
  /\ selfPc \in {"replace", "reverify"} => exe = selfJob.base /\ previous = selfJob.base
  /\ selfPc \in {"postflight", "rollback"} => exe = selfJob.want /\ previous = selfJob.base
  /\ platform = "unix" /\ selfPc = "finish" => exe = selfJob.want /\ previous = selfJob.base
  /\ platform = "unix" /\ selfPc = "abandon" /\ ~selfJob.failed => exe = selfJob.base

RecoveryFiles ==
  /\ selfPc = "r_restore" => selfRecord.hash # None /\ previous \in {selfRecord.hash, None}
  /\ platform = "unix" /\ selfPc = "r_verify" => exe = selfRecord.hash

UndisturbedInv ==
  ~touched =>
    Self!FingerprintIsKept /\ Self!RecoveredIsOld /\ HelperFiles /\ UpdateFiles /\ RecoveryFiles

\* Until two helpers clash, one is at work and can put back what it removes.
SurvivesInv ==
  ~clashed =>
    /\ exe # None \/ previous # None
    /\ \A g, h \in Helpers : helper[g].at # "none" /\ helper[h].at # "none" => g = h
    /\ \A h \in Helpers :
         helper[h].at \in {"activate", "verify", "undo_remove", "undo_move"} => previous # None

PlatformInv ==
  /\ selfPc \in {"replace", "postflight", "rollback", "reverify"} => platform = "unix"
  /\ selfPc = "r_status" => platform = "windows"

SelfInv == Self!TypeOK /\ SelfJobInv /\ HelperInv /\ PlatformInv /\ UndisturbedInv

USE NoReleaseAssumption, PlatformsAssumption
    DEF NoReleaseAssumption, PlatformsAssumption, Self!files, Self!history, Self!Goto
-----------------------------------------------------------------------------

LEMMA SelfAttemptStep ==
  ASSUME SelfInv, Self!TypeOK', Self!Attempt
  PROVE  SelfInv'
<1>1. SelfJobInv'
  BY DEF SelfInv, SelfJobInv, SelfRecovers, SelfBegun, SelfActs, Self!TypeOK, Self!Attempt
<1>2. HelperInv' /\ PlatformInv'
  BY DEF SelfInv, HelperInv, PlatformInv, Self!Attempt
<1>3. UndisturbedInv'
  BY DEF SelfInv, SelfJobInv, SelfRecovers, SelfBegun, SelfActs, Self!TypeOK, HelperInv,
      PlatformInv, UndisturbedInv, Self!FingerprintIsKept, Self!RecoveredIsOld, HelperFiles,
      UpdateFiles, RecoveryFiles, Late, Self!Attempt
<1> QED
  BY <1>1, <1>2, <1>3 DEF SelfInv

LEMMA SelfRecoverStep ==
  ASSUME SelfInv, Self!TypeOK', Self!Recover
  PROVE  SelfInv'
<1>a. selfPc' \in Self!PCs \ {"mark"} /\ (selfPc' \in SelfRecovers => selfRecord \in Self!Record /\ selfRecord # NoRecord)
      /\ selfPc' \in SelfRecovers \cup {"hash", "idle"}
  BY DEF SelfInv, Self!TypeOK, Self!PCs, SelfRecovers, Self!Jobs, Self!Recover, Self!Recovered
<1>1. SelfJobInv'
  BY <1>a DEF SelfInv, SelfJobInv, SelfRecovers, SelfBegun, SelfActs, Self!TypeOK, Self!Recover,
      Self!Recovered
<1>2. HelperInv' /\ PlatformInv'
  BY <1>a DEF SelfInv, HelperInv, PlatformInv, Self!Recover, Self!Recovered
<1>3. UndisturbedInv'
  BY <1>a DEF SelfInv, SelfJobInv, SelfRecovers, SelfBegun, SelfActs, Self!TypeOK, HelperInv,
      PlatformInv, UndisturbedInv, Self!FingerprintIsKept, Self!RecoveredIsOld, HelperFiles,
      UpdateFiles, RecoveryFiles, Late, Self!Recover, Self!Recovered
<1> QED
  BY <1>1, <1>2, <1>3 DEF SelfInv

LEMMA SelfReadStatusStep ==
  ASSUME SelfInv, Self!TypeOK', Self!ReadStatus
  PROVE  SelfInv'
<1>1. SelfJobInv'
  BY DEF SelfInv, SelfJobInv, SelfRecovers, SelfBegun, SelfActs, Self!TypeOK, Self!ReadStatus,
      Self!Answers
<1>2. HelperInv' /\ PlatformInv'
  BY DEF SelfInv, HelperInv, PlatformInv, Self!ReadStatus, Self!Answers
<1>3. UndisturbedInv'
  BY DEF SelfInv, SelfJobInv, SelfRecovers, SelfBegun, SelfActs, Self!TypeOK, HelperInv,
      PlatformInv, UndisturbedInv, Self!FingerprintIsKept, Self!RecoveredIsOld, HelperFiles,
      UpdateFiles, RecoveryFiles, Late, Self!ReadStatus, Self!Answers
<1> QED
  BY <1>1, <1>2, <1>3 DEF SelfInv

LEMMA SelfReadActiveStep ==
  ASSUME SelfInv, Self!TypeOK', Self!ReadActive
  PROVE  SelfInv'
<1>1. SelfJobInv'
  BY DEF SelfInv, SelfJobInv, SelfRecovers, SelfBegun, SelfActs, Self!TypeOK, Self!ReadActive,
      Self!HelperStates, Self!Steps
<1>2. HelperInv' /\ PlatformInv'
  BY DEF SelfInv, HelperInv, PlatformInv, Self!ReadActive, Self!HelperStates, Self!Steps
<1>3. UndisturbedInv'
  BY DEF SelfInv, SelfJobInv, SelfRecovers, SelfBegun, SelfActs, Self!TypeOK, HelperInv,
      PlatformInv, UndisturbedInv, Self!FingerprintIsKept, Self!RecoveredIsOld, HelperFiles,
      UpdateFiles, RecoveryFiles, Late, Self!ReadActive, Self!HelperStates, Self!Steps
<1> QED
  BY <1>1, <1>2, <1>3 DEF SelfInv

LEMMA SelfReadPreviousStep ==
  ASSUME SelfInv, Self!TypeOK', Self!ReadPrevious
  PROVE  SelfInv'
<1>1. SelfJobInv'
  BY DEF SelfInv, SelfJobInv, SelfRecovers, SelfBegun, SelfActs, Self!TypeOK, Self!ReadPrevious
<1>2. HelperInv' /\ PlatformInv'
  BY DEF SelfInv, HelperInv, PlatformInv, Self!ReadPrevious
<1>3. UndisturbedInv'
  BY DEF SelfInv, SelfJobInv, SelfRecovers, SelfBegun, SelfActs, Self!TypeOK, HelperInv,
      PlatformInv, UndisturbedInv, Self!FingerprintIsKept, Self!RecoveredIsOld, HelperFiles,
      UpdateFiles, RecoveryFiles, Late, Self!ReadPrevious
<1> QED
  BY <1>1, <1>2, <1>3 DEF SelfInv

LEMMA SelfRefusedStep ==
  ASSUME SelfInv, Self!TypeOK', Self!Refused
  PROVE  SelfInv'
<1>1. SelfJobInv'
  BY DEF SelfInv, SelfJobInv, SelfRecovers, SelfBegun, SelfActs, Self!TypeOK, Self!Refused
<1>2. HelperInv' /\ PlatformInv'
  BY DEF SelfInv, HelperInv, PlatformInv, Self!Refused
<1>3. UndisturbedInv'
  BY DEF SelfInv, SelfJobInv, SelfRecovers, SelfBegun, SelfActs, Self!TypeOK, HelperInv,
      PlatformInv, UndisturbedInv, Self!FingerprintIsKept, Self!RecoveredIsOld, HelperFiles,
      UpdateFiles, RecoveryFiles, Late, Self!Refused
<1> QED
  BY <1>1, <1>2, <1>3 DEF SelfInv

LEMMA SelfRestoreStep ==
  ASSUME SelfInv, Self!TypeOK', Self!Restore
  PROVE  SelfInv'
<1>1. SelfJobInv'
  BY DEF SelfInv, SelfJobInv, SelfRecovers, SelfBegun, SelfActs, Self!TypeOK, Self!Restore,
      Self!Copied
<1>2. HelperInv' /\ PlatformInv'
  BY DEF SelfInv, HelperInv, PlatformInv, Self!Restore, Self!Copied
<1>3. UndisturbedInv'
  BY DEF SelfInv, SelfJobInv, SelfRecovers, SelfBegun, SelfActs, Self!TypeOK, HelperInv,
      PlatformInv, UndisturbedInv, Self!FingerprintIsKept, Self!RecoveredIsOld, HelperFiles,
      UpdateFiles, RecoveryFiles, Late, Self!Restore, Self!Copied
<1> QED
  BY <1>1, <1>2, <1>3 DEF SelfInv

LEMMA SelfRecoveryVerifyStep ==
  ASSUME SelfInv, Self!TypeOK', Self!RecoveryVerify
  PROVE  SelfInv'
<1>1. SelfJobInv'
  BY DEF SelfInv, SelfJobInv, SelfRecovers, SelfBegun, SelfActs, Self!TypeOK, Self!RecoveryVerify,
      Self!Restored, Self!Answers
<1>2. HelperInv' /\ PlatformInv'
  BY DEF SelfInv, HelperInv, PlatformInv, Self!RecoveryVerify, Self!Restored, Self!Answers
<1>3. UndisturbedInv'
  BY DEF SelfInv, SelfJobInv, SelfRecovers, SelfBegun, SelfActs, Self!TypeOK, HelperInv,
      PlatformInv, UndisturbedInv, Self!FingerprintIsKept, Self!RecoveredIsOld, HelperFiles,
      UpdateFiles, RecoveryFiles, Late, Self!RecoveryVerify, Self!Restored, Self!Answers
<1> QED
  BY <1>1, <1>2, <1>3 DEF SelfInv

LEMMA SelfRecoveryClearStep ==
  ASSUME SelfInv, Self!TypeOK', Self!RecoveryClear
  PROVE  SelfInv'
<1>a. selfPc' \in {"hash", "idle"}
  BY DEF SelfInv, Self!TypeOK, Self!Jobs, Self!RecoveryClear, Self!Recovered
<1>1. SelfJobInv'
  BY <1>a DEF SelfInv, SelfJobInv, SelfRecovers, SelfBegun, SelfActs, Self!TypeOK,
      Self!RecoveryClear, Self!Recovered
<1>2. HelperInv' /\ PlatformInv'
  BY <1>a DEF SelfInv, HelperInv, PlatformInv, Self!RecoveryClear, Self!Recovered
<1>3. UndisturbedInv'
  BY <1>a DEF SelfInv, SelfJobInv, SelfRecovers, SelfBegun, SelfActs, Self!TypeOK, HelperInv,
      PlatformInv, UndisturbedInv, Self!FingerprintIsKept, Self!RecoveredIsOld, HelperFiles,
      UpdateFiles, RecoveryFiles, Late, Self!RecoveryClear, Self!Recovered
<1> QED
  BY <1>1, <1>2, <1>3 DEF SelfInv

LEMMA SelfHashStep ==
  ASSUME SelfInv, Self!TypeOK', Self!Hash
  PROVE  SelfInv'
<1>a. selfPc' = "idle" \/ (selfPc' = "begin" /\ selfJob'.base = exe /\ exe \in Releases)
  BY DEF SelfInv, Self!TypeOK, Self!Jobs, Self!Contents, Self!Hash
<1>1. SelfJobInv'
  BY <1>a DEF SelfInv, SelfJobInv, SelfRecovers, SelfBegun, SelfActs, Self!TypeOK, Self!Hash
<1>2. HelperInv' /\ PlatformInv'
  BY <1>a DEF SelfInv, HelperInv, PlatformInv, Self!Hash
<1>3. UndisturbedInv'
  BY <1>a DEF SelfInv, SelfJobInv, SelfRecovers, SelfBegun, SelfActs, Self!TypeOK, HelperInv,
      PlatformInv, UndisturbedInv, Self!FingerprintIsKept, Self!RecoveredIsOld, HelperFiles,
      UpdateFiles, RecoveryFiles, Late, Self!Hash
<1> QED
  BY <1>1, <1>2, <1>3 DEF SelfInv

LEMMA SelfBeginStep ==
  ASSUME SelfInv, Self!TypeOK', Self!Begin
  PROVE  SelfInv'
<1>a. selfPc' \in {"prepare", "idle"} /\ (selfPc' = "prepare" => selfRecord' = Self!Started)
  BY DEF Self!Begin
<1>b. Self!Started \in Self!Record /\ Self!Started.hash = None /\ ~Self!Started.prepared
  BY DEF Self!Started, Self!Record, Self!Contents
<1>1. SelfJobInv'
  BY <1>a, <1>b DEF SelfInv, SelfJobInv, SelfRecovers, SelfBegun, SelfActs, Self!TypeOK,
      Self!Begin, Self!Started
<1>2. HelperInv' /\ PlatformInv'
  BY <1>a, <1>b DEF SelfInv, HelperInv, PlatformInv, Self!Begin, Self!Started
<1>3. UndisturbedInv'
  BY <1>a, <1>b DEF SelfInv, SelfJobInv, SelfRecovers, SelfBegun, SelfActs, Self!TypeOK,
      HelperInv, PlatformInv, UndisturbedInv, Self!FingerprintIsKept, Self!RecoveredIsOld,
      HelperFiles, UpdateFiles, RecoveryFiles, Late, Self!Begin, Self!Started
<1> QED
  BY <1>1, <1>2, <1>3 DEF SelfInv

LEMMA SelfPrepareStep ==
  ASSUME SelfInv, Self!TypeOK', Self!Prepare
  PROVE  SelfInv'
<1>a. selfPc' = "mark" \/ (selfPc' = "prepared" /\ selfJob'.base = selfJob.base /\ selfJob'.want \in Releases)
  BY DEF SelfInv, Self!TypeOK, Self!Jobs, Self!Prepare
<1>1. SelfJobInv'
  BY <1>a DEF SelfInv, SelfJobInv, SelfRecovers, SelfBegun, SelfActs, Self!TypeOK, Self!Prepare
<1>2. HelperInv' /\ PlatformInv'
  BY <1>a DEF SelfInv, HelperInv, PlatformInv, Self!Prepare
<1>3. UndisturbedInv'
  BY <1>a DEF SelfInv, SelfJobInv, SelfRecovers, SelfBegun, SelfActs, Self!TypeOK, HelperInv,
      PlatformInv, UndisturbedInv, Self!FingerprintIsKept, Self!RecoveredIsOld, HelperFiles,
      UpdateFiles, RecoveryFiles, Late, Self!Prepare
<1> QED
  BY <1>1, <1>2, <1>3 DEF SelfInv

LEMMA SelfSaveStep ==
  ASSUME SelfInv, Self!TypeOK', Self!Save
  PROVE  SelfInv'
<1>a. /\ selfRecord \in Self!Record /\ selfJob.base \in Releases /\ selfJob.want \in Releases
      /\ selfJob.cur \in Self!Contents /\ selfRecord.hash = None
  BY DEF SelfInv, SelfJobInv, SelfBegun, Self!TypeOK, Self!Jobs, Self!Save
<1>b. Self!Checkpointed("prepared") \in Self!Record /\ Self!Checkpointed("prepared").hash = None
  BY <1>a DEF Self!Checkpointed, Self!Started, Self!Record, Self!Contents
<1>c. /\ Self!Checkpointed("activating") \in Self!Record
      /\ Self!Checkpointed("activating").hash = selfJob.base
  BY <1>a DEF Self!Checkpointed, Self!Record, Self!Contents
<1>d. /\ selfRecord' \in {selfRecord, Self!Checkpointed(selfPc)}
      /\ \/ selfPc' = "mark"
         \/ selfPc = "prepared" /\ selfPc' \in {"same", "preflight"} /\ selfRecord' = Self!Checkpointed(selfPc)
         \/ selfPc = "activating" /\ selfPc' = "activate" /\ selfRecord' = Self!Checkpointed(selfPc)
      /\ UNCHANGED <<selfJob, exe, previous, helper, touched, platform>>
  BY DEF Self!Save
<1>e. \/ selfPc = "prepared" /\ selfRecord' \in Self!Record /\ selfRecord'.hash = None
      \/ selfPc = "activating" /\ selfRecord' \in Self!Record /\ selfRecord'.hash \in {None, selfJob.base}
         /\ (selfPc' = "activate" => selfRecord'.hash = selfJob.base)
  BY <1>a, <1>b, <1>c, <1>d DEF Self!Save
<1>1. SelfJobInv'
  BY <1>a, <1>d, <1>e DEF SelfInv, SelfJobInv, SelfRecovers, SelfBegun, SelfActs, Self!TypeOK,
      Self!Jobs
<1>2. HelperInv' /\ PlatformInv'
  BY <1>a, <1>d, <1>e DEF SelfInv, HelperInv, PlatformInv, Self!Jobs
<1>3. UndisturbedInv'
  BY <1>a, <1>d, <1>e DEF SelfInv, SelfJobInv, SelfRecovers, SelfBegun, SelfActs, Self!TypeOK,
      HelperInv, PlatformInv, UndisturbedInv, Self!FingerprintIsKept, Self!RecoveredIsOld,
      HelperFiles, UpdateFiles, RecoveryFiles, Late, Self!Jobs
<1> QED
  BY <1>1, <1>2, <1>3 DEF SelfInv

LEMMA SelfPreflightStep ==
  ASSUME SelfInv, Self!TypeOK', Self!Preflight
  PROVE  SelfInv'
<1>1. SelfJobInv'
  BY DEF SelfInv, SelfJobInv, SelfRecovers, SelfBegun, SelfActs, Self!TypeOK, Self!Preflight
<1>2. HelperInv' /\ PlatformInv'
  BY DEF SelfInv, HelperInv, PlatformInv, Self!Preflight
<1>3. UndisturbedInv'
  BY DEF SelfInv, SelfJobInv, SelfRecovers, SelfBegun, SelfActs, Self!TypeOK, HelperInv,
      PlatformInv, UndisturbedInv, Self!FingerprintIsKept, Self!RecoveredIsOld, HelperFiles,
      UpdateFiles, RecoveryFiles, Late, Self!Preflight
<1> QED
  BY <1>1, <1>2, <1>3 DEF SelfInv

LEMMA SelfRehashStep ==
  ASSUME SelfInv, Self!TypeOK', Self!Rehash
  PROVE  SelfInv'
<1>1. SelfJobInv'
  BY DEF SelfInv, SelfJobInv, SelfRecovers, SelfBegun, SelfActs, Self!TypeOK, Self!Rehash
<1>2. HelperInv' /\ PlatformInv'
  BY DEF SelfInv, HelperInv, PlatformInv, Self!Rehash
<1>3. UndisturbedInv'
  BY DEF SelfInv, SelfJobInv, SelfRecovers, SelfBegun, SelfActs, Self!TypeOK, HelperInv,
      PlatformInv, UndisturbedInv, Self!FingerprintIsKept, Self!RecoveredIsOld, HelperFiles,
      UpdateFiles, RecoveryFiles, Late, Self!Rehash
<1> QED
  BY <1>1, <1>2, <1>3 DEF SelfInv

LEMMA SelfClearStep ==
  ASSUME SelfInv, Self!TypeOK', Self!Clear
  PROVE  SelfInv'
<1>1. SelfJobInv'
  BY DEF SelfInv, SelfJobInv, SelfRecovers, SelfBegun, SelfActs, Self!TypeOK, Self!Clear
<1>2. HelperInv' /\ PlatformInv'
  BY DEF SelfInv, HelperInv, PlatformInv, Self!Clear
<1>3. UndisturbedInv'
  BY DEF SelfInv, SelfJobInv, SelfRecovers, SelfBegun, SelfActs, Self!TypeOK, HelperInv,
      PlatformInv, UndisturbedInv, Self!FingerprintIsKept, Self!RecoveredIsOld, HelperFiles,
      UpdateFiles, RecoveryFiles, Late, Self!Clear
<1> QED
  BY <1>1, <1>2, <1>3 DEF SelfInv

LEMMA SelfRetainStep ==
  ASSUME SelfInv, Self!TypeOK', Self!Retain
  PROVE  SelfInv'
<1>1. SelfJobInv'
  BY DEF SelfInv, SelfJobInv, SelfRecovers, SelfBegun, SelfActs, Self!TypeOK, Self!Retain,
      Self!Copied
<1>2. HelperInv' /\ PlatformInv'
  BY DEF SelfInv, HelperInv, PlatformInv, Self!Retain, Self!Copied
<1>3. UndisturbedInv'
  BY DEF SelfInv, SelfJobInv, SelfRecovers, SelfBegun, SelfActs, Self!TypeOK, HelperInv,
      PlatformInv, UndisturbedInv, Self!FingerprintIsKept, Self!RecoveredIsOld, HelperFiles,
      UpdateFiles, RecoveryFiles, Late, Self!Retain, Self!Copied
<1> QED
  BY <1>1, <1>2, <1>3 DEF SelfInv

LEMMA SelfReplaceStep ==
  ASSUME SelfInv, Self!TypeOK', Self!Replace
  PROVE  SelfInv'
<1>1. SelfJobInv'
  BY DEF SelfInv, SelfJobInv, SelfRecovers, SelfBegun, SelfActs, Self!TypeOK, Self!Replace
<1>2. HelperInv' /\ PlatformInv'
  BY DEF SelfInv, HelperInv, PlatformInv, Self!Replace
<1>3. UndisturbedInv'
  BY DEF SelfInv, SelfJobInv, SelfRecovers, SelfBegun, SelfActs, Self!TypeOK, HelperInv,
      PlatformInv, UndisturbedInv, Self!FingerprintIsKept, Self!RecoveredIsOld, HelperFiles,
      UpdateFiles, RecoveryFiles, Late, Self!Replace
<1> QED
  BY <1>1, <1>2, <1>3 DEF SelfInv

LEMMA SelfPostflightStep ==
  ASSUME SelfInv, Self!TypeOK', Self!Postflight
  PROVE  SelfInv'
<1>1. SelfJobInv'
  BY DEF SelfInv, SelfJobInv, SelfRecovers, SelfBegun, SelfActs, Self!TypeOK, Self!Postflight,
      Self!Answers, Self!PostflightErr
<1>2. HelperInv' /\ PlatformInv'
  BY DEF SelfInv, HelperInv, PlatformInv, Self!Postflight, Self!Answers, Self!PostflightErr
<1>3. UndisturbedInv'
  BY DEF SelfInv, SelfJobInv, SelfRecovers, SelfBegun, SelfActs, Self!TypeOK, HelperInv,
      PlatformInv, UndisturbedInv, Self!FingerprintIsKept, Self!RecoveredIsOld, HelperFiles,
      UpdateFiles, RecoveryFiles, Late, Self!Postflight, Self!Answers, Self!PostflightErr
<1> QED
  BY <1>1, <1>2, <1>3 DEF SelfInv

LEMMA SelfRollbackStep ==
  ASSUME SelfInv, Self!TypeOK', Self!Rollback
  PROVE  SelfInv'
<1>a. selfJob'.base = selfJob.base /\ selfJob'.want = selfJob.want /\ (selfPc' = "abandon" => selfJob'.failed)
  BY DEF SelfInv, Self!TypeOK, Self!Jobs, Self!Rollback, Self!Copied
<1>1. SelfJobInv'
  BY <1>a DEF SelfInv, SelfJobInv, SelfRecovers, SelfBegun, SelfActs, Self!TypeOK, Self!Rollback,
      Self!Copied
<1>2. HelperInv' /\ PlatformInv'
  BY <1>a DEF SelfInv, HelperInv, PlatformInv, Self!Rollback, Self!Copied
<1>3. UndisturbedInv'
  BY <1>a DEF SelfInv, SelfJobInv, SelfRecovers, SelfBegun, SelfActs, Self!TypeOK, HelperInv,
      PlatformInv, UndisturbedInv, Self!FingerprintIsKept, Self!RecoveredIsOld, HelperFiles,
      UpdateFiles, RecoveryFiles, Late, Self!Rollback, Self!Copied
<1> QED
  BY <1>1, <1>2, <1>3 DEF SelfInv

LEMMA SelfReverifyStep ==
  ASSUME SelfInv, Self!TypeOK', Self!Reverify
  PROVE  SelfInv'
<1>a. selfJob'.base = selfJob.base /\ selfJob'.want = selfJob.want /\ (selfJob'.failed \/ (selfJob' = selfJob /\ exe = selfJob.cur))
  BY DEF SelfInv, Self!TypeOK, Self!Jobs, Self!Reverify, Self!RolledBack, Self!Answers
<1>1. SelfJobInv'
  BY <1>a DEF SelfInv, SelfJobInv, SelfRecovers, SelfBegun, SelfActs, Self!TypeOK, Self!Reverify,
      Self!RolledBack, Self!Answers
<1>2. HelperInv' /\ PlatformInv'
  BY <1>a DEF SelfInv, HelperInv, PlatformInv, Self!Reverify, Self!RolledBack, Self!Answers
<1>3. UndisturbedInv'
  BY <1>a DEF SelfInv, SelfJobInv, SelfRecovers, SelfBegun, SelfActs, Self!TypeOK, HelperInv,
      PlatformInv, UndisturbedInv, Self!FingerprintIsKept, Self!RecoveredIsOld, HelperFiles,
      UpdateFiles, RecoveryFiles, Late, Self!Reverify, Self!RolledBack, Self!Answers
<1> QED
  BY <1>1, <1>2, <1>3 DEF SelfInv

LEMMA SelfLaunchErrStep ==
  ASSUME SelfInv, Self!TypeOK', Self!LaunchErr
  PROVE  SelfInv'
<1>1. SelfJobInv'
  BY DEF SelfInv, SelfJobInv, SelfRecovers, SelfBegun, SelfActs, Self!TypeOK, Self!LaunchErr
<1>2. HelperInv' /\ PlatformInv'
  BY DEF SelfInv, HelperInv, PlatformInv, Self!LaunchErr
<1>3. UndisturbedInv'
  BY DEF SelfInv, SelfJobInv, SelfRecovers, SelfBegun, SelfActs, Self!TypeOK, HelperInv,
      PlatformInv, UndisturbedInv, Self!FingerprintIsKept, Self!RecoveredIsOld, HelperFiles,
      UpdateFiles, RecoveryFiles, Late, Self!LaunchErr
<1> QED
  BY <1>1, <1>2, <1>3 DEF SelfInv

LEMMA SelfCrashStep ==
  ASSUME SelfInv, Self!TypeOK', Self!Crash
  PROVE  SelfInv'
<1>1. SelfJobInv'
  BY DEF SelfInv, SelfJobInv, SelfRecovers, SelfBegun, SelfActs, Self!TypeOK, Self!Crash
<1>2. HelperInv' /\ PlatformInv'
  BY DEF SelfInv, HelperInv, PlatformInv, Self!Crash
<1>3. UndisturbedInv'
  BY DEF SelfInv, SelfJobInv, SelfRecovers, SelfBegun, SelfActs, Self!TypeOK, HelperInv,
      PlatformInv, UndisturbedInv, Self!FingerprintIsKept, Self!RecoveredIsOld, HelperFiles,
      UpdateFiles, RecoveryFiles, Late, Self!Crash
<1> QED
  BY <1>1, <1>2, <1>3 DEF SelfInv

LEMMA SelfReinstallStep ==
  ASSUME SelfInv, Self!TypeOK', Self!Reinstall
  PROVE  SelfInv'
<1>1. SelfJobInv'
  BY DEF SelfInv, SelfJobInv, SelfRecovers, SelfBegun, SelfActs, Self!TypeOK, Self!Reinstall
<1>2. HelperInv' /\ PlatformInv'
  BY DEF SelfInv, HelperInv, PlatformInv, Self!Reinstall
<1>3. UndisturbedInv'
  BY DEF SelfInv, SelfJobInv, SelfRecovers, SelfBegun, SelfActs, Self!TypeOK, HelperInv,
      PlatformInv, UndisturbedInv, Self!FingerprintIsKept, Self!RecoveredIsOld, HelperFiles,
      UpdateFiles, RecoveryFiles, Late, Self!Reinstall
<1> QED
  BY <1>1, <1>2, <1>3 DEF SelfInv

\* What a step of a helper leaves of the helpers.
Advanced(h) ==
  /\ \A g \in Helpers : g # h => helper'[g] = helper[g]
  /\ helper'[h].active = helper[h].active /\ helper'[h].next = helper[h].next

LEMMA HelperGoes ==
  ASSUME Self!TypeOK, NEW h \in Helpers, NEW at, Self!To(h, at)
  PROVE  Advanced(h) /\ helper'[h].at = at
BY DEF Self!TypeOK, Self!HelperStates, Self!To, Advanced

LEMMA HelperReports ==
  ASSUME Self!TypeOK, NEW h \in Helpers, NEW state, Self!Report(h, state)
  PROVE  Advanced(h) /\ helper'[h].at = "report"
BY DEF Self!TypeOK, Self!HelperStates, Self!Report, Advanced

LEMMA HelperWaitParent ==
  ASSUME Self!TypeOK, NEW h \in Helpers, Self!WaitParent(h)
  PROVE  /\ Advanced(h) /\ helper[h].at = "wait"
         /\ helper'[h].at \in {"check", "report"} /\ UNCHANGED <<exe, previous>>
BY HelperGoes, HelperReports DEF Self!WaitParent

LEMMA HelperCheckActive ==
  ASSUME Self!TypeOK, NEW h \in Helpers, Self!CheckActive(h)
  PROVE  /\ Advanced(h) /\ helper[h].at = "check"
         /\ helper'[h].at \in {"retain", "report"} /\ UNCHANGED <<exe, previous>>
BY HelperGoes, HelperReports DEF Self!CheckActive

LEMMA HelperRetainActive ==
  ASSUME Self!TypeOK, NEW h \in Helpers, Self!RetainActive(h)
  PROVE  /\ Advanced(h) /\ helper[h].at = "retain"
         /\ \/ helper'[h].at = "activate" /\ exe # None /\ previous' = exe /\ exe' = None
            \/ helper'[h].at = "report" /\ UNCHANGED <<exe, previous>>
<1>1. CASE exe # None /\ Self!MoveAside /\ Self!To(h, "activate")
  <2>1. Advanced(h) /\ helper'[h].at = "activate"
    BY <1>1, HelperGoes
  <2> QED
    BY <1>1, <2>1 DEF Self!MoveAside, Self!RetainActive
<1>2. CASE UNCHANGED <<exe, previous>> /\ Self!Report(h, "failed")
  <2>1. Advanced(h) /\ helper'[h].at = "report"
    BY <1>2, HelperReports
  <2> QED
    BY <1>2, <2>1 DEF Self!RetainActive
<1> QED
  BY <1>1, <1>2 DEF Self!RetainActive

LEMMA HelperActivate ==
  ASSUME Self!TypeOK, NEW h \in Helpers, Self!Activate(h)
  PROVE  /\ Advanced(h) /\ helper[h].at = "activate"
         /\ helper'[h].at \in {"verify", "undo_remove"} /\ exe' \in {exe, helper[h].next}
      /\ (helper'[h].at = "verify" => exe' = helper[h].next) /\ previous' = previous
BY HelperGoes, HelperReports DEF Self!Activate

LEMMA HelperVerifyNext ==
  ASSUME Self!TypeOK, NEW h \in Helpers, Self!VerifyNext(h)
  PROVE  /\ Advanced(h) /\ helper[h].at = "verify"
         /\ helper'[h].at \in {"undo_remove", "report"} /\ UNCHANGED <<exe, previous>>
BY HelperGoes, HelperReports DEF Self!VerifyNext

LEMMA HelperUndoRemove ==
  ASSUME Self!TypeOK, NEW h \in Helpers, Self!UndoRemove(h)
  PROVE  /\ Advanced(h) /\ helper[h].at = "undo_remove"
         /\ helper'[h].at = "undo_move" /\ exe' \in {exe, None} /\ previous' = previous
BY HelperGoes, HelperReports DEF Self!UndoRemove

LEMMA HelperUndoMove ==
  ASSUME Self!TypeOK, NEW h \in Helpers, Self!UndoMove(h)
  PROVE  /\ Advanced(h) /\ helper[h].at = "undo_move"
         /\ \/ helper'[h].at = "undo_verify" /\ previous # None /\ exe' = previous /\ previous' = None
            \/ helper'[h].at = "report" /\ UNCHANGED <<exe, previous>>
<1>1. CASE previous # None /\ exe' = previous /\ previous' = None /\ Self!To(h, "undo_verify")
  <2>1. Advanced(h) /\ helper'[h].at = "undo_verify"
    BY <1>1, HelperGoes
  <2> QED
    BY <1>1, <2>1 DEF Self!UndoMove
<1>2. CASE UNCHANGED <<exe, previous>> /\ Self!Unrestored(h)
  <2>1. Advanced(h) /\ helper'[h].at = "report"
    BY <1>2, HelperReports DEF Self!Unrestored
  <2> QED
    BY <1>2, <2>1 DEF Self!UndoMove
<1> QED
  BY <1>1, <1>2 DEF Self!UndoMove

LEMMA HelperUndoVerify ==
  ASSUME Self!TypeOK, NEW h \in Helpers, Self!UndoVerify(h)
  PROVE  /\ Advanced(h) /\ helper[h].at = "undo_verify"
         /\ helper'[h].at = "report" /\ UNCHANGED <<exe, previous>>
BY HelperGoes, HelperReports DEF Self!UndoVerify, Self!Unrestored

LEMMA SelfHelperStep ==
  ASSUME SelfInv, Self!TypeOK', NEW h \in Helpers, Self!HelperMoves(h)
  PROVE  SelfInv'
<1>a. UNCHANGED <<platform, selfRecord, selfPc, selfJob, touched>> /\ Self!TypeOK
  BY DEF Self!HelperMoves, SelfInv
<1>0. Advanced(h) /\ helper[h].at # "none"
  BY <1>a, HelperWaitParent, HelperCheckActive, HelperRetainActive, HelperActivate,
     HelperVerifyNext, HelperUndoRemove, HelperUndoMove, HelperUndoVerify, Zenon
    DEF Self!HelperMoves
<1>1. SelfJobInv' /\ PlatformInv'
  BY <1>a DEF SelfInv, SelfJobInv, PlatformInv
<1>2. HelperInv'
  BY <1>a, <1>0 DEF SelfInv, HelperInv, Advanced
<1>3. UndisturbedInv'
  <2> SUFFICES ASSUME ~touched PROVE UndisturbedInv'
    BY <1>a DEF UndisturbedInv
  <2>0. /\ Self!FingerprintIsKept /\ HelperFiles /\ UpdateFiles /\ RecoveryFiles /\ platform = "windows"
        /\ (selfPc \in SelfRecovers \cup SelfBegun \cup SelfActs => selfRecord \in Self!Record)
        /\ helper[h].active # None
    BY <1>0 DEF SelfInv, UndisturbedInv, HelperInv, SelfJobInv
  <2>1. UpdateFiles' /\ Self!RecoveredIsOld'
    BY <1>a, <1>0, <2>0 DEF UpdateFiles, Self!RecoveredIsOld, SelfInv, PlatformInv
  <2>2. CASE Self!WaitParent(h)
    BY <1>a, <1>0, <2>0, <2>1, <2>2, HelperWaitParent
       DEF UndisturbedInv, HelperFiles, RecoveryFiles, Self!FingerprintIsKept, Advanced, Late
  <2>3. CASE Self!CheckActive(h)
    BY <1>a, <1>0, <2>0, <2>1, <2>3, HelperCheckActive
       DEF UndisturbedInv, HelperFiles, RecoveryFiles, Self!FingerprintIsKept, Advanced, Late
  <2>4. CASE Self!RetainActive(h)
    BY <1>a, <1>0, <2>0, <2>1, <2>4, HelperRetainActive
       DEF UndisturbedInv, HelperFiles, RecoveryFiles, Self!FingerprintIsKept, Advanced, Late
  <2>5. CASE Self!Activate(h)
    BY <1>a, <1>0, <2>0, <2>1, <2>5, HelperActivate
       DEF UndisturbedInv, HelperFiles, RecoveryFiles, Self!FingerprintIsKept, Advanced, Late
  <2>6. CASE Self!VerifyNext(h)
    BY <1>a, <1>0, <2>0, <2>1, <2>6, HelperVerifyNext
       DEF UndisturbedInv, HelperFiles, RecoveryFiles, Self!FingerprintIsKept, Advanced, Late
  <2>7. CASE Self!UndoRemove(h)
    BY <1>a, <1>0, <2>0, <2>1, <2>7, HelperUndoRemove
       DEF UndisturbedInv, HelperFiles, RecoveryFiles, Self!FingerprintIsKept, Advanced, Late
  <2>8. CASE Self!UndoMove(h)
    BY <1>a, <1>0, <2>0, <2>1, <2>8, HelperUndoMove
       DEF UndisturbedInv, HelperFiles, RecoveryFiles, Self!FingerprintIsKept, Advanced, Late
  <2>9. CASE Self!UndoVerify(h)
    BY <1>a, <1>0, <2>0, <2>1, <2>9, HelperUndoVerify
       DEF UndisturbedInv, HelperFiles, RecoveryFiles, Self!FingerprintIsKept, Advanced, Late
  <2> QED
    BY <2>2, <2>3, <2>4, <2>5, <2>6, <2>7, <2>8, <2>9, Zenon DEF Self!HelperMoves
<1> QED
  BY <1>1, <1>2, <1>3 DEF SelfInv

LEMMA HelperGone ==
  ASSUME Self!TypeOK, NEW h \in Helpers, helper' = [helper EXCEPT ![h] = Self!NoHelper]
  PROVE  helper'[h].at = "none" /\ \A g \in Helpers : g # h => helper'[g] = helper[g]
BY DEF Self!TypeOK, Self!NoHelper

LEMMA SelfHelperEndStep ==
  ASSUME SelfInv, Self!TypeOK', NEW h \in Helpers, Self!HelperEnds(h) \/ Self!HelperCrash(h)
  PROVE  SelfInv'
<1>a. UNCHANGED <<platform, exe, previous, selfRecord, selfPc, selfJob, touched>> /\ Self!TypeOK
  BY DEF Self!HelperEnds, Self!HelperCrash, SelfInv
<1>0. helper'[h].at = "none" /\ \A g \in Helpers : g # h => helper'[g] = helper[g]
  BY <1>a, HelperGone DEF Self!HelperEnds, Self!HelperCrash
<1>1. SelfJobInv' /\ PlatformInv'
  BY <1>a DEF SelfInv, SelfJobInv, PlatformInv
<1>2. HelperInv'
  BY <1>a, <1>0 DEF SelfInv, HelperInv
<1>3. UndisturbedInv'
  BY <1>a, <1>0 DEF SelfInv, UndisturbedInv, Self!FingerprintIsKept, Self!RecoveredIsOld,
      HelperFiles, UpdateFiles, RecoveryFiles
<1> QED
  BY <1>1, <1>2, <1>3 DEF SelfInv

LEMMA SelfLaunchStep ==
  ASSUME SelfInv, Self!TypeOK', NEW h \in Helpers, Self!Launch(h)
  PROVE  SelfInv'
<1>a. /\ UNCHANGED <<platform, exe, previous, selfRecord, touched>> /\ Self!TypeOK
      /\ selfPc = "activate" /\ selfPc' = "finish" /\ helper[h].at = "none" /\ platform = "windows"
  BY DEF Self!Launch, SelfInv
<1>b. selfJob'.base = selfJob.base /\ selfJob'.want = selfJob.want
  BY DEF Self!Launch, SelfInv, Self!TypeOK, Self!Jobs
<1>c. /\ helper'[h].at = "wait" /\ helper'[h].active = selfJob.base /\ helper'[h].next = selfJob.want
      /\ \A g \in Helpers : g # h => helper'[g] = helper[g]
  BY <1>a DEF Self!Launch, Self!TypeOK, Self!NoHelper
<1>d. /\ selfJob.base \in Releases /\ selfJob.want \in Releases
      /\ selfRecord \in Self!Record /\ selfRecord.hash = selfJob.base
  BY <1>a DEF SelfInv, SelfJobInv, SelfActs
<1>1. SelfJobInv' /\ PlatformInv'
  BY <1>a, <1>b, <1>d DEF SelfInv, SelfJobInv, PlatformInv, SelfRecovers, SelfBegun, SelfActs
<1>2. HelperInv'
  BY <1>a, <1>c, <1>d DEF SelfInv, HelperInv
<1>3. UndisturbedInv'
  BY <1>a, <1>b, <1>c, <1>d DEF SelfInv, UndisturbedInv, Self!FingerprintIsKept,
      Self!RecoveredIsOld, HelperFiles, UpdateFiles, RecoveryFiles
<1> QED
  BY <1>1, <1>2, <1>3 DEF SelfInv

-----------------------------------------------------------------------------
(* The types, and all steps                                                *)

LEMMA NoJobIsJob == Self!NoJob \in Self!Jobs /\ Self!NoHelper \in Self!HelperStates
BY DEF Self!NoJob, Self!Jobs, Self!Contents, Self!NoHelper, Self!HelperStates, Self!Steps,
    Self!States

LEMMA SelfCommandTypes ==
  ASSUME SelfInv, Self!TypeOK, Self!Recovery \/ Self!Update \/ Self!Crash \/ Self!Reinstall,
         \A h \in Helpers : ~Self!Launch(h)
  PROVE  Self!TypeOK'
<1>1. platform' = platform /\ helper' = helper
  BY DEF Self!Recovery, Self!Recover, Self!ReadStatus, Self!ReadActive, Self!ReadPrevious,
      Self!Refused, Self!Restore, Self!RecoveryVerify, Self!RecoveryClear, Self!Update,
      Self!Attempt, Self!Hash, Self!Begin, Self!Prepare, Self!Save, Self!Preflight, Self!Rehash,
      Self!Clear, Self!Retain, Self!Replace, Self!Postflight, Self!Rollback, Self!Reverify,
      Self!LaunchErr, Self!Crash, Self!Reinstall
<1>2. touched' \in BOOLEAN /\ status' = status /\ clashed' = clashed
  BY DEF Self!TypeOK, Self!Recovery, Self!Recover, Self!ReadStatus, Self!ReadActive,
      Self!ReadPrevious, Self!Refused, Self!Restore, Self!RecoveryVerify, Self!RecoveryClear,
      Self!Update, Self!Attempt, Self!Hash, Self!Begin, Self!Prepare, Self!Save, Self!Preflight,
      Self!Rehash, Self!Clear, Self!Retain, Self!Replace, Self!Postflight, Self!Rollback,
      Self!Reverify, Self!LaunchErr, Self!Crash, Self!Reinstall
<1>3. selfJob' \in Self!Jobs
  <2>1. \/ selfJob' \in {selfJob, Self!NoJob}
        \/ exe # None /\ selfJob' = [Self!NoJob EXCEPT !.cur = exe, !.then = "hash"]
        \/ exe # None /\ selfJob' = [selfJob EXCEPT !.base = exe]
        \/ \E v \in Releases : selfJob' = [selfJob EXCEPT !.want = v]
        \/ selfJob' = [selfJob EXCEPT !.then = "idle"]
        \/ selfJob' = [selfJob EXCEPT !.failed = TRUE]
    BY DEF Self!Recovered, Self!PostflightErr, Self!Recovery, Self!Recover, Self!ReadStatus,
        Self!ReadActive, Self!ReadPrevious, Self!Refused, Self!Restore, Self!RecoveryVerify,
        Self!RecoveryClear, Self!Update, Self!Attempt, Self!Hash, Self!Begin, Self!Prepare,
        Self!Save, Self!Preflight, Self!Rehash, Self!Clear, Self!Retain, Self!Replace,
        Self!Postflight, Self!Rollback, Self!Reverify, Self!LaunchErr, Self!Crash, Self!Reinstall
  <2>2. selfJob \in Self!Jobs /\ Self!NoJob \in Self!Jobs /\ exe \in Self!Contents /\ Releases \subseteq Self!Contents
    BY NoJobIsJob DEF Self!TypeOK, Self!Contents
  <2>3. /\ [Self!NoJob EXCEPT !.cur = exe, !.then = "hash"] \in Self!Jobs
        /\ [selfJob EXCEPT !.base = exe] \in Self!Jobs
        /\ [selfJob EXCEPT !.then = "idle"] \in Self!Jobs
    BY <2>2 DEF Self!Jobs
  <2>4. [selfJob EXCEPT !.failed = TRUE] \in Self!Jobs /\ \A v \in Releases : [selfJob EXCEPT !.want = v] \in Self!Jobs
    BY <2>2 DEF Self!Jobs
  <2> QED
    BY <2>1, <2>2, <2>3, <2>4
<1>4. selfPc' \in Self!PCs
  BY DEF Self!TypeOK, Self!PCs, Self!Jobs, Self!Recovered, Self!PostflightErr, Self!Recovery,
      Self!Recover, Self!ReadStatus, Self!ReadActive, Self!ReadPrevious, Self!Refused,
      Self!Restore, Self!RecoveryVerify, Self!RecoveryClear, Self!Update, Self!Attempt, Self!Hash,
      Self!Begin, Self!Prepare, Self!Save, Self!Preflight, Self!Rehash, Self!Clear, Self!Retain,
      Self!Replace, Self!Postflight, Self!Rollback, Self!Reverify, Self!LaunchErr, Self!Crash,
      Self!Reinstall
<1>5. exe' \in Self!Contents /\ previous' \in Self!Contents
  BY DEF Self!TypeOK, Self!Jobs, Self!Contents, Self!Copied, Self!Recovery, Self!Recover,
      Self!ReadStatus, Self!ReadActive, Self!ReadPrevious, Self!Refused, Self!Restore,
      Self!RecoveryVerify, Self!RecoveryClear, Self!Update, Self!Attempt, Self!Hash, Self!Begin,
      Self!Prepare, Self!Save, Self!Preflight, Self!Rehash, Self!Clear, Self!Retain, Self!Replace,
      Self!Postflight, Self!Rollback, Self!Reverify, Self!LaunchErr, Self!Crash, Self!Reinstall
<1>6. selfRecord' \in Self!Record \cup {NoRecord}
  <2>1. \/ selfRecord' \in {selfRecord, NoRecord, Self!Started}
        \/ selfPc \in {"prepared", "activating"} /\ selfRecord' = Self!Checkpointed(selfPc)
    BY DEF Self!Recovered, Self!PostflightErr, Self!Recovery, Self!Recover, Self!ReadStatus,
        Self!ReadActive, Self!ReadPrevious, Self!Refused, Self!Restore, Self!RecoveryVerify,
        Self!RecoveryClear, Self!Update, Self!Attempt, Self!Hash, Self!Begin, Self!Prepare,
        Self!Save, Self!Preflight, Self!Rehash, Self!Clear, Self!Retain, Self!Replace,
        Self!Postflight, Self!Rollback, Self!Reverify, Self!LaunchErr, Self!Crash, Self!Reinstall
  <2>2. Self!Started \in Self!Record /\ Self!Checkpointed("prepared") \in Self!Record
    BY DEF Self!TypeOK, Self!Started, Self!Checkpointed, Self!Record, Self!Contents, Self!Jobs
  <2>3. selfPc = "activating" => Self!Checkpointed("activating") \in Self!Record
    BY DEF SelfInv, SelfJobInv, SelfBegun, Self!TypeOK, Self!Checkpointed, Self!Record,
        Self!Contents, Self!Jobs
  <2> QED
    BY <2>1, <2>2, <2>3 DEF Self!TypeOK
<1> QED
  BY <1>1, <1>2, <1>3, <1>4, <1>5, <1>6 DEF Self!TypeOK

LEMMA SelfHelperTypes ==
  ASSUME SelfInv, Self!TypeOK, NEW h \in Helpers,
         Self!Launch(h) \/ Self!HelperMoves(h) \/ Self!HelperEnds(h) \/ Self!HelperCrash(h)
  PROVE  Self!TypeOK'
<1>1. helper[h] \in Self!HelperStates /\ Self!NoHelper \in Self!HelperStates
  BY NoJobIsJob DEF Self!TypeOK
<1>2. CASE Self!Launch(h)
  <2>1. selfJob \in Self!Jobs /\ h \in Helpers \cup {None}
    BY DEF Self!TypeOK
  <2>2. selfJob' \in Self!Jobs
    BY <1>2, <2>1 DEF Self!Launch, Self!Jobs
  <2>3. [Self!NoHelper EXCEPT !.at = "wait", !.active = selfJob.base, !.cur = selfJob.cur,
           !.next = selfJob.want] \in Self!HelperStates
    BY <1>1, <2>1 DEF Self!HelperStates, Self!Steps, Self!Jobs
  <2>4. helper' \in [Helpers -> Self!HelperStates]
    BY <1>2, <2>3 DEF Self!Launch, Self!TypeOK
  <2>5. clashed' \in BOOLEAN
    BY <1>2, Zenon DEF Self!Launch, Self!TypeOK
  <2> QED
    BY <1>2, <2>2, <2>4, <2>5 DEF Self!Launch, Self!TypeOK, Self!PCs
<1>3. CASE Self!HelperMoves(h)
  <2>1. /\ UNCHANGED <<platform, selfRecord, status, selfPc, selfJob, touched, clashed>>
        /\ \/ \E at \in Self!Steps : Self!To(h, at)
           \/ \E state \in Self!States : Self!Report(h, state)
    BY <1>3 DEF Self!HelperMoves, Self!WaitParent, Self!CheckActive, Self!RetainActive,
        Self!Activate, Self!VerifyNext, Self!UndoRemove, Self!UndoMove, Self!UndoVerify,
        Self!Unrestored, Self!Steps, Self!States
  <2>2. /\ \A at \in Self!Steps : [helper[h] EXCEPT !.at = at] \in Self!HelperStates
        /\ \A state \in Self!States :
             [helper[h] EXCEPT !.at = "report", !.state = state] \in Self!HelperStates
    BY <1>1 DEF Self!HelperStates, Self!Steps
  <2>3. helper' \in [Helpers -> Self!HelperStates]
    BY <2>1, <2>2 DEF Self!TypeOK, Self!To, Self!Report
  <2>4. exe' \in Self!Contents /\ previous' \in Self!Contents
    BY <1>1, <1>3 DEF Self!TypeOK, Self!HelperStates, Self!Contents, Self!HelperMoves,
        Self!WaitParent, Self!CheckActive, Self!RetainActive, Self!MoveAside, Self!Activate,
        Self!VerifyNext, Self!UndoRemove, Self!UndoMove, Self!UndoVerify
  <2> QED
    BY <2>1, <2>3, <2>4 DEF Self!TypeOK
<1>4. CASE Self!HelperEnds(h)
  BY <1>1, <1>4 DEF Self!HelperEnds, Self!TypeOK, Self!HelperStates
<1>5. CASE Self!HelperCrash(h)
  BY <1>1, <1>5 DEF Self!HelperCrash, Self!TypeOK
<1> QED
  BY <1>2, <1>3, <1>4, <1>5

LEMMA SelfNextStep ==
  ASSUME SelfInv, Self!Next
  PROVE  SelfInv'
<1>1. Self!TypeOK
  BY DEF SelfInv
<1>2. CASE \E h \in Helpers :
             Self!Launch(h) \/ Self!HelperMoves(h) \/ Self!HelperEnds(h) \/ Self!HelperCrash(h)
  BY <1>1, <1>2, SelfHelperTypes, SelfLaunchStep, SelfHelperStep, SelfHelperEndStep
<1>3. CASE /\ Self!Recovery \/ Self!Update \/ Self!Crash \/ Self!Reinstall
           /\ \A h \in Helpers : ~Self!Launch(h)
  <2>1. Self!TypeOK'
    BY <1>1, <1>3, SelfCommandTypes
  <2> QED
    BY <1>3, <2>1, SelfAttemptStep, SelfRecoverStep, SelfReadStatusStep, SelfReadActiveStep,
     SelfReadPreviousStep, SelfRefusedStep, SelfRestoreStep, SelfRecoveryVerifyStep,
     SelfRecoveryClearStep, SelfHashStep, SelfBeginStep, SelfPrepareStep, SelfSaveStep,
     SelfPreflightStep, SelfRehashStep, SelfClearStep, SelfRetainStep, SelfReplaceStep,
     SelfPostflightStep, SelfRollbackStep, SelfReverifyStep, SelfLaunchErrStep,
     SelfCrashStep, SelfReinstallStep, Zenon
       DEF Self!Recovery, Self!Update
<1> QED
  BY <1>2, <1>3 DEF Self!Next, Self!Update

LEMMA SelfInitInv == Self!Init => SelfInv
<1> SUFFICES ASSUME Self!Init PROVE SelfInv
  OBVIOUS
<1>1. \A h \in Helpers : helper[h].at = "none"
  BY DEF Self!Init, Self!NoHelper
<1>2. Self!TypeOK
  <2>1. helper \in [Helpers -> Self!HelperStates] /\ selfJob \in Self!Jobs
    BY NoJobIsJob DEF Self!Init
  <2>2. touched \in BOOLEAN /\ clashed \in BOOLEAN
    BY DEF Self!Init
  <2> QED
    BY <2>1, <2>2 DEF Self!Init, Self!TypeOK, Self!Contents, Self!PCs, Self!States
<1>3. SelfJobInv /\ HelperInv /\ PlatformInv
  BY <1>1 DEF Self!Init, SelfJobInv, HelperInv, PlatformInv, SelfRecovers, SelfBegun, SelfActs
<1>4. UndisturbedInv
  BY <1>1 DEF Self!Init, UndisturbedInv, Self!FingerprintIsKept, Self!RecoveredIsOld, HelperFiles,
     UpdateFiles, RecoveryFiles
<1> QED
  BY <1>2, <1>3, <1>4 DEF SelfInv

LEMMA SurvivesStep ==
  ASSUME SelfInv, SurvivesInv, Self!Next
  PROVE  SurvivesInv'
<1>0. Self!TypeOK
  BY DEF SelfInv
<1>1. CASE \E h \in Helpers : Self!HelperMoves(h)
  <2> PICK h \in Helpers : Self!HelperMoves(h)
    BY <1>1
  <2>1. helper[h].next # None /\ helper[h].at # "none" /\ Advanced(h) /\ clashed' = clashed
    <3>1. Advanced(h) /\ helper[h].at # "none"
      BY <1>0, HelperWaitParent, HelperCheckActive, HelperRetainActive, HelperActivate,
         HelperVerifyNext, HelperUndoRemove, HelperUndoMove, HelperUndoVerify, Zenon
        DEF Self!HelperMoves
    <3> QED
      BY <3>1 DEF SelfInv, HelperInv, Self!HelperMoves
  <2>2. \/ /\ UNCHANGED <<exe, previous>>
           /\ helper'[h].at \in {"check", "retain", "report", "undo_remove"}
           /\ helper'[h].at = "undo_remove" => helper[h].at = "verify"
        \/ exe # None /\ previous' = exe
        \/ /\ helper[h].at \in {"activate", "undo_remove"} /\ previous' = previous
        \/ exe' = previous /\ previous # None /\ helper'[h].at = "undo_verify"
    BY <1>0, HelperWaitParent, HelperCheckActive, HelperRetainActive, HelperActivate,
       HelperVerifyNext, HelperUndoRemove, HelperUndoMove, HelperUndoVerify DEF Self!HelperMoves
  <2> SUFFICES ASSUME ~clashed PROVE SurvivesInv'
    BY <2>1 DEF SurvivesInv
  <2>3. \A g \in Helpers : g # h => helper[g].at = "none" /\ helper'[g].at = "none"
    BY <2>1 DEF SurvivesInv, Advanced
  <2> QED
    BY <2>1, <2>2, <2>3 DEF SurvivesInv
<1>2. CASE \E h \in Helpers : Self!HelperEnds(h) \/ Self!HelperCrash(h)
  <2> PICK h \in Helpers : Self!HelperEnds(h) \/ Self!HelperCrash(h)
    BY <1>2
  <2>1. UNCHANGED <<exe, previous, clashed>>
    BY DEF Self!HelperEnds, Self!HelperCrash
  <2>2. helper'[h].at = "none" /\ \A g \in Helpers : g # h => helper'[g] = helper[g]
    BY <1>0, HelperGone DEF Self!HelperEnds, Self!HelperCrash
  <2> QED
    BY <2>1, <2>2 DEF SurvivesInv
<1>3. CASE \E h \in Helpers : Self!Launch(h)
  <2> PICK h \in Helpers : Self!Launch(h)
    BY <1>3
  <2>1. /\ UNCHANGED <<exe, previous>>
        /\ helper'[h].at = "wait" /\ \A g \in Helpers : g # h => helper'[g] = helper[g]
    BY <1>0 DEF Self!Launch, Self!TypeOK, Self!NoHelper
  <2>2. ~clashed' => ~clashed /\ \A g \in Helpers : helper[g].at = "none"
    BY DEF Self!Launch
  <2> QED
    BY <2>1, <2>2 DEF SurvivesInv
<1>4. CASE Self!Retain \/ Self!Replace \/ Self!Rollback
  <2>1. platform = "unix" /\ UNCHANGED <<helper, clashed>>
    BY <1>4 DEF Self!Retain, Self!Replace, Self!Rollback, SelfInv, PlatformInv
  <2>2. \A h \in Helpers : helper[h].at = "none"
    BY <2>1 DEF SelfInv, HelperInv
  <2>3. ~clashed => exe' # None \/ previous' # None
    BY <1>4 DEF Self!Retain, Self!Replace, Self!Rollback, Self!Copied, SelfInv, SelfJobInv,
        SelfActs, SurvivesInv
  <2> QED
    BY <2>1, <2>2, <2>3 DEF SurvivesInv
<1>5. CASE Self!Restore \/ Self!Reinstall
  <2>1. UNCHANGED <<previous, helper, clashed>> /\ (exe' = exe \/ exe' = previous \/ exe' \in Releases)
        /\ (exe' = previous => previous # None \/ exe' = exe)
    BY <1>5 DEF Self!Restore, Self!Reinstall, Self!Copied
  <2> QED
    BY <2>1 DEF SurvivesInv
<1>6. CASE UNCHANGED <<exe, previous, helper, clashed>>
  BY <1>6 DEF SurvivesInv
<1>7. Self!Restore \/ Self!Reinstall \/ Self!Retain \/ Self!Replace \/ Self!Rollback
      \/ UNCHANGED <<exe, previous, helper, clashed>>
      \/ \E h \in Helpers : Self!Launch(h) \/ Self!HelperMoves(h) \/ Self!HelperEnds(h) \/ Self!HelperCrash(h)
  BY DEF Self!Next, Self!Recovery, Self!Recover, Self!ReadStatus, Self!ReadActive,
      Self!ReadPrevious, Self!Refused, Self!RecoveryVerify, Self!RecoveryClear, Self!Update,
      Self!Attempt, Self!Hash, Self!Begin, Self!Prepare, Self!Save, Self!Preflight, Self!Rehash,
      Self!Clear, Self!Postflight, Self!Reverify, Self!LaunchErr, Self!Crash
<1> QED
  BY <1>1, <1>2, <1>3, <1>4, <1>5, <1>6, <1>7

LEMMA SelfStays ==
  SelfInv /\ [CoreMoves \/ SelfMoves \/ AdoptMoves]_<<part, vars, selfVars, adoptVars>> => SelfInv'
<1> SUFFICES ASSUME SelfInv, [CoreMoves \/ SelfMoves \/ AdoptMoves]_<<part, vars, selfVars, adoptVars>>
             PROVE SelfInv'
  OBVIOUS
<1>1. CASE UNCHANGED selfVars
  BY <1>1 DEF selfVars, SelfInv, Self!TypeOK, SelfJobInv, HelperInv, PlatformInv, UndisturbedInv,
     Self!FingerprintIsKept, Self!RecoveredIsOld, HelperFiles, UpdateFiles, RecoveryFiles
<1>2. Self!Next \/ UNCHANGED selfVars
  BY DEF CoreMoves, SelfMoves, AdoptMoves
<1> QED
  BY <1>1, <1>2, SelfNextStep

LEMMA SurvivesStays ==
  SelfInv /\ SurvivesInv
    /\ [CoreMoves \/ SelfMoves \/ AdoptMoves]_<<part, vars, selfVars, adoptVars>> => SurvivesInv'
<1> SUFFICES ASSUME SelfInv, SurvivesInv,
                    [CoreMoves \/ SelfMoves \/ AdoptMoves]_<<part, vars, selfVars, adoptVars>>
             PROVE SurvivesInv'
  OBVIOUS
<1>1. CASE UNCHANGED selfVars
  BY <1>1 DEF selfVars, SurvivesInv
<1>2. Self!Next \/ UNCHANGED selfVars
  BY DEF CoreMoves, SelfMoves, AdoptMoves
<1> QED
  BY <1>1, <1>2, SurvivesStep

LEMMA SurvivesInit == Self!Init => SurvivesInv
BY DEF Self!Init, SurvivesInv, Self!NoHelper

\* What the record of a self-update, the two files, the helpers and the step of the
\* update say of each other, whoever fails, dies or reinstalls PMux (engine.go:77-195,
\* recovery.go:216-290, selfhelper.go:75-190): the inductive invariant.
THEOREM SelfUpdateInvariance == ProgramsSpec => []SelfInv
<1>1. ProgramsInit => SelfInv
  BY SelfInitInv DEF ProgramsInit
<1> QED
  BY <1>1, SelfStays, PTL DEF ProgramsSpec

\* The record of an update holds the fingerprint of a release that is there to go back
\* to, and recovery on Unix drops it only when it has gone back, for any number of
\* helpers at once (engine.go:144, recovery.go:266-280).
THEOREM RecordStaysRestorable == ProgramsSpec => []Self!RecordRestorable
<1>1. SelfInv => Self!RecordRestorable
  BY DEF SelfInv, UndisturbedInv, Self!RecordRestorable
<1> QED
  BY <1>1, SelfUpdateInvariance, PTL

\* For any number of helpers, the executable of PMux is not lost before one is launched
\* beside another, and a record is enough to go back (selfhelper.go:108, recovery.go:266).
THEOREM ExecutableStaysRecoverable == ProgramsSpec => []ExecutableIsRecoverable
<1>1. ProgramsInit => SurvivesInv
  BY SurvivesInit DEF ProgramsInit
<1>2. SelfInv /\ SurvivesInv => ExecutableIsRecoverable
  BY DEF SelfInv, SurvivesInv, UndisturbedInv, ExecutableIsRecoverable, Self!RecordRestorable,
     Self!ExecutableSurvives
<1>3. SelfInv /\ SurvivesInv
        /\ [CoreMoves \/ SelfMoves \/ AdoptMoves]_<<part, vars, selfVars, adoptVars>> => SurvivesInv'
  BY SurvivesStays
<1> QED
  BY <1>1, <1>2, <1>3, SelfUpdateInvariance, PTL DEF ProgramsSpec

\* A self-update on Unix that succeeds runs the release asked for and keeps the one it
\* replaced; one that fails leaves or puts back what was there, or says that it could
\* not (selfactivate_unix.go:14-57).
THEOREM ReportStaysTrue == ProgramsSpec => []ReportIsTrue
<1>1. SelfInv => ReportIsTrue
  BY DEF SelfInv, UndisturbedInv, UpdateFiles, ReportIsTrue, Self!ReportIsTrue
<1> QED
  BY <1>1, SelfUpdateInvariance, PTL

-----------------------------------------------------------------------------
(* Adoption                                                                *)


AdoptForward == {"mkdir", "apply", "reread", "sidecar", "management", "state", "refs", "install",
                 "restart", "verify"}
AdoptUndo == {"u_stop", "u_uninstall", "u_def", "u_config", "u_keys", "u_state", "u_refs",
              "u_root", "u_foreign", "u_start"}

\* What PMux owns of an installation is as the hardening found it.
OursIsPrior ==
  /\ config = prior.config /\ root = prior.root /\ keys = prior.keys /\ refs = prior.refs
  /\ def = prior.def /\ run = prior.run
TheirsIsPrior == foreignDef = prior.foreignDef /\ foreignRun = prior.foreignRun

\* As long as no undo failed, a process has a definition and the sidecar a directory.
DiskInv ==
  ~kept => /\ def = None => run = None
           /\ ~root => keys["sidecar"] = None
           /\ foreignRun => foreignDef
           /\ job.unread = {}
PriorInv ==
  ~kept => /\ prior.def = None => prior.run = None
           /\ ~prior.root => prior.keys["sidecar"] = None

\* How far the adoption is.
StageInv ==
  /\ adoptPc \in {"save", "read"} => ~job.began /\ OursIsPrior /\ TheirsIsPrior
  /\ adoptPc = "failed" /\ ~job.began => kept \/ (OursIsPrior /\ TheirsIsPrior)
  /\ adoptPc \notin {"idle", "save", "done", "failed"} => job.harden
  /\ adoptPc \in {"cutover", "f_stop", "f_remove", "f_reload", "capture"} \cup AdoptForward \cup AdoptUndo =>
       job.began
  /\ adoptPc \in {"cutover", "f_stop", "f_remove", "f_reload"} => OursIsPrior
  /\ adoptPc \in {"save", "read", "cutover", "f_stop", "f_remove", "f_reload"} =>
       ~job.undo /\ ~job.installed
  /\ adoptPc \notin {"idle", "save", "done", "failed", "read"} /\ prior.root => root

\* The service that ran the installation.
CutoverInv ==
  /\ adoptPc = "cutover" => TheirsIsPrior
  /\ adoptPc = "f_stop" => TheirsIsPrior /\ foreignDef /\ foreignRun /\ job.active
  /\ adoptPc \in {"f_remove", "f_reload"} =>
       prior.foreignDef /\ ~foreignRun /\ prior.foreignRun = job.active
  /\ adoptPc = "f_remove" => foreignDef
  /\ adoptPc = "f_reload" => ~foreignDef
  /\ adoptPc \in {"capture"} \cup AdoptForward \cup (AdoptUndo \ {"u_start"}) =>
       /\ ~foreignDef
       /\ IF job.undo THEN prior.foreignDef /\ ~foreignRun /\ prior.foreignRun = job.active
                      ELSE ~prior.foreignDef /\ foreignRun = prior.foreignRun

\* What a hardening has put in place.
ForwardInv ==
  /\ adoptPc \in {"read", "cutover", "f_stop", "f_remove", "f_reload", "capture", "mkdir", "apply",
                  "reread", "sidecar", "management", "state"} => entry = Adopted!Adopted
  /\ adoptPc \in {"refs", "install", "restart", "verify"} => entry = Adopted!Hardened
  /\ adoptPc \in AdoptForward \ {"mkdir"} => root
  /\ adoptPc \in AdoptForward \ {"mkdir", "apply"} => config = attempt
  /\ adoptPc \in {"management", "state", "refs", "install", "restart", "verify"} => keys["sidecar"] = attempt
  /\ adoptPc \in {"state", "refs", "install", "restart", "verify"} => keys["management"] = attempt
  /\ adoptPc \in {"install", "restart", "verify"} => refs = attempt
  /\ adoptPc \in {"restart", "verify"} => def = attempt /\ loaded = attempt
  /\ adoptPc = "verify" => run = attempt
  /\ job.installed => prior.def = None

\* What the undo has taken back.
UndoInv ==
  ~kept =>
    /\ adoptPc \in AdoptUndo \ {"u_stop"} => run = None
    /\ adoptPc \in AdoptUndo \ {"u_stop", "u_uninstall", "u_def"} => def = prior.def
    /\ adoptPc \in {"u_keys", "u_state", "u_refs", "u_root", "u_foreign", "u_start"} => config = prior.config
    /\ adoptPc \in {"u_state", "u_refs", "u_root", "u_foreign", "u_start"} => keys = prior.keys
    /\ adoptPc \in {"u_refs", "u_root", "u_foreign", "u_start"} => entry = Adopted!Adopted
    /\ adoptPc \in {"u_root", "u_foreign", "u_start"} => refs = prior.refs
    /\ adoptPc \in {"u_foreign", "u_start"} => root = prior.root
    /\ adoptPc = "u_start" => TheirsIsPrior

AdoptInv ==
  /\ Adopted!TypeOK /\ DiskInv /\ PriorInv /\ StageInv /\ CutoverInv /\ ForwardInv /\ UndoInv
  /\ Adopted!AdoptionIsAllOrNothing

-----------------------------------------------------------------------------
LEMMA ForwardSteps ==
  /\ Adopted!StepsOf(Adopted!Forward) = AdoptForward \cup {"done"}
  /\ Adopted!After(Adopted!Forward, "mkdir") = "apply"
  /\ Adopted!After(Adopted!Forward, "apply") = "reread"
  /\ Adopted!After(Adopted!Forward, "reread") = "sidecar"
  /\ Adopted!After(Adopted!Forward, "sidecar") = "management"
  /\ Adopted!After(Adopted!Forward, "management") = "state"
  /\ Adopted!After(Adopted!Forward, "state") = "refs"
  /\ Adopted!After(Adopted!Forward, "refs") = "install"
  /\ Adopted!After(Adopted!Forward, "install") = "restart"
  /\ Adopted!After(Adopted!Forward, "restart") = "verify"
  /\ Adopted!After(Adopted!Forward, "verify") = "done"
BY DEF Adopted!StepsOf, Adopted!After, Adopted!Forward, AdoptForward

LEMMA UndoSteps ==
  /\ Adopted!StepsOf(Adopted!Undo) = AdoptUndo \cup {"failed"}
  /\ Adopted!After(Adopted!Undo, "u_stop") = "u_uninstall"
  /\ Adopted!After(Adopted!Undo, "u_uninstall") = "u_def"
  /\ Adopted!After(Adopted!Undo, "u_def") = "u_config"
  /\ Adopted!After(Adopted!Undo, "u_config") = "u_keys"
  /\ Adopted!After(Adopted!Undo, "u_keys") = "u_state"
  /\ Adopted!After(Adopted!Undo, "u_state") = "u_refs"
  /\ Adopted!After(Adopted!Undo, "u_refs") = "u_root"
  /\ Adopted!After(Adopted!Undo, "u_root") = "u_foreign"
  /\ Adopted!After(Adopted!Undo, "u_foreign") = "u_start"
  /\ Adopted!After(Adopted!Undo, "u_start") = "failed"
BY DEF Adopted!StepsOf, Adopted!After, Adopted!Undo, AdoptUndo

AdoptPCs ==
  {"idle", "save", "read", "cutover", "f_stop", "f_remove", "f_reload", "capture", "done", "failed"}
    \cup AdoptForward \cup AdoptUndo

LEMMA AdoptPCsAre == Adopted!PCs = AdoptPCs
BY ForwardSteps, UndoSteps DEF Adopted!PCs, AdoptPCs

LEMMA FoundIs ==
  ASSUME Adopted!TypeOK
  PROVE  /\ Adopted!Found = prior <=> OursIsPrior /\ TheirsIsPrior
         /\ [Adopted!Found EXCEPT !.run = prior.run] = prior <=>
              /\ config = prior.config /\ root = prior.root /\ keys = prior.keys /\ refs = prior.refs
              /\ def = prior.def /\ TheirsIsPrior
BY DEF Adopted!TypeOK, Adopted!Found, Adopted!Finds, OursIsPrior, TheirsIsPrior

LEMMA FoundWillBe ==
  ASSUME Adopted!TypeOK'
  PROVE  /\ (Adopted!Found = prior)' <=> (OursIsPrior /\ TheirsIsPrior)'
         /\ ([Adopted!Found EXCEPT !.run = prior.run] = prior)' <=>
              /\ config' = prior'.config /\ root' = prior'.root /\ keys' = prior'.keys /\ refs' = prior'.refs
              /\ def' = prior'.def /\ TheirsIsPrior'
BY DEF Adopted!TypeOK, Adopted!Found, Adopted!Finds, OursIsPrior, TheirsIsPrior


\* readExisting marks what it took to be missing.
LEMMA ReadsGives ==
  ASSUME job \in Adopted!Jobs, NEW files, Adopted!Reads(files)
  PROVE  /\ job'.began /\ job'.harden = job.harden /\ job'.active = job.active
         /\ job'.undo = job.undo /\ job'.installed = job.installed
         /\ ~kept' => ~kept /\ job'.unread = job.unread
<1>1. PICK u : job' = [job EXCEPT !.began = TRUE, !.unread = @ \cup u] /\ kept' = (kept \/ u # {})
  BY DEF Adopted!Reads, Adopted!Keeps
<1>2. job' = [job EXCEPT !.began = TRUE, !.unread = job.unread \cup u]
  BY <1>1 DEF Adopted!Jobs
<1>3. /\ job'.began /\ job'.harden = job.harden /\ job'.active = job.active
      /\ job'.undo = job.undo /\ job'.installed = job.installed /\ job'.unread = job.unread \cup u
  BY <1>2 DEF Adopted!Jobs
<1>4. ~kept' => ~kept /\ u = {}
  BY <1>1
<1> QED
  BY <1>3, <1>4

USE NoAttemptAssumption, AttemptsAssumption
    DEF NoAttemptAssumption, AttemptsAssumption, Adopted!proxy, Adopted!unit, Adopted!foreign,
        Adopted!Goto, Adopted!Ok, Adopted!Keeps, Adopted!Undone, Adopted!Sets, Adopted!Restores,
        AdoptForward, AdoptUndo

LEMMA AdoptBeginStep ==
  ASSUME AdoptInv, Adopted!TypeOK', Adopted!Begin
  PROVE  AdoptInv'
<1>0. Adopted!TypeOK
  BY DEF AdoptInv
<1>a. /\ ~job'.began /\ ~job'.undo /\ ~job'.installed /\ job'.unread = {}
      /\ (adoptPc' = "save" \/ adoptPc' = "failed") /\ ~kept
  BY DEF Adopted!Begin, Adopted!NoJob
<1>b. prior' = Adopted!Found /\ OursIsPrior' /\ TheirsIsPrior'
  BY DEF Adopted!Begin, Adopted!Found, OursIsPrior, TheirsIsPrior
<1>c. UNCHANGED <<entry, config, root, keys, refs, def, loaded, run, foreignDef, foreignRun, kept>>
  BY DEF Adopted!Begin
<1>1. DiskInv'
  BY <1>a, <1>b, <1>c, <1>0, ForwardSteps, UndoSteps, AdoptPCsAre DEF AdoptInv, DiskInv, PriorInv,
      StageInv, CutoverInv, ForwardInv, UndoInv, Adopted!Adopted, Adopted!Hardened, Adopted!Begin
<1>2. PriorInv'
  BY <1>a, <1>b, <1>c, <1>0, ForwardSteps, UndoSteps, AdoptPCsAre DEF AdoptInv, DiskInv, PriorInv,
      OursIsPrior, Adopted!Adopted, Adopted!Hardened, Adopted!Begin
<1>3. StageInv'
  BY <1>a, <1>b, <1>c, <1>0, ForwardSteps, UndoSteps, AdoptPCsAre DEF AdoptInv, StageInv,
      CutoverInv, OursIsPrior, TheirsIsPrior, Adopted!Adopted, Adopted!Hardened, Adopted!Begin
<1>4. CutoverInv'
  BY <1>a, <1>b, <1>c, <1>0, ForwardSteps, UndoSteps, AdoptPCsAre DEF AdoptInv, StageInv,
      CutoverInv, OursIsPrior, TheirsIsPrior, Adopted!Adopted, Adopted!Hardened, Adopted!Begin
<1>5. ForwardInv'
  BY <1>a, <1>b, <1>c, <1>0, ForwardSteps, UndoSteps, AdoptPCsAre DEF AdoptInv, ForwardInv,
      Adopted!Adopted, Adopted!Hardened, Adopted!Begin
<1>6. UndoInv'
  BY <1>a, <1>b, <1>c, <1>0, ForwardSteps, UndoSteps, AdoptPCsAre DEF AdoptInv, DiskInv, PriorInv,
      StageInv, CutoverInv, ForwardInv, UndoInv, OursIsPrior, TheirsIsPrior, Adopted!Adopted,
      Adopted!Hardened, Adopted!Begin
<1>7. Adopted!AdoptionIsAllOrNothing'
  BY <1>a, <1>b, <1>c, <1>0, <1>1, ForwardSteps, UndoSteps, AdoptPCsAre, FoundWillBe
    DEF AdoptInv, Adopted!AdoptionIsAllOrNothing, Adopted!IsHardened, DiskInv, PriorInv, StageInv,
      CutoverInv, ForwardInv, UndoInv, OursIsPrior, TheirsIsPrior, Adopted!Adopted,
      Adopted!Hardened, Adopted!Begin
<1> QED
  BY <1>1, <1>2, <1>3, <1>4, <1>5, <1>6, <1>7 DEF AdoptInv

LEMMA AdoptSaveRecordStep ==
  ASSUME AdoptInv, Adopted!TypeOK', Adopted!SaveRecord
  PROVE  AdoptInv'
<1>0. Adopted!TypeOK
  BY DEF AdoptInv
<1>1. DiskInv'
  BY <1>0, ForwardSteps, UndoSteps, AdoptPCsAre DEF AdoptInv, DiskInv, PriorInv, StageInv,
      CutoverInv, ForwardInv, UndoInv, Adopted!Adopted, Adopted!Hardened, Adopted!SaveRecord
<1>2. PriorInv'
  BY <1>0, ForwardSteps, UndoSteps, AdoptPCsAre DEF AdoptInv, DiskInv, PriorInv, OursIsPrior,
      Adopted!Adopted, Adopted!Hardened, Adopted!SaveRecord
<1>3. StageInv'
  BY <1>0, ForwardSteps, UndoSteps, AdoptPCsAre DEF AdoptInv, StageInv, CutoverInv, OursIsPrior,
      TheirsIsPrior, Adopted!Adopted, Adopted!Hardened, Adopted!SaveRecord
<1>4. CutoverInv'
  BY <1>0, ForwardSteps, UndoSteps, AdoptPCsAre DEF AdoptInv, StageInv, CutoverInv, OursIsPrior,
      TheirsIsPrior, Adopted!Adopted, Adopted!Hardened, Adopted!SaveRecord
<1>5. ForwardInv'
  BY <1>0, ForwardSteps, UndoSteps, AdoptPCsAre DEF AdoptInv, ForwardInv, Adopted!Adopted,
      Adopted!Hardened, Adopted!SaveRecord
<1>6. UndoInv'
  BY <1>0, ForwardSteps, UndoSteps, AdoptPCsAre DEF AdoptInv, DiskInv, PriorInv, StageInv,
      CutoverInv, ForwardInv, UndoInv, OursIsPrior, TheirsIsPrior, Adopted!Adopted,
      Adopted!Hardened, Adopted!SaveRecord
<1>7. Adopted!AdoptionIsAllOrNothing'
  BY <1>0, <1>1, ForwardSteps, UndoSteps, AdoptPCsAre, FoundWillBe DEF AdoptInv,
      Adopted!AdoptionIsAllOrNothing, Adopted!IsHardened, DiskInv, PriorInv, StageInv, CutoverInv,
      ForwardInv, UndoInv, OursIsPrior, TheirsIsPrior, Adopted!Adopted, Adopted!Hardened,
      Adopted!SaveRecord
<1> QED
  BY <1>1, <1>2, <1>3, <1>4, <1>5, <1>6, <1>7 DEF AdoptInv

LEMMA AdoptEndStep ==
  ASSUME AdoptInv, Adopted!TypeOK', Adopted!End
  PROVE  AdoptInv'
<1>0. Adopted!TypeOK
  BY DEF AdoptInv
<1>a. ~job'.installed /\ job'.unread = {} /\ adoptPc' = "idle"
  BY DEF Adopted!End, Adopted!NoJob
<1>1. DiskInv'
  BY <1>a, <1>0, ForwardSteps, UndoSteps, AdoptPCsAre DEF AdoptInv, DiskInv, PriorInv, StageInv,
      CutoverInv, ForwardInv, UndoInv, Adopted!Adopted, Adopted!Hardened, Adopted!End
<1>2. PriorInv'
  BY <1>a, <1>0, ForwardSteps, UndoSteps, AdoptPCsAre DEF AdoptInv, DiskInv, PriorInv,
      OursIsPrior, Adopted!Adopted, Adopted!Hardened, Adopted!End
<1>3. StageInv'
  BY <1>a, <1>0, ForwardSteps, UndoSteps, AdoptPCsAre DEF AdoptInv, StageInv, CutoverInv,
      OursIsPrior, TheirsIsPrior, Adopted!Adopted, Adopted!Hardened, Adopted!End
<1>4. CutoverInv'
  BY <1>a, <1>0, ForwardSteps, UndoSteps, AdoptPCsAre DEF AdoptInv, StageInv, CutoverInv,
      OursIsPrior, TheirsIsPrior, Adopted!Adopted, Adopted!Hardened, Adopted!End
<1>5. ForwardInv'
  BY <1>a, <1>0, ForwardSteps, UndoSteps, AdoptPCsAre DEF AdoptInv, ForwardInv, Adopted!Adopted,
      Adopted!Hardened, Adopted!End
<1>6. UndoInv'
  BY <1>a, <1>0, ForwardSteps, UndoSteps, AdoptPCsAre DEF AdoptInv, DiskInv, PriorInv, StageInv,
      CutoverInv, ForwardInv, UndoInv, OursIsPrior, TheirsIsPrior, Adopted!Adopted,
      Adopted!Hardened, Adopted!End
<1>7. Adopted!AdoptionIsAllOrNothing'
  BY <1>a, <1>0, <1>1, ForwardSteps, UndoSteps, AdoptPCsAre, FoundWillBe DEF AdoptInv,
      Adopted!AdoptionIsAllOrNothing, Adopted!IsHardened, DiskInv, PriorInv, StageInv, CutoverInv,
      ForwardInv, UndoInv, OursIsPrior, TheirsIsPrior, Adopted!Adopted, Adopted!Hardened,
      Adopted!End
<1> QED
  BY <1>1, <1>2, <1>3, <1>4, <1>5, <1>6, <1>7 DEF AdoptInv

LEMMA AdoptCrashStep ==
  ASSUME AdoptInv, Adopted!TypeOK', Adopted!Crash
  PROVE  AdoptInv'
<1>0. Adopted!TypeOK
  BY DEF AdoptInv
<1>a. ~job'.installed /\ job'.unread = {} /\ adoptPc' = "idle"
  BY DEF Adopted!Crash, Adopted!NoJob
<1>1. DiskInv'
  BY <1>a, <1>0, ForwardSteps, UndoSteps, AdoptPCsAre DEF AdoptInv, DiskInv, PriorInv, StageInv,
      CutoverInv, ForwardInv, UndoInv, Adopted!Adopted, Adopted!Hardened, Adopted!Crash
<1>2. PriorInv'
  BY <1>a, <1>0, ForwardSteps, UndoSteps, AdoptPCsAre DEF AdoptInv, DiskInv, PriorInv,
      OursIsPrior, Adopted!Adopted, Adopted!Hardened, Adopted!Crash
<1>3. StageInv'
  BY <1>a, <1>0, ForwardSteps, UndoSteps, AdoptPCsAre DEF AdoptInv, StageInv, CutoverInv,
      OursIsPrior, TheirsIsPrior, Adopted!Adopted, Adopted!Hardened, Adopted!Crash
<1>4. CutoverInv'
  BY <1>a, <1>0, ForwardSteps, UndoSteps, AdoptPCsAre DEF AdoptInv, StageInv, CutoverInv,
      OursIsPrior, TheirsIsPrior, Adopted!Adopted, Adopted!Hardened, Adopted!Crash
<1>5. ForwardInv'
  BY <1>a, <1>0, ForwardSteps, UndoSteps, AdoptPCsAre DEF AdoptInv, ForwardInv, Adopted!Adopted,
      Adopted!Hardened, Adopted!Crash
<1>6. UndoInv'
  BY <1>a, <1>0, ForwardSteps, UndoSteps, AdoptPCsAre DEF AdoptInv, DiskInv, PriorInv, StageInv,
      CutoverInv, ForwardInv, UndoInv, OursIsPrior, TheirsIsPrior, Adopted!Adopted,
      Adopted!Hardened, Adopted!Crash
<1>7. Adopted!AdoptionIsAllOrNothing'
  BY <1>a, <1>0, <1>1, ForwardSteps, UndoSteps, AdoptPCsAre, FoundWillBe DEF AdoptInv,
      Adopted!AdoptionIsAllOrNothing, Adopted!IsHardened, DiskInv, PriorInv, StageInv, CutoverInv,
      ForwardInv, UndoInv, OursIsPrior, TheirsIsPrior, Adopted!Adopted, Adopted!Hardened,
      Adopted!Crash
<1> QED
  BY <1>1, <1>2, <1>3, <1>4, <1>5, <1>6, <1>7 DEF AdoptInv

LEMMA AdoptReadOriginalsStep ==
  ASSUME AdoptInv, Adopted!TypeOK', Adopted!ReadOriginals
  PROVE  AdoptInv'
<1>0. Adopted!TypeOK
  BY DEF AdoptInv
<1>a. \/ /\ adoptPc' = "cutover" /\ prior' = Adopted!Found /\ job'.began
         /\ job'.harden = job.harden /\ job'.undo = job.undo /\ job'.installed = job.installed
         /\ (~kept' => ~kept /\ job'.unread = job.unread)
      \/ adoptPc' = "failed" /\ UNCHANGED <<job, prior, kept>>
  BY <1>0, ReadsGives DEF Adopted!ReadOriginals, Adopted!TypeOK
<1>b. prior' = Adopted!Found => OursIsPrior' /\ TheirsIsPrior'
  BY DEF Adopted!ReadOriginals, Adopted!Found, OursIsPrior, TheirsIsPrior
<1>c. UNCHANGED <<attempt, entry, config, root, keys, refs, def, loaded, run, foreignDef, foreignRun>>
  BY DEF Adopted!ReadOriginals
<1>d. job \in Adopted!Jobs /\ adoptPc = "read"
  BY <1>0 DEF Adopted!TypeOK, Adopted!ReadOriginals
<1>e. ~job.installed /\ ~job.undo
  BY <1>d DEF AdoptInv, StageInv
<1>1. DiskInv'
  BY <1>a, <1>b, <1>c, <1>d, <1>e, <1>0, ForwardSteps, UndoSteps, AdoptPCsAre DEF AdoptInv,
      DiskInv, PriorInv, StageInv, CutoverInv, ForwardInv, UndoInv, Adopted!Adopted,
      Adopted!Hardened
<1>2. PriorInv'
  BY <1>a, <1>b, <1>c, <1>d, <1>e, <1>0, ForwardSteps, UndoSteps, AdoptPCsAre DEF AdoptInv,
      DiskInv, PriorInv, OursIsPrior, Adopted!Adopted, Adopted!Hardened
<1>3. StageInv'
  BY <1>a, <1>b, <1>c, <1>d, <1>e, <1>0, ForwardSteps, UndoSteps, AdoptPCsAre DEF AdoptInv,
      StageInv, CutoverInv, OursIsPrior, TheirsIsPrior, Adopted!Adopted, Adopted!Hardened
<1>4. CutoverInv'
  BY <1>a, <1>b, <1>c, <1>d, <1>e, <1>0, ForwardSteps, UndoSteps, AdoptPCsAre DEF AdoptInv,
      StageInv, CutoverInv, OursIsPrior, TheirsIsPrior, Adopted!Adopted, Adopted!Hardened
<1>5. ForwardInv'
  BY <1>a, <1>b, <1>c, <1>d, <1>e, <1>0, ForwardSteps, UndoSteps, AdoptPCsAre DEF AdoptInv,
      ForwardInv, Adopted!Adopted, Adopted!Hardened
<1>6. UndoInv'
  BY <1>a, <1>b, <1>c, <1>d, <1>e, <1>0, ForwardSteps, UndoSteps, AdoptPCsAre DEF AdoptInv,
      DiskInv, PriorInv, StageInv, CutoverInv, ForwardInv, UndoInv, OursIsPrior, TheirsIsPrior,
      Adopted!Adopted, Adopted!Hardened
<1>7. Adopted!AdoptionIsAllOrNothing'
  BY <1>a, <1>b, <1>c, <1>d, <1>e, <1>0, <1>1, ForwardSteps, UndoSteps, AdoptPCsAre, FoundWillBe
    DEF AdoptInv, Adopted!AdoptionIsAllOrNothing, Adopted!IsHardened, DiskInv, PriorInv, StageInv,
      CutoverInv, ForwardInv, UndoInv, OursIsPrior, TheirsIsPrior, Adopted!Adopted,
      Adopted!Hardened
<1> QED
  BY <1>1, <1>2, <1>3, <1>4, <1>5, <1>6, <1>7 DEF AdoptInv

LEMMA AdoptInspectStep ==
  ASSUME AdoptInv, Adopted!TypeOK', Adopted!Inspect
  PROVE  AdoptInv'
<1>0. Adopted!TypeOK
  BY DEF AdoptInv
<1>a. /\ job'.began = job.began /\ job'.harden = job.harden /\ job'.undo = job.undo
      /\ job'.installed = job.installed /\ job'.unread = job.unread
      /\ (adoptPc' \in {"f_stop", "f_remove"} => job'.active = foreignRun)
  BY <1>0 DEF Adopted!Inspect, Adopted!TypeOK, Adopted!Jobs
<1>1. DiskInv'
  BY <1>a, <1>0, ForwardSteps, UndoSteps, AdoptPCsAre DEF AdoptInv, DiskInv, PriorInv, StageInv,
      CutoverInv, ForwardInv, UndoInv, Adopted!Adopted, Adopted!Hardened, Adopted!Inspect
<1>2. PriorInv'
  BY <1>a, <1>0, ForwardSteps, UndoSteps, AdoptPCsAre DEF AdoptInv, DiskInv, PriorInv,
      OursIsPrior, Adopted!Adopted, Adopted!Hardened, Adopted!Inspect
<1>3. StageInv'
  BY <1>a, <1>0, ForwardSteps, UndoSteps, AdoptPCsAre DEF AdoptInv, StageInv, CutoverInv,
      OursIsPrior, TheirsIsPrior, Adopted!Adopted, Adopted!Hardened, Adopted!Inspect
<1>4. CutoverInv'
  BY <1>a, <1>0, ForwardSteps, UndoSteps, AdoptPCsAre DEF AdoptInv, StageInv, CutoverInv,
      OursIsPrior, TheirsIsPrior, Adopted!Adopted, Adopted!Hardened, Adopted!Inspect
<1>5. ForwardInv'
  BY <1>a, <1>0, ForwardSteps, UndoSteps, AdoptPCsAre DEF AdoptInv, ForwardInv, Adopted!Adopted,
      Adopted!Hardened, Adopted!Inspect
<1>6. UndoInv'
  BY <1>a, <1>0, ForwardSteps, UndoSteps, AdoptPCsAre DEF AdoptInv, DiskInv, PriorInv, StageInv,
      CutoverInv, ForwardInv, UndoInv, OursIsPrior, TheirsIsPrior, Adopted!Adopted,
      Adopted!Hardened, Adopted!Inspect
<1>7. Adopted!AdoptionIsAllOrNothing'
  BY <1>a, <1>0, <1>1, ForwardSteps, UndoSteps, AdoptPCsAre, FoundWillBe DEF AdoptInv,
      Adopted!AdoptionIsAllOrNothing, Adopted!IsHardened, DiskInv, PriorInv, StageInv, CutoverInv,
      ForwardInv, UndoInv, OursIsPrior, TheirsIsPrior, Adopted!Adopted, Adopted!Hardened,
      Adopted!Inspect
<1> QED
  BY <1>1, <1>2, <1>3, <1>4, <1>5, <1>6, <1>7 DEF AdoptInv

LEMMA AdoptStopForeignStep ==
  ASSUME AdoptInv, Adopted!TypeOK', Adopted!StopForeign
  PROVE  AdoptInv'
<1>1. /\ adoptPc = "f_stop"
      /\ UNCHANGED <<attempt, entry, config, root, keys, refs, def, loaded, run, prior, foreignDef, job>>
      /\ \/ adoptPc' = "f_remove" /\ ~foreignRun' /\ kept' = kept
         \/ adoptPc' = "failed" /\ kept' = (kept \/ ~foreignRun')
  BY DEF Adopted!StopForeign, Adopted!Goto, Adopted!Keeps, Adopted!proxy, Adopted!unit
<1>2. /\ job.began /\ job.harden /\ ~job.undo /\ ~job.installed /\ job.active
      /\ OursIsPrior /\ TheirsIsPrior /\ foreignDef /\ foreignRun
      /\ entry = Adopted!Adopted
  BY <1>1 DEF AdoptInv, StageInv, CutoverInv, ForwardInv
<1>3. DiskInv' /\ PriorInv'
  BY <1>1, <1>2 DEF AdoptInv, DiskInv, PriorInv
<1>4. OursIsPrior' /\ (Adopted!Adopted)' = Adopted!Adopted
  BY <1>1, <1>2 DEF OursIsPrior, Adopted!Adopted
<1>5. StageInv' /\ CutoverInv'
  BY <1>1, <1>2, <1>4 DEF StageInv, CutoverInv, OursIsPrior, TheirsIsPrior, AdoptForward, AdoptUndo
<1>6. ForwardInv' /\ UndoInv'
  BY <1>1, <1>2, <1>4 DEF ForwardInv, UndoInv, AdoptForward, AdoptUndo
<1>7. Adopted!AdoptionIsAllOrNothing'
  BY <1>1, <1>2, <1>4, FoundWillBe
    DEF Adopted!AdoptionIsAllOrNothing, OursIsPrior, TheirsIsPrior
<1> QED
  BY <1>3, <1>5, <1>6, <1>7 DEF AdoptInv

LEMMA AdoptRemoveForeignStep ==
  ASSUME AdoptInv, Adopted!TypeOK', Adopted!RemoveForeign
  PROVE  AdoptInv'
<1>1. /\ adoptPc = "f_remove"
      /\ UNCHANGED <<attempt, entry, config, root, keys, refs, def, loaded, run, prior, job>>
      /\ \/ adoptPc' = "f_reload" /\ ~foreignDef' /\ foreignRun' = foreignRun /\ kept' = kept
         \/ adoptPc' = "failed" /\ (kept' \/ (foreignDef' /\ foreignRun' = job.active /\ kept' = kept))
  BY DEF Adopted!RemoveForeign, Adopted!PutBack, Adopted!Goto, Adopted!Keeps, Adopted!proxy, Adopted!unit
<1>2. /\ job.began /\ job.harden /\ ~job.undo /\ ~job.installed /\ OursIsPrior
      /\ prior.foreignDef /\ ~foreignRun /\ prior.foreignRun = job.active
      /\ entry = Adopted!Adopted
  BY <1>1 DEF AdoptInv, StageInv, CutoverInv, ForwardInv
<1>3. DiskInv' /\ PriorInv'
  BY <1>1, <1>2 DEF AdoptInv, DiskInv, PriorInv
<1>4. OursIsPrior' /\ (Adopted!Adopted)' = Adopted!Adopted
  BY <1>1, <1>2 DEF OursIsPrior, Adopted!Adopted
<1>5. StageInv' /\ CutoverInv'
  BY <1>1, <1>2, <1>4 DEF StageInv, CutoverInv, OursIsPrior, AdoptForward, AdoptUndo
<1>6. ForwardInv' /\ UndoInv'
  BY <1>1, <1>2, <1>4 DEF ForwardInv, UndoInv, AdoptForward, AdoptUndo
<1>7. Adopted!AdoptionIsAllOrNothing'
  <2>1. adoptPc' = "failed" /\ ~kept' => TheirsIsPrior'
    <3>1. Adopted!TypeOK' /\ prior' = prior
      BY <1>1
    <3> QED
      BY <1>1, <1>2, <3>1 DEF TheirsIsPrior, Adopted!TypeOK, Adopted!Finds
  <2> QED
    BY <1>1, <1>2, <1>4, <2>1, FoundWillBe DEF Adopted!AdoptionIsAllOrNothing, OursIsPrior
<1> QED
  BY <1>3, <1>5, <1>6, <1>7 DEF AdoptInv

LEMMA AdoptReloadForeignStep ==
  ASSUME AdoptInv, Adopted!TypeOK', Adopted!ReloadForeign
  PROVE  AdoptInv'
<1>1. /\ adoptPc = "f_reload"
      /\ UNCHANGED <<attempt, entry, config, root, keys, refs, def, loaded, run, prior>>
      /\ \/ /\ adoptPc' = "capture" /\ job' = [job EXCEPT !.undo = TRUE]
            /\ UNCHANGED <<foreignDef, foreignRun, kept>>
         \/ /\ adoptPc' = "failed" /\ job' = job
            /\ kept' \/ (foreignDef' /\ foreignRun' = job.active /\ kept' = kept)
  BY DEF Adopted!ReloadForeign, Adopted!PutBack, Adopted!Goto, Adopted!Keeps, Adopted!proxy,
         Adopted!unit, Adopted!foreign
<1>2. /\ job.began /\ job.harden /\ ~job.undo /\ ~job.installed /\ OursIsPrior
      /\ prior.foreignDef /\ ~foreignDef /\ ~foreignRun /\ prior.foreignRun = job.active
      /\ entry = Adopted!Adopted /\ job \in Adopted!Jobs
  BY <1>1 DEF AdoptInv, StageInv, CutoverInv, ForwardInv, Adopted!TypeOK
<1>3. /\ job'.began /\ job'.harden /\ ~job'.installed /\ job'.active = job.active
      /\ job'.unread = job.unread /\ (adoptPc' = "capture" => job'.undo)
  BY <1>1, <1>2 DEF Adopted!Jobs
<1>4. OursIsPrior' /\ (Adopted!Adopted)' = Adopted!Adopted
  BY <1>1, <1>2 DEF OursIsPrior, Adopted!Adopted
<1>5. DiskInv' /\ PriorInv'
  BY <1>1, <1>2, <1>3 DEF AdoptInv, DiskInv, PriorInv
<1>6. StageInv' /\ CutoverInv'
  BY <1>1, <1>2, <1>3, <1>4 DEF StageInv, CutoverInv, OursIsPrior, AdoptForward, AdoptUndo
<1>7. ForwardInv' /\ UndoInv'
  BY <1>1, <1>2, <1>3, <1>4 DEF ForwardInv, UndoInv, AdoptForward, AdoptUndo
<1>8. Adopted!AdoptionIsAllOrNothing'
  <2>1. adoptPc' = "failed" /\ ~kept' => TheirsIsPrior'
    BY <1>1, <1>2 DEF TheirsIsPrior, Adopted!TypeOK, Adopted!Finds
  <2> QED
    BY <1>1, <1>2, <1>3, <1>4, <2>1, FoundWillBe DEF Adopted!AdoptionIsAllOrNothing, OursIsPrior
<1> QED
  BY <1>5, <1>6, <1>7, <1>8 DEF AdoptInv

LEMMA AdoptCaptureStep ==
  ASSUME AdoptInv, Adopted!TypeOK', Adopted!Capture
  PROVE  AdoptInv'
<1>0. Adopted!TypeOK
  BY DEF AdoptInv
<1>a. /\ adoptPc' = "mkdir" /\ job'.began /\ job'.active = job.active
      /\ job'.harden = job.harden /\ job'.undo = job.undo /\ job'.installed = job.installed
      /\ (~kept' => ~kept /\ job'.unread = job.unread)
  BY <1>0, ReadsGives DEF Adopted!Capture, Adopted!TypeOK
<1>1. DiskInv'
  BY <1>a, <1>0, ForwardSteps, UndoSteps, AdoptPCsAre DEF AdoptInv, DiskInv, PriorInv, StageInv,
      CutoverInv, ForwardInv, UndoInv, Adopted!Adopted, Adopted!Hardened, Adopted!Capture
<1>2. PriorInv'
  BY <1>a, <1>0, ForwardSteps, UndoSteps, AdoptPCsAre DEF AdoptInv, DiskInv, PriorInv,
      OursIsPrior, Adopted!Adopted, Adopted!Hardened, Adopted!Capture
<1>3. StageInv'
  BY <1>a, <1>0, ForwardSteps, UndoSteps, AdoptPCsAre DEF AdoptInv, StageInv, CutoverInv,
      OursIsPrior, TheirsIsPrior, Adopted!Adopted, Adopted!Hardened, Adopted!Capture
<1>4. CutoverInv'
  BY <1>a, <1>0, ForwardSteps, UndoSteps, AdoptPCsAre DEF AdoptInv, StageInv, CutoverInv,
      OursIsPrior, TheirsIsPrior, Adopted!Adopted, Adopted!Hardened, Adopted!Capture
<1>5. ForwardInv'
  BY <1>a, <1>0, ForwardSteps, UndoSteps, AdoptPCsAre DEF AdoptInv, ForwardInv, Adopted!Adopted,
      Adopted!Hardened, Adopted!Capture
<1>6. UndoInv'
  BY <1>a, <1>0, ForwardSteps, UndoSteps, AdoptPCsAre DEF AdoptInv, DiskInv, PriorInv, StageInv,
      CutoverInv, ForwardInv, UndoInv, OursIsPrior, TheirsIsPrior, Adopted!Adopted,
      Adopted!Hardened, Adopted!Capture
<1>7. Adopted!AdoptionIsAllOrNothing'
  BY <1>a, <1>0, <1>1, ForwardSteps, UndoSteps, AdoptPCsAre, FoundWillBe DEF AdoptInv,
      Adopted!AdoptionIsAllOrNothing, Adopted!IsHardened, DiskInv, PriorInv, StageInv, CutoverInv,
      ForwardInv, UndoInv, OursIsPrior, TheirsIsPrior, Adopted!Adopted, Adopted!Hardened,
      Adopted!Capture
<1> QED
  BY <1>1, <1>2, <1>3, <1>4, <1>5, <1>6, <1>7 DEF AdoptInv

LEMMA AdoptMakeDirectoryStep ==
  ASSUME AdoptInv, Adopted!TypeOK', Adopted!MakeDirectory
  PROVE  AdoptInv'
<1>0. Adopted!TypeOK
  BY DEF AdoptInv
<1>1. DiskInv'
  BY <1>0, ForwardSteps, UndoSteps, AdoptPCsAre DEF AdoptInv, DiskInv, PriorInv, StageInv,
      CutoverInv, ForwardInv, UndoInv, Adopted!Adopted, Adopted!Hardened, Adopted!MakeDirectory
<1>2. PriorInv'
  BY <1>0, ForwardSteps, UndoSteps, AdoptPCsAre DEF AdoptInv, DiskInv, PriorInv, OursIsPrior,
      Adopted!Adopted, Adopted!Hardened, Adopted!MakeDirectory
<1>3. StageInv'
  BY <1>0, ForwardSteps, UndoSteps, AdoptPCsAre DEF AdoptInv, StageInv, CutoverInv, OursIsPrior,
      TheirsIsPrior, Adopted!Adopted, Adopted!Hardened, Adopted!MakeDirectory
<1>4. CutoverInv'
  BY <1>0, ForwardSteps, UndoSteps, AdoptPCsAre DEF AdoptInv, StageInv, CutoverInv, OursIsPrior,
      TheirsIsPrior, Adopted!Adopted, Adopted!Hardened, Adopted!MakeDirectory
<1>5. ForwardInv'
  BY <1>0, ForwardSteps, UndoSteps, AdoptPCsAre DEF AdoptInv, ForwardInv, Adopted!Adopted,
      Adopted!Hardened, Adopted!MakeDirectory
<1>6. UndoInv'
  BY <1>0, ForwardSteps, UndoSteps, AdoptPCsAre DEF AdoptInv, DiskInv, PriorInv, StageInv,
      CutoverInv, ForwardInv, UndoInv, OursIsPrior, TheirsIsPrior, Adopted!Adopted,
      Adopted!Hardened, Adopted!MakeDirectory
<1>7. Adopted!AdoptionIsAllOrNothing'
  BY <1>0, <1>1, ForwardSteps, UndoSteps, AdoptPCsAre, FoundWillBe DEF AdoptInv,
      Adopted!AdoptionIsAllOrNothing, Adopted!IsHardened, DiskInv, PriorInv, StageInv, CutoverInv,
      ForwardInv, UndoInv, OursIsPrior, TheirsIsPrior, Adopted!Adopted, Adopted!Hardened,
      Adopted!MakeDirectory
<1> QED
  BY <1>1, <1>2, <1>3, <1>4, <1>5, <1>6, <1>7 DEF AdoptInv

LEMMA AdoptApplyPlanStep ==
  ASSUME AdoptInv, Adopted!TypeOK', Adopted!ApplyPlan
  PROVE  AdoptInv'
<1>0. Adopted!TypeOK
  BY DEF AdoptInv
<1>1. DiskInv'
  BY <1>0, ForwardSteps, UndoSteps, AdoptPCsAre DEF AdoptInv, DiskInv, PriorInv, StageInv,
      CutoverInv, ForwardInv, UndoInv, Adopted!Adopted, Adopted!Hardened, Adopted!ApplyPlan
<1>2. PriorInv'
  BY <1>0, ForwardSteps, UndoSteps, AdoptPCsAre DEF AdoptInv, DiskInv, PriorInv, OursIsPrior,
      Adopted!Adopted, Adopted!Hardened, Adopted!ApplyPlan
<1>3. StageInv'
  BY <1>0, ForwardSteps, UndoSteps, AdoptPCsAre DEF AdoptInv, StageInv, CutoverInv, OursIsPrior,
      TheirsIsPrior, Adopted!Adopted, Adopted!Hardened, Adopted!ApplyPlan
<1>4. CutoverInv'
  BY <1>0, ForwardSteps, UndoSteps, AdoptPCsAre DEF AdoptInv, StageInv, CutoverInv, OursIsPrior,
      TheirsIsPrior, Adopted!Adopted, Adopted!Hardened, Adopted!ApplyPlan
<1>5. ForwardInv'
  BY <1>0, ForwardSteps, UndoSteps, AdoptPCsAre DEF AdoptInv, ForwardInv, Adopted!Adopted,
      Adopted!Hardened, Adopted!ApplyPlan
<1>6. UndoInv'
  BY <1>0, ForwardSteps, UndoSteps, AdoptPCsAre DEF AdoptInv, DiskInv, PriorInv, StageInv,
      CutoverInv, ForwardInv, UndoInv, OursIsPrior, TheirsIsPrior, Adopted!Adopted,
      Adopted!Hardened, Adopted!ApplyPlan
<1>7. Adopted!AdoptionIsAllOrNothing'
  BY <1>0, <1>1, ForwardSteps, UndoSteps, AdoptPCsAre, FoundWillBe DEF AdoptInv,
      Adopted!AdoptionIsAllOrNothing, Adopted!IsHardened, DiskInv, PriorInv, StageInv, CutoverInv,
      ForwardInv, UndoInv, OursIsPrior, TheirsIsPrior, Adopted!Adopted, Adopted!Hardened,
      Adopted!ApplyPlan
<1> QED
  BY <1>1, <1>2, <1>3, <1>4, <1>5, <1>6, <1>7 DEF AdoptInv

LEMMA AdoptWriteKeyStep ==
  ASSUME AdoptInv, Adopted!TypeOK', Adopted!WriteKey
  PROVE  AdoptInv'
<1>0. Adopted!TypeOK
  BY DEF AdoptInv
<1>a. /\ adoptPc = "sidecar" => keys'["management"] = keys["management"]
      /\ adoptPc = "management" => keys'["sidecar"] = keys["sidecar"]
      /\ adoptPc' # "u_stop" => keys'[adoptPc] = attempt
      /\ adoptPc \in {"sidecar", "management"}
  BY <1>0 DEF Adopted!WriteKey, Adopted!TypeOK, Adopted!Found, Adopted!Finds, Adopted!KeyFiles
<1>b. UNCHANGED <<attempt, entry, config, root, refs, def, loaded, run, foreignDef, foreignRun, job, prior, kept>>
      /\ adoptPc' = IF adoptPc' = "u_stop" THEN "u_stop" ELSE Adopted!After(Adopted!Forward, adoptPc)
  BY DEF Adopted!WriteKey
<1>1. DiskInv'
  BY <1>a, <1>b, <1>0, ForwardSteps, UndoSteps, AdoptPCsAre DEF AdoptInv, DiskInv, PriorInv,
      StageInv, CutoverInv, ForwardInv, UndoInv, Adopted!Adopted, Adopted!Hardened
<1>2. PriorInv'
  BY <1>a, <1>b, <1>0, ForwardSteps, UndoSteps, AdoptPCsAre DEF AdoptInv, DiskInv, PriorInv,
      OursIsPrior, Adopted!Adopted, Adopted!Hardened
<1>3. StageInv'
  BY <1>a, <1>b, <1>0, ForwardSteps, UndoSteps, AdoptPCsAre DEF AdoptInv, StageInv, CutoverInv,
      OursIsPrior, TheirsIsPrior, Adopted!Adopted, Adopted!Hardened
<1>4. CutoverInv'
  BY <1>a, <1>b, <1>0, ForwardSteps, UndoSteps, AdoptPCsAre DEF AdoptInv, StageInv, CutoverInv,
      OursIsPrior, TheirsIsPrior, Adopted!Adopted, Adopted!Hardened
<1>5. ForwardInv'
  BY <1>a, <1>b, <1>0, ForwardSteps, UndoSteps, AdoptPCsAre DEF AdoptInv, ForwardInv,
      Adopted!Adopted, Adopted!Hardened
<1>6. UndoInv'
  BY <1>a, <1>b, <1>0, ForwardSteps, UndoSteps, AdoptPCsAre DEF AdoptInv, DiskInv, PriorInv,
      StageInv, CutoverInv, ForwardInv, UndoInv, OursIsPrior, TheirsIsPrior, Adopted!Adopted,
      Adopted!Hardened
<1>7. Adopted!AdoptionIsAllOrNothing'
  BY <1>a, <1>b, <1>0, <1>1, ForwardSteps, UndoSteps, AdoptPCsAre, FoundWillBe DEF AdoptInv,
      Adopted!AdoptionIsAllOrNothing, Adopted!IsHardened, DiskInv, PriorInv, StageInv, CutoverInv,
      ForwardInv, UndoInv, OursIsPrior, TheirsIsPrior, Adopted!Adopted, Adopted!Hardened
<1> QED
  BY <1>1, <1>2, <1>3, <1>4, <1>5, <1>6, <1>7 DEF AdoptInv

LEMMA AdoptSaveInstallationStep ==
  ASSUME AdoptInv, Adopted!TypeOK', Adopted!SaveInstallation
  PROVE  AdoptInv'
<1>0. Adopted!TypeOK
  BY DEF AdoptInv
<1>1. DiskInv'
  BY <1>0, ForwardSteps, UndoSteps, AdoptPCsAre DEF AdoptInv, DiskInv, PriorInv, StageInv,
      CutoverInv, ForwardInv, UndoInv, Adopted!Adopted, Adopted!Hardened, Adopted!SaveInstallation
<1>2. PriorInv'
  BY <1>0, ForwardSteps, UndoSteps, AdoptPCsAre DEF AdoptInv, DiskInv, PriorInv, OursIsPrior,
      Adopted!Adopted, Adopted!Hardened, Adopted!SaveInstallation
<1>3. StageInv'
  BY <1>0, ForwardSteps, UndoSteps, AdoptPCsAre DEF AdoptInv, StageInv, CutoverInv, OursIsPrior,
      TheirsIsPrior, Adopted!Adopted, Adopted!Hardened, Adopted!SaveInstallation
<1>4. CutoverInv'
  BY <1>0, ForwardSteps, UndoSteps, AdoptPCsAre DEF AdoptInv, StageInv, CutoverInv, OursIsPrior,
      TheirsIsPrior, Adopted!Adopted, Adopted!Hardened, Adopted!SaveInstallation
<1>5. ForwardInv'
  BY <1>0, ForwardSteps, UndoSteps, AdoptPCsAre DEF AdoptInv, ForwardInv, Adopted!Adopted,
      Adopted!Hardened, Adopted!SaveInstallation
<1>6. UndoInv'
  BY <1>0, ForwardSteps, UndoSteps, AdoptPCsAre DEF AdoptInv, DiskInv, PriorInv, StageInv,
      CutoverInv, ForwardInv, UndoInv, OursIsPrior, TheirsIsPrior, Adopted!Adopted,
      Adopted!Hardened, Adopted!SaveInstallation
<1>7. Adopted!AdoptionIsAllOrNothing'
  BY <1>0, <1>1, ForwardSteps, UndoSteps, AdoptPCsAre, FoundWillBe DEF AdoptInv,
      Adopted!AdoptionIsAllOrNothing, Adopted!IsHardened, DiskInv, PriorInv, StageInv, CutoverInv,
      ForwardInv, UndoInv, OursIsPrior, TheirsIsPrior, Adopted!Adopted, Adopted!Hardened,
      Adopted!SaveInstallation
<1> QED
  BY <1>1, <1>2, <1>3, <1>4, <1>5, <1>6, <1>7 DEF AdoptInv

LEMMA AdoptSaveReferencesStep ==
  ASSUME AdoptInv, Adopted!TypeOK', Adopted!SaveReferences
  PROVE  AdoptInv'
<1>0. Adopted!TypeOK
  BY DEF AdoptInv
<1>1. DiskInv'
  BY <1>0, ForwardSteps, UndoSteps, AdoptPCsAre DEF AdoptInv, DiskInv, PriorInv, StageInv,
      CutoverInv, ForwardInv, UndoInv, Adopted!Adopted, Adopted!Hardened, Adopted!SaveReferences
<1>2. PriorInv'
  BY <1>0, ForwardSteps, UndoSteps, AdoptPCsAre DEF AdoptInv, DiskInv, PriorInv, OursIsPrior,
      Adopted!Adopted, Adopted!Hardened, Adopted!SaveReferences
<1>3. StageInv'
  BY <1>0, ForwardSteps, UndoSteps, AdoptPCsAre DEF AdoptInv, StageInv, CutoverInv, OursIsPrior,
      TheirsIsPrior, Adopted!Adopted, Adopted!Hardened, Adopted!SaveReferences
<1>4. CutoverInv'
  BY <1>0, ForwardSteps, UndoSteps, AdoptPCsAre DEF AdoptInv, StageInv, CutoverInv, OursIsPrior,
      TheirsIsPrior, Adopted!Adopted, Adopted!Hardened, Adopted!SaveReferences
<1>5. ForwardInv'
  BY <1>0, ForwardSteps, UndoSteps, AdoptPCsAre DEF AdoptInv, ForwardInv, Adopted!Adopted,
      Adopted!Hardened, Adopted!SaveReferences
<1>6. UndoInv'
  BY <1>0, ForwardSteps, UndoSteps, AdoptPCsAre DEF AdoptInv, DiskInv, PriorInv, StageInv,
      CutoverInv, ForwardInv, UndoInv, OursIsPrior, TheirsIsPrior, Adopted!Adopted,
      Adopted!Hardened, Adopted!SaveReferences
<1>7. Adopted!AdoptionIsAllOrNothing'
  BY <1>0, <1>1, ForwardSteps, UndoSteps, AdoptPCsAre, FoundWillBe DEF AdoptInv,
      Adopted!AdoptionIsAllOrNothing, Adopted!IsHardened, DiskInv, PriorInv, StageInv, CutoverInv,
      ForwardInv, UndoInv, OursIsPrior, TheirsIsPrior, Adopted!Adopted, Adopted!Hardened,
      Adopted!SaveReferences
<1> QED
  BY <1>1, <1>2, <1>3, <1>4, <1>5, <1>6, <1>7 DEF AdoptInv

LEMMA AdoptInstallUnitStep ==
  ASSUME AdoptInv, Adopted!TypeOK', Adopted!InstallUnit
  PROVE  AdoptInv'
<1>0. Adopted!TypeOK
  BY DEF AdoptInv
<1>a. /\ job'.began = job.began /\ job'.harden = job.harden /\ job'.active = job.active
      /\ job'.undo = job.undo /\ job'.unread = job.unread
      /\ job'.installed \in {job.installed, prior.def = None}
  BY <1>0 DEF Adopted!InstallUnit, Adopted!TypeOK, Adopted!Jobs
<1>b. attempt # None
  BY <1>0 DEF Adopted!TypeOK, Adopted!Attempts
<1>1. DiskInv'
  BY <1>a, <1>b, <1>0, ForwardSteps, UndoSteps, AdoptPCsAre DEF AdoptInv, DiskInv, PriorInv,
      StageInv, CutoverInv, ForwardInv, UndoInv, Adopted!Adopted, Adopted!Hardened,
      Adopted!InstallUnit
<1>2. PriorInv'
  BY <1>a, <1>b, <1>0, ForwardSteps, UndoSteps, AdoptPCsAre DEF AdoptInv, DiskInv, PriorInv,
      OursIsPrior, Adopted!Adopted, Adopted!Hardened, Adopted!InstallUnit
<1>3. StageInv'
  BY <1>a, <1>b, <1>0, ForwardSteps, UndoSteps, AdoptPCsAre DEF AdoptInv, StageInv, CutoverInv,
      OursIsPrior, TheirsIsPrior, Adopted!Adopted, Adopted!Hardened, Adopted!InstallUnit
<1>4. CutoverInv'
  BY <1>a, <1>b, <1>0, ForwardSteps, UndoSteps, AdoptPCsAre DEF AdoptInv, StageInv, CutoverInv,
      OursIsPrior, TheirsIsPrior, Adopted!Adopted, Adopted!Hardened, Adopted!InstallUnit
<1>5. ForwardInv'
  BY <1>a, <1>b, <1>0, ForwardSteps, UndoSteps, AdoptPCsAre DEF AdoptInv, ForwardInv,
      Adopted!Adopted, Adopted!Hardened, Adopted!InstallUnit
<1>6. UndoInv'
  BY <1>a, <1>b, <1>0, ForwardSteps, UndoSteps, AdoptPCsAre DEF AdoptInv, DiskInv, PriorInv,
      StageInv, CutoverInv, ForwardInv, UndoInv, OursIsPrior, TheirsIsPrior, Adopted!Adopted,
      Adopted!Hardened, Adopted!InstallUnit
<1>7. Adopted!AdoptionIsAllOrNothing'
  BY <1>a, <1>b, <1>0, <1>1, ForwardSteps, UndoSteps, AdoptPCsAre, FoundWillBe DEF AdoptInv,
      Adopted!AdoptionIsAllOrNothing, Adopted!IsHardened, DiskInv, PriorInv, StageInv, CutoverInv,
      ForwardInv, UndoInv, OursIsPrior, TheirsIsPrior, Adopted!Adopted, Adopted!Hardened,
      Adopted!InstallUnit
<1> QED
  BY <1>1, <1>2, <1>3, <1>4, <1>5, <1>6, <1>7 DEF AdoptInv

LEMMA AdoptRestartUnitStep ==
  ASSUME AdoptInv, Adopted!TypeOK', Adopted!RestartUnit
  PROVE  AdoptInv'
<1>0. Adopted!TypeOK
  BY DEF AdoptInv
<1>1. DiskInv'
  BY <1>0, ForwardSteps, UndoSteps, AdoptPCsAre DEF AdoptInv, DiskInv, PriorInv, StageInv,
      CutoverInv, ForwardInv, UndoInv, Adopted!Adopted, Adopted!Hardened, Adopted!RestartUnit,
      Adopted!RunsAs
<1>2. PriorInv'
  BY <1>0, ForwardSteps, UndoSteps, AdoptPCsAre DEF AdoptInv, DiskInv, PriorInv, OursIsPrior,
      Adopted!Adopted, Adopted!Hardened, Adopted!RestartUnit, Adopted!RunsAs
<1>3. StageInv'
  BY <1>0, ForwardSteps, UndoSteps, AdoptPCsAre DEF AdoptInv, StageInv, CutoverInv, OursIsPrior,
      TheirsIsPrior, Adopted!Adopted, Adopted!Hardened, Adopted!RestartUnit, Adopted!RunsAs
<1>4. CutoverInv'
  BY <1>0, ForwardSteps, UndoSteps, AdoptPCsAre DEF AdoptInv, StageInv, CutoverInv, OursIsPrior,
      TheirsIsPrior, Adopted!Adopted, Adopted!Hardened, Adopted!RestartUnit, Adopted!RunsAs
<1>5. ForwardInv'
  BY <1>0, ForwardSteps, UndoSteps, AdoptPCsAre DEF AdoptInv, ForwardInv, Adopted!Adopted,
      Adopted!Hardened, Adopted!RestartUnit, Adopted!RunsAs
<1>6. UndoInv'
  BY <1>0, ForwardSteps, UndoSteps, AdoptPCsAre DEF AdoptInv, DiskInv, PriorInv, StageInv,
      CutoverInv, ForwardInv, UndoInv, OursIsPrior, TheirsIsPrior, Adopted!Adopted,
      Adopted!Hardened, Adopted!RestartUnit, Adopted!RunsAs
<1>7. Adopted!AdoptionIsAllOrNothing'
  BY <1>0, <1>1, ForwardSteps, UndoSteps, AdoptPCsAre, FoundWillBe DEF AdoptInv,
      Adopted!AdoptionIsAllOrNothing, Adopted!IsHardened, DiskInv, PriorInv, StageInv, CutoverInv,
      ForwardInv, UndoInv, OursIsPrior, TheirsIsPrior, Adopted!Adopted, Adopted!Hardened,
      Adopted!RestartUnit, Adopted!RunsAs
<1> QED
  BY <1>1, <1>2, <1>3, <1>4, <1>5, <1>6, <1>7 DEF AdoptInv

LEMMA AdoptCheckStep ==
  ASSUME AdoptInv, Adopted!TypeOK', Adopted!Check
  PROVE  AdoptInv'
<1>0. Adopted!TypeOK
  BY DEF AdoptInv
<1>a. adoptPc = "verify" => keys = [f \in Adopted!KeyFiles |-> attempt]
  BY <1>0 DEF AdoptInv, ForwardInv, Adopted!TypeOK, Adopted!Found, Adopted!Finds, Adopted!KeyFiles
<1>b. adoptPc = "verify" /\ ~kept => ~foreignRun
  BY DEF AdoptInv, DiskInv, CutoverInv
<1>1. DiskInv'
  BY <1>a, <1>b, <1>0, ForwardSteps, UndoSteps, AdoptPCsAre DEF AdoptInv, DiskInv, PriorInv,
      StageInv, CutoverInv, ForwardInv, UndoInv, Adopted!Adopted, Adopted!Hardened, Adopted!Check
<1>2. PriorInv'
  BY <1>a, <1>b, <1>0, ForwardSteps, UndoSteps, AdoptPCsAre DEF AdoptInv, DiskInv, PriorInv,
      OursIsPrior, Adopted!Adopted, Adopted!Hardened, Adopted!Check
<1>3. StageInv'
  BY <1>a, <1>b, <1>0, ForwardSteps, UndoSteps, AdoptPCsAre DEF AdoptInv, StageInv, CutoverInv,
      OursIsPrior, TheirsIsPrior, Adopted!Adopted, Adopted!Hardened, Adopted!Check
<1>4. CutoverInv'
  BY <1>a, <1>b, <1>0, ForwardSteps, UndoSteps, AdoptPCsAre DEF AdoptInv, StageInv, CutoverInv,
      OursIsPrior, TheirsIsPrior, Adopted!Adopted, Adopted!Hardened, Adopted!Check
<1>5. ForwardInv'
  BY <1>a, <1>b, <1>0, ForwardSteps, UndoSteps, AdoptPCsAre DEF AdoptInv, ForwardInv,
      Adopted!Adopted, Adopted!Hardened, Adopted!Check
<1>6. UndoInv'
  BY <1>a, <1>b, <1>0, ForwardSteps, UndoSteps, AdoptPCsAre DEF AdoptInv, DiskInv, PriorInv,
      StageInv, CutoverInv, ForwardInv, UndoInv, OursIsPrior, TheirsIsPrior, Adopted!Adopted,
      Adopted!Hardened, Adopted!Check
<1>7. Adopted!AdoptionIsAllOrNothing'
  BY <1>a, <1>b, <1>0, <1>1, ForwardSteps, UndoSteps, AdoptPCsAre, FoundWillBe DEF AdoptInv,
      Adopted!AdoptionIsAllOrNothing, Adopted!IsHardened, DiskInv, PriorInv, StageInv, CutoverInv,
      ForwardInv, UndoInv, OursIsPrior, TheirsIsPrior, Adopted!Adopted, Adopted!Hardened,
      Adopted!Check
<1> QED
  BY <1>1, <1>2, <1>3, <1>4, <1>5, <1>6, <1>7 DEF AdoptInv

LEMMA AdoptUndoRunStep ==
  ASSUME AdoptInv, Adopted!TypeOK', Adopted!UndoRun
  PROVE  AdoptInv'
<1>0. Adopted!TypeOK
  BY DEF AdoptInv
<1>1. DiskInv'
  BY <1>0, ForwardSteps, UndoSteps, AdoptPCsAre DEF AdoptInv, DiskInv, PriorInv, StageInv,
      CutoverInv, ForwardInv, UndoInv, Adopted!Adopted, Adopted!Hardened, Adopted!UndoRun
<1>2. PriorInv'
  BY <1>0, ForwardSteps, UndoSteps, AdoptPCsAre DEF AdoptInv, DiskInv, PriorInv, OursIsPrior,
      Adopted!Adopted, Adopted!Hardened, Adopted!UndoRun
<1>3. StageInv'
  BY <1>0, ForwardSteps, UndoSteps, AdoptPCsAre DEF AdoptInv, StageInv, CutoverInv, OursIsPrior,
      TheirsIsPrior, Adopted!Adopted, Adopted!Hardened, Adopted!UndoRun
<1>4. CutoverInv'
  BY <1>0, ForwardSteps, UndoSteps, AdoptPCsAre DEF AdoptInv, StageInv, CutoverInv, OursIsPrior,
      TheirsIsPrior, Adopted!Adopted, Adopted!Hardened, Adopted!UndoRun
<1>5. ForwardInv'
  BY <1>0, ForwardSteps, UndoSteps, AdoptPCsAre DEF AdoptInv, ForwardInv, Adopted!Adopted,
      Adopted!Hardened, Adopted!UndoRun
<1>6. UndoInv'
  BY <1>0, ForwardSteps, UndoSteps, AdoptPCsAre DEF AdoptInv, DiskInv, PriorInv, StageInv,
      CutoverInv, ForwardInv, UndoInv, OursIsPrior, TheirsIsPrior, Adopted!Adopted,
      Adopted!Hardened, Adopted!UndoRun
<1>7. Adopted!AdoptionIsAllOrNothing'
  BY <1>0, <1>1, ForwardSteps, UndoSteps, AdoptPCsAre, FoundWillBe DEF AdoptInv,
      Adopted!AdoptionIsAllOrNothing, Adopted!IsHardened, DiskInv, PriorInv, StageInv, CutoverInv,
      ForwardInv, UndoInv, OursIsPrior, TheirsIsPrior, Adopted!Adopted, Adopted!Hardened,
      Adopted!UndoRun
<1> QED
  BY <1>1, <1>2, <1>3, <1>4, <1>5, <1>6, <1>7 DEF AdoptInv

LEMMA AdoptUndoInstallStep ==
  ASSUME AdoptInv, Adopted!TypeOK', Adopted!UndoInstall
  PROVE  AdoptInv'
<1>0. Adopted!TypeOK
  BY DEF AdoptInv
<1>1. DiskInv'
  BY <1>0, ForwardSteps, UndoSteps, AdoptPCsAre DEF AdoptInv, DiskInv, PriorInv, StageInv,
      CutoverInv, ForwardInv, UndoInv, Adopted!Adopted, Adopted!Hardened, Adopted!UndoInstall
<1>2. PriorInv'
  BY <1>0, ForwardSteps, UndoSteps, AdoptPCsAre DEF AdoptInv, DiskInv, PriorInv, OursIsPrior,
      Adopted!Adopted, Adopted!Hardened, Adopted!UndoInstall
<1>3. StageInv'
  BY <1>0, ForwardSteps, UndoSteps, AdoptPCsAre DEF AdoptInv, StageInv, CutoverInv, OursIsPrior,
      TheirsIsPrior, Adopted!Adopted, Adopted!Hardened, Adopted!UndoInstall
<1>4. CutoverInv'
  BY <1>0, ForwardSteps, UndoSteps, AdoptPCsAre DEF AdoptInv, StageInv, CutoverInv, OursIsPrior,
      TheirsIsPrior, Adopted!Adopted, Adopted!Hardened, Adopted!UndoInstall
<1>5. ForwardInv'
  BY <1>0, ForwardSteps, UndoSteps, AdoptPCsAre DEF AdoptInv, ForwardInv, Adopted!Adopted,
      Adopted!Hardened, Adopted!UndoInstall
<1>6. UndoInv'
  BY <1>0, ForwardSteps, UndoSteps, AdoptPCsAre DEF AdoptInv, DiskInv, PriorInv, StageInv,
      CutoverInv, ForwardInv, UndoInv, OursIsPrior, TheirsIsPrior, Adopted!Adopted,
      Adopted!Hardened, Adopted!UndoInstall
<1>7. Adopted!AdoptionIsAllOrNothing'
  BY <1>0, <1>1, ForwardSteps, UndoSteps, AdoptPCsAre, FoundWillBe DEF AdoptInv,
      Adopted!AdoptionIsAllOrNothing, Adopted!IsHardened, DiskInv, PriorInv, StageInv, CutoverInv,
      ForwardInv, UndoInv, OursIsPrior, TheirsIsPrior, Adopted!Adopted, Adopted!Hardened,
      Adopted!UndoInstall
<1> QED
  BY <1>1, <1>2, <1>3, <1>4, <1>5, <1>6, <1>7 DEF AdoptInv

LEMMA AdoptUndoDefinitionStep ==
  ASSUME AdoptInv, Adopted!TypeOK', Adopted!UndoDefinition
  PROVE  AdoptInv'
<1>0. Adopted!TypeOK
  BY DEF AdoptInv
<1>a. ~kept' => ~kept /\ def' = prior.def
  BY DEF Adopted!UndoDefinition, Adopted!Original, AdoptInv, DiskInv
<1>1. DiskInv'
  BY <1>a, <1>0, ForwardSteps, UndoSteps, AdoptPCsAre DEF AdoptInv, DiskInv, PriorInv, StageInv,
      CutoverInv, ForwardInv, UndoInv, Adopted!Adopted, Adopted!Hardened, Adopted!UndoDefinition
<1>2. PriorInv'
  BY <1>a, <1>0, ForwardSteps, UndoSteps, AdoptPCsAre DEF AdoptInv, DiskInv, PriorInv,
      OursIsPrior, Adopted!Adopted, Adopted!Hardened, Adopted!UndoDefinition
<1>3. StageInv'
  BY <1>a, <1>0, ForwardSteps, UndoSteps, AdoptPCsAre DEF AdoptInv, StageInv, CutoverInv,
      OursIsPrior, TheirsIsPrior, Adopted!Adopted, Adopted!Hardened, Adopted!UndoDefinition
<1>4. CutoverInv'
  BY <1>a, <1>0, ForwardSteps, UndoSteps, AdoptPCsAre DEF AdoptInv, StageInv, CutoverInv,
      OursIsPrior, TheirsIsPrior, Adopted!Adopted, Adopted!Hardened, Adopted!UndoDefinition
<1>5. ForwardInv'
  BY <1>a, <1>0, ForwardSteps, UndoSteps, AdoptPCsAre DEF AdoptInv, ForwardInv, Adopted!Adopted,
      Adopted!Hardened, Adopted!UndoDefinition
<1>6. UndoInv'
  BY <1>a, <1>0, ForwardSteps, UndoSteps, AdoptPCsAre DEF AdoptInv, DiskInv, PriorInv, StageInv,
      CutoverInv, ForwardInv, UndoInv, OursIsPrior, TheirsIsPrior, Adopted!Adopted,
      Adopted!Hardened, Adopted!UndoDefinition
<1>7. Adopted!AdoptionIsAllOrNothing'
  BY <1>a, <1>0, <1>1, ForwardSteps, UndoSteps, AdoptPCsAre, FoundWillBe DEF AdoptInv,
      Adopted!AdoptionIsAllOrNothing, Adopted!IsHardened, DiskInv, PriorInv, StageInv, CutoverInv,
      ForwardInv, UndoInv, OursIsPrior, TheirsIsPrior, Adopted!Adopted, Adopted!Hardened,
      Adopted!UndoDefinition
<1> QED
  BY <1>1, <1>2, <1>3, <1>4, <1>5, <1>6, <1>7 DEF AdoptInv

LEMMA AdoptUndoConfigStep ==
  ASSUME AdoptInv, Adopted!TypeOK', Adopted!UndoConfig
  PROVE  AdoptInv'
<1>0. Adopted!TypeOK
  BY DEF AdoptInv
<1>1. DiskInv'
  BY <1>0, ForwardSteps, UndoSteps, AdoptPCsAre DEF AdoptInv, DiskInv, PriorInv, StageInv,
      CutoverInv, ForwardInv, UndoInv, Adopted!Adopted, Adopted!Hardened, Adopted!UndoConfig
<1>2. PriorInv'
  BY <1>0, ForwardSteps, UndoSteps, AdoptPCsAre DEF AdoptInv, DiskInv, PriorInv, OursIsPrior,
      Adopted!Adopted, Adopted!Hardened, Adopted!UndoConfig
<1>3. StageInv'
  BY <1>0, ForwardSteps, UndoSteps, AdoptPCsAre DEF AdoptInv, StageInv, CutoverInv, OursIsPrior,
      TheirsIsPrior, Adopted!Adopted, Adopted!Hardened, Adopted!UndoConfig
<1>4. CutoverInv'
  BY <1>0, ForwardSteps, UndoSteps, AdoptPCsAre DEF AdoptInv, StageInv, CutoverInv, OursIsPrior,
      TheirsIsPrior, Adopted!Adopted, Adopted!Hardened, Adopted!UndoConfig
<1>5. ForwardInv'
  BY <1>0, ForwardSteps, UndoSteps, AdoptPCsAre DEF AdoptInv, ForwardInv, Adopted!Adopted,
      Adopted!Hardened, Adopted!UndoConfig
<1>6. UndoInv'
  BY <1>0, ForwardSteps, UndoSteps, AdoptPCsAre DEF AdoptInv, DiskInv, PriorInv, StageInv,
      CutoverInv, ForwardInv, UndoInv, OursIsPrior, TheirsIsPrior, Adopted!Adopted,
      Adopted!Hardened, Adopted!UndoConfig
<1>7. Adopted!AdoptionIsAllOrNothing'
  BY <1>0, <1>1, ForwardSteps, UndoSteps, AdoptPCsAre, FoundWillBe DEF AdoptInv,
      Adopted!AdoptionIsAllOrNothing, Adopted!IsHardened, DiskInv, PriorInv, StageInv, CutoverInv,
      ForwardInv, UndoInv, OursIsPrior, TheirsIsPrior, Adopted!Adopted, Adopted!Hardened,
      Adopted!UndoConfig
<1> QED
  BY <1>1, <1>2, <1>3, <1>4, <1>5, <1>6, <1>7 DEF AdoptInv

LEMMA AdoptUndoKeysStep ==
  ASSUME AdoptInv, Adopted!TypeOK', Adopted!UndoKeys
  PROVE  AdoptInv'
<1>0. Adopted!TypeOK
  BY DEF AdoptInv
<1>a. keys \in [Adopted!KeyFiles -> Adopted!Written] /\ prior.keys \in [Adopted!KeyFiles -> Adopted!Written]
  BY <1>0 DEF Adopted!TypeOK, Adopted!Found, Adopted!Finds
<1>b. ~kept' => ~kept /\ keys' = prior.keys
  BY <1>a DEF Adopted!UndoKeys, Adopted!RestoreKeys, Adopted!RestoredKeys, Adopted!KeyFiles,
      Adopted!Original, AdoptInv, DiskInv
<1>c. keys'["sidecar"] \in {keys["sidecar"], None, prior.keys["sidecar"]}
  BY <1>a DEF Adopted!UndoKeys, Adopted!RestoreKeys, Adopted!KeyFiles, Adopted!Original
<1>d. ~kept' /\ ~root => keys'["sidecar"] = None
  BY <1>b DEF AdoptInv, PriorInv, StageInv, Adopted!UndoKeys
<1>e. UNCHANGED <<attempt, entry, config, root, refs, def, loaded, run, foreignDef, foreignRun, job, prior>>
      /\ adoptPc = "u_keys" /\ adoptPc' = "u_state"
  BY UndoSteps DEF Adopted!UndoKeys
<1>1. DiskInv'
  BY <1>a, <1>b, <1>c, <1>d, <1>e, <1>0, ForwardSteps, UndoSteps, AdoptPCsAre DEF AdoptInv,
      DiskInv, PriorInv, StageInv, CutoverInv, ForwardInv, UndoInv, Adopted!Adopted,
      Adopted!Hardened
<1>2. PriorInv'
  BY <1>a, <1>b, <1>c, <1>d, <1>e, <1>0, ForwardSteps, UndoSteps, AdoptPCsAre DEF AdoptInv,
      DiskInv, PriorInv, OursIsPrior, Adopted!Adopted, Adopted!Hardened
<1>3. StageInv'
  BY <1>a, <1>b, <1>c, <1>d, <1>e, <1>0, ForwardSteps, UndoSteps, AdoptPCsAre DEF AdoptInv,
      StageInv, CutoverInv, OursIsPrior, TheirsIsPrior, Adopted!Adopted, Adopted!Hardened
<1>4. CutoverInv'
  BY <1>a, <1>b, <1>c, <1>d, <1>e, <1>0, ForwardSteps, UndoSteps, AdoptPCsAre DEF AdoptInv,
      StageInv, CutoverInv, OursIsPrior, TheirsIsPrior, Adopted!Adopted, Adopted!Hardened
<1>5. ForwardInv'
  BY <1>a, <1>b, <1>c, <1>d, <1>e, <1>0, ForwardSteps, UndoSteps, AdoptPCsAre DEF AdoptInv,
      ForwardInv, Adopted!Adopted, Adopted!Hardened
<1>6. UndoInv'
  BY <1>a, <1>b, <1>c, <1>d, <1>e, <1>0, ForwardSteps, UndoSteps, AdoptPCsAre DEF AdoptInv,
      DiskInv, PriorInv, StageInv, CutoverInv, ForwardInv, UndoInv, OursIsPrior, TheirsIsPrior,
      Adopted!Adopted, Adopted!Hardened
<1>7. Adopted!AdoptionIsAllOrNothing'
  BY <1>a, <1>b, <1>c, <1>d, <1>e, <1>0, <1>1, ForwardSteps, UndoSteps, AdoptPCsAre, FoundWillBe
    DEF AdoptInv, Adopted!AdoptionIsAllOrNothing, Adopted!IsHardened, DiskInv, PriorInv, StageInv,
      CutoverInv, ForwardInv, UndoInv, OursIsPrior, TheirsIsPrior, Adopted!Adopted,
      Adopted!Hardened
<1> QED
  BY <1>1, <1>2, <1>3, <1>4, <1>5, <1>6, <1>7 DEF AdoptInv

LEMMA AdoptUndoStateStep ==
  ASSUME AdoptInv, Adopted!TypeOK', Adopted!UndoState
  PROVE  AdoptInv'
<1>0. Adopted!TypeOK
  BY DEF AdoptInv
<1>1. DiskInv'
  BY <1>0, ForwardSteps, UndoSteps, AdoptPCsAre DEF AdoptInv, DiskInv, PriorInv, StageInv,
      CutoverInv, ForwardInv, UndoInv, Adopted!Adopted, Adopted!Hardened, Adopted!UndoState
<1>2. PriorInv'
  BY <1>0, ForwardSteps, UndoSteps, AdoptPCsAre DEF AdoptInv, DiskInv, PriorInv, OursIsPrior,
      Adopted!Adopted, Adopted!Hardened, Adopted!UndoState
<1>3. StageInv'
  BY <1>0, ForwardSteps, UndoSteps, AdoptPCsAre DEF AdoptInv, StageInv, CutoverInv, OursIsPrior,
      TheirsIsPrior, Adopted!Adopted, Adopted!Hardened, Adopted!UndoState
<1>4. CutoverInv'
  BY <1>0, ForwardSteps, UndoSteps, AdoptPCsAre DEF AdoptInv, StageInv, CutoverInv, OursIsPrior,
      TheirsIsPrior, Adopted!Adopted, Adopted!Hardened, Adopted!UndoState
<1>5. ForwardInv'
  BY <1>0, ForwardSteps, UndoSteps, AdoptPCsAre DEF AdoptInv, ForwardInv, Adopted!Adopted,
      Adopted!Hardened, Adopted!UndoState
<1>6. UndoInv'
  BY <1>0, ForwardSteps, UndoSteps, AdoptPCsAre DEF AdoptInv, DiskInv, PriorInv, StageInv,
      CutoverInv, ForwardInv, UndoInv, OursIsPrior, TheirsIsPrior, Adopted!Adopted,
      Adopted!Hardened, Adopted!UndoState
<1>7. Adopted!AdoptionIsAllOrNothing'
  BY <1>0, <1>1, ForwardSteps, UndoSteps, AdoptPCsAre, FoundWillBe DEF AdoptInv,
      Adopted!AdoptionIsAllOrNothing, Adopted!IsHardened, DiskInv, PriorInv, StageInv, CutoverInv,
      ForwardInv, UndoInv, OursIsPrior, TheirsIsPrior, Adopted!Adopted, Adopted!Hardened,
      Adopted!UndoState
<1> QED
  BY <1>1, <1>2, <1>3, <1>4, <1>5, <1>6, <1>7 DEF AdoptInv

LEMMA AdoptUndoReferencesStep ==
  ASSUME AdoptInv, Adopted!TypeOK', Adopted!UndoReferences
  PROVE  AdoptInv'
<1>0. Adopted!TypeOK
  BY DEF AdoptInv
<1>1. DiskInv'
  BY <1>0, ForwardSteps, UndoSteps, AdoptPCsAre DEF AdoptInv, DiskInv, PriorInv, StageInv,
      CutoverInv, ForwardInv, UndoInv, Adopted!Adopted, Adopted!Hardened, Adopted!UndoReferences
<1>2. PriorInv'
  BY <1>0, ForwardSteps, UndoSteps, AdoptPCsAre DEF AdoptInv, DiskInv, PriorInv, OursIsPrior,
      Adopted!Adopted, Adopted!Hardened, Adopted!UndoReferences
<1>3. StageInv'
  BY <1>0, ForwardSteps, UndoSteps, AdoptPCsAre DEF AdoptInv, StageInv, CutoverInv, OursIsPrior,
      TheirsIsPrior, Adopted!Adopted, Adopted!Hardened, Adopted!UndoReferences
<1>4. CutoverInv'
  BY <1>0, ForwardSteps, UndoSteps, AdoptPCsAre DEF AdoptInv, StageInv, CutoverInv, OursIsPrior,
      TheirsIsPrior, Adopted!Adopted, Adopted!Hardened, Adopted!UndoReferences
<1>5. ForwardInv'
  BY <1>0, ForwardSteps, UndoSteps, AdoptPCsAre DEF AdoptInv, ForwardInv, Adopted!Adopted,
      Adopted!Hardened, Adopted!UndoReferences
<1>6. UndoInv'
  BY <1>0, ForwardSteps, UndoSteps, AdoptPCsAre DEF AdoptInv, DiskInv, PriorInv, StageInv,
      CutoverInv, ForwardInv, UndoInv, OursIsPrior, TheirsIsPrior, Adopted!Adopted,
      Adopted!Hardened, Adopted!UndoReferences
<1>7. Adopted!AdoptionIsAllOrNothing'
  BY <1>0, <1>1, ForwardSteps, UndoSteps, AdoptPCsAre, FoundWillBe DEF AdoptInv,
      Adopted!AdoptionIsAllOrNothing, Adopted!IsHardened, DiskInv, PriorInv, StageInv, CutoverInv,
      ForwardInv, UndoInv, OursIsPrior, TheirsIsPrior, Adopted!Adopted, Adopted!Hardened,
      Adopted!UndoReferences
<1> QED
  BY <1>1, <1>2, <1>3, <1>4, <1>5, <1>6, <1>7 DEF AdoptInv

LEMMA AdoptUndoRootStep ==
  ASSUME AdoptInv, Adopted!TypeOK', Adopted!UndoRoot
  PROVE  AdoptInv'
<1>0. Adopted!TypeOK
  BY DEF AdoptInv
<1>a. keys \in [Adopted!KeyFiles -> Adopted!Written] /\ prior.keys \in [Adopted!KeyFiles -> Adopted!Written]
  BY <1>0 DEF Adopted!TypeOK, Adopted!Found, Adopted!Finds
<1>b. ~kept' => ~kept /\ root' = prior.root /\ keys' = prior.keys
  <2>1. ~kept' => ~kept /\ keys = prior.keys
    BY DEF Adopted!UndoRoot, AdoptInv, UndoInv
  <2>2. CASE prior.root
    BY <2>1, <2>2 DEF Adopted!UndoRoot, AdoptInv, StageInv
  <2>3. CASE ~prior.root
    <3>1. ~kept' => root' = FALSE /\ prior.keys["sidecar"] = None
      BY <2>1, <2>3 DEF Adopted!UndoRoot, AdoptInv, PriorInv
    <3>2. ~kept' => keys' = [keys EXCEPT !["sidecar"] = None]
      BY <2>3, <3>1 DEF Adopted!UndoRoot
    <3>3. ~kept' => keys' = keys
      BY <1>a, <2>1, <3>1, <3>2 DEF Adopted!KeyFiles
    <3>4. ~kept' => root' = prior.root
      BY <1>0, <2>3, <3>1 DEF Adopted!TypeOK, Adopted!Finds
    <3> QED
      BY <2>1, <3>3, <3>4
  <2> QED
    BY <2>2, <2>3
<1>1. DiskInv'
  BY <1>a, <1>b, <1>0, ForwardSteps, UndoSteps, AdoptPCsAre DEF AdoptInv, DiskInv, PriorInv,
      StageInv, CutoverInv, ForwardInv, UndoInv, Adopted!Adopted, Adopted!Hardened,
      Adopted!UndoRoot, Adopted!KeyFiles
<1>2. PriorInv'
  BY <1>a, <1>b, <1>0, ForwardSteps, UndoSteps, AdoptPCsAre DEF AdoptInv, DiskInv, PriorInv,
      OursIsPrior, Adopted!Adopted, Adopted!Hardened, Adopted!UndoRoot, Adopted!KeyFiles
<1>3. StageInv'
  BY <1>a, <1>b, <1>0, ForwardSteps, UndoSteps, AdoptPCsAre DEF AdoptInv, StageInv, CutoverInv,
      OursIsPrior, TheirsIsPrior, Adopted!Adopted, Adopted!Hardened, Adopted!UndoRoot,
      Adopted!KeyFiles
<1>4. CutoverInv'
  BY <1>a, <1>b, <1>0, ForwardSteps, UndoSteps, AdoptPCsAre DEF AdoptInv, StageInv, CutoverInv,
      OursIsPrior, TheirsIsPrior, Adopted!Adopted, Adopted!Hardened, Adopted!UndoRoot,
      Adopted!KeyFiles
<1>5. ForwardInv'
  BY <1>a, <1>b, <1>0, ForwardSteps, UndoSteps, AdoptPCsAre DEF AdoptInv, ForwardInv,
      Adopted!Adopted, Adopted!Hardened, Adopted!UndoRoot, Adopted!KeyFiles
<1>6. UndoInv'
  BY <1>a, <1>b, <1>0, ForwardSteps, UndoSteps, AdoptPCsAre DEF AdoptInv, DiskInv, PriorInv,
      StageInv, CutoverInv, ForwardInv, UndoInv, OursIsPrior, TheirsIsPrior, Adopted!Adopted,
      Adopted!Hardened, Adopted!UndoRoot, Adopted!KeyFiles
<1>7. Adopted!AdoptionIsAllOrNothing'
  BY <1>a, <1>b, <1>0, <1>1, ForwardSteps, UndoSteps, AdoptPCsAre, FoundWillBe DEF AdoptInv,
      Adopted!AdoptionIsAllOrNothing, Adopted!IsHardened, DiskInv, PriorInv, StageInv, CutoverInv,
      ForwardInv, UndoInv, OursIsPrior, TheirsIsPrior, Adopted!Adopted, Adopted!Hardened,
      Adopted!UndoRoot, Adopted!KeyFiles
<1> QED
  BY <1>1, <1>2, <1>3, <1>4, <1>5, <1>6, <1>7 DEF AdoptInv

LEMMA AdoptUndoCutoverStep ==
  ASSUME AdoptInv, Adopted!TypeOK', Adopted!UndoCutover
  PROVE  AdoptInv'
<1>0. Adopted!TypeOK
  BY DEF AdoptInv
<1>a. prior.foreignDef \in BOOLEAN /\ prior.foreignRun \in BOOLEAN
  BY <1>0 DEF Adopted!TypeOK, Adopted!Finds
<1>b. ~kept' => TheirsIsPrior'
  <2>1. CASE job.undo
    <3>1. prior.foreignDef = TRUE /\ prior.foreignRun = job.active
      BY <1>a, <2>1 DEF Adopted!UndoCutover, AdoptInv, CutoverInv
    <3>2. ~kept' => foreignDef' = TRUE /\ foreignRun' = job.active
      BY <2>1 DEF Adopted!UndoCutover, Adopted!PutBack
    <3> QED
      BY <3>1, <3>2 DEF TheirsIsPrior, Adopted!UndoCutover
  <2>2. CASE ~job.undo
    <3>1. prior.foreignDef = FALSE /\ foreignDef = FALSE /\ foreignRun = prior.foreignRun
      BY <1>0, <1>a, <2>2 DEF Adopted!UndoCutover, AdoptInv, CutoverInv, Adopted!TypeOK,
          Adopted!Found, Adopted!Finds
    <3> QED
      BY <2>2, <3>1 DEF TheirsIsPrior, Adopted!UndoCutover
  <2> QED
    BY <2>1, <2>2
<1>1. DiskInv'
  BY <1>a, <1>b, <1>0, ForwardSteps, UndoSteps, AdoptPCsAre DEF AdoptInv, DiskInv, PriorInv,
      StageInv, CutoverInv, ForwardInv, UndoInv, Adopted!Adopted, Adopted!Hardened,
      Adopted!UndoCutover, Adopted!PutBack
<1>2. PriorInv'
  BY <1>a, <1>b, <1>0, ForwardSteps, UndoSteps, AdoptPCsAre DEF AdoptInv, DiskInv, PriorInv,
      OursIsPrior, Adopted!Adopted, Adopted!Hardened, Adopted!UndoCutover, Adopted!PutBack
<1>3. StageInv'
  BY <1>a, <1>b, <1>0, ForwardSteps, UndoSteps, AdoptPCsAre DEF AdoptInv, StageInv, CutoverInv,
      OursIsPrior, TheirsIsPrior, Adopted!Adopted, Adopted!Hardened, Adopted!UndoCutover,
      Adopted!PutBack
<1>4. CutoverInv'
  BY <1>a, <1>b, <1>0, ForwardSteps, UndoSteps, AdoptPCsAre DEF AdoptInv, StageInv, CutoverInv,
      OursIsPrior, TheirsIsPrior, Adopted!Adopted, Adopted!Hardened, Adopted!UndoCutover,
      Adopted!PutBack
<1>5. ForwardInv'
  BY <1>a, <1>b, <1>0, ForwardSteps, UndoSteps, AdoptPCsAre DEF AdoptInv, ForwardInv,
      Adopted!Adopted, Adopted!Hardened, Adopted!UndoCutover, Adopted!PutBack
<1>6. UndoInv'
  BY <1>a, <1>b, <1>0, ForwardSteps, UndoSteps, AdoptPCsAre DEF AdoptInv, DiskInv, PriorInv,
      StageInv, CutoverInv, ForwardInv, UndoInv, OursIsPrior, TheirsIsPrior, Adopted!Adopted,
      Adopted!Hardened, Adopted!UndoCutover, Adopted!PutBack
<1>7. Adopted!AdoptionIsAllOrNothing'
  BY <1>a, <1>b, <1>0, <1>1, ForwardSteps, UndoSteps, AdoptPCsAre, FoundWillBe DEF AdoptInv,
      Adopted!AdoptionIsAllOrNothing, Adopted!IsHardened, DiskInv, PriorInv, StageInv, CutoverInv,
      ForwardInv, UndoInv, OursIsPrior, TheirsIsPrior, Adopted!Adopted, Adopted!Hardened,
      Adopted!UndoCutover, Adopted!PutBack
<1> QED
  BY <1>1, <1>2, <1>3, <1>4, <1>5, <1>6, <1>7 DEF AdoptInv

LEMMA AdoptStartPriorStep ==
  ASSUME AdoptInv, Adopted!TypeOK', Adopted!StartPrior
  PROVE  AdoptInv'
<1>0. Adopted!TypeOK
  BY DEF AdoptInv
<1>a. ~kept' => ~kept /\ (run' = None <=> prior.run = None)
  BY <1>0, UndoSteps DEF Adopted!StartPrior, Adopted!RunsAs, AdoptInv, UndoInv, PriorInv
<1>1. DiskInv'
  BY <1>a, <1>0, ForwardSteps, UndoSteps, AdoptPCsAre DEF AdoptInv, DiskInv, PriorInv, StageInv,
      CutoverInv, ForwardInv, UndoInv, Adopted!Adopted, Adopted!Hardened, Adopted!StartPrior,
      Adopted!RunsAs
<1>2. PriorInv'
  BY <1>a, <1>0, ForwardSteps, UndoSteps, AdoptPCsAre DEF AdoptInv, DiskInv, PriorInv,
      OursIsPrior, Adopted!Adopted, Adopted!Hardened, Adopted!StartPrior, Adopted!RunsAs
<1>3. StageInv'
  BY <1>a, <1>0, ForwardSteps, UndoSteps, AdoptPCsAre DEF AdoptInv, StageInv, CutoverInv,
      OursIsPrior, TheirsIsPrior, Adopted!Adopted, Adopted!Hardened, Adopted!StartPrior,
      Adopted!RunsAs
<1>4. CutoverInv'
  BY <1>a, <1>0, ForwardSteps, UndoSteps, AdoptPCsAre DEF AdoptInv, StageInv, CutoverInv,
      OursIsPrior, TheirsIsPrior, Adopted!Adopted, Adopted!Hardened, Adopted!StartPrior,
      Adopted!RunsAs
<1>5. ForwardInv'
  BY <1>a, <1>0, ForwardSteps, UndoSteps, AdoptPCsAre DEF AdoptInv, ForwardInv, Adopted!Adopted,
      Adopted!Hardened, Adopted!StartPrior, Adopted!RunsAs
<1>6. UndoInv'
  BY <1>a, <1>0, ForwardSteps, UndoSteps, AdoptPCsAre DEF AdoptInv, DiskInv, PriorInv, StageInv,
      CutoverInv, ForwardInv, UndoInv, OursIsPrior, TheirsIsPrior, Adopted!Adopted,
      Adopted!Hardened, Adopted!StartPrior, Adopted!RunsAs
<1>7. Adopted!AdoptionIsAllOrNothing'
  BY <1>a, <1>0, <1>1, ForwardSteps, UndoSteps, AdoptPCsAre, FoundWillBe DEF AdoptInv,
      Adopted!AdoptionIsAllOrNothing, Adopted!IsHardened, DiskInv, PriorInv, StageInv, CutoverInv,
      ForwardInv, UndoInv, OursIsPrior, TheirsIsPrior, Adopted!Adopted, Adopted!Hardened,
      Adopted!StartPrior, Adopted!RunsAs
<1> QED
  BY <1>1, <1>2, <1>3, <1>4, <1>5, <1>6, <1>7 DEF AdoptInv

-----------------------------------------------------------------------------
(* Types                                                                   *)

AdoptFilesOK ==
  /\ entry \in [by: Adopted!Attempts, hardened: BOOLEAN]
  /\ config \in Adopted!Attempts /\ root \in BOOLEAN /\ refs \in Adopted!Attempts
  /\ keys \in [Adopted!KeyFiles -> Adopted!Written]
AdoptServiceOK ==
  /\ def \in Adopted!Written /\ loaded \in Adopted!Written /\ run \in Adopted!Written
  /\ foreignDef \in BOOLEAN /\ foreignRun \in BOOLEAN
AdoptJobOK ==
  /\ attempt \in Adopted!Attempts /\ prior \in Adopted!Finds
  /\ adoptPc \in AdoptPCs /\ job \in Adopted!Jobs /\ kept \in BOOLEAN

LEMMA AdoptTypesApart ==
  /\ Adopted!TypeOK <=> AdoptFilesOK /\ AdoptServiceOK /\ AdoptJobOK
  /\ AdoptFilesOK /\ AdoptServiceOK => Adopted!Found \in Adopted!Finds
BY AdoptPCsAre DEF Adopted!TypeOK, Adopted!Found, Adopted!Finds, AdoptFilesOK, AdoptServiceOK,
    AdoptJobOK

LEMMA AdoptTypesApartNext ==
  Adopted!TypeOK' <=> AdoptFilesOK' /\ AdoptServiceOK' /\ AdoptJobOK'
BY AdoptPCsAre DEF Adopted!TypeOK, Adopted!Found, Adopted!Finds, AdoptFilesOK, AdoptServiceOK,
    AdoptJobOK

LEMMA ReadsTypes ==
  ASSUME job \in Adopted!Jobs, kept \in BOOLEAN, NEW files, files \subseteq Adopted!KeyFiles \cup {"def"},
         Adopted!Reads(files)
  PROVE  job' \in Adopted!Jobs /\ kept' \in BOOLEAN
<1>1. PICK u \in SUBSET (Adopted!KeyFiles \cup {"def"}) :
        job' = [job EXCEPT !.began = TRUE, !.unread = @ \cup u] /\ kept' = (kept \/ u # {})
  BY DEF Adopted!Reads, Adopted!Keeps
<1>2. job' \in Adopted!Jobs
  BY <1>1 DEF Adopted!Jobs
<1>3. kept' \in BOOLEAN
  BY <1>1
<1> QED
  BY <1>2, <1>3

LEMMA AdoptTypes ==
  ASSUME Adopted!TypeOK, Adopted!Next
  PROVE  Adopted!TypeOK'
<1>0. AdoptFilesOK /\ AdoptServiceOK /\ AdoptJobOK /\ Adopted!Found \in Adopted!Finds
  BY AdoptTypesApart
<1>1. Adopted!Adopted \in [by: Adopted!Attempts, hardened: BOOLEAN]
      /\ Adopted!Hardened \in [by: Adopted!Attempts, hardened: BOOLEAN]
  BY <1>0 DEF AdoptJobOK, Adopted!Adopted, Adopted!Hardened
<1>2. attempt \in Adopted!Written /\ None \in Adopted!Written
  BY <1>0 DEF AdoptJobOK, Adopted!Written
<1>3. ASSUME NEW f \in Adopted!KeyFiles \cup {"def"}
      PROVE  Adopted!Original(f) \in Adopted!Written
  BY <1>0, <1>2 DEF AdoptJobOK, Adopted!Finds, Adopted!Original, Adopted!KeyFiles
<1>4. /\ prior.config \in Adopted!Attempts /\ prior.refs \in Adopted!Attempts
      /\ prior.def \in Adopted!Written /\ prior.root \in BOOLEAN
  BY <1>0 DEF AdoptJobOK, Adopted!Finds
<1>5. Adopted!NoJob \in Adopted!Jobs
  BY DEF Adopted!NoJob, Adopted!Jobs
<1>6. job.active \in BOOLEAN
  BY <1>0 DEF AdoptJobOK, Adopted!Jobs
<1>10. CASE Adopted!Begin
  <2>1. AdoptFilesOK'
    BY <1>0, <1>1, <1>2, <1>3, <1>4, <1>10 DEF AdoptFilesOK, AdoptJobOK, Adopted!Begin,
        Adopted!Jobs, Adopted!NoJob
  <2>2. AdoptServiceOK'
    BY <1>0, <1>2, <1>3, <1>4, <1>6, <1>10 DEF AdoptServiceOK, AdoptJobOK, Adopted!Begin,
        Adopted!Jobs, Adopted!NoJob
  <2>3. AdoptJobOK'
    <3>1. PICK harden \in BOOLEAN, yes \in BOOLEAN : job' = [Adopted!NoJob EXCEPT !.harden = harden, !.yes = yes]
      BY <1>10 DEF Adopted!Begin
    <3>2. job' \in Adopted!Jobs
      BY <3>1 DEF Adopted!NoJob, Adopted!Jobs
    <3>3. attempt' \in Adopted!Attempts /\ prior' \in Adopted!Finds /\ kept' \in BOOLEAN /\ adoptPc' \in AdoptPCs
      BY <1>0, <1>10 DEF AdoptJobOK, AdoptPCs, Adopted!Begin, Adopted!Attempts
    <3> QED
      BY <3>2, <3>3 DEF AdoptJobOK
  <2> QED
    BY <2>1, <2>2, <2>3, AdoptTypesApartNext
<1>11. CASE Adopted!SaveRecord
  <2>1. AdoptFilesOK'
    BY <1>0, <1>1, <1>2, <1>3, <1>4, <1>11 DEF AdoptFilesOK, AdoptJobOK, Adopted!SaveRecord
  <2>2. AdoptServiceOK'
    BY <1>0, <1>2, <1>3, <1>4, <1>6, <1>11 DEF AdoptServiceOK, AdoptJobOK, Adopted!SaveRecord
  <2>3. AdoptJobOK'
    BY <1>0, <1>5, <1>11, ForwardSteps, UndoSteps DEF AdoptJobOK, AdoptServiceOK, AdoptPCs,
        Adopted!SaveRecord
  <2> QED
    BY <2>1, <2>2, <2>3, AdoptTypesApartNext
<1>12. CASE Adopted!End
  <2>1. AdoptFilesOK'
    BY <1>0, <1>1, <1>2, <1>3, <1>4, <1>12 DEF AdoptFilesOK, AdoptJobOK, Adopted!End
  <2>2. AdoptServiceOK'
    BY <1>0, <1>2, <1>3, <1>4, <1>6, <1>12 DEF AdoptServiceOK, AdoptJobOK, Adopted!End
  <2>3. AdoptJobOK'
    BY <1>0, <1>5, <1>12, ForwardSteps, UndoSteps DEF AdoptJobOK, AdoptServiceOK, AdoptPCs,
        Adopted!End
  <2> QED
    BY <2>1, <2>2, <2>3, AdoptTypesApartNext
<1>13. CASE Adopted!Crash
  <2>1. AdoptFilesOK'
    BY <1>0, <1>1, <1>2, <1>3, <1>4, <1>13 DEF AdoptFilesOK, AdoptJobOK, Adopted!Crash
  <2>2. AdoptServiceOK'
    BY <1>0, <1>2, <1>3, <1>4, <1>6, <1>13 DEF AdoptServiceOK, AdoptJobOK, Adopted!Crash
  <2>3. AdoptJobOK'
    BY <1>0, <1>5, <1>13, ForwardSteps, UndoSteps DEF AdoptJobOK, AdoptServiceOK, AdoptPCs,
        Adopted!Crash
  <2> QED
    BY <2>1, <2>2, <2>3, AdoptTypesApartNext
<1>14. CASE Adopted!ReadOriginals
  <2>1. AdoptFilesOK'
    BY <1>0, <1>1, <1>2, <1>3, <1>4, <1>14 DEF AdoptFilesOK, AdoptJobOK, Adopted!ReadOriginals,
        Adopted!Reads, Adopted!Jobs, Adopted!KeyFiles
  <2>2. AdoptServiceOK'
    BY <1>0, <1>2, <1>3, <1>4, <1>6, <1>14 DEF AdoptServiceOK, AdoptJobOK, Adopted!ReadOriginals,
        Adopted!Reads, Adopted!Jobs, Adopted!KeyFiles
  <2>3. AdoptJobOK'
    <3>1. job' \in Adopted!Jobs /\ kept' \in BOOLEAN
      BY <1>0, <1>14, ReadsTypes DEF Adopted!ReadOriginals, AdoptJobOK
    <3> QED
      BY <1>0, <1>14, <3>1 DEF AdoptJobOK, AdoptPCs, Adopted!ReadOriginals
  <2> QED
    BY <2>1, <2>2, <2>3, AdoptTypesApartNext
<1>15. CASE Adopted!Inspect
  <2>1. AdoptFilesOK'
    BY <1>0, <1>1, <1>2, <1>3, <1>4, <1>15 DEF AdoptFilesOK, AdoptJobOK, Adopted!Inspect,
        Adopted!Jobs
  <2>2. AdoptServiceOK'
    BY <1>0, <1>2, <1>3, <1>4, <1>6, <1>15 DEF AdoptServiceOK, AdoptJobOK, Adopted!Inspect,
        Adopted!Jobs
  <2>3. AdoptJobOK'
    BY <1>0, <1>5, <1>15, ForwardSteps, UndoSteps DEF AdoptJobOK, AdoptServiceOK, AdoptPCs,
        Adopted!Inspect, Adopted!Jobs
  <2> QED
    BY <2>1, <2>2, <2>3, AdoptTypesApartNext
<1>16. CASE Adopted!StopForeign
  <2>1. AdoptFilesOK'
    BY <1>0, <1>1, <1>2, <1>3, <1>4, <1>16 DEF AdoptFilesOK, AdoptJobOK, Adopted!StopForeign
  <2>2. AdoptServiceOK'
    BY <1>0, <1>2, <1>3, <1>4, <1>6, <1>16 DEF AdoptServiceOK, AdoptJobOK, Adopted!StopForeign
  <2>3. AdoptJobOK'
    BY <1>0, <1>5, <1>16, ForwardSteps, UndoSteps DEF AdoptJobOK, AdoptServiceOK, AdoptPCs,
        Adopted!StopForeign
  <2> QED
    BY <2>1, <2>2, <2>3, AdoptTypesApartNext
<1>17. CASE Adopted!RemoveForeign
  <2>1. AdoptFilesOK'
    BY <1>0, <1>1, <1>2, <1>3, <1>4, <1>17 DEF AdoptFilesOK, AdoptJobOK, Adopted!RemoveForeign,
        Adopted!PutBack
  <2>2. AdoptServiceOK'
    BY <1>0, <1>2, <1>3, <1>4, <1>6, <1>17 DEF AdoptServiceOK, AdoptJobOK, Adopted!RemoveForeign,
        Adopted!PutBack
  <2>3. AdoptJobOK'
    BY <1>0, <1>5, <1>17, ForwardSteps, UndoSteps DEF AdoptJobOK, AdoptServiceOK, AdoptPCs,
        Adopted!RemoveForeign, Adopted!PutBack
  <2> QED
    BY <2>1, <2>2, <2>3, AdoptTypesApartNext
<1>18. CASE Adopted!ReloadForeign
  <2>1. AdoptFilesOK'
    BY <1>0, <1>1, <1>2, <1>3, <1>4, <1>18 DEF AdoptFilesOK, AdoptJobOK, Adopted!ReloadForeign,
        Adopted!PutBack, Adopted!Jobs
  <2>2. AdoptServiceOK'
    BY <1>0, <1>2, <1>3, <1>4, <1>6, <1>18 DEF AdoptServiceOK, AdoptJobOK, Adopted!ReloadForeign,
        Adopted!PutBack, Adopted!Jobs
  <2>3. AdoptJobOK'
    <3>1. job' = [job EXCEPT !.undo = TRUE] \/ job' = job
      BY <1>18 DEF Adopted!ReloadForeign
    <3>2. job' \in Adopted!Jobs
      BY <1>0, <3>1 DEF AdoptJobOK, Adopted!Jobs
    <3>3. UNCHANGED <<attempt, prior>> /\ adoptPc' \in AdoptPCs
      BY <1>18 DEF Adopted!ReloadForeign, AdoptPCs
    <3>4. kept' \in BOOLEAN
      BY <1>0, <1>18 DEF AdoptJobOK, Adopted!ReloadForeign, Adopted!PutBack
    <3> QED
      BY <1>0, <3>2, <3>3, <3>4 DEF AdoptJobOK
  <2> QED
    BY <2>1, <2>2, <2>3, AdoptTypesApartNext
<1>19. CASE Adopted!Capture
  <2>1. AdoptFilesOK'
    BY <1>0, <1>1, <1>2, <1>3, <1>4, <1>19 DEF AdoptFilesOK, AdoptJobOK, Adopted!Capture,
        Adopted!Reads, Adopted!Jobs, Adopted!KeyFiles
  <2>2. AdoptServiceOK'
    BY <1>0, <1>2, <1>3, <1>4, <1>6, <1>19 DEF AdoptServiceOK, AdoptJobOK, Adopted!Capture,
        Adopted!Reads, Adopted!Jobs, Adopted!KeyFiles
  <2>3. AdoptJobOK'
    <3>1. job' \in Adopted!Jobs /\ kept' \in BOOLEAN
      BY <1>0, <1>19, ReadsTypes DEF Adopted!Capture, AdoptJobOK
    <3> QED
      BY <1>0, <1>19, <3>1 DEF AdoptJobOK, AdoptPCs, Adopted!Capture
  <2> QED
    BY <2>1, <2>2, <2>3, AdoptTypesApartNext
<1>20. CASE Adopted!MakeDirectory
  <2>1. AdoptFilesOK'
    BY <1>0, <1>1, <1>2, <1>3, <1>4, <1>20 DEF AdoptFilesOK, AdoptJobOK, Adopted!MakeDirectory
  <2>2. AdoptServiceOK'
    BY <1>0, <1>2, <1>3, <1>4, <1>6, <1>20 DEF AdoptServiceOK, AdoptJobOK, Adopted!MakeDirectory
  <2>3. AdoptJobOK'
    BY <1>0, <1>5, <1>20, ForwardSteps, UndoSteps DEF AdoptJobOK, AdoptServiceOK, AdoptPCs,
        Adopted!MakeDirectory
  <2> QED
    BY <2>1, <2>2, <2>3, AdoptTypesApartNext
<1>21. CASE Adopted!ApplyPlan
  <2>1. AdoptFilesOK'
    BY <1>0, <1>1, <1>2, <1>3, <1>4, <1>21 DEF AdoptFilesOK, AdoptJobOK, Adopted!ApplyPlan
  <2>2. AdoptServiceOK'
    BY <1>0, <1>2, <1>3, <1>4, <1>6, <1>21 DEF AdoptServiceOK, AdoptJobOK, Adopted!ApplyPlan
  <2>3. AdoptJobOK'
    BY <1>0, <1>5, <1>21, ForwardSteps, UndoSteps DEF AdoptJobOK, AdoptServiceOK, AdoptPCs,
        Adopted!ApplyPlan
  <2> QED
    BY <2>1, <2>2, <2>3, AdoptTypesApartNext
<1>22. CASE Adopted!WriteKey
  <2>1. AdoptFilesOK'
    BY <1>0, <1>1, <1>2, <1>3, <1>4, <1>22 DEF AdoptFilesOK, AdoptJobOK, Adopted!WriteKey,
        Adopted!KeyFiles
  <2>2. AdoptServiceOK'
    BY <1>0, <1>2, <1>3, <1>4, <1>6, <1>22 DEF AdoptServiceOK, AdoptJobOK, Adopted!WriteKey,
        Adopted!KeyFiles
  <2>3. AdoptJobOK'
    BY <1>0, <1>5, <1>22, ForwardSteps, UndoSteps DEF AdoptJobOK, AdoptServiceOK, AdoptPCs,
        Adopted!WriteKey, Adopted!KeyFiles
  <2> QED
    BY <2>1, <2>2, <2>3, AdoptTypesApartNext
<1>23. CASE Adopted!SaveInstallation
  <2>1. AdoptFilesOK'
    BY <1>0, <1>1, <1>2, <1>3, <1>4, <1>23 DEF AdoptFilesOK, AdoptJobOK, Adopted!SaveInstallation
  <2>2. AdoptServiceOK'
    BY <1>0, <1>2, <1>3, <1>4, <1>6, <1>23 DEF AdoptServiceOK, AdoptJobOK,
        Adopted!SaveInstallation
  <2>3. AdoptJobOK'
    BY <1>0, <1>5, <1>23, ForwardSteps, UndoSteps DEF AdoptJobOK, AdoptServiceOK, AdoptPCs,
        Adopted!SaveInstallation
  <2> QED
    BY <2>1, <2>2, <2>3, AdoptTypesApartNext
<1>24. CASE Adopted!SaveReferences
  <2>1. AdoptFilesOK'
    BY <1>0, <1>1, <1>2, <1>3, <1>4, <1>24 DEF AdoptFilesOK, AdoptJobOK, Adopted!SaveReferences
  <2>2. AdoptServiceOK'
    BY <1>0, <1>2, <1>3, <1>4, <1>6, <1>24 DEF AdoptServiceOK, AdoptJobOK, Adopted!SaveReferences
  <2>3. AdoptJobOK'
    BY <1>0, <1>5, <1>24, ForwardSteps, UndoSteps DEF AdoptJobOK, AdoptServiceOK, AdoptPCs,
        Adopted!SaveReferences
  <2> QED
    BY <2>1, <2>2, <2>3, AdoptTypesApartNext
<1>25. CASE Adopted!InstallUnit
  <2>1. AdoptFilesOK'
    BY <1>0, <1>1, <1>2, <1>3, <1>4, <1>25 DEF AdoptFilesOK, AdoptJobOK, Adopted!InstallUnit,
        Adopted!Jobs, Adopted!Written
  <2>2. AdoptServiceOK'
    BY <1>0, <1>2, <1>3, <1>4, <1>6, <1>25 DEF AdoptServiceOK, AdoptJobOK, Adopted!InstallUnit,
        Adopted!Jobs, Adopted!Written
  <2>3. AdoptJobOK'
    <3>1. (prior.def = None) \in BOOLEAN
      OBVIOUS
    <3>2. job' \in Adopted!Jobs
      BY <1>0, <1>25, <3>1 DEF AdoptJobOK, Adopted!InstallUnit, Adopted!Jobs
    <3>3. UNCHANGED <<attempt, prior, kept>> /\ adoptPc' \in AdoptPCs
      BY <1>25, ForwardSteps DEF AdoptPCs, Adopted!InstallUnit
    <3> QED
      BY <1>0, <3>2, <3>3 DEF AdoptJobOK
  <2> QED
    BY <2>1, <2>2, <2>3, AdoptTypesApartNext
<1>26. CASE Adopted!RestartUnit
  <2>1. AdoptFilesOK'
    BY <1>0, <1>1, <1>2, <1>3, <1>4, <1>26 DEF AdoptFilesOK, AdoptJobOK, Adopted!RestartUnit,
        Adopted!RunsAs
  <2>2. AdoptServiceOK'
    BY <1>0, <1>2, <1>3, <1>4, <1>6, <1>26 DEF AdoptServiceOK, AdoptJobOK, Adopted!RestartUnit,
        Adopted!RunsAs
  <2>3. AdoptJobOK'
    BY <1>0, <1>5, <1>26, ForwardSteps, UndoSteps DEF AdoptJobOK, AdoptServiceOK, AdoptPCs,
        Adopted!RestartUnit, Adopted!RunsAs
  <2> QED
    BY <2>1, <2>2, <2>3, AdoptTypesApartNext
<1>27. CASE Adopted!Check
  <2>1. AdoptFilesOK'
    BY <1>0, <1>1, <1>2, <1>3, <1>4, <1>27 DEF AdoptFilesOK, AdoptJobOK, Adopted!Check
  <2>2. AdoptServiceOK'
    BY <1>0, <1>2, <1>3, <1>4, <1>6, <1>27 DEF AdoptServiceOK, AdoptJobOK, Adopted!Check
  <2>3. AdoptJobOK'
    BY <1>0, <1>5, <1>27, ForwardSteps, UndoSteps DEF AdoptJobOK, AdoptServiceOK, AdoptPCs,
        Adopted!Check
  <2> QED
    BY <2>1, <2>2, <2>3, AdoptTypesApartNext
<1>28. CASE Adopted!UndoRun
  <2>1. AdoptFilesOK'
    BY <1>0, <1>1, <1>2, <1>3, <1>4, <1>28 DEF AdoptFilesOK, AdoptJobOK, Adopted!UndoRun
  <2>2. AdoptServiceOK'
    BY <1>0, <1>2, <1>3, <1>4, <1>6, <1>28 DEF AdoptServiceOK, AdoptJobOK, Adopted!UndoRun
  <2>3. AdoptJobOK'
    BY <1>0, <1>5, <1>28, ForwardSteps, UndoSteps DEF AdoptJobOK, AdoptServiceOK, AdoptPCs,
        Adopted!UndoRun
  <2> QED
    BY <2>1, <2>2, <2>3, AdoptTypesApartNext
<1>29. CASE Adopted!UndoInstall
  <2>1. AdoptFilesOK'
    BY <1>0, <1>1, <1>2, <1>3, <1>4, <1>29 DEF AdoptFilesOK, AdoptJobOK, Adopted!UndoInstall
  <2>2. AdoptServiceOK'
    BY <1>0, <1>2, <1>3, <1>4, <1>6, <1>29 DEF AdoptServiceOK, AdoptJobOK, Adopted!UndoInstall
  <2>3. AdoptJobOK'
    BY <1>0, <1>5, <1>29, ForwardSteps, UndoSteps DEF AdoptJobOK, AdoptServiceOK, AdoptPCs,
        Adopted!UndoInstall
  <2> QED
    BY <2>1, <2>2, <2>3, AdoptTypesApartNext
<1>30. CASE Adopted!UndoDefinition
  <2>1. AdoptFilesOK'
    BY <1>0, <1>1, <1>2, <1>3, <1>4, <1>30 DEF AdoptFilesOK, AdoptJobOK, Adopted!UndoDefinition
  <2>2. AdoptServiceOK'
    BY <1>0, <1>2, <1>3, <1>4, <1>6, <1>30 DEF AdoptServiceOK, AdoptJobOK, Adopted!UndoDefinition
  <2>3. AdoptJobOK'
    BY <1>0, <1>5, <1>30, ForwardSteps, UndoSteps DEF AdoptJobOK, AdoptServiceOK, AdoptPCs,
        Adopted!UndoDefinition
  <2> QED
    BY <2>1, <2>2, <2>3, AdoptTypesApartNext
<1>31. CASE Adopted!UndoConfig
  <2>1. AdoptFilesOK'
    BY <1>0, <1>1, <1>2, <1>3, <1>4, <1>31 DEF AdoptFilesOK, AdoptJobOK, Adopted!UndoConfig
  <2>2. AdoptServiceOK'
    BY <1>0, <1>2, <1>3, <1>4, <1>6, <1>31 DEF AdoptServiceOK, AdoptJobOK, Adopted!UndoConfig
  <2>3. AdoptJobOK'
    BY <1>0, <1>5, <1>31, ForwardSteps, UndoSteps DEF AdoptJobOK, AdoptServiceOK, AdoptPCs,
        Adopted!UndoConfig
  <2> QED
    BY <2>1, <2>2, <2>3, AdoptTypesApartNext
<1>32. CASE Adopted!UndoKeys
  <2>1. AdoptFilesOK'
    BY <1>0, <1>1, <1>2, <1>3, <1>4, <1>32 DEF AdoptFilesOK, AdoptJobOK, Adopted!UndoKeys,
        Adopted!RestoreKeys, Adopted!KeyFiles, Adopted!RestoredKeys
  <2>2. AdoptServiceOK'
    BY <1>0, <1>2, <1>3, <1>4, <1>6, <1>32 DEF AdoptServiceOK, AdoptJobOK, Adopted!UndoKeys,
        Adopted!RestoreKeys, Adopted!KeyFiles, Adopted!RestoredKeys
  <2>3. AdoptJobOK'
    BY <1>0, <1>5, <1>32, ForwardSteps, UndoSteps DEF AdoptJobOK, AdoptServiceOK, AdoptPCs,
        Adopted!UndoKeys, Adopted!RestoreKeys, Adopted!KeyFiles, Adopted!RestoredKeys
  <2> QED
    BY <2>1, <2>2, <2>3, AdoptTypesApartNext
<1>33. CASE Adopted!UndoState
  <2>1. AdoptFilesOK'
    BY <1>0, <1>1, <1>2, <1>3, <1>4, <1>33 DEF AdoptFilesOK, AdoptJobOK, Adopted!UndoState
  <2>2. AdoptServiceOK'
    BY <1>0, <1>2, <1>3, <1>4, <1>6, <1>33 DEF AdoptServiceOK, AdoptJobOK, Adopted!UndoState
  <2>3. AdoptJobOK'
    BY <1>0, <1>5, <1>33, ForwardSteps, UndoSteps DEF AdoptJobOK, AdoptServiceOK, AdoptPCs,
        Adopted!UndoState
  <2> QED
    BY <2>1, <2>2, <2>3, AdoptTypesApartNext
<1>34. CASE Adopted!UndoReferences
  <2>1. AdoptFilesOK'
    BY <1>0, <1>1, <1>2, <1>3, <1>4, <1>34 DEF AdoptFilesOK, AdoptJobOK, Adopted!UndoReferences
  <2>2. AdoptServiceOK'
    BY <1>0, <1>2, <1>3, <1>4, <1>6, <1>34 DEF AdoptServiceOK, AdoptJobOK, Adopted!UndoReferences
  <2>3. AdoptJobOK'
    BY <1>0, <1>5, <1>34, ForwardSteps, UndoSteps DEF AdoptJobOK, AdoptServiceOK, AdoptPCs,
        Adopted!UndoReferences
  <2> QED
    BY <2>1, <2>2, <2>3, AdoptTypesApartNext
<1>35. CASE Adopted!UndoRoot
  <2>1. AdoptFilesOK'
    <3>1. root' \in BOOLEAN /\ UNCHANGED <<entry, config, refs>>
      BY <1>0, <1>35 DEF AdoptFilesOK, Adopted!UndoRoot
    <3>2. keys' = keys \/ keys' = [keys EXCEPT !["sidecar"] = None]
      BY <1>0, <1>35 DEF AdoptFilesOK, Adopted!UndoRoot
    <3>3. keys' \in [Adopted!KeyFiles -> Adopted!Written]
      BY <1>0, <1>2, <3>2 DEF AdoptFilesOK
    <3> QED
      BY <1>0, <3>1, <3>3 DEF AdoptFilesOK
  <2>2. AdoptServiceOK'
    BY <1>0, <1>2, <1>3, <1>4, <1>6, <1>35 DEF AdoptServiceOK, AdoptJobOK, Adopted!UndoRoot,
        Adopted!KeyFiles
  <2>3. AdoptJobOK'
    BY <1>0, <1>5, <1>35, ForwardSteps, UndoSteps DEF AdoptJobOK, AdoptServiceOK, AdoptPCs,
        Adopted!UndoRoot, Adopted!KeyFiles
  <2> QED
    BY <2>1, <2>2, <2>3, AdoptTypesApartNext
<1>36. CASE Adopted!UndoCutover
  <2>1. AdoptFilesOK'
    BY <1>0, <1>1, <1>2, <1>3, <1>4, <1>36 DEF AdoptFilesOK, AdoptJobOK, Adopted!UndoCutover,
        Adopted!PutBack
  <2>2. AdoptServiceOK'
    BY <1>0, <1>2, <1>3, <1>4, <1>6, <1>36 DEF AdoptServiceOK, AdoptJobOK, Adopted!UndoCutover,
        Adopted!PutBack
  <2>3. AdoptJobOK'
    BY <1>0, <1>5, <1>36, ForwardSteps, UndoSteps DEF AdoptJobOK, AdoptServiceOK, AdoptPCs,
        Adopted!UndoCutover, Adopted!PutBack
  <2> QED
    BY <2>1, <2>2, <2>3, AdoptTypesApartNext
<1>37. CASE Adopted!StartPrior
  <2>1. AdoptFilesOK'
    BY <1>0, <1>1, <1>2, <1>3, <1>4, <1>37 DEF AdoptFilesOK, AdoptJobOK, Adopted!StartPrior,
        Adopted!RunsAs
  <2>2. AdoptServiceOK'
    BY <1>0, <1>2, <1>3, <1>4, <1>6, <1>37 DEF AdoptServiceOK, AdoptJobOK, Adopted!StartPrior,
        Adopted!RunsAs
  <2>3. AdoptJobOK'
    BY <1>0, <1>5, <1>37, ForwardSteps, UndoSteps DEF AdoptJobOK, AdoptServiceOK, AdoptPCs,
        Adopted!StartPrior, Adopted!RunsAs
  <2> QED
    BY <2>1, <2>2, <2>3, AdoptTypesApartNext
<1> QED
  BY <1>10, <1>11, <1>12, <1>13, <1>14, <1>15, <1>16, <1>17, <1>18, <1>19, <1>20, <1>21, <1>22,
     <1>23, <1>24, <1>25, <1>26, <1>27, <1>28, <1>29, <1>30, <1>31, <1>32, <1>33, <1>34, <1>35,
     <1>36, <1>37 DEF Adopted!Next

-----------------------------------------------------------------------------
LEMMA AdoptNextStep ==
  ASSUME AdoptInv, Adopted!Next
  PROVE  AdoptInv'
<1>0. Adopted!TypeOK'
  BY AdoptTypes DEF AdoptInv
<1> QED
  BY <1>0, AdoptBeginStep, AdoptSaveRecordStep, AdoptEndStep, AdoptCrashStep,
     AdoptReadOriginalsStep, AdoptInspectStep, AdoptStopForeignStep, AdoptRemoveForeignStep,
     AdoptReloadForeignStep, AdoptCaptureStep, AdoptMakeDirectoryStep, AdoptApplyPlanStep,
     AdoptWriteKeyStep, AdoptSaveInstallationStep, AdoptSaveReferencesStep, AdoptInstallUnitStep,
     AdoptRestartUnitStep, AdoptCheckStep, AdoptUndoRunStep, AdoptUndoInstallStep,
     AdoptUndoDefinitionStep, AdoptUndoConfigStep, AdoptUndoKeysStep, AdoptUndoStateStep,
     AdoptUndoReferencesStep, AdoptUndoRootStep, AdoptUndoCutoverStep, AdoptStartPriorStep
    DEF Adopted!Next

LEMMA AdoptInitInv == Adopted!Init => AdoptInv
<1> SUFFICES ASSUME Adopted!Init PROVE AdoptInv
  OBVIOUS
<1>1. AdoptFilesOK
  BY DEF Adopted!Init, AdoptFilesOK, Adopted!Attempts, Adopted!Written
<1>2. AdoptServiceOK
  <2>1. def \in {0, None} /\ run \in {None, def} /\ loaded = def
    BY DEF Adopted!Init
  <2>2. foreignDef \in BOOLEAN /\ foreignRun \in BOOLEAN
    BY DEF Adopted!Init
  <2> QED
    BY <2>1, <2>2 DEF AdoptServiceOK, Adopted!Attempts, Adopted!Written
<1>3. AdoptJobOK
  <2>1. Adopted!NoJob \in Adopted!Jobs
    BY DEF Adopted!NoJob, Adopted!Jobs
  <2>2. prior \in Adopted!Finds
    BY <1>1, <1>2, AdoptTypesApart DEF Adopted!Init
  <2>3. kept \in BOOLEAN
    BY DEF Adopted!Init
  <2> QED
    BY <2>1, <2>2, <2>3 DEF Adopted!Init, AdoptJobOK, AdoptPCs, Adopted!Attempts
<1>4. OursIsPrior /\ TheirsIsPrior
  BY DEF Adopted!Init, Adopted!Found, OursIsPrior, TheirsIsPrior
<1>5. DiskInv
  <2>1. foreignRun => foreignDef
    BY DEF Adopted!Init
  <2>2. /\ def = None => run = None
        /\ ~root => keys["sidecar"] = None
        /\ job.unread = {}
    BY DEF Adopted!Init, Adopted!NoJob, Adopted!KeyFiles
  <2> QED
    BY <2>1, <2>2 DEF DiskInv
<1>6. PriorInv
  BY <1>4, <1>5 DEF PriorInv, DiskInv, OursIsPrior
<1>7. StageInv /\ CutoverInv /\ ForwardInv /\ UndoInv /\ Adopted!AdoptionIsAllOrNothing
  BY DEF Adopted!Init, Adopted!NoJob, StageInv, CutoverInv, ForwardInv, UndoInv,
      Adopted!AdoptionIsAllOrNothing
<1> QED
  BY <1>1, <1>2, <1>3, <1>5, <1>6, <1>7, AdoptTypesApart DEF AdoptInv

LEMMA AdoptStays ==
  AdoptInv /\ [CoreMoves \/ SelfMoves \/ AdoptMoves]_<<part, vars, selfVars, adoptVars>> => AdoptInv'
<1> SUFFICES ASSUME AdoptInv, [CoreMoves \/ SelfMoves \/ AdoptMoves]_<<part, vars, selfVars, adoptVars>>
             PROVE AdoptInv'
  OBVIOUS
<1>1. CASE UNCHANGED adoptVars
  BY <1>1 DEF adoptVars, AdoptInv, Adopted!TypeOK, Adopted!Found, DiskInv, PriorInv, StageInv,
      CutoverInv, ForwardInv, UndoInv, OursIsPrior, TheirsIsPrior, Adopted!AdoptionIsAllOrNothing,
      Adopted!IsHardened, Adopted!Adopted, Adopted!Hardened
<1>2. Adopted!Next \/ UNCHANGED adoptVars
  BY DEF CoreMoves, SelfMoves, AdoptMoves
<1> QED
  BY <1>1, <1>2, AdoptNextStep

\* How far an adoption and its undo are, and what they have changed (runtime.go:418-620,
\* adopt_service_unix.go): the inductive invariant.
THEOREM AdoptionInvariance == ProgramsSpec => []AdoptInv
<1>1. ProgramsInit => AdoptInv
  BY AdoptInitInv DEF ProgramsInit
<1> QED
  BY <1>1, AdoptStays, PTL DEF ProgramsSpec

\* An adoption that succeeds has what it says, and one that fails leaves what it found
\* unless a call of its undo failed, whichever calls fail on whichever side of their
\* effect and wherever a process dies (runtime.go:447, :493, :514).
THEOREM AdoptionStaysAllOrNothing == ProgramsSpec => []AdoptionIsAllOrNothing
<1>1. AdoptInv => AdoptionIsAllOrNothing
  BY DEF AdoptInv, AdoptionIsAllOrNothing
<1> QED
  BY <1>1, AdoptionInvariance, PTL

-----------------------------------------------------------------------------
(* The composition                                                         *)

LEMMA CoreStays ==
  IInv /\ [CoreMoves \/ SelfMoves \/ AdoptMoves]_<<part, vars, selfVars, adoptVars>> => IInv'
BY NextIInv, StutterIInv DEF CoreMoves, SelfMoves, AdoptMoves

LEMMA ProgramsCore == ProgramsSpec => []IInv
<1>1. ProgramsInit => IInv
  BY InitIInv DEF ProgramsInit
<1> QED
  BY <1>1, CoreStays, PTL DEF ProgramsSpec

\* Every variable keeps its type, those of the components at rest too.
THEOREM ProgramsTypeCorrect == ProgramsSpec => []ProgramsTypeOK
<1>1. IInv /\ SelfInv /\ AdoptInv => ProgramsTypeOK
  BY DEF IInv, SelfInv, AdoptInv, ProgramsTypeOK
<1> QED
  BY <1>1, ProgramsCore, SelfUpdateInvariance, AdoptionInvariance, PTL
=============================================================================
