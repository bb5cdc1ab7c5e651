SPECIFICATION FilesSpec
CONSTANTS
  Versions = {v1, v2, v3}
  NoVersion = NoVersion
  FirstPointers = {TRUE, FALSE}
  Procs = {p1}
  TxIds = {t1, t2}
  MaxLines = 3
  Processes = {q1, q2}
  NoRecord = NoRecord
  MaxSetups = 2
  NoProc = NoProc
  Retention = 1
  MaxChanges = 2
  MaxDamage = 2
  Corrupt = Corrupt
  Missing = Missing
  Models = {a, b}
  NoModel = NoModel
  Absent = Absent
  NoBackup = NoBackup
  MaxOthers = 2
INVARIANTS
  FilesTypeOK
  SettledIsConsistent
  RecordIsRecoverable
  FoldsAlike
  SetupIsAllOrNothing
  UnfinishedIsRecorded
  SlotIsRecoverable
PROPERTIES
  ServiceIsRestored
  UpdateIsAtomic
  RepairGoesBackOneSave
  ChangesSurvive
CONSTRAINT Undisturbed
SYMMETRY Interchangeable
