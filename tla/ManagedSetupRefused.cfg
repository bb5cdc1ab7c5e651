SPECIFICATION Spec
CONSTANTS
  Procs = {p1}
  NoProc = NoProc
  NoRecord = NoRecord
  MaxSetups = 1
INVARIANT RecoveryIsNeverRefused
