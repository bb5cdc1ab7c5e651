SPECIFICATION WaitingSpec
CONSTANTS
  Procs = {p1, p2}
  NoProc = NoProc
  TxIds = {t1, t2}
  NoTx = NoTx
  MaxFaults = 2
  Pids = {c1}
  None = None
  Files = {a1, a2}
  Budget = 2
  MaxOthers = 1
  BufferSize = 3
  ChannelSize = 2
  MaxLines = 5
INVARIANTS
  WaitingTypeOK
  JournalNeverCorrupt
  DispatchIsJournaled
  AuditedSuccessIsCommitted
  LoginIsOver
  FollowsWithoutGap
PROPERTIES
  RecoveryLeavesNoneInProgress
  OutcomesAreFinal
  WaitingEnds
