SPECIFICATION ProgramsSpec
CONSTANTS
  NoRecord = NoRecord
  Releases = {r1, r2}
  None = None
  Helpers = {h1, h2}
  Platforms = {"unix", "windows"}
  Procs = {p1, p2}
  NoProc = NoProc
  Pids = {c1, c2}
  MaxAttempts = 2
INVARIANTS
  ProgramsTypeOK
  ExecutableIsRecoverable
  ReportIsTrue
  RejectsDuplicates
  ManagerKnowsItsChild
  AdoptionIsAllOrNothing
CONSTRAINT Unclashed
SYMMETRY Interchangeable
