SPECIFICATION Spec
CONSTANTS
  Procs = {p1, p2}
  NoProc = NoProc
  Pids = {c1, c2}
  None = None
INVARIANTS
  NoDuplicates
