SPECIFICATION Spec
CONSTANTS
  Entries = {e1, e2}
  MaxEntries = 2
  MaxOthers = 0
INVARIANT StopsAfterOne
