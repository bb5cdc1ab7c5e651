SPECIFICATION Spec
CONSTANTS
  Versions = {v1, v2, v3}
  NoVersion = NoVersion
  NoRecord = NoRecord
  FirstPointers = {TRUE, FALSE}
INVARIANTS
  SameVersionIsSelected
