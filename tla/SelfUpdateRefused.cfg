SPECIFICATION Spec
CONSTANTS
  Versions = {v1, v2}
  None = None
  NoRecord = NoRecord
  Helpers = {h1}
  Platforms = {"unix", "windows"}
INVARIANT RefusedOnlyIfReplaced
