SPECIFICATION InteractionsSpec
CONSTANTS
  Entries = {e1, e2, e3}
  MaxEntries = 3
  MaxOthers = 2
  Backends = {"systemd", "task", "launchd"}
  Versions = {v1, v2}
  MaxMeddles = 1
  Keys = {template, k1, k2}
  Template = template
  NoKey = NoKey
  Options = {o1, o2}
  Rests = {r1}
  Broken = Broken
  MaxForeign = 2
  Buffer = 1
  MaxOps = 2
  MaxEvents = 1
  Models = {a, b}
  NoModel = NoModel
  Accounts = {x, y}
  Clients = {"claude", "gemini", "opencode"}
  NoCache = NoCache
  MaxChanges = 2
INVARIANTS
  InteractionsTypeOK
  VerifiedOutcome
  RestartRunsInstalled
  OutcomeIsWhole
  OneAtATime
  ResumesWhereItWas
  LaunchIsLive
PROPERTIES
  KeepsContract
  EditsWhatWasRead
  CacheIsWhole
CHECK_DEADLOCK FALSE
