------------------------- MODULE ServiceBackendProofs -------------------------
(***************************************************************************)
(* For any definitions, backends and changes by others: the native         *)
(* backends implement ServiceContract, with launchd's exception for a job  *)
(* whose status it cannot read, and a restart of systemd's and of Task     *)
(* Scheduler's runs what was installed.                                    *)
(*                                                                         *)
(* Every call of a service manager may fail before or after its effect,    *)
(* and processes and definitions change beside the operation, so success   *)
(* is about what was the case at some moment of it.  IInv says what each   *)
(* step has seen by then: whose definition it replaces (OwnerInv), that    *)
(* the process is down, new or answers, or that launchd could not read its *)
(* job (AchievedInv), and which definition the service manager has loaded  *)
(* (InstalledInv).                                                         *)
(***************************************************************************)
EXTENDS ServiceBackend, TLAPS

Installs == {"install", "installstart"}
Starts == {"start", "restart", "installstart"}

\* Where an operation is, and what it has seen.
ProgressInv ==
  /\ pc = "idle" <=> op = "none"
  /\ pc = "done" <=> result # "none"
  /\ op # "none" => C!Facts \subseteq seen
  /\ op # "none" => job.start = (op = "installstart")

\* The definition that is replaced or removed was PMux's own or missing.
OwnerInv ==
  /\ pc \in {"reload", "enable", "undo", "undoEnable", "undone", "disable", "reloaded"} => On("systemd")
  /\ pc \in {"unload", "load", "kick", "rekick"} => On("launchd")
  /\ pc \in {"write", "reload", "enable", "undo", "undoEnable", "undone"} =>
       op \in Installs /\ "mine" \in seen /\ job.prev \in Replaceable
  /\ pc = "halt" => op \in {"stop", "uninstall"} \/ (op = "restart" /\ On("task"))
  /\ pc \in {"disable", "remove", "reloaded"} => op = "uninstall"
  /\ pc \in {"halt", "disable", "remove", "reloaded"} /\ op = "uninstall" => "mine" \in seen
  /\ pc \in {"launch", "unload", "load", "kick", "rekick", "ready"} => op \in Starts
  /\ job.blind => On("launchd") /\ pc \in {"remove", "verify", "unload", "load", "kick", "ready", "done"}

\* What success means has been the case by the time it is reported.
AchievedInv ==
  /\ On("launchd") /\ loaded = "none" => run = "none"
  /\ pc \in {"disable", "remove", "reloaded", "verify"} /\ op \in {"stop", "uninstall"} =>
       job.blind \/ "down" \in seen
  /\ pc = "verify" /\ op \in Starts => "answered" \in seen
  /\ pc \in {"unload", "load"} /\ op = "restart" => job.blind \/ loaded = "none"
  /\ pc = "kick" /\ op = "restart" => job.blind \/ run = "none" \/ new
  /\ pc \in {"ready", "verify"} /\ op = "restart" => job.blind \/ "new" \in seen
  /\ pc = "launch" /\ op = "restart" /\ On("task") => run = "none"

\* Past the reload the service manager knows the definition that was installed.
InstalledInv ==
  /\ On("systemd") /\ op \in Installs /\ def \in Mine
       /\ (pc \in {"enable", "launch", "ready", "verify"} \/ result = "ok") => loaded = def
  /\ settled /\ op \notin Installs \cup {"uninstall"} =>
       def \in Mine /\ (On("systemd") => loaded = def)
  /\ settled /\ op = "restart" /\ ~On("launchd")
       /\ (pc \in {"ready", "verify"} \/ result = "ok") => run \in {def, "none"}

IInv == TypeOK /\ ProgressInv /\ OwnerInv /\ AchievedInv /\ InstalledInv

USE VersionsAssumption, MeddlesAssumption DEF VersionsAssumption, MeddlesAssumption
-----------------------------------------------------------------------------
LEMMA FactsAre ==
  /\ "mine" \in C!Facts <=> def # "foreign"
  /\ "down" \in C!Facts <=> run = "none" \/ def = "none"
  /\ "answered" \in C!Facts <=> run # "none" \/ squatter
  /\ "new" \in C!Facts <=> new
BY DEF C!Facts

LEMMA FactsWillBe ==
  /\ ("mine" \in C!Facts)' <=> def' # "foreign"
  /\ ("down" \in C!Facts)' <=> run' = "none" \/ def' = "none"
  /\ ("answered" \in C!Facts)' <=> run' # "none" \/ squatter'
  /\ ("new" \in C!Facts)' <=> new'
BY DEF C!Facts

LEMMA NoJobSees == ~NoJob.blind
BY DEF NoJob

LEMMA JobFields ==
  ASSUME NEW j \in Jobs
  PROVE  /\ j.prev \in C!Definitions /\ j.start \in BOOLEAN /\ j.blind \in BOOLEAN
         /\ \A d \in C!Definitions : LET k == [j EXCEPT !.prev = d] IN
              k \in Jobs /\ k.prev = d /\ k.start = j.start /\ k.blind = j.blind
         /\ \A b \in BOOLEAN : LET k == [j EXCEPT !.blind = b] IN
              k \in Jobs /\ k.prev = j.prev /\ k.start = j.start /\ k.blind = b
BY DEF Jobs

\* What the contract allows a step of an operation: the definition changes only if the
\* operation has seen it to be PMux's own or missing, and success comes last.  Only launchd
\* takes a job it could not read for a stopped one.
Allowed ==
  /\ op # "none" /\ result = "none" /\ result' \in {"none", "ok", "failed"}
  /\ UNCHANGED <<backend, want, squatter, meddles, op, settled>>
  /\ seen' = seen \cup C!Facts'
  /\ new' \in {new, TRUE}
  /\ \/ def' = def
     \/ /\ op \in Installs \cup {"uninstall"} /\ "mine" \in seen
        /\ def' \in IF op = "uninstall" THEN {"none"} ELSE Versions \cup {"none"}
        /\ UNCHANGED <<run, new>> /\ result' \in {"none", "failed"}
  /\ \/ job'.blind = job.blind
     \/ On("launchd") /\ job'.blind = TRUE /\ UNCHANGED <<def, run, new, result>>
  /\ result' = "ok" => pc = "verify" /\ UNCHANGED <<def, run, new, job>>

Operate ==
  \/ ReadStatus \/ Confirm \/ VerifyStatus
  \/ CheckInstall \/ WriteDefinition \/ DaemonReload \/ EnableUnit \/ UndoInstall \/ ReloadUndone
  \/ CheckUninstall \/ CheckStop \/ StopUnit \/ StopTask \/ BootOut
  \/ DisableUnit \/ RemoveDefinition \/ ReloadRemoved
  \/ CheckStart \/ StartUnit \/ RestartUnit \/ StartTask \/ ReadJob \/ Rekick
  \/ Unload \/ BootStrap \/ Kickstart \/ WaitReady

\* The steps of an operation are written with these.
USE DEF Go, GoWith, Fail, Finish, Same, Call, Try, Define, Reload, Enable, Launch, Halt,
        Bootout, Unchanged, fixed, svc, C!Record, On, AfterInstall, AfterHalt, Mine, Absent,
        Replaceable, Relaunch, Load, Installs, Starts

LEMMA ReadStatusStep ==
  ASSUME IInv, ReadStatus
  PROVE  IInv' /\ Allowed
<1>1. TypeOK /\ op # "none" /\ job \in Jobs
  BY DEF IInv, TypeOK, ProgressInv, ReadStatus
<1>2. TypeOK' /\ UNCHANGED <<fixed, op, settled>> /\ seen' = seen \cup C!Facts'
  BY <1>1, JobFields DEF TypeOK, ReadStatus, C!Definitions, C!Processes, PCs
<1>3. ProgressInv'
  BY <1>1, <1>2, JobFields DEF IInv, ProgressInv, ReadStatus
<1>4. OwnerInv'
  BY <1>1, <1>2, JobFields, FactsAre DEF IInv, ProgressInv, OwnerInv, ReadStatus
<1>5. AchievedInv'
  BY <1>1, <1>2, JobFields, FactsAre, FactsWillBe DEF IInv, ProgressInv, OwnerInv, AchievedInv, ReadStatus
<1>6. InstalledInv'
  BY <1>1, <1>2 DEF IInv, ProgressInv, OwnerInv, AchievedInv, InstalledInv, ReadStatus
<1>7. Allowed
  BY <1>1, <1>2 DEF TypeOK, IInv, ProgressInv, OwnerInv, Allowed, ReadStatus
<1> QED
  BY <1>2, <1>3, <1>4, <1>5, <1>6, <1>7 DEF IInv

LEMMA ConfirmStep ==
  ASSUME IInv, Confirm
  PROVE  IInv' /\ Allowed
<1>1. TypeOK /\ op # "none" /\ job \in Jobs
  BY DEF IInv, TypeOK, ProgressInv, Confirm
<1>2. TypeOK' /\ UNCHANGED <<fixed, op, settled>> /\ seen' = seen \cup C!Facts'
  BY <1>1, JobFields DEF TypeOK, Confirm, C!Definitions, C!Processes, PCs
<1>3. ProgressInv'
  BY <1>1, <1>2, JobFields DEF IInv, ProgressInv, Confirm
<1>4. OwnerInv'
  BY <1>1, <1>2, JobFields, FactsAre DEF IInv, ProgressInv, OwnerInv, Confirm
<1>5. AchievedInv'
  BY <1>1, <1>2, JobFields, FactsAre, FactsWillBe DEF IInv, ProgressInv, OwnerInv, AchievedInv, Confirm
<1>6. InstalledInv'
  BY <1>1, <1>2 DEF IInv, ProgressInv, OwnerInv, AchievedInv, InstalledInv, Confirm
<1>7. Allowed
  BY <1>1, <1>2 DEF TypeOK, IInv, ProgressInv, OwnerInv, Allowed, Confirm
<1> QED
  BY <1>2, <1>3, <1>4, <1>5, <1>6, <1>7 DEF IInv

LEMMA VerifyStatusStep ==
  ASSUME IInv, VerifyStatus
  PROVE  IInv' /\ Allowed
<1>1. TypeOK /\ op # "none" /\ job \in Jobs
  BY DEF IInv, TypeOK, ProgressInv, VerifyStatus
<1>2. TypeOK' /\ UNCHANGED <<fixed, op, settled>> /\ seen' = seen \cup C!Facts'
  BY <1>1, JobFields DEF TypeOK, VerifyStatus, C!Definitions, C!Processes, PCs
<1>3. ProgressInv'
  BY <1>1, <1>2, JobFields DEF IInv, ProgressInv, VerifyStatus
<1>4. OwnerInv'
  BY <1>1, <1>2, JobFields, FactsAre DEF IInv, ProgressInv, OwnerInv, VerifyStatus
<1>5. AchievedInv'
  BY <1>1, <1>2, JobFields, FactsAre, FactsWillBe DEF IInv, ProgressInv, OwnerInv, AchievedInv, VerifyStatus
<1>6. InstalledInv'
  BY <1>1, <1>2 DEF IInv, ProgressInv, OwnerInv, AchievedInv, InstalledInv, VerifyStatus
<1>7. Allowed
  BY <1>1, <1>2 DEF TypeOK, IInv, ProgressInv, OwnerInv, Allowed, VerifyStatus
<1> QED
  BY <1>2, <1>3, <1>4, <1>5, <1>6, <1>7 DEF IInv

LEMMA CheckInstallStep ==
  ASSUME IInv, CheckInstall
  PROVE  IInv' /\ Allowed
<1>1. TypeOK /\ op # "none" /\ job \in Jobs
  BY DEF IInv, TypeOK, ProgressInv, CheckInstall
<1>2. TypeOK' /\ UNCHANGED <<fixed, op, settled>> /\ seen' = seen \cup C!Facts'
  BY <1>1, JobFields DEF TypeOK, CheckInstall, C!Definitions, C!Processes, PCs
<1>a. job'.start = job.start /\ job'.blind = job.blind /\ (pc' = "write" => job'.prev = def)
  <2>1. job' = [job EXCEPT !.prev = def] \/ (pc' # "write" /\ job' = job)
    BY DEF CheckInstall
  <2> QED
    BY <1>1, <2>1 DEF Jobs
<1>3. ProgressInv'
  BY <1>1, <1>2, <1>a DEF IInv, ProgressInv, CheckInstall
<1>4. OwnerInv'
  BY <1>1, <1>2, <1>a, FactsAre DEF IInv, ProgressInv, OwnerInv, CheckInstall
<1>5. AchievedInv'
  BY <1>1, <1>2, JobFields, FactsAre, FactsWillBe DEF IInv, ProgressInv, OwnerInv, AchievedInv, CheckInstall
<1>6. InstalledInv'
  BY <1>1, <1>2 DEF IInv, ProgressInv, OwnerInv, AchievedInv, InstalledInv, CheckInstall
<1>7. Allowed
  BY <1>1, <1>2, <1>a DEF TypeOK, IInv, ProgressInv, OwnerInv, Allowed, CheckInstall
<1> QED
  BY <1>2, <1>3, <1>4, <1>5, <1>6, <1>7 DEF IInv

LEMMA WriteDefinitionStep ==
  ASSUME IInv, WriteDefinition
  PROVE  IInv' /\ Allowed
<1>1. TypeOK /\ op # "none" /\ job \in Jobs
  BY DEF IInv, TypeOK, ProgressInv, WriteDefinition
<1>2. TypeOK' /\ UNCHANGED <<fixed, op, settled>> /\ seen' = seen \cup C!Facts'
  BY <1>1, JobFields DEF TypeOK, WriteDefinition, C!Definitions, C!Processes, PCs
<1>3. ProgressInv'
  BY <1>1, <1>2, JobFields DEF IInv, ProgressInv, WriteDefinition
<1>4. OwnerInv'
  BY <1>1, <1>2, JobFields, FactsAre DEF IInv, ProgressInv, OwnerInv, WriteDefinition
<1>5. AchievedInv'
  BY <1>1, <1>2, JobFields, FactsAre, FactsWillBe DEF IInv, ProgressInv, OwnerInv, AchievedInv, WriteDefinition
<1>6. InstalledInv'
  BY <1>1, <1>2 DEF IInv, ProgressInv, OwnerInv, AchievedInv, InstalledInv, WriteDefinition
<1>7. Allowed
  BY <1>1, <1>2 DEF TypeOK, IInv, ProgressInv, OwnerInv, Allowed, WriteDefinition
<1> QED
  BY <1>2, <1>3, <1>4, <1>5, <1>6, <1>7 DEF IInv

LEMMA DaemonReloadStep ==
  ASSUME IInv, DaemonReload
  PROVE  IInv' /\ Allowed
<1>1. TypeOK /\ op # "none" /\ job \in Jobs
  BY DEF IInv, TypeOK, ProgressInv, DaemonReload
<1>2. TypeOK' /\ UNCHANGED <<fixed, op, settled>> /\ seen' = seen \cup C!Facts'
  BY <1>1, JobFields DEF TypeOK, DaemonReload, C!Definitions, C!Processes, PCs
<1>3. ProgressInv'
  BY <1>1, <1>2, JobFields DEF IInv, ProgressInv, DaemonReload
<1>4. OwnerInv'
  BY <1>1, <1>2, JobFields, FactsAre DEF IInv, ProgressInv, OwnerInv, DaemonReload
<1>5. AchievedInv'
  BY <1>1, <1>2, JobFields, FactsAre, FactsWillBe DEF IInv, ProgressInv, OwnerInv, AchievedInv, DaemonReload
<1>6. InstalledInv'
  BY <1>1, <1>2 DEF IInv, ProgressInv, OwnerInv, AchievedInv, InstalledInv, DaemonReload
<1>7. Allowed
  BY <1>1, <1>2 DEF TypeOK, IInv, ProgressInv, OwnerInv, Allowed, DaemonReload
<1> QED
  BY <1>2, <1>3, <1>4, <1>5, <1>6, <1>7 DEF IInv

LEMMA EnableUnitStep ==
  ASSUME IInv, EnableUnit
  PROVE  IInv' /\ Allowed
<1>1. TypeOK /\ op # "none" /\ job \in Jobs
  BY DEF IInv, TypeOK, ProgressInv, EnableUnit
<1>2. TypeOK' /\ UNCHANGED <<fixed, op, settled>> /\ seen' = seen \cup C!Facts'
  <2>1. UNCHANGED <<fixed, op, settled>> /\ seen' = seen \cup C!Facts'
    BY DEF EnableUnit
  <2>2. /\ def' \in C!Definitions /\ loaded' \in C!Definitions /\ run' \in C!Processes
        /\ pc' \in PCs /\ result' \in {"none", "ok", "failed"}
    BY <1>1 DEF TypeOK, EnableUnit, C!Definitions, C!Processes, PCs
  <2>3. enabled' \in BOOLEAN /\ new' \in BOOLEAN
    BY <1>1 DEF TypeOK, EnableUnit
  <2>4. job' \in Jobs
    <3>1. job' = job 
      BY DEF EnableUnit
    <3> QED
      BY <1>1, <3>1, JobFields
  <2> QED
    BY <1>1, <2>1, <2>2, <2>3, <2>4 DEF TypeOK
<1>3. ProgressInv'
  BY <1>1, <1>2, JobFields DEF IInv, ProgressInv, EnableUnit
<1>4. OwnerInv'
  BY <1>1, <1>2, JobFields, FactsAre DEF IInv, ProgressInv, OwnerInv, EnableUnit
<1>5. AchievedInv'
  BY <1>1, <1>2, JobFields, FactsAre, FactsWillBe DEF IInv, ProgressInv, OwnerInv, AchievedInv, EnableUnit
<1>6. InstalledInv'
  BY <1>1, <1>2 DEF IInv, ProgressInv, OwnerInv, AchievedInv, InstalledInv, EnableUnit
<1>7. Allowed
  BY <1>1, <1>2 DEF TypeOK, IInv, ProgressInv, OwnerInv, Allowed, EnableUnit
<1> QED
  BY <1>2, <1>3, <1>4, <1>5, <1>6, <1>7 DEF IInv

LEMMA UndoInstallStep ==
  ASSUME IInv, UndoInstall
  PROVE  IInv' /\ Allowed
<1>1. TypeOK /\ op # "none" /\ job \in Jobs
  BY DEF IInv, TypeOK, ProgressInv, UndoInstall
<1>2. TypeOK' /\ UNCHANGED <<fixed, op, settled>> /\ seen' = seen \cup C!Facts'
  BY <1>1, JobFields DEF TypeOK, UndoInstall, C!Definitions, C!Processes, PCs
<1>3. ProgressInv'
  BY <1>1, <1>2, JobFields DEF IInv, ProgressInv, UndoInstall
<1>4. OwnerInv'
  BY <1>1, <1>2, JobFields, FactsAre DEF IInv, ProgressInv, OwnerInv, UndoInstall
<1>5. AchievedInv'
  BY <1>1, <1>2, JobFields, FactsAre, FactsWillBe DEF IInv, ProgressInv, OwnerInv, AchievedInv, UndoInstall
<1>6. InstalledInv'
  BY <1>1, <1>2 DEF IInv, ProgressInv, OwnerInv, AchievedInv, InstalledInv, UndoInstall
<1>7. Allowed
  BY <1>1, <1>2 DEF TypeOK, IInv, ProgressInv, OwnerInv, Allowed, UndoInstall
<1> QED
  BY <1>2, <1>3, <1>4, <1>5, <1>6, <1>7 DEF IInv

LEMMA ReloadUndoneStep ==
  ASSUME IInv, ReloadUndone
  PROVE  IInv' /\ Allowed
<1>1. TypeOK /\ op # "none" /\ job \in Jobs
  BY DEF IInv, TypeOK, ProgressInv, ReloadUndone
<1>2. TypeOK' /\ UNCHANGED <<fixed, op, settled>> /\ seen' = seen \cup C!Facts'
  BY <1>1, JobFields DEF TypeOK, ReloadUndone, C!Definitions, C!Processes, PCs
<1>3. ProgressInv'
  BY <1>1, <1>2, JobFields DEF IInv, ProgressInv, ReloadUndone
<1>4. OwnerInv'
  BY <1>1, <1>2, JobFields, FactsAre DEF IInv, ProgressInv, OwnerInv, ReloadUndone
<1>5. AchievedInv'
  BY <1>1, <1>2, JobFields, FactsAre, FactsWillBe DEF IInv, ProgressInv, OwnerInv, AchievedInv, ReloadUndone
<1>6. InstalledInv'
  BY <1>1, <1>2 DEF IInv, ProgressInv, OwnerInv, AchievedInv, InstalledInv, ReloadUndone
<1>7. Allowed
  BY <1>1, <1>2 DEF TypeOK, IInv, ProgressInv, OwnerInv, Allowed, ReloadUndone
<1> QED
  BY <1>2, <1>3, <1>4, <1>5, <1>6, <1>7 DEF IInv

LEMMA CheckUninstallStep ==
  ASSUME IInv, CheckUninstall
  PROVE  IInv' /\ Allowed
<1>1. TypeOK /\ op # "none" /\ job \in Jobs
  BY DEF IInv, TypeOK, ProgressInv, CheckUninstall
<1>2. TypeOK' /\ UNCHANGED <<fixed, op, settled>> /\ seen' = seen \cup C!Facts'
  BY <1>1, JobFields DEF TypeOK, CheckUninstall, C!Definitions, C!Processes, PCs
<1>3. ProgressInv'
  BY <1>1, <1>2, JobFields DEF IInv, ProgressInv, CheckUninstall
<1>4. OwnerInv'
  BY <1>1, <1>2, JobFields, FactsAre DEF IInv, ProgressInv, OwnerInv, CheckUninstall
<1>5. AchievedInv'
  BY <1>1, <1>2, JobFields, FactsAre, FactsWillBe DEF IInv, ProgressInv, OwnerInv, AchievedInv, CheckUninstall
<1>6. InstalledInv'
  BY <1>1, <1>2 DEF IInv, ProgressInv, OwnerInv, AchievedInv, InstalledInv, CheckUninstall
<1>7. Allowed
  BY <1>1, <1>2 DEF TypeOK, IInv, ProgressInv, OwnerInv, Allowed, CheckUninstall
<1> QED
  BY <1>2, <1>3, <1>4, <1>5, <1>6, <1>7 DEF IInv

LEMMA CheckStopStep ==
  ASSUME IInv, CheckStop
  PROVE  IInv' /\ Allowed
<1>1. TypeOK /\ op # "none" /\ job \in Jobs
  BY DEF IInv, TypeOK, ProgressInv, CheckStop
<1>2. TypeOK' /\ UNCHANGED <<fixed, op, settled>> /\ seen' = seen \cup C!Facts'
  BY <1>1, JobFields DEF TypeOK, CheckStop, C!Definitions, C!Processes, PCs
<1>3. ProgressInv'
  BY <1>1, <1>2, JobFields DEF IInv, ProgressInv, CheckStop
<1>4. OwnerInv'
  BY <1>1, <1>2, JobFields, FactsAre DEF IInv, ProgressInv, OwnerInv, CheckStop
<1>5. AchievedInv'
  BY <1>1, <1>2, JobFields, FactsAre, FactsWillBe DEF IInv, ProgressInv, OwnerInv, AchievedInv, CheckStop
<1>6. InstalledInv'
  BY <1>1, <1>2 DEF IInv, ProgressInv, OwnerInv, AchievedInv, InstalledInv, CheckStop
<1>7. Allowed
  BY <1>1, <1>2 DEF TypeOK, IInv, ProgressInv, OwnerInv, Allowed, CheckStop
<1> QED
  BY <1>2, <1>3, <1>4, <1>5, <1>6, <1>7 DEF IInv

LEMMA StopUnitStep ==
  ASSUME IInv, StopUnit
  PROVE  IInv' /\ Allowed
<1>1. TypeOK /\ op # "none" /\ job \in Jobs
  BY DEF IInv, TypeOK, ProgressInv, StopUnit
<1>2. TypeOK' /\ UNCHANGED <<fixed, op, settled>> /\ seen' = seen \cup C!Facts'
  BY <1>1, JobFields DEF TypeOK, StopUnit, C!Definitions, C!Processes, PCs
<1>3. ProgressInv'
  BY <1>1, <1>2, JobFields DEF IInv, ProgressInv, StopUnit
<1>4. OwnerInv'
  BY <1>1, <1>2, JobFields, FactsAre DEF IInv, ProgressInv, OwnerInv, StopUnit
<1>5. AchievedInv'
  BY <1>1, <1>2, JobFields, FactsAre, FactsWillBe DEF IInv, ProgressInv, OwnerInv, AchievedInv, StopUnit
<1>6. InstalledInv'
  BY <1>1, <1>2 DEF IInv, ProgressInv, OwnerInv, AchievedInv, InstalledInv, StopUnit
<1>7. Allowed
  BY <1>1, <1>2 DEF TypeOK, IInv, ProgressInv, OwnerInv, Allowed, StopUnit
<1> QED
  BY <1>2, <1>3, <1>4, <1>5, <1>6, <1>7 DEF IInv

LEMMA StopTaskStep ==
  ASSUME IInv, StopTask
  PROVE  IInv' /\ Allowed
<1>1. TypeOK /\ op # "none" /\ job \in Jobs
  BY DEF IInv, TypeOK, ProgressInv, StopTask
<1>2. TypeOK' /\ UNCHANGED <<fixed, op, settled>> /\ seen' = seen \cup C!Facts'
  BY <1>1, JobFields DEF TypeOK, StopTask, C!Definitions, C!Processes, PCs
<1>3. ProgressInv'
  BY <1>1, <1>2, JobFields DEF IInv, ProgressInv, StopTask
<1>4. OwnerInv'
  BY <1>1, <1>2, JobFields, FactsAre DEF IInv, ProgressInv, OwnerInv, StopTask
<1>5. AchievedInv'
  BY <1>1, <1>2, JobFields, FactsAre, FactsWillBe DEF IInv, ProgressInv, OwnerInv, AchievedInv, StopTask
<1>6. InstalledInv'
  BY <1>1, <1>2 DEF IInv, ProgressInv, OwnerInv, AchievedInv, InstalledInv, StopTask
<1>7. Allowed
  BY <1>1, <1>2 DEF TypeOK, IInv, ProgressInv, OwnerInv, Allowed, StopTask
<1> QED
  BY <1>2, <1>3, <1>4, <1>5, <1>6, <1>7 DEF IInv

LEMMA BootOutStep ==
  ASSUME IInv, BootOut
  PROVE  IInv' /\ Allowed
<1>1. TypeOK /\ op # "none" /\ job \in Jobs
  BY DEF IInv, TypeOK, ProgressInv, BootOut
<1>2. TypeOK' /\ UNCHANGED <<fixed, op, settled>> /\ seen' = seen \cup C!Facts'
  <2>1. UNCHANGED <<fixed, op, settled>> /\ seen' = seen \cup C!Facts'
    BY DEF BootOut
  <2>2. /\ def' \in C!Definitions /\ loaded' \in C!Definitions /\ run' \in C!Processes
        /\ pc' \in PCs /\ result' \in {"none", "ok", "failed"}
    BY <1>1 DEF TypeOK, BootOut, C!Definitions, C!Processes, PCs
  <2>3. enabled' \in BOOLEAN /\ new' \in BOOLEAN
    BY <1>1 DEF TypeOK, BootOut
  <2>4. job' \in Jobs
    <3>1. job' = job \/ \E b \in BOOLEAN : job' = [job EXCEPT !.blind = b]
      BY DEF BootOut
    <3> QED
      BY <1>1, <3>1, JobFields
  <2> QED
    BY <1>1, <2>1, <2>2, <2>3, <2>4 DEF TypeOK
<1>a. /\ job'.start = job.start /\ job'.prev = job.prev
      /\ \/ pc' = "done" \/ job'.blind \/ loaded = "none" \/ run' = "none"
      /\ \/ job'.blind = job.blind
         \/ /\ job'.blind = (loaded # "none") /\ pc' = AfterHalt
            /\ UNCHANGED <<def, run, new, result>>
  <2>1. \/ job' = job /\ (pc' = "done" \/ run' = "none")
        \/ /\ job' = [job EXCEPT !.blind = (loaded # "none")] /\ pc' = AfterHalt
           /\ UNCHANGED <<def, run, new, result>>
    BY DEF BootOut
  <2> QED
    BY <1>1, <2>1 DEF Jobs
<1>3. ProgressInv'
  BY <1>1, <1>2, <1>a DEF IInv, ProgressInv, BootOut
<1>4. OwnerInv'
  BY <1>1, <1>2, <1>a, FactsAre DEF IInv, ProgressInv, OwnerInv, BootOut
<1>5. AchievedInv'
  BY <1>1, <1>2, <1>a, FactsAre, FactsWillBe DEF IInv, ProgressInv, OwnerInv, AchievedInv, BootOut
<1>6. InstalledInv'
  BY <1>1, <1>2 DEF IInv, ProgressInv, OwnerInv, AchievedInv, InstalledInv, BootOut
<1>b. job.blind = FALSE
  BY <1>1, JobFields DEF IInv, OwnerInv, BootOut
<1>7. Allowed
  BY <1>1, <1>2, <1>a, <1>b DEF TypeOK, IInv, ProgressInv, OwnerInv, Allowed, BootOut
<1> QED
  BY <1>2, <1>3, <1>4, <1>5, <1>6, <1>7 DEF IInv

LEMMA DisableUnitStep ==
  ASSUME IInv, DisableUnit
  PROVE  IInv' /\ Allowed
<1>1. TypeOK /\ op # "none" /\ job \in Jobs
  BY DEF IInv, TypeOK, ProgressInv, DisableUnit
<1>2. TypeOK' /\ UNCHANGED <<fixed, op, settled>> /\ seen' = seen \cup C!Facts'
  <2>1. UNCHANGED <<fixed, op, settled>> /\ seen' = seen \cup C!Facts'
    BY DEF DisableUnit
  <2>2. /\ def' \in C!Definitions /\ loaded' \in C!Definitions /\ run' \in C!Processes
        /\ pc' \in PCs /\ result' \in {"none", "ok", "failed"}
    BY <1>1 DEF TypeOK, DisableUnit, C!Definitions, C!Processes, PCs
  <2>3. enabled' \in BOOLEAN /\ new' \in BOOLEAN
    BY <1>1 DEF TypeOK, DisableUnit
  <2>4. job' \in Jobs
    <3>1. job' = job 
      BY DEF DisableUnit
    <3> QED
      BY <1>1, <3>1, JobFields
  <2> QED
    BY <1>1, <2>1, <2>2, <2>3, <2>4 DEF TypeOK
<1>3. ProgressInv'
  BY <1>1, <1>2, JobFields DEF IInv, ProgressInv, DisableUnit
<1>4. OwnerInv'
  BY <1>1, <1>2, JobFields, FactsAre DEF IInv, ProgressInv, OwnerInv, DisableUnit
<1>5. AchievedInv'
  BY <1>1, <1>2, JobFields, FactsAre, FactsWillBe DEF IInv, ProgressInv, OwnerInv, AchievedInv, DisableUnit
<1>6. InstalledInv'
  BY <1>1, <1>2 DEF IInv, ProgressInv, OwnerInv, AchievedInv, InstalledInv, DisableUnit
<1>7. Allowed
  BY <1>1, <1>2 DEF TypeOK, IInv, ProgressInv, OwnerInv, Allowed, DisableUnit
<1> QED
  BY <1>2, <1>3, <1>4, <1>5, <1>6, <1>7 DEF IInv

LEMMA RemoveDefinitionStep ==
  ASSUME IInv, RemoveDefinition
  PROVE  IInv' /\ Allowed
<1>1. TypeOK /\ op # "none" /\ job \in Jobs
  BY DEF IInv, TypeOK, ProgressInv, RemoveDefinition
<1>2. TypeOK' /\ UNCHANGED <<fixed, op, settled>> /\ seen' = seen \cup C!Facts'
  BY <1>1, JobFields DEF TypeOK, RemoveDefinition, C!Definitions, C!Processes, PCs
<1>3. ProgressInv'
  BY <1>1, <1>2, JobFields DEF IInv, ProgressInv, RemoveDefinition
<1>4. OwnerInv'
  BY <1>1, <1>2, JobFields, FactsAre DEF IInv, ProgressInv, OwnerInv, RemoveDefinition
<1>5. AchievedInv'
  BY <1>1, <1>2, JobFields, FactsAre, FactsWillBe DEF IInv, ProgressInv, OwnerInv, AchievedInv, RemoveDefinition
<1>6. InstalledInv'
  BY <1>1, <1>2 DEF IInv, ProgressInv, OwnerInv, AchievedInv, InstalledInv, RemoveDefinition
<1>7. Allowed
  BY <1>1, <1>2 DEF TypeOK, IInv, ProgressInv, OwnerInv, Allowed, RemoveDefinition
<1> QED
  BY <1>2, <1>3, <1>4, <1>5, <1>6, <1>7 DEF IInv

LEMMA ReloadRemovedStep ==
  ASSUME IInv, ReloadRemoved
  PROVE  IInv' /\ Allowed
<1>1. TypeOK /\ op # "none" /\ job \in Jobs
  BY DEF IInv, TypeOK, ProgressInv, ReloadRemoved
<1>2. TypeOK' /\ UNCHANGED <<fixed, op, settled>> /\ seen' = seen \cup C!Facts'
  BY <1>1, JobFields DEF TypeOK, ReloadRemoved, C!Definitions, C!Processes, PCs
<1>3. ProgressInv'
  BY <1>1, <1>2, JobFields DEF IInv, ProgressInv, ReloadRemoved
<1>4. OwnerInv'
  BY <1>1, <1>2, JobFields, FactsAre DEF IInv, ProgressInv, OwnerInv, ReloadRemoved
<1>5. AchievedInv'
  BY <1>1, <1>2, JobFields, FactsAre, FactsWillBe DEF IInv, ProgressInv, OwnerInv, AchievedInv, ReloadRemoved
<1>6. InstalledInv'
  BY <1>1, <1>2 DEF IInv, ProgressInv, OwnerInv, AchievedInv, InstalledInv, ReloadRemoved
<1>7. Allowed
  BY <1>1, <1>2 DEF TypeOK, IInv, ProgressInv, OwnerInv, Allowed, ReloadRemoved
<1> QED
  BY <1>2, <1>3, <1>4, <1>5, <1>6, <1>7 DEF IInv

LEMMA CheckStartStep ==
  ASSUME IInv, CheckStart
  PROVE  IInv' /\ Allowed
<1>1. TypeOK /\ op # "none" /\ job \in Jobs
  BY DEF IInv, TypeOK, ProgressInv, CheckStart
<1>2. TypeOK' /\ UNCHANGED <<fixed, op, settled>> /\ seen' = seen \cup C!Facts'
  BY <1>1, JobFields DEF TypeOK, CheckStart, C!Definitions, C!Processes, PCs
<1>3. ProgressInv'
  BY <1>1, <1>2, JobFields DEF IInv, ProgressInv, CheckStart
<1>4. OwnerInv'
  BY <1>1, <1>2, JobFields, FactsAre DEF IInv, ProgressInv, OwnerInv, CheckStart
<1>5. AchievedInv'
  BY <1>1, <1>2, JobFields, FactsAre, FactsWillBe DEF IInv, ProgressInv, OwnerInv, AchievedInv, CheckStart
<1>6. InstalledInv'
  BY <1>1, <1>2 DEF IInv, ProgressInv, OwnerInv, AchievedInv, InstalledInv, CheckStart
<1>7. Allowed
  BY <1>1, <1>2 DEF TypeOK, IInv, ProgressInv, OwnerInv, Allowed, CheckStart
<1> QED
  BY <1>2, <1>3, <1>4, <1>5, <1>6, <1>7 DEF IInv

LEMMA StartUnitStep ==
  ASSUME IInv, StartUnit
  PROVE  IInv' /\ Allowed
<1>1. TypeOK /\ op # "none" /\ job \in Jobs
  BY DEF IInv, TypeOK, ProgressInv, StartUnit
<1>2. TypeOK' /\ UNCHANGED <<fixed, op, settled>> /\ seen' = seen \cup C!Facts'
  <2>1. UNCHANGED <<fixed, op, settled>> /\ seen' = seen \cup C!Facts'
    BY DEF StartUnit
  <2>2. /\ def' \in C!Definitions /\ loaded' \in C!Definitions /\ run' \in C!Processes
        /\ pc' \in PCs /\ result' \in {"none", "ok", "failed"}
    BY <1>1 DEF TypeOK, StartUnit, C!Definitions, C!Processes, PCs
  <2>3. enabled' \in BOOLEAN /\ new' \in BOOLEAN
    BY <1>1 DEF TypeOK, StartUnit
  <2>4. job' \in Jobs
    <3>1. job' = job 
      BY DEF StartUnit
    <3> QED
      BY <1>1, <3>1, JobFields
  <2> QED
    BY <1>1, <2>1, <2>2, <2>3, <2>4 DEF TypeOK
<1>3. ProgressInv'
  BY <1>1, <1>2, JobFields DEF IInv, ProgressInv, StartUnit
<1>4. OwnerInv'
  BY <1>1, <1>2, JobFields, FactsAre DEF IInv, ProgressInv, OwnerInv, StartUnit
<1>5. AchievedInv'
  BY <1>1, <1>2, JobFields, FactsAre, FactsWillBe DEF IInv, ProgressInv, OwnerInv, AchievedInv, StartUnit
<1>6. InstalledInv'
  BY <1>1, <1>2 DEF IInv, ProgressInv, OwnerInv, AchievedInv, InstalledInv, StartUnit
<1>7. Allowed
  BY <1>1, <1>2 DEF TypeOK, IInv, ProgressInv, OwnerInv, Allowed, StartUnit
<1> QED
  BY <1>2, <1>3, <1>4, <1>5, <1>6, <1>7 DEF IInv

LEMMA RestartUnitStep ==
  ASSUME IInv, RestartUnit
  PROVE  IInv' /\ Allowed
<1>1. TypeOK /\ op # "none" /\ job \in Jobs
  BY DEF IInv, TypeOK, ProgressInv, RestartUnit
<1>2. TypeOK' /\ UNCHANGED <<fixed, op, settled>> /\ seen' = seen \cup C!Facts'
  <2>1. UNCHANGED <<fixed, op, settled>> /\ seen' = seen \cup C!Facts'
    BY DEF RestartUnit
  <2>2. /\ def' \in C!Definitions /\ loaded' \in C!Definitions /\ run' \in C!Processes
        /\ pc' \in PCs /\ result' \in {"none", "ok", "failed"}
    BY <1>1 DEF TypeOK, RestartUnit, C!Definitions, C!Processes, PCs
  <2>3. enabled' \in BOOLEAN /\ new' \in BOOLEAN
    BY <1>1 DEF TypeOK, RestartUnit
  <2>4. job' \in Jobs
    <3>1. job' = job 
      BY DEF RestartUnit
    <3> QED
      BY <1>1, <3>1, JobFields
  <2> QED
    BY <1>1, <2>1, <2>2, <2>3, <2>4 DEF TypeOK
<1>3. ProgressInv'
  BY <1>1, <1>2, JobFields DEF IInv, ProgressInv, RestartUnit
<1>4. OwnerInv'
  BY <1>1, <1>2, JobFields, FactsAre DEF IInv, ProgressInv, OwnerInv, RestartUnit
<1>5. AchievedInv'
  BY <1>1, <1>2, JobFields, FactsAre, FactsWillBe DEF IInv, ProgressInv, OwnerInv, AchievedInv, RestartUnit
<1>6. InstalledInv'
  BY <1>1, <1>2 DEF IInv, ProgressInv, OwnerInv, AchievedInv, InstalledInv, RestartUnit
<1>7. Allowed
  BY <1>1, <1>2 DEF TypeOK, IInv, ProgressInv, OwnerInv, Allowed, RestartUnit
<1> QED
  BY <1>2, <1>3, <1>4, <1>5, <1>6, <1>7 DEF IInv

LEMMA StartTaskStep ==
  ASSUME IInv, StartTask
  PROVE  IInv' /\ Allowed
<1>1. TypeOK /\ op # "none" /\ job \in Jobs
  BY DEF IInv, TypeOK, ProgressInv, StartTask
<1>2. TypeOK' /\ UNCHANGED <<fixed, op, settled>> /\ seen' = seen \cup C!Facts'
  <2>1. UNCHANGED <<fixed, op, settled>> /\ seen' = seen \cup C!Facts'
    BY DEF StartTask
  <2>2. /\ def' \in C!Definitions /\ loaded' \in C!Definitions /\ run' \in C!Processes
        /\ pc' \in PCs /\ result' \in {"none", "ok", "failed"}
    BY <1>1 DEF TypeOK, StartTask, C!Definitions, C!Processes, PCs
  <2>3. enabled' \in BOOLEAN /\ new' \in BOOLEAN
    BY <1>1 DEF TypeOK, StartTask
  <2>4. job' \in Jobs
    <3>1. job' = job 
      BY DEF StartTask
    <3> QED
      BY <1>1, <3>1, JobFields
  <2> QED
    BY <1>1, <2>1, <2>2, <2>3, <2>4 DEF TypeOK
<1>3. ProgressInv'
  BY <1>1, <1>2, JobFields DEF IInv, ProgressInv, StartTask
<1>4. OwnerInv'
  BY <1>1, <1>2, JobFields, FactsAre DEF IInv, ProgressInv, OwnerInv, StartTask
<1>5. AchievedInv'
  BY <1>1, <1>2, JobFields, FactsAre, FactsWillBe DEF IInv, ProgressInv, OwnerInv, AchievedInv, StartTask
<1>6. InstalledInv'
  BY <1>1, <1>2 DEF IInv, ProgressInv, OwnerInv, AchievedInv, InstalledInv, StartTask
<1>7. Allowed
  BY <1>1, <1>2 DEF TypeOK, IInv, ProgressInv, OwnerInv, Allowed, StartTask
<1> QED
  BY <1>2, <1>3, <1>4, <1>5, <1>6, <1>7 DEF IInv

LEMMA ReadJobStep ==
  ASSUME IInv, ReadJob
  PROVE  IInv' /\ Allowed
<1>1. TypeOK /\ op # "none" /\ job \in Jobs
  BY DEF IInv, TypeOK, ProgressInv, ReadJob
<1>2. TypeOK' /\ UNCHANGED <<fixed, op, settled>> /\ seen' = seen \cup C!Facts'
  <2>1. UNCHANGED <<fixed, op, settled>> /\ seen' = seen \cup C!Facts'
    BY DEF ReadJob
  <2>2. /\ def' \in C!Definitions /\ loaded' \in C!Definitions /\ run' \in C!Processes
        /\ pc' \in PCs /\ result' \in {"none", "ok", "failed"}
    BY <1>1 DEF TypeOK, ReadJob, C!Definitions, C!Processes, PCs
  <2>3. enabled' \in BOOLEAN /\ new' \in BOOLEAN
    BY <1>1 DEF TypeOK, ReadJob
  <2>4. job' \in Jobs
    <3>1. job' = job \/ \E b \in BOOLEAN : job' = [job EXCEPT !.blind = b]
      BY DEF ReadJob
    <3> QED
      BY <1>1, <3>1, JobFields
  <2> QED
    BY <1>1, <2>1, <2>2, <2>3, <2>4 DEF TypeOK
<1>a. /\ job'.start = job.start /\ job'.prev = job.prev
      /\ \/ /\ pc' = "unload" /\ job'.blind = (loaded # "none")
            /\ UNCHANGED <<def, run, new, result>>
         \/ pc' # "unload" /\ job'.blind = job.blind
  <2>1. \/ job' = job /\ pc' # "unload"
        \/ /\ job' = [job EXCEPT !.blind = (loaded # "none")] /\ pc' = "unload"
           /\ UNCHANGED <<def, run, new, result>>
    BY DEF ReadJob
  <2> QED
    BY <1>1, <2>1 DEF Jobs
<1>3. ProgressInv'
  BY <1>1, <1>2, <1>a DEF IInv, ProgressInv, ReadJob
<1>4. OwnerInv'
  BY <1>1, <1>2, <1>a, FactsAre DEF IInv, ProgressInv, OwnerInv, ReadJob
<1>5. AchievedInv'
  BY <1>1, <1>2, <1>a, FactsAre, FactsWillBe DEF IInv, ProgressInv, OwnerInv, AchievedInv, ReadJob
<1>6. InstalledInv'
  BY <1>1, <1>2 DEF IInv, ProgressInv, OwnerInv, AchievedInv, InstalledInv, ReadJob
<1>b. job.blind = FALSE
  BY <1>1, JobFields DEF IInv, OwnerInv, ReadJob
<1>7. Allowed
  BY <1>1, <1>2, <1>a, <1>b DEF TypeOK, IInv, ProgressInv, OwnerInv, Allowed, ReadJob
<1> QED
  BY <1>2, <1>3, <1>4, <1>5, <1>6, <1>7 DEF IInv

LEMMA RekickStep ==
  ASSUME IInv, Rekick
  PROVE  IInv' /\ Allowed
<1>1. TypeOK /\ op # "none" /\ job \in Jobs
  BY DEF IInv, TypeOK, ProgressInv, Rekick
<1>2. TypeOK' /\ UNCHANGED <<fixed, op, settled>> /\ seen' = seen \cup C!Facts'
  <2>1. UNCHANGED <<fixed, op, settled>> /\ seen' = seen \cup C!Facts'
    BY DEF Rekick
  <2>2. /\ def' \in C!Definitions /\ loaded' \in C!Definitions /\ run' \in C!Processes
        /\ pc' \in PCs /\ result' \in {"none", "ok", "failed"}
    BY <1>1 DEF TypeOK, Rekick, C!Definitions, C!Processes, PCs
  <2>3. enabled' \in BOOLEAN /\ new' \in BOOLEAN
    BY <1>1 DEF TypeOK, Rekick
  <2>4. job' \in Jobs
    <3>1. job' = job 
      BY DEF Rekick
    <3> QED
      BY <1>1, <3>1, JobFields
  <2> QED
    BY <1>1, <2>1, <2>2, <2>3, <2>4 DEF TypeOK
<1>3. ProgressInv'
  BY <1>1, <1>2, JobFields DEF IInv, ProgressInv, Rekick
<1>4. OwnerInv'
  BY <1>1, <1>2, JobFields, FactsAre DEF IInv, ProgressInv, OwnerInv, Rekick
<1>5. AchievedInv'
  BY <1>1, <1>2, JobFields, FactsAre, FactsWillBe DEF IInv, ProgressInv, OwnerInv, AchievedInv, Rekick
<1>6. InstalledInv'
  BY <1>1, <1>2 DEF IInv, ProgressInv, OwnerInv, AchievedInv, InstalledInv, Rekick
<1>7. Allowed
  BY <1>1, <1>2 DEF TypeOK, IInv, ProgressInv, OwnerInv, Allowed, Rekick
<1> QED
  BY <1>2, <1>3, <1>4, <1>5, <1>6, <1>7 DEF IInv

LEMMA UnloadStep ==
  ASSUME IInv, Unload
  PROVE  IInv' /\ Allowed
<1>1. TypeOK /\ op # "none" /\ job \in Jobs
  BY DEF IInv, TypeOK, ProgressInv, Unload
<1>2. TypeOK' /\ UNCHANGED <<fixed, op, settled>> /\ seen' = seen \cup C!Facts'
  <2>1. UNCHANGED <<fixed, op, settled>> /\ seen' = seen \cup C!Facts'
    BY DEF Unload
  <2>2. /\ def' \in C!Definitions /\ loaded' \in C!Definitions /\ run' \in C!Processes
        /\ pc' \in PCs /\ result' \in {"none", "ok", "failed"}
    BY <1>1 DEF TypeOK, Unload, C!Definitions, C!Processes, PCs
  <2>3. enabled' \in BOOLEAN /\ new' \in BOOLEAN
    BY <1>1 DEF TypeOK, Unload
  <2>4. job' \in Jobs
    <3>1. job' = job 
      BY DEF Unload
    <3> QED
      BY <1>1, <3>1, JobFields
  <2> QED
    BY <1>1, <2>1, <2>2, <2>3, <2>4 DEF TypeOK
<1>3. ProgressInv'
  BY <1>1, <1>2, JobFields DEF IInv, ProgressInv, Unload
<1>4. OwnerInv'
  BY <1>1, <1>2, JobFields, FactsAre DEF IInv, ProgressInv, OwnerInv, Unload
<1>5. AchievedInv'
  BY <1>1, <1>2, JobFields, FactsAre, FactsWillBe DEF IInv, ProgressInv, OwnerInv, AchievedInv, Unload
<1>6. InstalledInv'
  BY <1>1, <1>2 DEF IInv, ProgressInv, OwnerInv, AchievedInv, InstalledInv, Unload
<1>7. Allowed
  BY <1>1, <1>2 DEF TypeOK, IInv, ProgressInv, OwnerInv, Allowed, Unload
<1> QED
  BY <1>2, <1>3, <1>4, <1>5, <1>6, <1>7 DEF IInv

LEMMA BootStrapStep ==
  ASSUME IInv, BootStrap
  PROVE  IInv' /\ Allowed
<1>1. TypeOK /\ op # "none" /\ job \in Jobs
  BY DEF IInv, TypeOK, ProgressInv, BootStrap
<1>2. TypeOK' /\ UNCHANGED <<fixed, op, settled>> /\ seen' = seen \cup C!Facts'
  <2>1. UNCHANGED <<fixed, op, settled>> /\ seen' = seen \cup C!Facts'
    BY DEF BootStrap
  <2>2. /\ def' \in C!Definitions /\ loaded' \in C!Definitions /\ run' \in C!Processes
        /\ pc' \in PCs /\ result' \in {"none", "ok", "failed"}
    BY <1>1 DEF TypeOK, BootStrap, C!Definitions, C!Processes, PCs
  <2>3. enabled' \in BOOLEAN /\ new' \in BOOLEAN
    BY <1>1 DEF TypeOK, BootStrap
  <2>4. job' \in Jobs
    <3>1. job' = job 
      BY DEF BootStrap
    <3> QED
      BY <1>1, <3>1, JobFields
  <2> QED
    BY <1>1, <2>1, <2>2, <2>3, <2>4 DEF TypeOK
<1>3. ProgressInv'
  BY <1>1, <1>2, JobFields DEF IInv, ProgressInv, BootStrap
<1>4. OwnerInv'
  BY <1>1, <1>2, JobFields, FactsAre DEF IInv, ProgressInv, OwnerInv, BootStrap
<1>5. AchievedInv'
  <2>1. CASE UNCHANGED <<loaded, run, new>>
    BY <1>1, <1>2, <2>1, JobFields, FactsAre, FactsWillBe DEF IInv, ProgressInv, OwnerInv, AchievedInv, BootStrap
  <2>2. CASE ~UNCHANGED <<loaded, run, new>>
    <3>1. /\ loaded' = def /\ def # "none" /\ loaded = "none"
          /\ \/ UNCHANGED <<run, new>>
             \/ run' = def /\ new' = TRUE
      BY <2>2 DEF BootStrap
    <3>2. pc' \in {"kick", "done"} /\ UNCHANGED <<job, op, backend>> /\ On("launchd")
      BY <1>2, <2>2 DEF BootStrap, IInv, OwnerInv
    <3> QED
      BY <1>1, <1>2, <3>1, <3>2 DEF IInv, ProgressInv, OwnerInv, AchievedInv
  <2> QED
    BY <2>1, <2>2
<1>6. InstalledInv'
  BY <1>1, <1>2 DEF IInv, ProgressInv, OwnerInv, AchievedInv, InstalledInv, BootStrap
<1>7. Allowed
  BY <1>1, <1>2 DEF TypeOK, IInv, ProgressInv, OwnerInv, Allowed, BootStrap
<1> QED
  BY <1>2, <1>3, <1>4, <1>5, <1>6, <1>7 DEF IInv

LEMMA KickstartStep ==
  ASSUME IInv, Kickstart
  PROVE  IInv' /\ Allowed
<1>1. TypeOK /\ op # "none" /\ job \in Jobs
  BY DEF IInv, TypeOK, ProgressInv, Kickstart
<1>2. TypeOK' /\ UNCHANGED <<fixed, op, settled>> /\ seen' = seen \cup C!Facts'
  <2>1. UNCHANGED <<fixed, op, settled>> /\ seen' = seen \cup C!Facts'
    BY DEF Kickstart
  <2>2. /\ def' \in C!Definitions /\ loaded' \in C!Definitions /\ run' \in C!Processes
        /\ pc' \in PCs /\ result' \in {"none", "ok", "failed"}
    BY <1>1 DEF TypeOK, Kickstart, C!Definitions, C!Processes, PCs
  <2>3. enabled' \in BOOLEAN /\ new' \in BOOLEAN
    BY <1>1 DEF TypeOK, Kickstart
  <2>4. job' \in Jobs
    <3>1. job' = job 
      BY DEF Kickstart
    <3> QED
      BY <1>1, <3>1, JobFields
  <2> QED
    BY <1>1, <2>1, <2>2, <2>3, <2>4 DEF TypeOK
<1>3. ProgressInv'
  BY <1>1, <1>2, JobFields DEF IInv, ProgressInv, Kickstart
<1>4. OwnerInv'
  BY <1>1, <1>2, JobFields, FactsAre DEF IInv, ProgressInv, OwnerInv, Kickstart
<1>5. AchievedInv'
  BY <1>1, <1>2, JobFields, FactsAre, FactsWillBe DEF IInv, ProgressInv, OwnerInv, AchievedInv, Kickstart
<1>6. InstalledInv'
  BY <1>1, <1>2 DEF IInv, ProgressInv, OwnerInv, AchievedInv, InstalledInv, Kickstart
<1>7. Allowed
  BY <1>1, <1>2 DEF TypeOK, IInv, ProgressInv, OwnerInv, Allowed, Kickstart
<1> QED
  BY <1>2, <1>3, <1>4, <1>5, <1>6, <1>7 DEF IInv

LEMMA WaitReadyStep ==
  ASSUME IInv, WaitReady
  PROVE  IInv' /\ Allowed
<1>1. TypeOK /\ op # "none" /\ job \in Jobs
  BY DEF IInv, TypeOK, ProgressInv, WaitReady
<1>2. TypeOK' /\ UNCHANGED <<fixed, op, settled>> /\ seen' = seen \cup C!Facts'
  BY <1>1, JobFields DEF TypeOK, WaitReady, C!Definitions, C!Processes, PCs
<1>3. ProgressInv'
  BY <1>1, <1>2, JobFields DEF IInv, ProgressInv, WaitReady
<1>4. OwnerInv'
  BY <1>1, <1>2, JobFields, FactsAre DEF IInv, ProgressInv, OwnerInv, WaitReady
<1>5. AchievedInv'
  BY <1>1, <1>2, JobFields, FactsAre, FactsWillBe DEF IInv, ProgressInv, OwnerInv, AchievedInv, WaitReady
<1>6. InstalledInv'
  BY <1>1, <1>2 DEF IInv, ProgressInv, OwnerInv, AchievedInv, InstalledInv, WaitReady
<1>7. Allowed
  BY <1>1, <1>2 DEF TypeOK, IInv, ProgressInv, OwnerInv, Allowed, WaitReady
<1> QED
  BY <1>2, <1>3, <1>4, <1>5, <1>6, <1>7 DEF IInv

-----------------------------------------------------------------------------
(* The command begins and returns, and what others do                      *)

LEMMA BeginStep ==
  ASSUME IInv, Begin
  PROVE  IInv'
<1>1. TypeOK /\ op = "none" /\ result = "none" /\ op' \in C!Ops
  BY DEF IInv, TypeOK, ProgressInv, Begin
<1>2. TypeOK' /\ job'.start = (op' = "installstart") /\ ~job'.blind
  <2>1. job' = [NoJob EXCEPT !.start = (op' = "installstart")]
    BY DEF Begin
  <2>2. job' \in Jobs /\ job'.start = (op' = "installstart") /\ ~job'.blind
    BY <2>1 DEF Jobs, NoJob, C!Definitions
  <2> QED
    BY <1>1, <2>2 DEF TypeOK, Begin, PCs
<1>3. ProgressInv'
  BY <1>1, <1>2, VersionsAssumption DEF IInv, ProgressInv, Begin, C!Ops
<1>4. OwnerInv' /\ AchievedInv'
  BY <1>1, <1>2 DEF IInv, OwnerInv, AchievedInv, Begin
<1>5. InstalledInv'
  BY <1>1, <1>2 DEF IInv, InstalledInv, Begin
<1> QED
  BY <1>2, <1>3, <1>4, <1>5 DEF IInv

LEMMA ReportStep ==
  ASSUME IInv, Report
  PROVE  IInv'
<1>1. TypeOK /\ op \in C!Ops /\ result \in {"ok", "failed"}
  BY DEF IInv, TypeOK, ProgressInv, Report
<1>2. settled' \in BOOLEAN
  <2>1. CASE op \in Installs
    BY <1>1, <2>1 DEF Report
  <2>2. CASE op = "uninstall"
    BY <1>1, <2>2 DEF Report
  <2>3. CASE op \notin Installs \cup {"uninstall"}
    BY <1>1, <2>3 DEF Report, TypeOK
  <2> QED
    BY <2>1, <2>2, <2>3
<1>3. NoJob \in Jobs
  BY DEF NoJob, Jobs, C!Definitions
<1>4. TypeOK'
  BY <1>1, <1>2, <1>3 DEF TypeOK, Report, PCs
<1>5. ProgressInv' /\ OwnerInv' /\ AchievedInv'
  BY <1>1, NoJobSees DEF IInv, ProgressInv, OwnerInv, AchievedInv, Report
<1>6. InstalledInv'
  BY <1>1 DEF IInv, ProgressInv, InstalledInv, Report
<1> QED
  BY <1>4, <1>5, <1>6 DEF IInv

LEMMA ExitStep ==
  ASSUME IInv, Exit
  PROVE  IInv'
<1>1. TypeOK'
  BY DEF IInv, TypeOK, Exit, Quiet, C!Processes
<1>2. op # "none" => C!Facts' \subseteq seen' /\ seen \subseteq seen'
  BY DEF Exit, Quiet, C!Watch
<1>3. UNCHANGED <<backend, def, loaded, pc, job, op, result, settled>> /\ run' = "none"
  BY DEF Exit, Quiet
<1>4. ProgressInv' /\ OwnerInv'
  BY <1>2, <1>3 DEF IInv, ProgressInv, OwnerInv, Quiet
<1>5. op # "none" => \A f \in seen : f \in seen'
  BY <1>2
<1>6. AchievedInv'
  BY <1>3, <1>5 DEF IInv, ProgressInv, AchievedInv
<1>7. InstalledInv'
  BY <1>3 DEF IInv, InstalledInv
<1> QED
  BY <1>1, <1>4, <1>6, <1>7 DEF IInv

LEMMA RebootStep ==
  ASSUME IInv, Reboot
  PROVE  IInv'
<1>1. NoJob \in Jobs
  BY DEF NoJob, Jobs, C!Definitions
<1>2. settled' \in BOOLEAN /\ (settled' => settled /\ op \notin Installs \cup {"uninstall"})
  BY DEF Reboot
<1>3. TypeOK'
  <2>1. loaded' \in C!Definitions /\ run' \in C!Processes
    BY DEF IInv, TypeOK, Reboot, C!Definitions, C!Processes
  <2>2. UNCHANGED <<fixed, def, enabled>> /\ new' = FALSE /\ job' = NoJob /\ pc' = "idle"
        /\ op' = "none" /\ result' = "none"
    BY DEF Reboot
  <2>3. enabled' \in BOOLEAN /\ squatter' \in BOOLEAN /\ new' \in BOOLEAN
    BY <2>2 DEF IInv, TypeOK
  <2> QED
    BY <1>1, <1>2, <2>1, <2>2, <2>3 DEF IInv, TypeOK, PCs
<1>4. ProgressInv' /\ OwnerInv'
  BY NoJobSees DEF Reboot, ProgressInv, OwnerInv
<1>5. AchievedInv'
  <2>1. pc' = "idle" /\ op' = "none" /\ backend' = backend
    BY DEF Reboot
  <2>2. CASE On("launchd")
    <3>1. loaded' = def /\ run' \in {"none", def}
      BY <2>2 DEF Reboot
    <3>2. loaded' = "none" => run' = "none"
      BY <3>1
    <3> QED
      BY <2>1, <3>2 DEF AchievedInv
  <2> QED
    BY <2>1, <2>2 DEF AchievedInv
<1>6. InstalledInv'
  BY <1>2 DEF Reboot, InstalledInv, IInv
<1> QED
  BY <1>3, <1>4, <1>5, <1>6 DEF IInv

LEMMA MeddleStep ==
  ASSUME IInv, Meddle
  PROVE  IInv'
<1>1. TypeOK'
  <2>1. meddles \in 0 .. MaxMeddles /\ meddles < MaxMeddles /\ meddles' = meddles + 1
    BY DEF IInv, TypeOK, Meddle
  <2>2. meddles' \in 0 .. MaxMeddles
    BY <2>1
  <2>3. def' \in C!Definitions /\ settled' \in BOOLEAN
    BY DEF Meddle, C!Definitions
  <2>4. UNCHANGED <<backend, want, squatter, loaded, enabled, run, new, pc, job, op, result>>
    BY DEF Meddle, Quiet
  <2> QED
    BY <2>2, <2>3, <2>4 DEF IInv, TypeOK
<1>2. op # "none" => C!Facts' \subseteq seen' /\ \A f \in seen : f \in seen'
  BY DEF Meddle, Quiet, C!Watch
<1>3. UNCHANGED <<backend, loaded, run, new, pc, job, op, result>> /\ ~settled' /\ def' \notin Mine
  BY DEF Meddle, Quiet
<1>4. ProgressInv'
  BY <1>2, <1>3 DEF IInv, ProgressInv
<1>5. OwnerInv'
  BY <1>2, <1>3 DEF IInv, ProgressInv, OwnerInv
<1>6. AchievedInv'
  BY <1>2, <1>3 DEF IInv, ProgressInv, AchievedInv
<1>7. InstalledInv'
  BY <1>3 DEF IInv, InstalledInv
<1> QED
  BY <1>1, <1>4, <1>5, <1>6, <1>7 DEF IInv

LEMMA RerenderStep ==
  ASSUME IInv, Rerender
  PROVE  IInv'
<1>1. TypeOK'
  BY DEF IInv, TypeOK, Rerender
<1>2. C!Facts' = C!Facts
  BY DEF Rerender, C!Facts
<1>3. ProgressInv' /\ OwnerInv' /\ AchievedInv' /\ InstalledInv'
  BY <1>2 DEF IInv, ProgressInv, OwnerInv, AchievedInv, InstalledInv, Rerender
<1> QED
  BY <1>1, <1>3 DEF IInv

LEMMA OperateStep ==
  ASSUME IInv, Operate
  PROVE  IInv' /\ Allowed
BY ReadStatusStep, ConfirmStep, VerifyStatusStep, CheckInstallStep, WriteDefinitionStep,
   DaemonReloadStep, EnableUnitStep, UndoInstallStep, ReloadUndoneStep, CheckUninstallStep,
   CheckStopStep, StopUnitStep, StopTaskStep, BootOutStep, DisableUnitStep,
   RemoveDefinitionStep, ReloadRemovedStep, CheckStartStep, StartUnitStep, RestartUnitStep,
   StartTaskStep, ReadJobStep, RekickStep, UnloadStep, BootStrapStep,
   KickstartStep, WaitReadyStep, Zenon DEF Operate

LEMMA NextIs ==
  Next <=> Begin \/ Report \/ Operate \/ Exit \/ Reboot \/ Meddle \/ Rerender
BY Zenon DEF Next, Operate

LEMMA InitIInv == Init => IInv
<1> SUFFICES ASSUME Init PROVE IInv
  OBVIOUS
<1>1. NoJob \in Jobs
  BY DEF NoJob, Jobs, C!Definitions
<1>2. TypeOK
  <2>1. enabled \in BOOLEAN /\ new \in BOOLEAN /\ settled \in BOOLEAN /\ squatter \in BOOLEAN
    BY DEF Init
  <2>2. /\ def \in C!Definitions /\ loaded \in C!Definitions /\ run \in C!Processes
        /\ meddles \in 0 .. MaxMeddles
    BY DEF Init, C!Definitions, C!Processes
  <2> QED
    BY <1>1, <2>1, <2>2 DEF Init, TypeOK, PCs
<1>3. ProgressInv /\ OwnerInv /\ AchievedInv /\ InstalledInv
  BY NoJobSees DEF Init, ProgressInv, OwnerInv, AchievedInv, InstalledInv
<1> QED
  BY <1>2, <1>3 DEF IInv

LEMMA NextIInv == IInv /\ [Next]_vars => IInv'
<1> SUFFICES ASSUME IInv, [Next]_vars PROVE IInv'
  OBVIOUS
<1>1. CASE UNCHANGED vars
  <2>1. C!Facts' = C!Facts
    BY <1>1 DEF vars, C!Facts
  <2> QED
    BY <1>1, <2>1 DEF vars, IInv, TypeOK, ProgressInv, OwnerInv, AchievedInv, InstalledInv
<1>2. CASE Next
  BY <1>2, NextIs, BeginStep, ReportStep, OperateStep, ExitStep, RebootStep, MeddleStep,
     RerenderStep, Zenon
<1> QED
  BY <1>1, <1>2

\* What an operation has seen and what the service manager has loaded stays what the
\* code relies on: the inductive invariant of the native backends (systemd.go:105-245,
\* launchd.go:107-261, windowstask/manager.go:107-210).
THEOREM ServiceBackendInvariance == Spec => []IInv
BY InitIInv, NextIInv, PTL DEF Spec

\* The variables of the backends keep their types (domain/service/service.go:18-60).
THEOREM ServiceBackendTypeCorrect == Spec => []TypeOK
<1>1. IInv => TypeOK
  BY DEF IInv
<1> QED
  BY <1>1, ServiceBackendInvariance, PTL

\* After an install that succeeded and that nobody disturbed, a restart that succeeds
\* runs what was installed, with systemd and Task Scheduler; launchd is left out, it keeps
\* a job as it was loaded (systemd.go:139-146, :227-245, windowstask/manager.go:187-210).
THEOREM RestartStaysInstalled == Spec => []RestartRunsInstalled
<1>1. IInv => RestartRunsInstalled
  BY DEF IInv, InstalledInv, RestartRunsInstalled
<1> QED
  BY <1>1, ServiceBackendInvariance, PTL
-----------------------------------------------------------------------------
(* The contract, step by step                                              *)

LEMMA InitRefines == Init => C!Init
<1> SUFFICES ASSUME Init PROVE C!Init
  OBVIOUS
<1>1. ~job.blind
  BY NoJobSees DEF Init
<1> QED
  BY <1>1 DEF Init, C!Init, C!Definitions, C!Processes

LEMMA OperateRefines ==
  ASSUME IInv, Operate
  PROVE  C!Next
<1>1. Allowed /\ IInv'
  BY OperateStep
<1>2. job.blind \in BOOLEAN
  BY JobFields DEF IInv, TypeOK
<1>3. def' = def /\ run' = run /\ new' = new => C!Facts' = C!Facts
  BY <1>1 DEF Allowed, C!Facts
<1>4. CASE job'.blind # job.blind
  <2>1. On("launchd") /\ job'.blind = TRUE /\ UNCHANGED <<def, run, new, result>>
    BY <1>1, <1>4 DEF Allowed
  <2>2. seen' = seen
    BY <1>1, <1>3, <2>1 DEF Allowed, IInv, ProgressInv
  <2>3. C!LoseSight
    BY <1>1, <2>1, <2>2 DEF Allowed, C!LoseSight
  <2> QED
    BY <2>3 DEF C!Next
<1>5. CASE job'.blind = job.blind /\ result' = "ok"
  <2>1. seen' = seen
    BY <1>1, <1>3, <1>5 DEF Allowed, IInv, ProgressInv
  <2>2. C!Achieved
    BY <1>1, <1>5 DEF Allowed, IInv, AchievedInv, C!Achieved
  <2>3. C!End
    BY <1>1, <1>5, <2>1, <2>2 DEF Allowed, C!End
  <2> QED
    BY <2>3 DEF C!Next
<1>6. CASE job'.blind = job.blind /\ result' # "ok"
  <2>1. CASE def' = def
    <3>1. run' \in C!Processes
      BY <1>1 DEF IInv, TypeOK
    <3>2. C!Process
      BY <1>1, <1>6, <2>1, <3>1 DEF Allowed, C!Process, C!Watch
    <3> QED
      BY <3>2 DEF C!Next
  <2>2. CASE def' # def
    <3>1. C!Change
      BY <1>1, <1>6, <2>2 DEF Allowed, C!Change
    <3> QED
      BY <3>1 DEF C!Next
  <2> QED
    BY <2>1, <2>2
<1> QED
  BY <1>4, <1>5, <1>6

LEMMA NextRefines == IInv /\ [Next]_vars => [C!Next]_(C!vars)
<1> SUFFICES ASSUME IInv, [Next]_vars PROVE [C!Next]_(C!vars)
  OBVIOUS
<1>1. CASE UNCHANGED vars
  BY <1>1 DEF vars, C!vars
<1>2. CASE Begin
  <2>1. op = "none" /\ result = "none"
    BY <1>2 DEF IInv, ProgressInv, Begin
  <2>2. job'.blind = FALSE
    BY <1>2 DEF Begin, NoJob
  <2>3. C!Begin
    BY <1>2, <2>1, <2>2 DEF Begin, C!Begin
  <2> QED
    BY <2>3 DEF C!Next
<1>3. CASE Report
  <2>1. result # "none" /\ job'.blind = FALSE
    BY <1>3, NoJobSees DEF IInv, ProgressInv, Report, NoJob
  <2>2. C!Return
    BY <1>3, <2>1 DEF Report, C!Return
  <2> QED
    BY <2>2 DEF C!Next
<1>4. CASE Operate
  BY <1>4, OperateRefines
<1>5. CASE Exit
  <2>1. C!Process
    BY <1>5 DEF Exit, Quiet, C!Process, C!Processes
  <2> QED
    BY <2>1 DEF C!Next
<1>6. CASE Reboot
  <2>1. job'.blind = FALSE /\ run' \in C!Processes
    BY <1>6 DEF IInv, TypeOK, Reboot, NoJob, C!Processes, C!Definitions
  <2>2. C!Reboot
    BY <1>6, <2>1 DEF Reboot, C!Reboot
  <2> QED
    BY <2>2 DEF C!Next
<1>7. CASE Meddle
  <2>1. C!Others
    BY <1>7 DEF Meddle, Quiet, C!Others, C!Definitions
  <2> QED
    BY <2>1 DEF C!Next
<1>8. CASE Rerender
  BY <1>8 DEF Rerender, C!vars
<1> QED
  BY <1>1, <1>2, <1>3, <1>4, <1>5, <1>6, <1>7, <1>8, NextIs

\* The native backends keep the contract of internal/domain/service: every step of
\* theirs is one the contract allows, or none of it.  systemd and Task Scheduler keep all
\* of it; launchd all but what a stop and a restart promise when it has taken a job it
\* could not read for a stopped one (domain/service/service.go:51-60, router.go:819-923,
\* launchd.go:265-284).
THEOREM BackendsKeepContract == Spec => KeepsContract
<1>1. Spec => C!Init /\ [][C!Next]_(C!vars)
  BY InitRefines, NextRefines, ServiceBackendInvariance, PTL DEF Spec
<1> QED
  BY <1>1 DEF KeepsContract, C!Spec

=============================================================================
