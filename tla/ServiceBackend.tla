--------------------------- MODULE ServiceBackend ----------------------------
(***************************************************************************)
(* `pmux service ...`: serviceMutation of internal/app/router.go over the  *)
(* native backends of internal/adapter/service: systemd user units,        *)
(* launchd agents and Windows scheduled tasks.                             *)
(*                                                                         *)
(* A backend has a definition on disk, the definition its service manager  *)
(* has loaded, and a process.  One PMux operation runs at a time (the      *)
(* mutation lock); meanwhile processes exit, the machine restarts, and     *)
(* others write or remove the definition.  A call of the service manager   *)
(* may fail before or after it took effect, a canceled one too.            *)
(***************************************************************************)
EXTENDS Naturals

CONSTANTS
  Backends,    \* of "systemd", "launchd", "task", those under study
  Versions,    \* the definitions that PMux renders
  MaxMeddles   \* bound: changes of the definition by others

ASSUME VersionsAssumption == Versions \cap {"none", "foreign"} = {}
ASSUME MeddlesAssumption == MaxMeddles \in Nat

VARIABLES
  backend,   \* the recorded backend of the installation
  def,       \* the definition at the canonical identity
  loaded,    \* the definition the service manager knows (systemd, launchd)
  enabled,   \* it is started with the user's session (systemd)
  run,       \* the definition the service's process was started from
  want,      \* the definition the installation's state renders to
  squatter,  \* another process answers on the service's port
  pc, job,   \* the running operation and its local variables
  meddles,   \* number of changes by others
  op, new, seen, result,  \* the operation as its contract sees it
  settled    \* history: the last change of the definition was an install that succeeded

\* launchd takes a job whose status it cannot read for a stopped one.
C == INSTANCE ServiceContract WITH lenient <- backend = "launchd", blind <- job.blind

vars == <<backend, def, loaded, enabled, run, want, squatter, pc, job, meddles, op, new, seen,
          result, settled>>
svc == <<def, loaded, enabled, run, new>>
fixed == <<backend, want, squatter, meddles>>

\* prev: the definition read before it is replaced, start: the install also starts,
\* blind: launchd's job was loaded and `launchctl print` failed.
NoJob == [prev |-> "none", start |-> FALSE, blind |-> FALSE]
Jobs == [prev: C!Definitions, start: BOOLEAN, blind: BOOLEAN]
PCs == {"idle", "status", "confirm", "check", "write", "reload", "undo", "enable", "undoEnable", "undone",
        "halt", "disable", "remove", "reloaded", "launch", "unload", "load", "kick", "rekick",
        "ready", "verify", "done"}

On(b) == backend = b
Mine == Versions
Absent == "none"

Go(at) == pc' = at /\ UNCHANGED <<job, op, result, settled>>
GoWith(at, j) == pc' = at /\ job' = j /\ UNCHANGED <<op, result, settled>>
Finish(r) == pc' = "done" /\ result' = r /\ UNCHANGED <<job, op, settled>>
Fail == Finish("failed")

\* The rest of the operation after its definition is in place, or its process is gone.
AfterInstall == IF job.start THEN "launch" ELSE "verify"

Same == UNCHANGED <<fixed, svc>> /\ C!Record

-----------------------------------------------------------------------------
(* Effects on the service manager                                          *)

\* A call that takes effect and is answered, or fails on either side of its effect.
Call(Effect, Ok, Bad) ==
  /\ \/ Effect /\ Ok
     \/ (Effect \/ UNCHANGED svc) /\ Bad
  /\ UNCHANGED fixed /\ C!Record

\* One that fails takes no effect.
Try(Effect, Ok, Bad) ==
  /\ \/ Effect /\ Ok
     \/ UNCHANGED svc /\ Bad
  /\ UNCHANGED fixed /\ C!Record

Define(d) == def' = d /\ UNCHANGED <<loaded, enabled, run, new>>
Reload == loaded' = def /\ UNCHANGED <<def, enabled, run, new>>
Enable(on) == enabled' = on /\ UNCHANGED <<def, loaded, run, new>>
Launch(d) == run' = d /\ new' = TRUE /\ UNCHANGED <<def, loaded, enabled>>
Halt == run' = "none" /\ UNCHANGED <<def, loaded, enabled, new>>
Bootout == run' = "none" /\ loaded' = "none" /\ UNCHANGED <<def, enabled, new>>

Unchanged == UNCHANGED svc

-----------------------------------------------------------------------------
(* The command                                                             *)

Begin ==
  /\ pc = "idle"
  /\ op' \in C!Ops
  /\ pc' = "status" /\ job' = [NoJob EXCEPT !.start = (op' = "installstart")]
  /\ new' = FALSE
  /\ UNCHANGED <<fixed, def, loaded, enabled, run, result, settled>>
  /\ seen' = C!Facts'

\* Status: launchd's is an error on a foreign definition.
ReadStatus ==
  /\ pc = "status"
  /\ \/ ~(On("launchd") /\ def = "foreign") /\ Go("confirm")
     \/ Fail
  /\ Same

Confirm ==
  /\ pc = "confirm"
  /\ Go("check") \/ Fail
  /\ Same

\* The status after the mutation.
VerifyStatus ==
  /\ pc = "verify"
  /\ \/ ~(On("launchd") /\ def = "foreign") /\ Finish("ok")
     \/ Fail
  /\ Same

Report ==
  /\ pc = "done"
  /\ pc' = "idle" /\ job' = NoJob /\ op' = "none" /\ result' = "none"
  /\ settled' = CASE op \in {"install", "installstart"} ->
                       result = "ok" /\ def \in Mine
                  [] op = "uninstall" -> FALSE
                  [] OTHER -> settled
  /\ UNCHANGED <<fixed, svc, seen>>

-----------------------------------------------------------------------------
(* Install                                                                 *)

\* Mutant: any definition is overwritten.
AnyDefinition == C!Definitions

Replaceable == Mine \cup {Absent}

\* launchd returns at once when the definition is the same.
CheckInstall ==
  /\ pc = "check" /\ op \in {"install", "installstart"}
  /\ \/ /\ def \in Replaceable
        /\ IF On("launchd") /\ def = want
           THEN Go(AfterInstall)
           ELSE GoWith("write", [job EXCEPT !.prev = def])
     \/ Fail
  /\ Same

WriteDefinition ==
  /\ pc = "write"
  /\ IF On("systemd")
     THEN Try(Define(want), Go("reload"), Fail)
     ELSE Call(Define(want), Go(AfterInstall), Fail)

DaemonReload ==
  /\ pc = "reload"
  /\ Call(Reload, Go("enable"), Go("undo"))

EnableUnit ==
  /\ pc = "enable"
  /\ Call(Enable(TRUE), Go(AfterInstall), Go("undoEnable"))

\* The previous definition is put back, errors are ignored.
UndoInstall ==
  /\ pc \in {"undo", "undoEnable"}
  /\ LET next == IF pc = "undo" THEN Fail ELSE Go("undone") IN
     Try(Define(job.prev), next, next)

ReloadUndone ==
  /\ pc = "undone"
  /\ Call(Reload, Fail, Fail)

-----------------------------------------------------------------------------
(* Uninstall and Stop                                                      *)

CheckUninstall ==
  /\ pc = "check" /\ op = "uninstall"
  /\ \/ def = Absent /\ Go("verify")
     \/ def \in Mine /\ Go("halt")
     \/ Fail
  /\ Same

\* systemd and Task Scheduler treat a missing definition as stopped, launchd as an error.
CheckStop ==
  /\ pc = "check" /\ op = "stop"
  /\ \/ def = Absent /\ ~On("launchd") /\ Go("verify")
     \/ def \in Mine /\ Go("halt")
     \/ Fail
  /\ Same

AfterHalt ==
  CASE op = "uninstall" /\ On("systemd") -> "disable"
    [] op = "uninstall" -> "remove"
    [] op = "restart" -> "launch"
    [] OTHER -> "verify"

StopUnit ==
  /\ pc = "halt" /\ On("systemd")
  /\ \/ def = Absent /\ Go(AfterHalt) /\ Same
     \/ def = "foreign" /\ Fail /\ Same
     \/ def \in Mine /\ Call(Halt, Go(AfterHalt), Fail)

\* GetTask and StopTask, which waits until the task runs no more.
StopTask ==
  /\ pc = "halt" /\ On("task")
  /\ IF run = "none"
     THEN Go(AfterHalt) /\ Same
     ELSE Call(Halt, Go(AfterHalt), Fail)

\* launchd's Status: `launchctl print` that fails for any reason is a stopped job.
BootOut ==
  /\ pc = "halt" /\ On("launchd")
  /\ \/ GoWith(AfterHalt, [job EXCEPT !.blind = (loaded # "none")]) /\ Same
     \/ loaded # "none" /\ Call(Bootout, Go(AfterHalt), Fail)
     \/ def \notin Mine /\ Fail /\ Same

DisableUnit ==
  /\ pc = "disable"
  /\ Call(Enable(FALSE), Go("remove"), Fail)

RemoveDefinition ==
  /\ pc = "remove"
  /\ Call(Define(Absent), Go(IF On("systemd") THEN "reloaded" ELSE "verify"), Fail)

ReloadRemoved ==
  /\ pc = "reloaded"
  /\ Call(Reload, Go("verify"), Fail)

-----------------------------------------------------------------------------
(* Start and Restart                                                       *)

\* A task whose definition is not the rendered one is refused as changed outside PMux.
CheckStart ==
  /\ pc = "check" /\ op \in {"start", "restart"}
  /\ \/ def \in Mine /\ Go(IF op = "restart" /\ On("task") THEN "halt" ELSE "launch")
     \/ Fail
  /\ Same

StartUnit ==
  /\ pc = "launch" /\ On("systemd") /\ op # "restart"
  /\ \/ loaded \in Mine /\ Call(IF run = "none" THEN Launch(loaded) ELSE Unchanged, Go("ready"), Fail)
     \/ Fail /\ Same

\* Mutant: a unit that runs is not restarted.
OnlyStart == IF run = "none" THEN Launch(loaded) ELSE Unchanged

Relaunch == Launch(loaded)

RestartUnit ==
  /\ pc = "launch" /\ On("systemd") /\ op = "restart"
  /\ \/ loaded \in Mine /\ Call(Relaunch, Go("ready"), Fail)
     \/ Fail /\ Same

StartTask ==
  /\ pc = "launch" /\ On("task")
  /\ \/ def = want /\ IF run = "none" THEN Call(Launch(def), Go("ready"), Fail) ELSE Go("ready") /\ Same
     \/ Fail /\ Same

\* launchd: a job that is loaded counts as running and is kickstarted only by a restart;
\* one whose status cannot be read, as stopped.
ReadJob ==
  /\ pc = "launch" /\ On("launchd")
  /\ \/ GoWith("unload", [job EXCEPT !.blind = (loaded # "none")])
     \/ loaded # "none" /\ Go(IF op = "restart" THEN "rekick" ELSE "ready")
     \/ Fail
  /\ Same

\* kickstart -k kills and starts the job as it is loaded.
Rekick ==
  /\ pc = "rekick"
  /\ \/ loaded # "none" /\ Call(Launch(loaded), Go("ready"), Fail)
     \/ Fail /\ Same

\* ensureLoaded: the answer to bootout is not looked at.
Unload ==
  /\ pc = "unload"
  /\ Call(Bootout, Go("load"), Go("load"))

\* bootstrap: a job that is still loaded is as good, whatever its definition.  KeepAlive
\* may start the job that is loaded.
Load == loaded' = def /\ UNCHANGED <<def, enabled>>
          /\ \/ UNCHANGED <<run, new>>
             \/ run' = def /\ new' = TRUE

BootStrap ==
  /\ pc = "load"
  /\ \/ loaded = "none" /\ def # Absent /\ Call(Load, Go("kick"), Fail)
     \/ loaded # "none" /\ Go("kick") /\ Same
     \/ Fail /\ Same

\* A plain kickstart starts the job as it is loaded; of a job that runs it is a success
\* without an effect.
Kickstart ==
  /\ pc = "kick"
  /\ \/ loaded # "none" /\ Call(IF run = "none" THEN Launch(loaded) ELSE Unchanged, Go("ready"), Fail)
     \/ Fail /\ Same

\* WaitReady: a probe that is answered is health, until the deadline.
WaitReady ==
  /\ pc = "ready"
  /\ \/ (run # "none" \/ squatter) /\ Go("verify")
     \/ Fail
  /\ Same

-----------------------------------------------------------------------------
(* Others                                                                  *)

Quiet == UNCHANGED <<pc, job, op, result>>

\* The service exits; a failure is restarted by the service manager.
Exit ==
  /\ run # "none"
  /\ Halt /\ UNCHANGED <<fixed, settled>>
  /\ C!Watch /\ Quiet

\* The user's session begins again: systemd and Task Scheduler start the service, launchd
\* loads the agent and may start it.  PMux has died with the old one.
Reboot ==
  /\ pc' = "idle" /\ job' = NoJob /\ op' = "none" /\ result' = "none" /\ seen' = {}
  /\ loaded' = IF On("task") THEN loaded ELSE def
  /\ run' \in IF On("task") \/ (On("systemd") /\ enabled) THEN {def}
             ELSE IF On("launchd") THEN {"none", def} ELSE {"none"}
  /\ new' = FALSE
  /\ settled' = (settled /\ op \notin {"install", "installstart", "uninstall"})
  /\ UNCHANGED <<fixed, def, enabled>>

\* Somebody else puts a definition of their own there, or removes what is there.
Meddle ==
  /\ meddles < MaxMeddles /\ meddles' = meddles + 1
  /\ def' \in {"none", "foreign"}
  /\ settled' = FALSE
  /\ UNCHANGED <<backend, want, squatter, loaded, enabled, run, new>>
  /\ C!Watch /\ Quiet

\* An update or a setup changes what the installation renders to, between commands.
Rerender ==
  /\ pc = "idle"
  /\ want' \in Versions
  /\ UNCHANGED <<backend, squatter, meddles, svc, pc, job, op, seen, result, settled>>

Init ==
  /\ backend \in Backends /\ squatter \in BOOLEAN
  /\ def = "none" /\ loaded = "none" /\ enabled = FALSE /\ run = "none" /\ want \in Versions
  /\ pc = "idle" /\ job = NoJob /\ meddles = 0
  /\ op = "none" /\ new = FALSE /\ seen = {} /\ result = "none" /\ settled = FALSE

Next ==
  \/ Begin \/ ReadStatus \/ Confirm \/ VerifyStatus \/ Report
  \/ CheckInstall \/ WriteDefinition \/ DaemonReload \/ EnableUnit \/ UndoInstall \/ ReloadUndone
  \/ CheckUninstall \/ CheckStop \/ StopUnit \/ StopTask \/ BootOut
  \/ DisableUnit \/ RemoveDefinition \/ ReloadRemoved
  \/ CheckStart \/ StartUnit \/ RestartUnit \/ StartTask \/ ReadJob \/ Rekick
  \/ Unload \/ BootStrap \/ Kickstart \/ WaitReady
  \/ Exit \/ Reboot \/ Meddle \/ Rerender

Spec == Init /\ [][Next]_vars

-----------------------------------------------------------------------------
(* Properties                                                              *)

TypeOK ==
  /\ backend \in Backends /\ def \in C!Definitions /\ loaded \in C!Definitions /\ enabled \in BOOLEAN
  /\ run \in C!Processes /\ want \in Versions /\ squatter \in BOOLEAN
  /\ pc \in PCs /\ job \in Jobs /\ meddles \in 0 .. MaxMeddles /\ settled \in BOOLEAN
  /\ op \in C!Ops \cup {"none"} /\ new \in BOOLEAN /\ result \in {"none", "ok", "failed"}

\* Every operation keeps the contract of internal/domain/service: only a definition that
\* was PMux's own or missing during the operation is replaced or removed; a start that
\* succeeds has had an answer, a stop has seen the service down and a restart a new
\* process, the last two unless launchd took a job it could not read for a stopped one
\* (launchd.go:265-284, :107-245).
KeepsContract == C!Spec

\* After a successful install that nobody disturbed, a restart that succeeds runs
\* the installed definition and not one the service manager had loaded before; launchd
\* keeps a loaded job as it was.
RestartRunsInstalled ==
  result = "ok" /\ op = "restart" /\ settled /\ ~On("launchd") => run \in {def, "none"}

\* Observed, not checked: docs/services.md:3 without the exception.  launchd breaks it:
\* `launchctl print` fails, the stop does nothing and succeeds; or bootout fails as well,
\* bootstrap finds the job loaded, kickstart finds it running, and the restart succeeds.
SuccessIsAchieved ==
  result = "ok" =>
    /\ op \in {"stop", "uninstall"} => "down" \in seen
    /\ op = "restart" => "new" \in seen
=============================================================================
