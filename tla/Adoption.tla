------------------------------ MODULE Adoption ------------------------------
(***************************************************************************)
(* `pmux setup --mode adopt`: nativeRuntime.adopt and hardenAdoption of    *)
(* internal/runtime/runtime.go with the cutover of the adopted service,    *)
(* adopt_service_unix.go.                                                  *)
(*                                                                         *)
(* An adoption records an installation that exists already.  A hardening   *)
(* then rewrites its configuration, makes keys of its own, replaces the    *)
(* service that ran it by one of PMux, and undoes all of that when a call  *)
(* fails.  Every call may fail on either side of its effect and the        *)
(* process may die anywhere; a hardening keeps no record of its progress.  *)
(*                                                                         *)
(* A thing on disk is named by the attempt that wrote it, 0 for what was   *)
(* there before.  PMux's service is that of systemd (ServiceBackend has    *)
(* the others).  Commands hold the mutation lock, so there is one at a     *)
(* time; others who write config.yaml meanwhile are in ConfigFile.         *)
(***************************************************************************)
EXTENDS Naturals, Sequences

CONSTANTS
  None,
  MaxAttempts   \* bound: adoptions that get as far as a record

VARIABLES
  attempt,      \* number of the adoption that runs, or ran last
  entry,        \* the installation in state.json
  config,       \* config.yaml of the adopted installation
  root,         \* the instance's runtime directory exists
  keys,         \* the sidecar and the management key file
  refs,         \* secrets.json
  def, loaded, run,      \* PMux's unit on disk, as systemd knows it, and as it runs
  foreignDef, foreignRun, \* the service that ran the installation
  pc, job,
  prior,        \* what the hardening found
  kept          \* history: an undo failed, or a file that exists was read as missing

proxy == <<config, root, keys, refs>>
unit == <<def, loaded, run>>
foreign == <<foreignDef, foreignRun>>
vars == <<attempt, entry, proxy, unit, foreign, pc, job, prior, kept>>

Attempts == 0..MaxAttempts
Written == Attempts \cup {None}
KeyFiles == {"sidecar", "management"}

\* Everything a hardening changes but the installation's entry.
Found == [config |-> config, root |-> root, keys |-> keys, refs |-> refs, def |-> def,
          run |-> run, foreignDef |-> foreignDef, foreignRun |-> foreignRun]
Finds == [config: Attempts, root: BOOLEAN, keys: [KeyFiles -> Written], refs: Attempts,
          def: Written, run: Written, foreignDef: BOOLEAN, foreignRun: BOOLEAN]

\* harden, yes: the request; began: a hardening was attempted; active, undo: `active` and
\* the closure that Replace returns; installed: serviceInstalled; unread: the files that
\* readExisting took to be missing.
NoJob == [harden |-> FALSE, yes |-> FALSE, began |-> FALSE, active |-> FALSE,
          undo |-> FALSE, installed |-> FALSE, unread |-> {}]
Jobs == [harden: BOOLEAN, yes: BOOLEAN, began: BOOLEAN, active: BOOLEAN, undo: BOOLEAN,
         installed: BOOLEAN, unread: SUBSET (KeyFiles \cup {"def"})]

Forward == <<"mkdir", "apply", "reread", "sidecar", "management", "state", "refs", "install",
             "restart", "verify", "done">>
Undo == <<"u_stop", "u_uninstall", "u_def", "u_config", "u_keys", "u_state", "u_refs",
          "u_root", "u_foreign", "u_start", "failed">>
StepsOf(seq) == {seq[i] : i \in DOMAIN seq}
PCs == {"idle", "save", "read", "cutover", "f_stop", "f_remove", "f_reload", "capture"}
         \cup StepsOf(Forward) \cup StepsOf(Undo)

After(seq, at) == seq[1 + (CHOOSE i \in DOMAIN seq : seq[i] = at)]
Goto(at) == pc' = at
Ok == Goto(After(Forward, pc))
Keeps(what) == kept' = (kept \/ what)

-----------------------------------------------------------------------------
(* The record of the adoption                                              *)

\* Discovery and the first read of the configuration change nothing; a container is
\* never hardened.  Bound: nothing follows an undo that failed.
Begin ==
  /\ pc = "idle" /\ attempt < MaxAttempts /\ ~kept
  /\ \E kind \in {"container", "native"}, harden, yes \in BOOLEAN :
       /\ job' = [NoJob EXCEPT !.harden = harden, !.yes = yes]
       /\ \/ ~(kind = "container" /\ harden) /\ Goto("save")
          \/ Goto("failed")
  /\ attempt' = attempt + 1
  /\ prior' = Found
  /\ UNCHANGED <<entry, proxy, unit, foreign, kept>>

Adopted == [by |-> attempt, hardened |-> FALSE]
Hardened == [by |-> attempt, hardened |-> TRUE]

SaveRecord ==
  /\ pc = "save"
  /\ \/ /\ entry' = Adopted
        /\ Goto(IF ~job.harden THEN "done" ELSE IF job.yes THEN "read" ELSE "failed")
     \/ entry' \in {entry, Adopted} /\ Goto("failed")
  /\ UNCHANGED <<attempt, proxy, unit, foreign, job, prior, kept>>

End ==
  /\ pc \in {"done", "failed"}
  /\ Goto("idle") /\ job' = NoJob
  /\ UNCHANGED <<attempt, entry, proxy, unit, foreign, prior, kept>>

Crash ==
  /\ pc \notin {"idle", "done", "failed"}
  /\ Goto("idle") /\ job' = NoJob
  /\ UNCHANGED <<attempt, entry, proxy, unit, foreign, prior, kept>>

-----------------------------------------------------------------------------
(* What the hardening reads, and the cutover                               *)

Exists(f) == IF f = "def" THEN def # None ELSE keys[f] # None

\* readExisting: a file that cannot be read counts as missing.
Reads(files) ==
  \E u \in SUBSET {f \in files : Exists(f)} :
    job' = [job EXCEPT !.began = TRUE, !.unread = @ \cup u] /\ Keeps(u # {})

\* The originals, the plan, and manager.Detect.
ReadOriginals ==
  /\ pc = "read"
  /\ \/ Reads(KeyFiles) /\ prior' = Found /\ Goto("cutover")
     \/ Goto("failed") /\ UNCHANGED <<job, prior, kept>>
  /\ UNCHANGED <<attempt, entry, proxy, unit, foreign>>

\* Replace backs the definition up in memory and asks whether the service is active.
Inspect ==
  /\ pc = "cutover"
  /\ \/ ~foreignDef /\ Goto("capture") /\ UNCHANGED job
     \/ /\ foreignDef
        /\ job' = [job EXCEPT !.active = foreignRun]
        /\ Goto(IF foreignRun THEN "f_stop" ELSE "f_remove")
     \/ foreignDef /\ Goto("failed") /\ UNCHANGED job
  /\ UNCHANGED <<attempt, entry, proxy, unit, foreign, prior, kept>>

StopForeign ==
  /\ pc = "f_stop"
  /\ \/ foreignRun' = FALSE /\ Goto("f_remove") /\ UNCHANGED kept
     \/ foreignRun' \in BOOLEAN /\ Keeps(~foreignRun') /\ Goto("failed")
  /\ UNCHANGED <<attempt, entry, proxy, unit, foreignDef, job, prior>>

\* The definition is put back and the service started again, or that fails.
PutBack ==
  \/ foreignDef' = TRUE /\ foreignRun' = job.active /\ UNCHANGED kept
  \/ foreignDef' \in {foreignDef, TRUE} /\ foreignRun' \in {FALSE, job.active} /\ Keeps(TRUE)

RemoveForeign ==
  /\ pc = "f_remove"
  /\ \/ foreignDef' = FALSE /\ Goto("f_reload") /\ UNCHANGED <<foreignRun, kept>>
     \/ PutBack /\ Goto("failed")
  /\ UNCHANGED <<attempt, entry, proxy, unit, job, prior>>

ReloadForeign ==
  /\ pc = "f_reload"
  /\ \/ Goto("capture") /\ job' = [job EXCEPT !.undo = TRUE] /\ UNCHANGED <<foreign, kept>>
     \/ PutBack /\ Goto("failed") /\ UNCHANGED job
  /\ UNCHANGED <<attempt, entry, proxy, unit, prior>>

\* serviceArtifact; from here on a failure is undone.
Capture ==
  /\ pc = "capture"
  /\ Reads({"def"}) /\ Goto("mkdir")
  /\ UNCHANGED <<attempt, entry, proxy, unit, foreign, prior>>

-----------------------------------------------------------------------------
(* The hardening                                                           *)

\* A call that changes x to v, or fails on either side of it.
Sets(x, v) ==
  \/ x' = v /\ Ok
  \/ x' \in {x, v} /\ Goto("u_stop")

MakeDirectory ==
  /\ pc = "mkdir" /\ Sets(root, TRUE)
  /\ UNCHANGED <<attempt, entry, config, keys, refs, unit, foreign, job, prior, kept>>

ApplyPlan ==
  /\ pc = "apply" /\ Sets(config, attempt)
  /\ UNCHANGED <<attempt, entry, root, keys, refs, unit, foreign, job, prior, kept>>

WriteKey ==
  /\ pc \in KeyFiles /\ Sets(keys, [keys EXCEPT ![pc] = attempt])
  /\ UNCHANGED <<attempt, entry, config, root, refs, unit, foreign, job, prior, kept>>

SaveInstallation ==
  /\ pc = "state" /\ Sets(entry, Hardened)
  /\ UNCHANGED <<attempt, proxy, unit, foreign, job, prior, kept>>

SaveReferences ==
  /\ pc = "refs" /\ Sets(refs, attempt)
  /\ UNCHANGED <<attempt, entry, config, root, keys, unit, foreign, job, prior, kept>>

\* Install puts the unit back itself when systemd refuses it.
InstallUnit ==
  /\ pc = "install"
  /\ \/ /\ def' = attempt /\ loaded' = attempt
        /\ job' = [job EXCEPT !.installed = (prior.def = None)] /\ Ok
     \/ def' \in {def, attempt} /\ loaded' \in {loaded, attempt} /\ Goto("u_stop") /\ UNCHANGED job
  /\ UNCHANGED <<attempt, entry, proxy, run, foreign, prior, kept>>

\* systemd runs the unit that it has loaded.
RunsAs == IF loaded = None THEN def ELSE loaded

RestartUnit ==
  /\ pc = "restart" /\ Sets(run, RunsAs)
  /\ UNCHANGED <<attempt, entry, proxy, def, loaded, foreign, job, prior, kept>>

\* Reading the hardened configuration back; the proxy key and the management key are
\* tried on the running core.
Check ==
  /\ pc \in {"reread", "verify"}
  /\ Ok \/ Goto("u_stop")
  /\ UNCHANGED <<attempt, entry, proxy, unit, foreign, job, prior, kept>>

-----------------------------------------------------------------------------
(* The deferred undo; its errors are ignored                               *)

Undone == Goto(After(Undo, pc)) /\ UNCHANGED <<attempt, job, prior>>

\* An undo that takes x back to v, or fails.
Restores(x, v) ==
  \/ x' = v /\ UNCHANGED kept
  \/ x' \in {x, v} /\ Keeps(TRUE)

\* Stop does nothing without a unit.
UndoRun ==
  /\ pc = "u_stop"
  /\ IF def = None THEN UNCHANGED <<run, kept>> ELSE Restores(run, None)
  /\ Undone /\ UNCHANGED <<entry, proxy, def, loaded, foreign>>

UndoInstall ==
  /\ pc = "u_uninstall"
  /\ \/ ~job.installed /\ UNCHANGED <<unit, kept>>
     \/ job.installed /\ def' = None /\ loaded' = None /\ run' = None /\ UNCHANGED kept
     \/ /\ job.installed /\ Keeps(TRUE)
        /\ def' \in {def, None} /\ run' \in {run, None} /\ UNCHANGED loaded
  /\ Undone /\ UNCHANGED <<entry, proxy, foreign>>

\* What a file that was read, or taken to be missing, is restored to.
Original(f) ==
  IF f \in job.unread THEN None ELSE IF f = "def" THEN prior.def ELSE prior.keys[f]

UndoDefinition ==
  /\ pc = "u_def" /\ Restores(def, Original("def"))
  /\ Undone /\ UNCHANGED <<entry, proxy, loaded, run, foreign>>

UndoConfig ==
  /\ pc = "u_config" /\ Restores(config, prior.config)
  /\ Undone /\ UNCHANGED <<entry, root, keys, refs, unit, foreign>>

\* Mutant: the management key is left as it is.
RestoresSidecar == {"sidecar"}

RestoredKeys == KeyFiles

RestoreKeys(files) == keys' = [f \in KeyFiles |-> IF f \in files THEN Original(f) ELSE keys[f]]

UndoKeys ==
  /\ pc = "u_keys"
  /\ \/ RestoreKeys(RestoredKeys) /\ UNCHANGED kept
     \/ (\E files \in SUBSET KeyFiles : RestoreKeys(files)) /\ Keeps(TRUE)
  /\ Undone /\ UNCHANGED <<entry, config, root, refs, unit, foreign>>

\* originalState was read after the adoption had been recorded.
UndoState ==
  /\ pc = "u_state" /\ Restores(entry, Adopted)
  /\ Undone /\ UNCHANGED <<proxy, unit, foreign>>

UndoReferences ==
  /\ pc = "u_refs" /\ Restores(refs, prior.refs)
  /\ Undone /\ UNCHANGED <<entry, config, root, keys, unit, foreign>>

\* RemoveAll of the instance takes the sidecar with it.
UndoRoot ==
  /\ pc = "u_root"
  /\ IF prior.root
     THEN UNCHANGED <<root, keys, kept>>
     ELSE /\ Restores(root, FALSE)
          /\ keys' = [keys EXCEPT !["sidecar"] = IF root' THEN @ ELSE None]
  /\ Undone /\ UNCHANGED <<entry, config, refs, unit, foreign>>

UndoCutover ==
  /\ pc = "u_foreign"
  /\ IF job.undo THEN PutBack ELSE UNCHANGED <<foreign, kept>>
  /\ Undone /\ UNCHANGED <<entry, proxy, unit>>

StartPrior ==
  /\ pc = "u_start"
  /\ IF prior.def # None /\ prior.run # None
     THEN \/ def # None /\ run' = RunsAs /\ UNCHANGED kept
          \/ run' \in {run, RunsAs} /\ Keeps(TRUE)
     ELSE UNCHANGED <<run, kept>>
  /\ Undone /\ UNCHANGED <<entry, proxy, def, loaded, foreign>>

-----------------------------------------------------------------------------
\* Nothing of PMux, or what an earlier setup left; the adopted installation has a service
\* of its own or none.
Init ==
  /\ attempt = 0 /\ entry = [by |-> 0, hardened |-> FALSE]
  /\ config = 0 /\ refs = 0
  /\ \E earlier \in BOOLEAN :
       /\ root = earlier
       /\ keys = [f \in KeyFiles |-> IF earlier THEN 0 ELSE None]
       /\ def = IF earlier THEN 0 ELSE None
       /\ run \in {None, def}
  /\ loaded = def
  /\ foreignDef \in BOOLEAN /\ foreignRun \in {FALSE, foreignDef}
  /\ pc = "idle" /\ job = NoJob /\ prior = Found /\ kept = FALSE

Next ==
  \/ Begin \/ SaveRecord \/ End \/ Crash
  \/ ReadOriginals \/ Inspect \/ StopForeign \/ RemoveForeign \/ ReloadForeign \/ Capture
  \/ MakeDirectory \/ ApplyPlan \/ WriteKey \/ SaveInstallation \/ SaveReferences
  \/ InstallUnit \/ RestartUnit \/ Check
  \/ UndoRun \/ UndoInstall \/ UndoDefinition \/ UndoConfig \/ UndoKeys \/ UndoState
  \/ UndoReferences \/ UndoRoot \/ UndoCutover \/ StartPrior

Spec == Init /\ [][Next]_vars
-----------------------------------------------------------------------------
(* Properties                                                              *)

TypeOK ==
  /\ attempt \in Attempts
  /\ entry \in [by: Attempts, hardened: BOOLEAN]
  /\ Found \in Finds /\ prior \in Finds /\ loaded \in Written
  /\ pc \in PCs /\ job \in Jobs /\ kept \in BOOLEAN

IsHardened ==
  /\ entry = Hardened
  /\ {config, refs, def, run} = {attempt} /\ root
  /\ keys = [f \in KeyFiles |-> attempt]
  /\ ~foreignDef /\ (foreignRun => kept)

\* A hardening that reports success is complete; one that fails leaves the adoption record
\* and everything else as it found it, up to which definition the service runs, unless a
\* call of the undo failed; an adoption without hardening changes its record and nothing
\* else (runtime.go:447, :514).
AdoptionIsAllOrNothing ==
  /\ pc = "done" /\ job.harden => IsHardened
  /\ pc = "done" /\ ~job.harden => entry = Adopted /\ Found = prior
  /\ pc = "failed" /\ ~job.began => Found = prior \/ kept
  /\ pc = "failed" /\ job.began /\ ~kept =>
       /\ entry = Adopted
       /\ [Found EXCEPT !.run = prior.run] = prior
       /\ run = None <=> prior.run = None

\* After a failed hardening the service that ran before runs again (runtime.go:593).
PriorServiceRuns ==
  pc = "failed" /\ job.began /\ ~kept => run = prior.run
=============================================================================
