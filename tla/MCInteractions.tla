--------------------------- MODULE MCInteractions ---------------------------
(***************************************************************************)
(* What PMux does with somebody who moves by themselves, for model         *)
(* checking: the service manager, the proxy's Management API, who else     *)
(* writes config.yaml, the user at the terminal interface and at the       *)
(* guided setup, the catalog and a client.  The components keep different  *)
(* things, and the two screens are never open together.  A behaviour has   *)
(* one of them at work (part), the others keep their first state.          *)
(***************************************************************************)
EXTENDS ServiceBackend

CONSTANTS
  Entries, MaxEntries, MaxOthers,        \* ManagementWrite
  Keys, Template, NoKey, Options, Rests, Broken, MaxForeign, \* ConfigFile
  Buffer, MaxOps, MaxEvents,             \* TerminalShell
  Models, NoModel,                       \* SetupWizard and ClientLaunch
  Accounts, Clients, NoCache, MaxChanges \* ClientLaunch

ASSUME KeysAssumption == Template \in Keys /\ NoKey \notin Keys
ASSUME BoundsAssumption ==
  /\ MaxOthers \in Nat /\ MaxForeign \in Nat /\ MaxChanges \in Nat
  /\ Buffer \in Nat /\ MaxOps \in Nat /\ MaxEvents \in Nat

VARIABLES
  part,
  list, valid, managementPc, managementJob, rejected, others, meanwhile, overrode,
  file, managed, sidecar, ref, backup, filePc, fileJob, foreign, theirs, unseen, refused, recorded, slip,
  view, prompt, pending, busy, cancel, writer, leaving, handoff, shellOp, events, shellWaiter,
  pipe, write, late,
  screen, action, quit, installed, told, checked,
  serves, binary, cache, home, launchPc, launchJob, ask, found, client, changes, live, offered

Management == INSTANCE ManagementWrite WITH pc <- managementPc, job <- managementJob
Config == INSTANCE ConfigFile WITH pc <- filePc, job <- fileJob
Shell == INSTANCE TerminalShell WITH op <- shellOp, waiter <- shellWaiter
Wizard == INSTANCE SetupWizard
Launcher == INSTANCE ClientLaunch WITH pc <- launchPc, job <- launchJob, child <- client

managementVars == <<list, valid, managementPc, managementJob, rejected, others,
  meanwhile, overrode>>
configVars == <<file, managed, sidecar, ref, backup, filePc, fileJob, foreign, theirs, unseen, refused,
  recorded, slip>>
shellVars == <<view, prompt, pending, busy, cancel, writer, leaving, handoff, shellOp, events,
  shellWaiter, pipe, write, late>>
wizardVars == <<screen, action, quit, installed, told, checked>>
launcherVars == <<serves, binary, cache, home, launchPc, launchJob, ask, found, client,
  changes, live, offered>>

\* One first state for a component that does not move.
BackendAtRest ==
  backend = (CHOOSE b \in Backends : TRUE) /\ want = (CHOOSE v \in Versions : TRUE) /\ ~squatter
ConfigAtRest ==
  /\ ref = CHOOSE k \in Keys \ {Template} : TRUE
  /\ file = CHOOSE c \in Config!Valid : c.key = ref
  /\ ~managed
WizardAtRest == screen.stage = "choose-mode"
LauncherAtRest == home = "none"

InteractionsInit ==
  /\ part \in {"management", "backend", "config", "shell", "wizard", "launcher"}
  /\ Init /\ Management!Init /\ Config!Init /\ Shell!Init /\ Wizard!Init /\ Launcher!Init
  /\ part = "backend" \/ BackendAtRest
  /\ part = "config" \/ ConfigAtRest
  /\ part = "wizard" \/ WizardAtRest
  /\ part = "launcher" \/ LauncherAtRest

ManagementMoves ==
  /\ part = "management" /\ Management!Next
  /\ UNCHANGED <<part, vars, configVars, shellVars, wizardVars, launcherVars>>

BackendMoves ==
  /\ part = "backend" /\ Next
  /\ UNCHANGED <<part, managementVars, configVars, shellVars, wizardVars, launcherVars>>

ConfigMoves ==
  /\ part = "config" /\ Config!Next
  /\ UNCHANGED <<part, managementVars, vars, shellVars, wizardVars, launcherVars>>

ShellMoves ==
  /\ part = "shell" /\ Shell!Next
  /\ UNCHANGED <<part, managementVars, vars, configVars, wizardVars, launcherVars>>

WizardMoves ==
  /\ part = "wizard" /\ Wizard!Next
  /\ UNCHANGED <<part, managementVars, vars, configVars, shellVars, launcherVars>>

LauncherMoves ==
  /\ part = "launcher" /\ Launcher!Next
  /\ UNCHANGED <<part, managementVars, vars, configVars, shellVars, wizardVars>>

InteractionsNext ==
  \/ ManagementMoves \/ BackendMoves \/ ConfigMoves
  \/ ShellMoves \/ WizardMoves \/ LauncherMoves

InteractionsSpec ==
  /\ InteractionsInit
  /\ [][InteractionsNext]_
       <<part, managementVars, vars, configVars, shellVars, wizardVars, launcherVars>>
-----------------------------------------------------------------------------
\* The types of the component at work (methods.go, systemd.go, configfile.go, shell.go,
\* setup.go, catalog.go); the others are as they began.
InteractionsTypeOK ==
  /\ part = "management" => Management!TypeOK
  /\ part = "backend" => TypeOK
  /\ part = "config" => Config!TypeOK
  /\ part = "shell" => Shell!TypeOK
  /\ part = "wizard" => Wizard!TypeOK
  /\ part = "launcher" => Launcher!TypeOK

\* A write through the Management API leaves what its result says (methods.go:387,
\* router.go:2410).
VerifiedOutcome == Management!VerifiedOutcome

\* A command changes config.yaml only as long as it is what the command read, and its
\* result says what it left (configfile.go:204-272, fix.go:182).
EditsWhatWasRead == Config!EditsWhatWasRead
OutcomeIsWhole == Config!OutcomeIsWhole

\* The terminal interface runs one operation, which the user can end (shell.go:416, :198).
OneAtATime == Shell!OneAtATime

\* A setup that is left is resumed where it was (setup.go:270).
ResumesWhereItWas == Wizard!ResumesWhereItWas

\* What is launched or cached is what one live source listed (router.go:1869, catalog.go:143).
LaunchIsLive == Launcher!LaunchIsLive
CacheIsWhole == Launcher!CacheIsWhole
=============================================================================
