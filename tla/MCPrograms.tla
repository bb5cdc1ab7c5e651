------------------------------ MODULE MCPrograms ------------------------------
(***************************************************************************)
(* ForegroundService, SelfUpdate and Adoption for model checking: a core   *)
(* that PMux runs as its child, the executable of PMux, and an             *)
(* installation that PMux takes over.  The commands that change them hold  *)
(* the mutation lock and keep different files; a behaviour has one         *)
(* component at work (part), the others keep their first state.  What a    *)
(* hardening asks of the service is part of its module.                    *)
(***************************************************************************)
EXTENDS ForegroundService, TLC

CONSTANTS
  Releases, NoRecord, Helpers, Platforms,   \* SelfUpdate
  MaxAttempts                               \* Adoption

ASSUME NoReleaseAssumption == None \notin Releases
ASSUME AttemptsAssumption == MaxAttempts \in Nat
ASSUME NoAttemptAssumption == None \notin Nat
ASSUME PlatformsAssumption == Platforms \subseteq {"unix", "windows"}

VARIABLES
  part,
  platform, exe, previous, selfRecord, status, helper, selfPc, selfJob, touched,
  clashed, attempt, entry, config, root, keys, refs, def, loaded, run, foreignDef, foreignRun,
  adoptPc, job, prior, kept

Self == INSTANCE SelfUpdate WITH
  Versions <- Releases, record <- selfRecord, pc <- selfPc, job <- selfJob
Adopted == INSTANCE Adoption WITH pc <- adoptPc

selfVars == <<platform, exe, previous, selfRecord, status, helper, selfPc, selfJob, touched,
              clashed>>
adoptVars == <<attempt, entry, config, root, keys, refs, def, loaded, run, foreignDef,
               foreignRun, adoptPc, job, prior, kept>>

\* One first state for a component that does not move.
SelfAtRest == platform = "unix" /\ exe = CHOOSE v \in Releases : TRUE
AdoptAtRest == ~root /\ ~foreignDef

ProgramsInit ==
  /\ part \in {"core", "self", "adopt"}
  /\ Init /\ Self!Init /\ Adopted!Init
  /\ part = "self" \/ SelfAtRest
  /\ part = "adopt" \/ AdoptAtRest

CoreMoves == part = "core" /\ Next /\ UNCHANGED <<part, selfVars, adoptVars>>
SelfMoves == part = "self" /\ Self!Next /\ UNCHANGED <<part, vars, adoptVars>>
\* The user adopts no more.
AdoptMoves ==
  /\ part = "adopt"
  /\ Adopted!Next \/ (adoptPc = "idle" /\ UNCHANGED adoptVars)
  /\ UNCHANGED <<part, vars, selfVars>>

ProgramsSpec ==
  /\ ProgramsInit
  /\ [][CoreMoves \/ SelfMoves \/ AdoptMoves]_<<part, vars, selfVars, adoptVars>>

\* Nothing is claimed of a self-update once two helpers have clashed.
Unclashed == ~clashed

\* Processes, children and helpers are not told apart but by what they do.
Interchangeable == Permutations(Procs) \cup Permutations(Pids) \cup Permutations(Helpers)
-----------------------------------------------------------------------------
\* The types of the component at work (foreground.go, engine.go, recovery.go); the others
\* are as they began.
ProgramsTypeOK ==
  /\ part = "core" => TypeOK
  /\ part = "self" => Self!TypeOK
  /\ part = "adopt" => Adopted!TypeOK

\* PMux is not deleted unless two helpers clash; the record of a self-update is enough to go
\* back, and goes away only when the executable has gone back (selfhelper.go:108,
\* engine.go:144, recovery.go:266).
ExecutableIsRecoverable == Self!ExecutableSurvives /\ Self!RecordRestorable

\* A self-update on Unix leaves what its result says (selfactivate_unix.go:14).
ReportIsTrue == Self!ReportIsTrue

\* An adoption that fails leaves what it found, one that succeeds has what it says
\* (runtime.go:493, :451).
AdoptionIsAllOrNothing == Adopted!AdoptionIsAllOrNothing
=============================================================================
