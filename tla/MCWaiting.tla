------------------------------ MODULE MCWaiting ------------------------------
(***************************************************************************)
(* Governance with ForegroundService, ProviderLogin and LogStream for      *)
(* model checking: what every governed command does before and after its   *)
(* work, and the commands that wait, for a child, a user or a line.  All   *)
(* of them must come back.  What a command does under its lock is not told *)
(* apart by Governance, and the files of the one are not those of the      *)
(* other, so a behaviour has one component at work (part); the others keep *)
(* their first state, in which nothing they must do is enabled.            *)
(***************************************************************************)
EXTENDS Governance

CONSTANTS
  Pids, None,                          \* ForegroundService
  Files, Budget, MaxOthers,            \* ProviderLogin
  BufferSize, ChannelSize, MaxLines    \* LogStream

ASSUME NoneAssumption == None \notin Pids
ASSUME BudgetAssumption == Budget \in Nat \ {0}
ASSUME BoundsAssumption ==
  MaxOthers \in Nat /\ BufferSize \in Nat /\ ChannelSize \in Nat /\ MaxLines \in Nat

VARIABLES
  part,
  child, parent, waiter, record, mgr, commandLock, commandPc, op, solo, unread,
  usable, remote, active, loginPc, job, left, due, others, gained, orphaned,
  written, lines, subscribed, updates, finished, copier, pipe, viewPc, request, retained,
  shown, canceled, first, dropped

Core == INSTANCE ForegroundService WITH lock <- commandLock, pc <- commandPc
Login == INSTANCE ProviderLogin WITH pc <- loginPc
Logs == INSTANCE LogStream

coreVars == <<child, parent, waiter, record, mgr, commandLock, commandPc, op, solo, unread>>

loginVars == <<usable, remote, active, loginPc, job, left, due, others, gained, orphaned>>

logVars == <<written, lines, subscribed, updates, finished, copier, pipe, viewPc, request,
             retained, shown, canceled, first, dropped>>

WaitingInit ==
  /\ part \in {"governance", "foreground", "login", "logs"}
  /\ GovInit /\ Core!Init /\ Login!Init /\ Logs!Init

Governed == part = "governance" /\ Next /\ UNCHANGED <<part, coreVars, loginVars, logVars>>
ServiceMoves ==
  part = "foreground" /\ Core!Next /\ UNCHANGED <<part, vars, loginVars, logVars>>
LoginMoves == part = "login" /\ Login!Next /\ UNCHANGED <<part, vars, coreVars, logVars>>
\* The log is read once.
LogMoves ==
  /\ part = "logs"
  /\ Logs!Next \/ (viewPc \in {"done", "failed"} /\ UNCHANGED logVars)
  /\ UNCHANGED <<part, vars, coreVars, loginVars>>

WaitingNext == Governed \/ ServiceMoves \/ LoginMoves \/ LogMoves

WaitingSpec ==
  /\ WaitingInit /\ [][WaitingNext]_<<part, vars, coreVars, loginVars, logVars>>
  /\ Fairness /\ Core!Fairness /\ Login!Fairness /\ Logs!Fairness
-----------------------------------------------------------------------------
\* The types of the components but the foreground service, which MCPrograms checks too
\* (governance.go, journal.go, audit.go, auth.go, router.go).
WaitingTypeOK == TypeOK /\ Login!TypeOK /\ Logs!TypeOK

\* However a login ends, nothing of its session is left, and it is complete only if
\* an account became usable meanwhile (auth.go:537, :629; router.go:604).
LoginIsOver == Login!LoginLeavesNothing /\ Login!CompleteIsNew

\* Who follows a log sees each line once, in order (foreground.go:690).
FollowsWithoutGap == Logs!FollowsWithoutGap

\* The lock is held, a login waits for its user, a log is followed to an end.
Waits ==
  \/ part = "governance" /\ lock # NoProc
  \/ part = "foreground" /\ commandLock # NoProc
  \/ part = "login" /\ loginPc = "wait"
  \/ part = "logs" /\ viewPc = "scan" /\ (canceled \/ finished)

ComesBack ==
  \/ part = "governance" /\ lock = NoProc
  \/ part = "foreground" /\ commandLock = NoProc
  \/ part = "login" /\ loginPc \in {"done", "idle"}
  \/ part = "logs" /\ viewPc \in {"done", "failed"}

\* Whoever takes the lock gives it back, on every path of Execute and of recovery
\* (governance.go:143, :122) and also when a lifecycle command stops a child that does not
\* react, waiting for the goroutine that waits for that child (foreground.go:311, :334); a
\* login stops polling whether or not anybody answers it (auth.go:470), and following a
\* log ends with the core or at an interrupt (router.go:1086).
WaitingEnds == Waits ~> ComesBack
=============================================================================
