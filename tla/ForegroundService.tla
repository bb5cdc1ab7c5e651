-------------------------- MODULE ForegroundService --------------------------
(***************************************************************************)
(* The foreground service backend: Manager of internal/adapter/service/    *)
(* foreground/foreground.go, as serviceMutation of internal/app/router.go  *)
(* and nativeRuntime.service of internal/runtime/runtime.go use it.        *)
(*                                                                         *)
(* A PMux process makes a Manager when it first needs one and keeps it     *)
(* between commands.  Commands that change something run one at a time     *)
(* under the mutation lock; reading the status, the goroutine that waits   *)
(* for a child, and the wait of an attached start do not take it.  What    *)
(* the processes share is the PID record and the children; Manager.mu      *)
(* makes each step below atomic within a process.                          *)
(*                                                                         *)
(* A PID is used once.  Left out: logs, environment, health results, the   *)
(* checks of the specification (one installation is modelled).             *)
(***************************************************************************)
EXTENDS MutationLock, Naturals, FiniteSets

CONSTANTS
  Procs,       \* PMux processes
  Pids,        \* children that may be started
  None         \* no child

ASSUME NoneAssumption == None \notin Pids
ASSUME NoProcAssumption == NoProc \notin Procs

VARIABLES
  child,    \* the children as the operating system sees them
  parent,   \* the process that started each child and still lives
  waiter,   \* the wait goroutine of each child
  record,   \* the PID record file
  mgr,      \* the Manager of each process
  pc, op,   \* the running command of each process and its local variables
  solo,     \* history: no two PMux processes overlapped, none was killed while
            \* a child it had started was not yet recorded
  unread    \* history: the record of a living child could not be read

os == <<child, parent, waiter>>
history == <<solo, unread>>
vars == <<lock, os, record, mgr, pc, op, history>>

Kinds == {"status", "start", "attach", "attached", "interrupted", "install",
          "install_start", "stop", "restart", "uninstall"}
Invoked == Kinds \ {"attached", "interrupted"}
PCs == {"idle", "read", "reread", "discard", "check", "spawn", "record", "adopt",
        "ready", "stop", "unrecord", "signal", "killed", "signal_ext", "forget_ext", "clear",
        "end", "attached", "leaving"}
States == {"not_installed", "stopped", "starting", "running", "failed", "stopping"}

Manager == [open: BOOLEAN, owned: BOOLEAN, child: Pids \cup {None}, ext: Pids \cup {None},
            state: States]

NoManager == [open |-> FALSE, owned |-> FALSE, child |-> None, ext |-> None,
              state |-> "not_installed"]
NoOp == [kind |-> "status", pid |-> None, then |-> "idle"]

Alive == {c \in Pids : child[c] = "alive"}
Active(p) == pc[p] # "idle" \/ mgr[p].open
Goto(p, at) == pc' = [pc EXCEPT ![p] = at]
SetManager(p, m) == mgr' = [mgr EXCEPT ![p] = m]

-----------------------------------------------------------------------------
(* Commands                                                                *)

\* What a command does once it has its manager, and after a successful stop.
First(kind) ==
  CASE kind = "status" -> "end"
    [] kind \in {"start", "attach"} -> "check"
    [] kind \in {"stop", "restart", "uninstall"} -> "stop"
    [] kind \in {"install", "install_start"} -> "reread"

AfterStop(kind) ==
  CASE kind = "restart" -> "check"
    [] kind = "uninstall" -> "clear"
    [] OTHER -> "end"

\* A status needs no lock; a command that finds it taken leaves nothing behind.  An
\* attached start belongs to a process of its own.
Invoke(p, kind) ==
  /\ pc[p] = "idle"
  /\ kind = "attach" => ~mgr[p].open
  /\ IF kind = "status" THEN UNCHANGED lock ELSE TryAcquireOk(p)
  /\ Goto(p, IF mgr[p].open THEN First(kind) ELSE "read")
  /\ op' = [op EXCEPT ![p].kind = kind]
  /\ solo' = (solo /\ \A q \in Procs \ {p} : ~Active(q))
  /\ UNCHANGED <<os, record, mgr, unread>>

\* Install: read the record and look at the process it names.  The manager is
\* registered at once, or after the record was removed.
Registered(m, c) ==
  [m EXCEPT !.open = TRUE, !.owned = TRUE, !.ext = c,
            !.state = IF m.child # None THEN @ ELSE IF c = None THEN "stopped" ELSE "running"]

\* `service install` registers again and may then start.
AfterRead(p) ==
  IF pc[p] = "read" THEN First(op[p].kind)
  ELSE IF op[p].kind = "install_start" THEN "check" ELSE "end"

\* The record is written whole, so it parses.  One that cannot be read counts as none, and
\* stays.  The command may fail before, or in the checks after it.
ReadRecord(p) ==
  /\ pc[p] \in {"read", "reread"}
  /\ \/ /\ record \in Alive \cup {None}
        /\ SetManager(p, Registered(mgr[p], record))
        /\ Goto(p, AfterRead(p)) /\ UNCHANGED <<op, unread>>
     \/ /\ record # None
        /\ SetManager(p, Registered(mgr[p], None))
        /\ Goto(p, AfterRead(p)) /\ UNCHANGED op
        /\ unread' = (unread \/ record \in Alive)
     \/ /\ record \notin Alive \cup {None}
        /\ Goto(p, "discard") /\ op' = [op EXCEPT ![p].then = AfterRead(p)]
        /\ UNCHANGED <<mgr, unread>>
     \/ Goto(p, "end") /\ UNCHANGED <<mgr, op, unread>>
  /\ UNCHANGED <<lock, os, record, solo>>

\* os.Remove, whatever the file says by now.
Discard(p) ==
  /\ pc[p] = "discard"
  /\ record' \in {None, record}
  /\ SetManager(p, Registered(mgr[p], None))
  /\ Goto(p, op[p].then) /\ op' = [op EXCEPT ![p].then = "idle"]
  /\ UNCHANGED <<lock, os, history>>

\* The command returns; an attached start waits on without the lock.
End(p) ==
  /\ pc[p] = "end"
  /\ IF lock = p THEN Release(p) ELSE UNCHANGED lock
  /\ Goto(p, CASE op[p].kind = "attached" -> "attached"
               [] op[p].kind \in {"attach", "interrupted"} -> "leaving"
               [] OTHER -> "idle")
  /\ op' = [op EXCEPT ![p] = IF @.kind = "attached" THEN @ ELSE NoOp]
  /\ UNCHANGED <<os, record, mgr, history>>

-----------------------------------------------------------------------------
(* start                                                                   *)

\* Mutant: only a child of this manager counts as running.
OwnChildOnly(m) == m.child # None

\* m.process != nil || m.externalPID > 0
HasProcess(m) == m.child # None \/ m.ext # None

Check(p) ==
  /\ pc[p] = "check"
  /\ Goto(p, IF mgr[p].owned /\ ~HasProcess(mgr[p]) THEN "spawn" ELSE "end")
  /\ UNCHANGED <<lock, os, record, mgr, op, history>>

Spawn(p) ==
  /\ pc[p] = "spawn"
  /\ \/ \E c \in Pids :
          /\ child[c] = "unused"
          /\ child' = [child EXCEPT ![c] = "alive"]
          /\ parent' = [parent EXCEPT ![c] = p]
          /\ op' = [op EXCEPT ![p].pid = c]
          /\ Goto(p, "record")
     \/ Goto(p, "end") /\ UNCHANGED <<child, parent, op>>
  /\ UNCHANGED <<lock, waiter, record, mgr, history>>

\* Mutant: a child that cannot be recorded is left running.
LeaveRunning(c) == UNCHANGED child

\* A child that cannot be recorded is killed; nothing waits for it.
GiveUp(c) == child' = [child EXCEPT ![c] = "exited"]

WriteRecord(p) ==
  /\ pc[p] = "record"
  /\ \/ record' = op[p].pid /\ Goto(p, "adopt") /\ UNCHANGED child
     \/ /\ record' \in {record, op[p].pid} /\ GiveUp(op[p].pid) /\ Goto(p, "end")
  /\ UNCHANGED <<lock, parent, waiter, mgr, op, history>>

Adopt(p) ==
  /\ pc[p] = "adopt"
  /\ SetManager(p, [mgr[p] EXCEPT !.child = op[p].pid, !.state = "starting"])
  /\ waiter' = [waiter EXCEPT ![op[p].pid] = "wait"]
  /\ Goto(p, "ready")
  /\ UNCHANGED <<lock, child, parent, record, op, history>>

\* m.process == process
StillMine(p) == mgr[p].child = op[p].pid

InState(p, state) == IF StillMine(p) THEN [mgr[p] EXCEPT !.state = state] ELSE mgr[p]

\* WaitReady asks the endpoint, which any living child may answer.
Ready(p) ==
  /\ pc[p] = "ready"
  /\ \/ /\ Alive # {}
        /\ SetManager(p, InState(p, "running")) /\ Goto(p, "end")
        /\ op' = [op EXCEPT ![p].kind = IF @ = "attach" THEN "attached" ELSE @]
     \/ /\ SetManager(p, InState(p, "failed"))
        /\ Goto(p, IF op[p].kind = "attach" THEN "stop" ELSE "end")
        /\ UNCHANGED op
  /\ UNCHANGED <<lock, os, record, history>>

-----------------------------------------------------------------------------
(* wait                                                                    *)

Reap(c) ==
  /\ child[c] = "exited" /\ waiter[c] = "wait"
  /\ child' = [child EXCEPT ![c] = "gone"]
  /\ waiter' = [waiter EXCEPT ![c] = "remove"]
  /\ UNCHANGED <<lock, parent, record, mgr, pc, op, history>>

\* The channel is sent to when the critical section is over.
Done(c) == waiter[c] = "none"

\* The child's exit status decides between stopped and failed.
Forget(c) ==
  LET p == parent[c]
  IN  /\ waiter[c] = "remove"
      /\ IF mgr[p].child = c
           THEN \E s \in IF mgr[p].state = "stopping" THEN {"stopped"} ELSE {"stopped", "failed"} :
                  SetManager(p, [mgr[p] EXCEPT !.child = None, !.state = s])
           ELSE UNCHANGED mgr
      /\ record' \in {None, record}
      /\ waiter' = [waiter EXCEPT ![c] = "none"]
      /\ UNCHANGED <<lock, child, parent, pc, op, history>>

-----------------------------------------------------------------------------
(* Stop                                                                    *)

\* Uninstall stops only what runs.
StopBegin(p) ==
  /\ pc[p] = "stop"
  /\ LET m == mgr[p] IN
       \/ ~m.owned /\ Goto(p, "end") /\ UNCHANGED mgr
       \/ /\ m.owned /\ ~HasProcess(m)
          /\ SetManager(p, [m EXCEPT !.state = "stopped"])
          /\ Goto(p, IF op[p].kind = "uninstall" THEN "clear" ELSE "unrecord")
       \/ /\ m.owned /\ HasProcess(m)
          /\ SetManager(p, [m EXCEPT !.state = "stopping"])
          /\ Goto(p, IF m.child = None THEN "signal_ext" ELSE "signal")
  /\ op' = [op EXCEPT ![p].pid = IF mgr[p].child = None THEN mgr[p].ext ELSE mgr[p].child]
  /\ UNCHANGED <<lock, os, record, history>>

\* Nothing runs: the error of removePIDRecord is ignored.
Unrecord(p) ==
  /\ pc[p] = "unrecord"
  /\ record' \in {None, record}
  /\ Goto(p, AfterStop(op[p].kind))
  /\ UNCHANGED <<lock, os, mgr, op, history>>

Kill(c) == child' = [child EXCEPT ![c] = IF @ = "alive" THEN
                       (IF parent[c] = NoProc THEN "gone" ELSE "exited") ELSE @]

\* The child was signalled: it ends in time, or it is killed and waited for.
AwaitDone(p) ==
  /\ pc[p] \in {"signal", "killed"} /\ Done(op[p].pid)
  /\ Goto(p, AfterStop(op[p].kind))
  /\ UNCHANGED <<lock, os, record, mgr, op, history>>

StopTimeout(p) ==
  /\ pc[p] = "signal" /\ Kill(op[p].pid)
  /\ Goto(p, "killed")
  /\ UNCHANGED <<lock, parent, waiter, record, mgr, op, history>>

\* The caller's context ends, or the kill fails.
StopErr(p) ==
  /\ pc[p] \in {"signal", "killed", "signal_ext"}
  /\ Goto(p, "end")
  /\ UNCHANGED <<lock, os, record, mgr, op, history>>

\* stopExternal returns when the process is gone or has been sent SIGKILL.
StopExternal(p) ==
  /\ pc[p] = "signal_ext"
  /\ IF child[op[p].pid] = "gone" THEN UNCHANGED child ELSE Kill(op[p].pid)
  /\ Goto(p, "forget_ext")
  /\ UNCHANGED <<lock, parent, waiter, record, mgr, op, history>>

ForgetExternal(p) ==
  /\ pc[p] = "forget_ext"
  /\ SetManager(p, [mgr[p] EXCEPT !.ext = None, !.state = "stopped"])
  /\ \/ record' = None /\ Goto(p, AfterStop(op[p].kind))
     \/ UNCHANGED record /\ Goto(p, "end")
  /\ UNCHANGED <<lock, os, op, history>>

\* The last section of Uninstall.
Unregister(p) ==
  /\ pc[p] = "clear"
  /\ SetManager(p, [mgr[p] EXCEPT !.owned = FALSE, !.ext = None, !.state = "not_installed"])
  /\ record' \in {None, record}
  /\ Goto(p, "end")
  /\ UNCHANGED <<lock, os, op, history>>

-----------------------------------------------------------------------------
(* StartAttached's waiter, the end of a PMux process, and the children     *)

AttachedDone(p) ==
  /\ pc[p] = "attached" /\ Done(op[p].pid)
  /\ Goto(p, "leaving")
  /\ UNCHANGED <<lock, os, record, mgr, op, history>>

Interrupt(p) ==
  /\ pc[p] = "attached"
  /\ op' = [op EXCEPT ![p].kind = "interrupted"]
  /\ Goto(p, "stop")
  /\ UNCHANGED <<lock, os, record, mgr, history>>

\* Its goroutines end with it; its children live on and are reaped by init.
Gone(p) ==
  /\ Abandon(p)
  /\ LET orphans == {c \in Pids : parent[c] = p}
     IN  /\ child' = [c \in Pids |-> IF c \in orphans /\ child[c] = "exited" THEN "gone"
                                     ELSE child[c]]
         /\ parent' = [c \in Pids |-> IF c \in orphans THEN NoProc ELSE parent[c]]
         /\ waiter' = [c \in Pids |-> IF c \in orphans THEN "none" ELSE waiter[c]]
  /\ SetManager(p, NoManager)
  /\ Goto(p, "idle") /\ op' = [op EXCEPT ![p] = NoOp]
  /\ UNCHANGED <<record, unread>>

Exit(p) ==
  /\ Active(p) /\ pc[p] \in {"idle", "leaving"}
  /\ Gone(p)
  /\ UNCHANGED solo

Crash(p) ==
  /\ Active(p) /\ Gone(p)
  /\ solo' = (solo /\ pc[p] # "record")

ChildExits(c) ==
  /\ c \in Alive /\ Kill(c)
  /\ UNCHANGED <<lock, parent, waiter, record, mgr, pc, op, history>>

-----------------------------------------------------------------------------
Init ==
  /\ LockInit
  /\ child = [c \in Pids |-> "unused"]
  /\ parent = [c \in Pids |-> NoProc]
  /\ waiter = [c \in Pids |-> "none"]
  /\ record = None
  /\ mgr = [p \in Procs |-> NoManager]
  /\ pc = [p \in Procs |-> "idle"] /\ op = [p \in Procs |-> NoOp]
  /\ solo = TRUE /\ unread = FALSE

\* What a running command does by itself; that its caller gives up (StopErr) is not
\* relied on.
Progress(p) ==
  \/ ReadRecord(p) \/ Discard(p) \/ End(p)
  \/ Check(p) \/ Spawn(p) \/ WriteRecord(p) \/ Adopt(p) \/ Ready(p)
  \/ StopBegin(p) \/ Unrecord(p) \/ AwaitDone(p) \/ StopTimeout(p)
  \/ StopExternal(p) \/ ForgetExternal(p) \/ Unregister(p) \/ AttachedDone(p)

Wait(c) == Reap(c) \/ Forget(c)

Next ==
  \/ \E p \in Procs :
       \/ Progress(p) \/ StopErr(p) \/ Interrupt(p) \/ Exit(p) \/ Crash(p)
       \/ \E kind \in Invoked : Invoke(p, kind)
  \/ \E c \in Pids : Wait(c) \/ ChildExits(c)

Spec == Init /\ [][Next]_vars

\* The operating system runs a command that can go on, and a wait goroutine whose
\* child has ended.
Fairness ==
  /\ \A p \in Procs : WF_vars(Progress(p))
  /\ \A c \in Pids : WF_vars(Wait(c))
-----------------------------------------------------------------------------
(* Properties                                                              *)

TypeOK ==
  /\ lock \in Procs \cup {NoProc}
  /\ child \in [Pids -> {"unused", "alive", "exited", "gone"}]
  /\ parent \in [Pids -> Procs \cup {NoProc}]
  /\ waiter \in [Pids -> {"none", "wait", "remove"}]
  /\ record \in Pids \cup {None}
  /\ mgr \in [Procs -> Manager]
  /\ pc \in [Procs -> PCs]
  /\ op \in [Procs -> [kind: Kinds, pid: Pids \cup {None}, then: PCs]]
  /\ solo \in BOOLEAN /\ unread \in BOOLEAN

\* A second child is not started while one lives, as long as no two PMux processes
\* overlap and the record of a living child can be read: not by the same process, not by
\* one that starts after it has ended or was killed (docs/services.md:41,
\* foreground.go:241, :444, :491).
RejectsDuplicates == solo /\ ~unread => Cardinality(Alive) <= 1

\* A process never loses sight of a living child of its own: no failed start, install,
\* timed-out Stop or uninstall of the same process takes the child out of the manager
\* while it lives, or puts another in its place (foreground.go:187, :241-283, :351);
\* only its wait goroutine lets go of it, when it has ended.
ForgetsNoChild ==
  \A c \in Alive : parent[c] # NoProc =>
    LET p == parent[c]
    IN  mgr[p].child = c \/ (pc[p] \in {"record", "adopt"} /\ op[p].pid = c)

\* The wait goroutine of a child that has ended does not take away the record of
\* the child this process has started since (foreground.go:311-332, Restart).
OwnRecordSurvives ==
  \A c \in Pids : waiter[c] = "remove" => record \notin {d \in Alive : parent[d] = parent[c]}

\* A state other than that of a stop in progress agrees with the child: running needs
\* one, own or recorded, and what is stopped has no child of its own, whichever of
\* start, Stop and the wait goroutine wrote it last (foreground.go:299, :318).
StateMatchesChild ==
  \A p \in Procs :
    /\ mgr[p].state = "running" => HasProcess(mgr[p])
    /\ mgr[p].state \in {"stopped", "not_installed"} => mgr[p].child = None

\* What a Manager says of its children is so: it loses none that lives, keeps its
\* record, and has a state that agrees with it.
ManagerKnowsItsChild == ForgetsNoChild /\ OwnRecordSurvives /\ StateMatchesChild

\* "Duplicate foreground instances are rejected" (docs/services.md:41), with no record that
\* could not be read.
NoDuplicates == ~unread => Cardinality({c \in Alive : parent[c] # NoProc}) <= 1
=============================================================================
