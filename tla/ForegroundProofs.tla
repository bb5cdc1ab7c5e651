--------------------------- MODULE ForegroundProofs ---------------------------
(***************************************************************************)
(* For any number of PMux processes and children: a Manager knows the      *)
(* child its process has, and processes that do not overlap run one core.  *)
(*                                                                         *)
(* Neither follows from the lock alone, since the wait goroutine and an    *)
(* attached start do not take it.  IInv says what each step of a command   *)
(* knows of the children (CommandInv), that a wait goroutine belongs to    *)
(* the child its manager has (WaiterInv), and, as long as the processes    *)
(* did not overlap, that what lives is what the record names (SoloInv).    *)
(***************************************************************************)
EXTENDS ForegroundService, FiniteSetTheorems, TLAPS

\* Steps at which the manager has no child of its own.
Childless == {"spawn", "record", "adopt", "unrecord", "signal_ext", "forget_ext", "clear"}

\* Steps that work on the child op.pid.
Signalling == {"signal", "killed"}
OnChild == {"record", "adopt", "ready"} \cup Signalling

\* Steps at which nothing lives if the processes did not overlap.
NothingLives == {"spawn", "discard", "unrecord", "forget_ext", "clear"}

Knows(p) ==
  /\ mgr[p].owned => mgr[p].open
  /\ mgr[p].child # None =>
       mgr[p].owned /\ parent[mgr[p].child] = p /\ waiter[mgr[p].child] # "none"
  /\ pc[p] \in {"read", "reread", "discard"} => op[p].kind \in Invoked
  /\ pc[p] = "discard" => op[p].then \in {"reread", "end", "check", "stop"}
  /\ pc[p] \in Childless => mgr[p].child = None
  /\ pc[p] \in {"spawn", "record", "adopt", "signal_ext"} => mgr[p].owned
  /\ pc[p] \in OnChild => op[p].pid \in Pids
  /\ pc[p] \in {"record", "adopt"} \cup Signalling =>
       parent[op[p].pid] = p /\ child[op[p].pid] # "unused"
  /\ pc[p] = "signal_ext" => mgr[p].ext = op[p].pid
  /\ pc[p] \in Signalling =>
       /\ mgr[p].child \in {None, op[p].pid}
       /\ waiter[op[p].pid] = "none" => child[op[p].pid] # "alive"

CommandInv == \A p \in Procs : Knows(p)

WaiterInv ==
  \A c \in Pids :
    /\ waiter[c] # "none" =>
         child[c] # "unused" /\ parent[c] # NoProc /\ mgr[parent[c]].child = c
    /\ waiter[c] = "remove" => child[c] = "gone"

Sees(p) ==
  /\ pc[p] \in NothingLives => Alive = {}
  /\ pc[p] \in {"record", "adopt"} \cup Signalling => Alive \subseteq {op[p].pid}
  /\ mgr[p].child # None => Alive \subseteq {mgr[p].child}
  /\ mgr[p].owned =>
       Alive \subseteq {mgr[p].child, mgr[p].ext} \/ pc[p] \in {"record", "adopt"}

\* No two PMux processes overlapped, and no record of a living child was unreadable.
Alone == solo /\ ~unread

SoloInv ==
  /\ \A p, q \in Procs : Active(p) /\ Active(q) => p = q
  /\ Alive \subseteq {record} \/ \E p \in Procs : pc[p] = "record"
  /\ \A p \in Procs : Sees(p)

IInv ==
  /\ TypeOK /\ CommandInv /\ WaiterInv
  /\ ForgetsNoChild /\ StateMatchesChild
  /\ Alone => SoloInv

USE NoneAssumption, NoProcAssumption DEF NoneAssumption, NoProcAssumption, Alone, history
-----------------------------------------------------------------------------
(* Types                                                                   *)

Ops == [kind: Kinds, pid: Pids \cup {None}, then: PCs]

LEMMA ManagerFields ==
  ASSUME NEW m \in Manager
  PROVE  /\ m.open \in BOOLEAN /\ m.owned \in BOOLEAN /\ m.child \in Pids \cup {None}
         /\ m.ext \in Pids \cup {None} /\ m.state \in States
         /\ \A c \in Pids \cup {None} : Registered(m, c) \in Manager
         /\ \A c \in Pids \cup {None}, s \in States :
              /\ [m EXCEPT !.child = c, !.state = s] \in Manager
              /\ [m EXCEPT !.ext = c, !.state = s] \in Manager
              /\ [m EXCEPT !.owned = FALSE, !.ext = c, !.state = s] \in Manager
         /\ \A s \in States : [m EXCEPT !.state = s] \in Manager
BY DEF Manager, Registered, States

LEMMA OpFields ==
  ASSUME NEW o \in Ops
  PROVE  /\ o.kind \in Kinds /\ o.pid \in Pids \cup {None} /\ o.then \in PCs
         /\ \A k \in Kinds : [o EXCEPT !.kind = k] \in Ops
         /\ \A c \in Pids \cup {None} : [o EXCEPT !.pid = c] \in Ops
         /\ \A at \in PCs : [o EXCEPT !.then = at] \in Ops
BY DEF Ops

LEMMA NothingType == NoManager \in Manager /\ NoOp \in Ops
BY DEF NoManager, Manager, States, NoOp, Ops, Kinds, PCs

LEMMA NextSteps ==
  /\ \A k \in Invoked : First(k) \in PCs
  /\ \A k \in Kinds : AfterStop(k) \in PCs
  /\ \A p \in Procs : (pc[p] = "read" => op[p].kind \in Invoked) => AfterRead(p) \in PCs
<1>1. \A k \in Invoked : First(k) \in PCs
  BY DEF Invoked, Kinds, First, PCs
<1>2. \A k \in Kinds : AfterStop(k) \in PCs
  BY DEF Kinds, AfterStop, PCs
<1>3. "check" \in PCs /\ "end" \in PCs
  BY DEF PCs
<1> QED
  BY <1>1, <1>2, <1>3 DEF AfterRead

\* An assignment to one process's variables keeps their types.
LEMMA Assign ==
  ASSUME TypeOK, NEW p \in Procs
  PROVE  /\ \A at \in PCs : [pc EXCEPT ![p] = at] \in [Procs -> PCs]
         /\ \A m \in Manager : [mgr EXCEPT ![p] = m] \in [Procs -> Manager]
         /\ \A k \in Kinds : [op EXCEPT ![p].kind = k] \in [Procs -> Ops]
         /\ \A c \in Pids \cup {None} : [op EXCEPT ![p].pid = c] \in [Procs -> Ops]
BY OpFields DEF TypeOK, Ops

LEMMA ProgressType ==
  ASSUME TypeOK, NEW p \in Procs, pc[p] = "read" => op[p].kind \in Invoked, Progress(p)
  PROVE  TypeOK'
<1>1. /\ mgr \in [Procs -> Manager] /\ mgr[p] \in Manager
      /\ op \in [Procs -> Ops] /\ op[p] \in Ops /\ pc \in [Procs -> PCs]
  BY DEF TypeOK, Ops
<1>2. /\ op[p].kind \in Kinds /\ op[p].pid \in Pids \cup {None} /\ op[p].then \in PCs
      /\ mgr[p].child \in Pids \cup {None} /\ mgr[p].ext \in Pids \cup {None}
  BY <1>1, ManagerFields, OpFields
<1> USE DEF TypeOK, SetManager, Goto
<1>3. CASE ReadRecord(p)
  <2>1. AfterRead(p) \in PCs
    BY <1>2, NextSteps
  <2>2. /\ record \in Alive \cup {None} => Registered(mgr[p], record) \in Manager
        /\ Registered(mgr[p], None) \in Manager
    BY <1>1, ManagerFields DEF Alive
  <2>6. unread' \in BOOLEAN
    <3>1. unread' = unread \/ unread' = (unread \/ record \in Alive)
      BY <1>3 DEF ReadRecord
    <3> QED
      BY <3>1, Zenon
  <2>3. mgr' \in [Procs -> Manager]
    BY <1>1, <1>3, <2>2 DEF ReadRecord
  <2>4. op' \in [Procs -> Ops]
    BY <1>1, <1>3, <2>1, OpFields DEF ReadRecord
  <2>5. pc' \in [Procs -> PCs]
    BY <1>1, <1>3, <2>1 DEF ReadRecord, PCs
  <2> QED
    BY <1>3, <2>3, <2>4, <2>5, <2>6 DEF ReadRecord, os, Ops
<1>4. CASE Discard(p)
  <2>1. Registered(mgr[p], None) \in Manager
    BY <1>1, ManagerFields
  <2>2. "idle" \in PCs
    BY DEF PCs
  <2>3. [op[p] EXCEPT !.then = "idle"] \in Ops
    BY <1>1, <2>2, OpFields
  <2> QED
    BY <1>1, <1>2, <1>4, <2>1, <2>3 DEF Discard, os, Ops
<1>5. CASE End(p)
  <2>1. pc' \in [Procs -> PCs]
    BY <1>1, <1>5 DEF End, PCs
  <2>2. op' \in [Procs -> Ops]
    BY <1>1, <1>5, NothingType DEF End
  <2>3. lock' \in Procs \cup {NoProc}
    BY <1>5 DEF End, Release
  <2> QED
    BY <1>5, <2>1, <2>2, <2>3 DEF End, os, Ops
<1>6. CASE Check(p) \/ Unrecord(p) \/ AwaitDone(p) \/ StopTimeout(p) \/ StopExternal(p)
           \/ AttachedDone(p)
  <2>1. pc' \in [Procs -> PCs]
    BY <1>1, <1>2, <1>6, NextSteps
       DEF Check, Unrecord, AwaitDone, StopTimeout, StopExternal, AttachedDone, PCs
  <2>2. child' \in [Pids -> {"unused", "alive", "exited", "gone"}]
    BY <1>6 DEF Check, Unrecord, AwaitDone, StopTimeout, StopExternal, AttachedDone, os, Kill
  <2> QED
    BY <1>6, <2>1, <2>2
       DEF Check, Unrecord, AwaitDone, StopTimeout, StopExternal, AttachedDone, os
<1>7. CASE Spawn(p)
  <2>1. pc' \in [Procs -> PCs] /\ op' \in [Procs -> Ops]
    <3>1. (\E c \in Pids : op' = [op EXCEPT ![p].pid = c]) \/ op' = op
      BY <1>7 DEF Spawn
    <3>2. op' \in [Procs -> Ops]
      BY <1>1, <3>1, Assign
    <3> QED
      BY <1>1, <1>7, <3>2 DEF Spawn, PCs
  <2>2. /\ child' \in [Pids -> {"unused", "alive", "exited", "gone"}]
        /\ parent' \in [Pids -> Procs \cup {NoProc}]
    <3>1. CASE \E c \in Pids : /\ child' = [child EXCEPT ![c] = "alive"]
                              /\ parent' = [parent EXCEPT ![c] = p]
      BY <3>1
    <3>2. CASE UNCHANGED <<child, parent>>
      BY <3>2
    <3> QED
      BY <1>7, <3>1, <3>2 DEF Spawn
  <2> QED
    BY <1>7, <2>1, <2>2 DEF Spawn, Ops
<1>8. CASE WriteRecord(p)
  BY <1>1, <1>2, <1>8 DEF WriteRecord, GiveUp, PCs
<1>9. CASE Adopt(p)
  <2>1. [mgr[p] EXCEPT !.child = op[p].pid, !.state = "starting"] \in Manager
    BY <1>1, <1>2, ManagerFields DEF States
  <2> QED
    BY <1>1, <1>9, <2>1 DEF Adopt, PCs
<1>10. CASE Ready(p)
  <2>1. \A s \in {"running", "failed"} : InState(p, s) \in Manager
    BY <1>1, ManagerFields DEF InState, States
  <2>2. pc' \in [Procs -> PCs] /\ op' \in [Procs -> Ops]
    <3>1. "attached" \in Kinds /\ {"end", "stop"} \subseteq PCs
      BY DEF Kinds, PCs
    <3>2. op' = op \/ \E k \in Kinds : op' = [op EXCEPT ![p].kind = k]
      BY <1>2, <1>10, <3>1 DEF Ready
    <3>3. op' \in [Procs -> Ops]
      <4>1. CASE op' = op
        BY <1>1, <4>1
      <4>2. CASE \E k \in Kinds : op' = [op EXCEPT ![p].kind = k]
        BY <4>2, Assign
      <4> QED
        BY <3>2, <4>1, <4>2
    <3> QED
      BY <1>1, <1>10, <3>1, <3>3 DEF Ready
  <2> QED
    BY <1>1, <1>10, <2>1, <2>2 DEF Ready, os, Ops
<1>11. CASE StopBegin(p)
  <2>1. mgr' \in [Procs -> Manager]
    <3>1. \A s \in {"stopped", "stopping"} : [mgr[p] EXCEPT !.state = s] \in Manager
      BY <1>1, ManagerFields DEF States
    <3>2. mgr' = mgr \/ \E m \in Manager : mgr' = [mgr EXCEPT ![p] = m]
      BY <1>11, <3>1 DEF StopBegin
    <3> QED
      BY <1>1, <3>2, Assign
  <2>2. pc' \in [Procs -> PCs] /\ op' \in [Procs -> Ops]
    <3>1. \E c \in Pids \cup {None} : op' = [op EXCEPT ![p].pid = c]
      BY <1>2, <1>11 DEF StopBegin
    <3>2. op' \in [Procs -> Ops]
      BY <3>1, Assign
    <3> QED
      BY <1>1, <1>11, <3>2 DEF StopBegin, PCs
  <2> QED
    BY <1>11, <2>1, <2>2 DEF StopBegin, os, Ops
<1>12. CASE ForgetExternal(p) \/ Unregister(p)
  <2>1. mgr' \in [Procs -> Manager]
    <3>1. {"stopped", "not_installed"} \subseteq States
      BY DEF States
    <3>2. /\ [mgr[p] EXCEPT !.ext = None, !.state = "stopped"] \in Manager
          /\ [mgr[p] EXCEPT !.owned = FALSE, !.ext = None, !.state = "not_installed"] \in Manager
      BY <1>1, <3>1, ManagerFields
    <3>3. \E m \in Manager : mgr' = [mgr EXCEPT ![p] = m]
      BY <1>12, <3>2 DEF ForgetExternal, Unregister
    <3> QED
      BY <3>3, Assign
  <2>2. pc' \in [Procs -> PCs]
    BY <1>1, <1>2, <1>12, NextSteps DEF ForgetExternal, Unregister, PCs
  <2> QED
    BY <1>12, <2>1, <2>2 DEF ForgetExternal, Unregister, os
<1> QED
  BY <1>3, <1>4, <1>5, <1>6, <1>7, <1>8, <1>9, <1>10, <1>11, <1>12 DEF Progress

LEMMA OtherType ==
  ASSUME TypeOK,
         \/ \E p \in Procs : \/ StopErr(p) \/ Interrupt(p) \/ Exit(p) \/ Crash(p)
                             \/ \E kind \in Invoked : Invoke(p, kind)
         \/ \E c \in Pids : Wait(c) \/ ChildExits(c)
  PROVE  TypeOK'
<1>1. mgr \in [Procs -> Manager] /\ op \in [Procs -> Ops] /\ pc \in [Procs -> PCs]
  BY DEF TypeOK, Ops
<1> USE DEF TypeOK, SetManager, Goto
<1>2. CASE \E p \in Procs : StopErr(p) \/ Interrupt(p)
  <2>3. PICK p \in Procs : StopErr(p) \/ Interrupt(p)
    BY <1>2
  <2>1. pc' \in [Procs -> PCs] /\ op' \in [Procs -> Ops]
    <3>1. "interrupted" \in Kinds /\ {"end", "stop"} \subseteq PCs
      BY DEF Kinds, PCs
    <3>2. op' = op \/ \E k \in Kinds : op' = [op EXCEPT ![p].kind = k]
      BY <2>3, <3>1 DEF StopErr, Interrupt
    <3>3. op' \in [Procs -> Ops]
      BY <1>1, <3>2, Assign
    <3> QED
      BY <1>1, <2>3, <3>1, <3>3 DEF StopErr, Interrupt
  <2> QED
    BY <2>3, <2>1 DEF StopErr, Interrupt, os, Ops
<1>3. CASE \E p \in Procs : Exit(p) \/ Crash(p)
  <2>1. PICK p \in Procs :
         Gone(p) /\ (solo' = solo \/ solo' = (solo /\ pc[p] # "record"))
    BY <1>3 DEF Exit, Crash
  <2>2. pc' \in [Procs -> PCs] /\ op' \in [Procs -> Ops] /\ mgr' \in [Procs -> Manager]
    BY <1>1, <2>1, NothingType DEF Gone, PCs
  <2>3. /\ child' \in [Pids -> {"unused", "alive", "exited", "gone"}]
        /\ parent' \in [Pids -> Procs \cup {NoProc}]
        /\ waiter' \in [Pids -> {"none", "wait", "remove"}]
        /\ record' = record /\ lock' \in Procs \cup {NoProc}
    BY <2>1 DEF Gone, Abandon
  <2> QED
    <3>1. solo' \in BOOLEAN
      BY <2>1, Zenon
    <3>2. unread' = unread
      BY <2>1 DEF Gone
    <3> QED
      BY <2>2, <2>3, <3>1, <3>2 DEF Ops
<1>4. CASE \E p \in Procs, kind \in Invoked : Invoke(p, kind)
  <2>1. PICK p \in Procs, kind \in Invoked : Invoke(p, kind)
    BY <1>4
  <2>2. kind \in Kinds /\ First(kind) \in PCs /\ "read" \in PCs
    BY NextSteps DEF Invoked, PCs
  <2>3. pc' \in [Procs -> PCs] /\ op' \in [Procs -> Ops]
    BY <1>1, <2>1, <2>2, OpFields DEF Invoke
  <2>4. lock' \in Procs \cup {NoProc} /\ solo' \in BOOLEAN /\ unread' = unread
    BY <2>1 DEF Invoke, TryAcquireOk
  <2> QED
    BY <2>1, <2>3, <2>4 DEF Invoke, os, Ops
<1>5. CASE \E c \in Pids : Wait(c) \/ ChildExits(c)
  <2>1. PICK c \in Pids : Reap(c) \/ Forget(c) \/ ChildExits(c)
    BY <1>5 DEF Wait
  <2>2. CASE Reap(c) \/ ChildExits(c)
    BY <2>2 DEF Reap, ChildExits, Kill
  <2>3. CASE Forget(c)
    <3>1. mgr' \in [Procs -> Manager]
      <4>1. CASE UNCHANGED mgr
        BY <1>1, <4>1
      <4>2. CASE \E s \in {"stopped", "failed"} :
                   mgr' = [mgr EXCEPT ![parent[c]] =
                             [mgr[parent[c]] EXCEPT !.child = None, !.state = s]]
        <5>1. CASE parent[c] \in Procs
          <6>1. \A s \in {"stopped", "failed"} :
                  [mgr[parent[c]] EXCEPT !.child = None, !.state = s] \in Manager
            BY <1>1, <5>1, ManagerFields DEF States
          <6>2. \A m \in Manager : [mgr EXCEPT ![parent[c]] = m] \in [Procs -> Manager]
            BY <5>1, Assign
          <6>3. \E m \in Manager : mgr' = [mgr EXCEPT ![parent[c]] = m]
            BY <4>2, <6>1
          <6> QED
            BY <6>2, <6>3
        <5>2. CASE parent[c] \notin Procs
          BY <1>1, <4>2, <5>2
        <5> QED
          BY <5>1, <5>2
      <4> QED
        BY <2>3, <4>1, <4>2 DEF Forget
    <3> QED
      BY <2>3, <3>1 DEF Forget
  <2> QED
    BY <2>1, <2>2, <2>3
<1> QED
  BY <1>2, <1>3, <1>4, <1>5

-----------------------------------------------------------------------------
(* What one process does by itself                                         *)

\* The other processes are where they were.
Apart(p) ==
  \A q \in Procs \ {p} : mgr'[q] = mgr[q] /\ pc'[q] = pc[q] /\ op'[q] = op[q]

\* StateMatchesChild of one process.
StateFits(p) ==
  /\ mgr[p].state = "running" => HasProcess(mgr[p])
  /\ mgr[p].state \in {"stopped", "not_installed"} => mgr[p].child = None

Manages == CommandInv /\ WaiterInv /\ ForgetsNoChild /\ StateMatchesChild

LEMMA LocalManages ==
  ASSUME TypeOK, Manages, NEW p \in Procs, Apart(p), UNCHANGED os,
         mgr'[p].child = mgr[p].child, pc[p] \notin {"record", "adopt"},
         Knows(p)', StateFits(p)'
  PROVE  Manages'
<1>1. CommandInv'
  <2>1. ASSUME NEW q \in Procs \ {p} PROVE Knows(q)'
    BY DEF Manages, CommandInv, Knows, Apart, os, Childless, OnChild, Signalling
  <2> QED
    BY <2>1 DEF CommandInv
<1>2. WaiterInv'
  BY DEF TypeOK, Manages, WaiterInv, Apart, os
<1>3. ForgetsNoChild'
  BY DEF TypeOK, Manages, ForgetsNoChild, Apart, os, Alive
<1>4. StateMatchesChild'
  BY DEF Manages, StateMatchesChild, StateFits, Apart, HasProcess
<1> QED
  BY <1>1, <1>2, <1>3, <1>4 DEF Manages

\* As long as only p runs, a step of p that leaves the living children and the record
\* alone keeps what is known of them.
LEMMA AliveSolo ==
  ASSUME SoloInv, NEW p \in Procs, Apart(p), Alive' = Alive, UNCHANGED record,
         Active(p), pc[p] # "record", Sees(p)'
  PROVE  SoloInv'
<1>1. \A q \in Procs \ {p} : ~Active(q) /\ Active(q)' = Active(q)
  BY DEF SoloInv, Apart, Active
<1>2. \A q \in Procs \ {p} : Sees(q)'
  BY DEF SoloInv, Sees, Apart, NothingLives, Signalling
<1>3. (Alive \subseteq {record})'
  BY <1>1 DEF SoloInv, Active
<1> QED
  BY <1>1, <1>2, <1>3 DEF SoloInv

LEMMA LocalSolo ==
  ASSUME SoloInv, NEW p \in Procs, Apart(p), UNCHANGED <<os, record>>,
         Active(p), pc[p] # "record", Sees(p)'
  PROVE  SoloInv'
BY AliveSolo DEF Alive, os

\* Where nothing lives, the record does not matter.
LEMMA EmptySolo ==
  ASSUME SoloInv, NEW p \in Procs, Apart(p), Active(p), Alive' = {}
  PROVE  SoloInv'
BY DEF SoloInv, Sees, Apart, Active

-----------------------------------------------------------------------------
(* Steps that change neither children nor record                           *)

\* What such a step assigns, if it changes only where the process goes on.
LEMMA ControlStep ==
  ASSUME TypeOK, NEW p \in Procs,
         Check(p) \/ End(p) \/ AwaitDone(p) \/ StopErr(p) \/ AttachedDone(p) \/ Interrupt(p)
  PROVE  /\ Apart(p) /\ UNCHANGED <<os, record, mgr, history>>
         /\ Check(p) => pc'[p] \in {"spawn", "end"} /\ op'[p] = op[p]
         /\ End(p) => pc'[p] \in {"attached", "leaving", "idle"}
         /\ AwaitDone(p) => pc'[p] = AfterStop(op[p].kind) /\ op'[p] = op[p]
         /\ StopErr(p) => pc'[p] = "end" /\ op'[p] = op[p]
         /\ AttachedDone(p) => pc'[p] = "leaving"
         /\ Interrupt(p) => pc'[p] = "stop"
<1>1. Apart(p)
  BY DEF TypeOK, Apart, Goto, Check, End, AwaitDone, StopErr, AttachedDone, Interrupt
<1>2. UNCHANGED <<os, record, mgr, history>>
  BY DEF Check, End, AwaitDone, StopErr, AttachedDone, Interrupt
<1> QED
  BY <1>1, <1>2 DEF TypeOK, Goto, Check, End, AwaitDone, StopErr, AttachedDone, Interrupt

LEMMA ControlIInv ==
  ASSUME IInv, TypeOK', NEW p \in Procs,
         Check(p) \/ End(p) \/ AwaitDone(p) \/ StopErr(p) \/ AttachedDone(p) \/ Interrupt(p)
  PROVE  IInv'
<1>1. TypeOK /\ Manages /\ Knows(p) /\ StateFits(p) /\ (Alone => SoloInv /\ Sees(p))
  BY DEF IInv, Manages, CommandInv, StateMatchesChild, StateFits, SoloInv
<1>2. /\ Apart(p) /\ UNCHANGED <<os, record, mgr, history>>
      /\ Check(p) => pc'[p] \in {"spawn", "end"} /\ op'[p] = op[p]
      /\ End(p) => pc'[p] \in {"attached", "leaving", "idle"}
      /\ AwaitDone(p) => pc'[p] = AfterStop(op[p].kind) /\ op'[p] = op[p]
      /\ StopErr(p) => pc'[p] = "end" /\ op'[p] = op[p]
      /\ AttachedDone(p) => pc'[p] = "leaving"
      /\ Interrupt(p) => pc'[p] = "stop"
  BY <1>1, ControlStep
<1>3. pc[p] \notin {"record", "adopt", "idle"} /\ op[p].kind \in Kinds
  BY <1>1 DEF TypeOK, Check, End, AwaitDone, StopErr, AttachedDone, Interrupt
<1>4. Check(p) /\ pc'[p] = "spawn" => mgr[p].owned /\ mgr[p].child = None /\ mgr[p].ext = None
  BY <1>1 DEF Check, TypeOK, Goto, HasProcess
<1>5. AwaitDone(p) => /\ mgr[p].child = None
                      /\ op[p].pid \in Pids /\ child[op[p].pid] # "alive"
                      /\ pc'[p] \in {"check", "clear", "end"}
  BY <1>1, <1>2 DEF AwaitDone, Done, Knows, Signalling, OnChild, AfterStop
<1>6. Knows(p)'
  BY <1>1, <1>2, <1>4, <1>5 DEF Knows, os, Childless, OnChild, Signalling
<1>7. StateFits(p)'
  BY <1>1, <1>2 DEF StateFits, HasProcess
<1>8. Alone => Sees(p)'
  <2>1. Alone /\ Check(p) /\ pc'[p] = "spawn" => Alive = {}
    BY <1>1, <1>3, <1>4 DEF Sees, Alive, Check
  <2>2. Alone /\ AwaitDone(p) => Alive = {}
    BY <1>1, <1>5 DEF Sees, Alive, AwaitDone, Signalling
  <2> QED
    BY <1>1, <1>2, <1>3, <1>5, <2>1, <2>2 DEF Sees, Alive, os, NothingLives, Signalling
<1>9. Alone => SoloInv'
  BY <1>1, <1>2, <1>3, <1>8, LocalSolo DEF Active
<1>10. Manages'
  BY <1>1, <1>2, <1>3, <1>6, <1>7, LocalManages
<1> QED
  BY <1>2, <1>9, <1>10 DEF IInv, Manages

LEMMA InvokeIInv ==
  ASSUME IInv, TypeOK', NEW p \in Procs, NEW kind \in Invoked, Invoke(p, kind)
  PROVE  IInv'
<1>1. TypeOK /\ Manages /\ Knows(p) /\ StateFits(p)
  BY DEF IInv, Manages, CommandInv, StateMatchesChild, StateFits
<1>2. /\ Apart(p) /\ UNCHANGED <<os, record, mgr>>
      /\ pc[p] = "idle" /\ op'[p].kind = kind /\ pc'[p] \in {"read", First(kind)}
  BY <1>1 DEF TypeOK, Invoke, Goto, Apart
<1>3. pc'[p] \in {"read", "reread", "end", "check", "stop"}
  BY <1>2 DEF First, Invoked, Kinds
<1>4. Knows(p)'
  BY <1>1, <1>2, <1>3 DEF Knows, os, Childless, OnChild, Signalling
<1>5. StateFits(p)'
  BY <1>1, <1>2 DEF StateFits, HasProcess
<1>6. Manages'
  BY <1>1, <1>2, <1>4, <1>5, LocalManages
<1>7. ASSUME Alone' PROVE SoloInv'
  <2>1. SoloInv /\ \A q \in Procs \ {p} : ~Active(q)
    BY <1>7 DEF Invoke, IInv
  <2>2. \A q \in Procs \ {p} : Active(q)' = Active(q)
    BY <1>2 DEF Apart, Active
  <2>3. (Alive \subseteq {record})'
    BY <1>2, <2>1 DEF SoloInv, Active, Alive, os
  <2>4. Sees(p)'
    BY <1>2, <1>3, <2>1 DEF SoloInv, Sees, Alive, os, NothingLives, Signalling
  <2>5. \A q \in Procs \ {p} : Sees(q)'
    BY <1>2, <2>1 DEF SoloInv, Sees, Apart, Alive, os, NothingLives, Signalling
  <2> QED
    BY <2>1, <2>2, <2>3, <2>4, <2>5 DEF SoloInv
<1> QED
  BY <1>6, <1>7 DEF IInv, Manages

\* As long as processes did not overlap, what lives is what the record names, unless
\* this process is about to write it.
LEMMA OnlyRecorded ==
  ASSUME SoloInv, NEW p \in Procs, Active(p), pc[p] # "record"
  PROVE  Alive \subseteq {record}
BY DEF SoloInv, Active

LEMMA ReadRecordIInv ==
  ASSUME IInv, TypeOK', NEW p \in Procs, ReadRecord(p)
  PROVE  IInv'
<1>1. TypeOK /\ Manages /\ Knows(p) /\ StateFits(p) /\ (Alone => SoloInv /\ Sees(p))
  BY DEF IInv, Manages, CommandInv, StateMatchesChild, StateFits, SoloInv
<1>2. /\ Apart(p) /\ UNCHANGED <<os, record>> /\ pc[p] \in {"read", "reread"}
      /\ \/ /\ record \in Alive \cup {None} /\ mgr'[p] = Registered(mgr[p], record)
            /\ pc'[p] = AfterRead(p) /\ op'[p] = op[p]
         \/ /\ Alone' => record \notin Alive
            /\ mgr'[p] = Registered(mgr[p], None)
            /\ pc'[p] = AfterRead(p) /\ op'[p] = op[p]
         \/ /\ record \notin Alive \cup {None} /\ mgr'[p] = mgr[p]
            /\ pc'[p] = "discard" /\ op'[p] = [op[p] EXCEPT !.then = AfterRead(p)]
         \/ mgr'[p] = mgr[p] /\ op'[p] = op[p] /\ pc'[p] = "end"
  <2>1. Apart(p)
    BY <1>1 DEF TypeOK, ReadRecord, Goto, SetManager, Apart
  <2> QED
    BY <1>1, <2>1 DEF TypeOK, ReadRecord, Goto, SetManager
<1>3. op[p].kind \in Invoked /\ AfterRead(p) \in {"reread", "end", "check", "stop"}
  BY <1>1, <1>2 DEF Knows, AfterRead, First, Invoked, Kinds
<1>4. /\ mgr[p] \in Manager
      /\ \A c : LET m == Registered(mgr[p], c) IN
           /\ m.open /\ m.owned /\ m.child = mgr[p].child /\ m.ext = c
           /\ m.state = IF mgr[p].child # None THEN mgr[p].state
                        ELSE IF c = None THEN "stopped" ELSE "running"
  BY <1>1 DEF TypeOK, Manager, Registered
<1>5. mgr'[p].child = mgr[p].child
  BY <1>2, <1>4
<1>6. Knows(p)'
  <2>1. op[p] \in Ops
    BY <1>1 DEF TypeOK, Ops
  <2>2. [op[p] EXCEPT !.then = AfterRead(p)].then = AfterRead(p)
        /\ [op[p] EXCEPT !.then = AfterRead(p)].kind = op[p].kind
    BY <2>1 DEF Ops
  <2>3. op'[p].kind = op[p].kind /\ (pc'[p] = "discard" => op'[p].then = AfterRead(p))
    BY <1>2, <1>3, <2>2
  <2> QED
    BY <1>1, <1>2, <1>3, <1>4, <2>3 DEF Knows, os, Childless, OnChild, Signalling
<1>7. StateFits(p)'
  BY <1>1, <1>2, <1>4 DEF StateFits, HasProcess
<1>8. Alone' => SoloInv'
  <2>1. Alone' => Alone
    BY DEF ReadRecord
  <2>2. Alone => Alive \subseteq {record}
    BY <1>1, <1>2, OnlyRecorded DEF Active
  <2>3. Alone' => Sees(p)'
    BY <1>1, <1>2, <1>3, <1>4, <2>1, <2>2 DEF Sees, Alive, os, NothingLives, Signalling
  <2> QED
    BY <1>1, <1>2, <2>1, <2>3, LocalSolo DEF Active
<1>9. Manages'
  BY <1>1, <1>2, <1>5, <1>6, <1>7, LocalManages
<1> QED
  BY <1>2, <1>8, <1>9 DEF IInv, Manages

LEMMA ReadyIInv ==
  ASSUME IInv, TypeOK', NEW p \in Procs, Ready(p)
  PROVE  IInv'
<1>1. TypeOK /\ Manages /\ Knows(p) /\ StateFits(p) /\ (Alone => SoloInv /\ Sees(p))
  BY DEF IInv, Manages, CommandInv, StateMatchesChild, StateFits, SoloInv
<1>2. /\ Apart(p) /\ UNCHANGED <<os, record, history>> /\ pc[p] = "ready"
      /\ pc'[p] \in {"end", "stop"} /\ mgr'[p] \in {InState(p, "running"), InState(p, "failed")}
  <2>1. Apart(p)
    BY <1>1 DEF TypeOK, Ready, Goto, SetManager, Apart
  <2> QED
    BY <1>1, <2>1 DEF TypeOK, Ready, Goto, SetManager
<1>3. /\ mgr[p] \in Manager
      /\ \A s : LET m == InState(p, s) IN
           /\ m.open = mgr[p].open /\ m.owned = mgr[p].owned /\ m.child = mgr[p].child
           /\ m.ext = mgr[p].ext
           /\ m.state = IF StillMine(p) THEN s ELSE mgr[p].state
  BY <1>1 DEF TypeOK, Manager, InState
<1>4. StillMine(p) => mgr[p].child # None
  BY <1>1, <1>2 DEF Knows, OnChild, StillMine
<1>5. Knows(p)'
  BY <1>1, <1>2, <1>3 DEF Knows, os, Childless, OnChild, Signalling
<1>6. StateFits(p)'
  BY <1>1, <1>2, <1>3, <1>4 DEF StateFits, HasProcess
<1>7. Alone => Sees(p)'
  BY <1>1, <1>2, <1>3 DEF Sees, Alive, os, NothingLives, Signalling
<1>8. Alone => SoloInv'
  BY <1>1, <1>2, <1>7, LocalSolo DEF Active
<1>9. Manages'
  BY <1>1, <1>2, <1>3, <1>5, <1>6, LocalManages
<1> QED
  BY <1>2, <1>8, <1>9 DEF IInv, Manages

LEMMA StopBeginIInv ==
  ASSUME IInv, TypeOK', NEW p \in Procs, StopBegin(p)
  PROVE  IInv'
<1>1. TypeOK /\ Manages /\ Knows(p) /\ StateFits(p) /\ (Alone => SoloInv /\ Sees(p))
  BY DEF IInv, Manages, CommandInv, StateMatchesChild, StateFits, SoloInv
<1>2. mgr[p] \in Manager /\ op[p] \in Ops
  BY <1>1 DEF TypeOK, Ops
<1>3. /\ Apart(p) /\ UNCHANGED <<os, record, history>> /\ pc[p] = "stop"
      /\ op'[p].pid = IF mgr[p].child = None THEN mgr[p].ext ELSE mgr[p].child
      /\ \/ pc'[p] = "end" /\ mgr'[p] = mgr[p]
         \/ /\ mgr[p].owned /\ ~HasProcess(mgr[p]) /\ pc'[p] \in {"clear", "unrecord"}
            /\ mgr'[p] = [mgr[p] EXCEPT !.state = "stopped"]
         \/ /\ mgr[p].owned /\ HasProcess(mgr[p])
            /\ pc'[p] = IF mgr[p].child = None THEN "signal_ext" ELSE "signal"
            /\ mgr'[p] = [mgr[p] EXCEPT !.state = "stopping"]
  <2>1. Apart(p)
    BY <1>1 DEF TypeOK, StopBegin, Goto, SetManager, Apart
  <2>2. op'[p].pid = IF mgr[p].child = None THEN mgr[p].ext ELSE mgr[p].child
    BY <1>1, <1>2 DEF TypeOK, StopBegin, Ops
  <2>3. \/ pc'[p] = "end" /\ mgr'[p] = mgr[p]
        \/ /\ mgr[p].owned /\ ~HasProcess(mgr[p]) /\ pc'[p] \in {"clear", "unrecord"}
           /\ mgr'[p] = [mgr[p] EXCEPT !.state = "stopped"]
        \/ /\ mgr[p].owned /\ HasProcess(mgr[p])
           /\ pc'[p] = IF mgr[p].child = None THEN "signal_ext" ELSE "signal"
           /\ mgr'[p] = [mgr[p] EXCEPT !.state = "stopping"]
    BY <1>1 DEF TypeOK, StopBegin, Goto, SetManager
  <2> QED
    BY <2>1, <2>2, <2>3 DEF StopBegin
<1>4. /\ mgr'[p].open = mgr[p].open /\ mgr'[p].owned = mgr[p].owned
      /\ mgr'[p].child = mgr[p].child /\ mgr'[p].ext = mgr[p].ext
      /\ mgr'[p].state \in {mgr[p].state, "stopped", "stopping"}
      /\ mgr'[p].state = "stopped" => mgr[p].child = None
  BY <1>1, <1>2, <1>3 DEF Manager, HasProcess, StateFits
<1>5. mgr[p].child # None => /\ mgr[p].child \in Pids /\ child[mgr[p].child] # "unused"
                             /\ waiter[mgr[p].child] # "none"
  BY <1>1, <1>2 DEF Manages, WaiterInv, Knows, Manager
<1>6. Knows(p)'
  BY <1>1, <1>3, <1>4, <1>5 DEF Knows, os, Childless, OnChild, Signalling, HasProcess
<1>7. StateFits(p)'
  BY <1>1, <1>4 DEF StateFits, HasProcess
<1>8. Alone => Sees(p)'
  <2>1. Alone /\ mgr[p].owned /\ ~HasProcess(mgr[p]) => Alive = {}
    BY <1>1, <1>3 DEF Sees, Alive, HasProcess
  <2> QED
    BY <1>1, <1>3, <1>4, <2>1 DEF Sees, Alive, os, NothingLives, Signalling
<1>9. Alone => SoloInv'
  BY <1>1, <1>3, <1>8, LocalSolo DEF Active
<1>10. Manages'
  BY <1>1, <1>3, <1>4, <1>6, <1>7, LocalManages
<1> QED
  BY <1>3, <1>9, <1>10 DEF IInv, Manages

-----------------------------------------------------------------------------
(* Steps that write the record                                             *)

\* Of these steps the record is what it was or empty: nothing lives.
LEMMA UnrecordIInv ==
  ASSUME IInv, TypeOK', NEW p \in Procs,
         Discard(p) \/ Unrecord(p) \/ ForgetExternal(p) \/ Unregister(p)
  PROVE  IInv'
<1>1. TypeOK /\ Manages /\ Knows(p) /\ StateFits(p) /\ (Alone => SoloInv /\ Sees(p))
  BY DEF IInv, Manages, CommandInv, StateMatchesChild, StateFits, SoloInv
<1>2. mgr[p] \in Manager /\ op[p] \in Ops
  BY <1>1 DEF TypeOK, Ops
<1>3. Apart(p) /\ UNCHANGED <<os, history>>
  <2>1. Apart(p)
    BY <1>1 DEF TypeOK, Discard, Unrecord, ForgetExternal, Unregister, Goto, SetManager, Apart
  <2> QED
    BY <2>1 DEF Discard, Unrecord, ForgetExternal, Unregister
<1>4. pc[p] \in {"discard", "unrecord", "forget_ext", "clear"}
  BY DEF Discard, Unrecord, ForgetExternal, Unregister
<1>5. Discard(p) => /\ mgr'[p] = Registered(mgr[p], None) /\ op'[p].kind = op[p].kind
                    /\ pc'[p] = op[p].then
  BY <1>1, <1>2 DEF TypeOK, Discard, Goto, SetManager, Ops
<1>6. /\ Unrecord(p) => mgr'[p] = mgr[p]
      /\ ForgetExternal(p) => mgr'[p] = [mgr[p] EXCEPT !.ext = None, !.state = "stopped"]
      /\ Unregister(p) =>
           mgr'[p] = [mgr[p] EXCEPT !.owned = FALSE, !.ext = None, !.state = "not_installed"]
  BY <1>1 DEF TypeOK, Unrecord, ForgetExternal, Unregister, SetManager
<1>7. ~Discard(p) => pc'[p] \in {"check", "clear", "end"} /\ op'[p] = op[p]
  BY <1>1 DEF TypeOK, Unrecord, ForgetExternal, Unregister, Goto, AfterStop
<1>8. /\ mgr'[p].child = mgr[p].child
      /\ mgr'[p].owned => mgr'[p].open
      /\ ~Discard(p) => mgr[p].child = None
      /\ mgr[p].child # None => mgr'[p].owned
      /\ mgr'[p].state = "running" => mgr'[p].child # None \/ mgr'[p].ext # None
      /\ mgr'[p].state \in {"stopped", "not_installed"} => mgr'[p].child = None
  <2>1. CASE Discard(p)
    <3>1. LET m == Registered(mgr[p], None) IN
            /\ m.open /\ m.owned /\ m.child = mgr[p].child /\ m.ext = None
            /\ m.state = IF mgr[p].child # None THEN mgr[p].state ELSE "stopped"
      BY <1>2 DEF Registered, Manager
    <3>2. /\ mgr'[p].open /\ mgr'[p].owned /\ mgr'[p].child = mgr[p].child
          /\ mgr'[p].state = IF mgr[p].child # None THEN mgr[p].state ELSE "stopped"
      BY <1>5, <2>1, <3>1
    <3> QED
      BY <1>1, <2>1, <3>2 DEF StateFits
  <2>2. CASE ~Discard(p)
    <3>1. mgr[p].child = None
      BY <1>1, <2>2 DEF Knows, Childless, Unrecord, ForgetExternal, Unregister
    <3>2. mgr[p].owned => mgr[p].open
      BY <1>1 DEF Knows
    <3>3. CASE Unrecord(p)
      BY <1>1, <1>6, <3>1, <3>2, <3>3 DEF StateFits, HasProcess
    <3>4. CASE ForgetExternal(p) \/ Unregister(p)
      BY <1>2, <1>6, <3>1, <3>2, <3>4 DEF Manager
    <3> QED
      BY <2>2, <3>3, <3>4
  <2> QED
    BY <2>1, <2>2
<1>9. Knows(p)'
  <2>1. CASE Discard(p)
    <3>1. pc'[p] \in {"reread", "end", "check", "stop"} /\ op'[p].kind \in Invoked
      BY <1>1, <1>5, <2>1 DEF Knows, Discard
    <3> QED
      BY <1>1, <1>3, <1>8, <3>1 DEF Knows, os, Childless, OnChild, Signalling
  <2>2. CASE ~Discard(p)
    BY <1>1, <1>3, <1>7, <1>8, <2>2 DEF Knows, os, Childless, OnChild, Signalling
  <2> QED
    BY <2>1, <2>2
<1>10. StateFits(p)'
  BY <1>8 DEF StateFits, HasProcess
<1>11. Manages'
  BY <1>1, <1>3, <1>4, <1>8, <1>9, <1>10, LocalManages
<1>12. Alone => SoloInv'
  <2>1. Alone => Alive' = {}
    BY <1>1, <1>3, <1>4 DEF Sees, NothingLives, Alive, os
  <2> QED
    BY <1>1, <1>3, <1>4, <2>1, EmptySolo DEF Active
<1> QED
  BY <1>3, <1>11, <1>12 DEF IInv, Manages

-----------------------------------------------------------------------------
(* Children                                                                *)

\* Children only end: what is known of them stays known.
LEMMA EndsManages ==
  ASSUME TypeOK, Manages, TypeOK', UNCHANGED <<parent, mgr, op>>,
         \A c \in Pids : \/ child'[c] = child[c]
                         \/ child[c] # "unused" /\ child'[c] \in {"exited", "gone"},
         \A c \in Pids : /\ waiter'[c] = "none" <=> waiter[c] = "none"
                         /\ waiter'[c] = "remove" => child'[c] = "gone",
         \A p \in Procs : pc'[p] = pc[p] \/ Knows(p)',
         \A p \in Procs : pc[p] \in {"record", "adopt"} =>
                            pc'[p] \in {"record", "adopt"} \/ op[p].pid \notin Alive'
  PROVE  Manages'
<1>1. CommandInv'
  <2>1. ASSUME NEW p \in Procs, pc'[p] = pc[p]
        PROVE  Knows(p)'
    <3>1. \A c \in Pids : /\ child[c] # "unused" => child'[c] # "unused"
                          /\ child[c] # "alive" => child'[c] # "alive"
      OBVIOUS
    <3>2. mgr[p].child \in Pids \cup {None}
      BY DEF TypeOK, Manager
    <3>3. mgr[p].child # None => waiter'[mgr[p].child] # "none" \/ waiter[mgr[p].child] = "none"
      BY <3>2
    <3>4. op[p].pid \in Pids => (waiter'[op[p].pid] = "none" <=> waiter[op[p].pid] = "none")
      OBVIOUS
    <3>5. Knows(p)
      BY DEF Manages, CommandInv
    <3> QED
      BY <2>1, <3>1, <3>3, <3>4, <3>5 DEF Knows, Childless, OnChild, Signalling
  <2> QED
    BY <2>1 DEF CommandInv
<1>2. WaiterInv'
  BY DEF Manages, WaiterInv
<1>3. ForgetsNoChild'
  BY DEF Manages, ForgetsNoChild, Alive, TypeOK
<1>4. StateMatchesChild'
  BY DEF Manages, StateMatchesChild, HasProcess
<1> QED
  BY <1>1, <1>2, <1>3, <1>4 DEF Manages

LEMMA EndsSolo ==
  ASSUME SoloInv, UNCHANGED <<record, mgr>>, Alive' \subseteq Alive,
         \A p \in Procs : \/ pc'[p] = pc[p] /\ op'[p] = op[p]
                          \/ Active(p) /\ pc[p] # "record" /\ Sees(p)'
  PROVE  SoloInv'
<1>1. \A p, q \in Procs : Active(p)' /\ Active(q)' => p = q
  BY DEF SoloInv, Active
<1>2. (Alive \subseteq {record})' \/ \E p \in Procs : pc'[p] = "record"
  BY DEF SoloInv, Active
<1>3. \A p \in Procs : Sees(p)'
  BY DEF SoloInv, Sees, NothingLives, Signalling
<1> QED
  BY <1>1, <1>2, <1>3 DEF SoloInv

\* A signal ends at most the child it is sent to.
LEMMA KillEnds ==
  ASSUME TypeOK, WaiterInv, NEW c \in Pids, Kill(c)
  PROVE  /\ Alive' = Alive \ {c}
         /\ \A d \in Pids : \/ child'[d] = child[d]
                            \/ child[d] # "unused" /\ child'[d] \in {"exited", "gone"}
         /\ \A d \in Pids : waiter[d] = "remove" => child'[d] = "gone"
<1>1. \A d \in Pids : d # c => child'[d] = child[d]
  BY DEF Kill, TypeOK
<1>2. /\ child[c] # "alive" => child'[c] = child[c]
      /\ child[c] = "alive" => child'[c] \in {"exited", "gone"}
  BY DEF Kill, TypeOK
<1>3. Alive' = Alive \ {c}
  BY <1>1, <1>2 DEF Alive
<1> QED
  BY <1>1, <1>2, <1>3 DEF WaiterInv

LEMMA ChildExitsIInv ==
  ASSUME IInv, TypeOK', NEW c \in Pids, ChildExits(c)
  PROVE  IInv'
<1>1. TypeOK /\ Manages /\ WaiterInv /\ (Alone => SoloInv)
  BY DEF IInv, Manages
<1>2. Kill(c) /\ UNCHANGED <<lock, parent, waiter, record, mgr, pc, op, history>>
  BY DEF ChildExits
<1>3. /\ Alive' \subseteq Alive
      /\ \A d \in Pids : \/ child'[d] = child[d]
                         \/ child[d] # "unused" /\ child'[d] \in {"exited", "gone"}
      /\ \A d \in Pids : waiter[d] = "remove" => child'[d] = "gone"
  BY <1>1, <1>2, KillEnds
<1>4. Manages'
  BY <1>1, <1>2, <1>3, EndsManages
<1>5. Alone => SoloInv'
  BY <1>1, <1>2, <1>3, EndsSolo
<1> QED
  BY <1>2, <1>4, <1>5 DEF IInv, Manages

LEMMA ReapIInv ==
  ASSUME IInv, TypeOK', NEW c \in Pids, Reap(c)
  PROVE  IInv'
<1>1. TypeOK /\ Manages /\ WaiterInv /\ (Alone => SoloInv)
  BY DEF IInv, Manages
<1>2. /\ UNCHANGED <<parent, record, mgr, pc, op, history>>
      /\ child[c] = "exited" /\ child'[c] = "gone"
      /\ waiter[c] = "wait" /\ waiter'[c] = "remove"
      /\ \A d \in Pids : d # c => child'[d] = child[d] /\ waiter'[d] = waiter[d]
  BY <1>1 DEF Reap, TypeOK
<1>3. Alive' = Alive
  BY <1>2 DEF Alive
<1>4. \A d \in Pids : /\ waiter'[d] = "none" <=> waiter[d] = "none"
                     /\ waiter'[d] = "remove" => child'[d] = "gone"
  BY <1>1, <1>2 DEF WaiterInv
<1>5. Manages'
  BY <1>1, <1>2, <1>4, EndsManages
<1>6. Alone => SoloInv'
  BY <1>1, <1>2, <1>3, EndsSolo
<1> QED
  BY <1>2, <1>5, <1>6 DEF IInv, Manages

LEMMA StopSignalIInv ==
  ASSUME IInv, TypeOK', NEW p \in Procs, StopTimeout(p) \/ StopExternal(p)
  PROVE  IInv'
<1>1. /\ TypeOK /\ Manages /\ WaiterInv /\ Knows(p) /\ (Alone => SoloInv /\ Sees(p))
  BY DEF IInv, Manages, CommandInv, SoloInv
<1>2. /\ UNCHANGED <<parent, waiter, record, mgr, op, history>>
      /\ \A q \in Procs \ {p} : pc'[q] = pc[q]
      /\ \/ StopTimeout(p) /\ pc[p] = "signal" /\ pc'[p] = "killed"
         \/ StopExternal(p) /\ pc[p] = "signal_ext" /\ pc'[p] = "forget_ext"
  BY <1>1 DEF StopTimeout, StopExternal, Goto, TypeOK
<1>3. /\ Alive' \subseteq Alive /\ op[p].pid \notin Alive'
      /\ \A d \in Pids : \/ child'[d] = child[d]
                         \/ child[d] # "unused" /\ child'[d] \in {"exited", "gone"}
      /\ \A d \in Pids : waiter[d] = "remove" => child'[d] = "gone"
  <2>1. CASE op[p].pid \in Pids /\ Kill(op[p].pid)
    BY <1>1, <2>1, KillEnds
  <2>2. CASE child' = child /\ op[p].pid \notin Alive
    BY <1>1, <2>2 DEF Alive, WaiterInv
  <2>3. op[p].pid \notin Pids => (Kill(op[p].pid) => child' = child)
    BY <1>1 DEF Kill, TypeOK
  <2> QED
    BY <2>1, <2>2, <2>3 DEF StopTimeout, StopExternal, Alive
<1>4. Knows(p)'
  <2>1. /\ child[op[p].pid] # "unused" /\ op[p].pid \in Pids
           => child'[op[p].pid] \notin {"unused", "alive"}
    BY <1>3 DEF Alive
  <2> QED
    BY <1>1, <1>2, <2>1 DEF Knows, Childless, OnChild, Signalling
<1>5. Manages'
  BY <1>1, <1>2, <1>3, <1>4, EndsManages
<1>6. Alone => Sees(p)'
  <2>1. Alone /\ pc[p] = "signal" => Sees(p)'
    BY <1>1, <1>2, <1>3 DEF Sees, NothingLives, Signalling
  <2>2. Alone /\ pc[p] = "signal_ext" => Alive \subseteq {op[p].pid}
    BY <1>1 DEF Sees, Knows, Childless, Alive
  <2>3. Alone /\ pc[p] = "signal_ext" => Alive' = {}
    BY <1>2, <1>3, <2>2
  <2>4. Alone /\ pc[p] = "signal_ext" => Sees(p)'
    BY <1>2, <2>3 DEF Sees
  <2> QED
    BY <1>2, <2>1, <2>4
<1>7. Alone => SoloInv'
  BY <1>1, <1>2, <1>3, <1>6, EndsSolo DEF Active
<1> QED
  BY <1>2, <1>5, <1>7 DEF IInv, Manages

-----------------------------------------------------------------------------
(* start                                                                   *)

LEMMA SpawnIInv ==
  ASSUME IInv, TypeOK', NEW p \in Procs, Spawn(p)
  PROVE  IInv'
<1>1. TypeOK /\ Manages /\ Knows(p) /\ StateFits(p) /\ (Alone => SoloInv /\ Sees(p))
  BY DEF IInv, Manages, CommandInv, StateMatchesChild, StateFits, SoloInv
<1>2. Apart(p) /\ UNCHANGED <<waiter, record, mgr, history>> /\ pc[p] = "spawn"
  BY <1>1 DEF TypeOK, Spawn, Goto, Apart
<1>3. CASE pc'[p] = "end" /\ UNCHANGED <<child, parent, op>>
  <2>1. UNCHANGED os
    BY <1>2, <1>3 DEF os
  <2>2. Knows(p)'
    BY <1>1, <1>2, <1>3 DEF Knows, Childless, OnChild, Signalling
  <2>3. StateFits(p)'
    BY <1>1, <1>2 DEF StateFits, HasProcess
  <2>4. Manages'
    BY <1>1, <1>2, <2>1, <2>2, <2>3, LocalManages
  <2>5. Alone => SoloInv'
    BY <1>1, <1>2, <1>3, EmptySolo DEF Sees, NothingLives, Alive, Active
  <2> QED
    BY <1>2, <2>4, <2>5 DEF IInv, Manages
<1>4. ASSUME NEW c \in Pids, child[c] = "unused", child' = [child EXCEPT ![c] = "alive"],
             parent' = [parent EXCEPT ![c] = p], op' = [op EXCEPT ![p].pid = c],
             pc'[p] = "record"
      PROVE  IInv'
  <2>1. /\ op'[p].pid = c /\ child'[c] = "alive" /\ parent'[c] = p
        /\ \A d \in Pids \ {c} : child'[d] = child[d] /\ parent'[d] = parent[d]
        /\ Alive' = Alive \cup {c}
    BY <1>1, <1>4 DEF TypeOK, Alive
  <2>2. waiter[c] = "none" /\ \A q \in Procs : mgr[q].child # c
    <3>1. waiter[c] = "none"
      BY <1>1, <1>4 DEF Manages, WaiterInv
    <3> QED
      BY <1>1, <3>1 DEF Manages, CommandInv, Knows, TypeOK, Manager
  <2>3. Knows(p)'
    BY <1>1, <1>2, <1>4, <2>1, <2>2 DEF Knows, Childless, OnChild, Signalling
  <2>4. ASSUME NEW q \in Procs \ {p} PROVE Knows(q)'
    <3>1. mgr'[q] = mgr[q] /\ pc'[q] = pc[q] /\ op'[q] = op[q] /\ Knows(q)
      BY <1>1, <1>2 DEF Apart, Manages, CommandInv
    <3>2. mgr[q].child \in Pids \cup {None} /\ mgr[q].child # c
      BY <1>1, <2>2 DEF TypeOK, Manager
    <3>3. pc[q] \in {"record", "adopt"} \cup Signalling => op[q].pid \in Pids \ {c}
      BY <1>4, <3>1 DEF Knows, OnChild, Signalling
    <3>4. mgr[q].child # None => parent'[mgr[q].child] = parent[mgr[q].child]
      BY <2>1, <3>2
    <3>5. pc[q] \in {"record", "adopt"} \cup Signalling =>
            parent'[op[q].pid] = parent[op[q].pid] /\ child'[op[q].pid] = child[op[q].pid]
      BY <2>1, <3>3
    <3> QED
      BY <1>2, <3>1, <3>4, <3>5 DEF Knows, Signalling
  <2>5. WaiterInv'
    BY <1>1, <1>2, <2>1, <2>2 DEF Manages, WaiterInv
  <2>6. ForgetsNoChild'
    <3>1. ASSUME NEW d \in Alive, d # c, parent[d] # NoProc
          PROVE  LET q == parent[d]
                 IN  mgr'[q].child = d \/ (pc'[q] \in {"record", "adopt"} /\ op'[q].pid = d)
      <4>1. parent[d] \in Procs
        BY <1>1, <3>1 DEF TypeOK, Alive
      <4>2. \/ mgr[parent[d]].child = d
            \/ pc[parent[d]] \in {"record", "adopt"} /\ op[parent[d]].pid = d
        BY <1>1, <3>1 DEF Manages, ForgetsNoChild
      <4> QED
        BY <1>2, <4>1, <4>2 DEF Apart
    <3>2. \A d \in Alive : d # c => parent'[d] = parent[d]
      BY <2>1 DEF Alive
    <3> QED
      BY <1>4, <2>1, <3>1, <3>2 DEF ForgetsNoChild
  <2>7. StateMatchesChild'
    BY <1>1, <1>2 DEF Manages, StateMatchesChild, HasProcess
  <2>8. Alone => SoloInv'
    <3>1. ASSUME Alone PROVE Sees(p)' /\ Alive' = {c}
      BY <1>1, <1>2, <1>4, <2>1, <3>1 DEF Sees, NothingLives, Knows, Childless
    <3>2. Alone => \A q \in Procs \ {p} : ~Active(q) /\ Active(q)' = Active(q) /\ mgr[q] = mgr'[q]
      BY <1>1, <1>2 DEF SoloInv, Apart, Active
    <3>3. Alone => \A q \in Procs \ {p} : Sees(q)'
      <4>1. \A q \in Procs : mgr[q].child # None \/ mgr[q].owned => Active(q)
        BY <1>1 DEF Manages, CommandInv, Knows, Active
      <4> QED
        BY <3>2, <4>1 DEF Sees, Active, NothingLives, Signalling
    <3> QED
      BY <1>4, <3>1, <3>2, <3>3 DEF SoloInv
  <2> QED
    BY <1>2, <2>3, <2>4, <2>5, <2>6, <2>7, <2>8 DEF IInv, CommandInv
<1> QED
  BY <1>1, <1>3, <1>4 DEF Spawn, Goto, TypeOK

LEMMA WriteRecordIInv ==
  ASSUME IInv, TypeOK', NEW p \in Procs, WriteRecord(p)
  PROVE  IInv'
<1>1. TypeOK /\ Manages /\ WaiterInv /\ Knows(p) /\ (Alone => SoloInv /\ Sees(p))
  BY DEF IInv, Manages, CommandInv, SoloInv
<1>2. /\ Apart(p) /\ UNCHANGED <<parent, waiter, mgr, op, history>> /\ pc[p] = "record"
      /\ \A q \in Procs \ {p} : pc'[q] = pc[q]
  BY <1>1 DEF TypeOK, WriteRecord, Goto, Apart
<1>3. /\ op[p].pid \in Pids /\ parent[op[p].pid] = p /\ child[op[p].pid] # "unused"
      /\ mgr[p].child = None /\ mgr[p].owned
  BY <1>1, <1>2 DEF Knows, OnChild, Childless
<1>4. waiter[op[p].pid] = "none"
  BY <1>1, <1>3 DEF WaiterInv
<1>5. CASE record' = op[p].pid /\ pc'[p] = "adopt" /\ UNCHANGED child
  <2>1. Knows(p)'
    BY <1>1, <1>2, <1>3, <1>5 DEF Knows, Childless, OnChild, Signalling
  <2>2. Manages'
    BY <1>1, <1>2, <1>5, <2>1, EndsManages DEF WaiterInv
  <2>3. ASSUME Alone PROVE SoloInv'
    <3>1. \A q \in Procs \ {p} : ~Active(q) /\ Active(q)' = Active(q)
      BY <1>1, <1>2, <2>3 DEF SoloInv, Active
    <3>2. Alive' = Alive /\ Alive \subseteq {op[p].pid}
      BY <1>1, <1>2, <1>5, <2>3 DEF Sees, Alive
    <3>3. Sees(p)'
      BY <1>2, <1>3, <1>5, <3>2 DEF Sees, NothingLives, Signalling
    <3>4. \A q \in Procs \ {p} : Sees(q)'
      BY <1>1, <1>2, <2>3, <3>2 DEF SoloInv, Sees
    <3> QED
      BY <1>5, <3>1, <3>2, <3>3, <3>4 DEF SoloInv
  <2> QED
    BY <1>2, <2>2, <2>3 DEF IInv, Manages
<1>6. CASE GiveUp(op[p].pid) /\ pc'[p] = "end"
  <2>1. /\ child'[op[p].pid] = "exited"
        /\ \A d \in Pids : d # op[p].pid => child'[d] = child[d]
    BY <1>1, <1>3, <1>6 DEF GiveUp, TypeOK
  <2>2. Knows(p)'
    BY <1>1, <1>2, <1>3, <1>6 DEF Knows, Childless, OnChild, Signalling
  <2>3. /\ \A d \in Pids : \/ child'[d] = child[d]
                           \/ child[d] # "unused" /\ child'[d] \in {"exited", "gone"}
        /\ \A d \in Pids : waiter[d] = "remove" => child'[d] = "gone"
        /\ op[p].pid \notin Alive'
    BY <1>1, <1>3, <1>4, <2>1 DEF WaiterInv, Alive
  <2>4. Manages'
    BY <1>1, <1>2, <2>2, <2>3, EndsManages
  <2>5. Alone => Alive' = {}
    BY <1>1, <1>2, <2>1, <2>3 DEF Sees, Alive
  <2>6. Alone => SoloInv'
    BY <1>1, <1>2, <2>5, EmptySolo DEF Active
  <2> QED
    BY <1>2, <2>4, <2>6 DEF IInv, Manages
<1> QED
  BY <1>1, <1>5, <1>6 DEF WriteRecord, Goto, TypeOK

LEMMA AdoptIInv ==
  ASSUME IInv, TypeOK', NEW p \in Procs, Adopt(p)
  PROVE  IInv'
<1>1. TypeOK /\ Manages /\ Knows(p) /\ (Alone => SoloInv /\ Sees(p))
  BY DEF IInv, Manages, CommandInv, SoloInv
<1> DEFINE c == op[p].pid
<1>3. /\ c \in Pids /\ parent[c] = p /\ child[c] # "unused"
      /\ mgr[p].child = None /\ mgr[p].owned /\ mgr[p].open /\ pc[p] = "adopt"
  BY <1>1 DEF Adopt, Knows, OnChild, Childless
<1>4. /\ Apart(p) /\ UNCHANGED <<child, parent, record, op, history>> /\ pc'[p] = "ready"
      /\ mgr'[p] = [mgr[p] EXCEPT !.child = c, !.state = "starting"]
      /\ waiter' = [waiter EXCEPT ![c] = "wait"]
  BY <1>1 DEF TypeOK, Adopt, Goto, SetManager, Apart
<1>5. /\ mgr'[p].open /\ mgr'[p].owned /\ mgr'[p].child = c /\ mgr'[p].state = "starting"
      /\ mgr'[p].ext = mgr[p].ext
  BY <1>1, <1>3, <1>4 DEF TypeOK, Manager
<1>6. waiter'[c] = "wait" /\ \A d \in Pids : d # c => waiter'[d] = waiter[d]
  BY <1>1, <1>3, <1>4 DEF TypeOK
<1> HIDE DEF c
<1>7. Knows(p)'
  BY <1>3, <1>4, <1>5, <1>6 DEF Knows, Childless, OnChild, Signalling, c
<1>8. ASSUME NEW q \in Procs \ {p} PROVE Knows(q)'
  <2>1. mgr'[q] = mgr[q] /\ pc'[q] = pc[q] /\ op'[q] = op[q] /\ Knows(q)
    BY <1>1, <1>4 DEF Apart, Manages, CommandInv
  <2>2. mgr[q].child \in Pids \cup {None}
    BY <1>1 DEF TypeOK, Manager
  <2>3. mgr[q].child # None => waiter'[mgr[q].child] # "none" \/ waiter[mgr[q].child] = "none"
    BY <1>6, <2>2
  <2>4. op[q].pid \in Pids /\ waiter'[op[q].pid] = "none" => waiter[op[q].pid] = "none"
    BY <1>6
  <2> QED
    BY <1>4, <2>1, <2>3, <2>4 DEF Knows, OnChild, Signalling
<1>9. \A d \in Pids : waiter[d] # "none" => parent[d] \in Procs \ {p}
  BY <1>1, <1>3 DEF Manages, WaiterInv, TypeOK
<1>10. WaiterInv'
  <2>1. ASSUME NEW d \in Pids, waiter'[d] # "none"
        PROVE  child'[d] # "unused" /\ parent'[d] # NoProc /\ mgr'[parent'[d]].child = d
    <3>1. CASE d = c
      BY <1>3, <1>4, <1>5, <3>1
    <3>2. CASE d # c
      <4>1. /\ waiter[d] # "none" /\ child[d] # "unused" /\ parent[d] # NoProc
            /\ mgr[parent[d]].child = d
        BY <1>1, <1>6, <2>1, <3>2 DEF Manages, WaiterInv
      <4> QED
        BY <1>4, <1>9, <4>1 DEF Apart
    <3> QED
      BY <3>1, <3>2
  <2>2. \A d \in Pids : waiter'[d] = "remove" => child'[d] = "gone"
    BY <1>1, <1>4, <1>6 DEF Manages, WaiterInv
  <2> QED
    BY <2>1, <2>2 DEF WaiterInv
<1>11. ForgetsNoChild'
  <2>1. \A d \in Alive : parent[d] = p => d = c
    BY <1>1, <1>3 DEF Manages, ForgetsNoChild, c, Alive
  <2>2. \A d \in Alive : parent[d] \in Procs \cup {NoProc}
    BY <1>1 DEF TypeOK, Alive
  <2>3. ASSUME NEW d \in Alive, parent[d] \in Procs \ {p}
        PROVE  LET q == parent[d]
               IN  mgr'[q].child = d \/ (pc'[q] \in {"record", "adopt"} /\ op'[q].pid = d)
    BY <1>1, <1>4, <2>3 DEF Manages, ForgetsNoChild, Apart
  <2>4. Alive' = Alive /\ parent' = parent
    BY <1>4 DEF Alive
  <2> QED
    BY <1>5, <2>1, <2>2, <2>3, <2>4 DEF ForgetsNoChild
<1>12. StateMatchesChild'
  BY <1>1, <1>4, <1>5 DEF Manages, StateMatchesChild, HasProcess, Apart
<1>13. Alone => SoloInv'
  <2>1. Alone => Sees(p)'
    BY <1>1, <1>3, <1>4, <1>5 DEF Sees, Alive, NothingLives, Signalling, c
  <2>2. Alive' = Alive
    BY <1>4 DEF Alive
  <2> QED
    BY <1>1, <1>3, <1>4, <2>1, <2>2, AliveSolo DEF Active
<1> QED
  BY <1>4, <1>7, <1>8, <1>10, <1>11, <1>12, <1>13 DEF IInv, CommandInv

-----------------------------------------------------------------------------
(* The wait goroutine, and the end of a process                            *)

LEMMA ForgetIInv ==
  ASSUME IInv, TypeOK', NEW c \in Pids, Forget(c)
  PROVE  IInv'
<1>1. TypeOK /\ Manages /\ (Alone => SoloInv)
  BY DEF IInv, Manages
<1>2. PICK p \in Procs : /\ p = parent[c] /\ mgr[p].child = c /\ Knows(p)
                          /\ waiter[c] = "remove" /\ child[c] = "gone"
  <2>1. /\ waiter[c] = "remove" /\ child[c] = "gone" /\ parent[c] # NoProc
        /\ mgr[parent[c]].child = c
    BY <1>1 DEF Forget, Manages, WaiterInv
  <2>2. parent[c] \in Procs
    BY <1>1, <2>1 DEF TypeOK
  <2> QED
    BY <1>1, <2>1, <2>2 DEF Manages, CommandInv
<1>3. PICK s \in {"stopped", "failed"} :
        mgr' = [mgr EXCEPT ![p] = [mgr[p] EXCEPT !.child = None, !.state = s]]
  BY <1>2 DEF Forget, SetManager
<1>4. /\ UNCHANGED <<lock, child, parent, pc, op, history>>
      /\ waiter' = [waiter EXCEPT ![c] = "none"]
  BY DEF Forget
<1>5. /\ mgr'[p].open = mgr[p].open /\ mgr'[p].owned = mgr[p].owned
      /\ mgr'[p].child = None /\ mgr'[p].ext = mgr[p].ext /\ mgr'[p].state = s
      /\ \A q \in Procs \ {p} : mgr'[q] = mgr[q]
  BY <1>1, <1>2, <1>3 DEF TypeOK, Manager
<1>6. waiter'[c] = "none" /\ \A d \in Pids : d # c => waiter'[d] = waiter[d]
  BY <1>1, <1>4 DEF TypeOK
<1>7. \A d \in Pids : waiter[d] # "none" /\ d # c => parent[d] \in Procs \ {p}
  BY <1>1, <1>2 DEF Manages, WaiterInv, TypeOK
<1>8. c \notin Alive /\ Alive' = Alive
  BY <1>2, <1>4 DEF Alive
<1>9. Knows(p)'
  <2>1. op[p].pid \in Pids /\ waiter'[op[p].pid] = "none"
          => waiter[op[p].pid] = "none" \/ child[op[p].pid] # "alive"
    BY <1>2, <1>6
  <2>2. pc'[p] = pc[p] /\ op'[p] = op[p] /\ child' = child /\ parent' = parent
    BY <1>4
  <2> QED
    BY <1>2, <1>5, <2>1, <2>2 DEF Knows, OnChild, Signalling
<1>10. ASSUME NEW q \in Procs \ {p} PROVE Knows(q)'
  <2>1. mgr'[q] = mgr[q] /\ Knows(q)
    BY <1>1, <1>5 DEF Manages, CommandInv
  <2>2. mgr[q].child # None => mgr[q].child \in Pids \ {c}
    BY <1>1, <1>2, <2>1 DEF TypeOK, Manager, Knows
  <2>3. /\ mgr[q].child # None => waiter'[mgr[q].child] = waiter[mgr[q].child]
        /\ op[q].pid \in Pids /\ waiter'[op[q].pid] = "none"
             => waiter[op[q].pid] = "none" \/ child[op[q].pid] # "alive"
    BY <1>2, <1>6, <2>2
  <2> QED
    BY <1>4, <2>1, <2>3 DEF Knows, OnChild, Signalling
<1>11. WaiterInv'
  BY <1>1, <1>4, <1>5, <1>6, <1>7 DEF Manages, WaiterInv
<1>12. ForgetsNoChild'
  <2>1. ASSUME NEW d \in Alive, parent[d] # NoProc
        PROVE  LET q == parent[d]
               IN  mgr'[q].child = d \/ (pc[q] \in {"record", "adopt"} /\ op[q].pid = d)
    <3>1. parent[d] \in Procs /\ d # c
      BY <1>1, <1>8, <2>1 DEF TypeOK, Alive
    <3>2. mgr[p].child # d
      BY <1>2, <3>1
    <3> QED
      BY <1>1, <1>5, <2>1, <3>1, <3>2 DEF Manages, ForgetsNoChild
  <2> QED
    BY <1>4, <1>8, <2>1 DEF ForgetsNoChild
<1>13. StateMatchesChild'
  BY <1>1, <1>5 DEF Manages, StateMatchesChild, HasProcess
<1>14. Alone => SoloInv'
  <2>1. Alone => Alive' = {}
    BY <1>1, <1>2, <1>8 DEF SoloInv, Sees
  <2>2. Active(p)
    BY <1>2 DEF Knows, Active
  <2>3. Apart(p)
    BY <1>4, <1>5 DEF Apart
  <2> QED
    BY <1>1, <1>2, <2>1, <2>2, <2>3, EmptySolo
<1>15. CommandInv'
  BY <1>9, <1>10 DEF CommandInv
<1> QED
  BY <1>4, <1>11, <1>12, <1>13, <1>14, <1>15 DEF IInv

\* What ends with a process: its goroutines, and the children nobody waits for any more.
LEMMA GoneFacts ==
  ASSUME TypeOK, NEW p \in Procs, Gone(p)
  PROVE  /\ Apart(p) /\ Alive' = Alive /\ UNCHANGED record
         /\ mgr'[p] = NoManager /\ pc'[p] = "idle"
         /\ \A c \in Pids : parent[c] # p =>
              child'[c] = child[c] /\ parent'[c] = parent[c] /\ waiter'[c] = waiter[c]
         /\ \A c \in Pids : parent[c] = p => parent'[c] = NoProc /\ waiter'[c] = "none"
<1>1. Apart(p) /\ mgr'[p] = NoManager /\ pc'[p] = "idle"
  BY DEF Gone, SetManager, Goto, Apart, TypeOK
<1>2. \A c \in Pids : parent[c] # p =>
        child'[c] = child[c] /\ parent'[c] = parent[c] /\ waiter'[c] = waiter[c]
  BY DEF Gone
<1>3. \A c \in Pids : parent[c] = p => parent'[c] = NoProc /\ waiter'[c] = "none"
  BY DEF Gone
<1>4. Alive' = Alive
  BY DEF Gone, Alive
<1> QED
  BY <1>1, <1>2, <1>3, <1>4 DEF Gone

LEMMA GoneIInv ==
  ASSUME IInv, TypeOK', NEW p \in Procs, Exit(p) \/ Crash(p)
  PROVE  IInv'
<1>1. TypeOK /\ Manages /\ (Alone => SoloInv)
  BY DEF IInv, Manages
<1>2. /\ Active(p) /\ Gone(p)
      /\ Alone' => Alone /\ pc[p] # "record"
  <2>1. unread' = unread
    BY DEF Exit, Crash, Gone
  <2>2. solo' => solo /\ pc[p] # "record"
    BY DEF Exit, Crash
  <2> QED
    BY <2>1, <2>2 DEF Exit, Crash
<1>3. /\ Apart(p) /\ Alive' = Alive /\ UNCHANGED record
      /\ mgr'[p] = NoManager /\ pc'[p] = "idle"
      /\ \A c \in Pids : parent[c] # p =>
           child'[c] = child[c] /\ parent'[c] = parent[c] /\ waiter'[c] = waiter[c]
      /\ \A c \in Pids : parent[c] = p => parent'[c] = NoProc /\ waiter'[c] = "none"
  BY <1>1, <1>2, GoneFacts
<1>4. Knows(p)'
  BY <1>3 DEF Knows, NoManager, Childless, OnChild, Signalling
<1>5. ASSUME NEW q \in Procs \ {p} PROVE Knows(q)'
  <2>1. mgr'[q] = mgr[q] /\ pc'[q] = pc[q] /\ op'[q] = op[q] /\ Knows(q)
    BY <1>1, <1>3 DEF Apart, Manages, CommandInv
  <2>2. mgr[q].child # None => mgr[q].child \in Pids
    BY <1>1 DEF TypeOK, Manager
  <2>3. mgr[q].child # None =>
          /\ parent'[mgr[q].child] = parent[mgr[q].child]
          /\ waiter'[mgr[q].child] = waiter[mgr[q].child]
    BY <1>3, <2>1, <2>2 DEF Knows
  <2>4. pc[q] \in {"record", "adopt"} \cup Signalling =>
          /\ parent'[op[q].pid] = parent[op[q].pid] /\ child'[op[q].pid] = child[op[q].pid]
          /\ waiter'[op[q].pid] = waiter[op[q].pid]
    BY <1>3, <2>1 DEF Knows, OnChild
  <2> QED
    BY <2>1, <2>3, <2>4 DEF Knows, Signalling
<1>6. WaiterInv'
  <2>1. ASSUME NEW c \in Pids, waiter'[c] # "none"
        PROVE  /\ child'[c] # "unused" /\ parent'[c] # NoProc /\ mgr'[parent'[c]].child = c
               /\ waiter'[c] = "remove" => child'[c] = "gone"
    <3>1. parent[c] # p /\ waiter[c] # "none"
      BY <1>3, <2>1
    <3>2. parent[c] \in Procs \ {p} /\ mgr[parent[c]].child = c
      BY <1>1, <3>1 DEF Manages, WaiterInv, TypeOK
    <3> QED
      BY <1>1, <1>3, <3>1, <3>2 DEF Manages, WaiterInv, Apart
  <2> QED
    BY <2>1 DEF WaiterInv
<1>7. ForgetsNoChild'
  <2>1. ASSUME NEW d \in Alive, parent'[d] # NoProc
        PROVE  LET q == parent'[d]
               IN  mgr'[q].child = d \/ (pc'[q] \in {"record", "adopt"} /\ op'[q].pid = d)
    <3>1. parent[d] # p /\ parent'[d] = parent[d]
      BY <1>3, <2>1 DEF Alive
    <3>2. parent[d] \in Procs \ {p}
      BY <1>1, <2>1, <3>1 DEF TypeOK, Alive
    <3> QED
      BY <1>1, <1>3, <2>1, <3>1, <3>2 DEF Manages, ForgetsNoChild, Apart
  <2> QED
    BY <1>3, <2>1 DEF ForgetsNoChild
<1>8. StateMatchesChild'
  BY <1>1, <1>3 DEF Manages, StateMatchesChild, HasProcess, Apart, NoManager
<1>9. Alone' => SoloInv'
  <2>1. Sees(p)'
    BY <1>3 DEF Sees, NoManager, NothingLives, Signalling
  <2> QED
    BY <1>1, <1>2, <1>3, <2>1, AliveSolo
<1> QED
  BY <1>4, <1>5, <1>6, <1>7, <1>8, <1>9 DEF IInv, CommandInv

-----------------------------------------------------------------------------
(* The theorems                                                            *)

LEMMA InitIInv == Init => IInv
<1> SUFFICES ASSUME Init PROVE IInv
  OBVIOUS
<1> USE DEF Init, LockInit
<1>1. Alive = {}
  BY DEF Alive
<1>2. TypeOK
  BY NothingType DEF TypeOK, PCs, Ops
<1>3. CommandInv /\ WaiterInv
  BY DEF CommandInv, WaiterInv, Knows, NoManager, Childless, OnChild, Signalling
<1>4. ForgetsNoChild /\ StateMatchesChild
  BY <1>1 DEF ForgetsNoChild, StateMatchesChild, NoManager
<1>5. SoloInv
  BY <1>1 DEF SoloInv, Active, Sees, NoManager, NothingLives, Signalling
<1> QED
  BY <1>2, <1>3, <1>4, <1>5 DEF IInv

LEMMA NextIInv ==
  ASSUME IInv, Next
  PROVE  IInv'
<1>1. TypeOK /\ \A p \in Procs : Knows(p)
  BY DEF IInv, CommandInv
<1>2. ASSUME NEW p \in Procs, Progress(p) PROVE IInv'
  <2>1. TypeOK'
    BY <1>1, <1>2, ProgressType DEF Knows
  <2> QED
    BY <1>2, <2>1, ReadRecordIInv, UnrecordIInv, ControlIInv, SpawnIInv, WriteRecordIInv,
       AdoptIInv, ReadyIInv, StopBeginIInv, StopSignalIInv
       DEF Progress
<1>3. ASSUME NEW p \in Procs,
             \/ StopErr(p) \/ Interrupt(p) \/ Exit(p) \/ Crash(p)
             \/ \E kind \in Invoked : Invoke(p, kind)
      PROVE IInv'
  <2>1. TypeOK'
    BY <1>1, <1>3, OtherType
  <2> QED
    BY <1>3, <2>1, ControlIInv, GoneIInv, InvokeIInv
<1>4. ASSUME NEW c \in Pids, Wait(c) \/ ChildExits(c) PROVE IInv'
  <2>1. TypeOK'
    BY <1>1, <1>4, OtherType
  <2> QED
    BY <1>4, <2>1, ReapIInv, ForgetIInv, ChildExitsIInv DEF Wait
<1> QED
  BY <1>2, <1>3, <1>4 DEF Next

LEMMA StutterIInv ==
  ASSUME IInv, UNCHANGED vars
  PROVE  IInv'
<1>1. Alive' = Alive
  BY DEF vars, os, Alive
<1>2. TypeOK'
  BY DEF IInv, TypeOK, vars, os
<1>3. CommandInv' /\ WaiterInv'
  BY DEF IInv, CommandInv, WaiterInv, Knows, vars, os
<1>4. ForgetsNoChild' /\ StateMatchesChild'
  BY <1>1 DEF IInv, ForgetsNoChild, StateMatchesChild, vars, os
<1>5. Alone' => SoloInv'
  BY <1>1 DEF IInv, SoloInv, Active, Sees, vars, os
<1> QED
  BY <1>2, <1>3, <1>4, <1>5 DEF IInv

\* The inductive invariant: in every state of every number of processes and children,
\* what each step of a command relies on holds (foreground.go:153-470).
THEOREM ForegroundInvariance == Spec => []IInv
<1>1. Init => IInv
  BY InitIInv
<1>2. IInv /\ [Next]_vars => IInv'
  BY NextIInv, StutterIInv
<1> QED
  BY <1>1, <1>2, PTL DEF Spec

\* Every variable keeps its type; a Manager has one of the six service states.
THEOREM ForegroundTypeCorrect == Spec => []TypeOK
<1>1. IInv => TypeOK
  BY DEF IInv
<1> QED
  BY <1>1, ForegroundInvariance, PTL

\* A manager that still has a child whose wait goroutine removes the record has no
\* other child of its own.
LEMMA RecordOfNoOther == IInv => OwnRecordSurvives
<1> SUFFICES ASSUME IInv, NEW c \in Pids, waiter[c] = "remove",
                    NEW d \in Alive, parent[d] = parent[c]
             PROVE  FALSE
  BY DEF OwnRecordSurvives
<1>1. child[c] = "gone" /\ parent[c] # NoProc /\ mgr[parent[c]].child = c
  BY DEF IInv, WaiterInv
<1>2. parent[c] \in Procs /\ c # d /\ c # None
  BY <1>1 DEF IInv, TypeOK, Alive
<1>3. pc[parent[c]] \notin {"record", "adopt"}
  BY <1>1, <1>2 DEF IInv, CommandInv, Knows, Childless
<1> QED
  BY <1>1, <1>2, <1>3 DEF IInv, ForgetsNoChild

\* A Manager loses no living child, keeps the record of the child it started since, and
\* reports a state that agrees with the child, however its commands, its wait goroutines,
\* other processes and kills interleave.
THEOREM ManagerAlwaysKnowsItsChild == Spec => []ManagerKnowsItsChild
<1>1. IInv => ManagerKnowsItsChild
  BY RecordOfNoOther DEF IInv, ManagerKnowsItsChild
<1> QED
  BY <1>1, ForegroundInvariance, PTL

\* Processes that do not overlap never have two children alive at once, also after
\* failed starts, timed-out stops and kills (docs/services.md:41).
THEOREM DuplicatesStayRejected == Spec => []RejectsDuplicates
<1>1. ASSUME IInv, Alone PROVE Cardinality(Alive) <= 1
  <2>1. PICK c : Alive \subseteq {c}
    <3>1. CASE Alive \subseteq {record}
      BY <3>1
    <3>2. CASE \E p \in Procs : pc[p] = "record"
      BY <1>1, <3>2 DEF IInv, SoloInv, Sees
    <3> QED
      BY <1>1, <3>1, <3>2 DEF IInv, SoloInv
  <2>2. Alive = {} \/ Alive = {c}
    BY <2>1
  <2>3. Cardinality({}) = 0 /\ Cardinality({c}) = 1
    BY FS_EmptySet, FS_Singleton
  <2>4. CASE Alive = {}
    BY <2>3, <2>4
  <2>5. CASE Alive = {c}
    BY <2>3, <2>5
  <2> QED
    BY <2>2, <2>4, <2>5
<1>2. IInv => RejectsDuplicates
  BY <1>1 DEF RejectsDuplicates
<1> QED
  BY <1>2, ForegroundInvariance, PTL
=============================================================================
