----------------------------- MODULE Governance -----------------------------
(***************************************************************************)
(* GovernedUseCases, internal/runtime/governance.go: every mutating        *)
(* command of every pmux process runs between a begin and a terminal       *)
(* journal event, under the mutation lock, and leaves an audit record.     *)
(* A new process first tries to mark transactions that a crash left        *)
(* in_progress as interrupted (NewGovernedUseCases).                       *)
(*                                                                         *)
(* Processes may die between any two steps and the machine may stop; every *)
(* file operation may fail.  The command itself (inner.Execute) is one     *)
(* step with any outcome.  A process stands for one goroutine: the TUI's   *)
(* concurrent commands contend for the lock like separate processes.       *)
(*                                                                         *)
(* Simplification: the os.Stat that skips recovery of a missing journal    *)
(* also skips an empty one here; that recovery would find nothing.         *)
(***************************************************************************)
EXTENDS Journal, MutationLock, FiniteSets

CONSTANTS NoTx, MaxFaults

ASSUME NoProcAssumption == NoProc \notin Procs
ASSUME NoTxAssumption == NoTx \notin TxIds
ASSUME MaxFaultsAssumption == MaxFaults \in Nat

VARIABLES
  alines, atorn, asynced,  \* the file audit.jsonl, internal/audit/audit.go
  pc,       \* where each process is
  tx,       \* the transaction it is working on
  todo,     \* startup recovery: in_progress transactions not yet interrupted
  mutated,  \* history: transactions whose command was dispatched
  faults    \* crashes and I/O errors so far, bounded by MaxFaults

Audit == INSTANCE AppendFile WITH lines <- alines, torn <- atorn, synced <- asynced

auditVars == <<alines, atorn, asynced>>
localVars == <<pc, tx, todo>>
vars == <<journalVars, lock, auditVars, localVars, mutated, faults>>

\* Calls of the journal that a process can be in, and what each one appends.
Interrupting == {"interrupt", "cancel"}
Writing == {"record", "commit", "fail"} \cup Interrupting
InCall == Writing \cup {"begin", "pending"}
EventType(at) == IF at = "record" THEN "step" ELSE "state"
EventState(at) ==
  CASE at = "record" -> "none"
    [] at = "commit" -> "completed"
    [] at = "fail" -> "failed"
    [] at \in Interrupting -> "interrupted"

\* The steps a process takes while it holds the lock.
Locked == InCall \cup {"prepare", "dispatch", "execute", "audit_ok", "audit_failed",
                       "recovered", "recovery_audit", "release"}

PCs == Locked \cup {"off", "starting", "ready", "acquire"}

AuditEntry == [tx: TxIds, result: {"ok", "failed"}, ok: BOOLEAN]

GovInit ==
  /\ JournalInit /\ LockInit /\ Audit!FileInit
  /\ pc = [p \in Procs |-> "off"]
  /\ tx = [p \in Procs |-> NoTx]
  /\ todo = [p \in Procs |-> {}]
  /\ mutated = {}
  /\ faults = 0

Goto(p, at) == pc' = [pc EXCEPT ![p] = at]
Fault == faults < MaxFaults /\ faults' = faults + 1

-----------------------------------------------------------------------------
(* NewGovernedUseCases and recoverInterruptedPending                       *)

Start(p) ==
  /\ pc[p] = "off"
  /\ Goto(p, "starting")
  /\ UNCHANGED <<journalVars, lock, auditVars, tx, todo, mutated, faults>>

JournalPresent == jlines # <<>> \/ jtorn

\* The journal file exists: take the lock for recovery.
RecoveryAcquire(p) ==
  /\ pc[p] = "starting" /\ JournalPresent
  /\ TryAcquireOk(p)
  /\ Goto(p, "pending")
  /\ UNCHANGED <<journalVars, auditVars, tx, todo, mutated, faults>>

\* No journal, or another process holds the lock: accept commands at once.
SkipRecovery(p) ==
  /\ pc[p] = "starting"
  /\ TryAcquireErr(p)
  /\ Goto(p, "ready")
  /\ UNCHANGED <<journalVars, auditVars, tx, todo, mutated, faults>>

\* Mutant: a transaction that reached its dispatch step is not collected.
UndispatchedOnly(ev) ==
  {id \in PendingInProgress(ev) : ~\E i \in DOMAIN ev : ev[i].type = "step" /\ ev[i].tx = id}

\* Mutant: the loop does not skip the failed ones.
NotClosed(ev) == {id \in TxIds : Begun(ev, id) /\ ~HasState(ev, id, Closing)}

\* The transactions the recovery loop does not skip.
Leaked(ev) == PendingInProgress(ev)

\* journal.Pending returned; a corrupt journal is left for the first mutation.
RecoveryPending(p) ==
  /\ pc[p] = "pending" /\ loaded[p]
  /\ IF Foldable(snap[p])
       THEN todo' = [todo EXCEPT ![p] = Leaked(snap[p])] /\ Goto(p, "recovered")
       ELSE Goto(p, "release") /\ UNCHANGED todo
  /\ EndCall(p)
  /\ UNCHANGED <<jlines, jtorn, jsynced, issued, lock, auditVars, tx, mutated, faults>>

\* The loop takes one pending transaction (their order is wall-clock time).
RecoveryNext(p) ==
  /\ pc[p] = "recovered"
  /\ \E id \in todo[p] :
        /\ tx' = [tx EXCEPT ![p] = id]
        /\ todo' = [todo EXCEPT ![p] = @ \ {id}]
  /\ Goto(p, "interrupt")
  /\ UNCHANGED <<journalVars, lock, auditVars, mutated, faults>>

\* The loop ran to its end.
RecoveryDone(p) ==
  /\ pc[p] = "recovered" /\ todo[p] = {}
  /\ Goto(p, "release")
  /\ UNCHANGED <<journalVars, lock, auditVars, tx, todo, mutated, faults>>

-----------------------------------------------------------------------------
(* Execute                                                                 *)

Execute(p) ==
  /\ pc[p] = "ready"
  /\ Goto(p, "acquire")
  /\ UNCHANGED <<journalVars, lock, auditVars, tx, todo, mutated, faults>>

\* TxIds bounds the number of transactions begun.
Acquire(p) ==
  /\ pc[p] = "acquire" /\ issued # TxIds
  /\ TryAcquireOk(p)
  /\ Goto(p, "prepare")
  /\ UNCHANGED <<journalVars, auditVars, tx, todo, mutated, faults>>

AcquireErr(p) ==
  /\ pc[p] = "acquire"
  /\ TryAcquireErr(p)
  /\ Goto(p, "ready")
  /\ UNCHANGED <<journalVars, auditVars, tx, todo, mutated, faults>>

\* audit.Prepare: the destination can be written and flushed; nothing is appended.
Prepare(p) ==
  /\ pc[p] = "prepare"
  /\ \/ Audit!Flush /\ Goto(p, "begin") /\ UNCHANGED faults
     \/ (Audit!Flush \/ UNCHANGED auditVars) /\ Goto(p, "release") /\ Fault
  /\ UNCHANGED <<journalVars, lock, tx, todo, mutated>>

\* The read at the start of whichever journal call the process is in.  A read that
\* fails has the effect of a call whose append fails before it did anything.
ReadJournal(p) ==
  /\ pc[p] \in InCall
  /\ ReadEvents(p)
  /\ UNCHANGED <<lock, auditVars, localVars, mutated, faults>>

Begin(p) ==
  /\ pc[p] = "begin"
  /\ \E id \in TxIds :
        /\ BeginOk(p, id)
        /\ tx' = [tx EXCEPT ![p] = id]
  /\ Goto(p, "record")
  /\ UNCHANGED <<lock, auditVars, todo, mutated, faults>>

\* Nothing was dispatched, and nothing is audited.
BeginErr(p) ==
  /\ pc[p] = "begin"
  /\ \/ BeginRefused(p) /\ UNCHANGED faults
     \/ (\E id \in TxIds : BeginIOError(p, id)) /\ Fault
  /\ Goto(p, "release")
  /\ UNCHANGED <<lock, auditVars, tx, todo, mutated>>

\* Where a process continues after a journal write that succeeded ...
AfterOk(at) ==
  CASE at = "record" -> "dispatch"
    [] at = "commit" -> "audit_ok"
    [] at \in {"fail", "cancel"} -> "audit_failed"
    [] at = "interrupt" -> "recovery_audit"

\* Mutant: a commit that could not be persisted is still audited as a success.
ReportAnyway(at) ==
  CASE at = "record" -> "fail"
    [] at = "commit" -> "audit_ok"
    [] at \in {"fail", "cancel"} -> "audit_failed"
    [] at = "interrupt" -> "release"

\* ... and after one that failed: failBeforeDispatch and the commit error path
\* try to mark the transaction failed, recovery gives up.
AfterErr(at) ==
  CASE at \in {"record", "commit"} -> "fail"
    [] at \in {"fail", "cancel"} -> "audit_failed"
    [] at = "interrupt" -> "release"

Write(p) ==
  /\ pc[p] \in Writing
  /\ WriteOk(p, EventType(pc[p]), tx[p], EventState(pc[p]))
  /\ Goto(p, AfterOk(pc[p]))
  /\ UNCHANGED <<lock, auditVars, tx, todo, mutated, faults>>

WriteErr(p) ==
  /\ pc[p] \in Writing
  /\ \/ Refused(p, tx[p]) /\ UNCHANGED faults
     \/ WriteIOError(p, EventType(pc[p]), tx[p], EventState(pc[p])) /\ Fault
  /\ Goto(p, AfterErr(pc[p]))
  /\ UNCHANGED <<lock, auditVars, tx, todo, mutated>>

\* Pending could not read the journal: recovery returns the error.
PendingErr(p) ==
  /\ pc[p] = "pending" /\ ~loaded[p]
  /\ (~Readable(jlines) /\ UNCHANGED faults) \/ Fault
  /\ Goto(p, "release")
  /\ UNCHANGED <<journalVars, lock, auditVars, tx, todo, mutated>>

\* The context check between the dispatch record and the command.
Dispatch(p) ==
  /\ pc[p] = "dispatch"
  /\ \/ Goto(p, "execute") /\ mutated' = mutated \cup {tx[p]}
     \/ Goto(p, "cancel") /\ UNCHANGED mutated
  /\ UNCHANGED <<journalVars, lock, auditVars, tx, todo, faults>>

\* inner.Execute returned: success, an error or non-zero exit code, or a
\* cancellation.
InnerDone(p) ==
  /\ pc[p] = "execute"
  /\ \E next \in {"commit", "fail", "cancel"} : Goto(p, next)
  /\ UNCHANGED <<journalVars, lock, auditVars, tx, todo, mutated, faults>>

-----------------------------------------------------------------------------
(* appendAudit and the deferred Release                                    *)

Entry(p, result) == [tx |-> tx[p], result |-> result, ok |-> TRUE]

AuditResult(at) == IF at = "audit_ok" THEN "ok" ELSE "failed"

\* After its audit, recovery goes on with the next transaction.
AfterAudit(at) == IF at = "recovery_audit" THEN "recovered" ELSE "release"

AppendAudit(p) ==
  /\ pc[p] \in {"audit_ok", "audit_failed", "recovery_audit"}
  /\ \/ /\ Audit!AppendOk(Entry(p, AuditResult(pc[p])))
        /\ Goto(p, AfterAudit(pc[p]))
        /\ UNCHANGED faults
     \/ /\ Audit!AppendErr(Entry(p, AuditResult(pc[p])))
        /\ Goto(p, "release")
        /\ Fault
  /\ UNCHANGED <<journalVars, lock, tx, todo, mutated>>

ReleaseLock(p) ==
  /\ pc[p] = "release"
  /\ Release(p)
  /\ Goto(p, "ready")
  /\ tx' = [tx EXCEPT ![p] = NoTx]
  /\ todo' = [todo EXCEPT ![p] = {}]
  /\ UNCHANGED <<journalVars, auditVars, mutated, faults>>

-----------------------------------------------------------------------------
(* External: processes end, processes die, machines stop                   *)

Vanish(P) ==
  /\ pc' = [p \in Procs |-> IF p \in P THEN "off" ELSE pc[p]]
  /\ tx' = [p \in Procs |-> IF p \in P THEN NoTx ELSE tx[p]]
  /\ todo' = [p \in Procs |-> IF p \in P THEN {} ELSE todo[p]]
  /\ loaded' = [p \in Procs |-> IF p \in P THEN FALSE ELSE loaded[p]]
  /\ snap' = [p \in Procs |-> IF p \in P THEN <<>> ELSE snap[p]]

\* A process exits between commands.
Exit(p) ==
  /\ pc[p] = "ready"
  /\ Goto(p, "off")
  /\ UNCHANGED <<journalVars, lock, auditVars, tx, todo, mutated, faults>>

Crash(p) ==
  /\ pc[p] # "off"
  /\ Fault
  /\ Vanish({p})
  /\ Abandon(p)
  /\ UNCHANGED <<jlines, jtorn, jsynced, issued, auditVars, mutated>>

PowerLoss ==
  /\ Fault
  /\ Vanish(Procs)
  /\ lock' = NoProc
  /\ File!LoseUnsynced
  /\ Audit!LoseUnsynced
  /\ UNCHANGED <<issued, mutated>>

-----------------------------------------------------------------------------
Recover(p) ==
  RecoveryAcquire(p) \/ SkipRecovery(p) \/ RecoveryPending(p) \/ PendingErr(p)
    \/ RecoveryNext(p) \/ RecoveryDone(p)

Command(p) ==
  Acquire(p) \/ AcquireErr(p) \/ Prepare(p) \/ Begin(p) \/ BeginErr(p)
    \/ Dispatch(p) \/ InnerDone(p)

Persist(p) == ReadJournal(p) \/ Write(p) \/ WriteErr(p) \/ AppendAudit(p) \/ ReleaseLock(p)

\* What a process does on its own once it was started or given a command.
Step(p) == Recover(p) \/ Command(p) \/ Persist(p)

Next ==
  \/ \E p \in Procs : Start(p) \/ Execute(p) \/ Exit(p) \/ Step(p) \/ Crash(p)
  \/ PowerLoss

Spec == GovInit /\ [][Next]_vars

\* A running process keeps executing its code.  Nothing obliges a user to start
\* one or to give it a command, and inner.Execute is taken to return.
Fairness == \A p \in Procs : WF_vars(Step(p))
-----------------------------------------------------------------------------
(* Properties                                                              *)

AuditTypeOK ==
  alines \in Seq(AuditEntry) /\ atorn \in BOOLEAN /\ asynced \in 0..Len(alines)

ProcTypeOK ==
  /\ lock \in Procs \cup {NoProc}
  /\ pc \in [Procs -> PCs]
  /\ tx \in [Procs -> TxIds \cup {NoTx}]
  /\ todo \in [Procs -> SUBSET TxIds]
  /\ mutated \subseteq TxIds
  /\ faults \in 0..MaxFaults

TypeOK == JournalTypeOK /\ AuditTypeOK /\ ProcTypeOK

\* No interleaving, crash, torn write or failed flush ever leaves a journal that
\* a later readEvents or fold rejects (journal.go:275, :234): a corrupt journal
\* refuses every later mutation.
JournalNeverCorrupt == Readable(jlines) /\ Foldable(jlines)

\* While a command runs, its transaction is durably begun, has its dispatch step
\* and is in_progress: nobody else's startup recovery has interrupted it, and no
\* crash can lose the fact that it was dispatched (governance.go:163-186).
DispatchIsJournaled ==
  \A p \in Procs : pc[p] = "execute" =>
    LET durable == SubSeq(jlines, 1, jsynced) IN
      /\ InProgress(durable, tx[p])
      /\ \E i \in DOMAIN durable : durable[i].type = "step" /\ durable[i].tx = tx[p]
      /\ InProgress(jlines, tx[p])

AuditedAs(id, result) == \E i \in DOMAIN alines : alines[i].tx = id /\ alines[i].result = result

\* A success in the audit log is never contradicted: the transaction was
\* dispatched, is durably completed in the journal, and was audited as nothing
\* else (governance.go:189-203), even after a power loss.  A torn tail is repaired
\* by the next append, so every complete line of the log parses (audit.go:187).
AuditedSuccessIsCommitted ==
  /\ Audit!Parses
  /\ \A id \in TxIds : AuditedAs(id, "ok") =>
       /\ HasState(SubSeq(jlines, 1, jsynced), id, {"completed"})
       /\ id \in mutated
       /\ ~AuditedAs(id, "failed")

\* When recovery ends without an error, no transaction is left in_progress: the
\* set it read under the lock was not stale (governance.go:122-140).
RecoveryLeavesNoneInProgress ==
  [][\A p \in Procs : RecoveryDone(p) => \A id \in TxIds : ~InProgress(jlines, id)]_vars

\* What stable storage says of the transactions and of the successes.
LastState(ev, id) ==
  IF ~Begun(ev, id) THEN "unknown"
  ELSE IF InProgress(ev, id) THEN "in_progress"
  ELSE LET i == CHOOSE k \in DOMAIN ev :
                  /\ ev[k].type = "state" /\ ev[k].tx = id
                  /\ ~\E j \in (k+1)..Len(ev) : ev[j].type = "state" /\ ev[j].tx = id
       IN ev[i].state

Durable == INSTANCE OpHistory WITH
  status <- [id \in TxIds |-> LastState(SubSeq(jlines, 1, jsynced), id)],
  reported <- {id \in TxIds :
                 \E i \in 1..asynced : alines[i].tx = id /\ alines[i].result = "ok"}

\* Governed execution implements the abstract history of operations: an outcome
\* that reached the disk is final (no later recovery, crash or retry rewrites
\* it), and a reported success was completed before it was reported.
OutcomesAreFinal == Durable!Spec
=============================================================================
