-------------------------- MODULE GovernanceProofs --------------------------
(***************************************************************************)
(* For any number of processes, transactions and faults: the operation     *)
(* journal is never corrupt, no two processes hold the mutation lock or    *)
(* have a journal call in progress at once, a command runs only after its  *)
(* transaction is durably begun and dispatched, a reported success is      *)
(* durably completed, startup recovery leaves nothing open, and governed   *)
(* execution implements the history of operations OpHistory.               *)
(*                                                                         *)
(* The journal alone does not keep itself readable: two calls that read    *)
(* the same file would append the same sequence number.  The inductive     *)
(* invariant IInv therefore says that a process between its read and its   *)
(* append holds the lock and still sees the file as it read it.            *)
(*                                                                         *)
(* IInv keeps two calls from mixing.  OInv adds what one call knows: which *)
(* events of its transaction are in the file while the process is at a     *)
(* given step, and that a transaction never gets a second state event,     *)
(* although a commit that reported an error may have reached the file.     *)
(***************************************************************************)
EXTENDS Governance, SequenceTheorems, TLAPS

-----------------------------------------------------------------------------
(* What an append and a lost suffix do to a sequence of events that        *)
(* readEvents and fold accept.                                             *)

\* An event numbered from the events that were read keeps the file readable
\* (nextSequence, journal.go:212).
LEMMA AppendReadable ==
  ASSUME NEW ls \in Seq(Event), NEW e \in Event,
         Readable(ls), e.ok, e.seq = NextSequence(ls)
  PROVE  Readable(Append(ls, e))
<1>1. e.seq = Len(ls) + 1
  <2>1. CASE ls = <<>>
    BY <2>1 DEF NextSequence
  <2>2. CASE ls # <<>>
    BY <2>2, EmptySeq DEF NextSequence, Readable
  <2> QED
    BY <2>1, <2>2
<1>2. ASSUME NEW i \in DOMAIN Append(ls, e)
      PROVE  Append(ls, e)[i].ok /\ Append(ls, e)[i].seq = i
  <2>1. CASE i \in 1..Len(ls)
    BY <2>1, AppendProperties DEF Readable
  <2>2. CASE i = Len(ls) + 1
    BY <1>1, <2>2, AppendProperties
  <2> QED
    BY <2>1, <2>2, AppendProperties
<1> QED
  BY <1>2 DEF Readable

\* A begin event of a transaction the file does not know keeps it foldable
\* (fold's "begin" case, journal.go:238).
LEMMA AppendBeginFoldable ==
  ASSUME NEW ls \in Seq(Event), NEW e \in Event, Foldable(ls),
         e.type = "begin", \A i \in DOMAIN ls : ls[i].tx # e.tx
  PROVE  Foldable(Append(ls, e))
<1> DEFINE new == Append(ls, e)
<1>1. /\ DOMAIN new = 1..(Len(ls) + 1)
      /\ \A i \in 1..Len(ls) : new[i] = ls[i]
      /\ new[Len(ls) + 1] = e
      /\ Len(ls) \in Nat
      /\ DOMAIN ls = 1..Len(ls)
  BY AppendProperties, LenProperties
<1> HIDE DEF new
<1>2. ASSUME NEW i \in 1..Len(ls), NEW k \in 1..(i-1)
      PROVE  k \in 1..Len(ls)
  BY <1>1
<1>3. ASSUME NEW i \in DOMAIN new
      PROVE
        /\ new[i].type \in EventTypes
        /\ new[i].type = "begin" <=>
             ~\E k \in 1..(i-1) : new[k].type = "begin" /\ new[k].tx = new[i].tx
        /\ ~\E k \in 1..(i-1) :
             new[k].type = "state" /\ new[k].tx = new[i].tx /\ new[k].state \in Closing
        /\ new[i].type = "state" => new[i].state \in EventStates
  <2>1. CASE i \in 1..Len(ls)
    BY <1>1, <1>2, <2>1 DEF Foldable
  <2>2. CASE i = Len(ls) + 1
    <3>1. 1..(i-1) = 1..Len(ls)
      BY <1>1, <2>2
    <3>2. \A k \in 1..Len(ls) : new[k].tx # new[i].tx
      BY <1>1, <2>2
    <3> QED
      BY <1>1, <2>2, <3>1, <3>2 DEF EventTypes
  <2> QED
    BY <1>1, <1>3, <2>1, <2>2
<1>4. Foldable(new)
  BY <1>3 DEF Foldable
<1> QED
  BY <1>4 DEF new

\* An event of a transaction that requirePending accepted keeps the file
\* foldable (fold's "step" and "state" cases, journal.go:243-267).
LEMMA AppendPendingFoldable ==
  ASSUME NEW ls \in Seq(Event), NEW e \in Event,
         RequirePending(ls, e.tx), e.type \in {"step", "state"},
         e.type = "state" => e.state \in EventStates
  PROVE  Foldable(Append(ls, e))
<1> DEFINE new == Append(ls, e)
<1>1. /\ DOMAIN new = 1..(Len(ls) + 1)
      /\ \A i \in 1..Len(ls) : new[i] = ls[i]
      /\ new[Len(ls) + 1] = e
      /\ Len(ls) \in Nat
      /\ DOMAIN ls = 1..Len(ls)
  BY AppendProperties, LenProperties
<1> HIDE DEF new
<1>2. ASSUME NEW i \in 1..Len(ls), NEW k \in 1..(i-1)
      PROVE  k \in 1..Len(ls)
  BY <1>1
<1>3. ASSUME NEW i \in DOMAIN new
      PROVE
        /\ new[i].type \in EventTypes
        /\ new[i].type = "begin" <=>
             ~\E k \in 1..(i-1) : new[k].type = "begin" /\ new[k].tx = new[i].tx
        /\ ~\E k \in 1..(i-1) :
             new[k].type = "state" /\ new[k].tx = new[i].tx /\ new[k].state \in Closing
        /\ new[i].type = "state" => new[i].state \in EventStates
  <2>1. CASE i \in 1..Len(ls)
    BY <1>1, <1>2, <2>1 DEF Foldable, RequirePending
  <2>2. CASE i = Len(ls) + 1
    <3>1. 1..(i-1) = 1..Len(ls) /\ new[i] = e
      BY <1>1, <2>2
    <3>2. \E k \in 1..Len(ls) : new[k].type = "begin" /\ new[k].tx = e.tx
      BY <1>1 DEF RequirePending, Begun
    <3>3. ~\E k \in 1..Len(ls) :
             new[k].type = "state" /\ new[k].tx = e.tx /\ new[k].state \in Closing
      BY <1>1 DEF RequirePending, HasState
    <3> QED
      BY <3>1, <3>2, <3>3 DEF EventTypes
  <2> QED
    BY <1>1, <1>3, <2>1, <2>2
<1>4. Foldable(new)
  BY <1>3 DEF Foldable
<1> QED
  BY <1>4 DEF new

\* Losing a suffix of the file leaves it readable and foldable.
LEMMA PrefixAccepted ==
  ASSUME NEW ls \in Seq(Event), NEW n \in 0..Len(ls), Readable(ls), Foldable(ls)
  PROVE  /\ SubSeq(ls, 1, n) \in Seq(Event)
         /\ Len(SubSeq(ls, 1, n)) = n
         /\ \A i \in 1..n : SubSeq(ls, 1, n)[i] = ls[i]
         /\ Readable(SubSeq(ls, 1, n))
         /\ Foldable(SubSeq(ls, 1, n))
<1> DEFINE pre == SubSeq(ls, 1, n)
<1>1. /\ pre \in Seq(Event)
      /\ Len(pre) = n
      /\ \A i \in 1..n : pre[i] = ls[i]
      /\ DOMAIN pre = 1..n
      /\ DOMAIN ls = 1..Len(ls)
      /\ Len(ls) \in Nat /\ n \in Nat
  <2>1. \A i \in 1..n : ls[i] \in Event
    BY ElementOfSeq, LenProperties
  <2> QED
    BY <2>1, SubSeqProperties, LenProperties
<1> HIDE DEF pre
<1>2. ASSUME NEW i \in 1..n
      PROVE  i \in DOMAIN ls /\ \A k \in 1..(i-1) : k \in 1..n
  BY <1>1
<1>3. Readable(pre)
  BY <1>1, <1>2 DEF Readable
<1>4. Foldable(pre)
  BY <1>1, <1>2 DEF Foldable
<1> QED
  BY <1>1, <1>3, <1>4 DEF pre

\* What an appended event adds to what the file says of a transaction.
LEMMA AppendSays ==
  ASSUME NEW ls \in Seq(Event), NEW e \in Event, NEW id, NEW S
  PROVE  /\ Begun(Append(ls, e), id) <=> Begun(ls, id) \/ (e.type = "begin" /\ e.tx = id)
         /\ HasState(Append(ls, e), id, S)
              <=> HasState(ls, id, S) \/ (e.type = "state" /\ e.tx = id /\ e.state \in S)
<1> DEFINE new == Append(ls, e)
<1>1. /\ DOMAIN new = DOMAIN ls \cup {Len(ls) + 1}
      /\ \A i \in DOMAIN ls : new[i] = ls[i]
      /\ new[Len(ls) + 1] = e
  BY AppendProperties, LenProperties
<1> HIDE DEF new
<1>2. Begun(new, id) <=> Begun(ls, id) \/ (e.type = "begin" /\ e.tx = id)
  BY <1>1 DEF Begun
<1>3. HasState(new, id, S)
        <=> HasState(ls, id, S) \/ (e.type = "state" /\ e.tx = id /\ e.state \in S)
  BY <1>1 DEF HasState
<1> QED
  BY <1>2, <1>3 DEF new

-----------------------------------------------------------------------------
(* The journal is never corrupt, and the lock keeps its callers apart.     *)

\* A process is on the locked part of its path exactly while it owns the lock.
LockInv == \A p \in Procs : pc[p] \in Locked <=> lock = p

\* A call in progress read the file that is still there.
CallInv == \A p \in Procs : loaded[p] => pc[p] \in InCall /\ snap[p] = jlines

\* Every transaction in the file was drawn, so a fresh ID is not in the file.
IssuedInv == \A i \in DOMAIN jlines : jlines[i].tx \in issued

\* Where a process is working on a transaction.
WithTx == Locked \ {"pending", "recovered", "prepare", "begin", "release"}

TxInv == \A p \in Procs : pc[p] \in WithTx => tx[p] \in TxIds

IInv == TypeOK /\ LockInv /\ CallInv /\ IssuedInv /\ TxInv /\ JournalNeverCorrupt

USE NoProcAssumption, NoTxAssumption, MaxFaultsAssumption
    DEF NoProcAssumption, NoTxAssumption, MaxFaultsAssumption

-----------------------------------------------------------------------------
LEMMA InitIInv == GovInit => IInv
<1> SUFFICES ASSUME GovInit PROVE IInv
  OBVIOUS
<1> USE DEF GovInit, JournalInit, LockInit, File!FileInit, Audit!FileInit
<1>1. JournalTypeOK
  <2>1. jlines \in Seq(Event) /\ jsynced \in 0..Len(jlines)
    BY EmptySeq
  <2>2. snap \in [Procs -> Seq(Event)]
    BY EmptySeq
  <2> QED
    BY <2>1, <2>2 DEF JournalTypeOK
<1>2. AuditTypeOK
  <2>1. alines \in Seq(AuditEntry) /\ asynced \in 0..Len(alines)
    BY EmptySeq
  <2> QED
    BY <2>1 DEF AuditTypeOK
<1>3. ProcTypeOK
  BY DEF ProcTypeOK, PCs
<1>4. LockInv /\ CallInv /\ TxInv
  BY DEF LockInv, CallInv, TxInv, WithTx, Locked, InCall, Writing, Interrupting
<1>5. IssuedInv /\ JournalNeverCorrupt
  BY DEF IssuedInv, JournalNeverCorrupt, Readable, Foldable
<1> QED
  BY <1>1, <1>2, <1>3, <1>4, <1>5 DEF IInv, TypeOK

-----------------------------------------------------------------------------
(* Steps that leave both files and every call in progress alone.           *)

QuietFiles == UNCHANGED <<journalVars, auditVars>>

LEMMA QuietStep ==
  ASSUME IInv, QuietFiles
  PROVE  JournalTypeOK' /\ AuditTypeOK' /\ IssuedInv' /\ JournalNeverCorrupt'
BY DEF QuietFiles, IInv, TypeOK, journalVars, auditVars, JournalTypeOK, AuditTypeOK,
       IssuedInv, JournalNeverCorrupt, Readable, Foldable

LEMMA RecoverIInv ==
  ASSUME IInv, NEW p \in Procs, Recover(p)
  PROVE  IInv'
<1> USE DEF Locked, InCall, Writing, Interrupting, WithTx, PCs, Goto
<1>1. CASE RecoveryAcquire(p)
  <2>1. ProcTypeOK' /\ LockInv' /\ CallInv' /\ TxInv'
    BY <1>1 DEF RecoveryAcquire, TryAcquireOk, Free, journalVars, IInv, TypeOK, ProcTypeOK,
                LockInv, CallInv, TxInv
  <2> QED
    BY <1>1, <2>1, QuietStep DEF QuietFiles, RecoveryAcquire, IInv, TypeOK
<1>2. CASE SkipRecovery(p)
  <2>1. ProcTypeOK' /\ LockInv' /\ CallInv' /\ TxInv'
    BY <1>2 DEF SkipRecovery, TryAcquireErr, journalVars, IInv, TypeOK, ProcTypeOK,
                LockInv, CallInv, TxInv
  <2> QED
    BY <1>2, <2>1, QuietStep DEF QuietFiles, SkipRecovery, IInv, TypeOK
<1>3. CASE RecoveryPending(p)
  <2>1. ProcTypeOK'
    BY <1>3 DEF RecoveryPending, Leaked, PendingInProgress, IInv, TypeOK, ProcTypeOK
  <2>2. LockInv' /\ TxInv'
    BY <1>3 DEF RecoveryPending, IInv, TypeOK, ProcTypeOK, LockInv, TxInv
  <2>3. JournalTypeOK' /\ CallInv'
    <3>1. <<>> \in Seq(Event)
      BY EmptySeq
    <3> QED
      BY <1>3, <3>1 DEF RecoveryPending, EndCall, IInv, TypeOK, JournalTypeOK, ProcTypeOK, CallInv
  <2>4. AuditTypeOK' /\ IssuedInv' /\ JournalNeverCorrupt'
    BY <1>3 DEF RecoveryPending, auditVars, IInv, TypeOK, AuditTypeOK, IssuedInv,
                JournalNeverCorrupt, Readable, Foldable
  <2> QED
    BY <2>1, <2>2, <2>3, <2>4 DEF IInv, TypeOK
<1>4. CASE PendingErr(p)
  <2>1. ProcTypeOK' /\ LockInv' /\ CallInv' /\ TxInv'
    BY <1>4, MaxFaultsAssumption
       DEF PendingErr, Fault, journalVars, IInv, TypeOK, ProcTypeOK, LockInv, CallInv, TxInv
  <2> QED
    BY <1>4, <2>1, QuietStep DEF QuietFiles, PendingErr, IInv, TypeOK
<1>5. CASE RecoveryNext(p)
  <2>1. PICK id \in todo[p] : /\ tx' = [tx EXCEPT ![p] = id]
                              /\ todo' = [todo EXCEPT ![p] = @ \ {id}]
    BY <1>5 DEF RecoveryNext
  <2>2. id \in TxIds
    BY <2>1 DEF IInv, TypeOK, ProcTypeOK
  <2>3. ProcTypeOK' /\ LockInv' /\ CallInv' /\ TxInv'
    BY <1>5, <2>1, <2>2 DEF RecoveryNext, journalVars, IInv, TypeOK, ProcTypeOK,
                            LockInv, CallInv, TxInv
  <2> QED
    BY <1>5, <2>3, QuietStep DEF QuietFiles, RecoveryNext, IInv, TypeOK
<1>6. CASE RecoveryDone(p)
  <2>1. ProcTypeOK' /\ LockInv' /\ CallInv' /\ TxInv'
    BY <1>6 DEF RecoveryDone, journalVars, IInv, TypeOK, ProcTypeOK, LockInv, CallInv, TxInv
  <2> QED
    BY <1>6, <2>1, QuietStep DEF QuietFiles, RecoveryDone, IInv, TypeOK
<1> QED
  BY <1>1, <1>2, <1>3, <1>4, <1>5, <1>6 DEF Recover

LEMMA CommandIInv ==
  ASSUME IInv, NEW p \in Procs,
         \/ Start(p) \/ Execute(p) \/ Exit(p) \/ Acquire(p) \/ AcquireErr(p)
         \/ Dispatch(p) \/ InnerDone(p) \/ ReleaseLock(p)
  PROVE  IInv'
<1> USE DEF Locked, InCall, Writing, Interrupting, WithTx, PCs, Goto, Fault
<1>1. QuietFiles
  BY DEF QuietFiles, Start, Execute, Exit, Acquire, AcquireErr, Dispatch,
         InnerDone, ReleaseLock
<1> DEFINE Rest == ProcTypeOK' /\ LockInv' /\ CallInv' /\ TxInv'
<1>2. ASSUME Start(p) PROVE Rest
  BY <1>2 DEF Start, journalVars, IInv, TypeOK, ProcTypeOK,
              LockInv, CallInv, TxInv
<1>3. ASSUME Execute(p) PROVE Rest
  BY <1>3 DEF Execute, journalVars, IInv, TypeOK, ProcTypeOK,
              LockInv, CallInv, TxInv
<1>4. ASSUME Exit(p) PROVE Rest
  BY <1>4 DEF Exit, journalVars, IInv, TypeOK, ProcTypeOK,
              LockInv, CallInv, TxInv
<1>5. ASSUME Acquire(p) PROVE Rest
  BY <1>5 DEF Acquire, TryAcquireOk, Free, journalVars, IInv, TypeOK, ProcTypeOK,
              LockInv, CallInv, TxInv
<1>6. ASSUME AcquireErr(p) PROVE Rest
  BY <1>6 DEF AcquireErr, TryAcquireErr, journalVars, IInv, TypeOK, ProcTypeOK,
              LockInv, CallInv, TxInv
<1>7. ASSUME Dispatch(p) PROVE Rest
  BY <1>7 DEF Dispatch, journalVars, IInv, TypeOK, ProcTypeOK,
              LockInv, CallInv, TxInv
<1>8. ASSUME InnerDone(p) PROVE Rest
  BY <1>8 DEF InnerDone, journalVars, IInv, TypeOK, ProcTypeOK,
              LockInv, CallInv, TxInv
<1>9. ASSUME ReleaseLock(p) PROVE Rest
  BY <1>9 DEF ReleaseLock, Release, journalVars, IInv, TypeOK, ProcTypeOK,
              LockInv, CallInv, TxInv
<1>10. Rest
  BY <1>2, <1>3, <1>4, <1>5, <1>6, <1>7, <1>8, <1>9
<1> QED
  BY <1>1, <1>10, QuietStep DEF IInv, TypeOK

-----------------------------------------------------------------------------
(* Steps that write the journal.                                           *)

\* Whatever the outcome of an append, the file gained the event or did not.
LEMMA JournalAppend ==
  ASSUME JournalTypeOK, NEW e \in Event, File!AppendOk(e) \/ File!AppendErr(e)
  PROVE  /\ jlines' \in Seq(Event) /\ jtorn' \in BOOLEAN /\ jsynced' \in 0..Len(jlines')
         /\ jlines' = jlines \/ jlines' = Append(jlines, e)
<1> USE DEF JournalTypeOK, File!AppendOk, File!AppendErr, File!TrimTornTail, File!fileVars,
            File!SyncedAfter, File!Written
<1>1. Append(jlines, e) \in Seq(Event) /\ Len(Append(jlines, e)) = Len(jlines) + 1
  BY AppendProperties
<1>2. jlines' = jlines \/ jlines' = Append(jlines, e)
  OBVIOUS
<1>3. jtorn' \in BOOLEAN
  OBVIOUS
<1>4. Len(jlines) \in Nat /\ jsynced' \in {jsynced, Len(jlines')}
  BY <1>1, LenProperties
<1>5. CASE jlines' = jlines
  BY <1>1, <1>3, <1>4, <1>5
<1>6. CASE jlines' = Append(jlines, e)
  BY <1>1, <1>3, <1>4, <1>6
<1> QED
  BY <1>2, <1>5, <1>6

\* The heart of the argument: an event built from what the call read, appended
\* under the lock, leaves the journal acceptable, and ends the only open call.
LEMMA AppendInCall ==
  ASSUME IInv, NEW p \in Procs, pc[p] \in InCall, loaded[p],
         NEW e \in Event, e.ok, e.seq = NextSequence(snap[p]), Foldable(Append(jlines, e)),
         File!AppendOk(e) \/ File!AppendErr(e), EndCall(p),
         issued' \in SUBSET TxIds, issued \subseteq issued', e.tx \in issued'
  PROVE  JournalTypeOK' /\ CallInv' /\ IssuedInv' /\ JournalNeverCorrupt'
<1>1. jlines \in Seq(Event) /\ JournalTypeOK
  BY DEF IInv, TypeOK, JournalTypeOK
<1>2. snap[p] = jlines /\ lock = p
  BY DEF IInv, CallInv, LockInv, Locked
<1>3. \A q \in Procs : ~loaded'[q]
  BY <1>1, <1>2 DEF IInv, CallInv, LockInv, Locked, EndCall, JournalTypeOK
<1>4. /\ jlines' \in Seq(Event) /\ jtorn' \in BOOLEAN /\ jsynced' \in 0..Len(jlines')
      /\ jlines' = jlines \/ jlines' = Append(jlines, e)
  BY <1>1, JournalAppend
<1>5. JournalTypeOK'
  <2>1. <<>> \in Seq(Event)
    BY EmptySeq
  <2> QED
    BY <1>1, <1>4, <2>1 DEF JournalTypeOK, EndCall
<1>6. Readable(Append(jlines, e))
  BY <1>1, <1>2, AppendReadable DEF IInv, JournalNeverCorrupt
<1>7. JournalNeverCorrupt'
  BY <1>4, <1>6 DEF IInv, JournalNeverCorrupt
<1>8. IssuedInv'
  <2>1. \A i \in DOMAIN Append(jlines, e) : Append(jlines, e)[i].tx \in issued'
    BY <1>1, AppendProperties DEF IInv, IssuedInv
  <2> QED
    BY <1>4, <2>1 DEF IInv, IssuedInv
<1> QED
  BY <1>3, <1>5, <1>7, <1>8 DEF CallInv

LEMMA NewEventType ==
  ASSUME JournalTypeOK, NEW p \in Procs, NEW type \in EventTypes, NEW id \in TxIds,
         NEW state \in EventStates \cup {"in_progress", "none"}
  PROVE  NewEvent(p, type, id, state) \in Event
<1>1. snap[p] \in Seq(Event)
  BY DEF JournalTypeOK
<1>2. NextSequence(snap[p]) \in Nat
  <2>1. CASE snap[p] = <<>>
    BY <2>1 DEF NextSequence
  <2>2. CASE snap[p] # <<>>
    <3>1. snap[p][Len(snap[p])] \in Event
      BY <1>1, <2>2, ElementOfSeq, EmptySeq
    <3> QED
      BY <2>2, <3>1 DEF NextSequence, Event
  <2> QED
    BY <2>1, <2>2
<1> QED
  BY <1>2 DEF NewEvent, Event

LEMMA BeginIInv ==
  ASSUME IInv, NEW p \in Procs, Begin(p) \/ BeginErr(p)
  PROVE  IInv'
<1> USE DEF Goto, Fault
<1> DEFINE Begins(id) ==
      /\ loaded[p] /\ id \notin issued
      /\ \/ File!AppendOk(NewEvent(p, "begin", id, "in_progress"))
         \/ File!AppendErr(NewEvent(p, "begin", id, "in_progress"))
      /\ EndCall(p) /\ issued' = issued \cup {id}
<1>1. ASSUME NEW id \in TxIds, Begins(id), pc[p] = "begin"
      PROVE  JournalTypeOK' /\ CallInv' /\ IssuedInv' /\ JournalNeverCorrupt'
  <2> DEFINE e == NewEvent(p, "begin", id, "in_progress")
  <2>1. e \in Event /\ e.type = "begin" /\ e.tx = id /\ e.ok /\ e.seq = NextSequence(snap[p])
    <3>1. e \in Event
      BY NewEventType DEF IInv, TypeOK, EventTypes
    <3> QED
      BY <3>1 DEF NewEvent
  <2>2. jlines \in Seq(Event) /\ issued \subseteq TxIds
    BY DEF IInv, TypeOK, JournalTypeOK
  <2>3. \A i \in DOMAIN jlines : jlines[i].tx # id
    BY <1>1 DEF IInv, IssuedInv
  <2>4. Foldable(jlines)
    BY DEF IInv, JournalNeverCorrupt
  <2> HIDE DEF e
  <2>5. Foldable(Append(jlines, e))
    BY <2>1, <2>2, <2>3, <2>4, AppendBeginFoldable
  <2>6. pc[p] \in InCall
    BY <1>1 DEF InCall
  <2>7. File!AppendOk(e) \/ File!AppendErr(e)
    BY <1>1 DEF e
  <2> QED
    BY <1>1, <2>1, <2>2, <2>5, <2>6, <2>7, AppendInCall
<1>2. CASE Begin(p)
  <2>1. PICK id \in TxIds : BeginOk(p, id) /\ tx' = [tx EXCEPT ![p] = id]
    BY <1>2 DEF Begin
  <2>2. Begins(id) /\ pc[p] = "begin"
    BY <1>2, <2>1 DEF Begin, BeginOk
  <2>3. JournalTypeOK' /\ CallInv' /\ IssuedInv' /\ JournalNeverCorrupt'
    BY <1>1, <2>2
  <2>4. ProcTypeOK' /\ LockInv' /\ TxInv'
    BY <1>2, <2>1 DEF Begin, IInv, TypeOK, ProcTypeOK, LockInv, TxInv, PCs, WithTx,
                      Locked, InCall, Writing, Interrupting
  <2>5. AuditTypeOK'
    BY <1>2 DEF Begin, auditVars, IInv, TypeOK, AuditTypeOK
  <2> QED
    BY <2>3, <2>4, <2>5 DEF IInv, TypeOK
<1>3. CASE BeginErr(p)
  <2>1. JournalTypeOK' /\ CallInv' /\ IssuedInv' /\ JournalNeverCorrupt'
    <3>1. CASE BeginRefused(p)
      BY <1>3, <3>1 DEF BeginErr, BeginRefused, journalVars, IInv, TypeOK, JournalTypeOK,
            ProcTypeOK, CallInv, IssuedInv, JournalNeverCorrupt, Readable, Foldable
    <3>2. CASE \E id \in TxIds : BeginIOError(p, id)
      BY <1>1, <1>3, <3>2 DEF BeginErr, BeginIOError
    <3> QED
      BY <1>3, <3>1, <3>2 DEF BeginErr
  <2>2. ProcTypeOK' /\ LockInv' /\ TxInv'
    BY <1>3 DEF BeginErr, IInv, TypeOK, ProcTypeOK, LockInv, TxInv, PCs, WithTx,
                Locked, InCall, Writing, Interrupting
  <2>3. AuditTypeOK'
    BY <1>3 DEF BeginErr, auditVars, IInv, TypeOK, AuditTypeOK
  <2> QED
    BY <2>1, <2>2, <2>3 DEF IInv, TypeOK
<1> QED
  BY <1>2, <1>3

\* The processes keep their transaction across a read or a write of the journal.
LEMMA WriteIInv ==
  ASSUME IInv, NEW p \in Procs, ReadJournal(p) \/ Write(p) \/ WriteErr(p)
  PROVE  IInv'
<1> USE DEF Goto, Fault
<1> DEFINE e == NewEvent(p, EventType(pc[p]), tx[p], EventState(pc[p]))
<1>1. ASSUME pc[p] \in Writing, loaded[p], RequirePending(snap[p], tx[p]),
             File!AppendOk(e) \/ File!AppendErr(e), EndCall(p), UNCHANGED issued
      PROVE  JournalTypeOK' /\ CallInv' /\ IssuedInv' /\ JournalNeverCorrupt'
  <2>1. snap[p] = jlines /\ jlines \in Seq(Event) /\ pc[p] \in InCall
    BY <1>1 DEF IInv, TypeOK, JournalTypeOK, CallInv, InCall
  <2>2. PICK i \in DOMAIN jlines : jlines[i].tx = tx[p]
    BY <1>1, <2>1 DEF RequirePending, Begun
  <2>3. tx[p] \in TxIds /\ tx[p] \in issued /\ issued \in SUBSET TxIds
    BY <2>2 DEF IInv, IssuedInv, TypeOK, JournalTypeOK
  <2>4. /\ EventType(pc[p]) \in {"step", "state"}
        /\ EventType(pc[p]) = "state" => EventState(pc[p]) \in EventStates
        /\ EventState(pc[p]) \in EventStates \cup {"in_progress", "none"}
    BY <1>1 DEF Writing, Interrupting, EventType, EventState, EventStates, Closing
  <2>5. e \in Event
    BY <2>3, <2>4, NewEventType DEF IInv, TypeOK, EventTypes
  <2>6. /\ e.type = EventType(pc[p]) /\ e.state = EventState(pc[p])
        /\ e.tx = tx[p] /\ e.ok /\ e.seq = NextSequence(snap[p])
    BY DEF NewEvent
  <2> HIDE DEF e
  <2>7. Foldable(Append(jlines, e))
    BY <1>1, <2>1, <2>4, <2>5, <2>6, AppendPendingFoldable
  <2> QED
    BY <1>1, <2>1, <2>3, <2>5, <2>6, <2>7, AppendInCall
<1>2. CASE ReadJournal(p)
  <2>1. JournalTypeOK' /\ CallInv'
    BY <1>2 DEF ReadJournal, ReadEvents, localVars, IInv, TypeOK, JournalTypeOK, CallInv
  <2>2. ProcTypeOK' /\ LockInv' /\ TxInv'
    BY <1>2 DEF ReadJournal, localVars, IInv, TypeOK, ProcTypeOK, LockInv, TxInv
  <2>3. AuditTypeOK' /\ IssuedInv' /\ JournalNeverCorrupt'
    BY <1>2 DEF ReadJournal, ReadEvents, auditVars, IInv, TypeOK, AuditTypeOK, IssuedInv,
                JournalNeverCorrupt
  <2> QED
    BY <2>1, <2>2, <2>3 DEF IInv, TypeOK
<1>3. CASE Write(p)
  <2>1. JournalTypeOK' /\ CallInv' /\ IssuedInv' /\ JournalNeverCorrupt'
    BY <1>1, <1>3 DEF Write, WriteOk
  <2>2. ProcTypeOK' /\ LockInv' /\ TxInv'
    BY <1>3 DEF Write, IInv, TypeOK, ProcTypeOK, LockInv, TxInv, PCs, WithTx, AfterOk,
                Locked, InCall, Writing, Interrupting
  <2>3. AuditTypeOK'
    BY <1>3 DEF Write, auditVars, IInv, TypeOK, AuditTypeOK
  <2> QED
    BY <2>1, <2>2, <2>3 DEF IInv, TypeOK
<1>4. CASE WriteErr(p)
  <2>1. JournalTypeOK' /\ CallInv' /\ IssuedInv' /\ JournalNeverCorrupt'
    <3>1. CASE Refused(p, tx[p])
      <4>1. <<>> \in Seq(Event)
        BY EmptySeq
      <4>2. JournalTypeOK' /\ IssuedInv' /\ JournalNeverCorrupt'
        BY <3>1, <4>1 DEF Refused, EndCall, IInv, TypeOK, JournalTypeOK, IssuedInv,
                          JournalNeverCorrupt
      <4>3. \A q \in Procs : ~loaded'[q]
        BY <1>4, <3>1 DEF WriteErr, Refused, EndCall, IInv, TypeOK, JournalTypeOK,
                          CallInv, LockInv, Locked, InCall
      <4> QED
        BY <4>2, <4>3 DEF CallInv
    <3>2. CASE WriteIOError(p, EventType(pc[p]), tx[p], EventState(pc[p]))
      BY <1>1, <1>4, <3>2 DEF WriteErr, WriteIOError
    <3> QED
      BY <1>4, <3>1, <3>2 DEF WriteErr
  <2>2. ProcTypeOK' /\ LockInv' /\ TxInv'
    BY <1>4 DEF WriteErr, IInv, TypeOK, ProcTypeOK, LockInv, TxInv, PCs, WithTx, AfterErr,
                Locked, InCall, Writing, Interrupting
  <2>3. AuditTypeOK'
    BY <1>4 DEF WriteErr, auditVars, IInv, TypeOK, AuditTypeOK
  <2> QED
    BY <2>1, <2>2, <2>3 DEF IInv, TypeOK
<1> QED
  BY <1>2, <1>3, <1>4

-----------------------------------------------------------------------------
(* Audit records, crashes and power losses.                                *)

LEMMA AuditIInv ==
  ASSUME IInv, NEW p \in Procs, AppendAudit(p)
  PROVE  IInv'
<1> DEFINE entry == Entry(p, AuditResult(pc[p]))
<1>1. entry \in AuditEntry
  BY DEF AppendAudit, Entry, AuditResult, AuditEntry, IInv, TxInv, WithTx, Locked,
         InCall, Writing, Interrupting
<1>2. AuditTypeOK'
  <2>1. alines \in Seq(AuditEntry) /\ Len(alines) \in Nat /\ asynced \in 0..Len(alines)
    BY LenProperties DEF IInv, TypeOK, AuditTypeOK
  <2> HIDE DEF entry
  <2>2. Append(alines, entry) \in Seq(AuditEntry)
        /\ Len(Append(alines, entry)) = Len(alines) + 1
    BY <1>1, <2>1, AppendProperties
  <2>3. atorn \in BOOLEAN
    BY DEF IInv, TypeOK, AuditTypeOK
  <2>4. atorn' \in BOOLEAN
    BY <2>3 DEF AppendAudit, entry, Audit!AppendOk, Audit!AppendErr, Audit!TrimTornTail,
                Audit!fileVars
  <2>5. alines' = alines \/ alines' = Append(alines, entry)
    BY DEF AppendAudit, entry, Audit!AppendOk, Audit!AppendErr, Audit!Written,
           Audit!TrimTornTail
  <2>6. alines' \in Seq(AuditEntry) /\ Len(alines') \in Nat /\ Len(alines') >= Len(alines)
    BY <2>1, <2>2, <2>5
  <2>7. asynced' \in 0..Len(alines')
    <3>1. CASE Audit!AppendOk(entry)
      BY <2>2, <2>6, <3>1 DEF Audit!AppendOk, Audit!Written, Audit!TrimTornTail,
                              Audit!SyncedAfter
    <3>2. CASE Audit!AppendErr(entry)
      <4>1. asynced' = asynced \/ asynced' = Len(alines')
        BY <3>2 DEF Audit!AppendErr
      <4> QED
        BY <2>1, <2>6, <4>1
    <3> QED
      BY <3>1, <3>2 DEF AppendAudit, entry
  <2> QED
    BY <2>4, <2>6, <2>7 DEF AuditTypeOK
<1>3. JournalTypeOK' /\ IssuedInv' /\ JournalNeverCorrupt'
  BY DEF AppendAudit, journalVars, IInv, TypeOK, JournalTypeOK, IssuedInv, JournalNeverCorrupt
<1>4. ProcTypeOK' /\ LockInv' /\ CallInv' /\ TxInv'
  BY DEF AppendAudit, journalVars, Goto, Fault, AfterAudit, IInv, TypeOK, ProcTypeOK, LockInv,
         CallInv, TxInv, PCs, WithTx, Locked, InCall, Writing, Interrupting
<1> QED
  BY <1>2, <1>3, <1>4 DEF IInv, TypeOK

LEMMA PrepareIInv ==
  ASSUME IInv, NEW p \in Procs, Prepare(p)
  PROVE  IInv'
<1>1. AuditTypeOK'
  <2>1. alines' = alines /\ atorn' = atorn /\ asynced' \in {asynced, Len(alines)}
    BY DEF Prepare, Audit!Flush, Audit!SyncedAfter, auditVars
  <2>2. Len(alines) \in Nat
    BY LenProperties DEF IInv, TypeOK, AuditTypeOK
  <2> QED
    BY <2>1, <2>2 DEF IInv, TypeOK, AuditTypeOK
<1>2. JournalTypeOK' /\ IssuedInv' /\ JournalNeverCorrupt'
  BY DEF Prepare, journalVars, IInv, TypeOK, JournalTypeOK, IssuedInv, JournalNeverCorrupt
<1>3. ProcTypeOK' /\ LockInv' /\ CallInv' /\ TxInv'
  BY DEF Prepare, journalVars, Goto, Fault, IInv, TypeOK, ProcTypeOK, LockInv, CallInv, TxInv,
         PCs, WithTx, Locked, InCall, Writing, Interrupting
<1> QED
  BY <1>1, <1>2, <1>3 DEF IInv, TypeOK

LEMMA CrashIInv ==
  ASSUME IInv, NEW p \in Procs, Crash(p)
  PROVE  IInv'
<1>1. <<>> \in Seq(Event)
  BY EmptySeq
<1>2. JournalTypeOK' /\ CallInv'
  BY <1>1 DEF Crash, Vanish, IInv, TypeOK, JournalTypeOK, CallInv, ProcTypeOK
<1>3. AuditTypeOK' /\ IssuedInv' /\ JournalNeverCorrupt'
  BY DEF Crash, auditVars, IInv, TypeOK, AuditTypeOK, IssuedInv, JournalNeverCorrupt
<1>4. ProcTypeOK' /\ LockInv' /\ TxInv'
  BY DEF Crash, Vanish, Abandon, Fault, IInv, TypeOK, ProcTypeOK, LockInv, TxInv, PCs, WithTx,
         Locked, InCall, Writing, Interrupting
<1> QED
  BY <1>2, <1>3, <1>4 DEF IInv, TypeOK

LEMMA PowerLossIInv ==
  ASSUME IInv, PowerLoss
  PROVE  IInv'
<1>1. <<>> \in Seq(Event)
  BY EmptySeq
<1>2. PICK n \in jsynced..Len(jlines) :
        /\ jlines' = SubSeq(jlines, 1, n)
        /\ jtorn' \in (IF n < Len(jlines) THEN BOOLEAN ELSE {jtorn, FALSE})
        /\ jsynced' = n
  BY DEF PowerLoss, File!LoseUnsynced
<1>3. n \in 0..Len(jlines) /\ jlines \in Seq(Event) /\ Len(jlines) \in Nat
  BY LenProperties DEF IInv, TypeOK, JournalTypeOK
<1>4. /\ jlines' \in Seq(Event) /\ Len(jlines') = n
      /\ \A i \in 1..n : jlines'[i] = jlines[i]
      /\ JournalNeverCorrupt'
  BY <1>2, <1>3, PrefixAccepted DEF IInv, JournalNeverCorrupt
<1>5. IssuedInv'
  BY <1>3, <1>4, LenProperties DEF PowerLoss, IInv, IssuedInv
<1>6. JournalTypeOK' /\ CallInv'
  <2>1. jtorn' \in BOOLEAN
    BY <1>2 DEF IInv, TypeOK, JournalTypeOK
  <2>2. jsynced' \in 0..Len(jlines')
    BY <1>2, <1>3, <1>4
  <2> QED
    BY <1>1, <1>4, <2>1, <2>2 DEF PowerLoss, Vanish, IInv, TypeOK, JournalTypeOK, CallInv
<1>7. AuditTypeOK'
  <2>1. PICK m \in asynced..Len(alines) :
          /\ alines' = SubSeq(alines, 1, m)
          /\ atorn' \in (IF m < Len(alines) THEN BOOLEAN ELSE {atorn, FALSE})
          /\ asynced' = m
    BY DEF PowerLoss, Audit!LoseUnsynced
  <2>2. alines \in Seq(AuditEntry) /\ Len(alines) \in Nat /\ m \in 0..Len(alines)
    BY LenProperties DEF IInv, TypeOK, AuditTypeOK
  <2>3. \A i \in 1..m : alines[i] \in AuditEntry
    BY <2>2, ElementOfSeq
  <2>4. alines' \in Seq(AuditEntry) /\ Len(alines') = m
    BY <2>1, <2>2, <2>3, SubSeqProperties
  <2>5. atorn' \in BOOLEAN
    BY <2>1 DEF IInv, TypeOK, AuditTypeOK
  <2>6. asynced' \in 0..Len(alines')
    BY <2>1, <2>2, <2>4
  <2> QED
    BY <2>4, <2>5, <2>6 DEF AuditTypeOK
<1>8. ProcTypeOK' /\ LockInv' /\ TxInv'
  BY DEF PowerLoss, Vanish, Fault, IInv, TypeOK, ProcTypeOK, LockInv, TxInv, PCs, WithTx,
         Locked, InCall, Writing, Interrupting
<1> QED
  BY <1>4, <1>5, <1>6, <1>7, <1>8 DEF IInv, TypeOK

-----------------------------------------------------------------------------
LEMMA NextIInv == IInv /\ [Next]_vars => IInv'
<1> SUFFICES ASSUME IInv, [Next]_vars
             PROVE  IInv'
  OBVIOUS
<1>1. ASSUME NEW p \in Procs, Start(p) \/ Execute(p) \/ Exit(p) \/ Step(p) \/ Crash(p)
      PROVE  IInv'
  BY <1>1, RecoverIInv, CommandIInv, BeginIInv, WriteIInv, AuditIInv, PrepareIInv, CrashIInv
     DEF Step, Recover, Command, Persist
<1>2. CASE PowerLoss
  BY <1>2, PowerLossIInv
<1>3. CASE UNCHANGED vars
  <2>1. QuietFiles
    BY <1>3 DEF vars, QuietFiles
  <2>2. ProcTypeOK' /\ LockInv' /\ CallInv' /\ TxInv'
    BY <1>3 DEF vars, journalVars, localVars, IInv, TypeOK, ProcTypeOK, LockInv, CallInv, TxInv
  <2> QED
    BY <2>1, <2>2, QuietStep DEF IInv, TypeOK
<1> QED
  BY <1>1, <1>2, <1>3 DEF Next

\* IInv is an invariant of governed execution, whatever interleaves, fails or dies.
THEOREM GovernanceInvariance == Spec => []IInv
  BY InitIInv, NextIInv, PTL DEF Spec

\* Every variable keeps its type.
THEOREM GovernanceTypeCorrect == Spec => []TypeOK
<1>1. IInv => TypeOK
  BY DEF IInv
<1> QED
  BY <1>1, GovernanceInvariance, PTL

\* No process ever finds the journal corrupt: a readEvents or fold error, which
\* would refuse every later mutation, is unreachable (journal.go:234-311).
THEOREM JournalStaysAcceptable == Spec => []JournalNeverCorrupt
<1>1. IInv => JournalNeverCorrupt
  BY DEF IInv
<1> QED
  BY <1>1, GovernanceInvariance, PTL

-----------------------------------------------------------------------------
(* What a running command knows of its transaction.                        *)

\* The dispatch step of id is among the events.
Stepped(ev, id) == \E i \in DOMAIN ev : ev[i].type = "step" /\ ev[i].tx = id

\* id's completed event is on stable storage.
Committed(id) ==
  \E i \in 1..jsynced :
    jlines[i].type = "state" /\ jlines[i].tx = id /\ jlines[i].state = "completed"

Audited(id) == \E i \in DOMAIN alines : alines[i].tx = id

\* A transaction gets at most one state event, whatever call reported an error.
OneOutcome ==
  /\ \A i \in DOMAIN jlines : jlines[i].type = "state" => jlines[i].state \in Durable!Outcomes
  /\ \A i, j \in DOMAIN jlines :
        jlines[i].type = "state" /\ jlines[j].type = "state" /\ jlines[i].tx = jlines[j].tx
          => i = j

\* Steps at which the process's transaction is begun and has no state event; at
\* "fail" a commit that reported an error may have written one.
Open == {"record", "dispatch", "execute", "commit", "cancel", "interrupt"}
Ran == {"execute", "commit", "audit_ok"}

OpenInv ==
  \A p \in Procs :
    /\ pc[p] \in Open => InProgress(jlines, tx[p])
    /\ pc[p] = "fail" /\ HasState(jlines, tx[p], EventStates) => HasState(jlines, tx[p], Closing)
    /\ pc[p] \in {"dispatch", "execute"} => jsynced = Len(jlines) /\ Stepped(jlines, tx[p])
    /\ pc[p] \in Ran => tx[p] \in mutated
    /\ pc[p] = "audit_ok" => Committed(tx[p])

\* While recovery runs, exactly the transactions it still has to mark are open.
RecoveryInv ==
  \A p \in Procs : pc[p] \in {"recovered", "interrupt", "recovery_audit"} =>
    /\ \A id \in todo[p] : InProgress(jlines, id)
    /\ pc[p] = "interrupt" => tx[p] \notin todo[p]
    /\ \A id \in TxIds : InProgress(jlines, id) =>
         id \in todo[p] \/ (pc[p] = "interrupt" /\ id = tx[p])

\* What the lines of the audit log say.
AuditLog ==
  /\ \A i \in DOMAIN alines : alines[i].ok /\ alines[i].tx \in issued
  /\ \A i \in DOMAIN alines : alines[i].result = "ok" =>
       /\ Committed(alines[i].tx) /\ alines[i].tx \in mutated
       /\ \A j \in DOMAIN alines : alines[j].tx = alines[i].tx => alines[j].result = "ok"

\* A command is audited once, at its end; recovery audits what never succeeded.
Commanding == {"record", "dispatch", "execute", "commit", "fail", "cancel",
               "audit_ok", "audit_failed"}

AuditInv ==
  \A p \in Procs :
    /\ pc[p] \in WithTx => tx[p] \in issued
    /\ pc[p] \in Commanding => ~Audited(tx[p])
    /\ pc[p] \in {"interrupt", "recovery_audit"} => ~AuditedAs(tx[p], "ok")

OInv == OneOutcome /\ OpenInv /\ RecoveryInv /\ AuditLog /\ AuditInv
-----------------------------------------------------------------------------
LEMMA InitOInv == GovInit => OInv
<1> SUFFICES ASSUME GovInit PROVE OInv
  OBVIOUS
<1> USE DEF GovInit, JournalInit, File!FileInit, Audit!FileInit
<1>1. OneOutcome /\ AuditLog
  BY DEF OneOutcome, AuditLog
<1>2. OpenInv /\ RecoveryInv /\ AuditInv
  BY DEF OpenInv, RecoveryInv, AuditInv, Open, Ran, Commanding, WithTx, Locked, InCall, Writing,
         Interrupting
<1> QED
  BY <1>1, <1>2 DEF OInv

-----------------------------------------------------------------------------
(* Steps of one process outside of both files.                             *)

\* What a step that writes nothing leaves true, whatever the processes do.
LEMMA QuietFacts ==
  ASSUME IInv, OInv, UNCHANGED <<jlines, jsynced, alines>>,
         issued \subseteq issued', mutated \subseteq mutated'
  PROVE  /\ OneOutcome' /\ AuditLog'
         /\ \A id : Committed(id)' <=> Committed(id)
         /\ \A id : Audited(id)' <=> Audited(id)
         /\ \A id, r : AuditedAs(id, r)' <=> AuditedAs(id, r)
<1>1. \A id : Committed(id)' <=> Committed(id)
  BY DEF Committed
<1>2. \A id : Audited(id)' <=> Audited(id)
  BY DEF Audited
<1>3. \A id, r : AuditedAs(id, r)' <=> AuditedAs(id, r)
  BY DEF AuditedAs
<1>4. OneOutcome'
  BY DEF OInv, OneOutcome
<1>5. AuditLog'
  BY <1>1 DEF OInv, AuditLog
<1> QED
  BY <1>1, <1>2, <1>3, <1>4, <1>5

\* A process that does not enter the locked part disturbs no fact about the others.
LEMMA OutsideStep ==
  ASSUME IInv, OInv, NEW p \in Procs, UNCHANGED <<jlines, jsynced, alines, issued, mutated>>,
         \A q \in Procs \ {p} : pc'[q] = pc[q] /\ tx'[q] = tx[q] /\ todo'[q] = todo[q],
         pc'[p] \notin Locked \/ pc'[p] = "release"
  PROVE  OInv'
<1>1. /\ OneOutcome' /\ AuditLog'
      /\ \A id : Committed(id)' <=> Committed(id)
      /\ \A id : Audited(id)' <=> Audited(id)
      /\ \A id, r : AuditedAs(id, r)' <=> AuditedAs(id, r)
  BY QuietFacts
<1> USE DEF Open, Ran, Commanding, WithTx, Locked, InCall, Writing, Interrupting
<1>2. OpenInv'
  BY <1>1 DEF OInv, OpenInv
<1>3. RecoveryInv'
  BY DEF OInv, RecoveryInv
<1>4. AuditInv'
  BY <1>1 DEF OInv, AuditInv
<1> QED
  BY <1>1, <1>2, <1>3, <1>4 DEF OInv

\* A process in the locked part is alone there, so facts about a transaction in
\* hand are facts about its own.
LEMMA LockedStep ==
  ASSUME IInv, OInv, NEW p \in Procs, pc[p] \in Locked,
         \A q \in Procs \ {p} : pc'[q] = pc[q],
         OneOutcome', AuditLog',
         /\ pc'[p] \in Open => InProgress(jlines', tx'[p])
         /\ pc'[p] = "fail" /\ HasState(jlines', tx'[p], EventStates)
              => HasState(jlines', tx'[p], Closing)
         /\ pc'[p] \in {"dispatch", "execute"}
              => jsynced' = Len(jlines') /\ Stepped(jlines', tx'[p])
         /\ pc'[p] \in Ran => tx'[p] \in mutated'
         /\ pc'[p] = "audit_ok" => Committed(tx[p])',
         pc'[p] \in {"recovered", "interrupt", "recovery_audit"} =>
           /\ \A id \in todo'[p] : InProgress(jlines', id)
           /\ pc'[p] = "interrupt" => tx'[p] \notin todo'[p]
           /\ \A id \in TxIds : InProgress(jlines', id) =>
                id \in todo'[p] \/ (pc'[p] = "interrupt" /\ id = tx'[p]),
         /\ pc'[p] \in WithTx => tx'[p] \in issued'
         /\ pc'[p] \in Commanding => \A i \in DOMAIN alines' : alines'[i].tx # tx'[p]
         /\ pc'[p] \in {"interrupt", "recovery_audit"} =>
              \A i \in DOMAIN alines' : alines'[i].tx = tx'[p] => alines'[i].result # "ok"
  PROVE  OInv'
<1>1. \A q \in Procs \ {p} : pc'[q] \notin Locked
  BY DEF IInv, LockInv
<1> USE DEF Open, Ran, Commanding, WithTx, Locked, InCall, Writing, Interrupting
<1>2. OpenInv'
  BY <1>1 DEF OpenInv, Committed
<1>3. RecoveryInv'
  BY <1>1 DEF RecoveryInv
<1>4. AuditInv'
  BY <1>1 DEF AuditInv, Audited, AuditedAs
<1> QED
  BY <1>2, <1>3, <1>4 DEF OInv
LEMMA RecoverOInv ==
  ASSUME IInv, OInv, NEW p \in Procs, Recover(p)
  PROVE  OInv'
<1> USE DEF Goto, Open, Ran, Commanding, WithTx, Locked, InCall, Writing, Interrupting
<1>1. pc \in [Procs -> PCs] /\ tx \in [Procs -> TxIds \cup {NoTx}]
      /\ todo \in [Procs -> SUBSET TxIds]
  BY DEF IInv, TypeOK, ProcTypeOK
<1>2. UNCHANGED <<jlines, jsynced, alines, issued, mutated>>
  BY DEF Recover, RecoveryAcquire, SkipRecovery, RecoveryPending, PendingErr, RecoveryNext,
         RecoveryDone, journalVars, auditVars
<1>3. OneOutcome' /\ AuditLog'
  BY <1>2, QuietFacts
<1>4. CASE RecoveryAcquire(p)
  <2>1. lock = NoProc
    BY <1>4 DEF RecoveryAcquire, TryAcquireOk, Free
  <2>2. \A q \in Procs \ {p} : pc'[q] = pc[q] /\ pc[q] \notin Locked
    BY <1>1, <1>4, <2>1 DEF RecoveryAcquire, IInv, LockInv
  <2>3. pc'[p] = "pending"
    BY <1>1, <1>4 DEF RecoveryAcquire
  <2> QED
    BY <1>3, <2>2, <2>3 DEF OInv, OpenInv, RecoveryInv, AuditInv
<1>5. CASE SkipRecovery(p) \/ PendingErr(p) \/ RecoveryDone(p)
  <2>1. /\ \A q \in Procs \ {p} : pc'[q] = pc[q] /\ tx'[q] = tx[q] /\ todo'[q] = todo[q]
        /\ pc'[p] \in {"ready", "release"}
    BY <1>1, <1>5 DEF SkipRecovery, PendingErr, RecoveryDone
  <2> QED
    BY <1>2, <2>1, OutsideStep
<1>6. CASE RecoveryPending(p)
  <2>1. pc[p] = "pending" /\ snap[p] = jlines /\ \A q \in Procs \ {p} : pc'[q] = pc[q]
    BY <1>1, <1>6 DEF RecoveryPending, IInv, CallInv
  <2>2. CASE pc'[p] = "release"
    BY <1>3, <2>1, <2>2, LockedStep
  <2>3. CASE pc'[p] = "recovered"
    <3>1. todo'[p] = {id \in TxIds : InProgress(jlines, id)}
      BY <1>1, <1>6, <2>1, <2>3 DEF RecoveryPending, Leaked, PendingInProgress
    <3>2. jlines' = jlines
      BY <1>2
    <3> QED
      BY <1>3, <2>1, <2>3, <3>1, <3>2, LockedStep
  <2> QED
    BY <1>1, <1>6, <2>2, <2>3 DEF RecoveryPending
<1>7. CASE RecoveryNext(p)
  <2>1. PICK id \in todo[p] : tx' = [tx EXCEPT ![p] = id] /\ todo' = [todo EXCEPT ![p] = @ \ {id}]
    BY <1>7 DEF RecoveryNext
  <2>2. pc[p] = "recovered" /\ pc'[p] = "interrupt" /\ \A q \in Procs \ {p} : pc'[q] = pc[q]
    BY <1>1, <1>7 DEF RecoveryNext
  <2>3. /\ InProgress(jlines, id) /\ \A other \in todo[p] : InProgress(jlines, other)
        /\ \A other \in TxIds : InProgress(jlines, other) => other \in todo[p]
    BY <2>2 DEF OInv, RecoveryInv
  <2>4. tx'[p] = id /\ todo'[p] = todo[p] \ {id}
    BY <1>1, <2>1
  <2>5. id \in issued
    BY <2>3 DEF InProgress, Begun, IInv, IssuedInv
  <2>6. \A i \in DOMAIN alines : alines[i].tx = id => alines[i].result # "ok"
    <3>1. SUFFICES ASSUME NEW i \in DOMAIN alines, alines[i].tx = id, alines[i].result = "ok"
                   PROVE  FALSE
      OBVIOUS
    <3>2. Committed(id)
      BY <3>1 DEF OInv, AuditLog
    <3>3. HasState(jlines, id, EventStates)
      BY <3>2, LenProperties
         DEF Committed, HasState, EventStates, Closing, IInv, TypeOK, JournalTypeOK
    <3> QED
      BY <2>3, <3>3 DEF InProgress
  <2> QED
    BY <1>2, <1>3, <2>2, <2>3, <2>4, <2>5, <2>6, LockedStep
<1> QED
  BY <1>4, <1>5, <1>6, <1>7 DEF Recover

LEMMA CommandOInv ==
  ASSUME IInv, OInv, NEW p \in Procs,
         \/ Start(p) \/ Execute(p) \/ Exit(p) \/ Acquire(p) \/ AcquireErr(p)
         \/ Dispatch(p) \/ InnerDone(p) \/ ReleaseLock(p)
  PROVE  OInv'
<1> USE DEF Goto, Open, Ran, Commanding, WithTx, Locked, InCall, Writing, Interrupting
<1>1. pc \in [Procs -> PCs] /\ tx \in [Procs -> TxIds \cup {NoTx}]
      /\ todo \in [Procs -> SUBSET TxIds]
  BY DEF IInv, TypeOK, ProcTypeOK
<1>2. CASE Start(p) \/ Execute(p) \/ Exit(p) \/ AcquireErr(p) \/ ReleaseLock(p)
  <2>1. UNCHANGED <<jlines, jsynced, alines, issued, mutated>>
    BY <1>2 DEF Start, Execute, Exit, AcquireErr, ReleaseLock, journalVars, auditVars
  <2>2. /\ \A q \in Procs \ {p} : pc'[q] = pc[q] /\ tx'[q] = tx[q] /\ todo'[q] = todo[q]
        /\ pc'[p] \in {"starting", "acquire", "off", "ready"}
    BY <1>1, <1>2 DEF Start, Execute, Exit, AcquireErr, ReleaseLock
  <2> QED
    BY <2>1, <2>2, OutsideStep
<1>3. CASE Acquire(p)
  <2>1. UNCHANGED <<jlines, jsynced, alines, issued, mutated>> /\ lock = NoProc
    BY <1>3 DEF Acquire, TryAcquireOk, Free, journalVars, auditVars
  <2>2. \A q \in Procs \ {p} : pc'[q] = pc[q] /\ pc[q] \notin Locked
    BY <1>1, <1>3, <2>1 DEF Acquire, IInv, LockInv
  <2>3. pc'[p] = "prepare" /\ OneOutcome' /\ AuditLog'
    BY <1>1, <1>3, <2>1, QuietFacts DEF Acquire
  <2> QED
    BY <2>2, <2>3 DEF OInv, OpenInv, RecoveryInv, AuditInv
<1>4. CASE Dispatch(p) \/ InnerDone(p)
  <2>1. /\ UNCHANGED <<jlines, jsynced, alines, issued, tx, todo>>
        /\ mutated \subseteq mutated'
        /\ \A q \in Procs \ {p} : pc'[q] = pc[q]
        /\ \/ pc[p] = "dispatch" /\ pc'[p] = "execute" /\ tx[p] \in mutated'
           \/ pc[p] = "dispatch" /\ pc'[p] = "cancel"
           \/ pc[p] = "execute" /\ pc'[p] \in {"commit", "fail", "cancel"} /\ UNCHANGED mutated
    BY <1>1, <1>4 DEF Dispatch, InnerDone, journalVars, auditVars
  <2>2. OneOutcome' /\ AuditLog'
    BY <2>1, QuietFacts
  <2>3. InProgress(jlines, tx[p])
    BY <2>1 DEF OInv, OpenInv
  <2>4. ~HasState(jlines, tx[p], EventStates)
    BY <2>3 DEF InProgress
  <2>5. tx[p] \in issued /\ \A i \in DOMAIN alines : alines[i].tx # tx[p]
    BY <2>1 DEF OInv, AuditInv, Audited
  <2>6. pc[p] = "dispatch" => jsynced = Len(jlines) /\ Stepped(jlines, tx[p])
    BY DEF OInv, OpenInv
  <2>7. pc[p] = "execute" => tx[p] \in mutated
    BY DEF OInv, OpenInv
  <2> QED
    BY <2>1, <2>2, <2>3, <2>4, <2>5, <2>6, <2>7, LockedStep
<1> QED
  BY <1>2, <1>3, <1>4
-----------------------------------------------------------------------------
(* Steps that write the journal.                                           *)

LEMMA AppendStepped ==
  ASSUME NEW ls \in Seq(Event), NEW e \in Event, NEW id
  PROVE  Stepped(Append(ls, e), id) <=> Stepped(ls, id) \/ (e.type = "step" /\ e.tx = id)
<1> DEFINE new == Append(ls, e)
<1>1. /\ DOMAIN new = DOMAIN ls \cup {Len(ls) + 1}
      /\ \A i \in DOMAIN ls : new[i] = ls[i]
      /\ new[Len(ls) + 1] = e
  BY AppendProperties, LenProperties
<1> HIDE DEF new
<1>2. Stepped(new, id) <=> Stepped(ls, id) \/ (e.type = "step" /\ e.tx = id)
  BY <1>1 DEF Stepped
<1> QED
  BY <1>2 DEF new

\* An append loses nothing that was durable; one that succeeds makes it all durable.
LEMMA AppendKeepsDurable ==
  ASSUME JournalTypeOK, NEW e \in Event, File!AppendOk(e) \/ File!AppendErr(e)
  PROVE  /\ jsynced <= jsynced' /\ jsynced' \in 0..Len(jlines')
         /\ \A i \in 1..jsynced : i \in DOMAIN jlines' /\ jlines'[i] = jlines[i]
         /\ jlines' = jlines \/ jlines' = Append(jlines, e)
         /\ File!AppendOk(e) => jlines' = Append(jlines, e) /\ jsynced' = Len(jlines')
<1>1. jlines \in Seq(Event) /\ Len(jlines) \in Nat /\ DOMAIN jlines = 1..Len(jlines)
      /\ jsynced \in 0..Len(jlines)
  BY LenProperties DEF JournalTypeOK
<1>2. /\ Append(jlines, e) \in Seq(Event)
      /\ Len(Append(jlines, e)) = Len(jlines) + 1
      /\ DOMAIN Append(jlines, e) = 1..(Len(jlines) + 1)
      /\ \A i \in 1..Len(jlines) : Append(jlines, e)[i] = jlines[i]
  BY <1>1, AppendProperties
<1>3. /\ jlines' = jlines \/ jlines' = Append(jlines, e)
      /\ jsynced' \in 0..Len(jlines')
  BY JournalAppend
<1>4. File!AppendOk(e) => jlines' = Append(jlines, e) /\ jsynced' = Len(jlines')
  BY <1>2 DEF File!AppendOk, File!Written, File!TrimTornTail, File!SyncedAfter
<1>5. \A i \in 1..jsynced : i \in DOMAIN jlines' /\ jlines'[i] = jlines[i]
  BY <1>1, <1>2, <1>3
<1>6. jsynced <= jsynced'
  <2>1. jsynced' = jsynced \/ jsynced' = Len(jlines')
    BY <1>4 DEF File!AppendErr
  <2> QED
    BY <1>1, <1>2, <1>3, <2>1
<1> QED
  BY <1>3, <1>4, <1>5, <1>6

\* An event of a transaction without an outcome keeps every outcome single, and
\* nothing the audit log relies on is lost.
LEMMA AppendOInv ==
  ASSUME IInv, OInv, NEW e \in Event, File!AppendOk(e) \/ File!AppendErr(e),
         e.type = "state" => /\ e.state \in Durable!Outcomes
                             /\ ~HasState(jlines, e.tx, EventStates),
         UNCHANGED <<alines, mutated>>, issued \subseteq issued'
  PROVE  /\ OneOutcome' /\ AuditLog'
         /\ \A id : Committed(id) => Committed(id)'
<1>1. /\ jsynced <= jsynced' /\ jsynced' \in 0..Len(jlines')
      /\ \A i \in 1..jsynced : i \in DOMAIN jlines' /\ jlines'[i] = jlines[i]
      /\ jlines' = jlines \/ jlines' = Append(jlines, e)
  BY AppendKeepsDurable DEF IInv, TypeOK
<1>2. jlines \in Seq(Event) /\ jsynced \in Nat
  BY LenProperties DEF IInv, TypeOK, JournalTypeOK
<1>3. \A id : Committed(id) => Committed(id)'
  BY <1>1, <1>2, LenProperties DEF Committed
<1>4. OneOutcome'
  <2>1. CASE jlines' = jlines
    BY <2>1 DEF OInv, OneOutcome
  <2>2. CASE jlines' = Append(jlines, e)
    <3>1. /\ DOMAIN jlines' = DOMAIN jlines \cup {Len(jlines) + 1}
          /\ \A i \in DOMAIN jlines : jlines'[i] = jlines[i]
          /\ jlines'[Len(jlines) + 1] = e
      BY <1>2, <2>2, AppendProperties, LenProperties
    <3>2. \A i \in DOMAIN jlines : jlines[i].type = "state" => jlines[i].state \in EventStates
      BY DEF OInv, OneOutcome, Durable!Outcomes, EventStates, Closing
    <3>3. e.type = "state" =>
            \A i \in DOMAIN jlines : jlines[i].type = "state" => jlines[i].tx # e.tx
      BY <3>2 DEF HasState
    <3> QED
      BY <3>1, <3>3 DEF OInv, OneOutcome
  <2> QED
    BY <1>1, <2>1, <2>2
<1>5. AuditLog'
  BY <1>3 DEF OInv, AuditLog
<1> QED
  BY <1>3, <1>4, <1>5

LEMMA BeginOInv ==
  ASSUME IInv, OInv, NEW p \in Procs, Begin(p) \/ BeginErr(p)
  PROVE  OInv'
<1> USE DEF Goto, Open, Ran, Commanding, WithTx, Locked, InCall, Writing, Interrupting
<1>1. pc \in [Procs -> PCs] /\ tx \in [Procs -> TxIds \cup {NoTx}]
  BY DEF IInv, TypeOK, ProcTypeOK
<1>2. pc[p] = "begin" /\ \A q \in Procs \ {p} : pc'[q] = pc[q]
  BY <1>1 DEF Begin, BeginErr
<1>3. UNCHANGED <<alines, mutated>>
  BY DEF Begin, BeginErr, auditVars
<1> DEFINE e(id) == NewEvent(p, "begin", id, "in_progress")
<1>4. ASSUME NEW id \in TxIds
      PROVE  e(id) \in Event /\ e(id).type = "begin" /\ e(id).tx = id
  <2>1. e(id) \in Event
    BY NewEventType DEF IInv, TypeOK, EventTypes
  <2> QED
    BY <2>1 DEF NewEvent
<1> HIDE DEF e
<1>5. CASE Begin(p)
  <2>1. PICK id \in TxIds : BeginOk(p, id) /\ tx' = [tx EXCEPT ![p] = id]
    BY <1>5 DEF Begin
  <2>2. File!AppendOk(e(id)) /\ id \notin issued /\ issued' = issued \cup {id}
    BY <2>1 DEF BeginOk, e
  <2>3. pc'[p] = "record" /\ tx'[p] = id
    BY <1>1, <1>5, <2>1 DEF Begin
  <2>4. OneOutcome' /\ AuditLog'
    BY <1>3, <1>4, <2>2, AppendOInv
  <2>5. jlines \in Seq(Event) /\ jlines' = Append(jlines, e(id))
    BY <1>4, <2>2, AppendKeepsDurable DEF IInv, TypeOK, JournalTypeOK
  <2>6. ~HasState(jlines, id, EventStates)
    BY <2>2 DEF HasState, IInv, IssuedInv
  <2>7. InProgress(jlines', id)
    BY <1>4, <2>5, <2>6, AppendSays DEF InProgress
  <2>8. \A i \in DOMAIN alines' : alines'[i].tx # id
    BY <1>3, <2>2 DEF OInv, AuditLog
  <2> QED
    BY <1>2, <2>2, <2>3, <2>4, <2>7, <2>8, LockedStep
<1>6. CASE BeginErr(p)
  <2>1. pc'[p] = "release"
    BY <1>1, <1>6 DEF BeginErr
  <2>2. OneOutcome' /\ AuditLog'
    <3>1. CASE BeginRefused(p)
      BY <1>3, <3>1, QuietFacts DEF BeginRefused, journalVars
    <3>2. ASSUME NEW id \in TxIds, BeginIOError(p, id)
          PROVE  OneOutcome' /\ AuditLog'
      BY <1>3, <1>4, <3>2, AppendOInv DEF BeginIOError, e
    <3> QED
      BY <1>6, <3>1, <3>2 DEF BeginErr
  <2> QED
    BY <1>2, <2>1, <2>2, LockedStep
<1> QED
  BY <1>5, <1>6
\* What a write of the journal finds: the transaction in hand has no outcome yet.
LEMMA WritingFinds ==
  ASSUME IInv, OInv, NEW p \in Procs, pc[p] \in Writing, loaded[p], RequirePending(snap[p], tx[p])
  PROVE  /\ ~HasState(jlines, tx[p], EventStates) /\ Begun(jlines, tx[p])
         /\ NewEvent(p, EventType(pc[p]), tx[p], EventState(pc[p])) \in Event
<1>1. snap[p] = jlines
  BY DEF IInv, CallInv
<1>2. pc[p] # "fail" => InProgress(jlines, tx[p])
  BY DEF OInv, OpenInv, Open, Writing, Interrupting
<1>3. pc[p] = "fail" /\ HasState(jlines, tx[p], EventStates) => HasState(jlines, tx[p], Closing)
  BY DEF OInv, OpenInv
<1>4. tx[p] \in TxIds
  BY DEF IInv, TxInv, WithTx, Locked, InCall, Writing, Interrupting
<1>5. EventType(pc[p]) \in EventTypes /\ EventState(pc[p]) \in EventStates \cup {"in_progress", "none"}
  BY DEF EventType, EventState, EventTypes, EventStates, Closing, Writing, Interrupting
<1>6. NewEvent(p, EventType(pc[p]), tx[p], EventState(pc[p])) \in Event
  BY <1>4, <1>5, NewEventType DEF IInv, TypeOK
<1> QED
  BY <1>1, <1>2, <1>3, <1>6 DEF RequirePending, InProgress

LEMMA WriteOInv ==
  ASSUME IInv, OInv, NEW p \in Procs, ReadJournal(p) \/ Write(p) \/ WriteErr(p)
  PROVE  OInv'
<1> USE DEF Goto, Open, Ran, Commanding, WithTx, Locked, InCall, Writing, Interrupting
<1>1. pc \in [Procs -> PCs] /\ jlines \in Seq(Event)
  BY DEF IInv, TypeOK, ProcTypeOK, JournalTypeOK
<1> DEFINE e == NewEvent(p, EventType(pc[p]), tx[p], EventState(pc[p]))
<1>2. /\ e.type = EventType(pc[p]) /\ e.state = EventState(pc[p]) /\ e.tx = tx[p]
      /\ pc[p] \in Writing /\ e.type = "state" => e.state \in Durable!Outcomes
      /\ pc[p] \in Writing => e.type = IF pc[p] = "record" THEN "step" ELSE "state"
      /\ pc[p] = "commit" => e.state = "completed"
  BY DEF NewEvent, EventType, EventState, Durable!Outcomes
<1> HIDE DEF e
<1>3. pc[p] \in Writing =>
        /\ tx[p] \in issued
        /\ pc[p] # "interrupt" => \A i \in DOMAIN alines : alines[i].tx # tx[p]
        /\ pc[p] = "interrupt" =>
             \A i \in DOMAIN alines : alines[i].tx = tx[p] => alines[i].result # "ok"
  BY DEF OInv, AuditInv, Audited, AuditedAs
<1>4. CASE ReadJournal(p)
  <2>1. UNCHANGED <<jlines, jsynced, alines, issued, mutated, pc, tx, todo>>
    BY <1>4 DEF ReadJournal, ReadEvents, auditVars, localVars
  <2> QED
    BY <2>1 DEF OInv, OneOutcome, OpenInv, RecoveryInv, AuditLog, AuditInv, Committed,
                Audited, AuditedAs
<1>5. CASE Write(p)
  <2>1. /\ pc[p] \in Writing /\ loaded[p] /\ RequirePending(snap[p], tx[p])
        /\ File!AppendOk(e)
        /\ UNCHANGED <<alines, issued, mutated, tx, todo>>
        /\ pc'[p] = AfterOk(pc[p]) /\ \A q \in Procs \ {p} : pc'[q] = pc[q]
    BY <1>1, <1>5 DEF Write, WriteOk, auditVars, e
  <2>2. ~HasState(jlines, tx[p], EventStates) /\ Begun(jlines, tx[p]) /\ e \in Event
    BY <2>1, WritingFinds DEF e
  <2>3. OneOutcome' /\ AuditLog'
    BY <1>2, <2>1, <2>2, AppendOInv
  <2>4. jlines' = Append(jlines, e) /\ jsynced' = Len(jlines')
    BY <2>1, <2>2, AppendKeepsDurable DEF IInv, TypeOK
  <2>5. CASE pc[p] = "record"
    <3>1. InProgress(jlines', tx[p]) /\ Stepped(jlines', tx[p])
      BY <1>1, <1>2, <2>2, <2>4, <2>5, AppendSays, AppendStepped DEF InProgress
    <3> QED
      BY <1>3, <2>1, <2>3, <2>4, <2>5, <3>1, LockedStep DEF AfterOk
  <2>6. CASE pc[p] = "commit"
    <3>1. Committed(tx[p])'
      <4>1. /\ Len(jlines') = Len(jlines) + 1 /\ Len(jlines) \in Nat
            /\ jlines'[Len(jlines')] = e
        BY <1>1, <2>2, <2>4, AppendProperties, LenProperties
      <4>2. e.type = "state" /\ e.state = "completed" /\ e.tx = tx[p]
        BY <1>2, <2>6
      <4> QED
        BY <2>1, <2>4, <4>1, <4>2 DEF Committed
    <3>2. tx[p] \in mutated
      BY <2>6 DEF OInv, OpenInv
    <3> QED
      BY <1>3, <2>1, <2>3, <2>6, <3>1, <3>2, LockedStep DEF AfterOk
  <2>7. CASE pc[p] \in {"fail", "cancel"}
    BY <1>3, <2>1, <2>3, <2>7, LockedStep DEF AfterOk
  <2>8. CASE pc[p] = "interrupt"
    <3>1. /\ \A id \in todo[p] : InProgress(jlines, id)
          /\ tx[p] \notin todo[p]
          /\ \A id \in TxIds : InProgress(jlines, id) => id \in todo[p] \/ id = tx[p]
      BY <2>8 DEF OInv, RecoveryInv
    <3>2. e.type = "state" /\ e.state \in EventStates
      BY <1>2, <2>8 DEF EventState, EventStates, Closing
    <3>3. \A id : InProgress(jlines', id) <=> InProgress(jlines, id) /\ id # tx[p]
      BY <1>1, <1>2, <2>2, <2>4, <3>2, AppendSays DEF InProgress
    <3> QED
      BY <1>3, <2>1, <2>3, <2>8, <3>1, <3>3, LockedStep DEF AfterOk
  <2> QED
    BY <2>1, <2>5, <2>6, <2>7, <2>8
<1>6. CASE WriteErr(p)
  <2>1. /\ pc[p] \in Writing /\ UNCHANGED <<alines, issued, mutated, tx, todo>>
        /\ pc'[p] = AfterErr(pc[p]) /\ \A q \in Procs \ {p} : pc'[q] = pc[q]
    BY <1>1, <1>6 DEF WriteErr, WriteIOError, Refused, auditVars
  <2>2. /\ OneOutcome' /\ AuditLog'
        /\ pc[p] \in {"record", "commit"} /\ HasState(jlines', tx[p], EventStates)
             => HasState(jlines', tx[p], Closing)
    <3>1. CASE Refused(p, tx[p])
      <4>1. UNCHANGED <<jlines, jsynced>>
        BY <3>1 DEF Refused
      <4>2. pc[p] \in {"record", "commit"} => ~HasState(jlines, tx[p], EventStates)
        BY DEF OInv, OpenInv, InProgress
      <4> QED
        BY <2>1, <4>1, <4>2, QuietFacts
    <3>2. CASE WriteIOError(p, EventType(pc[p]), tx[p], EventState(pc[p]))
      <4>1. loaded[p] /\ RequirePending(snap[p], tx[p]) /\ File!AppendErr(e)
        BY <3>2 DEF WriteIOError, e
      <4>2. ~HasState(jlines, tx[p], EventStates) /\ e \in Event
        BY <2>1, <4>1, WritingFinds DEF e
      <4>3. OneOutcome' /\ AuditLog'
        BY <1>2, <2>1, <4>1, <4>2, AppendOInv
      <4>4. jlines' = jlines \/ jlines' = Append(jlines, e)
        BY <4>1, <4>2, AppendKeepsDurable DEF IInv, TypeOK
      <4>5. \A S : HasState(Append(jlines, e), tx[p], S)
                     <=> HasState(jlines, tx[p], S) \/ (e.type = "state" /\ e.state \in S)
        BY <1>1, <1>2, <4>2, AppendSays
      <4>6. pc[p] = "record" => ~HasState(jlines', tx[p], EventStates)
        BY <1>2, <2>1, <4>2, <4>4, <4>5
      <4>7. pc[p] = "commit" /\ HasState(jlines', tx[p], EventStates)
              => HasState(jlines', tx[p], Closing)
        <5>1. "completed" \in Closing
          BY DEF Closing
        <5> QED
          BY <1>2, <2>1, <4>2, <4>4, <4>5, <5>1
      <4> QED
        BY <4>3, <4>6, <4>7
    <3> QED
      BY <1>6, <3>1, <3>2 DEF WriteErr
  <2>3. CASE pc[p] \in {"record", "commit"}
    BY <1>3, <2>1, <2>2, <2>3, LockedStep DEF AfterErr
  <2>4. CASE pc[p] \in {"fail", "cancel"}
    BY <1>3, <2>1, <2>2, <2>4, LockedStep DEF AfterErr
  <2>5. CASE pc[p] = "interrupt"
    BY <1>3, <2>1, <2>2, <2>5, LockedStep DEF AfterErr
  <2> QED
    BY <2>1, <2>3, <2>4, <2>5
<1> QED
  BY <1>4, <1>5, <1>6
-----------------------------------------------------------------------------
(* Audit records, crashes and power losses.                                *)

\* An append to the audit log, like one to the journal.
LEMMA AuditKeepsDurable ==
  ASSUME AuditTypeOK, NEW entry \in AuditEntry, Audit!AppendOk(entry) \/ Audit!AppendErr(entry)
  PROVE  /\ asynced <= asynced' /\ asynced' \in 0..Len(alines')
         /\ \A i \in 1..asynced : i \in DOMAIN alines' /\ alines'[i] = alines[i]
         /\ alines' = alines \/ alines' = Append(alines, entry)
<1>1. alines \in Seq(AuditEntry) /\ Len(alines) \in Nat /\ DOMAIN alines = 1..Len(alines)
      /\ asynced \in 0..Len(alines)
  BY LenProperties DEF AuditTypeOK
<1>2. /\ Append(alines, entry) \in Seq(AuditEntry)
      /\ Len(Append(alines, entry)) = Len(alines) + 1
      /\ DOMAIN Append(alines, entry) = 1..(Len(alines) + 1)
      /\ \A i \in 1..Len(alines) : Append(alines, entry)[i] = alines[i]
  BY <1>1, AppendProperties
<1>3. alines' = alines \/ alines' = Append(alines, entry)
  BY DEF Audit!AppendOk, Audit!AppendErr, Audit!Written, Audit!TrimTornTail
<1>4. asynced' = asynced \/ asynced' = Len(alines')
  BY <1>2 DEF Audit!AppendOk, Audit!AppendErr, Audit!Written, Audit!TrimTornTail,
              Audit!SyncedAfter
<1>5. DOMAIN alines' = 1..Len(alines') /\ Len(alines') \in Nat /\ Len(alines') >= Len(alines)
  BY <1>1, <1>2, <1>3
<1>6. asynced <= asynced' /\ asynced' \in 0..Len(alines')
  BY <1>1, <1>4, <1>5
<1>7. \A i \in 1..asynced : i \in DOMAIN alines' /\ alines'[i] = alines[i]
  BY <1>1, <1>2, <1>3
<1> QED
  BY <1>3, <1>6, <1>7

LEMMA AuditOInv ==
  ASSUME IInv, OInv, NEW p \in Procs, AppendAudit(p) \/ Prepare(p)
  PROVE  OInv'
<1> USE DEF Goto, Open, Ran, Commanding, WithTx, Locked, InCall, Writing, Interrupting
<1>1. pc \in [Procs -> PCs]
  BY DEF IInv, TypeOK, ProcTypeOK
<1>2. \A q \in Procs \ {p} : pc'[q] = pc[q]
  BY <1>1 DEF AppendAudit, Prepare
<1>3. UNCHANGED <<jlines, jsynced, issued, mutated, tx, todo>>
  BY DEF AppendAudit, Prepare, journalVars
<1>4. CASE Prepare(p)
  <2>1. pc[p] = "prepare" /\ pc'[p] \in {"begin", "release"} /\ UNCHANGED alines
    BY <1>1, <1>4 DEF Prepare, Audit!Flush, auditVars
  <2>2. OneOutcome' /\ AuditLog'
    BY <1>3, <2>1, QuietFacts
  <2> QED
    BY <1>2, <2>1, <2>2, LockedStep
<1>5. CASE AppendAudit(p)
  <2> DEFINE entry == Entry(p, AuditResult(pc[p]))
  <2>1. /\ pc[p] \in {"audit_ok", "audit_failed", "recovery_audit"}
        /\ Audit!AppendOk(entry) \/ Audit!AppendErr(entry)
        /\ pc'[p] \in {AfterAudit(pc[p]), "release"}
    BY <1>1, <1>5 DEF AppendAudit
  <2>2. /\ entry \in AuditEntry /\ entry.tx = tx[p] /\ entry.ok
        /\ entry.result = IF pc[p] = "audit_ok" THEN "ok" ELSE "failed"
    BY <2>1 DEF Entry, AuditResult, AuditEntry, IInv, TxInv
  <2> HIDE DEF entry
  <2>3. alines' = alines \/ alines' = Append(alines, entry)
    BY <2>1, <2>2, AuditKeepsDurable DEF IInv, TypeOK
  <2>4. /\ tx[p] \in issued
        /\ pc[p] = "audit_ok" => /\ Committed(tx[p]) /\ tx[p] \in mutated
                                 /\ \A i \in DOMAIN alines : alines[i].tx # tx[p]
        /\ pc[p] # "audit_ok" =>
             \A i \in DOMAIN alines : alines[i].tx = tx[p] => alines[i].result # "ok"
    BY <2>1 DEF OInv, OpenInv, AuditInv, Audited, AuditedAs
  <2>5. OneOutcome'
    BY <1>3 DEF OInv, OneOutcome
  <2>6. \A id : Committed(id)' <=> Committed(id)
    BY <1>3 DEF Committed
  <2>7. AuditLog'
    <3>1. CASE alines' = alines
      BY <1>3, <2>6, <3>1 DEF OInv, AuditLog
    <3>2. CASE alines' = Append(alines, entry)
      <4>1. alines \in Seq(AuditEntry)
        BY DEF IInv, TypeOK, AuditTypeOK
      <4>2. /\ DOMAIN alines' = DOMAIN alines \cup {Len(alines) + 1}
            /\ \A i \in DOMAIN alines : alines'[i] = alines[i]
            /\ alines'[Len(alines) + 1] = entry
        BY <2>2, <3>2, <4>1, AppendProperties, LenProperties
      <4>3. \A i \in DOMAIN alines' : alines'[i].ok /\ alines'[i].tx \in issued'
        BY <1>3, <2>2, <2>4, <4>2 DEF OInv, AuditLog
      <4>4. ASSUME NEW i \in DOMAIN alines', alines'[i].result = "ok"
            PROVE  /\ Committed(alines'[i].tx) /\ alines'[i].tx \in mutated'
                   /\ \A j \in DOMAIN alines' :
                        alines'[j].tx = alines'[i].tx => alines'[j].result = "ok"
        <5>1. CASE i \in DOMAIN alines
          BY <1>3, <2>2, <2>4, <4>2, <4>4, <5>1 DEF OInv, AuditLog
        <5>2. CASE i = Len(alines) + 1
          BY <1>3, <2>2, <2>4, <4>2, <4>4, <5>2
        <5> QED
          BY <4>2, <4>4, <5>1, <5>2
      <4> QED
        BY <2>6, <4>3, <4>4 DEF AuditLog
    <3> QED
      BY <2>3, <3>1, <3>2
  <2>8. CASE pc'[p] = "release"
    BY <1>2, <2>1, <2>5, <2>7, <2>8, LockedStep
  <2>9. CASE pc'[p] = "recovered"
    <3>1. pc[p] = "recovery_audit"
      BY <2>1, <2>9 DEF AfterAudit
    <3>2. /\ \A id \in todo[p] : InProgress(jlines, id)
          /\ \A id \in TxIds : InProgress(jlines, id) => id \in todo[p]
      BY <3>1 DEF OInv, RecoveryInv
    <3> QED
      BY <1>2, <1>3, <2>5, <2>7, <2>9, <3>1, <3>2, LockedStep
  <2> QED
    BY <2>1, <2>8, <2>9 DEF AfterAudit
<1> QED
  BY <1>4, <1>5

LEMMA CrashOInv ==
  ASSUME IInv, OInv, NEW p \in Procs, Crash(p)
  PROVE  OInv'
<1>1. UNCHANGED <<jlines, jsynced, alines, issued, mutated>>
  BY DEF Crash, auditVars
<1>2. /\ \A q \in Procs \ {p} : pc'[q] = pc[q] /\ tx'[q] = tx[q] /\ todo'[q] = todo[q]
      /\ pc'[p] = "off"
  BY DEF Crash, Vanish
<1>3. "off" \notin Locked
  BY DEF Locked, InCall, Writing, Interrupting
<1> QED
  BY <1>1, <1>2, <1>3, OutsideStep

\* What a power loss keeps of a file.
LEMMA PowerLossKeeps ==
  ASSUME IInv, PowerLoss
  PROVE  /\ jsynced <= jsynced' /\ jsynced' = Len(jlines') /\ DOMAIN jlines' \subseteq DOMAIN jlines
         /\ \A i \in DOMAIN jlines' : jlines'[i] = jlines[i]
         /\ asynced <= asynced' /\ asynced' = Len(alines') /\ DOMAIN alines' \subseteq DOMAIN alines
         /\ \A i \in DOMAIN alines' : alines'[i] = alines[i]
         /\ jsynced' \in Nat /\ DOMAIN jlines' = 1..jsynced'
         /\ asynced' \in Nat /\ DOMAIN alines' = 1..asynced'
<1>1. PICK n \in jsynced..Len(jlines) : jlines' = SubSeq(jlines, 1, n) /\ jsynced' = n
  BY DEF PowerLoss, File!LoseUnsynced
<1>2. PICK m \in asynced..Len(alines) : alines' = SubSeq(alines, 1, m) /\ asynced' = m
  BY DEF PowerLoss, Audit!LoseUnsynced
<1>3. /\ jlines \in Seq(Event) /\ Len(jlines) \in Nat /\ DOMAIN jlines = 1..Len(jlines)
      /\ jsynced \in 0..Len(jlines)
      /\ alines \in Seq(AuditEntry) /\ Len(alines) \in Nat /\ DOMAIN alines = 1..Len(alines)
      /\ asynced \in 0..Len(alines)
  BY LenProperties DEF IInv, TypeOK, JournalTypeOK, AuditTypeOK
<1>4. /\ DOMAIN jlines' = 1..n /\ Len(jlines') = n
      /\ \A i \in 1..n : jlines'[i] = jlines[i]
  <2>1. \A i \in 1..n : jlines[i] \in Event
    BY <1>3, ElementOfSeq
  <2> QED
    BY <1>1, <1>3, <2>1, SubSeqProperties
<1>5. /\ DOMAIN alines' = 1..m /\ Len(alines') = m
      /\ \A i \in 1..m : alines'[i] = alines[i]
  <2>1. \A i \in 1..m : alines[i] \in AuditEntry
    BY <1>3, ElementOfSeq
  <2> QED
    BY <1>2, <1>3, <2>1, SubSeqProperties
<1> QED
  BY <1>1, <1>2, <1>3, <1>4, <1>5

LEMMA PowerLossOInv ==
  ASSUME IInv, OInv, PowerLoss
  PROVE  OInv'
<1>1. \A p \in Procs : pc'[p] = "off"
  BY DEF PowerLoss, Vanish
<1>2. OpenInv' /\ RecoveryInv' /\ AuditInv'
  BY <1>1 DEF OpenInv, RecoveryInv, AuditInv, Open, Ran, Commanding, WithTx, Locked, InCall,
              Writing, Interrupting
<1>3. OneOutcome'
  BY PowerLossKeeps DEF OInv, OneOutcome
<1>4. \A id : Committed(id) => Committed(id)'
  <2>1. jsynced \in Nat
    BY LenProperties DEF IInv, TypeOK, JournalTypeOK
  <2> QED
    BY <2>1, PowerLossKeeps DEF Committed
<1>5. AuditLog'
  BY <1>4, PowerLossKeeps DEF OInv, AuditLog, PowerLoss
<1> QED
  BY <1>2, <1>3, <1>5 DEF OInv

LEMMA NextOInv == IInv /\ OInv /\ [Next]_vars => OInv'
<1> SUFFICES ASSUME IInv, OInv, [Next]_vars
             PROVE  OInv'
  OBVIOUS
<1>1. ASSUME NEW p \in Procs, Start(p) \/ Execute(p) \/ Exit(p) \/ Step(p) \/ Crash(p)
      PROVE  OInv'
  BY <1>1, RecoverOInv, CommandOInv, BeginOInv, WriteOInv, AuditOInv, CrashOInv
     DEF Step, Recover, Command, Persist
<1>2. CASE PowerLoss
  BY <1>2, PowerLossOInv
<1>3. CASE UNCHANGED vars
  BY <1>3 DEF vars, journalVars, auditVars, localVars, OInv, OneOutcome, OpenInv, RecoveryInv,
              AuditLog, AuditInv, Committed, Audited, AuditedAs
<1> QED
  BY <1>1, <1>2, <1>3 DEF Next
-----------------------------------------------------------------------------
\* OInv is an invariant of governed execution, on top of IInv.
THEOREM OutcomeInvariance == Spec => [](IInv /\ OInv)
<1>1. GovInit => IInv /\ OInv
  BY InitIInv, InitOInv
<1>2. IInv /\ OInv /\ [Next]_vars => (IInv /\ OInv)'
  BY NextIInv, NextOInv
<1> QED
  BY <1>1, <1>2, PTL DEF Spec

\* The durable prefix of the journal, as a sequence.
LEMMA DurablePrefix ==
  ASSUME IInv
  PROVE  /\ SubSeq(jlines, 1, jsynced) \in Seq(Event)
         /\ DOMAIN SubSeq(jlines, 1, jsynced) = 1..jsynced
         /\ Len(SubSeq(jlines, 1, jsynced)) = jsynced /\ jsynced \in Nat
         /\ 1..jsynced \subseteq DOMAIN jlines
         /\ \A i \in 1..jsynced : SubSeq(jlines, 1, jsynced)[i] = jlines[i]
         /\ Foldable(SubSeq(jlines, 1, jsynced))
<1>1. jlines \in Seq(Event) /\ jsynced \in 0..Len(jlines) /\ Readable(jlines) /\ Foldable(jlines)
  BY DEF IInv, TypeOK, JournalTypeOK, JournalNeverCorrupt
<1>2. /\ SubSeq(jlines, 1, jsynced) \in Seq(Event)
      /\ Len(SubSeq(jlines, 1, jsynced)) = jsynced
      /\ \A i \in 1..jsynced : SubSeq(jlines, 1, jsynced)[i] = jlines[i]
      /\ Foldable(SubSeq(jlines, 1, jsynced))
  BY <1>1, PrefixAccepted
<1>3. Len(jlines) \in Nat /\ DOMAIN jlines = 1..Len(jlines)
      /\ DOMAIN SubSeq(jlines, 1, jsynced) = 1..Len(SubSeq(jlines, 1, jsynced))
  BY <1>1, <1>2, LenProperties
<1> QED
  BY <1>1, <1>2, <1>3

\* A command runs only while its transaction is durably begun and dispatched, and
\* nobody's recovery has interrupted it (governance.go:163-186).
THEOREM DispatchStaysJournaled == Spec => []DispatchIsJournaled
<1>1. ASSUME IInv, OInv PROVE DispatchIsJournaled
  <2> SUFFICES ASSUME NEW p \in Procs, pc[p] = "execute"
               PROVE  LET durable == SubSeq(jlines, 1, jsynced) IN
                        /\ InProgress(durable, tx[p])
                        /\ \E i \in DOMAIN durable :
                             durable[i].type = "step" /\ durable[i].tx = tx[p]
                        /\ InProgress(jlines, tx[p])
    BY DEF DispatchIsJournaled
  <2>1. InProgress(jlines, tx[p]) /\ jsynced = Len(jlines) /\ Stepped(jlines, tx[p])
    BY <1>1 DEF OInv, OpenInv, Open
  <2>2. SubSeq(jlines, 1, jsynced) = jlines
    <3>1. jlines \in Seq(Event)
      BY <1>1 DEF IInv, TypeOK, JournalTypeOK
    <3> QED
      BY <1>1, <2>1, <3>1, DurablePrefix, LenProperties, SeqEqual
  <2> QED
    BY <2>1, <2>2 DEF Stepped
<1> QED
  BY <1>1, OutcomeInvariance, PTL

\* A success that the audit log reports was dispatched, is durably completed, and
\* is audited as nothing else (governance.go:189-203).
THEOREM AuditedSuccessStaysCommitted == Spec => []AuditedSuccessIsCommitted
<1>1. ASSUME IInv, OInv PROVE AuditedSuccessIsCommitted
  <2>1. Audit!Parses
    BY <1>1 DEF OInv, AuditLog, Audit!Parses
  <2>2. ASSUME NEW id \in TxIds, AuditedAs(id, "ok")
        PROVE  /\ HasState(SubSeq(jlines, 1, jsynced), id, {"completed"})
               /\ id \in mutated
               /\ ~AuditedAs(id, "failed")
    <3>1. Committed(id) /\ id \in mutated /\ ~AuditedAs(id, "failed")
      BY <1>1, <2>2 DEF OInv, AuditLog, AuditedAs
    <3> QED
      BY <1>1, <3>1, DurablePrefix DEF Committed, HasState
  <2> QED
    BY <2>1, <2>2 DEF AuditedSuccessIsCommitted
<1> QED
  BY <1>1, OutcomeInvariance, PTL

\* A recovery that ends without an error leaves no transaction in_progress
\* (governance.go:122-140).
THEOREM RecoveryClosesEverything == Spec => RecoveryLeavesNoneInProgress
<1>1. ASSUME OInv, [Next]_vars
      PROVE  [\A p \in Procs : RecoveryDone(p) => \A id \in TxIds : ~InProgress(jlines, id)]_vars
  BY <1>1 DEF RecoveryDone, OInv, RecoveryInv
<1> QED
  BY <1>1, OutcomeInvariance, PTL DEF Spec, RecoveryLeavesNoneInProgress
-----------------------------------------------------------------------------
(* Refinement of the history of operations.                                *)

\* What OpHistory sees of a transaction.
Status(id) == LastState(SubSeq(jlines, 1, jsynced), id)

\* Its status says whether the durable events include a begin, and which outcome.
StatusMeaning ==
  \A id \in TxIds :
    /\ Status(id) \in {"unknown", "in_progress"} \cup Durable!Outcomes
    /\ Status(id) # "unknown" <=>
         \E i \in 1..jsynced : jlines[i].type = "begin" /\ jlines[i].tx = id
    /\ Status(id) = "in_progress" =>
         ~\E i \in 1..jsynced : jlines[i].type = "state" /\ jlines[i].tx = id
    /\ Status(id) \in Durable!Outcomes =>
         \E i \in 1..jsynced :
           jlines[i].type = "state" /\ jlines[i].tx = id /\ jlines[i].state = Status(id)

\* One state event per transaction: the last one is the only one.
LEMMA StatusIs == IInv /\ OInv => StatusMeaning
<1> SUFFICES ASSUME IInv, OInv, NEW id \in TxIds
             PROVE  /\ Status(id) \in {"unknown", "in_progress"} \cup Durable!Outcomes
                    /\ Status(id) # "unknown" <=>
                         \E i \in 1..jsynced : jlines[i].type = "begin" /\ jlines[i].tx = id
                    /\ Status(id) = "in_progress" =>
                         ~\E i \in 1..jsynced : jlines[i].type = "state" /\ jlines[i].tx = id
                    /\ Status(id) \in Durable!Outcomes =>
                         \E i \in 1..jsynced :
                           jlines[i].type = "state" /\ jlines[i].tx = id
                             /\ jlines[i].state = Status(id)
  BY DEF StatusMeaning
<1> DEFINE ev == SubSeq(jlines, 1, jsynced)
           IsState(i) == ev[i].type = "state" /\ ev[i].tx = id
<1>1. DOMAIN ev = 1..jsynced /\ Len(ev) = jsynced /\ jsynced \in Nat
      /\ 1..jsynced \subseteq DOMAIN jlines /\ \A i \in 1..jsynced : ev[i] = jlines[i]
  BY DurablePrefix
<1>2. /\ \A i \in DOMAIN ev : ev[i].type = "state" => ev[i].state \in Durable!Outcomes
      /\ \A i, j \in DOMAIN ev : IsState(i) /\ IsState(j) => i = j
  BY <1>1 DEF OInv, OneOutcome
<1>3. Durable!Outcomes \subseteq EventStates
      /\ "unknown" \notin Durable!Outcomes /\ "in_progress" \notin Durable!Outcomes
  BY DEF Durable!Outcomes, EventStates, Closing
<1> HIDE DEF ev
<1>4. CASE ~Begun(ev, id)
  BY <1>1, <1>3, <1>4 DEF Status, ev, LastState, Begun
<1>5. CASE InProgress(ev, id)
  <2>1. Status(id) = "in_progress"
    BY <1>5 DEF Status, ev, LastState, InProgress
  <2>2. ~\E i \in DOMAIN ev : IsState(i)
    BY <1>2, <1>3, <1>5 DEF InProgress, HasState
  <2> QED
    BY <1>1, <1>3, <1>5, <2>1, <2>2 DEF InProgress, Begun
<1>6. CASE Begun(ev, id) /\ ~InProgress(ev, id)
  <2>1. PICK i \in DOMAIN ev : IsState(i)
    BY <1>6 DEF InProgress, HasState
  <2> DEFINE Last(k) == /\ ev[k].type = "state" /\ ev[k].tx = id
                        /\ ~\E j \in (k+1)..Len(ev) : ev[j].type = "state" /\ ev[j].tx = id
  <2>2. Last(i)
    BY <1>1, <1>2, <2>1
  <2>3. (CHOOSE k \in DOMAIN ev : Last(k)) = i
    BY <1>2, <2>1, <2>2
  <2>4. Status(id) = ev[i].state
    BY <1>6, <2>3 DEF Status, ev, LastState
  <2>5. ev[i].state \in Durable!Outcomes
    BY <1>2, <2>1
  <2>6. jlines[i] = ev[i] /\ i \in 1..jsynced
    BY <1>1, <2>1
  <2> QED
    BY <1>1, <1>3, <1>6, <2>1, <2>4, <2>5, <2>6 DEF Begun
<1> QED
  BY <1>4, <1>5, <1>6
\* No step loses a durable event.
LEMMA JournalKept ==
  ASSUME IInv, [Next]_vars
  PROVE  jsynced <= jsynced' /\ \A i \in 1..jsynced : jlines'[i] = jlines[i]
<1> DEFINE Kept == jsynced <= jsynced' /\ \A i \in 1..jsynced : jlines'[i] = jlines[i]
<1>1. jsynced \in Nat /\ JournalTypeOK
  BY LenProperties DEF IInv, TypeOK, JournalTypeOK
<1>2. CASE UNCHANGED <<jlines, jsynced>>
  BY <1>1, <1>2
<1>3. CASE PowerLoss
  BY <1>1, <1>3, PowerLossKeeps
<1>4. ASSUME NEW p \in Procs, Write(p) \/ WriteErr(p)
      PROVE  UNCHANGED <<jlines, jsynced>> \/ Kept
  <2> DEFINE e == NewEvent(p, EventType(pc[p]), tx[p], EventState(pc[p]))
  <2>1. CASE Refused(p, tx[p])
    BY <2>1 DEF Refused
  <2>2. CASE /\ pc[p] \in Writing /\ loaded[p] /\ RequirePending(snap[p], tx[p])
             /\ File!AppendOk(e) \/ File!AppendErr(e)
    <3>1. tx[p] \in TxIds
      BY <2>2 DEF IInv, TxInv, WithTx, Locked, InCall, Writing, Interrupting
    <3>2. /\ EventType(pc[p]) \in EventTypes
          /\ EventState(pc[p]) \in EventStates \cup {"in_progress", "none"}
      BY <2>2 DEF EventType, EventState, EventTypes, EventStates, Closing, Writing, Interrupting
    <3>3. e \in Event
      BY <1>1, <3>1, <3>2, NewEventType
    <3> QED
      BY <1>1, <2>2, <3>3, AppendKeepsDurable
  <2> QED
    BY <1>4, <2>1, <2>2 DEF Write, WriteErr, WriteOk, WriteIOError
<1>5. ASSUME NEW p \in Procs, Begin(p) \/ BeginErr(p)
      PROVE  UNCHANGED <<jlines, jsynced>> \/ Kept
  <2>1. ASSUME NEW id \in TxIds, BeginOk(p, id) \/ BeginIOError(p, id)
        PROVE  Kept
    <3>1. NewEvent(p, "begin", id, "in_progress") \in Event
      BY <1>1, NewEventType DEF EventTypes
    <3> QED
      BY <1>1, <2>1, <3>1, AppendKeepsDurable DEF BeginOk, BeginIOError
  <2>2. CASE BeginRefused(p)
    BY <2>2 DEF BeginRefused, journalVars
  <2> QED
    BY <1>5, <2>1, <2>2 DEF Begin, BeginErr
<1>6. ASSUME NEW p \in Procs, Start(p) \/ Execute(p) \/ Exit(p) \/ Crash(p) \/ Recover(p)
                              \/ Acquire(p) \/ AcquireErr(p) \/ Prepare(p) \/ Dispatch(p)
                              \/ InnerDone(p) \/ ReadJournal(p) \/ AppendAudit(p)
                              \/ ReleaseLock(p)
      PROVE  UNCHANGED <<jlines, jsynced>>
  BY <1>6 DEF Start, Execute, Exit, Crash, Recover, RecoveryAcquire, SkipRecovery,
              RecoveryPending, PendingErr, RecoveryNext, RecoveryDone, Acquire, AcquireErr,
              Prepare, Dispatch, InnerDone, ReadJournal, ReadEvents, AppendAudit, ReleaseLock,
              journalVars
<1>7. ASSUME NEW p \in Procs, Start(p) \/ Execute(p) \/ Exit(p) \/ Step(p) \/ Crash(p)
      PROVE  UNCHANGED <<jlines, jsynced>> \/ Kept
  BY <1>4, <1>5, <1>6, <1>7 DEF Step, Command, Persist
<1>8. CASE UNCHANGED vars
  BY <1>2, <1>8 DEF vars, journalVars
<1> QED
  BY <1>2, <1>3, <1>7, <1>8 DEF Next

\* No step loses a durable audit line, and a line that becomes durable was there
\* before or is appended by a step that knows its transaction to be committed.
LEMMA AuditKept ==
  ASSUME IInv, OInv, [Next]_vars
  PROVE  /\ asynced <= asynced' /\ \A i \in 1..asynced : alines'[i] = alines[i]
         /\ \A i \in 1..asynced' : alines'[i].result = "ok" => Committed(alines'[i].tx)
<1>1. /\ asynced \in 0..Len(alines) /\ AuditTypeOK /\ Len(alines) \in Nat
      /\ alines \in Seq(AuditEntry) /\ DOMAIN alines = 1..Len(alines)
  BY LenProperties DEF IInv, TypeOK, AuditTypeOK
<1>2. \A i \in DOMAIN alines : alines[i].result = "ok" => Committed(alines[i].tx)
  BY DEF OInv, AuditLog
<1>3. CASE UNCHANGED alines /\ asynced' \in asynced..Len(alines)
  BY <1>1, <1>2, <1>3
<1>4. CASE PowerLoss
  BY <1>1, <1>2, <1>4, PowerLossKeeps
<1>5. ASSUME NEW p \in Procs, Prepare(p)
      PROVE  UNCHANGED alines /\ asynced' \in asynced..Len(alines)
  BY <1>1, <1>5 DEF Prepare, Audit!Flush, Audit!SyncedAfter, auditVars
<1>6. ASSUME NEW p \in Procs, AppendAudit(p)
      PROVE  /\ asynced <= asynced' /\ \A i \in 1..asynced : alines'[i] = alines[i]
             /\ \A i \in 1..asynced' : alines'[i].result = "ok" => Committed(alines'[i].tx)
  <2> DEFINE entry == Entry(p, AuditResult(pc[p]))
  <2>1. /\ pc[p] \in {"audit_ok", "audit_failed", "recovery_audit"}
        /\ Audit!AppendOk(entry) \/ Audit!AppendErr(entry)
    BY <1>6 DEF AppendAudit
  <2>2. /\ entry \in AuditEntry
        /\ entry.result = "ok" => Committed(entry.tx)
    <3>1. tx[p] \in TxIds
      BY <2>1 DEF IInv, TxInv, WithTx, Locked
    <3>2. pc[p] = "audit_ok" => Committed(tx[p])
      BY DEF OInv, OpenInv
    <3> QED
      BY <2>1, <3>1, <3>2 DEF Entry, AuditResult, AuditEntry
  <2> HIDE DEF entry
  <2>3. /\ asynced <= asynced' /\ asynced' \in 0..Len(alines')
        /\ \A i \in 1..asynced : alines'[i] = alines[i]
        /\ alines' = alines \/ alines' = Append(alines, entry)
    BY <1>1, <2>1, <2>2, AuditKeepsDurable
  <2>4. CASE alines' = alines
    BY <1>1, <1>2, <2>3, <2>4
  <2>5. CASE alines' = Append(alines, entry)
    <3>1. /\ Len(alines') = Len(alines) + 1
          /\ \A i \in DOMAIN alines : alines'[i] = alines[i]
          /\ alines'[Len(alines) + 1] = entry
      BY <1>1, <2>2, <2>5, AppendProperties
    <3>2. \A i \in 1..asynced' : i \in DOMAIN alines \/ i = Len(alines) + 1
      BY <1>1, <2>3, <3>1
    <3> QED
      BY <1>2, <2>2, <2>3, <3>1, <3>2
  <2> QED
    BY <2>3, <2>4, <2>5
<1>7. ASSUME NEW p \in Procs, Start(p) \/ Execute(p) \/ Exit(p) \/ Crash(p) \/ Recover(p)
                              \/ Acquire(p) \/ AcquireErr(p) \/ Begin(p) \/ BeginErr(p)
                              \/ Dispatch(p) \/ InnerDone(p) \/ ReadJournal(p) \/ Write(p)
                              \/ WriteErr(p) \/ ReleaseLock(p)
      PROVE  UNCHANGED alines /\ asynced' \in asynced..Len(alines)
  <2>1. UNCHANGED <<alines, asynced>>
    BY <1>7 DEF Start, Execute, Exit, Crash, Recover, RecoveryAcquire, SkipRecovery,
                RecoveryPending, PendingErr, RecoveryNext, RecoveryDone, Acquire, AcquireErr,
                Begin, BeginErr, Dispatch, InnerDone, ReadJournal, Write, WriteErr,
                ReleaseLock, auditVars
  <2> QED
    BY <1>1, <2>1
<1>8. CASE UNCHANGED vars
  BY <1>1, <1>3, <1>8 DEF vars, auditVars
<1> QED
  BY <1>3, <1>4, <1>5, <1>6, <1>7, <1>8 DEF Next, Step, Command, Persist

\* Every step of governed execution is a step of the history of operations.
LEMMA StepAdvances ==
  ASSUME IInv, OInv, StatusMeaning, IInv', OInv', StatusMeaning', [Next]_vars
  PROVE  Durable!Next
<1>1. /\ jsynced <= jsynced' /\ \A i \in 1..jsynced : jlines'[i] = jlines[i]
      /\ jsynced \in Nat /\ jsynced' \in Nat
  <2>1. jsynced <= jsynced' /\ \A i \in 1..jsynced : jlines'[i] = jlines[i]
    BY JournalKept
  <2>2. jlines \in Seq(Event) /\ jsynced \in 0..Len(jlines)
    BY DEF IInv, TypeOK, JournalTypeOK
  <2>3. jlines' \in Seq(Event) /\ jsynced' \in 0..Len(jlines')
    BY DEF IInv, TypeOK, JournalTypeOK
  <2>4. Len(jlines) \in Nat /\ Len(jlines') \in Nat
    BY <2>2, <2>3, LenProperties
  <2> QED
    BY <2>1, <2>2, <2>3, <2>4
<1>2. ASSUME NEW id \in TxIds
      PROVE  /\ Status(id)' \in {"unknown", "in_progress"} \cup Durable!Outcomes
             /\ \/ Status(id)' = Status(id)
                \/ Status(id) = "unknown"
                \/ Status(id) = "in_progress" /\ Status(id)' \in Durable!Outcomes
  <2>1. /\ Status(id)' \in {"unknown", "in_progress"} \cup Durable!Outcomes
        /\ Status(id)' # "unknown" <=>
             \E i \in 1..jsynced' : jlines'[i].type = "begin" /\ jlines'[i].tx = id
        /\ Status(id)' = "in_progress" =>
             ~\E i \in 1..jsynced' : jlines'[i].type = "state" /\ jlines'[i].tx = id
        /\ Status(id)' \in Durable!Outcomes =>
             \E i \in 1..jsynced' : /\ jlines'[i].type = "state" /\ jlines'[i].tx = id
                                    /\ jlines'[i].state = Status(id)'
    BY DEF StatusMeaning
  <2>2. 1..jsynced \subseteq 1..jsynced'
    BY <1>1
  <2>3. CASE Status(id) = "in_progress"
    <3>1. Status(id)' # "unknown"
      BY <1>1, <2>1, <2>2, <2>3 DEF StatusMeaning
    <3> QED
      BY <2>1, <2>3, <3>1
  <2>4. CASE Status(id) \in Durable!Outcomes
    <3>1. PICK i \in 1..jsynced :
            jlines[i].type = "state" /\ jlines[i].tx = id /\ jlines[i].state = Status(id)
      BY <2>4 DEF StatusMeaning
    <3>2. /\ i \in 1..jsynced' /\ jlines'[i].type = "state" /\ jlines'[i].tx = id
          /\ jlines'[i].state = Status(id)
      BY <1>1, <2>2, <3>1
    <3>3. Status(id)' # "in_progress"
      BY <2>1, <3>2
    <3>4. Status(id)' # "unknown"
      <4>1. Status(id) # "unknown"
        BY <2>4 DEF Durable!Outcomes
      <4> QED
        BY <1>1, <2>1, <2>2, <4>1 DEF StatusMeaning
    <3>5. PICK j \in 1..jsynced' : /\ jlines'[j].type = "state" /\ jlines'[j].tx = id
                                   /\ jlines'[j].state = Status(id)'
      BY <2>1, <3>3, <3>4
    <3>6. i = j
      <4>1. 1..jsynced' \subseteq DOMAIN jlines'
        <5>1. jsynced' \in 0..Len(jlines') /\ jlines' \in Seq(Event)
          BY DEF IInv, TypeOK, JournalTypeOK
        <5> QED
          BY <5>1, LenProperties
      <4> QED
        BY <3>2, <3>5, <4>1 DEF OInv, OneOutcome
    <3> QED
      BY <2>1, <3>2, <3>5, <3>6
  <2>5. Status(id) \in {"unknown", "in_progress"} \cup Durable!Outcomes
    BY DEF StatusMeaning
  <2> QED
    BY <2>1, <2>3, <2>4, <2>5
<1>3. Durable!Advance
  BY <1>2 DEF Durable!Advance, Status
<1>4. Durable!Report
  <2> DEFINE reported == {id \in TxIds :
                            \E i \in 1..asynced : alines[i].tx = id /\ alines[i].result = "ok"}
  <2>1. /\ asynced <= asynced' /\ \A i \in 1..asynced : alines'[i] = alines[i]
        /\ \A i \in 1..asynced' : alines'[i].result = "ok" => Committed(alines'[i].tx)
        /\ asynced \in Nat /\ asynced' \in Nat
    BY AuditKept, LenProperties DEF IInv, TypeOK, AuditTypeOK
  <2>2. reported' \in SUBSET TxIds /\ reported \subseteq reported'
    BY <2>1
  <2>3. ASSUME NEW id \in reported' \ reported
        PROVE  Status(id) = "completed"
    <3>1. id \in TxIds /\ Committed(id)
      BY <2>1
    <3>2. PICK i \in 1..jsynced :
            jlines[i].type = "state" /\ jlines[i].tx = id /\ jlines[i].state = "completed"
      BY <3>1 DEF Committed
    <3>3. /\ 1..jsynced \subseteq DOMAIN jlines
          /\ \E k \in 1..(i-1) : jlines[k].type = "begin" /\ jlines[k].tx = id
      BY <1>1, <3>2, DurablePrefix DEF Foldable, IInv, JournalNeverCorrupt
    <3>4. Status(id) # "unknown" /\ Status(id) # "in_progress"
      BY <1>1, <3>1, <3>2, <3>3 DEF StatusMeaning
    <3>5. PICK j \in 1..jsynced :
            jlines[j].type = "state" /\ jlines[j].tx = id /\ jlines[j].state = Status(id)
      BY <3>1, <3>4 DEF StatusMeaning
    <3>6. i = j
      BY <3>2, <3>3, <3>5 DEF OInv, OneOutcome
    <3> QED
      BY <3>2, <3>5, <3>6
  <2>4. \A id \in reported' \ reported : [x \in TxIds |-> Status(x)][id] = "completed"
    BY <2>2, <2>3
  <2> QED
    BY <2>2, <2>4 DEF Durable!Report, Status
<1> QED
  BY <1>3, <1>4 DEF Durable!Next

\* Governed execution implements the history of operations: a durable outcome is
\* final, and a durable success was completed before it was reported.
THEOREM GovernanceImplementsHistory == Spec => OutcomesAreFinal
<1>1. GovInit => Durable!Init
  <2> SUFFICES ASSUME GovInit PROVE Durable!Init
    OBVIOUS
  <2>1. jlines = <<>> /\ jsynced = 0 /\ asynced = 0
    BY DEF GovInit, JournalInit, File!FileInit, Audit!FileInit
  <2>2. DOMAIN SubSeq(jlines, 1, jsynced) = {}
    BY <2>1
  <2> QED
    BY <2>1, <2>2 DEF Durable!Init, LastState, Begun
<1>2. IInv /\ OInv /\ StatusMeaning /\ (IInv /\ OInv /\ StatusMeaning)' /\ [Next]_vars
        => Durable!Next
  BY StepAdvances
<1> QED
  BY <1>1, <1>2, StatusIs, OutcomeInvariance, PTL DEF Spec, OutcomesAreFinal, Durable!Spec
=============================================================================
