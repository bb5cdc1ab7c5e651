------------------------------- MODULE Journal -------------------------------
(***************************************************************************)
(* The durable operation journal, internal/journal/journal.go.  Every call *)
(* re-reads the whole file (ReadEvents), checks it, and appends one event  *)
(* computed from what it read; `loaded[p]`/`snap[p]` are the local         *)
(* variable `events` of the call process p is in.  Nothing in the journal  *)
(* itself excludes another process between the read and the append.        *)
(* Timestamps, step contents, metadata and redaction are left out.         *)
(***************************************************************************)
EXTENDS Integers, Sequences

CONSTANTS Procs,   \* pmux processes that share one state root
          TxIds    \* transaction IDs newTxID may draw; drawn at most once

VARIABLES jlines, jtorn, jsynced,  \* the file journal.jsonl
          loaded, snap,            \* per process: the call in progress has read, and what
          issued                   \* IDs drawn so far

File == INSTANCE AppendFile WITH lines <- jlines, torn <- jtorn, synced <- jsynced

journalVars == <<jlines, jtorn, jsynced, loaded, snap, issued>>

EventTypes == {"begin", "step", "state"}
Closing == {"completed", "rolled_back"}
EventStates == Closing \cup {"failed", "interrupted"}

Event == [seq: Nat, type: EventTypes, tx: TxIds,
          state: EventStates \cup {"in_progress", "none"}, ok: BOOLEAN]

JournalInit ==
  /\ File!FileInit
  /\ loaded = [p \in Procs |-> FALSE]
  /\ snap = [p \in Procs |-> <<>>]
  /\ issued = {}

JournalTypeOK ==
  /\ jlines \in Seq(Event) /\ jtorn \in BOOLEAN /\ jsynced \in 0..Len(jlines)
  /\ loaded \in [Procs -> BOOLEAN] /\ snap \in [Procs -> Seq(Event)]
  /\ issued \subseteq TxIds

-----------------------------------------------------------------------------
\* readEvents accepts the file: every terminated line parses and the sequence
\* numbers are 1, 2, 3, ...; an unterminated tail is ignored.
Readable(ev) == \A i \in DOMAIN ev : ev[i].ok /\ ev[i].seq = i

NextSequence(ev) == IF ev = <<>> THEN 1 ELSE ev[Len(ev)].seq + 1

Begun(ev, id) == \E i \in DOMAIN ev : ev[i].type = "begin" /\ ev[i].tx = id

HasState(ev, id, S) ==
  \E i \in DOMAIN ev : ev[i].type = "state" /\ ev[i].tx = id /\ ev[i].state \in S

\* fold accepts the events: each one is a begin exactly when it is the first of
\* its transaction, and none follows the transaction's closing state.
Foldable(ev) ==
  \A i \in DOMAIN ev :
    /\ ev[i].type \in EventTypes
    /\ ev[i].type = "begin" <=> ~\E k \in 1..(i-1) : ev[k].type = "begin" /\ ev[k].tx = ev[i].tx
    /\ ~\E k \in 1..(i-1) :
          ev[k].type = "state" /\ ev[k].tx = ev[i].tx /\ ev[k].state \in Closing
    /\ ev[i].type = "state" => ev[i].state \in EventStates

\* The folded transaction is still in_progress: begun, and no state event yet.
InProgress(ev, id) == Begun(ev, id) /\ ~HasState(ev, id, EventStates)

\* requirePending returned nil.
RequirePending(ev, id) == Foldable(ev) /\ Begun(ev, id) /\ ~HasState(ev, id, Closing)

-----------------------------------------------------------------------------
\* readEvents at the start of a call.
ReadEvents(p) ==
  /\ ~loaded[p]
  /\ Readable(jlines)
  /\ loaded' = [loaded EXCEPT ![p] = TRUE]
  /\ snap' = [snap EXCEPT ![p] = jlines]
  /\ UNCHANGED <<jlines, jtorn, jsynced, issued>>

NewEvent(p, type, id, state) ==
  [seq |-> NextSequence(snap[p]), type |-> type, tx |-> id, state |-> state, ok |-> TRUE]

EndCall(p) ==
  /\ loaded' = [loaded EXCEPT ![p] = FALSE]
  /\ snap' = [snap EXCEPT ![p] = <<>>]

\* Begin: draw a fresh ID and append its begin event.
BeginOk(p, id) ==
  /\ loaded[p] /\ id \notin issued
  /\ File!AppendOk(NewEvent(p, "begin", id, "in_progress"))
  /\ EndCall(p)
  /\ issued' = issued \cup {id}

BeginIOError(p, id) ==
  /\ loaded[p] /\ id \notin issued
  /\ File!AppendErr(NewEvent(p, "begin", id, "in_progress"))
  /\ EndCall(p)
  /\ issued' = issued \cup {id}

\* Record (type "step") and setState (type "state") on a pending transaction.
WriteOk(p, type, id, state) ==
  /\ loaded[p] /\ RequirePending(snap[p], id)
  /\ File!AppendOk(NewEvent(p, type, id, state))
  /\ EndCall(p)
  /\ UNCHANGED issued

WriteIOError(p, type, id, state) ==
  /\ loaded[p] /\ RequirePending(snap[p], id)
  /\ File!AppendErr(NewEvent(p, type, id, state))
  /\ EndCall(p)
  /\ UNCHANGED issued

\* A call that returns an error without touching the file: the journal is
\* corrupt, or the transaction is unknown or already closed.
Refused(p, id) ==
  /\ IF loaded[p] THEN ~RequirePending(snap[p], id) ELSE ~Readable(jlines)
  /\ EndCall(p)
  /\ UNCHANGED <<jlines, jtorn, jsynced, issued>>

\* Begin does not fold: only an unreadable file refuses it.
BeginRefused(p) ==
  /\ ~loaded[p] /\ ~Readable(jlines)
  /\ UNCHANGED journalVars

\* Pending: the in_progress transactions among those fold returns.  The failed
\* and interrupted ones are returned too; startup recovery skips them.
PendingInProgress(ev) == {id \in TxIds : InProgress(ev, id)}
=============================================================================
