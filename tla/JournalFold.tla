----------------------------- MODULE JournalFold -----------------------------
(***************************************************************************)
(* readEvents and fold of internal/journal/journal.go as they run: one     *)
(* pass over the lines that threads a sequence number, one pass over the   *)
(* events that threads a map of transactions, each stopping at the first   *)
(* defect.  Journal.tla states what the two accept and return as formulas  *)
(* over the whole file; this module shows that the formulas and the passes *)
(* agree on every file of at most MaxLines lines, whoever wrote it.        *)
(***************************************************************************)
EXTENDS Journal, SequencesExt

CONSTANT MaxLines

\* The lines a file may hold: the right or a wrong number, a known or unknown
\* type, a legal state or one fold rejects.
Line ==
  LET Numbered(types, states) ==
        [seq: {Len(jlines) + 1, Len(jlines) + 2}, type: types, tx: TxIds, state: states, ok: BOOLEAN]
  IN Numbered({"begin", "step", "unknown"}, {"none"})
       \cup Numbered({"state"}, EventStates \cup {"in_progress"})

-----------------------------------------------------------------------------
\* readEvents' loop body: `last` is lastSequence, `ok` FALSE once a line was rejected.
ReadLine(r, line) ==
  [ok |-> r.ok /\ line.ok /\ line.seq = r.last + 1, last |-> line.seq]

\* The loop accepts the whole file.
ReadAll(ls) == FoldLeft(ReadLine, [ok |-> TRUE, last |-> 0], ls).ok

\* The states requirePending and fold let an event follow.  "unseen" stands for
\* a key missing from the map of transactions.
Open == {"in_progress", "failed", "interrupted"}

\* Mutant: a state event may follow the closing one.
FoldReopening(r, e) ==
  CASE e.type = "begin" -> [r EXCEPT !.ok = @ /\ r.txs[e.tx] = "unseen",
                                     !.txs[e.tx] = "in_progress"]
    [] e.type = "step" -> [r EXCEPT !.ok = @ /\ r.txs[e.tx] \in Open]
    [] e.type = "state" -> [r EXCEPT !.ok = @ /\ r.txs[e.tx] # "unseen" /\ e.state \in EventStates,
                                     !.txs[e.tx] = e.state]
    [] OTHER -> [r EXCEPT !.ok = FALSE]

\* fold's loop body, for each type of event: its condition and its effect.
FoldEvent(r, e) ==
  CASE e.type = "begin" -> [r EXCEPT !.ok = @ /\ r.txs[e.tx] = "unseen",
                                     !.txs[e.tx] = "in_progress"]
    [] e.type = "step" -> [r EXCEPT !.ok = @ /\ r.txs[e.tx] \in Open]
    [] e.type = "state" -> [r EXCEPT !.ok = @ /\ r.txs[e.tx] \in Open /\ e.state \in EventStates,
                                     !.txs[e.tx] = e.state]
    [] OTHER -> [r EXCEPT !.ok = FALSE]

FoldAll(ls) == FoldLeft(FoldEvent, [ok |-> TRUE, txs |-> [id \in TxIds |-> "unseen"]], ls)

-----------------------------------------------------------------------------
AnyLine ==
  /\ Len(jlines) < MaxLines
  /\ \E line \in Line : jlines' = Append(jlines, line)
  /\ UNCHANGED <<jtorn, jsynced, loaded, snap, issued>>

Spec == JournalInit /\ [][AnyLine]_journalVars

\* The formulas accept exactly the files the loops accept (journal.go:234, :275).
AcceptedAlike ==
  /\ ReadAll(jlines) <=> Readable(jlines)
  /\ FoldAll(jlines).ok <=> Foldable(jlines)

\* On an accepted file, what Pending, requirePending and doctor read off the
\* folded map is what the formulas say (journal.go:171, :219).
FoldedAlike ==
  LET txs == FoldAll(jlines).txs IN
    Foldable(jlines) => \A id \in TxIds :
      /\ InProgress(jlines, id) <=> txs[id] = "in_progress"
      /\ RequirePending(jlines, id) <=> txs[id] \in Open

\* The formulas the other modules use are the loops of the code.
FoldsAlike == AcceptedAlike /\ FoldedAlike
=============================================================================
