----------------------------- MODULE AppendFile -----------------------------
(***************************************************************************)
(* One append-only JSON-lines file, as internal/journal/journal.go and     *)
(* internal/audit/audit.go keep it: append (journal.go:313, audit.go:179)  *)
(* trims an unterminated tail, writes one line, syncs and returns.         *)
(* `lines` are the newline-terminated records, `torn` tells whether bytes  *)
(* without a newline follow them, and the first `synced` lines are on      *)
(* stable storage.  A line is abstracted to a record with a field `ok`:    *)
(* FALSE when its bytes do not parse because it was written behind a torn  *)
(* tail.  Permission repair and directory creation are left out (their     *)
(* failures are the first disjunct of AppendErr), and so is the directory  *)
(* entry of a new file: it is taken to be durable with its first line.     *)
(***************************************************************************)
EXTENDS Integers, Sequences

VARIABLES lines, torn, synced

fileVars == <<lines, torn, synced>>

FileInit == lines = <<>> /\ torn = FALSE /\ synced = 0

\* Mutant: the tail scan is skipped.
TrimNothing(tail) == tail

\* trimTornTail: truncate behind the last newline, so no partial bytes remain.
TrimTornTail(tail) == FALSE

\* The bytes of `line` written at the end of the file, behind whatever tail is left.
Written(line) ==
  Append(lines, IF TrimTornTail(torn) THEN [line EXCEPT !.ok = FALSE] ELSE line)

\* Mutant: the trimmed tail is counted as a line.
CountsTail(n) == n + 1

\* file.Sync after the write: every line written so far is durable.
SyncedAfter(n) == n

\* append returned nil.
AppendOk(line) ==
  /\ lines' = Written(line)
  /\ torn' = FALSE
  /\ synced' = SyncedAfter(Len(lines) + 1)

\* append returned an error: before the trim, after it, after a partial write, or
\* after the whole line.  The syncs it made before that flush what was there.
AppendErr(line) ==
  /\ \/ UNCHANGED <<lines, torn>>
     \/ torn' = TrimTornTail(torn) /\ UNCHANGED lines
     \/ torn' = TRUE /\ UNCHANGED lines
     \/ lines' = Written(line) /\ torn' = FALSE
  /\ synced' \in {synced, Len(lines')}

\* file.Sync without a write, as the audit log's Prepare does.
Flush == synced' = SyncedAfter(Len(lines)) /\ UNCHANGED <<lines, torn>>

\* External: the machine stops.  Lines that were never synced may be lost, the
\* first lost one possibly leaving some of its bytes.
LoseUnsynced ==
  \E n \in synced..Len(lines) :
    /\ lines' = SubSeq(lines, 1, n)
    /\ torn' \in (IF n < Len(lines) THEN BOOLEAN ELSE {torn, FALSE})
    /\ synced' = n

\* The file is terminated at every line and every line parses.
Parses == \A i \in DOMAIN lines : lines[i].ok
=============================================================================
