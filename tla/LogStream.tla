----------------------------- MODULE LogStream ------------------------------
(***************************************************************************)
(* `pmux service logs` of a core that runs as a child of the same process: *)
(* logBuffer of internal/adapter/service/foreground/foreground.go under    *)
(* serviceLogs of internal/app/router.go.                                  *)
(*                                                                         *)
(* The core writes lines to a buffer that keeps the last ones; a follower  *)
(* gets what is there and then each new line through a bounded channel, a  *)
(* goroutine that copies it, and a pipe.  Lines are numbered in the order  *)
(* they are written.  Left out: redaction, the output file, and the sort   *)
(* of entries of several sources by time (the others count as one entry).  *)
(***************************************************************************)
EXTENDS Naturals, Sequences, Functions

CONSTANTS
  BufferSize,   \* maxLines, 1000 in the code
  ChannelSize,  \* capacity of a subscriber's channel, 64 in the code
  MaxLines      \* bound: lines that the core writes

VARIABLES
  written,      \* number of lines written
  lines,        \* logBuffer.lines
  subscribed, updates,  \* the follower's channel: in subscribers, and what is in it
  finished,     \* the core has exited and its buffer is finished
  copier, pipe, \* the goroutine of reader, and what it is writing to the pipe
  viewPc, request, \* serviceLogs and its flags
  retained, shown, \* entries kept for the end, and emitted
  canceled,     \* the command's context
  first, dropped \* history: the first line the follower is to see; a line did not fit

buffer == <<written, lines, finished>>
channel == <<subscribed, updates>>
history == <<first, dropped>>
vars == <<buffer, channel, copier, pipe, viewPc, request, retained, shown, canceled, history>>

\* The last n elements of s.
LastOf(s, n) == IF Len(s) <= n THEN s ELSE SubSeq(s, Len(s) - n + 1, Len(s))

\* lines: the --lines flag; wanted: the lines that --level and --since let through.
Requests == [follow: BOOLEAN, lines: 0..2, wanted: {0..MaxLines, {n \in 0..MaxLines : n % 2 = 1}}]
NoRequest == [follow |-> FALSE, lines |-> 0, wanted |-> 0..MaxLines]

-----------------------------------------------------------------------------
(* The buffer                                                              *)

\* Write never waits: a subscriber whose channel is full misses the line.
Write ==
  /\ ~finished /\ written < MaxLines
  /\ written' = written + 1
  /\ lines' = LastOf(Append(lines, written'), BufferSize)
  /\ IF subscribed /\ Len(updates) < ChannelSize
     THEN updates' = Append(updates, written') /\ UNCHANGED dropped
     ELSE dropped' = (dropped \/ subscribed) /\ UNCHANGED updates
  /\ UNCHANGED <<finished, subscribed, copier, pipe, viewPc, request, retained, shown, canceled, first>>

\* finish closes the channel; what is in it can still be received.
Finish ==
  /\ ~finished /\ finished' = TRUE
  /\ subscribed' = FALSE
  /\ UNCHANGED <<written, lines, updates, copier, pipe, viewPc, request, retained, shown, canceled, history>>

\* Mutant: the oldest lines instead of the newest.
OldestOf(tail) == IF tail > 0 THEN SubSeq(lines, 1, Len(LastOf(lines, tail))) ELSE lines

\* All lines when tail is 0.
Snapshot(tail) == IF tail > 0 THEN LastOf(lines, tail) ELSE lines

-----------------------------------------------------------------------------
(* The goroutine                                                           *)

\* The pipe takes the next text when the last has been read.
Copy ==
  /\ copier = "copying" /\ pipe = <<>>
  /\ \/ canceled /\ copier' = "closed" /\ UNCHANGED <<pipe, updates>>
     \/ updates # <<>> /\ pipe' = <<Head(updates)>> /\ updates' = Tail(updates) /\ UNCHANGED copier
     \/ updates = <<>> /\ finished /\ copier' = "closed" /\ UNCHANGED <<pipe, updates>>
  /\ UNCHANGED <<buffer, subscribed, viewPc, request, retained, shown, canceled, history>>

\* serviceLogs has closed its end: the goroutine's write fails.
CopyFails ==
  /\ copier = "copying" /\ pipe # <<>> /\ viewPc \in {"done", "failed"}
  /\ copier' = "closed" /\ pipe' = <<>>
  /\ UNCHANGED <<buffer, channel, viewPc, request, retained, shown, canceled, history>>

-----------------------------------------------------------------------------
(* serviceLogs                                                             *)

\* The other sources come first; their entries, one here, wait for the end.
Open ==
  /\ viewPc = "idle"
  /\ \E r \in Requests :
       /\ request' = r
       /\ \/ /\ viewPc' = "scan"
             /\ retained' = IF r.lines > 0 THEN <<0>> ELSE <<>>
             /\ pipe' = Snapshot(r.lines)
             /\ LET following == r.follow /\ ~finished IN
                  /\ copier' = IF following THEN "copying" ELSE "closed"
                  /\ subscribed' = following
             /\ first' = written + 1 - Len(pipe')
          \/ viewPc' = "failed" /\ UNCHANGED <<retained, pipe, copier, subscribed, first>>
  /\ UNCHANGED <<buffer, updates, shown, canceled, dropped>>

\* appendEntry keeps the last entries of a source; a follower's are emitted at once.
Accept(n) ==
  IF request.follow
  THEN shown' = Append(shown, n) /\ UNCHANGED retained
  ELSE retained' = LastOf(Append(retained, n), request.lines) /\ UNCHANGED shown

Scan ==
  /\ viewPc = "scan" /\ pipe # <<>>
  /\ pipe' = Tail(pipe)
  /\ \/ /\ Head(pipe) \in request.wanted
        /\ Accept(Head(pipe)) /\ UNCHANGED viewPc
     \/ Head(pipe) \notin request.wanted /\ UNCHANGED <<retained, shown, viewPc>>
     \/ /\ request.follow /\ Head(pipe) \in request.wanted /\ viewPc' = "failed"
        /\ UNCHANGED <<retained, shown>>
  /\ UNCHANGED <<buffer, channel, copier, request, canceled, history>>

\* The end of the text: the last entries of all sources.
Flush ==
  /\ viewPc = "scan" /\ pipe = <<>> /\ copier = "closed"
  /\ \/ viewPc' = "done" /\ shown' = shown \o LastOf(retained, request.lines)
     \/ viewPc' = "failed" /\ UNCHANGED shown
  /\ UNCHANGED <<buffer, channel, copier, pipe, request, retained, canceled, history>>

\* The user interrupts, or closes the terminal interface.
Cancel ==
  /\ viewPc = "scan" /\ ~canceled /\ canceled' = TRUE
  /\ UNCHANGED <<buffer, channel, copier, pipe, viewPc, request, retained, shown, history>>

-----------------------------------------------------------------------------
Init ==
  /\ written = 0 /\ lines = <<>> /\ finished = FALSE
  /\ subscribed = FALSE /\ updates = <<>>
  /\ copier = "none" /\ pipe = <<>>
  /\ viewPc = "idle" /\ request = NoRequest
  /\ retained = <<>> /\ shown = <<>>
  /\ canceled = FALSE /\ first = 1 /\ dropped = FALSE

Next == Write \/ Finish \/ Copy \/ CopyFails \/ Open \/ Scan \/ Flush \/ Cancel

\* The goroutine and the command are scheduled; the core need neither write nor exit.
Fairness == WF_vars(Copy) /\ WF_vars(CopyFails) /\ WF_vars(Scan) /\ WF_vars(Flush)

Spec == Init /\ [][Next]_vars /\ Fairness
-----------------------------------------------------------------------------
(* Properties                                                              *)

TypeOK ==
  /\ written \in 0..MaxLines /\ finished \in BOOLEAN
  /\ Len(lines) <= BufferSize /\ Len(updates) <= ChannelSize
  /\ subscribed \in BOOLEAN /\ canceled \in BOOLEAN /\ dropped \in BOOLEAN
  /\ copier \in {"none", "copying", "closed"}
  /\ viewPc \in {"idle", "scan", "done", "failed"} /\ request \in Requests
  /\ first \in 1..MaxLines + 1

\* A follower sees every line it asked for from the first of its snapshot on, in the order
\* they were written, none twice: what was shown comes before what is on its way and what
\* the channel holds, and nothing lies between, as long as no line was dropped; and when
\* the core has exited and the command was not interrupted, all of them have been shown
\* (foreground.go:690, router.go:1087).
FollowsWithoutGap ==
  request.follow /\ viewPc \in {"scan", "done"} /\ ~dropped =>
    LET all == (first..written) \cap request.wanted
        seen == Range(shown) \ {0}
        coming == (Range(pipe) \cup Range(updates)) \cap request.wanted
    IN /\ \A i, j \in DOMAIN shown : i < j /\ shown[j] > 0 => shown[i] < shown[j]
       /\ seen \subseteq all /\ \A n \in all, m \in seen : n < m => n \in seen
       /\ subscribed => seen \cup coming = all /\ \A n \in seen, m \in coming : n < m
       /\ viewPc = "done" /\ ~canceled => seen = all
=============================================================================
