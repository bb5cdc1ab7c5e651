---------------------------- MODULE TerminalShell ----------------------------
(***************************************************************************)
(* The terminal interface: Shell of internal/tui (shell.go, input.go) and  *)
(* the facade of cmd/pmux/tui.go it drives.                                *)
(*                                                                         *)
(* The Bubble Tea loop handles one message at a time: a key, an event or   *)
(* the result of the running operation, or the end of a write to the pipe  *)
(* that carries a pasted callback URL.  The operation runs in a goroutine  *)
(* of its own, sends events over a bounded channel and then its result;    *)
(* a waiter takes one of them at a time; the write is a goroutine too.     *)
(* Leaving is a message as well (tea.Quit): until it arrives, keys and     *)
(* messages are still handled.  Screens, rows, searches and texts are left *)
(* out.                                                                    *)
(***************************************************************************)
EXTENDS Naturals, Sequences

CONSTANTS
  Buffer,    \* capacity of the event channel (16 in the code)
  MaxOps,    \* bound: operations started
  MaxEvents  \* bound: events of one operation besides the request for input

Ops == 1 .. MaxOps

VARIABLES
  view,      \* "shell", "setup" (another model has the screen) or "left" (the program ended)
  prompt,    \* the input prompt, with the operation whose pipe it answers
  pending,   \* the mutation that awaits its phrase
  busy,      \* an operation runs, as the shell sees it
  cancel,    \* the operation that m.cancel cancels
  writer,    \* the operation whose pipe is m.protectedWriter
  leaving,   \* the Quit message is on its way
  handoff,   \* a launch is requested; when the program has ended, it is carried out
  op,        \* the goroutine of each operation
  events,    \* the channel of the running one
  waiter,    \* what waits for its next message
  pipe, write,  \* the pipe of each operation and the goroutine that writes to it
  late       \* history: the end of a write was handled after another operation began

vars == <<view, prompt, pending, busy, cancel, writer, leaving, handoff, op, events, waiter, pipe,
          write, late>>
exits == <<leaving, handoff>>
screen == <<view, pending, busy, exits>>
task == <<op, events>>

\* 0: no operation
NoPrompt == [kind |-> "none", of |-> 0]
Prompts == [kind: {"none", "value", "callback"}, of: 0 .. MaxOps]
Actions == {"none", "plain", "login"}
Kinds == {"plain", "login"}
\* done: its result is in the channel, told: the shell or its successor has it
PCs == {"none", "running", "asking", "reading", "done", "told"}
Fresh == [kind |-> "plain", pc |-> "none", canceled |-> FALSE, sent |-> 0]

Current ==
  LET begun == {o \in Ops: op[o].pc # "none"}
  IN IF begun = {} THEN 0 ELSE CHOOSE o \in begun: \A q \in begun: q <= o
Canceled(o) == IF o = 0 THEN op ELSE [op EXCEPT ![o].canceled = TRUE]
Closed(o, how) == IF o = 0 THEN pipe ELSE [pipe EXCEPT ![o] = how]

-----------------------------------------------------------------------------
(* Keys                                                                    *)

Listening == view = "shell" /\ prompt = NoPrompt
Free == Listening /\ pending = "none"

AlreadyRunning == busy

\* executeWithArguments; a login by callback has a pipe.
Execute(kind) ==
  IF AlreadyRunning
  THEN UNCHANGED <<busy, cancel, writer, task, waiter, pipe>>
  ELSE /\ Current < MaxOps
       /\ LET o == Current + 1 IN
          /\ op' = [op EXCEPT ![o] = [Fresh EXCEPT !.kind = kind, !.pc = "running"]]
          /\ busy' = TRUE /\ cancel' = o /\ events' = <<>> /\ waiter' = "poll"
          /\ IF kind = "login"
             THEN writer' = o /\ pipe' = [pipe EXCEPT ![o] = "open"]
             ELSE UNCHANGED <<writer, pipe>>

\* An action that needs a value first, or one that only reads.
AskValue ==
  /\ Free
  /\ prompt' = [kind |-> "value", of |-> 0]
  /\ UNCHANGED <<screen, cancel, writer, task, waiter, pipe, write, late>>

Read ==
  /\ Free
  /\ Execute("plain")
  /\ UNCHANGED <<view, pending, exits, prompt, write, late>>

\* confirmOrExecute of a mutation, with or without a value before it.
Mutate(kind) ==
  /\ \/ Free
     \/ view = "shell" /\ prompt.kind = "value"
  /\ prompt' = NoPrompt /\ pending' = kind
  /\ UNCHANGED <<view, busy, exits, cancel, writer, task, waiter, pipe, write, late>>

ConfirmPhrase ==
  /\ Listening /\ pending # "none"
  /\ pending' = "none"
  /\ Execute(pending)
  /\ UNCHANGED <<view, exits, prompt, write, late>>

DropPending ==
  /\ Listening /\ pending # "none"
  /\ pending' = "none"
  /\ UNCHANGED <<view, busy, exits, prompt, cancel, writer, task, waiter, pipe, write, late>>

\* A launch is asked for, unless an operation runs; it waits for the program to end.
LaunchHandoff ==
  /\ Free /\ ~AlreadyRunning
  /\ handoff' = TRUE /\ leaving' = TRUE
  /\ UNCHANGED <<view, pending, busy, prompt, cancel, writer, task, waiter, pipe, write, late>>

\* Ctrl-C cancels, Esc closes the pipe as well.
CtrlC ==
  /\ Free /\ busy /\ cancel # 0
  /\ op' = Canceled(cancel)
  /\ UNCHANGED <<screen, prompt, cancel, writer, events, waiter, pipe, write, late>>

Esc ==
  /\ Listening /\ busy /\ cancel # 0
  /\ op' = Canceled(cancel) /\ pipe' = Closed(writer, "aborted") /\ writer' = 0
  /\ UNCHANGED <<screen, prompt, cancel, events, waiter, write, late>>

\* Ctrl-C with nothing to cancel, or q, whatever runs.
Quit ==
  /\ Free
  /\ leaving' = TRUE
  /\ UNCHANGED <<view, pending, busy, handoff, prompt, cancel, writer, task, waiter, pipe, write, late>>

\* The recommended action of an installation that is not configured; busy is not looked at.
StartSetup ==
  /\ Free
  /\ view' = "setup"
  /\ UNCHANGED <<pending, busy, exits, prompt, cancel, writer, task, waiter, pipe, write, late>>

\* Mutant: Esc on the callback prompt only closes the prompt.
ClosePrompt == UNCHANGED <<pipe, writer, op>>

AbortAnswer == pipe' = Closed(prompt.of, "aborted") /\ writer' = 0 /\ op' = Canceled(cancel)

CancelPrompt ==
  /\ view = "shell" /\ prompt # NoPrompt
  /\ prompt' = NoPrompt
  /\ IF prompt.of # 0 THEN AbortAnswer ELSE UNCHANGED <<pipe, writer, op>>
  /\ UNCHANGED <<screen, cancel, events, waiter, write, late>>

\* The pasted URL is written by a goroutine; a prompt without a pipe asks to confirm a login.
Answer ==
  /\ view = "shell" /\ prompt.kind = "callback"
  /\ prompt' = NoPrompt
  /\ IF prompt.of # 0
     THEN write' = [write EXCEPT ![prompt.of] = "writing"] /\ UNCHANGED pending
     ELSE pending' = "plain" /\ UNCHANGED write
  /\ UNCHANGED <<view, busy, exits, cancel, writer, task, waiter, pipe, late>>

-----------------------------------------------------------------------------
(* Messages                                                                *)

\* The program ends.  finishShellTUI carries the launch out that was asked for; from the
\* setup, which drops that one, finishSetupTUI may launch as well.
Leave ==
  /\ view \in {"shell", "setup"} /\ (leaving \/ view = "setup")
  /\ view' = "left" /\ (handoff' = handoff \/ view = "setup") /\ handoff' \in BOOLEAN
  /\ UNCHANGED <<pending, busy, leaving, prompt, cancel, writer, task, waiter, pipe, write, late>>

\* waitFacadeMessage looks for an event first, and then for whatever comes.
PollEvents ==
  /\ waiter = "poll" /\ events = <<>>
  /\ waiter' = "block"
  /\ UNCHANGED <<screen, prompt, cancel, writer, task, pipe, write, late>>

TakeEvent ==
  /\ waiter \in {"poll", "block"} /\ events # <<>>
  /\ waiter' = Head(events) /\ events' = Tail(events)
  /\ UNCHANGED <<screen, prompt, cancel, writer, op, pipe, write, late>>

TakeResult ==
  /\ waiter = "block" /\ op[Current].pc = "done"
  /\ waiter' = "result"
  /\ UNCHANGED <<screen, prompt, cancel, writer, task, pipe, write, late>>

\* A request for input replaces whatever prompt is open; another model drops the message.
HandleEvent ==
  /\ waiter \in {"event", "input"} /\ view # "left"
  /\ waiter' = IF view = "shell" THEN "poll" ELSE "gone"
  /\ prompt' = IF view = "shell" /\ waiter = "input" THEN [kind |-> "callback", of |-> writer] ELSE prompt
  /\ UNCHANGED <<screen, cancel, writer, task, pipe, write, late>>

HandleResult ==
  /\ waiter = "result" /\ view # "left"
  /\ waiter' = "gone" /\ op' = [op EXCEPT ![Current].pc = "told"]
  /\ IF view = "shell"
     THEN busy' = FALSE /\ cancel' = 0 /\ pipe' = Closed(writer, "closed") /\ writer' = 0
     ELSE UNCHANGED <<busy, cancel, pipe, writer>>
  /\ UNCHANGED <<view, pending, exits, prompt, events, write, late>>

HandleSubmitted(o) ==
  /\ write[o] \in {"written", "error"} /\ view # "left"
  /\ write' = [write EXCEPT ![o] = "told"]
  /\ IF view = "shell"
     THEN writer' = 0 /\ op' = IF write[o] = "error" THEN Canceled(cancel) ELSE op
     ELSE UNCHANGED <<writer, op>>
  /\ late' = (late \/ o # Current)
  /\ UNCHANGED <<screen, prompt, cancel, events, waiter, pipe>>

-----------------------------------------------------------------------------
(* Goroutines                                                              *)

\* An event is sent when there is room; a canceled operation may also give up.
Emit(o, e) ==
  /\ op[o].pc = IF e = "input" THEN "asking" ELSE "running"
  /\ \/ /\ Len(events) < Buffer
        /\ events' = Append(events, e)
        /\ op' = IF e = "input" THEN [op EXCEPT ![o].pc = "reading"] ELSE [op EXCEPT ![o].sent = @ + 1]
     \/ /\ op[o].canceled
        /\ op' = [op EXCEPT ![o].pc = "done"] /\ UNCHANGED events
  /\ UNCHANGED <<screen, prompt, cancel, writer, waiter, pipe, write, late>>

Report(o) == op[o].sent < MaxEvents /\ Emit(o, "event")

AskCallback(o) ==
  /\ op[o].pc = "running" /\ op[o].kind = "login" /\ pipe[o] # "read"
  /\ op' = [op EXCEPT ![o].pc = "asking"]
  /\ UNCHANGED <<screen, prompt, cancel, writer, events, waiter, pipe, write, late>>

\* readProtectedBytes: the pipe is read until it is closed.
ReadCallback(o) ==
  /\ op[o].pc = "reading"
  /\ \/ /\ pipe[o] = "open" /\ write[o] = "writing"
        /\ write' = [write EXCEPT ![o] = "written"] /\ pipe' = [pipe EXCEPT ![o] = "read"]
        /\ op' = [op EXCEPT ![o].pc = "running"]
     \/ /\ pipe[o] \in {"closed", "aborted"}
        /\ op' = [op EXCEPT ![o].pc = "done"] /\ UNCHANGED <<write, pipe>>
  /\ UNCHANGED <<screen, prompt, cancel, writer, events, waiter, late>>

WriteFails(o) ==
  /\ write[o] = "writing" /\ pipe[o] \in {"closed", "aborted"}
  /\ write' = [write EXCEPT ![o] = "error"]
  /\ UNCHANGED <<screen, prompt, cancel, writer, task, waiter, pipe, late>>

\* The operation ends by itself or because it was canceled.
Finish(o) ==
  /\ op[o].pc = "running"
  /\ op' = [op EXCEPT ![o].pc = "done"]
  /\ UNCHANGED <<screen, prompt, cancel, writer, events, waiter, pipe, write, late>>

Init ==
  /\ view = "shell" /\ prompt = NoPrompt /\ pending = "none" /\ busy = FALSE /\ cancel = 0
  /\ writer = 0 /\ leaving = FALSE /\ handoff = FALSE /\ op = [o \in Ops |-> Fresh]
  /\ events = <<>> /\ waiter = "gone"
  /\ pipe = [o \in Ops |-> "none"] /\ write = [o \in Ops |-> "none"] /\ late = FALSE

Next ==
  \/ AskValue \/ Read \/ (\E kind \in Kinds: Mutate(kind)) \/ ConfirmPhrase \/ DropPending
  \/ LaunchHandoff \/ CtrlC \/ Esc \/ Quit \/ StartSetup \/ CancelPrompt \/ Answer
  \/ Leave \/ PollEvents \/ TakeEvent \/ TakeResult \/ HandleEvent \/ HandleResult
  \/ \E o \in Ops:
       \/ HandleSubmitted(o) \/ Report(o) \/ AskCallback(o) \/ Emit(o, "input")
       \/ ReadCallback(o) \/ WriteFails(o) \/ Finish(o)

Spec == Init /\ [][Next]_vars

-----------------------------------------------------------------------------
(* Properties                                                              *)

TypeOK ==
  /\ view \in {"shell", "setup", "left"} /\ prompt \in Prompts /\ pending \in Actions
  /\ busy \in BOOLEAN /\ cancel \in 0 .. MaxOps /\ writer \in 0 .. MaxOps
  /\ leaving \in BOOLEAN /\ handoff \in BOOLEAN
  /\ \A o \in Ops:
       /\ op[o].kind \in Kinds /\ op[o].pc \in PCs
       /\ op[o].canceled \in BOOLEAN /\ op[o].sent \in 0 .. MaxEvents
  /\ events \in Seq({"event", "input"}) /\ Len(events) <= Buffer
  /\ waiter \in {"gone", "poll", "block", "event", "input", "result"}
  /\ pipe \in [Ops -> {"none", "open", "read", "closed", "aborted"}]
  /\ write \in [Ops -> {"none", "writing", "written", "error", "told"}] /\ late \in BOOLEAN

Unfinished == {o \in Ops: op[o].pc \notin {"none", "told"}}

\* The shell is busy exactly while an operation's goroutine lives, so that two never run at
\* once, whatever is handled late.
OneOperation ==
  /\ \A o, q \in Unfinished: o = q
  /\ view = "shell" => (busy <=> Unfinished # {})

\* A login that reads the callback can be ended by the user: its request is under way to
\* the screen, or its prompt is open, or an answer is, or its pipe is closed.  The message
\* of an earlier login's answer that comes late may take the pipe from the shell, and the
\* setup journey drops what it does not know.
Answerable ==
  view = "shell" /\ ~late =>
    \A o \in Ops: op[o].pc = "reading" =>
      \/ \E i \in DOMAIN events: events[i] = "input"
      \/ waiter = "input" \/ prompt = [kind |-> "callback", of |-> o]
      \/ write[o] \in {"writing", "written"} \/ pipe[o] \in {"closed", "aborted"}

\* The user has one operation to deal with, and can end it.
OneAtATime == OneOperation /\ Answerable

\* A client is launched only when no operation runs any more.
LaunchesAlone == view = "left" /\ handoff => Unfinished = {}

\* internal/tui/facade.go: the shell drains the channel of events.
DrainsEvents == view # "left" /\ Len(events) = Buffer /\ Unfinished # {} => waiter # "gone"
=============================================================================
