---------------------------- MODULE ProviderLogin ----------------------------
(***************************************************************************)
(* `pmux providers login`: internal/adapter/auth/auth.go and providerLogin *)
(* of internal/app/router.go.  A login asks the proxy for an OAuth         *)
(* session, shows its challenge, polls it (or submits a pasted callback)   *)
(* until its deadline, and counts as complete when a credential file has   *)
(* become usable since it began.  Importing a Vertex account is verified   *)
(* alike.                                                                  *)
(*                                                                         *)
(* One login runs at a time (the mutation lock); the user answers the      *)
(* provider, and others change credentials, whenever they like.  Requests  *)
(* to the proxy may be lost before or after they took effect, and the user *)
(* may interrupt every wait.  Time is counted in polling intervals.        *)
(* PMux registers no subprocess fallback, so a proxy without management    *)
(* fails the login.                                                        *)
(***************************************************************************)
EXTENDS Naturals

CONSTANTS
  Files,      \* credential files of the provider
  Budget,     \* bound: polling intervals in the overall budget (300 s in the code)
  MaxOthers   \* bound: changes of credentials by others

VARIABLES
  usable,    \* files that the proxy lists as usable
  remote,    \* the session the proxy keeps for the login
  active,    \* the session is in the authenticator's map
  pc, job,   \* the running login and its local variables
  left,      \* intervals before its deadline
  due,       \* an interval has passed since the last poll
  others,    \* number of changes by others
  gained,    \* history: files that became usable since the login took its snapshot
  orphaned   \* history: a request that would have created or ended the session got no answer

vars == <<usable, remote, active, pc, job, left, due, others, gained, orphaned>>
world == <<usable, others, gained>>
clock == <<left, due>>

\* before: the snapshot, paste: the router reads a callback URL, result: what is reported.
Results == {"none", "complete", "failed", "canceled", "timeout"}
NoJob == [kind |-> "none", before |-> {}, paste |-> FALSE, result |-> "none"]
Jobs == [kind: {"none", "oauth", "vertex"}, before: SUBSET Files, paste: BOOLEAN, result: Results]
Remotes == {"none", "pending", "success", "failed", "expired"}
PCs == {"idle", "snapshot", "begin", "import", "challenge", "show", "paste", "submit", "wait", "status",
        "verify", "cancel", "router", "done"}

Go(at) == pc' = at /\ UNCHANGED job
Finish(at, r) == pc' = at /\ job' = [job EXCEPT !.result = r]

-----------------------------------------------------------------------------
(* Begin                                                                   *)

Start(kind, paste) ==
  /\ pc = "idle"
  /\ pc' = "snapshot" /\ job' = [NoJob EXCEPT !.kind = kind, !.paste = paste]
  /\ left' = Budget /\ due' = FALSE /\ remote' = "none" /\ orphaned' = FALSE
  /\ UNCHANGED <<world, active>>

Snapshot ==
  /\ pc = "snapshot"
  /\ \/ /\ pc' = IF job.kind = "oauth" THEN "begin" ELSE "import"
        /\ job' = [job EXCEPT !.before = usable]
        /\ gained' = {}
     \/ Finish("done", "failed") /\ UNCHANGED gained
  /\ UNCHANGED <<usable, others, remote, active, clock, orphaned>>

\* The challenge's expiry may be before the end of the budget.
BeginOAuth ==
  /\ pc = "begin"
  /\ \/ remote' = "pending" /\ Go("challenge") /\ left' \in 0 .. left /\ UNCHANGED orphaned
     \/ remote' \in {"none", "pending"} /\ Finish("done", "failed") /\ orphaned' = TRUE /\ UNCHANGED left
  /\ UNCHANGED <<world, active, due>>

\* discriminateChallenge: one without a state cannot be canceled.
Challenge ==
  /\ pc = "challenge"
  /\ \/ active' = TRUE /\ Go("show") /\ UNCHANGED orphaned
     \/ UNCHANGED <<active, orphaned>> /\ Finish("cancel", "failed")
     \/ UNCHANGED active /\ Finish("done", "failed") /\ orphaned' = TRUE
  /\ UNCHANGED <<world, remote, clock>>

\* The challenge is shown; the sink may have gone.
Show ==
  /\ pc = "show"
  /\ \/ Go(IF job.paste THEN "paste" ELSE "wait")
     \/ Finish("router", "failed")
  /\ UNCHANGED <<world, remote, active, clock, orphaned>>

ImportVertex ==
  /\ pc = "import"
  /\ \/ /\ \E f \in Files: usable' = usable \cup {f} /\ gained' = gained \cup ({f} \ usable)
        /\ (Go("verify") \/ Finish("done", "failed"))
     \/ UNCHANGED <<usable, gained>> /\ Finish("done", "failed")
  /\ UNCHANGED <<others, remote, active, clock, orphaned>>

-----------------------------------------------------------------------------
(* CompletePaste and Poll                                                  *)

\* The pasted URL is read and validated; nothing limits how long that takes.
Paste ==
  /\ pc = "paste"
  /\ \/ Go("submit")
     \/ \E r \in {"failed", "canceled"}: Finish("router", r)
  /\ UNCHANGED <<world, remote, active, clock, orphaned>>

\* operationContext ends the request at the deadline.
Submit ==
  /\ pc = "submit"
  /\ \/ left > 0 /\ Go("status")
     \/ \E r \in {"canceled", "timeout"}: Finish("cancel", r)
     \/ Finish("router", "failed")
  /\ UNCHANGED <<world, remote, active, clock, orphaned>>

\* waitForPoll.
Wait ==
  /\ pc = "wait"
  /\ \/ left = 0 /\ Finish("cancel", "timeout")
     \/ left > 0 /\ due /\ Go("status")
     \/ Finish("cancel", "canceled")
  /\ UNCHANGED <<world, remote, active, clock, orphaned>>

\* Mutant: every answer starts the budget again.
RestartedBudget == left' = Budget

SameDeadline == UNCHANGED left

\* pollNow: what the proxy answers about the session.
Status ==
  /\ pc = "status"
  /\ \/ left > 0 /\ remote = "pending" /\ Go("wait") /\ due' = FALSE /\ SameDeadline
     \/ /\ \/ left > 0 /\ remote = "success" /\ Go("verify")
           \/ left > 0 /\ remote = "expired" /\ Finish("cancel", "timeout")
           \/ left > 0 /\ remote # "pending" /\ Finish("cancel", "failed")
           \/ \E r \in {"canceled", "timeout"}: Finish("cancel", r)
           \/ Finish("router", "failed")
        /\ UNCHANGED clock
  /\ UNCHANGED <<world, remote, active, orphaned>>

NewlyUsable == usable \ job.before

\* Verify, and deleteSession whatever it says.
Verify ==
  /\ pc = "verify"
  /\ active' = FALSE
  /\ \/ NewlyUsable # {} /\ Finish("done", "complete")
     \/ Finish("router", "failed")
  /\ UNCHANGED <<world, remote, clock, orphaned>>

-----------------------------------------------------------------------------
(* Ends                                                                    *)

CancelRemote ==
  \/ remote' = "none" /\ UNCHANGED orphaned
  \/ UNCHANGED remote /\ orphaned' = TRUE

\* cancelState: the session is forgotten, then canceled; an error is ignored.
CancelState ==
  /\ pc = "cancel"
  /\ active' = FALSE /\ CancelRemote
  /\ Go("done")
  /\ UNCHANGED <<world, clock>>

\* Mutant: the router returns the error without canceling.
RouterReturns == UNCHANGED <<active, remote, orphaned>>

RouterCancels ==
  IF active THEN active' = FALSE /\ CancelRemote ELSE UNCHANGED <<active, remote, orphaned>>

\* The router cancels the session on every error; one that is not in the map any more is left.
Router ==
  /\ pc = "router"
  /\ RouterCancels
  /\ Go("done")
  /\ UNCHANGED <<world, clock>>

Report ==
  /\ pc = "done"
  /\ pc' = "idle" /\ job' = NoJob /\ remote' = "none" /\ left' = 0 /\ due' = FALSE /\ orphaned' = FALSE
  /\ UNCHANGED <<world, active>>

\* PMux is killed: the session stays with the proxy.
Die ==
  /\ pc # "idle"
  /\ pc' = "idle" /\ job' = NoJob /\ active' = FALSE /\ left' = 0 /\ due' = FALSE /\ orphaned' = FALSE
  /\ UNCHANGED <<world, remote>>

-----------------------------------------------------------------------------
Tick ==
  /\ pc \notin {"idle", "done"} /\ left > 0
  /\ left' = left - 1 /\ due' = TRUE
  /\ UNCHANGED <<world, remote, active, pc, job, orphaned>>

\* The user follows the challenge: an account is added, or one is renewed.
Authorize ==
  /\ remote = "pending"
  /\ remote' = "success"
  /\ \E f \in Files: usable' = usable \cup {f} /\ gained' = gained \cup ({f} \ usable)
  /\ UNCHANGED <<active, pc, job, clock, others, orphaned>>

Reject ==
  /\ remote = "pending"
  /\ remote' \in {"failed", "expired"}
  /\ UNCHANGED <<world, active, pc, job, clock, orphaned>>

\* Another command, the panel or the provider enables or disables an account.
Others ==
  /\ others < MaxOthers
  /\ others' = others + 1
  /\ \E f \in Files:
       \/ f \notin usable /\ usable' = usable \cup {f} /\ gained' = gained \cup {f}
       \/ f \in usable /\ usable' = usable \ {f} /\ UNCHANGED gained
  /\ UNCHANGED <<remote, active, pc, job, clock, orphaned>>

Init ==
  /\ usable = {} /\ remote = "none" /\ active = FALSE
  /\ pc = "idle" /\ job = NoJob /\ left = 0 /\ due = FALSE
  /\ others = 0 /\ gained = {} /\ orphaned = FALSE

Step ==
  \/ Snapshot \/ BeginOAuth \/ Challenge \/ Show \/ ImportVertex
  \/ Submit \/ Wait \/ Status \/ Verify \/ CancelState \/ Router \/ Report

Next ==
  \/ \E paste \in BOOLEAN: Start("oauth", paste)
  \/ Start("vertex", FALSE)
  \/ Step \/ Paste
  \/ Tick \/ Authorize \/ Reject \/ Others \/ Die

Spec == Init /\ [][Next]_vars

\* Requests end within their contexts and time passes; the user need not do anything.
Fairness == WF_vars(Step) /\ WF_vars(Tick)

-----------------------------------------------------------------------------
(* Properties                                                              *)

TypeOK ==
  /\ usable \subseteq Files /\ remote \in Remotes /\ active \in BOOLEAN
  /\ pc \in PCs /\ job \in Jobs /\ left \in 0 .. Budget /\ due \in BOOLEAN
  /\ others \in 0 .. MaxOthers /\ gained \subseteq Files /\ orphaned \in BOOLEAN

\* However a login ends, the authenticator has forgotten its session, and a user who
\* answers the challenge afterwards finds none waiting, unless a request was lost.
LoginLeavesNothing ==
  pc = "done" => ~active /\ (remote = "pending" => orphaned)

\* A login or an import is reported complete only if an account became usable meanwhile.
CompleteIsNew == pc = "done" /\ job.result = "complete" => gained # {}
=============================================================================
