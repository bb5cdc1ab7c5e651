---------------------------- MODULE WaitingProofs ----------------------------
(***************************************************************************)
(* The commands that wait for a user or for a line, beside the governed    *)
(* execution of commands and the foreground service.                       *)
(*                                                                         *)
(* A login is over with nothing left of its session because every error    *)
(* path goes through a cancel while the session is in the map (SessionInv) *)
(* and what is usable and was not in the snapshot is what became usable    *)
(* since (GainInv).  A follower misses nothing because the buffer, the     *)
(* channel and the pipe are adjacent runs of lines: the channel ends with  *)
(* the last line written, the pipe ends where the channel begins, and what *)
(* was shown ends where the pipe begins (RunsInv, SeenInv).                *)
(***************************************************************************)
EXTENDS MCWaiting, GovernanceProofs

WaitingMoves ==
  [WaitingNext]_<<part, vars, coreVars, loginVars, logVars>>

LEMMA WaitingMovesAre ==
  ASSUME WaitingMoves
  PROVE  /\ [Next]_vars
         /\ Login!Next \/ UNCHANGED loginVars
         /\ Logs!Next \/ UNCHANGED logVars
BY DEF WaitingMoves, WaitingNext, Governed, ServiceMoves, LoginMoves, LogMoves

-----------------------------------------------------------------------------
(* Provider authentication                                                 *)

Unbegun == {"idle", "snapshot", "begin", "import"}
InSession == {"show", "paste", "submit", "wait", "status"}

\* Where a login still has its session to cancel, or there is none waiting for the user.
SessionInv ==
  /\ active => loginPc \in InSession \cup {"verify", "cancel", "router"}
  /\ loginPc \in InSession => active
  /\ loginPc \in {"snapshot", "begin", "import", "verify"} => remote # "pending"
  /\ loginPc = "router" /\ ~active => remote # "pending"
  /\ loginPc = "done" /\ remote = "pending" => orphaned

\* What is usable and was not in the snapshot became usable since.
GainInv ==
  /\ loginPc \notin {"idle", "snapshot", "done"} => usable \ job.before \subseteq gained
  /\ job.result = "complete" => loginPc = "done" /\ gained # {}

LoginInv == Login!TypeOK /\ SessionInv /\ GainInv

USE BudgetAssumption, BoundsAssumption
    DEF BudgetAssumption, BoundsAssumption, Unbegun, InSession, Login!world, Login!clock, Login!Go, Login!Finish

\* A new result.
LEMMA JobEnds ==
  ASSUME job \in Login!Jobs, NEW r \in Login!Results, job' = [job EXCEPT !.result = r]
  PROVE  job' \in Login!Jobs /\ job'.result = r /\ job'.before = job.before /\ job'.kind = job.kind
BY DEF Login!Jobs

LEMMA JobFields ==
  ASSUME job \in Login!Jobs
  PROVE  job.before \subseteq Files /\ job.result \in Login!Results
BY DEF Login!Jobs

LEMMA LoginStartStep ==
  ASSUME LoginInv, NEW kind \in {"oauth", "vertex"}, NEW paste \in BOOLEAN, Login!Start(kind, paste)
  PROVE  LoginInv'
<1>1. job' \in Login!Jobs /\ job'.result = "none"
  BY DEF Login!Start, Login!NoJob, Login!Jobs, Login!Results
<1>2. Login!TypeOK'
  <2>1. due' \in BOOLEAN /\ orphaned' \in BOOLEAN
    BY DEF Login!Start
  <2>2. /\ UNCHANGED <<usable, others, gained, active>>
        /\ loginPc' \in Login!PCs /\ remote' \in Login!Remotes /\ left' \in 0 .. Budget
    BY DEF Login!Start, Login!PCs, Login!Remotes
  <2> QED
    BY <1>1, <2>1, <2>2 DEF LoginInv, Login!TypeOK
<1>3. SessionInv'
  BY DEF LoginInv, SessionInv, Login!Start
<1>4. GainInv'
  BY <1>1 DEF GainInv, Login!Start
<1> QED
  BY <1>2, <1>3, <1>4 DEF LoginInv

LEMMA LoginSnapshotStep ==
  ASSUME LoginInv, Login!Snapshot
  PROVE  LoginInv'
<1>0. /\ loginPc = "snapshot" /\ UNCHANGED <<usable, others, remote, active, left, due, orphaned>>
      /\ job \in Login!Jobs /\ usable \subseteq Files
  BY DEF Login!Snapshot, LoginInv, Login!TypeOK
<1>1. CASE /\ loginPc' \in {"begin", "import"} /\ job' = [job EXCEPT !.before = usable] /\ gained' = {}
  <2>1. job' \in Login!Jobs /\ job'.result = job.result /\ job'.before = usable
    BY <1>0, <1>1 DEF Login!Jobs
  <2>2. Login!TypeOK'
    BY <1>0, <1>1, <2>1 DEF LoginInv, Login!TypeOK, Login!PCs
  <2>3. SessionInv'
    BY <1>0, <1>1 DEF LoginInv, SessionInv
  <2>4. GainInv'
    BY <1>0, <1>1, <2>1 DEF LoginInv, GainInv
  <2> QED
    BY <2>2, <2>3, <2>4 DEF LoginInv
<1>2. CASE /\ loginPc' = "done" /\ job' = [job EXCEPT !.result = "failed"] /\ UNCHANGED gained
  <2>1. job' \in Login!Jobs /\ job'.result = "failed"
    BY <1>0, <1>2, JobEnds DEF Login!Results
  <2>2. Login!TypeOK'
    BY <1>0, <1>2, <2>1 DEF LoginInv, Login!TypeOK, Login!PCs
  <2>3. SessionInv'
    BY <1>0, <1>2 DEF LoginInv, SessionInv
  <2>4. GainInv'
    BY <1>2, <2>1 DEF GainInv
  <2> QED
    BY <2>2, <2>3, <2>4 DEF LoginInv
<1> QED
  BY <1>1, <1>2 DEF Login!Snapshot

\* Steps that go on with the login, or end it with an error, and leave the world alone.
LEMMA LoginGoes ==
  ASSUME LoginInv, loginPc \notin {"idle", "snapshot", "done"}, loginPc' \in Login!PCs \ {"idle", "snapshot"},
         UNCHANGED <<usable, others, gained>>,
         job' = job \/ \E r \in {"failed", "canceled", "timeout"} : job' = [job EXCEPT !.result = r]
  PROVE  job' \in Login!Jobs /\ GainInv'
<1>1. job \in Login!Jobs
  BY DEF LoginInv, Login!TypeOK
<1>2. CASE job' = job
  BY <1>1, <1>2 DEF LoginInv, GainInv
<1>3. CASE \E r \in {"failed", "canceled", "timeout"} : job' = [job EXCEPT !.result = r]
  <2>1. PICK r \in {"failed", "canceled", "timeout"} : job' = [job EXCEPT !.result = r]
    BY <1>3
  <2>2. job' \in Login!Jobs /\ job'.result = r /\ job'.before = job.before
    BY <1>1, <2>1, JobEnds DEF Login!Results
  <2> QED
    BY <2>2 DEF LoginInv, GainInv
<1> QED
  BY <1>2, <1>3

\* What a step of a login leaves of the types, the session and the gains.
LEMMA LoginKeeps ==
  ASSUME LoginInv, loginPc \notin {"idle", "snapshot", "done"}, loginPc' \in Login!PCs \ {"idle", "snapshot"},
         UNCHANGED <<usable, others, gained>>,
         job' = job \/ \E r \in {"failed", "canceled", "timeout"} : job' = [job EXCEPT !.result = r],
         remote' \in Login!Remotes, active' \in BOOLEAN, left' \in 0 .. Budget, due' \in BOOLEAN,
         orphaned' \in BOOLEAN, SessionInv'
  PROVE  LoginInv'
BY LoginGoes DEF LoginInv, Login!TypeOK

LEMMA LoginFields ==
  ASSUME LoginInv
  PROVE  /\ job \in Login!Jobs /\ remote \in Login!Remotes /\ active \in BOOLEAN /\ left \in 0 .. Budget
         /\ due \in BOOLEAN /\ orphaned \in BOOLEAN /\ usable \subseteq Files /\ gained \subseteq Files
         /\ others \in 0 .. MaxOthers /\ loginPc \in Login!PCs
BY DEF LoginInv, Login!TypeOK

LEMMA LoginBeginStep ==
  ASSUME LoginInv, Login!BeginOAuth
  PROVE  LoginInv'
<1>1. /\ loginPc = "begin" /\ loginPc' \in {"challenge", "done"} /\ UNCHANGED <<usable, others, gained, active, due>>
      /\ remote' \in {"none", "pending"} /\ left' \in 0 .. Budget
      /\ job' = job \/ \E r \in {"failed", "canceled", "timeout"} : job' = [job EXCEPT !.result = r]
  BY LoginFields DEF Login!BeginOAuth
<1>2. orphaned' \in BOOLEAN /\ (loginPc' = "done" => orphaned')
  BY LoginFields DEF Login!BeginOAuth
<1>3. SessionInv'
  BY <1>1, <1>2 DEF LoginInv, SessionInv
<1>4. active' \in BOOLEAN /\ due' \in BOOLEAN
  BY <1>1, LoginFields
<1> QED
  BY <1>1, <1>2, <1>3, <1>4, LoginKeeps DEF Login!PCs, Login!Remotes

LEMMA LoginChallengeStep ==
  ASSUME LoginInv, Login!Challenge
  PROVE  LoginInv'
<1>1. /\ loginPc = "challenge" /\ loginPc' \in {"show", "cancel", "done"}
      /\ UNCHANGED <<usable, others, gained, remote, left, due>>
      /\ job' = job \/ \E r \in {"failed", "canceled", "timeout"} : job' = [job EXCEPT !.result = r]
  BY DEF Login!Challenge
<1>2. /\ active' \in BOOLEAN /\ orphaned' \in BOOLEAN
      /\ loginPc' = "show" => active'
      /\ loginPc' = "done" => ~active' /\ orphaned'
  <2>1. ~active /\ active \in BOOLEAN /\ orphaned \in BOOLEAN
    BY <1>1, LoginFields DEF LoginInv, SessionInv
  <2>2. CASE active' = TRUE /\ orphaned' = orphaned /\ loginPc' = "show"
    BY <2>1, <2>2
  <2>3. CASE UNCHANGED <<active, orphaned>> /\ loginPc' = "cancel"
    BY <2>1, <2>3
  <2>4. CASE active' = active /\ orphaned' = TRUE /\ loginPc' = "done"
    BY <2>1, <2>4
  <2> QED
    BY <2>2, <2>3, <2>4 DEF Login!Challenge
<1>3. SessionInv'
  BY <1>1, <1>2 DEF SessionInv
<1>4. remote' \in Login!Remotes /\ left' \in 0 .. Budget /\ due' \in BOOLEAN
  BY <1>1, LoginFields
<1> QED
  BY <1>1, <1>2, <1>3, <1>4, LoginKeeps DEF Login!PCs

\* The steps of a session that is in the map: it stays there, or is canceled next.
LEMMA LoginSessionStep ==
  ASSUME LoginInv,
         Login!Show \/ Login!Paste \/ Login!Submit \/ Login!Wait \/ Login!Status
  PROVE  LoginInv'
<1>1. /\ loginPc \in InSession /\ loginPc' \in InSession \cup {"cancel", "router", "verify"}
      /\ UNCHANGED <<usable, others, gained, remote, active, orphaned, left>>
      /\ job' = job \/ \E r \in {"failed", "canceled", "timeout"} : job' = [job EXCEPT !.result = r]
      /\ loginPc' = "verify" => remote # "pending"
  BY DEF Login!Show, Login!Paste, Login!Submit, Login!Wait, Login!Status, Login!SameDeadline
<1>2. due' \in BOOLEAN
  BY LoginFields DEF Login!Show, Login!Paste, Login!Submit, Login!Wait, Login!Status
<1>3. SessionInv'
  BY <1>1 DEF LoginInv, SessionInv
<1>4. remote' \in Login!Remotes /\ left' \in 0 .. Budget /\ active' \in BOOLEAN /\ orphaned' \in BOOLEAN
  BY <1>1, LoginFields
<1> QED
  BY <1>1, <1>2, <1>3, <1>4, LoginKeeps DEF Login!PCs

LEMMA LoginImportStep ==
  ASSUME LoginInv, Login!ImportVertex
  PROVE  LoginInv'
<1>1. /\ loginPc = "import" /\ loginPc' \in {"verify", "done"}
      /\ UNCHANGED <<others, remote, active, left, due, orphaned>>
      /\ job' = job \/ job' = [job EXCEPT !.result = "failed"]
  BY DEF Login!ImportVertex
<1>2. /\ usable' \subseteq Files /\ gained' \subseteq Files
      /\ \A f : f \in usable' \ usable => f \in gained'
      /\ gained \subseteq gained'
  BY LoginFields DEF Login!ImportVertex
<1>3. job' \in Login!Jobs /\ job'.before = job.before /\ job'.result # "complete"
  <2>1. job \in Login!Jobs /\ job.result # "complete"
    BY <1>1, LoginFields DEF LoginInv, GainInv
  <2> QED
    BY <1>1, <2>1, JobEnds DEF Login!Results
<1>4. Login!TypeOK'
  BY <1>1, <1>2, <1>3 DEF LoginInv, Login!TypeOK, Login!PCs
<1>5. SessionInv'
  BY <1>1 DEF LoginInv, SessionInv
<1>6. GainInv'
  BY <1>1, <1>2, <1>3 DEF LoginInv, GainInv
<1> QED
  BY <1>4, <1>5, <1>6 DEF LoginInv

LEMMA LoginVerifyStep ==
  ASSUME LoginInv, Login!Verify
  PROVE  LoginInv'
<1>1. /\ loginPc = "verify" /\ UNCHANGED <<usable, others, gained, remote, left, due, orphaned>>
      /\ loginPc' \in {"done", "router"} /\ remote # "pending" /\ usable \ job.before \subseteq gained
  BY DEF Login!Verify, LoginInv, SessionInv, GainInv
<1>2. active' \in BOOLEAN /\ ~active'
  BY DEF Login!Verify
<1>3. PICK r \in {"complete", "failed"} :
        /\ job' = [job EXCEPT !.result = r]
        /\ r = "complete" => loginPc' = "done" /\ usable \ job.before # {}
  BY DEF Login!Verify, Login!NewlyUsable
<1>4. job' \in Login!Jobs /\ job'.before = job.before /\ job'.result = r
  BY <1>3, JobEnds, LoginFields DEF Login!Results
<1>5. Login!TypeOK'
  BY <1>1, <1>2, <1>4 DEF LoginInv, Login!TypeOK, Login!PCs
<1>6. SessionInv'
  BY <1>1, <1>2 DEF SessionInv
<1>7. GainInv'
  BY <1>1, <1>3, <1>4 DEF GainInv
<1> QED
  BY <1>5, <1>6, <1>7 DEF LoginInv

\* Both ways to cancel leave no session, or know that the request was lost.
LEMMA LoginCancelStep ==
  ASSUME LoginInv, Login!CancelState \/ Login!Router
  PROVE  LoginInv'
<1>1. /\ loginPc \in {"cancel", "router"} /\ loginPc' = "done" /\ job' = job
      /\ UNCHANGED <<usable, others, gained, left, due>>
  BY DEF Login!CancelState, Login!Router
<1>2. /\ active' \in BOOLEAN /\ ~active' /\ orphaned' \in BOOLEAN /\ remote' \in Login!Remotes
      /\ remote' = "pending" => orphaned'
  <2>1. CASE active' = FALSE /\ Login!CancelRemote
    BY <2>1, LoginFields DEF Login!CancelRemote, Login!Remotes
  <2>2. CASE loginPc = "router" /\ ~active /\ UNCHANGED <<active, remote, orphaned>>
    BY <2>2, LoginFields DEF LoginInv, SessionInv
  <2> QED
    BY <2>1, <2>2 DEF Login!CancelState, Login!Router, Login!RouterCancels
<1>3. SessionInv'
  BY <1>1, <1>2 DEF SessionInv
<1>4. left' \in 0 .. Budget /\ due' \in BOOLEAN
  BY <1>1, LoginFields
<1> QED
  BY <1>1, <1>2, <1>3, <1>4, LoginKeeps DEF Login!PCs

\* A login that is reported, or killed.
LEMMA LoginLeaveStep ==
  ASSUME LoginInv, Login!Report \/ Login!Die
  PROVE  LoginInv'
<1>1. /\ loginPc' = "idle" /\ job' = Login!NoJob /\ left' = 0 /\ UNCHANGED <<usable, others, gained>>
      /\ remote' \in Login!Remotes
  BY LoginFields DEF Login!Report, Login!Die, Login!Remotes
<1>2. due' \in BOOLEAN /\ orphaned' \in BOOLEAN /\ active' \in BOOLEAN /\ ~active'
  <2>1. due' = FALSE /\ orphaned' = FALSE
    BY DEF Login!Report, Login!Die
  <2>2. CASE loginPc = "done" /\ active' = active
    BY <2>1, <2>2, LoginFields DEF LoginInv, SessionInv
  <2>3. CASE active' = FALSE
    BY <2>1, <2>3
  <2> QED
    BY <2>2, <2>3 DEF Login!Report, Login!Die
<1>3. job' \in Login!Jobs /\ job'.result = "none"
  BY <1>1 DEF Login!NoJob, Login!Jobs, Login!Results
<1>4. Login!TypeOK'
  BY <1>1, <1>2, <1>3 DEF LoginInv, Login!TypeOK, Login!PCs
<1>5. SessionInv'
  BY <1>1, <1>2 DEF SessionInv
<1>6. GainInv'
  BY <1>1, <1>3 DEF GainInv
<1> QED
  BY <1>4, <1>5, <1>6 DEF LoginInv

\* Time, the user at the provider's page, and others.
LEMMA LoginWorldStep ==
  ASSUME LoginInv, Login!Tick \/ Login!Authorize \/ Login!Reject \/ Login!Others
  PROVE  LoginInv'
<1>1. UNCHANGED <<active, loginPc, job, orphaned>>
  BY DEF Login!Tick, Login!Authorize, Login!Reject, Login!Others
<1>2. /\ usable' \subseteq Files /\ gained' \subseteq Files
      /\ \A f : f \in usable' \ usable => f \in gained'
      /\ gained \subseteq gained'
  BY LoginFields DEF Login!Tick, Login!Authorize, Login!Reject, Login!Others
<1>3. remote' \in Login!Remotes /\ (remote' = "pending" => remote = "pending")
  BY LoginFields DEF Login!Tick, Login!Authorize, Login!Reject, Login!Others, Login!Remotes
<1>4. left' \in 0 .. Budget
  BY LoginFields DEF Login!Tick, Login!Authorize, Login!Reject, Login!Others
<1>5. due' \in BOOLEAN
  BY LoginFields DEF Login!Tick, Login!Authorize, Login!Reject, Login!Others
<1>6. others' \in 0 .. MaxOthers
  BY LoginFields DEF Login!Tick, Login!Authorize, Login!Reject, Login!Others
<1>7. Login!TypeOK'
  BY <1>1, <1>2, <1>3, <1>4, <1>5, <1>6 DEF LoginInv, Login!TypeOK
<1>8. SessionInv'
  BY <1>1, <1>3 DEF LoginInv, SessionInv
<1>9. GainInv'
  BY <1>1, <1>2 DEF LoginInv, GainInv
<1> QED
  BY <1>7, <1>8, <1>9 DEF LoginInv

LEMMA LoginNext ==
  ASSUME LoginInv, Login!Next
  PROVE  LoginInv'
BY LoginStartStep, LoginSnapshotStep, LoginBeginStep, LoginChallengeStep, LoginSessionStep, LoginImportStep,
   LoginVerifyStep, LoginCancelStep, LoginLeaveStep, LoginWorldStep
DEF Login!Next, Login!Step

LEMMA LoginStays ==
  ASSUME LoginInv, UNCHANGED loginVars
  PROVE  LoginInv'
<1>0. UNCHANGED <<usable, remote, active, loginPc, job, left, due, others, gained, orphaned>>
  BY DEF loginVars
<1>1. Login!TypeOK'
  BY <1>0 DEF LoginInv, Login!TypeOK
<1>2. SessionInv'
  BY <1>0 DEF LoginInv, SessionInv
<1>3. GainInv'
  BY <1>0 DEF LoginInv, GainInv
<1> QED
  BY <1>1, <1>2, <1>3 DEF LoginInv

LEMMA LoginBegins ==
  ASSUME Login!Init
  PROVE  LoginInv
<1>0. /\ usable = {} /\ remote = "none" /\ loginPc = "idle" /\ job = Login!NoJob /\ left = 0
      /\ others = 0 /\ gained = {}
  BY DEF Login!Init
<1>1. active \in BOOLEAN /\ ~active /\ due \in BOOLEAN /\ orphaned \in BOOLEAN
  BY DEF Login!Init
<1>2. job \in Login!Jobs /\ job.result = "none"
  BY <1>0 DEF Login!NoJob, Login!Jobs, Login!Results
<1>3. Login!TypeOK
  BY <1>0, <1>1, <1>2 DEF Login!TypeOK, Login!PCs, Login!Remotes
<1>4. SessionInv
  BY <1>0, <1>1 DEF SessionInv
<1>5. GainInv
  BY <1>0, <1>2 DEF GainInv
<1> QED
  BY <1>3, <1>4, <1>5 DEF LoginInv

HIDE DEF Login!world, Login!clock, Login!Go, Login!Finish, Unbegun, InSession

LEMMA LoginMovesOn ==
  ASSUME LoginInv, WaitingMoves
  PROVE  LoginInv'
BY WaitingMovesAre, LoginNext, LoginStays

\* The invariant of a login: where its session is known and to whom, and what became usable
\* since its snapshot (auth.go:537, router.go:604).
THEOREM LoginInvariance == WaitingSpec => []LoginInv
<1>1. WaitingInit => LoginInv
  BY LoginBegins DEF WaitingInit
<1> QED
  BY <1>1, LoginMovesOn, PTL DEF WaitingSpec, WaitingMoves

\* However a login ends, with an account, an error, an interrupt or at its deadline, the
\* authenticator has forgotten its session and the proxy waits for no answer, unless a
\* request was lost; and it is complete only if an account became usable since it began
\* (auth.go:537, :629; router.go:604).
THEOREM LoginsAreOver == WaitingSpec => []LoginIsOver
<1>1. LoginInv => LoginIsOver
  BY DEF LoginInv, SessionInv, GainInv, LoginIsOver, Login!LoginLeavesNothing, Login!CompleteIsNew, InSession
<1> QED
  BY <1>1, LoginInvariance, PTL

-----------------------------------------------------------------------------
(* Following a log                                                         *)

Viewing == {"scan", "done"}

LogTypes ==
  /\ Logs!TypeOK
  /\ lines \in Seq(Nat) /\ updates \in Seq(Nat) /\ pipe \in Seq(Nat)
  /\ retained \in Seq(Nat) /\ shown \in Seq(Nat)

\* The lines after a, in a row.
Run(s, a) == \A k \in 1 .. Len(s) : s[k] = a + k

\* The lines that were taken out of the channel, and those of them that were read.
Taken == written - Len(updates)
Passed == Taken - Len(pipe)

\* What begins and ends with what.
FlowInv ==
  /\ viewPc = "idle" => ~subscribed /\ updates = <<>> /\ shown = <<>> /\ copier = "none"
  /\ viewPc = "done" => pipe = <<>> /\ copier = "closed"
  /\ request.follow /\ viewPc \in Viewing =>
       /\ ~subscribed => finished
       /\ copier = "closed" /\ ~canceled => updates = <<>> /\ finished
       /\ \A i \in 1 .. Len(retained) : retained[i] = 0

\* The buffer ends with the last line.
LinesInv == Len(lines) <= written /\ Run(lines, written - Len(lines))

Following == request.follow /\ viewPc \in Viewing /\ ~dropped

\* So does the channel, and the pipe ends where the channel begins.
RunsInv ==
  Following =>
    /\ first <= Passed + 1
    /\ Run(updates, Taken)
    /\ Run(pipe, Passed)

\* What was shown ends where the pipe begins.
SeenInv ==
  Following =>
    /\ \A i \in 1 .. Len(shown) :
         shown[i] > 0 => first <= shown[i] /\ shown[i] <= Passed /\ shown[i] \in request.wanted
    /\ \A n \in request.wanted :
         first <= n /\ n <= Passed => \E i \in 1 .. Len(shown) : shown[i] = n
    /\ \A i, j \in 1 .. Len(shown) : i < j /\ shown[j] > 0 => shown[i] < shown[j]

LogInv == LogTypes /\ FlowInv /\ LinesInv /\ RunsInv /\ SeenInv

LEMMA RunAppends ==
  ASSUME NEW s \in Seq(Nat), NEW a \in Int, Run(s, a), NEW n \in Nat, n = a + Len(s) + 1
  PROVE  Append(s, n) \in Seq(Nat) /\ Len(Append(s, n)) = Len(s) + 1 /\ Run(Append(s, n), a)
<1>1. /\ Append(s, n) \in Seq(Nat) /\ Len(Append(s, n)) = Len(s) + 1 /\ Len(s) \in Nat
      /\ \A k \in 1 .. Len(s) : Append(s, n)[k] = s[k]
      /\ Append(s, n)[Len(s) + 1] = n
  OBVIOUS
<1>2. \A k \in 1 .. Len(s) : s[k] = a + k
  BY DEF Run
<1>3. ASSUME NEW k \in 1 .. Len(s) + 1
      PROVE  Append(s, n)[k] = a + k
  <2>1. CASE k = Len(s) + 1
    BY <1>1, <2>1
  <2>2. CASE k # Len(s) + 1
    <3>1. k \in 1 .. Len(s)
      BY <1>1, <2>2
    <3> QED
      BY <1>1, <1>2, <3>1
  <2> QED
    BY <2>1, <2>2
<1>4. Run(Append(s, n), a)
  BY <1>1, <1>3 DEF Run
<1> QED
  BY <1>1, <1>4

LEMMA TailIs ==
  ASSUME NEW s \in Seq(Nat), s # <<>>
  PROVE  /\ Head(s) = s[1] /\ Head(s) \in Nat /\ Tail(s) \in Seq(Nat) /\ Len(Tail(s)) = Len(s) - 1
         /\ Len(s) \in Nat \ {0} /\ \A k \in 1 .. Len(s) - 1 : Tail(s)[k] = s[k + 1]
<1>1. Len(s) \in Nat /\ Len(s) > 0
  OBVIOUS
<1> QED
  BY <1>1

LEMMA RunGoesOn ==
  ASSUME NEW s \in Seq(Nat), s # <<>>, NEW a \in Int, Run(s, a)
  PROVE  Head(s) = a + 1 /\ Run(Tail(s), a + 1)
<1> DEFINE t == Tail(s)
<1>1. /\ Head(s) = s[1] /\ Len(t) = Len(s) - 1 /\ Len(s) \in Nat \ {0}
      /\ \A k \in 1 .. Len(s) - 1 : t[k] = s[k + 1]
  BY TailIs
<1> HIDE DEF t
<1>2. \A k \in 1 .. Len(s) : s[k] = a + k
  BY DEF Run
<1>3. ASSUME NEW k \in 1 .. Len(t)
      PROVE  t[k] = a + 1 + k
  <2>1. k \in 1 .. Len(s) - 1 /\ k + 1 \in 1 .. Len(s)
    BY <1>1
  <2>2. t[k] = a + (k + 1)
    BY <1>1, <1>2, <2>1
  <2> QED
    BY <1>1, <2>2
<1>4. Run(t, a + 1)
  BY <1>3 DEF Run
<1> QED
  BY <1>1, <1>2, <1>4 DEF t

LEMMA LastOfIs ==
  ASSUME NEW s \in Seq(Nat), NEW n \in Nat
  PROVE  /\ Logs!LastOf(s, n) \in Seq(Nat)
         /\ Len(Logs!LastOf(s, n)) <= n /\ Len(Logs!LastOf(s, n)) <= Len(s)
         /\ \A k \in 1 .. Len(Logs!LastOf(s, n)) :
              Logs!LastOf(s, n)[k] = s[Len(s) - Len(Logs!LastOf(s, n)) + k]
<1>0. Len(s) \in Nat
  OBVIOUS
<1>1. CASE Len(s) <= n
  <2>1. Logs!LastOf(s, n) = s
    BY <1>1 DEF Logs!LastOf
  <2> QED
    BY <1>0, <1>1, <2>1
<1>2. CASE Len(s) > n
  <2> DEFINE u == SubSeq(s, Len(s) - n + 1, Len(s))
  <2>1. /\ u \in Seq(Nat) /\ Len(u) = n
        /\ \A k \in 1 .. n : u[k] = s[Len(s) - n + k]
    BY <1>0, <1>2
  <2>2. Logs!LastOf(s, n) = u
    BY <1>0, <1>2 DEF Logs!LastOf
  <2> HIDE DEF u
  <2>3. /\ u \in Seq(Nat) /\ Len(u) <= n /\ Len(u) <= Len(s)
        /\ \A k \in 1 .. Len(u) : u[k] = s[Len(s) - Len(u) + k]
    BY <1>0, <1>2, <2>1
  <2> QED
    BY <2>2, <2>3
<1> QED
  BY <1>0, <1>1, <1>2

LEMMA LastOfRun ==
  ASSUME NEW s \in Seq(Nat), NEW n \in Nat, NEW a \in Int, Run(s, a)
  PROVE  Run(Logs!LastOf(s, n), a + Len(s) - Len(Logs!LastOf(s, n)))
<1> DEFINE t == Logs!LastOf(s, n)
<1>1. /\ t \in Seq(Nat) /\ Len(t) <= Len(s)
      /\ \A k \in 1 .. Len(t) : t[k] = s[Len(s) - Len(t) + k]
  BY LastOfIs
<1> HIDE DEF t
<1>2. Len(t) \in Nat /\ Len(s) \in Nat
  BY <1>1
<1>3. ASSUME NEW k \in 1 .. Len(t)
      PROVE  t[k] = a + (Len(s) - Len(t) + k)
  <2>1. Len(s) - Len(t) + k \in 1 .. Len(s)
    BY <1>1, <1>2
  <2> QED
    BY <1>1, <2>1 DEF Run
<1>4. Run(t, a + Len(s) - Len(t))
  BY <1>2, <1>3 DEF Run
<1> QED
  BY <1>4 DEF t

LEMMA LogFields ==
  ASSUME LogInv
  PROVE  /\ written \in 0 .. MaxLines /\ written \in Nat /\ finished \in BOOLEAN
         /\ subscribed \in BOOLEAN /\ canceled \in BOOLEAN /\ dropped \in BOOLEAN
         /\ Len(lines) <= BufferSize /\ Len(updates) <= ChannelSize
         /\ copier \in {"none", "copying", "closed"} /\ viewPc \in {"idle", "scan", "done", "failed"}
         /\ request \in Logs!Requests /\ first \in 1 .. MaxLines + 1 /\ first \in Nat
         /\ lines \in Seq(Nat) /\ updates \in Seq(Nat) /\ pipe \in Seq(Nat)
         /\ retained \in Seq(Nat) /\ shown \in Seq(Nat)
         /\ Len(lines) \in Nat /\ Len(updates) \in Nat /\ Len(pipe) \in Nat
         /\ Taken \in Int /\ Passed \in Int
<1>1. /\ lines \in Seq(Nat) /\ updates \in Seq(Nat) /\ pipe \in Seq(Nat) /\ written \in 0 .. MaxLines
  BY DEF LogInv, LogTypes, Logs!TypeOK
<1>2. Len(lines) \in Nat /\ Len(updates) \in Nat /\ Len(pipe) \in Nat /\ written \in Nat
  BY <1>1
<1>3. Taken \in Int /\ Passed \in Int
  BY <1>2 DEF Taken, Passed
<1> QED
  BY <1>1, <1>2, <1>3 DEF LogInv, LogTypes, Logs!TypeOK

\* Where the channel and the pipe begin, as numbers.
LEMMA LogLengths ==
  ASSUME LogInv
  PROVE  written \in Nat /\ Len(lines) \in Nat /\ Len(updates) \in Nat /\ Len(pipe) \in Nat
BY LogFields

LEMMA RequestFields ==
  ASSUME NEW r \in Logs!Requests
  PROVE  r.follow \in BOOLEAN /\ r.lines \in Nat /\ r.wanted \subseteq Nat
<1>1. r.follow \in BOOLEAN /\ r.lines \in 0 .. 2
      /\ r.wanted \in {0 .. MaxLines, {n \in 0 .. MaxLines : n % 2 = 1}}
  BY DEF Logs!Requests
<1> QED
  BY <1>1

\* The core writes: a follower in the channel gets the line or is known to have missed it.
LEMMA LogWriteStep ==
  ASSUME LogInv, Logs!Write
  PROVE  LogInv'
<1>0. /\ ~finished /\ written < MaxLines /\ written' = written + 1
      /\ lines' = Logs!LastOf(Append(lines, written + 1), BufferSize)
      /\ UNCHANGED <<finished, subscribed, copier, pipe, viewPc, request, retained, shown, canceled, first>>
  BY DEF Logs!Write
<1>1. /\ Append(lines, written + 1) \in Seq(Nat) /\ Len(Append(lines, written + 1)) = Len(lines) + 1
      /\ Run(Append(lines, written + 1), written - Len(lines))
  BY LogFields, RunAppends DEF LogInv, LinesInv
<1>2. /\ lines' \in Seq(Nat) /\ Len(lines') <= BufferSize /\ Len(lines') <= Len(lines) + 1
      /\ Run(lines', written - Len(lines) + (Len(lines) + 1) - Len(lines')) /\ Len(lines') \in Nat
  <2> DEFINE s == Append(lines, written + 1)
             a == written - Len(lines)
  <2>1. s \in Seq(Nat) /\ Len(s) = Len(lines) + 1 /\ Run(s, a) /\ a \in Int /\ lines' = Logs!LastOf(s, BufferSize)
    BY <1>0, <1>1, LogLengths
  <2> HIDE DEF s
  <2>2. /\ lines' \in Seq(Nat) /\ Len(lines') <= BufferSize /\ Len(lines') <= Len(s)
        /\ Run(lines', a + Len(s) - Len(lines'))
    BY <2>1, LastOfIs, LastOfRun
  <2> QED
    BY <2>1, <2>2
<1>3. LinesInv'
  <2>1. /\ written \in Nat /\ Len(lines) \in Nat /\ Len(lines) <= written
        /\ written - Len(lines) + (Len(lines) + 1) - Len(lines') = written' - Len(lines')
    BY <1>0, <1>2, LogLengths DEF LogInv, LinesInv
  <2> QED
    BY <1>0, <1>2, <2>1 DEF LinesInv
<1>4. CASE /\ subscribed /\ Len(updates) < ChannelSize /\ updates' = Append(updates, written + 1)
           /\ UNCHANGED dropped
  <2>1. updates' \in Seq(Nat) /\ Len(updates') = Len(updates) + 1
    BY <1>4, LogFields
  <2>2. Taken' = Taken /\ Passed' = Passed
    <3>1. Taken' = Taken
      BY <1>0, <2>1, LogLengths DEF Taken
    <3> QED
      BY <1>0, <3>1 DEF Passed
  <2>3. LogTypes'
    BY <1>0, <1>2, <1>4, <2>1, LogFields DEF LogInv, LogTypes, Logs!TypeOK
  <2>4. FlowInv'
    <3>1. viewPc # "idle" /\ ~(request.follow /\ viewPc \in Viewing /\ copier = "closed" /\ ~canceled)
      BY <1>0, <1>4 DEF LogInv, FlowInv
    <3> QED
      BY <1>0, <1>4, <3>1 DEF LogInv, FlowInv
  <2>5. RunsInv'
    <3>1. Following' = Following
      BY <1>0, <1>4 DEF Following
    <3>2. ASSUME Following PROVE Run(updates', Taken)
      BY <1>4, <3>2, RunAppends, LogFields DEF LogInv, RunsInv, Taken
    <3> QED
      BY <1>0, <2>2, <3>1, <3>2 DEF LogInv, RunsInv
  <2>6. SeenInv'
    BY <1>0, <1>4, <2>2 DEF LogInv, SeenInv, Following
  <2> QED
    BY <1>3, <2>3, <2>4, <2>5, <2>6 DEF LogInv
<1>5. CASE ~(subscribed /\ Len(updates) < ChannelSize) /\ UNCHANGED updates /\ dropped' = (dropped \/ subscribed)
  <2>1. dropped' \in BOOLEAN /\ (subscribed => dropped')
    BY <1>5, LogFields
  <2>2. LogTypes'
    BY <1>0, <1>2, <1>5, <2>1, LogFields DEF LogInv, LogTypes, Logs!TypeOK
  <2>3. FlowInv'
    BY <1>0, <1>5 DEF LogInv, FlowInv, Viewing
  <2>4. ~Following'
    BY <1>0, <2>1 DEF LogInv, FlowInv, Following
  <2> QED
    BY <1>3, <2>2, <2>3, <2>4 DEF LogInv, RunsInv, SeenInv
<1> QED
  BY <1>4, <1>5, <1>0 DEF Logs!Write

LEMMA LogFinishStep ==
  ASSUME LogInv, Logs!Finish
  PROVE  LogInv'
<1>0. /\ subscribed' = FALSE /\ finished' = TRUE
      /\ UNCHANGED <<written, lines, updates, copier, pipe, viewPc, request, retained, shown, canceled, first,
                     dropped>>
  BY DEF Logs!Finish, Logs!history
<1>1. subscribed' \in BOOLEAN /\ finished' \in BOOLEAN /\ finished'
  BY <1>0
<1>2. LogTypes'
  BY <1>0, <1>1 DEF LogInv, LogTypes, Logs!TypeOK
<1>3. FlowInv'
  BY <1>0, <1>1 DEF LogInv, FlowInv
<1>4. LinesInv' /\ RunsInv' /\ SeenInv'
  BY <1>0 DEF LogInv, LinesInv, RunsInv, SeenInv, Following, Taken, Passed
<1> QED
  BY <1>2, <1>3, <1>4 DEF LogInv

\* The goroutine moves a line on, or stops.
LEMMA LogCopyStep ==
  ASSUME LogInv, Logs!Copy
  PROVE  LogInv'
<1>0. /\ copier = "copying" /\ pipe = <<>>
      /\ UNCHANGED <<written, lines, finished, subscribed, viewPc, request, retained, shown, canceled, first,
                     dropped>>
  BY DEF Logs!Copy, Logs!buffer, Logs!history
<1>1. CASE /\ copier' = "closed" /\ UNCHANGED <<pipe, updates>>
           /\ canceled \/ (updates = <<>> /\ finished)
  <2>1. LogTypes'
    BY <1>0, <1>1 DEF LogInv, LogTypes, Logs!TypeOK
  <2>2. FlowInv'
    BY <1>0, <1>1 DEF LogInv, FlowInv
  <2>3. LinesInv' /\ RunsInv' /\ SeenInv'
    BY <1>0, <1>1 DEF LogInv, LinesInv, RunsInv, SeenInv, Following, Taken, Passed
  <2> QED
    BY <2>1, <2>2, <2>3 DEF LogInv
<1>2. CASE updates # <<>> /\ pipe' = <<Head(updates)>> /\ updates' = Tail(updates) /\ UNCHANGED copier
  <2>1. /\ updates' \in Seq(Nat) /\ Len(updates') = Len(updates) - 1 /\ Head(updates) \in Nat
        /\ Len(pipe) = 0 /\ Len(pipe') = 1 /\ pipe' \in Seq(Nat) /\ pipe'[1] = Head(updates)
    <3>1. updates \in Seq(Nat) /\ updates # <<>>
      BY <1>2, LogFields
    <3>2. Tail(updates) \in Seq(Nat) /\ Len(Tail(updates)) = Len(updates) - 1 /\ Head(updates) \in Nat
      BY <3>1, TailIs
    <3>3. \A m \in Nat : <<m>> \in Seq(Nat) /\ Len(<<m>>) = 1 /\ <<m>>[1] = m
      OBVIOUS
    <3> QED
      BY <1>0, <1>2, <3>2, <3>3
  <2>2. Taken' = Taken + 1 /\ Passed' = Passed /\ Passed = Taken
    <3>1. Taken' = Taken + 1 /\ Taken \in Int
      BY <1>0, <2>1, LogLengths DEF Taken
    <3> QED
      BY <1>0, <2>1, <3>1 DEF Passed
  <2>3. LogTypes'
    BY <1>0, <1>2, <2>1, LogFields DEF LogInv, LogTypes, Logs!TypeOK
  <2>4. FlowInv'
    BY <1>0, <1>2 DEF LogInv, FlowInv
  <2>5. RunsInv'
    <3>1. Following' = Following
      BY <1>0 DEF Following
    <3>2. ASSUME Following
          PROVE  Run(updates', Taken + 1) /\ Head(updates) = Taken + 1
      BY <1>2, <3>2, RunGoesOn, LogFields DEF LogInv, RunsInv
    <3>3. ASSUME Following
          PROVE  Run(pipe', Passed)
      BY <2>1, <2>2, <3>2, <3>3, LogFields DEF Run
    <3> QED
      BY <1>0, <2>2, <3>1, <3>2, <3>3 DEF LogInv, RunsInv
  <2>6. LinesInv' /\ SeenInv'
    BY <1>0, <2>2 DEF LogInv, LinesInv, SeenInv, Following
  <2> QED
    BY <2>3, <2>4, <2>5, <2>6 DEF LogInv
<1> QED
  BY <1>1, <1>2 DEF Logs!Copy

LEMMA LogCopyFailsStep ==
  ASSUME LogInv, Logs!CopyFails
  PROVE  LogInv'
<1>0. /\ copier = "copying" /\ viewPc \in {"done", "failed"} /\ copier' = "closed" /\ pipe' = <<>>
      /\ UNCHANGED <<written, lines, finished, subscribed, updates, viewPc, request, retained, shown, canceled,
                     first, dropped>>
  BY DEF Logs!CopyFails, Logs!buffer, Logs!channel, Logs!history
<1>1. viewPc = "failed"
  BY <1>0 DEF LogInv, FlowInv
<1>2. LogTypes'
  BY <1>0 DEF LogInv, LogTypes, Logs!TypeOK
<1>3. FlowInv' /\ ~Following'
  BY <1>0, <1>1 DEF FlowInv, Following, Viewing
<1>4. LinesInv' /\ RunsInv' /\ SeenInv'
  BY <1>0, <1>3 DEF LogInv, LinesInv, RunsInv, SeenInv
<1> QED
  BY <1>2, <1>3, <1>4 DEF LogInv

\* The snapshot is the end of the buffer, and the first line to see is its first.
LEMMA LogOpenStep ==
  ASSUME LogInv, Logs!Open
  PROVE  LogInv'
<1>0. /\ viewPc = "idle" /\ request' \in Logs!Requests /\ updates = <<>> /\ shown = <<>> /\ copier = "none"
      /\ ~subscribed
      /\ UNCHANGED <<written, lines, finished, updates, shown, canceled, dropped>>
  BY DEF Logs!Open, Logs!buffer, LogInv, FlowInv
<1>1. CASE viewPc' = "failed" /\ UNCHANGED <<retained, pipe, copier, subscribed, first>>
  <2>1. LogTypes'
    BY <1>0, <1>1 DEF LogInv, LogTypes, Logs!TypeOK
  <2>2. FlowInv' /\ ~Following'
    BY <1>0, <1>1 DEF FlowInv, Following, Viewing
  <2>3. LinesInv' /\ RunsInv' /\ SeenInv'
    BY <1>0, <2>2 DEF LogInv, LinesInv, RunsInv, SeenInv
  <2> QED
    BY <2>1, <2>2, <2>3 DEF LogInv
<1>2. CASE /\ viewPc' = "scan"
           /\ retained' = IF request'.lines > 0 THEN <<0>> ELSE <<>>
           /\ pipe' = Logs!Snapshot(request'.lines)
           /\ copier' = IF request'.follow /\ ~finished THEN "copying" ELSE "closed"
           /\ subscribed' = (request'.follow /\ ~finished)
           /\ first' = written + 1 - Len(pipe')
  <2>0. /\ request'.lines \in Nat /\ request'.follow \in BOOLEAN
        /\ written \in Nat /\ Len(lines) \in Nat /\ Len(lines) <= written /\ Len(updates) = 0
        /\ lines \in Seq(Nat) /\ Run(lines, written - Len(lines)) /\ finished \in BOOLEAN
    BY <1>0, RequestFields, LogFields DEF LogInv, LinesInv
  <2>1. /\ pipe' \in Seq(Nat) /\ Len(pipe') \in Nat /\ Len(pipe') <= Len(lines)
        /\ Run(pipe', written - Len(pipe'))
    <3>1. CASE request'.lines > 0
      <4>1. pipe' = Logs!LastOf(lines, request'.lines)
        BY <1>2, <3>1 DEF Logs!Snapshot
      <4>2. pipe' \in Seq(Nat) /\ Len(pipe') <= Len(lines)
        BY <2>0, <4>1, LastOfIs
      <4>3. Run(pipe', written - Len(lines) + Len(lines) - Len(pipe'))
        <5>1. written - Len(lines) \in Int
          BY <2>0
        <5> QED
          BY <2>0, <4>1, <5>1, LastOfRun
      <4>4. Len(pipe') \in Nat /\ written - Len(lines) + Len(lines) - Len(pipe') = written - Len(pipe')
        BY <2>0, <4>2
      <4> QED
        BY <4>2, <4>3, <4>4
    <3>2. CASE ~(request'.lines > 0)
      BY <1>2, <2>0, <3>2 DEF Logs!Snapshot
    <3> QED
      BY <3>1, <3>2
  <2>2. first' \in 1 .. MaxLines + 1
    <3>1. written \in 0 .. MaxLines
      BY LogFields
    <3> QED
      BY <1>2, <2>0, <2>1, <3>1
  <2>3. retained' \in Seq(Nat) /\ \A i \in 1 .. Len(retained') : retained'[i] = 0
    <3>1. CASE retained' = <<0>>
      BY <3>1
    <3>2. CASE retained' = <<>>
      BY <3>2
    <3> QED
      BY <1>2, <3>1, <3>2
  <2>4. subscribed' \in BOOLEAN /\ (request'.follow /\ ~subscribed' => finished')
    BY <1>0, <1>2, <2>0
  <2>5. copier' \in {"copying", "closed"} /\ (copier' = "closed" /\ request'.follow => finished')
    BY <1>0, <1>2
  <2>6. LogTypes'
    BY <1>0, <1>2, <2>1, <2>2, <2>3, <2>4, <2>5 DEF LogInv, LogTypes, Logs!TypeOK
  <2>7. FlowInv'
    BY <1>0, <1>2, <2>3, <2>4, <2>5 DEF FlowInv
  <2>8. LinesInv'
    BY <1>0 DEF LogInv, LinesInv
  <2>9. Taken' = written /\ Passed' = written - Len(pipe') /\ first' = Passed' + 1
    <3>1. Len(updates') = 0 /\ written' = written
      BY <1>0, <2>0
    <3>2. Taken' = written
      BY <2>0, <3>1 DEF Taken
    <3>3. Passed' = written - Len(pipe')
      BY <3>2 DEF Passed
    <3> QED
      BY <1>2, <2>0, <2>1, <3>2, <3>3
  <2>10. RunsInv'
    <3>1. Run(updates', Taken')
      BY <1>0, <2>0 DEF Run
    <3> QED
      BY <2>0, <2>1, <2>9, <3>1 DEF RunsInv
  <2>11. SeenInv'
    <3>1. Len(shown') = 0 /\ Passed' \in Int
      BY <1>0, <2>0, <2>1, <2>9
    <3>2. request'.wanted \subseteq Nat
      BY <1>0, RequestFields
    <3> QED
      BY <2>9, <3>1, <3>2 DEF SeenInv
  <2> QED
    BY <2>6, <2>7, <2>8, <2>10, <2>11 DEF LogInv
<1> QED
  BY <1>0, <1>1, <1>2 DEF Logs!Open

\* A line is read: the next one after those that were shown.
LEMMA LogScanStep ==
  ASSUME LogInv, Logs!Scan
  PROVE  LogInv'
<1> DEFINE n == Head(pipe)
<1>0. /\ viewPc = "scan" /\ pipe # <<>> /\ pipe' = Tail(pipe)
      /\ UNCHANGED <<written, lines, finished, subscribed, updates, copier, request, canceled, first, dropped>>
  BY DEF Logs!Scan, Logs!buffer, Logs!channel, Logs!history
<1>1. /\ pipe' \in Seq(Nat) /\ Len(pipe') = Len(pipe) - 1 /\ n \in Nat /\ Taken' = Taken /\ Passed' = Passed + 1
      /\ Passed \in Int
  <2>1. pipe' \in Seq(Nat) /\ Len(pipe') = Len(pipe) - 1 /\ n \in Nat /\ Len(pipe) \in Nat
    <3>1. pipe \in Seq(Nat)
      BY LogFields
    <3> QED
      BY <1>0, <3>1, TailIs
  <2>2. Taken' = Taken /\ Taken \in Int
    BY <1>0, LogLengths DEF Taken
  <2>3. Passed' = Passed + 1 /\ Passed \in Int
    BY <2>1, <2>2 DEF Passed
  <2> QED
    BY <2>1, <2>2, <2>3
<1>2. Following => n = Passed + 1 /\ Run(pipe', Passed + 1)
  BY <1>0, <1>1, RunGoesOn, LogFields DEF LogInv, RunsInv
<1>3. /\ request.lines \in Nat /\ request.follow \in BOOLEAN /\ request.wanted \subseteq Nat
      /\ shown \in Seq(Nat) /\ retained \in Seq(Nat)
  BY LogFields, RequestFields
<1>4. /\ viewPc' \in {"scan", "failed"}
      /\ \/ shown' = shown /\ (n \notin request.wanted \/ ~request.follow \/ viewPc' = "failed")
         \/ shown' = Append(shown, n) /\ n \in request.wanted /\ request.follow
      /\ retained' = retained \/ (~request.follow /\ retained' = Logs!LastOf(Append(retained, n), request.lines))
  <2>1. CASE n \in request.wanted /\ Logs!Accept(n) /\ UNCHANGED viewPc
    <3>1. CASE request.follow
      BY <1>0, <2>1, <3>1 DEF Logs!Accept
    <3>2. CASE ~request.follow
      BY <1>0, <2>1, <3>2 DEF Logs!Accept
    <3> QED
      BY <3>1, <3>2
  <2>2. CASE n \notin request.wanted /\ UNCHANGED <<retained, shown, viewPc>>
    BY <1>0, <2>2
  <2>3. CASE viewPc' = "failed" /\ UNCHANGED <<retained, shown>>
    BY <2>3
  <2> QED
    BY <2>1, <2>2, <2>3 DEF Logs!Scan
<1>5. shown' \in Seq(Nat) /\ retained' \in Seq(Nat)
  <2>1. Append(retained, n) \in Seq(Nat) /\ Append(shown, n) \in Seq(Nat)
    BY <1>1, <1>3
  <2>2. Logs!LastOf(Append(retained, n), request.lines) \in Seq(Nat)
    BY <1>3, <2>1, LastOfIs
  <2> QED
    BY <1>3, <1>4, <2>1, <2>2
<1>6. LogTypes'
  BY <1>0, <1>1, <1>4, <1>5 DEF LogInv, LogTypes, Logs!TypeOK
<1>7. FlowInv'
  BY <1>0, <1>4 DEF LogInv, FlowInv, Viewing
<1>8. LinesInv'
  BY <1>0 DEF LogInv, LinesInv
<1>9. Following' => Following /\ viewPc' = "scan" /\ request.follow
  BY <1>0, <1>4 DEF Following, Viewing
<1>10. RunsInv'
  <2>1. ASSUME Following
        PROVE  first <= Passed + 1 + 1 /\ Run(updates, Taken)
    <3>1. first <= Passed + 1 /\ Run(updates, Taken) /\ first \in Nat
      BY <2>1, LogFields DEF LogInv, RunsInv
    <3> QED
      BY <1>1, <3>1
  <2> QED
    BY <1>0, <1>1, <1>2, <1>9, <2>1 DEF RunsInv
<1>11. SeenInv'
  <2> SUFFICES ASSUME Following' PROVE SeenInv'
    BY DEF SeenInv
  <2>1. /\ Following /\ n = Passed + 1 /\ first <= Passed + 1 /\ first \in Nat /\ request.follow
        /\ viewPc' = "scan" /\ request' = request /\ first' = first /\ Passed' = n
    BY <1>0, <1>1, <1>2, <1>9, LogFields DEF LogInv, RunsInv
  <2>2. /\ \A i \in 1 .. Len(shown) :
             shown[i] > 0 => first <= shown[i] /\ shown[i] <= Passed /\ shown[i] \in request.wanted
        /\ \A m \in request.wanted :
             first <= m /\ m <= Passed => \E i \in 1 .. Len(shown) : shown[i] = m
        /\ \A i, j \in 1 .. Len(shown) : i < j /\ shown[j] > 0 => shown[i] < shown[j]
        /\ Len(shown) \in Nat /\ \A i \in 1 .. Len(shown) : shown[i] \in Nat
    BY <1>3, <2>1 DEF LogInv, SeenInv
  <2>3. CASE shown' = shown /\ n \notin request.wanted
    <3>1. \A i \in 1 .. Len(shown) :
            shown[i] > 0 => first <= shown[i] /\ shown[i] <= n /\ shown[i] \in request.wanted
      BY <1>1, <2>1, <2>2
    <3>2. \A m \in request.wanted :
            first <= m /\ m <= n => \E i \in 1 .. Len(shown) : shown[i] = m
      <4>1. ASSUME NEW m \in request.wanted, first <= m, m <= n
            PROVE  m <= Passed /\ first <= m
        BY <1>1, <1>3, <2>1, <2>3, <4>1
      <4> QED
        BY <2>2, <4>1
    <3> QED
      BY <2>1, <2>2, <2>3, <3>1, <3>2 DEF SeenInv
  <2>4. CASE shown' = Append(shown, n) /\ n \in request.wanted
    <3>0. /\ Len(shown') = Len(shown) + 1 /\ shown'[Len(shown) + 1] = n
          /\ \A i \in 1 .. Len(shown) : shown'[i] = shown[i]
      BY <1>1, <1>3, <2>4
    <3>1. \A i \in 1 .. Len(shown') :
            shown'[i] > 0 => first <= shown'[i] /\ shown'[i] <= n /\ shown'[i] \in request.wanted
      BY <1>1, <2>1, <2>2, <2>4, <3>0
    <3>2. \A m \in request.wanted :
            first <= m /\ m <= n => \E i \in 1 .. Len(shown') : shown'[i] = m
      <4>1. ASSUME NEW m \in request.wanted, first <= m, m <= n
            PROVE  \E i \in 1 .. Len(shown') : shown'[i] = m
        <5>1. CASE m = n
          BY <2>2, <3>0, <5>1
        <5>2. CASE m # n
          <6>1. m <= Passed
            BY <1>1, <1>3, <2>1, <4>1, <5>2
          <6>2. PICK i \in 1 .. Len(shown) : shown[i] = m
            BY <2>2, <4>1, <6>1
          <6> QED
            BY <2>2, <3>0, <6>2
        <5> QED
          BY <5>1, <5>2
      <4> QED
        BY <4>1
    <3>3. \A i, j \in 1 .. Len(shown') : i < j /\ shown'[j] > 0 => shown'[i] < shown'[j]
      <4>1. ASSUME NEW i \in 1 .. Len(shown), NEW j \in 1 .. Len(shown) + 1, i < j, shown'[j] > 0
            PROVE  shown'[i] < shown'[j]
        <5>1. CASE j = Len(shown) + 1
          <6>1. shown[i] \in Nat /\ (shown[i] > 0 => shown[i] <= Passed)
            BY <2>2
          <6>2. shown'[j] = n /\ shown'[i] = shown[i]
            BY <3>0, <5>1
          <6> HIDE DEF n
          <6> QED
            BY <1>1, <2>1, <4>1, <6>1, <6>2
        <5>2. CASE j # Len(shown) + 1
          <6>1. j \in 1 .. Len(shown)
            BY <2>2, <5>2
          <6> QED
            BY <2>2, <3>0, <4>1, <6>1
        <5> QED
          BY <5>1, <5>2
      <4>2. \A i, j \in 1 .. Len(shown') : i < j => i \in 1 .. Len(shown) /\ j \in 1 .. Len(shown) + 1
        BY <2>2, <3>0
      <4> QED
        BY <4>1, <4>2
    <3> QED
      BY <2>1, <3>1, <3>2, <3>3 DEF SeenInv
  <2> QED
    BY <1>4, <2>1, <2>3, <2>4
<1> QED
  BY <1>6, <1>7, <1>8, <1>10, <1>11 DEF LogInv

\* The end: what other sources gave comes last.
LEMMA LogFlushStep ==
  ASSUME LogInv, Logs!Flush
  PROVE  LogInv'
<1>0. /\ viewPc = "scan" /\ pipe = <<>> /\ copier = "closed"
      /\ UNCHANGED <<written, lines, finished, subscribed, updates, copier, pipe, request, retained, canceled,
                     first, dropped>>
  BY DEF Logs!Flush, Logs!buffer, Logs!channel, Logs!history
<1> DEFINE rest == Logs!LastOf(retained, request.lines)
<1>1. /\ shown \in Seq(Nat) /\ retained \in Seq(Nat) /\ request.lines \in Nat
      /\ rest \in Seq(Nat) /\ Len(rest) <= Len(retained)
      /\ \A k \in 1 .. Len(rest) : rest[k] = retained[Len(retained) - Len(rest) + k]
  <2>1. shown \in Seq(Nat) /\ retained \in Seq(Nat) /\ request.lines \in Nat
    BY LogFields, RequestFields
  <2> QED
    BY <2>1, LastOfIs
<1> HIDE DEF rest
<1>2. viewPc' \in {"done", "failed"} /\ (shown' = shown \/ (viewPc' = "done" /\ shown' = shown \o rest))
  BY DEF Logs!Flush, rest
<1>3. shown' \in Seq(Nat)
  <2>1. shown \o rest \in Seq(Nat)
    BY <1>1
  <2> QED
    BY <1>1, <1>2, <2>1
<1>4. LogTypes'
  BY <1>0, <1>2, <1>3 DEF LogInv, LogTypes, Logs!TypeOK
<1>5. FlowInv'
  BY <1>0, <1>2 DEF LogInv, FlowInv, Viewing
<1>6. Taken' = Taken /\ Passed' = Passed /\ (Following' => Following /\ viewPc' = "done")
  BY <1>0, <1>2 DEF Taken, Passed, Following, Viewing
<1>7. LinesInv' /\ RunsInv'
  BY <1>0, <1>6 DEF LogInv, LinesInv, RunsInv
<1>8. SeenInv'
  <2> SUFFICES ASSUME Following' PROVE SeenInv'
    BY DEF SeenInv
  <2>1. /\ \A i \in 1 .. Len(shown) :
             shown[i] > 0 => first <= shown[i] /\ shown[i] <= Passed /\ shown[i] \in request.wanted
        /\ \A n \in request.wanted :
             first <= n /\ n <= Passed => \E i \in 1 .. Len(shown) : shown[i] = n
        /\ \A i, j \in 1 .. Len(shown) : i < j /\ shown[j] > 0 => shown[i] < shown[j]
        /\ Len(shown) \in Nat
    BY <1>1, <1>6 DEF LogInv, SeenInv
  <2>2. CASE shown' = shown
    BY <1>0, <1>6, <2>1, <2>2 DEF SeenInv
  <2>3. CASE shown' = shown \o rest
    <3>1. \A k \in 1 .. Len(rest) : rest[k] = 0
      <4>1. \A i \in 1 .. Len(retained) : retained[i] = 0
        BY <1>0, <1>6 DEF LogInv, FlowInv, Following, Viewing
      <4>2. Len(rest) \in Nat /\ Len(retained) \in Nat
        BY <1>1
      <4>3. \A k \in 1 .. Len(rest) : Len(retained) - Len(rest) + k \in 1 .. Len(retained)
        BY <1>1, <4>2
      <4> QED
        BY <1>1, <4>1, <4>3
    <3>2. /\ Len(shown') = Len(shown) + Len(rest) /\ Len(rest) \in Nat
          /\ \A i \in 1 .. Len(shown) : shown'[i] = shown[i]
          /\ \A k \in 1 .. Len(rest) : shown'[Len(shown) + k] = rest[k]
      BY <1>1, <2>3
    <3>3. \A i \in 1 .. Len(shown') : shown'[i] > 0 => i \in 1 .. Len(shown) /\ shown'[i] = shown[i]
      <4>1. ASSUME NEW i \in 1 .. Len(shown'), i \notin 1 .. Len(shown)
            PROVE  shown'[i] = 0
        <5>1. i - Len(shown) \in 1 .. Len(rest) /\ Len(shown) + (i - Len(shown)) = i
          BY <2>1, <3>2, <4>1
        <5> QED
          BY <3>1, <3>2, <5>1
      <4> QED
        BY <3>2, <4>1
    <3>4. \A i \in 1 .. Len(shown') :
            shown'[i] > 0 => first <= shown'[i] /\ shown'[i] <= Passed /\ shown'[i] \in request.wanted
      BY <2>1, <3>3
    <3>5. \A n \in request.wanted :
            first <= n /\ n <= Passed => \E i \in 1 .. Len(shown') : shown'[i] = n
      <4>1. \A i \in 1 .. Len(shown) : i \in 1 .. Len(shown')
        BY <2>1, <3>2
      <4> QED
        BY <2>1, <3>2, <4>1
    <3>6. \A i, j \in 1 .. Len(shown') : i < j /\ shown'[j] > 0 => shown'[i] < shown'[j]
      <4>1. ASSUME NEW i \in 1 .. Len(shown'), NEW j \in 1 .. Len(shown'), i < j, shown'[j] > 0
            PROVE  shown'[i] < shown'[j]
        <5>1. j \in 1 .. Len(shown) /\ shown'[j] = shown[j]
          BY <3>3, <4>1
        <5>2. i \in 1 .. Len(shown) /\ shown'[i] = shown[i]
          BY <2>1, <3>2, <4>1, <5>1
        <5> QED
          BY <2>1, <4>1, <5>1, <5>2
      <4> QED
        BY <4>1
    <3> QED
      BY <1>0, <1>6, <3>4, <3>5, <3>6 DEF SeenInv
  <2> QED
    BY <1>2, <2>2, <2>3
<1> QED
  BY <1>4, <1>5, <1>7, <1>8 DEF LogInv

LEMMA LogCancelStep ==
  ASSUME LogInv, Logs!Cancel
  PROVE  LogInv'
<1>0. /\ canceled' = TRUE
      /\ UNCHANGED <<written, lines, finished, subscribed, updates, copier, pipe, viewPc, request, retained, shown,
                     first, dropped>>
  BY DEF Logs!Cancel, Logs!buffer, Logs!channel, Logs!history
<1>1. canceled' \in BOOLEAN /\ canceled'
  BY <1>0
<1>2. LogTypes'
  BY <1>0, <1>1 DEF LogInv, LogTypes, Logs!TypeOK
<1>3. FlowInv'
  BY <1>0, <1>1 DEF LogInv, FlowInv
<1>4. LinesInv' /\ RunsInv' /\ SeenInv'
  BY <1>0 DEF LogInv, LinesInv, RunsInv, SeenInv, Following, Taken, Passed
<1> QED
  BY <1>2, <1>3, <1>4 DEF LogInv

LEMMA LogNext ==
  ASSUME LogInv, Logs!Next
  PROVE  LogInv'
BY LogWriteStep, LogFinishStep, LogCopyStep, LogCopyFailsStep, LogOpenStep, LogScanStep, LogFlushStep,
   LogCancelStep
DEF Logs!Next

LEMMA LogStays ==
  ASSUME LogInv, UNCHANGED logVars
  PROVE  LogInv'
<1>0. UNCHANGED <<written, lines, finished, subscribed, updates, copier, pipe, viewPc, request, retained, shown,
                  canceled, first, dropped>>
  BY DEF logVars
<1>1. LogTypes'
  BY <1>0 DEF LogInv, LogTypes, Logs!TypeOK
<1>2. FlowInv'
  BY <1>0 DEF LogInv, FlowInv
<1>3. LinesInv' /\ RunsInv' /\ SeenInv'
  BY <1>0 DEF LogInv, LinesInv, RunsInv, SeenInv, Following, Taken, Passed
<1> QED
  BY <1>1, <1>2, <1>3 DEF LogInv

LEMMA LogBegins ==
  ASSUME Logs!Init
  PROVE  LogInv
<1>0. /\ written = 0 /\ lines = <<>> /\ updates = <<>> /\ copier = "none" /\ pipe = <<>> /\ viewPc = "idle"
      /\ request = Logs!NoRequest /\ retained = <<>> /\ shown = <<>> /\ first = 1
  BY DEF Logs!Init
<1>1. /\ finished \in BOOLEAN /\ subscribed \in BOOLEAN /\ ~subscribed /\ canceled \in BOOLEAN
      /\ dropped \in BOOLEAN
  BY DEF Logs!Init
<1>2. request \in Logs!Requests
  BY <1>0 DEF Logs!NoRequest, Logs!Requests
<1>3. Len(lines) = 0 /\ lines \in Seq(Nat) /\ Len(updates) = 0
  BY <1>0
<1>4. LogTypes
  BY <1>0, <1>1, <1>2, <1>3 DEF LogTypes, Logs!TypeOK
<1>5. FlowInv /\ ~Following
  BY <1>0, <1>1 DEF FlowInv, Following, Viewing
<1>6. LinesInv /\ RunsInv /\ SeenInv
  BY <1>0, <1>3, <1>5 DEF LinesInv, Run, RunsInv, SeenInv
<1> QED
  BY <1>4, <1>5, <1>6 DEF LogInv

LEMMA LogMovesOn ==
  ASSUME LogInv, WaitingMoves
  PROVE  LogInv'
BY WaitingMovesAre, LogNext, LogStays

\* The invariant of following a log: buffer, channel, pipe and what was shown are adjacent
\* runs of lines (foreground.go:655-724).
THEOREM LogInvariance == WaitingSpec => []LogInv
<1>1. WaitingInit => LogInv
  BY LogBegins DEF WaitingInit
<1> QED
  BY <1>1, LogMovesOn, PTL DEF WaitingSpec, WaitingMoves

\* Who follows a log sees each line once, in order, and at the end all of them, whatever
\* the sizes of the buffer and the channel and whatever is interrupted; only a line that
\* did not fit into the channel is missed (foreground.go:655-724, router.go:1087).
THEOREM FollowersMissNothing == WaitingSpec => []FollowsWithoutGap
<1>1. ASSUME LogInv PROVE FollowsWithoutGap
  <2> SUFFICES ASSUME Following PROVE FollowsWithoutGap
    BY DEF FollowsWithoutGap, Logs!FollowsWithoutGap, Following, Viewing
  <2> DEFINE all == (first .. written) \cap request.wanted
             seen == Logs!Range(shown) \ {0}
             coming == (Logs!Range(pipe) \cup Logs!Range(updates)) \cap request.wanted
  <2>1. /\ first <= Passed + 1 /\ Run(updates, Taken) /\ Run(pipe, Passed)
        /\ first \in Nat \ {0} /\ written \in Nat /\ Len(updates) \in Nat /\ Len(pipe) \in Nat
        /\ Taken = written - Len(updates) /\ Passed = Taken - Len(pipe)
        /\ updates \in Seq(Nat) /\ pipe \in Seq(Nat) /\ shown \in Seq(Nat) /\ request.wanted \subseteq Nat
    <3>1. /\ first \in 1 .. MaxLines + 1 /\ written \in Nat /\ Len(updates) \in Nat /\ Len(pipe) \in Nat
          /\ updates \in Seq(Nat) /\ pipe \in Seq(Nat) /\ shown \in Seq(Nat) /\ request.wanted \subseteq Nat
      BY <1>1, LogFields, RequestFields
    <3>2. first <= Passed + 1 /\ Run(updates, Taken) /\ Run(pipe, Passed)
      BY <1>1 DEF LogInv, RunsInv
    <3>3. Taken = written - Len(updates) /\ Passed = Taken - Len(pipe)
      BY DEF Taken, Passed
    <3> QED
      BY <3>1, <3>2, <3>3
  <2>2. /\ \A i \in 1 .. Len(shown) :
             shown[i] > 0 => first <= shown[i] /\ shown[i] <= Passed /\ shown[i] \in request.wanted
        /\ \A n \in request.wanted :
             first <= n /\ n <= Passed => \E i \in 1 .. Len(shown) : shown[i] = n
        /\ \A i, j \in 1 .. Len(shown) : i < j /\ shown[j] > 0 => shown[i] < shown[j]
    BY <1>1 DEF LogInv, SeenInv
  <2>3. Taken \in Int /\ Passed \in Int /\ Passed <= Taken /\ Taken <= written
    BY <2>1
  <2>4. \A n : n \in seen <=> n \in request.wanted /\ first <= n /\ n <= Passed
    <3>1. ASSUME NEW n \in seen PROVE n \in request.wanted /\ first <= n /\ n <= Passed
      <4>1. PICK i \in 1 .. Len(shown) : shown[i] = n
        BY <2>1 DEF Logs!Range
      <4>2. n \in Nat /\ n > 0
        BY <2>1, <4>1
      <4> QED
        BY <2>2, <4>1, <4>2
    <3>2. ASSUME NEW n \in request.wanted, first <= n, n <= Passed PROVE n \in seen
      <4>1. PICK i \in 1 .. Len(shown) : shown[i] = n
        BY <2>2, <3>2
      <4>2. n # 0
        BY <2>1, <3>2
      <4>3. n \in Logs!Range(shown)
        BY <2>1, <4>1 DEF Logs!Range
      <4> QED
        BY <4>2, <4>3
    <3> HIDE DEF seen
    <3> QED
      BY <3>1, <3>2
  <2>5. \A n : n \in coming <=> n \in request.wanted /\ Passed < n /\ n <= written
    <3>1. ASSUME NEW n \in Logs!Range(pipe) PROVE Passed < n /\ n <= Taken
      <4>1. PICK k \in 1 .. Len(pipe) : pipe[k] = n
        BY <2>1 DEF Logs!Range
      <4>2. n = Passed + k
        BY <2>1, <4>1 DEF Run
      <4> QED
        BY <2>1, <2>3, <4>2
    <3>2. ASSUME NEW n \in Logs!Range(updates) PROVE Taken < n /\ n <= written
      <4>1. PICK k \in 1 .. Len(updates) : updates[k] = n
        BY <2>1 DEF Logs!Range
      <4>2. n = Taken + k
        BY <2>1, <4>1 DEF Run
      <4> QED
        BY <2>1, <2>3, <4>2
    <3>3. ASSUME NEW n \in Nat, Passed < n, n <= Taken PROVE n \in Logs!Range(pipe)
      <4>1. n - Passed \in 1 .. Len(pipe) /\ n = Passed + (n - Passed)
        BY <2>1, <2>3, <3>3
      <4>2. pipe[n - Passed] = n
        BY <2>1, <4>1 DEF Run
      <4> QED
        BY <2>1, <4>1, <4>2 DEF Logs!Range
    <3>4. ASSUME NEW n \in Nat, Taken < n, n <= written PROVE n \in Logs!Range(updates)
      <4>1. n - Taken \in 1 .. Len(updates) /\ n = Taken + (n - Taken)
        BY <2>1, <2>3, <3>4
      <4>2. updates[n - Taken] = n
        BY <2>1, <4>1 DEF Run
      <4> QED
        BY <2>1, <4>1, <4>2 DEF Logs!Range
    <3>5. ASSUME NEW n \in request.wanted
          PROVE  n \in Logs!Range(pipe) \cup Logs!Range(updates) <=> Passed < n /\ n <= written
      <4>1. n \in Nat /\ (n <= Taken \/ Taken < n)
        BY <2>1, <2>3
      <4>2. n \in Logs!Range(pipe) \cup Logs!Range(updates) => n \in Nat /\ Passed < n /\ n <= written
        BY <2>1, <2>3, <3>1, <3>2, <4>1
      <4> QED
        BY <3>3, <3>4, <4>1, <4>2
    <3> QED
      BY <3>5
  <2>6. viewPc = "done" /\ ~canceled => Passed = written
    <3>1. viewPc = "done" /\ ~canceled => updates = <<>> /\ pipe = <<>>
      BY <1>1 DEF LogInv, FlowInv, Following
    <3> QED
      BY <2>1, <3>1
  <2>7. \A n : n \in all <=> n \in request.wanted /\ first <= n /\ n <= written
    BY <2>1
  <2> HIDE DEF all, seen, coming
  <2>8. seen \subseteq all /\ \A n \in all, m \in seen : n < m => n \in seen
    <3>1. ASSUME NEW n \in seen PROVE n \in all
      <4>1. n \in request.wanted /\ n \in Nat /\ first <= n /\ n <= Passed
        BY <2>1, <2>4
      <4>2. n <= written
        BY <2>1, <2>3, <4>1
      <4> QED
        BY <2>7, <4>1, <4>2
    <3>2. ASSUME NEW n \in all, NEW m \in seen, n < m PROVE n \in seen
      <4>1. n \in request.wanted /\ n \in Nat /\ first <= n
        BY <2>1, <2>7
      <4>2. m \in Nat /\ m <= Passed
        BY <2>1, <2>4
      <4>3. n <= Passed
        BY <2>3, <3>2, <4>1, <4>2
      <4> QED
        BY <2>4, <4>1, <4>3
    <3> QED
      BY <3>1, <3>2
  <2>9. seen \cup coming = all /\ \A n \in seen, m \in coming : n < m
    <3>1. ASSUME NEW n PROVE n \in seen \/ n \in coming <=> n \in all
      <4>1. CASE n \in request.wanted
        <5>1. n \in Nat
          BY <2>1, <4>1
        <5>2. /\ n \in seen <=> first <= n /\ n <= Passed
              /\ n \in coming <=> Passed < n /\ n <= written
              /\ n \in all <=> first <= n /\ n <= written
          BY <2>4, <2>5, <2>7, <4>1
        <5> QED
          BY <2>1, <2>3, <5>1, <5>2
      <4>2. CASE n \notin request.wanted
        BY <2>4, <2>5, <2>7, <4>2
      <4> QED
        BY <4>1, <4>2
    <3>2. ASSUME NEW n \in seen, NEW m \in coming PROVE n < m
      <4>1. n \in Nat /\ n <= Passed /\ m \in Nat /\ Passed < m
        BY <2>1, <2>4, <2>5
      <4> QED
        BY <2>3, <4>1
    <3> QED
      BY <3>1, <3>2
  <2>10. viewPc = "done" /\ ~canceled => seen = all
    BY <2>1, <2>4, <2>6, <2>7
  <2>11. \A i, j \in DOMAIN shown : i < j /\ shown[j] > 0 => shown[i] < shown[j]
    <3>1. DOMAIN shown = 1 .. Len(shown)
      BY <2>1
    <3> QED
      BY <2>2, <3>1
  <2> QED
    BY <2>8, <2>9, <2>10, <2>11 DEF FollowsWithoutGap, Logs!FollowsWithoutGap, all, seen, coming
<1> QED
  BY <1>1, LogInvariance, PTL

-----------------------------------------------------------------------------
(* Governed execution, and all of them                                     *)

\* The behaviours of governed execution beside the others are those of Governance.
LEMMA GovernanceBehaves == WaitingSpec => Spec
<1>1. WaitingInit => GovInit
  BY DEF WaitingInit
<1>2. WaitingMoves => [Next]_vars
  BY WaitingMovesAre
<1> QED
  BY <1>1, <1>2, PTL DEF WaitingSpec, WaitingMoves, Spec

\* Governed execution, a login and a followed log keep the types of their variables,
\* whoever is at work.
THEOREM WaitingTypes == WaitingSpec => []WaitingTypeOK
<1>1. LoginInv /\ LogInv /\ TypeOK => WaitingTypeOK
  BY DEF LoginInv, LogInv, LogTypes, WaitingTypeOK
<1> QED
  BY <1>1, LoginInvariance, LogInvariance, GovernanceBehaves, GovernanceTypeCorrect, PTL
=============================================================================
