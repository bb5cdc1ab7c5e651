-------------------------- MODULE InteractionsProofs --------------------------
(***************************************************************************)
(* Proofs about MCInteractions, for any keys, models, accounts and changes *)
(* by others. A step moves one component and leaves the others alone       *)
(* (MovesAre), so each component has an inductive invariant of its own,    *)
(* proved action by action:                                                *)
(*                                                                         *)
(*   - WizardInv: what is installed, running and on the screen of the      *)
(*     guided setup agree, at every step of a journey.                     *)
(*   - LaunchInv: whose answer a launch has at hand, and which model it    *)
(*     has chosen from it.                                                 *)
(*   - ConfigInv: what config.yaml holds at every step of a command, and   *)
(*     how often others must have written for it to hold anything else.    *)
(*   - ShellInv: operations of the terminal follow one another, and pipe,  *)
(*     prompt and write are those of the last.                             *)
(*   - ManagementInv: what a list holds while a write is verified, and     *)
(*     which steps come after a request that was rejected.                 *)
(*                                                                         *)
(* The backends' invariant is that of ServiceBackendProofs, carried over   *)
(* by BackendBehaves.                                                      *)
(***************************************************************************)
EXTENDS MCInteractions, ServiceBackendProofs, SequenceTheorems, WellFoundedInduction

\* A step of the specification moves one component and leaves the others alone.
Moves == [InteractionsNext]_<<part, managementVars, vars, configVars, shellVars, wizardVars, launcherVars>>

LEMMA MovesAre ==
  ASSUME Moves
  PROVE  /\ Management!Next \/ UNCHANGED managementVars
         /\ [Next]_vars
         /\ Config!Next \/ UNCHANGED configVars
         /\ Shell!Next \/ UNCHANGED shellVars
         /\ Wizard!Next \/ UNCHANGED wizardVars
         /\ Launcher!Next \/ UNCHANGED launcherVars
BY DEF Moves, InteractionsNext, ManagementMoves, BackendMoves, ConfigMoves, ShellMoves, WizardMoves,
     LauncherMoves

-----------------------------------------------------------------------------
(* Guided setup                                                            *)

\* An action runs while the screen is busy; all but the core's belong to a setup whose core
\* is installed, as do the screens behind the core's.
JourneyInv ==
  /\ screen.busy <=> action.kind # "none"
  /\ screen.core <=> told
  /\ action.kind \notin {"none", "core"} => told
  /\ action.kind = "preflight" => action.model \in Models
  /\ screen.stage \notin {"choose-mode", "adopt-paths", "core", "complete"} => told
  /\ screen.stage \in {"choose-mode", "adopt-paths", "core"} => ~told

\* What the journey suggests, and what it may launch.
HintInv ==
  /\ told => screen.next # "setup"
  /\ screen.stage = "launch-offer" => screen.model \in checked
  /\ screen.launch =>
       told /\ screen.model \in checked /\ screen.stage = "complete" /\ action.kind = "none"

WizardInv == Wizard!TypeOK /\ JourneyInv /\ HintInv

USE DEF Wizard!Idle, Wizard!At, Wizard!Core, Wizard!Begin, Wizard!Finish, Wizard!Ready, Wizard!Ended

LEMMA WizardCancelStep ==
  ASSUME WizardInv, Wizard!Cancel, UNCHANGED <<installed, told, checked>>
  PROVE  WizardInv'
<1>1. Wizard!TypeOK'
  BY DEF WizardInv, Wizard!TypeOK, Wizard!Cancel, Wizard!Screen, Wizard!Stages, Wizard!Hints
<1>2. CASE screen.core
  <2>1. screen' = [screen EXCEPT !.stage = "complete",
                                 !.next = IF screen.model = NoModel THEN "onboard" ELSE "launch"]
        /\ action' = action
    BY <1>2 DEF Wizard!Cancel
  <2>2. /\ screen'.core = screen.core /\ screen'.busy = screen.busy
        /\ screen'.launch = screen.launch /\ screen'.model = screen.model
        /\ screen'.stage = "complete" /\ screen'.next # "setup"
    BY <2>1 DEF WizardInv, Wizard!TypeOK, Wizard!Screen
  <2>3. JourneyInv'
    BY <2>1, <2>2 DEF WizardInv, JourneyInv
  <2>4. HintInv'
    BY <2>1, <2>2 DEF WizardInv, HintInv
  <2> QED
    BY <1>1, <2>3, <2>4 DEF WizardInv
<1>3. CASE ~screen.core
  <2>1. ~told /\ ~screen.launch
    BY <1>3 DEF WizardInv, JourneyInv, HintInv
  <2>2. screen' = [Wizard!At("complete") EXCEPT !.next = "setup", !.busy = screen.busy,
                                                !.launch = screen.launch]
        /\ action' = action
    BY <1>3 DEF Wizard!Cancel
  <2>3. /\ ~screen'.core /\ screen'.busy = screen.busy /\ ~screen'.launch
        /\ screen'.stage = "complete"
    BY <2>1, <2>2
  <2> QED
    BY <1>1, <2>1, <2>2, <2>3 DEF WizardInv, JourneyInv, HintInv
<1> QED
  BY <1>2, <1>3

LEMMA WizardKeyStep ==
  ASSUME WizardInv, Wizard!Key
  PROVE  WizardInv'
<1>0. UNCHANGED <<installed, told, checked>>
  BY DEF Wizard!Key
<1>1. CASE Wizard!Cancel
  BY <1>0, <1>1, WizardCancelStep
<1> USE DEF WizardInv, Wizard!TypeOK, Wizard!Screen, Wizard!Kinds, Wizard!Stages, Wizard!Hints,
        JourneyInv, HintInv
<1>2. CASE ~screen.busy /\ Wizard!ChooseMode
  <2>1. ~screen.core /\ ~screen.launch /\ ~told
    BY <1>2 DEF Wizard!ChooseMode
  <2>2. CASE screen' = [Wizard!At("core") EXCEPT !.busy = TRUE] /\ action' = Wizard!Core("managed")
    BY <1>0, <1>2, <2>1, <2>2 DEF Wizard!ChooseMode
  <2>3. CASE screen' = Wizard!At("adopt-paths") /\ UNCHANGED action
    BY <1>0, <1>2, <2>1, <2>3 DEF Wizard!ChooseMode
  <2> QED
    BY <1>2, <2>2, <2>3 DEF Wizard!ChooseMode
<1>3. CASE ~screen.busy /\ Wizard!AdoptPaths
  BY <1>0, <1>3 DEF Wizard!AdoptPaths
<1>4. CASE ~screen.busy /\ Wizard!OfferProviders
  BY <1>0, <1>4, ZenonT(40) DEF Wizard!OfferProviders
<1>5. CASE ~screen.busy /\ Wizard!SelectProvider
  BY <1>0, <1>5 DEF Wizard!SelectProvider
<1>6. CASE ~screen.busy /\ Wizard!SelectModel
  BY <1>0, <1>6, ZenonT(40) DEF Wizard!SelectModel
<1>7. CASE ~screen.busy /\ Wizard!OfferLaunch
  BY <1>0, <1>7, ZenonT(40) DEF Wizard!OfferLaunch
<1>8. CASE ~screen.busy /\ Wizard!Close
  BY <1>0, <1>8 DEF Wizard!Close
<1> QED
  BY <1>1, <1>2, <1>3, <1>4, <1>5, <1>6, <1>7, <1>8 DEF Wizard!Key

\* What the facade answers belongs to an installed core, and is where nothing runs.
LEMMA AnswersAre ==
  ASSUME WizardInv, action.kind # "none", NEW progress \in Wizard!Answers
  PROVE  /\ progress \in Wizard!Screen
         /\ progress.core /\ ~progress.busy /\ progress.next # "setup"
         /\ progress.stage \notin {"choose-mode", "adopt-paths", "core"}
         /\ progress.stage = "launch-offer" =>
              action.kind = "preflight" /\ progress.model = action.model
<1> USE DEF Wizard!Answers, Wizard!Screen, Wizard!Stages, Wizard!Hints
<1>1. CASE action.kind = "core"
  BY <1>1
<1>2. CASE action.kind = "load-providers"
  BY <1>2
<1>3. CASE action.kind = "login-provider"
  BY <1>3
<1>4. CASE action.kind = "preflight"
  BY <1>4 DEF WizardInv, Wizard!TypeOK, Wizard!Preflighted
<1> QED
  BY <1>1, <1>2, <1>3, <1>4 DEF WizardInv, Wizard!TypeOK, Wizard!Kinds

LEMMA WizardAnswerStep ==
  ASSUME WizardInv, Wizard!Answer
  PROVE  WizardInv'
<1>1. PICK progress \in Wizard!Answers : screen' = [progress EXCEPT !.launch = screen.launch]
  BY DEF Wizard!Answer
<1>2. action.kind # "none"
  BY DEF Wizard!Answer
<1>3. /\ progress \in Wizard!Screen
      /\ progress.core /\ ~progress.busy /\ progress.next # "setup"
      /\ progress.stage \notin {"choose-mode", "adopt-paths", "core"}
      /\ progress.stage = "launch-offer" =>
           action.kind = "preflight" /\ progress.model = action.model
  BY <1>2, AnswersAre
<1>4. ~screen.launch
  BY <1>2 DEF WizardInv, HintInv
<1>5. /\ screen' \in Wizard!Screen /\ ~screen'.launch
      /\ screen'.core /\ ~screen'.busy /\ screen'.next # "setup"
      /\ screen'.stage = progress.stage /\ screen'.model = progress.model
  <2>1. screen.launch = FALSE
    BY <1>4 DEF WizardInv, Wizard!TypeOK, Wizard!Screen
  <2>2. screen' = [progress EXCEPT !.launch = FALSE]
    BY <1>1, <2>1
  <2> QED
    BY <1>3, <2>2 DEF Wizard!Screen
<1>6. told'
  BY <1>2 DEF WizardInv, JourneyInv, Wizard!Answer
<1>7. action' = Wizard!Idle
  BY DEF Wizard!Answer
<1>8. Wizard!TypeOK'
  <2>1. told' \in BOOLEAN
    BY <1>6
  <2>2. checked' \subseteq Models
    BY DEF WizardInv, Wizard!TypeOK, JourneyInv, Wizard!Answer
  <2> QED
    BY <1>5, <1>7, <2>1, <2>2 DEF WizardInv, Wizard!TypeOK, Wizard!Answer, Wizard!Kinds
<1> QED
  BY <1>3, <1>5, <1>6, <1>7, <1>8 DEF WizardInv, JourneyInv, HintInv, Wizard!Answer

LEMMA WizardNext ==
  ASSUME WizardInv, Wizard!Next
  PROVE  WizardInv'
<1>1. CASE Wizard!Key
  BY <1>1, WizardKeyStep
<1>2. CASE Wizard!Commit
  BY <1>2 DEF WizardInv, Wizard!TypeOK, JourneyInv, HintInv, Wizard!Commit
<1>3. CASE Wizard!Answer
  BY <1>3, WizardAnswerStep
<1>4. CASE Wizard!Error
  BY <1>4 DEF WizardInv, Wizard!TypeOK, Wizard!Screen, Wizard!Kinds, JourneyInv, HintInv, Wizard!Error
<1>5. CASE Wizard!Leave
  BY <1>5 DEF WizardInv, Wizard!TypeOK, JourneyInv, HintInv, Wizard!Leave
<1> QED
  BY <1>1, <1>2, <1>3, <1>4, <1>5 DEF Wizard!Next

LEMMA WizardInit == Wizard!Init => WizardInv
<1> SUFFICES ASSUME Wizard!Init PROVE WizardInv
  OBVIOUS
<1> DEFINE Actions == [kind: Wizard!Kinds, mode: {"managed", "adopt"}, model: Models \cup {NoModel}]
<1>1. /\ screen \in Wizard!Screen /\ action \in Actions /\ ~screen.core /\ ~screen.launch
      /\ screen.stage \in {"choose-mode", "adopt-paths", "core"}
      /\ action.kind = IF screen.busy THEN "core" ELSE "none"
  <2>1. CASE \E stage \in {"choose-mode", "adopt-paths"} :
               screen = Wizard!At(stage) /\ action = Wizard!Idle
    <3>1. PICK stage \in {"choose-mode", "adopt-paths"} :
            screen = Wizard!At(stage) /\ action = Wizard!Idle
      BY <2>1
    <3>2. screen \in Wizard!Screen
      BY <3>1 DEF Wizard!Screen, Wizard!Stages, Wizard!Hints
    <3>3. action \in Actions
      BY <3>1 DEF Wizard!Kinds
    <3> QED
      BY <3>1, <3>2, <3>3
  <2>2. CASE /\ screen = [Wizard!At("core") EXCEPT !.busy = TRUE]
             /\ \E mode \in {"managed", "adopt"} : action = Wizard!Core(mode)
    <3>1. screen \in Wizard!Screen
      BY <2>2 DEF Wizard!Screen, Wizard!Stages, Wizard!Hints
    <3>2. action \in Actions /\ action.kind = "core"
      BY <2>2 DEF Wizard!Kinds
    <3> QED
      BY <2>2, <3>1, <3>2
  <2> QED
    BY <2>1, <2>2 DEF Wizard!Init, Wizard!Opened
<1> QED
  BY <1>1 DEF Wizard!Init, WizardInv, Wizard!TypeOK, JourneyInv, HintInv

LEMMA WizardStays == WizardInv /\ Moves => WizardInv'
<1>1. WizardInv /\ UNCHANGED wizardVars => WizardInv'
  BY DEF wizardVars, WizardInv, Wizard!TypeOK, JourneyInv, HintInv
<1> QED
  BY <1>1, MovesAre, WizardNext

\* The invariant of the guided setup: what the screen, the running action and the flags say
\* of each other at every step of a journey.
THEOREM WizardInvariance == InteractionsSpec => []WizardInv
<1>1. InteractionsInit => WizardInv
  BY WizardInit DEF InteractionsInit
<1> QED
  BY <1>1, WizardStays, PTL DEF InteractionsSpec, Moves

\* Wherever the guided setup is left, by choice, by cancel, after errors or with a result
\* on its way, it is resumed where it was (setup.go:270, setup_tui.go:60).
THEOREM SetupResumes == InteractionsSpec => []ResumesWhereItWas
<1>1. WizardInv => ResumesWhereItWas
  BY DEF WizardInv, HintInv, ResumesWhereItWas, Wizard!ResumesWhereItWas
<1> QED
  BY <1>1, WizardInvariance, PTL

HIDE DEF Wizard!Idle, Wizard!At, Wizard!Core, Wizard!Begin, Wizard!Finish, Wizard!Ready, Wizard!Ended

-----------------------------------------------------------------------------
(* The model catalog and a launch                                          *)

\* The launch has its model from the catalog that it saw first.
Chosen ==
  \E i \in DOMAIN launchJob.wanted :
    /\ launchJob.wanted[i] = launchJob.model
    /\ \A j \in 1 .. i - 1 : launchJob.wanted[j] \notin offered

Launching == {"detect", "redetect", "preflight", "settings", "run", "running"}

\* What was found, and what the catalog returned unless it is stale, is one source's answer.
SourceInv ==
  /\ launchPc = "store" => found = live
  /\ launchPc \in {"select", "require"} /\ ~launchJob.stale => launchJob.entries = live
  /\ launchPc \in Launching => launchJob.model \in live

\* Who called the catalog, and which model the launch is for.
ChoiceInv ==
  /\ launchPc \in {"select", "require"} => launchJob.then = launchPc
  /\ launchPc = "idle" => launchJob = Launcher!NoJob
  /\ launchPc \in Launching \/ launchJob.then = "require" => Chosen
  /\ client = IF launchPc = "running" THEN launchJob.model ELSE NoModel

LaunchInv == Launcher!TypeOK /\ SourceInv /\ ChoiceInv

USE BoundsAssumption DEF BoundsAssumption, Launcher!world, Launcher!discovery, Launcher!history,
    Launcher!Goto, Launcher!Fail, Launcher!Returns, Launching

LEMMA LaunchNoJob ==
  /\ Launcher!NoJob \in Launcher!Jobs /\ Launcher!NoJob.then = "select"
  /\ Launcher!NoJob.model = NoModel
BY DEF Launcher!NoJob, Launcher!Jobs

LEMMA RefreshStep ==
  ASSUME LaunchInv, Launcher!Refresh
  PROVE  LaunchInv'
<1>1. Launcher!TypeOK'
  BY DEF LaunchInv, Launcher!TypeOK, Launcher!PCs, Launcher!Refresh
<1> QED
  BY <1>1 DEF LaunchInv, SourceInv, ChoiceInv, Chosen, Launcher!Refresh

LEMMA AskAccountStep ==
  ASSUME LaunchInv, Launcher!AskAccount
  PROVE  LaunchInv'
<1>1. Launcher!TypeOK'
  BY DEF LaunchInv, Launcher!TypeOK, Launcher!PCs, Launcher!AskAccount
<1> QED
  BY <1>1 DEF LaunchInv, SourceInv, ChoiceInv, Chosen, Launcher!AskAccount

LEMMA AskDefinitionsStep ==
  ASSUME LaunchInv, Launcher!AskDefinitions
  PROVE  LaunchInv'
<1>1. Launcher!TypeOK'
  BY DEF LaunchInv, Launcher!TypeOK, Launcher!PCs, Launcher!AskDefinitions
<1> QED
  BY <1>1 DEF LaunchInv, SourceInv, ChoiceInv, Chosen, Launcher!AskDefinitions

LEMMA AskPublicStep ==
  ASSUME LaunchInv, Launcher!AskPublic
  PROVE  LaunchInv'
<1>1. Launcher!TypeOK'
  BY DEF LaunchInv, Launcher!TypeOK, Launcher!PCs, Launcher!AskPublic, Launcher!PublicAnswer
<1> QED
  BY <1>1 DEF LaunchInv, SourceInv, ChoiceInv, Chosen, Launcher!AskPublic, Launcher!PublicAnswer

\* The catalog returns what it has to who called it.
LEMMA CatalogReturns ==
  ASSUME LaunchInv, NEW entries \in SUBSET Models, NEW stale \in BOOLEAN,
         launchPc \in {"store", "offline"}, Launcher!Returns(entries, stale)
  PROVE  /\ launchJob' \in Launcher!Jobs /\ launchPc' \in {"select", "require"}
         /\ launchJob'.then = launchPc' /\ launchJob'.entries = entries
         /\ launchJob'.stale = stale /\ launchJob'.model = launchJob.model
         /\ launchJob'.wanted = launchJob.wanted /\ launchJob'.then = launchJob.then
<1>1. launchJob' = [launchJob EXCEPT !.entries = entries, !.stale = stale]
  OBVIOUS
<1>2. launchJob \in Launcher!Jobs
  BY DEF LaunchInv, Launcher!TypeOK
<1> QED
  BY <1>1, <1>2 DEF Launcher!Jobs

LEMMA StoreCacheStep ==
  ASSUME LaunchInv, Launcher!StoreCache
  PROVE  LaunchInv'
<1>0. /\ found \subseteq Models /\ launchPc = "store" /\ cache' \in {cache, found} /\ found' = {}
      /\ UNCHANGED <<serves, binary, changes, home, ask, client, live, offered>>
  BY DEF LaunchInv, Launcher!TypeOK, Launcher!StoreCache
<1>1. CASE Launcher!Returns(found, FALSE)
  <2>1. /\ launchJob' \in Launcher!Jobs /\ launchPc' \in {"select", "require"}
        /\ launchJob'.then = launchPc' /\ launchJob'.entries = found
        /\ launchJob'.stale = FALSE /\ launchJob'.model = launchJob.model
        /\ launchJob'.wanted = launchJob.wanted /\ launchJob'.then = launchJob.then
    BY <1>0, <1>1, CatalogReturns
  <2>2. Launcher!TypeOK'
    BY <1>0, <2>1 DEF LaunchInv, Launcher!TypeOK, Launcher!PCs
  <2> QED
    BY <1>0, <2>1, <2>2 DEF LaunchInv, SourceInv, ChoiceInv, Chosen
<1>2. CASE Launcher!Fail
  BY <1>0, <1>2, LaunchNoJob
     DEF LaunchInv, Launcher!TypeOK, Launcher!PCs, SourceInv, ChoiceInv
<1> QED
  BY <1>1, <1>2 DEF Launcher!StoreCache

LEMMA OfflineCacheStep ==
  ASSUME LaunchInv, Launcher!OfflineCache
  PROVE  LaunchInv'
<1>0. /\ launchPc = "offline" /\ live' = {} /\ found' = {}
      /\ UNCHANGED <<serves, binary, changes, cache, home, ask, client, offered>>
  BY DEF Launcher!OfflineCache
<1>1. CASE cache # NoCache /\ Launcher!Returns(cache, TRUE)
  <2>0. cache \in SUBSET Models
    BY <1>1 DEF LaunchInv, Launcher!TypeOK
  <2>1. /\ launchJob' \in Launcher!Jobs /\ launchPc' \in {"select", "require"}
        /\ launchJob'.then = launchPc' /\ launchJob'.entries = cache
        /\ launchJob'.stale = TRUE /\ launchJob'.model = launchJob.model
        /\ launchJob'.wanted = launchJob.wanted /\ launchJob'.then = launchJob.then
    BY <1>0, <1>1, <2>0, CatalogReturns
  <2>2. Launcher!TypeOK'
    BY <1>0, <2>1 DEF LaunchInv, Launcher!TypeOK, Launcher!PCs
  <2> QED
    BY <1>0, <2>1, <2>2 DEF LaunchInv, SourceInv, ChoiceInv, Chosen
<1>2. CASE Launcher!Fail
  BY <1>0, <1>2, LaunchNoJob
     DEF LaunchInv, Launcher!TypeOK, Launcher!PCs, SourceInv, ChoiceInv
<1> QED
  BY <1>1, <1>2 DEF Launcher!OfflineCache

LEMMA LaunchStep ==
  ASSUME LaunchInv, Launcher!Launch
  PROVE  LaunchInv'
<1>1. PICK name \in Clients, wanted \in Launcher!Wanted :
          launchJob' = [Launcher!NoJob EXCEPT !.client = name, !.wanted = wanted]
  BY DEF Launcher!Launch
<1>2. launchJob' \in Launcher!Jobs /\ launchJob'.then = "select"
  BY <1>1 DEF Launcher!NoJob, Launcher!Jobs
<1>3. Launcher!TypeOK'
  BY <1>2 DEF LaunchInv, Launcher!TypeOK, Launcher!PCs, Launcher!Launch
<1> QED
  BY <1>2, <1>3 DEF LaunchInv, SourceInv, ChoiceInv, Launcher!Launch

\* A list of one or two models that has one of the catalog has a first one of it.
LEMMA FirstOfWanted ==
  ASSUME launchJob \in Launcher!Jobs, Launcher!Available # {}
  PROVE  /\ Launcher!FirstAvailable \in Launcher!Available
         /\ \A i \in Launcher!Available : Launcher!FirstAvailable <= i
<1>1. launchJob.wanted \in Launcher!Wanted \cup {<<>>}
  BY DEF Launcher!Jobs
<1>2. Launcher!Available \subseteq {1, 2}
  BY <1>1 DEF Launcher!Available, Launcher!Wanted
<1>3. \E i \in Launcher!Available : \A j \in Launcher!Available : i <= j
  <2>1. CASE 1 \in Launcher!Available
    BY <1>2, <2>1
  <2>2. CASE 1 \notin Launcher!Available
    <3>1. Launcher!Available = {2}
      BY <1>2, <2>2
    <3> QED
      BY <3>1
  <2> QED
    BY <2>1, <2>2
<1> QED
  BY <1>3 DEF Launcher!FirstAvailable

LEMMA SelectStep ==
  ASSUME LaunchInv, Launcher!Select
  PROVE  LaunchInv'
<1>0. /\ launchPc = "select" /\ launchJob \in Launcher!Jobs /\ launchJob.entries \in SUBSET Models
      /\ launchJob.then = "select"
      /\ offered' = launchJob.entries
      /\ UNCHANGED <<serves, binary, changes, cache, home, ask, found, client, live>>
  BY DEF LaunchInv, Launcher!TypeOK, ChoiceInv, Launcher!Select, Launcher!Jobs
<1>1. CASE Launcher!Available # {} /\ Launcher!AcceptsEntry
  <2> DEFINE i == Launcher!FirstAvailable
  <2>1. i \in Launcher!Available /\ \A j \in Launcher!Available : i <= j
    BY <1>0, <1>1, FirstOfWanted
  <2>2. launchPc' = "detect" /\ launchJob' = [launchJob EXCEPT !.model = launchJob.wanted[i]]
    BY <1>1 DEF Launcher!Select
  <2>3. /\ i \in DOMAIN launchJob.wanted /\ launchJob.wanted[i] \in launchJob.entries
        /\ \A j \in DOMAIN launchJob.wanted : launchJob.wanted[j] \in launchJob.entries => i <= j
    BY <2>1 DEF Launcher!Available
  <2> HIDE DEF i
  <2>4. launchJob.wanted[i] \in Models
    BY <1>0, <2>3
  <2>5. /\ launchJob' \in Launcher!Jobs /\ launchJob'.wanted = launchJob.wanted
        /\ launchJob'.model = launchJob.wanted[i]
    BY <1>0, <2>2, <2>4 DEF Launcher!Jobs
  <2>6. launchJob.entries = live
    BY <1>0, <1>1 DEF LaunchInv, SourceInv, Launcher!AcceptsEntry
  <2>7. Chosen'
    <3>1. launchJob.wanted \in Launcher!Wanted \cup {<<>>}
      BY <1>0 DEF Launcher!Jobs
    <3>2. i \in 1 .. 2 /\ \A j \in 1 .. i - 1 : j \in DOMAIN launchJob.wanted /\ ~(i <= j)
      BY <2>3, <3>1 DEF Launcher!Wanted
    <3>3. \A j \in 1 .. i - 1 : launchJob.wanted[j] \notin offered'
      BY <1>0, <2>3, <3>2
    <3> QED
      BY <2>3, <2>5, <3>3 DEF Chosen
  <2>8. Launcher!TypeOK'
    BY <1>0, <2>2, <2>5 DEF LaunchInv, Launcher!TypeOK, Launcher!PCs
  <2> QED
    BY <1>0, <2>2, <2>3, <2>5, <2>6, <2>7, <2>8 DEF LaunchInv, SourceInv, ChoiceInv
<1>2. CASE Launcher!Fail
  BY <1>0, <1>2, LaunchNoJob
     DEF LaunchInv, Launcher!TypeOK, Launcher!PCs, SourceInv, ChoiceInv
<1> QED
  BY <1>1, <1>2 DEF Launcher!Select

LEMMA DetectStep ==
  ASSUME LaunchInv, Launcher!Detect
  PROVE  LaunchInv'
<1>0. UNCHANGED <<serves, binary, changes, cache, home, ask, found, client, live, offered>>
  BY DEF Launcher!Detect
<1>1. CASE /\ launchPc \in {"detect", "redetect"} /\ UNCHANGED launchJob
           /\ launchPc' \in {"redetect", "preflight"}
  BY <1>0, <1>1 DEF LaunchInv, Launcher!TypeOK, Launcher!PCs, SourceInv, ChoiceInv, Chosen
<1>2. CASE launchPc \in {"detect", "redetect"} /\ Launcher!Fail
  BY <1>0, <1>2, LaunchNoJob
     DEF LaunchInv, Launcher!TypeOK, Launcher!PCs, SourceInv, ChoiceInv
<1> QED
  BY <1>1, <1>2 DEF Launcher!Detect

LEMMA PreflightStep ==
  ASSUME LaunchInv, Launcher!Preflight
  PROVE  LaunchInv'
<1>0. /\ launchPc = "preflight" /\ launchJob \in Launcher!Jobs
      /\ UNCHANGED <<serves, binary, changes, cache, home, ask, found, client, live, offered>>
  BY DEF LaunchInv, Launcher!TypeOK, Launcher!Preflight
<1>1. CASE launchPc' = "run" /\ UNCHANGED launchJob
  BY <1>0, <1>1 DEF LaunchInv, Launcher!TypeOK, Launcher!PCs, SourceInv, ChoiceInv, Chosen
<1>2. CASE launchPc' = "accounts" /\ launchJob' = [launchJob EXCEPT !.then = "require"]
  <2>1. /\ launchJob' \in Launcher!Jobs /\ launchJob'.then = "require"
        /\ launchJob'.wanted = launchJob.wanted /\ launchJob'.model = launchJob.model
    BY <1>0, <1>2 DEF Launcher!Jobs
  <2> QED
    BY <1>0, <1>2, <2>1 DEF LaunchInv, Launcher!TypeOK, Launcher!PCs, SourceInv, ChoiceInv, Chosen
<1> QED
  BY <1>1, <1>2 DEF Launcher!Preflight

LEMMA RequireLiveModelStep ==
  ASSUME LaunchInv, Launcher!RequireLiveModel
  PROVE  LaunchInv'
<1>0. /\ launchPc = "require" /\ launchJob \in Launcher!Jobs
      /\ UNCHANGED <<serves, binary, changes, cache, home, ask, found, client, live, offered>>
  BY DEF LaunchInv, Launcher!TypeOK, Launcher!RequireLiveModel
<1>1. CASE /\ launchPc' \in {"settings", "run"} /\ UNCHANGED launchJob
           /\ Launcher!AcceptsEntry /\ launchJob.model \in launchJob.entries
  BY <1>0, <1>1
     DEF LaunchInv, Launcher!TypeOK, Launcher!PCs, Launcher!AcceptsEntry, SourceInv, ChoiceInv, Chosen
<1>2. CASE Launcher!Fail
  BY <1>0, <1>2, LaunchNoJob
     DEF LaunchInv, Launcher!TypeOK, Launcher!PCs, SourceInv, ChoiceInv
<1> QED
  BY <1>1, <1>2 DEF Launcher!RequireLiveModel

LEMMA EnsureSettingsStep ==
  ASSUME LaunchInv, Launcher!EnsureSettings
  PROVE  LaunchInv'
<1>0. /\ launchPc = "settings" /\ home' \in {home, "ours"}
      /\ UNCHANGED <<serves, binary, changes, cache, ask, found, client, live, offered>>
  BY DEF Launcher!EnsureSettings
<1>1. CASE launchPc' = "run" /\ UNCHANGED launchJob
  BY <1>0, <1>1 DEF LaunchInv, Launcher!TypeOK, Launcher!PCs, SourceInv, ChoiceInv, Chosen
<1>2. CASE Launcher!Fail
  BY <1>0, <1>2, LaunchNoJob
     DEF LaunchInv, Launcher!TypeOK, Launcher!PCs, SourceInv, ChoiceInv
<1> QED
  BY <1>1, <1>2 DEF Launcher!EnsureSettings

LEMMA RunStep ==
  ASSUME LaunchInv, Launcher!Run
  PROVE  LaunchInv'
<1>0. /\ launchPc = "run" /\ launchJob.model \in Models \cup {NoModel}
      /\ UNCHANGED <<serves, binary, changes, cache, home, ask, found, live, offered>>
  BY DEF LaunchInv, Launcher!TypeOK, Launcher!Jobs, Launcher!Run
<1>1. CASE client' = launchJob.model /\ launchPc' = "running" /\ UNCHANGED launchJob
  BY <1>0, <1>1 DEF LaunchInv, Launcher!TypeOK, Launcher!PCs, SourceInv, ChoiceInv, Chosen
<1>2. CASE Launcher!Fail /\ UNCHANGED client
  BY <1>0, <1>2, LaunchNoJob
     DEF LaunchInv, Launcher!TypeOK, Launcher!PCs, SourceInv, ChoiceInv
<1> QED
  BY <1>1, <1>2 DEF Launcher!Run

LEMMA ExitClientStep ==
  ASSUME LaunchInv, Launcher!Exit
  PROVE  LaunchInv'
BY LaunchNoJob
   DEF LaunchInv, Launcher!TypeOK, Launcher!PCs, SourceInv, ChoiceInv, Launcher!Exit

LEMMA LaunchOthersStep ==
  ASSUME LaunchInv, Launcher!Others
  PROVE  LaunchInv'
<1>1. Launcher!TypeOK'
  BY DEF LaunchInv, Launcher!TypeOK, Launcher!Others
<1> QED
  BY <1>1 DEF LaunchInv, SourceInv, ChoiceInv, Chosen, Launcher!Others

LEMMA LaunchNext ==
  ASSUME LaunchInv, Launcher!Next
  PROVE  LaunchInv'
BY RefreshStep, AskAccountStep, AskDefinitionsStep, AskPublicStep, StoreCacheStep, OfflineCacheStep,
   LaunchStep, SelectStep, DetectStep, PreflightStep, RequireLiveModelStep, EnsureSettingsStep,
   RunStep, ExitClientStep, LaunchOthersStep DEF Launcher!Next

LEMMA LaunchInit == Launcher!Init => LaunchInv
<1> SUFFICES ASSUME Launcher!Init PROVE LaunchInv
  OBVIOUS
<1>1. Launcher!TypeOK
  BY LaunchNoJob DEF Launcher!Init, Launcher!TypeOK, Launcher!PCs
<1> QED
  BY <1>1, LaunchNoJob DEF Launcher!Init, LaunchInv, SourceInv, ChoiceInv

LEMMA LaunchStays == LaunchInv /\ Moves => LaunchInv'
<1>1. LaunchInv /\ UNCHANGED launcherVars => LaunchInv'
  BY DEF launcherVars, LaunchInv, Launcher!TypeOK, SourceInv, ChoiceInv, Chosen
<1> QED
  BY <1>1, MovesAre, LaunchNext

\* The invariant of the catalog and the launch: whose answer is at hand at each step, and
\* which model the launch has chosen from what.
THEOREM LaunchInvariance == InteractionsSpec => []LaunchInv
<1>1. InteractionsInit => LaunchInv
  BY LaunchInit DEF InteractionsInit
<1> QED
  BY <1>1, LaunchStays, PTL DEF InteractionsSpec, Moves

\* A client runs with a model that a live source listed during this launch, the first of
\* those asked for that could be had, whatever failed or changed meanwhile
\* (router.go:1869, runtime.go:753).
THEOREM LaunchStaysLive == InteractionsSpec => []LaunchIsLive
<1>1. LaunchInv => LaunchIsLive
  BY DEF LaunchInv, SourceInv, ChoiceInv, Chosen, LaunchIsLive, Launcher!LaunchIsLive
<1> QED
  BY <1>1, LaunchInvariance, PTL

\* What enters the cache is what one source answered to its end, never a part of an answer
\* or a union of two (catalog.go:143).
THEOREM CacheStaysWhole == InteractionsSpec => CacheIsWhole
<1>1. ASSUME LaunchInv, Moves
      PROVE  [cache' # cache => cache' = live]_(Launcher!vars)
  <2>1. CASE UNCHANGED launcherVars
    BY <2>1 DEF launcherVars, Launcher!vars
  <2>2. CASE Launcher!StoreCache
    BY <1>1, <2>2 DEF LaunchInv, SourceInv, Launcher!StoreCache
  <2>3. CASE Launcher!Next /\ ~Launcher!StoreCache
    BY <2>3
       DEF Launcher!Next, Launcher!Refresh, Launcher!AskAccount, Launcher!AskDefinitions,
         Launcher!AskPublic, Launcher!OfflineCache, Launcher!Launch, Launcher!Select,
         Launcher!Detect, Launcher!Preflight, Launcher!RequireLiveModel, Launcher!EnsureSettings,
         Launcher!Run, Launcher!Exit, Launcher!Others
  <2> QED
    BY <1>1, <2>1, <2>2, <2>3, MovesAre
<1> QED
  BY <1>1, LaunchInvariance, PTL DEF InteractionsSpec, Moves, CacheIsWhole, Launcher!CacheIsWhole

HIDE DEF Launcher!world, Launcher!discovery, Launcher!history, Launcher!Goto, Launcher!Fail,
         Launcher!Returns, Launching

-----------------------------------------------------------------------------
(* Proxy configuration file                                                *)

\* Steps before the command's first write, those of Apply, and those of a fix.
Unwritten == {"idle", "read", "editor", "reread", "plan", "confirm", "compare", "check",
              "backup", "write", "keep", "sidecar", "overwrite"}
Applying == {"check", "backup", "write", "torn", "verify", "revert"}
Fixed == {"secure", "probe", "save", "observe"}
Undoing == {"undo", "undo_key", "undo_ref"}

\* Which command is where, and what it has prepared by then.
ConfigJobInv ==
  /\ filePc # "idle" => fileJob.kind # "none"
  /\ filePc \in {"keep", "sidecar"} \cup Fixed \cup Undoing => fileJob.kind = "fix"
  /\ filePc \in {"editor", "reread", "compare"} => fileJob.kind = "edit"
  /\ filePc = "overwrite" => fileJob.kind = "restore"
  /\ filePc = "read" \/ (filePc \in {"confirm", "overwrite"} /\ fileJob.kind \in {"fix", "restore"}) =>
       fileJob.want = Broken
  /\ filePc = "plan" =>
       /\ fileJob.kind # "restore" /\ fileJob.snap \in Config!Valid
       /\ fileJob.kind = "edit" => fileJob.edited \in Config!Valid
  /\ filePc \in Applying \cup Fixed \cup {"compare", "keep", "sidecar"}
       \/ (filePc = "confirm" /\ fileJob.kind \notin {"fix", "restore"}) => fileJob.want \in Config!Valid
  /\ fileJob.changed => fileJob.kind = "fix" /\ filePc \notin {"idle", "confirm", "read", "plan", "keep"}
  /\ fileJob.kind = "fix" /\ filePc \in Applying \cup Fixed \cup Undoing \cup {"sidecar"} => fileJob.changed
  /\ fileJob.saved =>
       fileJob.changed /\ fileJob.origRef \in Keys /\ filePc \in {"observe", "done"} \cup Undoing
  /\ filePc = "undo_ref" => fileJob.saved

\* What config.yaml holds: what others left before the command's first write, and
\* then, unless they change it unseen, the snapshot or the candidate.
ContentInv ==
  /\ filePc \in Unwritten => file = theirs
  /\ filePc \in {"backup", "write"} /\ ~unseen => file = fileJob.snap
  /\ filePc \in {"torn", "verify", "revert"} /\ ~unseen => theirs = fileJob.snap
  /\ filePc = "torn" /\ ~unseen => file \in {fileJob.snap, fileJob.want}
  /\ filePc \in Fixed /\ ~unseen => file = fileJob.want
  /\ unseen => foreign > 0

\* What a fix puts back: what others left, unless they wrote twice, away from what Apply
\* compares and back to it.
FixInv ==
  /\ filePc \in {"sidecar", "check"} /\ fileJob.changed /\ ~unseen => file = fileJob.orig
  /\ fileJob.changed /\ ~unseen /\ fileJob.orig = fileJob.snap => theirs = fileJob.snap
  /\ filePc \in {"undo_key", "undo_ref"} /\ ~unseen => file = fileJob.orig
  /\ filePc = "undo_ref" => sidecar = fileJob.origKey
  /\ fileJob.kind = "fix" /\ filePc \in Applying \cup Fixed =>
       sidecar = IF managed THEN fileJob.want.key ELSE NoKey
  /\ filePc = "observe" => ref = fileJob.want.key

\* Which files belong to the installation, and whose fingerprint is recorded.
RecordInv ==
  /\ ~managed => sidecar = NoKey /\ (fileJob.changed => fileJob.origKey = NoKey)
  /\ fileJob.saved => fileJob.origRef = recorded /\ slip # "ref"
  /\ ~fileJob.saved /\ slip # "ref" => ref = recorded
  /\ slip # "none" => filePc \in Undoing \cup {"done"}

\* An edit that is applied to another content than the editor was given has seen others
\* write three times: away from it, back to it before the comparison, and away again.
EditInv ==
  /\ fileJob.kind # "edit" => fileJob.snap = fileJob.base
  /\ filePc \in {"editor", "reread"} /\ file # fileJob.base => foreign > 0
  /\ filePc \in {"plan", "confirm", "compare"} /\ fileJob.snap # fileJob.base =>
       foreign > IF file = fileJob.snap THEN 0 ELSE 1
  /\ filePc = "check" /\ fileJob.snap # fileJob.base =>
       foreign > IF file = fileJob.snap THEN 2 ELSE 1
  /\ filePc \in {"backup", "write"} /\ fileJob.snap # fileJob.base => foreign > 2

\* What a result says.
ResultInv ==
  filePc = "done" /\ ~unseen =>
    /\ fileJob.result = "failed" /\ fileJob.kind # "restore" =>
         IF fileJob.changed THEN file = fileJob.orig
         ELSE file = theirs \/ (slip = "file" /\ file = fileJob.want /\ fileJob.kind # "fix")
    /\ fileJob.result = "failed" /\ fileJob.changed =>
         sidecar = fileJob.origKey /\ (slip # "ref" => ref = recorded)
    /\ fileJob.result = "ok" /\ fileJob.want # Broken => file = fileJob.want
    /\ fileJob.result = "ok" /\ fileJob.saved =>
         ref = file.key /\ sidecar = IF managed THEN file.key ELSE NoKey

ConfigInv == Config!TypeOK /\ ConfigJobInv /\ ContentInv /\ FixInv /\ RecordInv /\ EditInv /\ ResultInv

USE KeysAssumption DEF KeysAssumption, Config!history, Config!Go, Config!GoWith, Config!MaybeWritten,
    Applying, Fixed, Undoing

LEMMA ConfigNoJob ==
  /\ Config!NoJob \in Config!Jobs
  /\ Config!NoJob.kind = "none" /\ Config!NoJob.base = Broken /\ Config!NoJob.snap = Broken
  /\ Config!NoJob.want = Broken /\ ~Config!NoJob.changed /\ ~Config!NoJob.saved
BY DEF Config!NoJob, Config!Jobs, Config!Contents, Config!Results

\* The end of a command keeps what it was about.
LEMMA ConfigEnds ==
  ASSUME fileJob \in Config!Jobs, NEW r \in Config!Results, Config!End(r)
  PROVE  /\ filePc' = "done" /\ fileJob' \in Config!Jobs /\ fileJob'.result = r
         /\ fileJob'.kind = fileJob.kind /\ fileJob'.base = fileJob.base
         /\ fileJob'.snap = fileJob.snap /\ fileJob'.want = fileJob.want
         /\ fileJob'.orig = fileJob.orig /\ fileJob'.origKey = fileJob.origKey
         /\ fileJob'.origRef = fileJob.origRef
         /\ fileJob'.changed = fileJob.changed /\ fileJob'.saved = fileJob.saved
BY DEF Config!End, Config!Jobs

\* An error before the rollback, after which the file is what others left.
LEMMA ConfigFails ==
  ASSUME ConfigInv, Config!Fail,
         filePc \notin {"idle", "done"} \cup Undoing,
         file' \in Config!Contents, sidecar' \in Keys \cup {NoKey}, ref' \in Keys,
         backup' \in Config!Contents, refused' \in BOOLEAN, slip' \in {"none", "file", "ref"},
         UNCHANGED <<managed, foreign, theirs, recorded, unseen>>,
         ~fileJob.changed /\ fileJob.kind # "restore" /\ ~unseen =>
           file' = theirs \/ (slip' = "file" /\ file' = fileJob.want /\ fileJob.kind # "fix"),
         ~fileJob.saved /\ slip' # "ref" => ref' = recorded,
         fileJob.saved => slip' # "ref",
         ~managed => sidecar' = NoKey
  PROVE  ConfigInv'
<1>1. CASE fileJob.kind = "fix" /\ fileJob.changed
  <2>1. filePc' = "undo" /\ fileJob' = fileJob
    BY <1>1 DEF Config!Fail
  <2>2. Config!TypeOK' /\ ConfigJobInv'
    BY <1>1, <2>1 DEF ConfigInv, Config!TypeOK, ConfigJobInv, Config!PCs
  <2> QED
    BY <1>1, <2>1, <2>2 DEF ConfigInv, ContentInv, FixInv, RecordInv, EditInv, ResultInv, Unwritten
<1>2. CASE ~(fileJob.kind = "fix" /\ fileJob.changed)
  <2>0. ~fileJob.changed /\ ~fileJob.saved
    BY <1>2 DEF ConfigInv, ConfigJobInv
  <2>1. /\ filePc' = "done" /\ fileJob' \in Config!Jobs /\ fileJob'.result = "failed"
        /\ fileJob'.kind = fileJob.kind /\ fileJob'.base = fileJob.base
        /\ fileJob'.snap = fileJob.snap /\ fileJob'.want = fileJob.want
        /\ fileJob'.changed = fileJob.changed /\ fileJob'.saved = fileJob.saved
    BY <1>2, ConfigEnds DEF Config!Fail, Config!Results, ConfigInv, Config!TypeOK
  <2>2. Config!TypeOK' /\ ConfigJobInv'
    BY <2>0, <2>1 DEF ConfigInv, Config!TypeOK, ConfigJobInv, Config!PCs
  <2> QED
    BY <2>0, <2>1, <2>2 DEF ConfigInv, ContentInv, FixInv, RecordInv, EditInv, ResultInv, Unwritten
<1> QED
  BY <1>1, <1>2

\* An error of a step that changes nothing.
LEMMA ConfigFailsAsItIs ==
  ASSUME ConfigInv, Config!Fail,
         filePc \in (Unwritten \ {"idle", "sidecar"}) \cup {"torn"} \cup Fixed,
         filePc = "torn" => file # fileJob.want,
         UNCHANGED <<file, sidecar, ref, backup, managed, foreign, theirs, recorded, unseen, slip>>,
         refused' \in BOOLEAN
  PROVE  ConfigInv'
<1>1. ~fileJob.changed /\ fileJob.kind # "restore" /\ ~unseen => file = theirs
  BY DEF ConfigInv, ConfigJobInv, ContentInv, Unwritten
<1>2. /\ ~fileJob.saved /\ slip # "ref" => ref = recorded
      /\ fileJob.saved => slip # "ref"
      /\ ~managed => sidecar = NoKey
  BY DEF ConfigInv, RecordInv
<1> QED
  BY <1>1, <1>2, ConfigFails DEF ConfigInv, Config!TypeOK, Unwritten

LEMMA ConfigBeginStep ==
  ASSUME ConfigInv, NEW kind \in Config!Kinds, Config!Begin(kind)
  PROVE  ConfigInv'
<1>1. /\ fileJob' \in Config!Jobs /\ fileJob'.kind = kind /\ fileJob'.base = Broken
      /\ fileJob'.snap = Broken /\ fileJob'.want = Broken /\ ~fileJob'.changed /\ ~fileJob'.saved
      /\ kind # "none"
  BY ConfigNoJob DEF Config!Begin, Config!Jobs, Config!Kinds
<1>2. /\ filePc' \in {"read", "confirm"} /\ (filePc' = "confirm" => kind = "fix")
      /\ UNCHANGED <<file, sidecar, ref, backup, managed, foreign, theirs, recorded>>
      /\ unseen' = FALSE /\ refused' = FALSE /\ filePc = "idle" /\ slip' = slip
  BY DEF Config!Begin
<1>3. Config!TypeOK' /\ ConfigJobInv'
  BY <1>1, <1>2 DEF ConfigInv, Config!TypeOK, ConfigJobInv, Config!PCs
<1>4. ContentInv'
  BY <1>1, <1>2 DEF ConfigInv, ContentInv, Unwritten
<1>5. RecordInv'
  BY <1>1, <1>2 DEF ConfigInv, ConfigJobInv, RecordInv
<1>6. FixInv' /\ EditInv' /\ ResultInv'
  BY <1>1, <1>2 DEF FixInv, EditInv, ResultInv, Unwritten
<1> QED
  BY <1>3, <1>4, <1>5, <1>6 DEF ConfigInv

LEMMA ConfigReadStep ==
  ASSUME ConfigInv, Config!Read
  PROVE  ConfigInv'
<1> DEFINE snapped == [fileJob EXCEPT !.base = file, !.snap = file]
<1>0. /\ filePc = "read" /\ ~fileJob.changed /\ ~fileJob.saved /\ fileJob.want = Broken
      /\ UNCHANGED <<file, sidecar, ref, backup, managed, foreign, theirs, recorded, unseen, refused, slip>>
  BY DEF ConfigInv, ConfigJobInv, Config!Read
<1>1. /\ snapped \in Config!Jobs /\ snapped.kind = fileJob.kind /\ snapped.base = file /\ snapped.snap = file
      /\ snapped.want = fileJob.want /\ snapped.changed = fileJob.changed /\ snapped.saved = fileJob.saved
  BY DEF ConfigInv, Config!TypeOK, Config!Jobs
<1> HIDE DEF snapped
<1>2. ASSUME fileJob' = snapped,
             \/ filePc' = "editor" /\ fileJob.kind = "edit"
             \/ filePc' = "confirm" /\ fileJob.kind = "restore"
             \/ filePc' = "plan" /\ fileJob.kind \notin {"edit", "restore"} /\ file # Broken
      PROVE  ConfigInv'
  <2>1. filePc' = "plan" => file \in Config!Valid
    BY <1>2 DEF ConfigInv, Config!TypeOK, Config!Contents
  <2>2. Config!TypeOK' /\ ConfigJobInv'
    BY <1>0, <1>1, <1>2, <2>1 DEF ConfigInv, Config!TypeOK, ConfigJobInv, Config!PCs
  <2> QED
    BY <1>0, <1>1, <1>2, <2>2 DEF ConfigInv, ContentInv, FixInv, RecordInv, EditInv, ResultInv, Unwritten
<1>3. CASE Config!End("ok")
  <2>1. /\ filePc' = "done" /\ fileJob' \in Config!Jobs /\ fileJob'.result = "ok"
        /\ fileJob'.kind = fileJob.kind /\ fileJob'.base = fileJob.base
        /\ fileJob'.snap = fileJob.snap /\ fileJob'.want = fileJob.want
        /\ fileJob'.changed = fileJob.changed /\ fileJob'.saved = fileJob.saved
    BY <1>3, ConfigEnds DEF Config!Results, ConfigInv, Config!TypeOK
  <2>2. Config!TypeOK' /\ ConfigJobInv'
    BY <1>0, <2>1 DEF ConfigInv, Config!TypeOK, ConfigJobInv, Config!PCs
  <2> QED
    BY <1>0, <2>1, <2>2 DEF ConfigInv, ContentInv, FixInv, RecordInv, EditInv, ResultInv, Unwritten
<1>4. CASE Config!Fail
  BY <1>0, <1>4, ConfigFailsAsItIs DEF ConfigInv, Config!TypeOK, Unwritten
<1> QED
  BY <1>2, <1>3, <1>4 DEF Config!Read, snapped

LEMMA ConfigEditorStep ==
  ASSUME ConfigInv, Config!Editor
  PROVE  ConfigInv'
<1>0. filePc = "editor" /\ UNCHANGED <<file, sidecar, ref, backup, managed, foreign, theirs, recorded, unseen, refused, slip>>
  BY DEF Config!Editor
<1>1. CASE \E c \in Config!Contents : filePc' = "reread" /\ fileJob' = [fileJob EXCEPT !.edited = c]
  <2>1. /\ fileJob' \in Config!Jobs /\ fileJob'.kind = fileJob.kind /\ fileJob'.base = fileJob.base
        /\ fileJob'.snap = fileJob.snap
        /\ fileJob'.changed = fileJob.changed /\ fileJob'.saved = fileJob.saved
    BY <1>1 DEF ConfigInv, Config!TypeOK, Config!Jobs
  <2>2. Config!TypeOK' /\ ConfigJobInv'
    BY <1>0, <1>1, <2>1 DEF ConfigInv, Config!TypeOK, ConfigJobInv, Config!PCs
  <2> QED
    BY <1>0, <1>1, <2>1, <2>2 DEF ConfigInv, ConfigJobInv, ContentInv, FixInv, RecordInv, EditInv, ResultInv, Unwritten
<1>2. CASE Config!Fail
  BY <1>0, <1>2, ConfigFailsAsItIs DEF ConfigInv, Config!TypeOK, Unwritten
<1> QED
  BY <1>1, <1>2 DEF Config!Editor

LEMMA ConfigRereadStep ==
  ASSUME ConfigInv, Config!Reread
  PROVE  ConfigInv'
<1>0. filePc = "reread" /\ UNCHANGED <<file, sidecar, ref, backup, managed, foreign, theirs, recorded, unseen, refused, slip>>
  BY DEF Config!Reread
<1>1. CASE /\ file # Broken /\ fileJob.edited # Broken
           /\ filePc' = "plan" /\ fileJob' = [fileJob EXCEPT !.snap = file]
  <2>1. /\ fileJob' \in Config!Jobs /\ fileJob'.kind = fileJob.kind /\ fileJob'.base = fileJob.base
        /\ fileJob'.snap = file /\ fileJob'.edited = fileJob.edited
        /\ fileJob'.changed = fileJob.changed /\ fileJob'.saved = fileJob.saved
    BY <1>1 DEF ConfigInv, Config!TypeOK, Config!Jobs
  <2>2. file \in Config!Valid /\ fileJob.edited \in Config!Valid
    BY <1>1 DEF ConfigInv, Config!TypeOK, Config!Jobs, Config!Contents
  <2>3. Config!TypeOK' /\ ConfigJobInv'
    BY <1>0, <1>1, <2>1, <2>2 DEF ConfigInv, Config!TypeOK, ConfigJobInv, Config!PCs
  <2> QED
    BY <1>0, <1>1, <2>1, <2>3 DEF ConfigInv, ConfigJobInv, ContentInv, FixInv, RecordInv, EditInv, ResultInv, Unwritten
<1>2. CASE Config!Fail
  BY <1>0, <1>2, ConfigFailsAsItIs DEF ConfigInv, Config!TypeOK, Unwritten
<1> QED
  BY <1>1, <1>2 DEF Config!Reread

\* A plan makes a content that parses of one that does.
LEMMA PatchedIsValid ==
  ASSUME ConfigInv, filePc = "plan", NEW c \in Config!Patched(fileJob.snap)
  PROVE  c \in Config!Valid
<1>1. fileJob.snap \in Config!Valid /\ (fileJob.kind = "edit" => fileJob.edited \in Config!Valid)
  BY DEF ConfigInv, ConfigJobInv
<1>2. fileJob.kind \in {"set", "edit", "harden", "fix"}
  BY DEF ConfigInv, ConfigJobInv, Config!TypeOK, Config!Jobs, Config!Kinds
<1>3. fileJob.kind = "set" => c \in Config!Valid
  BY <1>1 DEF Config!Patched, Config!Valid
<1>4. fileJob.kind = "edit" => c \in Config!Valid
  BY <1>1 DEF Config!Patched, Config!Valid
<1>5. fileJob.kind = "harden" => c \in Config!Valid
  BY <1>1 DEF Config!Patched, Config!Valid
<1>6. fileJob.kind = "fix" => c \in Config!Valid
  BY <1>1 DEF Config!Patched, Config!Valid
<1> QED
  BY <1>2, <1>3, <1>4, <1>5, <1>6

LEMMA ConfigPlanStep ==
  ASSUME ConfigInv, Config!Plan
  PROVE  ConfigInv'
<1>0. filePc = "plan" /\ UNCHANGED <<file, sidecar, ref, backup, managed, foreign, theirs, recorded, unseen, refused, slip>>
  BY DEF Config!Plan
<1>1. ASSUME NEW c \in Config!Patched(fileJob.snap), file = fileJob.snap,
             filePc' = IF fileJob.kind = "fix" THEN "keep" ELSE "confirm",
             fileJob' = [fileJob EXCEPT !.want = c]
      PROVE  ConfigInv'
  <2>0. c \in Config!Valid
    BY <1>0, PatchedIsValid
  <2>1. /\ fileJob' \in Config!Jobs /\ fileJob'.kind = fileJob.kind /\ fileJob'.base = fileJob.base
        /\ fileJob'.snap = fileJob.snap /\ fileJob'.want = c
        /\ fileJob'.changed = fileJob.changed /\ fileJob'.saved = fileJob.saved
    BY <1>1, <2>0 DEF ConfigInv, Config!TypeOK, Config!Jobs, Config!Contents
  <2>2. Config!TypeOK' /\ ConfigJobInv'
    BY <1>0, <1>1, <2>0, <2>1 DEF ConfigInv, Config!TypeOK, ConfigJobInv, Config!PCs
  <2> QED
    BY <1>0, <1>1, <2>1, <2>2 DEF ConfigInv, ConfigJobInv, ContentInv, FixInv, RecordInv, EditInv, ResultInv, Unwritten
<1>2. CASE Config!Fail
  BY <1>0, <1>2, ConfigFailsAsItIs DEF ConfigInv, Config!TypeOK, Unwritten
<1> QED
  BY <1>1, <1>2 DEF Config!Plan

LEMMA ConfigConfirmStep ==
  ASSUME ConfigInv, Config!Confirm
  PROVE  ConfigInv'
<1>0. filePc = "confirm" /\ UNCHANGED <<file, sidecar, ref, backup, managed, foreign, theirs, recorded, unseen, refused, slip>>
  BY DEF Config!Confirm
<1>1. CASE /\ UNCHANGED fileJob
           /\ \/ filePc' = "read" /\ fileJob.kind = "fix"
              \/ filePc' = "compare" /\ fileJob.kind = "edit"
              \/ filePc' = "overwrite" /\ fileJob.kind = "restore"
              \/ filePc' = "check" /\ fileJob.kind \in {"set", "harden"}
  <2>1. Config!TypeOK' /\ ConfigJobInv'
    BY <1>0, <1>1 DEF ConfigInv, Config!TypeOK, ConfigJobInv, Config!PCs
  <2> QED
    BY <1>0, <1>1, <2>1 DEF ConfigInv, ConfigJobInv, ContentInv, FixInv, RecordInv, EditInv, ResultInv, Unwritten
<1>2. CASE Config!Fail
  BY <1>0, <1>2, ConfigFailsAsItIs DEF ConfigInv, Config!TypeOK, Unwritten
<1> QED
  BY <1>1, <1>2 DEF Config!Confirm

LEMMA ConfigCompareStep ==
  ASSUME ConfigInv, Config!Compare
  PROVE  ConfigInv'
<1>0. filePc = "compare" /\ UNCHANGED <<file, sidecar, ref, backup, managed, foreign, theirs, recorded, unseen, refused, slip>>
  BY DEF Config!Compare
<1>1. CASE UNCHANGED fileJob /\ filePc' = "check" /\ file = fileJob.base
  <2>1. Config!TypeOK' /\ ConfigJobInv'
    BY <1>0, <1>1 DEF ConfigInv, Config!TypeOK, ConfigJobInv, Config!PCs
  <2> QED
    BY <1>0, <1>1, <2>1 DEF ConfigInv, ConfigJobInv, ContentInv, FixInv, RecordInv, EditInv, ResultInv, Unwritten
<1>2. CASE Config!Fail
  BY <1>0, <1>2, ConfigFailsAsItIs DEF ConfigInv, Config!TypeOK, Unwritten
<1> QED
  BY <1>1, <1>2 DEF Config!Compare, Config!Unedited

\* The fields that a step writes to disk.
LEMMA ConfigFields ==
  ASSUME ConfigInv
  PROVE  /\ fileJob.snap \in Config!Contents /\ fileJob.want \in Config!Contents
         /\ fileJob.orig \in Config!Contents /\ fileJob.origKey \in Keys \cup {NoKey}
         /\ fileJob.origRef \in Keys \cup {NoKey}
BY DEF ConfigInv, Config!TypeOK, Config!Jobs

LEMMA ConfigCheckStep ==
  ASSUME ConfigInv, Config!Check
  PROVE  ConfigInv'
<1>0. filePc = "check" /\ UNCHANGED <<file, sidecar, ref, backup, managed, foreign, theirs, recorded, slip>>
  BY DEF Config!Check
<1>1. CASE UNCHANGED <<fileJob, refused>> /\ file = fileJob.snap /\ filePc' = "backup" /\ unseen' = FALSE
  <2>1. Config!TypeOK' /\ ConfigJobInv'
    BY <1>0, <1>1, ConfigFields DEF ConfigInv, Config!TypeOK, ConfigJobInv, Config!PCs
  <2> QED
    BY <1>0, <1>1, <2>1 DEF ConfigInv, ConfigJobInv, ContentInv, FixInv, RecordInv, EditInv, ResultInv, Unwritten
<1>2. CASE Config!Fail /\ unseen' = unseen /\ refused' \in {TRUE, refused}
  BY <1>0, <1>2, ConfigFailsAsItIs DEF ConfigInv, Config!TypeOK, Unwritten
<1> QED
  BY <1>0, <1>1, <1>2 DEF Config!Check

LEMMA ConfigBackupStep ==
  ASSUME ConfigInv, Config!Backup
  PROVE  ConfigInv'
<1>0. filePc = "backup" /\ UNCHANGED <<file, sidecar, ref, managed, foreign, theirs, recorded, unseen, refused, slip>>
  BY DEF Config!Backup
<1>1. CASE UNCHANGED fileJob /\ backup' = fileJob.snap /\ filePc' = "write"
  <2>1. Config!TypeOK' /\ ConfigJobInv'
    BY <1>0, <1>1, ConfigFields DEF ConfigInv, Config!TypeOK, ConfigJobInv, Config!PCs
  <2> QED
    BY <1>0, <1>1, <2>1 DEF ConfigInv, ConfigJobInv, ContentInv, FixInv, RecordInv, EditInv, ResultInv, Unwritten
<1>2. CASE Config!Fail /\ UNCHANGED backup
  BY <1>0, <1>2, ConfigFailsAsItIs DEF ConfigInv, Config!TypeOK, Unwritten
<1> QED
  BY <1>0, <1>1, <1>2 DEF Config!Backup

LEMMA ConfigWriteStep ==
  ASSUME ConfigInv, Config!Write
  PROVE  ConfigInv'
<1>0. filePc = "write" /\ UNCHANGED <<sidecar, ref, backup, managed, foreign, theirs, recorded, unseen, refused, slip>>
  BY DEF Config!Write
<1>1. CASE UNCHANGED fileJob /\ file' = fileJob.want /\ filePc' = "verify"
  <2>1. Config!TypeOK' /\ ConfigJobInv'
    BY <1>0, <1>1, ConfigFields DEF ConfigInv, Config!TypeOK, ConfigJobInv, Config!PCs
  <2> QED
    BY <1>0, <1>1, <2>1 DEF ConfigInv, ConfigJobInv, ContentInv, FixInv, RecordInv, EditInv, ResultInv, Unwritten
<1>2. CASE UNCHANGED fileJob /\ file' \in {file, fileJob.want} /\ filePc' = "torn"
  <2>1. Config!TypeOK' /\ ConfigJobInv'
    BY <1>0, <1>2, ConfigFields DEF ConfigInv, Config!TypeOK, ConfigJobInv, Config!PCs
  <2> QED
    BY <1>0, <1>2, <2>1 DEF ConfigInv, ConfigJobInv, ContentInv, FixInv, RecordInv, EditInv, ResultInv, Unwritten
<1> QED
  BY <1>0, <1>1, <1>2 DEF Config!Write

LEMMA ConfigTornStep ==
  ASSUME ConfigInv, Config!Torn
  PROVE  ConfigInv'
<1>0. filePc = "torn" /\ UNCHANGED <<file, sidecar, ref, backup, managed, foreign, theirs, recorded, unseen, refused>>
  BY DEF Config!Torn
<1>1. CASE UNCHANGED <<fileJob, slip>> /\ file = fileJob.want /\ filePc' = "revert"
  <2>1. Config!TypeOK' /\ ConfigJobInv'
    BY <1>0, <1>1, ConfigFields DEF ConfigInv, Config!TypeOK, ConfigJobInv, Config!PCs
  <2> QED
    BY <1>0, <1>1, <2>1 DEF ConfigInv, ConfigJobInv, ContentInv, FixInv, RecordInv, EditInv, ResultInv, Unwritten
<1>2. CASE Config!Fail /\ file # fileJob.want /\ slip' = slip
  BY <1>0, <1>2, ConfigFailsAsItIs DEF ConfigInv, Config!TypeOK, Unwritten
<1>3. CASE Config!Fail /\ file = fileJob.want /\ slip' = "file"
  <2>1. fileJob.kind = "fix" => fileJob.changed
    BY <1>0 DEF ConfigInv, ConfigJobInv
  <2>2. slip = "none" /\ ~fileJob.saved /\ ref = recorded /\ (~managed => sidecar = NoKey)
    BY <1>0 DEF ConfigInv, ConfigJobInv, RecordInv
  <2> QED
    BY <1>0, <1>3, <2>1, <2>2, ConfigFails DEF ConfigInv, Config!TypeOK
<1> QED
  BY <1>0, <1>1, <1>2, <1>3 DEF Config!Torn, Config!CandidateInPlace

LEMMA ConfigSecureStep ==
  ASSUME ConfigInv, Config!Secure
  PROVE  ConfigInv'
<1>0. filePc = "secure" /\ UNCHANGED <<file, sidecar, ref, backup, managed, foreign, theirs, recorded, unseen, refused, slip>>
  BY DEF Config!Secure
<1>1. CASE UNCHANGED fileJob /\ filePc' = "probe"
  <2>1. Config!TypeOK' /\ ConfigJobInv'
    BY <1>0, <1>1, ConfigFields DEF ConfigInv, Config!TypeOK, ConfigJobInv, Config!PCs
  <2> QED
    BY <1>0, <1>1, <2>1 DEF ConfigInv, ConfigJobInv, ContentInv, FixInv, RecordInv, EditInv, ResultInv, Unwritten
<1>2. CASE Config!Fail /\ TRUE
  BY <1>0, <1>2, ConfigFailsAsItIs DEF ConfigInv, Config!TypeOK, Unwritten
<1> QED
  BY <1>0, <1>1, <1>2 DEF Config!Secure

LEMMA ConfigProbeStep ==
  ASSUME ConfigInv, Config!Probe
  PROVE  ConfigInv'
<1>0. filePc = "probe" /\ UNCHANGED <<file, sidecar, ref, backup, managed, foreign, theirs, recorded, unseen, refused, slip>>
  BY DEF Config!Probe
<1>1. CASE UNCHANGED fileJob /\ filePc' = "save"
  <2>1. Config!TypeOK' /\ ConfigJobInv'
    BY <1>0, <1>1, ConfigFields DEF ConfigInv, Config!TypeOK, ConfigJobInv, Config!PCs
  <2> QED
    BY <1>0, <1>1, <2>1 DEF ConfigInv, ConfigJobInv, ContentInv, FixInv, RecordInv, EditInv, ResultInv, Unwritten
<1>2. CASE Config!Fail /\ TRUE
  BY <1>0, <1>2, ConfigFailsAsItIs DEF ConfigInv, Config!TypeOK, Unwritten
<1> QED
  BY <1>0, <1>1, <1>2 DEF Config!Probe

LEMMA ConfigVerifyStep ==
  ASSUME ConfigInv, Config!Verify
  PROVE  ConfigInv'
<1>0. filePc = "verify" /\ UNCHANGED <<file, sidecar, ref, backup, managed, foreign, theirs, recorded, unseen, refused, slip>>
  BY DEF Config!Verify
<1>1. CASE UNCHANGED fileJob /\ (filePc' = "revert"
                                   \/ (filePc' = "secure" /\ file = fileJob.want /\ fileJob.kind = "fix"))
  <2>1. Config!TypeOK' /\ ConfigJobInv'
    BY <1>0, <1>1 DEF ConfigInv, Config!TypeOK, ConfigJobInv, Config!PCs
  <2> QED
    BY <1>0, <1>1, <2>1 DEF ConfigInv, ConfigJobInv, ContentInv, FixInv, RecordInv, EditInv, ResultInv, Unwritten
<1>2. CASE Config!End("ok") /\ file = fileJob.want /\ fileJob.kind # "fix"
  <2>0. ~fileJob.changed /\ ~fileJob.saved
    BY <1>2 DEF ConfigInv, ConfigJobInv
  <2>1. /\ filePc' = "done" /\ fileJob' \in Config!Jobs /\ fileJob'.result = "ok"
        /\ fileJob'.kind = fileJob.kind /\ fileJob'.base = fileJob.base
        /\ fileJob'.snap = fileJob.snap /\ fileJob'.want = fileJob.want
        /\ fileJob'.changed = fileJob.changed /\ fileJob'.saved = fileJob.saved
    BY <1>2, ConfigEnds DEF Config!Results, ConfigInv, Config!TypeOK
  <2>2. Config!TypeOK' /\ ConfigJobInv'
    BY <1>0, <2>0, <2>1 DEF ConfigInv, Config!TypeOK, ConfigJobInv, Config!PCs
  <2> QED
    BY <1>0, <1>2, <2>0, <2>1, <2>2 DEF ConfigInv, ContentInv, FixInv, RecordInv, EditInv, ResultInv, Unwritten
<1> QED
  BY <1>1, <1>2 DEF Config!Verify

LEMMA ConfigRevertStep ==
  ASSUME ConfigInv, Config!Revert
  PROVE  ConfigInv'
<1>0. filePc = "revert" /\ UNCHANGED <<sidecar, ref, backup, managed, foreign, theirs, recorded, unseen, refused, slip>>
  BY DEF Config!Revert
<1>1. CASE file' = fileJob.snap /\ Config!Fail
  <2>1. ~unseen => file' = theirs
    BY <1>0, <1>1 DEF ConfigInv, ContentInv
  <2>2. slip = "none" /\ ~fileJob.saved /\ ref = recorded /\ (~managed => sidecar = NoKey)
    BY <1>0 DEF ConfigInv, ConfigJobInv, RecordInv
  <2> QED
    BY <1>0, <1>1, <2>1, <2>2, ConfigFails, ConfigFields DEF ConfigInv, Config!TypeOK
<1>2. CASE file' \in {file, fileJob.snap} /\ UNCHANGED fileJob /\ filePc' = "undo" /\ fileJob.kind = "fix"
  <2>1. Config!TypeOK' /\ ConfigJobInv'
    BY <1>0, <1>2, ConfigFields DEF ConfigInv, Config!TypeOK, ConfigJobInv, Config!PCs
  <2> QED
    BY <1>0, <1>2, <2>1 DEF ConfigInv, ConfigJobInv, ContentInv, FixInv, RecordInv, EditInv, ResultInv, Unwritten
<1>3. CASE file' \in {file, fileJob.snap} /\ Config!End("mixed") /\ fileJob.kind # "fix"
  <2>0. ~fileJob.changed /\ ~fileJob.saved
    BY <1>3 DEF ConfigInv, ConfigJobInv
  <2>1. /\ filePc' = "done" /\ fileJob' \in Config!Jobs /\ fileJob'.result = "mixed"
        /\ fileJob'.kind = fileJob.kind /\ fileJob'.base = fileJob.base
        /\ fileJob'.snap = fileJob.snap
        /\ fileJob'.changed = fileJob.changed /\ fileJob'.saved = fileJob.saved
    BY <1>3, ConfigEnds DEF Config!Results, ConfigInv, Config!TypeOK
  <2>2. Config!TypeOK' /\ ConfigJobInv'
    BY <1>0, <1>3, <2>0, <2>1, ConfigFields DEF ConfigInv, Config!TypeOK, ConfigJobInv, Config!PCs
  <2> QED
    BY <1>0, <1>3, <2>0, <2>1, <2>2 DEF ConfigInv, ContentInv, FixInv, RecordInv, EditInv, ResultInv, Unwritten
<1> QED
  BY <1>1, <1>2, <1>3 DEF Config!Revert

LEMMA ConfigKeepStep ==
  ASSUME ConfigInv, Config!Keep
  PROVE  ConfigInv'
<1>0. filePc = "keep" /\ UNCHANGED <<file, sidecar, ref, backup, managed, foreign, theirs, recorded, refused, slip>>
  BY DEF Config!Keep
<1>1. CASE /\ filePc' = "sidecar" /\ unseen' = FALSE
           /\ fileJob' = [fileJob EXCEPT !.orig = file, !.origKey = sidecar, !.changed = TRUE]
  <2>1. /\ fileJob' \in Config!Jobs /\ fileJob'.kind = fileJob.kind /\ fileJob'.base = fileJob.base
        /\ fileJob'.snap = fileJob.snap /\ fileJob'.want = fileJob.want
        /\ fileJob'.orig = file /\ fileJob'.origKey = sidecar
        /\ fileJob'.changed /\ fileJob'.saved = fileJob.saved
    BY <1>1 DEF ConfigInv, Config!TypeOK, Config!Jobs
  <2>2. Config!TypeOK' /\ ConfigJobInv'
    BY <1>0, <1>1, <2>1 DEF ConfigInv, Config!TypeOK, ConfigJobInv, Config!PCs
  <2> QED
    BY <1>0, <1>1, <2>1, <2>2 DEF ConfigInv, ConfigJobInv, ContentInv, FixInv, RecordInv, EditInv, ResultInv, Unwritten
<1>2. CASE Config!Fail /\ UNCHANGED unseen
  BY <1>0, <1>2, ConfigFailsAsItIs DEF ConfigInv, Config!TypeOK, Unwritten
<1> QED
  BY <1>1, <1>2 DEF Config!Keep

LEMMA ConfigWriteSidecarStep ==
  ASSUME ConfigInv, Config!WriteSidecar
  PROVE  ConfigInv'
<1>0. filePc = "sidecar" /\ UNCHANGED <<file, ref, backup, managed, foreign, theirs, recorded, unseen, refused, slip>>
  BY DEF Config!WriteSidecar
<1>1. fileJob.kind = "fix" /\ fileJob.changed /\ fileJob.want \in Config!Valid /\ fileJob.want.key \in Keys
  BY <1>0 DEF ConfigInv, ConfigJobInv, Config!Valid
<1>2. ~managed => sidecar = NoKey
  BY DEF ConfigInv, RecordInv
<1>3. CASE /\ sidecar' = IF managed THEN fileJob.want.key ELSE NoKey
           /\ UNCHANGED fileJob /\ filePc' = "check"
  <2>1. Config!TypeOK' /\ ConfigJobInv'
    BY <1>0, <1>1, <1>3 DEF ConfigInv, Config!TypeOK, ConfigJobInv, Config!PCs
  <2> QED
    BY <1>0, <1>1, <1>3, <2>1 DEF ConfigInv, ConfigJobInv, ContentInv, FixInv, RecordInv, EditInv, ResultInv, Unwritten
<1>4. CASE managed /\ sidecar' \in {sidecar, fileJob.want.key} /\ Config!Fail
  <2>1. slip = "none" /\ ~fileJob.saved /\ ref = recorded
    BY <1>0 DEF ConfigInv, ConfigJobInv, RecordInv
  <2> QED
    BY <1>0, <1>1, <1>4, <2>1, ConfigFails DEF ConfigInv, Config!TypeOK
<1> QED
  BY <1>2, <1>3, <1>4 DEF Config!WriteSidecar

LEMMA ConfigSaveStep ==
  ASSUME ConfigInv, Config!Save
  PROVE  ConfigInv'
<1>0. filePc = "save" /\ UNCHANGED <<file, sidecar, backup, managed, foreign, theirs, recorded, unseen, refused>>
  BY DEF Config!Save
<1>1. fileJob.kind = "fix" /\ fileJob.changed /\ fileJob.want \in Config!Valid /\ fileJob.want.key \in Keys
  BY <1>0 DEF ConfigInv, ConfigJobInv, Config!Valid
<1>a. slip = "none" /\ ~fileJob.saved /\ ref = recorded /\ (~managed => sidecar = NoKey)
  BY <1>0 DEF ConfigInv, ConfigJobInv, RecordInv
<1>2. CASE /\ filePc' = "observe" /\ ref' = fileJob.want.key /\ slip' = slip
           /\ fileJob' = [fileJob EXCEPT !.origRef = ref, !.saved = TRUE]
  <2>1. /\ fileJob' \in Config!Jobs /\ fileJob'.kind = fileJob.kind /\ fileJob'.base = fileJob.base
        /\ fileJob'.snap = fileJob.snap /\ fileJob'.want = fileJob.want
        /\ fileJob'.orig = fileJob.orig /\ fileJob'.origKey = fileJob.origKey
        /\ fileJob'.origRef = ref /\ fileJob'.changed = fileJob.changed /\ fileJob'.saved
    BY <1>2 DEF ConfigInv, Config!TypeOK, Config!Jobs
  <2>2. Config!TypeOK' /\ ConfigJobInv'
    BY <1>0, <1>1, <1>2, <2>1 DEF ConfigInv, Config!TypeOK, ConfigJobInv, Config!PCs
  <2> QED
    BY <1>0, <1>1, <1>a, <1>2, <2>1, <2>2
       DEF ConfigInv, ConfigJobInv, ContentInv, FixInv, RecordInv, EditInv, ResultInv, Unwritten
<1>3. CASE UNCHANGED <<ref, slip>> /\ Config!Fail
  BY <1>0, <1>1, <1>a, <1>3, ConfigFails DEF ConfigInv, Config!TypeOK
<1>4. CASE ref' = fileJob.want.key /\ slip' = "ref" /\ Config!Fail
  BY <1>0, <1>1, <1>a, <1>4, ConfigFails DEF ConfigInv, Config!TypeOK
<1> QED
  BY <1>2, <1>3, <1>4 DEF Config!Save

LEMMA ConfigObserveStep ==
  ASSUME ConfigInv, Config!Observe
  PROVE  ConfigInv'
<1>0. filePc = "observe" /\ UNCHANGED <<file, sidecar, ref, backup, managed, foreign, theirs, recorded, unseen, refused, slip>>
  BY DEF Config!Observe
<1>1. CASE Config!End("ok")
  <2>0. fileJob.changed
    BY <1>0 DEF ConfigInv, ConfigJobInv
  <2>1. /\ filePc' = "done" /\ fileJob' \in Config!Jobs /\ fileJob'.result = "ok"
        /\ fileJob'.kind = fileJob.kind /\ fileJob'.base = fileJob.base
        /\ fileJob'.snap = fileJob.snap /\ fileJob'.want = fileJob.want
        /\ fileJob'.orig = fileJob.orig /\ fileJob'.origKey = fileJob.origKey
        /\ fileJob'.origRef = fileJob.origRef
        /\ fileJob'.changed = fileJob.changed /\ fileJob'.saved = fileJob.saved
    BY <1>1, ConfigEnds DEF Config!Results, ConfigInv, Config!TypeOK
  <2>2. Config!TypeOK' /\ ConfigJobInv'
    BY <1>0, <2>1 DEF ConfigInv, Config!TypeOK, ConfigJobInv, Config!PCs
  <2> QED
    BY <1>0, <2>1, <2>2 DEF ConfigInv, ConfigJobInv, ContentInv, FixInv, RecordInv, EditInv, ResultInv, Unwritten
<1>2. CASE Config!Fail
  BY <1>0, <1>2, ConfigFailsAsItIs DEF ConfigInv, Config!TypeOK, Unwritten
<1> QED
  BY <1>1, <1>2 DEF Config!Observe

\* The end of a rollback.
LEMMA ConfigUndone ==
  ASSUME ConfigInv, filePc \in Undoing, NEW r \in {"failed", "mixed"}, Config!End(r),
         file' \in Config!Contents, sidecar' \in Keys \cup {NoKey}, ref' \in Keys,
         UNCHANGED <<backup, managed, foreign, theirs, recorded, unseen, refused, slip>>,
         r = "failed" => /\ sidecar' = fileJob.origKey /\ (~unseen => file' = fileJob.orig)
                         /\ slip # "ref" => ref' = recorded,
         ~fileJob.saved => ref' = ref,
         ~managed => sidecar' = NoKey
  PROVE  ConfigInv'
<1>1. /\ filePc' = "done" /\ fileJob' \in Config!Jobs /\ fileJob'.result = r
      /\ fileJob'.kind = fileJob.kind /\ fileJob'.base = fileJob.base
      /\ fileJob'.snap = fileJob.snap /\ fileJob'.want = fileJob.want
      /\ fileJob'.orig = fileJob.orig /\ fileJob'.origKey = fileJob.origKey
      /\ fileJob'.origRef = fileJob.origRef
      /\ fileJob'.changed = fileJob.changed /\ fileJob'.saved = fileJob.saved
  BY ConfigEnds DEF Config!Results, ConfigInv, Config!TypeOK
<1>2. fileJob.changed /\ fileJob.kind = "fix"
  BY DEF ConfigInv, ConfigJobInv
<1>3. Config!TypeOK' /\ ConfigJobInv'
  BY <1>1, <1>2 DEF ConfigInv, Config!TypeOK, ConfigJobInv, Config!PCs
<1> QED
  BY <1>1, <1>2, <1>3 DEF ConfigInv, ContentInv, FixInv, RecordInv, EditInv, ResultInv, Unwritten

LEMMA ConfigUndoFileStep ==
  ASSUME ConfigInv, Config!UndoFile
  PROVE  ConfigInv'
<1>0. filePc = "undo" /\ UNCHANGED <<sidecar, ref, backup, managed, foreign, theirs, recorded, unseen, refused, slip>>
  BY DEF Config!UndoFile
<1>1. CASE file' = fileJob.orig /\ UNCHANGED fileJob /\ filePc' = "undo_key"
  <2>1. Config!TypeOK' /\ ConfigJobInv'
    BY <1>0, <1>1, ConfigFields DEF ConfigInv, Config!TypeOK, ConfigJobInv, Config!PCs
  <2> QED
    BY <1>0, <1>1, <2>1 DEF ConfigInv, ConfigJobInv, ContentInv, FixInv, RecordInv, EditInv, ResultInv, Unwritten
<1>2. CASE file' \in {file, fileJob.orig} /\ Config!End("mixed")
  <2>1. ~managed => sidecar = NoKey
    BY DEF ConfigInv, RecordInv
  <2> QED
    BY <1>0, <1>2, <2>1, ConfigFields, ConfigUndone DEF ConfigInv, Config!TypeOK
<1> QED
  BY <1>1, <1>2 DEF Config!UndoFile

LEMMA ConfigUndoKeyStep ==
  ASSUME ConfigInv, Config!UndoKey
  PROVE  ConfigInv'
<1>0. filePc = "undo_key" /\ UNCHANGED <<file, ref, backup, managed, foreign, theirs, recorded, unseen, refused, slip>>
  BY DEF Config!UndoKey
<1>1. ~unseen => file = fileJob.orig
  BY <1>0 DEF ConfigInv, FixInv
<1>a. /\ ~managed => sidecar = NoKey /\ fileJob.origKey = NoKey
      /\ ~fileJob.saved /\ slip # "ref" => ref = recorded
  BY <1>0 DEF ConfigInv, ConfigJobInv, RecordInv
<1>2. CASE sidecar' = fileJob.origKey /\ UNCHANGED fileJob /\ filePc' = "undo_ref" /\ fileJob.saved
  <2>1. Config!TypeOK' /\ ConfigJobInv'
    BY <1>0, <1>2, ConfigFields DEF ConfigInv, Config!TypeOK, ConfigJobInv, Config!PCs
  <2> QED
    BY <1>0, <1>a, <1>2, <2>1 DEF ConfigInv, ConfigJobInv, ContentInv, FixInv, RecordInv, EditInv, ResultInv, Unwritten
<1>3. CASE sidecar' = fileJob.origKey /\ Config!End("failed") /\ ~fileJob.saved
  BY <1>0, <1>1, <1>a, <1>3, ConfigFields, ConfigUndone DEF ConfigInv, Config!TypeOK
<1>4. CASE sidecar' \in {sidecar, fileJob.origKey} /\ Config!End("mixed")
  BY <1>0, <1>a, <1>4, ConfigFields, ConfigUndone DEF ConfigInv, Config!TypeOK
<1> QED
  BY <1>2, <1>3, <1>4 DEF Config!UndoKey

LEMMA ConfigKeepCopyStep ==
  ASSUME ConfigInv, Config!KeepCopy
  PROVE  ConfigInv'
<1>0. UNCHANGED <<filePc, fileJob, file, sidecar, ref, managed, foreign, theirs, recorded, unseen, refused, slip>> /\ backup' = file
  BY DEF Config!KeepCopy
<1>1. Config!TypeOK' /\ ConfigJobInv'
  BY <1>0 DEF ConfigInv, Config!TypeOK, ConfigJobInv
<1> QED
  BY <1>0, <1>1 DEF ConfigInv, ContentInv, FixInv, RecordInv, EditInv, ResultInv

LEMMA ConfigOverwriteStep ==
  ASSUME ConfigInv, Config!Overwrite
  PROVE  ConfigInv'
<1>0. /\ filePc = "overwrite" /\ UNCHANGED <<sidecar, ref, backup, managed, foreign, theirs, recorded, unseen, refused, slip>>
      /\ file' \in {file, backup}
  BY DEF Config!Overwrite
<1>1. PICK r \in {"ok", "failed"} : Config!End(r)
  BY DEF Config!Overwrite
<1>2. fileJob.kind = "restore" /\ fileJob.want = Broken /\ ~fileJob.changed /\ ~fileJob.saved
  BY <1>0 DEF ConfigInv, ConfigJobInv
<1>3. /\ filePc' = "done" /\ fileJob' \in Config!Jobs /\ fileJob'.result = r
      /\ fileJob'.kind = fileJob.kind /\ fileJob'.base = fileJob.base
      /\ fileJob'.snap = fileJob.snap /\ fileJob'.want = fileJob.want
      /\ fileJob'.changed = fileJob.changed /\ fileJob'.saved = fileJob.saved
  BY <1>1, ConfigEnds DEF Config!Results, ConfigInv, Config!TypeOK
<1>4. Config!TypeOK' /\ ConfigJobInv'
  BY <1>0, <1>2, <1>3 DEF ConfigInv, Config!TypeOK, ConfigJobInv, Config!PCs
<1> QED
  BY <1>0, <1>2, <1>3, <1>4 DEF ConfigInv, ContentInv, FixInv, RecordInv, EditInv, ResultInv, Unwritten

\* A command is over: shown, or dead.
LEMMA ConfigOver ==
  ASSUME ConfigInv, filePc' = "idle", fileJob' = Config!NoJob, theirs' = file, recorded' = ref,
         foreign' = 0, unseen' = FALSE, refused' = FALSE, slip' = "none",
         UNCHANGED <<file, managed, sidecar, ref, backup>>
  PROVE  ConfigInv'
<1>1. /\ fileJob' \in Config!Jobs /\ fileJob'.kind = "none" /\ fileJob'.base = Broken
      /\ fileJob'.snap = Broken /\ fileJob'.want = Broken /\ ~fileJob'.changed /\ ~fileJob'.saved
  BY ConfigNoJob
<1>2. 0 \in 0 .. MaxForeign
  BY BoundsAssumption DEF BoundsAssumption
<1>3. Config!TypeOK'
  BY <1>1, <1>2 DEF ConfigInv, Config!TypeOK, Config!PCs
<1>4. ConfigJobInv'
  BY <1>1 DEF ConfigInv, ConfigJobInv
<1> QED
  BY <1>1, <1>3, <1>4 DEF ConfigInv, ContentInv, FixInv, RecordInv, EditInv, ResultInv, Unwritten

LEMMA ConfigUndoRefStep ==
  ASSUME ConfigInv, Config!UndoRef
  PROVE  ConfigInv'
<1>0. /\ filePc = "undo_ref" /\ UNCHANGED <<file, sidecar, backup, managed, foreign, theirs, recorded, unseen, refused, slip>>
      /\ ref' \in {ref, fileJob.origRef}
  BY DEF Config!UndoRef
<1>1. PICK r \in {"failed", "mixed"} : Config!End(r) /\ (r = "failed" => ref' = fileJob.origRef)
  BY DEF Config!UndoRef
<1>2. fileJob.origRef \in Keys
  BY <1>0 DEF ConfigInv, ConfigJobInv
<1>3. sidecar = fileJob.origKey /\ (~unseen => file = fileJob.orig)
  BY <1>0 DEF ConfigInv, FixInv
<1>4. fileJob.saved /\ fileJob.origRef = recorded /\ (~managed => sidecar = NoKey)
  BY <1>0 DEF ConfigInv, ConfigJobInv, RecordInv
<1> QED
  BY <1>0, <1>1, <1>2, <1>3, <1>4, ConfigUndone DEF ConfigInv, Config!TypeOK

\* Another writer: what it leaves is `theirs`, and the command has not seen it.
LEMMA ConfigForeignStep ==
  ASSUME ConfigInv, Config!Foreign
  PROVE  ConfigInv'
<1>0. /\ UNCHANGED <<filePc, fileJob, managed, sidecar, ref, backup, refused, recorded, slip>>
      /\ file' \in Config!Contents \ {file} /\ theirs' = file' /\ unseen' = (filePc # "idle")
  BY DEF Config!Foreign
<1>1. CASE filePc = "idle" /\ UNCHANGED foreign
  <2>1. Config!TypeOK'
    BY <1>0, <1>1 DEF ConfigInv, Config!TypeOK
  <2>2. ConfigJobInv'
    BY <1>0, <1>1 DEF ConfigInv, ConfigJobInv
  <2>3. ~fileJob.changed
    BY <1>1 DEF ConfigInv, ConfigJobInv
  <2> QED
    BY <1>0, <1>1, <2>1, <2>2, <2>3 DEF ConfigInv, ContentInv, FixInv, RecordInv, EditInv, ResultInv
<1>2. CASE filePc # "idle" /\ foreign < MaxForeign /\ foreign' = foreign + 1
  <2>1. foreign \in Nat /\ foreign' \in 0 .. MaxForeign /\ unseen \in BOOLEAN
    BY <1>2 DEF ConfigInv, Config!TypeOK
  <2>2. unseen' = TRUE
    BY <1>0, <1>2
  <2>3. foreign \in Nat /\ foreign' \in 0 .. MaxForeign /\ unseen \in BOOLEAN /\ unseen' = TRUE
    BY <2>1, <2>2
  <2>4. Config!TypeOK'
    BY <1>0, <1>2, <2>3 DEF ConfigInv, Config!TypeOK
  <2>5. ConfigJobInv'
    BY <1>0, <1>2 DEF ConfigInv, ConfigJobInv
  <2>6. ContentInv'
    BY <1>0, <1>2, <2>3 DEF ConfigInv, ContentInv
  <2>7. FixInv' /\ RecordInv'
    BY <1>0, <1>2, <2>3 DEF ConfigInv, ContentInv, FixInv, RecordInv
  <2>8. EditInv'
    BY <1>0, <1>2, <2>3 DEF ConfigInv, ContentInv, EditInv
  <2>9. ResultInv'
    BY <1>0, <1>2 DEF ResultInv
  <2> QED
    BY <2>4, <2>5, <2>6, <2>7, <2>8, <2>9 DEF ConfigInv
<1> QED
  BY <1>1, <1>2 DEF Config!Foreign

LEMMA ConfigStays ==
  ASSUME ConfigInv, UNCHANGED configVars
  PROVE  ConfigInv'
<1>1. UNCHANGED <<file, managed, sidecar, ref, backup, filePc, fileJob, foreign, theirs, recorded, unseen, refused, slip>>
  BY DEF configVars
<1> QED
  BY <1>1 DEF ConfigInv, Config!TypeOK, ConfigJobInv, ContentInv, FixInv, RecordInv, EditInv, ResultInv

LEMMA ConfigStep ==
  ASSUME ConfigInv, Config!Next
  PROVE  ConfigInv'
<1>1. ASSUME NEW kind \in Config!Kinds, Config!Begin(kind)
      PROVE  ConfigInv'
  BY <1>1, ConfigBeginStep
<1>2. CASE Config!Read
  BY <1>2, ConfigReadStep
<1>3. CASE Config!Editor
  BY <1>3, ConfigEditorStep
<1>4. CASE Config!Reread
  BY <1>4, ConfigRereadStep
<1>5. CASE Config!Plan
  BY <1>5, ConfigPlanStep
<1>6. CASE Config!Confirm
  BY <1>6, ConfigConfirmStep
<1>7. CASE Config!Compare
  BY <1>7, ConfigCompareStep
<1>8. CASE Config!Check
  BY <1>8, ConfigCheckStep
<1>9. CASE Config!Backup
  BY <1>9, ConfigBackupStep
<1>10. CASE Config!Write
  BY <1>10, ConfigWriteStep
<1>11. CASE Config!Torn
  BY <1>11, ConfigTornStep
<1>12. CASE Config!Verify
  BY <1>12, ConfigVerifyStep
<1>13. CASE Config!Revert
  BY <1>13, ConfigRevertStep
<1>14. CASE Config!Keep
  BY <1>14, ConfigKeepStep
<1>15. CASE Config!WriteSidecar
  BY <1>15, ConfigWriteSidecarStep
<1>16. CASE Config!Secure
  BY <1>16, ConfigSecureStep
<1>17. CASE Config!Probe
  BY <1>17, ConfigProbeStep
<1>18. CASE Config!Save
  BY <1>18, ConfigSaveStep
<1>19. CASE Config!Observe
  BY <1>19, ConfigObserveStep
<1>20. CASE Config!UndoFile
  BY <1>20, ConfigUndoFileStep
<1>21. CASE Config!UndoKey
  BY <1>21, ConfigUndoKeyStep
<1>22. CASE Config!UndoRef
  BY <1>22, ConfigUndoRefStep
<1>23. CASE Config!KeepCopy
  BY <1>23, ConfigKeepCopyStep
<1>24. CASE Config!Overwrite
  BY <1>24, ConfigOverwriteStep
<1>25. CASE Config!Finish \/ Config!Die
  BY <1>25, ConfigOver DEF Config!Finish, Config!Die, Config!Over
<1>26. CASE Config!Foreign
  BY <1>26, ConfigForeignStep
<1> QED
  BY <1>1, <1>2, <1>3, <1>4, <1>5, <1>6, <1>7, <1>8, <1>9, <1>10, <1>11, <1>12, <1>13, <1>14,
     <1>15, <1>16, <1>17, <1>18, <1>19, <1>20, <1>21, <1>22, <1>23, <1>24, <1>25, <1>26
     DEF Config!Next

LEMMA ConfigInit ==
  ASSUME Config!Init
  PROVE  ConfigInv
<1>1. /\ fileJob \in Config!Jobs /\ fileJob.kind = "none" /\ fileJob.base = Broken
      /\ fileJob.snap = Broken /\ fileJob.want = Broken /\ ~fileJob.changed /\ ~fileJob.saved
  BY ConfigNoJob DEF Config!Init
<1>2. 0 \in 0 .. MaxForeign
  BY BoundsAssumption DEF BoundsAssumption
<1>3. Config!TypeOK
  BY <1>1, <1>2 DEF Config!Init, Config!TypeOK, Config!PCs, Config!Contents
<1>4. ConfigJobInv
  BY <1>1 DEF Config!Init, ConfigJobInv
<1> QED
  BY <1>1, <1>3, <1>4 DEF Config!Init, ConfigInv, ContentInv, FixInv, RecordInv, EditInv, ResultInv

\* Where a command on config.yaml is says what the file holds, and what the command
\* would put back (configfile.go Apply, runtime.go safeModeFix).
THEOREM ConfigInvariance == InteractionsSpec => []ConfigInv
<1>1. InteractionsInit => ConfigInv
  BY ConfigInit DEF InteractionsInit
<1>2. ConfigInv /\ Moves => ConfigInv'
  BY MovesAre, ConfigStep, ConfigStays
<1> QED
  BY <1>1, <1>2, PTL DEF InteractionsSpec, Moves

\* Whatever fails or dies on the way and however often others write, a finished command
\* leaves config.yaml, the key's copy and the recorded fingerprint as its result says, but
\* for the three cases that OutcomeIsWhole names: a write that fails after its rename and
\* goes unnoticed in config.yaml or in state.json, and a change that was taken back before
\* Apply compared (configfile.go Apply, runtime.go Rollback).
THEOREM OutcomeStaysWhole == InteractionsSpec => []OutcomeIsWhole
<1>1. ConfigInv => OutcomeIsWhole
  <2> SUFFICES ASSUME ConfigInv, filePc = "done", ~unseen
               PROVE  OutcomeIsWhole
    BY DEF OutcomeIsWhole, Config!OutcomeIsWhole
  <2>1. fileJob.changed \in BOOLEAN /\ (fileJob.changed => fileJob.kind = "fix")
    BY DEF ConfigInv, Config!TypeOK, Config!Jobs, ConfigJobInv
  <2>2. fileJob.changed /\ fileJob.orig = fileJob.snap => theirs = fileJob.orig
    BY DEF ConfigInv, FixInv
  <2>3. fileJob.result = "failed" /\ fileJob.kind # "restore" => file \in Config!LeftByFailure
    BY <2>1, <2>2 DEF ConfigInv, ResultInv, Config!LeftByFailure
  <2> QED
    BY <2>1, <2>3 DEF ConfigInv, ResultInv, OutcomeIsWhole, Config!OutcomeIsWhole
<1> QED
  BY <1>1, ConfigInvariance, PTL

\* A command never replaces another content than the one it was made for (config_edit.go
\* commitProxyEdit), however often others write, if they do not write away from what the
\* editor was given, back to it and away again while one command runs.
THEOREM EditsStayOnWhatWasRead == InteractionsSpec => EditsWhatWasRead
<1>1. ConfigInv => (filePc = "write" /\ ~unseen /\ foreign < 3 => file = fileJob.base)
  <2>1. ConfigInv => foreign \in Nat
    BY BoundsAssumption DEF ConfigInv, Config!TypeOK, BoundsAssumption
  <2> QED
    BY <2>1 DEF ConfigInv, ContentInv, EditInv
<1> QED
  BY <1>1, ConfigInvariance, PTL DEF EditsWhatWasRead, Config!EditsWhatWasRead

HIDE KeysAssumption
HIDE DEF KeysAssumption, Config!history, Config!Go, Config!GoWith, Config!MaybeWritten,
    Applying, Fixed, Undoing

-----------------------------------------------------------------------------
(* Terminal interface                                                      *)

Alive(o) == shellOp[o].pc \notin {"none", "told"}

ShellTypes ==
  /\ Shell!TypeOK
  /\ shellOp \in [Shell!Ops -> [kind: Shell!Kinds, pc: Shell!PCs, canceled: BOOLEAN, sent: 0 .. MaxEvents]]

\* Operations begin in turn, and only the last one can be unfinished: the shell, while it
\* has the screen, is busy with it, and a launch has none.
RunInv ==
  /\ Shell!Current \in 0 .. MaxOps
  /\ \A o \in Shell!Ops: shellOp[o].pc # "none" <=> o <= Shell!Current
  /\ \A o \in Shell!Ops: Alive(o) => o = Shell!Current
  /\ view = "shell" => (busy <=> \E o \in Shell!Ops: Alive(o))
  /\ shellWaiter # "gone" => Shell!Current # 0 /\ Alive(Shell!Current)
  /\ shellWaiter = "result" => shellOp[Shell!Current].pc = "done"

\* Whose pipe the shell, a prompt and a write are about.
PipeInv ==
  /\ view = "shell" /\ writer # 0 => writer = Shell!Current /\ Alive(writer)
  /\ prompt.of # 0 => prompt.of = Shell!Current
  /\ \A o \in Shell!Ops:
       /\ shellOp[o].pc = "none" => pipe[o] = "none" /\ write[o] = "none"
       /\ shellOp[o].pc \in {"asking", "reading"} => shellOp[o].kind = "login" /\ pipe[o] # "read"
       /\ shellOp[o].pc # "none" /\ shellOp[o].kind = "login" => pipe[o] # "none"
       /\ write[o] \in {"written", "error"} => pipe[o] \notin {"none", "open"}
       /\ view = "shell" /\ ~late /\ Alive(o) /\ shellOp[o].pc # "done" /\ pipe[o] = "open" => writer = o

ShellInv == ShellTypes /\ RunInv /\ PipeInv /\ Shell!Answerable

USE DEF Shell!Ops, Shell!screen, Shell!exits, Shell!task

Last(begun) == IF begun = {} THEN 0 ELSE CHOOSE o \in begun : \A q \in begun : q <= o

LEMMA LastIs ==
  ASSUME NEW n \in 0 .. MaxOps
  PROVE  Last({o \in Shell!Ops : o <= n}) = n
<1> DEFINE begun == {o \in Shell!Ops : o <= n}
<1>0. MaxOps \in Nat
  BY BoundsAssumption DEF BoundsAssumption
<1>1. CASE n = 0
  BY <1>0, <1>1 DEF Last
<1>2. CASE n # 0
  <2>1. n \in begun /\ \A q \in begun : q <= n
    BY <1>0, <1>2
  <2>2. \A c \in begun : (\A q \in begun : q <= c) => c = n
    BY <1>0, <2>1
  <2>3. (CHOOSE c \in begun : \A q \in begun : q <= c) = n
    BY <2>1, <2>2
  <2> QED
    BY <2>1, <2>3 DEF Last
<1> QED
  BY <1>1, <1>2

\* The operation that began last is the same as long as no other begins.
LEMMA CurrentStays ==
  ASSUME \A o \in Shell!Ops : shellOp'[o].pc = "none" <=> shellOp[o].pc = "none"
  PROVE  Shell!Current' = Shell!Current
<1> DEFINE now == {o \in Shell!Ops : shellOp[o].pc # "none"}
           next == {o \in Shell!Ops : shellOp'[o].pc # "none"}
<1>1. Shell!Current = Last(now) /\ Shell!Current' = Last(next)
  BY DEF Shell!Current, Last
<1>2. now = next
  OBVIOUS
<1> HIDE DEF now, next
<1> QED
  BY <1>1, <1>2

\* Cancelling an operation moves none.
LEMMA CanceledIs ==
  ASSUME ShellTypes, NEW o \in 0 .. MaxOps, shellOp' = Shell!Canceled(o)
  PROVE  /\ shellOp' \in [Shell!Ops -> [kind: Shell!Kinds, pc: Shell!PCs, canceled: BOOLEAN, sent: 0 .. MaxEvents]]
         /\ \A q \in Shell!Ops : shellOp'[q].pc = shellOp[q].pc /\ shellOp'[q].kind = shellOp[q].kind
BY BoundsAssumption DEF ShellTypes, Shell!Canceled, BoundsAssumption

\* The types, given those of the goroutines.
LEMMA ShellOpTypes ==
  ASSUME shellOp \in [Shell!Ops -> [kind: Shell!Kinds, pc: Shell!PCs, canceled: BOOLEAN, sent: 0 .. MaxEvents]]
  PROVE  \A o \in Shell!Ops :
           /\ shellOp[o].kind \in Shell!Kinds /\ shellOp[o].pc \in Shell!PCs
           /\ shellOp[o].canceled \in BOOLEAN /\ shellOp[o].sent \in 0 .. MaxEvents
OBVIOUS

\* A step that leaves the goroutines, their pipes and their messages alone.
LEMMA ShellScreenStep ==
  ASSUME ShellInv, prompt.kind # "callback" \/ prompt' = prompt, prompt' \in Shell!Prompts,
         prompt' = prompt \/ prompt'.of = 0, view' \in {"shell", "setup", "left"},
         view' = "shell" => view = "shell", pending' \in Shell!Actions,
         leaving' \in BOOLEAN, handoff' \in BOOLEAN,
         UNCHANGED <<busy, cancel, writer, shellOp, events, shellWaiter, pipe, write, late>>
  PROVE  ShellInv'
<1>1. Shell!Current' = Shell!Current
  BY CurrentStays
<1>2. ShellTypes'
  BY DEF ShellInv, ShellTypes, Shell!TypeOK
<1>3. RunInv'
  BY <1>1 DEF ShellInv, RunInv, Alive
<1>4. PipeInv'
  BY <1>1 DEF ShellInv, PipeInv, Alive
<1>5. Shell!Answerable'
  BY DEF ShellInv, Shell!Answerable
<1> QED
  BY <1>2, <1>3, <1>4, <1>5 DEF ShellInv

LEMMA ShellKeyStep ==
  ASSUME ShellInv,
         \/ Shell!AskValue \/ Shell!DropPending \/ Shell!LaunchHandoff \/ Shell!Quit \/ Shell!StartSetup \/ Shell!Leave
         \/ \E kind \in Shell!Kinds : Shell!Mutate(kind)
  PROVE  ShellInv'
<1>0. prompt \in Shell!Prompts /\ view \in {"shell", "setup", "left"} /\ pending \in Shell!Actions
      /\ leaving \in BOOLEAN /\ handoff \in BOOLEAN /\ 0 \in 0 .. MaxOps
  BY BoundsAssumption DEF ShellInv, ShellTypes, Shell!TypeOK, BoundsAssumption
<1> USE DEF Shell!Free, Shell!Listening, Shell!NoPrompt, Shell!Prompts, Shell!Actions, Shell!Kinds
<1>1. CASE Shell!AskValue
  BY <1>0, <1>1, ShellScreenStep DEF Shell!AskValue
<1>2. CASE Shell!DropPending
  BY <1>0, <1>2, ShellScreenStep DEF Shell!DropPending
<1>3. CASE Shell!LaunchHandoff
  BY <1>0, <1>3, ShellScreenStep DEF Shell!LaunchHandoff
<1>4. CASE Shell!Quit
  BY <1>0, <1>4, ShellScreenStep DEF Shell!Quit
<1>5. CASE Shell!StartSetup
  BY <1>0, <1>5, ShellScreenStep DEF Shell!StartSetup
<1>6. ASSUME NEW kind \in Shell!Kinds, Shell!Mutate(kind)
      PROVE  ShellInv'
  BY <1>0, <1>6, ShellScreenStep DEF Shell!Mutate
<1>7. CASE Shell!Leave
  <2>1. view' = "left" /\ handoff' \in BOOLEAN /\ leaving' \in BOOLEAN
    BY <1>0, <1>7 DEF Shell!Leave
  <2> QED
    BY <1>0, <1>7, <2>1, ShellScreenStep DEF Shell!Leave
<1> QED
  BY <1>1, <1>2, <1>3, <1>4, <1>5, <1>6, <1>7

\* An operation begins: nothing of the one before is left but what its pipe wrote.
LEMMA ShellExecuteStep ==
  ASSUME ShellInv, NEW kind \in Shell!Kinds, Shell!Execute(kind), view = "shell", prompt = Shell!NoPrompt,
         pending' \in Shell!Actions, UNCHANGED <<view, leaving, handoff, prompt, write, late>>
  PROVE  ShellInv'
<1>0. MaxOps \in Nat /\ Buffer \in Nat /\ 0 \in 0 .. MaxEvents
  BY BoundsAssumption DEF BoundsAssumption
<1>1. CASE busy
  <2>1. prompt' \in Shell!Prompts /\ leaving' \in BOOLEAN /\ handoff' \in BOOLEAN
        /\ view' \in {"shell", "setup", "left"}
    BY DEF ShellInv, ShellTypes, Shell!TypeOK
  <2>2. UNCHANGED <<busy, cancel, writer, shellOp, events, shellWaiter, pipe, write, late>>
    BY <1>1 DEF Shell!Execute, Shell!AlreadyRunning
  <2> QED
    BY <2>1, <2>2, ShellScreenStep
<1>2. CASE ~busy
  <2> DEFINE n == Shell!Current + 1
             begins == [Shell!Fresh EXCEPT !.kind = kind, !.pc = "running"]
  <2>1. /\ n \in Shell!Ops /\ shellOp' = [shellOp EXCEPT ![n] = begins]
        /\ busy' = TRUE /\ cancel' = n /\ events' = <<>> /\ shellWaiter' = "poll"
        /\ kind = "login" => writer' = n /\ pipe' = [pipe EXCEPT ![n] = "open"]
        /\ kind # "login" => UNCHANGED <<writer, pipe>>
    <3>1. Shell!Current < MaxOps /\ Shell!Current \in 0 .. MaxOps
      BY <1>2 DEF Shell!Execute, Shell!AlreadyRunning, ShellInv, RunInv
    <3> QED
      BY <1>0, <1>2, <3>1 DEF Shell!Execute, Shell!AlreadyRunning
  <2>2. begins \in [kind: Shell!Kinds, pc: Shell!PCs, canceled: BOOLEAN, sent: 0 .. MaxEvents]
        /\ begins.pc = "running" /\ begins.kind = kind
    BY <1>0 DEF Shell!PCs, Shell!Fresh
  <2>3. /\ shellOp' \in [Shell!Ops -> [kind: Shell!Kinds, pc: Shell!PCs, canceled: BOOLEAN, sent: 0 .. MaxEvents]]
        /\ shellOp'[n] = begins /\ \A o \in Shell!Ops \ {n} : shellOp'[o] = shellOp[o]
    BY <2>1, <2>2 DEF ShellInv, ShellTypes
  <2>4. \A o \in Shell!Ops : ~Alive(o)
    BY <1>2 DEF ShellInv, RunInv
  <2>5. Shell!Current \in 0 .. MaxOps /\ \A o \in Shell!Ops : shellOp[o].pc # "none" <=> o <= Shell!Current
    BY DEF ShellInv, RunInv
  <2>6. \A o \in Shell!Ops : shellOp'[o].pc # "none" <=> o <= n
    BY <1>0, <2>1, <2>3, <2>5
  <2>7. Shell!Current' = n
    <3> DEFINE next == {o \in Shell!Ops : shellOp'[o].pc # "none"}
    <3>1. Shell!Current' = Last(next)
      BY DEF Shell!Current, Last
    <3>2. next = {o \in Shell!Ops : o <= n}
      BY <2>6
    <3>3. n \in 0 .. MaxOps
      BY <1>0, <2>1
    <3> HIDE DEF next, n
    <3> QED
      BY <3>1, <3>2, <3>3, LastIs
  <2>8. n \in 0 .. MaxOps /\ n # 0 /\ n \in Nat
    BY <1>0, <2>1
  <2>16. ~(n <= Shell!Current)
    BY <1>0, <2>5
  <2> HIDE DEF n, begins
  <2>9. ShellTypes'
    <3>1. /\ writer' \in 0 .. MaxOps
          /\ pipe' \in [Shell!Ops -> {"none", "open", "read", "closed", "aborted"}]
      BY <2>1, <2>8, SMTT(30) DEF ShellInv, ShellTypes, Shell!TypeOK
    <3>2. /\ busy' \in BOOLEAN /\ events' \in Seq({"event", "input"}) /\ Len(events') <= Buffer
          /\ cancel' \in 0 .. MaxOps /\ shellWaiter' \in {"gone", "poll", "block", "event", "input", "result"}
      BY <1>0, <2>1, <2>8
    <3>3. /\ view' \in {"shell", "setup", "left"} /\ prompt' \in Shell!Prompts /\ pending' \in Shell!Actions
          /\ leaving' \in BOOLEAN /\ handoff' \in BOOLEAN /\ late' \in BOOLEAN
          /\ write' \in [Shell!Ops -> {"none", "writing", "written", "error", "told"}]
      BY DEF ShellInv, ShellTypes, Shell!TypeOK
    <3> QED
      BY <2>3, <3>1, <3>2, <3>3, ShellOpTypes DEF ShellTypes, Shell!TypeOK
  <2>10. \A o \in Shell!Ops : Alive(o)' <=> o = n
    BY <2>2, <2>3, <2>4 DEF Alive
  <2>11. RunInv'
    BY <2>1, <2>2, <2>3, <2>6, <2>7, <2>8, <2>10 DEF ShellInv, RunInv
  <2>12. prompt'.of = 0 /\ prompt'.kind = "none"
    BY DEF Shell!NoPrompt
  <2>13. writer # 0 => FALSE
    BY <2>4 DEF ShellInv, PipeInv, ShellTypes, Shell!TypeOK
  <2>14. PipeInv'
    <3>1. shellOp[n].pc = "none" /\ pipe[n] = "none" /\ write[n] = "none"
      BY <2>1, <2>5, <2>16 DEF ShellInv, PipeInv
    <3>2. pipe \in [Shell!Ops -> {"none", "open", "read", "closed", "aborted"}]
      BY DEF ShellInv, ShellTypes, Shell!TypeOK
    <3>3. \A o \in Shell!Ops : o # n => pipe'[o] = pipe[o]
      BY <2>1, <3>2
    <3>4. pipe'[n] = IF kind = "login" THEN "open" ELSE "none"
      BY <2>1, <3>1, <3>2
    <3> QED
      BY <3>1, <3>3, <3>4, <2>1, <2>2, <2>3, <2>4, <2>7, <2>8, <2>10, <2>12, <2>13 DEF ShellInv, PipeInv, ShellTypes, Shell!TypeOK
  <2>15. Shell!Answerable'
    BY <2>2, <2>3, <2>4 DEF Shell!Answerable, Alive
  <2> QED
    BY <2>9, <2>11, <2>14, <2>15 DEF ShellInv
<1> QED
  BY <1>1, <1>2

LEMMA ShellReadStep ==
  ASSUME ShellInv, Shell!Read
  PROVE  ShellInv'
BY ShellExecuteStep DEF Shell!Read, Shell!Free, Shell!Listening, Shell!Kinds, ShellInv, ShellTypes, Shell!TypeOK

LEMMA ShellConfirmStep ==
  ASSUME ShellInv, Shell!ConfirmPhrase
  PROVE  ShellInv'
<1>1. pending \in Shell!Kinds
  BY DEF Shell!ConfirmPhrase, ShellInv, ShellTypes, Shell!TypeOK, Shell!Actions, Shell!Kinds
<1> QED
  BY <1>1, ShellExecuteStep DEF Shell!ConfirmPhrase, Shell!Listening, Shell!Actions

\* A pipe that is closed stays what answers a login that reads it.
LEMMA ClosedIs ==
  ASSUME ShellTypes, NEW o \in 0 .. MaxOps, NEW how \in {"closed", "aborted"},
         pipe' = Shell!Closed(o, how)
  PROVE  /\ pipe' \in [Shell!Ops -> {"none", "open", "read", "closed", "aborted"}]
         /\ \A q \in Shell!Ops : pipe'[q] = IF q = o THEN how ELSE pipe[q]
BY BoundsAssumption DEF ShellTypes, Shell!TypeOK, Shell!Closed, BoundsAssumption

\* The operation is canceled, with or without its pipe and its prompt.
LEMMA ShellCancelStep ==
  ASSUME ShellInv, view = "shell", NEW o \in 0 .. MaxOps, o # 0 => o = Shell!Current,
         shellOp' = Shell!Canceled(cancel), pipe' = Shell!Closed(o, "aborted"),
         prompt' \in Shell!Prompts, prompt'.of # 0 => prompt' = prompt,
         prompt' # prompt => prompt.of = o \/ prompt.kind = "value",
         writer' = 0 \/ writer' = writer, writer' # writer => writer \in {0, o} \/ o = Shell!Current,
         UNCHANGED <<view, pending, busy, leaving, handoff, cancel, events, shellWaiter, write, late>>
  PROVE  ShellInv'
<1>0. cancel \in 0 .. MaxOps /\ MaxOps \in Nat
  BY BoundsAssumption DEF ShellInv, ShellTypes, Shell!TypeOK, BoundsAssumption
<1>1. /\ shellOp' \in [Shell!Ops -> [kind: Shell!Kinds, pc: Shell!PCs, canceled: BOOLEAN, sent: 0 .. MaxEvents]]
      /\ \A q \in Shell!Ops : shellOp'[q].pc = shellOp[q].pc /\ shellOp'[q].kind = shellOp[q].kind
  BY <1>0, CanceledIs DEF ShellInv
<1>2. /\ pipe' \in [Shell!Ops -> {"none", "open", "read", "closed", "aborted"}]
      /\ \A q \in Shell!Ops : pipe'[q] = IF q = o THEN "aborted" ELSE pipe[q]
  BY ClosedIs DEF ShellInv
<1>3. Shell!Current' = Shell!Current
  BY <1>1, CurrentStays
<1>4. ShellTypes'
  BY <1>0, <1>1, <1>2, ShellOpTypes DEF ShellInv, ShellTypes, Shell!TypeOK
<1>5. RunInv'
  BY <1>0, <1>1, <1>3, SMTT(30) DEF ShellInv, RunInv, Alive
<1>6. o # 0 => o \in Shell!Ops /\ shellOp[o].pc # "none"
  BY <1>0 DEF ShellInv, RunInv
<1>7. PipeInv'
  <2>1. writer' # 0 => writer' = writer /\ writer = Shell!Current /\ Alive(writer) /\ writer \in Shell!Ops
    BY <1>0 DEF ShellInv, PipeInv, RunInv
  <2>2. \A q \in Shell!Ops :
          /\ shellOp[q].pc = "none" => pipe'[q] = "none"
          /\ write[q] \in {"written", "error"} => pipe'[q] \notin {"none", "open"}
    BY <1>2, <1>6 DEF ShellInv, PipeInv
  <2>3. \A q \in Shell!Ops :
          /\ shellOp[q].pc \in {"asking", "reading"} => pipe'[q] # "read"
          /\ shellOp[q].pc # "none" /\ shellOp[q].kind = "login" => pipe'[q] # "none"
    BY <1>2 DEF ShellInv, PipeInv
  <2>4. ASSUME NEW q \in Shell!Ops, ~late, Alive(q), shellOp[q].pc # "done", pipe'[q] = "open"
        PROVE  writer' = q
    <3>1. q # o /\ pipe[q] = "open"
      BY <1>2, <2>4
    <3>2. q = Shell!Current /\ writer = q /\ q # 0
      BY <3>1, <2>4 DEF ShellInv, PipeInv, RunInv
    <3> QED
      BY <3>1, <3>2
  <2>5. view' = "shell" /\ writer' # 0 => writer' = Shell!Current' /\ shellOp'[writer'].pc \notin {"none", "told"}
    BY <1>1, <1>3, <2>1 DEF Alive
  <2>6. prompt'.of # 0 => prompt'.of = Shell!Current'
    BY <1>3 DEF ShellInv, PipeInv
  <2>7. \A q \in Shell!Ops :
          /\ shellOp'[q].pc = "none" => pipe'[q] = "none" /\ write'[q] = "none"
          /\ shellOp'[q].pc \in {"asking", "reading"} => shellOp'[q].kind = "login" /\ pipe'[q] # "read"
          /\ shellOp'[q].pc # "none" /\ shellOp'[q].kind = "login" => pipe'[q] # "none"
          /\ write'[q] \in {"written", "error"} => pipe'[q] \notin {"none", "open"}
    BY <1>1, <2>2, <2>3 DEF ShellInv, PipeInv
  <2>8. \A q \in Shell!Ops :
          view' = "shell" /\ ~late' /\ shellOp'[q].pc \notin {"none", "told", "done"} /\ pipe'[q] = "open" =>
            writer' = q
    BY <1>1, <2>4 DEF Alive
  <2> QED
    BY <2>5, <2>6, <2>7, <2>8 DEF PipeInv, Alive
<1>8. Shell!Answerable'
  BY <1>0, <1>1, <1>2, <1>6 DEF ShellInv, Shell!Answerable, RunInv, Alive, PipeInv
<1> QED
  BY <1>4, <1>5, <1>7, <1>8 DEF ShellInv

LEMMA ShellEndsStep ==
  ASSUME ShellInv, Shell!CtrlC \/ Shell!Esc \/ Shell!CancelPrompt
  PROVE  ShellInv'
<1>0. /\ view = "shell" /\ prompt \in Shell!Prompts /\ writer \in 0 .. MaxOps /\ 0 \in 0 .. MaxOps
      /\ prompt.of \in 0 .. MaxOps
      /\ writer # 0 => writer = Shell!Current
      /\ prompt.of # 0 => prompt.of = Shell!Current
      /\ Shell!NoPrompt \in Shell!Prompts /\ Shell!NoPrompt.of = 0
  BY BoundsAssumption
     DEF ShellInv, ShellTypes, Shell!TypeOK, PipeInv, Shell!CtrlC, Shell!Esc, Shell!CancelPrompt,
         Shell!Free, Shell!Listening, Shell!Prompts, Shell!NoPrompt, BoundsAssumption
<1>1. CASE Shell!CtrlC
  <2>1. pipe' = Shell!Closed(0, "aborted")
    BY <1>1 DEF Shell!CtrlC, Shell!Closed
  <2> QED
    BY <1>0, <1>1, <2>1, ShellCancelStep DEF Shell!CtrlC
<1>2. CASE Shell!Esc
  BY <1>0, <1>2, ShellCancelStep DEF Shell!Esc
<1>3. CASE Shell!CancelPrompt /\ prompt.of # 0
  BY <1>0, <1>3, ShellCancelStep DEF Shell!CancelPrompt, Shell!AbortAnswer
<1>4. CASE Shell!CancelPrompt /\ prompt.of = 0
  <2>1. Shell!Current' = Shell!Current
    BY <1>4, CurrentStays DEF Shell!CancelPrompt
  <2>2. ShellTypes'
    BY <1>0, <1>4 DEF Shell!CancelPrompt, ShellInv, ShellTypes, Shell!TypeOK
  <2>3. RunInv'
    BY <1>4, <2>1 DEF Shell!CancelPrompt, ShellInv, RunInv, Alive
  <2>4. PipeInv'
    BY <1>0, <1>4, <2>1 DEF Shell!CancelPrompt, ShellInv, PipeInv, Alive
  <2>5. \A o \in Shell!Ops : prompt # [kind |-> "callback", of |-> o]
    BY <1>0, <1>4 DEF Shell!Prompts
  <2>6. Shell!Answerable'
    BY <1>4, <2>5 DEF Shell!CancelPrompt, ShellInv, Shell!Answerable
  <2> QED
    BY <2>2, <2>3, <2>4, <2>6 DEF ShellInv
<1> QED
  BY <1>1, <1>2, <1>3, <1>4

LEMMA ShellAnswerStep ==
  ASSUME ShellInv, Shell!Answer
  PROVE  ShellInv'
<1>0. /\ view = "shell" /\ prompt \in Shell!Prompts /\ prompt.kind = "callback" /\ prompt' = Shell!NoPrompt
      /\ UNCHANGED <<view, busy, leaving, handoff, cancel, writer, shellOp, events, shellWaiter, pipe, late>>
      /\ pending' \in Shell!Actions
      /\ Shell!NoPrompt \in Shell!Prompts /\ Shell!NoPrompt.of = 0
      /\ prompt.of \in 0 .. MaxOps /\ MaxOps \in Nat
      /\ prompt.of # 0 => prompt.of = Shell!Current
  BY BoundsAssumption
     DEF ShellInv, ShellTypes, Shell!TypeOK, PipeInv, Shell!Answer, Shell!Actions, Shell!Prompts, Shell!NoPrompt,
         BoundsAssumption
<1>1. Shell!Current' = Shell!Current
  BY <1>0, CurrentStays
<1>2. /\ write' \in [Shell!Ops -> {"none", "writing", "written", "error", "told"}]
      /\ \A o \in Shell!Ops : write'[o] = IF o = prompt.of THEN "writing" ELSE write[o]
  <2>1. write \in [Shell!Ops -> {"none", "writing", "written", "error", "told"}]
    BY DEF ShellInv, ShellTypes, Shell!TypeOK
  <2>2. CASE prompt.of # 0
    <3>1. write' = [write EXCEPT ![prompt.of] = "writing"]
      BY <2>2 DEF Shell!Answer
    <3> QED
      BY <1>0, <2>1, <2>2, <3>1
  <2>3. CASE prompt.of = 0
    <3>1. write' = write
      BY <2>3 DEF Shell!Answer
    <3> QED
      BY <1>0, <2>1, <2>3, <3>1
  <2> QED
    BY <2>2, <2>3
<1>3. ShellTypes'
  BY <1>0, <1>2 DEF ShellInv, ShellTypes, Shell!TypeOK
<1>4. RunInv'
  BY <1>0, <1>1 DEF ShellInv, RunInv, Alive
<1>5. prompt.of # 0 => prompt.of \in Shell!Ops /\ shellOp[prompt.of].pc # "none"
  BY <1>0 DEF ShellInv, RunInv
<1>6. PipeInv'
  BY <1>0, <1>1, <1>2, <1>5 DEF ShellInv, PipeInv, Alive
<1>7. \A o \in Shell!Ops : prompt = [kind |-> "callback", of |-> o] => prompt.of = o
  OBVIOUS
<1>8. Shell!Answerable'
  BY <1>0, <1>2, <1>7 DEF ShellInv, Shell!Answerable
<1> QED
  BY <1>3, <1>4, <1>6, <1>8 DEF ShellInv

LEMMA ShellPollStep ==
  ASSUME ShellInv, Shell!PollEvents \/ Shell!TakeResult
  PROVE  ShellInv'
<1>0. /\ UNCHANGED <<view, pending, busy, leaving, handoff, prompt, cancel, writer, shellOp, events, pipe, write, late>>
      /\ shellWaiter' \in {"block", "result"} /\ shellWaiter \in {"poll", "block"}
      /\ shellWaiter' = "result" => shellOp[Shell!Current].pc = "done"
  BY DEF Shell!PollEvents, Shell!TakeResult
<1>1. Shell!Current' = Shell!Current
  BY <1>0, CurrentStays
<1>2. ShellTypes'
  BY <1>0 DEF ShellInv, ShellTypes, Shell!TypeOK
<1>3. RunInv'
  BY <1>0, <1>1 DEF ShellInv, RunInv, Alive
<1>4. PipeInv'
  BY <1>0, <1>1 DEF ShellInv, PipeInv, Alive
<1>5. Shell!Answerable'
  BY <1>0 DEF ShellInv, Shell!Answerable
<1> QED
  BY <1>2, <1>3, <1>4, <1>5 DEF ShellInv

LEMMA ShellTakeStep ==
  ASSUME ShellInv, Shell!TakeEvent
  PROVE  ShellInv'
<1>0. /\ UNCHANGED <<view, pending, busy, leaving, handoff, prompt, cancel, writer, shellOp, pipe, write, late>>
      /\ shellWaiter \in {"poll", "block"} /\ shellWaiter' = Head(events) /\ events' = Tail(events)
      /\ events # <<>> /\ events \in Seq({"event", "input"}) /\ Len(events) <= Buffer /\ Buffer \in Nat
  BY BoundsAssumption DEF Shell!TakeEvent, ShellInv, ShellTypes, Shell!TypeOK, BoundsAssumption
<1>1. Shell!Current' = Shell!Current
  BY <1>0, CurrentStays
<1>2. /\ events' \in Seq({"event", "input"}) /\ Len(events') <= Buffer
      /\ Head(events) = events[1] /\ Head(events) \in {"event", "input"}
      /\ \A i \in DOMAIN events : i = 1 \/ (i - 1 \in DOMAIN events' /\ events'[i - 1] = events[i])
  BY <1>0
<1>3. ShellTypes'
  BY <1>0, <1>2 DEF ShellInv, ShellTypes, Shell!TypeOK
<1>4. RunInv'
  BY <1>0, <1>1, <1>2 DEF ShellInv, RunInv, Alive
<1>5. PipeInv'
  BY <1>0, <1>1 DEF ShellInv, PipeInv, Alive
<1>6. (\E i \in DOMAIN events : events[i] = "input") =>
        shellWaiter' = "input" \/ \E i \in DOMAIN events' : events'[i] = "input"
  BY <1>0, <1>2
<1>7. Shell!Answerable'
  BY <1>0, <1>6 DEF ShellInv, Shell!Answerable
<1> QED
  BY <1>3, <1>4, <1>5, <1>7 DEF ShellInv

LEMMA ShellHandleEventStep ==
  ASSUME ShellInv, Shell!HandleEvent
  PROVE  ShellInv'
<1>0. /\ UNCHANGED <<view, pending, busy, leaving, handoff, cancel, writer, shellOp, events, pipe, write, late>>
      /\ shellWaiter \in {"event", "input"} /\ shellWaiter' \in {"poll", "gone"}
      /\ \/ prompt' = prompt /\ (view # "shell" \/ shellWaiter = "event")
         \/ view = "shell" /\ prompt' = [kind |-> "callback", of |-> writer]
      /\ writer \in 0 .. MaxOps
  BY DEF Shell!HandleEvent, ShellInv, ShellTypes, Shell!TypeOK
<1>1. Shell!Current' = Shell!Current
  BY <1>0, CurrentStays
<1>2. ShellTypes'
  BY <1>0 DEF ShellInv, ShellTypes, Shell!TypeOK, Shell!Prompts
<1>3. RunInv'
  BY <1>0, <1>1 DEF ShellInv, RunInv, Alive
<1>4. prompt'.of # 0 => prompt'.of = Shell!Current
  BY <1>0 DEF ShellInv, PipeInv
<1>5. PipeInv'
  BY <1>0, <1>1, <1>4 DEF ShellInv, PipeInv, Alive
<1>6. ASSUME view = "shell", ~late, NEW o \in Shell!Ops, shellOp[o].pc = "reading"
      PROVE  \/ \E i \in DOMAIN events : events[i] = "input"
             \/ prompt' = [kind |-> "callback", of |-> o]
             \/ write[o] \in {"writing", "written"} \/ pipe[o] \in {"closed", "aborted"}
  <2>1. pipe[o] = "open" => writer = o
    BY <1>6 DEF ShellInv, PipeInv, Alive
  <2>2. pipe[o] \in {"open", "closed", "aborted"}
    BY <1>6 DEF ShellInv, PipeInv, ShellTypes, Shell!TypeOK
  <2>3. shellWaiter = "event" => prompt' = prompt
    BY <1>0, <1>6 DEF Shell!HandleEvent
  <2> QED
    BY <1>0, <1>6, <2>1, <2>2, <2>3 DEF ShellInv, Shell!Answerable
<1>7. Shell!Answerable'
  BY <1>0, <1>6 DEF Shell!Answerable
<1> QED
  BY <1>2, <1>3, <1>5, <1>7 DEF ShellInv

\* A goroutine moves to another step, and the others stay where they are.
LEMMA OpMoves ==
  ASSUME ShellTypes, NEW o \in Shell!Ops, NEW p \in Shell!PCs, shellOp' = [shellOp EXCEPT ![o].pc = p]
  PROVE  /\ shellOp' \in [Shell!Ops -> [kind: Shell!Kinds, pc: Shell!PCs, canceled: BOOLEAN, sent: 0 .. MaxEvents]]
         /\ \A q \in Shell!Ops : shellOp'[q].kind = shellOp[q].kind
         /\ \A q \in Shell!Ops : shellOp'[q].pc = IF q = o THEN p ELSE shellOp[q].pc
BY DEF ShellTypes

LEMMA ShellHandleResultStep ==
  ASSUME ShellInv, Shell!HandleResult
  PROVE  ShellInv'
<1> DEFINE o == Shell!Current
<1>0. /\ UNCHANGED <<view, pending, leaving, handoff, prompt, events, write, late>>
      /\ shellWaiter = "result" /\ shellWaiter' = "gone" /\ o \in Shell!Ops /\ Alive(o)
      /\ shellOp' = [shellOp EXCEPT ![o].pc = "told"]
      /\ view = "shell" => busy' = FALSE /\ cancel' = 0 /\ writer' = 0
      /\ view # "shell" => UNCHANGED <<busy, cancel, pipe, writer>>
      /\ 0 \in 0 .. MaxOps /\ writer \in 0 .. MaxOps
  BY BoundsAssumption DEF Shell!HandleResult, ShellInv, RunInv, ShellTypes, Shell!TypeOK, BoundsAssumption
<1>1. /\ shellOp' \in [Shell!Ops -> [kind: Shell!Kinds, pc: Shell!PCs, canceled: BOOLEAN, sent: 0 .. MaxEvents]]
      /\ \A q \in Shell!Ops : shellOp'[q].kind = shellOp[q].kind
      /\ \A q \in Shell!Ops : shellOp'[q].pc = IF q = o THEN "told" ELSE shellOp[q].pc
  BY <1>0, OpMoves DEF ShellInv, Shell!PCs
<1>2. /\ pipe' \in [Shell!Ops -> {"none", "open", "read", "closed", "aborted"}]
      /\ \A q \in Shell!Ops : pipe'[q] = pipe[q] \/ (pipe'[q] = "closed" /\ q = o)
  <2>1. CASE view = "shell"
    <3>1. writer # 0 => writer = o
      BY <2>1 DEF ShellInv, PipeInv
    <3> QED
      BY <1>0, <2>1, <3>1, ClosedIs DEF Shell!HandleResult, ShellInv
  <2>2. CASE view # "shell"
    BY <1>0, <2>2 DEF ShellInv, ShellTypes, Shell!TypeOK
  <2> QED
    BY <2>1, <2>2
<1>3. Shell!Current' = o
  BY <1>0, <1>1, CurrentStays DEF Alive
<1> HIDE DEF o
<1>4. ShellTypes'
  BY <1>0, <1>1, <1>2, ShellOpTypes DEF ShellInv, ShellTypes, Shell!TypeOK
<1>5. \A q \in Shell!Ops : shellOp'[q].pc \in {"none", "told"} /\ (shellOp'[q].pc = "none" <=> shellOp[q].pc = "none")
  BY <1>0, <1>1 DEF ShellInv, RunInv, Alive, o
<1>6. RunInv'
  BY <1>0, <1>3, <1>5 DEF ShellInv, RunInv, Alive, o
<1>7. \A q \in Shell!Ops :
        /\ shellOp'[q].pc = "none" => pipe'[q] = "none" /\ write'[q] = "none"
        /\ shellOp'[q].pc # "none" /\ shellOp'[q].kind = "login" => pipe'[q] # "none"
        /\ write'[q] \in {"written", "error"} => pipe'[q] \notin {"none", "open"}
  BY <1>0, <1>1, <1>2, <1>5 DEF ShellInv, PipeInv, Alive
<1>8. PipeInv'
  BY <1>0, <1>3, <1>5, <1>7 DEF ShellInv, PipeInv, Alive, o
<1>9. Shell!Answerable'
  BY <1>5 DEF Shell!Answerable
<1> QED
  BY <1>4, <1>6, <1>8, <1>9 DEF ShellInv

LEMMA ShellSubmittedStep ==
  ASSUME ShellInv, NEW o \in Shell!Ops, Shell!HandleSubmitted(o)
  PROVE  ShellInv'
<1>0. /\ UNCHANGED <<view, pending, busy, leaving, handoff, prompt, cancel, events, shellWaiter, pipe>>
      /\ write[o] \in {"written", "error"} /\ write' = [write EXCEPT ![o] = "told"]
      /\ late' = (late \/ o # Shell!Current) /\ late \in BOOLEAN
      /\ view = "shell" => writer' = 0
      /\ view # "shell" => writer' = writer
      /\ shellOp' = shellOp \/ shellOp' = Shell!Canceled(cancel)
      /\ cancel \in 0 .. MaxOps /\ 0 \in 0 .. MaxOps
  BY BoundsAssumption DEF Shell!HandleSubmitted, ShellInv, ShellTypes, Shell!TypeOK, BoundsAssumption
<1>1. /\ shellOp' \in [Shell!Ops -> [kind: Shell!Kinds, pc: Shell!PCs, canceled: BOOLEAN, sent: 0 .. MaxEvents]]
      /\ \A q \in Shell!Ops : shellOp'[q].pc = shellOp[q].pc /\ shellOp'[q].kind = shellOp[q].kind
  BY <1>0, CanceledIs DEF ShellInv, ShellTypes
<1>2. Shell!Current' = Shell!Current
  BY <1>1, CurrentStays
<1>3. /\ write' \in [Shell!Ops -> {"none", "writing", "written", "error", "told"}]
      /\ \A q \in Shell!Ops : write'[q] = IF q = o THEN "told" ELSE write[q]
  BY <1>0 DEF ShellInv, ShellTypes, Shell!TypeOK
<1>4. ShellTypes'
  BY <1>0, <1>1, <1>3, ShellOpTypes DEF ShellInv, ShellTypes, Shell!TypeOK
<1>5. RunInv'
  <2>1. \A q \in Shell!Ops : Alive(q)' <=> Alive(q)
    BY <1>1 DEF Alive
  <2>2. Shell!Current # 0 => Shell!Current \in Shell!Ops
    BY DEF ShellInv, RunInv
  <2> QED
    BY <1>0, <1>1, <1>2, <2>1, <2>2 DEF ShellInv, RunInv
<1>6. pipe[o] \in {"read", "closed", "aborted"} /\ shellOp[o].pc # "none"
  BY <1>0 DEF ShellInv, PipeInv, ShellTypes, Shell!TypeOK
<1>7. \A q \in Shell!Ops :
        view = "shell" /\ ~late' /\ shellOp[q].pc \notin {"none", "told", "done"} => pipe[q] # "open"
  BY <1>0, <1>6 DEF ShellInv, RunInv, Alive
<1>8. PipeInv'
  <2>1. view' = "shell" /\ writer' # 0 => writer' = Shell!Current' /\ shellOp'[writer'].pc \notin {"none", "told"}
    BY <1>0
  <2>2. prompt'.of # 0 => prompt'.of = Shell!Current'
    BY <1>0, <1>2 DEF ShellInv, PipeInv
  <2>3. \A q \in Shell!Ops :
          /\ shellOp'[q].pc = "none" => pipe'[q] = "none" /\ write'[q] = "none"
          /\ shellOp'[q].pc \in {"asking", "reading"} => shellOp'[q].kind = "login" /\ pipe'[q] # "read"
          /\ shellOp'[q].pc # "none" /\ shellOp'[q].kind = "login" => pipe'[q] # "none"
          /\ write'[q] \in {"written", "error"} => pipe'[q] \notin {"none", "open"}
    <3>1. \A q \in Shell!Ops : write'[q] = IF q = o THEN "told" ELSE write[q]
      BY <1>3
    <3>2. pipe' = pipe /\ \A q \in Shell!Ops : shellOp'[q].pc = shellOp[q].pc /\ shellOp'[q].kind = shellOp[q].kind
      BY <1>0, <1>1
    <3> QED
      BY <1>6, <3>1, <3>2 DEF ShellInv, PipeInv
  <2>4. \A q \in Shell!Ops :
          view' = "shell" /\ ~late' /\ shellOp'[q].pc \notin {"none", "told", "done"} /\ pipe'[q] = "open" =>
            writer' = q
    BY <1>0, <1>1, <1>7
  <2> QED
    BY <2>1, <2>2, <2>3, <2>4 DEF PipeInv, Alive
<1>9. \A q \in Shell!Ops : shellOp[q].pc = "reading" => pipe[q] \in {"open", "closed", "aborted"}
  BY DEF ShellInv, PipeInv, ShellTypes, Shell!TypeOK
<1>10. Shell!Answerable'
  BY <1>0, <1>1, <1>7, <1>9 DEF Shell!Answerable
<1> QED
  BY <1>4, <1>5, <1>8, <1>10 DEF ShellInv

\* A goroutine that has work to do goes on or is done.
LEMMA GoroutineRuns ==
  ASSUME ShellInv, NEW o \in Shell!Ops, shellOp[o].pc \in {"running", "asking", "reading"},
         NEW p \in {"running", "asking", "reading", "done"},
         \A q \in Shell!Ops : shellOp'[q].pc = IF q = o THEN p ELSE shellOp[q].pc,
         UNCHANGED <<view, busy, leaving, handoff, shellWaiter>>
  PROVE  RunInv' /\ Shell!Current' = Shell!Current /\ o = Shell!Current
<1>1. Shell!Current' = Shell!Current
  BY CurrentStays
<1>2. o = Shell!Current /\ Alive(o)
  BY DEF ShellInv, RunInv, Alive
<1>3. \A q \in Shell!Ops : Alive(q)' <=> Alive(q)
  BY DEF Alive
<1>4. Shell!Current # 0 /\ Alive(Shell!Current) => Shell!Current' # 0 /\ Alive(Shell!Current)'
  BY <1>1, <1>2, <1>3
<1>5. shellWaiter # "result"
  BY <1>2 DEF ShellInv, RunInv
<1>6. \A q \in Shell!Ops : shellOp'[q].pc # "none" <=> shellOp[q].pc # "none"
  OBVIOUS
<1> QED
  BY <1>1, <1>2, <1>3, <1>4, <1>5, <1>6 DEF ShellInv, RunInv

\* One that does not begin to read leaves the pipes as they are.
LEMMA ShellWorkStep ==
  ASSUME ShellInv, NEW o \in Shell!Ops, shellOp[o].pc \in {"running", "asking", "reading"},
         NEW p \in {"running", "asking", "done"},
         shellOp' \in [Shell!Ops -> [kind: Shell!Kinds, pc: Shell!PCs, canceled: BOOLEAN, sent: 0 .. MaxEvents]],
         \A q \in Shell!Ops : shellOp'[q].kind = shellOp[q].kind,
         \A q \in Shell!Ops : shellOp'[q].pc = IF q = o THEN p ELSE shellOp[q].pc,
         p = "asking" => shellOp[o].kind = "login" /\ pipe[o] # "read",
         events' \in Seq({"event", "input"}), Len(events') <= Buffer,
         (\E i \in DOMAIN events : events[i] = "input") => \E i \in DOMAIN events' : events'[i] = "input",
         UNCHANGED <<view, prompt, pending, busy, leaving, handoff, cancel, writer, shellWaiter, pipe, write, late>>
  PROVE  ShellInv'
<1>1. RunInv' /\ Shell!Current' = Shell!Current /\ o = Shell!Current
  BY GoroutineRuns
<1>2. ShellTypes'
  BY ShellOpTypes DEF ShellInv, ShellTypes, Shell!TypeOK
<1>3. PipeInv'
  <2>1. view' = "shell" /\ writer' # 0 => writer' = Shell!Current' /\ shellOp'[writer'].pc \notin {"none", "told"}
    BY <1>1 DEF ShellInv, PipeInv, Alive
  <2>2. \A q \in Shell!Ops :
          /\ shellOp'[q].pc = "none" => pipe'[q] = "none" /\ write'[q] = "none"
          /\ shellOp'[q].pc \in {"asking", "reading"} => shellOp'[q].kind = "login" /\ pipe'[q] # "read"
          /\ shellOp'[q].pc # "none" /\ shellOp'[q].kind = "login" => pipe'[q] # "none"
          /\ write'[q] \in {"written", "error"} => pipe'[q] \notin {"none", "open"}
    BY SMTT(30) DEF ShellInv, PipeInv
  <2>3. \A q \in Shell!Ops :
          view' = "shell" /\ ~late' /\ shellOp'[q].pc \notin {"none", "told", "done"} /\ pipe'[q] = "open" =>
            writer' = q
    BY ZenonT(40) DEF ShellInv, PipeInv, Alive
  <2> QED
    BY <1>1, <2>1, <2>2, <2>3 DEF ShellInv, PipeInv, Alive
<1>4. Shell!Answerable'
  BY DEF ShellInv, Shell!Answerable
<1> QED
  BY <1>1, <1>2, <1>3, <1>4 DEF ShellInv

LEMMA ShellGoesOnStep ==
  ASSUME ShellInv, NEW o \in Shell!Ops, Shell!AskCallback(o) \/ Shell!Finish(o)
  PROVE  ShellInv'
<1>0. PICK p \in {"asking", "done"} :
        /\ shellOp' = [shellOp EXCEPT ![o].pc = p] /\ shellOp[o].pc = "running"
        /\ p = "asking" => shellOp[o].kind = "login" /\ pipe[o] # "read"
  BY DEF Shell!AskCallback, Shell!Finish
<1>1. UNCHANGED <<view, pending, busy, leaving, handoff, prompt, cancel, writer, events, shellWaiter, pipe,
                  write, late>>
  BY DEF Shell!AskCallback, Shell!Finish
<1>2. p \in Shell!PCs
  BY DEF Shell!PCs
<1>3. /\ shellOp' \in [Shell!Ops -> [kind: Shell!Kinds, pc: Shell!PCs, canceled: BOOLEAN, sent: 0 .. MaxEvents]]
      /\ \A q \in Shell!Ops : shellOp'[q].kind = shellOp[q].kind
      /\ \A q \in Shell!Ops : shellOp'[q].pc = IF q = o THEN p ELSE shellOp[q].pc
  BY <1>0, <1>2, OpMoves DEF ShellInv
<1>4. /\ events' \in Seq({"event", "input"}) /\ Len(events') <= Buffer
      /\ (\E i \in DOMAIN events : events[i] = "input") => \E i \in DOMAIN events' : events'[i] = "input"
  BY <1>1 DEF ShellInv, ShellTypes, Shell!TypeOK
<1> QED
  BY <1>0, <1>1, <1>3, <1>4, ShellWorkStep, ZenonT(40)

LEMMA ShellReportStep ==
  ASSUME ShellInv, NEW o \in Shell!Ops, Shell!Report(o)
  PROVE  ShellInv'
<1>0. /\ shellOp[o].pc = "running"
      /\ UNCHANGED <<view, pending, busy, leaving, handoff, prompt, cancel, writer, shellWaiter, pipe, write, late>>
  BY DEF Shell!Report, Shell!Emit
<1>3. /\ shellOp[o].sent < MaxEvents /\ events \in Seq({"event", "input"}) /\ Len(events) <= Buffer
      /\ Buffer \in Nat /\ MaxEvents \in Nat /\ shellOp[o].sent \in 0 .. MaxEvents
  BY BoundsAssumption DEF Shell!Report, Shell!Emit, ShellInv, ShellTypes, Shell!TypeOK, BoundsAssumption
<1>1. CASE /\ Len(events) < Buffer /\ events' = Append(events, "event")
           /\ shellOp' = [shellOp EXCEPT ![o].sent = @ + 1]
  <2>1. /\ shellOp' \in [Shell!Ops -> [kind: Shell!Kinds, pc: Shell!PCs, canceled: BOOLEAN, sent: 0 .. MaxEvents]]
        /\ \A q \in Shell!Ops : shellOp'[q].kind = shellOp[q].kind
        /\ \A q \in Shell!Ops : shellOp'[q].pc = IF q = o THEN "running" ELSE shellOp[q].pc
    <3> DEFINE counted == [shellOp[o] EXCEPT !.sent = shellOp[o].sent + 1]
    <3>1. shellOp[o] \in [kind: Shell!Kinds, pc: Shell!PCs, canceled: BOOLEAN, sent: 0 .. MaxEvents]
      BY DEF ShellInv, ShellTypes
    <3>2. shellOp[o].sent + 1 \in 0 .. MaxEvents
      BY <1>3
    <3>3. /\ counted \in [kind: Shell!Kinds, pc: Shell!PCs, canceled: BOOLEAN, sent: 0 .. MaxEvents]
          /\ counted.pc = "running" /\ counted.kind = shellOp[o].kind
      BY <1>0, <3>1, <3>2
    <3>4. shellOp' = [shellOp EXCEPT ![o] = counted]
      BY <1>1
    <3> HIDE DEF counted
    <3> QED
      BY <3>3, <3>4 DEF ShellInv, ShellTypes
  <2>2. /\ events' \in Seq({"event", "input"}) /\ Len(events') <= Buffer
        /\ \A i \in DOMAIN events : i \in DOMAIN events' /\ events'[i] = events[i]
    BY <1>1, <1>3
  <2> QED
    BY <1>0, <2>1, <2>2, ShellWorkStep, ZenonT(40)
<1>2. CASE shellOp' = [shellOp EXCEPT ![o].pc = "done"] /\ UNCHANGED events
  <2>1. /\ shellOp' \in [Shell!Ops -> [kind: Shell!Kinds, pc: Shell!PCs, canceled: BOOLEAN, sent: 0 .. MaxEvents]]
        /\ \A q \in Shell!Ops : shellOp'[q].kind = shellOp[q].kind
        /\ \A q \in Shell!Ops : shellOp'[q].pc = IF q = o THEN "done" ELSE shellOp[q].pc
    BY <1>2, OpMoves DEF ShellInv, Shell!PCs
  <2>2. /\ events' \in Seq({"event", "input"}) /\ Len(events') <= Buffer
        /\ (\E i \in DOMAIN events : events[i] = "input") => \E i \in DOMAIN events' : events'[i] = "input"
    BY <1>2, <1>3
  <2> QED
    BY <1>0, <1>2, <2>1, <2>2, ShellWorkStep
<1> QED
  BY <1>1, <1>2 DEF Shell!Report, Shell!Emit

\* A login asks for input before it reads.
LEMMA ShellAskStep ==
  ASSUME ShellInv, NEW o \in Shell!Ops, Shell!Emit(o, "input")
  PROVE  ShellInv'
<1>0. /\ shellOp[o].pc = "asking"
      /\ UNCHANGED <<view, pending, busy, leaving, handoff, prompt, cancel, writer, shellWaiter, pipe, write, late>>
      /\ events \in Seq({"event", "input"}) /\ Len(events) <= Buffer /\ Buffer \in Nat
  BY BoundsAssumption DEF Shell!Emit, ShellInv, ShellTypes, Shell!TypeOK, BoundsAssumption
<1>1. CASE /\ Len(events) < Buffer /\ events' = Append(events, "input")
           /\ shellOp' = [shellOp EXCEPT ![o].pc = "reading"]
  <2>1. /\ shellOp' \in [Shell!Ops -> [kind: Shell!Kinds, pc: Shell!PCs, canceled: BOOLEAN, sent: 0 .. MaxEvents]]
        /\ \A q \in Shell!Ops : shellOp'[q].kind = shellOp[q].kind
        /\ \A q \in Shell!Ops : shellOp'[q].pc = IF q = o THEN "reading" ELSE shellOp[q].pc
    BY <1>0, <1>1 DEF ShellInv, ShellTypes, Shell!PCs
  <2>2. /\ events' \in Seq({"event", "input"}) /\ Len(events') <= Buffer
        /\ \E i \in DOMAIN events' : events'[i] = "input"
    <3>1. Len(events) + 1 \in DOMAIN events' /\ events'[Len(events) + 1] = "input"
      BY <1>0, <1>1
    <3> QED
      BY <1>0, <1>1, <3>1
  <2>3. RunInv' /\ Shell!Current' = Shell!Current /\ o = Shell!Current
    BY <1>0, <2>1, GoroutineRuns
  <2>4. ShellTypes'
    BY <1>0, <2>1, <2>2, ShellOpTypes DEF ShellInv, ShellTypes, Shell!TypeOK
  <2>5. PipeInv'
    <3>1. view' = "shell" /\ writer' # 0 => writer' = Shell!Current' /\ shellOp'[writer'].pc \notin {"none", "told"}
      BY <1>0, <2>1, <2>3 DEF ShellInv, PipeInv, Alive
    <3>2. \A q \in Shell!Ops :
            /\ shellOp'[q].pc = "none" => pipe'[q] = "none" /\ write'[q] = "none"
            /\ shellOp'[q].pc \in {"asking", "reading"} => shellOp'[q].kind = "login" /\ pipe'[q] # "read"
            /\ shellOp'[q].pc # "none" /\ shellOp'[q].kind = "login" => pipe'[q] # "none"
            /\ write'[q] \in {"written", "error"} => pipe'[q] \notin {"none", "open"}
      BY <1>0, <2>1, ZenonT(40) DEF ShellInv, PipeInv
    <3>3. \A q \in Shell!Ops :
            view' = "shell" /\ ~late' /\ shellOp'[q].pc \notin {"none", "told", "done"} /\ pipe'[q] = "open" =>
              writer' = q
      BY <1>0, <2>1 DEF ShellInv, PipeInv, Alive
    <3> QED
      BY <1>0, <2>3, <3>1, <3>2, <3>3 DEF ShellInv, PipeInv, Alive
  <2>6. Shell!Answerable'
    BY <2>2 DEF Shell!Answerable
  <2> QED
    BY <2>3, <2>4, <2>5, <2>6 DEF ShellInv
<1>2. CASE shellOp' = [shellOp EXCEPT ![o].pc = "done"] /\ UNCHANGED events
  <2>1. /\ shellOp' \in [Shell!Ops -> [kind: Shell!Kinds, pc: Shell!PCs, canceled: BOOLEAN, sent: 0 .. MaxEvents]]
        /\ \A q \in Shell!Ops : shellOp'[q].kind = shellOp[q].kind
        /\ \A q \in Shell!Ops : shellOp'[q].pc = IF q = o THEN "done" ELSE shellOp[q].pc
    BY <1>2, OpMoves DEF ShellInv, Shell!PCs
  <2>2. /\ events' \in Seq({"event", "input"}) /\ Len(events') <= Buffer
        /\ (\E i \in DOMAIN events : events[i] = "input") => \E i \in DOMAIN events' : events'[i] = "input"
    BY <1>0, <1>2
  <2> QED
    BY <1>0, <1>2, <2>1, <2>2, ShellWorkStep
<1> QED
  BY <1>1, <1>2 DEF Shell!Emit

LEMMA ShellReadCallbackStep ==
  ASSUME ShellInv, NEW o \in Shell!Ops, Shell!ReadCallback(o)
  PROVE  ShellInv'
<1>0. /\ shellOp[o].pc = "reading"
      /\ UNCHANGED <<view, pending, busy, leaving, handoff, prompt, cancel, writer, events, shellWaiter, late>>
      /\ events \in Seq({"event", "input"}) /\ Len(events) <= Buffer
  BY DEF Shell!ReadCallback, ShellInv, ShellTypes, Shell!TypeOK
<1>1. CASE /\ write' = [write EXCEPT ![o] = "written"] /\ pipe' = [pipe EXCEPT ![o] = "read"]
           /\ shellOp' = [shellOp EXCEPT ![o].pc = "running"]
  <2>1. /\ shellOp' \in [Shell!Ops -> [kind: Shell!Kinds, pc: Shell!PCs, canceled: BOOLEAN, sent: 0 .. MaxEvents]]
        /\ \A q \in Shell!Ops : shellOp'[q].kind = shellOp[q].kind
        /\ \A q \in Shell!Ops : shellOp'[q].pc = IF q = o THEN "running" ELSE shellOp[q].pc
    BY <1>1, OpMoves DEF ShellInv, Shell!PCs
  <2>2. /\ write' \in [Shell!Ops -> {"none", "writing", "written", "error", "told"}]
        /\ pipe' \in [Shell!Ops -> {"none", "open", "read", "closed", "aborted"}]
        /\ pipe'[o] = "read"
        /\ \A q \in Shell!Ops \ {o} : write'[q] = write[q] /\ pipe'[q] = pipe[q]
    BY <1>1 DEF ShellInv, ShellTypes, Shell!TypeOK
  <2>3. RunInv' /\ Shell!Current' = Shell!Current /\ o = Shell!Current
    BY <1>0, <2>1, GoroutineRuns
  <2>4. ShellTypes'
    BY <1>0, <2>1, <2>2, ShellOpTypes DEF ShellInv, ShellTypes, Shell!TypeOK
  <2>5. PipeInv'
    <3>1. view' = "shell" /\ writer' # 0 => writer' = Shell!Current' /\ shellOp'[writer'].pc \notin {"none", "told"}
      BY <1>0, <2>1, <2>3 DEF ShellInv, PipeInv, Alive
    <3>2. \A q \in Shell!Ops :
            /\ shellOp'[q].pc = "none" => pipe'[q] = "none" /\ write'[q] = "none"
            /\ shellOp'[q].pc \in {"asking", "reading"} => shellOp'[q].kind = "login" /\ pipe'[q] # "read"
            /\ shellOp'[q].pc # "none" /\ shellOp'[q].kind = "login" => pipe'[q] # "none"
            /\ write'[q] \in {"written", "error"} => pipe'[q] \notin {"none", "open"}
      <4>1. ASSUME NEW q \in Shell!Ops, q # o
            PROVE  /\ shellOp'[q].pc = shellOp[q].pc /\ shellOp'[q].kind = shellOp[q].kind
                   /\ pipe'[q] = pipe[q] /\ write'[q] = write[q]
        BY <2>1, <2>2, <4>1
      <4>2. shellOp'[o].pc = "running" /\ pipe'[o] = "read"
        BY <2>1, <2>2
      <4> QED
        BY <4>1, <4>2 DEF ShellInv, PipeInv
    <3>3. \A q \in Shell!Ops :
            view' = "shell" /\ ~late' /\ shellOp'[q].pc \notin {"none", "told", "done"} /\ pipe'[q] = "open" =>
              writer' = q
      <4>1. ASSUME NEW q \in Shell!Ops, q # o
            PROVE  shellOp'[q].pc = shellOp[q].pc /\ pipe'[q] = pipe[q]
        BY <2>1, <2>2, <4>1
      <4>2. pipe'[o] # "open"
        BY <2>2
      <4> QED
        BY <1>0, <4>1, <4>2 DEF ShellInv, PipeInv, Alive
    <3> QED
      BY <1>0, <2>3, <3>1, <3>2, <3>3 DEF ShellInv, PipeInv, Alive
  <2>6. Shell!Answerable'
    BY <1>0, <2>1, <2>2 DEF ShellInv, Shell!Answerable
  <2> QED
    BY <2>3, <2>4, <2>5, <2>6 DEF ShellInv
<1>2. CASE shellOp' = [shellOp EXCEPT ![o].pc = "done"] /\ UNCHANGED <<write, pipe>>
  <2>1. /\ shellOp' \in [Shell!Ops -> [kind: Shell!Kinds, pc: Shell!PCs, canceled: BOOLEAN, sent: 0 .. MaxEvents]]
        /\ \A q \in Shell!Ops : shellOp'[q].kind = shellOp[q].kind
        /\ \A q \in Shell!Ops : shellOp'[q].pc = IF q = o THEN "done" ELSE shellOp[q].pc
    BY <1>2, OpMoves DEF ShellInv, Shell!PCs
  <2>2. /\ events' \in Seq({"event", "input"}) /\ Len(events') <= Buffer
        /\ (\E i \in DOMAIN events : events[i] = "input") => \E i \in DOMAIN events' : events'[i] = "input"
    BY <1>0, <1>2
  <2> QED
    BY <1>0, <1>2, <2>1, <2>2, ShellWorkStep
<1> QED
  BY <1>1, <1>2 DEF Shell!ReadCallback

LEMMA ShellWriteFailsStep ==
  ASSUME ShellInv, NEW o \in Shell!Ops, Shell!WriteFails(o)
  PROVE  ShellInv'
<1>0. /\ write[o] = "writing" /\ pipe[o] \in {"closed", "aborted"}
      /\ UNCHANGED <<view, pending, busy, leaving, handoff, prompt, cancel, writer, shellOp, events,
                     shellWaiter, pipe, late>>
  BY DEF Shell!WriteFails
<1>1. /\ write' \in [Shell!Ops -> {"none", "writing", "written", "error", "told"}]
      /\ \A q \in Shell!Ops : write'[q] = IF q = o THEN "error" ELSE write[q]
  BY DEF Shell!WriteFails, ShellInv, ShellTypes, Shell!TypeOK
<1>2. Shell!Current' = Shell!Current
  BY <1>0, CurrentStays
<1>3. ShellTypes'
  BY <1>0, <1>1 DEF ShellInv, ShellTypes, Shell!TypeOK
<1>4. RunInv'
  BY <1>0, <1>2 DEF ShellInv, RunInv, Alive
<1>5. PipeInv'
  BY <1>0, <1>1, <1>2 DEF ShellInv, PipeInv, Alive
<1>6. Shell!Answerable'
  BY <1>0, <1>1 DEF ShellInv, Shell!Answerable
<1> QED
  BY <1>3, <1>4, <1>5, <1>6 DEF ShellInv

LEMMA ShellStays ==
  ASSUME ShellInv, UNCHANGED shellVars
  PROVE  ShellInv'
<1>0. UNCHANGED <<view, pending, busy, leaving, handoff, prompt, cancel, writer, shellOp, events,
                  shellWaiter, pipe, write, late>>
  BY DEF shellVars
<1>1. Shell!Current' = Shell!Current
  BY <1>0, CurrentStays
<1>2. ShellTypes'
  BY <1>0 DEF ShellInv, ShellTypes, Shell!TypeOK
<1>3. RunInv'
  BY <1>0, <1>1 DEF ShellInv, RunInv, Alive
<1>4. PipeInv'
  BY <1>0, <1>1 DEF ShellInv, PipeInv, Alive
<1>5. Shell!Answerable'
  BY <1>0 DEF ShellInv, Shell!Answerable
<1> QED
  BY <1>2, <1>3, <1>4, <1>5 DEF ShellInv

LEMMA ShellStep ==
  ASSUME ShellInv, Shell!Next
  PROVE  ShellInv'
<1>1. CASE \/ Shell!AskValue \/ Shell!DropPending \/ Shell!LaunchHandoff \/ Shell!Quit \/ Shell!StartSetup \/ Shell!Leave
           \/ \E kind \in Shell!Kinds : Shell!Mutate(kind)
  BY <1>1, ShellKeyStep
<1>2. CASE Shell!Read
  BY <1>2, ShellReadStep
<1>3. CASE Shell!ConfirmPhrase
  BY <1>3, ShellConfirmStep
<1>4. CASE Shell!CtrlC \/ Shell!Esc \/ Shell!CancelPrompt
  BY <1>4, ShellEndsStep
<1>5. CASE Shell!Answer
  BY <1>5, ShellAnswerStep
<1>6. CASE Shell!PollEvents \/ Shell!TakeResult
  BY <1>6, ShellPollStep
<1>7. CASE Shell!TakeEvent
  BY <1>7, ShellTakeStep
<1>8. CASE Shell!HandleEvent
  BY <1>8, ShellHandleEventStep
<1>9. CASE Shell!HandleResult
  BY <1>9, ShellHandleResultStep
<1>10. ASSUME NEW o \in Shell!Ops,
              \/ Shell!HandleSubmitted(o) \/ Shell!Report(o) \/ Shell!AskCallback(o) \/ Shell!Emit(o, "input")
              \/ Shell!ReadCallback(o) \/ Shell!WriteFails(o) \/ Shell!Finish(o)
       PROVE  ShellInv'
  BY <1>10, ShellSubmittedStep, ShellReportStep, ShellGoesOnStep, ShellAskStep, ShellReadCallbackStep,
     ShellWriteFailsStep
<1> QED
  BY <1>1, <1>2, <1>3, <1>4, <1>5, <1>6, <1>7, <1>8, <1>9, <1>10 DEF Shell!Next

LEMMA ShellInit ==
  ASSUME Shell!Init
  PROVE  ShellInv
<1>0. /\ MaxOps \in Nat /\ Buffer \in Nat /\ 0 \in 0 .. MaxEvents /\ 0 \in 0 .. MaxOps
      /\ shellOp = [o \in Shell!Ops |-> Shell!Fresh]
  BY BoundsAssumption DEF BoundsAssumption, Shell!Init
<1>1. Shell!Fresh \in [kind: Shell!Kinds, pc: Shell!PCs, canceled: BOOLEAN, sent: 0 .. MaxEvents]
      /\ Shell!Fresh.pc = "none"
  BY <1>0 DEF Shell!Fresh, Shell!Kinds, Shell!PCs
<1>2. /\ shellOp \in [Shell!Ops -> [kind: Shell!Kinds, pc: Shell!PCs, canceled: BOOLEAN, sent: 0 .. MaxEvents]]
      /\ \A o \in Shell!Ops : shellOp[o].pc = "none"
  BY <1>0, <1>1
<1>3. ShellTypes
  <2>1. Shell!NoPrompt \in Shell!Prompts /\ "none" \in Shell!Actions
    BY <1>0 DEF Shell!NoPrompt, Shell!Prompts, Shell!Actions
  <2>2. <<>> \in Seq({"event", "input"}) /\ Len(<<>>) <= Buffer
    BY <1>0
  <2> QED
    BY <1>0, <1>2, <2>1, <2>2, ShellOpTypes DEF Shell!Init, ShellTypes, Shell!TypeOK
<1>4. Shell!Current = 0
  BY <1>2 DEF Shell!Current
<1>5. RunInv
  BY <1>0, <1>2, <1>4 DEF Shell!Init, RunInv, Alive
<1>6. PipeInv
  BY <1>0, <1>2, <1>4 DEF Shell!Init, PipeInv, Alive, Shell!NoPrompt
<1>7. Shell!Answerable
  BY <1>2 DEF Shell!Answerable
<1> QED
  BY <1>3, <1>5, <1>6, <1>7 DEF ShellInv

\* Operations follow one another, and pipe, prompt and write are those of the last
\* (shell.go executeWithArguments, handleFacadeMessage, submitPrompt).
THEOREM ShellInvariance == InteractionsSpec => []ShellInv
<1>1. InteractionsInit => ShellInv
  BY ShellInit DEF InteractionsInit
<1>2. ShellInv /\ Moves => ShellInv'
  BY MovesAre, ShellStep, ShellStays
<1> QED
  BY <1>1, <1>2, PTL DEF InteractionsSpec, Moves

\* The shell never runs two operations, knows whether one runs, and leaves the user a way to
\* end a login that waits for its callback (shell.go:416, :198), for any size of the event
\* channel and any number of operations.
THEOREM ShellRunsOneAtATime == InteractionsSpec => []OneAtATime
<1>1. ShellInv => OneAtATime
  <2>1. ShellInv => Shell!OneOperation
    BY DEF ShellInv, RunInv, Alive, Shell!OneOperation, Shell!Unfinished
  <2> QED
    BY <2>1 DEF ShellInv, OneAtATime, Shell!OneAtATime
<1> QED
  BY <1>1, ShellInvariance, PTL

HIDE DEF Shell!Ops, Shell!screen, Shell!exits, Shell!task

-----------------------------------------------------------------------------
(* Management API                                                          *)

\* How many requests were rejected where; a key that was rejected stays so while the
\* command runs.
CountInv ==
  /\ rejected # 0 => ~valid /\ managementPc # "idle"
  /\ managementPc \in {"read", "consent", "write", "recheck"} => rejected = 0
  /\ managementPc = "verify" => rejected <= IF managementJob.kind = "setting" THEN 1 ELSE 0
  /\ managementPc = "restore" => rejected <= IF managementJob.kind = "setting" THEN 2 ELSE 0
  /\ rejected <= IF managementJob.kind = "setting" THEN 3 ELSE 1

\* What the list holds if nobody else writes.
ListInv ==
  /\ managementPc \in {"verify", "restore", "recheck"} => managementJob.kind \in Management!Verified
  /\ managementPc = "read" => managementJob.target = {} /\ managementJob.kind \notin {"none", "named"}
  /\ managementJob.kind = "named" => managementJob.target = {}
  /\ managementPc = "consent" => managementJob.kind \notin {"create", "remove"}
  /\ managementJob.kind \in Management!Verified /\ managementPc \in {"consent", "write"} => managementJob.target # {}
  /\ managementPc = "consent" /\ managementJob.target # {} /\ ~meanwhile => list = managementJob.prior
  /\ managementPc = "write" /\ managementJob.kind # "accounts" /\ managementJob.target # {} /\ ~meanwhile =>
       list = managementJob.prior
  /\ managementJob.kind = "remove" /\ managementPc = "write" =>
       \E e \in Management!ToSet(managementJob.prior) : managementJob.target = {e}
  /\ managementPc \in {"verify", "restore"} /\ ~meanwhile =>
       list \in {managementJob.prior, managementJob.want}

ManagementInv ==
  Management!TypeOK /\ CountInv /\ ListInv /\ Management!VerifiedOutcome

\* The lists: their entries, positions and removals.
LEMMA ListsAre ==
  ASSUME NEW s \in Management!Lists
  PROVE  /\ s \in Seq(Entries) /\ Len(s) \in Nat /\ DOMAIN s = 1 .. Len(s)
         /\ \A i \in 1 .. Len(s) : s[i] \in Entries
         /\ \A e : e \in Management!ToSet(s) <=> \E i \in 1 .. Len(s) : s[i] = e
         /\ Management!ToSet(s) \subseteq Entries
BY DEF Management!Lists, Management!ToSet

LEMMA EmptyIsList == <<>> \in Management!Lists
BY DEF Management!Lists

LEMMA AppendIsList ==
  ASSUME NEW s \in Management!Lists, NEW e \in Entries
  PROVE  Append(s, e) \in Management!Lists /\ <<e>> \in Management!Lists
BY DEF Management!Lists

\* The position of an entry is the first that has it.
LEMMA PositionIs ==
  ASSUME NEW s \in Management!Lists, NEW e \in Management!ToSet(s)
  PROVE  Management!Position(s, e) \in 1 .. Len(s)
<1> DEFINE S == {k \in 1 .. Len(s) : s[k] = e}
<1>1. Len(s) \in Nat /\ S # {} /\ S \subseteq Nat
  BY ListsAre
<1>2. PICK n \in S : \A k \in S : n <= k
  <2>1. PICK n \in S : \A k \in S : <<k, n>> \notin OpToRel(<, Nat)
    BY <1>1, NatLessThanWellFounded, WFMin, Zenon
  <2>2. \A k \in S : k < n => <<k, n>> \in OpToRel(<, Nat)
    BY <1>1 DEF OpToRel
  <2>3. ASSUME NEW k \in S PROVE n <= k
    <3>1. k \in Nat /\ n \in Nat /\ ~(k < n)
      BY <1>1, <2>1, <2>2
    <3> QED
      BY <3>1
  <2> HIDE DEF S
  <2> QED
    BY <2>1, <2>3, Zenon
<1>3. Management!Min(S) \in S
  BY <1>1, <1>2 DEF Management!Min
<1> HIDE DEF S
<1>4. Management!Position(s, e) = Management!Min(S)
  BY <1>1 DEF Management!Position, Management!SelectInSeq, S
<1> QED
  BY <1>3, <1>4 DEF S

LEMMA RemoveAtIsList ==
  ASSUME NEW s \in Management!Lists, NEW p \in 1 .. Len(s)
  PROVE  Management!RemoveAt(s, p) \in Management!Lists
<1>1. s \in Seq(Entries) /\ Len(s) \in Nat
  BY ListsAre
<1>2. SubSeq(s, 1, p - 1) \in Seq(Entries) /\ SubSeq(s, p + 1, Len(s)) \in Seq(Entries)
  BY <1>1
<1> QED
  BY <1>2, ConcatProperties DEF Management!RemoveAt, Management!Lists

LEMMA DroppedIsList ==
  ASSUME NEW s \in Management!Lists, NEW e
  PROVE  Management!Dropped(s, e) \in Management!Lists
<1>1. CASE e \in Management!ToSet(s)
  BY <1>1, PositionIs, RemoveAtIsList DEF Management!Dropped
<1>2. CASE e \notin Management!ToSet(s)
  BY <1>2 DEF Management!Dropped
<1> QED
  BY <1>1, <1>2

LEMMA AddedIsList ==
  ASSUME NEW s \in Management!Lists, NEW e \in Entries
  PROVE  Management!Added(s, e) \in Management!Lists
BY AppendIsList DEF Management!Added

LEMMA LeftIsList ==
  ASSUME NEW s \in Management!Lists, NEW t \in Management!Left(s)
  PROVE  t \in Management!Lists
<1>0. PICK n \in 0 .. Len(s) : \E f \in Management!Increasing(n, Len(s)) : t = [i \in 1 .. n |-> s[f[i]]]
  BY DEF Management!Left
<1>1. PICK f \in Management!Increasing(n, Len(s)) : t = [i \in 1 .. n |-> s[f[i]]]
  BY <1>0
<1>2. n \in Nat /\ f \in [1 .. n -> 1 .. Len(s)]
  BY <1>1, ListsAre DEF Management!Increasing
<1>3. t \in [1 .. n -> Entries]
  BY <1>1, <1>2, ListsAre
<1> QED
  BY <1>2, <1>3 DEF Management!Lists

USE DEF Management!Go, Management!GoWith, Management!Verified, Management!Accepted, Management!Rejected,
        Management!NoAnswer, Management!Unwritten, Management!StopsWhenRejected

\* The end of a command keeps what it was about.
LEMMA ManagementEnds ==
  ASSUME managementJob \in Management!Jobs, NEW r \in Management!Results, Management!End(r)
  PROVE  /\ managementPc' = "done" /\ managementJob' \in Management!Jobs /\ managementJob'.result = r
         /\ managementJob'.kind = managementJob.kind /\ managementJob'.prior = managementJob.prior
         /\ managementJob'.want = managementJob.want /\ managementJob'.target = managementJob.target
BY DEF Management!End, Management!Jobs

\* A request is counted once, and no step but the last goes on after one that was rejected,
\* unless a setting is written.
LEMMA ManagementOver ==
  ASSUME ManagementInv, managementPc \notin {"idle", "done"}, NEW r \in Management!Results, Management!End(r),
         list' \in Management!Lists, overrode' \in BOOLEAN, UNCHANGED <<valid, others, meanwhile>>,
         rejected' = rejected \/ (~valid /\ rejected' = rejected + 1),
         managementJob.target # {} /\ ~meanwhile =>
           /\ managementJob.kind = "setting" /\ r = "ok" => list' = managementJob.want
           /\ managementJob.kind = "create" /\ r = "ok" =>
                /\ list' \in {managementJob.want, managementJob.prior}
                /\ managementJob.target \subseteq Management!ToSet(list')
           /\ managementJob.kind \in Management!Verified /\ r = "failed" /\ rejected' = 0 =>
                list' = managementJob.prior
           /\ managementJob.kind = "remove" /\ r = "ok" =>
                \E e \in managementJob.target : list' = Management!Dropped(managementJob.prior, e)
  PROVE  ManagementInv'
<1>1. /\ managementPc' = "done" /\ managementJob' \in Management!Jobs /\ managementJob'.result = r
      /\ managementJob'.kind = managementJob.kind /\ managementJob'.prior = managementJob.prior
      /\ managementJob'.want = managementJob.want /\ managementJob'.target = managementJob.target
  BY ManagementEnds DEF ManagementInv, Management!TypeOK
<1>2. managementPc \in {"read", "consent", "write", "verify", "restore", "recheck"} /\ rejected \in 0 .. 5
  BY DEF ManagementInv, Management!TypeOK, Management!PCs
<1>3. CountInv'
  BY <1>1, <1>2 DEF ManagementInv, CountInv
<1>4. rejected' \in 0 .. 5
  BY <1>1, <1>2, <1>3 DEF CountInv
<1>5. Management!TypeOK'
  BY <1>1, <1>4 DEF ManagementInv, Management!TypeOK, Management!PCs
<1>6. ListInv'
  BY <1>1 DEF ManagementInv, ListInv
<1>7. Management!VerifiedOutcome'
  BY <1>1 DEF Management!VerifiedOutcome
<1> QED
  BY <1>3, <1>5, <1>6, <1>7 DEF ManagementInv

LEMMA ManagementFields ==
  ASSUME ManagementInv
  PROVE  /\ managementJob \in Management!Jobs /\ managementJob.kind \in Management!Kinds \cup {"none"}
         /\ managementJob.prior \in Management!Lists /\ managementJob.want \in Management!Lists
         /\ managementJob.target \subseteq Entries
         /\ list \in Management!Lists /\ rejected \in 0 .. 5
         /\ overrode \in BOOLEAN /\ meanwhile \in BOOLEAN /\ valid \in BOOLEAN
         /\ managementPc \in Management!PCs
BY DEF ManagementInv, Management!TypeOK, Management!Jobs

LEMMA ManagementBeginStep ==
  ASSUME ManagementInv, NEW kind \in Management!Kinds, Management!Begin(kind)
  PROVE  ManagementInv'
<1>0. /\ managementPc = "idle" /\ managementPc' = (IF kind = "named" THEN "consent" ELSE "read")
      /\ managementJob' = [Management!NoJob EXCEPT !.kind = kind]
      /\ UNCHANGED <<list, valid, rejected, others, meanwhile, overrode>>
  BY DEF Management!Begin
<1>1. managementJob' \in Management!Jobs /\ managementJob'.kind = kind /\ managementJob'.target = {}
  BY <1>0, EmptyIsList DEF Management!NoJob, Management!Jobs, Management!Results
<1>2. Management!TypeOK'
  BY <1>0, <1>1 DEF ManagementInv, Management!TypeOK, Management!PCs
<1>3. CountInv'
  BY <1>0, <1>1 DEF ManagementInv, CountInv
<1>4. ListInv'
  BY <1>0, <1>1 DEF ManagementInv, ListInv, Management!Kinds
<1>5. Management!VerifiedOutcome'
  BY <1>0 DEF Management!VerifiedOutcome
<1> QED
  BY <1>2, <1>3, <1>4, <1>5 DEF ManagementInv

\* What a command is to write is a list, and concerns entries.
LEMMA PlansAre ==
  ASSUME ManagementInv, managementPc = "read", NEW plan \in Management!Plans(list)
  PROVE  /\ plan[1] \in Management!Lists /\ plan[2] \subseteq Entries
         /\ managementJob.kind \in {"create", "setting"} => plan[2] # {}
         /\ managementJob.kind = "remove" => \E e \in Management!ToSet(list) : plan[2] = {e}
<1>0. list \in Management!Lists /\ Management!ToSet(list) \subseteq Entries
  BY ManagementFields, ListsAre
<1>1. managementJob.kind \in {"create", "setting", "edit", "remove", "accounts"}
  BY ManagementFields DEF ManagementInv, ListInv, Management!Kinds
<1>2. CASE managementJob.kind = "create"
  <2>1. PICK e \in Entries : plan = <<Append(list, e), {e}>>
    BY <1>2 DEF Management!Plans
  <2> QED
    BY <1>0, <1>2, <2>1, AppendIsList
<1>3. CASE managementJob.kind = "setting"
  <2>1. PICK e \in Entries : plan = <<<<e>>, {e}>>
    BY <1>3 DEF Management!Plans
  <2> QED
    BY <1>0, <1>3, <2>1, AppendIsList
<1>4. CASE managementJob.kind = "edit"
  <2>1. CASE \E e \in Entries \ Management!ToSet(list) : plan = <<Append(list, e), {e}>>
    <3>1. PICK e \in Entries : plan = <<Append(list, e), {e}>>
      BY <2>1
    <3> QED
      BY <1>0, <1>4, <3>1, AppendIsList
  <2>2. CASE \E e \in Management!ToSet(list) : plan = <<Management!Dropped(list, e), {e}>>
    BY <1>0, <1>4, <2>2, DroppedIsList
  <2> QED
    BY <1>4, <2>1, <2>2 DEF Management!Plans
<1>5. CASE managementJob.kind = "remove"
  <2>1. PICK e \in Management!ToSet(list) : plan = <<list, {e}>>
    BY <1>5 DEF Management!Plans
  <2> QED
    BY <1>0, <1>5, <2>1
<1>6. CASE managementJob.kind = "accounts"
  <2>1. PICK S \in SUBSET Management!ToSet(list) : plan = <<list, S>>
    BY <1>6 DEF Management!Plans
  <2> QED
    BY <1>0, <1>6, <2>1
<1> QED
  BY <1>1, <1>2, <1>3, <1>4, <1>5, <1>6

LEMMA ManagementReadStep ==
  ASSUME ManagementInv, Management!Read
  PROVE  ManagementInv'
<1>0. managementPc = "read" /\ UNCHANGED <<list, valid, others, meanwhile, overrode>>
  BY DEF Management!Read
<1>1. ASSUME NEW plan \in Management!Plans(list), valid, UNCHANGED rejected,
             managementPc' = IF managementJob.kind \in {"create", "remove"} THEN "write" ELSE "consent",
             managementJob' = [managementJob EXCEPT !.prior = list, !.want = plan[1], !.target = plan[2],
                                                    !.fresh = TRUE]
      PROVE  ManagementInv'
  <2>0. /\ plan[1] \in Management!Lists /\ plan[2] \subseteq Entries /\ list \in Management!Lists
        /\ managementJob.kind \in {"create", "setting"} => plan[2] # {}
        /\ managementJob.kind = "remove" => \E e \in Management!ToSet(list) : plan[2] = {e}
    BY <1>0, PlansAre, ManagementFields
  <2>1. /\ managementJob' \in Management!Jobs /\ managementJob'.kind = managementJob.kind
        /\ managementJob'.prior = list /\ managementJob'.want = plan[1] /\ managementJob'.target = plan[2]
    BY <1>1, <2>0, ManagementFields DEF Management!Jobs
  <2>2. managementJob.kind # "named"
    BY <1>0 DEF ManagementInv, ListInv
  <2>3. Management!TypeOK'
    BY <1>0, <1>1, <2>1 DEF ManagementInv, Management!TypeOK, Management!PCs
  <2>4. CountInv'
    BY <1>0, <1>1, <2>1 DEF ManagementInv, CountInv
  <2>5. ListInv'
    BY <1>0, <1>1, <2>0, <2>1, <2>2 DEF ManagementInv, ListInv
  <2>6. Management!VerifiedOutcome'
    BY <1>1 DEF Management!VerifiedOutcome
  <2> QED
    BY <2>3, <2>4, <2>5, <2>6 DEF ManagementInv
<1>2. CASE Management!End("failed") /\ (rejected' = rejected \/ (~valid /\ rejected' = rejected + 1))
  <2>1. managementJob.target = {}
    BY <1>0 DEF ManagementInv, ListInv
  <2> QED
    BY <1>0, <1>2, <2>1, ManagementOver, ManagementFields DEF Management!Results
<1> QED
  BY <1>1, <1>2 DEF Management!Read

\* A step to another request of the same change.
LEMMA ManagementGoes ==
  ASSUME ManagementInv, managementPc \in {"consent", "write", "verify", "restore"},
         NEW at \in {"write", "verify", "restore", "recheck"}, managementPc' = at,
         managementJob' \in Management!Jobs,
         managementJob'.kind = managementJob.kind, managementJob'.prior = managementJob.prior,
         managementJob'.want = managementJob.want, managementJob'.target = managementJob.target,
         list' \in Management!Lists, overrode' \in BOOLEAN, UNCHANGED <<valid, others, meanwhile>>,
         rejected' = rejected \/ (~valid /\ rejected' = rejected + 1),
         at \in {"write", "recheck"} => rejected' = 0,
         rejected' # rejected => managementJob.kind = "setting",
         at # "write" => managementJob.kind \in Management!Verified,
         at = "write" <=> managementPc = "consent",
         at = "verify" => managementPc = "write",
         at = "restore" => managementPc \in {"write", "verify"},
         at = "write" => list' = list,
         at = "recheck" \/ list' = list \/ list' = managementJob.want
  PROVE  ManagementInv'
<1>1. /\ rejected \in 0 .. 5 /\ managementJob.kind \in Management!Kinds \cup {"none"}
      /\ managementJob.target \subseteq Entries
  BY ManagementFields
<1>2. CountInv'
  <2>1. rejected' # 0 => ~valid'
    BY <1>1 DEF ManagementInv, CountInv
  <2>2. /\ rejected <= IF managementJob.kind = "setting" THEN 2 ELSE 0
        /\ managementPc \in {"consent", "write"} => rejected = 0
        /\ managementPc = "verify" => rejected <= IF managementJob.kind = "setting" THEN 1 ELSE 0
    BY <1>1 DEF ManagementInv, CountInv
  <2>3. at = "verify" => rejected' <= IF managementJob.kind = "setting" THEN 1 ELSE 0
    BY <1>1, <2>2
  <2>4. at = "restore" => rejected' <= IF managementJob.kind = "setting" THEN 2 ELSE 0
    BY <1>1, <2>2
  <2> QED
    BY <1>1, <2>1, <2>3, <2>4 DEF CountInv
<1>3. rejected' \in 0 .. 5
  BY <1>1, <1>2 DEF CountInv
<1>4. Management!TypeOK'
  BY <1>3 DEF ManagementInv, Management!TypeOK, Management!PCs
<1>5. ListInv'
  <2>2. managementJob.kind \in Management!Verified /\ at \in {"consent", "write"} => managementJob.target # {}
    BY DEF ManagementInv, ListInv
  <2>3. at = "write" /\ managementJob.target # {} /\ ~meanwhile => list' = managementJob.prior
    BY DEF ManagementInv, ListInv
  <2>4. at \in {"verify", "restore"} /\ ~meanwhile => list' \in {managementJob.prior, managementJob.want}
    <3>1. CASE managementPc = "write"
      <4>1. at \in {"verify", "restore"} => managementJob.target # {}
        BY <3>1 DEF ManagementInv, ListInv
      <4> QED
        BY <3>1, <4>1 DEF ManagementInv, ListInv
    <3>2. CASE managementPc = "verify"
      BY <3>2 DEF ManagementInv, ListInv
    <3> QED
      BY <3>1, <3>2
  <2>5. managementJob.kind = "named" => managementJob.target = {}
    BY DEF ManagementInv, ListInv
  <2>6. at = "write" => managementJob.kind # "remove"
    BY DEF ManagementInv, ListInv
  <2> QED
    BY <2>2, <2>3, <2>4, <2>5, <2>6 DEF ListInv
<1>6. Management!VerifiedOutcome'
  BY DEF Management!VerifiedOutcome
<1> QED
  BY <1>2, <1>4, <1>5, <1>6 DEF ManagementInv

LEMMA ManagementConsentStep ==
  ASSUME ManagementInv, Management!Consent
  PROVE  ManagementInv'
<1>0. managementPc = "consent" /\ UNCHANGED <<list, valid, rejected, others, meanwhile, overrode>>
  BY DEF Management!Consent
<1>1. CASE managementPc' = "write" /\ managementJob' = managementJob
  <2>1. rejected' = 0
    BY <1>0 DEF ManagementInv, CountInv
  <2> QED
    BY <1>0, <1>1, <2>1, ManagementGoes, ManagementFields
<1>2. CASE Management!End("failed")
  <2>1. managementJob.target # {} /\ ~meanwhile => list = managementJob.prior
    BY <1>0 DEF ManagementInv, ListInv
  <2> QED
    BY <1>0, <1>2, <2>1, ManagementOver, ManagementFields DEF Management!Results
<1> QED
  BY <1>1, <1>2 DEF Management!Consent

\* What a write that is verified leaves the list at, and where it may go on.
LEMMA ManagementWriteCreatedStep ==
  ASSUME ManagementInv, Management!WriteCreated
  PROVE  ManagementInv'
<1>0. managementPc = "write" /\ managementJob.kind = "create" /\ UNCHANGED <<valid, others, meanwhile>>
  BY DEF Management!WriteCreated
<1>1. rejected = 0
  BY <1>0 DEF ManagementInv, CountInv
<1>2. CASE /\ managementPc' \in {"verify", "restore"} /\ managementJob' = managementJob
           /\ UNCHANGED rejected /\ list' \in {managementJob.want, list}
           /\ overrode' \in BOOLEAN
  <2>1. list' \in Management!Lists
    BY <1>2, ManagementFields
  <2> QED
    BY <1>0, <1>1, <1>2, <2>1, ManagementGoes, ManagementFields
<1>3. CASE UNCHANGED <<list, overrode>> /\ ~valid /\ rejected' = rejected + 1 /\ Management!End("failed")
  <2>1. rejected' # 0
    BY <1>1, <1>3
  <2> QED
    BY <1>0, <1>3, <2>1, ManagementOver, ManagementFields DEF Management!Results
<1>4. Management!Replaced(managementJob.want) =>
        UNCHANGED rejected /\ list' \in {managementJob.want, list} /\ overrode' \in BOOLEAN
  BY ManagementFields DEF Management!Replaced
<1>5. UNCHANGED overrode => overrode' \in BOOLEAN
  BY ManagementFields
<1> QED
  BY <1>0, <1>2, <1>3, <1>4, <1>5 DEF Management!WriteCreated

LEMMA ManagementWriteSettingStep ==
  ASSUME ManagementInv, Management!WriteSetting
  PROVE  ManagementInv'
<1>0. managementPc = "write" /\ managementJob.kind = "setting" /\ UNCHANGED <<valid, others, meanwhile>>
  BY DEF Management!WriteSetting
<1>1. managementPc' = "verify" /\ managementJob' \in {managementJob, [managementJob EXCEPT !.refused = TRUE]}
  BY <1>0 DEF Management!WriteSetting
<1>2. /\ managementJob' \in Management!Jobs /\ managementJob'.kind = managementJob.kind
      /\ managementJob'.prior = managementJob.prior
      /\ managementJob'.want = managementJob.want /\ managementJob'.target = managementJob.target
  BY <1>1, ManagementFields DEF Management!Jobs
<1>3. /\ list' \in {managementJob.want, list} /\ overrode' \in BOOLEAN
      /\ rejected' = rejected \/ (~valid /\ rejected' = rejected + 1)
  BY <1>0, ManagementFields DEF Management!WriteSetting, Management!Replaced
<1>4. list' \in Management!Lists
  BY <1>3, ManagementFields
<1> QED
  BY <1>0, <1>1, <1>2, <1>3, <1>4, ManagementGoes

\* The requests whose answer is believed.
LEMMA ManagementWriteEditedStep ==
  ASSUME ManagementInv, Management!WriteEdited
  PROVE  ManagementInv'
<1>0. managementPc = "write" /\ managementJob.kind = "edit" /\ UNCHANGED <<valid, others, meanwhile>>
  BY DEF Management!WriteEdited
<1>1. /\ list' \in {managementJob.want, list} /\ overrode' \in BOOLEAN
      /\ rejected' = rejected \/ (~valid /\ rejected' = rejected + 1)
  BY ManagementFields DEF Management!WriteEdited, Management!Replaced
<1>2. list' \in Management!Lists
  BY <1>1, ManagementFields
<1>3. PICK r \in Management!Results : Management!End(r)
  BY DEF Management!WriteEdited, Management!Results
<1> QED
  BY <1>0, <1>1, <1>2, <1>3, ManagementOver

LEMMA ManagementWriteNamedStep ==
  ASSUME ManagementInv, Management!WriteNamed
  PROVE  ManagementInv'
<1>0. managementPc = "write" /\ managementJob.kind = "named" /\ UNCHANGED <<valid, others, meanwhile, overrode>>
  BY DEF Management!WriteNamed
<1>1. rejected' = rejected \/ (~valid /\ rejected' = rejected + 1)
  BY DEF Management!WriteNamed
<1>2. list' \in Management!Lists
  BY ManagementFields, AddedIsList, LeftIsList DEF Management!WriteNamed
<1>3. PICK r \in Management!Results : Management!End(r)
  BY DEF Management!WriteNamed, Management!Results
<1>4. managementJob.target = {}
  BY <1>0 DEF ManagementInv, ListInv
<1> QED
  BY <1>0, <1>1, <1>2, <1>3, <1>4, ManagementOver, ManagementFields

\* The key that is deleted is the one at the position it had in the list that was read.
LEMMA ManagementWritePositionStep ==
  ASSUME ManagementInv, Management!WritePosition
  PROVE  ManagementInv'
<1>0. managementPc = "write" /\ managementJob.kind = "remove" /\ UNCHANGED <<valid, others, meanwhile, overrode>>
  BY DEF Management!WritePosition
<1>1. PICK e \in managementJob.target :
        \/ /\ valid /\ UNCHANGED rejected
           /\ Management!Position(managementJob.prior, e) \in DOMAIN list
           /\ list' = Management!RemoveAt(list, Management!Position(managementJob.prior, e))
           /\ Management!End("ok") \/ Management!End("failed")
        \/ UNCHANGED list /\ (Management!Rejected \/ Management!NoAnswer) /\ Management!End("failed")
  BY DEF Management!WritePosition
<1>2. managementJob.target = {e} /\ e \in Management!ToSet(managementJob.prior)
  BY <1>0, <1>1 DEF ManagementInv, ListInv
<1>3. ~meanwhile => list = managementJob.prior
  BY <1>0, <1>1 DEF ManagementInv, ListInv
<1>4. list' \in Management!Lists
  BY <1>1, ManagementFields, ListsAre, RemoveAtIsList
<1>5. CASE UNCHANGED list /\ (Management!Rejected \/ Management!NoAnswer) /\ Management!End("failed")
  BY <1>0, <1>4, <1>5, ManagementOver, ManagementFields DEF Management!Results
<1>6. CASE /\ UNCHANGED rejected
           /\ list' = Management!RemoveAt(list, Management!Position(managementJob.prior, e))
           /\ Management!End("ok") \/ Management!End("failed")
  <2>1. ~meanwhile => list' = Management!Dropped(managementJob.prior, e)
    BY <1>2, <1>3, <1>6 DEF Management!Dropped
  <2>2. PICK r \in Management!Results : Management!End(r)
    BY <1>6 DEF Management!Results
  <2> QED
    BY <1>0, <1>2, <1>4, <1>6, <2>1, <2>2, ManagementOver, ManagementFields
<1> QED
  BY <1>1, <1>5, <1>6

LEMMA ManagementWriteAccountStep ==
  ASSUME ManagementInv, Management!WriteAccount
  PROVE  ManagementInv'
<1>0. /\ managementPc = "write" /\ managementJob.kind = "accounts"
      /\ UNCHANGED <<valid, others, meanwhile, overrode>>
  BY DEF Management!WriteAccount
<1>1. PICK e \in managementJob.target :
        \/ /\ valid /\ UNCHANGED rejected
           /\ list' = Management!Dropped(list, e)
           /\ \/ managementJob.target = {e} /\ Management!End("ok")
              \/ /\ managementJob.target # {e} /\ managementPc' = "write"
                 /\ managementJob' = [managementJob EXCEPT !.target = @ \ {e}]
              \/ Management!End("failed")
        \/ UNCHANGED list /\ (Management!Rejected \/ Management!NoAnswer) /\ Management!End("failed")
  BY DEF Management!WriteAccount
<1>2. list' \in Management!Lists /\ (rejected' = rejected \/ (~valid /\ rejected' = rejected + 1))
  BY <1>1, DroppedIsList, ManagementFields
<1>3. CASE Management!End("ok") \/ Management!End("failed")
  <2>1. PICK r \in Management!Results : Management!End(r)
    BY <1>3 DEF Management!Results
  <2> QED
    BY <1>0, <1>2, <2>1, ManagementOver, ManagementFields
<1>4. CASE /\ managementPc' = "write" /\ managementJob' = [managementJob EXCEPT !.target = @ \ {e}]
           /\ UNCHANGED rejected
  <2>1. managementJob' \in Management!Jobs /\ managementJob'.kind = "accounts"
    BY <1>0, <1>4, ManagementFields DEF Management!Jobs
  <2>2. Management!TypeOK'
    BY <1>0, <1>2, <1>4, <2>1 DEF ManagementInv, Management!TypeOK, Management!PCs
  <2>3. CountInv'
    BY <1>0, <1>4, <2>1 DEF ManagementInv, CountInv
  <2>4. ListInv'
    BY <1>4, <2>1 DEF ListInv
  <2>5. Management!VerifiedOutcome'
    BY <1>4 DEF Management!VerifiedOutcome
  <2> QED
    BY <2>2, <2>3, <2>4, <2>5 DEF ManagementInv
<1> QED
  BY <1>1, <1>3, <1>4

\* Reading back: the key is there, or the value.
LEMMA ManagementVerifyStep ==
  ASSUME ManagementInv, Management!Verify
  PROVE  ManagementInv'
<1>0. /\ managementPc = "verify" /\ managementJob.kind \in Management!Verified
      /\ UNCHANGED <<list, valid, others, meanwhile, overrode>>
      /\ list' \in Management!Lists /\ overrode' \in BOOLEAN
  BY ManagementFields DEF Management!Verify, ManagementInv, ListInv
<1>1. rejected' = rejected \/ (~valid /\ rejected' = rejected + 1)
  BY DEF Management!Verify
<1>2. CASE Management!Observed /\ UNCHANGED rejected /\ Management!End("ok")
  <2>1. ~meanwhile => list \in {managementJob.prior, managementJob.want}
    BY <1>0 DEF ManagementInv, ListInv
  <2>2. /\ managementJob.kind = "create" => managementJob.target \subseteq Management!ToSet(list)
        /\ managementJob.kind = "setting" => list = managementJob.want
    BY <1>2 DEF Management!Observed
  <2> QED
    BY <1>0, <1>1, <1>2, <2>1, <2>2, ManagementOver DEF Management!Results
<1>3. CASE /\ managementJob.kind # "setting" /\ ~valid /\ rejected' = rejected + 1
           /\ Management!End("failed")
  <2>1. rejected' # 0
    BY <1>3, ManagementFields
  <2> QED
    BY <1>0, <1>1, <1>3, <2>1, ManagementOver DEF Management!Results
<1>4. CASE /\ managementPc' = "restore" /\ managementJob' = managementJob
           /\ rejected' # rejected => managementJob.kind = "setting"
  BY <1>0, <1>1, <1>4, ManagementGoes, ManagementFields
<1> QED
  BY <1>2, <1>3, <1>4 DEF Management!Verify

LEMMA ManagementRestoreStep ==
  ASSUME ManagementInv, Management!Restore
  PROVE  ManagementInv'
<1>0. /\ managementPc = "restore" /\ managementJob.kind \in Management!Verified
      /\ UNCHANGED <<valid, others, meanwhile>>
  BY DEF Management!Restore, ManagementInv, ListInv
<1>1. /\ list' \in {managementJob.prior, list} /\ overrode' \in BOOLEAN
      /\ rejected' = rejected \/ (~valid /\ rejected' = rejected + 1)
  BY ManagementFields DEF Management!Restore, Management!Replaced
<1>2. list' \in Management!Lists
  BY <1>1, ManagementFields
<1>3. CASE Management!End("mixed")
  BY <1>0, <1>1, <1>2, <1>3, ManagementOver DEF Management!Results
<1>4. CASE valid /\ UNCHANGED rejected /\ managementPc' = "recheck" /\ managementJob' = managementJob
  <2>1. rejected' = 0
    BY <1>4 DEF ManagementInv, CountInv
  <2> QED
    BY <1>0, <1>1, <1>2, <1>4, <2>1, ManagementGoes, ManagementFields
<1> QED
  BY <1>3, <1>4 DEF Management!Restore, Management!Replaced

LEMMA ManagementRecheckStep ==
  ASSUME ManagementInv, Management!Recheck
  PROVE  ManagementInv'
<1>0. /\ managementPc = "recheck" /\ managementJob.kind \in Management!Verified
      /\ UNCHANGED <<list, valid, others, meanwhile, overrode>>
      /\ list' \in Management!Lists /\ overrode' \in BOOLEAN
  BY ManagementFields DEF Management!Recheck, ManagementInv, ListInv
<1>1. rejected' = rejected \/ (~valid /\ rejected' = rejected + 1)
  BY DEF Management!Recheck
<1>2. CASE list = managementJob.prior /\ Management!End("failed")
  BY <1>0, <1>1, <1>2, ManagementOver DEF Management!Results
<1>3. CASE Management!End("mixed")
  BY <1>0, <1>1, <1>3, ManagementOver DEF Management!Results
<1> QED
  BY <1>2, <1>3 DEF Management!Recheck

\* A command that ends or dies: its counters start again.
LEMMA ManagementLeaveStep ==
  ASSUME ManagementInv, Management!Leave
  PROVE  ManagementInv'
<1>0. /\ managementPc' = "idle" /\ managementJob' = Management!NoJob /\ rejected' = 0
      /\ meanwhile' = FALSE /\ overrode' = FALSE /\ UNCHANGED <<list, valid, others>>
  BY DEF Management!Leave
<1>1. /\ managementJob' \in Management!Jobs /\ managementJob'.kind = "none"
      /\ managementJob'.target = {}
  BY <1>0, EmptyIsList DEF Management!NoJob, Management!Jobs, Management!Results
<1>2. Management!TypeOK'
  <2>1. meanwhile' \in BOOLEAN /\ overrode' \in BOOLEAN
    BY <1>0
  <2>2. managementPc' \in Management!PCs /\ rejected' \in 0 .. 5
    BY <1>0 DEF Management!PCs
  <2>3. UNCHANGED <<list, valid, others>>
    BY <1>0
  <2> QED
    BY <1>1, <2>1, <2>2, <2>3 DEF ManagementInv, Management!TypeOK
<1>3. CountInv'
  BY <1>0, <1>1 DEF CountInv
<1>4. ListInv'
  BY <1>0, <1>1 DEF ListInv
<1>5. Management!VerifiedOutcome'
  BY <1>0 DEF Management!VerifiedOutcome
<1> QED
  BY <1>2, <1>3, <1>4, <1>5 DEF ManagementInv

\* Whoever else writes while a command runs is remembered.
LEMMA ManagementOthersStep ==
  ASSUME ManagementInv, Management!Others
  PROVE  ManagementInv'
<1>0. /\ others' = others + 1 /\ others < MaxOthers /\ meanwhile' = (managementPc # "idle")
      /\ managementJob' = [managementJob EXCEPT !.fresh = FALSE]
      /\ UNCHANGED <<valid, managementPc, rejected, overrode>>
  BY DEF Management!Others
<1>1. list' \in Management!Lists
  <2>1. PICK e \in Entries : list' \in {Management!Added(list, e), Management!Dropped(list, e)}
    BY DEF Management!Others
  <2> QED
    BY <2>1, AddedIsList, DroppedIsList, ManagementFields
<1>2. /\ managementJob' \in Management!Jobs /\ managementJob'.kind = managementJob.kind
      /\ managementJob'.prior = managementJob.prior /\ managementJob'.want = managementJob.want
      /\ managementJob'.target = managementJob.target /\ managementJob'.result = managementJob.result
  BY <1>0, ManagementFields DEF Management!Jobs
<1>3. others' \in 0 .. MaxOthers
  BY <1>0, BoundsAssumption DEF ManagementInv, Management!TypeOK
<1>4. Management!TypeOK'
  BY <1>0, <1>1, <1>2, <1>3 DEF ManagementInv, Management!TypeOK
<1>5. CountInv'
  BY <1>0, <1>2 DEF ManagementInv, CountInv
<1>6. ListInv'
  <2>1. managementPc # "idle" => meanwhile'
    BY <1>0
  <2> QED
    BY <1>0, <1>2, <2>1 DEF ManagementInv, ListInv
<1>7. Management!VerifiedOutcome'
  BY <1>0 DEF Management!VerifiedOutcome
<1> QED
  BY <1>4, <1>5, <1>6, <1>7 DEF ManagementInv

\* A key that was rejected is not replaced before the command is over.
LEMMA ManagementRekeyStep ==
  ASSUME ManagementInv, Management!Rekey
  PROVE  ManagementInv'
<1>0. /\ valid' = ~valid /\ (~valid => managementPc = "idle")
      /\ UNCHANGED <<list, managementPc, managementJob, rejected, others, meanwhile, overrode>>
  BY DEF Management!Rekey
<1>1. Management!TypeOK'
  BY <1>0 DEF ManagementInv, Management!TypeOK
<1>2. CountInv'
  BY <1>0 DEF ManagementInv, CountInv
<1>3. ListInv'
  BY <1>0 DEF ManagementInv, ListInv
<1>4. Management!VerifiedOutcome'
  BY <1>0 DEF ManagementInv, Management!VerifiedOutcome
<1> QED
  BY <1>1, <1>2, <1>3, <1>4 DEF ManagementInv

LEMMA ManagementNext ==
  ASSUME ManagementInv, Management!Next
  PROVE  ManagementInv'
BY ManagementBeginStep, ManagementReadStep, ManagementConsentStep, ManagementWriteCreatedStep,
   ManagementWriteSettingStep, ManagementWriteEditedStep, ManagementWritePositionStep,
   ManagementWriteNamedStep, ManagementWriteAccountStep, ManagementVerifyStep,
   ManagementRestoreStep, ManagementRecheckStep, ManagementLeaveStep, ManagementOthersStep,
   ManagementRekeyStep
DEF Management!Next, Management!Finish, Management!Die

LEMMA ManagementStays ==
  ASSUME ManagementInv, UNCHANGED managementVars
  PROVE  ManagementInv'
<1>0. UNCHANGED <<list, valid, managementPc, managementJob, rejected, others, meanwhile, overrode>>
  BY DEF managementVars
<1>1. Management!TypeOK'
  BY <1>0 DEF ManagementInv, Management!TypeOK
<1>2. CountInv'
  BY <1>0 DEF ManagementInv, CountInv
<1>3. ListInv'
  BY <1>0 DEF ManagementInv, ListInv
<1>4. Management!VerifiedOutcome'
  BY <1>0 DEF ManagementInv, Management!VerifiedOutcome
<1> QED
  BY <1>1, <1>2, <1>3, <1>4 DEF ManagementInv

LEMMA ManagementBegins ==
  ASSUME Management!Init
  PROVE  ManagementInv
<1>0. /\ list = <<>> /\ valid = TRUE /\ managementPc = "idle" /\ managementJob = Management!NoJob
      /\ rejected = 0 /\ others = 0 /\ meanwhile = FALSE /\ overrode = FALSE
  BY DEF Management!Init
<1>1. managementJob \in Management!Jobs /\ managementJob.kind = "none"
  BY <1>0, EmptyIsList DEF Management!NoJob, Management!Jobs, Management!Results
<1>2. Management!TypeOK
  <2>1. meanwhile \in BOOLEAN /\ overrode \in BOOLEAN /\ valid \in BOOLEAN
    BY <1>0
  <2>2. managementPc \in Management!PCs /\ rejected \in 0 .. 5 /\ others \in 0 .. MaxOthers
    BY <1>0, BoundsAssumption DEF Management!PCs
  <2>3. list \in Management!Lists
    BY <1>0, EmptyIsList
  <2> QED
    BY <1>1, <2>1, <2>2, <2>3 DEF Management!TypeOK
<1>3. CountInv
  BY <1>0, <1>1 DEF CountInv
<1>4. ListInv
  BY <1>0, <1>1 DEF ListInv
<1>5. Management!VerifiedOutcome
  BY <1>0 DEF Management!VerifiedOutcome
<1> QED
  BY <1>2, <1>3, <1>4, <1>5 DEF ManagementInv

HIDE DEF Management!Go, Management!GoWith, Management!Verified, Management!Accepted, Management!Rejected,
         Management!NoAnswer, Management!Unwritten, Management!StopsWhenRejected

LEMMA ManagementMovesOn ==
  ASSUME ManagementInv, Moves
  PROVE  ManagementInv'
BY MovesAre, ManagementNext, ManagementStays

\* The invariant of a write through the Management API: what the list holds at each step of
\* its verification, and how many requests were rejected by then (methods.go:202, :397).
THEOREM ManagementInvariance == InteractionsSpec => []ManagementInv
<1>1. InteractionsInit => ManagementInv
  BY ManagementBegins DEF InteractionsInit
<1> QED
  BY <1>1, ManagementMovesOn, PTL DEF InteractionsSpec, Moves

\* A setting that is written has its value when that succeeds, a provider key that is
\* created is in the list, a failed write has left what it found, and the client key that
\* is deleted is the one named, whatever was lost on the way, if nobody else wrote
\* (methods.go:397, router.go:2410, methods.go:306).
THEOREM WritesAreVerified == InteractionsSpec => []VerifiedOutcome
<1>1. ManagementInv => VerifiedOutcome
  BY DEF ManagementInv, VerifiedOutcome
<1> QED
  BY <1>1, ManagementInvariance, PTL

-----------------------------------------------------------------------------
(* The service manager, and all of them                                    *)

\* The behaviours of the backends beside the others are those of ServiceBackend.
LEMMA BackendBehaves == InteractionsSpec => Spec
<1>1. InteractionsInit => Init
  BY DEF InteractionsInit
<1>2. Moves => [Next]_vars
  BY MovesAre
<1> QED
  BY <1>1, <1>2, PTL DEF InteractionsSpec, Moves, Spec

\* Every component keeps the types of its variables, whoever is at work.
THEOREM InteractionsTypes == InteractionsSpec => []InteractionsTypeOK
<1>1. /\ WizardInv => Wizard!TypeOK
      /\ LaunchInv => Launcher!TypeOK
      /\ ConfigInv => Config!TypeOK
      /\ ShellInv => Shell!TypeOK
      /\ ManagementInv => Management!TypeOK
  BY DEF WizardInv, LaunchInv, ConfigInv, ShellInv, ShellTypes, ManagementInv
<1>2. WizardInv /\ LaunchInv /\ ConfigInv /\ ShellInv /\ ManagementInv /\ TypeOK => InteractionsTypeOK
  BY <1>1 DEF InteractionsTypeOK
<1> QED
  BY <1>2, WizardInvariance, LaunchInvariance, ConfigInvariance, ShellInvariance, ManagementInvariance,
     BackendBehaves, ServiceBackendTypeCorrect, PTL

\* Beside the others, systemd and Task Scheduler run after a restart what an undisturbed
\* install left (systemd.go:139-146, :227-245), and every backend keeps the contract of
\* domain/service (service.go:18-60), launchd with the exception the contract names.
THEOREM InteractionsKeepContract == InteractionsSpec => []RestartRunsInstalled /\ KeepsContract
BY BackendBehaves, RestartStaysInstalled, BackendsKeepContract, PTL
=============================================================================
