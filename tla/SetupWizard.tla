----------------------------- MODULE SetupWizard -----------------------------
(***************************************************************************)
(* The guided setup: SetupModel of internal/tui/setup.go and the facade of *)
(* cmd/pmux/setup_tui.go that runs its actions.                            *)
(*                                                                         *)
(* The model handles one message at a time, a key or the result of the     *)
(* action that runs in a goroutine of its own.  Leaving is a message too   *)
(* (tea.Quit): until it arrives, keys and results are still handled; once  *)
(* it has arrived the goroutine is abandoned with the process.  Paths,     *)
(* texts and the moving selection are left out: a choice is any choice.    *)
(***************************************************************************)
CONSTANTS
  Models,   \* exact model IDs of the live catalog
  NoModel

VARIABLES
  screen,     \* SetupModel: progress, busy, canceled and launch
  action,     \* the action that runs in the facade
  quit,       \* "no", "asked" (the Quit command was returned) or "left"
  installed,  \* the core transaction was committed
  told,       \* history: its success was handled
  checked     \* history: models that passed the preflight

vars == <<screen, action, quit, installed, told, checked>>

Stages == {"choose-mode", "adopt-paths", "core", "provider-offer", "provider-select",
           "provider-auth", "model-select", "client-preflight", "launch-offer", "complete"}
Kinds == {"none", "core", "load-providers", "login-provider", "preflight"}
\* NextActions; "onboard": log in, list the models, launch.
Hints == {"none", "setup", "onboard", "launch", "verify", "doctor"}

Screen == [stage: Stages, core: BOOLEAN, models: SUBSET Models, model: Models \cup {NoModel},
           next: Hints, busy: BOOLEAN, launch: BOOLEAN]
At(stage) == [stage |-> stage, core |-> FALSE, models |-> {}, model |-> NoModel, next |-> "none",
              busy |-> FALSE, launch |-> FALSE]
Idle == [kind |-> "none", mode |-> "managed", model |-> NoModel]
Core(mode) == [Idle EXCEPT !.kind = "core", !.mode = mode]

-----------------------------------------------------------------------------
(* Keys                                                                    *)

\* NewSetup and Init, for each choice of the command's flags.
Opened ==
  \/ \E stage \in {"choose-mode", "adopt-paths"} : screen = At(stage) /\ action = Idle
  \/ /\ screen = [At("core") EXCEPT !.busy = TRUE]
     /\ \E mode \in {"managed", "adopt"} : action = Core(mode)

Begin(stage, what) ==
  /\ screen' = [screen EXCEPT !.stage = stage, !.busy = TRUE]
  /\ action' = what /\ UNCHANGED quit

Finish(hint, launches) ==
  /\ screen' = [screen EXCEPT !.stage = "complete", !.next = hint, !.launch = @ \/ launches]
  /\ quit' = "asked" /\ UNCHANGED action

ChooseMode ==
  /\ screen.stage = "choose-mode"
  /\ \/ screen' = [At("core") EXCEPT !.busy = TRUE] /\ action' = Core("managed") /\ UNCHANGED quit
     \/ screen' = At("adopt-paths") /\ UNCHANGED <<action, quit>>

AdoptPaths == screen.stage = "adopt-paths" /\ Begin("core", Core("adopt"))

OfferProviders ==
  /\ screen.stage = "provider-offer"
  /\ Begin("provider-offer", [Idle EXCEPT !.kind = "load-providers"]) \/ Finish("onboard", FALSE)

SelectProvider ==
  screen.stage = "provider-select" /\ Begin("provider-auth", [Idle EXCEPT !.kind = "login-provider"])

SelectModel ==
  /\ screen.stage = "model-select"
  /\ \E id \in screen.models :
       /\ screen' = [screen EXCEPT !.stage = "client-preflight", !.busy = TRUE, !.model = id]
       /\ action' = [Idle EXCEPT !.kind = "preflight", !.model = id]
  /\ UNCHANGED quit

OfferLaunch ==
  screen.stage = "launch-offer" /\ (Finish("none", TRUE) \/ Finish("launch", FALSE))

Close == screen.stage = "complete" /\ quit' = "asked" /\ UNCHANGED <<screen, action>>

\* cancelJourney, also while an action runs.
Cancel ==
  /\ screen' = IF screen.core
               THEN [screen EXCEPT !.stage = "complete",
                                   !.next = IF screen.model = NoModel THEN "onboard" ELSE "launch"]
               ELSE [At("complete") EXCEPT !.next = "setup", !.busy = screen.busy,
                                           !.launch = screen.launch]
  /\ quit' = "asked" /\ UNCHANGED action

Key ==
  /\ quit # "left"
  /\ \/ Cancel
     \/ ~screen.busy /\ \/ ChooseMode \/ AdoptPaths \/ OfferProviders \/ SelectProvider
                        \/ SelectModel \/ OfferLaunch \/ Close
  /\ UNCHANGED <<installed, told, checked>>

-----------------------------------------------------------------------------
(* The facade                                                              *)

Ready(stage) == [At(stage) EXCEPT !.core = TRUE]
Ended(hint) == [Ready("complete") EXCEPT !.next = hint]

\* Mutant: the screen behind the preflight does not carry the completed core along.
ForgetfulPreflight(id) == [At("launch-offer") EXCEPT !.model = id]

Preflighted(id) == [Ready("launch-offer") EXCEPT !.model = id]

\* What each action answers when it succeeds.
Answers ==
  CASE action.kind = "core" -> {IF action.mode = "adopt" THEN Ended("onboard") ELSE Ready("provider-offer")}
    [] action.kind = "load-providers" -> {Ready("provider-select"), Ended("doctor")}
    [] action.kind = "login-provider" ->
         {[Ready("model-select") EXCEPT !.models = ids] : ids \in SUBSET Models \ {{}}} \cup {Ended("verify")}
    [] action.kind = "preflight" -> {Preflighted(action.model)}

\* The core transaction commits; the answer follows, or an error all the same.
Commit ==
  /\ action.kind = "core" /\ ~installed
  /\ installed' = TRUE
  /\ UNCHANGED <<screen, action, quit, told, checked>>

\* setupProgressMsg.  The launch and canceled flags are not part of the progress.
Answer ==
  /\ action.kind # "none" /\ quit # "left"
  /\ action.kind = "core" => installed
  /\ \E progress \in Answers : screen' = [progress EXCEPT !.launch = screen.launch]
  /\ action' = Idle
  /\ told' = (told \/ action.kind = "core")
  /\ checked' = IF action.kind = "preflight" THEN checked \cup {action.model} ELSE checked
  /\ UNCHANGED <<quit, installed>>

\* The stage stays where it is.
Error ==
  /\ action.kind # "none" /\ quit # "left"
  /\ screen' = [screen EXCEPT !.busy = FALSE] /\ action' = Idle
  /\ UNCHANGED <<quit, installed, told, checked>>

Leave ==
  /\ quit = "asked" /\ quit' = "left"
  /\ UNCHANGED <<screen, action, installed, told, checked>>

-----------------------------------------------------------------------------
Init == Opened /\ quit = "no" /\ installed = FALSE /\ told = FALSE /\ checked = {}

Next == Key \/ Commit \/ Answer \/ Error \/ Leave

Spec == Init /\ [][Next]_vars

TypeOK ==
  /\ screen \in Screen
  /\ action \in [kind: Kinds, mode: {"managed", "adopt"}, model: Models \cup {NoModel}]
  /\ quit \in {"no", "asked", "left"}
  /\ installed \in BOOLEAN /\ told \in BOOLEAN /\ checked \subseteq Models

\* Wherever the journey is left, by choice, by cancel, after errors or with a result on its
\* way, it is resumed where it was: a setup whose success was shown is not suggested again,
\* and what is launched has passed the preflight (setup.go:270, setup_tui.go:60).
ResumesWhereItWas ==
  quit = "left" =>
    /\ told => screen.next # "setup"
    /\ screen.launch => told /\ screen.model \in checked
=============================================================================
