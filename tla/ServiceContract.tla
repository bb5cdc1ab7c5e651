--------------------------- MODULE ServiceContract ---------------------------
(***************************************************************************)
(* What a lifecycle operation of a service promises, whichever backend     *)
(* carries it out (internal/domain/service): an abstract specification     *)
(* that says nothing of systemctl, launchctl or Task Scheduler.            *)
(*                                                                         *)
(* The definition and the process are also changed by others at any time,  *)
(* so a promise is about what was the case at some moment of the           *)
(* operation.                                                              *)
(*                                                                         *)
(* docs/services.md:3 has one contract for every native backend.  The code *)
(* keeps it for those that tell a service that is stopped from one whose   *)
(* status cannot be read; launchd.go:265-284 takes the second for the      *)
(* first, and then a stop may leave the process and a restart may not have *)
(* made a new one.  The contract names that case: `lenient', `blind'.      *)
(***************************************************************************)
EXTENDS Naturals

CONSTANT Versions  \* the definitions that PMux renders

VARIABLES
  def,       \* the definition at the canonical identity
  run,       \* the definition the service's process was started from
  new,       \* the process was started during the operation
  lenient,   \* the backend takes a status it cannot read for a stopped service
  blind,     \* it did so during the operation
  squatter,  \* another process answers on the service's port
  meddles,   \* number of changes of the definition by others
  op,        \* the operation
  seen,      \* what was the case at some moment of it
  result     \* its result

vars == <<def, run, new, lenient, blind, squatter, meddles, op, seen, result>>

Definitions == Versions \cup {"none", "foreign"}
Processes == Versions \cup {"none", "foreign"}
Ops == {"install", "installstart", "uninstall", "start", "stop", "restart"}

\* A foreign definition is not PMux's to change, a service without a definition counts as
\* stopped, and an answer on the port is health.
Facts ==
  {f \in {"mine", "down", "answered", "new"}:
     CASE f = "mine" -> def # "foreign"
       [] f = "down" -> run = "none" \/ def = "none"
       [] f = "answered" -> run # "none" \/ squatter
       [] f = "new" -> new}

Record == seen' = seen \cup Facts'

Watch == IF op = "none" THEN UNCHANGED seen ELSE Record

\* What success means.
Achieved ==
  /\ op \in {"start", "restart", "installstart"} => "answered" \in seen
  /\ op \in {"stop", "uninstall"} /\ ~blind => "down" \in seen
  /\ op = "restart" /\ ~blind => "new" \in seen

Begin ==
  /\ op = "none" /\ op' \in Ops
  /\ new' = FALSE /\ seen' = Facts' /\ blind' = FALSE
  /\ UNCHANGED <<def, run, lenient, squatter, meddles, result>>

Change ==
  /\ op \in {"install", "installstart", "uninstall"} /\ "mine" \in seen
  /\ def' \in IF op = "uninstall" THEN {"none"} ELSE Versions \cup {"none"}
  /\ result' \in {result, "failed"}
  /\ Record
  /\ UNCHANGED <<run, new, lenient, blind, squatter, meddles, op>>

Process ==
  /\ run' \in Processes /\ new' \in {new, TRUE}
  /\ result' \in IF op = "none" THEN {result} ELSE {result, "failed"}
  /\ Watch
  /\ UNCHANGED <<def, lenient, blind, squatter, meddles, op>>

LoseSight ==
  /\ lenient /\ op # "none" /\ result = "none"
  /\ blind' = TRUE
  /\ UNCHANGED <<def, run, new, lenient, squatter, meddles, op, seen, result>>

Others ==
  /\ meddles' = meddles + 1 /\ def' \in Definitions
  /\ Watch
  /\ UNCHANGED <<run, new, lenient, blind, squatter, op, result>>

End ==
  /\ op # "none" /\ result = "none"
  /\ result' \in {"failed", "ok"} /\ (result' = "ok" => Achieved)
  /\ UNCHANGED <<def, run, new, lenient, blind, squatter, meddles, op, seen>>

Return ==
  /\ result # "none" /\ result' = "none" /\ op' = "none" /\ blind' = FALSE
  /\ UNCHANGED <<def, run, new, lenient, squatter, meddles, seen>>

\* The session ends and another begins.
Reboot ==
  /\ run' \in Processes /\ new' = FALSE /\ blind' = FALSE
  /\ op' = "none" /\ seen' = {} /\ result' = "none"
  /\ UNCHANGED <<def, lenient, squatter, meddles>>

Init ==
  /\ def \in Definitions /\ run \in Processes /\ squatter \in BOOLEAN
  /\ lenient \in BOOLEAN /\ blind = FALSE
  /\ new = FALSE /\ meddles = 0 /\ op = "none" /\ seen = {} /\ result = "none"

Next == Begin \/ Change \/ Process \/ LoseSight \/ Others \/ End \/ Return \/ Reboot

Spec == Init /\ [][Next]_vars
=============================================================================
