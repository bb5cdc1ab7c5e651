------------------------------ MODULE OpHistory ------------------------------
(***************************************************************************)
(* What the operation journal and the audit log promise together: every    *)
(* mutation has one outcome that, once on stable storage, never changes;   *)
(* and a mutation is reported as a success only after `completed` is its   *)
(* outcome.  Nothing is said of locks, files, crashes or who recovers.     *)
(***************************************************************************)
CONSTANT TxIds

VARIABLES status,    \* what stable storage knows of each transaction
          reported   \* transactions that stable storage reports as successes

Outcomes == {"completed", "failed", "interrupted"}

Init == status = [id \in TxIds |-> "unknown"] /\ reported = {}

\* One flush may make several records durable at once.
Advance ==
  /\ status' \in [TxIds -> {"unknown", "in_progress"} \cup Outcomes]
  /\ \A id \in TxIds :
        \/ status'[id] = status[id]
        \/ status[id] = "unknown"
        \/ status[id] = "in_progress" /\ status'[id] \in Outcomes

Report ==
  /\ reported' \in SUBSET TxIds
  /\ reported \subseteq reported'
  /\ \A id \in reported' \ reported : status[id] = "completed"

Next == Advance /\ Report

Spec == Init /\ [][Next]_<<status, reported>>
=============================================================================
