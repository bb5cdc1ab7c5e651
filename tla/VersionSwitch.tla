---------------------------- MODULE VersionSwitch ----------------------------
(***************************************************************************)
(* What `pmux update proxy` promises of the managed core: the selected     *)
(* version and the set of installed versions change only together, in one  *)
(* step, to a version that was verified; a failed or interrupted update    *)
(* changes neither.                                                        *)
(***************************************************************************)
CONSTANT Versions

VARIABLES selected,   \* the version in use
          installed,  \* versions kept on disk
          verified    \* versions that passed health, authentication and models

Init == selected \in Versions /\ installed = {selected} /\ verified = {}

Verify == verified' \in SUBSET Versions /\ UNCHANGED <<selected, installed>>

Switch(v) ==
  /\ v \in verified \ installed
  /\ selected' = v
  /\ installed' = installed \cup {v}
  /\ UNCHANGED verified

Next == Verify \/ \E v \in Versions : Switch(v)

Spec == Init /\ [][Next]_<<selected, installed, verified>>
=============================================================================
