-------------------------- MODULE MCRoutineService --------------------------
(***************************************************************************)
(* Instances of RoutineService for TLC.                                    *)
(***************************************************************************)
EXTENDS RoutineService, TLC

CONSTANTS b1, b2

OneRoutine == (1 :> b1)

\* each Bot has a routine; both are in one list of pending runs
TwoBots == (1 :> b1) @@ (2 :> b2)

\* a routine with one slot, and one that recurs
OnceAndInterval ==
  {[once |-> TRUE, slots |-> {1}], [once |-> FALSE, slots |-> Slot]}

\* no routine is due twice, so that time has no part in it when a run waits for good
Once == {[once |-> TRUE, slots |-> {s}] : s \in Slot}
=============================================================================
