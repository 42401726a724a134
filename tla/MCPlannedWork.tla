---------------------------- MODULE MCPlannedWork ----------------------------
(***************************************************************************)
(* PlannedWork for TLC: one schedule that recurs for a goal, and one that  *)
(* does not.                                                               *)
(***************************************************************************)
EXTENDS PlannedWork

MCAsked == <<[every |-> 2, goal |-> 1], [every |-> 0, goal |-> 0]>>
=============================================================================
