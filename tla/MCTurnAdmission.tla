--------------------------- MODULE MCTurnAdmission ---------------------------
(***************************************************************************)
(* Instances of TurnAdmission for TLC.  Channels, messages and automations *)
(* are model values and interchangeable: what is checked are invariants    *)
(* and properties of steps, for which symmetry is sound.                   *)
(***************************************************************************)
EXTENDS TurnAdmission

UpToNames == Permutations(Channels) \cup Permutations(Messages)
               \cup Permutations(Automations)
=============================================================================
