------------------------------- MODULE MCUpdate -------------------------------
(***************************************************************************)
(* Update for TLC: the database and one part that comes and goes.          *)
(***************************************************************************)
EXTENDS Update
=============================================================================
