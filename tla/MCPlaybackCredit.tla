-------------------------- MODULE MCPlaybackCredit --------------------------
(***************************************************************************)
(* PlaybackCredit on small instances.                                      *)
(***************************************************************************)
EXTENDS PlaybackCredit
=============================================================================
