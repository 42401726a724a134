---------------------------- MODULE MCDurableWork ----------------------------
(***************************************************************************)
(* Instances of DurableWork for TLC.  The .cfg files give the constants;   *)
(* the rows are numbers, whose order the queries use, so that neither jobs *)
(* nor questions are interchangeable.                                      *)
(***************************************************************************)
EXTENDS DurableWork
=============================================================================
