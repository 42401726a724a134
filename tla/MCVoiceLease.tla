---------------------------- MODULE MCVoiceLease ----------------------------
(***************************************************************************)
(* VoiceLease on a small instance.  The two bodies are interchangeable, so *)
(* a constraint lets only one of them be the first to connect.             *)
(***************************************************************************)
EXTENDS VoiceLease

First == CHOOSE d \in Device : TRUE

UpToNames == peer[1] \in {"none", First}
=============================================================================
