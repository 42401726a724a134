-------------------------- MODULE MCMessageRequests --------------------------
(***************************************************************************)
(* The instances of MessageRequests for TLC.  Requests are not symmetric:  *)
(* the main run also checks liveness, and rows have an order.              *)
(***************************************************************************)
EXTENDS MessageRequests
=============================================================================
