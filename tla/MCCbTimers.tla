------------------------------ MODULE MCCbTimers ------------------------------
(* CbTimers on small instances. *)
EXTENDS CbTimers
=============================================================================
