------------------------------ MODULE MCHostLink ------------------------------
(* HostLink on small instances. *)
EXTENDS HostLink
=============================================================================
