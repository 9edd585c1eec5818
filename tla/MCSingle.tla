------------------------------ MODULE MCSingle ------------------------------
(* One chip on the command line, on its own. *)
EXTENDS SingleRun
=============================================================================
