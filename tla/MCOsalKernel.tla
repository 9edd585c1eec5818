----------------------------- MODULE MCOsalKernel -----------------------------
(* OsalKernel on a firmware of a few tasks that share a few messages. *)
EXTENDS OsalKernel
=============================================================================
