----------------------------- MODULE MCJobExec -----------------------------
(* Model-checking instance of JobExec. *)
EXTENDS JobExec
=============================================================================
