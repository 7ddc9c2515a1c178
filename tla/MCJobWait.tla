----------------------------- MODULE MCJobWait ------------------------------
(* Model-checking instance of JobWait. *)
EXTENDS JobWait, TLC

CONSTANTS r1, r2, r3, c1, c2

\* Two requests of one client and one of another.
MCsender == (r1 :> c1) @@ (r2 :> c1) @@ (r3 :> c2)
=============================================================================
