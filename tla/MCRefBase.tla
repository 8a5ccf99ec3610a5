----------------------------- MODULE MCRefBase -----------------------------
(* Values for the constants of RefBase. *)
EXTENDS RefBase

\* Stands for 2^28: more than there are references.
InitialStrong == 10
==========================================================================
