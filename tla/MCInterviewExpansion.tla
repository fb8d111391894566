-------------------------- MODULE MCInterviewExpansion --------------------------
(* Instances of InterviewExpansion for TLC; liveness is checked, so no symmetry. *)
EXTENDS InterviewExpansion
=============================================================================
