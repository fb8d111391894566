------------------------------ MODULE MCAnalysisRun ------------------------------
(* Instances of AnalysisRun for TLC; there is no symmetry, since liveness is checked. *)
EXTENDS AnalysisRun
=============================================================================
