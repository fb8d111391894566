-------------------------- MODULE MCResumeGeneration --------------------------
(* Symmetry for checking ResumeGeneration with TLC. *)
EXTENDS ResumeGeneration, TLC

\* Runs, versions and hashes are only compared for equality.
Symmetric == Permutations(Runs) \cup Permutations(Versions) \cup Permutations(Hashes)
=============================================================================
