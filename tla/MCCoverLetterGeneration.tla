------------------------ MODULE MCCoverLetterGeneration ------------------------
(* Symmetry for checking CoverLetterGeneration with TLC. *)
EXTENDS CoverLetterGeneration, TLC

\* Runs, versions and templates are only compared for equality.
Symmetric == Permutations(Runs) \cup Permutations(Versions) \cup Permutations(Templates)
=============================================================================
