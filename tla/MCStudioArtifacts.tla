--------------------------- MODULE MCStudioArtifacts ---------------------------
(* Symmetry for checking StudioArtifacts with TLC. *)
EXTENDS StudioArtifacts, TLC

\* Attempts, versions, analyses and hashes are only compared for equality.
Symmetric ==
    Permutations(Attempts) \cup Permutations(Versions)
        \cup Permutations(Analyses) \cup Permutations(Hashes)
=============================================================================
