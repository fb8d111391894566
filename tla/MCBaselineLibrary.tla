--------------------------- MODULE MCBaselineLibrary ---------------------------
(* Symmetry and a bound for checking BaselineLibrary with TLC. *)
EXTENDS BaselineLibrary, FiniteSets, TLC

\* Calls are only compared for equality.
Symmetric == Permutations(Calls)

\* Bound: histories with more versions than these are not followed further.
MaxVersions == 4
FewVersions == Cardinality({x \in Baselines \X Numbers : x[2] \in versions[x[1]]}) <= MaxVersions
=============================================================================
