---------------------------- MODULE MCOpportunities ----------------------------
(* Symmetry for checking Opportunities with TLC. *)
EXTENDS Opportunities, TLC

\* Calls, baselines and postings are only compared for equality.
Symmetric == Permutations(Calls) \cup Permutations(Baselines) \cup Permutations(Postings)
=============================================================================
