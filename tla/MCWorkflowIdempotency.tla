------------------------- MODULE MCWorkflowIdempotency -------------------------
(* Bounds and symmetry for checking WorkflowIdempotency with TLC. *)
EXTENDS WorkflowIdempotency, TLC

\* Runs and keys are interchangeable: no definition compares them by order.
Symmetric == Permutations(Runs) \cup Permutations(Keys)
=============================================================================
