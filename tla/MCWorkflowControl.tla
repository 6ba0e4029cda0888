------------------------- MODULE MCWorkflowControl -------------------------
(* Model-checking instances of WorkflowControl. *)
EXTENDS WorkflowControl, TLC

\* Nothing distinguishes one process, content or obligation from another.
Symmetry == Permutations(Procs) \union Permutations(Digests) \union Permutations(Obligations)
=============================================================================
