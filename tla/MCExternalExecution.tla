------------------------- MODULE MCExternalExecution -------------------------
(* Small instances of ExternalExecution.                                      *)
EXTENDS ExternalExecution, TLC

CONSTANTS p1, p2

Symmetry == Permutations(Procs)
=============================================================================
