------------------------- MODULE MCCommandExecution -------------------------
(* Small instances of CommandExecution.                                       *)
EXTENDS CommandExecution, FiniteSets, TLC

CONSTANTS p1, p2, i1, i2, i3, move, append, MaxAnswers

Symmetry == Permutations(Procs) \union Permutations(Ids)

\* Bound: how many different replies callers have received so far.
FewAnswers == Cardinality(answers) <= MaxAnswers
=============================================================================
