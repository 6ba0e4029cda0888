------------------------------ MODULE MCCodexTurn ------------------------------
(* One invocation on a small App Server, for TLC. *)
EXTENDS CodexTurn, TLC

CONSTANTS t1, t2, u1, u2, i1, f1, n1

MCThreads == {t1, t2}
MCTurns == {u1, u2}
MCItems == {i1}
MCMessages == {f1, n1}
MCFinal == {f1}
MCUnphased == {n1}
MCDirectives == {[manual |-> TRUE, resume |-> None], [manual |-> FALSE, resume |-> t1]}
=============================================================================
