-------------------------- MODULE MCWorkerDispatch --------------------------
(* Small instances of WorkerDispatch.                                         *)
EXTENDS WorkerDispatch

CONSTANTS p1, p2, e1, e2

E(id, a, m, exact, kind) ==
  [id |-> id, attempt |-> a, manifest |-> m, exact |-> exact, kind |-> kind]

\* One identity for a result and for a failure of the first Attempt, a result of
\* the second, and events of a foreign session and of a foreign manifest.
Deliveries == {E(e1, 1, 1, TRUE, "RESULT"), E(e1, 1, 1, TRUE, "FAILURE"),
               E(e2, 2, 2, TRUE, "RESULT"),
               E(e2, 1, 1, FALSE, "RESULT"), E(e2, 1, 2, TRUE, "FAILURE")}
=============================================================================
