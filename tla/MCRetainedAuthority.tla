------------------------ MODULE MCRetainedAuthority ------------------------
(* Model-checking instances of RetainedAuthority. *)
EXTENDS AuthorityReads, TLC

\* Nothing distinguishes one process, content or obligation from another.
Symmetry == Permutations(Procs) \union Permutations(Digests) \union Permutations(Obligations)

\* Bound of the run that follows a repaired Candidate to its closeout: every
\* Attempt completes (the other runs explore failures and interruptions).
AttemptsComplete ==
  /\ \A a \in Attempts : attempts[a].status \notin {"FAILED", "INTERRUPTED"}
  /\ wf.status \notin {"CANCELLED", "FAILED"}

CompletingNext == AuditedNext /\ AttemptsComplete'
CompletingSpec == AuditedInit /\ [][CompletingNext]_auditedVars

\* Bound of the other run: a blocked Goal may be resumed for ever, here it is
\* reconciled at most this often.
FewReconciliations == Cardinality(recoveries) <= 3

\* and the fourth Attempt is one of the child of a repair.
FourthForRepair == Cardinality(Made) > 3 => repairs # {}
=============================================================================
