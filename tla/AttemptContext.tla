--------------------------- MODULE AttemptContext ---------------------------
(***************************************************************************)
(* What a coding worker is told: the Context Package that the kernel       *)
(* compiles when it begins an Attempt of DISCOVERY, PLAN or IMPLEMENT, and *)
(* the manifest of its sources that is retained with the Attempt.  The     *)
(* package is rebuilt from the retained rows at every opening of the store *)
(* and whenever the manifest is read, so it may only depend on rows that   *)
(* nothing changes afterwards.                                             *)
(*                                                                         *)
(* Goal, criteria and constraints never change and stand as one source;    *)
(* texts and digests are not told apart.                                   *)
(***************************************************************************)
EXTENDS WorkflowControl

CodingPhases == {"DISCOVERY", "PLAN", "IMPLEMENT"}

\* The kind of result that the worker of a phase may report.
ResponseContract(phase) ==
  IF phase = "IMPLEMENT" THEN "COMPLETION_REQUEST" ELSE "PROPOSALS"

RepairsFor(g) == {r \in repairs : r.child = g}

-----------------------------------------------------------------------------
(* The repair context: compileBoundedM2RepairContext *)

\* The records of one repair, the rejected parent and its child agree, and the
\* context is compiled for the very next version.
RepairAuthority(r, contextVersion) ==
  LET d == r.decision IN
  /\ r.version + 1 = contextVersion
  /\ d \in decisions /\ d.outcome = "REJECT_REPAIRABLE"
  /\ sets[d.gen] = d.refs
  /\ gens[d.gen].state = "REJECTED" /\ gens[d.gen].frozen = d.digest
  /\ gens[r.child].parent = d.gen /\ gens[r.child].base = d.digest

\* The records of the consumed Evidence Set, eligible as the set took them.
ConsumedEvidence(r) == {e \in evidence : e.attempt \in r.decision.refs}
FailedEvidence(r) == {e \in ConsumedEvidence(r) : e.result = "FAIL"}
ParentFreezes(r) ==
  {e \in EvidenceOf(r.decision.gen) : e.kind = "CANDIDATE_FREEZE"}

RepairSourcesExact(r) ==
  /\ \A e \in ConsumedEvidence(r) :
       e.kind = "TEST_RESULT" /\ e.gen = r.decision.gen /\ e.digest = r.decision.digest
  /\ Cardinality(ConsumedEvidence(r)) = Cardinality(r.decision.refs)
  /\ \E freeze \in ParentFreezes(r) :
       ParentFreezes(r) = {freeze} /\ freeze.digest = r.decision.digest
  /\ FailedEvidence(r) # {}

RepairCompiles(r, contextVersion) ==
  RepairAuthority(r, contextVersion) /\ RepairSourcesExact(r)

RepairContext(r) ==
  [repair |-> r, failed |-> {e.attempt : e \in FailedEvidence(r)},
   changeSet |-> (CHOOSE e \in ParentFreezes(r) : TRUE).attempt]

\* What the previous Attempts are said to have come to.
PriorAttemptFeedback(context) ==
  {[kind |-> "FAILED_CHECK", source |-> a] : a \in context.failed}
  \union {[kind |-> "PARENT_CHANGE_SET", source |-> context.changeSet]}

-----------------------------------------------------------------------------
(* The manifest *)

\* The sources a package was rendered from, beside the Goal and its criteria.
RepairEntries(context) ==
  {[kind |-> "ACCEPTANCE_REPAIR", source |-> context.repair.version],
   [kind |-> "ACCEPTANCE_DECISION", source |-> context.repair.decision.version],
   [kind |-> "EVIDENCE_SET", source |-> context.repair.decision.gen],
   [kind |-> "CANDIDATE_RELATIONSHIP", source |-> context.repair.child]}
  \union {[kind |-> "EVIDENCE", source |-> a] : a \in context.failed}
  \union PriorAttemptFeedback(context)

ManifestEntries(candidate, context) ==
  (IF candidate = None THEN {} ELSE {[kind |-> "CANDIDATE", source |-> candidate.gen]})
  \union (IF context = None THEN {} ELSE RepairEntries(context))

\* Only IMPLEMENT binds a Candidate: the generation it may write, by its base.
CandidateBinding ==
  IF wf.phase = "IMPLEMENT" THEN [gen |-> wf.gen, base |-> gens[wf.gen].base] ELSE None

\* A generation made by a repair has the context of that repair.
CurrentRepairContext ==
  IF wf.phase # "IMPLEMENT" \/ RepairsFor(wf.gen) = {} THEN None
  ELSE RepairContext(CHOOSE r \in RepairsFor(wf.gen) : TRUE)

\* The context of the Attempt that is begun now.
CompiledManifest ==
  [version |-> wf.version + 1, phase |-> wf.phase,
   contract |-> ResponseContract(wf.phase),
   candidate |-> CandidateBinding, repair |-> CurrentRepairContext,
   entries |-> ManifestEntries(CandidateBinding, CurrentRepairContext)]

\* Nothing refuses to compile it.
ContextCompiles ==
  wf.phase \in CodingPhases =>
    /\ wf.phase = "IMPLEMENT" <=> wf.gen # None
    /\ wf.phase = "IMPLEMENT" =>
         /\ gens[wf.gen].state = "MUTABLE"
         /\ \A r \in RepairsFor(wf.gen) : RepairCompiles(r, wf.version + 1)

\* What a manifest shares with the Attempt it was compiled for.
WorkerAuthority(m, a) ==
  /\ m.phase \in CodingPhases /\ m.phase = attempts[a].phase
  /\ m.contract = ResponseContract(m.phase)
  /\ m.phase = "IMPLEMENT" <=> m.candidate # None

-----------------------------------------------------------------------------
(* The same context, rebuilt from what the store retains *)

\* IMPLEMENT was handed a Candidate that still has the base it was handed.
RetainedCandidate(m) ==
  IF m.phase = "IMPLEMENT"
  THEN m.candidate # None /\ gens[m.candidate.gen].base = m.candidate.base
  ELSE m.candidate = None

\* A repair context still compiles from the rows, for the version it was made for.
RetainedRepair(m) ==
  m.repair # None =>
    /\ m.candidate # None
    /\ \E r \in RepairsFor(m.candidate.gen) :
         RepairCompiles(r, m.version) /\ m.repair = RepairContext(r)

\* The package rebuilt from them has exactly the sources of the manifest.
RetainedPackage(m, a) ==
  /\ WorkerAuthority(m, a) /\ m.version <= wf.version
  /\ m.entries = ManifestEntries(m.candidate, m.repair)

ManifestVerified(m, a) ==
  RetainedCandidate(m) /\ RetainedRepair(m) /\ RetainedPackage(m, a)

-----------------------------------------------------------------------------
(* What the triggers demand of a manifest when it is inserted, after the      *)
(* Attempt and the Workflow were written.                                     *)

SourcesOf(m, kind) == {e \in m.entries : e.kind = kind}

\* It is of the running Attempt, of the present version and generation.
ContextBound(m, a) ==
  /\ m.phase \in CodingPhases /\ m.phase = attempts[a].phase /\ m.phase = wf.phase
  /\ m.version = wf.version
  /\ IF m.candidate = None THEN wf.gen = None ELSE m.candidate.gen = wf.gen

\* Only IMPLEMENT has a Candidate among its sources, exactly the mutable one
\* with its base; and only IMPLEMENT has sources of a repair.
ContextSources(m) ==
  IF m.phase = "IMPLEMENT"
  THEN /\ m.candidate # None
       /\ gens[m.candidate.gen].state = "MUTABLE"
       /\ gens[m.candidate.gen].base = m.candidate.base
       /\ SourcesOf(m, "CANDIDATE") = {[kind |-> "CANDIDATE", source |-> wf.gen]}
  ELSE m.candidate = None /\ m.entries = {}

\* A repair context has one of each record of the repair, failed Evidence and
\* feedback.
RepairExtension(m) ==
  m.repair # None =>
    /\ m.phase = "IMPLEMENT" /\ m.candidate # None
    /\ \A kind \in {"ACCEPTANCE_REPAIR", "ACCEPTANCE_DECISION", "EVIDENCE_SET",
                    "CANDIDATE_RELATIONSHIP"} : Cardinality(SourcesOf(m, kind)) = 1
    /\ SourcesOf(m, "EVIDENCE") # {} /\ SourcesOf(m, "PARENT_CHANGE_SET") # {}

ContextTriggers(m, a) == ContextBound(m, a) /\ ContextSources(m) /\ RepairExtension(m)
=============================================================================
