------------------------- MODULE RetainedAuthority -------------------------
(***************************************************************************)
(* The audit that every opening of the store makes over the rows it        *)
(* retains, and the trail it makes it with.  A transaction that advances   *)
(* the Workflow version appends its audit events and the outcome of its    *)
(* command; the audit walks every row and demands that the trail explains  *)
(* it.  One row that it cannot explain closes the data home to every       *)
(* later process, so the audit has to accept whatever sequence of commands *)
(* the kernels may commit.                                                 *)
(*                                                                         *)
(* Timestamps and digests of payloads are not told apart: the trail holds, *)
(* per Workflow version, what the closures compare with the rows, and the  *)
(* events of the other rows are known by the version they were made with.  *)
(***************************************************************************)
EXTENDS AttemptContext, Sequences

VARIABLES
  trail,          \* the Workflow's audit events, one per version
  attemptAudits,  \* of each Attempt: the versions at which it started and ended
  generationAudits, \* of each generation: the versions of its creation and its changes
  evidenceAudits, \* of each Attempt's Evidence: when it became eligible and ineligible
  bindings,       \* the versions at which policy and profile were bound
  setAudits,      \* of each generation: the versions at which its Evidence Set was recorded
  recoveries,     \* the Recovery reconciliations
  manifests       \* the Context Manifest of each coding Attempt

\* What is retained of a manifest, and what it is never taken for.
CandidateBindings == [gen : Generations, base : Digests \union {None}]
RepairContexts == [repair : Repair, failed : SUBSET Attempts, changeSet : Attempts]
EntryKinds == {"CANDIDATE", "ACCEPTANCE_REPAIR", "ACCEPTANCE_DECISION", "EVIDENCE_SET",
               "CANDIDATE_RELATIONSHIP", "EVIDENCE", "FAILED_CHECK", "PARENT_CHANGE_SET"}
Manifest ==
  [version : 1..MaxVersion, phase : CodingPhases,
   contract : {"COMPLETION_REQUEST", "PROPOSALS"},
   candidate : CandidateBindings \union {None}, repair : RepairContexts \union {None},
   entries : SUBSET [kind : EntryKinds, source : Nat]]

ASSUME NoneIsNoManifest == None \notin Manifest \union CandidateBindings \union RepairContexts

audits == <<trail, attemptAudits, generationAudits, evidenceAudits, bindings,
            setAudits, recoveries, manifests>>
auditedVars == <<vars, audits>>

\* A Workflow event with the outcome of its command and the Candidate that a
\* coding worker is handed.
Event(type) ==
  [type |-> type, phase |-> wf'.phase, status |-> wf'.status,
   gen |-> wf'.gen, base |-> IF wf'.gen = None THEN None ELSE gens'[wf'.gen].base]

Record(type) == trail' = Append(trail, Event(type))
RecordStart(a) == attemptAudits' = [attemptAudits EXCEPT ![a].starts = @ \union {wf'.version}]
RecordEnd(a) == attemptAudits' = [attemptAudits EXCEPT ![a].ends = @ \union {wf'.version}]
RecordGenerations(changed) ==
  generationAudits' = [g \in Generations |->
    IF g \in changed THEN Append(generationAudits[g], wf'.version) ELSE generationAudits[g]]
RecordEligibility(changed) ==
  evidenceAudits' = [a \in Attempts |->
    IF a \in changed THEN Append(evidenceAudits[a], wf'.version) ELSE evidenceAudits[a]]
Discredited == {e.attempt : e \in EligibleOf(wf.gen)}
RecordContext(a) == manifests' = [manifests EXCEPT ![a] = CompiledManifest]

\* The first Attempt binds policy and profile, the later ones present the bindings.
BindAuthority(first) ==
  IF first THEN bindings' = [kind \in DOMAIN bindings |-> bindings[kind] \union {wf'.version}]
  ELSE (\A kind \in DOMAIN bindings : bindings[kind] # {}) /\ UNCHANGED bindings

RecordRecovery(purpose, from) ==
  recoveries' = recoveries \union {[purpose |-> purpose, from |-> from, version |-> wf'.version]}

-----------------------------------------------------------------------------
(* The transactions with the events they append *)

Starting ==
  \E a \in Attempts :
    /\ \/ StartGoal(a) /\ BindAuthority(TRUE)
       \/ \E p \in Procs : BeginAttempt(p, a) /\ BindAuthority(FALSE)
    /\ Record("WORKFLOW_ATTEMPT_STARTED") /\ RecordStart(a)
    /\ IF wf.phase \in CodingPhases THEN RecordContext(a) ELSE UNCHANGED manifests
    /\ UNCHANGED <<generationAudits, evidenceAudits, setAudits, recoveries>>

FinishingWork ==
  /\ \/ RecordAttemptResult
     \/ \E failure \in FailureClasses : RecordAttemptFailure(failure)
     \/ \E runStatus \in {"READY", "BLOCKED"} : InterruptAttempt(runStatus)
  /\ UNCHANGED <<generationAudits, evidenceAudits>>

FinishingFreeze ==
  /\ \E p \in Procs : CompleteSourceFreeze(p)
  /\ RecordGenerations({wf.gen})
  /\ RecordEligibility(IF attempts'[wf.attempt].status = "RESULT_RECORDED"
                       THEN {wf.attempt} ELSE Discredited)

FinishingVerification ==
  /\ \/ \E o \in Obligations, result \in Results \union {"PROTOCOL_ERROR"} :
          RunVerification(o, result)
     \/ \E p \in Procs : CompleteLocalVerification(p)
  /\ \/ /\ attempts'[wf.attempt].status = "RESULT_RECORDED"
        /\ RecordEligibility({wf.attempt}) /\ UNCHANGED generationAudits
     \/ /\ attempts'[wf.attempt].status = "FAILED" /\ gens' # gens
        /\ RecordEligibility(Discredited) /\ RecordGenerations({wf.gen})
     \/ /\ attempts'[wf.attempt].status = "FAILED" /\ gens' = gens
        /\ UNCHANGED <<generationAudits, evidenceAudits>>

Finishing ==
  /\ FinishingWork \/ FinishingFreeze \/ FinishingVerification
  /\ Record("WORKFLOW_ATTEMPT_FINISHED") /\ RecordEnd(wf.attempt)
  /\ UNCHANGED <<bindings, setAudits, recoveries, manifests>>

Cancelling ==
  /\ CancelGoal
  /\ Record("WORKFLOW_CANCELLED")
  /\ IF wf.attempt = None THEN UNCHANGED attemptAudits ELSE RecordEnd(wf.attempt)
  /\ UNCHANGED <<generationAudits, evidenceAudits, bindings, setAudits, recoveries,
                 manifests>>

RecordingSet ==
  /\ \E p \in Procs : CommitEvidenceSet(p)
  /\ setAudits' = [setAudits EXCEPT ![wf.gen] = @ \union {wf'.version}]

ChangingGeneration ==
  \/ BeginCandidateFreeze /\ RecordGenerations({wf.gen})
  \/ \E g \in Generations, d \in Digests : PrepareCandidate(g, d) /\ RecordGenerations({g})
  \/ \E p \in Procs :
       \/ CloseAcceptedGoal(p) /\ RecordGenerations({wf.gen})
       \/ \E g \in Generations :
            BeginAcceptanceRepair(p, g) /\ RecordGenerations({wf.gen, g})

Transitioning ==
  /\ \/ RecordingSet /\ UNCHANGED generationAudits
     \/ /\ \/ BeginPlanning /\ UNCHANGED generationAudits
           \/ BeginEvidenceBuild /\ UNCHANGED generationAudits
           \/ ChangingGeneration
        /\ UNCHANGED setAudits
  /\ Record("WORKFLOW_PHASE_TRANSITIONED")
  /\ UNCHANGED <<attemptAudits, evidenceAudits, bindings, recoveries, manifests>>

FailingIntegrity ==
  /\ \E p \in Procs : CommitIntegrityFailure(p)
  /\ Record("WORKFLOW_INTEGRITY_FAILED")
  /\ RecordGenerations({wf.gen}) /\ RecordEligibility(Discredited)
  /\ UNCHANGED <<attemptAudits, bindings, setAudits, recoveries, manifests>>

\* The Attempt a resume recovers from: the one the latest reconciliation names
\* or else the latest that failed and must be reconciled first.
SourceAttempt ==
  LET failed == {a \in Attempts : attempts[a].failure = "RECONCILE_FIRST"} IN
  IF reconciled = wf.version
  THEN (CHOOSE r \in recoveries : r.version = wf.version).from
  ELSE IF failed = {} THEN None
  ELSE CHOOSE a \in failed : \A b \in failed : b <= a

Recovering ==
  /\ \/ /\ StartupRecovery /\ RecordRecovery("STARTUP", wf.attempt)
        /\ Record("WORKFLOW_ATTEMPT_FINISHED") /\ RecordEnd(wf.attempt)
     \/ /\ \E p \in Procs : ResumeGoal(p)
        /\ RecordRecovery("RESUME", SourceAttempt)
        /\ Record("WORKFLOW_RECOVERY_RECONCILED") /\ UNCHANGED attemptAudits
  /\ UNCHANGED <<generationAudits, evidenceAudits, bindings, setAudits, manifests>>

\* What leaves the Workflow row alone.
Elsewhere ==
  /\ \/ \E p \in Procs :
          \/ BeginFreeze(p) \/ SecondReading(p)
          \/ ConfigureLocalVerification(p)
          \/ \E o \in Obligations : BeginVerification(p, o)
          \/ RunCheck(p)
          \/ \E cmd \in {"EVIDENCE_SET", "EVALUATE"} : BeginObservation(p, cmd)
          \/ EvaluateAcceptance(p)
          \/ \E cmd \in {"CLOSE", "REPAIR"}, d \in decisions : BeginConsumption(p, cmd, d)
          \/ BeginResume(p) \/ AbandonCommand(p) \/ Crash(p)
     \/ \E d \in Digests : SourceChange(d)
  /\ UNCHANGED audits

AuditedInit ==
  /\ Init
  /\ trail = <<[type |-> "WORKFLOW_CREATED", phase |-> "DISCOVERY", status |-> "READY",
                gen |-> None, base |-> None]>>
  /\ attemptAudits = [a \in Attempts |-> [starts |-> {}, ends |-> {}]]
  /\ generationAudits = [g \in Generations |-> <<>>]
  /\ evidenceAudits = [a \in Attempts |-> <<>>]
  /\ bindings = [kind \in {"POLICY", "PROFILE"} |-> {}]
  /\ setAudits = [g \in Generations |-> {}]
  /\ recoveries = {}
  /\ manifests = [a \in Attempts |-> None]

AuditedNext ==
  \/ Starting \/ Finishing \/ Cancelling \/ Transitioning \/ FailingIntegrity
  \/ Recovering \/ Elsewhere

AuditedSpec == AuditedInit /\ [][AuditedNext]_auditedVars

-----------------------------------------------------------------------------
(* The closures of the audit *)

Made == {a \in Attempts : attempts[a].status # "NONE"}
CodingWorker(a) == attempts[a].phase \in CodingPhases

\* The Workflow is RUNNING exactly with the one RUNNING Attempt of its phase.
LifecycleClosure ==
  /\ IF wf.status = "RUNNING"
     THEN wf.attempt # None /\ attempts[wf.attempt].phase = wf.phase
          /\ attempts[wf.attempt].status = "RUNNING"
     ELSE wf.attempt = None
  /\ \A a \in Made : attempts[a].status = "RUNNING" =>
       wf.status = "RUNNING" /\ wf.attempt = a /\ wf.phase = attempts[a].phase

\* Before StartGoal binds policy and profile nothing may have happened but a
\* cancellation.
UnstartedClosure ==
  /\ Made = {} /\ wf.phase = "DISCOVERY" /\ wf.attempt = None /\ wf.gen = None
  /\ \/ wf.status = "READY" /\ wf.version = 1
     \/ /\ wf.status = "CANCELLED" /\ wf.version = 2
        /\ trail[2].type = "WORKFLOW_CANCELLED"

\* Policy and profile were bound once, by the transaction that started the Goal.
BindingClosure(kind) ==
  /\ wf.version >= 2 /\ bindings[kind] = {2}
  /\ trail[2].type = "WORKFLOW_ATTEMPT_STARTED"

\* Every Attempt of a coding worker was started once, in its phase.
WorkerStartClosure(a) ==
  \E v \in attemptAudits[a].starts :
    /\ attemptAudits[a].starts = {v} /\ v <= wf.version
    /\ trail[v].type = "WORKFLOW_ATTEMPT_STARTED"
    /\ trail[v].phase = attempts[a].phase /\ trail[v].status = "RUNNING"

\* The first of them is the one that StartGoal began.
StartedClosure ==
  /\ \A kind \in DOMAIN bindings : BindingClosure(kind)
  /\ \A a \in Made : CodingWorker(a) => WorkerStartClosure(a)
  /\ \E first \in Made :
       /\ ~\E a \in Made : a < first
       /\ attempts[first].phase = "DISCOVERY" /\ attemptAudits[first].starts = {2}

StartClosure ==
  IF \A kind \in DOMAIN bindings : bindings[kind] = {}
  THEN UnstartedClosure
  ELSE StartedClosure

\* Nothing follows a transient failure: the retry it would need has no owner.
RetryClosure ==
  \A a \in Made : attempts[a].status = "FAILED" /\ attempts[a].failure = "TRANSIENT" =>
    /\ \A b \in Made : b <= a
    /\ wf.phase = attempts[a].phase /\ wf.status \in {"BLOCKED", "CANCELLED"}

\* Every coding Attempt retains the manifest of its package, and the package
\* can be rebuilt from the rows; no other Attempt has one.
ContextClosure ==
  \A a \in Made :
    IF CodingWorker(a)
    THEN /\ manifests[a] # None /\ attemptAudits[a].starts = {manifests[a].version}
         /\ ManifestVerified(manifests[a], a)
    ELSE manifests[a] = None

\* The run status that the end of an Attempt may leave behind.
RunStatusAuthorized(a, status) ==
  CASE attempts[a].status = "RESULT_RECORDED" -> status = "READY"
    [] attempts[a].status = "FAILED" -> status = ResultingRunStatus(attempts[a].failure)
    [] attempts[a].status = "INTERRUPTED" -> status \in {"READY", "BLOCKED", "CANCELLED"}
    [] OTHER -> FALSE

TerminalClosure ==
  \A a \in Made : attempts[a].status # "RUNNING" =>
    /\ attemptAudits[a].ends = {attempts[a].ended} /\ attempts[a].ended <= wf.version
    /\ LET end == trail[attempts[a].ended] IN
       /\ end.type \in {"WORKFLOW_ATTEMPT_FINISHED", "WORKFLOW_CANCELLED"}
       /\ end.phase = attempts[a].phase
       /\ RunStatusAuthorized(a, end.status)
       /\ end.status = "CANCELLED" <=> end.type = "WORKFLOW_CANCELLED"

\* Exactly one event led to the present version, and to the present state.
CommandClosure ==
  /\ Len(trail) = wf.version
  /\ trail[wf.version].phase = wf.phase /\ trail[wf.version].status = wf.status

\* The version of a generation's own row: its creation and every change of state.
GenerationVersion(g) ==
  CASE gens[g].state = "MUTABLE" -> 1
    [] gens[g].state = "FREEZING" -> 2
    [] gens[g].state = "FROZEN" -> 3
    [] gens[g].state \in {"ACCEPTED", "REJECTED"} -> 4
    [] gens[g].state = "INVALIDATED" -> IF gens[g].frozen = None THEN 3 ELSE 4

\* One event created the generation and one led to each of its later versions.
GenerationClosure ==
  \A g \in Generations : gens[g].state # "NONE" =>
    Len(generationAudits[g]) = GenerationVersion(g)

\* Evidence became eligible once, and ineligible at most once, later.
EvidenceHistoryClosure(e) ==
  LET history == evidenceAudits[e.attempt] IN
  IF e.attempt \in eligible THEN Len(history) = 1
  ELSE Len(history) = 2 /\ history[1] < history[2]

EvidenceRecordClosure(e) ==
  /\ attempts[e.attempt].status = "RESULT_RECORDED"
  /\ attempts[e.attempt].phase =
       (IF e.kind = "CANDIDATE_FREEZE" THEN "SOURCE_FREEZE" ELSE "EVIDENCE_BUILD")
  /\ gens[e.gen].frozen = e.digest
  /\ e.kind = "TEST_RESULT" =>
       e.obligation \in Obligations /\ (LocalCommand => e.gen \in checks)

\* An Evidence Set holds the records that were eligible when it was recorded
\* with the transition to FINAL_VERIFY, one at least for each obligation.
EvidenceSetClosure(g) ==
  sets[g] # {} =>
    \E v \in setAudits[g] :
      /\ setAudits[g] = {v} /\ trail[v].type = "WORKFLOW_PHASE_TRANSITIONED"
      /\ trail[v].phase = "FINAL_VERIFY" /\ trail[v].gen = g
      /\ sets[g] = {e.attempt : e \in {r \in EvidenceOf(g) :
                      r.kind = "TEST_RESULT" /\ attempts[r.attempt].ended < v}}
      /\ \A o \in Obligations : \E e \in SetRecords(g) : e.obligation = o

EvidenceClosure ==
  /\ GenerationClosure
  /\ \A e \in evidence : EvidenceRecordClosure(e) /\ EvidenceHistoryClosure(e)
  /\ \A g \in Generations :
       /\ gens[g].state = "INVALIDATED" => EligibleOf(g) = {}
       /\ EvidenceSetClosure(g)

\* A reconciliation left the state it decided on, and its source Attempt is
\* one that ended in the reconciled phase.
RecoveryClosure ==
  \A r \in recoveries :
    LET event == trail[r.version]
        from == attempts[r.from] IN
    /\ r.version <= wf.version /\ from.phase = event.phase
    /\ event.gen # None => gens[event.gen].base = event.base
    /\ r.purpose = "STARTUP" =>
         /\ from.status = "INTERRUPTED" /\ from.ended = r.version
         /\ event.type = "WORKFLOW_ATTEMPT_FINISHED" /\ event.status = "BLOCKED"
    /\ r.purpose = "RESUME" =>
         /\ from.status \in {"FAILED", "INTERRUPTED", "RESULT_RECORDED"}
         /\ from.ended <= r.version
         /\ event.type = "WORKFLOW_RECOVERY_RECONCILED"
         /\ event.status \in {"READY", "BLOCKED"}

\* Re-issue a retained decision from the records as its Evidence Set took
\* them, eligible.
ReissuedOutcome(d) ==
  LET used == {e \in evidence : e.attempt \in d.refs} IN
  IF \E o \in Obligations : \A e \in used : e.obligation # o THEN "REJECT_BLOCKED"
  ELSE IF \E e \in used : e.result = "RUNNER_ERROR" THEN "ENGINE_ERROR"
  ELSE IF \E e \in used : e.result = "FAIL" THEN "REJECT_REPAIRABLE"
  ELSE "ACCEPT"

DecisionClosure(d) ==
  /\ gens[d.gen].frozen = d.digest /\ d.refs = sets[d.gen]
  /\ ReissuedOutcome(d) = d.outcome

SameInput(c, d) ==
  c.version = d.version /\ c.gen = d.gen /\ c.digest = d.digest /\ c.refs = d.refs

RepairClosure(r) ==
  LET rejected == r.decision.gen IN
  /\ r.decision \in decisions /\ r.decision.outcome = "REJECT_REPAIRABLE"
  /\ r.decision.version + 1 = r.version /\ r.version <= wf.version
  /\ gens[rejected].state = "REJECTED" /\ gens[rejected].frozen = r.decision.digest
  /\ r.child = rejected + 1 /\ gens[r.child].parent = rejected
  /\ gens[r.child].base = r.decision.digest

\* One command rejected the generation, created its child and moved the Workflow.
RepairAuditClosure(r) ==
  LET rejected == r.decision.gen
      event == trail[r.version] IN
  /\ generationAudits[rejected][GenerationVersion(rejected)] = r.version
  /\ Len(generationAudits[r.child]) >= 1 /\ generationAudits[r.child][1] = r.version
  /\ event.type = "WORKFLOW_PHASE_TRANSITIONED" /\ event.gen = r.child
  /\ event.phase = "IMPLEMENT" /\ event.status = "READY"

CloseoutClosure ==
  closeout # None =>
    LET d == closeout.decision IN
    /\ wf.phase = "CLOSEOUT" /\ wf.status = "CLOSED" /\ wf.version = closeout.version
    /\ d \in decisions /\ d.outcome = "ACCEPT" /\ d.version + 1 = closeout.version
    /\ gens[d.gen].state = "ACCEPTED" /\ gens[d.gen].frozen = d.digest
    /\ trail[wf.version].type = "WORKFLOW_PHASE_TRANSITIONED"

AcceptanceClosure ==
  /\ \A d \in decisions : DecisionClosure(d)
  /\ \A c, d \in decisions : SameInput(c, d) => c = d
  /\ CloseoutClosure
  /\ wf.status = "CLOSED" => closeout # None
  /\ \A r \in repairs : RepairClosure(r) /\ RepairAuditClosure(r)
  /\ \A g \in Generations :
       /\ gens[g].state = "ACCEPTED" => closeout # None /\ closeout.decision.gen = g
       /\ gens[g].state = "REJECTED" =>
            \E r \in repairs : {q \in repairs : q.decision.gen = g} = {r}

-----------------------------------------------------------------------------
(* store.ts openVerified: whatever the kernels of one data home have          *)
(* committed, in whatever order they interrupted, recovered, cancelled and    *)
(* repaired each other's work, the next process can open the store again: no  *)
(* sequence of legal commands leaves rows that the audit rejects.             *)
AuditAccepts ==
  /\ LifecycleClosure /\ StartClosure /\ RetryClosure /\ ContextClosure
  /\ TerminalClosure /\ CommandClosure /\ EvidenceClosure /\ RecoveryClosure
  /\ AcceptanceClosure
=============================================================================
