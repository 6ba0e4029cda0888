---------------------------- MODULE ControlStore ----------------------------
(***************************************************************************)
(* What the SQLite control store admits, whatever the kernel asks of it.   *)
(*                                                                         *)
(* A write reaches the rows only through one of the store's transactions.  *)
(* Each re-reads the rows, applies the domain's event to them and writes   *)
(* row by row; triggers and unique indexes of the schema judge every       *)
(* statement and roll the whole transaction back when one refuses.  So a   *)
(* transaction is two independent judgements of one step: what its code    *)
(* accepts and writes, and what the triggers accept of each row, in the    *)
(* order of the statements.  This module states both over the rows alone,  *)
(* without the kernel's plans, sessions or observations.                   *)
(***************************************************************************)
EXTENDS Naturals, DomainRecords

CONSTANTS Attempts, Generations, LocalCommand, MaxVersion

VARIABLES wf, attempts, gens, checks, evidence, eligible, sets, decisions,
          closeout, repairs, reconciled

rows == <<wf, attempts, gens, checks, evidence, eligible, sets, decisions,
          closeout, repairs, reconciled>>

Current == {"MUTABLE", "FREEZING", "FROZEN"}
Ended == {"RESULT_RECORDED", "FAILED", "INTERRUPTED"}
-----------------------------------------------------------------------------
(* The events the transactions apply *)

PhaseEdges ==
  {<<"DISCOVERY", "PLAN">>, <<"PLAN", "IMPLEMENT">>, <<"IMPLEMENT", "SOURCE_FREEZE">>,
   <<"SOURCE_FREEZE", "EVIDENCE_BUILD">>, <<"EVIDENCE_BUILD", "FINAL_VERIFY">>,
   <<"FINAL_VERIFY", "IMPLEMENT">>, <<"FINAL_VERIFY", "CLOSEOUT">>}

\* A phase transition: only IMPLEMENT takes a generation, and it takes a new one.
PhaseTransitioned(to, gen) ==
  /\ wf.status = "READY" /\ wf.attempt = None
  /\ <<wf.phase, to>> \in PhaseEdges
  /\ IF to = "IMPLEMENT" THEN gen \notin {None, wf.gen} ELSE gen = wf.gen
  /\ to # "PLAN" => gen # None
  /\ wf' = [wf EXCEPT !.phase = to, !.gen = gen, !.version = @ + 1,
                      !.status = IF to = "CLOSEOUT" THEN "CLOSED" ELSE @]

IntegrityFailed ==
  /\ wf.status = "READY" /\ wf.attempt = None
  /\ wf' = [wf EXCEPT !.status = "FAILED", !.version = @ + 1]

AttemptStarted(a) ==
  /\ wf.status = "READY" /\ wf.attempt = None
  /\ attempts' = [attempts EXCEPT ![a] = [@ EXCEPT !.status = "RUNNING", !.phase = wf.phase]]
  /\ wf' = [wf EXCEPT !.status = "RUNNING", !.attempt = a, !.version = @ + 1]

\* The payload of a finish event: Attempt status, failure class, run status.
Payloads ==
  {<<"RESULT_RECORDED", None, "READY">>, <<"INTERRUPTED", None, "READY">>,
   <<"INTERRUPTED", None, "BLOCKED">>, <<"FAILED", "TRANSIENT", "BLOCKED">>,
   <<"FAILED", "RECONCILE_FIRST", "BLOCKED">>, <<"FAILED", "NON_RETRYABLE", "FAILED">>}

\* Only a running Attempt ends, and its row with it.
AttemptEnded(a, status, failure) ==
  /\ attempts[a].status = "RUNNING"
  /\ attempts' = [attempts EXCEPT ![a] =
       [@ EXCEPT !.status = status, !.failure = failure, !.ended = wf.version + 1]]

AttemptFinished(payload) ==
  /\ payload \in Payloads
  /\ wf.status = "RUNNING" /\ wf.attempt # None
  /\ attempts[wf.attempt].phase = wf.phase
  /\ AttemptEnded(wf.attempt, payload[1], payload[2])
  /\ wf' = [wf EXCEPT !.status = payload[3], !.attempt = None, !.version = @ + 1]

CandidateEdges ==
  {<<"MUTABLE", "FREEZING">>, <<"FREEZING", "FROZEN">>, <<"FROZEN", "REJECTED">>,
   <<"FROZEN", "ACCEPTED">>} \union (Current \X {"INVALIDATED"})

\* What a state change of a generation may be; only freezing gives it a digest.
CandidateApplies(state, frozen) ==
  /\ wf.gen # None
  /\ <<gens[wf.gen].state, state>> \in CandidateEdges
  /\ state # "FROZEN" => frozen = gens[wf.gen].frozen

NextAttempt(a) == \A b \in Attempts : attempts[b].status # "NONE" <=> b < a
NextGeneration(g) == \A h \in Generations : gens[h].state # "NONE" <=> h < g

EligibleFor(g) == {e \in evidence : e.gen = g /\ e.attempt \in eligible}
ObligationEvidence(g) == {e \in EligibleFor(g) : e.obligation # None}
-----------------------------------------------------------------------------
(* The statements: a table as it is after one of them *)

UpdatedGeneration(table, g, state, frozen) ==
  [table EXCEPT ![g] = [@ EXCEPT !.state = state, !.frozen = frozen]]

InsertedGeneration(table, g, parent, base) ==
  [table EXCEPT ![g] = [state |-> "MUTABLE", base |-> base, frozen |-> None,
                        parent |-> parent]]

CandidateChanged(state, frozen) ==
  CandidateApplies(state, frozen) /\ gens' = UpdatedGeneration(gens, wf.gen, state, frozen)

\* An ineligible version follows for every record the generation still has.
Discredit(g) == eligible' = eligible \ {e.attempt : e \in EligibleFor(g)}

EvidenceInserted(e) == e \notin evidence /\ evidence' = evidence \union {e}
EligibilityInserted(e) == eligible' = eligible \union {e.attempt}
EvidenceSetInserted(g, members) ==
  sets[g] = {} /\ sets' = [sets EXCEPT ![g] = {e.attempt : e \in members}]
DecisionInserted(d) == decisions' = decisions \union {d}
CloseoutInserted(d) ==
  closeout = None /\ closeout' = [version |-> wf.version + 1, decision |-> d]
RepairInserted(d, g) ==
  repairs' = repairs \union {[version |-> wf.version + 1, decision |-> d, child |-> g]}
ReconciliationInserted == reconciled' = wf.version + 1

\* What the commit of an Attempt or Workflow event leaves alone.
OtherRows == UNCHANGED <<gens, checks, evidence, eligible, sets, decisions, closeout,
                         repairs, reconciled>>
-----------------------------------------------------------------------------
(***************************************************************************)
(* What an input may ask for.  A transaction is named by the rows it means *)
(* to bring about, and is refused before any row is read unless these are  *)
(* one transition that its own kind of commit carries.                     *)
(***************************************************************************)

Phase(from, to) == wf.phase = from /\ wf'.phase = to
Candidate(from, to) ==
  wf.gen # None /\ gens[wf.gen].state = from /\ gens'[wf.gen].state = to
Finish(phase, status) ==
  /\ wf.attempt # None
  /\ attempts[wf.attempt].phase = phase /\ attempts'[wf.attempt].status = status

StartupRequest ==
  /\ wf.attempt # None /\ attempts'[wf.attempt].status = "INTERRUPTED"
  /\ wf'.status = "BLOCKED" /\ reconciled' = wf'.version

\* The policy's third disposition, back to an earlier phase, is not admitted.
ResumeRequest ==
  \E r \in Reconciliations(wf) :
    /\ r.disposition # "SAFE_EARLIER_PHASE"
    /\ wf' = RecoveryPlanned(wf, r) /\ reconciled' = r.resulting

PreparationRequest ==
  /\ wf'.phase = "IMPLEMENT" /\ wf'.gen \notin {None, wf.gen}
  /\ gens'[wf'.gen].state = "MUTABLE" /\ gens'[wf'.gen].frozen = None

FreezeStartRequest == Phase("IMPLEMENT", "SOURCE_FREEZE") /\ Candidate("MUTABLE", "FREEZING")

IntegrityRequest == wf'.status = "FAILED" /\ Candidate("FROZEN", "INVALIDATED")

VerificationIntegrityRequest ==
  /\ Finish("EVIDENCE_BUILD", "FAILED") /\ attempts'[wf.attempt].failure = "NON_RETRYABLE"
  /\ Candidate("FROZEN", "INVALIDATED")

\* A frozen generation comes with its Evidence, an invalidated one without.
FreezeOutcomeRequest ==
  \/ /\ Finish("SOURCE_FREEZE", "RESULT_RECORDED") /\ Candidate("FREEZING", "FROZEN")
     /\ \E e \in evidence' \ evidence : e.attempt \in eligible'
  \/ /\ Finish("SOURCE_FREEZE", "FAILED") /\ gens'[wf.gen].state = "INVALIDATED"
     /\ evidence' = evidence

VerificationRequest ==
  /\ Finish("EVIDENCE_BUILD", "RESULT_RECORDED")
  /\ \E e \in evidence' \ evidence : e.attempt = wf.attempt /\ e.attempt \in eligible'

\* One Check with all the obligations it serves.
LocalAuthorityRequest == \E g \in Generations : checks' \ checks = {g}

EvidenceSetRequest == Phase("EVIDENCE_BUILD", "FINAL_VERIFY")

\* The decision names the manifest beside it.
EvaluationRequest == \E d \in decisions' \ decisions : d.version = wf'.version

CloseoutRequest ==
  /\ Phase("FINAL_VERIFY", "CLOSEOUT") /\ Candidate("FROZEN", "ACCEPTED")
  /\ closeout'.version = wf'.version /\ closeout'.decision.gen = wf.gen

RepairRequest ==
  /\ Phase("FINAL_VERIFY", "IMPLEMENT") /\ Candidate("FROZEN", "REJECTED")
  /\ gens'[wf'.gen].state = "MUTABLE" /\ gens'[wf'.gen].parent = wf.gen
  /\ \E r \in repairs' \ repairs :
       /\ r.version = wf'.version /\ r.decision.gen = wf.gen
       /\ r.child = wf'.gen /\ gens'[r.child].base = r.decision.digest
-----------------------------------------------------------------------------
(* The transactions: what each demands of the rows it reads, and what it writes *)

StartAttempt == \E a \in Attempts : AttemptStarted(a) /\ NextAttempt(a)
FinishAttempt == \E payload \in Payloads : AttemptFinished(payload)
CommitAttemptEvent == OtherRows /\ (StartAttempt \/ FinishAttempt)

\* Cancelling interrupts the active Attempt.
Cancelled ==
  /\ wf.status \notin {"CANCELLED", "CLOSED"}
  /\ wf' = [wf EXCEPT !.status = "CANCELLED", !.attempt = None, !.version = @ + 1]
  /\ IF wf.attempt = None THEN UNCHANGED attempts
     ELSE AttemptEnded(wf.attempt, "INTERRUPTED", None)

FrozenAuthority == wf.gen # None /\ gens[wf.gen].state = "FROZEN"
FreezeRecorded ==
  \E e \in EligibleFor(wf.gen) : e.kind = "CANDIDATE_FREEZE" /\ e.digest = gens[wf.gen].frozen

\* The edges that carry other authority have transactions of their own.
CompoundEdges ==
  {<<"PLAN", "IMPLEMENT">>, <<"IMPLEMENT", "SOURCE_FREEZE">>,
   <<"EVIDENCE_BUILD", "FINAL_VERIFY">>, <<"FINAL_VERIFY", "IMPLEMENT">>,
   <<"FINAL_VERIFY", "CLOSEOUT">>}

CommitWorkflowEvent ==
  /\ \/ Cancelled
     \/ /\ UNCHANGED attempts
        /\ \E edge \in PhaseEdges \ CompoundEdges :
             /\ wf.phase = edge[1] /\ PhaseTransitioned(edge[2], wf.gen)
             /\ edge = <<"SOURCE_FREEZE", "EVIDENCE_BUILD">> =>
                  FrozenAuthority /\ FreezeRecorded
  /\ OtherRows

\* The generation continues the sequence of the Goal's one Candidate.
PreparationAdmitted(g) == NextGeneration(g) /\ PhaseTransitioned("IMPLEMENT", g)

\* Which parent the new generation names is left to the triggers.
CommitCandidatePreparation ==
  /\ PreparationRequest
  /\ \E g \in Generations :
       /\ PreparationAdmitted(g)
       /\ gens' = InsertedGeneration(gens, g, gens'[g].parent, gens'[g].base)
  /\ UNCHANGED <<attempts, checks, evidence, eligible, sets, decisions, closeout, repairs,
                 reconciled>>

CommitWorkflowCandidateEvent ==
  /\ FreezeStartRequest
  /\ PhaseTransitioned("SOURCE_FREEZE", wf.gen) /\ CandidateChanged("FREEZING", None)
  /\ UNCHANGED <<attempts, checks, evidence, eligible, sets, decisions, closeout, repairs,
                 reconciled>>

FrozenInvalidated ==
  /\ FrozenAuthority
  /\ CandidateChanged("INVALIDATED", gens[wf.gen].frozen) /\ Discredit(wf.gen)

CommitCandidateIntegrityFailure ==
  /\ IntegrityRequest /\ FrozenInvalidated /\ IntegrityFailed
  /\ UNCHANGED <<attempts, checks, evidence, sets, decisions, closeout, repairs, reconciled>>

CommitVerificationIntegrityFailure ==
  /\ VerificationIntegrityRequest /\ FrozenInvalidated
  /\ AttemptFinished(<<"FAILED", "NON_RETRYABLE", "FAILED">>)
  /\ UNCHANGED <<checks, evidence, sets, decisions, closeout, repairs, reconciled>>

\* A record of the Attempt it ends, of the contents the generation then has.
EvidenceAdmitted(e, kind) ==
  /\ e.attempt = wf.attempt /\ attempts'[e.attempt].status # "RUNNING"
  /\ e.gen = wf.gen /\ gens'[e.gen].state = "FROZEN" /\ e.digest = gens'[e.gen].frozen
  /\ e.kind = kind
EvidenceRecorded(kind, obligations) ==
  \E e \in evidence' : /\ EvidenceAdmitted(e, kind) /\ e.obligation \in obligations
                       /\ EvidenceInserted(e) /\ EligibilityInserted(e)

FreezeCommitted ==
  /\ AttemptFinished(<<"RESULT_RECORDED", None, "READY">>)
  /\ CandidateChanged("FROZEN", gens'[wf.gen].frozen)
  /\ EvidenceRecorded("CANDIDATE_FREEZE", {None})
FreezeRefused ==
  /\ AttemptFinished(<<"FAILED", "NON_RETRYABLE", "FAILED">>)
  /\ CandidateChanged("INVALIDATED", gens[wf.gen].frozen) /\ Discredit(wf.gen)
  /\ UNCHANGED evidence

FreezeAdmitted == wf.gen # None /\ gens[wf.gen].state = "FREEZING"

CommitCandidateAttemptOutcome ==
  /\ FreezeOutcomeRequest /\ FreezeAdmitted
  /\ FreezeCommitted \/ FreezeRefused
  /\ UNCHANGED <<checks, sets, decisions, closeout, repairs, reconciled>>

\* Any run status will do, as long as no Attempt is active.
LocalAuthorityAdmitted ==
  wf.phase = "EVIDENCE_BUILD" /\ wf.attempt = None /\ FrozenAuthority /\ wf.gen \notin checks

CommitLocalCommandVerificationAuthority ==
  /\ LocalAuthorityRequest /\ LocalAuthorityAdmitted
  /\ checks' = checks \union {wf.gen}
  /\ UNCHANGED <<wf, attempts, gens, evidence, eligible, sets, decisions, closeout, repairs,
                 reconciled>>

\* The obligations of the local profile exist from its authority on.
VerificationAdmitted == FrozenAuthority /\ (LocalCommand => wf.gen \in checks)

CommitVerificationAttemptOutcome ==
  /\ VerificationRequest /\ VerificationAdmitted
  /\ AttemptFinished(<<"RESULT_RECORDED", None, "READY">>)
  /\ EvidenceRecorded("TEST_RESULT", Obligations)
  /\ UNCHANGED <<gens, checks, sets, decisions, closeout, repairs, reconciled>>

\* The set is the canonical selection: everything eligible, for every obligation.
CommitEvidenceSetTransition ==
  /\ EvidenceSetRequest /\ FrozenAuthority
  /\ \A o \in Obligations : \E e \in ObligationEvidence(wf.gen) : e.obligation = o
  /\ EvidenceSetInserted(wf.gen, ObligationEvidence(wf.gen))
  /\ PhaseTransitioned("FINAL_VERIFY", wf.gen)
  /\ UNCHANGED <<attempts, gens, checks, evidence, eligible, decisions, closeout, repairs,
                 reconciled>>
-----------------------------------------------------------------------------
(* The decision, re-issued by the built-in engine from the current rows *)

Members(g) == {e \in evidence : e.attempt \in sets[g]}
Accounted(g) ==
  /\ \A e \in Members(g) : e.attempt \in eligible
  /\ \A o \in Obligations : \E e \in Members(g) : e.obligation = o
Found(g, result) == \E e \in Members(g) : e.result = result
Passing(holds) == IF holds THEN "PASS" ELSE "FAIL_BLOCKED"

\* The rules, of the rows and of what the manifest binds; no Goal has an issue.
RuleResults(d) ==
  [WORKFLOW_FINAL_VERIFY |-> Passing(wf.phase = "FINAL_VERIFY" /\ wf.version = d.version),
   CANDIDATE_CURRENT_FROZEN |-> Passing(wf.gen = d.gen /\ gens[d.gen].state = "FROZEN"),
   CANDIDATE_DIGEST_CURRENT |-> Passing(gens[d.gen].frozen = d.digest),
   REQUIRED_OBLIGATIONS_PRESENT |-> Passing(LocalCommand => d.gen \in checks),
   REQUIRED_EVIDENCE_PASSING |->
     IF sets[d.gen] = {} \/ ~Accounted(d.gen) THEN "FAIL_BLOCKED"
     ELSE IF Found(d.gen, "RUNNER_ERROR") THEN "ENGINE_ERROR"
     ELSE IF Found(d.gen, "FAIL") THEN "FAIL_REPAIRABLE" ELSE "PASS",
   MANIFEST_POLICY_CURRENT |-> Passing(sets[d.gen] = d.refs)]

\* An error dominates a block, a block a repair, and a repair a pass.
Aggregated(results) ==
  LET found == {results[rule] : rule \in DOMAIN results} IN
  CASE "ENGINE_ERROR" \in found -> "ENGINE_ERROR"
    [] "ENGINE_ERROR" \notin found /\ "FAIL_BLOCKED" \in found -> "REJECT_BLOCKED"
    [] found \intersect {"ENGINE_ERROR", "FAIL_BLOCKED"} = {}
       /\ "FAIL_REPAIRABLE" \in found -> "REJECT_REPAIRABLE"
    [] OTHER -> "ACCEPT"

\* A manifest is current when the rows compile to that same manifest again.
Compiled(d) ==
  /\ FrozenAuthority /\ wf.phase = "FINAL_VERIFY" /\ sets[wf.gen] # {}
  /\ d.version = wf.version /\ d.gen = wf.gen
  /\ d.digest = gens[wf.gen].frozen /\ d.refs = sets[wf.gen]
Reissued(d) == Compiled(d) /\ d.outcome = Aggregated(RuleResults(d))

\* Any run status will do here too; the manifest's trigger wants READY.
CommitAcceptanceEvaluation ==
  /\ EvaluationRequest
  /\ \E d \in decisions' :
       /\ Reissued(d) /\ DecisionInserted(d)
       /\ \A other \in decisions : other.version = d.version => other.outcome = d.outcome
  /\ UNCHANGED <<wf, attempts, gens, checks, evidence, eligible, sets, closeout, repairs,
                 reconciled>>

\* A decision is consumed as it stands: re-issued, and of the outcome wanted.
Consumed(d, outcome) == Reissued(d) /\ d.outcome = outcome

CloseoutAdmitted(d) ==
  /\ Consumed(d, "ACCEPT")
  /\ CandidateApplies("ACCEPTED", gens[wf.gen].frozen) /\ PhaseTransitioned("CLOSEOUT", wf.gen)

CommitAcceptedCloseout ==
  /\ CloseoutRequest
  /\ \E d \in decisions : CloseoutAdmitted(d) /\ CloseoutInserted(d)
  /\ gens' = UpdatedGeneration(gens, wf.gen, "ACCEPTED", gens[wf.gen].frozen)
  /\ UNCHANGED <<attempts, checks, evidence, eligible, sets, decisions, repairs, reconciled>>

\* The generation is rejected first, then its child is inserted.
RepairAdmitted(d, g) ==
  /\ Consumed(d, "REJECT_REPAIRABLE") /\ NextGeneration(g)
  /\ CandidateApplies("REJECTED", gens[wf.gen].frozen) /\ PhaseTransitioned("IMPLEMENT", g)

CommitAcceptanceRepair ==
  /\ RepairRequest
  /\ \E d \in decisions, g \in Generations :
       /\ RepairAdmitted(d, g) /\ RepairInserted(d, g)
       /\ gens' = InsertedGeneration(
                    UpdatedGeneration(gens, wf.gen, "REJECTED", gens[wf.gen].frozen),
                    g, wf.gen, gens[wf.gen].frozen)
  /\ UNCHANGED <<attempts, checks, evidence, eligible, sets, decisions, closeout, reconciled>>

CommitStartupRecovery ==
  /\ StartupRequest
  /\ AttemptFinished(<<"INTERRUPTED", None, "BLOCKED">>) /\ ReconciliationInserted
  /\ UNCHANGED <<gens, checks, evidence, eligible, sets, decisions, closeout, repairs>>

\* The source Attempt: what an earlier reconciliation named, or what blocked the Goal.
ResumeSource(a) ==
  /\ attempts[a].status \in Ended /\ attempts[a].phase = wf.phase
  /\ \/ reconciled = wf.version
     \/ attempts[a].failure = "RECONCILE_FIRST" /\ attempts[a].ended = wf.version

CommitResumeRecovery ==
  /\ ResumeRequest /\ RecoveryApplies(wf, wf')
  /\ \E a \in Attempts : ResumeSource(a)
  /\ ReconciliationInserted
  /\ UNCHANGED <<attempts, gens, checks, evidence, eligible, sets, decisions, closeout, repairs>>

\* All but two of them advance the version of the Workflow.
Transaction ==
  \/ CommitAcceptanceEvaluation \/ CommitLocalCommandVerificationAuthority
  \/ /\ wf'.version = wf.version + 1
     /\ \/ CommitAttemptEvent \/ CommitWorkflowEvent \/ CommitCandidatePreparation
        \/ CommitWorkflowCandidateEvent \/ CommitCandidateIntegrityFailure
        \/ CommitVerificationIntegrityFailure \/ CommitCandidateAttemptOutcome
        \/ CommitVerificationAttemptOutcome \/ CommitEvidenceSetTransition
        \/ CommitAcceptedCloseout \/ CommitAcceptanceRepair
        \/ CommitStartupRecovery \/ CommitResumeRecovery
-----------------------------------------------------------------------------
(***************************************************************************)
(* The triggers, checks and unique indexes, one operator per table.  Each  *)
(* sees the other rows as its statement finds them: a generation is        *)
(* written before the Evidence of it, Evidence before the Attempt it ends, *)
(* and the Workflow after all of these; an Evidence Set, a decision and a  *)
(* reconciliation are inserted before the Workflow moves, a closeout and a *)
(* repair after.  Rows already written are primed.                         *)
(***************************************************************************)

NewAttempt(a) ==
  /\ attempts'[a].status = "RUNNING" /\ attempts'[a].failure = None /\ attempts'[a].ended = 0
  /\ \A b \in Attempts \ {a} : attempts[b].status # "RUNNING"
  /\ \A b \in Attempts : b < a => attempts[b].failure # "TRANSIENT"

\* What an Attempt that has ended, and no other, has filled in.
LifecycleShape(a) ==
  /\ attempts'[a].status \in Ended <=> attempts'[a].ended # 0
  /\ attempts'[a].status = "FAILED" <=> attempts'[a].failure # None

FinishedAttempt(a) ==
  /\ attempts[a].status = "RUNNING" /\ attempts'[a].status \in Ended
  /\ attempts'[a].phase = attempts[a].phase /\ LifecycleShape(a)
  /\ attempts'[a].failure = "TRANSIENT" =>
       /\ \A b \in Attempts : b > a => attempts[b].status = "NONE"
       /\ wf.phase = attempts'[a].phase /\ wf.status \in {"RUNNING", "BLOCKED"}

AttemptTriggers ==
  \A a \in Attempts :
    attempts'[a] # attempts[a] =>
      IF attempts[a].status = "NONE" THEN NewAttempt(a) ELSE FinishedAttempt(a)

\* The parent of a new generation is its predecessor, which has ended unaccepted.
NewGeneration(g) ==
  /\ gens'[g].state = "MUTABLE" /\ gens'[g].frozen = None
  /\ IF g = 1 THEN gens'[g].parent = None
     ELSE gens'[g].parent = g - 1 /\ gens'[g - 1].state \in {"INVALIDATED", "REJECTED"}

ChangedGeneration(g) ==
  /\ <<gens[g].state, gens'[g].state>> \in CandidateEdges
  /\ gens'[g].base = gens[g].base /\ gens'[g].parent = gens[g].parent
  /\ gens'[g].state = "FREEZING" => gens'[g].frozen = None
  /\ gens'[g].state \in {"FROZEN", "REJECTED", "ACCEPTED"} => gens'[g].frozen # None

GenerationTriggers ==
  /\ \A g \in Generations :
       gens'[g] # gens[g] =>
         IF gens[g].state = "NONE" THEN NewGeneration(g) ELSE ChangedGeneration(g)
  /\ \A g, h \in Generations : {gens'[g].state, gens'[h].state} \subseteq Current => g = h

\* Evidence becomes eligible once, when it is recorded.
EligibilityTriggers ==
  eligible' \ eligible \subseteq {e.attempt : e \in evidence' \ evidence}

\* Evidence is of a frozen generation, by an Attempt that is still running.
EvidenceTriggers ==
  /\ \A e \in evidence' \ evidence :
       /\ gens'[e.gen].state = "FROZEN" /\ gens'[e.gen].frozen = e.digest
       /\ attempts[e.attempt].status = "RUNNING"
       /\ \/ /\ e.kind = "CANDIDATE_FREEZE" /\ e.obligation = None /\ e.result = "OBSERVED"
             /\ attempts[e.attempt].phase = "SOURCE_FREEZE"
          \/ /\ e.kind = "TEST_RESULT" /\ e.obligation \in Obligations /\ e.result # "OBSERVED"
             /\ attempts[e.attempt].phase = "EVIDENCE_BUILD"

EvidenceSetTriggers ==
  \A g \in Generations :
    sets'[g] # sets[g] =>
      LET members == {e \in evidence : e.attempt \in sets'[g]} IN
      /\ sets[g] = {} /\ gens[g].state = "FROZEN"
      /\ \A e \in members : /\ e.gen = g /\ e.digest = gens[g].frozen
                            /\ e.obligation # None /\ e.attempt \in eligible
      /\ \A o \in Obligations : \E e \in members : e.obligation = o

DecisionTriggers ==
  \A d \in decisions' \ decisions :
    /\ wf.phase = "FINAL_VERIFY" /\ wf.status = "READY"
    /\ wf.version = d.version /\ wf.gen = d.gen
    /\ gens[d.gen].state = "FROZEN" /\ gens[d.gen].frozen = d.digest
    /\ sets[d.gen] = d.refs

CloseoutTriggers ==
  closeout' # closeout =>
    LET d == closeout'.decision IN
    /\ closeout = None
    /\ wf'.phase = "CLOSEOUT" /\ wf'.status = "CLOSED" /\ wf'.version = closeout'.version
    /\ gens'[d.gen].state = "ACCEPTED" /\ gens'[d.gen].frozen = d.digest
    /\ d.outcome = "ACCEPT" /\ d.version + 1 = wf'.version

RepairTriggers ==
  \A r \in repairs' \ repairs :
    LET d == r.decision IN
    /\ wf'.phase = "IMPLEMENT" /\ wf'.status = "READY"
    /\ wf'.version = r.version /\ wf'.gen = r.child
    /\ d.outcome = "REJECT_REPAIRABLE" /\ d.version + 1 = wf'.version
    /\ gens'[d.gen].state = "REJECTED" /\ gens'[d.gen].frozen = d.digest
    /\ r.child = d.gen + 1 /\ gens'[r.child].state = "MUTABLE"
    /\ gens'[r.child].parent = d.gen /\ gens'[r.child].base = d.digest

\* At startup the active Attempt is still running, at a resume none is.
RecoveryTriggers ==
  reconciled' # reconciled =>
    \/ /\ wf.status = "RUNNING" /\ wf.attempt # None
       /\ attempts[wf.attempt].status = "RUNNING" /\ attempts[wf.attempt].phase = wf.phase
    \/ /\ wf.status = "BLOCKED" /\ wf.attempt = None
       /\ \E a \in Attempts : attempts[a].status \in Ended /\ attempts[a].phase = wf.phase

\* A RUNNING Workflow is released only to what its terminated Attempt projects.
Released ==
  LET a == attempts'[wf.attempt] IN
  /\ a.phase = wf.phase /\ a.ended = wf'.version
  /\ wf'.phase = wf.phase /\ wf'.version = wf.version + 1 /\ wf'.attempt = None
  /\ \/ a.status = "RESULT_RECORDED" /\ wf'.status = "READY"
     \/ a.status = "FAILED" /\ a.failure # "NON_RETRYABLE" /\ wf'.status = "BLOCKED"
     \/ a.status = "FAILED" /\ a.failure = "NON_RETRYABLE" /\ wf'.status = "FAILED"
     \/ a.status = "INTERRUPTED" /\ wf'.status \in {"READY", "BLOCKED", "CANCELLED"}

\* Nothing but blocking or cancelling follows a transient failure.
RetryBoundaryKept ==
  \A a \in Attempts :
    /\ attempts'[a].failure = "TRANSIENT"
    /\ \A b \in Attempts : b > a => attempts'[b].status = "NONE"
    => wf'.phase = attempts'[a].phase /\ wf'.status \in {"BLOCKED", "CANCELLED"}

\* A Workflow runs the Attempt it owns, in its present phase.
ActiveAttemptPhase ==
  wf'.attempt # None => /\ attempts'[wf'.attempt].status = "RUNNING"
                        /\ attempts'[wf'.attempt].phase = wf'.phase

WorkflowTriggers ==
  wf' # wf =>
    /\ wf.status \notin {"CANCELLED", "CLOSED"} /\ wf'.version <= MaxVersion
    /\ wf'.status = "RUNNING" <=> wf'.attempt # None
    /\ ActiveAttemptPhase
    /\ wf'.gen # None => gens'[wf'.gen].state # "NONE"
    /\ wf'.phase \notin {"DISCOVERY", "PLAN"} => wf'.gen # None
    /\ wf'.phase = "CLOSEOUT" <=> wf'.status = "CLOSED"
    /\ wf.status = "RUNNING" /\ wf'.attempt # wf.attempt => Released
    /\ RetryBoundaryKept

TriggersAccept ==
  /\ AttemptTriggers /\ GenerationTriggers
  /\ EvidenceTriggers /\ EligibilityTriggers /\ EvidenceSetTriggers
  /\ DecisionTriggers /\ CloseoutTriggers /\ RepairTriggers /\ RecoveryTriggers
  /\ WorkflowTriggers
-----------------------------------------------------------------------------
\* The rows that creating a Goal inserts.
Init ==
  /\ wf = [phase |-> "DISCOVERY", status |-> "READY", version |-> 1,
           attempt |-> None, gen |-> None]
  /\ \A a \in Attempts : attempts[a].status = "NONE"
  /\ \A g \in Generations : gens[g].state = "NONE" /\ sets[g] = {}
  /\ checks = {} /\ evidence = {} /\ eligible = {} /\ decisions = {}
  /\ closeout = None /\ repairs = {} /\ reconciled = 0

\* Every row written is decoded again before the transaction commits.
WorkflowDecoded == WorkflowRecord(wf) /\ ActiveAttempt(wf, attempts)
AttemptsDecoded ==
  \A a \in Attempts : attempts[a].status = "NONE" \/ AttemptRecord(attempts[a])
GenerationsDecoded ==
  \A g \in Generations : gens[g].state = "NONE" \/ CandidateRecord(gens, g)
EvidenceDecoded == \A e \in evidence : EvidenceRecord(e)
EvidenceSetsDecoded ==
  \A g \in Generations : sets[g] = {} \/ EvidenceSetRecord(Members(g))
RepairsDecoded == \A r \in repairs : RepairRecord(r)

RowsDecoded ==
  /\ WorkflowDecoded /\ AttemptsDecoded /\ GenerationsDecoded
  /\ EvidenceDecoded /\ EvidenceSetsDecoded /\ RepairsDecoded

\* Eligibility is append-only: version 1 with the record, version 2 without return.
EligibilityDecoded ==
  EligibilityChange({e.attempt : e \in evidence' \ evidence}, eligible, eligible')

Next == Transaction /\ TriggersAccept /\ RowsDecoded' /\ EligibilityDecoded
Spec == Init /\ [][Next]_rows
=============================================================================
