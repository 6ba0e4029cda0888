----------------------- MODULE RetainedAuthorityProofs -----------------------
(* The audit of RetainedAuthority and the readers of AuthorityReads accept    *)
(* every state that the kernels of one data home can commit, for every value  *)
(* of the constants.                                                          *)
EXTENDS AuthorityReads, WorkflowControlProofs, SequenceTheorems, FiniteSetTheorems

USE ConstantsAssumption, NoneAssumption

-----------------------------------------------------------------------------
(* The inductive invariant: per kind of row, the rows, what explains them in   *)
(* the audits, and what the other parts have to know of both.                  *)

EventTypes ==
  {"WORKFLOW_CREATED", "WORKFLOW_ATTEMPT_STARTED", "WORKFLOW_ATTEMPT_FINISHED",
   "WORKFLOW_CANCELLED", "WORKFLOW_PHASE_TRANSITIONED", "WORKFLOW_INTEGRITY_FAILED",
   "WORKFLOW_RECOVERY_RECONCILED"}
Events == [type : EventTypes, phase : Phases, status : RunStatuses,
           gen : Generations \union {None}, base : Digests \union {None}]

(* One event per version, the last one of the present state, and each naming  *)
(* the base that its generation still has.                                    *)
TrailSound ==
  /\ trail \in Seq(Events) /\ Len(trail) = wf.version
  /\ trail[wf.version].phase = wf.phase /\ trail[wf.version].status = wf.status
  /\ wf.status = "CLOSED" => trail[wf.version].type = "WORKFLOW_PHASE_TRANSITIONED"
  /\ \A i \in 1..wf.version : trail[i].gen # None =>
       gens[trail[i].gen].state # "NONE" /\ gens[trail[i].gen].base = trail[i].base

StartAudited(a) ==
  \E s \in 1..wf.version :
    /\ attemptAudits[a].starts = {s}
    /\ trail[s].type = "WORKFLOW_ATTEMPT_STARTED"
    /\ trail[s].phase = attempts[a].phase /\ trail[s].status = "RUNNING"

EndAudited(a) ==
  /\ attemptAudits[a].ends = {attempts[a].ended} /\ attempts[a].ended \in 1..wf.version
  /\ LET end == trail[attempts[a].ended] IN
     /\ end.type \in {"WORKFLOW_ATTEMPT_FINISHED", "WORKFLOW_CANCELLED"}
     /\ end.phase = attempts[a].phase
     /\ RunStatusAuthorized(a, end.status)
     /\ end.status = "CANCELLED" <=> end.type = "WORKFLOW_CANCELLED"

Ended == {"RESULT_RECORDED", "FAILED", "INTERRUPTED"}

AttemptAudited(a) ==
  /\ attempts[a].status = "NONE" => attemptAudits[a].starts = {} /\ attemptAudits[a].ends = {}
  /\ attempts[a].status # "NONE" => StartAudited(a)
  /\ attempts[a].status = "RUNNING" => attemptAudits[a].ends = {}
  /\ attempts[a].status \in {"NONE", "RUNNING"} => attempts[a].ended = 0
  /\ attempts[a].status \in Ended => EndAudited(a)

AttemptsAudited ==
  /\ attemptAudits \in [Attempts -> [starts : SUBSET Nat, ends : SUBSET Nat]]
  /\ \A a \in Attempts : AttemptAudited(a)

(* Attempts end in the order in which they are numbered.                      *)
EndsOrdered ==
  \A a, b \in Attempts : a < b /\ attempts[b].ended # 0 => attempts[a].ended < attempts[b].ended

TransientPhase ==
  \A a \in Attempts : attempts[a].failure = "TRANSIENT" => attempts[a].phase = wf.phase

Kinds == {"POLICY", "PROFILE"}

Unstarted == (\A kind \in Kinds : bindings[kind] = {}) /\ UnstartedClosure
FirstStarted ==
  /\ wf.version >= 2 /\ trail[2].type = "WORKFLOW_ATTEMPT_STARTED"
  /\ \A kind \in Kinds : bindings[kind] = {2}
  /\ \E first \in Attempts :
       /\ attempts[first].status # "NONE" /\ attempts[first].phase = "DISCOVERY"
       /\ attemptAudits[first].starts = {2}
       /\ \A a \in Attempts : a < first => attempts[a].status = "NONE"

StartedOnce ==
  /\ bindings \in [Kinds -> SUBSET Nat]
  /\ Unstarted \/ FirstStarted

(* Whatever was reconciled last has its record.                               *)
RecoveriesRecorded ==
  /\ recoveries \subseteq [purpose : {"STARTUP", "RESUME"}, from : Attempts, version : Nat \ {0}]
  /\ reconciled # 0 => \E r \in recoveries : r.version = reconciled
  /\ RecoveryClosure

GenerationsAudited ==
  /\ generationAudits \in [Generations -> Seq(Nat)]
  /\ \A g \in Generations :
       IF gens[g].state = "NONE" THEN generationAudits[g] = <<>>
       ELSE Len(generationAudits[g]) = GenerationVersion(g)

(* The active generation is the latest one; what is not frozen has no identity.*)
LatestActive ==
  \A g \in Generations :
    /\ gens[g].state # "NONE" => wf.gen # None /\ g <= wf.gen
    /\ gens[g].state \in {"MUTABLE", "FREEZING"} => gens[g].frozen = None

FreezesOf(g) == {e \in EvidenceOf(g) : e.kind = "CANDIDATE_FREEZE"}

(* A generation collects Evidence only while it is frozen, one freeze record   *)
(* first, and all of it stays eligible unless the generation is invalidated.   *)
EvidenceComplete ==
  /\ IsFiniteSet(evidence)
  /\ \A e \in evidence : gens[e.gen].state # "INVALIDATED" => e.attempt \in eligible
  /\ \A g \in Generations :
       /\ gens[g].state \in {"NONE", "MUTABLE", "FREEZING"} => EvidenceOf(g) = {}
       /\ gens[g].state \in FrozenStates => \E f \in FreezesOf(g) : FreezesOf(g) = {f}

EvidenceRecords == \A e \in evidence : EvidenceRecordClosure(e)

EvidenceAudited ==
  /\ evidenceAudits \in [Attempts -> Seq(Nat)]
  /\ \A a \in Attempts : (\A e \in evidence : e.attempt # a) => evidenceAudits[a] = <<>>
  /\ \A e \in evidence :
       EvidenceHistoryClosure(e) /\ evidenceAudits[e.attempt][1] <= wf.version

SetsAudited ==
  /\ setAudits \in [Generations -> SUBSET (1..wf.version)]
  /\ \A g \in Generations :
       /\ EvidenceSetClosure(g)
       /\ sets[g] = {} => setAudits[g] = {}
       /\ sets[g] # {} => gens[g].state \in FrozenStates \union {"INVALIDATED"}
  /\ wf.gen # None => (sets[wf.gen] # {} <=> wf.phase \in {"FINAL_VERIFY", "CLOSEOUT"})

DecisionsAudited == \A d \in decisions : DecisionClosure(d) /\ sets[d.gen] # {}

RepairsAudited ==
  /\ \A r \in repairs : RepairClosure(r) /\ RepairAuditClosure(r)
  /\ \A g \in Generations : gens[g].state = "REJECTED" =>
       \E r \in repairs : {q \in repairs : q.decision.gen = g} = {r}

ContextsRetained ==
  /\ manifests \in [Attempts -> Manifest \union {None}]
  /\ \A a \in Attempts :
       /\ attempts[a].status = "NONE" => manifests[a] = None
       /\ manifests[a] # None /\ manifests[a].candidate # None =>
            gens[manifests[a].candidate.gen].state # "NONE"
  /\ ContextClosure

RetainedInvariant ==
  /\ TrailSound /\ AttemptsAudited /\ EndsOrdered /\ TransientPhase
  /\ StartedOnce /\ RecoveriesRecorded
  /\ GenerationsAudited /\ LatestActive
  /\ EvidenceComplete /\ EvidenceRecords /\ VerifiesChecked /\ EvidenceAudited
  /\ SetsAudited /\ DecisionsAudited /\ RepairsAudited /\ ContextsRetained

-----------------------------------------------------------------------------
(* The steps, by what they do to the rows and to their audits *)

Moved(type, phase, status, attempt, gen) ==
  /\ wf'.version = wf.version + 1
  /\ wf'.phase = phase /\ wf'.status = status /\ wf'.attempt = attempt /\ wf'.gen = gen
  /\ Record(type)

Transitioned(phase, status, gen) ==
  Moved("WORKFLOW_PHASE_TRANSITIONED", phase, status, wf.attempt, gen)

(* What only some of the steps change.                                        *)
CandidateRows == <<gens, generationAudits>>
EvidenceRows == <<evidence, eligible, evidenceAudits>>
AttemptRows == <<attempts, attemptAudits, manifests>>
AcceptanceRows == <<sets, setAudits, decisions, closeout, repairs>>
RecoveryRows == <<reconciled, recoveries>>

Starts(a) ==
  /\ wf.status = "READY" /\ FreshAttempt(a)
  /\ Moved("WORKFLOW_ATTEMPT_STARTED", wf.phase, "RUNNING", a, wf.gen)
  /\ attempts' = [attempts EXCEPT ![a] = [@ EXCEPT !.status = "RUNNING", !.phase = wf.phase]]
  /\ RecordStart(a)
  /\ \/ wf.version = 1 /\ BindAuthority(TRUE)
     \/ wf.version > 1 /\ BindAuthority(FALSE) /\ RepairContextCurrent
  /\ IF wf.phase \in CodingPhases THEN RecordContext(a) ELSE UNCHANGED manifests
  /\ UNCHANGED <<CandidateRows, EvidenceRows, AcceptanceRows, RecoveryRows, checks>>

Freezes ==
  /\ wf.phase = "SOURCE_FREEZE" /\ ActiveState("FREEZING")
  /\ \E d \in Digests :
       /\ gens' = [gens EXCEPT ![wf.gen] = [@ EXCEPT !.state = "FROZEN", !.frozen = d]]
       /\ RecordEvidence("CANDIDATE_FREEZE", None, d, "OBSERVED")
  /\ RecordGenerations({wf.gen}) /\ RecordEligibility({wf.attempt})

Verifies ==
  /\ wf.phase = "EVIDENCE_BUILD" /\ ActiveState("FROZEN")
  /\ \E o \in Obligations, result \in Results :
       RecordEvidence("TEST_RESULT", o, gens[wf.gen].frozen, result)
  /\ LocalCommand => wf.gen \in checks
  /\ RecordEligibility({wf.attempt}) /\ UNCHANGED CandidateRows

Invalidates ==
  /\ \E state \in {"FREEZING", "FROZEN"} : ActiveState(state)
  /\ Invalidate(wf.gen) /\ UNCHANGED evidence
  /\ RecordGenerations({wf.gen}) /\ RecordEligibility(Discredited)

Ends(status, failure, runStatus) ==
  /\ wf.status = "RUNNING" /\ Ending(status, failure, runStatus)
  /\ status = "RESULT_RECORDED" => runStatus = "READY"
  /\ Moved("WORKFLOW_ATTEMPT_FINISHED", wf.phase, runStatus, None, wf.gen)
  /\ attempts' = [attempts EXCEPT ![wf.attempt] =
                    [@ EXCEPT !.status = status, !.failure = failure,
                              !.ended = wf.version + 1]]
  /\ RecordEnd(wf.attempt)
  /\ UNCHANGED <<AcceptanceRows, bindings, checks, manifests>>
  /\ \/ UNCHANGED <<CandidateRows, EvidenceRows, RecoveryRows>>
     \/ /\ status = "INTERRUPTED" /\ runStatus = "BLOCKED" /\ reconciled' = wf.version + 1
        /\ RecordRecovery("STARTUP", wf.attempt) /\ UNCHANGED <<CandidateRows, EvidenceRows>>
     \/ status = "RESULT_RECORDED" /\ (Freezes \/ Verifies) /\ UNCHANGED RecoveryRows
     \/ status = "FAILED" /\ failure = "NON_RETRYABLE" /\ Invalidates /\ UNCHANGED RecoveryRows

Cancels ==
  /\ wf.status \notin {"CANCELLED", "CLOSED"}
  /\ Moved("WORKFLOW_CANCELLED", wf.phase, "CANCELLED", None, wf.gen)
  /\ IF wf.status = "RUNNING"
     THEN /\ attempts' = [attempts EXCEPT ![wf.attempt] =
                            [@ EXCEPT !.status = "INTERRUPTED", !.ended = wf.version + 1]]
          /\ RecordEnd(wf.attempt)
     ELSE UNCHANGED <<attempts, attemptAudits>>
  /\ UNCHANGED <<CandidateRows, EvidenceRows, AcceptanceRows, RecoveryRows, bindings, checks,
                 manifests>>

Enters ==
  /\ wf.version > 1 /\ wf.status = "READY"
  /\ \/ wf.phase = "DISCOVERY" /\ Transitioned("PLAN", "READY", wf.gen)
     \/ wf.phase = "SOURCE_FREEZE" /\ Transitioned("EVIDENCE_BUILD", "READY", wf.gen)
  /\ UNCHANGED <<AttemptRows, CandidateRows, EvidenceRows, AcceptanceRows, RecoveryRows,
                 bindings, checks>>

Prepares(g, d) ==
  /\ wf.version > 1 /\ wf.status = "READY" /\ wf.phase = "PLAN" /\ FreshGeneration(g)
  /\ Transitioned("IMPLEMENT", "READY", g)
  /\ gens' = [gens EXCEPT ![g] = PrepareGeneration(wf.gen, d)] /\ RecordGenerations({g})
  /\ UNCHANGED <<AttemptRows, EvidenceRows, AcceptanceRows, RecoveryRows, bindings, checks>>

BeginsFreeze ==
  /\ wf.version > 1 /\ wf.status = "READY" /\ wf.phase = "IMPLEMENT" /\ ActiveState("MUTABLE")
  /\ Transitioned("SOURCE_FREEZE", "READY", wf.gen)
  /\ gens' = [gens EXCEPT ![wf.gen].state = "FREEZING"] /\ RecordGenerations({wf.gen})
  /\ UNCHANGED <<AttemptRows, EvidenceRows, AcceptanceRows, RecoveryRows, bindings, checks>>

RecordsSet ==
  /\ wf.version > 1 /\ wf.status = "READY" /\ wf.phase = "EVIDENCE_BUILD"
  /\ ActiveState("FROZEN") /\ Accountable
  /\ Transitioned("FINAL_VERIFY", "READY", wf.gen)
  /\ sets' = [sets EXCEPT ![wf.gen] = {e.attempt : e \in TestEvidence(wf.gen)}]
  /\ setAudits' = [setAudits EXCEPT ![wf.gen] = @ \union {wf'.version}]
  /\ UNCHANGED <<AttemptRows, CandidateRows, EvidenceRows, RecoveryRows, bindings, checks,
                 decisions, closeout, repairs>>

Consuming(outcome, d) ==
  /\ wf.version > 1 /\ wf.status = "READY" /\ wf.phase = "FINAL_VERIFY"
  /\ ActiveState("FROZEN")
  /\ d \in decisions /\ d.outcome = outcome /\ d = CurrentDecision
  /\ UNCHANGED <<AttemptRows, EvidenceRows, RecoveryRows, bindings, checks, sets, setAudits,
                 decisions>>

Closes(d) ==
  /\ Consuming("ACCEPT", d) /\ Transitioned("CLOSEOUT", "CLOSED", wf.gen)
  /\ gens' = [gens EXCEPT ![wf.gen].state = "ACCEPTED"] /\ RecordGenerations({wf.gen})
  /\ closeout' = [version |-> wf.version + 1, decision |-> d] /\ UNCHANGED repairs

Rejects(g, d) ==
  /\ Consuming("REJECT_REPAIRABLE", d) /\ FreshGeneration(g)
  /\ Transitioned("IMPLEMENT", "READY", g)
  /\ gens' = [gens EXCEPT ![wf.gen].state = "REJECTED",
                          ![g] = PrepareGeneration(wf.gen, gens[wf.gen].frozen)]
  /\ RecordGenerations({wf.gen, g})
  /\ repairs' = repairs \union {[version |-> wf.version + 1, decision |-> d, child |-> g]}
  /\ UNCHANGED closeout

FailsIntegrity ==
  /\ wf.version > 1 /\ wf.status = "READY"
  /\ Moved("WORKFLOW_INTEGRITY_FAILED", wf.phase, "FAILED", wf.attempt, wf.gen)
  /\ Invalidates
  /\ UNCHANGED <<AttemptRows, AcceptanceRows, RecoveryRows, bindings, checks>>

Resumes(status) ==
  /\ RecoverableBlocker
  /\ Moved("WORKFLOW_RECOVERY_RECONCILED", wf.phase, status, wf.attempt, wf.gen)
  /\ reconciled' = wf.version + 1 /\ RecordRecovery("RESUME", SourceAttempt)
  /\ UNCHANGED <<AttemptRows, CandidateRows, EvidenceRows, AcceptanceRows, bindings, checks>>

StaysPut ==
  /\ UNCHANGED <<wf, trail, AttemptRows, CandidateRows, EvidenceRows, RecoveryRows, bindings,
                 sets, setAudits, closeout, repairs>>
  /\ checks \subseteq checks'
  /\ \/ UNCHANGED decisions
     \/ /\ wf.phase = "FINAL_VERIFY" /\ ActiveState("FROZEN")
        /\ decisions' = decisions \union {CurrentDecision}

LEMMA StartMoves ==
  ASSUME Core, Starting PROVE \E a \in Attempts : Starts(a)
<1>1. PICK a \in Attempts :
        /\ \/ StartGoal(a) /\ BindAuthority(TRUE)
           \/ \E p \in Procs : BeginAttempt(p, a) /\ BindAuthority(FALSE)
        /\ Record("WORKFLOW_ATTEMPT_STARTED") /\ RecordStart(a)
        /\ IF wf.phase \in CodingPhases THEN RecordContext(a) ELSE UNCHANGED manifests
        /\ UNCHANGED <<generationAudits, evidenceAudits, setAudits, recoveries>>
  BY DEF Starting
<1>2. wf.version \in Nat \ {0}
  BY DEF Core, TypeOK, Workflow
<1>3. /\ wf.status = "READY" /\ FreshAttempt(a) /\ Start(a)
      /\ \/ wf.version = 1 /\ BindAuthority(TRUE)
         \/ wf.version > 1 /\ BindAuthority(FALSE) /\ RepairContextCurrent
      /\ UNCHANGED <<gens, checks, evidence, eligible, sets, decisions, closeout, repairs,
                     reconciled>>
  <2>1. CASE StartGoal(a) /\ BindAuthority(TRUE)
    <3>1. wf.version = 1
      BY <1>2, <2>1 DEF StartGoal, Started
    <3> QED BY <2>1, <3>1 DEF StartGoal
  <2>2. ASSUME NEW p \in Procs, BeginAttempt(p, a), BindAuthority(FALSE)
        PROVE  /\ wf.status = "READY" /\ FreshAttempt(a) /\ Start(a)
               /\ wf.version > 1 /\ BindAuthority(FALSE) /\ RepairContextCurrent
               /\ UNCHANGED <<gens, checks, evidence, eligible, sets, decisions, closeout,
                              repairs, reconciled>>
    BY <2>2 DEF BeginAttempt, Started
  <2> QED BY <1>1, <2>1, <2>2
<1>4. /\ wf'.version = wf.version + 1 /\ wf'.phase = wf.phase /\ wf'.status = "RUNNING"
      /\ wf'.attempt = a /\ wf'.gen = wf.gen
      /\ attempts' = [attempts EXCEPT ![a] = [@ EXCEPT !.status = "RUNNING", !.phase = wf.phase]]
  BY <1>3 DEF Start, Advance, Core, TypeOK, Workflow
<1> QED
  BY <1>1, <1>3, <1>4
     DEF Starts, Moved, CandidateRows, EvidenceRows, AcceptanceRows, RecoveryRows

LEMMA EndMoves ==
  ASSUME Core, wf.status = "RUNNING", NEW status, NEW failure, NEW runStatus,
         FinishAttempt(status, failure, runStatus), Record("WORKFLOW_ATTEMPT_FINISHED")
  PROVE  /\ Moved("WORKFLOW_ATTEMPT_FINISHED", wf.phase, runStatus, None, wf.gen)
         /\ attempts' = [attempts EXCEPT ![wf.attempt] =
                           [@ EXCEPT !.status = status, !.failure = failure,
                                     !.ended = wf.version + 1]]
         /\ attempts'[wf.attempt].status = status
<1>1. wf.attempt \in Attempts /\ attempts[wf.attempt] \in Attempt
  BY Owner DEF Core, TypeOK
<1>2. attempts'[wf.attempt].status = status
  BY <1>1 DEF FinishAttempt, Core, TypeOK, Attempt
<1>3. /\ wf'.version = wf.version + 1 /\ wf'.phase = wf.phase /\ wf'.status = runStatus
      /\ wf'.attempt = None /\ wf'.gen = wf.gen
  BY DEF FinishAttempt, Advance, Core, TypeOK, Workflow
<1> QED BY <1>2, <1>3 DEF FinishAttempt, Moved

LEMMA WorkMoves ==
  ASSUME Core, FinishingWork, Record("WORKFLOW_ATTEMPT_FINISHED"), RecordEnd(wf.attempt),
         UNCHANGED <<bindings, setAudits, recoveries, manifests>>
  PROVE  \E status, failure, runStatus : Ends(status, failure, runStatus)
<1>1. PICK status, failure, runStatus :
        /\ FinishAttempt(status, failure, runStatus) /\ Ending(status, failure, runStatus)
        /\ wf.status = "RUNNING" /\ (status = "RESULT_RECORDED" => runStatus = "READY")
        /\ UNCHANGED <<gens, checks, evidence, eligible, sets, decisions, closeout, repairs,
                       reconciled>>
  BY DEF FinishingWork, RecordAttemptResult, RecordAttemptFailure, InterruptAttempt, Ending
<1> QED
  BY <1>1, EndMoves
     DEF FinishingWork, Ends, CandidateRows, EvidenceRows, AcceptanceRows, RecoveryRows

LEMMA FreezeMoves ==
  ASSUME Core, FinishingFreeze, Record("WORKFLOW_ATTEMPT_FINISHED"), RecordEnd(wf.attempt),
         UNCHANGED <<bindings, setAudits, recoveries, manifests>>
  PROVE  \E status, failure, runStatus : Ends(status, failure, runStatus)
<1>1. PICK p \in Procs : CompleteSourceFreeze(p)
  BY DEF FinishingFreeze
<1>2. /\ wf.status = "RUNNING" /\ wf.phase = "SOURCE_FREEZE" /\ ActiveState("FREEZING")
      /\ UNCHANGED <<checks, sets, decisions, closeout, repairs, reconciled>>
  BY <1>1 DEF CompleteSourceFreeze, OwnedAttempt
<1>3. CASE Unstable(p)
  <2>1. /\ Invalidate(wf.gen) /\ UNCHANGED evidence
        /\ FinishAttempt("FAILED", "NON_RETRYABLE", "FAILED")
    BY <1>1, <1>3 DEF CompleteSourceFreeze, ResultingRunStatus
  <2>2. attempts'[wf.attempt].status = "FAILED"
    BY <1>2, <2>1, EndMoves
  <2>3. RecordGenerations({wf.gen}) /\ RecordEligibility(Discredited)
    BY <2>2 DEF FinishingFreeze
  <2>4. Invalidates
    BY <1>2, <2>1, <2>3 DEF Invalidates
  <2>5. Ending("FAILED", "NON_RETRYABLE", "FAILED")
    BY DEF Ending, ResultingRunStatus, FailureClasses
  <2>6. Ends("FAILED", "NON_RETRYABLE", "FAILED")
    BY <1>2, <2>1, <2>4, <2>5, EndMoves DEF Ends, AcceptanceRows, RecoveryRows
  <2> QED BY <2>6
<1>4. CASE ~Unstable(p)
  <2>1. /\ gens' = [gens EXCEPT ![wf.gen] = [@ EXCEPT !.state = "FROZEN",
                                                     !.frozen = plan[p].second]]
        /\ RecordEvidence("CANDIDATE_FREEZE", None, plan[p].second, "OBSERVED")
        /\ FinishAttempt("RESULT_RECORDED", None, "READY")
    BY <1>1, <1>4 DEF CompleteSourceFreeze
  <2>2. attempts'[wf.attempt].status = "RESULT_RECORDED"
    BY <1>2, <2>1, EndMoves
  <2>3. RecordGenerations({wf.gen}) /\ RecordEligibility({wf.attempt})
    BY <2>2 DEF FinishingFreeze
  <2>4. plan[p].second \in Digests
    BY <1>1, <1>4 DEF CompleteSourceFreeze, Unstable, PlanBinding, Core
  <2>5. Freezes
    BY <1>2, <2>1, <2>3, <2>4 DEF Freezes
  <2>6. Ending("RESULT_RECORDED", None, "READY")
    BY DEF Ending
  <2>7. Ends("RESULT_RECORDED", None, "READY")
    BY <1>2, <2>1, <2>5, <2>6, EndMoves DEF Ends, AcceptanceRows, RecoveryRows
  <2> QED BY <2>7
<1> QED BY <1>3, <1>4

(* How a check ends the Attempt it was run for.                               *)
CheckEnds ==
  /\ wf.status = "RUNNING"
  /\ UNCHANGED <<checks, sets, decisions, closeout, repairs, reconciled>>
  /\ \/ /\ FinishAttempt("FAILED", "NON_RETRYABLE", "FAILED")
        /\ UNCHANGED <<gens, evidence, eligible>>
     \/ /\ FinishAttempt("FAILED", "NON_RETRYABLE", "FAILED")
        /\ ActiveState("FROZEN") /\ Invalidate(wf.gen) /\ UNCHANGED evidence
     \/ /\ FinishAttempt("RESULT_RECORDED", None, "READY")
        /\ wf.phase = "EVIDENCE_BUILD" /\ ActiveState("FROZEN")
        /\ LocalCommand => wf.gen \in checks
        /\ UNCHANGED gens
        /\ \E o \in Obligations, result \in Results :
             RecordEvidence("TEST_RESULT", o, gens[wf.gen].frozen, result)

LEMMA RunMoves ==
  ASSUME Core, NEW o \in Obligations, NEW result \in Results \union {"PROTOCOL_ERROR"},
         RunVerification(o, result)
  PROVE  CheckEnds
<1>1. CASE result = "PROTOCOL_ERROR"
  BY <1>1 DEF RunVerification, OwnedAttempt, ResultingRunStatus, CheckEnds
<1>2. CASE result # "PROTOCOL_ERROR"
  <2>1. /\ FinishAttempt("RESULT_RECORDED", None, "READY") /\ ~LocalCommand
        /\ wf.status = "RUNNING" /\ wf.phase = "EVIDENCE_BUILD" /\ ActiveState("FROZEN")
        /\ UNCHANGED <<gens, checks, sets, decisions, closeout, repairs, reconciled>>
        /\ RecordEvidence("TEST_RESULT", o, gens[wf.gen].frozen, result)
    BY <1>2 DEF RunVerification, OwnedAttempt
  <2>2. result \in Results
    BY <1>2
  <2> QED BY <2>1, <2>2 DEF CheckEnds
<1> QED BY <1>1, <1>2

LEMMA CheckMoves ==
  ASSUME Core, VerifiesChecked, NEW p \in Procs, CompleteLocalVerification(p)
  PROVE  CheckEnds
<1>1. /\ wf.status = "RUNNING" /\ wf.phase = "EVIDENCE_BUILD" /\ ActiveState("FROZEN")
      /\ plan[p].cmd = "VERIFY" /\ wf.gen = plan[p].gen
      /\ UNCHANGED <<checks, sets, decisions, closeout, repairs, reconciled>>
  BY DEF CompleteLocalVerification, OwnedAttempt
<1>2. wf.gen \in checks
  BY <1>1 DEF VerifiesChecked
<1>3. CASE \/ /\ FinishAttempt("FAILED", "NON_RETRYABLE", ResultingRunStatus("NON_RETRYABLE"))
              /\ Invalidate(wf.gen) /\ UNCHANGED evidence
           \/ /\ FinishAttempt("FAILED", "NON_RETRYABLE", ResultingRunStatus("NON_RETRYABLE"))
              /\ UNCHANGED <<gens, evidence, eligible>>
  BY <1>1, <1>3 DEF ResultingRunStatus, CheckEnds
<1>4. CASE /\ ~CheckedSourceDrifted(p)
           /\ plan[p].result # "PROTOCOL_ERROR" /\ plan[p].second # None
           /\ RecordEvidence("TEST_RESULT", plan[p].obligation, plan[p].second, plan[p].result)
           /\ FinishAttempt("RESULT_RECORDED", None, "READY") /\ UNCHANGED gens
  <2>1. plan[p].result # None
    BY <1>4 DEF CompleteLocalVerification
  <2>2. plan[p].second = gens[wf.gen].frozen
    BY <1>1, <1>4 DEF CheckedSourceDrifted
  <2>3. plan[p].result \in Results /\ plan[p].obligation \in Obligations
    BY <1>1, <1>4, <2>1 DEF Core, TypeOK, Plan, PlanBinding
  <2>4. RecordEvidence("TEST_RESULT", plan[p].obligation, gens[wf.gen].frozen, plan[p].result)
    BY <1>4, <2>2
  <2> QED BY <1>1, <1>2, <1>4, <2>3, <2>4 DEF CheckEnds
<1> QED BY <1>3, <1>4 DEF CompleteLocalVerification

LEMMA VerificationMoves ==
  ASSUME Core, VerifiesChecked, FinishingVerification, Record("WORKFLOW_ATTEMPT_FINISHED"),
         RecordEnd(wf.attempt), UNCHANGED <<bindings, setAudits, recoveries, manifests>>
  PROVE  \E status, failure, runStatus : Ends(status, failure, runStatus)
<1>1. CheckEnds
  BY RunMoves, CheckMoves DEF FinishingVerification
<1>2. /\ wf.status = "RUNNING"
      /\ UNCHANGED <<checks, AcceptanceRows, bindings, RecoveryRows, manifests>>
  BY <1>1 DEF CheckEnds, AcceptanceRows, RecoveryRows
<1>3. Ending("FAILED", "NON_RETRYABLE", "FAILED") /\ Ending("RESULT_RECORDED", None, "READY")
  BY DEF Ending, ResultingRunStatus, FailureClasses
<1>4. CASE FinishAttempt("FAILED", "NON_RETRYABLE", "FAILED") /\ UNCHANGED <<gens, evidence, eligible>>
  <2>1. attempts'[wf.attempt].status = "FAILED"
    BY <1>2, <1>4, EndMoves
  <2>2. UNCHANGED <<CandidateRows, EvidenceRows>>
    BY <1>4, <2>1 DEF FinishingVerification, CandidateRows, EvidenceRows
  <2>3. Ends("FAILED", "NON_RETRYABLE", "FAILED")
    BY <1>2, <1>3, <1>4, <2>2, EndMoves DEF Ends
  <2> QED BY <2>3
<1>5. CASE /\ FinishAttempt("FAILED", "NON_RETRYABLE", "FAILED")
           /\ ActiveState("FROZEN") /\ Invalidate(wf.gen) /\ UNCHANGED evidence
  <2>1. attempts'[wf.attempt].status = "FAILED"
    BY <1>2, <1>5, EndMoves
  <2>2. gens'[wf.gen].state = "INVALIDATED" /\ gens[wf.gen].state = "FROZEN"
    <3>1. wf.gen \in Generations /\ gens[wf.gen].state = "FROZEN"
      BY <1>5, Active DEF ActiveState
    <3> QED BY <1>5, <3>1 DEF Invalidate, Core, TypeOK, Generation
  <2>3. Invalidates
    BY <1>5, <2>1, <2>2 DEF FinishingVerification, Invalidates
  <2>4. Ends("FAILED", "NON_RETRYABLE", "FAILED")
    BY <1>2, <1>3, <1>5, <2>3, EndMoves DEF Ends
  <2> QED BY <2>4
<1>6. CASE /\ FinishAttempt("RESULT_RECORDED", None, "READY")
           /\ wf.phase = "EVIDENCE_BUILD" /\ ActiveState("FROZEN")
           /\ LocalCommand => wf.gen \in checks
           /\ UNCHANGED gens
           /\ \E o \in Obligations, result \in Results :
                RecordEvidence("TEST_RESULT", o, gens[wf.gen].frozen, result)
  <2>1. attempts'[wf.attempt].status = "RESULT_RECORDED"
    BY <1>2, <1>6, EndMoves
  <2>2. RecordEligibility({wf.attempt}) /\ UNCHANGED generationAudits
    BY <2>1 DEF FinishingVerification
  <2>3. Verifies
    BY <1>6, <2>2 DEF Verifies, CandidateRows
  <2>4. Ends("RESULT_RECORDED", None, "READY")
    BY <1>2, <1>3, <1>6, <2>3, EndMoves DEF Ends
  <2> QED BY <2>4
<1> QED BY <1>1, <1>4, <1>5, <1>6 DEF CheckEnds

LEMMA CancelMoves == ASSUME Core, Cancelling PROVE Cancels
<1>1. /\ wf'.version = wf.version + 1 /\ wf'.phase = wf.phase /\ wf'.status = "CANCELLED"
      /\ wf'.attempt = None /\ wf'.gen = wf.gen
  BY DEF Cancelling, CancelGoal, Advance, Core, TypeOK, Workflow
<1>2. wf.status = "RUNNING" <=> wf.attempt # None
  BY DEF Core, AuthorityCoherent
<1> QED
  BY <1>1, <1>2
     DEF Cancelling, CancelGoal, IsTerminalWorkflow, Cancels, Moved, CandidateRows,
         EvidenceRows, AcceptanceRows, RecoveryRows

LEMMA TransitionMoves ==
  ASSUME Core, Transitioning
  PROVE  \/ Enters \/ BeginsFreeze \/ RecordsSet
         \/ \E g \in Generations, d \in Digests : Prepares(g, d)
         \/ \E d \in decisions : Closes(d) \/ \E g \in Generations : Rejects(g, d)
<1>1. /\ Record("WORKFLOW_PHASE_TRANSITIONED")
      /\ UNCHANGED <<attemptAudits, evidenceAudits, bindings, recoveries, manifests>>
  BY DEF Transitioning
<1> DEFINE Entered(phase, status, gen) ==
      /\ wf'.version = wf.version + 1 /\ wf'.phase = phase /\ wf'.status = status
      /\ wf'.attempt = wf.attempt /\ wf'.gen = gen
<1>2. ASSUME NEW phase, NEW status, NEW gen, Entered(phase, status, gen)
      PROVE  Transitioned(phase, status, gen)
  BY <1>1, <1>2 DEF Transitioned, Moved
<1>3. CASE RecordingSet /\ UNCHANGED generationAudits
  <2>1. PICK p \in Procs : CommitEvidenceSet(p)
    BY <1>3 DEF RecordingSet
  <2>2. Entered("FINAL_VERIFY", "READY", wf.gen)
    BY <2>1 DEF CommitEvidenceSet, Commit, Committable, Ready, EnterPhase, Advance, Core,
                TypeOK, Workflow
  <2>3. Transitioned("FINAL_VERIFY", "READY", wf.gen)
    BY <1>2, <2>2
  <2>4. /\ wf.version > 1 /\ wf.status = "READY" /\ wf.phase = "EVIDENCE_BUILD"
        /\ ActiveState("FROZEN") /\ Accountable
        /\ sets' = [sets EXCEPT ![wf.gen] = {e.attempt : e \in TestEvidence(wf.gen)}]
        /\ UNCHANGED <<attempts, gens, checks, evidence, eligible, decisions, closeout,
                       repairs, reconciled>>
    BY <2>1 DEF CommitEvidenceSet, Commit, Committable, Ready, Started, ObservingPhase
  <2> QED BY <1>1, <1>3, <2>3, <2>4
          DEF RecordingSet, RecordsSet, AttemptRows, CandidateRows, EvidenceRows, RecoveryRows
<1>4. CASE BeginPlanning /\ UNCHANGED <<generationAudits, setAudits>>
  <2>1. Entered("PLAN", "READY", wf.gen)
    BY <1>4 DEF BeginPlanning, Ready, EnterPhase, Advance, Core, TypeOK, Workflow
  <2>2. Transitioned("PLAN", "READY", wf.gen)
    BY <1>2, <2>1
  <2> QED BY <1>1, <1>4, <2>2
          DEF BeginPlanning, Ready, Started, Enters, AttemptRows, CandidateRows, EvidenceRows,
              AcceptanceRows, RecoveryRows
<1>5. CASE BeginEvidenceBuild /\ UNCHANGED <<generationAudits, setAudits>>
  <2>1. Entered("EVIDENCE_BUILD", "READY", wf.gen)
    BY <1>5 DEF BeginEvidenceBuild, Ready, EnterPhase, Advance, Core, TypeOK, Workflow
  <2>2. Transitioned("EVIDENCE_BUILD", "READY", wf.gen)
    BY <1>2, <2>1
  <2> QED BY <1>1, <1>5, <2>2
          DEF BeginEvidenceBuild, Ready, Started, Enters, AttemptRows, CandidateRows,
              EvidenceRows, AcceptanceRows, RecoveryRows
<1>6. CASE BeginCandidateFreeze /\ RecordGenerations({wf.gen}) /\ UNCHANGED setAudits
  <2>1. Entered("SOURCE_FREEZE", "READY", wf.gen)
    BY <1>6 DEF BeginCandidateFreeze, Ready, EnterPhase, Advance, Core, TypeOK, Workflow
  <2>2. Transitioned("SOURCE_FREEZE", "READY", wf.gen)
    BY <1>2, <2>1
  <2> QED BY <1>1, <1>6, <2>2
          DEF BeginCandidateFreeze, Ready, Started, BeginsFreeze, AttemptRows, EvidenceRows,
              AcceptanceRows, RecoveryRows
<1>7. ASSUME NEW g \in Generations, NEW d \in Digests, PrepareCandidate(g, d),
             RecordGenerations({g}), UNCHANGED setAudits
      PROVE  Prepares(g, d)
  <2>1. Entered("IMPLEMENT", "READY", g)
    BY <1>7 DEF PrepareCandidate, Ready, Advance, Core, TypeOK, Workflow
  <2>2. Transitioned("IMPLEMENT", "READY", g)
    BY <1>2, <2>1
  <2> QED BY <1>1, <1>7, <2>2
          DEF PrepareCandidate, Ready, Started, Prepares, AttemptRows, EvidenceRows,
              AcceptanceRows, RecoveryRows
<1>8. ASSUME NEW p \in Procs, CloseAcceptedGoal(p), RecordGenerations({wf.gen}),
             UNCHANGED setAudits
      PROVE  \E d \in decisions : Closes(d)
  <2>1. Entered("CLOSEOUT", "CLOSED", wf.gen)
    BY <1>8 DEF CloseAcceptedGoal, Advance, Core, TypeOK, Workflow
  <2>2. Transitioned("CLOSEOUT", "CLOSED", wf.gen)
    BY <1>2, <2>1
  <2>3. Consuming("ACCEPT", plan[p].decision)
    BY <1>1, <1>8
       DEF CloseAcceptedGoal, Commit, Committable, Ready, Started, ObservingPhase, Consumable,
           Consumes, DecisionCurrent, Consuming, AttemptRows, EvidenceRows, RecoveryRows
  <2> QED BY <1>8, <2>2, <2>3 DEF CloseAcceptedGoal, Closes, Consuming
<1>9. ASSUME NEW p \in Procs, NEW g \in Generations, BeginAcceptanceRepair(p, g),
             RecordGenerations({wf.gen, g}), UNCHANGED setAudits
      PROVE  \E d \in decisions : Rejects(g, d)
  <2>1. Entered("IMPLEMENT", "READY", g)
    BY <1>9 DEF BeginAcceptanceRepair, Commit, Committable, Ready, ObservingPhase, Advance,
                Core, TypeOK, Workflow
  <2>2. Transitioned("IMPLEMENT", "READY", g)
    BY <1>2, <2>1
  <2>3. Consuming("REJECT_REPAIRABLE", plan[p].decision)
    BY <1>1, <1>9
       DEF BeginAcceptanceRepair, Commit, Committable, Ready, Started, ObservingPhase,
           Consumable, Consumes, DecisionCurrent, Consuming, AttemptRows, EvidenceRows,
           RecoveryRows
  <2>4. plan[p].first = gens[wf.gen].frozen
    BY <1>9 DEF BeginAcceptanceRepair, Commit, SourceDrifted
  <2> QED BY <1>9, <2>2, <2>3, <2>4 DEF BeginAcceptanceRepair, Rejects, Consuming
<1> HIDE DEF Entered
<1> QED
  BY <1>3, <1>4, <1>5, <1>6, <1>7, <1>8, <1>9 DEF Transitioning, ChangingGeneration

LEMMA IntegrityMoves == ASSUME Core, FailingIntegrity PROVE FailsIntegrity
<1>1. PICK p \in Procs : CommitIntegrityFailure(p)
  BY DEF FailingIntegrity
<1>2. wf.version > 1 /\ wf.status = "READY" /\ ActiveState("FROZEN")
  BY <1>1 DEF CommitIntegrityFailure, Committable, Ready, Started
<1>3. /\ wf'.version = wf.version + 1 /\ wf'.phase = wf.phase /\ wf'.status = "FAILED"
      /\ wf'.attempt = wf.attempt /\ wf'.gen = wf.gen
  BY <1>1 DEF CommitIntegrityFailure, Advance, Core, TypeOK, Workflow
<1> QED
  BY <1>1, <1>2, <1>3
     DEF FailingIntegrity, CommitIntegrityFailure, FailsIntegrity, Moved, Invalidates,
         AttemptRows, AcceptanceRows, RecoveryRows

LEMMA RecoveryMoves ==
  ASSUME Core, Recovering
  PROVE  \/ \E status, failure, runStatus : Ends(status, failure, runStatus)
         \/ \E status \in {"READY", "BLOCKED"} : Resumes(status)
<1>1. UNCHANGED <<generationAudits, evidenceAudits, bindings, setAudits, manifests>>
  BY DEF Recovering
<1>2. CASE /\ StartupRecovery /\ RecordRecovery("STARTUP", wf.attempt)
           /\ Record("WORKFLOW_ATTEMPT_FINISHED") /\ RecordEnd(wf.attempt)
  <2>1. /\ wf.status = "RUNNING" /\ FinishAttempt("INTERRUPTED", None, "BLOCKED")
        /\ reconciled' = wf.version + 1
        /\ UNCHANGED <<gens, checks, evidence, eligible, sets, decisions, closeout, repairs>>
    BY <1>2 DEF StartupRecovery
  <2>2. Ending("INTERRUPTED", None, "BLOCKED")
    BY DEF Ending
  <2>3. Ends("INTERRUPTED", None, "BLOCKED")
    BY <1>1, <1>2, <2>1, <2>2, EndMoves
       DEF Ends, AcceptanceRows, CandidateRows, EvidenceRows
  <2> QED BY <2>3
<1>3. ASSUME NEW p \in Procs, ResumeGoal(p), RecordRecovery("RESUME", SourceAttempt),
             Record("WORKFLOW_RECOVERY_RECONCILED"), UNCHANGED attemptAudits
      PROVE  \E status \in {"READY", "BLOCKED"} : Resumes(status)
  <2>1. PICK status \in {"READY", "BLOCKED"} : Advance([wf EXCEPT !.status = status])
    BY <1>3 DEF ResumeGoal
  <2>2. /\ wf'.version = wf.version + 1 /\ wf'.phase = wf.phase /\ wf'.status = status
        /\ wf'.attempt = wf.attempt /\ wf'.gen = wf.gen
    BY <2>1 DEF Advance, Core, TypeOK, Workflow
  <2>3. Resumes(status)
    BY <1>1, <1>3, <2>2
       DEF ResumeGoal, Resumes, Moved, AttemptRows, CandidateRows, EvidenceRows, AcceptanceRows
  <2> QED BY <2>3
<1> QED BY <1>2, <1>3 DEF Recovering

LEMMA ElsewhereMoves == ASSUME Core, Elsewhere PROVE StaysPut
<1>1. UNCHANGED audits
  BY DEF Elsewhere
<1> DEFINE Kept == /\ UNCHANGED <<wf, attempts, gens, evidence, eligible, sets, closeout,
                                  repairs, reconciled>>
                   /\ checks \subseteq checks'
<1>2. ASSUME NEW p \in Procs, EvaluateAcceptance(p)
      PROVE  /\ Kept /\ wf.phase = "FINAL_VERIFY" /\ ActiveState("FROZEN")
             /\ decisions' = decisions \union {CurrentDecision}
  BY <1>2 DEF EvaluateAcceptance, Commit, Committable, Ready, ObservingPhase
<1>3. ASSUME NEW p \in Procs, ConfigureLocalVerification(p) PROVE Kept /\ UNCHANGED decisions
  BY <1>3 DEF ConfigureLocalVerification
<1>4. ASSUME NEW p \in Procs,
             \/ BeginFreeze(p) \/ SecondReading(p)
             \/ \E o \in Obligations : BeginVerification(p, o)
             \/ RunCheck(p)
             \/ \E cmd \in {"EVIDENCE_SET", "EVALUATE"} : BeginObservation(p, cmd)
             \/ \E cmd \in {"CLOSE", "REPAIR"}, d \in decisions : BeginConsumption(p, cmd, d)
             \/ BeginResume(p) \/ AbandonCommand(p) \/ Crash(p)
      PROVE  Kept /\ UNCHANGED decisions
  BY <1>4
     DEF BeginFreeze, SecondReading, BeginVerification, RunCheck, BeginObservation,
         BeginConsumption, BeginResume, AbandonCommand, Crash, Observed, store
<1>5. ASSUME NEW d \in Digests, SourceChange(d) PROVE Kept /\ UNCHANGED decisions
  BY <1>5 DEF SourceChange, store
<1>6. \/ Kept /\ UNCHANGED decisions
      \/ /\ Kept /\ wf.phase = "FINAL_VERIFY" /\ ActiveState("FROZEN")
         /\ decisions' = decisions \union {CurrentDecision}
  <2> HIDE DEF Kept
  <2> QED BY <1>2, <1>3, <1>4, <1>5 DEF Elsewhere
<1> QED
  BY <1>1, <1>6 DEF StaysPut, audits, AttemptRows, CandidateRows, EvidenceRows, RecoveryRows

(* Every step of the audited specification is one of these.                   *)
AuditedMove ==
  \/ \E a \in Attempts : Starts(a)
  \/ \E status, failure, runStatus : Ends(status, failure, runStatus)
  \/ Cancels \/ Enters \/ BeginsFreeze \/ RecordsSet
  \/ \E g \in Generations, d \in Digests : Prepares(g, d)
  \/ \E d \in decisions : Closes(d)
  \/ \E d \in decisions, g \in Generations : Rejects(g, d)
  \/ FailsIntegrity
  \/ \E status \in {"READY", "BLOCKED"} : Resumes(status)
  \/ StaysPut

LEMMA AuditedMoves == ASSUME Core, VerifiesChecked, AuditedNext PROVE AuditedMove
<1>1. CASE Finishing
  BY <1>1, WorkMoves, FreezeMoves, VerificationMoves DEF Finishing, AuditedMove
<1> QED
  BY <1>1, StartMoves, CancelMoves, TransitionMoves, IntegrityMoves, RecoveryMoves,
     ElsewhereMoves DEF AuditedNext, AuditedMove

LEMMA AuditedIsNext == ASSUME AuditedNext PROVE Next
<1>1. CASE Starting
  BY <1>1 DEF Starting, Next
<1>2. CASE Finishing
  BY <1>2 DEF Finishing, FinishingWork, FinishingFreeze, FinishingVerification, Next
<1>3. CASE Cancelling
  BY <1>3 DEF Cancelling, Next
<1>4. CASE Transitioning
  BY <1>4 DEF Transitioning, RecordingSet, ChangingGeneration, Next
<1>5. CASE FailingIntegrity
  BY <1>5 DEF FailingIntegrity, Next
<1>6. CASE Recovering
  BY <1>6 DEF Recovering, Next
<1>7. CASE Elsewhere
  BY <1>7 DEF Elsewhere, Next
<1> QED BY <1>1, <1>2, <1>3, <1>4, <1>5, <1>6, <1>7 DEF AuditedNext

LEMMA GroundedHolds == AuditedSpec => []Grounded
<1>1. AuditedInit => Init
  BY DEF AuditedInit
<1>2. [AuditedNext]_auditedVars => [Next]_vars
  BY AuditedIsNext DEF auditedVars, vars
<1> QED BY <1>1, <1>2, GroundedInvariant, PTL DEF AuditedSpec, Spec

-----------------------------------------------------------------------------
(* Generations *)

(* How a step changes a generation, with what it appends to its audits.       *)
GenerationKept(g) == gens'[g] = gens[g] /\ generationAudits'[g] = generationAudits[g]

GenerationAppended(g) ==
  generationAudits'[g] = Append(generationAudits[g], wf.version + 1)

GenerationMade(g) ==
  /\ FreshGeneration(g) /\ gens[g].state = "NONE" /\ wf'.gen = g
  /\ gens'[g].state = "MUTABLE" /\ gens'[g].frozen = None /\ gens'[g].parent = wf.gen
  /\ GenerationAppended(g)

GenerationChanged(g) ==
  /\ g = wf.gen
  /\ gens'[g].base = gens[g].base /\ gens'[g].parent = gens[g].parent
  /\ \/ gens[g].state = "MUTABLE" /\ gens'[g].state = "FREEZING"
        /\ gens'[g].frozen = gens[g].frozen
     \/ gens[g].state = "FREEZING" /\ gens'[g].state = "FROZEN" /\ gens'[g].frozen \in Digests
     \/ /\ gens[g].state \in {"FREEZING", "FROZEN"} /\ gens'[g].state = "INVALIDATED"
        /\ gens'[g].frozen = gens[g].frozen
     \/ /\ gens[g].state = "FROZEN" /\ gens'[g].state \in {"REJECTED", "ACCEPTED"}
        /\ gens'[g].frozen = gens[g].frozen
  /\ GenerationAppended(g)

GenerationForm(g) == GenerationKept(g) \/ GenerationMade(g) \/ GenerationChanged(g)

LEMMA GenerationForms ==
  ASSUME Core, generationAudits \in [Generations -> Seq(Nat)], AuditedMove,
         NEW g \in Generations
  PROVE  GenerationForm(g)
<1>1. gens[g] \in Generation /\ gens \in [Generations -> Generation]
  BY DEF Core, TypeOK
<1>2. CASE UNCHANGED CandidateRows
  BY <1>2 DEF CandidateRows, GenerationForm, GenerationKept
<1>3. ASSUME NEW s, NEW t, ActiveState(s), gens' = [gens EXCEPT ![wf.gen].state = t],
             RecordGenerations({wf.gen}), wf'.version = wf.version + 1,
             \/ s = "MUTABLE" /\ t = "FREEZING"
             \/ s \in {"FREEZING", "FROZEN"} /\ t = "INVALIDATED"
             \/ s = "FROZEN" /\ t \in {"REJECTED", "ACCEPTED"}
      PROVE  GenerationForm(g)
  <2>1. CASE g = wf.gen
    <3>1. /\ gens[g].state = s /\ gens'[g].state = t /\ gens'[g].frozen = gens[g].frozen
          /\ gens'[g].base = gens[g].base /\ gens'[g].parent = gens[g].parent
      BY <1>1, <1>3, <2>1 DEF ActiveState, Generation
    <3>2. GenerationAppended(g)
      BY <1>3, <2>1 DEF RecordGenerations, GenerationAppended
    <3> QED BY <1>3, <2>1, <3>1, <3>2 DEF GenerationForm, GenerationChanged
  <2>2. CASE g # wf.gen
    BY <1>1, <1>3, <2>2 DEF RecordGenerations, GenerationForm, GenerationKept
  <2> QED BY <2>1, <2>2
<1>4. CASE Invalidates /\ wf'.version = wf.version + 1
  BY <1>3, <1>4 DEF Invalidates, Invalidate
<1>5. CASE Freezes /\ wf'.version = wf.version + 1
  <2>1. PICK d \in Digests :
          gens' = [gens EXCEPT ![wf.gen] = [@ EXCEPT !.state = "FROZEN", !.frozen = d]]
    BY <1>5 DEF Freezes
  <2>2. CASE g = wf.gen
    <3>1. /\ gens[g].state = "FREEZING" /\ gens'[g].state = "FROZEN" /\ gens'[g].frozen = d
          /\ gens'[g].base = gens[g].base /\ gens'[g].parent = gens[g].parent
      BY <1>1, <1>5, <2>1, <2>2 DEF Freezes, ActiveState, Generation
    <3>2. GenerationAppended(g)
      BY <1>5, <2>2 DEF Freezes, RecordGenerations, GenerationAppended
    <3> QED BY <2>2, <3>1, <3>2 DEF GenerationForm, GenerationChanged
  <2>3. CASE g # wf.gen
    BY <1>1, <1>5, <2>1, <2>3 DEF Freezes, RecordGenerations, GenerationForm, GenerationKept
  <2> QED BY <2>2, <2>3
<1>6. ASSUME NEW status, NEW failure, NEW runStatus, Ends(status, failure, runStatus)
      PROVE  GenerationForm(g)
  BY <1>2, <1>4, <1>5, <1>6 DEF Ends, Verifies, Moved
<1>7. ASSUME NEW h \in Generations, NEW d \in Digests, Prepares(h, d) PROVE GenerationForm(g)
  <2>1. CASE g = h
    <3>1. gens'[g] = PrepareGeneration(wf.gen, d) /\ gens[g].state = "NONE"
      <4>1. gens' = [gens EXCEPT ![g] = PrepareGeneration(wf.gen, d)] /\ FreshGeneration(g)
        BY <1>7, <2>1 DEF Prepares
      <4>2. gens'[g] = PrepareGeneration(wf.gen, d)
        BY <1>1, <4>1
      <4>3. g \in Nat /\ g >= g
        OBVIOUS
      <4>4. gens[g].state = "NONE"
        BY <4>1, <4>3 DEF FreshGeneration
      <4> QED BY <4>2, <4>4
    <3>2. GenerationAppended(g) /\ FreshGeneration(g) /\ wf'.gen = g
      BY <1>7, <2>1
         DEF Prepares, Transitioned, Moved, RecordGenerations, GenerationAppended
    <3> QED BY <3>1, <3>2 DEF PrepareGeneration, GenerationForm, GenerationMade
  <2>2. CASE g # h
    BY <1>1, <1>7, <2>2 DEF Prepares, RecordGenerations, GenerationForm, GenerationKept
  <2> QED BY <2>1, <2>2
<1>8. CASE BeginsFreeze
  BY <1>3, <1>8 DEF BeginsFreeze, Transitioned, Moved
<1>9. ASSUME NEW d \in decisions, Closes(d) PROVE GenerationForm(g)
  BY <1>3, <1>9 DEF Closes, Consuming, Transitioned, Moved
<1>10. ASSUME NEW d \in decisions, NEW h \in Generations, Rejects(h, d)
       PROVE  GenerationForm(g)
  <2>1. /\ FreshGeneration(h) /\ wf'.gen = h /\ wf'.version = wf.version + 1
        /\ ActiveState("FROZEN") /\ RecordGenerations({wf.gen, h})
        /\ gens' = [gens EXCEPT ![wf.gen].state = "REJECTED",
                                ![h] = PrepareGeneration(wf.gen, gens[wf.gen].frozen)]
    BY <1>10 DEF Rejects, Consuming, Transitioned, Moved
  <2>2. wf.gen \in Generations /\ gens[wf.gen].state = "FROZEN" /\ gens[h].state = "NONE"
    BY <2>1, Active DEF ActiveState, FreshGeneration
  <2>3. CASE g = h
    <3>1. gens'[g] = PrepareGeneration(wf.gen, gens[wf.gen].frozen)
      BY <1>1, <2>1, <2>3
    <3>2. GenerationAppended(g)
      BY <2>1, <2>3 DEF RecordGenerations, GenerationAppended
    <3> QED BY <2>1, <2>2, <2>3, <3>1, <3>2 DEF PrepareGeneration, GenerationForm, GenerationMade
  <2>4. CASE g = wf.gen /\ g # h
    <3>1. gens'[g] = [gens[g] EXCEPT !.state = "REJECTED"]
      BY <1>1, <2>1, <2>4
    <3>2. GenerationAppended(g)
      BY <2>1, <2>4 DEF RecordGenerations, GenerationAppended
    <3>3. /\ gens'[g].state = "REJECTED" /\ gens'[g].frozen = gens[g].frozen
          /\ gens'[g].base = gens[g].base /\ gens'[g].parent = gens[g].parent
      BY <1>1, <3>1 DEF Generation
    <3> QED BY <2>2, <2>4, <3>2, <3>3 DEF GenerationForm, GenerationChanged
  <2>5. CASE g # wf.gen /\ g # h
    BY <1>1, <2>1, <2>5 DEF RecordGenerations, GenerationForm, GenerationKept
  <2> QED BY <2>3, <2>4, <2>5
<1>11. CASE FailsIntegrity
  BY <1>4, <1>11 DEF FailsIntegrity, Moved
<1>12. ASSUME NEW a \in Attempts, Starts(a) PROVE GenerationForm(g)
  BY <1>2, <1>12 DEF Starts
<1>13. CASE Cancels \/ Enters \/ RecordsSet \/ StaysPut
  BY <1>2, <1>13 DEF Cancels, Enters, RecordsSet, StaysPut
<1>14. ASSUME NEW status, Resumes(status) PROVE GenerationForm(g)
  BY <1>2, <1>14 DEF Resumes
<1> QED
  BY <1>6, <1>7, <1>8, <1>9, <1>10, <1>11, <1>12, <1>13, <1>14 DEF AuditedMove

LEMMA GenerationFacts ==
  ASSUME Core, generationAudits \in [Generations -> Seq(Nat)], AuditedMove,
         NEW g \in Generations, gens[g].state # "NONE"
  PROVE  /\ gens'[g].state # "NONE"
         /\ gens'[g].base = gens[g].base /\ gens'[g].parent = gens[g].parent
         /\ gens[g].state \in TerminalStates => GenerationKept(g)
<1>1. GenerationForm(g)
  BY GenerationForms
<1>2. CASE GenerationKept(g)
  BY <1>2 DEF GenerationKept
<1>3. CASE GenerationMade(g)
  BY <1>3 DEF GenerationMade
<1>4. CASE GenerationChanged(g)
  BY <1>4 DEF GenerationChanged, TerminalStates
<1> QED BY <1>1, <1>2, <1>3, <1>4 DEF GenerationForm

-----------------------------------------------------------------------------
(* The trail *)

LEMMA Appended ==
  ASSUME NEW S, NEW s \in Seq(S), NEW e \in S
  PROVE  /\ Append(s, e) \in Seq(S) /\ Len(Append(s, e)) = Len(s) + 1
         /\ \A i \in 1..Len(s) : Append(s, e)[i] = s[i]
         /\ Append(s, e)[Len(s) + 1] = e
         /\ Len(s) \in Nat
  OBVIOUS

(* The version advances with one event of this type. *)
Advanced(type) == wf'.version = wf.version + 1 /\ Record(type)

LEMMA TrailForm ==
  ASSUME AuditedMove
  PROVE  UNCHANGED <<wf, trail>> \/ \E type \in EventTypes : Advanced(type)
<1>1. CASE StaysPut
  BY <1>1 DEF StaysPut
<1>2. ASSUME NEW a \in Attempts, Starts(a) PROVE Advanced("WORKFLOW_ATTEMPT_STARTED")
  BY <1>2 DEF Starts, Moved, Advanced
<1>3. ASSUME NEW status, NEW failure, NEW runStatus, Ends(status, failure, runStatus)
      PROVE  Advanced("WORKFLOW_ATTEMPT_FINISHED")
  BY <1>3 DEF Ends, Moved, Advanced
<1>4. CASE Cancels
  BY <1>4 DEF Cancels, Moved, Advanced, EventTypes
<1>5. CASE FailsIntegrity
  BY <1>5 DEF FailsIntegrity, Moved, Advanced, EventTypes
<1>6. ASSUME NEW status, Resumes(status) PROVE Advanced("WORKFLOW_RECOVERY_RECONCILED")
  BY <1>6 DEF Resumes, Moved, Advanced
<1>7. CASE \/ Enters \/ BeginsFreeze \/ RecordsSet
           \/ \E g \in Generations, d \in Digests : Prepares(g, d)
           \/ \E d \in decisions : Closes(d)
           \/ \E d \in decisions, g \in Generations : Rejects(g, d)
  <2>1. Advanced("WORKFLOW_PHASE_TRANSITIONED")
    BY <1>7 DEF Enters, BeginsFreeze, RecordsSet, Prepares, Closes, Rejects, Transitioned,
                Moved, Advanced
  <2> QED BY <2>1 DEF EventTypes
<1> QED
  BY <1>1, <1>2, <1>3, <1>4, <1>5, <1>6, <1>7 DEF AuditedMove, EventTypes

(* What was recorded of a version stays. *)
TrailKept ==
  /\ wf.version \in Nat \ {0} /\ wf'.version \in Nat \ {0} /\ wf.version <= wf'.version
  /\ \A i \in 1..wf.version : trail'[i] = trail[i]

LEMMA TrailGrows ==
  ASSUME Core, Core', AuditedMove, TrailSound
  PROVE  TrailKept /\ trail' \in Seq(Events) /\ Len(trail') = wf'.version
<1>1. /\ wf.version \in Nat \ {0} /\ wf'.version \in Nat \ {0}
      /\ trail \in Seq(Events) /\ Len(trail) = wf.version
  BY DEF Core, TypeOK, Workflow, TrailSound
<1>2. CASE UNCHANGED <<wf, trail>>
  BY <1>1, <1>2 DEF TrailKept
<1>3. ASSUME NEW type \in EventTypes, Advanced(type)
      PROVE  TrailKept /\ trail' \in Seq(Events) /\ Len(trail') = wf'.version
  <2>1. Event(type) \in Events
    <3>1. /\ wf'.phase \in Phases /\ wf'.status \in RunStatuses
          /\ wf'.gen \in Generations \union {None}
      BY DEF Core, TypeOK, Workflow
    <3>2. wf'.gen # None => gens'[wf'.gen].base \in Digests \union {None}
      <4>1. \A g \in Generations : gens'[g] \in Generation
        BY DEF Core, TypeOK
      <4> QED BY <3>1, <4>1 DEF Generation
    <3> QED BY <3>1, <3>2 DEF Event, Events
  <2>2. trail' = Append(trail, Event(type))
    BY <1>3 DEF Advanced, Record
  <2>3. /\ trail' \in Seq(Events) /\ Len(trail') = Len(trail) + 1
        /\ \A i \in 1..Len(trail) : trail'[i] = trail[i]
    BY <1>1, <2>1, <2>2, Appended
  <2> QED BY <1>1, <1>3, <2>3 DEF Advanced, TrailKept
<1> QED BY <1>2, <1>3, TrailForm

(* The event of the present version. *)
LEMMA TrailLast ==
  ASSUME Core, Core', TrailSound, NEW type \in EventTypes, Advanced(type)
  PROVE  trail'[wf'.version] = Event(type)
<1>1. Len(trail) = wf.version /\ trail \in Seq(Events)
  BY DEF TrailSound
<1>2. Event(type) \in {Event(type)} \union Events /\ trail \in Seq({Event(type)} \union Events)
  BY <1>1
<1> QED BY <1>1, <1>2, Appended DEF Advanced, Record

LEMMA LastEvent ==
  ASSUME NEW type
  PROVE  /\ Event(type).type = type /\ Event(type).phase = wf'.phase
         /\ Event(type).status = wf'.status /\ Event(type).gen = wf'.gen
         /\ wf'.gen # None => Event(type).base = gens'[wf'.gen].base
  BY DEF Event

LEMMA MovedEvent ==
  ASSUME Core, Core', TrailSound, NEW type \in EventTypes, NEW phase, NEW status, NEW attempt,
         NEW gen, Moved(type, phase, status, attempt, gen)
  PROVE  /\ wf'.version = wf.version + 1
         /\ trail'[wf'.version].type = type /\ trail'[wf'.version].phase = phase
         /\ trail'[wf'.version].status = status /\ trail'[wf'.version].gen = gen
<1>1. trail'[wf'.version] = Event(type)
  BY TrailLast DEF Moved, Advanced
<1> QED BY <1>1, LastEvent DEF Moved

LEMMA ClosedEvent ==
  ASSUME Core, Core', AuditedMove, TrailSound, wf'.status = "CLOSED"
  PROVE  trail'[wf'.version].type = "WORKFLOW_PHASE_TRANSITIONED"
<1>1. CASE StaysPut
  BY <1>1 DEF StaysPut, TrailSound
<1>2. ASSUME NEW d \in decisions, Closes(d)
      PROVE  trail'[wf'.version].type = "WORKFLOW_PHASE_TRANSITIONED"
  BY <1>2, MovedEvent DEF Closes, Transitioned, EventTypes
<1>3. ASSUME NEW status, NEW failure, NEW runStatus, Ends(status, failure, runStatus) PROVE FALSE
  BY <1>3 DEF Ends, Ending, ResultingRunStatus, Moved
<1>4. CASE \/ \E a \in Attempts : Starts(a)
           \/ Cancels \/ FailsIntegrity
           \/ \E status \in {"READY", "BLOCKED"} : Resumes(status)
  BY <1>4 DEF Starts, Cancels, FailsIntegrity, Resumes, Moved
<1>5. CASE \/ Enters \/ BeginsFreeze \/ RecordsSet
           \/ \E g \in Generations, d \in Digests : Prepares(g, d)
           \/ \E d \in decisions, g \in Generations : Rejects(g, d)
  BY <1>5 DEF Enters, BeginsFreeze, RecordsSet, Prepares, Rejects, Transitioned, Moved
<1> QED BY <1>1, <1>2, <1>3, <1>4, <1>5 DEF AuditedMove

LEMMA TrailStep ==
  ASSUME Grounded, Grounded', AuditedMove, TrailSound, GenerationsAudited
  PROVE  TrailSound'
<1> USE DEF Grounded
<1>1. TrailKept /\ trail' \in Seq(Events) /\ Len(trail') = wf'.version
  BY TrailGrows
<1>2. ASSUME NEW g \in Generations, gens[g].state # "NONE"
      PROVE  gens'[g].state # "NONE" /\ gens'[g].base = gens[g].base
  BY <1>2, GenerationFacts DEF GenerationsAudited
<1>3. ASSUME NEW i \in 1..wf.version, trail'[i].gen # None
      PROVE  gens'[trail'[i].gen].state # "NONE" /\ gens'[trail'[i].gen].base = trail'[i].base
  <2>1. trail'[i] = trail[i] /\ trail[i] \in Events
    BY <1>1, ElementOfSeq DEF TrailKept, TrailSound
  <2>2. gens[trail[i].gen].state # "NONE" /\ gens[trail[i].gen].base = trail[i].base
    BY <1>3, <2>1 DEF TrailSound
  <2>3. trail[i].gen \in Generations
    BY <1>3, <2>1 DEF Events
  <2> QED BY <1>2, <2>1, <2>2, <2>3
<1>4. CASE UNCHANGED <<wf, trail>>
  BY <1>1, <1>3, <1>4 DEF TrailSound
<1>5. ASSUME NEW type \in EventTypes, Advanced(type)
      PROVE  TrailSound'
  <2>1. trail'[wf'.version] = Event(type)
    BY <1>5, TrailLast
  <2>2. trail'[wf'.version].phase = wf'.phase /\ trail'[wf'.version].status = wf'.status
    BY <2>1, LastEvent
  <2>3. trail'[wf'.version].gen # None =>
          /\ gens'[trail'[wf'.version].gen].state # "NONE"
          /\ gens'[trail'[wf'.version].gen].base = trail'[wf'.version].base
    <3>1. wf'.gen # None => gens'[wf'.gen].state # "NONE"
      <4>1. wf'.gen # None => gens'[wf'.gen].state \in PhaseStates[wf'.phase]
        BY DEF CandidateLineage
      <4>2. wf'.gen # None => wf'.phase \in Phases \ {"DISCOVERY", "PLAN"}
        BY DEF CandidateLineage, Core, TypeOK, Workflow
      <4> QED BY <4>1, <4>2 DEF PhaseStates, Phases
    <3> QED BY <2>1, <3>1, LastEvent
  <2>4. \A i \in 1..wf'.version : i \in 1..wf.version \/ i = wf'.version
    BY <1>1, <1>5 DEF Advanced, TrailKept
  <2>5. wf'.status = "CLOSED" => trail'[wf'.version].type = "WORKFLOW_PHASE_TRANSITIONED"
    BY ClosedEvent
  <2> QED BY <1>1, <1>3, <2>2, <2>3, <2>4, <2>5 DEF TrailSound
<1> QED BY <1>4, <1>5, TrailForm

-----------------------------------------------------------------------------
(* Attempts *)

Stays(a) == attempts'[a] = attempts[a] /\ attemptAudits'[a] = attemptAudits[a]

AttemptBegun(a) ==
  /\ a \in Attempts /\ FreshAttempt(a) /\ attempts[a].status = "NONE" /\ wf.status = "READY"
  /\ Moved("WORKFLOW_ATTEMPT_STARTED", wf.phase, "RUNNING", a, wf.gen)
  /\ attempts'[a].status = "RUNNING" /\ attempts'[a].phase = wf.phase
  /\ attempts'[a].failure = attempts[a].failure /\ attempts'[a].ended = attempts[a].ended
  /\ attemptAudits'[a].starts = attemptAudits[a].starts \union {wf'.version}
  /\ attemptAudits'[a].ends = attemptAudits[a].ends
  /\ \A b \in Attempts \ {a} : Stays(b)

(* The end of an Attempt, and the run status that its event records. *)
EndRecorded(a, type, runStatus) ==
  \/ /\ type = "WORKFLOW_ATTEMPT_FINISHED" /\ runStatus # "CANCELLED"
     /\ \/ attempts'[a].status = "RESULT_RECORDED" /\ runStatus = "READY"
        \/ /\ attempts'[a].status = "FAILED"
           /\ runStatus = ResultingRunStatus(attempts'[a].failure)
        \/ attempts'[a].status = "INTERRUPTED" /\ runStatus \in {"READY", "BLOCKED"}
  \/ /\ type = "WORKFLOW_CANCELLED" /\ runStatus = "CANCELLED"
     /\ attempts'[a].status = "INTERRUPTED"

AttemptDone(a) ==
  /\ a \in Attempts /\ a = wf.attempt
  /\ attempts[a].status = "RUNNING" /\ attempts[a].phase = wf.phase
  /\ attempts'[a].phase = wf.phase /\ attempts'[a].ended = wf.version + 1
  /\ \E type \in EventTypes, runStatus \in RunStatuses :
       Moved(type, wf.phase, runStatus, None, wf.gen) /\ EndRecorded(a, type, runStatus)
  /\ attemptAudits'[a].starts = attemptAudits[a].starts
  /\ attemptAudits'[a].ends = attemptAudits[a].ends \union {wf'.version}
  /\ \A b \in Attempts \ {a} : Stays(b)

AuditTypes == attemptAudits \in [Attempts -> [starts : SUBSET Nat, ends : SUBSET Nat]]

LEMMA BegunForm ==
  ASSUME Core, AuditTypes, NEW a \in Attempts, Starts(a)
  PROVE  AttemptBegun(a) /\ attemptAudits' \in [Attempts -> [starts : SUBSET Nat, ends : SUBSET Nat]]
<1>1. /\ attempts \in [Attempts -> Attempt] /\ attempts[a] \in Attempt
      /\ attemptAudits[a] \in [starts : SUBSET Nat, ends : SUBSET Nat]
      /\ wf.version \in Nat
  BY DEF Core, TypeOK, Workflow, AuditTypes
<1>2. /\ attempts' = [attempts EXCEPT ![a] = [attempts[a] EXCEPT !.status = "RUNNING",
                                                               !.phase = wf.phase]]
      /\ attemptAudits' = [attemptAudits EXCEPT ![a] = [attemptAudits[a] EXCEPT
                             !.starts = attemptAudits[a].starts \union {wf'.version}]]
      /\ Moved("WORKFLOW_ATTEMPT_STARTED", wf.phase, "RUNNING", a, wf.gen)
      /\ wf.status = "READY" /\ FreshAttempt(a)
  BY DEF Starts, RecordStart, AuditTypes
<1>3. /\ attempts'[a].status = "RUNNING" /\ attempts'[a].phase = wf.phase
      /\ attempts'[a].failure = attempts[a].failure /\ attempts'[a].ended = attempts[a].ended
  BY <1>1, <1>2 DEF Attempt
<1>4. /\ attemptAudits'[a].starts = attemptAudits[a].starts \union {wf'.version}
      /\ attemptAudits'[a].ends = attemptAudits[a].ends
  BY <1>1, <1>2 DEF AuditTypes
<1>5. \A b \in Attempts \ {a} : Stays(b)
  BY <1>1, <1>2 DEF Stays, AuditTypes
<1>6. attempts[a].status = "NONE"
  BY <1>2 DEF FreshAttempt
<1>7. attemptAudits' \in [Attempts -> [starts : SUBSET Nat, ends : SUBSET Nat]]
  <2>1. wf'.version \in Nat
    BY <1>1, <1>2 DEF Moved
  <2>2. [attemptAudits[a] EXCEPT !.starts = attemptAudits[a].starts \union {wf'.version}]
          \in [starts : SUBSET Nat, ends : SUBSET Nat]
    BY <1>1, <2>1
  <2> QED BY <1>2, <2>2 DEF AuditTypes
<1> QED BY <1>2, <1>3, <1>4, <1>5, <1>6, <1>7 DEF AttemptBegun

LEMMA EndedRows ==
  ASSUME Core, AuditTypes, wf.status = "RUNNING", wf'.version = wf.version + 1,
         NEW row, row.phase = attempts[wf.attempt].phase,
         attempts' = [attempts EXCEPT ![wf.attempt] = row], RecordEnd(wf.attempt)
  PROVE  /\ wf.attempt \in Attempts /\ attempts[wf.attempt] \in Attempt
         /\ attempts[wf.attempt].status = "RUNNING" /\ attempts[wf.attempt].phase = wf.phase
         /\ attempts'[wf.attempt] = row
         /\ attemptAudits'[wf.attempt].starts = attemptAudits[wf.attempt].starts
         /\ attemptAudits'[wf.attempt].ends
              = attemptAudits[wf.attempt].ends \union {wf'.version}
         /\ \A b \in Attempts \ {wf.attempt} : Stays(b)
         /\ attemptAudits' \in [Attempts -> [starts : SUBSET Nat, ends : SUBSET Nat]]
<1>1. /\ wf.attempt \in Attempts /\ attempts \in [Attempts -> Attempt]
      /\ attempts[wf.attempt] \in Attempt
      /\ attemptAudits[wf.attempt] \in [starts : SUBSET Nat, ends : SUBSET Nat]
      /\ wf'.version \in Nat
  <2>1. wf.attempt \in Attempts
    BY Owner
  <2>2. wf.version \in Nat
    BY DEF Core, TypeOK, Workflow
  <2>3. attemptAudits[wf.attempt] \in [starts : SUBSET Nat, ends : SUBSET Nat]
    BY <2>1 DEF AuditTypes
  <2>4. attempts \in [Attempts -> Attempt] /\ attempts[wf.attempt] \in Attempt
    BY <2>1 DEF Core, TypeOK
  <2> QED BY <2>1, <2>2, <2>3, <2>4
<1>2. attempts[wf.attempt].status = "RUNNING" /\ attempts[wf.attempt].phase = wf.phase
  BY <1>1 DEF Core, AuthorityCoherent
<1>3. attemptAudits' = [attemptAudits EXCEPT ![wf.attempt] = [attemptAudits[wf.attempt] EXCEPT
                          !.ends = attemptAudits[wf.attempt].ends \union {wf'.version}]]
  BY DEF RecordEnd, AuditTypes
<1>4. [attemptAudits[wf.attempt] EXCEPT
         !.ends = attemptAudits[wf.attempt].ends \union {wf'.version}]
        \in [starts : SUBSET Nat, ends : SUBSET Nat]
  BY <1>1
<1>5. attemptAudits' \in [Attempts -> [starts : SUBSET Nat, ends : SUBSET Nat]]
  BY <1>3, <1>4 DEF AuditTypes
<1>6. /\ attemptAudits'[wf.attempt].starts = attemptAudits[wf.attempt].starts
      /\ attemptAudits'[wf.attempt].ends
           = attemptAudits[wf.attempt].ends \union {wf'.version}
  BY <1>1, <1>3 DEF AuditTypes
<1>7. \A b \in Attempts \ {wf.attempt} : Stays(b)
  BY <1>1, <1>3 DEF Stays, AuditTypes
<1>8. attempts'[wf.attempt] = row
  BY <1>1
<1> QED BY <1>1, <1>2, <1>5, <1>6, <1>7, <1>8

LEMMA DoneForm ==
  ASSUME Core, AuditTypes,
         \/ \E status, failure, runStatus : Ends(status, failure, runStatus)
         \/ Cancels /\ wf.status = "RUNNING"
  PROVE  AttemptDone(wf.attempt)
         /\ attemptAudits' \in [Attempts -> [starts : SUBSET Nat, ends : SUBSET Nat]]
<1>1. wf.attempt \in Attempts /\ attempts[wf.attempt] \in Attempt /\ wf.status = "RUNNING"
  BY Owner DEF Core, TypeOK, Ends
<1>2. ASSUME NEW status, NEW failure, NEW runStatus, Ends(status, failure, runStatus)
      PROVE  AttemptDone(wf.attempt)
             /\ attemptAudits' \in [Attempts -> [starts : SUBSET Nat, ends : SUBSET Nat]]
  <2> DEFINE row == [attempts[wf.attempt] EXCEPT !.status = status, !.failure = failure,
                                                 !.ended = wf.version + 1]
  <2>1. /\ attempts' = [attempts EXCEPT ![wf.attempt] = row]
        /\ RecordEnd(wf.attempt) /\ Ending(status, failure, runStatus)
        /\ status = "RESULT_RECORDED" => runStatus = "READY"
        /\ Moved("WORKFLOW_ATTEMPT_FINISHED", wf.phase, runStatus, None, wf.gen)
        /\ \/ status \in {"RESULT_RECORDED", "INTERRUPTED"} /\ failure = None
           \/ status = "FAILED" /\ failure \in FailureClasses
    BY <1>2 DEF Ends, Ending
  <2>2. /\ row.phase = attempts[wf.attempt].phase /\ row.status = status
        /\ row.failure = failure /\ row.ended = wf.version + 1
    BY <1>1 DEF Attempt
  <2> HIDE DEF row
  <2>3. wf'.version = wf.version + 1
    BY <2>1 DEF Moved
  <2>4. /\ attempts[wf.attempt].status = "RUNNING" /\ attempts[wf.attempt].phase = wf.phase
        /\ attempts'[wf.attempt] = row
        /\ attemptAudits'[wf.attempt].starts = attemptAudits[wf.attempt].starts
        /\ attemptAudits'[wf.attempt].ends
             = attemptAudits[wf.attempt].ends \union {wf'.version}
        /\ \A b \in Attempts \ {wf.attempt} : Stays(b)
        /\ attemptAudits' \in [Attempts -> [starts : SUBSET Nat, ends : SUBSET Nat]]
    BY <1>1, <2>1, <2>2, <2>3, EndedRows
  <2>5. runStatus \in RunStatuses /\ runStatus # "CANCELLED"
    BY <2>1 DEF Ending, ResultingRunStatus, RunStatuses
  <2>6. EndRecorded(wf.attempt, "WORKFLOW_ATTEMPT_FINISHED", runStatus)
    <3>1. CASE status = "RESULT_RECORDED" /\ runStatus = "READY"
      BY <2>2, <2>4, <2>5, <3>1 DEF EndRecorded
    <3>2. CASE status = "INTERRUPTED" /\ runStatus \in {"READY", "BLOCKED"}
      BY <2>2, <2>4, <2>5, <3>2 DEF EndRecorded
    <3>3. CASE status = "FAILED" /\ runStatus = ResultingRunStatus(failure)
      BY <2>2, <2>4, <2>5, <3>3 DEF EndRecorded
    <3> QED BY <2>1, <3>1, <3>2, <3>3 DEF Ending
  <2>7. "WORKFLOW_ATTEMPT_FINISHED" \in EventTypes
    BY DEF EventTypes
  <2> QED BY <1>1, <2>1, <2>2, <2>4, <2>5, <2>6, <2>7 DEF AttemptDone
<1>3. CASE Cancels /\ wf.status = "RUNNING"
  <2> DEFINE row == [attempts[wf.attempt] EXCEPT !.status = "INTERRUPTED",
                                                 !.ended = wf.version + 1]
  <2>1. /\ attempts' = [attempts EXCEPT ![wf.attempt] = row]
        /\ RecordEnd(wf.attempt)
        /\ Moved("WORKFLOW_CANCELLED", wf.phase, "CANCELLED", None, wf.gen)
    BY <1>3 DEF Cancels
  <2>2. /\ row.phase = attempts[wf.attempt].phase /\ row.status = "INTERRUPTED"
        /\ row.ended = wf.version + 1
    BY <1>1 DEF Attempt
  <2> HIDE DEF row
  <2>3. wf'.version = wf.version + 1
    BY <2>1 DEF Moved
  <2>4. /\ attempts[wf.attempt].status = "RUNNING" /\ attempts[wf.attempt].phase = wf.phase
        /\ attempts'[wf.attempt] = row
        /\ attemptAudits'[wf.attempt].starts = attemptAudits[wf.attempt].starts
        /\ attemptAudits'[wf.attempt].ends
             = attemptAudits[wf.attempt].ends \union {wf'.version}
        /\ \A b \in Attempts \ {wf.attempt} : Stays(b)
        /\ attemptAudits' \in [Attempts -> [starts : SUBSET Nat, ends : SUBSET Nat]]
    BY <1>1, <2>1, <2>2, <2>3, EndedRows
  <2>5. EndRecorded(wf.attempt, "WORKFLOW_CANCELLED", "CANCELLED")
    BY <2>2, <2>4 DEF EndRecorded
  <2>6. "WORKFLOW_CANCELLED" \in EventTypes /\ "CANCELLED" \in RunStatuses
    BY DEF EventTypes, RunStatuses
  <2> QED BY <1>1, <2>1, <2>2, <2>4, <2>5, <2>6 DEF AttemptDone
<1> QED BY <1>2, <1>3

LEMMA AttemptForms ==
  ASSUME Core, AuditTypes, AuditedMove
  PROVE  /\ \/ UNCHANGED <<attempts, attemptAudits>>
            \/ \E a \in Attempts : AttemptBegun(a)
            \/ AttemptDone(wf.attempt)
         /\ attemptAudits' \in [Attempts -> [starts : SUBSET Nat, ends : SUBSET Nat]]
<1>1. CASE \/ Enters \/ BeginsFreeze \/ RecordsSet
           \/ \E g \in Generations, d \in Digests : Prepares(g, d)
           \/ \E d \in decisions : Closes(d)
           \/ \E d \in decisions, g \in Generations : Rejects(g, d)
           \/ FailsIntegrity \/ StaysPut
           \/ \E status \in {"READY", "BLOCKED"} : Resumes(status)
  <2>1. UNCHANGED <<attempts, attemptAudits>>
    BY <1>1 DEF Enters, BeginsFreeze, RecordsSet, Prepares, Closes, Rejects, Consuming,
                FailsIntegrity, StaysPut, Resumes, AttemptRows
  <2> QED BY <2>1 DEF AuditTypes
<1>2. CASE Cancels /\ wf.status # "RUNNING"
  <2>1. UNCHANGED <<attempts, attemptAudits>>
    BY <1>2 DEF Cancels
  <2> QED BY <2>1 DEF AuditTypes
<1> QED BY <1>1, <1>2, BegunForm, DoneForm DEF AuditedMove

LEMMA AuditedKept ==
  ASSUME TrailKept, NEW a \in Attempts, AttemptAudited(a), Stays(a) PROVE AttemptAudited(a)'
<1>1. \A s \in 1..wf.version : s \in 1..wf'.version /\ trail'[s] = trail[s]
  BY DEF TrailKept
<1>2. attempts'[a] = attempts[a] /\ attemptAudits'[a] = attemptAudits[a]
  BY DEF Stays
<1>3. StartAudited(a) => StartAudited(a)'
  BY <1>1, <1>2 DEF StartAudited
<1>4. EndAudited(a) => EndAudited(a)'
  BY <1>1, <1>2 DEF EndAudited, RunStatusAuthorized, ResultingRunStatus
<1> QED BY <1>2, <1>3, <1>4 DEF AttemptAudited

LEMMA BegunAudited ==
  ASSUME Grounded, Grounded', TrailSound, TrailKept, NEW a \in Attempts, AttemptAudited(a),
         AttemptBegun(a)
  PROVE  AttemptAudited(a)'
<1>1. attemptAudits[a].starts = {} /\ attemptAudits[a].ends = {} /\ attempts[a].ended = 0
  BY DEF AttemptBegun, AttemptAudited
<1>2. /\ trail'[wf'.version].type = "WORKFLOW_ATTEMPT_STARTED"
      /\ trail'[wf'.version].phase = wf.phase /\ trail'[wf'.version].status = "RUNNING"
  BY MovedEvent DEF AttemptBegun, Grounded, EventTypes
<1>3. wf'.version \in 1..wf'.version
  BY DEF TrailKept
<1>4. StartAudited(a)'
  BY <1>1, <1>2, <1>3 DEF StartAudited, AttemptBegun
<1> QED BY <1>1, <1>4 DEF AttemptBegun, AttemptAudited, Ended

LEMMA DoneAudited ==
  ASSUME Grounded, Grounded', TrailSound, TrailKept, NEW a \in Attempts, AttemptAudited(a),
         AttemptDone(a)
  PROVE  AttemptAudited(a)'
<1>1. attemptAudits[a].ends = {} /\ StartAudited(a)
  BY DEF AttemptDone, AttemptAudited
<1>2. PICK type \in EventTypes, runStatus \in RunStatuses :
        Moved(type, wf.phase, runStatus, None, wf.gen) /\ EndRecorded(a, type, runStatus)
  BY DEF AttemptDone
<1>3. /\ trail'[wf'.version].type = type /\ trail'[wf'.version].phase = wf.phase
      /\ trail'[wf'.version].status = runStatus
  BY <1>2, MovedEvent DEF Grounded
<1>4. /\ wf'.version \in 1..wf'.version /\ wf'.version = wf.version + 1
      /\ \A s \in 1..wf.version : s \in 1..wf'.version /\ trail'[s] = trail[s]
  BY <1>2 DEF TrailKept, Moved
<1>5. StartAudited(a)'
  BY <1>1, <1>4 DEF StartAudited, AttemptDone
<1>6. attempts'[a].status \in Ended
  BY <1>2 DEF EndRecorded, Ended
<1>7. /\ attempts'[a].ended = wf'.version /\ attemptAudits'[a].ends = {wf'.version}
      /\ attempts'[a].phase = wf.phase
  BY <1>1, <1>4 DEF AttemptDone
<1>8. RunStatusAuthorized(a, runStatus)'
  BY <1>2 DEF EndRecorded, RunStatusAuthorized
<1>9. /\ type \in {"WORKFLOW_ATTEMPT_FINISHED", "WORKFLOW_CANCELLED"}
      /\ runStatus = "CANCELLED" <=> type = "WORKFLOW_CANCELLED"
  BY <1>2 DEF EndRecorded
<1>10. EndAudited(a)'
  <2>1. RunStatusAuthorized(a, trail[attempts[a].ended].status)'
    BY <1>3, <1>7, <1>8 DEF RunStatusAuthorized
  <2> QED BY <1>3, <1>4, <1>7, <1>9, <2>1 DEF EndAudited
<1> QED BY <1>5, <1>6, <1>10 DEF AttemptAudited, Ended

LEMMA AttemptsStep ==
  ASSUME Grounded, Grounded', AuditedMove, TrailSound, TrailKept, AttemptsAudited
  PROVE  AttemptsAudited'
<1>1. Core /\ AuditTypes
  BY DEF Grounded, AttemptsAudited, AuditTypes
<1>2. ASSUME NEW a \in Attempts PROVE AttemptAudited(a)'
  <2>1. AttemptAudited(a)
    BY DEF AttemptsAudited
  <2>2. CASE UNCHANGED <<attempts, attemptAudits>>
    BY <2>1, <2>2, AuditedKept DEF Stays
  <2>3. ASSUME NEW b \in Attempts, AttemptBegun(b) PROVE AttemptAudited(a)'
    <3>1. CASE a = b
      BY <2>1, <2>3, <3>1, BegunAudited
    <3>2. CASE a # b
      BY <2>1, <2>3, <3>2, AuditedKept DEF AttemptBegun
    <3> QED BY <3>1, <3>2
  <2>4. CASE AttemptDone(wf.attempt)
    <3>1. CASE a = wf.attempt
      BY <2>1, <2>4, <3>1, DoneAudited
    <3>2. CASE a # wf.attempt
      BY <2>1, <2>4, <3>2, AuditedKept DEF AttemptDone
    <3> QED BY <3>1, <3>2
  <2> QED BY <1>1, <2>2, <2>3, <2>4, AttemptForms
<1> QED BY <1>1, <1>2, AttemptForms DEF AttemptsAudited

LEMMA OrderStep ==
  ASSUME Grounded, AuditedMove, AttemptsAudited, EndsOrdered PROVE EndsOrdered'
<1>1. Core /\ AuditTypes
  BY DEF Grounded, AttemptsAudited, AuditTypes
<1>2. /\ wf.version \in Nat
      /\ \A a \in Attempts : a \in Nat /\ attempts[a].ended \in Nat /\ attempts[a].ended <= wf.version
  BY Numbers DEF Grounded, Core, Boundary, Recorded
<1>3. CASE UNCHANGED <<attempts, attemptAudits>>
  BY <1>3 DEF EndsOrdered
<1>4. ASSUME NEW a \in Attempts, AttemptBegun(a) PROVE EndsOrdered'
  <2>1. \A b \in Attempts : attempts'[b].ended = attempts[b].ended
    BY <1>4 DEF AttemptBegun, Stays
  <2> QED BY <2>1 DEF EndsOrdered
<1>5. CASE AttemptDone(wf.attempt)
  <2>1. /\ wf.attempt \in Attempts /\ attempts'[wf.attempt].ended = wf.version + 1
        /\ \A b \in Attempts : b # wf.attempt => attempts'[b].ended = attempts[b].ended
    BY <1>5 DEF AttemptDone, Stays
  <2>2. \A b \in Attempts : b > wf.attempt => attempts[b].ended = 0
    <3>1. \A b \in Attempts : b > wf.attempt => attempts[b].status = "NONE"
      BY <1>5, <2>1 DEF Grounded, Boundary, LatestOwned
    <3> QED BY <3>1 DEF AttemptsAudited, AttemptAudited
  <2> QED BY <1>2, <2>1, <2>2 DEF EndsOrdered
<1> QED BY <1>1, <1>3, <1>4, <1>5, AttemptForms

(* A step that enters another phase leaves the Workflow READY or CLOSED.       *)
LEMMA PhaseForm ==
  ASSUME AuditedMove PROVE wf'.phase = wf.phase \/ wf'.status \in {"READY", "CLOSED"}
<1>1. CASE \/ \E a \in Attempts : Starts(a)
           \/ \E status, failure, runStatus : Ends(status, failure, runStatus)
           \/ Cancels \/ FailsIntegrity \/ StaysPut
           \/ \E status \in {"READY", "BLOCKED"} : Resumes(status)
  BY <1>1 DEF Starts, Ends, Cancels, FailsIntegrity, StaysPut, Resumes, Moved
<1>2. CASE \/ Enters \/ BeginsFreeze \/ RecordsSet
           \/ \E g \in Generations, d \in Digests : Prepares(g, d)
           \/ \E d \in decisions : Closes(d)
           \/ \E d \in decisions, g \in Generations : Rejects(g, d)
  BY <1>2 DEF Enters, BeginsFreeze, RecordsSet, Prepares, Closes, Rejects, Transitioned, Moved
<1> QED BY <1>1, <1>2 DEF AuditedMove

LEMMA TransientStep ==
  ASSUME Grounded, Grounded', AuditedMove, AttemptsAudited, TransientPhase
  PROVE  TransientPhase'
<1>1. Core /\ AuditTypes
  BY DEF Grounded, AttemptsAudited, AuditTypes
<1> SUFFICES ASSUME NEW a \in Attempts, attempts'[a].failure = "TRANSIENT"
             PROVE  attempts'[a].phase = wf'.phase
  BY DEF TransientPhase
<1>2. wf'.phase = wf.phase
  <2>1. wf'.status \in {"BLOCKED", "CANCELLED"}
    BY DEF Grounded, Boundary, RetryBoundary
  <2> QED BY <2>1, PhaseForm
<1>3. attempts'[a].status = "FAILED"
  <2>1. attempts'[a].failure # None
    BY NoneAssumption DEF FailureClasses
  <2> QED BY <2>1 DEF Grounded, Boundary, Recorded
<1>4. CASE Stays(a)
  BY <1>2, <1>4 DEF Stays, TransientPhase
<1>5. CASE AttemptDone(a)
  BY <1>2, <1>5 DEF AttemptDone
<1>6. CASE AttemptBegun(a)
  BY <1>3, <1>6 DEF AttemptBegun
<1>7. Stays(a) \/ AttemptDone(a) \/ AttemptBegun(a)
  <2>1. CASE UNCHANGED <<attempts, attemptAudits>>
    BY <2>1 DEF Stays
  <2>2. ASSUME NEW b \in Attempts, AttemptBegun(b) PROVE Stays(a) \/ AttemptBegun(a)
    BY <2>2 DEF AttemptBegun
  <2>3. CASE AttemptDone(wf.attempt)
    <3>1. a # wf.attempt => Stays(a)
      BY <2>3 DEF AttemptDone
    <3> QED BY <2>3, <3>1
  <2> QED BY <1>1, <2>1, <2>2, <2>3, AttemptForms
<1> QED BY <1>4, <1>5, <1>6, <1>7

-----------------------------------------------------------------------------
(* The start of the Goal, and its recoveries *)

(* How a step changes the bindings of policy and profile.                      *)
LEMMA BindingForm ==
  ASSUME AuditedMove
  PROVE  \/ UNCHANGED bindings
         \/ \E a \in Attempts : Starts(a) /\ wf.version = 1 /\ BindAuthority(TRUE)
<1>1. ASSUME NEW a \in Attempts, Starts(a)
      PROVE  UNCHANGED bindings \/ (wf.version = 1 /\ BindAuthority(TRUE))
  BY <1>1 DEF Starts, BindAuthority
<1>2. CASE \/ \E status, failure, runStatus : Ends(status, failure, runStatus)
           \/ Cancels \/ FailsIntegrity \/ StaysPut
           \/ \E status \in {"READY", "BLOCKED"} : Resumes(status)
  BY <1>2 DEF Ends, Cancels, FailsIntegrity, StaysPut, Resumes
<1>3. CASE \/ Enters \/ BeginsFreeze \/ RecordsSet
           \/ \E g \in Generations, d \in Digests : Prepares(g, d)
           \/ \E d \in decisions : Closes(d)
           \/ \E d \in decisions, g \in Generations : Rejects(g, d)
  BY <1>3 DEF Enters, BeginsFreeze, RecordsSet, Prepares, Closes, Rejects, Consuming
<1> QED BY <1>1, <1>2, <1>3 DEF AuditedMove

(* What can happen to a Goal that nothing was started for.                     *)
LEMMA UnstartedForm ==
  ASSUME Grounded, AuditedMove, wf.gen = None, wf.version = 1 \/ wf.status = "CANCELLED",
         wf.status # "BLOCKED", wf.status # "RUNNING"
  PROVE  \/ \E a \in Attempts : Starts(a) /\ wf.version = 1
         \/ Cancels \/ StaysPut
<1>1. ~(\E status, failure, runStatus : Ends(status, failure, runStatus))
  BY DEF Ends
<1>2. ~(\E status \in {"READY", "BLOCKED"} : Resumes(status))
  BY DEF Resumes, RecoverableBlocker
<1>3. ~(\/ Enters \/ BeginsFreeze \/ RecordsSet
        \/ \E g \in Generations, d \in Digests : Prepares(g, d)
        \/ \E d \in decisions : Closes(d)
        \/ \E d \in decisions, g \in Generations : Rejects(g, d)
        \/ FailsIntegrity)
  <2>1. wf.version = 1 \/ wf.status # "READY"
    OBVIOUS
  <2>2. ~(wf.version > 1 /\ wf.status = "READY")
    BY <2>1
  <2> QED BY <2>2 DEF Enters, BeginsFreeze, RecordsSet, Prepares, Closes, Rejects, Consuming,
                      FailsIntegrity
<1>4. \A a \in Attempts : Starts(a) => wf.version = 1
  BY DEF Starts
<1> QED BY <1>1, <1>2, <1>3, <1>4 DEF AuditedMove

LEMMA FirstKept ==
  ASSUME Grounded, Grounded', AuditedMove, TrailKept, AttemptsAudited, FirstStarted,
         bindings \in [Kinds -> SUBSET Nat]
  PROVE  FirstStarted'
<1>1. Core /\ AuditTypes
  BY DEF Grounded, AttemptsAudited, AuditTypes
<1>2. UNCHANGED bindings
  <2>1. wf.version # 1
    BY DEF FirstStarted
  <2> QED BY <2>1, BindingForm
<1>3. wf'.version >= 2 /\ trail'[2].type = "WORKFLOW_ATTEMPT_STARTED"
  BY DEF FirstStarted, TrailKept
<1>4. PICK first \in Attempts :
        /\ attempts[first].status # "NONE" /\ attempts[first].phase = "DISCOVERY"
        /\ attemptAudits[first].starts = {2}
        /\ \A a \in Attempts : a < first => attempts[a].status = "NONE"
  BY DEF FirstStarted
<1> DEFINE IsFirst ==
      /\ attempts'[first].status # "NONE" /\ attempts'[first].phase = "DISCOVERY"
      /\ attemptAudits'[first].starts = {2}
      /\ \A a \in Attempts : a < first => attempts'[a].status = "NONE"
<1>5. ASSUME UNCHANGED <<attempts, attemptAudits>> PROVE IsFirst
  BY <1>4, <1>5
<1>6. ASSUME NEW b \in Attempts, AttemptBegun(b) PROVE IsFirst
  <2>1. b >= first /\ b # first
    <3>1. attempts[b].status = "NONE" /\ ~(first >= b)
      BY <1>4, <1>6 DEF AttemptBegun, FreshAttempt
    <3>2. first \in Nat /\ b \in Nat
      BY ConstantsAssumption
    <3> QED BY <3>1, <3>2
  <2>2. \A a \in Attempts : a # b => Stays(a)
    BY <1>6 DEF AttemptBegun
  <2>3. \A a \in Attempts : a < first => a # b
    <3>1. first \in Nat /\ b \in Nat /\ Attempts \subseteq Nat
      BY ConstantsAssumption
    <3> QED BY <2>1, <3>1
  <2> QED BY <1>4, <2>1, <2>2, <2>3 DEF Stays
<1>7. ASSUME AttemptDone(wf.attempt) PROVE IsFirst
  <2>1. /\ wf.attempt \in Attempts /\ attempts[wf.attempt].status = "RUNNING"
        /\ attempts'[wf.attempt].phase = attempts[wf.attempt].phase
        /\ attemptAudits'[wf.attempt].starts = attemptAudits[wf.attempt].starts
        /\ attempts'[wf.attempt].status # "NONE"
        /\ \A a \in Attempts : a # wf.attempt => Stays(a)
    BY <1>7 DEF AttemptDone, EndRecorded
  <2> QED BY <1>4, <2>1 DEF Stays
<1>8. IsFirst
  BY <1>1, <1>5, <1>6, <1>7, AttemptForms
<1> QED BY <1>2, <1>3, <1>8 DEF FirstStarted

LEMMA StartedStep ==
  ASSUME Grounded, Grounded', AuditedMove, TrailSound, TrailKept, AttemptsAudited, StartedOnce
  PROVE  StartedOnce'
<1>1. /\ Core /\ AuditTypes /\ wf.version \in Nat \ {0}
      /\ bindings \in [Kinds -> SUBSET Nat] /\ wf'.version \in Nat
  BY DEF Grounded, AttemptsAudited, AuditTypes, TrailKept, StartedOnce
<1>2. bindings' \in [Kinds -> SUBSET Nat]
  <2>1. CASE UNCHANGED bindings
    BY <1>1, <2>1
  <2>2. CASE BindAuthority(TRUE)
    BY <1>1, <2>2 DEF BindAuthority
  <2> QED BY <2>1, <2>2, BindingForm
<1>3. CASE FirstStarted
  BY <1>1, <1>2, <1>3, FirstKept DEF StartedOnce
<1>4. CASE Unstarted
  <2>1. /\ Made = {} /\ wf.phase = "DISCOVERY" /\ wf.attempt = None /\ wf.gen = None
        /\ wf.status \in {"READY", "CANCELLED"}
        /\ wf.version = 1 \/ (wf.version = 2 /\ wf.status = "CANCELLED")
        /\ wf.status = "READY" => wf.version = 1
        /\ wf.status = "CANCELLED" => trail[2].type = "WORKFLOW_CANCELLED" /\ wf.version = 2
        /\ \A kind \in Kinds : bindings[kind] = {}
    BY <1>4 DEF Unstarted, UnstartedClosure
  <2>2. \A a \in Attempts : attempts[a].status = "NONE"
    BY <2>1 DEF Made
  <2>3. CASE StaysPut
    <3>1. UNCHANGED <<wf, attempts, trail, bindings>>
      BY <2>3 DEF StaysPut, AttemptRows
    <3> QED BY <1>2, <1>4, <3>1 DEF StartedOnce, Unstarted, UnstartedClosure, Made
  <2>4. CASE Cancels
    <3>1. /\ wf.status = "READY" /\ wf.version = 1 /\ UNCHANGED <<attempts, bindings>>
          /\ Moved("WORKFLOW_CANCELLED", wf.phase, "CANCELLED", None, wf.gen)
      BY <2>1, <2>4 DEF Cancels
    <3>2. /\ wf'.version = 2 /\ wf'.phase = "DISCOVERY" /\ wf'.attempt = None /\ wf'.gen = None
          /\ wf'.status = "CANCELLED"
      BY <2>1, <3>1 DEF Moved
    <3>3. trail'[2].type = "WORKFLOW_CANCELLED"
      BY <3>1, <3>2, MovedEvent DEF Grounded, EventTypes
    <3>4. Made' = {}
      BY <2>2, <3>1 DEF Made
    <3>5. Unstarted'
      BY <2>1, <3>1, <3>2, <3>3, <3>4 DEF Unstarted, UnstartedClosure
    <3> QED BY <1>2, <3>5 DEF StartedOnce
  <2>5. ASSUME NEW a \in Attempts, Starts(a) PROVE FirstStarted'
    <3>1. AttemptBegun(a)
      BY <1>1, <2>5, BegunForm
    <3>2. wf.status = "READY" /\ wf.version = 1
      BY <2>1, <3>1 DEF AttemptBegun
    <3>3. Moved("WORKFLOW_ATTEMPT_STARTED", wf.phase, "RUNNING", a, wf.gen)
      BY <3>1 DEF AttemptBegun
    <3>4. wf'.version = 2 /\ trail'[2].type = "WORKFLOW_ATTEMPT_STARTED"
      BY <3>2, <3>3, MovedEvent DEF Grounded, EventTypes
    <3>5. BindAuthority(TRUE)
      <4>1. BindAuthority(TRUE) \/ wf.version > 1
        BY <2>5 DEF Starts
      <4>2. ~(wf.version > 1)
        BY <3>2
      <4> QED BY <4>1, <4>2
    <3>6. \A kind \in Kinds : bindings'[kind] = {2}
      BY <1>1, <2>1, <3>4, <3>5 DEF BindAuthority
    <3>7. /\ attempts'[a].status # "NONE" /\ attempts'[a].phase = "DISCOVERY"
          /\ \A b \in Attempts : b # a => attempts'[b] = attempts[b]
      BY <2>1, <3>1 DEF AttemptBegun, Stays
    <3>8. attemptAudits'[a].starts = {2}
      <4>1. attemptAudits[a].starts = {}
        BY <2>2 DEF AttemptsAudited, AttemptAudited
      <4> QED BY <3>1, <3>4, <4>1 DEF AttemptBegun
    <3>9. \A b \in Attempts : b < a => attempts'[b].status = "NONE"
      <4>1. \A b \in Attempts : b < a => b # a
        BY ConstantsAssumption
      <4> QED BY <2>2, <3>7, <4>1
    <3>10. /\ attempts'[a].status # "NONE" /\ attempts'[a].phase = "DISCOVERY"
           /\ attemptAudits'[a].starts = {2}
           /\ \A b \in Attempts : b < a => attempts'[b].status = "NONE"
      BY <3>7, <3>8, <3>9
    <3>11. wf'.version >= 2
      BY <3>4
    <3> QED BY <3>4, <3>6, <3>10, <3>11, Zenon DEF FirstStarted
  <2> QED BY <1>2, <2>1, <2>3, <2>4, <2>5, UnstartedForm DEF StartedOnce
<1> QED BY <1>3, <1>4 DEF StartedOnce

(* How a step changes the records of Recovery.                                 *)
RecoveryForm ==
  \/ UNCHANGED RecoveryRows
  \/ /\ reconciled' = wf.version + 1 /\ RecordRecovery("STARTUP", wf.attempt)
     /\ wf.status = "RUNNING" /\ attempts'[wf.attempt].status = "INTERRUPTED"
     /\ Moved("WORKFLOW_ATTEMPT_FINISHED", wf.phase, "BLOCKED", None, wf.gen)
  \/ \E status \in {"READY", "BLOCKED"} : Resumes(status)

LEMMA RecoveryForms == ASSUME Core, AuditedMove PROVE RecoveryForm
<1>1. ASSUME NEW status, NEW failure, NEW runStatus, Ends(status, failure, runStatus)
      PROVE  RecoveryForm
  <2>1. CASE UNCHANGED RecoveryRows
    BY <2>1 DEF RecoveryForm
  <2>2. CASE reconciled' = wf.version + 1 /\ status = "INTERRUPTED" /\ runStatus = "BLOCKED"
             /\ RecordRecovery("STARTUP", wf.attempt)
    <3>1. /\ wf.status = "RUNNING"
          /\ Moved("WORKFLOW_ATTEMPT_FINISHED", wf.phase, "BLOCKED", None, wf.gen)
          /\ attempts' = [attempts EXCEPT ![wf.attempt] =
                            [attempts[wf.attempt] EXCEPT !.status = "INTERRUPTED",
                                                         !.failure = failure,
                                                         !.ended = wf.version + 1]]
      BY <1>1, <2>2 DEF Ends
    <3>2. wf.attempt \in Attempts /\ attempts[wf.attempt] \in Attempt
      BY <3>1, Owner DEF Core, TypeOK
    <3>3. attempts'[wf.attempt].status = "INTERRUPTED"
      BY <3>1, <3>2 DEF Attempt, Core, TypeOK
    <3> QED BY <2>2, <3>1, <3>3 DEF RecoveryForm
  <2> QED BY <1>1, <2>1, <2>2 DEF Ends
<1>2. CASE \/ \E a \in Attempts : Starts(a)
           \/ Cancels \/ Enters \/ BeginsFreeze \/ RecordsSet
           \/ \E g \in Generations, d \in Digests : Prepares(g, d)
           \/ \E d \in decisions : Closes(d)
           \/ \E d \in decisions, g \in Generations : Rejects(g, d)
           \/ FailsIntegrity \/ StaysPut
  <2>1. UNCHANGED RecoveryRows
    BY <1>2 DEF Starts, Cancels, Enters, BeginsFreeze, RecordsSet, Prepares, Closes, Rejects,
                Consuming, FailsIntegrity, StaysPut
  <2> QED BY <2>1 DEF RecoveryForm
<1> QED BY <1>1, <1>2 DEF AuditedMove, RecoveryForm

(* What the audit demands of one reconciliation.                              *)
RecoveryExplained(r) ==
  LET event == trail[r.version]
      from == attempts[r.from] IN
  /\ r.version <= wf.version /\ from.phase = event.phase
  /\ event.gen # None => gens[event.gen].base = event.base
  /\ r.purpose = "STARTUP" =>
       /\ from.status = "INTERRUPTED" /\ from.ended = r.version
       /\ event.type = "WORKFLOW_ATTEMPT_FINISHED" /\ event.status = "BLOCKED"
  /\ r.purpose = "RESUME" =>
       /\ from.status \in {"FAILED", "INTERRUPTED", "RESULT_RECORDED"}
       /\ from.ended <= r.version
       /\ event.type = "WORKFLOW_RECOVERY_RECONCILED"
       /\ event.status \in {"READY", "BLOCKED"}

(* The Attempt a blocked Workflow is resumed from ended in its phase.          *)
LEMMA SourceSound ==
  ASSUME Grounded, TrailSound, AttemptsAudited, EndsOrdered, RecoveriesRecorded,
         RecoverableBlocker
  PROVE  /\ SourceAttempt \in Attempts /\ attempts[SourceAttempt].phase = wf.phase
         /\ attempts[SourceAttempt].status \in {"FAILED", "INTERRUPTED", "RESULT_RECORDED"}
         /\ attempts[SourceAttempt].ended <= wf.version
<1> DEFINE failed == {a \in Attempts : attempts[a].failure = "RECONCILE_FIRST"}
<1>1. /\ wf.version \in Nat \ {0} /\ trail[wf.version].phase = wf.phase
      /\ \A a \in Attempts : attempts[a].ended <= wf.version
  BY DEF Grounded, Core, TypeOK, Workflow, TrailSound, Boundary, Recorded
<1>2. CASE reconciled = wf.version
  <2>1. \E r \in recoveries : r.version = wf.version
    BY <1>1, <1>2 DEF RecoveriesRecorded
  <2>2. PICK r \in recoveries : r.version = wf.version /\ SourceAttempt = r.from
    BY <1>2, <2>1 DEF SourceAttempt
  <2>3. /\ r.from \in Attempts /\ r.purpose \in {"STARTUP", "RESUME"}
        /\ RecoveryExplained(r)
    BY <2>2 DEF RecoveriesRecorded, RecoveryClosure, RecoveryExplained
  <2> QED BY <1>1, <2>2, <2>3 DEF RecoveryExplained
<1>3. CASE reconciled # wf.version
  <2>1. PICK a \in Attempts : /\ attempts[a].status = "FAILED" /\ attempts[a].ended = wf.version
                              /\ attempts[a].failure = "RECONCILE_FIRST"
    BY <1>3 DEF RecoverableBlocker
  <2>2. \A b \in failed : b <= a
    <3>1. Attempts \subseteq Nat
      BY ConstantsAssumption
    <3>2. \A b \in Attempts : b > a => attempts[b].ended = 0 \/ attempts[a].ended < attempts[b].ended
      BY DEF EndsOrdered
    <3>3. \A b \in Attempts : b > a => attempts[b].ended = 0
      <4>1. \A b \in Attempts : attempts[b].ended \in Nat
        BY Numbers DEF Grounded, Core
      <4> QED BY <1>1, <2>1, <3>2, <4>1
    <3>4. \A b \in failed : attempts[b].ended # 0
      <4>1. "RECONCILE_FIRST" # None
        BY NoneAssumption DEF FailureClasses
      <4>2. \A b \in failed : b \in Attempts /\ attempts[b].status = "FAILED"
        BY <4>1 DEF Grounded, Boundary, Recorded
      <4>3. \A b \in failed : EndAudited(b)
        BY <4>2 DEF AttemptsAudited, AttemptAudited, Ended
      <4> QED BY <1>1, <4>3 DEF EndAudited
    <3>5. ASSUME NEW b \in failed PROVE b <= a
      <4>1. b \in Attempts /\ ~(b > a)
        BY <3>3, <3>4
      <4>2. a \in Nat /\ b \in Nat
        BY <2>1, <3>1, <4>1
      <4> QED BY <4>1, <4>2
    <3> QED BY <3>5
  <2>3. a \in failed
    BY <2>1
  <2>4. SourceAttempt = CHOOSE b \in failed : \A c \in failed : c <= b
    BY <1>3, <2>3 DEF SourceAttempt
  <2>5. SourceAttempt \in failed /\ \A c \in failed : c <= SourceAttempt
    BY <2>2, <2>3, <2>4
  <2>6. SourceAttempt = a
    <3>1. a \in Nat /\ SourceAttempt \in Nat
      BY <2>5, ConstantsAssumption
    <3> QED BY <2>2, <2>3, <2>5, <3>1
  <2>7. EndAudited(a)
    BY <2>1 DEF AttemptsAudited, AttemptAudited, Ended
  <2> QED BY <1>1, <2>1, <2>6, <2>7 DEF EndAudited
<1> QED BY <1>2, <1>3

LEMMA ExplainedKept ==
  ASSUME Grounded, AuditedMove, TrailSound, TrailKept, AttemptsAudited, GenerationsAudited,
         NEW r, r.version \in Nat \ {0}, r.from \in Attempts, r.purpose \in {"STARTUP", "RESUME"},
         RecoveryExplained(r)
  PROVE  RecoveryExplained(r)'
<1>1. trail'[r.version] = trail[r.version] /\ r.version <= wf'.version /\ r.version \in 1..wf.version
  BY DEF TrailKept, RecoveryExplained
<1>2. attempts'[r.from] = attempts[r.from]
  <2>1. attempts[r.from].status \notin {"NONE", "RUNNING"}
    BY DEF RecoveryExplained
  <2>2. Core /\ AuditTypes
    BY DEF Grounded, AttemptsAudited, AuditTypes
  <2>3. CASE UNCHANGED <<attempts, attemptAudits>>
    BY <2>3
  <2>4. ASSUME NEW b \in Attempts, AttemptBegun(b) PROVE attempts'[r.from] = attempts[r.from]
    BY <2>1, <2>4 DEF AttemptBegun, Stays
  <2>5. CASE AttemptDone(wf.attempt)
    BY <2>1, <2>5 DEF AttemptDone, Stays
  <2> QED BY <2>2, <2>3, <2>4, <2>5, AttemptForms
<1>3. trail[r.version].gen # None =>
        gens'[trail[r.version].gen].base = gens[trail[r.version].gen].base
  <2>1. trail[r.version] \in Events
    BY <1>1, ElementOfSeq DEF TrailSound
  <2>2. trail[r.version].gen # None =>
          trail[r.version].gen \in Generations /\ gens[trail[r.version].gen].state # "NONE"
    BY <1>1, <2>1 DEF TrailSound, Events
  <2> QED BY <2>2, GenerationFacts DEF Grounded, GenerationsAudited
<1> QED BY <1>1, <1>2, <1>3 DEF RecoveryExplained

LEMMA RecoveriesStep ==
  ASSUME Grounded, Grounded', AuditedMove, TrailSound, TrailSound', TrailKept,
         AttemptsAudited, EndsOrdered, GenerationsAudited, RecoveriesRecorded
  PROVE  RecoveriesRecorded'
<1> DEFINE Recovery == [purpose : {"STARTUP", "RESUME"}, from : Attempts, version : Nat \ {0}]
<1>1. /\ Core /\ AuditTypes /\ wf.version \in Nat \ {0} /\ wf'.version \in Nat \ {0}
      /\ recoveries \subseteq Recovery
      /\ \A r \in recoveries : RecoveryExplained(r)
  BY DEF Grounded, AttemptsAudited, AuditTypes, TrailKept, RecoveriesRecorded, RecoveryClosure,
         RecoveryExplained
<1>2. \A r \in recoveries : RecoveryExplained(r)'
  BY <1>1, ExplainedKept
<1>v. PICK v \in Nat \ {0} : v = wf'.version
  BY <1>1
<1>3. ASSUME NEW new \in Recovery, recoveries' = recoveries \union {new}, reconciled' = v,
             new.version = v, RecoveryExplained(new)'
      PROVE  RecoveriesRecorded'
  <2>1. new \in Recovery /\ new.version = reconciled'
    BY <1>3
  <2>2. recoveries' \subseteq Recovery
    BY <1>1, <1>3, <2>1
  <2>3. \A r \in recoveries' : RecoveryExplained(r)'
    BY <1>2, <1>3
  <2>4. RecoveryClosure'
    BY <2>3 DEF RecoveryClosure, RecoveryExplained
  <2> QED BY <1>3, <2>1, <2>2, <2>4 DEF RecoveriesRecorded
<1>4. trail'[v].gen # None => gens'[trail'[v].gen].base = trail'[v].base
  BY <1>1, <1>v DEF TrailSound
<1>5. CASE UNCHANGED RecoveryRows
  BY <1>1, <1>2, <1>5 DEF RecoveryRows, RecoveriesRecorded, RecoveryClosure, RecoveryExplained
<1>6. CASE /\ reconciled' = wf.version + 1 /\ RecordRecovery("STARTUP", wf.attempt)
           /\ wf.status = "RUNNING" /\ attempts'[wf.attempt].status = "INTERRUPTED"
           /\ Moved("WORKFLOW_ATTEMPT_FINISHED", wf.phase, "BLOCKED", None, wf.gen)
  <2>1. wf.attempt \in Attempts /\ attempts[wf.attempt].status = "RUNNING"
    BY <1>1, <1>6, Owner DEF Core, AuthorityCoherent
  <2>2. AttemptDone(wf.attempt)
    BY <1>1, <1>6, <2>1, AttemptForms DEF AttemptBegun
  <2>3. /\ trail'[wf'.version].type = "WORKFLOW_ATTEMPT_FINISHED"
        /\ trail'[wf'.version].phase = wf.phase /\ trail'[wf'.version].status = "BLOCKED"
        /\ wf'.version = wf.version + 1
    BY <1>6, MovedEvent DEF Grounded, EventTypes
  <2>4. attempts'[wf.attempt].phase = wf.phase /\ attempts'[wf.attempt].ended = wf'.version
    BY <2>2, <2>3 DEF AttemptDone
  <2>5. PICK b \in Attempts : b = wf.attempt
    BY <2>1
  <2>6. PICK new \in Recovery :
          /\ new.purpose = "STARTUP" /\ new.from = b /\ new.version = v
          /\ recoveries' = recoveries \union {new}
    <3>1. recoveries' = recoveries \union {[purpose |-> "STARTUP", from |-> b, version |-> v]}
      BY <1>6, <1>v, <2>5 DEF RecordRecovery
    <3>2. [purpose |-> "STARTUP", from |-> b, version |-> v] \in Recovery
      OBVIOUS
    <3> QED BY <3>1, <3>2
  <2>7. RecoveryExplained(new)'
    BY <1>1, <1>v, <1>4, <1>6, <2>3, <2>4, <2>5, <2>6 DEF RecoveryExplained
  <2> QED BY <1>v, <1>3, <1>6, <2>3, <2>6, <2>7
<1>7. ASSUME NEW status \in {"READY", "BLOCKED"}, Resumes(status) PROVE RecoveriesRecorded'
  <2>1. /\ RecoverableBlocker /\ reconciled' = wf.version + 1
        /\ RecordRecovery("RESUME", SourceAttempt)
        /\ Moved("WORKFLOW_RECOVERY_RECONCILED", wf.phase, status, wf.attempt, wf.gen)
        /\ UNCHANGED attempts
    BY <1>7 DEF Resumes, AttemptRows
  <2>2. PICK b \in Attempts :
          /\ b = SourceAttempt /\ attempts[b].phase = wf.phase
          /\ attempts[b].status \in {"FAILED", "INTERRUPTED", "RESULT_RECORDED"}
          /\ attempts[b].ended <= wf.version
    BY <2>1, SourceSound
  <2>3. /\ trail'[wf'.version].type = "WORKFLOW_RECOVERY_RECONCILED"
        /\ trail'[wf'.version].phase = wf.phase /\ trail'[wf'.version].status = status
        /\ wf'.version = wf.version + 1
    BY <2>1, MovedEvent DEF Grounded, EventTypes
  <2>4. attempts[b].ended \in Nat
    BY <1>1, Numbers DEF Core
  <2>5. PICK new \in Recovery :
          /\ new.purpose = "RESUME" /\ new.from = b /\ new.version = v
          /\ recoveries' = recoveries \union {new}
    <3>1. recoveries' = recoveries \union {[purpose |-> "RESUME", from |-> b, version |-> v]}
      BY <1>v, <2>1, <2>2 DEF RecordRecovery
    <3>2. [purpose |-> "RESUME", from |-> b, version |-> v] \in Recovery
      OBVIOUS
    <3> QED BY <3>1, <3>2
  <2>6. RecoveryExplained(new)'
    BY <1>1, <1>v, <1>4, <2>1, <2>2, <2>3, <2>4, <2>5 DEF RecoveryExplained
  <2> QED BY <1>v, <1>3, <2>1, <2>3, <2>5, <2>6
<1> QED BY <1>1, <1>5, <1>6, <1>7, RecoveryForms DEF RecoveryForm

-----------------------------------------------------------------------------
(* The rows of the generations, and the checks *)

LEMMA ActiveForm ==
  ASSUME AuditedMove
  PROVE  /\ wf'.gen = wf.gen \/ (wf'.gen \in Generations /\ FreshGeneration(wf'.gen))
         /\ UNCHANGED generationAudits \/ \E changed : RecordGenerations(changed)
<1>1. CASE \/ \E a \in Attempts : Starts(a)
           \/ Cancels \/ Enters \/ RecordsSet \/ StaysPut
           \/ \E status \in {"READY", "BLOCKED"} : Resumes(status)
  BY <1>1 DEF Starts, Cancels, Enters, RecordsSet, StaysPut, Resumes, Transitioned, Moved,
              CandidateRows
<1>2. CASE \/ \E g \in Generations, d \in Digests : Prepares(g, d)
           \/ \E d \in decisions, g \in Generations : Rejects(g, d)
  BY <1>2 DEF Prepares, Rejects, Transitioned, Moved
<1>3. CASE BeginsFreeze \/ FailsIntegrity \/ \E d \in decisions : Closes(d)
  BY <1>3 DEF BeginsFreeze, FailsIntegrity, Closes, Invalidates, Transitioned, Moved
<1>4. ASSUME NEW status, NEW failure, NEW runStatus, Ends(status, failure, runStatus)
      PROVE  /\ wf'.gen = wf.gen
             /\ UNCHANGED generationAudits \/ \E changed : RecordGenerations(changed)
  BY <1>4 DEF Ends, Freezes, Verifies, Invalidates, Moved, CandidateRows
<1> QED BY <1>1, <1>2, <1>3, <1>4 DEF AuditedMove

LEMMA AuditLength ==
  ASSUME NEW s \in Seq(Nat), NEW v \in Nat
  PROVE  Append(s, v) \in Seq(Nat) /\ Len(Append(s, v)) = Len(s) + 1 /\ Len(s) \in Nat
  OBVIOUS

LEMMA GenerationsStep ==
  ASSUME Grounded, Grounded', AuditedMove, GenerationsAudited, LatestActive
  PROVE  GenerationsAudited'
<1>1. /\ Core /\ wf.version + 1 \in Nat /\ wf'.version \in Nat
      /\ generationAudits \in [Generations -> Seq(Nat)]
  BY DEF Grounded, Core, TypeOK, Workflow, GenerationsAudited
<1>2. generationAudits' \in [Generations -> Seq(Nat)]
  <2>1. ASSUME NEW changed, RecordGenerations(changed)
        PROVE  generationAudits' \in [Generations -> Seq(Nat)]
    <3>1. \A g \in Generations : Append(generationAudits[g], wf'.version) \in Seq(Nat)
      BY <1>1, AuditLength
    <3> QED BY <1>1, <2>1, <3>1 DEF RecordGenerations
  <2> QED BY <1>1, <2>1, ActiveForm
<1>3. ASSUME NEW g \in Generations
      PROVE  IF gens'[g].state = "NONE" THEN generationAudits'[g] = <<>>
             ELSE Len(generationAudits'[g]) = GenerationVersion(g)'
  <2>1. /\ generationAudits[g] \in Seq(Nat) /\ gens[g] \in Generation
        /\ IF gens[g].state = "NONE" THEN generationAudits[g] = <<>>
           ELSE Len(generationAudits[g]) = GenerationVersion(g)
    BY <1>1 DEF GenerationsAudited, Core, TypeOK
  <2>2. CASE GenerationKept(g)
    BY <2>1, <2>2 DEF GenerationKept, GenerationVersion
  <2>3. GenerationAppended(g) => Len(generationAudits'[g]) = Len(generationAudits[g]) + 1
    BY <1>1, <2>1, AuditLength DEF GenerationAppended
  <2>4. CASE GenerationMade(g)
    <3>1. /\ gens[g].state = "NONE" /\ gens'[g].state = "MUTABLE"
          /\ Len(generationAudits'[g]) = Len(generationAudits[g]) + 1
      BY <2>3, <2>4 DEF GenerationMade
    <3>2. Len(generationAudits[g]) = 0
      BY <2>1, <3>1
    <3> QED BY <3>1, <3>2 DEF GenerationVersion
  <2>5. CASE GenerationChanged(g)
    <3>1. GenerationAppended(g) /\ gens[g].state # "NONE" /\ gens'[g].state # "NONE"
      BY <2>5 DEF GenerationChanged
    <3>2. GenerationVersion(g)' = GenerationVersion(g) + 1
      <4>1. gens[g].state \in {"MUTABLE", "FREEZING"} => gens[g].frozen = None
        BY DEF LatestActive
      <4>2. gens[g].state = "FROZEN" => gens[g].frozen # None
        BY ConstantsAssumption DEF Grounded, Core, FrozenIdentity
      <4> QED BY <2>5, <4>1, <4>2 DEF GenerationChanged, GenerationVersion
    <3> QED BY <2>1, <2>3, <3>1, <3>2
  <2> QED BY <1>1, <2>2, <2>4, <2>5, GenerationForms DEF GenerationForm
<1> QED BY <1>2, <1>3 DEF GenerationsAudited

LEMMA LatestStep ==
  ASSUME Grounded, Grounded', AuditedMove, GenerationsAudited, LatestActive
  PROVE  LatestActive'
<1>1. /\ Core /\ generationAudits \in [Generations -> Seq(Nat)]
      /\ Generations \subseteq Nat /\ None \notin Generations
  BY ConstantsAssumption DEF Grounded, GenerationsAudited
<1> SUFFICES ASSUME NEW g \in Generations
             PROVE  /\ gens'[g].state # "NONE" => wf'.gen # None /\ g <= wf'.gen
                    /\ gens'[g].state \in {"MUTABLE", "FREEZING"} => gens'[g].frozen = None
  BY DEF LatestActive
<1>2. /\ gens[g].state # "NONE" => wf.gen # None /\ g <= wf.gen
      /\ gens[g].state \in {"MUTABLE", "FREEZING"} => gens[g].frozen = None
  BY DEF LatestActive
<1>3. gens[g].state # "NONE" => wf'.gen # None /\ g <= wf'.gen
  <2>1. CASE wf'.gen = wf.gen
    BY <1>2, <2>1
  <2>2. CASE wf'.gen \in Generations /\ FreshGeneration(wf'.gen)
    <3>1. PICK h \in Generations : h = wf'.gen
      BY <2>2
    <3>2. gens[g].state # "NONE" => ~(g >= h)
      BY <2>2, <3>1 DEF FreshGeneration
    <3>3. g \in Nat /\ h \in Nat /\ h # None
      BY <1>1
    <3> QED BY <3>1, <3>2, <3>3
  <2> QED BY <2>1, <2>2, ActiveForm
<1>4. CASE GenerationKept(g)
  BY <1>2, <1>3, <1>4 DEF GenerationKept
<1>5. CASE GenerationMade(g)
  BY <1>1, <1>5 DEF GenerationMade
<1>6. CASE GenerationChanged(g)
  BY <1>2, <1>3, <1>6 DEF GenerationChanged
<1> QED BY <1>1, <1>4, <1>5, <1>6, GenerationForms DEF GenerationForm

-----------------------------------------------------------------------------
(* Evidence *)

(* How a step changes the Evidence records, with what it appends to their     *)
(* audits: nothing, one record of the Attempt that ends, or the invalidation  *)
(* of the active generation.                                                  *)
EvidenceUntouched ==
  /\ UNCHANGED EvidenceRows
  /\ \A g \in Generations :
       gens'[g].state \in {"FROZEN", "INVALIDATED"} => gens[g].state = gens'[g].state

EvidenceMade(e) ==
  /\ wf.status = "RUNNING" /\ e \in Evidence /\ e.attempt = wf.attempt /\ e.gen = wf.gen
  /\ evidence' = evidence \union {e} /\ eligible' = eligible \union {e.attempt}
  /\ RecordEligibility({e.attempt}) /\ wf'.version = wf.version + 1
  /\ attempts[e.attempt].status = "RUNNING"
  /\ attempts'[e.attempt].status = "RESULT_RECORDED"
  /\ attempts'[e.attempt].phase = wf.phase /\ attempts'[e.attempt].ended = wf.version + 1
  /\ \A g \in Generations : g # e.gen => gens'[g] = gens[g]
  /\ UNCHANGED AcceptanceRows
  /\ \/ /\ wf.phase = "SOURCE_FREEZE" /\ e.kind = "CANDIDATE_FREEZE"
        /\ gens[e.gen].state = "FREEZING"
        /\ gens'[e.gen].state = "FROZEN" /\ gens'[e.gen].frozen = e.digest
     \/ /\ wf.phase = "EVIDENCE_BUILD" /\ e.kind = "TEST_RESULT" /\ e.obligation \in Obligations
        /\ gens[e.gen].state = "FROZEN" /\ UNCHANGED gens /\ gens[e.gen].frozen = e.digest
        /\ LocalCommand => e.gen \in checks

EvidenceDiscredited ==
  /\ wf.gen \in Generations /\ gens'[wf.gen].state = "INVALIDATED"
  /\ \A g \in Generations : g # wf.gen => gens'[g] = gens[g]
  /\ gens[wf.gen].state \in {"FREEZING", "FROZEN"}
  /\ UNCHANGED evidence /\ eligible' = eligible \ {e.attempt : e \in EvidenceOf(wf.gen)}
  /\ RecordEligibility(Discredited) /\ wf'.version = wf.version + 1
  /\ UNCHANGED AcceptanceRows

EvidenceForm == EvidenceUntouched \/ EvidenceDiscredited \/ \E e \in Evidence : EvidenceMade(e)

LEMMA DiscreditedForm ==
  ASSUME Core, Invalidates, wf'.version = wf.version + 1, UNCHANGED AcceptanceRows
  PROVE  EvidenceDiscredited
<1>1. wf.gen \in Generations /\ gens[wf.gen].state \in {"FREEZING", "FROZEN"}
  BY Active DEF Invalidates, ActiveState
<1>2. gens' = [gens EXCEPT ![wf.gen].state = "INVALIDATED"]
  BY DEF Invalidates, Invalidate
<1>3. gens'[wf.gen].state = "INVALIDATED" /\ \A g \in Generations : g # wf.gen => gens'[g] = gens[g]
  BY <1>1, <1>2 DEF Core, TypeOK, Generation
<1> QED BY <1>1, <1>3 DEF Invalidates, Invalidate, EvidenceDiscredited

LEMMA MadeForm ==
  ASSUME Core, NEW failure, NEW runStatus, Ends("RESULT_RECORDED", failure, runStatus),
         Freezes \/ Verifies
  PROVE  \E e \in Evidence : EvidenceMade(e)
<1>1. /\ wf.attempt \in Attempts /\ attempts[wf.attempt] \in Attempt
      /\ attempts[wf.attempt].status = "RUNNING" /\ wf.status = "RUNNING"
      /\ attempts[wf.attempt].phase = wf.phase
  <2>1. wf.status = "RUNNING" /\ wf.attempt \in Attempts
    BY Owner DEF Ends
  <2> QED BY <2>1 DEF Core, TypeOK, AuthorityCoherent
<1>2. attempts' = [attempts EXCEPT ![wf.attempt] =
                     [attempts[wf.attempt] EXCEPT !.status = "RESULT_RECORDED",
                                                  !.failure = failure, !.ended = wf.version + 1]]
  BY DEF Ends
<1>3. /\ attempts'[wf.attempt].status = "RESULT_RECORDED"
      /\ attempts'[wf.attempt].phase = wf.phase /\ attempts'[wf.attempt].ended = wf.version + 1
  BY <1>1, <1>2 DEF Attempt, Core, TypeOK
<1>4. wf'.version = wf.version + 1 /\ UNCHANGED AcceptanceRows
  BY DEF Ends, Moved
<1>5. CASE Freezes
  <2>1. PICK d \in Digests :
          /\ gens' = [gens EXCEPT ![wf.gen] = [gens[wf.gen] EXCEPT !.state = "FROZEN", !.frozen = d]]
          /\ RecordEvidence("CANDIDATE_FREEZE", None, d, "OBSERVED")
    BY <1>5 DEF Freezes
  <2>2. /\ wf.gen \in Generations /\ gens[wf.gen].state = "FREEZING"
        /\ wf.phase = "SOURCE_FREEZE" /\ RecordEligibility({wf.attempt})
    BY <1>5, Active DEF Freezes, ActiveState
  <2>3. /\ gens'[wf.gen].state = "FROZEN" /\ gens'[wf.gen].frozen = d
        /\ \A g \in Generations : g # wf.gen => gens'[g] = gens[g]
    BY <2>1, <2>2 DEF Core, TypeOK, Generation
  <2>4. PICK e : e = [attempt |-> wf.attempt, gen |-> wf.gen, kind |-> "CANDIDATE_FREEZE",
                      obligation |-> None, digest |-> d, result |-> "OBSERVED"]
    OBVIOUS
  <2>5. /\ e.attempt = wf.attempt /\ e.gen = wf.gen /\ e.kind = "CANDIDATE_FREEZE"
        /\ e.digest = d /\ e \in Evidence
    BY <1>1, <2>2, <2>4 DEF Evidence
  <2>6. evidence' = evidence \union {e} /\ eligible' = eligible \union {e.attempt}
    BY <2>1, <2>4, <2>5 DEF RecordEvidence
  <2>7. EvidenceMade(e)
    BY <1>1, <1>3, <1>4, <2>2, <2>3, <2>5, <2>6 DEF EvidenceMade
  <2> QED BY <2>5, <2>7
<1>6. CASE Verifies
  <2>1. PICK o \in Obligations, result \in Results :
          RecordEvidence("TEST_RESULT", o, gens[wf.gen].frozen, result)
    BY <1>6 DEF Verifies
  <2>2. /\ wf.gen \in Generations /\ gens[wf.gen].state = "FROZEN"
        /\ gens[wf.gen].frozen \in Digests
        /\ wf.phase = "EVIDENCE_BUILD" /\ RecordEligibility({wf.attempt})
        /\ UNCHANGED gens /\ (LocalCommand => wf.gen \in checks)
    BY <1>6, Active DEF Verifies, ActiveState, CandidateRows
  <2>4. PICK e : e = [attempt |-> wf.attempt, gen |-> wf.gen, kind |-> "TEST_RESULT",
                      obligation |-> o, digest |-> gens[wf.gen].frozen, result |-> result]
    OBVIOUS
  <2>5. /\ e.attempt = wf.attempt /\ e.gen = wf.gen /\ e.kind = "TEST_RESULT"
        /\ e.digest = gens[wf.gen].frozen /\ e.obligation = o /\ e \in Evidence
    BY <1>1, <2>2, <2>4 DEF Evidence
  <2>6. evidence' = evidence \union {e} /\ eligible' = eligible \union {e.attempt}
    BY <2>1, <2>4, <2>5 DEF RecordEvidence
  <2>7. EvidenceMade(e)
    BY <1>1, <1>3, <1>4, <2>2, <2>5, <2>6 DEF EvidenceMade
  <2> QED BY <2>5, <2>7
<1> QED BY <1>5, <1>6

LEMMA EvidenceForms == ASSUME Core, AuditedMove PROVE EvidenceForm
<1>1. gens \in [Generations -> Generation]
  BY DEF Core, TypeOK
<1>2. CASE \/ \E a \in Attempts : Starts(a)
           \/ Cancels \/ Enters \/ RecordsSet \/ StaysPut
           \/ \E status \in {"READY", "BLOCKED"} : Resumes(status)
  <2>1. UNCHANGED EvidenceRows /\ UNCHANGED CandidateRows
    BY <1>2 DEF Starts, Cancels, Enters, RecordsSet, StaysPut, Resumes
  <2> QED BY <2>1 DEF EvidenceForm, EvidenceUntouched, CandidateRows
<1>3. ASSUME NEW g \in Generations, NEW d \in Digests, Prepares(g, d) PROVE EvidenceUntouched
  <2>1. UNCHANGED EvidenceRows /\ gens' = [gens EXCEPT ![g] = PrepareGeneration(wf.gen, d)]
    BY <1>3 DEF Prepares
  <2>2. gens'[g].state = "MUTABLE" /\ \A h \in Generations : h # g => gens'[h] = gens[h]
    BY <1>1, <2>1 DEF PrepareGeneration
  <2> QED BY <2>1, <2>2 DEF EvidenceUntouched
<1>4. CASE BeginsFreeze
  <2>1. UNCHANGED EvidenceRows /\ gens' = [gens EXCEPT ![wf.gen].state = "FREEZING"]
    BY <1>4 DEF BeginsFreeze
  <2>2. \A h \in Generations : gens'[h] = gens[h] \/ gens'[h].state = "FREEZING"
    BY <1>1, <2>1 DEF Generation
  <2> QED BY <2>1, <2>2 DEF EvidenceForm, EvidenceUntouched
<1>5. ASSUME NEW d \in decisions, Closes(d) PROVE EvidenceUntouched
  <2>1. UNCHANGED EvidenceRows /\ gens' = [gens EXCEPT ![wf.gen].state = "ACCEPTED"]
    BY <1>5 DEF Closes, Consuming
  <2>2. \A h \in Generations : gens'[h] = gens[h] \/ gens'[h].state = "ACCEPTED"
    BY <1>1, <2>1 DEF Generation
  <2> QED BY <2>1, <2>2 DEF EvidenceUntouched
<1>6. ASSUME NEW d \in decisions, NEW g \in Generations, Rejects(g, d) PROVE EvidenceUntouched
  <2>1. /\ UNCHANGED EvidenceRows
        /\ gens' = [gens EXCEPT ![wf.gen].state = "REJECTED",
                                ![g] = PrepareGeneration(wf.gen, gens[wf.gen].frozen)]
    BY <1>6 DEF Rejects, Consuming
  <2>2. \A h \in Generations :
          gens'[h] = gens[h] \/ gens'[h].state \in {"REJECTED", "MUTABLE"}
    BY <1>1, <2>1 DEF Generation, PrepareGeneration
  <2> QED BY <2>1, <2>2 DEF EvidenceUntouched
<1>7. CASE FailsIntegrity
  BY <1>7, DiscreditedForm DEF FailsIntegrity, Moved, EvidenceForm
<1>8. ASSUME NEW status, NEW failure, NEW runStatus, Ends(status, failure, runStatus)
      PROVE  EvidenceForm
  <2>1. CASE UNCHANGED <<CandidateRows, EvidenceRows>>
    BY <2>1 DEF EvidenceForm, EvidenceUntouched, CandidateRows
  <2>2. CASE Invalidates
    BY <1>8, <2>2, DiscreditedForm DEF Ends, Moved, EvidenceForm
  <2>3. CASE status = "RESULT_RECORDED" /\ (Freezes \/ Verifies)
    BY <1>8, <2>3, MadeForm DEF EvidenceForm
  <2> QED BY <1>8, <2>1, <2>2, <2>3 DEF Ends
<1> QED
  BY <1>2, <1>3, <1>4, <1>5, <1>6, <1>7, <1>8 DEF AuditedMove, EvidenceForm

LEMMA ChecksGrow == ASSUME AuditedMove PROVE checks \subseteq checks'
<1>1. CASE \/ \E a \in Attempts : Starts(a)
           \/ \E status, failure, runStatus : Ends(status, failure, runStatus)
           \/ Cancels \/ FailsIntegrity \/ StaysPut
           \/ \E status \in {"READY", "BLOCKED"} : Resumes(status)
  BY <1>1 DEF Starts, Ends, Cancels, FailsIntegrity, StaysPut, Resumes
<1>2. CASE \/ Enters \/ BeginsFreeze \/ RecordsSet
           \/ \E g \in Generations, d \in Digests : Prepares(g, d)
           \/ \E d \in decisions : Closes(d)
           \/ \E d \in decisions, g \in Generations : Rejects(g, d)
  BY <1>2 DEF Enters, BeginsFreeze, RecordsSet, Prepares, Closes, Rejects, Consuming
<1> QED BY <1>1, <1>2 DEF AuditedMove

(* A record of an Attempt that has ended stays as it is.                       *)
LEMMA EndedStays ==
  ASSUME Core, AttemptsAudited, AuditedMove, NEW a \in Attempts,
         attempts[a].status \notin {"NONE", "RUNNING"}
  PROVE  attempts'[a] = attempts[a] /\ attemptAudits'[a] = attemptAudits[a]
<1>1. AuditTypes
  BY DEF AttemptsAudited, AuditTypes
<1>2. ASSUME NEW b \in Attempts, AttemptBegun(b) PROVE Stays(a)
  BY <1>2 DEF AttemptBegun
<1>3. ASSUME AttemptDone(wf.attempt) PROVE Stays(a)
  BY <1>3 DEF AttemptDone
<1> QED BY <1>1, <1>2, <1>3, AttemptForms DEF Stays

LEMMA RecordFacts ==
  ASSUME Grounded, NEW e \in evidence
  PROVE  /\ e \in Evidence /\ e.attempt \in Attempts /\ e.gen \in Generations
         /\ attempts[e.attempt].status = "RESULT_RECORDED"
         /\ \A f \in evidence : f.attempt = e.attempt => f = e
  BY DEF Grounded, Core, TypeOK, FrozenInvariant, EvidenceBindsFrozen, Evidence

LEMMA CompleteStep ==
  ASSUME Grounded, AuditedMove, GenerationsAudited, EvidenceComplete PROVE EvidenceComplete'
<1>1. /\ Core /\ generationAudits \in [Generations -> Seq(Nat)]
      /\ IsFiniteSet(evidence)
      /\ \A e \in evidence : e.gen \in Generations /\ e.attempt \in Attempts
  BY RecordFacts DEF Grounded, GenerationsAudited, EvidenceComplete
<1>2. \A e \in evidence : gens[e.gen].state = "INVALIDATED" => gens'[e.gen].state = "INVALIDATED"
  BY <1>1, GenerationFacts DEF TerminalStates, GenerationKept
<1>3. \A e \in evidence : gens'[e.gen].state # "INVALIDATED" => e.attempt \in eligible
  BY <1>2 DEF EvidenceComplete
<1> DEFINE Complete(g) ==
      /\ gens'[g].state \in {"NONE", "MUTABLE", "FREEZING"} => EvidenceOf(g)' = {}
      /\ gens'[g].state \in FrozenStates => \E f \in FreezesOf(g)' : FreezesOf(g)' = {f}
<1>4. ASSUME EvidenceUntouched, NEW g \in Generations PROVE Complete(g)
  <2>1. EvidenceOf(g)' = EvidenceOf(g) /\ FreezesOf(g)' = FreezesOf(g)
    BY <1>4 DEF EvidenceUntouched, EvidenceRows, EvidenceOf, FreezesOf
  <2>2. CASE GenerationKept(g)
    BY <2>1, <2>2 DEF GenerationKept, EvidenceComplete
  <2>3. CASE GenerationMade(g)
    BY <2>1, <2>3 DEF GenerationMade, EvidenceComplete, FrozenStates
  <2>4. CASE GenerationChanged(g)
    <3>1. CASE gens[g].state = "MUTABLE" /\ gens'[g].state = "FREEZING"
      BY <2>1, <3>1 DEF EvidenceComplete, FrozenStates
    <3>2. CASE gens[g].state = "FROZEN" /\ gens'[g].state \in {"REJECTED", "ACCEPTED"}
      BY <2>1, <3>2 DEF EvidenceComplete, FrozenStates
    <3> QED BY <1>4, <2>4, <3>1, <3>2 DEF GenerationChanged, EvidenceUntouched
  <2> QED BY <1>1, <2>2, <2>3, <2>4, GenerationForms DEF GenerationForm
<1>5. ASSUME EvidenceDiscredited, NEW g \in Generations PROVE Complete(g)
  <2>1. EvidenceOf(g)' = EvidenceOf(g) /\ FreezesOf(g)' = FreezesOf(g)
    BY <1>5 DEF EvidenceDiscredited, EvidenceOf, FreezesOf
  <2> QED BY <1>5, <2>1 DEF EvidenceDiscredited, EvidenceComplete, FrozenStates
<1>6. ASSUME NEW e \in Evidence, EvidenceMade(e), NEW g \in Generations PROVE Complete(g)
  <2>1. CASE g # e.gen
    <3>1. EvidenceOf(g)' = EvidenceOf(g) /\ FreezesOf(g)' = FreezesOf(g)
      BY <1>6, <2>1 DEF EvidenceMade, EvidenceOf, FreezesOf
    <3> QED BY <1>6, <2>1, <3>1 DEF EvidenceMade, EvidenceComplete
  <2>2. CASE g = e.gen /\ e.kind = "CANDIDATE_FREEZE"
    <3>1. gens[g].state = "FREEZING" /\ gens'[g].state = "FROZEN"
      BY <1>6, <2>2 DEF EvidenceMade
    <3>2. EvidenceOf(g) = {}
      BY <3>1 DEF EvidenceComplete
    <3>3. FreezesOf(g)' = {e}
      BY <1>6, <2>2, <3>2 DEF EvidenceMade, EvidenceOf, FreezesOf
    <3> QED BY <3>1, <3>3
  <2>3. CASE g = e.gen /\ e.kind # "CANDIDATE_FREEZE"
    <3>1. gens[g].state = "FROZEN" /\ gens'[g].state = "FROZEN"
      BY <1>6, <2>3 DEF EvidenceMade
    <3>2. FreezesOf(g)' = FreezesOf(g)
      BY <1>6, <2>3 DEF EvidenceMade, EvidenceOf, FreezesOf
    <3> QED BY <3>1, <3>2 DEF EvidenceComplete, FrozenStates
  <2> QED BY <2>1, <2>2, <2>3
<1>7. IsFiniteSet(evidence') /\ \A e \in evidence' : gens'[e.gen].state # "INVALIDATED" => e.attempt \in eligible'
  <2>1. CASE EvidenceUntouched
    BY <1>1, <1>3, <2>1 DEF EvidenceUntouched, EvidenceRows
  <2>2. CASE EvidenceDiscredited
    <3>1. ASSUME NEW e \in evidence, gens'[e.gen].state # "INVALIDATED"
          PROVE  e.attempt \in eligible'
      <4>1. e.gen # wf.gen /\ e.attempt \in eligible
        BY <1>3, <2>2, <3>1 DEF EvidenceDiscredited
      <4>2. \A f \in EvidenceOf(wf.gen) : f.attempt # e.attempt
        BY <4>1, RecordFacts DEF EvidenceOf
      <4> QED BY <2>2, <4>1, <4>2 DEF EvidenceDiscredited
    <3> QED BY <1>1, <2>2, <3>1 DEF EvidenceDiscredited
  <2>3. ASSUME NEW e \in Evidence, EvidenceMade(e)
        PROVE  /\ IsFiniteSet(evidence')
               /\ \A f \in evidence' : gens'[f.gen].state # "INVALIDATED" => f.attempt \in eligible'
    <3>1. evidence' = evidence \union {e} /\ eligible' = eligible \union {e.attempt}
      BY <2>3 DEF EvidenceMade
    <3>2. IsFiniteSet(evidence')
      BY <1>1, <3>1, FS_AddElement
    <3> QED BY <1>3, <3>1, <3>2
  <2> QED BY <1>1, <2>1, <2>2, <2>3, EvidenceForms DEF EvidenceForm
<1>8. \A g \in Generations : Complete(g)
  <2> HIDE DEF Complete
  <2> QED BY <1>1, <1>4, <1>5, <1>6, EvidenceForms DEF EvidenceForm
<1> QED BY <1>7, <1>8 DEF EvidenceComplete

LEMMA RecordsStep ==
  ASSUME Grounded, AuditedMove, AttemptsAudited, GenerationsAudited, EvidenceComplete,
         EvidenceRecords
  PROVE  EvidenceRecords'
<1>1. Core /\ generationAudits \in [Generations -> Seq(Nat)]
  BY DEF Grounded, GenerationsAudited
<1>2. ASSUME NEW e \in evidence PROVE EvidenceRecordClosure(e)'
  <2>1. /\ e.attempt \in Attempts /\ e.gen \in Generations
        /\ attempts[e.attempt].status = "RESULT_RECORDED" /\ EvidenceRecordClosure(e)
    BY RecordFacts DEF EvidenceRecords
  <2>2. attempts'[e.attempt] = attempts[e.attempt]
    BY <1>1, <2>1, EndedStays
  <2>3. gens[e.gen].state \notin {"NONE", "MUTABLE", "FREEZING"}
    BY <2>1 DEF EvidenceComplete, EvidenceOf
  <2>4. gens'[e.gen].frozen = gens[e.gen].frozen
    <3>1. CASE GenerationKept(e.gen)
      BY <3>1 DEF GenerationKept
    <3>2. CASE GenerationMade(e.gen)
      BY <2>3, <3>2 DEF GenerationMade
    <3>3. CASE GenerationChanged(e.gen)
      BY <2>3, <3>3 DEF GenerationChanged
    <3> QED BY <1>1, <2>1, <3>1, <3>2, <3>3, GenerationForms DEF GenerationForm
  <2>5. checks \subseteq checks'
    BY ChecksGrow
  <2> QED BY <2>1, <2>2, <2>4, <2>5 DEF EvidenceRecordClosure
<1>3. ASSUME NEW e \in Evidence, EvidenceMade(e) PROVE EvidenceRecordClosure(e)'
  <2>1. checks \subseteq checks'
    BY ChecksGrow
  <2>2. /\ attempts'[e.attempt].status = "RESULT_RECORDED"
        /\ attempts'[e.attempt].phase = wf.phase
    BY <1>3 DEF EvidenceMade
  <2>3. CASE e.kind = "CANDIDATE_FREEZE"
    BY <1>3, <2>2, <2>3 DEF EvidenceMade, EvidenceRecordClosure
  <2>4. CASE e.kind = "TEST_RESULT"
    <3>1. /\ wf.phase = "EVIDENCE_BUILD" /\ e.obligation \in Obligations
          /\ UNCHANGED gens /\ gens[e.gen].frozen = e.digest
          /\ LocalCommand => e.gen \in checks
      BY <1>3, <2>4 DEF EvidenceMade
    <3> QED BY <2>1, <2>2, <2>4, <3>1 DEF EvidenceRecordClosure
  <2> QED BY <1>3, <2>3, <2>4 DEF EvidenceMade
<1>4. \A e \in evidence' : e \in evidence \/ (e \in Evidence /\ EvidenceMade(e))
  <2>1. CASE EvidenceUntouched \/ EvidenceDiscredited
    BY <2>1 DEF EvidenceUntouched, EvidenceDiscredited, EvidenceRows
  <2>2. ASSUME NEW e \in Evidence, EvidenceMade(e)
        PROVE  \A f \in evidence' : f \in evidence \/ (f \in Evidence /\ EvidenceMade(f))
    <3>1. evidence' = evidence \union {e}
      BY <2>2 DEF EvidenceMade
    <3> QED BY <2>2, <3>1
  <2> QED BY <1>1, <2>1, <2>2, EvidenceForms DEF EvidenceForm
<1> QED BY <1>2, <1>3, <1>4 DEF EvidenceRecords

LEMMA HistoryStep ==
  ASSUME Grounded, AuditedMove, TrailKept, EvidenceComplete, EvidenceAudited
  PROVE  EvidenceAudited'
<1>1. /\ Core /\ wf.version \in Nat /\ wf'.version \in Nat /\ wf.version <= wf'.version
      /\ evidenceAudits \in [Attempts -> Seq(Nat)]
      /\ \A a \in Attempts : evidenceAudits[a] \in Seq(Nat)
  BY DEF Grounded, TrailKept, EvidenceAudited
<1>2. \A changed : RecordEligibility(changed) => evidenceAudits' \in [Attempts -> Seq(Nat)]
  BY <1>1, AuditLength DEF RecordEligibility
<1> DEFINE Audited(e) == EvidenceHistoryClosure(e) /\ evidenceAudits[e.attempt][1] <= wf.version
<1>3. ASSUME NEW e \in evidence
      PROVE  /\ EvidenceHistoryClosure(e) /\ evidenceAudits[e.attempt][1] <= wf.version
             /\ evidenceAudits[e.attempt][1] \in Nat
             /\ Len(evidenceAudits[e.attempt]) \in {1, 2}
  <2>1. /\ EvidenceHistoryClosure(e) /\ evidenceAudits[e.attempt][1] <= wf.version
        /\ evidenceAudits[e.attempt] \in Seq(Nat)
    BY <1>1, RecordFacts DEF EvidenceAudited
  <2>2. Len(evidenceAudits[e.attempt]) \in {1, 2}
    BY <2>1 DEF EvidenceHistoryClosure
  <2> QED BY <2>1, <2>2, ElementOfSeq
<1>4. ASSUME NEW e \in evidence, evidenceAudits'[e.attempt] = evidenceAudits[e.attempt],
             e.attempt \in eligible' <=> e.attempt \in eligible
      PROVE  EvidenceHistoryClosure(e)' /\ evidenceAudits'[e.attempt][1] <= wf'.version
  BY <1>1, <1>3, <1>4 DEF EvidenceHistoryClosure
<1>5. CASE EvidenceUntouched
  BY <1>1, <1>4, <1>5 DEF EvidenceUntouched, EvidenceRows, EvidenceAudited
<1>6. ASSUME NEW e \in Evidence, EvidenceMade(e) PROVE EvidenceAudited'
  <2>1. /\ evidence' = evidence \union {e} /\ eligible' = eligible \union {e.attempt}
        /\ RecordEligibility({e.attempt}) /\ wf'.version = wf.version + 1
        /\ e.attempt \in Attempts /\ attempts[e.attempt].status = "RUNNING"
    BY <1>6 DEF EvidenceMade, Evidence
  <2>2. \A f \in evidence : f.attempt # e.attempt
    BY <2>1, RecordFacts
  <2>3. \A a \in Attempts : a # e.attempt => evidenceAudits'[a] = evidenceAudits[a]
    BY <1>1, <2>1 DEF RecordEligibility
  <2>4. evidenceAudits'[e.attempt] = <<wf'.version>>
    <3>1. evidenceAudits'[e.attempt] = Append(evidenceAudits[e.attempt], wf'.version)
      BY <1>1, <2>1 DEF RecordEligibility
    <3>2. evidenceAudits[e.attempt] = <<>>
      BY <2>1, <2>2 DEF EvidenceAudited
    <3> QED BY <3>1, <3>2
  <2>5. ASSUME NEW f \in evidence
        PROVE  EvidenceHistoryClosure(f)' /\ evidenceAudits'[f.attempt][1] <= wf'.version
    <3>1. f.attempt \in Attempts /\ f.attempt # e.attempt
      BY <2>2, RecordFacts
    <3> QED BY <1>4, <2>1, <2>3, <3>1
  <2>6. EvidenceHistoryClosure(e)' /\ evidenceAudits'[e.attempt][1] <= wf'.version
    BY <1>1, <2>1, <2>4 DEF EvidenceHistoryClosure
  <2>7. \A a \in Attempts : (\A f \in evidence' : f.attempt # a) => evidenceAudits'[a] = <<>>
    BY <2>1, <2>3 DEF EvidenceAudited
  <2> QED BY <1>2, <2>1, <2>5, <2>6, <2>7 DEF EvidenceAudited
<1>7. CASE EvidenceDiscredited
  <2>1. /\ evidence' = evidence /\ eligible' = eligible \ {e.attempt : e \in EvidenceOf(wf.gen)}
        /\ RecordEligibility(Discredited) /\ wf'.version = wf.version + 1
    BY <1>7 DEF EvidenceDiscredited
  <2>2. Discredited = {e.attempt : e \in {f \in evidence : f.gen = wf.gen /\ f.attempt \in eligible}}
    BY DEF Discredited, EligibleOf, EvidenceOf
  <2>3. ASSUME NEW e \in evidence
        PROVE  EvidenceHistoryClosure(e)' /\ evidenceAudits'[e.attempt][1] <= wf'.version
    <3>1. /\ e.attempt \in Attempts /\ evidenceAudits[e.attempt] \in Seq(Nat)
          /\ \A f \in evidence : f.attempt = e.attempt => f = e
      BY <1>1, RecordFacts
    <3>2. CASE e.gen = wf.gen /\ e.attempt \in eligible
      <4>1. e.attempt \in Discredited /\ e.attempt \notin eligible'
        BY <2>1, <2>2, <3>2 DEF EvidenceOf
      <4>2. evidenceAudits'[e.attempt] = Append(evidenceAudits[e.attempt], wf'.version)
        BY <2>1, <3>1, <4>1 DEF RecordEligibility
      <4>3. Len(evidenceAudits[e.attempt]) = 1 /\ evidenceAudits[e.attempt][1] <= wf.version
            /\ evidenceAudits[e.attempt][1] \in Nat
        BY <1>3, <3>2 DEF EvidenceHistoryClosure
      <4>4. /\ Len(evidenceAudits'[e.attempt]) = 2
            /\ evidenceAudits'[e.attempt][1] = evidenceAudits[e.attempt][1]
            /\ evidenceAudits'[e.attempt][2] = wf'.version
        BY <1>1, <3>1, <4>2, <4>3
      <4> QED BY <1>1, <2>1, <4>1, <4>3, <4>4 DEF EvidenceHistoryClosure
    <3>3. CASE ~(e.gen = wf.gen /\ e.attempt \in eligible)
      <4>1. e.attempt \notin Discredited
        BY <2>2, <3>1, <3>3
      <4>2. evidenceAudits'[e.attempt] = evidenceAudits[e.attempt]
        BY <2>1, <3>1, <4>1 DEF RecordEligibility
      <4>3. e.attempt \in eligible' <=> e.attempt \in eligible
        BY <2>1, <3>1, <3>3 DEF EvidenceOf
      <4> QED BY <1>4, <4>2, <4>3
    <3> QED BY <3>2, <3>3
  <2>4. \A a \in Attempts : (\A f \in evidence' : f.attempt # a) => evidenceAudits'[a] = <<>>
    <3>1. ASSUME NEW a \in Attempts, \A f \in evidence : f.attempt # a
          PROVE  evidenceAudits'[a] = <<>>
      <4>1. a \notin Discredited
        BY <2>2, <3>1
      <4>2. evidenceAudits[a] = <<>>
        BY <3>1 DEF EvidenceAudited
      <4> QED BY <2>1, <4>1, <4>2 DEF RecordEligibility
    <3> QED BY <2>1, <3>1
  <2> QED BY <1>2, <2>1, <2>3, <2>4 DEF EvidenceAudited
<1> QED BY <1>1, <1>5, <1>6, <1>7, EvidenceForms DEF EvidenceForm

-----------------------------------------------------------------------------
(* Evidence Sets and decisions *)

LEMMA SetForm ==
  ASSUME AuditedMove PROVE UNCHANGED <<sets, setAudits>> \/ RecordsSet
<1>1. CASE \/ \E a \in Attempts : Starts(a)
           \/ \E status, failure, runStatus : Ends(status, failure, runStatus)
           \/ Cancels \/ FailsIntegrity \/ StaysPut
           \/ \E status \in {"READY", "BLOCKED"} : Resumes(status)
  BY <1>1 DEF Starts, Ends, Cancels, FailsIntegrity, StaysPut, Resumes, AcceptanceRows
<1>2. CASE \/ Enters \/ BeginsFreeze
           \/ \E g \in Generations, d \in Digests : Prepares(g, d)
           \/ \E d \in decisions : Closes(d)
           \/ \E d \in decisions, g \in Generations : Rejects(g, d)
  BY <1>2 DEF Enters, BeginsFreeze, Prepares, Closes, Rejects, Consuming, AcceptanceRows
<1> QED BY <1>1, <1>2 DEF AuditedMove

(* What a generation was frozen to, and the end of what it has Evidence of.    *)
LEMMA FrozenKept ==
  ASSUME Core, GenerationsAudited, AuditedMove, NEW g \in Generations,
         gens[g].state \in FrozenStates \union {"INVALIDATED"}
  PROVE  /\ gens'[g].frozen = gens[g].frozen
         /\ gens'[g].state \in FrozenStates \union {"INVALIDATED"}
<1>1. GenerationForm(g)
  BY GenerationForms DEF GenerationsAudited
<1>2. CASE GenerationKept(g)
  BY <1>2 DEF GenerationKept
<1>3. CASE GenerationMade(g)
  BY <1>3 DEF GenerationMade, FrozenStates
<1>4. CASE GenerationChanged(g)
  BY <1>4 DEF GenerationChanged, FrozenStates
<1> QED BY <1>1, <1>2, <1>3, <1>4 DEF GenerationForm

(* Evidence grows, by a record of an Attempt that had none.                   *)
LEMMA EvidenceGains ==
  ASSUME Grounded, AuditedMove
  PROVE  /\ evidence \subseteq evidence'
         /\ \A e \in evidence' \ evidence :
              /\ e \in Evidence /\ EvidenceMade(e)
              /\ \A f \in evidence : f.attempt # e.attempt
<1>1. CASE EvidenceUntouched \/ EvidenceDiscredited
  BY <1>1 DEF EvidenceUntouched, EvidenceDiscredited, EvidenceRows
<1>2. ASSUME NEW e \in Evidence, EvidenceMade(e)
      PROVE  /\ evidence \subseteq evidence'
             /\ \A f \in evidence' \ evidence : f = e
             /\ \A f \in evidence : f.attempt # e.attempt
  <2>1. evidence' = evidence \union {e} /\ attempts[e.attempt].status = "RUNNING"
    BY <1>2 DEF EvidenceMade
  <2>2. \A f \in evidence : f.attempt # e.attempt
    BY <2>1, RecordFacts
  <2> QED BY <2>1, <2>2
<1> QED BY <1>1, <1>2, EvidenceForms DEF EvidenceForm, Grounded

LEMMA EvidenceSetKept ==
  ASSUME Grounded, AuditedMove, TrailKept, AttemptsAudited, SetsAudited,
         UNCHANGED <<sets, setAudits>>, NEW g \in Generations
  PROVE  EvidenceSetClosure(g)'
<1> SUFFICES ASSUME sets[g] # {} PROVE EvidenceSetClosure(g)'
  BY DEF EvidenceSetClosure
<1>1. PICK v \in setAudits[g] :
        /\ setAudits[g] = {v} /\ trail[v].type = "WORKFLOW_PHASE_TRANSITIONED"
        /\ trail[v].phase = "FINAL_VERIFY" /\ trail[v].gen = g
        /\ sets[g] = {e.attempt : e \in {r \in EvidenceOf(g) :
                        r.kind = "TEST_RESULT" /\ attempts[r.attempt].ended < v}}
        /\ \A o \in Obligations : \E e \in SetRecords(g) : e.obligation = o
  BY DEF SetsAudited, EvidenceSetClosure
<1>2. v \in 1..wf.version /\ wf.version \in Nat
  BY <1>1 DEF SetsAudited, TrailKept
<1>3. trail'[v] = trail[v]
  BY <1>2 DEF TrailKept
<1>4. {r \in EvidenceOf(g) : r.kind = "TEST_RESULT" /\ attempts[r.attempt].ended < v}
        = {r \in EvidenceOf(g)' : r.kind = "TEST_RESULT" /\ attempts'[r.attempt].ended < v}
  <2>1. ASSUME NEW r \in evidence PROVE attempts'[r.attempt] = attempts[r.attempt]
    <3>1. r.attempt \in Attempts /\ attempts[r.attempt].status = "RESULT_RECORDED" /\ Core
      BY RecordFacts DEF Grounded
    <3> QED BY <3>1, EndedStays
  <2>2. ASSUME NEW r \in evidence' \ evidence PROVE ~(attempts'[r.attempt].ended < v)
    <3>1. attempts'[r.attempt].ended = wf.version + 1
      BY EvidenceGains DEF EvidenceMade
    <3> QED BY <1>2, <3>1
  <2> QED BY <2>1, <2>2, EvidenceGains DEF EvidenceOf
<1>5. \A o \in Obligations : \E e \in SetRecords(g)' : e.obligation = o
  BY <1>1, EvidenceGains DEF SetRecords
<1> QED BY <1>1, <1>3, <1>4, <1>5 DEF EvidenceSetClosure

LEMMA SetRecorded ==
  ASSUME Grounded, Grounded', TrailSound, TrailKept, EvidenceComplete, SetsAudited, RecordsSet
  PROVE  /\ EvidenceSetClosure(wf.gen)' /\ sets'[wf.gen] # {} /\ wf.gen \in Generations
         /\ \A g \in Generations : g # wf.gen => sets'[g] = sets[g] /\ setAudits'[g] = setAudits[g]
         /\ setAudits' \in [Generations -> SUBSET (1..wf'.version)]
<1>1. /\ wf.gen \in Generations /\ gens[wf.gen].state = "FROZEN" /\ wf.gen # None
      /\ wf.phase = "EVIDENCE_BUILD"
      /\ Moved("WORKFLOW_PHASE_TRANSITIONED", "FINAL_VERIFY", "READY", wf.attempt, wf.gen)
      /\ sets' = [sets EXCEPT ![wf.gen] = {e.attempt : e \in TestEvidence(wf.gen)}]
      /\ setAudits' = [setAudits EXCEPT ![wf.gen] = setAudits[wf.gen] \union {wf'.version}]
      /\ UNCHANGED <<attempts, evidence, gens>> /\ ObligationsAccounted
  BY Active DEF RecordsSet, ActiveState, Transitioned, Accountable, Grounded, AttemptRows,
                EvidenceRows, CandidateRows
<1>2. /\ wf.version \in Nat /\ wf'.version = wf.version + 1 /\ sets \in [Generations -> SUBSET Attempts]
      /\ setAudits \in [Generations -> SUBSET (1..wf.version)]
  BY <1>1 DEF Grounded, Core, TypeOK, TrailKept, SetsAudited, Moved
<1>3. /\ sets'[wf.gen] = {e.attempt : e \in TestEvidence(wf.gen)}
      /\ setAudits'[wf.gen] = setAudits[wf.gen] \union {wf'.version}
      /\ \A g \in Generations : g # wf.gen => sets'[g] = sets[g] /\ setAudits'[g] = setAudits[g]
  BY <1>1, <1>2
<1>4. setAudits' \in [Generations -> SUBSET (1..wf'.version)]
  <2>1. \A g \in Generations : setAudits[g] \subseteq 1..wf'.version
    <3>1. 1..wf.version \subseteq 1..wf'.version
      BY <1>2
    <3>2. \A g \in Generations : setAudits[g] \subseteq 1..wf.version
      BY <1>2
    <3> QED BY <3>1, <3>2
  <2>2. setAudits[wf.gen] \union {wf'.version} \subseteq 1..wf'.version
    <3>1. wf'.version \in 1..wf'.version
      BY <1>2
    <3> QED BY <1>1, <2>1, <3>1
  <2> QED BY <1>1, <1>2, <2>1, <2>2
<1>5. sets[wf.gen] = {} /\ setAudits'[wf.gen] = {wf'.version}
  BY <1>1, <1>3 DEF SetsAudited
<1>6. /\ trail'[wf'.version].type = "WORKFLOW_PHASE_TRANSITIONED"
      /\ trail'[wf'.version].phase = "FINAL_VERIFY" /\ trail'[wf'.version].gen = wf.gen
  BY <1>1, MovedEvent DEF Grounded, EventTypes
<1>7. TestEvidence(wf.gen) = {r \in EvidenceOf(wf.gen)' :
                                r.kind = "TEST_RESULT" /\ attempts'[r.attempt].ended < wf'.version}
  <2>1. EvidenceOf(wf.gen)' = {e \in evidence : e.gen = wf.gen}
    <3>1. PICK g \in Generations : g = wf.gen
      BY <1>1
    <3>2. wf'.gen = wf.gen
      BY <1>1 DEF Moved
    <3> QED BY <1>1, <3>2 DEF EvidenceOf
  <2>2. \A e \in evidence : e.gen = wf.gen => e.attempt \in eligible
    BY <1>1 DEF EvidenceComplete
  <2>3. \A e \in evidence : attempts'[e.attempt].ended < wf'.version
    <3>1. \A e \in evidence : e.attempt \in Attempts
      BY RecordFacts
    <3>2. \A a \in Attempts : attempts[a].ended \in Nat /\ attempts[a].ended <= wf.version
      BY Numbers DEF Grounded, Core, Boundary, Recorded
    <3>3. \A a \in Attempts : attempts[a].ended < wf'.version
      BY <1>2, <3>2
    <3> QED BY <1>1, <3>1, <3>3
  <2> QED BY <2>1, <2>2, <2>3 DEF TestEvidence, EligibleOf, EvidenceOf
<1>8. \A o \in Obligations : \E e \in evidence : e.attempt \in sets'[wf.gen] /\ e.obligation = o
  <2>1. \A o \in Obligations : \E e \in TestEvidence(wf.gen) : e.obligation = o
    BY <1>1 DEF ObligationsAccounted, Covered
  <2>2. TestEvidence(wf.gen) \subseteq evidence
    BY DEF TestEvidence, EligibleOf, EvidenceOf
  <2> QED BY <1>3, <2>1, <2>2
<1>9. sets'[wf.gen] # {}
  BY <1>8, ConstantsAssumption
<1>10. EvidenceSetClosure(wf.gen)'
  <2>1. PICK g \in Generations : g = wf.gen
    BY <1>1
  <2>2. wf'.gen = g
    BY <1>1, <2>1 DEF Moved
  <2>3. \A o \in Obligations : \E e \in SetRecords(g)' : e.obligation = o
    BY <1>1, <1>8, <2>1 DEF SetRecords
  <2>4. TestEvidence(g) = {r \in EvidenceOf(g)' :
                             r.kind = "TEST_RESULT" /\ attempts'[r.attempt].ended < wf'.version}
    BY <1>7, <2>1, <2>2
  <2>5. EvidenceSetClosure(g)'
    BY <1>3, <1>5, <1>6, <2>1, <2>3, <2>4 DEF EvidenceSetClosure
  <2> QED BY <2>2, <2>5
<1> QED BY <1>1, <1>3, <1>4, <1>9, <1>10

LEMMA SetsRowsStep ==
  ASSUME Grounded, Grounded', AuditedMove, TrailSound, TrailKept, AttemptsAudited,
         GenerationsAudited, EvidenceComplete, SetsAudited
  PROVE  /\ setAudits' \in [Generations -> SUBSET (1..wf'.version)]
         /\ \A g \in Generations :
              /\ EvidenceSetClosure(g)'
              /\ sets'[g] = {} => setAudits'[g] = {}
              /\ sets'[g] # {} => gens'[g].state \in FrozenStates \union {"INVALIDATED"}
<1>1. /\ Core /\ wf.version \in Nat /\ wf'.version \in Nat /\ wf.version <= wf'.version
      /\ setAudits \in [Generations -> SUBSET (1..wf.version)]
  BY DEF Grounded, TrailKept, SetsAudited
<1>2. ASSUME NEW g \in Generations, sets[g] # {}
      PROVE  gens'[g].state \in FrozenStates \union {"INVALIDATED"}
  BY <1>1, <1>2, FrozenKept DEF SetsAudited
<1>3. CASE UNCHANGED <<sets, setAudits>>
  <2>1. setAudits' \in [Generations -> SUBSET (1..wf'.version)]
    <3>1. 1..wf.version \subseteq 1..wf'.version
      BY <1>1
    <3> QED BY <1>1, <1>3, <3>1
  <2> QED BY <1>2, <1>3, <2>1, EvidenceSetKept DEF SetsAudited
<1>4. CASE RecordsSet
  <2>1. /\ EvidenceSetClosure(wf.gen)' /\ sets'[wf.gen] # {} /\ wf.gen \in Generations
        /\ \A g \in Generations : g # wf.gen => sets'[g] = sets[g] /\ setAudits'[g] = setAudits[g]
        /\ setAudits' \in [Generations -> SUBSET (1..wf'.version)]
    BY <1>4, SetRecorded
  <2>2. /\ UNCHANGED <<attempts, evidence, gens>> /\ wf'.gen = wf.gen
        /\ gens[wf.gen].state = "FROZEN"
    BY <1>4 DEF RecordsSet, AttemptRows, EvidenceRows, CandidateRows, Transitioned, Moved,
                ActiveState
  <2>3. ASSUME NEW g \in Generations, g # wf.gen PROVE EvidenceSetClosure(g)'
    <3>1. EvidenceSetClosure(g) /\ sets'[g] = sets[g] /\ setAudits'[g] = setAudits[g]
      BY <2>1, <2>3 DEF SetsAudited
    <3>2. SetRecords(g)' = SetRecords(g) /\ EvidenceOf(g)' = EvidenceOf(g)
      BY <2>2, <3>1 DEF SetRecords, EvidenceOf
    <3>3. \A v \in setAudits[g] : trail'[v] = trail[v]
      BY <1>1 DEF TrailKept
    <3> QED BY <2>2, <3>1, <3>2, <3>3 DEF EvidenceSetClosure
  <2>4. ASSUME NEW g \in Generations, g = wf.gen PROVE EvidenceSetClosure(g)'
    <3>1. g = wf'.gen
      BY <2>2, <2>4
    <3> QED BY <2>1, <3>1
  <2>5. gens'[wf.gen].state \in FrozenStates
    BY <2>2 DEF FrozenStates
  <2>6. ASSUME NEW g \in Generations
        PROVE  /\ sets'[g] = {} => setAudits'[g] = {}
               /\ sets'[g] # {} => gens'[g].state \in FrozenStates \union {"INVALIDATED"}
    BY <1>2, <2>1, <2>5 DEF SetsAudited
  <2> QED BY <2>1, <2>3, <2>4, <2>6
<1> QED BY <1>3, <1>4, SetForm

LEMMA FreshUnset ==
  ASSUME SetsAudited, NEW g \in Generations, FreshGeneration(g) PROVE sets[g] = {}
<1>1. gens[g].state = "NONE"
  <2>1. g >= g
    BY ConstantsAssumption
  <2> QED BY <2>1 DEF FreshGeneration
<1> QED BY <1>1 DEF SetsAudited, FrozenStates

LEMMA SetsPhaseStep ==
  ASSUME Grounded, Grounded', AuditedMove, TrailSound, TrailKept, EvidenceComplete, SetsAudited,
         wf'.gen # None
  PROVE  sets'[wf'.gen] # {} <=> wf'.phase \in {"FINAL_VERIFY", "CLOSEOUT"}
<1>1. wf.gen # None => (sets[wf.gen] # {} <=> wf.phase \in {"FINAL_VERIFY", "CLOSEOUT"})
  BY DEF SetsAudited
<1>2. CASE \/ \E a \in Attempts : Starts(a)
           \/ \E status, failure, runStatus : Ends(status, failure, runStatus)
           \/ Cancels \/ FailsIntegrity \/ StaysPut
           \/ \E status \in {"READY", "BLOCKED"} : Resumes(status)
  <2>1. wf'.gen = wf.gen /\ wf'.phase = wf.phase /\ sets' = sets
    BY <1>2 DEF Starts, Ends, Cancels, FailsIntegrity, StaysPut, Resumes, Moved, AcceptanceRows
  <2> QED BY <1>1, <2>1
<1>3. CASE Enters \/ BeginsFreeze
  <2>1. /\ wf'.gen = wf.gen /\ sets' = sets
        /\ wf.phase \in {"DISCOVERY", "SOURCE_FREEZE", "IMPLEMENT"}
        /\ wf'.phase \in {"PLAN", "EVIDENCE_BUILD", "SOURCE_FREEZE"}
    BY <1>3 DEF Enters, BeginsFreeze, Transitioned, Moved, AcceptanceRows
  <2> QED BY <1>1, <2>1
<1>4. CASE RecordsSet
  <2>1. wf'.gen = wf.gen /\ wf'.phase = "FINAL_VERIFY"
    BY <1>4 DEF RecordsSet, Transitioned, Moved
  <2>2. sets'[wf.gen] # {}
    BY <1>4, SetRecorded
  <2> QED BY <2>1, <2>2
<1>5. CASE \/ \E g \in Generations, d \in Digests : Prepares(g, d)
           \/ \E d \in decisions, g \in Generations : Rejects(g, d)
  <2>1. PICK g \in Generations : wf'.gen = g /\ FreshGeneration(g) /\ sets' = sets
    BY <1>5 DEF Prepares, Rejects, Consuming, Transitioned, Moved, AcceptanceRows
  <2>2. wf'.phase = "IMPLEMENT"
    BY <1>5 DEF Prepares, Rejects, Transitioned, Moved
  <2> QED BY <2>1, <2>2, FreshUnset
<1>6. ASSUME NEW d \in decisions, Closes(d)
      PROVE  sets'[wf'.gen] # {} <=> wf'.phase \in {"FINAL_VERIFY", "CLOSEOUT"}
  <2>1. /\ wf'.gen = wf.gen /\ wf'.phase = "CLOSEOUT" /\ wf.phase = "FINAL_VERIFY"
        /\ sets' = sets
    BY <1>6 DEF Closes, Consuming, Transitioned, Moved
  <2> QED BY <1>1, <2>1
<1> QED BY <1>2, <1>3, <1>4, <1>5, <1>6 DEF AuditedMove

LEMMA SetsAuditedStep ==
  ASSUME Grounded, Grounded', AuditedMove, TrailSound, TrailKept, AttemptsAudited,
         GenerationsAudited, EvidenceComplete, SetsAudited
  PROVE  SetsAudited'
  BY SetsRowsStep, SetsPhaseStep DEF SetsAudited

LEMMA SetListed ==
  ASSUME Grounded
  PROVE  \A g \in Generations : \A a \in sets[g] :
           \E e \in evidence : e.attempt = a /\ e.gen = g /\ e.kind = "TEST_RESULT"
<1>1. SetsBind
  BY DEF Grounded, ClosedInvariant
<1> QED BY <1>1, Zenon DEF SetsBind

(* The records that an Evidence Set lists stay the same ones.                 *)
LEMMA ConsumedKept ==
  ASSUME Grounded, AuditedMove, NEW g \in Generations, NEW refs, refs = sets[g]
  PROVE  {e \in evidence' : e.attempt \in refs} = {e \in evidence : e.attempt \in refs}
<1>1. \A a \in refs : \E e \in evidence : e.attempt = a
  BY SetListed
<1> QED BY <1>1, EvidenceGains

LEMMA DecisionForm ==
  ASSUME AuditedMove
  PROVE  \/ UNCHANGED decisions
         \/ /\ StaysPut /\ wf.phase = "FINAL_VERIFY" /\ ActiveState("FROZEN")
            /\ decisions' = decisions \union {CurrentDecision}
<1>1. CASE StaysPut
  BY <1>1 DEF StaysPut
<1>2. CASE \/ \E a \in Attempts : Starts(a)
           \/ \E status, failure, runStatus : Ends(status, failure, runStatus)
           \/ Cancels \/ FailsIntegrity
           \/ \E status \in {"READY", "BLOCKED"} : Resumes(status)
  BY <1>2 DEF Starts, Ends, Cancels, FailsIntegrity, Resumes, AcceptanceRows
<1>3. CASE \/ Enters \/ BeginsFreeze \/ RecordsSet
           \/ \E g \in Generations, d \in Digests : Prepares(g, d)
           \/ \E d \in decisions : Closes(d)
           \/ \E d \in decisions, g \in Generations : Rejects(g, d)
  BY <1>3 DEF Enters, BeginsFreeze, RecordsSet, Prepares, Closes, Rejects, Consuming,
              AcceptanceRows
<1> QED BY <1>1, <1>2, <1>3 DEF AuditedMove

(* What the engine decides now is what re-issuing the decision yields.        *)
LEMMA CurrentReissued ==
  ASSUME Grounded, EvidenceComplete, SetsAudited, wf.phase = "FINAL_VERIFY",
         ActiveState("FROZEN")
  PROVE  /\ wf.gen \in Generations /\ sets[wf.gen] # {}
         /\ ReissuedOutcome(CurrentDecision) = CurrentDecision.outcome
<1>1. /\ wf.gen \in Generations /\ gens[wf.gen].state = "FROZEN" /\ wf.gen # None
  BY Active DEF ActiveState, Grounded
<1>2. sets[wf.gen] # {}
  BY <1>1 DEF SetsAudited
<1>3. \A o \in Obligations : \E e \in SetRecords(wf.gen) : e.obligation = o
  BY <1>1, <1>2 DEF SetsAudited, EvidenceSetClosure
<1>4. \A e \in SetRecords(wf.gen) : e.attempt \in eligible
  <2>1. ASSUME NEW e \in SetRecords(wf.gen) PROVE e.attempt \in eligible
    <3>1. e \in evidence /\ e.attempt \in sets[wf.gen]
      BY DEF SetRecords
    <3>2. PICK f \in evidence : f.attempt = e.attempt /\ f.gen = wf.gen
      <4>1. PICK g \in Generations : g = wf.gen
        BY <1>1
      <4>2. \A a \in sets[g] : \E f \in evidence : f.attempt = a /\ f.gen = g
        BY SetListed
      <4> QED BY <3>1, <4>1, <4>2
    <3>3. f = e
      BY <3>1, <3>2, RecordFacts
    <3> QED BY <1>1, <3>1, <3>2, <3>3 DEF EvidenceComplete
  <2> QED BY <2>1
<1>5. ~Unaccounted(SetRecords(wf.gen)) /\ SetRecords(wf.gen) # {}
  BY <1>3, <1>4, ConstantsAssumption DEF Unaccounted
<1>6. {e \in evidence : e.attempt \in CurrentDecision.refs} = SetRecords(wf.gen)
  BY DEF CurrentDecision, SetRecords
<1>7. CurrentDecision.outcome = EvidenceRuleOutcome(wf.gen)
  BY DEF CurrentDecision
<1>8. ReissuedOutcome(CurrentDecision) = EvidenceRuleOutcome(wf.gen)
  BY <1>3, <1>5, <1>6 DEF ReissuedOutcome, EvidenceRuleOutcome
<1> QED BY <1>1, <1>2, <1>7, <1>8

LEMMA DecisionTyped ==
  ASSUME Grounded, NEW d \in decisions
  PROVE  d \in Decision /\ d.gen \in Generations /\ d.refs \subseteq Attempts
         /\ d.version \in Nat /\ d.outcome \in Outcomes
  BY DEF Grounded, Core, TypeOK, Decision

LEMMA DecisionsStep ==
  ASSUME Grounded, AuditedMove, GenerationsAudited, EvidenceComplete, SetsAudited,
         DecisionsAudited
  PROVE  DecisionsAudited'
<1>1. ASSUME NEW d, d.gen \in Generations, DecisionClosure(d), sets[d.gen] # {}
      PROVE  DecisionClosure(d)' /\ sets'[d.gen] # {}
  <2>1. /\ gens'[d.gen].frozen = gens[d.gen].frozen
    BY <1>1, FrozenKept DEF SetsAudited, Grounded
  <2>2. sets'[d.gen] = sets[d.gen]
    <3>1. CASE UNCHANGED sets
      BY <3>1
    <3>2. CASE RecordsSet
      <4>1. sets' = [sets EXCEPT ![wf.gen] = {e.attempt : e \in TestEvidence(wf.gen)}]
        BY <3>2 DEF RecordsSet
      <4>2. wf.gen # None /\ wf.phase = "EVIDENCE_BUILD"
        BY <3>2 DEF RecordsSet, ActiveState
      <4>3. sets[wf.gen] = {}
        BY <4>2 DEF SetsAudited
      <4>4. sets \in [Generations -> SUBSET Attempts]
        BY DEF Grounded, Core, TypeOK
      <4> QED BY <1>1, <4>1, <4>3, <4>4
    <3> QED BY <3>1, <3>2, SetForm
  <2>3. d.refs = sets[d.gen]
    BY <1>1 DEF DecisionClosure
  <2>4. {e \in evidence' : e.attempt \in d.refs} = {e \in evidence : e.attempt \in d.refs}
    BY <1>1, <2>3, ConsumedKept
  <2>5. ReissuedOutcome(d)' = ReissuedOutcome(d)
    BY <2>4 DEF ReissuedOutcome
  <2> QED BY <1>1, <2>1, <2>2, <2>5 DEF DecisionClosure
<1>2. \A d \in decisions : d.gen \in Generations
  BY DecisionTyped
<1>3. CASE UNCHANGED decisions
  BY <1>1, <1>2, <1>3 DEF DecisionsAudited
<1>4. CASE /\ StaysPut /\ wf.phase = "FINAL_VERIFY" /\ ActiveState("FROZEN")
           /\ decisions' = decisions \union {CurrentDecision}
  <2>1. /\ wf.gen \in Generations /\ sets[wf.gen] # {}
        /\ ReissuedOutcome(CurrentDecision) = CurrentDecision.outcome
    BY <1>4, CurrentReissued
  <2>2. /\ CurrentDecision.gen = wf.gen /\ CurrentDecision.refs = sets[wf.gen]
        /\ CurrentDecision.digest = gens[wf.gen].frozen
    BY DEF CurrentDecision
  <2>3. DecisionClosure(CurrentDecision) /\ sets[CurrentDecision.gen] # {}
    BY <2>1, <2>2 DEF DecisionClosure
  <2>4. PICK c : c = CurrentDecision
    OBVIOUS
  <2>5. DecisionClosure(c)' /\ sets'[c.gen] # {}
    BY <1>1, <2>1, <2>2, <2>3, <2>4
  <2> QED BY <1>1, <1>2, <1>4, <2>4, <2>5 DEF DecisionsAudited
<1> QED BY <1>3, <1>4, DecisionForm

-----------------------------------------------------------------------------
(* Repairs *)

NoneRejected ==
  /\ UNCHANGED repairs
  /\ \A g \in Generations : gens'[g].state = "REJECTED" => gens[g].state = "REJECTED"

LEMMA RepairForm ==
  ASSUME Core, AuditedMove
  PROVE  NoneRejected \/ \E d \in decisions, g \in Generations : Rejects(g, d)
<1>1. gens \in [Generations -> Generation]
  BY DEF Core, TypeOK
<1>2. ASSUME UNCHANGED <<gens, repairs>> PROVE NoneRejected
  BY <1>2 DEF NoneRejected
<1>3. ASSUME NEW t, t # "REJECTED", gens' = [gens EXCEPT ![wf.gen].state = t], UNCHANGED repairs
      PROVE  NoneRejected
  BY <1>1, <1>3 DEF NoneRejected, Generation
<1>4. ASSUME Invalidates, UNCHANGED repairs PROVE NoneRejected
  BY <1>3, <1>4 DEF Invalidates, Invalidate
<1>5. ASSUME NEW d \in Digests, UNCHANGED repairs,
             gens' = [gens EXCEPT ![wf.gen] = [@ EXCEPT !.state = "FROZEN", !.frozen = d]]
      PROVE  NoneRejected
  <2>1. ASSUME NEW g \in Generations, g = wf.gen PROVE gens'[g].state = "FROZEN"
    BY <1>1, <1>5, <2>1 DEF Generation
  <2>2. ASSUME NEW g \in Generations, g # wf.gen PROVE gens'[g] = gens[g]
    BY <1>1, <1>5, <2>2
  <2> QED BY <1>5, <2>1, <2>2 DEF NoneRejected
<1>6. ASSUME NEW status, NEW failure, NEW runStatus, Ends(status, failure, runStatus)
      PROVE  NoneRejected
  <2>1. UNCHANGED repairs
    BY <1>6 DEF Ends, AcceptanceRows
  <2>2. CASE UNCHANGED CandidateRows
    BY <1>2, <2>1, <2>2 DEF CandidateRows
  <2>3. CASE Freezes
    <3>1. PICK d \in Digests :
            gens' = [gens EXCEPT ![wf.gen] = [@ EXCEPT !.state = "FROZEN", !.frozen = d]]
      BY <2>3 DEF Freezes
    <3> QED BY <1>5, <2>1, <3>1
  <2> QED BY <1>4, <1>6, <2>1, <2>2, <2>3 DEF Ends, Verifies
<1>7. ASSUME NEW h \in Generations, NEW d \in Digests, Prepares(h, d) PROVE NoneRejected
  <2>1. gens' = [gens EXCEPT ![h] = PrepareGeneration(wf.gen, d)] /\ UNCHANGED repairs
    BY <1>7 DEF Prepares, AcceptanceRows
  <2>2. gens'[h].state = "MUTABLE"
    BY <1>1, <2>1 DEF PrepareGeneration
  <2>3. ASSUME NEW g \in Generations, g # h PROVE gens'[g] = gens[g]
    BY <1>1, <2>1, <2>3
  <2> QED BY <2>1, <2>2, <2>3 DEF NoneRejected
<1>8. ASSUME BeginsFreeze PROVE NoneRejected
  BY <1>3, <1>8 DEF BeginsFreeze, AcceptanceRows
<1>9. ASSUME NEW d \in decisions, Closes(d) PROVE NoneRejected
  BY <1>3, <1>9 DEF Closes
<1>10. ASSUME FailsIntegrity PROVE NoneRejected
  BY <1>4, <1>10 DEF FailsIntegrity, AcceptanceRows
<1>11. ASSUME \/ Enters \/ RecordsSet \/ Cancels \/ StaysPut
              \/ \E a \in Attempts : Starts(a)
              \/ \E status \in {"READY", "BLOCKED"} : Resumes(status)
       PROVE  NoneRejected
  BY <1>2, <1>11 DEF Enters, RecordsSet, Cancels, StaysPut, Starts, Resumes, CandidateRows,
                     AcceptanceRows
<1>12. CASE \E d \in decisions, g \in Generations : Rejects(g, d)
  BY <1>12
<1> QED
  BY <1>6, <1>7, <1>8, <1>9, <1>10, <1>11, <1>12 DEF AuditedMove

LEMMA RepairTyped ==
  ASSUME Grounded, NEW r \in repairs
  PROVE  /\ r \in Repair /\ r.decision \in Decision /\ r.decision.gen \in Generations
         /\ r.child \in Generations /\ r.version \in Nat
  BY DEF Grounded, Core, TypeOK, Repair, Decision

(* The child of a repair is the next generation.                              *)
LEMMA NextGeneration ==
  ASSUME LatestActive, wf.gen \in Generations, gens[wf.gen].state # "NONE",
         NEW g \in Generations, FreshGeneration(g)
  PROVE  g = wf.gen + 1
<1>1. wf.gen \in Nat /\ g \in Nat
  BY ConstantsAssumption
<1>2. wf.gen < g
  <2>1. ~(wf.gen >= g)
    BY DEF FreshGeneration
  <2> QED BY <1>1, <2>1
<1>3. PICK h \in Generations : h = wf.gen + 1
  BY <1>1, <1>2, GenerationsNumbered
<1>4. gens[h].state = "NONE"
  <2>1. ~(h <= wf.gen)
    BY <1>1, <1>3
  <2> QED BY <2>1 DEF LatestActive
<1>5. h >= g
  BY <1>4 DEF FreshGeneration
<1> QED BY <1>1, <1>2, <1>3, <1>5

LEMMA RejectedRows ==
  ASSUME Grounded, GenerationsAudited, LatestActive, NEW d \in decisions,
         NEW g \in Generations, Rejects(g, d)
  PROVE  /\ wf.gen \in Generations /\ wf.gen # g /\ g = wf.gen + 1
         /\ gens[wf.gen].state = "FROZEN" /\ gens'[wf.gen].state = "REJECTED"
         /\ gens'[wf.gen].frozen = gens[wf.gen].frozen
         /\ gens'[g] = PrepareGeneration(wf.gen, gens[wf.gen].frozen)
         /\ \A h \in Generations : h \notin {g, wf.gen} => gens'[h] = gens[h]
         /\ generationAudits'[wf.gen][4] = wf'.version
         /\ Len(generationAudits'[g]) = 1 /\ generationAudits'[g][1] = wf'.version
         /\ d.gen = wf.gen /\ d.version = wf.version /\ d.digest = gens[wf.gen].frozen
         /\ d.outcome = "REJECT_REPAIRABLE"
<1>1. /\ FreshGeneration(g) /\ ActiveState("FROZEN") /\ RecordGenerations({wf.gen, g})
      /\ gens' = [gens EXCEPT ![wf.gen].state = "REJECTED",
                              ![g] = PrepareGeneration(wf.gen, gens[wf.gen].frozen)]
      /\ d = CurrentDecision /\ d.outcome = "REJECT_REPAIRABLE"
      /\ wf'.version = wf.version + 1 /\ wf.version \in Nat
  BY DEF Rejects, Consuming, Transitioned, Moved, Grounded, Core, TypeOK, Workflow
<1>2. wf.gen \in Generations /\ gens[wf.gen].state = "FROZEN" /\ gens[g].state = "NONE"
  <2>1. g >= g
    BY ConstantsAssumption
  <2>2. gens[g].state = "NONE"
    BY <1>1, <2>1 DEF FreshGeneration
  <2> QED BY <1>1, <2>2, Active DEF ActiveState, Grounded
<1>3. wf.gen # g /\ g = wf.gen + 1
  BY <1>1, <1>2, NextGeneration
<1>4. gens \in [Generations -> Generation]
  BY DEF Grounded, Core, TypeOK
<1>5. gens'[wf.gen] = [gens[wf.gen] EXCEPT !.state = "REJECTED"]
  BY <1>1, <1>2, <1>3, <1>4
<1>6. gens'[wf.gen].state = "REJECTED" /\ gens'[wf.gen].frozen = gens[wf.gen].frozen
  BY <1>2, <1>4, <1>5 DEF Generation
<1>7. /\ gens'[g] = PrepareGeneration(wf.gen, gens[wf.gen].frozen)
      /\ \A h \in Generations : h \notin {g, wf.gen} => gens'[h] = gens[h]
  BY <1>1, <1>3, <1>4
<1>8. /\ generationAudits'[wf.gen] = Append(generationAudits[wf.gen], wf'.version)
      /\ generationAudits'[g] = Append(generationAudits[g], wf'.version)
  BY <1>1, <1>2 DEF RecordGenerations
<1>9. /\ generationAudits[wf.gen] \in Seq(Nat) /\ Len(generationAudits[wf.gen]) = 3
      /\ generationAudits[g] = <<>>
  BY <1>2 DEF GenerationsAudited, GenerationVersion
<1>10. generationAudits'[wf.gen][4] = wf'.version
  <2>1. wf'.version \in Nat
    BY <1>1
  <2>2. Append(generationAudits[wf.gen], wf'.version)[Len(generationAudits[wf.gen]) + 1]
          = wf'.version
    <3>1. \A s \in Seq(Nat), n \in Nat : Append(s, n)[Len(s) + 1] = n
      OBVIOUS
    <3> QED BY <1>9, <2>1, <3>1
  <2>3. generationAudits'[wf.gen][3 + 1] = wf'.version
    BY <1>8, <1>9, <2>2
  <2> QED BY <2>3
<1>11. Len(generationAudits'[g]) = 1 /\ generationAudits'[g][1] = wf'.version
  BY <1>8, <1>9
<1>12. d.gen = wf.gen /\ d.version = wf.version /\ d.digest = gens[wf.gen].frozen
  BY <1>1 DEF CurrentDecision
<1> QED BY <1>1, <1>2, <1>3, <1>6, <1>7, <1>10, <1>11, <1>12

(* A repair that the rows explain stays explained.                             *)
LEMMA RepairKept ==
  ASSUME Grounded, AuditedMove, TrailKept, GenerationsAudited, NEW r \in repairs,
         RepairClosure(r), RepairAuditClosure(r)
  PROVE  RepairClosure(r)' /\ RepairAuditClosure(r)'
<1>1. /\ r.decision.gen \in Generations /\ r.child \in Generations /\ r.version \in Nat
      /\ Core /\ generationAudits \in [Generations -> Seq(Nat)]
      /\ r.version \in 1..wf.version
  <2>1. r.version \in Nat /\ r.decision \in decisions
    BY RepairTyped DEF RepairClosure
  <2>2. r.decision.version + 1 = r.version /\ r.decision.version \in Nat /\ wf.version \in Nat
        /\ r.version <= wf.version
    BY <2>1, DecisionTyped DEF RepairClosure, TrailKept
  <2> QED BY <2>1, <2>2, RepairTyped DEF Grounded, GenerationsAudited
<1>2. r.decision \in decisions'
  BY DecisionForm DEF RepairClosure
<1>3. GenerationKept(r.decision.gen) /\ gens[r.decision.gen].state = "REJECTED"
  BY <1>1, GenerationFacts DEF RepairClosure, TerminalStates
<1>4. /\ gens'[r.child].parent = gens[r.child].parent /\ gens'[r.child].base = gens[r.child].base
      /\ gens[r.child].state # "NONE"
  <2>1. gens[r.child].state # "NONE"
    <3>1. gens[r.child].state = "NONE" => generationAudits[r.child] = <<>>
      BY <1>1 DEF GenerationsAudited
    <3>2. Len(generationAudits[r.child]) >= 1
      BY DEF RepairAuditClosure
    <3>3. ASSUME generationAudits[r.child] = <<>> PROVE FALSE
      BY <3>2, <3>3
    <3> QED BY <3>1, <3>3
  <2> QED BY <1>1, <2>1, GenerationFacts
<1>5. RepairClosure(r)'
  BY <1>1, <1>2, <1>3, <1>4 DEF RepairClosure, GenerationKept, TrailKept
<1>6. /\ Len(generationAudits'[r.child]) >= 1
      /\ generationAudits'[r.child][1] = generationAudits[r.child][1]
  <2>1. generationAudits[r.child] \in Seq(Nat) /\ Len(generationAudits[r.child]) >= 1
    BY <1>1 DEF RepairAuditClosure
  <2>2. CASE GenerationKept(r.child)
    BY <2>1, <2>2 DEF GenerationKept
  <2>3. CASE GenerationAppended(r.child)
    <3>1. wf.version + 1 \in Nat
      BY DEF TrailKept
    <3>2. \A s \in Seq(Nat), n \in Nat :
            Len(s) >= 1 => Len(Append(s, n)) >= 1 /\ Append(s, n)[1] = s[1]
      OBVIOUS
    <3> QED BY <2>1, <2>3, <3>1, <3>2 DEF GenerationAppended
  <2> QED BY <1>1, <1>4, <2>2, <2>3, GenerationForms
          DEF GenerationForm, GenerationMade, GenerationChanged
<1>7. trail'[r.version] = trail[r.version]
  BY <1>1 DEF TrailKept
<1>8. GenerationVersion(r.decision.gen)' = GenerationVersion(r.decision.gen)
  BY <1>3 DEF GenerationVersion, GenerationKept
<1>9. RepairAuditClosure(r)'
  BY <1>3, <1>6, <1>7, <1>8 DEF RepairAuditClosure, GenerationKept
<1> QED BY <1>5, <1>9

LEMMA RepairMade ==
  ASSUME Grounded, Grounded', TrailSound, GenerationsAudited, LatestActive, NEW d \in decisions,
         NEW g \in Generations, Rejects(g, d),
         NEW r, r = [version |-> wf.version + 1, decision |-> d, child |-> g]
  PROVE  RepairClosure(r)' /\ RepairAuditClosure(r)'
<1>1. /\ wf.gen \in Generations /\ wf.gen # g /\ g = wf.gen + 1
      /\ gens[wf.gen].state = "FROZEN" /\ gens'[wf.gen].state = "REJECTED"
      /\ gens'[wf.gen].frozen = gens[wf.gen].frozen
      /\ gens'[g] = PrepareGeneration(wf.gen, gens[wf.gen].frozen)
      /\ generationAudits'[wf.gen][4] = wf'.version
      /\ Len(generationAudits'[g]) = 1 /\ generationAudits'[g][1] = wf'.version
      /\ d.gen = wf.gen /\ d.version = wf.version /\ d.digest = gens[wf.gen].frozen
      /\ d.outcome = "REJECT_REPAIRABLE"
  BY RejectedRows
<1>2. r.version = wf.version + 1 /\ r.decision = d /\ r.child = g
  OBVIOUS
<1>3. /\ decisions' = decisions
      /\ Moved("WORKFLOW_PHASE_TRANSITIONED", "IMPLEMENT", "READY", wf.attempt, g)
  BY DEF Rejects, Consuming, Transitioned
<1>4. /\ wf'.version = wf.version + 1 /\ wf.version \in Nat /\ wf'.version \in Nat
      /\ trail'[wf'.version].type = "WORKFLOW_PHASE_TRANSITIONED"
      /\ trail'[wf'.version].phase = "IMPLEMENT"
      /\ trail'[wf'.version].status = "READY" /\ trail'[wf'.version].gen = g
  BY <1>3, MovedEvent DEF Grounded, EventTypes, Core, TypeOK, Workflow
<1>5. gens'[g].parent = wf.gen /\ gens'[g].base = gens[wf.gen].frozen
  BY <1>1 DEF PrepareGeneration
<1>6. RepairClosure(r)'
  BY <1>1, <1>2, <1>3, <1>4, <1>5 DEF RepairClosure
<1>7. PICK h : h = wf.gen
  OBVIOUS
<1>8. GenerationVersion(h)' = 4
  BY <1>1, <1>7 DEF GenerationVersion
<1>9. RepairAuditClosure(r)'
  BY <1>1, <1>2, <1>4, <1>7, <1>8 DEF RepairAuditClosure
<1> QED BY <1>6, <1>9

LEMMA RepairsStep ==
  ASSUME Grounded, Grounded', AuditedMove, TrailSound, TrailKept, GenerationsAudited,
         LatestActive, RepairsAudited
  PROVE  RepairsAudited'
<1>1. ASSUME NEW r \in repairs PROVE RepairClosure(r)' /\ RepairAuditClosure(r)'
  BY RepairKept DEF RepairsAudited
<1>2. CASE NoneRejected
  BY <1>1, <1>2 DEF NoneRejected, RepairsAudited
<1>3. ASSUME NEW d \in decisions, NEW g \in Generations, Rejects(g, d) PROVE RepairsAudited'
  <2>1. PICK r : r = [version |-> wf.version + 1, decision |-> d, child |-> g]
    OBVIOUS
  <2>2. repairs' = repairs \union {r} /\ r.decision.gen = d.gen
    BY <1>3, <2>1 DEF Rejects
  <2>3. RepairClosure(r)' /\ RepairAuditClosure(r)'
    BY <1>3, <2>1, RepairMade
  <2>4. /\ wf.gen \in Generations /\ gens[wf.gen].state = "FROZEN" /\ d.gen = wf.gen
        /\ gens'[g].state = "MUTABLE"
        /\ \A h \in Generations : h \notin {g, wf.gen} => gens'[h] = gens[h]
    <3>1. /\ wf.gen \in Generations /\ gens[wf.gen].state = "FROZEN" /\ d.gen = wf.gen
          /\ gens'[g] = PrepareGeneration(wf.gen, gens[wf.gen].frozen)
          /\ \A h \in Generations : h \notin {g, wf.gen} => gens'[h] = gens[h]
      BY <1>3, RejectedRows
    <3>2. gens'[g].state = "MUTABLE"
      BY <3>1 DEF PrepareGeneration
    <3> QED BY <3>1, <3>2
  <2>5. ASSUME NEW h \in Generations, gens'[h].state = "REJECTED"
        PROVE  \E q \in repairs' : {s \in repairs' : s.decision.gen = h} = {q}
    <3>1. CASE h = wf.gen
      <4>1. \A s \in repairs : s.decision.gen # h
        BY <2>4, <3>1 DEF RepairsAudited, RepairClosure
      <4>2. {s \in repairs' : s.decision.gen = h} = {r}
        BY <2>2, <2>4, <3>1, <4>1
      <4> QED BY <2>2, <4>2
    <3>2. CASE h # wf.gen
      <4>1. gens[h].state = "REJECTED"
        BY <2>4, <2>5, <3>2
      <4>2. PICK q \in repairs : {s \in repairs : s.decision.gen = h} = {q}
        BY <4>1 DEF RepairsAudited
      <4>3. {s \in repairs' : s.decision.gen = h} = {q}
        BY <2>2, <2>4, <3>2, <4>2
      <4> QED BY <2>2, <4>2, <4>3
    <3> QED BY <3>1, <3>2
  <2> QED BY <1>1, <2>2, <2>3, <2>5 DEF RepairsAudited
<1> QED BY <1>2, <1>3, RepairForm DEF Grounded

-----------------------------------------------------------------------------
(* The context of a repair compiles from the rows for the version that the     *)
(* repair left, and never changes.                                             *)

LEMMA ConsumedBound ==
  ASSUME Grounded, EvidenceRecords, NEW d \in decisions, DecisionClosure(d),
         NEW e \in evidence, e.attempt \in d.refs
  PROVE  e.kind = "TEST_RESULT" /\ e.gen = d.gen /\ e.digest = d.digest
<1>1. d.gen \in Generations /\ d.refs = sets[d.gen] /\ gens[d.gen].frozen = d.digest
  BY DecisionTyped DEF DecisionClosure
<1>2. PICK g \in Generations : g = d.gen
  BY <1>1
<1>3. \A a \in sets[g] : \E f \in evidence :
        f.attempt = a /\ f.gen = g /\ f.kind = "TEST_RESULT"
  BY SetListed
<1>4. PICK f \in evidence : f.attempt = e.attempt /\ f.gen = g /\ f.kind = "TEST_RESULT"
  BY <1>1, <1>2, <1>3
<1>5. f = e
  BY <1>4, RecordFacts
<1>6. gens[e.gen].frozen = e.digest
  BY DEF EvidenceRecords, EvidenceRecordClosure
<1> QED BY <1>1, <1>2, <1>4, <1>5, <1>6

(* An Evidence Set has as many records as references.                         *)
LEMMA ConsumedCounted ==
  ASSUME Grounded, EvidenceComplete, NEW d \in decisions, DecisionClosure(d)
  PROVE  Cardinality({e \in evidence : e.attempt \in d.refs}) = Cardinality(d.refs)
<1> DEFINE used == {e \in evidence : e.attempt \in d.refs}
           referenced == [e \in used |-> e.attempt]
<1>1. d.gen \in Generations /\ d.refs = sets[d.gen]
  BY DecisionTyped DEF DecisionClosure
<1>2. PICK g \in Generations : g = d.gen
  BY <1>1
<1>3. \A a \in sets[g] : \E f \in evidence : f.attempt = a
  BY SetListed
<1>4. \A a \in d.refs : \E f \in used : f.attempt = a
  BY <1>1, <1>2, <1>3
<1>5. IsFiniteSet(used)
  <2>1. used \in SUBSET evidence /\ IsFiniteSet(evidence)
    BY DEF EvidenceComplete
  <2> QED BY <2>1, FS_Subset
<1>6. \A e, f \in used : e.attempt = f.attempt => e = f
  BY RecordFacts
<1>7. referenced \in Bijection(used, d.refs)
  <2>1. referenced \in [used -> d.refs]
    OBVIOUS
  <2>2. \A e, f \in used : referenced[e] = referenced[f] => e = f
    BY <1>6
  <2>3. \A a \in d.refs : \E e \in used : referenced[e] = a
    BY <1>4
  <2> HIDE DEF referenced, used
  <2> QED BY <2>1, <2>2, <2>3 DEF Bijection, Injection, Surjection, IsInjective
<1>8. ExistsBijection(used, d.refs)
  BY <1>7 DEF ExistsBijection
<1> HIDE DEF used
<1>9. Cardinality(d.refs) = Cardinality(used)
  BY <1>5, <1>8, FS_Bijection
<1> QED BY <1>9 DEF used

LEMMA RepairCompiled ==
  ASSUME Grounded, EvidenceComplete, EvidenceRecords, DecisionsAudited, RepairsAudited,
         NEW r \in repairs
  PROVE  RepairCompiles(r, r.version + 1)
<1>1. PICK d \in decisions : d = r.decision
  BY DEF RepairsAudited, RepairClosure
<1>2. DecisionClosure(d) /\ d.gen \in Generations
  BY DecisionTyped DEF DecisionsAudited
<1>3. /\ d.outcome = "REJECT_REPAIRABLE" /\ gens[d.gen].state = "REJECTED"
      /\ gens[d.gen].frozen = d.digest
      /\ gens[r.child].parent = d.gen /\ gens[r.child].base = d.digest
  BY <1>1 DEF RepairsAudited, RepairClosure
<1>4. RepairAuthority(r, r.version + 1)
  BY <1>1, <1>2, <1>3 DEF RepairAuthority, DecisionClosure
<1>5. ConsumedEvidence(r) = {e \in evidence : e.attempt \in d.refs}
  BY <1>1 DEF ConsumedEvidence
<1>6. \A e \in ConsumedEvidence(r) :
        e.kind = "TEST_RESULT" /\ e.gen = d.gen /\ e.digest = d.digest
  BY <1>2, <1>5, ConsumedBound
<1>7. Cardinality(ConsumedEvidence(r)) = Cardinality(d.refs)
  BY <1>2, <1>5, ConsumedCounted
<1>8. \E freeze \in ParentFreezes(r) :
        ParentFreezes(r) = {freeze} /\ freeze.digest = d.digest
  <2>1. ParentFreezes(r) = FreezesOf(d.gen)
    BY <1>1 DEF ParentFreezes, FreezesOf
  <2>2. PICK f \in FreezesOf(d.gen) : FreezesOf(d.gen) = {f}
    BY <1>2, <1>3 DEF EvidenceComplete, FrozenStates
  <2>3. f \in evidence /\ f.gen = d.gen
    BY DEF FreezesOf, EvidenceOf
  <2>4. gens[d.gen].frozen = f.digest
    BY <2>3 DEF EvidenceRecords, EvidenceRecordClosure
  <2> QED BY <1>3, <2>1, <2>2, <2>4
<1>9. \E e \in evidence : e.attempt \in d.refs /\ e.result = "FAIL"
  BY <1>2, <1>3 DEF DecisionClosure, ReissuedOutcome
<1>10. FailedEvidence(r) # {}
  BY <1>5, <1>9 DEF FailedEvidence
<1> QED BY <1>1, <1>4, <1>6, <1>7, <1>8, <1>10 DEF RepairCompiles, RepairSourcesExact

LEMMA ContextStable ==
  ASSUME Grounded, AuditedMove, DecisionsAudited, RepairsAudited, NEW r \in repairs
  PROVE  RepairContext(r)' = RepairContext(r)
<1>1. PICK d \in decisions : d = r.decision
  BY DEF RepairsAudited, RepairClosure
<1>2. d.gen \in Generations /\ d.refs = sets[d.gen] /\ gens[d.gen].state = "REJECTED"
  BY <1>1, DecisionTyped DEF DecisionsAudited, DecisionClosure, RepairsAudited, RepairClosure
<1>3. {e \in evidence' : e.attempt \in d.refs} = {e \in evidence : e.attempt \in d.refs}
  BY <1>2, ConsumedKept
<1>4. FailedEvidence(r)' = FailedEvidence(r)
  BY <1>1, <1>3 DEF FailedEvidence, ConsumedEvidence
<1>5. \A e \in evidence' \ evidence : e.gen # d.gen
  <2>1. ASSUME NEW e \in evidence' \ evidence PROVE gens[e.gen].state \in {"FREEZING", "FROZEN"}
    BY EvidenceGains DEF EvidenceMade
  <2> QED BY <1>2, <2>1
<1>6. ParentFreezes(r)' = ParentFreezes(r)
  BY <1>1, <1>5, EvidenceGains DEF ParentFreezes, EvidenceOf
<1> QED BY <1>4, <1>6 DEF RepairContext

(* In every explained state, and so in the one after a step, they all compile. *)
RepairsExplained ==
  Grounded /\ EvidenceComplete /\ EvidenceRecords /\ DecisionsAudited /\ RepairsAudited
RepairsCompile == \A r \in repairs : RepairCompiles(r, r.version + 1)

LEMMA ExplainedCompile == RepairsExplained => RepairsCompile
  BY RepairCompiled DEF RepairsExplained, RepairsCompile

LEMMA ExplainedCompileNext == RepairsExplained' => RepairsCompile'
  BY ExplainedCompile, PTL

LEMMA RepairsStay == ASSUME Core, AuditedMove PROVE repairs \subseteq repairs'
  BY RepairForm DEF NoneRejected, Rejects

(* A manifest that the rows rebuild is rebuilt from them after the step too.   *)
LEMMA ManifestKept ==
  ASSUME Grounded, AuditedMove, TrailKept, GenerationsAudited, DecisionsAudited,
         RepairsAudited, RepairsCompile', NEW a \in Attempts, NEW m \in Manifest,
         ManifestVerified(m, a), attempts'[a].phase = attempts[a].phase,
         m.candidate # None => gens[m.candidate.gen].state # "NONE"
  PROVE  /\ ManifestVerified(m, a)'
         /\ m.candidate # None => gens'[m.candidate.gen].state # "NONE"
<1>1. /\ Core /\ generationAudits \in [Generations -> Seq(Nat)]
      /\ m.version \in Nat
  BY DEF Grounded, GenerationsAudited, Manifest
<1>2. ASSUME m.candidate # None
      PROVE  /\ gens'[m.candidate.gen].state # "NONE"
             /\ gens'[m.candidate.gen].base = gens[m.candidate.gen].base
  <2>1. m.candidate \in CandidateBindings
    BY <1>2 DEF Manifest
  <2>2. m.candidate.gen \in Generations
    BY <2>1 DEF CandidateBindings
  <2> QED BY <1>1, <1>2, <2>2, GenerationFacts
<1>3. RetainedCandidate(m)'
  BY <1>2 DEF ManifestVerified, RetainedCandidate
<1>4. RetainedRepair(m)'
  <2>1. ASSUME m.repair # None
        PROVE  /\ m.candidate # None
               /\ \E r \in RepairsFor(m.candidate.gen)' :
                    RepairCompiles(r, m.version)' /\ m.repair = RepairContext(r)'
    <3>1. /\ m.candidate # None
          /\ \E r \in RepairsFor(m.candidate.gen) :
               RepairCompiles(r, m.version) /\ m.repair = RepairContext(r)
      BY <2>1 DEF ManifestVerified, RetainedRepair
    <3>2. PICK r \in RepairsFor(m.candidate.gen) :
            RepairCompiles(r, m.version) /\ m.repair = RepairContext(r)
      BY <3>1
    <3>3. r \in repairs /\ r \in repairs' /\ r.child = m.candidate.gen
      BY <1>1, RepairsStay DEF RepairsFor
    <3>4. m.version = r.version + 1
      BY <3>2 DEF RepairCompiles, RepairAuthority
    <3>5. RepairCompiles(r, m.version)'
      BY <3>3, <3>4 DEF RepairsCompile
    <3>6. RepairContext(r)' = m.repair
      BY <3>2, <3>3, ContextStable
    <3>7. r \in RepairsFor(m.candidate.gen)'
      BY <3>3 DEF RepairsFor
    <3> QED BY <3>1, <3>5, <3>6, <3>7
  <2> QED BY <2>1 DEF RetainedRepair
<1>5. RetainedPackage(m, a)'
  <2>1. m.version <= wf'.version
    BY <1>1 DEF ManifestVerified, RetainedPackage, TrailKept
  <2> QED BY <2>1 DEF ManifestVerified, RetainedPackage, WorkerAuthority
<1> QED BY <1>2, <1>3, <1>4, <1>5 DEF ManifestVerified

LEMMA ContextTyped ==
  ASSUME Grounded, RepairsCompile, NEW r \in repairs
  PROVE  RepairContext(r) \in RepairContexts
<1>1. r \in Repair
  BY RepairTyped
<1>2. {e.attempt : e \in FailedEvidence(r)} \in SUBSET Attempts
  <2>1. \A e \in FailedEvidence(r) : e.attempt \in Attempts
    BY RecordFacts DEF FailedEvidence, ConsumedEvidence
  <2> QED BY <2>1
<1>3. (CHOOSE e \in ParentFreezes(r) : TRUE).attempt \in Attempts
  <2>1. PICK e \in ParentFreezes(r) : TRUE
    BY DEF RepairsCompile, RepairCompiles, RepairSourcesExact
  <2>2. (CHOOSE f \in ParentFreezes(r) : TRUE) \in ParentFreezes(r)
    BY <2>1, Zenon
  <2>3. ParentFreezes(r) \subseteq evidence
    BY DEF ParentFreezes, EvidenceOf
  <2>4. PICK f \in evidence : f = (CHOOSE e1 \in ParentFreezes(r) : TRUE)
    BY <2>2, <2>3
  <2>5. f.attempt \in Attempts
    BY RecordFacts
  <2> QED BY <2>4, <2>5, Zenon
<1> QED BY <1>1, <1>2, <1>3 DEF RepairContext, RepairContexts

LEMMA EntriesTyped ==
  ASSUME NEW candidate \in CandidateBindings \union {None},
         NEW context \in RepairContexts \union {None}
  PROVE  ManifestEntries(candidate, context) \in SUBSET [kind : EntryKinds, source : Nat]
<1>1. Attempts \subseteq Nat /\ Generations \subseteq Nat /\ \A v \in 1..MaxVersion : v \in Nat
  BY ConstantsAssumption
<1>2. candidate # None => candidate.gen \in Nat
  <2>1. candidate # None => candidate \in CandidateBindings
    OBVIOUS
  <2>2. candidate # None => candidate.gen \in Generations
    BY <2>1 DEF CandidateBindings
  <2> QED BY <1>1, <2>2
<1>3. ASSUME context # None
      PROVE  RepairEntries(context) \subseteq [kind : EntryKinds, source : Nat]
  <2>1. /\ context.repair \in Repair /\ context.failed \subseteq Attempts
        /\ context.changeSet \in Attempts
    BY <1>3 DEF RepairContexts
  <2>2. context.repair.version \in Nat /\ context.repair.child \in Nat
        /\ context.repair.decision \in Decision
    <3>1. /\ context.repair.version \in 1..MaxVersion /\ context.repair.child \in Generations
          /\ context.repair.decision \in Decision
      BY <2>1 DEF Repair
    <3> QED BY <1>1, <3>1, Zenon
  <2>3. context.repair.decision.version \in Nat /\ context.repair.decision.gen \in Nat
    <3>1. /\ context.repair.decision.version \in 1..MaxVersion
          /\ context.repair.decision.gen \in Generations
      BY <2>2 DEF Decision
    <3> QED BY <1>1, <3>1, Zenon
  <2>4. context.failed \subseteq Nat /\ context.changeSet \in Nat
    BY <1>1, <2>1
  <2>5. PriorAttemptFeedback(context) \subseteq [kind : EntryKinds, source : Nat]
    BY <2>4 DEF PriorAttemptFeedback, EntryKinds
  <2>6. {[kind |-> "EVIDENCE", source |-> a] : a \in context.failed}
          \subseteq [kind : EntryKinds, source : Nat]
    BY <2>4 DEF EntryKinds
  <2>7. {[kind |-> "ACCEPTANCE_REPAIR", source |-> context.repair.version],
         [kind |-> "ACCEPTANCE_DECISION", source |-> context.repair.decision.version],
         [kind |-> "EVIDENCE_SET", source |-> context.repair.decision.gen],
         [kind |-> "CANDIDATE_RELATIONSHIP", source |-> context.repair.child]}
          \subseteq [kind : EntryKinds, source : Nat]
    BY <2>2, <2>3 DEF EntryKinds
  <2> QED BY <2>5, <2>6, <2>7 DEF RepairEntries
<1>4. candidate # None =>
        {[kind |-> "CANDIDATE", source |-> candidate.gen]}
          \subseteq [kind : EntryKinds, source : Nat]
  BY <1>2 DEF EntryKinds
<1>5. CASE candidate = None
  BY <1>3, <1>5 DEF ManifestEntries
<1>6. CASE candidate # None
  BY <1>3, <1>4, <1>6 DEF ManifestEntries
<1> QED BY <1>5, <1>6

(* What the manifest of the Attempt that a step begins is compiled from.       *)
LEMMA CompiledFacts ==
  ASSUME Grounded, RepairsCompile, wf.phase \in CodingPhases, wf.version + 1 \in 1..MaxVersion
  PROVE  /\ CompiledManifest \in Manifest
         /\ CompiledManifest.version = wf.version + 1 /\ CompiledManifest.phase = wf.phase
         /\ CompiledManifest.contract = ResponseContract(wf.phase)
         /\ CompiledManifest.entries =
              ManifestEntries(CompiledManifest.candidate, CompiledManifest.repair)
         /\ wf.phase # "IMPLEMENT" =>
              CompiledManifest.candidate = None /\ CompiledManifest.repair = None
         /\ wf.phase = "IMPLEMENT" =>
              /\ wf.gen \in Generations /\ gens[wf.gen].state # "NONE"
              /\ CompiledManifest.candidate # None /\ CompiledManifest.candidate.gen = wf.gen
              /\ CompiledManifest.candidate.base = gens[wf.gen].base
         /\ CompiledManifest.repair # None =>
              /\ wf.phase = "IMPLEMENT"
              /\ \E r \in repairs : r.child = wf.gen /\ CompiledManifest.repair = RepairContext(r)
<1>1. ASSUME wf.phase = "IMPLEMENT"
      PROVE  /\ wf.gen \in Generations /\ gens[wf.gen].state = "MUTABLE"
             /\ [gen |-> wf.gen, base |-> gens[wf.gen].base] \in CandidateBindings
  <2>1. wf.gen # None /\ wf.gen \in Generations
    BY <1>1 DEF Grounded, CandidateLineage, Core, TypeOK, Workflow
  <2>2. gens[wf.gen].state = "MUTABLE"
    BY <1>1, <2>1 DEF Grounded, CandidateLineage, PhaseStates
  <2>3. gens[wf.gen] \in Generation
    BY <2>1 DEF Grounded, Core, TypeOK
  <2>4. gens[wf.gen].base \in Digests \union {None}
    BY <2>3 DEF Generation
  <2> QED BY <2>1, <2>2, <2>4 DEF CandidateBindings
<1>2. CandidateBinding \in CandidateBindings \union {None}
  BY <1>1 DEF CandidateBinding
<1>3. CurrentRepairContext # None =>
        /\ wf.phase = "IMPLEMENT"
        /\ \E r \in repairs : r.child = wf.gen /\ CurrentRepairContext = RepairContext(r)
  <2>1. ASSUME wf.phase = "IMPLEMENT", RepairsFor(wf.gen) # {}
        PROVE  \E r \in repairs : r.child = wf.gen /\ CurrentRepairContext = RepairContext(r)
    <3>1. (CHOOSE r \in RepairsFor(wf.gen) : TRUE) \in RepairsFor(wf.gen)
      BY <2>1, Zenon
    <3>2. CurrentRepairContext = RepairContext(CHOOSE r \in RepairsFor(wf.gen) : TRUE)
      BY <2>1 DEF CurrentRepairContext
    <3>3. PICK r \in RepairsFor(wf.gen) : CurrentRepairContext = RepairContext(r)
      BY <3>1, <3>2, Zenon
    <3> QED BY <3>3 DEF RepairsFor
  <2> QED BY <2>1 DEF CurrentRepairContext
<1>4. CurrentRepairContext \in RepairContexts \union {None}
  BY <1>3, ContextTyped
<1>5. ManifestEntries(CandidateBinding, CurrentRepairContext)
        \in SUBSET [kind : EntryKinds, source : Nat]
  BY <1>2, <1>4, EntriesTyped
<1>6. ResponseContract(wf.phase) \in {"COMPLETION_REQUEST", "PROPOSALS"}
  BY DEF ResponseContract
<1>7. CompiledManifest \in Manifest
  BY <1>2, <1>4, <1>5, <1>6 DEF CompiledManifest, Manifest
<1>8. /\ CompiledManifest.version = wf.version + 1 /\ CompiledManifest.phase = wf.phase
      /\ CompiledManifest.contract = ResponseContract(wf.phase)
      /\ CompiledManifest.candidate = CandidateBinding
      /\ CompiledManifest.repair = CurrentRepairContext
      /\ CompiledManifest.entries = ManifestEntries(CandidateBinding, CurrentRepairContext)
  BY DEF CompiledManifest
<1>9. wf.phase # "IMPLEMENT" => CandidateBinding = None /\ CurrentRepairContext = None
  BY DEF CandidateBinding, CurrentRepairContext
<1>10. wf.phase = "IMPLEMENT" =>
         /\ CandidateBinding # None /\ CandidateBinding.gen = wf.gen
         /\ CandidateBinding.base = gens[wf.gen].base
  BY <1>1, NoneIsNoManifest DEF CandidateBinding
<1> QED BY <1>1, <1>3, <1>7, <1>8, <1>9, <1>10

-----------------------------------------------------------------------------
(* Contexts *)

(* No Attempt is begun, and what the manifests depend on is kept.              *)
WorkersKept ==
  /\ UNCHANGED manifests
  /\ \A a \in Attempts :
       /\ attempts'[a].status = "NONE" <=> attempts[a].status = "NONE"
       /\ attempts[a].status # "NONE" => attempts'[a].phase = attempts[a].phase
       /\ attemptAudits'[a].starts = attemptAudits[a].starts

LEMMA WorkersForm ==
  ASSUME Core, AuditTypes, AuditedMove PROVE WorkersKept \/ \E a \in Attempts : Starts(a)
<1>1. ASSUME UNCHANGED <<attempts, attemptAudits, manifests>> PROVE WorkersKept
  BY <1>1 DEF WorkersKept
<1>2. ASSUME AttemptDone(wf.attempt), UNCHANGED manifests PROVE WorkersKept
  <2>1. ASSUME NEW a \in Attempts, a = wf.attempt
        PROVE  /\ attempts'[a].status = "NONE" <=> attempts[a].status = "NONE"
               /\ attempts'[a].phase = attempts[a].phase
               /\ attemptAudits'[a].starts = attemptAudits[a].starts
    <3>1. attempts'[a].status # "NONE"
      BY <1>2, <2>1 DEF AttemptDone, EndRecorded
    <3> QED BY <1>2, <2>1, <3>1 DEF AttemptDone
  <2>2. ASSUME NEW a \in Attempts, a # wf.attempt PROVE Stays(a)
    BY <1>2, <2>2 DEF AttemptDone
  <2> QED BY <1>2, <2>1, <2>2 DEF WorkersKept, Stays
<1>3. ASSUME \/ Enters \/ BeginsFreeze \/ RecordsSet
             \/ \E g \in Generations, d \in Digests : Prepares(g, d)
             \/ \E d \in decisions : Closes(d)
             \/ \E d \in decisions, g \in Generations : Rejects(g, d)
             \/ FailsIntegrity \/ StaysPut
             \/ \E status \in {"READY", "BLOCKED"} : Resumes(status)
      PROVE  WorkersKept
  <2>1. UNCHANGED <<attempts, attemptAudits, manifests>>
    BY <1>3 DEF Enters, BeginsFreeze, RecordsSet, Prepares, Closes, Rejects, Consuming,
                FailsIntegrity, StaysPut, Resumes, AttemptRows
  <2> QED BY <1>1, <2>1
<1>4. ASSUME Cancels PROVE WorkersKept
  <2>1. UNCHANGED manifests
    BY <1>4 DEF Cancels
  <2>2. CASE wf.status = "RUNNING"
    BY <1>2, <1>4, <2>1, <2>2, DoneForm
  <2>3. CASE wf.status # "RUNNING"
    BY <1>1, <1>4, <2>1, <2>3 DEF Cancels
  <2> QED BY <2>2, <2>3
<1>5. ASSUME NEW status, NEW failure, NEW runStatus, Ends(status, failure, runStatus)
      PROVE  WorkersKept
  <2>1. UNCHANGED manifests
    BY <1>5 DEF Ends
  <2> QED BY <1>2, <1>5, <2>1, DoneForm
<1> QED BY <1>3, <1>4, <1>5 DEF AuditedMove

(* The manifest of the Attempt that is begun is the one the rows rebuild.      *)
LEMMA ContextMade ==
  ASSUME Grounded, Grounded', AttemptsAudited, StartedOnce, DecisionsAudited, RepairsAudited,
         RepairsCompile, RepairsCompile', NEW a \in Attempts, Starts(a),
         wf.phase \in CodingPhases, NEW m, m = CompiledManifest
  PROVE  /\ m \in Manifest /\ attemptAudits'[a].starts = {m.version}
         /\ ManifestVerified(m, a)'
         /\ m.candidate # None => gens'[m.candidate.gen].state # "NONE"
<1>1. AuditedMove /\ AuditTypes
  BY DEF AuditedMove, AttemptsAudited, AuditTypes
<1>2. AttemptBegun(a)
  BY <1>1, BegunForm DEF Grounded
<1>3. /\ wf'.version = wf.version + 1 /\ wf'.version \in 1..MaxVersion /\ wf.version \in Nat
      /\ wf'.version \in Nat
  <2>1. wf'.version = wf.version + 1
    BY <1>2 DEF AttemptBegun, Moved
  <2>2. wf'.version \in 1..MaxVersion /\ wf.version \in Nat
    BY DEF Grounded, Core, TypeOK, Workflow
  <2> QED BY <2>1, <2>2
<1>4. /\ m \in Manifest
      /\ m.version = wf.version + 1 /\ m.phase = wf.phase
      /\ m.contract = ResponseContract(wf.phase)
      /\ m.entries = ManifestEntries(m.candidate, m.repair)
      /\ wf.phase # "IMPLEMENT" => m.candidate = None /\ m.repair = None
      /\ wf.phase = "IMPLEMENT" =>
           /\ wf.gen \in Generations /\ gens[wf.gen].state # "NONE"
           /\ m.candidate # None /\ m.candidate.gen = wf.gen
           /\ m.candidate.base = gens[wf.gen].base
      /\ m.repair # None =>
           /\ wf.phase = "IMPLEMENT"
           /\ \E r \in repairs : r.child = wf.gen /\ m.repair = RepairContext(r)
  BY <1>3, CompiledFacts
<1>5. UNCHANGED <<gens, repairs>>
  BY DEF Starts, CandidateRows, AcceptanceRows
<1>6. attemptAudits'[a].starts = {m.version}
  <2>1. attemptAudits[a].starts = {}
    BY <1>2 DEF AttemptsAudited, AttemptAudited, AttemptBegun
  <2> QED BY <1>2, <1>3, <1>4, <2>1 DEF AttemptBegun
<1>7. RetainedCandidate(m)'
  BY <1>4, <1>5 DEF RetainedCandidate
<1>8. ASSUME m.repair # None
      PROVE  \E r \in RepairsFor(m.candidate.gen)' :
               RepairCompiles(r, m.version)' /\ m.repair = RepairContext(r)'
  <2>1. PICK r \in repairs : r.child = wf.gen /\ m.repair = RepairContext(r)
    BY <1>4, <1>8
  <2>2. wf.phase = "IMPLEMENT" /\ m.candidate.gen = wf.gen
    BY <1>4, <1>8
  <2>3. wf.version # 1
    BY <2>2 DEF StartedOnce, Unstarted, UnstartedClosure, FirstStarted
  <2>4. RepairContextCurrent
    BY <2>3 DEF Starts
  <2>5. r.version = wf.version
    BY <2>1, <2>2, <2>4 DEF RepairContextCurrent
  <2>6. r \in repairs' /\ r \in RepairsFor(m.candidate.gen)'
    BY <1>5, <2>1, <2>2 DEF RepairsFor
  <2>7. RepairCompiles(r, r.version + 1)'
    BY <2>6 DEF RepairsCompile
  <2>8. RepairContext(r)' = RepairContext(r)
    BY <1>1, <2>1, ContextStable
  <2>9. r.version + 1 = m.version
    BY <1>4, <2>5
  <2>10. RepairCompiles(r, m.version)'
    BY <2>7, <2>9
  <2> QED BY <2>1, <2>6, <2>8, <2>10
<1>9. RetainedRepair(m)'
  BY <1>4, <1>8 DEF RetainedRepair
<1>10. RetainedPackage(m, a)'
  <2>1. attempts'[a].phase = wf.phase
    BY <1>2 DEF AttemptBegun
  <2>2. m.version <= wf'.version
    BY <1>3, <1>4
  <2> QED BY <1>4, <2>1, <2>2 DEF RetainedPackage, WorkerAuthority
<1>11. m.candidate # None => gens'[m.candidate.gen].state # "NONE"
  BY <1>4, <1>5
<1> QED BY <1>4, <1>6, <1>7, <1>9, <1>10, <1>11 DEF ManifestVerified

ContextRetained(a) ==
  /\ attempts[a].status = "NONE" => manifests[a] = None
  /\ manifests[a] # None /\ manifests[a].candidate # None =>
       gens[manifests[a].candidate.gen].state # "NONE"
  /\ attempts[a].status # "NONE" =>
       IF CodingWorker(a)
       THEN /\ manifests[a] # None /\ attemptAudits[a].starts = {manifests[a].version}
            /\ ManifestVerified(manifests[a], a)
       ELSE manifests[a] = None

LEMMA ContextsEach ==
  ContextsRetained <=> /\ manifests \in [Attempts -> Manifest \union {None}]
                       /\ \A a \in Attempts : ContextRetained(a)
  BY DEF ContextsRetained, ContextClosure, ContextRetained, Made

LEMMA ContextsEachNext ==
  ContextsRetained' <=> /\ manifests' \in [Attempts -> Manifest \union {None}]
                        /\ \A a \in Attempts : ContextRetained(a)'
  BY DEF ContextsRetained, ContextClosure, ContextRetained, Made

LEMMA ContextKept ==
  ASSUME Grounded, AuditedMove, TrailKept, GenerationsAudited, DecisionsAudited,
         RepairsAudited, RepairsCompile', NEW a \in Attempts,
         manifests[a] \in Manifest \union {None}, ContextRetained(a),
         manifests'[a] = manifests[a],
         attempts'[a].status = "NONE" <=> attempts[a].status = "NONE",
         attempts[a].status # "NONE" => attempts'[a].phase = attempts[a].phase,
         attemptAudits'[a].starts = attemptAudits[a].starts
  PROVE  ContextRetained(a)'
<1>1. CASE manifests[a] = None
  BY <1>1 DEF ContextRetained, CodingWorker
<1>2. CASE manifests[a] # None
  <2>1. PICK m \in Manifest : m = manifests[a]
    BY <1>2
  <2>2. /\ attempts[a].status # "NONE" /\ CodingWorker(a)
        /\ attemptAudits[a].starts = {m.version} /\ ManifestVerified(m, a)
        /\ m.candidate # None => gens[m.candidate.gen].state # "NONE"
    BY <1>2, <2>1 DEF ContextRetained
  <2>3. attempts'[a].phase = attempts[a].phase
    BY <2>2
  <2>4. /\ ManifestVerified(m, a)'
        /\ m.candidate # None => gens'[m.candidate.gen].state # "NONE"
    BY <2>2, <2>3, ManifestKept
  <2>5. attempts'[a].status # "NONE" /\ CodingWorker(a)' /\ manifests'[a] = m /\ m # None
    BY <1>2, <2>1, <2>2, <2>3 DEF CodingWorker
  <2>6. ManifestVerified(manifests[a], a)'
    BY <2>4, <2>5
  <2> QED BY <2>2, <2>4, <2>5, <2>6 DEF ContextRetained
<1> QED BY <1>1, <1>2

LEMMA ContextsStep ==
  ASSUME Grounded, Grounded', AuditedMove, TrailKept, AttemptsAudited, StartedOnce,
         GenerationsAudited, DecisionsAudited, RepairsAudited, RepairsCompile,
         RepairsCompile', ContextsRetained
  PROVE  ContextsRetained'
<1>1. /\ manifests \in [Attempts -> Manifest \union {None}]
      /\ \A a \in Attempts : ContextRetained(a)
      /\ Core /\ AuditTypes
  BY ContextsEach DEF Grounded, AttemptsAudited, AuditTypes
<1>2. CASE WorkersKept
  <2>1. \A a \in Attempts : ContextRetained(a)'
    BY <1>1, <1>2, ContextKept DEF WorkersKept
  <2>2. manifests' \in [Attempts -> Manifest \union {None}]
    BY <1>1, <1>2 DEF WorkersKept
  <2> QED BY <2>1, <2>2, ContextsEachNext
<1>3. ASSUME NEW a \in Attempts, Starts(a) PROVE ContextsRetained'
  <2>1. AttemptBegun(a)
    BY <1>1, <1>3, BegunForm
  <2>2. manifests[a] = None
    BY <1>1, <2>1 DEF ContextRetained, AttemptBegun
  <2>3. CASE wf.phase \in CodingPhases
    <3>1. PICK m : m = CompiledManifest
      OBVIOUS
    <3>2. manifests' = [manifests EXCEPT ![a] = m]
      BY <1>3, <2>3, <3>1 DEF Starts, RecordContext
    <3>3. /\ m \in Manifest /\ attemptAudits'[a].starts = {m.version}
          /\ ManifestVerified(m, a)'
          /\ m.candidate # None => gens'[m.candidate.gen].state # "NONE"
      BY <1>3, <2>3, <3>1, ContextMade
    <3>4. manifests' \in [Attempts -> Manifest \union {None}]
      BY <1>1, <3>2, <3>3
    <3>5. ContextRetained(a)'
      <4>1. manifests'[a] = m /\ m # None
        BY <1>1, <3>2, <3>3, NoneIsNoManifest
      <4>2. attempts'[a].status # "NONE" /\ CodingWorker(a)'
        BY <2>1, <2>3 DEF AttemptBegun, CodingWorker
      <4>3. ManifestVerified(manifests[a], a)'
        BY <3>3, <4>1
      <4> QED BY <3>3, <4>1, <4>2, <4>3 DEF ContextRetained
    <3>6. ASSUME NEW b \in Attempts, b # a PROVE ContextRetained(b)'
      <4>1. manifests'[b] = manifests[b] /\ manifests[b] \in Manifest \union {None}
        BY <1>1, <3>2, <3>6
      <4>2. Stays(b)
        BY <2>1, <3>6 DEF AttemptBegun
      <4> QED BY <1>1, <4>1, <4>2, ContextKept DEF Stays
    <3> QED BY <3>4, <3>5, <3>6, ContextsEachNext
  <2>4. CASE wf.phase \notin CodingPhases
    <3>1. UNCHANGED manifests
      BY <1>3, <2>4 DEF Starts
    <3>2. ContextRetained(a)'
      <4>1. attempts'[a].status # "NONE" /\ ~CodingWorker(a)'
        BY <2>1, <2>4 DEF AttemptBegun, CodingWorker
      <4> QED BY <2>2, <3>1, <4>1 DEF ContextRetained
    <3>3. ASSUME NEW b \in Attempts, b # a PROVE ContextRetained(b)'
      <4>1. manifests'[b] = manifests[b] /\ manifests[b] \in Manifest \union {None}
        BY <1>1, <3>1
      <4>2. Stays(b)
        BY <2>1, <3>3 DEF AttemptBegun
      <4> QED BY <1>1, <4>1, <4>2, ContextKept DEF Stays
    <3> QED BY <1>1, <3>1, <3>2, <3>3, ContextsEachNext
  <2> QED BY <2>3, <2>4
<1> QED BY <1>1, <1>2, <1>3, WorkersForm

-----------------------------------------------------------------------------
(* The invariant holds, and the audit accepts what it describes.               *)

LEMMA MoveRetained ==
  ASSUME Grounded, Grounded', RetainedInvariant, AuditedMove, VerifiesChecked'
  PROVE  RetainedInvariant'
<1> USE DEF RetainedInvariant
<1>1. TrailKept
  BY TrailGrows DEF Grounded
<1>2. TrailSound' /\ GenerationsAudited' /\ LatestActive'
  BY TrailStep, GenerationsStep, LatestStep DEF Grounded
<1>3. AttemptsAudited' /\ EndsOrdered' /\ TransientPhase'
  BY <1>1, AttemptsStep, OrderStep, TransientStep
<1>4. StartedOnce'
  BY <1>1, StartedStep
<1>5. RecoveriesRecorded'
  BY <1>1, <1>2, RecoveriesStep
<1>6. EvidenceComplete' /\ EvidenceRecords' /\ EvidenceAudited'
  BY <1>1, CompleteStep, RecordsStep, HistoryStep
<1>7. SetsAudited' /\ DecisionsAudited' /\ RepairsAudited'
  BY <1>1, SetsAuditedStep, DecisionsStep, RepairsStep
<1>8. RepairsCompile /\ RepairsCompile'
  <2>1. RepairsExplained /\ RepairsExplained'
    BY <1>6, <1>7 DEF RepairsExplained
  <2> QED BY <2>1, ExplainedCompile, ExplainedCompileNext
<1>9. ContextsRetained'
  BY <1>1, <1>8, ContextsStep
<1> QED BY <1>2, <1>3, <1>4, <1>5, <1>6, <1>7, <1>9

LEMMA RetainedStep ==
  ASSUME Grounded, Grounded', RetainedInvariant, [AuditedNext]_auditedVars
  PROVE  RetainedInvariant'
<1>1. Core /\ VerifiesChecked
  BY DEF Grounded, RetainedInvariant
<1>2. CASE AuditedNext
  <2>1. AuditedMove
    BY <1>1, <1>2, AuditedMoves
  <2>2. VerifiesChecked'
    BY <1>1, <1>2, AuditedIsNext, CheckedStep
  <2> QED BY <2>1, <2>2, MoveRetained
<1>3. CASE UNCHANGED auditedVars
  <2>1. StaysPut
    BY <1>3 DEF auditedVars, vars, audits, StaysPut, AttemptRows, CandidateRows, EvidenceRows,
                RecoveryRows
  <2>2. AuditedMove
    BY <2>1 DEF AuditedMove
  <2>3. VerifiesChecked'
    BY <1>1, <1>3 DEF auditedVars, vars, VerifiesChecked
  <2> QED BY <2>2, <2>3, MoveRetained
<1> QED BY <1>2, <1>3

LEMMA RetainedInit == ASSUME AuditedInit PROVE RetainedInvariant
<1>1. /\ wf = [phase |-> "DISCOVERY", status |-> "READY", version |-> 1,
               attempt |-> None, gen |-> None]
      /\ attempts = [a \in Attempts |-> [status |-> "NONE", phase |-> "DISCOVERY",
                                         failure |-> None, ended |-> 0]]
      /\ gens = [g \in Generations |-> [state |-> "NONE", base |-> None,
                                        frozen |-> None, parent |-> None]]
      /\ evidence = {} /\ sets = [g \in Generations |-> {}]
      /\ decisions = {} /\ repairs = {} /\ reconciled = 0
      /\ plan = [p \in Procs |-> Idle]
  BY DEF AuditedInit, Init
<1>2. /\ wf.version = 1 /\ wf.phase = "DISCOVERY" /\ wf.status = "READY"
      /\ wf.attempt = None /\ wf.gen = None
      /\ \A a \in Attempts : /\ attempts[a].status = "NONE" /\ attempts[a].failure = None
                             /\ attempts[a].ended = 0
      /\ \A g \in Generations : gens[g].state = "NONE" /\ gens[g].frozen = None
      /\ \A g \in Generations : sets[g] = {}
      /\ \A p \in Procs : plan[p].cmd = "NONE"
  BY <1>1 DEF Idle
<1>3. /\ trail = <<[type |-> "WORKFLOW_CREATED", phase |-> "DISCOVERY", status |-> "READY",
                    gen |-> None, base |-> None]>>
      /\ attemptAudits = [a \in Attempts |-> [starts |-> {}, ends |-> {}]]
      /\ generationAudits = [g \in Generations |-> <<>>]
      /\ evidenceAudits = [a \in Attempts |-> <<>>]
      /\ bindings = [kind \in {"POLICY", "PROFILE"} |-> {}]
      /\ setAudits = [g \in Generations |-> {}]
      /\ recoveries = {}
      /\ manifests = [a \in Attempts |-> None]
  BY DEF AuditedInit
<1>4. TrailSound
  <2>1. [type |-> "WORKFLOW_CREATED", phase |-> "DISCOVERY", status |-> "READY",
         gen |-> None, base |-> None] \in Events
    BY DEF Events, EventTypes, Phases, RunStatuses
  <2>2. /\ trail \in Seq(Events) /\ Len(trail) = 1 /\ trail[1].gen = None
        /\ trail[1].phase = "DISCOVERY" /\ trail[1].status = "READY"
    BY <1>3, <2>1
  <2> QED BY <1>2, <2>2 DEF TrailSound
<1>5. AttemptsAudited /\ EndsOrdered /\ TransientPhase
  <2>1. \A a \in Attempts : attemptAudits[a].starts = {} /\ attemptAudits[a].ends = {}
    BY <1>3
  <2>2. attemptAudits \in [Attempts -> [starts : SUBSET Nat, ends : SUBSET Nat]]
    BY <1>3
  <2>3. None # "TRANSIENT"
    BY NoneAssumption DEF FailureClasses
  <2> QED BY <1>2, <2>1, <2>2, <2>3
          DEF AttemptsAudited, AttemptAudited, EndsOrdered, TransientPhase, Ended
<1>6. StartedOnce /\ RecoveriesRecorded
  <2>1. Unstarted
    BY <1>2, <1>3 DEF Unstarted, UnstartedClosure, Made, Kinds
  <2>2. bindings \in [Kinds -> SUBSET Nat]
    BY <1>3 DEF Kinds
  <2> QED BY <1>1, <1>3, <2>1, <2>2 DEF StartedOnce, RecoveriesRecorded, RecoveryClosure
<1>7. GenerationsAudited /\ LatestActive
  BY <1>2, <1>3 DEF GenerationsAudited, LatestActive
<1>8. EvidenceComplete /\ EvidenceRecords /\ EvidenceAudited
  <2>1. IsFiniteSet(evidence)
    BY <1>1, FS_EmptySet
  <2>2. evidenceAudits \in [Attempts -> Seq(Nat)]
    BY <1>3
  <2> QED BY <1>1, <1>2, <1>3, <2>1, <2>2
          DEF EvidenceComplete, EvidenceRecords, EvidenceAudited, EvidenceOf, FrozenStates
<1>9. VerifiesChecked
  BY <1>2 DEF VerifiesChecked
<1>10. SetsAudited
  BY <1>2, <1>3 DEF SetsAudited, EvidenceSetClosure
<1>11. DecisionsAudited /\ RepairsAudited
  BY <1>1, <1>2 DEF DecisionsAudited, RepairsAudited
<1>12. ContextsRetained
  BY <1>2, <1>3 DEF ContextsRetained, ContextClosure, Made
<1> QED
  BY <1>4, <1>5, <1>6, <1>7, <1>8, <1>9, <1>10, <1>11, <1>12 DEF RetainedInvariant

LEMMA RetainedHolds == AuditedSpec => []RetainedInvariant
<1>1. AuditedInit => RetainedInvariant
  BY RetainedInit
<1>2. Grounded /\ Grounded' /\ RetainedInvariant /\ [AuditedNext]_auditedVars
      => RetainedInvariant'
  BY RetainedStep
<1> QED BY <1>1, <1>2, GroundedHolds, PTL DEF AuditedSpec

LEMMA LifecycleAccepted ==
  ASSUME Grounded PROVE LifecycleClosure
<1>1. AuthorityCoherent /\ wf \in Workflow
  BY DEF Grounded, Core, TypeOK
<1>2. wf.status = "RUNNING" => wf.attempt \in Attempts
  BY <1>1 DEF AuthorityCoherent, Workflow
<1> QED BY <1>1, <1>2 DEF AuthorityCoherent, LifecycleClosure, Made

LEMMA StartAccepted ==
  ASSUME Grounded, AttemptsAudited, StartedOnce PROVE StartClosure
<1>1. DOMAIN bindings = Kinds /\ "POLICY" \in Kinds
  BY DEF StartedOnce, Kinds
<1>2. CASE Unstarted
  BY <1>1, <1>2 DEF Unstarted, StartClosure
<1>3. CASE FirstStarted
  <2>1. bindings["POLICY"] = {2}
    BY <1>1, <1>3 DEF FirstStarted
  <2>2. ~(\A kind \in DOMAIN bindings : bindings[kind] = {})
    BY <1>1, <2>1
  <2>3. \A kind \in DOMAIN bindings : BindingClosure(kind)
    BY <1>1, <1>3 DEF FirstStarted, BindingClosure
  <2>4. ASSUME NEW a \in Made PROVE WorkerStartClosure(a)
    <3>1. a \in Attempts /\ StartAudited(a)
      BY <2>4 DEF Made, AttemptsAudited, AttemptAudited
    <3>2. PICK s \in 1..wf.version :
            /\ attemptAudits[a].starts = {s}
            /\ trail[s].type = "WORKFLOW_ATTEMPT_STARTED"
            /\ trail[s].phase = attempts[a].phase /\ trail[s].status = "RUNNING"
      BY <3>1 DEF StartAudited
    <3>3. s \in attemptAudits[a].starts /\ s <= wf.version
      BY <3>2 DEF Grounded, Core, TypeOK, Workflow
    <3> QED BY <3>2, <3>3 DEF WorkerStartClosure
  <2>5. \E first \in Made :
          /\ ~\E a \in Made : a < first
          /\ attempts[first].phase = "DISCOVERY" /\ attemptAudits[first].starts = {2}
    BY <1>3 DEF FirstStarted, Made
  <2>6. StartedClosure
    BY <2>3, <2>4, <2>5 DEF StartedClosure
  <2> QED BY <2>2, <2>6 DEF StartClosure
<1> QED BY <1>2, <1>3 DEF StartedOnce

LEMMA RetryAccepted ==
  ASSUME Grounded, TransientPhase PROVE RetryClosure
<1>1. ASSUME NEW a \in Made, attempts[a].failure = "TRANSIENT"
      PROVE  /\ \A b \in Made : b <= a
             /\ wf.phase = attempts[a].phase /\ wf.status \in {"BLOCKED", "CANCELLED"}
  <2>1. a \in Attempts
    BY DEF Made
  <2>2. /\ wf.status \in {"BLOCKED", "CANCELLED"}
        /\ \A b \in Attempts : b > a => attempts[b].status = "NONE"
    BY <1>1, <2>1 DEF Grounded, Boundary, RetryBoundary
  <2>3. ASSUME NEW b \in Made PROVE b <= a
    <3>1. b \in Attempts /\ attempts[b].status # "NONE"
      BY DEF Made
    <3>2. a \in Nat /\ b \in Nat
      BY <2>1, <3>1
    <3> QED BY <2>2, <3>1, <3>2
  <2> QED BY <1>1, <2>1, <2>2, <2>3 DEF TransientPhase
<1> QED BY <1>1 DEF RetryClosure

LEMMA TerminalAccepted ==
  ASSUME Grounded, AttemptsAudited PROVE TerminalClosure
<1>1. ASSUME NEW a \in Made, attempts[a].status # "RUNNING"
      PROVE  /\ attemptAudits[a].ends = {attempts[a].ended} /\ attempts[a].ended <= wf.version
             /\ LET end == trail[attempts[a].ended] IN
                /\ end.type \in {"WORKFLOW_ATTEMPT_FINISHED", "WORKFLOW_CANCELLED"}
                /\ end.phase = attempts[a].phase
                /\ RunStatusAuthorized(a, end.status)
                /\ end.status = "CANCELLED" <=> end.type = "WORKFLOW_CANCELLED"
  <2>1. a \in Attempts /\ attempts[a].status # "NONE"
    BY DEF Made
  <2>2. attempts[a].status \in AttemptStatuses
    BY <2>1 DEF Grounded, Core, TypeOK, Attempt
  <2>3. attempts[a].status \in Ended
    BY <1>1, <2>1, <2>2 DEF AttemptStatuses, Ended
  <2>4. EndAudited(a)
    BY <2>1, <2>3 DEF AttemptsAudited, AttemptAudited
  <2>5. attempts[a].ended <= wf.version
    BY <2>4 DEF EndAudited, Grounded, Core, TypeOK, Workflow
  <2> QED BY <2>4, <2>5 DEF EndAudited
<1> QED BY <1>1 DEF TerminalClosure

LEMMA EvidenceAccepted ==
  ASSUME Grounded, GenerationsAudited, EvidenceRecords, EvidenceAudited, SetsAudited
  PROVE  EvidenceClosure
<1>1. GenerationClosure
  BY DEF GenerationsAudited, GenerationClosure
<1>2. \A e \in evidence : EvidenceRecordClosure(e) /\ EvidenceHistoryClosure(e)
  BY DEF EvidenceRecords, EvidenceAudited
<1>3. \A g \in Generations : gens[g].state = "INVALIDATED" => EligibleOf(g) = {}
  BY DEF Grounded, FrozenInvariant, EvidenceBindsFrozen, EligibleOf, EvidenceOf
<1>4. \A g \in Generations : EvidenceSetClosure(g)
  BY DEF SetsAudited
<1> QED BY <1>1, <1>2, <1>3, <1>4 DEF EvidenceClosure

LEMMA SameInputSameDecision ==
  ASSUME Grounded, DecisionsAudited, NEW c \in decisions, NEW d \in decisions, SameInput(c, d)
  PROVE  c = d
<1>1. c \in Decision /\ d \in Decision
  BY DEF Grounded, Core, TypeOK
<1>2. ReissuedOutcome(c) = ReissuedOutcome(d)
  BY DEF SameInput, ReissuedOutcome
<1>3. c.outcome = d.outcome
  BY <1>2 DEF DecisionsAudited, DecisionClosure
<1> QED BY <1>1, <1>3 DEF SameInput, Decision

LEMMA CloseoutAccepted ==
  ASSUME Grounded, TrailSound PROVE CloseoutClosure /\ (wf.status = "CLOSED" => closeout # None)
<1>1. CloseoutSound /\ AuthorityCoherent
  BY DEF Grounded, Core, ClosedInvariant
<1>2. wf.status = "CLOSED" => closeout # None
  BY <1>1 DEF CloseoutSound
<1>3. ASSUME closeout # None PROVE CloseoutClosure
  <2>1. closeout.decision \in Decision /\ closeout.decision.version \in Nat
    BY <1>3 DEF Grounded, Core, TypeOK, Closeout, Decision
  <2>2. wf.status = "CLOSED" /\ wf.phase = "CLOSEOUT"
    BY <1>1, <1>3 DEF CloseoutSound, AuthorityCoherent
  <2>3. trail[wf.version].type = "WORKFLOW_PHASE_TRANSITIONED"
    BY <2>2 DEF TrailSound
  <2> QED BY <1>1, <1>3, <2>1, <2>2, <2>3 DEF CloseoutSound, CloseoutClosure
<1> QED BY <1>2, <1>3 DEF CloseoutClosure

LEMMA AcceptedIsClosed ==
  ASSUME Grounded, NEW g \in Generations, gens[g].state = "ACCEPTED"
  PROVE  closeout # None /\ closeout.decision.gen = g
<1>1. CandidateLineage /\ AuthorityCoherent /\ CloseoutSound /\ wf.phase \in Phases
  BY DEF Grounded, Core, ClosedInvariant, TypeOK, Workflow
<1>2. g = wf.gen
  BY <1>1 DEF CandidateLineage
<1>3. wf.gen # None
  BY <1>2
<1>4. wf.phase \notin {"DISCOVERY", "PLAN"} /\ "ACCEPTED" \in PhaseStates[wf.phase]
  BY <1>1, <1>2, <1>3 DEF CandidateLineage
<1>5. wf.phase = "CLOSEOUT"
  BY <1>1, <1>4 DEF PhaseStates, Phases
<1>6. closeout # None
  BY <1>1, <1>5 DEF AuthorityCoherent, CloseoutSound
<1> QED BY <1>1, <1>2, <1>6 DEF CloseoutSound

LEMMA AcceptanceAccepted ==
  ASSUME Grounded, TrailSound, DecisionsAudited, RepairsAudited PROVE AcceptanceClosure
<1>1. \A d \in decisions : DecisionClosure(d)
  BY DEF DecisionsAudited
<1>2. \A c, d \in decisions : SameInput(c, d) => c = d
  BY SameInputSameDecision
<1>3. CloseoutClosure /\ (wf.status = "CLOSED" => closeout # None)
  BY CloseoutAccepted
<1>4. \A r \in repairs : RepairClosure(r) /\ RepairAuditClosure(r)
  BY DEF RepairsAudited
<1>5. \A g \in Generations :
        gens[g].state = "ACCEPTED" => closeout # None /\ closeout.decision.gen = g
  BY AcceptedIsClosed
<1>6. \A g \in Generations : gens[g].state = "REJECTED" =>
        \E r \in repairs : {q \in repairs : q.decision.gen = g} = {r}
  BY DEF RepairsAudited
<1> QED BY <1>1, <1>2, <1>3, <1>4, <1>5, <1>6 DEF AcceptanceClosure

LEMMA Accepted == ASSUME Grounded, RetainedInvariant PROVE AuditAccepts
<1> USE DEF RetainedInvariant
<1>1. LifecycleClosure /\ StartClosure /\ RetryClosure
  BY LifecycleAccepted, StartAccepted, RetryAccepted
<1>2. ContextClosure /\ CommandClosure /\ RecoveryClosure
  BY DEF ContextsRetained, TrailSound, CommandClosure, RecoveriesRecorded
<1>3. TerminalClosure /\ EvidenceClosure /\ AcceptanceClosure
  BY TerminalAccepted, EvidenceAccepted, AcceptanceAccepted
<1> QED BY <1>1, <1>2, <1>3 DEF AuditAccepts

(* store.ts openVerified: whatever the kernels of one data home have committed, *)
(* in whatever order they interrupted, recovered, cancelled and repaired each   *)
(* other's work, the audit that the next process opens the store with accepts   *)
(* the retained rows.                                                           *)
THEOREM AuditCorrect == AuditedSpec => []AuditAccepts
<1>1. Grounded /\ RetainedInvariant => AuditAccepts
  BY Accepted
<1> QED BY <1>1, GroundedHolds, RetainedHolds, PTL

-----------------------------------------------------------------------------
(* The readers: what they need of the present beyond what the audit demands   *)
(* of the past.                                                               *)

(* The latest reconciliation has the latest record.                           *)
RecoveriesLatest == \A r \in recoveries : r.version <= reconciled

(* A decision of this very version is the one the engine would make now.      *)
DecisionsPresent ==
  \A d \in decisions :
    /\ d.version <= wf.version
    /\ d.version = wf.version => wf.phase = "FINAL_VERIFY" /\ d = CurrentDecision

LatestOf(phase, a) ==
  /\ a \in Made /\ attempts[a].phase = phase
  /\ \A b \in Made : attempts[b].phase = phase => b <= a
PhasesHaveLatest ==
  \A b \in Made : \E a \in Attempts : LatestOf(attempts[b].phase, a)

(* The RUNNING Attempt started with this version, the others before they ended.*)
StartsOrdered ==
  \A a \in Made :
    IF attempts[a].status = "RUNNING" THEN attemptAudits[a].starts = {wf.version}
    ELSE \A s \in attemptAudits[a].starts : s < attempts[a].ended

(* A running worker was handed the present Candidate.                         *)
RunningContext ==
  wf.status = "RUNNING" /\ wf.phase \in CodingPhases =>
    manifests[wf.attempt].candidate = CandidateBinding

(* The child of a repair is handed to a worker after the repair, and until then *)
(* nothing moves the version that the repair left.                             *)
HandedLater ==
  \A a \in Made :
    manifests[a] # None /\ manifests[a].candidate # None =>
      \A r \in RepairsFor(manifests[a].candidate.gen) : r.version < manifests[a].version
RepairsPending ==
  wf.status \in {"READY", "BLOCKED"} /\ wf.phase = "IMPLEMENT" =>
    \A r \in RepairsFor(wf.gen) :
      RepairHanded \/ (wf.status = "READY" /\ r.version = wf.version)

PresentInvariant ==
  /\ RecoveriesLatest /\ DecisionsPresent /\ PhasesHaveLatest /\ StartsOrdered
  /\ RunningContext /\ HandedLater /\ RepairsPending

LEMMA MoveForm ==
  ASSUME AuditedMove
  PROVE  StaysPut \/ wf'.version = wf.version + 1
  BY DEF AuditedMove, Starts, Ends, Cancels, Enters, BeginsFreeze, RecordsSet, Prepares, Closes,
         Rejects, FailsIntegrity, Resumes, Transitioned, Moved

LEMMA RunningForm ==
  ASSUME Grounded, AuditTypes, AuditedMove, wf.status = "RUNNING"
  PROVE  StaysPut \/ AttemptDone(wf.attempt)
<1>1. StaysPut \/ Cancels \/ \E status, failure, runStatus : Ends(status, failure, runStatus)
  BY DEF AuditedMove, Starts, Enters, BeginsFreeze, RecordsSet, Prepares, Closes, Rejects,
         Consuming, FailsIntegrity, Resumes, RecoverableBlocker
<1> QED BY <1>1, DoneForm DEF Grounded

LEMMA StartForm ==
  ASSUME AuditedMove, wf.status # "RUNNING", wf'.status = "RUNNING"
  PROVE  \E a \in Attempts : Starts(a)
<1>1. CASE \/ Cancels \/ Enters \/ BeginsFreeze \/ RecordsSet \/ FailsIntegrity \/ StaysPut
           \/ \E g \in Generations, d \in Digests : Prepares(g, d)
           \/ \E d \in decisions : Closes(d)
           \/ \E d \in decisions, g \in Generations : Rejects(g, d)
           \/ \E status \in {"READY", "BLOCKED"} : Resumes(status)
           \/ \E status, failure, runStatus : Ends(status, failure, runStatus)
  BY <1>1 DEF Ends, Cancels, Enters, BeginsFreeze, RecordsSet, Prepares, Closes, Rejects,
              FailsIntegrity, Resumes, StaysPut, Transitioned, Moved
<1> QED BY <1>1 DEF AuditedMove

LEMMA LatestRecordStep ==
  ASSUME Grounded, AuditedMove, RecoveriesRecorded, RecoveriesLatest PROVE RecoveriesLatest'
<1>1. wf.version \in Nat
  BY Numbers DEF Grounded, Core
<1>2. \A r \in recoveries : r.version <= wf.version /\ r.version \in Nat
  BY DEF RecoveriesRecorded, RecoveryClosure
<1>3. CASE UNCHANGED RecoveryRows
  BY <1>3 DEF RecoveryRows, RecoveriesLatest
<1>4. ASSUME NEW purpose, NEW from, RecordRecovery(purpose, from),
             reconciled' = wf.version + 1, wf'.version = wf.version + 1
      PROVE  RecoveriesLatest'
  <2>1. \A r \in recoveries' : r \in recoveries \/ r.version = wf.version + 1
    BY <1>4 DEF RecordRecovery
  <2> QED BY <1>1, <1>2, <1>4, <2>1 DEF RecoveriesLatest
<1> QED
  BY <1>3, <1>4, RecoveryForms DEF Grounded, RecoveryForm, Resumes, Moved

LEMMA PresentStep ==
  ASSUME Grounded, AuditedMove, DecisionsPresent PROVE DecisionsPresent'
<1>1. wf.version \in Nat /\ \A d \in decisions : d.version \in Nat
  BY Numbers, DecisionTyped DEF Grounded, Core
<1>2. CASE StaysPut
  <2>1. UNCHANGED <<wf, gens, sets, evidence, eligible>>
    BY <1>2 DEF StaysPut, CandidateRows, EvidenceRows
  <2>2. CurrentDecision' = CurrentDecision
    BY <2>1 DEF CurrentDecision, EvidenceRuleOutcome, SetRecords, Unaccounted
  <2>3. CurrentDecision.version = wf.version
    BY DEF CurrentDecision
  <2>4. \A d \in decisions' :
          d \in decisions \/ (d = CurrentDecision /\ wf.phase = "FINAL_VERIFY")
    BY <1>2 DEF StaysPut
  <2> QED BY <1>1, <2>1, <2>2, <2>3, <2>4 DEF DecisionsPresent
<1>3. CASE ~StaysPut
  <2>1. wf'.version = wf.version + 1 /\ UNCHANGED decisions
    BY <1>3, MoveForm, DecisionForm
  <2> QED BY <1>1, <2>1 DEF DecisionsPresent
<1> QED BY <1>2, <1>3

LEMMA LatestOfStep ==
  ASSUME Grounded, AuditedMove, AttemptsAudited, PhasesHaveLatest PROVE PhasesHaveLatest'
<1>1. Core /\ AuditTypes
  BY DEF Grounded, AttemptsAudited, AuditTypes
<1>2. CASE WorkersKept
  <2>1. Made' = Made /\ \A a \in Made : attempts'[a].phase = attempts[a].phase
    BY <1>2 DEF WorkersKept, Made
  <2> QED BY <2>1 DEF PhasesHaveLatest, LatestOf
<1>3. ASSUME NEW a \in Attempts, Starts(a) PROVE PhasesHaveLatest'
  <2>1. AttemptBegun(a)
    BY <1>1, <1>3, BegunForm
  <2>2. /\ a \in Made' /\ attempts'[a].phase = wf.phase
        /\ \A b \in Attempts : b # a => attempts'[b] = attempts[b]
        /\ a \notin Made
    BY <2>1 DEF AttemptBegun, Stays, Made
  <2>3. \A b \in Made' : b = a \/ b \in Made
    BY <2>2 DEF Made
  <2>4. Made \subseteq Made'
    BY <2>2 DEF Made
  <2>5. \A b \in Made : b \in Attempts /\ b < a
    <3>1. \A b \in Attempts : b \in Nat /\ a \in Nat
      OBVIOUS
    <3> QED BY <2>1, <3>1 DEF AttemptBegun, FreshAttempt, Made
  <2>6. \A b \in Made' : b <= a
    <3>1. a \in Nat /\ a <= a /\ \A b \in Attempts : b \in Nat
      OBVIOUS
    <3>2. ASSUME NEW b \in Made PROVE b <= a
      <4>1. b \in Nat /\ b < a
        BY <2>5, <3>1
      <4> QED BY <3>1, <4>1
    <3> QED BY <2>3, <3>1, <3>2
  <2>7. ASSUME NEW b \in Made', attempts'[b].phase = wf.phase
        PROVE  \E c \in Attempts : LatestOf(attempts[b].phase, c)'
    BY <2>2, <2>6, <2>7 DEF LatestOf
  <2>8. ASSUME NEW b \in Made', attempts'[b].phase # wf.phase
        PROVE  \E c \in Attempts : LatestOf(attempts[b].phase, c)'
    <3>1. b \in Made /\ attempts'[b] = attempts[b]
      BY <2>2, <2>3, <2>5, <2>8
    <3>2. PICK c \in Attempts : LatestOf(attempts[b].phase, c)
      BY <3>1 DEF PhasesHaveLatest
    <3>3. c \in Made /\ attempts'[c] = attempts[c] /\ attempts[c].phase = attempts[b].phase
      BY <2>2, <2>5, <3>2 DEF LatestOf
    <3>4. \A d \in Made' : attempts'[d].phase = attempts'[b].phase => d <= c
      <4>1. ASSUME NEW d \in Made', attempts'[d].phase = attempts'[b].phase PROVE d <= c
        <5>1. d # a /\ d \in Made
          BY <2>2, <2>3, <2>8, <4>1
        <5>2. attempts'[d] = attempts[d]
          BY <2>2, <2>5, <5>1
        <5> QED BY <3>1, <3>2, <4>1, <5>1, <5>2 DEF LatestOf
      <4> QED BY <4>1
    <3>5. c \in Made'
      BY <2>4, <3>3
    <3> QED BY <3>1, <3>3, <3>4, <3>5 DEF LatestOf
  <2> QED BY <2>7, <2>8 DEF PhasesHaveLatest
<1> QED BY <1>1, <1>2, <1>3, WorkersForm

LEMMA StartsStep ==
  ASSUME Grounded, Grounded', AuditedMove, AttemptsAudited, StartsOrdered PROVE StartsOrdered'
<1>1. Core /\ AuditTypes
  BY DEF Grounded, AttemptsAudited, AuditTypes
<1>2. /\ wf.version \in Nat
      /\ \A a \in Attempts : attempts[a].status = "RUNNING" <=> a = wf.attempt
      /\ wf.status = "RUNNING" <=> wf.attempt # None
      /\ \A a \in Attempts : a # None
  BY Numbers DEF Grounded, Core, AuthorityCoherent
<1>3. CASE StaysPut
  BY <1>3 DEF StaysPut, AttemptRows, StartsOrdered, Made
<1>4. CASE AttemptDone(wf.attempt)
  <2>1. ASSUME NEW a \in Made', a = wf.attempt
        PROVE  /\ attempts'[a].status # "RUNNING"
               /\ \A s \in attemptAudits'[a].starts : s < attempts'[a].ended
    <3>1. /\ a \in Made /\ attempts[a].status = "RUNNING" /\ attempts'[a].status # "RUNNING"
          /\ attempts'[a].ended = wf.version + 1
          /\ attemptAudits'[a].starts = attemptAudits[a].starts
      BY <1>4, <2>1 DEF AttemptDone, EndRecorded, Made
    <3>2. attemptAudits[a].starts = {wf.version}
      BY <3>1 DEF StartsOrdered
    <3> QED BY <1>2, <3>1, <3>2
  <2>2. ASSUME NEW a \in Made', a # wf.attempt
        PROVE  /\ attempts'[a].status # "RUNNING"
               /\ \A s \in attemptAudits'[a].starts : s < attempts'[a].ended
    <3>1. a \in Made /\ Stays(a) /\ a \in Attempts
      BY <1>4, <2>2 DEF AttemptDone, Stays, Made
    <3>2. attempts[a].status # "RUNNING"
      BY <1>2, <2>2, <3>1
    <3> QED BY <3>1, <3>2 DEF Stays, StartsOrdered
  <2> QED BY <2>1, <2>2 DEF StartsOrdered
<1>5. ASSUME wf.status # "RUNNING", UNCHANGED <<attempts, attemptAudits>> PROVE StartsOrdered'
  <2>1. \A a \in Made : attempts[a].status # "RUNNING"
    BY <1>2, <1>5 DEF Made
  <2> QED BY <1>5, <2>1 DEF StartsOrdered, Made
<1>6. ASSUME NEW a \in Attempts, AttemptBegun(a) PROVE StartsOrdered'
  <2>1. wf.attempt = None
    BY <1>2, <1>6 DEF AttemptBegun
  <2>2. attemptAudits'[a].starts = {wf'.version} /\ attempts'[a].status = "RUNNING"
    <3>1. attemptAudits[a].starts = {}
      BY <1>6 DEF AttemptBegun, AttemptsAudited, AttemptAudited
    <3> QED BY <1>6, <3>1 DEF AttemptBegun
  <2>3. ASSUME NEW b \in Made', b # a
        PROVE  /\ attempts'[b].status # "RUNNING"
               /\ \A s \in attemptAudits'[b].starts : s < attempts'[b].ended
    <3>1. b \in Made /\ Stays(b) /\ b \in Attempts
      BY <1>6, <2>3 DEF AttemptBegun, Stays, Made
    <3>2. attempts[b].status # "RUNNING"
      BY <1>2, <2>1, <3>1
    <3> QED BY <3>1, <3>2 DEF Stays, StartsOrdered
  <2> QED BY <2>2, <2>3 DEF StartsOrdered
<1> QED BY <1>1, <1>3, <1>4, <1>5, <1>6, AttemptForms, RunningForm

LEMMA HandedStep ==
  ASSUME Grounded, AuditedMove, AttemptsAudited, ContextsRetained, RunningContext
  PROVE  RunningContext'
<1>1. Core /\ AuditTypes
  BY DEF Grounded, AttemptsAudited, AuditTypes
<1>2. CASE StaysPut
  BY <1>2 DEF StaysPut, AttemptRows, CandidateRows, RunningContext, CandidateBinding
<1>3. CASE AttemptDone(wf.attempt)
  <2>1. wf'.status # "RUNNING"
    BY <1>3 DEF AttemptDone, Moved, EndRecorded, ResultingRunStatus
  <2> QED BY <2>1 DEF RunningContext
<1>4. ASSUME NEW a \in Attempts, Starts(a) PROVE RunningContext'
  <2>1. ASSUME wf'.phase \in CodingPhases
        PROVE  manifests'[wf'.attempt].candidate = CandidateBinding'
    <3>1. wf'.phase = wf.phase /\ wf'.attempt = a /\ wf'.gen = wf.gen /\ gens' = gens
      BY <1>4 DEF Starts, Moved, CandidateRows
    <3>2. manifests' = [manifests EXCEPT ![a] = CompiledManifest]
      BY <1>4, <2>1, <3>1 DEF Starts, RecordContext
    <3>3. manifests'[a] = CompiledManifest
      BY <3>2 DEF ContextsRetained
    <3>4. CompiledManifest.candidate = CandidateBinding
      BY DEF CompiledManifest
    <3>5. CandidateBinding' = CandidateBinding
      BY <3>1 DEF CandidateBinding
    <3> QED BY <3>1, <3>3, <3>4, <3>5
  <2> QED BY <2>1 DEF RunningContext
<1>5. CASE wf'.status # "RUNNING"
  BY <1>5 DEF RunningContext
<1> QED BY <1>1, <1>2, <1>3, <1>4, <1>5, RunningForm, StartForm

(* A repair was made at or before this version, and its child with it.         *)
LEMMA RepairSince ==
  ASSUME Grounded, GenerationsAudited, RepairsAudited, NEW r \in repairs
  PROVE  /\ r.child \in Generations /\ gens[r.child].state # "NONE"
         /\ r.version \in Nat /\ r.version <= wf.version
<1>1. r.child \in Generations /\ r.version \in Nat
  BY RepairTyped
<1>2. r.version <= wf.version
  BY DEF RepairsAudited, RepairClosure
<1>3. gens[r.child].state = "NONE" => generationAudits[r.child] = <<>>
  BY <1>1 DEF GenerationsAudited
<1>4. Len(generationAudits[r.child]) >= 1
  BY DEF RepairsAudited, RepairAuditClosure
<1>5. ASSUME generationAudits[r.child] = <<>> PROVE FALSE
  BY <1>4, <1>5
<1> QED BY <1>1, <1>2, <1>3, <1>5

LEMMA LaterStep ==
  ASSUME Grounded, AuditedMove, AttemptsAudited, GenerationsAudited, RepairsAudited,
         ContextsRetained, HandedLater
  PROVE  HandedLater'
<1>1. Core /\ AuditTypes /\ wf.version \in Nat
  BY Numbers DEF Grounded, Core, AttemptsAudited, AuditTypes
<1>2. ASSUME NEW a \in Made, manifests[a] # None, manifests[a].candidate # None,
             NEW r \in repairs', r.child = manifests[a].candidate.gen
      PROVE  r.version < manifests[a].version
  <2>1. CASE r \in repairs
    <3>1. r \in RepairsFor(manifests[a].candidate.gen)
      BY <1>2, <2>1 DEF RepairsFor
    <3> QED BY <1>2, <3>1 DEF HandedLater
  <2>2. CASE r \notin repairs
    <3>1. PICK d \in decisions, g \in Generations : Rejects(g, d)
      BY <1>1, <1>2, <2>2, RepairForm DEF NoneRejected
    <3>2. r.child = g
      BY <1>2, <2>2, <3>1 DEF Rejects
    <3>3. gens[g].state = "NONE"
      <4>1. g \in Nat /\ g >= g
        BY ConstantsAssumption
      <4> QED BY <3>1, <4>1 DEF Rejects, FreshGeneration
    <3>4. a \in Attempts
      BY DEF Made
    <3> QED BY <1>2, <3>2, <3>3, <3>4 DEF ContextsRetained
  <2> QED BY <2>1, <2>2
<1>3. CASE WorkersKept
  <2>1. UNCHANGED manifests /\ Made' = Made
    BY <1>3 DEF WorkersKept, Made
  <2> QED BY <1>2, <2>1 DEF HandedLater, RepairsFor
<1>4. ASSUME NEW b \in Attempts, Starts(b) PROVE HandedLater'
  <2>1. UNCHANGED repairs
    BY <1>4 DEF Starts, AcceptanceRows
  <2>2. \A a \in Made' : a = b \/ a \in Made
    BY <1>4 DEF Starts, Made
  <2>3. /\ manifests'[b] # manifests[b] => manifests'[b] = CompiledManifest
        /\ \A a \in Attempts : a # b => manifests'[a] = manifests[a]
    BY <1>4 DEF Starts, RecordContext, ContextsRetained
  <2>4. manifests[b] = None
    <3>1. attempts[b].status = "NONE"
      BY <1>1, <1>4, BegunForm DEF AttemptBegun
    <3> QED BY <3>1 DEF ContextsRetained
  <2>5. CompiledManifest.version = wf.version + 1
    BY DEF CompiledManifest
  <2>6. ASSUME NEW a \in Made', manifests'[a] # None, manifests'[a].candidate # None,
               NEW r \in repairs, r.child = manifests'[a].candidate.gen
        PROVE  r.version < manifests'[a].version
    <3>1. CASE a = b
      <4>1. manifests'[a].version = wf.version + 1
        BY <2>3, <2>4, <2>5, <2>6, <3>1
      <4>2. r.version \in Nat /\ r.version <= wf.version
        BY RepairSince
      <4> QED BY <1>1, <4>1, <4>2
    <3>2. CASE a # b
      <4>1. a \in Made /\ manifests'[a] = manifests[a]
        BY <2>2, <2>3, <3>2 DEF Made
      <4> QED BY <1>2, <2>1, <2>6, <4>1
    <3> QED BY <3>1, <3>2
  <2> QED BY <2>1, <2>6 DEF HandedLater, RepairsFor
<1> QED BY <1>1, <1>3, <1>4, WorkersForm

LEMMA PendingStep ==
  ASSUME Grounded, AuditedMove, AttemptsAudited, GenerationsAudited, RepairsAudited,
         ContextsRetained, RunningContext, RepairsPending
  PROVE  RepairsPending'
<1>1. Core /\ AuditTypes
  BY DEF Grounded, AttemptsAudited, AuditTypes
<1>2. CASE StaysPut
  BY <1>2 DEF StaysPut, AttemptRows, CandidateRows, RepairsPending, RepairHanded, RepairsFor,
              Made, CandidateBinding
<1>3. ASSUME wf'.gen = wf.gen, wf'.phase = wf.phase, wf.phase = "IMPLEMENT",
             UNCHANGED <<manifests, repairs>>, Made' = Made,
             \E a \in Made : manifests[a] # None /\ manifests[a].candidate = CandidateBinding
      PROVE  RepairsPending'
  <2>1. ASSUME NEW r \in repairs, r.child = wf.gen PROVE RepairHanded'
    <3>1. r.child \in Generations /\ gens[r.child].state # "NONE"
      BY RepairSince
    <3>2. gens'[wf.gen].base = gens[wf.gen].base
      BY <1>1, <2>1, <3>1, GenerationFacts DEF GenerationsAudited
    <3>3. CandidateBinding' = CandidateBinding
      BY <1>3, <3>2 DEF CandidateBinding
    <3>4. r \in RepairsFor(wf.gen)'
      BY <1>3, <2>1 DEF RepairsFor
    <3> QED BY <1>3, <3>3, <3>4 DEF RepairHanded
  <2> QED BY <1>3, <2>1 DEF RepairsPending, RepairsFor
<1>4. CASE wf.status = "RUNNING" /\ ~StaysPut
  <2>1. AttemptDone(wf.attempt) /\ UNCHANGED <<manifests, repairs>>
    <3>1. Cancels \/ \E status, failure, runStatus : Ends(status, failure, runStatus)
      BY <1>4 DEF AuditedMove, Starts, Enters, BeginsFreeze, RecordsSet, Prepares, Closes,
                  Rejects, Consuming, FailsIntegrity, Resumes, RecoverableBlocker
    <3>2. UNCHANGED <<manifests, repairs>>
      BY <3>1 DEF Cancels, Ends, AcceptanceRows
    <3> QED BY <1>1, <1>4, <3>2, RunningForm
  <2>2. /\ wf'.gen = wf.gen /\ wf'.phase = wf.phase /\ wf.attempt \in Made
        /\ attempts[wf.attempt].phase = wf.phase
    BY <2>1 DEF AttemptDone, Moved, Made
  <2>3. Made' = Made
    <3>1. ~\E a \in Attempts : Starts(a)
      BY <1>4 DEF Starts
    <3> QED BY <1>1, <3>1, WorkersForm DEF WorkersKept, Made
  <2>4. CASE wf.phase = "IMPLEMENT"
    <3>1. manifests[wf.attempt] # None
      BY <2>2, <2>4 DEF ContextsRetained, ContextClosure, CodingWorker, CodingPhases
    <3>2. manifests[wf.attempt].candidate = CandidateBinding
      BY <1>4, <2>4 DEF RunningContext, CodingPhases
    <3> QED BY <1>3, <2>1, <2>2, <2>3, <2>4, <3>1, <3>2
  <2>5. CASE wf.phase # "IMPLEMENT"
    BY <2>2, <2>5 DEF RepairsPending
  <2> QED BY <2>4, <2>5
<1>5. ASSUME NEW a \in Attempts, Starts(a) PROVE RepairsPending'
  BY <1>5 DEF Starts, Moved, RepairsPending
<1>6. CASE Cancels \/ FailsIntegrity
  BY <1>6 DEF Cancels, FailsIntegrity, Moved, RepairsPending
<1>7. CASE Enters \/ BeginsFreeze \/ RecordsSet \/ \E d \in decisions : Closes(d)
  BY <1>7 DEF Enters, BeginsFreeze, RecordsSet, Closes, Transitioned, Moved, RepairsPending
<1>8. ASSUME NEW g \in Generations, NEW d \in Digests, Prepares(g, d) PROVE RepairsPending'
  <2>1. wf'.gen = g /\ UNCHANGED repairs /\ FreshGeneration(g)
    BY <1>8 DEF Prepares, Transitioned, Moved, AcceptanceRows
  <2>2. gens[g].state = "NONE"
    <3>1. g \in Nat /\ g >= g
      BY ConstantsAssumption
    <3> QED BY <2>1, <3>1 DEF FreshGeneration
  <2>3. \A r \in repairs' : r.child # wf'.gen
    BY <2>1, <2>2, RepairSince
  <2> QED BY <2>3 DEF RepairsPending, RepairsFor
<1>9. ASSUME NEW d \in decisions, NEW g \in Generations, Rejects(g, d) PROVE RepairsPending'
  <2>1. /\ wf'.gen = g /\ wf'.status = "READY" /\ wf'.version = wf.version + 1
        /\ FreshGeneration(g)
        /\ repairs' = repairs \union {[version |-> wf.version + 1, decision |-> d, child |-> g]}
    BY <1>9 DEF Rejects, Transitioned, Moved
  <2>2. gens[g].state = "NONE"
    <3>1. g \in Nat /\ g >= g
      BY ConstantsAssumption
    <3> QED BY <2>1, <3>1 DEF FreshGeneration
  <2>3. \A r \in repairs : r.child # g
    BY <2>2, RepairSince
  <2>4. \A r \in repairs' : r.child = wf'.gen => r.version = wf'.version
    BY <2>1, <2>3
  <2> QED BY <2>1, <2>4 DEF RepairsPending, RepairsFor
<1>10. ASSUME NEW status \in {"READY", "BLOCKED"}, Resumes(status) PROVE RepairsPending'
  <2>1. /\ wf.status = "BLOCKED" /\ wf'.gen = wf.gen /\ wf'.phase = wf.phase
        /\ UNCHANGED <<attempts, manifests, repairs>>
    BY <1>10 DEF Resumes, RecoverableBlocker, Moved, AttemptRows, AcceptanceRows
  <2>2. Made' = Made
    BY <2>1 DEF Made
  <2>3. CASE RepairHanded
    BY <1>3, <2>1, <2>2, <2>3 DEF RepairHanded
  <2>4. CASE ~RepairHanded
    BY <2>1, <2>4 DEF RepairsPending, RepairsFor
  <2> QED BY <2>3, <2>4
<1> QED
  BY <1>2, <1>4, <1>5, <1>6, <1>7, <1>8, <1>9, <1>10 DEF AuditedMove, Ends

LEMMA StepMoves ==
  ASSUME Core, VerifiesChecked, [AuditedNext]_auditedVars PROVE AuditedMove
<1>1. CASE UNCHANGED auditedVars
  <2>1. StaysPut
    BY <1>1 DEF auditedVars, vars, audits, StaysPut, AttemptRows, CandidateRows, EvidenceRows,
                RecoveryRows
  <2> QED BY <2>1 DEF AuditedMove
<1> QED BY <1>1, AuditedMoves

LEMMA PresentMoves ==
  ASSUME Grounded, Grounded', RetainedInvariant, PresentInvariant, [AuditedNext]_auditedVars
  PROVE  PresentInvariant'
<1>1. AuditedMove
  BY StepMoves DEF Grounded, RetainedInvariant
<1> QED
  BY <1>1, LatestRecordStep, PresentStep, LatestOfStep, StartsStep, HandedStep, LaterStep,
     PendingStep
     DEF RetainedInvariant, PresentInvariant

LEMMA PresentInit == ASSUME AuditedInit PROVE PresentInvariant
<1>1. /\ \A a \in Attempts : attempts[a].status = "NONE"
      /\ recoveries = {} /\ decisions = {} /\ wf.status = "READY" /\ wf.phase = "DISCOVERY"
  BY DEF AuditedInit, Init
<1> QED
  BY <1>1 DEF PresentInvariant, RecoveriesLatest, DecisionsPresent, PhasesHaveLatest,
              StartsOrdered, RunningContext, HandedLater, RepairsPending, Made

LEMMA PresentHolds == AuditedSpec => []PresentInvariant
<1>1. AuditedInit => PresentInvariant
  BY PresentInit
<1>2. Grounded /\ Grounded' /\ RetainedInvariant /\ PresentInvariant /\ [AuditedNext]_auditedVars
      => PresentInvariant'
  BY PresentMoves
<1> QED BY <1>1, <1>2, GroundedHolds, RetainedHolds, PTL DEF AuditedSpec

-----------------------------------------------------------------------------
(* What the readers see *)

(* Either the Goal was started, or nothing at all happened to it.             *)
LEMMA BoundOrUntouched ==
  ASSUME Grounded, RetainedInvariant
  PROVE  \/ Bound /\ wf.version > 1
         \/ /\ ~Bound /\ Made = {} /\ recoveries = {} /\ wf.phase = "DISCOVERY"
            /\ \/ wf.status = "READY" /\ wf.version = 1
               \/ wf.status = "CANCELLED"
<1>1. wf.version \in Nat
  BY Numbers DEF Grounded, Core
<1>2. CASE FirstStarted
  BY <1>1, <1>2 DEF FirstStarted, Bound
<1>3. CASE Unstarted
  <2>1. /\ Made = {} /\ wf.phase = "DISCOVERY" /\ ~Bound
        /\ \/ wf.status = "READY" /\ wf.version = 1
           \/ wf.status = "CANCELLED"
    BY <1>3 DEF Unstarted, UnstartedClosure, Bound
  <2>2. ASSUME NEW r \in recoveries PROVE FALSE
    <3>1. r.from \in Attempts /\ r.purpose \in {"STARTUP", "RESUME"}
      BY DEF RetainedInvariant, RecoveriesRecorded
    <3>2. attempts[r.from].status # "NONE"
      BY <3>1 DEF RetainedInvariant, RecoveriesRecorded, RecoveryClosure
    <3> QED BY <2>1, <3>1, <3>2 DEF Made
  <2> QED BY <2>1, <2>2
<1> QED BY <1>2, <1>3 DEF RetainedInvariant, StartedOnce

LEMMA LatestRecoveryIs ==
  ASSUME Grounded, RetainedInvariant, PresentInvariant
  PROVE  /\ recoveries = {} <=> reconciled = 0
         /\ recoveries # {} => LatestRecovery \in recoveries /\ LatestRecovery.version = reconciled
<1>1. reconciled \in Nat /\ \A r \in recoveries : r.version \in Nat \ {0} /\ r.version <= reconciled
  BY Numbers DEF Grounded, Core, RetainedInvariant, RecoveriesRecorded, PresentInvariant,
                 RecoveriesLatest
<1>2. reconciled # 0 => \E r \in recoveries : r.version = reconciled
  BY DEF RetainedInvariant, RecoveriesRecorded
<1>3. ASSUME recoveries # {}
      PROVE  LatestRecovery \in recoveries /\ LatestRecovery.version = reconciled
  <2>1. PICK q \in recoveries : q.version = reconciled
    BY <1>1, <1>2, <1>3
  <2>2. \E r \in recoveries : \A s \in recoveries : s.version <= r.version
    BY <1>1, <2>1
  <2>3. LatestRecovery = CHOOSE r \in recoveries : \A s \in recoveries : s.version <= r.version
    BY <1>3 DEF LatestRecovery
  <2>4. LatestRecovery \in recoveries /\ \A s \in recoveries : s.version <= LatestRecovery.version
    BY <2>2, <2>3, Zenon
  <2>5. LatestRecovery.version \in Nat /\ LatestRecovery.version <= reconciled
        /\ reconciled <= LatestRecovery.version
    BY <1>1, <2>1, <2>4
  <2> QED BY <1>1, <2>4, <2>5
<1> QED BY <1>1, <1>2, <1>3

(* The decision shown of an open Goal is the one the engine would make now.   *)
LEMMA ShownIsCurrent ==
  ASSUME Grounded, PresentInvariant, closeout = None, ShownDecision # None
  PROVE  /\ ShownDecision = CurrentDecision /\ wf.phase = "FINAL_VERIFY"
         /\ ShownDecision.version = wf.version
<1>1. PresentDecisions # {} /\ ShownDecision = CHOOSE d \in PresentDecisions : TRUE
  BY DEF ShownDecision
<1>2. ShownDecision \in PresentDecisions
  BY <1>1, Zenon
<1> QED BY <1>2 DEF PresentDecisions, PresentInvariant, DecisionsPresent

LEMMA StatusAccepted ==
  ASSUME Grounded, RetainedInvariant, PresentInvariant PROVE StatusReads
<1>1. StartClosure /\ CommandClosure
  BY Accepted DEF AuditAccepts
<1>2. ActiveAttemptExact
  <2>1. AuthorityCoherent /\ wf \in Workflow
    BY DEF Grounded, Core, TypeOK
  <2> QED BY <2>1 DEF AuthorityCoherent, ActiveAttemptExact, Workflow
<1>3. wf.gen # None => gens[wf.gen].state # "NONE"
  <2>1. wf.gen # None => wf.phase \in Phases \ {"DISCOVERY", "PLAN"}
    BY DEF Grounded, CandidateLineage, Core, TypeOK, Workflow
  <2> QED BY <2>1 DEF Grounded, CandidateLineage, PhaseStates, Phases
<1>4. recoveries # {} => Bound /\ LatestRecovery.version <= wf.version
  <2>1. reconciled <= wf.version
    BY DEF Grounded, Boundary, Recorded
  <2> QED BY <2>1, BoundOrUntouched, LatestRecoveryIs
<1>5. ShownAcceptance
  <2>1. CloseoutSound
    BY DEF Grounded, ClosedInvariant
  <2>2. CASE closeout # None
    <3>1. ShownDecision = closeout.decision
      BY <2>2 DEF ShownDecision
    <3> QED BY <2>1, <2>2, <3>1 DEF CloseoutSound, ShownAcceptance
  <2>3. CASE closeout = None
    <3>1. ShownDecision # None =>
            /\ ShownDecision.gen = wf.gen /\ ShownDecision.digest = gens[wf.gen].frozen
            /\ wf.phase = "FINAL_VERIFY" /\ ShownDecision.version = wf.version
      BY <2>3, ShownIsCurrent DEF CurrentDecision
    <3> QED BY <2>1, <2>3, <3>1 DEF CloseoutSound, ShownAcceptance
  <2> QED BY <2>2, <2>3
<1> QED BY <1>1, <1>2, <1>3, <1>4, <1>5 DEF StatusReads

(* The driver: the latest Attempt of the phase is the running one, if any.     *)
LEMMA LatestPhaseIs ==
  ASSUME PresentInvariant, PhaseAttempts # {} PROVE LatestOf(wf.phase, LatestPhaseAttempt)
<1>1. PICK any \in Made : attempts[any].phase = wf.phase
  BY DEF PhaseAttempts
<1>2. PICK a \in Attempts : LatestOf(wf.phase, a)
  BY <1>1 DEF PresentInvariant, PhasesHaveLatest
<1>3. \E c \in PhaseAttempts : \A b \in PhaseAttempts : b <= c
  BY <1>2 DEF LatestOf, PhaseAttempts
<1>4. /\ LatestPhaseAttempt \in PhaseAttempts
      /\ \A b \in PhaseAttempts : b <= LatestPhaseAttempt
  BY <1>3, Zenon DEF LatestPhaseAttempt
<1> QED BY <1>4 DEF LatestOf, PhaseAttempts

(* The context of an Attempt, by whether it still runs.                        *)
LEMMA ContextOfAttempt ==
  ASSUME Grounded, RetainedInvariant, PresentInvariant, NEW a \in Made
  PROVE  /\ CodingWorker(a) <=> manifests[a] # None
         /\ manifests[a] # None =>
              /\ ManifestVerified(manifests[a], a) /\ WorkerAuthority(manifests[a], a)
              /\ IF attempts[a].status = "RUNNING" THEN manifests[a].version = wf.version
                 ELSE manifests[a].version < wf.version
<1>1. IF CodingWorker(a)
      THEN /\ manifests[a] # None /\ attemptAudits[a].starts = {manifests[a].version}
           /\ ManifestVerified(manifests[a], a)
      ELSE manifests[a] = None
  BY DEF RetainedInvariant, ContextsRetained, ContextClosure
<1>2. a \in Attempts /\ wf.version \in Nat /\ attempts[a].ended \in Nat
      /\ attempts[a].ended <= wf.version
  BY Numbers DEF Made, Grounded, Core, Boundary, Recorded
<1>3. ASSUME manifests[a] # None
      PROVE  /\ ManifestVerified(manifests[a], a) /\ WorkerAuthority(manifests[a], a)
             /\ IF attempts[a].status = "RUNNING" THEN manifests[a].version = wf.version
                ELSE manifests[a].version < wf.version
  <2>1. attemptAudits[a].starts = {manifests[a].version} /\ ManifestVerified(manifests[a], a)
    BY <1>1, <1>3
  <2>2. WorkerAuthority(manifests[a], a)
    BY <2>1 DEF ManifestVerified, RetainedPackage
  <2>3. CASE attempts[a].status = "RUNNING"
    <3>1. attemptAudits[a].starts = {wf.version}
      BY <2>3 DEF PresentInvariant, StartsOrdered
    <3> QED BY <2>1, <2>2, <2>3, <3>1
  <2>4. CASE attempts[a].status # "RUNNING"
    <3>1. manifests[a].version < attempts[a].ended
      BY <2>1, <2>4 DEF PresentInvariant, StartsOrdered
    <3>2. manifests[a].version \in Nat
      <4>1. manifests[a] \in Manifest
        BY <1>2, <1>3 DEF RetainedInvariant, ContextsRetained
      <4> QED BY <4>1 DEF Manifest
    <3>3. manifests[a].version < wf.version
      BY <1>2, <3>1, <3>2
    <3> QED BY <2>1, <2>2, <2>4, <3>3
  <2> QED BY <2>3, <2>4
<1> QED BY <1>1, <1>3

LEMMA DriverAccepted ==
  ASSUME Grounded, RetainedInvariant, PresentInvariant PROVE DriverReads
<1> SUFFICES ASSUME PhaseAttempts # {}
             PROVE  /\ DriverAttemptReads(LatestPhaseAttempt)
                    /\ DriverContextReads(LatestPhaseAttempt)
  BY DEF DriverReads
<1> DEFINE a == LatestPhaseAttempt
<1>1. LatestOf(wf.phase, a)
  BY LatestPhaseIs
<1>2. a \in Made /\ a \in Attempts /\ a \in Nat /\ attempts[a].phase = wf.phase
  BY <1>1 DEF LatestOf, Made
<1> HIDE DEF a
<1>3. AuthorityCoherent /\ (attempts[a].status = "RUNNING" <=> a = wf.attempt)
  BY <1>2 DEF Grounded, Core, AuthorityCoherent
<1>4. ASSUME wf.attempt # None PROVE wf.attempt = a
  <2>1. wf.attempt \in Attempts /\ wf.attempt \in Nat
    BY <1>4 DEF Grounded, Core, TypeOK, Workflow
  <2>2. wf.attempt \in Made /\ attempts[wf.attempt].phase = wf.phase
    BY <1>3, <1>4, <2>1 DEF AuthorityCoherent, Made
  <2>3. wf.attempt <= a
    BY <1>1, <2>2 DEF LatestOf
  <2>4. ~(a > wf.attempt)
    BY <1>2, <1>4 DEF Grounded, Boundary, LatestOwned, Made
  <2> QED BY <1>2, <2>1, <2>3, <2>4
<1>5. attempts[a].failure = "TRANSIENT" => wf.status \in {"BLOCKED", "CANCELLED"}
  BY <1>2 DEF Grounded, Boundary, RetryBoundary
<1>6. DriverAttemptReads(a)
  BY <1>3, <1>4, <1>5 DEF DriverAttemptReads
<1>7. attempts[a].status = "RUNNING" /\ wf.phase = "IMPLEMENT" =>
        manifests[a].candidate = CandidateBinding
  <2>1. attempts[a].status = "RUNNING" => wf.status = "RUNNING" /\ a = wf.attempt
    BY <1>2, <1>3 DEF AuthorityCoherent
  <2> QED BY <2>1 DEF PresentInvariant, RunningContext, CodingPhases
<1>8. DriverContextReads(a)
  BY <1>2, <1>7, ContextOfAttempt DEF DriverContextReads, CodingWorker
<1> QED BY <1>6, <1>8 DEF a

(* The catalog: what a failure to reconcile has ended with.                    *)
LEMMA ReconcileFirstIs ==
  ASSUME Grounded, RetainedInvariant, NEW a \in Attempts,
         attempts[a].failure = "RECONCILE_FIRST"
  PROVE  /\ a \in Made /\ attempts[a].status = "FAILED" /\ EndAudited(a)
         /\ attempts[a].ended \in 1..wf.version
<1>1. attempts[a].status = "FAILED"
  <2>1. None # "RECONCILE_FIRST"
    BY DEF FailureClasses
  <2> QED BY <2>1 DEF Grounded, Boundary, Recorded
<1>2. AttemptAudited(a)
  BY DEF RetainedInvariant, AttemptsAudited
<1>3. EndAudited(a)
  BY <1>1, <1>2 DEF AttemptAudited, Ended
<1> QED BY <1>1, <1>3 DEF EndAudited, Made

LEMMA BlockedByLatest ==
  ASSUME Grounded, RetainedInvariant
  PROVE  (\E a \in Made : BlockedBy(a)) <=>
         \E a \in Attempts : /\ attempts[a].status = "FAILED"
                             /\ attempts[a].failure = "RECONCILE_FIRST"
                             /\ attempts[a].ended = wf.version
<1>1. ASSUME NEW a \in Made, BlockedBy(a)
      PROVE  /\ a \in Attempts /\ attempts[a].status = "FAILED"
             /\ attempts[a].failure = "RECONCILE_FIRST" /\ attempts[a].ended = wf.version
  <2>1. a \in Attempts /\ attempts[a].failure = "RECONCILE_FIRST"
        /\ attempts[a].ended = wf.version
    BY <1>1 DEF BlockedBy, Made
  <2> QED BY <2>1, ReconcileFirstIs
<1>2. ASSUME NEW a \in Attempts, attempts[a].failure = "RECONCILE_FIRST",
             attempts[a].ended = wf.version
      PROVE  a \in Made /\ BlockedBy(a)
  <2>1. a \in Made
    BY <1>2, ReconcileFirstIs
  <2>2. ASSUME NEW b \in Made, attempts[b].failure = "RECONCILE_FIRST" PROVE b <= a
    <3>1. b \in Attempts /\ b \in Nat /\ a \in Nat /\ wf.version \in Nat
          /\ attempts[b].ended \in Nat
      BY Numbers DEF Made, Grounded, Core
    <3>2. attempts[b].ended \in 1..wf.version
      BY <2>2, <3>1, ReconcileFirstIs
    <3>3. a < b => attempts[a].ended < attempts[b].ended
      BY <3>1, <3>2 DEF RetainedInvariant, EndsOrdered
    <3> QED BY <1>2, <3>1, <3>2, <3>3
  <2> QED BY <1>2, <2>1, <2>2 DEF BlockedBy
<1> QED BY <1>1, <1>2

(* What blocks a BLOCKED Workflow, as the kernel sees it.                      *)
LEMMA BlockedKind ==
  ASSUME Grounded, RetainedInvariant, PresentInvariant, wf.status = "BLOCKED"
  PROVE  BlockerKind =
           IF reconciled = wf.version THEN "RECONCILED_BLOCKER"
           ELSE IF \E a \in Made : BlockedBy(a) THEN "RECOVERABLE_FAILURE" ELSE None
<1>1. wf.version # 0
  BY DEF Grounded, Core, TypeOK, Workflow
<1>2. (recoveries # {} /\ LatestRecovery.version = wf.version) <=> reconciled = wf.version
  BY <1>1, LatestRecoveryIs
<1> QED BY <1>2 DEF BlockerKind

LEMMA CatalogOffers ==
  ASSUME Grounded, RetainedInvariant, PresentInvariant PROVE CatalogExact
<1>1. CASE wf.status = "BLOCKED"
  BY <1>1, BlockedKind, BlockedByLatest, NoneIsNotShown DEF CatalogExact, RecoverableBlocker
<1>2. CASE wf.status # "BLOCKED"
  BY <1>2 DEF CatalogExact, RecoverableBlocker
<1> QED BY <1>1, <1>2

(* The Attempt that the catalog names.                                         *)
LEMMA SourceIs ==
  ASSUME Grounded, RetainedInvariant, PresentInvariant, BlockerKind # None
  PROVE  /\ CatalogSource \in Made /\ attempts[CatalogSource].phase = wf.phase
         /\ BlockerKind = "ACTIVE_ATTEMPT" <=> attempts[CatalogSource].status = "RUNNING"
         /\ BlockerKind = "RECOVERABLE_FAILURE" => attempts[CatalogSource].status = "FAILED"
<1>1. TrailSound /\ AuthorityCoherent /\ wf \in Workflow
  BY DEF RetainedInvariant, Grounded, Core, TypeOK
<1>2. CASE wf.status = "RUNNING"
  <2>1. BlockerKind = "ACTIVE_ATTEMPT" /\ CatalogSource = wf.attempt
    BY <1>2 DEF BlockerKind, CatalogSource
  <2>2. /\ wf.attempt \in Attempts /\ attempts[wf.attempt].status = "RUNNING"
        /\ attempts[wf.attempt].phase = wf.phase
    BY <1>1, <1>2 DEF AuthorityCoherent, Workflow
  <2> QED BY <2>1, <2>2 DEF Made
<1>3. CASE wf.status = "BLOCKED" /\ reconciled = wf.version
  <2>1. BlockerKind = "RECONCILED_BLOCKER"
    BY <1>3, BlockedKind
  <2>2. CatalogSource = LatestRecovery.from
    BY <2>1 DEF CatalogSource
  <2>3. LatestRecovery \in recoveries /\ LatestRecovery.version = wf.version
    <3>1. wf.version # 0
      BY <1>1 DEF Workflow
    <3> QED BY <1>3, <3>1, LatestRecoveryIs
  <2>4. PICK r \in recoveries : r = LatestRecovery
    BY <2>3
  <2>5. r.from \in Attempts /\ r.purpose \in {"STARTUP", "RESUME"} /\ RecoveryClosure
    BY DEF RetainedInvariant, RecoveriesRecorded
  <2>6. /\ attempts[r.from].phase = trail[wf.version].phase
        /\ attempts[r.from].status \in {"FAILED", "INTERRUPTED", "RESULT_RECORDED"}
    BY <2>3, <2>4, <2>5 DEF RecoveryClosure
  <2>7. attempts[r.from].phase = wf.phase /\ r.from \in Made
    BY <1>1, <2>5, <2>6 DEF TrailSound, Made
  <2> QED BY <2>1, <2>2, <2>4, <2>6, <2>7
<1>4. CASE wf.status = "BLOCKED" /\ reconciled # wf.version
  <2>1. BlockerKind = "RECOVERABLE_FAILURE" /\ \E a \in Made : BlockedBy(a)
    BY <1>4, BlockedKind
  <2>2. CatalogSource = CHOOSE a \in Made : BlockedBy(a)
    BY <2>1 DEF CatalogSource
  <2>3. CatalogSource \in Made /\ BlockedBy(CatalogSource)
    BY <2>1, <2>2, Zenon
  <2>4. PICK a \in Made : a = CatalogSource /\ BlockedBy(a)
    BY <2>3
  <2>5. a \in Attempts /\ attempts[a].failure = "RECONCILE_FIRST"
        /\ attempts[a].ended = wf.version
    BY <2>4 DEF BlockedBy, Made
  <2>6. attempts[a].status = "FAILED" /\ EndAudited(a)
    BY <2>5, ReconcileFirstIs
  <2>7. attempts[a].phase = wf.phase
    BY <1>1, <2>5, <2>6 DEF EndAudited, TrailSound
  <2> QED BY <2>1, <2>4, <2>6, <2>7
<1>5. CASE wf.status \notin {"RUNNING", "BLOCKED"}
  BY <1>5 DEF BlockerKind
<1> QED BY <1>2, <1>3, <1>4, <1>5

LEMMA CatalogAccepted ==
  ASSUME Grounded, RetainedInvariant, PresentInvariant PROVE CatalogReads
<1> SUFFICES ASSUME BlockerKind # None, NEW a, a = CatalogSource
             PROVE  /\ Bound /\ a # None /\ attempts[a].phase = wf.phase
                    /\ manifests[a] # None <=> wf.phase \in CodingPhases
                    /\ ContinuityBarrier =>
                         attempts[a].phase = "EVIDENCE_BUILD" /\ wf.gen # None
                    /\ BlockerKind = "ACTIVE_ATTEMPT" <=> attempts[a].status = "RUNNING"
                    /\ BlockerKind = "RECOVERABLE_FAILURE" => attempts[a].status = "FAILED"
  BY DEF CatalogReads
<1>1. /\ a \in Made /\ attempts[a].phase = wf.phase
      /\ BlockerKind = "ACTIVE_ATTEMPT" <=> attempts[a].status = "RUNNING"
      /\ BlockerKind = "RECOVERABLE_FAILURE" => attempts[a].status = "FAILED"
  BY SourceIs
<1>2. Bound
  BY <1>1, BoundOrUntouched
<1>3. a # None
  BY <1>1 DEF Made
<1>4. manifests[a] # None <=> wf.phase \in CodingPhases
  BY <1>1, ContextOfAttempt DEF CodingWorker
<1>5. ContinuityBarrier => wf.phase = "EVIDENCE_BUILD" /\ wf.gen # None
  BY DEF ContinuityBarrier, Grounded, Core, TypeOK
<1> QED BY <1>1, <1>2, <1>3, <1>4, <1>5

(* The context of the next Attempt compiles where its repair is of this version. *)
LEMMA NextContext ==
  ASSUME Grounded, RetainedInvariant, wf.status = "READY", RepairContextCurrent
  PROVE  ContextCompiles
<1> SUFFICES ASSUME wf.phase \in CodingPhases
             PROVE  /\ wf.phase = "IMPLEMENT" <=> wf.gen # None
                    /\ wf.phase = "IMPLEMENT" =>
                         /\ gens[wf.gen].state = "MUTABLE"
                         /\ \A r \in RepairsFor(wf.gen) : RepairCompiles(r, wf.version + 1)
  BY DEF ContextCompiles
<1>1. wf.phase = "IMPLEMENT" <=> wf.gen # None
  BY DEF Grounded, CandidateLineage, CodingPhases
<1>2. wf.phase = "IMPLEMENT" => gens[wf.gen].state = "MUTABLE"
  BY <1>1 DEF Grounded, CandidateLineage, PhaseStates
<1>3. ASSUME wf.phase = "IMPLEMENT", NEW r \in RepairsFor(wf.gen)
      PROVE  RepairCompiles(r, wf.version + 1)
  <2>1. r \in repairs /\ r.version = wf.version
    BY <1>3 DEF RepairsFor, RepairContextCurrent
  <2>2. RepairsCompile
    BY ExplainedCompile DEF RepairsExplained, RetainedInvariant
  <2> QED BY <2>1, <2>2 DEF RepairsCompile
<1> QED BY <1>1, <1>2, <1>3

(* The kernel admits the context of a further Attempt exactly if no worker was *)
(* handed the child of the present repair before.                              *)
LEMMA NextAdmitted ==
  ASSUME Grounded, RetainedInvariant, PresentInvariant, wf.status = "READY"
  PROVE  ContextAdmitted <=> ~RepairHanded
<1>1. ASSUME ~RepairHanded PROVE ContextAdmitted
  <2>1. ASSUME wf.phase = "IMPLEMENT", NEW r \in repairs, r.child = wf.gen
        PROVE  r.version = wf.version
    <3>1. r \in RepairsFor(wf.gen)
      BY <2>1 DEF RepairsFor
    <3> QED BY <1>1, <2>1, <3>1 DEF PresentInvariant, RepairsPending
  <2>2. RepairContextCurrent
    BY <2>1 DEF RepairContextCurrent
  <2> QED BY <2>2, NextContext DEF ContextAdmitted
<1>2. ASSUME RepairHanded PROVE ~RepairContextCurrent
  <2>1. PICK a \in Made : manifests[a] # None /\ manifests[a].candidate = CandidateBinding
    BY <1>2 DEF RepairHanded
  <2>2. PICK r \in RepairsFor(wf.gen) : TRUE
    BY <1>2 DEF RepairHanded
  <2>3. manifests[a].candidate = [gen |-> wf.gen, base |-> gens[wf.gen].base]
    BY <1>2, <2>1 DEF RepairHanded, CandidateBinding
  <2>4. manifests[a].candidate # None
    <3>1. manifests[a] \in Manifest /\ wf.gen \in Generations
      <4>1. a \in Attempts /\ r \in repairs /\ r.child = wf.gen
        BY <2>2 DEF Made, RepairsFor
      <4> QED BY <2>1, <4>1, RepairTyped DEF RetainedInvariant, ContextsRetained
    <3>2. gens[wf.gen].base \in Digests \union {None}
      BY <3>1 DEF Grounded, Core, TypeOK, Generation
    <3>3. manifests[a].candidate \in CandidateBindings
      BY <2>3, <3>1, <3>2 DEF CandidateBindings
    <3> QED BY <3>3, NoneIsNoManifest
  <2>5. manifests[a].candidate.gen = wf.gen
    BY <2>3
  <2>6. r.version < manifests[a].version
    BY <2>1, <2>2, <2>4, <2>5 DEF PresentInvariant, HandedLater
  <2>7. manifests[a].version < wf.version
    <3>1. attempts[a].status # "RUNNING"
      BY DEF Grounded, Core, AuthorityCoherent, Made
    <3> QED BY <2>1, <3>1, ContextOfAttempt
  <2>8. r.version # wf.version
    <3>1. /\ r.version \in Nat /\ wf.version \in Nat /\ manifests[a].version \in Nat
      <4>1. a \in Attempts /\ r \in repairs
        BY <2>2 DEF Made, RepairsFor
      <4>2. manifests[a] \in Manifest
        BY <2>1, <4>1 DEF RetainedInvariant, ContextsRetained
      <4> QED BY <4>1, <4>2, RepairTyped, Numbers DEF Manifest, Grounded, Core
    <3> QED BY <2>6, <2>7, <3>1
  <2> QED BY <1>2, <2>2, <2>8 DEF RepairContextCurrent, RepairsFor, RepairHanded
<1> QED BY <1>1, <1>2 DEF ContextAdmitted

(* The advice, with what the driver asks for when it is followed.              *)
LEMMA AdviceAccepted ==
  ASSUME Grounded, RetainedInvariant, PresentInvariant PROVE AdviceSafe
<1>1. wf.status \in RunStatuses /\ wf.version \in Nat
  BY Numbers DEF Grounded, Core, TypeOK, Workflow
<1>2. wf.status = "READY" => closeout = None
  BY DEF Grounded, ClosedInvariant, CloseoutSound
<1>3. /\ wf.status = "READY" => NextSafeAction = ReadyAdvice
      /\ wf.status = "BLOCKED" => NextSafeAction = BlockedAdvice
      /\ wf.status \notin {"READY", "BLOCKED"} =>
           NextSafeAction \notin {"START_GOAL", "RESUME_GOAL", "RUNTIME_CONTINUE"}
  BY <1>1 DEF NextSafeAction, RunStatuses
<1>4. /\ ReadyAdvice # "RESUME_GOAL" /\ BlockedAdvice \in {"RESUME_GOAL", "INSPECT_BLOCKER"}
      /\ ReadyAdvice = "START_GOAL" <=>
           ShownDecision = None /\ wf.phase = "DISCOVERY" /\ ~Bound
  BY DEF ReadyAdvice, DecisionAdvice, BlockedAdvice
<1>5. wf.status = "READY" =>
        (ShownDecision = None /\ wf.phase = "DISCOVERY" /\ ~Bound <=> wf.version = 1)
  BY <1>1, <1>2, BoundOrUntouched, ShownIsCurrent
<1>6. NextSafeAction = "START_GOAL" <=> (wf.version = 1 /\ wf.status = "READY")
  BY <1>3, <1>4, <1>5
<1>7. NextSafeAction = "RESUME_GOAL" => RecoverableBlocker
  <2>1. BlockedAdvice = "RESUME_GOAL" => reconciled = wf.version
    BY LatestRecoveryIs DEF BlockedAdvice
  <2> QED BY <1>3, <1>4, <2>1 DEF RecoverableBlocker
<1>8. ASSUME NextSafeAction = "RUNTIME_CONTINUE"
      PROVE  /\ Started /\ wf.status = "READY"
             /\ \A d \in decisions : d = ShownDecision => DecisionCurrent(d)
             /\ DriverCommandTaken \/ RepairLost
  <2>1. wf.status = "READY" /\ ReadyAdvice = "RUNTIME_CONTINUE"
    BY <1>3, <1>4, <1>8
  <2>2. wf.version # 1
    BY <1>4, <1>5, <2>1
  <2>3. Started
    <3>1. wf.version \in 1..MaxVersion
      BY DEF Grounded, Core, TypeOK, Workflow
    <3> QED BY <2>2, <3>1 DEF Started
  <2>4. \A d \in decisions : d # None
    BY NoneIsNotShown DEF Grounded, Core, TypeOK
  <2>5. wf.phase = "IMPLEMENT" => ActiveState("MUTABLE")
    BY DEF Grounded, CandidateLineage, PhaseStates, ActiveState
  <2>6. DriverCommandTaken \/ RepairLost
    BY <2>1, <2>5, NextAdmitted DEF DriverCommandTaken, RepairLost
  <2> QED BY <1>2, <2>1, <2>3, <2>4, <2>6, ShownIsCurrent DEF DecisionCurrent
<1> QED BY <1>6, <1>7, <1>8 DEF AdviceSafe

LEMMA EntriesByKind ==
  ASSUME NEW m, m.entries = ManifestEntries(m.candidate, m.repair)
  PROVE  /\ m.candidate # None =>
              SourcesOf(m, "CANDIDATE") = {[kind |-> "CANDIDATE", source |-> m.candidate.gen]}
         /\ m.repair # None =>
              /\ \A kind \in {"ACCEPTANCE_REPAIR", "ACCEPTANCE_DECISION", "EVIDENCE_SET",
                              "CANDIDATE_RELATIONSHIP"} : \E e : SourcesOf(m, kind) = {e}
              /\ \A a \in m.repair.failed :
                   [kind |-> "EVIDENCE", source |-> a] \in SourcesOf(m, "EVIDENCE")
              /\ SourcesOf(m, "PARENT_CHANGE_SET") # {}
<1>1. ASSUME m.candidate # None
      PROVE  SourcesOf(m, "CANDIDATE") = {[kind |-> "CANDIDATE", source |-> m.candidate.gen]}
  BY <1>1 DEF SourcesOf, ManifestEntries, RepairEntries, PriorAttemptFeedback
<1>2. ASSUME m.repair # None
      PROVE  /\ SourcesOf(m, "ACCEPTANCE_REPAIR") =
                   {[kind |-> "ACCEPTANCE_REPAIR", source |-> m.repair.repair.version]}
             /\ SourcesOf(m, "ACCEPTANCE_DECISION") =
                   {[kind |-> "ACCEPTANCE_DECISION",
                     source |-> m.repair.repair.decision.version]}
             /\ SourcesOf(m, "EVIDENCE_SET") =
                   {[kind |-> "EVIDENCE_SET", source |-> m.repair.repair.decision.gen]}
             /\ SourcesOf(m, "CANDIDATE_RELATIONSHIP") =
                   {[kind |-> "CANDIDATE_RELATIONSHIP", source |-> m.repair.repair.child]}
  BY <1>2 DEF SourcesOf, ManifestEntries, RepairEntries, PriorAttemptFeedback
<1>3. ASSUME m.repair # None
      PROVE  /\ \A a \in m.repair.failed :
                   [kind |-> "EVIDENCE", source |-> a] \in SourcesOf(m, "EVIDENCE")
             /\ [kind |-> "PARENT_CHANGE_SET", source |-> m.repair.changeSet]
                   \in SourcesOf(m, "PARENT_CHANGE_SET")
  BY <1>3 DEF SourcesOf, ManifestEntries, RepairEntries, PriorAttemptFeedback
<1>4. ASSUME m.repair # None,
             NEW kind \in {"ACCEPTANCE_REPAIR", "ACCEPTANCE_DECISION", "EVIDENCE_SET",
                           "CANDIDATE_RELATIONSHIP"}
      PROVE  \E e : SourcesOf(m, kind) = {e}
  BY <1>2, <1>4
<1> QED BY <1>1, <1>3, <1>4

(* The manifest of the running Attempt passes the triggers.                    *)
LEMMA RunningTriggers ==
  ASSUME Grounded, RetainedInvariant, PresentInvariant, wf.status = "RUNNING",
         wf.phase \in CodingPhases
  PROVE  ContextTriggers(manifests[wf.attempt], wf.attempt)
<1> DEFINE a == wf.attempt
           m == manifests[a]
<1>1. /\ a \in Made /\ attempts[a].status = "RUNNING" /\ attempts[a].phase = wf.phase
      /\ a \in Attempts
  <2>1. AuthorityCoherent /\ wf \in Workflow
    BY DEF Grounded, Core, TypeOK
  <2> QED BY <2>1 DEF AuthorityCoherent, Workflow, Made
<1>2. /\ m # None /\ m \in Manifest /\ m.version = wf.version
      /\ ManifestVerified(m, a) /\ WorkerAuthority(m, a)
  <2>1. m # None /\ m.version = wf.version /\ ManifestVerified(m, a) /\ WorkerAuthority(m, a)
    BY <1>1, ContextOfAttempt DEF CodingWorker
  <2>2. m \in Manifest
    BY <1>1, <2>1 DEF RetainedInvariant, ContextsRetained
  <2> QED BY <2>1, <2>2
<1>3. m.candidate = CandidateBinding
  BY DEF PresentInvariant, RunningContext
<1> HIDE DEF a, m
<1>4. /\ m.phase = wf.phase /\ (m.phase = "IMPLEMENT" <=> m.candidate # None)
      /\ RetainedCandidate(m) /\ RetainedRepair(m)
      /\ m.entries = ManifestEntries(m.candidate, m.repair)
  BY <1>1, <1>2 DEF WorkerAuthority, ManifestVerified, RetainedPackage
<1>5. wf.gen = None <=> wf.phase # "IMPLEMENT"
  BY DEF Grounded, CandidateLineage, CodingPhases
<1>6. m.candidate # None => m.candidate.gen = wf.gen /\ gens[wf.gen].state = "MUTABLE"
  <2>1. wf.phase = "IMPLEMENT" => gens[wf.gen].state = "MUTABLE"
    BY <1>5 DEF Grounded, CandidateLineage, PhaseStates
  <2>2. wf.phase = "IMPLEMENT" => m.candidate.gen = wf.gen
    BY <1>3 DEF CandidateBinding
  <2> QED BY <1>4, <2>1, <2>2
<1>7. ContextBound(m, a)
  BY <1>1, <1>2, <1>4, <1>5, <1>6 DEF ContextBound
<1>8. ContextSources(m)
  <2>1. CASE m.phase = "IMPLEMENT"
    <3>1. m.candidate # None /\ gens[m.candidate.gen].base = m.candidate.base
      BY <1>4, <2>1 DEF RetainedCandidate
    <3>2. SourcesOf(m, "CANDIDATE") = {[kind |-> "CANDIDATE", source |-> m.candidate.gen]}
      BY <1>4, <3>1, EntriesByKind
    <3> QED BY <1>6, <2>1, <3>1, <3>2 DEF ContextSources
  <2>2. CASE m.phase # "IMPLEMENT"
    <3>1. m.candidate = None /\ m.repair = None
      BY <1>4, <2>2 DEF RetainedRepair
    <3>2. m.entries = {}
      BY <1>4, <3>1 DEF ManifestEntries
    <3> QED BY <2>2, <3>1, <3>2 DEF ContextSources
  <2> QED BY <2>1, <2>2
<1>9. ASSUME m.repair # None
      PROVE  /\ m.phase = "IMPLEMENT" /\ m.candidate # None
             /\ \A kind \in {"ACCEPTANCE_REPAIR", "ACCEPTANCE_DECISION", "EVIDENCE_SET",
                             "CANDIDATE_RELATIONSHIP"} : Cardinality(SourcesOf(m, kind)) = 1
             /\ SourcesOf(m, "EVIDENCE") # {} /\ SourcesOf(m, "PARENT_CHANGE_SET") # {}
  <2>1. m.candidate # None /\ m.phase = "IMPLEMENT"
    BY <1>4, <1>9 DEF RetainedRepair
  <2>2. PICK r \in RepairsFor(m.candidate.gen) :
          RepairCompiles(r, m.version) /\ m.repair = RepairContext(r)
    BY <1>4, <1>9 DEF RetainedRepair
  <2>3. PICK e \in FailedEvidence(r) : TRUE
    BY <2>2 DEF RepairCompiles, RepairSourcesExact
  <2>4. e.attempt \in m.repair.failed
    BY <2>2, <2>3 DEF RepairContext
  <2>5. [kind |-> "EVIDENCE", source |-> e.attempt] \in SourcesOf(m, "EVIDENCE")
    BY <1>4, <1>9, <2>4, EntriesByKind
  <2>6. SourcesOf(m, "PARENT_CHANGE_SET") # {}
    BY <1>4, <1>9, EntriesByKind
  <2>7. ASSUME NEW kind \in {"ACCEPTANCE_REPAIR", "ACCEPTANCE_DECISION", "EVIDENCE_SET",
                             "CANDIDATE_RELATIONSHIP"}
        PROVE  Cardinality(SourcesOf(m, kind)) = 1
    <3>1. \E x : SourcesOf(m, kind) = {x}
      BY <1>4, <1>9, EntriesByKind
    <3> QED BY <3>1, FS_Singleton
  <2> QED BY <2>1, <2>5, <2>6, <2>7
<1>10. RepairExtension(m)
  BY <1>9 DEF RepairExtension
<1>11. ContextTriggers(m, a)
  BY <1>7, <1>8, <1>10 DEF ContextTriggers
<1> QED BY <1>11 DEF a, m

(* ReadersAccept, for every value of the constants: whatever the kernels of    *)
(* one data home commit, the status view, the driver's snapshot and the        *)
(* recovery catalog accept the rows they join (goal-status.ts,                 *)
(* workflow-driver.ts, recovery-coordinator.ts), and the kernel starts and     *)
(* resumes the Goal where the user is advised to and in a coding phase takes   *)
(* what the driver asks next.  The one exception is stated and exact: the      *)
(* context of a further Attempt is refused if and only if the child of the     *)
(* present repair was handed to a worker before (resolveRepairCompilationInput *)
(* in workflow-runtime.ts).                                                    *)
THEOREM ReadersCorrect == AuditedSpec => []ReadersAccept
<1>1. Grounded /\ RetainedInvariant /\ PresentInvariant => ReadersAccept
  BY StatusAccepted, DriverAccepted, CatalogAccepted, CatalogOffers, AdviceAccepted,
     NextAdmitted, RunningTriggers DEF ReadersAccept
<1> QED BY <1>1, GroundedHolds, RetainedHolds, PresentHolds, PTL
=============================================================================
