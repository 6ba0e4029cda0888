----------------------- MODULE WorkflowControlProofs -----------------------
(* Theorems about WorkflowControl for every value of its constants: the shapes *)
(* and the single authority of its rows, what an ended Goal keeps, versions,    *)
(* the lineage of Candidates, the retry boundary, the life cycles of Attempts   *)
(* and generations, the evidence that depends on them, what a closeout rests    *)
(* on, and that the store admits whatever the kernel writes.                    *)
EXTENDS WorkflowControl, TLAPS

USE ConstantsAssumption, NoneAssumption

FrozenIdentity ==
  /\ wf.gen # None => source[wf.gen] \in Digests
  /\ \A g \in Generations :
       gens[g].state \in {"FROZEN", "REJECTED", "ACCEPTED"} => gens[g].frozen \in Digests

PlanBinding ==
  \A p \in Procs :
    plan[p].cmd \notin {"NONE", "RESUME"} =>
      /\ plan[p].first \in Digests /\ plan[p].gen \in Generations
      /\ plan[p].cmd = "VERIFY" => plan[p].obligation \in Obligations

Core == TypeOK /\ AuthorityCoherent /\ FrozenIdentity /\ PlanBinding

-----------------------------------------------------------------------------
(* What each kind of write stores has the type of what it replaces. *)

LEMMA AdvanceType ==
  ASSUME TypeOK, NEW next \in Workflow, Advance(next) PROVE wf' \in Workflow
  BY DEF TypeOK, Workflow, Advance

LEMMA NextVersion ==
  ASSUME TypeOK, NEW next, Advance(next) PROVE wf.version + 1 \in 1..MaxVersion
  BY DEF TypeOK, Workflow, Advance

LEMMA WorkflowUpdates ==
  ASSUME TypeOK
  PROVE  /\ \A s \in RunStatuses : [wf EXCEPT !.status = s] \in Workflow
         /\ \A s \in RunStatuses : \A a \in Attempts \union {None} :
              [wf EXCEPT !.status = s, !.attempt = a] \in Workflow
         /\ \A ph \in Phases : [wf EXCEPT !.phase = ph] \in Workflow
         /\ \A ph \in Phases : \A g \in Generations :
              [wf EXCEPT !.phase = ph, !.gen = g] \in Workflow
         /\ \A ph \in Phases : \A s \in RunStatuses :
              [wf EXCEPT !.phase = ph, !.status = s] \in Workflow
  BY DEF TypeOK, Workflow

LEMMA AttemptFinished ==
  ASSUME NEW r \in Attempt, NEW s \in AttemptStatuses,
         NEW f \in FailureClasses \union {None}, NEW v \in 0..MaxVersion
  PROVE  [r EXCEPT !.status = s, !.failure = f, !.ended = v] \in Attempt
  BY DEF Attempt

LEMMA FinishType ==
  ASSUME TypeOK, wf.attempt \in Attempts, NEW status \in AttemptStatuses,
         NEW failure \in FailureClasses \union {None}, NEW runStatus \in RunStatuses,
         FinishAttempt(status, failure, runStatus)
  PROVE  wf' \in Workflow /\ attempts' \in [Attempts -> Attempt]
<1> DEFINE row == [attempts[wf.attempt] EXCEPT !.status = status, !.failure = failure,
                                               !.ended = wf.version + 1]
<1>1. wf' \in Workflow
  BY AdvanceType, WorkflowUpdates DEF FinishAttempt
<1>2. wf.version + 1 \in 0..MaxVersion /\ attempts[wf.attempt] \in Attempt
  BY DEF FinishAttempt, Advance, TypeOK, Workflow
<1>3. row \in Attempt
  BY <1>2, AttemptFinished
<1>4. attempts' = [attempts EXCEPT ![wf.attempt] = row]
  BY DEF FinishAttempt
<1> HIDE DEF row
<1> QED BY <1>1, <1>3, <1>4 DEF TypeOK

LEMMA AttemptStarted ==
  ASSUME NEW r \in Attempt, NEW ph \in Phases
  PROVE  [r EXCEPT !.status = "RUNNING", !.phase = ph] \in Attempt
  BY DEF Attempt, AttemptStatuses

LEMMA StartType ==
  ASSUME TypeOK, NEW a \in Attempts, Start(a)
  PROVE  wf' \in Workflow /\ attempts' \in [Attempts -> Attempt]
<1> DEFINE row == [attempts[a] EXCEPT !.status = "RUNNING", !.phase = wf.phase]
<1>1. wf' \in Workflow
  BY AdvanceType, WorkflowUpdates DEF Start, RunStatuses
<1>2. wf.phase \in Phases /\ attempts[a] \in Attempt
  BY DEF TypeOK, Workflow
<1>3. row \in Attempt
  BY <1>2, AttemptStarted
<1>4. attempts' = [attempts EXCEPT ![a] = row]
  BY DEF Start
<1> HIDE DEF row
<1> QED BY <1>1, <1>3, <1>4 DEF TypeOK

LEMMA GenerationWrites ==
  ASSUME NEW r \in Generation, NEW s \in GenerationStates, NEW d \in Digests,
         NEW parent \in Generations \union {None}
  PROVE  /\ [r EXCEPT !.state = s] \in Generation
         /\ [r EXCEPT !.state = s, !.frozen = d] \in Generation
         /\ PrepareGeneration(parent, d) \in Generation
  BY DEF Generation, PrepareGeneration, GenerationStates

LEMMA GenerationState ==
  ASSUME TypeOK, NEW g \in Generations, NEW s \in GenerationStates
  PROVE  [gens EXCEPT ![g].state = s] \in [Generations -> Generation]
<1>1. gens[g] \in Generation
  BY DEF TypeOK
<1>2. [gens[g] EXCEPT !.state = s] \in Generation
  BY <1>1 DEF Generation
<1> QED BY <1>2 DEF TypeOK

LEMMA InvalidateType ==
  ASSUME TypeOK, NEW g \in Generations, Invalidate(g)
  PROVE  gens' \in [Generations -> Generation] /\ eligible' \subseteq Attempts
<1>1. "INVALIDATED" \in GenerationStates
  BY DEF GenerationStates
<1>2. gens' \in [Generations -> Generation]
  BY <1>1, GenerationState DEF Invalidate
<1>3. eligible' \subseteq Attempts
  BY DEF Invalidate, TypeOK
<1> QED BY <1>2, <1>3

LEMMA IdleType == Idle \in Plan
  BY DEF Idle, Plan, Commands

LEMMA PlannedType ==
  ASSUME TypeOK, NEW cmd \in Commands, NEW d \in Digests \union {None}
  PROVE  Planned(cmd, d) \in Plan
<1>1. wf.version \in 0..MaxVersion /\ wf.gen \in Generations \union {None}
  BY DEF TypeOK, Workflow
<1> QED BY <1>1, IdleType DEF Plan, Planned

LEMMA PlanUpdates ==
  ASSUME NEW r \in Plan
  PROVE  /\ \A o \in Obligations : [r EXCEPT !.obligation = o] \in Plan
         /\ \A d \in Decision : [r EXCEPT !.decision = d] \in Plan
         /\ \A x \in Results \union {"PROTOCOL_ERROR"} : 
              /\ [r EXCEPT !.result = x] \in Plan
              /\ \A d \in Digests \union {None} : [r EXCEPT !.second = d, !.result = x] \in Plan
  BY DEF Plan

LEMMA PlanType ==
  ASSUME TypeOK, NEW p \in Procs
  PROVE  /\ \A planned \in Plan : Begin(p, planned) => plan' \in [Procs -> Plan]
         /\ Done(p) => plan' \in [Procs -> Plan]
         /\ \A r \in Plan : [plan EXCEPT ![p] = r] \in [Procs -> Plan]
  BY IdleType DEF TypeOK, Begin, Done

LEMMA DecisionType ==
  ASSUME TypeOK, wf.gen \in Generations, gens[wf.gen].frozen \in Digests
  PROVE  CurrentDecision \in Decision
  BY DEF TypeOK, Workflow, CurrentDecision, Decision, EvidenceRuleOutcome, Outcomes

LEMMA EvidenceType ==
  ASSUME TypeOK, wf.attempt \in Attempts, wf.gen \in Generations,
         NEW kind \in {"CANDIDATE_FREEZE", "TEST_RESULT"},
         NEW o \in Obligations \union {None}, NEW d \in Digests,
         NEW result \in Results \union {"OBSERVED"}, RecordEvidence(kind, o, d, result)
  PROVE  evidence' \subseteq Evidence /\ eligible' \subseteq Attempts
<1>1. [attempt |-> wf.attempt, gen |-> wf.gen, kind |-> kind, obligation |-> o,
       digest |-> d, result |-> result] \in Evidence
  BY DEF Evidence
<1> QED BY <1>1 DEF TypeOK, RecordEvidence

LEMMA Owner == ASSUME Core, wf.status = "RUNNING" PROVE wf.attempt \in Attempts
  BY DEF Core, TypeOK, Workflow, AuthorityCoherent

LEMMA Active ==
  ASSUME Core, NEW s, ActiveState(s)
  PROVE  /\ wf.gen \in Generations /\ source[wf.gen] \in Digests
         /\ s = "FROZEN" => gens[wf.gen].frozen \in Digests
  BY DEF Core, TypeOK, Workflow, FrozenIdentity, ActiveState

LEMMA TypeStep == ASSUME Core, Next PROVE TypeOK'
<1> USE DEF Core
<1>1. ASSUME NEW a \in Attempts, StartGoal(a) PROVE TypeOK'
  BY <1>1, StartType DEF StartGoal, TypeOK
<1>2. ASSUME NEW a \in Attempts, NEW p \in Procs, BeginAttempt(p, a) PROVE TypeOK'
  BY <1>2, StartType DEF BeginAttempt, TypeOK
<1>3. CASE RecordAttemptResult
  BY <1>3, Owner, FinishType DEF RecordAttemptResult, TypeOK, AttemptStatuses, RunStatuses
<1>4. ASSUME NEW f \in FailureClasses, RecordAttemptFailure(f) PROVE TypeOK'
  BY <1>4, Owner, FinishType
     DEF RecordAttemptFailure, ResultingRunStatus, TypeOK, AttemptStatuses, RunStatuses
<1>5. ASSUME NEW s \in {"READY", "BLOCKED"}, InterruptAttempt(s) PROVE TypeOK'
  BY <1>5, Owner, FinishType DEF InterruptAttempt, TypeOK, AttemptStatuses, RunStatuses
<1>6. CASE StartupRecovery
  <2>1. wf' \in Workflow /\ attempts' \in [Attempts -> Attempt]
    BY <1>6, Owner, FinishType DEF StartupRecovery, AttemptStatuses, RunStatuses
  <2>2. reconciled' \in 0..MaxVersion
    BY <1>6, NextVersion DEF StartupRecovery, FinishAttempt
  <2> QED BY <1>6, <2>1, <2>2 DEF StartupRecovery, TypeOK
<1>7. CASE CancelGoal
  <2>1. wf' \in Workflow
    BY <1>7, AdvanceType, WorkflowUpdates DEF CancelGoal, RunStatuses
  <2>2. attempts' \in [Attempts -> Attempt]
    <3>1. wf.version + 1 \in 1..MaxVersion
      BY <1>7, NextVersion DEF CancelGoal
    <3>2. ASSUME NEW r \in Attempt
          PROVE [r EXCEPT !.status = "INTERRUPTED", !.ended = wf.version + 1] \in Attempt
      <4>1. wf.version + 1 \in 0..MaxVersion /\ "INTERRUPTED" \in AttemptStatuses
        BY <3>1 DEF AttemptStatuses
      <4> QED BY <4>1 DEF Attempt
    <3>3. CASE wf.status = "RUNNING"
      BY <1>7, <3>2, <3>3, Owner DEF CancelGoal, TypeOK
    <3>4. CASE wf.status # "RUNNING"
      BY <1>7, <3>4 DEF CancelGoal, TypeOK
    <3> QED BY <3>3, <3>4
  <2> QED BY <1>7, <2>1, <2>2 DEF CancelGoal, TypeOK
<1>8. CASE BeginPlanning
  BY <1>8, AdvanceType, WorkflowUpdates DEF BeginPlanning, EnterPhase, TypeOK, Phases
<1>9. ASSUME NEW g \in Generations, NEW d \in Digests, PrepareCandidate(g, d) PROVE TypeOK'
  <2>1. wf' \in Workflow
    BY <1>9, AdvanceType, WorkflowUpdates DEF PrepareCandidate, Phases
  <2>2. wf.gen \in Generations \union {None}
    BY DEF TypeOK, Workflow
  <2>3. PrepareGeneration(wf.gen, d) \in Generation
    BY <2>2 DEF PrepareGeneration, Generation, GenerationStates
  <2> QED BY <1>9, <2>1, <2>3 DEF PrepareCandidate, TypeOK
<1>10. CASE BeginCandidateFreeze
  BY <1>10, Active, AdvanceType, WorkflowUpdates, GenerationState
     DEF BeginCandidateFreeze, EnterPhase, TypeOK, Phases, GenerationStates
<1>11. CASE BeginEvidenceBuild
  BY <1>11, AdvanceType, WorkflowUpdates DEF BeginEvidenceBuild, EnterPhase, TypeOK, Phases
<1>12. ASSUME NEW o \in Obligations, NEW result \in Results \union {"PROTOCOL_ERROR"},
              RunVerification(o, result)
       PROVE TypeOK'
  BY <1>12, Owner, Active, FinishType, EvidenceType
     DEF RunVerification, OwnedAttempt, ResultingRunStatus, TypeOK, AttemptStatuses,
         RunStatuses, FailureClasses
<1>13. ASSUME NEW p \in Procs, BeginFreeze(p) PROVE TypeOK'
  BY <1>13, Active, PlannedType, PlanType DEF BeginFreeze, Observed, store, TypeOK, Commands
<1>14. ASSUME NEW p \in Procs, SecondReading(p) PROVE TypeOK'
  <2>1. plan[p] \in Plan /\ source[plan[p].gen] \in Digests \union {None}
    BY <1>14 DEF SecondReading, PlanBinding, TypeOK
  <2>2. PICK second \in {source[plan[p].gen], None} :
          plan' = [plan EXCEPT ![p] = [@ EXCEPT !.second = second, !.result = "PASS"]]
    BY <1>14 DEF SecondReading
  <2>3. [plan[p] EXCEPT !.second = second, !.result = "PASS"] \in Plan
    BY <2>1, PlanUpdates DEF Results
  <2> QED BY <1>14, <2>2, <2>3 DEF SecondReading, Observed, store, TypeOK
<1>15. ASSUME NEW p \in Procs, CompleteSourceFreeze(p) PROVE TypeOK'
  <2>1. wf.gen \in Generations /\ wf.attempt \in Attempts
    BY <1>15, Active, Owner DEF CompleteSourceFreeze, OwnedAttempt
  <2>2. CASE Unstable(p)
    <3>1. wf' \in Workflow /\ attempts' \in [Attempts -> Attempt]
      BY <1>15, <2>1, <2>2, FinishType
         DEF CompleteSourceFreeze, ResultingRunStatus, AttemptStatuses, RunStatuses, FailureClasses
    <3>2. gens' \in [Generations -> Generation] /\ eligible' \subseteq Attempts
      BY <1>15, <2>1, <2>2, InvalidateType DEF CompleteSourceFreeze
    <3> QED BY <1>15, <2>2, <3>1, <3>2, PlanType DEF CompleteSourceFreeze, TypeOK
  <2>3. CASE ~Unstable(p)
    <3>1. plan[p].second \in Digests
      BY <1>15, <2>3 DEF CompleteSourceFreeze, Unstable, PlanBinding
    <3>2. [gens[wf.gen] EXCEPT !.state = "FROZEN", !.frozen = plan[p].second] \in Generation
      BY <2>1, <3>1, GenerationWrites DEF TypeOK, GenerationStates
    <3>3. gens' \in [Generations -> Generation]
      BY <1>15, <2>1, <2>3, <3>2 DEF CompleteSourceFreeze, TypeOK
    <3>4. wf' \in Workflow /\ attempts' \in [Attempts -> Attempt]
      BY <1>15, <2>1, <2>3, FinishType DEF CompleteSourceFreeze, AttemptStatuses, RunStatuses
    <3>5. evidence' \subseteq Evidence /\ eligible' \subseteq Attempts
      BY <1>15, <2>1, <2>3, <3>1, EvidenceType DEF CompleteSourceFreeze
    <3> QED BY <1>15, <3>3, <3>4, <3>5, PlanType DEF CompleteSourceFreeze, TypeOK
  <2> QED BY <2>2, <2>3
<1>16. ASSUME NEW p \in Procs, ConfigureLocalVerification(p) PROVE TypeOK'
  BY <1>16, Active DEF ConfigureLocalVerification, TypeOK
<1>17. ASSUME NEW p \in Procs, NEW o \in Obligations, BeginVerification(p, o) PROVE TypeOK'
  BY <1>17, Active, PlannedType, PlanUpdates, PlanType
     DEF BeginVerification, Observed, store, TypeOK, Commands
<1>18. ASSUME NEW p \in Procs, RunCheck(p) PROVE TypeOK'
  <2>1. plan[p] \in Plan /\ source[plan[p].gen] \in Digests \union {None}
    BY <1>18 DEF RunCheck, PlanBinding, TypeOK
  <2>2. PICK second \in {source[plan[p].gen], None}, x \in Results \union {"PROTOCOL_ERROR"} :
          plan' = [plan EXCEPT ![p] = [@ EXCEPT !.second = second, !.result = x]]
    BY <1>18 DEF RunCheck
  <2>3. [plan[p] EXCEPT !.second = second, !.result = x] \in Plan
    BY <2>1, PlanUpdates
  <2> QED BY <1>18, <2>2, <2>3 DEF RunCheck, Observed, store, TypeOK
<1>19. ASSUME NEW p \in Procs, CompleteLocalVerification(p) PROVE TypeOK'
  <2>1. wf.gen \in Generations /\ wf.attempt \in Attempts
    BY <1>19, Active, Owner DEF CompleteLocalVerification, OwnedAttempt
  <2>2. wf' \in Workflow /\ attempts' \in [Attempts -> Attempt]
    BY <1>19, <2>1, FinishType
       DEF CompleteLocalVerification, ResultingRunStatus, AttemptStatuses, RunStatuses,
           FailureClasses
  <2>3. gens' \in [Generations -> Generation]
    <3>1. gens' = gens \/ Invalidate(wf.gen)
      BY <1>19 DEF CompleteLocalVerification
    <3> QED BY <2>1, <3>1, InvalidateType DEF TypeOK
  <2>4. evidence' \subseteq Evidence /\ eligible' \subseteq Attempts
    <3>1. CASE evidence' = evidence /\ eligible' \subseteq eligible
      BY <3>1 DEF TypeOK
    <3>2. CASE /\ RecordEvidence("TEST_RESULT", plan[p].obligation, plan[p].second, plan[p].result)
               /\ plan[p].result # None /\ plan[p].result # "PROTOCOL_ERROR"
               /\ plan[p].second # None
      <4>1. /\ plan[p].obligation \in Obligations /\ plan[p].second \in Digests
            /\ plan[p].result \in Results
        BY <1>19, <3>2 DEF CompleteLocalVerification, PlanBinding, TypeOK, Plan
      <4> QED BY <2>1, <3>2, <4>1, EvidenceType
    <3> QED BY <1>19, <3>1, <3>2 DEF CompleteLocalVerification, Invalidate
  <2>5. session' \in [Procs -> SUBSET Generations]
    BY <1>19 DEF CompleteLocalVerification, DropSession, TypeOK
  <2> QED BY <1>19, <2>2, <2>3, <2>4, <2>5, PlanType DEF CompleteLocalVerification, TypeOK
<1>20. ASSUME NEW p \in Procs, NEW cmd \in {"EVIDENCE_SET", "EVALUATE"}, BeginObservation(p, cmd)
       PROVE TypeOK'
  BY <1>20, Active, PlannedType, PlanType DEF BeginObservation, Observed, store, TypeOK, Commands
<1>21. ASSUME NEW p \in Procs, CommitEvidenceSet(p) PROVE TypeOK'
  <2>1. wf' \in Workflow /\ plan' \in [Procs -> Plan]
    BY <1>21, AdvanceType, WorkflowUpdates, PlanType DEF CommitEvidenceSet, EnterPhase, Phases
  <2>2. {e.attempt : e \in TestEvidence(wf.gen)} \subseteq Attempts
    <3>1. \A e \in Evidence : e.attempt \in Attempts
      BY DEF Evidence
    <3> QED BY <3>1 DEF TestEvidence, EligibleOf, EvidenceOf, TypeOK
  <2> QED BY <1>21, <2>1, <2>2 DEF CommitEvidenceSet, TypeOK
<1>22. ASSUME NEW p \in Procs, EvaluateAcceptance(p) PROVE TypeOK'
  BY <1>22, Active, DecisionType, PlanType DEF EvaluateAcceptance, Commit, Committable, TypeOK
<1>23. ASSUME NEW p \in Procs, NEW cmd \in {"CLOSE", "REPAIR"}, NEW d \in decisions,
              BeginConsumption(p, cmd, d)
       PROVE TypeOK'
  BY <1>23, Active, PlannedType, PlanUpdates, PlanType
     DEF BeginConsumption, Observed, store, TypeOK, Commands
<1>24. ASSUME NEW p \in Procs, CommitIntegrityFailure(p) PROVE TypeOK'
  BY <1>24, Active, AdvanceType, WorkflowUpdates, PlanType, GenerationState
     DEF CommitIntegrityFailure, Committable, Invalidate, TypeOK, RunStatuses, GenerationStates
<1>25. ASSUME NEW p \in Procs, CloseAcceptedGoal(p) PROVE TypeOK'
  <2>1. wf' \in Workflow /\ gens' \in [Generations -> Generation] /\ plan' \in [Procs -> Plan]
    BY <1>25, Active, AdvanceType, WorkflowUpdates, PlanType, GenerationState
       DEF CloseAcceptedGoal, Commit, Committable, Phases, RunStatuses, GenerationStates
  <2>2. closeout' \in Closeout
    BY <1>25 DEF CloseAcceptedGoal, Consumable, Advance, TypeOK, Workflow, Closeout
  <2> QED BY <1>25, <2>1, <2>2 DEF CloseAcceptedGoal, TypeOK
<1>26. ASSUME NEW p \in Procs, NEW g \in Generations, BeginAcceptanceRepair(p, g) PROVE TypeOK'
  <2>1. wf' \in Workflow /\ plan' \in [Procs -> Plan]
    BY <1>26, Active, AdvanceType, WorkflowUpdates, PlanType
       DEF BeginAcceptanceRepair, Commit, Committable, Phases
  <2>2. repairs' \subseteq Repair
    BY <1>26 DEF BeginAcceptanceRepair, Consumable, Advance, TypeOK, Workflow, Repair
  <2>3. plan[p].first \in Digests /\ wf.gen \in Generations
    BY <1>26, Active DEF BeginAcceptanceRepair, Commit, Committable, PlanBinding
  <2>4. gens' \in [Generations -> Generation]
    BY <1>26, <2>3, GenerationState, GenerationWrites DEF BeginAcceptanceRepair, TypeOK, GenerationStates
  <2> QED BY <1>26, <2>1, <2>2, <2>3, <2>4 DEF BeginAcceptanceRepair, TypeOK
<1>27. ASSUME NEW p \in Procs, BeginResume(p) PROVE TypeOK'
  <2>1. (IF wf.gen = None THEN None ELSE source[wf.gen]) \in Digests \union {None}
    BY DEF FrozenIdentity
  <2> QED BY <1>27, <2>1, PlannedType, PlanUpdates, PlanType
          DEF BeginResume, Observed, store, TypeOK, Commands, Results
<1>28. ASSUME NEW p \in Procs, ResumeGoal(p) PROVE TypeOK'
  <2>1. wf' \in Workflow /\ plan' \in [Procs -> Plan]
    BY <1>28, AdvanceType, WorkflowUpdates, PlanType DEF ResumeGoal, RunStatuses
  <2>2. reconciled' \in 0..MaxVersion
    BY <1>28, NextVersion DEF ResumeGoal
  <2> QED BY <1>28, <2>1, <2>2 DEF ResumeGoal, TypeOK
<1>29. ASSUME NEW p \in Procs, AbandonCommand(p) \/ Crash(p) PROVE TypeOK'
  BY <1>29, PlanType DEF AbandonCommand, Crash, store, TypeOK
<1>30. ASSUME NEW d \in Digests, SourceChange(d) PROVE TypeOK'
  BY <1>30 DEF SourceChange, store, TypeOK
<1> QED
  BY <1>1, <1>2, <1>3, <1>4, <1>5, <1>6, <1>7, <1>8, <1>9, <1>10, <1>11, <1>12, <1>13, <1>14,
     <1>15, <1>16, <1>17, <1>18, <1>19, <1>20, <1>21, <1>22, <1>23, <1>24, <1>25, <1>26, <1>27,
     <1>28, <1>29, <1>30 DEF Next

-----------------------------------------------------------------------------
(* The Workflow row and the Attempt rows stay one authority. *)

LEMMA StartAuthority ==
  ASSUME Core, NEW a \in Attempts, wf.status = "READY", wf.phase # "CLOSEOUT",
         FreshAttempt(a), Start(a)
  PROVE  AuthorityCoherent'
  BY DEF Core, TypeOK, Workflow, AuthorityCoherent, FreshAttempt, Start, Advance

LEMMA FinishAuthority ==
  ASSUME Core, wf.status = "RUNNING", NEW status, status # "RUNNING", NEW failure,
         NEW runStatus \in {"READY", "BLOCKED", "FAILED"},
         FinishAttempt(status, failure, runStatus)
  PROVE  AuthorityCoherent'
  BY DEF Core, TypeOK, Workflow, AuthorityCoherent, FinishAttempt, Advance

(* A step that only moves an idle workflow on. *)
LEMMA IdleAuthority ==
  ASSUME Core, wf.status # "RUNNING", NEW next \in Workflow, Advance(next),
         next.status # "RUNNING", next.attempt = wf.attempt,
         next.phase = "CLOSEOUT" <=> next.status = "CLOSED", UNCHANGED attempts
  PROVE  AuthorityCoherent'
  BY DEF Core, TypeOK, Workflow, AuthorityCoherent, Advance

LEMMA AuthorityStep == ASSUME Core, Next PROVE AuthorityCoherent'
<1> USE DEF Core
<1>1. ASSUME NEW a \in Attempts, StartGoal(a) PROVE AuthorityCoherent'
  BY <1>1, StartAuthority DEF StartGoal, AuthorityCoherent
<1>2. ASSUME NEW a \in Attempts, NEW p \in Procs, BeginAttempt(p, a) PROVE AuthorityCoherent'
  BY <1>2, StartAuthority DEF BeginAttempt
<1>3. CASE RecordAttemptResult
  BY <1>3, FinishAuthority DEF RecordAttemptResult
<1>4. ASSUME NEW f \in FailureClasses, RecordAttemptFailure(f) PROVE AuthorityCoherent'
  BY <1>4, FinishAuthority DEF RecordAttemptFailure, ResultingRunStatus
<1>5. ASSUME NEW s \in {"READY", "BLOCKED"}, InterruptAttempt(s) PROVE AuthorityCoherent'
  BY <1>5, FinishAuthority DEF InterruptAttempt
<1>6. CASE StartupRecovery
  BY <1>6, FinishAuthority DEF StartupRecovery
<1>7. CASE CancelGoal
  BY <1>7, Owner DEF CancelGoal, IsTerminalWorkflow, TypeOK, Workflow, AuthorityCoherent, Advance
<1>8. CASE BeginPlanning \/ BeginEvidenceBuild \/ BeginCandidateFreeze
  <2>1. PICK phase \in Phases \ {"CLOSEOUT"} : EnterPhase(phase)
    BY <1>8 DEF BeginPlanning, BeginEvidenceBuild, BeginCandidateFreeze, Phases
  <2>2. wf.status = "READY" /\ UNCHANGED attempts
    BY <1>8 DEF BeginPlanning, BeginEvidenceBuild, BeginCandidateFreeze, Ready
  <2> QED BY <2>1, <2>2, WorkflowUpdates, IdleAuthority DEF EnterPhase, TypeOK, Workflow
<1>9. ASSUME NEW g \in Generations, NEW d \in Digests, PrepareCandidate(g, d)
      PROVE AuthorityCoherent'
  BY <1>9 DEF PrepareCandidate, Ready, Advance, TypeOK, Workflow, AuthorityCoherent
<1>10. ASSUME NEW o \in Obligations, NEW result \in Results \union {"PROTOCOL_ERROR"},
              RunVerification(o, result)
       PROVE AuthorityCoherent'
  BY <1>10, FinishAuthority DEF RunVerification, OwnedAttempt, ResultingRunStatus
<1>11. ASSUME NEW p \in Procs, CompleteSourceFreeze(p) PROVE AuthorityCoherent'
  BY <1>11, FinishAuthority DEF CompleteSourceFreeze, OwnedAttempt, ResultingRunStatus
<1>12. ASSUME NEW p \in Procs, CompleteLocalVerification(p) PROVE AuthorityCoherent'
  BY <1>12, FinishAuthority DEF CompleteLocalVerification, OwnedAttempt, ResultingRunStatus
<1>13. ASSUME NEW p \in Procs,
              \/ CommitEvidenceSet(p) \/ CommitIntegrityFailure(p) \/ CloseAcceptedGoal(p)
              \/ \E g \in Generations : BeginAcceptanceRepair(p, g)
              \/ ResumeGoal(p)
       PROVE AuthorityCoherent'
  <2>1. CASE CommitEvidenceSet(p)
    BY <2>1 DEF CommitEvidenceSet, Commit, Committable, Ready, EnterPhase, Advance,
                ObservingPhase, TypeOK, Workflow, AuthorityCoherent
  <2>2. CASE CommitIntegrityFailure(p)
    BY <2>2 DEF CommitIntegrityFailure, Committable, Ready, Advance, ObservingPhase,
                TypeOK, Workflow, AuthorityCoherent
  <2>3. CASE CloseAcceptedGoal(p)
    BY <2>3 DEF CloseAcceptedGoal, Commit, Committable, Ready, Advance, ObservingPhase,
                TypeOK, Workflow, AuthorityCoherent
  <2>4. CASE \E g \in Generations : BeginAcceptanceRepair(p, g)
    BY <2>4 DEF BeginAcceptanceRepair, Commit, Committable, Ready, Advance, ObservingPhase,
                TypeOK, Workflow, AuthorityCoherent
  <2>5. CASE ResumeGoal(p)
    BY <2>5 DEF ResumeGoal, RecoverableBlocker, Advance, TypeOK, Workflow, AuthorityCoherent
  <2> QED BY <1>13, <2>1, <2>2, <2>3, <2>4, <2>5
<1>14. CASE UNCHANGED <<wf, attempts>>
  BY <1>14 DEF AuthorityCoherent
<1>15. ASSUME NEW p \in Procs,
              \/ BeginFreeze(p) \/ SecondReading(p) \/ ConfigureLocalVerification(p)
              \/ \E o \in Obligations : BeginVerification(p, o)
              \/ RunCheck(p)
              \/ \E cmd \in {"EVIDENCE_SET", "EVALUATE"} : BeginObservation(p, cmd)
              \/ EvaluateAcceptance(p)
              \/ \E cmd \in {"CLOSE", "REPAIR"}, d \in decisions : BeginConsumption(p, cmd, d)
              \/ BeginResume(p) \/ AbandonCommand(p) \/ Crash(p)
       PROVE UNCHANGED <<wf, attempts>>
  BY <1>15
     DEF BeginFreeze, SecondReading, ConfigureLocalVerification, BeginVerification, RunCheck,
         BeginObservation, EvaluateAcceptance, BeginConsumption, BeginResume, AbandonCommand,
         Crash, Observed, store
<1>16. ASSUME NEW d \in Digests, SourceChange(d) PROVE UNCHANGED <<wf, attempts>>
  BY <1>16 DEF SourceChange, store
<1> QED
  BY <1>1, <1>2, <1>3, <1>4, <1>5, <1>6, <1>7, <1>8, <1>9, <1>10, <1>11, <1>12, <1>13, <1>14,
     <1>15, <1>16 DEF Next

-----------------------------------------------------------------------------
(* A generation that was frozen keeps its identity. *)

LEMMA InvalidateFrozen ==
  ASSUME Core, NEW g \in Generations, Invalidate(g), UNCHANGED source, wf'.gen = wf.gen
  PROVE  FrozenIdentity'
  BY DEF Core, TypeOK, FrozenIdentity, Invalidate

LEMMA FrozenStep == ASSUME Core, Next PROVE FrozenIdentity'
<1> USE DEF Core
<1>1. CASE UNCHANGED <<gens, source>> /\ wf'.gen = wf.gen
  BY <1>1 DEF FrozenIdentity
<1>2. ASSUME NEW a \in Attempts, StartGoal(a) \/ \E p \in Procs : BeginAttempt(p, a)
      PROVE  UNCHANGED <<gens, source>> /\ wf'.gen = wf.gen
  BY <1>2 DEF StartGoal, BeginAttempt, Start, Advance, TypeOK, Workflow
<1>3. ASSUME \/ RecordAttemptResult \/ \E f \in FailureClasses : RecordAttemptFailure(f)
             \/ \E s \in {"READY", "BLOCKED"} : InterruptAttempt(s)
             \/ StartupRecovery \/ CancelGoal \/ BeginPlanning \/ BeginEvidenceBuild
      PROVE  UNCHANGED <<gens, source>> /\ wf'.gen = wf.gen
  <2>1. UNCHANGED <<gens, source>>
    BY <1>3 DEF RecordAttemptResult, RecordAttemptFailure, InterruptAttempt, StartupRecovery,
                CancelGoal, BeginPlanning, BeginEvidenceBuild
  <2>2. PICK next \in Workflow : next.gen = wf.gen /\ wf' = [next EXCEPT !.version = wf.version + 1]
    <3>1. \/ \E s \in RunStatuses : wf' = [[wf EXCEPT !.status = s, !.attempt = None]
                                            EXCEPT !.version = wf.version + 1]
          \/ \E ph \in Phases : wf' = [[wf EXCEPT !.phase = ph] EXCEPT !.version = wf.version + 1]
      BY <1>3 DEF RecordAttemptResult, RecordAttemptFailure, InterruptAttempt, StartupRecovery,
                  CancelGoal, BeginPlanning, BeginEvidenceBuild, FinishAttempt, EnterPhase,
                  Advance, ResultingRunStatus, RunStatuses, Phases
    <3>2. wf \in Workflow
      BY DEF TypeOK
    <3> QED BY <3>1, <3>2 DEF Workflow
  <2> QED BY <2>1, <2>2 DEF Workflow
<1>4. ASSUME NEW g \in Generations, NEW d \in Digests, PrepareCandidate(g, d)
      PROVE FrozenIdentity'
  BY <1>4 DEF PrepareCandidate, PrepareGeneration, Advance, TypeOK, Workflow, FrozenIdentity
<1>5. CASE BeginCandidateFreeze
  BY <1>5 DEF BeginCandidateFreeze, EnterPhase, Advance, TypeOK, Workflow, FrozenIdentity
<1>6. ASSUME NEW o \in Obligations, NEW result \in Results \union {"PROTOCOL_ERROR"},
             RunVerification(o, result)
      PROVE  UNCHANGED <<gens, source>> /\ wf'.gen = wf.gen
  BY <1>6 DEF RunVerification, FinishAttempt, Advance, TypeOK, Workflow
<1>7. ASSUME NEW p \in Procs, CompleteSourceFreeze(p) PROVE FrozenIdentity'
  <2>1. wf.gen \in Generations /\ wf'.gen = wf.gen
    BY <1>7, Active DEF CompleteSourceFreeze, FinishAttempt, Advance, TypeOK, Workflow
  <2>2. CASE Unstable(p)
    BY <1>7, <2>1, <2>2, InvalidateFrozen DEF CompleteSourceFreeze
  <2>3. CASE ~Unstable(p)
    <3>1. plan[p].second \in Digests
      BY <1>7, <2>3 DEF CompleteSourceFreeze, Unstable, PlanBinding
    <3>2. /\ UNCHANGED source
          /\ gens' = [gens EXCEPT ![wf.gen] = [gens[wf.gen] EXCEPT !.state = "FROZEN",
                                                                 !.frozen = plan[p].second]]
      BY <1>7, <2>3 DEF CompleteSourceFreeze
    <3>3. gens'[wf.gen].frozen = plan[p].second
      BY <2>1, <3>2 DEF TypeOK, Generation
    <3>4. \A g \in Generations : g # wf.gen => gens'[g] = gens[g]
      BY <2>1, <3>2 DEF TypeOK
    <3> QED BY <2>1, <3>1, <3>2, <3>3, <3>4 DEF FrozenIdentity
  <2> QED BY <2>2, <2>3
<1>8. ASSUME NEW p \in Procs, CompleteLocalVerification(p) PROVE FrozenIdentity'
  <2>1. wf.gen \in Generations /\ wf'.gen = wf.gen
    BY <1>8, Active DEF CompleteLocalVerification, FinishAttempt, Advance, TypeOK, Workflow
  <2>2. (Invalidate(wf.gen) \/ UNCHANGED gens) /\ UNCHANGED source
    BY <1>8 DEF CompleteLocalVerification
  <2> QED BY <2>1, <2>2, InvalidateFrozen, <1>1
<1>9. ASSUME NEW p \in Procs, CommitEvidenceSet(p) \/ EvaluateAcceptance(p) \/ ResumeGoal(p)
      PROVE  UNCHANGED <<gens, source>> /\ wf'.gen = wf.gen
  BY <1>9 DEF CommitEvidenceSet, EvaluateAcceptance, ResumeGoal, EnterPhase, Advance,
              TypeOK, Workflow
<1>10. ASSUME NEW p \in Procs, CommitIntegrityFailure(p) PROVE FrozenIdentity'
  BY <1>10, Active, InvalidateFrozen
     DEF CommitIntegrityFailure, Committable, Advance, TypeOK, Workflow
<1>11. ASSUME NEW p \in Procs, CloseAcceptedGoal(p) PROVE FrozenIdentity'
  BY <1>11, Active
     DEF CloseAcceptedGoal, Commit, Committable, Advance, TypeOK, Workflow, FrozenIdentity
<1>12. ASSUME NEW p \in Procs, NEW g \in Generations, BeginAcceptanceRepair(p, g)
       PROVE FrozenIdentity'
  <2>1. wf.gen \in Generations /\ gens[wf.gen].frozen \in Digests /\ plan[p].first \in Digests
    BY <1>12, Active DEF BeginAcceptanceRepair, Commit, Committable, PlanBinding
  <2>2. wf'.gen = g /\ source'[g] \in Digests
    BY <1>12, <2>1 DEF BeginAcceptanceRepair, Advance, TypeOK, Workflow
  <2>3. \A h \in Generations :
          gens'[h].state \in {"FROZEN", "REJECTED", "ACCEPTED"} => gens'[h].frozen \in Digests
    <3>1. gens' = [gens EXCEPT ![wf.gen].state = "REJECTED",
                               ![g] = PrepareGeneration(wf.gen, plan[p].first)]
      BY <1>12 DEF BeginAcceptanceRepair
    <3>2. gens'[g].state = "MUTABLE" \/ gens'[g] = gens[g]
      BY <3>1 DEF TypeOK, PrepareGeneration
    <3>3. \A h \in Generations : h # g => gens'[h].frozen = gens[h].frozen
      BY <2>1, <3>1 DEF TypeOK, Generation
    <3>4. \A h \in Generations : h \notin {g, wf.gen} => gens'[h] = gens[h]
      BY <3>1 DEF TypeOK
    <3> QED BY <2>1, <3>2, <3>3, <3>4 DEF FrozenIdentity
  <2> QED BY <2>2, <2>3 DEF FrozenIdentity
<1>13. ASSUME NEW p \in Procs,
              \/ BeginFreeze(p) \/ SecondReading(p) \/ ConfigureLocalVerification(p)
              \/ \E o \in Obligations : BeginVerification(p, o)
              \/ RunCheck(p)
              \/ \E cmd \in {"EVIDENCE_SET", "EVALUATE"} : BeginObservation(p, cmd)
              \/ \E cmd \in {"CLOSE", "REPAIR"}, d \in decisions : BeginConsumption(p, cmd, d)
              \/ BeginResume(p) \/ AbandonCommand(p) \/ Crash(p)
       PROVE  UNCHANGED <<gens, source>> /\ wf'.gen = wf.gen
  BY <1>13
     DEF BeginFreeze, SecondReading, ConfigureLocalVerification, BeginVerification, RunCheck,
         BeginObservation, BeginConsumption, BeginResume, AbandonCommand, Crash, Observed, store
<1>14. ASSUME NEW d \in Digests, SourceChange(d) PROVE FrozenIdentity'
  BY <1>14 DEF SourceChange, store, TypeOK, FrozenIdentity
<1> QED
  BY <1>1, <1>2, <1>3, <1>4, <1>5, <1>6, <1>7, <1>8, <1>9, <1>10, <1>11, <1>12, <1>13, <1>14
     DEF Next

-----------------------------------------------------------------------------
(* A command in progress holds what its commit will write. *)

LEMMA PlanBegun ==
  ASSUME Core, NEW p \in Procs, NEW planned \in Plan, Begin(p, planned),
         planned.cmd \notin {"NONE", "RESUME"} =>
           /\ planned.first \in Digests /\ planned.gen \in Generations
           /\ planned.cmd = "VERIFY" => planned.obligation \in Obligations
  PROVE  PlanBinding'
  BY DEF Core, TypeOK, PlanBinding, Begin

LEMMA PlanDone ==
  ASSUME Core, NEW p \in Procs, Done(p) PROVE PlanBinding'
  BY DEF Core, TypeOK, PlanBinding, Done, Idle

LEMMA PlanStep == ASSUME Core, Next PROVE PlanBinding'
<1> USE DEF Core
<1>1. CASE UNCHANGED plan
  BY <1>1 DEF PlanBinding
<1>2. CASE \E p \in Procs : Done(p)
  BY <1>2, PlanDone
<1>3. ASSUME NEW p \in Procs, BeginFreeze(p) PROVE PlanBinding'
  BY <1>3, Active, PlannedType, PlanBegun DEF BeginFreeze, Planned, Idle, Commands
<1>4. ASSUME NEW p \in Procs, NEW o \in Obligations, BeginVerification(p, o) PROVE PlanBinding'
  BY <1>4, Active, PlannedType, PlanUpdates, PlanBegun
     DEF BeginVerification, Planned, Idle, Commands
<1>5. ASSUME NEW p \in Procs, NEW cmd \in {"EVIDENCE_SET", "EVALUATE"}, BeginObservation(p, cmd)
      PROVE PlanBinding'
  BY <1>5, Active, PlannedType, PlanBegun DEF BeginObservation, Planned, Idle, Commands
<1>6. ASSUME NEW p \in Procs, NEW cmd \in {"CLOSE", "REPAIR"}, NEW d \in decisions,
             BeginConsumption(p, cmd, d)
      PROVE PlanBinding'
  BY <1>6, Active, PlannedType, PlanUpdates, PlanBegun
     DEF BeginConsumption, Planned, Idle, Commands, TypeOK
<1>7. ASSUME NEW p \in Procs, BeginResume(p) PROVE PlanBinding'
  BY <1>7 DEF BeginResume, Begin, Planned, Idle, TypeOK, PlanBinding
<1>8. ASSUME NEW p \in Procs, SecondReading(p) \/ RunCheck(p) PROVE PlanBinding'
  <2>1. plan[p] \in Plan
    BY DEF TypeOK
  <2>2. PICK second, x : plan' = [plan EXCEPT ![p] = [@ EXCEPT !.second = second, !.result = x]]
    BY <1>8 DEF SecondReading, RunCheck
  <2>3. LET r == [plan[p] EXCEPT !.second = second, !.result = x] IN
          /\ r.cmd = plan[p].cmd /\ r.first = plan[p].first
          /\ r.gen = plan[p].gen /\ r.obligation = plan[p].obligation
    BY <2>1 DEF Plan
  <2>4. \A q \in Procs :
          /\ plan'[q].cmd = plan[q].cmd /\ plan'[q].first = plan[q].first
          /\ plan'[q].gen = plan[q].gen /\ plan'[q].obligation = plan[q].obligation
    BY <2>2, <2>3 DEF TypeOK
  <2> QED BY <2>4 DEF PlanBinding
<1>9. ASSUME NEW a \in Attempts, StartGoal(a) \/ \E p \in Procs : BeginAttempt(p, a)
      PROVE  UNCHANGED plan
  BY <1>9 DEF StartGoal, BeginAttempt
<1>10. ASSUME \/ RecordAttemptResult \/ \E f \in FailureClasses : RecordAttemptFailure(f)
              \/ \E s \in {"READY", "BLOCKED"} : InterruptAttempt(s)
              \/ StartupRecovery \/ CancelGoal \/ BeginPlanning \/ BeginEvidenceBuild
              \/ BeginCandidateFreeze
              \/ \E g \in Generations, d \in Digests : PrepareCandidate(g, d)
              \/ \E o \in Obligations, result \in Results \union {"PROTOCOL_ERROR"} :
                   RunVerification(o, result)
              \/ \E d \in Digests : SourceChange(d)
       PROVE  UNCHANGED plan
  BY <1>10 DEF RecordAttemptResult, RecordAttemptFailure, InterruptAttempt, StartupRecovery,
               CancelGoal, BeginPlanning, BeginEvidenceBuild, BeginCandidateFreeze,
               PrepareCandidate, RunVerification, SourceChange
<1>11. ASSUME NEW p \in Procs, ConfigureLocalVerification(p) PROVE UNCHANGED plan
  BY <1>11 DEF ConfigureLocalVerification
<1>12. ASSUME NEW p \in Procs,
              \/ CompleteSourceFreeze(p) \/ CompleteLocalVerification(p)
              \/ CommitEvidenceSet(p) \/ EvaluateAcceptance(p) \/ CommitIntegrityFailure(p)
              \/ CloseAcceptedGoal(p) \/ \E g \in Generations : BeginAcceptanceRepair(p, g)
              \/ ResumeGoal(p) \/ AbandonCommand(p) \/ Crash(p)
       PROVE  Done(p)
  BY <1>12
     DEF CompleteSourceFreeze, CompleteLocalVerification, CommitEvidenceSet, EvaluateAcceptance,
         CommitIntegrityFailure, CloseAcceptedGoal, BeginAcceptanceRepair, ResumeGoal,
         AbandonCommand, Crash
<1> QED
  BY <1>1, <1>2, <1>3, <1>4, <1>5, <1>6, <1>7, <1>8, <1>9, <1>10, <1>11, <1>12 DEF Next

-----------------------------------------------------------------------------
LEMMA CoreInit == Init => Core
  BY DEF Init, Core, TypeOK, AuthorityCoherent, FrozenIdentity, PlanBinding, Workflow, Attempt,
         Generation, Evidence, Decision, Closeout, Repair, Plan, Idle, Phases, RunStatuses,
         AttemptStatuses, GenerationStates, Commands

LEMMA CoreStep == Core /\ [Next]_vars => Core'
<1>1. ASSUME Core, Next PROVE Core'
  BY <1>1, TypeStep, AuthorityStep, FrozenStep, PlanStep DEF Core
<1>2. ASSUME Core, UNCHANGED vars PROVE Core'
  BY <1>2 DEF vars, Core, TypeOK, AuthorityCoherent, FrozenIdentity, PlanBinding
<1> QED BY <1>1, <1>2

LEMMA CoreInvariant == Spec => []Core
  BY CoreInit, CoreStep, PTL DEF Spec

(* Every reachable state is made of rows of the declared shapes: versions stay *)
(* safe integers, and no row refers to an Attempt or generation never made.    *)
THEOREM TypeCorrect == Spec => []TypeOK
  BY CoreInvariant, PTL DEF Core

(* The Workflow row and the Attempt rows are one authority, whatever kernels,  *)
(* recoveries and cancellations interleave.                                    *)
THEOREM AuthorityCorrect == Spec => []AuthorityCoherent
  BY CoreInvariant, PTL DEF Core

-----------------------------------------------------------------------------
(* An ended Goal *)

LEMMA TerminalStep ==
  ASSUME wf.status \in {"CANCELLED", "CLOSED"}, Next PROVE UNCHANGED store
<1>1. ASSUME NEW a \in Attempts, StartGoal(a) \/ \E p \in Procs : BeginAttempt(p, a) PROVE FALSE
  BY <1>1 DEF StartGoal, BeginAttempt
<1>2. ASSUME \/ RecordAttemptResult \/ \E f \in FailureClasses : RecordAttemptFailure(f)
             \/ \E s \in {"READY", "BLOCKED"} : InterruptAttempt(s)
             \/ StartupRecovery \/ CancelGoal \/ BeginPlanning \/ BeginEvidenceBuild
             \/ BeginCandidateFreeze
             \/ \E g \in Generations, d \in Digests : PrepareCandidate(g, d)
             \/ \E o \in Obligations, result \in Results \union {"PROTOCOL_ERROR"} :
                  RunVerification(o, result)
      PROVE  FALSE
  BY <1>2 DEF RecordAttemptResult, RecordAttemptFailure, InterruptAttempt, StartupRecovery,
              CancelGoal, BeginPlanning, BeginEvidenceBuild, BeginCandidateFreeze,
              PrepareCandidate, RunVerification, Ready, OwnedAttempt, IsTerminalWorkflow
<1>3. ASSUME NEW p \in Procs,
             \/ CompleteSourceFreeze(p) \/ ConfigureLocalVerification(p)
             \/ CompleteLocalVerification(p)
             \/ CommitEvidenceSet(p) \/ EvaluateAcceptance(p) \/ CommitIntegrityFailure(p)
             \/ CloseAcceptedGoal(p) \/ \E g \in Generations : BeginAcceptanceRepair(p, g)
             \/ ResumeGoal(p)
      PROVE  FALSE
  BY <1>3 DEF CompleteSourceFreeze, ConfigureLocalVerification, CompleteLocalVerification,
              CommitEvidenceSet, EvaluateAcceptance, CommitIntegrityFailure, CloseAcceptedGoal,
              BeginAcceptanceRepair, ResumeGoal, Commit, Committable, Ready, OwnedAttempt,
              RecoverableBlocker
<1>4. ASSUME NEW p \in Procs,
             \/ BeginFreeze(p) \/ SecondReading(p)
             \/ \E o \in Obligations : BeginVerification(p, o)
             \/ RunCheck(p)
             \/ \E cmd \in {"EVIDENCE_SET", "EVALUATE"} : BeginObservation(p, cmd)
             \/ \E cmd \in {"CLOSE", "REPAIR"}, d \in decisions : BeginConsumption(p, cmd, d)
             \/ BeginResume(p) \/ AbandonCommand(p) \/ Crash(p)
      PROVE  UNCHANGED store
  BY <1>4 DEF BeginFreeze, SecondReading, BeginVerification, RunCheck, BeginObservation,
              BeginConsumption, BeginResume, AbandonCommand, Crash, Observed
<1>5. ASSUME NEW d \in Digests, SourceChange(d) PROVE UNCHANGED store
  BY <1>5 DEF SourceChange
<1> QED BY <1>1, <1>2, <1>3, <1>4, <1>5 DEF Next

(* A closed or cancelled Goal never changes, whatever commands were planned    *)
(* before its end and by however many processes.                               *)
THEOREM TerminalCorrect == Spec => TerminalIsFinal
<1>1. [Next]_vars => [wf.status \in {"CANCELLED", "CLOSED"} => UNCHANGED store]_vars
  BY TerminalStep
<1> QED BY <1>1, PTL DEF Spec, TerminalIsFinal

-----------------------------------------------------------------------------
(* The optimistic check *)

LEMMA AdvanceVersion ==
  ASSUME TypeOK,
         \/ \E s \in RunStatuses : Advance([wf EXCEPT !.status = s])
         \/ \E s \in RunStatuses : \E a \in Attempts \union {None} :
              Advance([wf EXCEPT !.status = s, !.attempt = a])
         \/ \E ph \in Phases : Advance([wf EXCEPT !.phase = ph])
         \/ \E ph \in Phases : \E g \in Generations : Advance([wf EXCEPT !.phase = ph, !.gen = g])
         \/ \E ph \in Phases : \E s \in RunStatuses :
              Advance([wf EXCEPT !.phase = ph, !.status = s])
  PROVE  wf'.version = wf.version + 1
<1>1. ASSUME NEW next \in Workflow, Advance(next) PROVE wf'.version = wf.version + 1
  BY <1>1 DEF Advance, Workflow
<1> QED BY <1>1, WorkflowUpdates

LEMMA FinishVersion ==
  ASSUME Core, NEW status, NEW failure, NEW s \in RunStatuses, FinishAttempt(status, failure, s)
  PROVE  wf'.version = wf.version + 1
  BY AdvanceVersion DEF FinishAttempt, Core

(* The rows that another command may have read. *)
Consumed == <<wf, attempts, gens, evidence, eligible, sets, closeout, repairs, reconciled>>

LEMMA VersionStep ==
  ASSUME Core, Next PROVE wf'.version = wf.version + 1 \/ UNCHANGED Consumed
<1> USE DEF Core
<1>1. ASSUME NEW a \in Attempts, StartGoal(a) \/ \E p \in Procs : BeginAttempt(p, a)
      PROVE  wf'.version = wf.version + 1
  BY <1>1, AdvanceVersion DEF StartGoal, BeginAttempt, Start, RunStatuses
<1>2. ASSUME \/ RecordAttemptResult \/ \E f \in FailureClasses : RecordAttemptFailure(f)
             \/ \E s \in {"READY", "BLOCKED"} : InterruptAttempt(s)
             \/ StartupRecovery
             \/ \E o \in Obligations, result \in Results \union {"PROTOCOL_ERROR"} :
                  RunVerification(o, result)
             \/ \E p \in Procs : CompleteSourceFreeze(p) \/ CompleteLocalVerification(p)
      PROVE  wf'.version = wf.version + 1
  <2> DEFINE AttemptEnds == \E status, failure : \E s \in RunStatuses :
                           FinishAttempt(status, failure, s)
  <2>1. ASSUME \/ RecordAttemptResult \/ \E f \in FailureClasses : RecordAttemptFailure(f)
               \/ \E s \in {"READY", "BLOCKED"} : InterruptAttempt(s)
               \/ StartupRecovery
        PROVE  AttemptEnds
    BY <2>1 DEF RecordAttemptResult, RecordAttemptFailure, InterruptAttempt, StartupRecovery,
                ResultingRunStatus, RunStatuses
  <2>2. ASSUME NEW o \in Obligations, NEW result \in Results \union {"PROTOCOL_ERROR"},
               RunVerification(o, result)
        PROVE  AttemptEnds
    BY <2>2 DEF RunVerification, ResultingRunStatus, RunStatuses
  <2>3. ASSUME NEW p \in Procs, CompleteSourceFreeze(p) PROVE AttemptEnds
    BY <2>3 DEF CompleteSourceFreeze, ResultingRunStatus, RunStatuses
  <2>4. ASSUME NEW p \in Procs, CompleteLocalVerification(p) PROVE AttemptEnds
    BY <2>4 DEF CompleteLocalVerification, ResultingRunStatus, RunStatuses
  <2>5. ASSUME AttemptEnds PROVE wf'.version = wf.version + 1
    BY <2>5, FinishVersion
  <2> HIDE DEF AttemptEnds
  <2> QED BY <1>2, <2>1, <2>2, <2>3, <2>4, <2>5
<1>3. ASSUME \/ CancelGoal \/ BeginPlanning \/ BeginEvidenceBuild \/ BeginCandidateFreeze
             \/ \E g \in Generations, d \in Digests : PrepareCandidate(g, d)
      PROVE  wf'.version = wf.version + 1
  BY <1>3, AdvanceVersion
     DEF CancelGoal, BeginPlanning, BeginEvidenceBuild, BeginCandidateFreeze, PrepareCandidate,
         EnterPhase, Phases, RunStatuses
<1>4. ASSUME NEW p \in Procs,
             \/ CommitEvidenceSet(p) \/ CommitIntegrityFailure(p) \/ CloseAcceptedGoal(p)
             \/ \E g \in Generations : BeginAcceptanceRepair(p, g)
             \/ ResumeGoal(p)
      PROVE  wf'.version = wf.version + 1
  BY <1>4, AdvanceVersion
     DEF CommitEvidenceSet, CommitIntegrityFailure, CloseAcceptedGoal, BeginAcceptanceRepair,
         ResumeGoal, EnterPhase, Phases, RunStatuses
<1>5. ASSUME NEW p \in Procs,
             \/ BeginFreeze(p) \/ SecondReading(p) \/ ConfigureLocalVerification(p)
             \/ \E o \in Obligations : BeginVerification(p, o)
             \/ RunCheck(p)
             \/ \E cmd \in {"EVIDENCE_SET", "EVALUATE"} : BeginObservation(p, cmd)
             \/ EvaluateAcceptance(p)
             \/ \E cmd \in {"CLOSE", "REPAIR"}, d \in decisions : BeginConsumption(p, cmd, d)
             \/ BeginResume(p) \/ AbandonCommand(p) \/ Crash(p)
      PROVE  UNCHANGED Consumed
  BY <1>5 DEF BeginFreeze, SecondReading, ConfigureLocalVerification, BeginVerification, RunCheck,
              BeginObservation, EvaluateAcceptance, BeginConsumption, BeginResume, AbandonCommand,
              Crash, Observed, store, Consumed
<1>6. ASSUME NEW d \in Digests, SourceChange(d) PROVE UNCHANGED Consumed
  BY <1>6 DEF SourceChange, store, Consumed
<1> QED BY <1>1, <1>2, <1>3, <1>4, <1>5, <1>6 DEF Next

(* What a command read and its commit relies on is unchanged whenever the      *)
(* version is: no writer forgets to advance it.                                *)
THEOREM VersionCorrect == Spec => OneVersionPerChange
<1>1. Core /\ [Next]_vars => [Consumed' # Consumed => wf'.version = wf.version + 1]_vars
  BY VersionStep
<1> QED BY <1>1, CoreInvariant, PTL DEF Spec, OneVersionPerChange, Consumed

-----------------------------------------------------------------------------
(* The lineage of the Candidate *)

LEMMA FinishWorkflow ==
  ASSUME Core, NEW status, NEW failure, NEW s \in RunStatuses, FinishAttempt(status, failure, s)
  PROVE  /\ wf'.gen = wf.gen /\ wf'.phase = wf.phase
         /\ wf'.status = s /\ wf'.attempt = None
  BY DEF FinishAttempt, Advance, Core, TypeOK, Workflow

LEMMA LineageStart ==
  ASSUME Core, CandidateLineage, UNCHANGED gens, wf'.gen = wf.gen, wf'.phase = wf.phase,
         wf.status \in {"FAILED", "CANCELLED"} => wf'.status \in {"FAILED", "CANCELLED"}
  PROVE  CandidateLineage'
  BY DEF CandidateLineage, ActiveState

LEMMA LineageInvalidate ==
  ASSUME Core, CandidateLineage, wf.gen \in Generations, Invalidate(wf.gen),
         wf.phase \in {"SOURCE_FREEZE", "EVIDENCE_BUILD", "FINAL_VERIFY"},
         wf'.gen = wf.gen, wf'.phase = wf.phase, wf'.status = "FAILED"
  PROVE  CandidateLineage'
  BY DEF Core, TypeOK, CandidateLineage, ActiveState, Invalidate, PhaseStates

LEMMA LineageStep == ASSUME Core, CandidateLineage, Next PROVE CandidateLineage'
<1> USE DEF Core
<1>1. ASSUME NEW a \in Attempts, StartGoal(a) \/ \E p \in Procs : BeginAttempt(p, a)
      PROVE  CandidateLineage'
  BY <1>1, LineageStart DEF StartGoal, BeginAttempt, Start, Advance, TypeOK, Workflow
<1>2. ASSUME \/ RecordAttemptResult \/ \E f \in FailureClasses : RecordAttemptFailure(f)
             \/ \E s \in {"READY", "BLOCKED"} : InterruptAttempt(s)
             \/ StartupRecovery \/ CancelGoal
      PROVE  CandidateLineage'
  <2>1. CASE CancelGoal
    BY <2>1, LineageStart DEF CancelGoal, Advance, TypeOK, Workflow
  <2>2. ASSUME \/ RecordAttemptResult \/ \E f \in FailureClasses : RecordAttemptFailure(f)
               \/ \E s \in {"READY", "BLOCKED"} : InterruptAttempt(s)
               \/ StartupRecovery
        PROVE  CandidateLineage'
    <3>1. wf'.gen = wf.gen /\ wf'.phase = wf.phase
      BY <2>2, FinishWorkflow
         DEF RecordAttemptResult, RecordAttemptFailure, InterruptAttempt, StartupRecovery,
             ResultingRunStatus, RunStatuses
    <3>2. UNCHANGED gens /\ wf.status = "RUNNING"
      BY <2>2 DEF RecordAttemptResult, RecordAttemptFailure, InterruptAttempt, StartupRecovery
    <3> QED BY <3>1, <3>2, LineageStart
  <2> QED BY <1>2, <2>1, <2>2
<1>3. CASE BeginPlanning
  BY <1>3 DEF BeginPlanning, EnterPhase, Advance, Ready, TypeOK, Workflow, CandidateLineage,
              ActiveState
<1>4. ASSUME NEW g \in Generations, NEW d \in Digests, PrepareCandidate(g, d)
      PROVE  CandidateLineage'
  BY <1>4 DEF PrepareCandidate, PrepareGeneration, Advance, Ready, TypeOK, Workflow,
              CandidateLineage, ActiveState, PhaseStates
<1>5. CASE BeginCandidateFreeze
  BY <1>5 DEF BeginCandidateFreeze, EnterPhase, Advance, Ready, TypeOK, Workflow, Generation,
              CandidateLineage, ActiveState, PhaseStates
<1>6. CASE BeginEvidenceBuild
  BY <1>6 DEF BeginEvidenceBuild, EnterPhase, Advance, Ready, TypeOK, Workflow,
              CandidateLineage, ActiveState, PhaseStates
<1>7. ASSUME NEW o \in Obligations, NEW result \in Results \union {"PROTOCOL_ERROR"},
             RunVerification(o, result)
      PROVE  CandidateLineage'
  <2>1. wf'.gen = wf.gen /\ wf'.phase = wf.phase
    BY <1>7, FinishWorkflow DEF RunVerification, ResultingRunStatus, RunStatuses
  <2>2. UNCHANGED gens /\ wf.status = "RUNNING"
    BY <1>7 DEF RunVerification, OwnedAttempt
  <2> QED BY <2>1, <2>2, LineageStart
<1>8. ASSUME NEW p \in Procs, CompleteSourceFreeze(p) PROVE CandidateLineage'
  <2>1. /\ wf.gen \in Generations /\ wf.phase = "SOURCE_FREEZE"
        /\ wf'.gen = wf.gen /\ wf'.phase = wf.phase
    BY <1>8, Active, FinishWorkflow
       DEF CompleteSourceFreeze, OwnedAttempt, ResultingRunStatus, RunStatuses
  <2>2. CASE Unstable(p)
    BY <1>8, <2>1, <2>2, FinishWorkflow, LineageInvalidate
       DEF CompleteSourceFreeze, ResultingRunStatus, RunStatuses
  <2>3. CASE ~Unstable(p)
    <3>1. gens' = [gens EXCEPT ![wf.gen] = [gens[wf.gen] EXCEPT !.state = "FROZEN",
                                                               !.frozen = plan[p].second]]
      BY <1>8, <2>3 DEF CompleteSourceFreeze
    <3>2. gens'[wf.gen].state = "FROZEN"
      BY <2>1, <3>1 DEF TypeOK, Generation
    <3>3. \A g \in Generations : g # wf.gen => gens'[g] = gens[g]
      BY <2>1, <3>1 DEF TypeOK
    <3> QED BY <2>1, <3>2, <3>3 DEF CandidateLineage, ActiveState, PhaseStates
  <2> QED BY <2>2, <2>3
<1>9. ASSUME NEW p \in Procs, CompleteLocalVerification(p) PROVE CandidateLineage'
  <2>1. /\ wf.gen \in Generations /\ wf.phase = "EVIDENCE_BUILD" /\ wf.status = "RUNNING"
        /\ wf'.gen = wf.gen /\ wf'.phase = wf.phase
    BY <1>9, Active, FinishWorkflow
       DEF CompleteLocalVerification, OwnedAttempt, ResultingRunStatus, RunStatuses
  <2>2. CASE UNCHANGED gens
    BY <2>1, <2>2, LineageStart
  <2>3. CASE Invalidate(wf.gen) /\ wf'.status = "FAILED"
    BY <2>1, <2>3, LineageInvalidate
  <2>4. UNCHANGED gens \/ (Invalidate(wf.gen) /\ wf'.status = "FAILED")
    <3>1. ASSUME FinishAttempt("FAILED", "NON_RETRYABLE", ResultingRunStatus("NON_RETRYABLE"))
          PROVE  wf'.status = "FAILED"
      BY <3>1, FinishWorkflow DEF ResultingRunStatus, RunStatuses
    <3>2. \/ UNCHANGED gens
          \/ /\ Invalidate(wf.gen)
             /\ FinishAttempt("FAILED", "NON_RETRYABLE", ResultingRunStatus("NON_RETRYABLE"))
      BY <1>9 DEF CompleteLocalVerification
    <3> QED BY <3>1, <3>2
  <2> QED BY <2>2, <2>3, <2>4
<1>10. ASSUME NEW p \in Procs, CommitEvidenceSet(p) PROVE CandidateLineage'
  BY <1>10 DEF CommitEvidenceSet, Commit, Committable, Ready, EnterPhase, Advance, TypeOK,
               Workflow, CandidateLineage, ActiveState, PhaseStates
<1>11. ASSUME NEW p \in Procs, CommitIntegrityFailure(p) PROVE CandidateLineage'
  <2>1. /\ wf.gen \in Generations /\ wf.phase \in {"EVIDENCE_BUILD", "FINAL_VERIFY"}
    BY <1>11, Active DEF CommitIntegrityFailure, Committable, Ready, ObservingPhase
  <2>2. wf'.gen = wf.gen /\ wf'.phase = wf.phase /\ wf'.status = "FAILED"
    BY <1>11 DEF CommitIntegrityFailure, Advance, TypeOK, Workflow
  <2> QED BY <1>11, <2>1, <2>2, LineageInvalidate DEF CommitIntegrityFailure
<1>12. ASSUME NEW p \in Procs, CloseAcceptedGoal(p) PROVE CandidateLineage'
  <2>1. /\ wf.gen \in Generations /\ wf'.gen = wf.gen /\ wf'.phase = "CLOSEOUT"
        /\ gens' = [gens EXCEPT ![wf.gen].state = "ACCEPTED"]
    BY <1>12, Active DEF CloseAcceptedGoal, Commit, Committable, Advance, TypeOK, Workflow
  <2>2. gens'[wf.gen].state = "ACCEPTED"
    BY <2>1 DEF TypeOK, Generation
  <2> QED BY <2>1, <2>2 DEF TypeOK, CandidateLineage, ActiveState, PhaseStates
<1>13. ASSUME NEW p \in Procs, NEW g \in Generations, BeginAcceptanceRepair(p, g)
       PROVE CandidateLineage'
  <2>1. /\ wf.gen \in Generations /\ wf'.gen = g /\ wf'.phase = "IMPLEMENT"
        /\ gens' = [gens EXCEPT ![wf.gen].state = "REJECTED",
                                ![g] = PrepareGeneration(wf.gen, plan[p].first)]
    BY <1>13, Active DEF BeginAcceptanceRepair, Commit, Committable, Advance, TypeOK, Workflow
  <2>2. gens'[g].state = "MUTABLE"
    BY <2>1 DEF TypeOK, PrepareGeneration
  <2>3. wf.gen # g => gens'[wf.gen].state = "REJECTED"
    BY <2>1 DEF TypeOK, Generation
  <2>4. \A h \in Generations : h \notin {g, wf.gen} => gens'[h] = gens[h]
    BY <2>1 DEF TypeOK
  <2>5. wf.gen # g
    BY <1>13, <2>1
       DEF BeginAcceptanceRepair, Commit, Committable, ActiveState, FreshGeneration
  <2>6. \A h \in Generations \ {g} : gens'[h].state \in {"NONE", "REJECTED"}
    BY <2>3, <2>4, <2>5 DEF CandidateLineage
  <2>7. gens'[wf'.gen].state = "MUTABLE" /\ "MUTABLE" \in PhaseStates[wf'.phase]
    BY <2>1, <2>2 DEF PhaseStates
  <2>8. wf'.gen # None /\ wf'.phase \notin {"DISCOVERY", "PLAN"}
    BY <2>1
  <2> QED BY <2>1, <2>6, <2>7, <2>8 DEF CandidateLineage, ActiveState, PhaseStates
<1>14. ASSUME NEW p \in Procs, ResumeGoal(p) PROVE CandidateLineage'
  BY <1>14, LineageStart DEF ResumeGoal, RecoverableBlocker, Advance, TypeOK, Workflow
<1>15. ASSUME NEW p \in Procs,
              \/ BeginFreeze(p) \/ SecondReading(p) \/ ConfigureLocalVerification(p)
              \/ \E o \in Obligations : BeginVerification(p, o)
              \/ RunCheck(p)
              \/ \E cmd \in {"EVIDENCE_SET", "EVALUATE"} : BeginObservation(p, cmd)
              \/ EvaluateAcceptance(p)
              \/ \E cmd \in {"CLOSE", "REPAIR"}, d \in decisions : BeginConsumption(p, cmd, d)
              \/ BeginResume(p) \/ AbandonCommand(p) \/ Crash(p)
       PROVE  UNCHANGED <<wf, gens>>
  BY <1>15
     DEF BeginFreeze, SecondReading, ConfigureLocalVerification, BeginVerification, RunCheck,
         BeginObservation, EvaluateAcceptance, BeginConsumption, BeginResume, AbandonCommand,
         Crash, Observed, store
<1>16. ASSUME NEW d \in Digests, SourceChange(d) PROVE UNCHANGED <<wf, gens>>
  BY <1>16 DEF SourceChange, store
<1>17. CASE UNCHANGED <<wf, gens>>
  BY <1>17 DEF CandidateLineage, ActiveState
<1> QED
  BY <1>1, <1>2, <1>3, <1>4, <1>5, <1>6, <1>7, <1>8, <1>9, <1>10, <1>11, <1>12, <1>13, <1>14,
     <1>15, <1>16, <1>17 DEF Next

LEMMA LineageInit == Init => CandidateLineage
  BY DEF Init, CandidateLineage, ActiveState

(* The phase and the active generation agree, an invalidated generation has    *)
(* stopped the workflow, and at most one generation is alive.                  *)
THEOREM LineageCorrect == Spec => []CandidateLineage
<1>1. Core /\ CandidateLineage /\ [Next]_vars => CandidateLineage'
  <2>1. ASSUME CandidateLineage, UNCHANGED vars PROVE CandidateLineage'
    BY <2>1 DEF vars, CandidateLineage, ActiveState
  <2> QED BY <2>1, LineageStep
<1> QED BY <1>1, LineageInit, CoreInvariant, PTL DEF Spec

-----------------------------------------------------------------------------
(* The retry boundary *)

(* What RetryBoundary needs of the history: no version ends two failed        *)
(* Attempts, the owned Attempt is the latest one, and while a transient       *)
(* failure blocks the workflow nothing was committed or reconciled since.     *)
Recorded ==
  /\ reconciled <= wf.version
  /\ \A a \in Attempts :
       /\ attempts[a].ended <= wf.version
       /\ attempts[a].failure # None => attempts[a].status = "FAILED"
LatestOwned ==
  wf.attempt # None => \A b \in Attempts : b > wf.attempt => attempts[b].status = "NONE"
OneFailurePerVersion ==
  \A a, b \in Attempts :
    attempts[a].failure # None /\ attempts[b].failure # None
      /\ attempts[a].ended = attempts[b].ended => a = b
TransientIsLast ==
  \A a \in Attempts :
    attempts[a].failure = "TRANSIENT" /\ wf.status = "BLOCKED" =>
      wf.version = attempts[a].ended /\ reconciled < attempts[a].ended

Boundary == Recorded /\ LatestOwned /\ OneFailurePerVersion /\ TransientIsLast /\ RetryBoundary

(* How an Attempt can end. *)
Ending(status, failure, runStatus) ==
  \/ status = "RESULT_RECORDED" /\ failure = None /\ runStatus = "READY"
  \/ status = "INTERRUPTED" /\ failure = None /\ runStatus \in {"READY", "BLOCKED"}
  \/ status = "FAILED" /\ failure \in FailureClasses /\ runStatus = ResultingRunStatus(failure)

AttemptEnds ==
  /\ wf.status = "RUNNING"
  /\ \E status, failure, runStatus :
       /\ Ending(status, failure, runStatus) /\ FinishAttempt(status, failure, runStatus)
       /\ reconciled' = reconciled \/ (failure = None /\ reconciled' = wf.version + 1)

(* Moving on while no Attempt runs and nothing blocks. *)
MovedOn ==
  /\ wf.status = "READY" /\ wf'.status \in {"READY", "FAILED", "CLOSED"}
  /\ wf'.version = wf.version + 1 /\ wf'.attempt = wf.attempt
  /\ UNCHANGED <<attempts, reconciled>>

LEMMA AttemptForm ==
  ASSUME Core, Next
  PROVE  \/ \E a \in Attempts : /\ wf.status = "READY" /\ FreshAttempt(a) /\ Start(a)
                                /\ UNCHANGED reconciled
         \/ AttemptEnds \/ CancelGoal \/ MovedOn
         \/ \E p \in Procs : ResumeGoal(p)
         \/ UNCHANGED <<wf, attempts, reconciled>>
<1> USE DEF Core
<1>1. CASE RecordAttemptResult \/ StartupRecovery \/
           \E s \in {"READY", "BLOCKED"} : InterruptAttempt(s)
  <2>1. PICK status \in {"RESULT_RECORDED", "INTERRUPTED"}, s \in {"READY", "BLOCKED"} :
          FinishAttempt(status, None, s) /\ (status = "RESULT_RECORDED" => s = "READY")
    BY <1>1 DEF RecordAttemptResult, InterruptAttempt, StartupRecovery
  <2>2. wf.status = "RUNNING" /\ (reconciled' = reconciled \/ reconciled' = wf.version + 1)
    BY <1>1 DEF RecordAttemptResult, InterruptAttempt, StartupRecovery
  <2> QED BY <2>1, <2>2 DEF AttemptEnds, Ending
<1>2. ASSUME NEW failure \in FailureClasses, wf.status = "RUNNING", UNCHANGED reconciled,
             FinishAttempt("FAILED", failure, ResultingRunStatus(failure))
      PROVE  AttemptEnds
  BY <1>2 DEF AttemptEnds, Ending
<1>3. ASSUME wf.status = "RUNNING", UNCHANGED reconciled,
             FinishAttempt("RESULT_RECORDED", None, "READY")
      PROVE  AttemptEnds
  BY <1>3 DEF AttemptEnds, Ending
<1>4. ASSUME NEW failure \in FailureClasses, RecordAttemptFailure(failure) PROVE AttemptEnds
  BY <1>2, <1>4 DEF RecordAttemptFailure
<1>5. ASSUME NEW o \in Obligations, NEW result \in Results \union {"PROTOCOL_ERROR"},
             RunVerification(o, result)
      PROVE  AttemptEnds
  BY <1>2, <1>3, <1>5 DEF RunVerification, OwnedAttempt, FailureClasses
<1>6. ASSUME NEW p \in Procs, CompleteSourceFreeze(p) PROVE AttemptEnds
  BY <1>2, <1>3, <1>6 DEF CompleteSourceFreeze, OwnedAttempt, FailureClasses
<1>7. ASSUME NEW p \in Procs, CompleteLocalVerification(p) PROVE AttemptEnds
  BY <1>2, <1>3, <1>7 DEF CompleteLocalVerification, OwnedAttempt, FailureClasses
<1>8. CASE BeginPlanning \/ BeginEvidenceBuild \/ BeginCandidateFreeze
  <2>1. wf.status = "READY" /\ UNCHANGED <<attempts, reconciled>>
    BY <1>8 DEF BeginPlanning, BeginEvidenceBuild, BeginCandidateFreeze, Ready
  <2>2. wf'.status = wf.status /\ wf'.attempt = wf.attempt /\ wf'.version = wf.version + 1
    BY <1>8 DEF BeginPlanning, BeginEvidenceBuild, BeginCandidateFreeze, EnterPhase, Advance,
                TypeOK, Workflow
  <2> QED BY <2>1, <2>2 DEF MovedOn
<1>9. ASSUME NEW g \in Generations, NEW d \in Digests, PrepareCandidate(g, d) PROVE MovedOn
  BY <1>9 DEF PrepareCandidate, Ready, Advance, TypeOK, Workflow, MovedOn
<1>10. ASSUME NEW p \in Procs, CommitEvidenceSet(p) PROVE MovedOn
  BY <1>10 DEF CommitEvidenceSet, Commit, Committable, Ready, EnterPhase, Advance, TypeOK,
               Workflow, MovedOn
<1>11. ASSUME NEW p \in Procs, CommitIntegrityFailure(p) PROVE MovedOn
  BY <1>11 DEF CommitIntegrityFailure, Committable, Ready, Advance, TypeOK, Workflow, MovedOn
<1>12. ASSUME NEW p \in Procs, CloseAcceptedGoal(p) PROVE MovedOn
  BY <1>12 DEF CloseAcceptedGoal, Commit, Committable, Ready, Advance, TypeOK, Workflow, MovedOn
<1>13. ASSUME NEW p \in Procs, NEW g \in Generations, BeginAcceptanceRepair(p, g) PROVE MovedOn
  BY <1>13 DEF BeginAcceptanceRepair, Commit, Committable, Ready, Advance, TypeOK, Workflow,
               MovedOn
<1>14. ASSUME NEW a \in Attempts, StartGoal(a) \/ \E p \in Procs : BeginAttempt(p, a)
       PROVE  wf.status = "READY" /\ FreshAttempt(a) /\ Start(a) /\ UNCHANGED reconciled
  BY <1>14 DEF StartGoal, BeginAttempt
<1>15. ASSUME NEW p \in Procs,
              \/ BeginFreeze(p) \/ SecondReading(p) \/ ConfigureLocalVerification(p)
              \/ \E o \in Obligations : BeginVerification(p, o)
              \/ RunCheck(p)
              \/ \E cmd \in {"EVIDENCE_SET", "EVALUATE"} : BeginObservation(p, cmd)
              \/ EvaluateAcceptance(p)
              \/ \E cmd \in {"CLOSE", "REPAIR"}, d \in decisions : BeginConsumption(p, cmd, d)
              \/ BeginResume(p) \/ AbandonCommand(p) \/ Crash(p)
       PROVE  UNCHANGED <<wf, attempts, reconciled>>
  BY <1>15
     DEF BeginFreeze, SecondReading, ConfigureLocalVerification, BeginVerification, RunCheck,
         BeginObservation, EvaluateAcceptance, BeginConsumption, BeginResume, AbandonCommand,
         Crash, Observed, store
<1>16. ASSUME NEW d \in Digests, SourceChange(d) PROVE UNCHANGED <<wf, attempts, reconciled>>
  BY <1>16 DEF SourceChange, store
<1> QED
  BY <1>1, <1>4, <1>5, <1>6, <1>7, <1>8, <1>9, <1>10, <1>11, <1>12, <1>13, <1>14, <1>15, <1>16
     DEF Next

LEMMA Numbers ==
  ASSUME TypeOK
  PROVE  /\ wf.version \in Nat /\ reconciled \in Nat
         /\ \A a \in Attempts : a \in Nat /\ attempts[a] \in Attempt /\ attempts[a].ended \in Nat
  BY DEF TypeOK, Workflow, Attempt

\* A READY workflow has only failures behind it that were reconciled.
LEMMA ReadyReconciled ==
  ASSUME RetryBoundary, wf.status \in {"READY", "RUNNING"}, NEW a \in Attempts,
         attempts[a].failure \in FailureClasses
  PROVE  attempts[a].failure = "RECONCILE_FIRST" /\ reconciled > attempts[a].ended
  BY DEF RetryBoundary, FailureClasses

LEMMA BoundaryStep == ASSUME Core, Boundary, Next PROVE Boundary'
<1> USE DEF Core
<1>1. /\ wf.version \in Nat /\ reconciled \in Nat
      /\ \A a \in Attempts : a \in Nat /\ attempts[a] \in Attempt /\ attempts[a].ended \in Nat
      /\ \A a \in Attempts : attempts[a].failure \in FailureClasses \union {None}
  BY Numbers DEF Attempt
<1>2. ASSUME NEW a \in Attempts, wf.status = "READY", FreshAttempt(a), Start(a),
             UNCHANGED reconciled
      PROVE  Boundary'
  <2>1. wf'.version = wf.version + 1 /\ wf'.status = "RUNNING" /\ wf'.attempt = a
    BY <1>2 DEF Start, Advance, TypeOK, Workflow
  <2>2. /\ \A b \in Attempts : attempts'[b].failure = attempts[b].failure
                               /\ attempts'[b].ended = attempts[b].ended
        /\ \A b \in Attempts \ {a} : attempts'[b].status = attempts[b].status
    BY <1>1, <1>2 DEF Start, TypeOK, Attempt
  <2>3. attempts[a].status = "NONE" /\ \A b \in Attempts : b > a => attempts[b].status = "NONE"
    BY <1>1, <1>2 DEF FreshAttempt
  <2>4. Recorded'
    BY <1>1, <1>2, <2>1, <2>2, <2>3 DEF Boundary, Recorded
  <2>5. LatestOwned' /\ OneFailurePerVersion' /\ TransientIsLast'
    BY <1>1, <2>1, <2>2, <2>3
       DEF Boundary, LatestOwned, OneFailurePerVersion, TransientIsLast
  <2>6. RetryBoundary'
    <3> SUFFICES ASSUME NEW b \in Attempts, attempts'[b].failure \in FailureClasses
                 PROVE  attempts'[b].failure = "RECONCILE_FIRST"
                        /\ reconciled' > attempts'[b].ended
      BY DEF RetryBoundary, FailureClasses
    <3> QED BY <1>2, <2>2, ReadyReconciled DEF Boundary
  <2> QED BY <2>4, <2>5, <2>6 DEF Boundary
<1>3. CASE AttemptEnds
  <2>1. PICK status, failure, runStatus :
          /\ Ending(status, failure, runStatus) /\ FinishAttempt(status, failure, runStatus)
          /\ reconciled' = reconciled \/ (failure = None /\ reconciled' = wf.version + 1)
    BY <1>3 DEF AttemptEnds
  <2> DEFINE o == wf.attempt
  <2>2. wf.status = "RUNNING" /\ o \in Attempts /\ reconciled' \in {reconciled, wf.version + 1}
    BY <1>3, <2>1, Owner DEF AttemptEnds
  <2>3. runStatus \in RunStatuses /\ runStatus \notin {"RUNNING", "CANCELLED"}
    BY <2>1 DEF Ending, ResultingRunStatus, RunStatuses
  <2>4. wf'.version = wf.version + 1 /\ wf'.status = runStatus /\ wf'.attempt = None
    BY <2>1, <2>3, FinishVersion, FinishWorkflow
  <2>5. /\ \A b \in Attempts \ {o} : attempts'[b] = attempts[b]
        /\ attempts'[o].status = status /\ attempts'[o].failure = failure
        /\ attempts'[o].ended = wf.version + 1
    BY <1>1, <2>1, <2>2 DEF FinishAttempt, TypeOK, Attempt
  <2> HIDE DEF o
  <2>6. \A b \in Attempts : b > o => attempts[b].status = "NONE"
    BY <2>2 DEF Boundary, LatestOwned, AuthorityCoherent, o
  <2>7. Recorded'
    <3>1. \A b \in Attempts : attempts'[b].ended <= wf'.version
      BY <1>1, <2>2, <2>4, <2>5 DEF Boundary, Recorded
    <3>2. \A b \in Attempts : attempts'[b].failure # None => attempts'[b].status = "FAILED"
      BY <2>1, <2>2, <2>5 DEF Boundary, Recorded, Ending
    <3>3. reconciled' <= wf'.version
      BY <1>1, <2>2, <2>4 DEF Boundary, Recorded
    <3> QED BY <3>1, <3>2, <3>3 DEF Recorded
  <2>8. \A b \in Attempts \ {o} : attempts'[b].failure \in FailureClasses =>
          attempts'[b].failure = "RECONCILE_FIRST" /\ reconciled' > attempts'[b].ended
    <3> SUFFICES ASSUME NEW b \in Attempts \ {o}, attempts[b].failure \in FailureClasses
                 PROVE  attempts[b].failure = "RECONCILE_FIRST" /\ reconciled' > attempts[b].ended
      BY <2>5
    <3>1. attempts[b].failure = "RECONCILE_FIRST" /\ reconciled > attempts[b].ended
      BY <2>2, ReadyReconciled DEF Boundary
    <3>2. reconciled' >= reconciled
      BY <1>1, <2>2 DEF Boundary, Recorded
    <3>3. reconciled \in Nat /\ reconciled' \in Nat /\ attempts[b].ended \in Nat
      BY <1>1, <2>2
    <3>4. \A x, y, z \in Nat : y > x /\ z >= y => z > x
      OBVIOUS
    <3>5. reconciled' > attempts[b].ended
      BY <3>1, <3>2, <3>3, <3>4
    <3> QED BY <3>1, <3>5
  <2>9. \A b \in Attempts \ {o} : attempts'[b].ended < attempts'[o].ended
    BY <1>1, <2>5 DEF Boundary, Recorded
  <2>10. LatestOwned'
    BY <2>4 DEF LatestOwned
  <2>11. OneFailurePerVersion'
    BY <1>1, <2>2, <2>5, <2>9 DEF Boundary, OneFailurePerVersion
  <2>12. TransientIsLast'
    <3> SUFFICES ASSUME NEW a \in Attempts, attempts'[a].failure = "TRANSIENT"
                 PROVE  wf'.version = attempts'[a].ended /\ reconciled' < attempts'[a].ended
      BY DEF TransientIsLast
    <3>1. a = o /\ failure # None
      BY <2>5, <2>8 DEF FailureClasses
    <3>2. reconciled' = reconciled /\ reconciled <= wf.version
      BY <2>1, <3>1 DEF Boundary, Recorded
    <3> QED BY <1>1, <2>4, <2>5, <3>1, <3>2
  <2>13. RetryBoundary'
    <3> SUFFICES ASSUME NEW a \in Attempts, attempts'[a].failure \in FailureClasses
                 PROVE  /\ attempts'[a].failure = "TRANSIENT" =>
                             /\ wf'.status = "BLOCKED"
                             /\ \A b \in Attempts : b > a => attempts'[b].status = "NONE"
                        /\ attempts'[a].failure = "NON_RETRYABLE" => wf'.status = "FAILED"
                        /\ attempts'[a].failure = "RECONCILE_FIRST" =>
                             wf'.status = "BLOCKED" \/ reconciled' > attempts'[a].ended
      BY DEF RetryBoundary, FailureClasses
    <3>1. CASE a # o
      <4>1. attempts'[a].failure = "RECONCILE_FIRST" /\ reconciled' > attempts'[a].ended
        BY <2>8, <3>1
      <4> QED BY <4>1
    <3>2. CASE a = o
      <4>1. failure \in FailureClasses /\ wf'.status = ResultingRunStatus(failure)
        BY <2>1, <2>4, <2>5, <3>2 DEF Ending
      <4>2. ASSUME NEW b \in Attempts, b > a PROVE attempts'[b].status = "NONE"
        <5>1. b # o
          BY <1>1, <2>2, <3>2, <4>2
        <5>2. attempts[b].status = "NONE"
          BY <2>6, <3>2, <4>2
        <5> QED BY <2>5, <5>1, <5>2
      <4> QED BY <2>5, <3>2, <4>1, <4>2 DEF ResultingRunStatus
    <3> QED BY <3>1, <3>2
  <2> QED BY <2>7, <2>10, <2>11, <2>12, <2>13 DEF Boundary
<1>4. CASE CancelGoal
  <2>1. /\ wf'.version = wf.version + 1 /\ wf'.status = "CANCELLED" /\ wf'.attempt = None
        /\ UNCHANGED reconciled
    BY <1>4 DEF CancelGoal, Advance, TypeOK, Workflow
  <2>2. wf.status = "RUNNING" => wf.attempt \in Attempts /\ attempts[wf.attempt].status = "RUNNING"
    BY Owner DEF AuthorityCoherent
  <2>3. ASSUME NEW a \in Attempts
        PROVE  /\ attempts'[a].failure = attempts[a].failure
               /\ attempts'[a].ended \in {attempts[a].ended, wf.version + 1}
               /\ attempts[a].failure # None => attempts'[a] = attempts[a]
               /\ attempts[a].status = "NONE" => attempts'[a].status = "NONE"
    <3>1. CASE wf.status = "RUNNING" /\ a = wf.attempt
      <4>1. attempts'[a] = [attempts[a] EXCEPT !.status = "INTERRUPTED", !.ended = wf.version + 1]
        BY <1>4, <3>1 DEF CancelGoal, TypeOK
      <4>2. attempts[a].failure = None /\ attempts[a].status # "NONE"
        BY <2>2, <3>1 DEF Boundary, Recorded
      <4> QED BY <1>1, <4>1, <4>2 DEF Attempt
    <3>2. CASE ~(wf.status = "RUNNING" /\ a = wf.attempt)
      BY <1>4, <2>2, <3>2 DEF CancelGoal, TypeOK
    <3> QED BY <3>1, <3>2
  <2>4. Recorded'
    BY <1>1, <2>1, <2>3 DEF Boundary, Recorded
  <2>5. LatestOwned' /\ OneFailurePerVersion' /\ TransientIsLast'
    BY <2>1, <2>3 DEF Boundary, LatestOwned, OneFailurePerVersion, TransientIsLast
  <2>6. RetryBoundary'
    <3>1. \A a \in Attempts : attempts[a].failure = "TRANSIENT" =>
            \A b \in Attempts : b > a => attempts[b].status = "NONE"
      BY DEF Boundary, RetryBoundary
    <3> QED BY <2>1, <2>3, <3>1 DEF RetryBoundary
  <2> QED BY <2>4, <2>5, <2>6 DEF Boundary
<1>5. CASE MovedOn
  <2>1. \A a \in Attempts : attempts[a].failure \in FailureClasses =>
          attempts[a].failure = "RECONCILE_FIRST" /\ reconciled > attempts[a].ended
    BY <1>5, ReadyReconciled DEF Boundary, MovedOn
  <2>2. wf'.version = wf.version + 1 /\ wf'.attempt = wf.attempt /\ UNCHANGED <<attempts, reconciled>>
    BY <1>5 DEF MovedOn
  <2>3. Recorded' /\ LatestOwned' /\ OneFailurePerVersion'
    BY <1>1, <2>2 DEF Boundary, Recorded, LatestOwned, OneFailurePerVersion
  <2>4. TransientIsLast' /\ RetryBoundary'
    BY <2>1, <2>2 DEF TransientIsLast, RetryBoundary, FailureClasses
  <2> QED BY <2>3, <2>4 DEF Boundary
<1>6. ASSUME NEW p \in Procs, ResumeGoal(p) PROVE Boundary'
  <2>1. /\ wf.status = "BLOCKED" /\ RecoverableBlocker /\ UNCHANGED attempts
        /\ reconciled' = wf.version + 1
    BY <1>6 DEF ResumeGoal, RecoverableBlocker
  <2>2. wf'.version = wf.version + 1 /\ wf'.attempt = wf.attempt
    BY <1>6 DEF ResumeGoal, Advance, TypeOK, Workflow
  <2>3. ASSUME NEW a \in Attempts, attempts[a].failure \in FailureClasses
        PROVE  attempts[a].failure = "RECONCILE_FIRST"
    <3>1. attempts[a].failure # "NON_RETRYABLE"
      BY <2>1 DEF Boundary, RetryBoundary
    <3>2. ASSUME attempts[a].failure = "TRANSIENT" PROVE FALSE
      <4>1. wf.version = attempts[a].ended /\ reconciled # wf.version
        BY <1>1, <2>1, <3>2 DEF Boundary, TransientIsLast
      <4>2. PICK b \in Attempts : attempts[b].failure = "RECONCILE_FIRST"
                                  /\ attempts[b].ended = wf.version
        BY <2>1, <4>1 DEF RecoverableBlocker
      <4>3. a = b
        BY <2>3, <4>1, <4>2 DEF Boundary, OneFailurePerVersion, FailureClasses
      <4> QED BY <3>2, <4>2, <4>3
    <3> QED BY <2>3, <3>1, <3>2 DEF FailureClasses
  <2>4. \A a \in Attempts : reconciled' > attempts'[a].ended
    BY <1>1, <2>1 DEF Boundary, Recorded
  <2>5. Recorded' /\ LatestOwned' /\ OneFailurePerVersion'
    BY <1>1, <2>1, <2>2 DEF Boundary, Recorded, LatestOwned, OneFailurePerVersion
  <2>6. TransientIsLast' /\ RetryBoundary'
    BY <2>1, <2>3, <2>4 DEF TransientIsLast, RetryBoundary, FailureClasses
  <2> QED BY <2>5, <2>6 DEF Boundary
<1>7. CASE UNCHANGED <<wf, attempts, reconciled>>
  BY <1>7 DEF Boundary, Recorded, LatestOwned, OneFailurePerVersion, TransientIsLast, RetryBoundary
<1> QED BY <1>2, <1>3, <1>4, <1>5, <1>6, <1>7, AttemptForm

LEMMA BoundaryInit == ASSUME Init PROVE Boundary
<1>1. /\ \A a \in Attempts : attempts[a].failure = None /\ attempts[a].ended = 0
      /\ wf.version = 1 /\ wf.attempt = None /\ reconciled = 0
  BY DEF Init
<1>2. Recorded /\ LatestOwned
  BY <1>1 DEF Recorded, LatestOwned
<1>3. None \notin {"TRANSIENT", "NON_RETRYABLE", "RECONCILE_FIRST"}
  BY NoneAssumption DEF FailureClasses
<1>4. OneFailurePerVersion /\ TransientIsLast /\ RetryBoundary
  BY <1>1, <1>3 DEF OneFailurePerVersion, TransientIsLast, RetryBoundary
<1> QED BY <1>2, <1>4 DEF Boundary

LEMMA BoundaryInvariant == Spec => []Boundary
<1>1. Core /\ Boundary /\ [Next]_vars => Boundary'
  <2>1. ASSUME Boundary, UNCHANGED vars PROVE Boundary'
    BY <2>1 DEF vars, Boundary, Recorded, LatestOwned, OneFailurePerVersion, TransientIsLast,
                RetryBoundary
  <2> QED BY <2>1, BoundaryStep
<1> QED BY <1>1, BoundaryInit, CoreInvariant, PTL DEF Spec

(* Whatever order failures, interruptions, recoveries and resumptions come in, *)
(* nothing is retried after a transient or non-retryable failure, and after a  *)
(* reconcile-first one only past a reconciliation of a later version.          *)
THEOREM RetryCorrect == Spec => []RetryBoundary
<1>1. Boundary => RetryBoundary
  BY DEF Boundary
<1> QED BY <1>1, BoundaryInvariant, PTL

-----------------------------------------------------------------------------
(* Life cycles *)

AttemptMove(r, s) ==
  \/ s = r
  \/ r.status = "NONE" /\ s.status = "RUNNING"
  \/ /\ r.status = "RUNNING" /\ s.status \in {"RESULT_RECORDED", "FAILED", "INTERRUPTED"}
     /\ s.phase = r.phase

GenerationMove(r, s) ==
  \/ s = r
  \/ r.state = "NONE" /\ s.state = "MUTABLE" /\ s.frozen = None
  \/ r.state = "MUTABLE" /\ s.state = "FREEZING" /\ s.frozen = r.frozen
  \/ r.state = "FREEZING" /\ s.state = "FROZEN"
  \/ r.state \in {"FREEZING", "FROZEN"} /\ s.state = "INVALIDATED" /\ s.frozen = r.frozen
  \/ r.state = "FROZEN" /\ s.state \in {"REJECTED", "ACCEPTED"} /\ s.frozen = r.frozen

AttemptsMove == \A a \in Attempts : AttemptMove(attempts[a], attempts'[a])
GenerationsMove == \A g \in Generations : GenerationMove(gens[g], gens'[g])

LEMMA StartMove ==
  ASSUME Core, NEW a \in Attempts, FreshAttempt(a), Start(a) PROVE AttemptsMove
  BY DEF Core, TypeOK, Attempt, FreshAttempt, Start, AttemptsMove, AttemptMove

LEMMA FinishMove ==
  ASSUME Core, wf.status = "RUNNING", NEW failure, NEW runStatus,
         NEW status \in {"RESULT_RECORDED", "FAILED", "INTERRUPTED"},
         FinishAttempt(status, failure, runStatus)
  PROVE  /\ AttemptsMove
         /\ attempts[wf.attempt].status = "RUNNING" /\ attempts[wf.attempt].phase = wf.phase
         /\ attempts'[wf.attempt].status = status /\ attempts'[wf.attempt].phase = wf.phase
<1>1. wf.attempt \in Attempts /\ attempts[wf.attempt] \in Attempt
  BY Owner DEF Core, TypeOK
<1>2. attempts[wf.attempt].status = "RUNNING" /\ attempts[wf.attempt].phase = wf.phase
  BY <1>1 DEF Core, AuthorityCoherent
<1>3. attempts' = [attempts EXCEPT ![wf.attempt] =
                     [attempts[wf.attempt] EXCEPT !.status = status, !.failure = failure,
                                                  !.ended = wf.version + 1]]
  BY DEF FinishAttempt
<1>4. attempts'[wf.attempt].status = status /\ attempts'[wf.attempt].phase = wf.phase
  BY <1>1, <1>2, <1>3 DEF Core, TypeOK, Attempt
<1>5. \A a \in Attempts : a # wf.attempt => attempts'[a] = attempts[a]
  BY <1>1, <1>3 DEF Core, TypeOK
<1> QED BY <1>1, <1>2, <1>4, <1>5 DEF AttemptsMove, AttemptMove

LEMMA AttemptStep == ASSUME Core, Next PROVE AttemptsMove
<1> USE DEF Core
<1>1. ASSUME NEW a \in Attempts, StartGoal(a) \/ \E p \in Procs : BeginAttempt(p, a)
      PROVE  AttemptsMove
  BY <1>1, StartMove DEF StartGoal, BeginAttempt
<1>2. ASSUME \/ RecordAttemptResult \/ \E f \in FailureClasses : RecordAttemptFailure(f)
             \/ \E s \in {"READY", "BLOCKED"} : InterruptAttempt(s)
             \/ StartupRecovery
      PROVE  AttemptsMove
  BY <1>2, FinishMove
     DEF RecordAttemptResult, RecordAttemptFailure, InterruptAttempt, StartupRecovery
<1>3. CASE CancelGoal
  <2>1. CASE wf.status = "RUNNING"
    <3>1. wf.attempt \in Attempts /\ attempts[wf.attempt].status = "RUNNING"
      BY <2>1, Owner DEF AuthorityCoherent
    <3>2. attempts' = [attempts EXCEPT ![wf.attempt] =
                         [attempts[wf.attempt] EXCEPT !.status = "INTERRUPTED",
                                                      !.ended = wf.version + 1]]
      BY <1>3, <2>1 DEF CancelGoal
    <3>3. /\ attempts'[wf.attempt].status = "INTERRUPTED"
          /\ attempts'[wf.attempt].phase = attempts[wf.attempt].phase
      BY <3>1, <3>2 DEF TypeOK, Attempt
    <3>4. \A a \in Attempts : a # wf.attempt => attempts'[a] = attempts[a]
      BY <3>1, <3>2 DEF TypeOK
    <3> QED BY <3>1, <3>3, <3>4 DEF AttemptsMove, AttemptMove
  <2>2. CASE wf.status # "RUNNING"
    BY <1>3, <2>2 DEF CancelGoal, AttemptsMove, AttemptMove
  <2> QED BY <2>1, <2>2
<1>4. ASSUME NEW o \in Obligations, NEW result \in Results \union {"PROTOCOL_ERROR"},
             RunVerification(o, result)
      PROVE  AttemptsMove
  BY <1>4, FinishMove DEF RunVerification, OwnedAttempt
<1>5. ASSUME NEW p \in Procs, CompleteSourceFreeze(p) PROVE AttemptsMove
  BY <1>5, FinishMove DEF CompleteSourceFreeze, OwnedAttempt
<1>6. ASSUME NEW p \in Procs, CompleteLocalVerification(p) PROVE AttemptsMove
  BY <1>6, FinishMove DEF CompleteLocalVerification, OwnedAttempt
<1>7. ASSUME \/ BeginPlanning \/ BeginEvidenceBuild \/ BeginCandidateFreeze
             \/ \E g \in Generations, d \in Digests : PrepareCandidate(g, d)
             \/ \E d \in Digests : SourceChange(d)
      PROVE  UNCHANGED attempts
  BY <1>7 DEF BeginPlanning, BeginEvidenceBuild, BeginCandidateFreeze, PrepareCandidate,
              SourceChange, store
<1>8. ASSUME NEW p \in Procs,
             \/ BeginFreeze(p) \/ SecondReading(p) \/ ConfigureLocalVerification(p)
             \/ \E o \in Obligations : BeginVerification(p, o)
             \/ RunCheck(p)
             \/ \E cmd \in {"EVIDENCE_SET", "EVALUATE"} : BeginObservation(p, cmd)
             \/ EvaluateAcceptance(p)
             \/ \E cmd \in {"CLOSE", "REPAIR"}, d \in decisions : BeginConsumption(p, cmd, d)
             \/ BeginResume(p) \/ AbandonCommand(p) \/ Crash(p)
      PROVE  UNCHANGED attempts
  BY <1>8
     DEF BeginFreeze, SecondReading, ConfigureLocalVerification, BeginVerification, RunCheck,
         BeginObservation, EvaluateAcceptance, BeginConsumption, BeginResume, AbandonCommand,
         Crash, Observed, store
<1>9. ASSUME NEW p \in Procs,
             \/ CommitEvidenceSet(p) \/ CommitIntegrityFailure(p) \/ CloseAcceptedGoal(p)
             \/ \E g \in Generations : BeginAcceptanceRepair(p, g)
             \/ ResumeGoal(p)
      PROVE  UNCHANGED attempts
  BY <1>9 DEF CommitEvidenceSet, CommitIntegrityFailure, CloseAcceptedGoal,
              BeginAcceptanceRepair, ResumeGoal
<1>10. CASE UNCHANGED attempts
  BY <1>10 DEF AttemptsMove, AttemptMove
<1> QED
  BY <1>1, <1>2, <1>3, <1>4, <1>5, <1>6, <1>7, <1>8, <1>9, <1>10 DEF Next

LEMMA InvalidateMove ==
  ASSUME Core, wf.gen \in Generations, gens[wf.gen].state \in {"FREEZING", "FROZEN"},
         Invalidate(wf.gen)
  PROVE  GenerationsMove
<1>1. gens' = [gens EXCEPT ![wf.gen].state = "INVALIDATED"]
  BY DEF Invalidate
<1>2. gens'[wf.gen].state = "INVALIDATED" /\ gens'[wf.gen].frozen = gens[wf.gen].frozen
  BY <1>1 DEF Core, TypeOK, Generation
<1>3. \A g \in Generations : g # wf.gen => gens'[g] = gens[g]
  BY <1>1 DEF Core, TypeOK
<1> QED BY <1>2, <1>3 DEF GenerationsMove, GenerationMove

LEMMA GenerationStep == ASSUME Core, Next PROVE GenerationsMove
<1> USE DEF Core
<1>1. ASSUME NEW g \in Generations, NEW d \in Digests, PrepareCandidate(g, d)
      PROVE  GenerationsMove
  BY <1>1 DEF PrepareCandidate, FreshGeneration, PrepareGeneration, TypeOK, GenerationsMove,
              GenerationMove
<1>2. CASE BeginCandidateFreeze
  BY <1>2, Active
     DEF BeginCandidateFreeze, ActiveState, TypeOK, Generation, GenerationsMove, GenerationMove
<1>3. ASSUME NEW p \in Procs, CompleteSourceFreeze(p) PROVE GenerationsMove
  <2>1. wf.gen \in Generations /\ gens[wf.gen].state = "FREEZING"
    BY <1>3, Active DEF CompleteSourceFreeze, ActiveState
  <2>2. CASE Unstable(p)
    BY <1>3, <2>1, <2>2, InvalidateMove DEF CompleteSourceFreeze
  <2>3. CASE ~Unstable(p)
    <3>1. gens' = [gens EXCEPT ![wf.gen] = [gens[wf.gen] EXCEPT !.state = "FROZEN",
                                                               !.frozen = plan[p].second]]
      BY <1>3, <2>3 DEF CompleteSourceFreeze
    <3>2. gens'[wf.gen].state = "FROZEN"
      BY <2>1, <3>1 DEF TypeOK, Generation
    <3>3. \A g \in Generations : g # wf.gen => gens'[g] = gens[g]
      BY <2>1, <3>1 DEF TypeOK
    <3> QED BY <2>1, <3>2, <3>3 DEF GenerationsMove, GenerationMove
  <2> QED BY <2>2, <2>3
<1>4. ASSUME NEW p \in Procs, CompleteLocalVerification(p) \/ CommitIntegrityFailure(p)
      PROVE  GenerationsMove
  <2>1. wf.gen \in Generations /\ gens[wf.gen].state = "FROZEN"
    BY <1>4, Active
       DEF CompleteLocalVerification, CommitIntegrityFailure, Committable, ActiveState
  <2>2. UNCHANGED gens \/ Invalidate(wf.gen)
    BY <1>4 DEF CompleteLocalVerification, CommitIntegrityFailure
  <2> QED BY <2>1, <2>2, InvalidateMove DEF GenerationsMove, GenerationMove
<1>5. ASSUME NEW p \in Procs, CloseAcceptedGoal(p) PROVE GenerationsMove
  BY <1>5, Active
     DEF CloseAcceptedGoal, Commit, Committable, ActiveState, TypeOK, Generation,
         GenerationsMove, GenerationMove
<1>6. ASSUME NEW p \in Procs, NEW g \in Generations, BeginAcceptanceRepair(p, g)
      PROVE  GenerationsMove
  <2>1. /\ wf.gen \in Generations /\ gens[wf.gen].state = "FROZEN" /\ gens[g].state = "NONE"
        /\ gens' = [gens EXCEPT ![wf.gen].state = "REJECTED",
                                ![g] = PrepareGeneration(wf.gen, plan[p].first)]
    BY <1>6, Active
       DEF BeginAcceptanceRepair, Commit, Committable, ActiveState, FreshGeneration
  <2>2. gens'[g].state = "MUTABLE" /\ gens'[g].frozen = None
    BY <2>1 DEF TypeOK, PrepareGeneration
  <2>3. gens'[wf.gen].state = "REJECTED" /\ gens'[wf.gen].frozen = gens[wf.gen].frozen
    BY <2>1 DEF TypeOK, Generation
  <2>4. \A h \in Generations : h \notin {g, wf.gen} => gens'[h] = gens[h]
    BY <2>1 DEF TypeOK
  <2> QED BY <2>1, <2>2, <2>3, <2>4 DEF GenerationsMove, GenerationMove
<1>7. ASSUME \/ \E a \in Attempts : StartGoal(a) \/ \E p \in Procs : BeginAttempt(p, a)
             \/ RecordAttemptResult \/ \E f \in FailureClasses : RecordAttemptFailure(f)
             \/ \E s \in {"READY", "BLOCKED"} : InterruptAttempt(s)
             \/ StartupRecovery \/ CancelGoal \/ BeginPlanning \/ BeginEvidenceBuild
             \/ \E o \in Obligations, result \in Results \union {"PROTOCOL_ERROR"} :
                  RunVerification(o, result)
             \/ \E d \in Digests : SourceChange(d)
      PROVE  UNCHANGED gens
  BY <1>7 DEF StartGoal, BeginAttempt, RecordAttemptResult, RecordAttemptFailure,
              InterruptAttempt, StartupRecovery, CancelGoal, BeginPlanning, BeginEvidenceBuild,
              RunVerification, SourceChange, store
<1>8. ASSUME NEW p \in Procs,
             \/ BeginFreeze(p) \/ SecondReading(p) \/ ConfigureLocalVerification(p)
             \/ \E o \in Obligations : BeginVerification(p, o)
             \/ RunCheck(p)
             \/ \E cmd \in {"EVIDENCE_SET", "EVALUATE"} : BeginObservation(p, cmd)
             \/ CommitEvidenceSet(p) \/ EvaluateAcceptance(p)
             \/ \E cmd \in {"CLOSE", "REPAIR"}, d \in decisions : BeginConsumption(p, cmd, d)
             \/ BeginResume(p) \/ ResumeGoal(p) \/ AbandonCommand(p) \/ Crash(p)
      PROVE  UNCHANGED gens
  BY <1>8
     DEF BeginFreeze, SecondReading, ConfigureLocalVerification, BeginVerification, RunCheck,
         BeginObservation, CommitEvidenceSet, EvaluateAcceptance, BeginConsumption, BeginResume,
         ResumeGoal, AbandonCommand, Crash, Observed, store
<1>9. CASE UNCHANGED gens
  BY <1>9 DEF GenerationsMove, GenerationMove
<1> QED BY <1>1, <1>2, <1>3, <1>4, <1>5, <1>6, <1>7, <1>8, <1>9 DEF Next

-----------------------------------------------------------------------------
(* Evidence *)

FrozenStates == {"FROZEN", "REJECTED", "ACCEPTED"}

(* A generation that has an identity was frozen.                              *)
FrozenState ==
  \A g \in Generations : gens[g].frozen # None =>
    gens[g].state \in FrozenStates \union {"INVALIDATED"}

(* What the Evidence Set of a generation lists exists and is test evidence.   *)
SetsBind ==
  /\ \A e \in evidence : e.kind = "TEST_RESULT" => e.result \in Results
  /\ \A g \in Generations : \A a \in sets[g] :
       \E e \in evidence : e.attempt = a /\ e.gen = g /\ e.kind = "TEST_RESULT"

LEMMA FrozenStateStep ==
  ASSUME Core, FrozenState, GenerationsMove PROVE FrozenState'
<1>1. \A g \in Generations : gens[g] \in Generation
  BY DEF Core, TypeOK
<1> QED BY <1>1 DEF FrozenState, FrozenStates, GenerationsMove, GenerationMove, Core,
                    FrozenIdentity, Generation

(* Nothing recorded and no verdict reversed. *)
EvidenceKept == UNCHANGED evidence /\ eligible' \subseteq eligible

(* A record of the owned Attempt, which completes.                            *)
EvidenceAdded ==
  /\ wf.attempt \in Attempts /\ attempts[wf.attempt].status = "RUNNING"
  /\ attempts'[wf.attempt].status = "RESULT_RECORDED"
  /\ attempts'[wf.attempt].phase = wf.phase
  /\ wf.gen \in Generations /\ gens'[wf.gen].state = "FROZEN"
  /\ \E kind, o, result :
       /\ \/ kind = "CANDIDATE_FREEZE" /\ wf.phase = "SOURCE_FREEZE"
             /\ o = None /\ result = "OBSERVED"
          \/ kind = "TEST_RESULT" /\ wf.phase = "EVIDENCE_BUILD"
             /\ o \in Obligations /\ result \in Results
       /\ RecordEvidence(kind, o, gens'[wf.gen].frozen, result)

LEMMA EvidenceWrites ==
  ASSUME Core, Next
  PROVE  EvidenceAdded \/ EvidenceKept
<1> USE DEF Core
<1>1. ASSUME NEW p \in Procs, CompleteSourceFreeze(p)
      PROVE  EvidenceAdded \/ (EvidenceKept /\ Invalidate(wf.gen))
  <2>1. wf.gen \in Generations /\ wf.status = "RUNNING" /\ wf.phase = "SOURCE_FREEZE"
    BY <1>1, Active DEF CompleteSourceFreeze, OwnedAttempt
  <2>2. CASE Unstable(p)
    BY <1>1, <2>2 DEF CompleteSourceFreeze, Invalidate, EvidenceKept
  <2>3. CASE ~Unstable(p)
    <3>1. gens' = [gens EXCEPT ![wf.gen] = [gens[wf.gen] EXCEPT !.state = "FROZEN",
                                                               !.frozen = plan[p].second]]
      BY <1>1, <2>3 DEF CompleteSourceFreeze
    <3>2. gens'[wf.gen].state = "FROZEN" /\ gens'[wf.gen].frozen = plan[p].second
      BY <2>1, <3>1 DEF TypeOK, Generation
    <3>3. /\ RecordEvidence("CANDIDATE_FREEZE", None, plan[p].second, "OBSERVED")
          /\ FinishAttempt("RESULT_RECORDED", None, "READY")
      BY <1>1, <2>3 DEF CompleteSourceFreeze
    <3> QED BY <2>1, <3>2, <3>3, FinishMove, Owner DEF EvidenceAdded
  <2> QED BY <2>2, <2>3
<1>2. ASSUME NEW p \in Procs, CompleteLocalVerification(p)
      PROVE  EvidenceAdded \/ (EvidenceKept /\ (UNCHANGED gens \/ Invalidate(wf.gen)))
  <2>1. /\ wf.gen \in Generations /\ wf.status = "RUNNING" /\ wf.phase = "EVIDENCE_BUILD"
        /\ gens[wf.gen].state = "FROZEN" /\ wf.gen = plan[p].gen
    BY <1>2, Active DEF CompleteLocalVerification, OwnedAttempt, ActiveState
  <2>2. CASE /\ ~CheckedSourceDrifted(p)
             /\ plan[p].result # "PROTOCOL_ERROR" /\ plan[p].second # None
             /\ RecordEvidence("TEST_RESULT", plan[p].obligation, plan[p].second, plan[p].result)
             /\ FinishAttempt("RESULT_RECORDED", None, "READY")
             /\ UNCHANGED gens
    <3>1. plan[p].result \in Results /\ plan[p].obligation \in Obligations
      <4>1. plan[p].result # None /\ plan[p].cmd = "VERIFY"
        BY <1>2, <2>2 DEF CompleteLocalVerification
      <4>2. plan[p].result \in Results
        BY <2>2, <4>1 DEF TypeOK, Plan
      <4> QED BY <4>1, <4>2 DEF PlanBinding
    <3>2. plan[p].second = gens'[wf.gen].frozen
      BY <2>1, <2>2 DEF CheckedSourceDrifted
    <3> QED BY <2>1, <2>2, <3>1, <3>2, FinishMove, Owner DEF EvidenceAdded
  <2>3. CASE Invalidate(wf.gen) /\ UNCHANGED evidence
    BY <2>3 DEF Invalidate, EvidenceKept
  <2>4. CASE UNCHANGED <<gens, evidence, eligible>>
    BY <2>4 DEF EvidenceKept
  <2> QED BY <1>2, <2>2, <2>3, <2>4 DEF CompleteLocalVerification
<1>3. ASSUME NEW o \in Obligations, NEW result \in Results \union {"PROTOCOL_ERROR"},
             RunVerification(o, result)
      PROVE  EvidenceAdded \/ (EvidenceKept /\ UNCHANGED gens)
  <2>1. /\ wf.gen \in Generations /\ wf.status = "RUNNING" /\ wf.phase = "EVIDENCE_BUILD"
        /\ gens[wf.gen].state = "FROZEN" /\ UNCHANGED gens
    BY <1>3, Active DEF RunVerification, OwnedAttempt, ActiveState
  <2>2. CASE result = "PROTOCOL_ERROR"
    BY <1>3, <2>1, <2>2 DEF RunVerification, EvidenceKept
  <2>3. CASE result # "PROTOCOL_ERROR"
    <3>1. /\ RecordEvidence("TEST_RESULT", o, gens'[wf.gen].frozen, result)
          /\ FinishAttempt("RESULT_RECORDED", None, "READY")
      BY <1>3, <2>1, <2>3 DEF RunVerification
    <3>2. result \in Results
      BY <2>3
    <3> QED BY <2>1, <3>1, <3>2, FinishMove, Owner DEF EvidenceAdded
  <2> QED BY <2>2, <2>3
<1>4. ASSUME NEW p \in Procs, CommitIntegrityFailure(p) PROVE EvidenceKept /\ Invalidate(wf.gen)
  BY <1>4 DEF CommitIntegrityFailure, Invalidate, EvidenceKept
<1>5. ASSUME \/ \E a \in Attempts : StartGoal(a) \/ \E p \in Procs : BeginAttempt(p, a)
             \/ RecordAttemptResult \/ \E f \in FailureClasses : RecordAttemptFailure(f)
             \/ \E s \in {"READY", "BLOCKED"} : InterruptAttempt(s)
             \/ StartupRecovery \/ CancelGoal \/ BeginPlanning \/ BeginEvidenceBuild
             \/ BeginCandidateFreeze
             \/ \E g \in Generations, d \in Digests : PrepareCandidate(g, d)
             \/ \E d \in Digests : SourceChange(d)
      PROVE  UNCHANGED <<evidence, eligible>>
  BY <1>5 DEF StartGoal, BeginAttempt, RecordAttemptResult, RecordAttemptFailure,
              InterruptAttempt, StartupRecovery, CancelGoal, BeginPlanning, BeginEvidenceBuild,
              BeginCandidateFreeze, PrepareCandidate, SourceChange, store
<1>6. ASSUME NEW p \in Procs,
             \/ BeginFreeze(p) \/ SecondReading(p) \/ ConfigureLocalVerification(p)
             \/ \E o \in Obligations : BeginVerification(p, o)
             \/ RunCheck(p)
             \/ \E cmd \in {"EVIDENCE_SET", "EVALUATE"} : BeginObservation(p, cmd)
             \/ CommitEvidenceSet(p) \/ EvaluateAcceptance(p)
             \/ \E cmd \in {"CLOSE", "REPAIR"}, d \in decisions : BeginConsumption(p, cmd, d)
             \/ CloseAcceptedGoal(p) \/ \E g \in Generations : BeginAcceptanceRepair(p, g)
             \/ BeginResume(p) \/ ResumeGoal(p) \/ AbandonCommand(p) \/ Crash(p)
      PROVE  UNCHANGED <<evidence, eligible>>
  BY <1>6
     DEF BeginFreeze, SecondReading, ConfigureLocalVerification, BeginVerification, RunCheck,
         BeginObservation, CommitEvidenceSet, EvaluateAcceptance, BeginConsumption,
         CloseAcceptedGoal, BeginAcceptanceRepair, BeginResume, ResumeGoal, AbandonCommand,
         Crash, Observed, store
<1>7. CASE UNCHANGED <<evidence, eligible>>
  BY <1>7 DEF EvidenceKept
<1> QED BY <1>1, <1>2, <1>3, <1>4, <1>5, <1>6, <1>7 DEF Next

(* An Attempt that ended keeps its row. *)
LEMMA EndedKept ==
  ASSUME Core, AttemptsMove, NEW a \in Attempts, attempts[a].status \notin {"NONE", "RUNNING"}
  PROVE  attempts'[a] = attempts[a]
  BY DEF AttemptsMove, AttemptMove

(* No generation becomes invalidated but by Invalidate, and a generation that  *)
(* takes part in evidence keeps its identity.                                  *)
NoneInvalidated ==
  \A g \in Generations : gens'[g].state = "INVALIDATED" => gens[g].state = "INVALIDATED"

LEMMA InvalidationStep ==
  ASSUME Core, Next
  PROVE  \/ NoneInvalidated
         \/ wf.gen \in Generations /\ Invalidate(wf.gen)
<1> USE DEF Core
<1>1. ASSUME NEW g \in Generations, NEW d \in Digests, PrepareCandidate(g, d)
      PROVE  NoneInvalidated
  BY <1>1 DEF PrepareCandidate, PrepareGeneration, TypeOK, NoneInvalidated
<1>2. CASE BeginCandidateFreeze
  BY <1>2, Active DEF BeginCandidateFreeze, TypeOK, Generation, NoneInvalidated
<1>3. ASSUME NEW p \in Procs, CompleteSourceFreeze(p)
      PROVE  NoneInvalidated \/ (wf.gen \in Generations /\ Invalidate(wf.gen))
  <2>1. wf.gen \in Generations
    BY <1>3, Active DEF CompleteSourceFreeze
  <2>2. CASE Unstable(p)
    BY <1>3, <2>1, <2>2 DEF CompleteSourceFreeze
  <2>3. CASE ~Unstable(p)
    <3>1. gens' = [gens EXCEPT ![wf.gen] = [gens[wf.gen] EXCEPT !.state = "FROZEN",
                                                               !.frozen = plan[p].second]]
      BY <1>3, <2>3 DEF CompleteSourceFreeze
    <3>2. gens'[wf.gen].state = "FROZEN"
      BY <2>1, <3>1 DEF TypeOK, Generation
    <3>3. \A g \in Generations : g # wf.gen => gens'[g] = gens[g]
      BY <2>1, <3>1 DEF TypeOK
    <3> QED BY <3>2, <3>3 DEF NoneInvalidated
  <2> QED BY <2>2, <2>3
<1>4. ASSUME NEW p \in Procs, CompleteLocalVerification(p) \/ CommitIntegrityFailure(p)
      PROVE  NoneInvalidated \/ (wf.gen \in Generations /\ Invalidate(wf.gen))
  BY <1>4, Active
     DEF CompleteLocalVerification, CommitIntegrityFailure, Committable, NoneInvalidated
<1>5. ASSUME NEW p \in Procs, CloseAcceptedGoal(p) PROVE NoneInvalidated
  BY <1>5, Active
     DEF CloseAcceptedGoal, Commit, Committable, TypeOK, Generation, NoneInvalidated
<1>6. ASSUME NEW p \in Procs, NEW g \in Generations, BeginAcceptanceRepair(p, g)
      PROVE  NoneInvalidated
  <2>1. /\ wf.gen \in Generations
        /\ gens' = [gens EXCEPT ![wf.gen].state = "REJECTED",
                                ![g] = PrepareGeneration(wf.gen, plan[p].first)]
    BY <1>6, Active DEF BeginAcceptanceRepair, Commit, Committable
  <2>2. gens'[g].state = "MUTABLE"
    BY <2>1 DEF TypeOK, PrepareGeneration
  <2>3. wf.gen # g => gens'[wf.gen].state = "REJECTED"
    BY <2>1 DEF TypeOK, Generation
  <2>4. \A h \in Generations : h \notin {g, wf.gen} => gens'[h] = gens[h]
    BY <2>1 DEF TypeOK
  <2> QED BY <2>2, <2>3, <2>4 DEF NoneInvalidated
<1>7. ASSUME \/ \E a \in Attempts : StartGoal(a) \/ \E p \in Procs : BeginAttempt(p, a)
             \/ RecordAttemptResult \/ \E f \in FailureClasses : RecordAttemptFailure(f)
             \/ \E s \in {"READY", "BLOCKED"} : InterruptAttempt(s)
             \/ StartupRecovery \/ CancelGoal \/ BeginPlanning \/ BeginEvidenceBuild
             \/ \E o \in Obligations, result \in Results \union {"PROTOCOL_ERROR"} :
                  RunVerification(o, result)
             \/ \E d \in Digests : SourceChange(d)
      PROVE  UNCHANGED gens
  BY <1>7 DEF StartGoal, BeginAttempt, RecordAttemptResult, RecordAttemptFailure,
              InterruptAttempt, StartupRecovery, CancelGoal, BeginPlanning, BeginEvidenceBuild,
              RunVerification, SourceChange, store
<1>8. ASSUME NEW p \in Procs,
             \/ BeginFreeze(p) \/ SecondReading(p) \/ ConfigureLocalVerification(p)
             \/ \E o \in Obligations : BeginVerification(p, o)
             \/ RunCheck(p)
             \/ \E cmd \in {"EVIDENCE_SET", "EVALUATE"} : BeginObservation(p, cmd)
             \/ CommitEvidenceSet(p) \/ EvaluateAcceptance(p)
             \/ \E cmd \in {"CLOSE", "REPAIR"}, d \in decisions : BeginConsumption(p, cmd, d)
             \/ BeginResume(p) \/ ResumeGoal(p) \/ AbandonCommand(p) \/ Crash(p)
      PROVE  UNCHANGED gens
  BY <1>8
     DEF BeginFreeze, SecondReading, ConfigureLocalVerification, BeginVerification, RunCheck,
         BeginObservation, CommitEvidenceSet, EvaluateAcceptance, BeginConsumption, BeginResume,
         ResumeGoal, AbandonCommand, Crash, Observed, store
<1>9. CASE UNCHANGED gens
  BY <1>9 DEF NoneInvalidated
<1> QED BY <1>1, <1>2, <1>3, <1>4, <1>5, <1>6, <1>7, <1>8, <1>9 DEF Next

-----------------------------------------------------------------------------
(* The evidence invariant, one record at a time *)

BindsIdentity(e) ==
  /\ attempts[e.attempt].status = "RESULT_RECORDED"
  /\ attempts[e.attempt].phase = (IF e.kind = "TEST_RESULT" THEN "EVIDENCE_BUILD"
                                                            ELSE "SOURCE_FREEZE")
  /\ e.attempt \in eligible => /\ gens[e.gen].state \in FrozenStates
                               /\ gens[e.gen].frozen = e.digest

Single(e) == \A f \in evidence : f.attempt = e.attempt => f = e

LEMMA BindsRecords == EvidenceBindsFrozen <=> \A e \in evidence : BindsIdentity(e) /\ Single(e)
  BY DEF EvidenceBindsFrozen, BindsIdentity, Single, FrozenStates

LEMMA BoundKept ==
  ASSUME Core, AttemptsMove, GenerationsMove, NEW e \in evidence, BindsIdentity(e),
         \/ NoneInvalidated
         \/ wf.gen \in Generations /\ Invalidate(wf.gen),
         e.attempt \in eligible' => e.attempt \in eligible
  PROVE  BindsIdentity(e)'
<1>1. e \in Evidence /\ e.attempt \in Attempts /\ e.gen \in Generations
  BY DEF Core, TypeOK, Evidence
<1>2. attempts'[e.attempt] = attempts[e.attempt]
  BY <1>1, EndedKept DEF BindsIdentity
<1>3. ASSUME e.attempt \in eligible'
      PROVE  gens'[e.gen].state \in FrozenStates /\ gens'[e.gen].frozen = e.digest
  <2>1. gens[e.gen].state \in FrozenStates /\ gens[e.gen].frozen = e.digest
    BY <1>3 DEF BindsIdentity
  <2>2. gens'[e.gen].state # "INVALIDATED"
    <3>1. CASE NoneInvalidated
      BY <1>1, <2>1, <3>1 DEF NoneInvalidated, FrozenStates
    <3>2. CASE wf.gen \in Generations /\ Invalidate(wf.gen)
      <4>1. e.gen # wf.gen
        BY <1>3, <3>2 DEF Invalidate, EvidenceOf
      <4>2. gens'[e.gen] = gens[e.gen]
        BY <1>1, <3>2, <4>1 DEF Invalidate, Core, TypeOK
      <4> QED BY <2>1, <4>2 DEF FrozenStates
    <3> QED BY <3>1, <3>2
  <2> QED BY <1>1, <2>1, <2>2 DEF GenerationsMove, GenerationMove, FrozenStates
<1> QED BY <1>2, <1>3 DEF BindsIdentity

LEMMA BindsStep ==
  ASSUME Core, EvidenceBindsFrozen, Next PROVE EvidenceBindsFrozen'
<1>1. AttemptsMove /\ GenerationsMove
  BY AttemptStep, GenerationStep
<1>2. NoneInvalidated \/ (wf.gen \in Generations /\ Invalidate(wf.gen))
  BY InvalidationStep
<1>3. \A e \in evidence : BindsIdentity(e) /\ Single(e)
  BY BindsRecords
<1>4. CASE EvidenceKept
  <2>1. \A e \in evidence : BindsIdentity(e)'
    BY <1>1, <1>2, <1>3, <1>4, BoundKept DEF EvidenceKept
  <2> QED BY <1>3, <1>4, <2>1, BindsRecords
          DEF EvidenceKept, EvidenceBindsFrozen, BindsIdentity, Single, FrozenStates
<1>5. CASE EvidenceAdded
  <2>1. PICK kind, o, result :
          /\ \/ kind = "CANDIDATE_FREEZE" /\ wf.phase = "SOURCE_FREEZE"
             \/ kind = "TEST_RESULT" /\ wf.phase = "EVIDENCE_BUILD" /\ result \in Results
          /\ RecordEvidence(kind, o, gens'[wf.gen].frozen, result)
    BY <1>5 DEF EvidenceAdded
  <2>2. PICK new :
          /\ new = [attempt |-> wf.attempt, gen |-> wf.gen, kind |-> kind, obligation |-> o,
                    digest |-> gens'[wf.gen].frozen, result |-> result]
          /\ evidence' = evidence \union {new} /\ eligible' = eligible \union {wf.attempt}
    BY <2>1 DEF RecordEvidence
  <2>3. \A e \in evidence : e.attempt # wf.attempt
    BY <1>3, <1>5 DEF EvidenceAdded, BindsIdentity
  <2>4. \A e \in evidence : BindsIdentity(e)'
    BY <1>1, <1>2, <1>3, <2>2, <2>3, BoundKept
  <2>5. /\ new.attempt = wf.attempt /\ new.gen = wf.gen /\ new.kind = kind
        /\ new.digest = gens'[wf.gen].frozen
    BY <2>2
  <2>6. BindsIdentity(new)'
    BY <1>5, <2>1, <2>5 DEF EvidenceAdded, BindsIdentity, FrozenStates
  <2>7. \A e, f \in evidence' : f.attempt = e.attempt => f = e
    BY <1>3, <2>2, <2>3, <2>5 DEF Single
  <2>8. \A e \in evidence' : BindsIdentity(e)'
    BY <2>2, <2>4, <2>6
  <2> QED BY <2>7, <2>8 DEF EvidenceBindsFrozen, BindsIdentity, FrozenStates
<1> QED BY <1>4, <1>5, EvidenceWrites

(* Eligible evidence binds the identity of a generation that is frozen and was *)
(* never invalidated, and one completed Attempt produced it.                   *)
THEOREM EvidenceCorrect == Spec => []EvidenceBindsFrozen
<1>1. Core /\ EvidenceBindsFrozen /\ [Next]_vars => EvidenceBindsFrozen'
  <2>1. ASSUME EvidenceBindsFrozen, UNCHANGED vars PROVE EvidenceBindsFrozen'
    BY <2>1 DEF vars, EvidenceBindsFrozen
  <2> QED BY <2>1, BindsStep
<1>2. Init => EvidenceBindsFrozen
  BY DEF Init, EvidenceBindsFrozen
<1> QED BY <1>1, <1>2, CoreInvariant, PTL DEF Spec

-----------------------------------------------------------------------------
(* Integrity verdicts *)

FrozenInvariant == FrozenState /\ EvidenceBindsFrozen

LEMMA FrozenInvariantStep ==
  ASSUME Core, FrozenInvariant, Next PROVE FrozenInvariant'
  BY BindsStep, GenerationStep, FrozenStateStep DEF FrozenInvariant

LEMMA EvidenceGrows ==
  ASSUME Core, Next
  PROVE  /\ evidence \subseteq evidence'
         /\ \A e \in evidence' \ evidence : e.kind = "TEST_RESULT" => e.result \in Results
<1>1. CASE EvidenceKept
  BY <1>1 DEF EvidenceKept
<1>2. CASE EvidenceAdded
  BY <1>2 DEF EvidenceAdded, RecordEvidence
<1> QED BY <1>1, <1>2, EvidenceWrites

LEMMA VerdictKept ==
  ASSUME Core, EvidenceBindsFrozen, Next, NEW e \in evidence, e.attempt \in eligible'
  PROVE  e.attempt \in eligible
<1>1. CASE EvidenceKept
  BY <1>1 DEF EvidenceKept
<1>2. CASE EvidenceAdded
  <2>1. e.attempt # wf.attempt
    BY <1>2 DEF EvidenceAdded, EvidenceBindsFrozen
  <2> QED BY <1>2, <2>1 DEF EvidenceAdded, RecordEvidence
<1> QED BY <1>1, <1>2, EvidenceWrites

(* The body of IntegrityIsFinal. *)
VerdictsKept ==
  /\ \A e \in evidence : e \in evidence' /\ (e.attempt \in eligible' => e.attempt \in eligible)
  /\ \A g \in Generations :
       /\ gens[g].frozen # None => /\ gens'[g].frozen = gens[g].frozen
                                   /\ gens'[g].state \in TerminalStates \union {"FROZEN"}
       /\ gens[g].state \in TerminalStates => gens'[g].state = gens[g].state

LEMMA VerdictsStep == ASSUME Core, FrozenInvariant, Next PROVE VerdictsKept
<1>1. \A e \in evidence : e \in evidence' /\ (e.attempt \in eligible' => e.attempt \in eligible)
  BY EvidenceGrows, VerdictKept DEF FrozenInvariant
<1>2. ASSUME NEW g \in Generations
      PROVE  /\ gens[g].frozen # None => /\ gens'[g].frozen = gens[g].frozen
                                         /\ gens'[g].state \in TerminalStates \union {"FROZEN"}
             /\ gens[g].state \in TerminalStates => gens'[g].state = gens[g].state
  <2>1. GenerationMove(gens[g], gens'[g])
    BY GenerationStep DEF GenerationsMove
  <2>2. gens[g].frozen # None => gens[g].state \in TerminalStates \union {"FROZEN"}
    BY DEF FrozenInvariant, FrozenState, FrozenStates, TerminalStates
  <2> QED BY <2>1, <2>2 DEF GenerationMove, TerminalStates
<1> QED BY <1>1, <1>2 DEF VerdictsKept

LEMMA FrozenInvariantHolds == Spec => []FrozenInvariant
<1>1. Core /\ FrozenInvariant /\ [Next]_vars => FrozenInvariant'
  <2>1. ASSUME FrozenInvariant, UNCHANGED vars PROVE FrozenInvariant'
    BY <2>1 DEF vars, FrozenInvariant, FrozenState, EvidenceBindsFrozen
  <2> QED BY <2>1, FrozenInvariantStep
<1>2. Init => FrozenInvariant
  BY DEF Init, FrozenInvariant, FrozenState, EvidenceBindsFrozen
<1> QED BY <1>1, <1>2, CoreInvariant, PTL DEF Spec

(* Ineligible evidence stays ineligible, a frozen identity never changes and a *)
(* terminal generation keeps its state, however late a stale command commits.  *)
THEOREM IntegrityCorrect == Spec => IntegrityIsFinal
<1>1. Core /\ FrozenInvariant /\ [Next]_vars => [VerdictsKept]_vars
  BY VerdictsStep
<1> QED BY <1>1, CoreInvariant, FrozenInvariantHolds, PTL
        DEF Spec, IntegrityIsFinal, VerdictsKept

-----------------------------------------------------------------------------
(* The Evidence Set of a generation *)

LEMMA SetsWrites ==
  ASSUME Core, Next PROVE UNCHANGED sets \/ \E p \in Procs : CommitEvidenceSet(p)
<1>1. ASSUME \/ \E a \in Attempts : StartGoal(a) \/ \E p \in Procs : BeginAttempt(p, a)
             \/ RecordAttemptResult \/ \E f \in FailureClasses : RecordAttemptFailure(f)
             \/ \E s \in {"READY", "BLOCKED"} : InterruptAttempt(s)
             \/ StartupRecovery \/ CancelGoal \/ BeginPlanning \/ BeginEvidenceBuild
             \/ BeginCandidateFreeze
             \/ \E g \in Generations, d \in Digests : PrepareCandidate(g, d)
             \/ \E o \in Obligations, result \in Results \union {"PROTOCOL_ERROR"} :
                  RunVerification(o, result)
             \/ \E d \in Digests : SourceChange(d)
      PROVE  UNCHANGED sets
  BY <1>1 DEF StartGoal, BeginAttempt, RecordAttemptResult, RecordAttemptFailure,
              InterruptAttempt, StartupRecovery, CancelGoal, BeginPlanning, BeginEvidenceBuild,
              BeginCandidateFreeze, PrepareCandidate, RunVerification, SourceChange, store
<1>2. ASSUME NEW p \in Procs,
             \/ BeginFreeze(p) \/ SecondReading(p) \/ CompleteSourceFreeze(p)
             \/ ConfigureLocalVerification(p)
             \/ \E o \in Obligations : BeginVerification(p, o)
             \/ RunCheck(p) \/ CompleteLocalVerification(p)
             \/ \E cmd \in {"EVIDENCE_SET", "EVALUATE"} : BeginObservation(p, cmd)
             \/ EvaluateAcceptance(p) \/ CommitIntegrityFailure(p)
             \/ \E cmd \in {"CLOSE", "REPAIR"}, d \in decisions : BeginConsumption(p, cmd, d)
             \/ CloseAcceptedGoal(p) \/ \E g \in Generations : BeginAcceptanceRepair(p, g)
             \/ BeginResume(p) \/ ResumeGoal(p) \/ AbandonCommand(p) \/ Crash(p)
      PROVE  UNCHANGED sets
  BY <1>2
     DEF BeginFreeze, SecondReading, CompleteSourceFreeze, ConfigureLocalVerification,
         BeginVerification, RunCheck, CompleteLocalVerification, BeginObservation,
         EvaluateAcceptance, CommitIntegrityFailure, BeginConsumption, CloseAcceptedGoal,
         BeginAcceptanceRepair, BeginResume, ResumeGoal, AbandonCommand, Crash, Observed, store
<1> QED BY <1>1, <1>2 DEF Next

LEMMA SetsStep == ASSUME Core, SetsBind, Next PROVE SetsBind'
<1>1. \A e \in evidence' : e.kind = "TEST_RESULT" => e.result \in Results
  BY EvidenceGrows DEF SetsBind
<1>2. CASE UNCHANGED sets
  BY <1>1, <1>2, EvidenceGrows DEF SetsBind
<1>3. ASSUME NEW p \in Procs, CommitEvidenceSet(p) PROVE SetsBind'
  <2>1. wf.gen \in Generations
    BY <1>3, Active DEF CommitEvidenceSet, Commit, Committable, Core
  <2>2. /\ sets'[wf.gen] = {e.attempt : e \in TestEvidence(wf.gen)}
        /\ \A g \in Generations : g # wf.gen => sets'[g] = sets[g]
    BY <1>3, <2>1 DEF CommitEvidenceSet, Core, TypeOK
  <2>3. \A a \in sets'[wf.gen] :
          \E e \in evidence' : e.attempt = a /\ e.gen = wf.gen /\ e.kind = "TEST_RESULT"
    BY <1>3, <2>2 DEF CommitEvidenceSet, TestEvidence, EligibleOf, EvidenceOf
  <2>4. UNCHANGED evidence
    BY <1>3 DEF CommitEvidenceSet
  <2> QED BY <1>1, <2>2, <2>3, <2>4 DEF SetsBind
<1> QED BY <1>2, <1>3, SetsWrites

-----------------------------------------------------------------------------
(* Closing *)

LEMMA CloseWrites ==
  ASSUME Core, Next, wf.status # "CLOSED"
  PROVE  \/ UNCHANGED closeout /\ wf'.status # "CLOSED"
         \/ \E p \in Procs : CloseAcceptedGoal(p)
<1> USE DEF Core
<1> DEFINE Open == UNCHANGED closeout /\ wf'.status # "CLOSED"
<1>1. ASSUME NEW a \in Attempts, StartGoal(a) \/ \E p \in Procs : BeginAttempt(p, a) PROVE Open
  BY <1>1 DEF StartGoal, BeginAttempt, Start, Advance, TypeOK, Workflow
<1>2. ASSUME \/ RecordAttemptResult \/ \E f \in FailureClasses : RecordAttemptFailure(f)
             \/ \E s \in {"READY", "BLOCKED"} : InterruptAttempt(s)
             \/ StartupRecovery
             \/ \E o \in Obligations, result \in Results \union {"PROTOCOL_ERROR"} :
                  RunVerification(o, result)
             \/ \E p \in Procs : CompleteSourceFreeze(p) \/ CompleteLocalVerification(p)
      PROVE  Open
  <2> DEFINE Finished == \E status, failure : \E s \in RunStatuses \ {"CLOSED"} :
                           FinishAttempt(status, failure, s)
  <2>1. ASSUME \/ RecordAttemptResult \/ \E f \in FailureClasses : RecordAttemptFailure(f)
               \/ \E s \in {"READY", "BLOCKED"} : InterruptAttempt(s)
               \/ StartupRecovery
        PROVE  Finished /\ UNCHANGED closeout
    BY <2>1 DEF RecordAttemptResult, RecordAttemptFailure, InterruptAttempt, StartupRecovery,
                ResultingRunStatus, RunStatuses
  <2>2. ASSUME NEW o \in Obligations, NEW result \in Results \union {"PROTOCOL_ERROR"},
               RunVerification(o, result)
        PROVE  Finished /\ UNCHANGED closeout
    BY <2>2 DEF RunVerification, ResultingRunStatus, RunStatuses
  <2>3. ASSUME NEW p \in Procs, CompleteSourceFreeze(p)
        PROVE  Finished /\ UNCHANGED closeout
    BY <2>3 DEF CompleteSourceFreeze, ResultingRunStatus, RunStatuses
  <2>4. ASSUME NEW p \in Procs, CompleteLocalVerification(p)
        PROVE  Finished /\ UNCHANGED closeout
    BY <2>4 DEF CompleteLocalVerification, ResultingRunStatus, RunStatuses
  <2>5. ASSUME Finished PROVE wf'.status # "CLOSED"
    BY <2>5, FinishWorkflow
  <2> HIDE DEF Finished
  <2> QED BY <1>2, <2>1, <2>2, <2>3, <2>4, <2>5
<1>3. ASSUME \/ CancelGoal \/ BeginPlanning \/ BeginEvidenceBuild \/ BeginCandidateFreeze
             \/ \E g \in Generations, d \in Digests : PrepareCandidate(g, d)
      PROVE  Open
  BY <1>3
     DEF CancelGoal, BeginPlanning, BeginEvidenceBuild, BeginCandidateFreeze, PrepareCandidate,
         EnterPhase, Advance, TypeOK, Workflow
<1>4. ASSUME NEW p \in Procs,
             \/ CommitEvidenceSet(p) \/ CommitIntegrityFailure(p)
             \/ \E g \in Generations : BeginAcceptanceRepair(p, g)
             \/ ResumeGoal(p)
      PROVE  Open
  BY <1>4
     DEF CommitEvidenceSet, CommitIntegrityFailure, BeginAcceptanceRepair, ResumeGoal,
         EnterPhase, Advance, TypeOK, Workflow
<1>5. ASSUME NEW p \in Procs,
             \/ BeginFreeze(p) \/ SecondReading(p) \/ ConfigureLocalVerification(p)
             \/ \E o \in Obligations : BeginVerification(p, o)
             \/ RunCheck(p)
             \/ \E cmd \in {"EVIDENCE_SET", "EVALUATE"} : BeginObservation(p, cmd)
             \/ EvaluateAcceptance(p)
             \/ \E cmd \in {"CLOSE", "REPAIR"}, d \in decisions : BeginConsumption(p, cmd, d)
             \/ BeginResume(p) \/ AbandonCommand(p) \/ Crash(p)
      PROVE  Open
  BY <1>5 DEF BeginFreeze, SecondReading, ConfigureLocalVerification, BeginVerification, RunCheck,
              BeginObservation, EvaluateAcceptance, BeginConsumption, BeginResume, AbandonCommand,
              Crash, Observed, store
<1>6. ASSUME NEW d \in Digests, SourceChange(d) PROVE Open
  BY <1>6 DEF SourceChange, store
<1> QED BY <1>1, <1>2, <1>3, <1>4, <1>5, <1>6 DEF Next

(* What an ACCEPT verdict says of the records it is about. *)
LEMMA AcceptedRecords ==
  ASSUME Core, EvidenceBindsFrozen, SetsBind, NEW g \in Generations,
         EvidenceRuleOutcome(g) = "ACCEPT"
  PROVE  /\ \A e \in SetRecords(g) :
              /\ e.attempt \in eligible /\ e.gen = g
              /\ e.digest = gens[g].frozen /\ e.result = "PASS"
         /\ \A o \in Obligations : \E e \in SetRecords(g) : e.obligation = o
<1>1. /\ ~Unaccounted(SetRecords(g))
      /\ \A e \in SetRecords(g) : e.result \notin {"RUNNER_ERROR", "FAIL"}
  BY DEF EvidenceRuleOutcome
<1>2. ASSUME NEW e \in SetRecords(g)
      PROVE  /\ e.attempt \in eligible /\ e.gen = g
             /\ e.digest = gens[g].frozen /\ e.result = "PASS"
  <2>1. e \in evidence /\ e.attempt \in eligible
    BY <1>1, <1>2 DEF SetRecords, Unaccounted
  <2>2. e.gen = g /\ e.kind = "TEST_RESULT"
    BY <1>2, <2>1 DEF SetRecords, SetsBind, EvidenceBindsFrozen
  <2>3. e.result \in Results
    BY <2>1, <2>2 DEF SetsBind
  <2>4. e.result = "PASS"
    BY <1>1, <2>3 DEF Results
  <2> QED BY <2>1, <2>2, <2>4 DEF EvidenceBindsFrozen
<1> QED BY <1>1, <1>2 DEF Unaccounted

LEMMA CloseStep ==
  ASSUME Core, EvidenceBindsFrozen, SetsBind, NEW p \in Procs, CloseAcceptedGoal(p)
  PROVE  CloseoutSound'
<1> DEFINE d == plan[p].decision
<1>1. /\ wf.gen \in Generations /\ d \in decisions /\ d.outcome = "ACCEPT"
      /\ d = CurrentDecision
  BY Active DEF CloseAcceptedGoal, Commit, Committable, Consumable, Consumes, DecisionCurrent, Core
<1>2. /\ d.version = wf.version /\ d.gen = wf.gen /\ d.digest = gens[wf.gen].frozen
      /\ d.refs = sets[wf.gen] /\ EvidenceRuleOutcome(wf.gen) = "ACCEPT"
  BY <1>1 DEF CurrentDecision
<1>3. /\ wf'.status = "CLOSED" /\ wf'.version = wf.version + 1 /\ wf'.gen = wf.gen
      /\ wf.version + 1 \in 1..MaxVersion
  BY NextVersion DEF CloseAcceptedGoal, Advance, Core, TypeOK, Workflow
<1>4. gens'[wf.gen].state = "ACCEPTED" /\ gens'[wf.gen].frozen = gens[wf.gen].frozen
  BY <1>1 DEF CloseAcceptedGoal, Core, TypeOK, Generation
<1>5. /\ closeout' = [version |-> wf.version + 1, decision |-> d]
      /\ UNCHANGED <<evidence, eligible, decisions>>
  BY DEF CloseAcceptedGoal
<1>6. d \in Decision
  BY <1>1 DEF Core, TypeOK
<1> HIDE DEF d
<1>7. closeout' # None
  BY <1>3, <1>5, <1>6 DEF Closeout
<1>8. closeout'.version = wf.version + 1 /\ closeout'.decision = d
  BY <1>5
<1>9. {e \in evidence : e.attempt \in d.refs} = SetRecords(wf.gen)
  BY <1>2 DEF SetRecords
<1>10. /\ \A e \in SetRecords(wf.gen) :
            /\ e.attempt \in eligible /\ e.gen = d.gen
            /\ e.digest = d.digest /\ e.result = "PASS"
       /\ \A o \in Obligations : \E e \in SetRecords(wf.gen) : e.obligation = o
  <2>1. /\ \A e \in SetRecords(wf.gen) :
             /\ e.attempt \in eligible /\ e.gen = wf.gen
             /\ e.digest = gens[wf.gen].frozen /\ e.result = "PASS"
        /\ \A o \in Obligations : \E e \in SetRecords(wf.gen) : e.obligation = o
    <3>1. wf.gen \in Generations /\ EvidenceRuleOutcome(wf.gen) = "ACCEPT"
      BY <1>1, <1>2
    <3>2. \A g \in Generations : EvidenceRuleOutcome(g) = "ACCEPT" =>
            /\ \A e \in SetRecords(g) :
                 /\ e.attempt \in eligible /\ e.gen = g
                 /\ e.digest = gens[g].frozen /\ e.result = "PASS"
            /\ \A o \in Obligations : \E e \in SetRecords(g) : e.obligation = o
      BY AcceptedRecords
    <3> QED BY <3>1, <3>2
  <2> QED BY <1>2, <2>1
<1>11. /\ d \in decisions' /\ d.outcome = "ACCEPT"
       /\ wf'.version = closeout'.version /\ closeout'.version = d.version + 1
       /\ wf'.gen = d.gen /\ gens'[d.gen].state = "ACCEPTED"
       /\ gens'[d.gen].frozen = d.digest
  BY <1>1, <1>2, <1>3, <1>4, <1>5, <1>8
<1> QED BY <1>3, <1>5, <1>7, <1>8, <1>9, <1>10, <1>11 DEF CloseoutSound

ClosedInvariant == EvidenceBindsFrozen /\ SetsBind /\ CloseoutSound

LEMMA ClosedStep == ASSUME Core, ClosedInvariant, Next PROVE ClosedInvariant'
<1>1. EvidenceBindsFrozen' /\ SetsBind'
  BY BindsStep, SetsStep DEF ClosedInvariant
<1>2. CASE wf.status = "CLOSED"
  <2>1. UNCHANGED store
    BY <1>2, TerminalStep
  <2>2. CloseoutSound'
    BY <2>1 DEF store, ClosedInvariant, CloseoutSound
  <2> QED BY <1>1, <2>2 DEF ClosedInvariant
<1>3. CASE wf.status # "CLOSED"
  <2>1. closeout = None
    BY <1>3 DEF ClosedInvariant, CloseoutSound
  <2>2. CASE UNCHANGED closeout /\ wf'.status # "CLOSED"
    BY <1>1, <2>1, <2>2 DEF ClosedInvariant, CloseoutSound
  <2>3. ASSUME NEW p \in Procs, CloseAcceptedGoal(p) PROVE ClosedInvariant'
    BY <1>1, <2>3, CloseStep DEF ClosedInvariant
  <2> QED BY <1>3, <2>2, <2>3, CloseWrites
<1> QED BY <1>2, <1>3

(* A closed Goal was closed by consuming the ACCEPT decision of the version it *)
(* closed from, over eligible, passing evidence of the accepted identity that  *)
(* accounts for every obligation.                                              *)
THEOREM CloseoutCorrect == Spec => []CloseoutSound
<1>1. Core /\ ClosedInvariant /\ [Next]_vars => ClosedInvariant'
  <2>1. ASSUME ClosedInvariant, UNCHANGED vars PROVE ClosedInvariant'
    BY <2>1 DEF vars, ClosedInvariant, SetsBind, CloseoutSound, EvidenceBindsFrozen
  <2> QED BY <2>1, ClosedStep
<1>2. Init => ClosedInvariant
  BY DEF Init, ClosedInvariant, SetsBind, CloseoutSound, EvidenceBindsFrozen
<1>3. ClosedInvariant => CloseoutSound
  BY DEF ClosedInvariant
<1> QED BY <1>1, <1>2, <1>3, CoreInvariant, PTL DEF Spec

-----------------------------------------------------------------------------
(* What the theorems above say of the rows, together. *)
Grounded == Core /\ CandidateLineage /\ Boundary /\ FrozenInvariant /\ ClosedInvariant

LEMMA GroundedStep == ASSUME Grounded, Next PROVE Grounded'
  BY CoreStep, LineageStep, BoundaryStep, FrozenInvariantStep, ClosedStep DEF Grounded

LEMMA GroundedInvariant == Spec => []Grounded
<1>1. Grounded /\ [Next]_vars => Grounded'
  <2>1. ASSUME Grounded, UNCHANGED vars PROVE Grounded'
    <3>1. Core' /\ CandidateLineage'
      BY <2>1, CoreStep DEF Grounded, vars, CandidateLineage, ActiveState
    <3>2. Boundary' /\ FrozenInvariant'
      BY <2>1 DEF Grounded, vars, Boundary, Recorded, LatestOwned, OneFailurePerVersion,
                  TransientIsLast, RetryBoundary, FrozenInvariant, FrozenState,
                  EvidenceBindsFrozen
    <3>3. ClosedInvariant'
      BY <2>1 DEF Grounded, vars, ClosedInvariant, SetsBind, CloseoutSound, EvidenceBindsFrozen
    <3> QED BY <3>1, <3>2, <3>3 DEF Grounded
  <2> QED BY <2>1, GroundedStep
<1>2. Init => Grounded
  <2>1. Init => FrozenInvariant /\ ClosedInvariant
    BY DEF Init, FrozenInvariant, FrozenState, ClosedInvariant, SetsBind, CloseoutSound,
           EvidenceBindsFrozen
  <2> QED BY <2>1, CoreInit, LineageInit, BoundaryInit DEF Grounded
<1> QED BY <1>1, <1>2, PTL DEF Spec

-----------------------------------------------------------------------------
(* What the store admits *)

(* An Attempt has ended exactly when its row says when; the rows of one that   *)
(* has not started are blank.                                                  *)
AttemptsShaped ==
  \A a \in Attempts :
    IF attempts[a].status = "NONE" THEN attempts[a].failure = None /\ attempts[a].ended = 0
    ELSE Store!AttemptRecord(attempts[a])

(* Whatever ended an Attempt at the present version, or blocks the workflow,   *)
(* ended it in the present phase.                                              *)
EndedHere ==
  /\ \A a \in Attempts :
       /\ attempts[a].failure = "TRANSIENT" => attempts[a].phase = wf.phase
       /\ attempts[a].ended = wf.version => attempts[a].phase = wf.phase
  /\ wf.status = "BLOCKED" =>
       \E a \in Attempts : attempts[a].status \in Store!Ended /\ attempts[a].phase = wf.phase

(* The active generation is the latest one; what is not frozen has no identity.*)
GenerationsOrdered ==
  /\ \A g \in Generations :
       /\ gens[g].state # "NONE" <=> wf.gen # None /\ g <= wf.gen
       /\ gens[g].parent # g
       /\ gens[g].state \in {"NONE", "MUTABLE", "FREEZING"} => gens[g].frozen = None

VerifiesChecked ==
  \A p \in Procs : plan[p].cmd = "VERIFY" => plan[p].gen \in checks

EvidenceShaped == \A e \in evidence : Store!EvidenceRecord(e)

(* An Evidence Set is recorded on the way to FINAL_VERIFY, with every           *)
(* obligation accounted for, and there the local profile has its Check.        *)
SetsShaped ==
  /\ \A g \in Generations :
       /\ gens[g].state = "NONE" => sets[g] = {}
       /\ sets[g] # {} => Store!EvidenceSetRecord(SetRecords(g))
  /\ wf.gen # None => (sets[wf.gen] # {} <=> wf.phase \in {"FINAL_VERIFY", "CLOSEOUT"})
  /\ LocalCommand /\ wf.phase \in {"FINAL_VERIFY", "CLOSEOUT"} => wf.gen \in checks

(* The decisions of the present version are the one its rows re-issue.         *)
DecisionsReissued == \A d \in decisions : d.version < wf.version \/ d = CurrentDecision

RepairsShaped == \A r \in repairs : r.version <= wf.version /\ Store!RepairRecord(r)

StoreInvariant ==
  /\ Grounded /\ AttemptsShaped /\ EndedHere /\ GenerationsOrdered /\ VerifiesChecked
  /\ EvidenceShaped /\ SetsShaped /\ DecisionsReissued /\ RepairsShaped

-----------------------------------------------------------------------------
(* The Attempt rows *)

AttemptStart(a) == wf.status = "READY" /\ FreshAttempt(a) /\ Start(a)

AttemptEnd(status, failure) ==
  /\ wf.status = "RUNNING" /\ wf.attempt \in Attempts
  /\ Store!AttemptEnded(wf.attempt, status, failure)
  /\ status \in {"RESULT_RECORDED", "FAILED", "INTERRUPTED"}
  /\ failure \in FailureClasses \union {None}
  /\ status = "FAILED" <=> failure # None
  /\ wf'.phase = wf.phase /\ wf'.attempt = None /\ wf'.version = wf.version + 1
  /\ \/ status = "RESULT_RECORDED" /\ wf'.status = "READY"
     \/ status = "FAILED" /\ failure # "NON_RETRYABLE" /\ wf'.status = "BLOCKED"
     \/ status = "FAILED" /\ failure = "NON_RETRYABLE" /\ wf'.status = "FAILED"
     \/ status = "INTERRUPTED" /\ wf'.status \in {"READY", "BLOCKED", "CANCELLED"}

AttemptsStay ==
  /\ UNCHANGED attempts
  /\ wf'.attempt = wf.attempt /\ (wf'.status = "RUNNING" <=> wf.status = "RUNNING")
  /\ \/ wf' = wf
     \/ wf'.version = wf.version + 1 /\ wf'.phase = wf.phase
        /\ (wf'.status = "BLOCKED" => wf.status = "BLOCKED")
     \/ wf'.version = wf.version + 1 /\ wf.status = "READY" /\ wf'.status # "BLOCKED"

LEMMA StartRows ==
  ASSUME Core, AttemptsShaped, NEW a \in Attempts, AttemptStart(a)
  PROVE  /\ attempts[a].status = "NONE" /\ attempts'[a].status = "RUNNING"
         /\ attempts'[a].failure = None /\ attempts'[a].ended = 0
         /\ attempts'[a].phase = wf.phase
         /\ \A b \in Attempts : b # a => attempts'[b] = attempts[b]
         /\ wf'.status = "RUNNING" /\ wf'.attempt = a /\ wf'.phase = wf.phase
         /\ wf'.version = wf.version + 1 /\ wf'.gen = wf.gen
<1>1. a \in Nat /\ attempts[a] \in Attempt
  BY DEF Core, TypeOK
<1>2. attempts[a].status = "NONE"
  BY <1>1 DEF AttemptStart, FreshAttempt
<1>3. attempts' = [attempts EXCEPT ![a] = [attempts[a] EXCEPT !.status = "RUNNING",
                                                             !.phase = wf.phase]]
  BY DEF AttemptStart, Start
<1>4. /\ attempts'[a] = [attempts[a] EXCEPT !.status = "RUNNING", !.phase = wf.phase]
      /\ \A b \in Attempts : b # a => attempts'[b] = attempts[b]
  BY <1>3 DEF Core, TypeOK
<1>5. /\ attempts'[a].status = "RUNNING" /\ attempts'[a].phase = wf.phase
      /\ attempts'[a].failure = attempts[a].failure /\ attempts'[a].ended = attempts[a].ended
  BY <1>1, <1>4 DEF Attempt
<1>6. /\ wf'.status = "RUNNING" /\ wf'.attempt = a /\ wf'.phase = wf.phase
      /\ wf'.version = wf.version + 1 /\ wf'.gen = wf.gen
  BY DEF AttemptStart, Start, Advance, Core, TypeOK, Workflow
<1> QED BY <1>2, <1>4, <1>5, <1>6 DEF AttemptsShaped

LEMMA EndRows ==
  ASSUME Core, NEW status, NEW failure, AttemptEnd(status, failure)
  PROVE  /\ attempts[wf.attempt].status = "RUNNING" /\ attempts[wf.attempt].phase = wf.phase
         /\ attempts'[wf.attempt].status = status /\ attempts'[wf.attempt].failure = failure
         /\ attempts'[wf.attempt].ended = wf.version + 1
         /\ attempts'[wf.attempt].phase = wf.phase
         /\ \A b \in Attempts : b # wf.attempt => attempts'[b] = attempts[b]
<1>1. wf.attempt \in Attempts /\ attempts[wf.attempt] \in Attempt
  BY DEF AttemptEnd, Core, TypeOK
<1>2. attempts[wf.attempt].status = "RUNNING" /\ attempts[wf.attempt].phase = wf.phase
  BY <1>1 DEF Core, AuthorityCoherent
<1>3. attempts' = [attempts EXCEPT ![wf.attempt] =
                     [attempts[wf.attempt] EXCEPT !.status = status, !.failure = failure,
                                                  !.ended = wf.version + 1]]
  BY DEF AttemptEnd, Store!AttemptEnded
<1>4. /\ attempts'[wf.attempt] = [attempts[wf.attempt] EXCEPT !.status = status,
                                     !.failure = failure, !.ended = wf.version + 1]
      /\ \A b \in Attempts : b # wf.attempt => attempts'[b] = attempts[b]
  BY <1>1, <1>3 DEF Core, TypeOK
<1>5. /\ attempts'[wf.attempt].status = status /\ attempts'[wf.attempt].failure = failure
      /\ attempts'[wf.attempt].ended = wf.version + 1
      /\ attempts'[wf.attempt].phase = attempts[wf.attempt].phase
  BY <1>1, <1>4 DEF Attempt
<1> QED BY <1>2, <1>4, <1>5

(* The row of a running Attempt has no failure to clear. *)
LEMMA RunningBlank ==
  ASSUME Core, AttemptsShaped, wf.status = "RUNNING"
  PROVE  /\ attempts[wf.attempt] \in Attempt /\ attempts[wf.attempt].status = "RUNNING"
         /\ attempts[wf.attempt].failure = None
<1>1. wf.attempt \in Attempts /\ attempts[wf.attempt] \in Attempt
  BY Owner DEF Core, TypeOK
<1>2. attempts[wf.attempt].status = "RUNNING"
  BY <1>1 DEF Core, AuthorityCoherent
<1> QED BY <1>1, <1>2 DEF AttemptsShaped, Store!AttemptRecord

LEMMA EndWrites ==
  ASSUME Core, AttemptEnds
  PROVE  \E status, failure : AttemptEnd(status, failure)
<1>1. PICK status, failure, runStatus :
        Ending(status, failure, runStatus) /\ FinishAttempt(status, failure, runStatus)
  BY DEF AttemptEnds
<1>2. wf.status = "RUNNING" /\ wf.attempt \in Attempts
  BY Owner DEF AttemptEnds
<1>3. runStatus \in RunStatuses
  BY <1>1 DEF Ending, ResultingRunStatus, RunStatuses
<1>4. /\ wf'.phase = wf.phase /\ wf'.attempt = None /\ wf'.version = wf.version + 1
      /\ wf'.status = runStatus
  BY <1>1, <1>3, FinishWorkflow, FinishVersion
<1>5. Store!AttemptEnded(wf.attempt, status, failure)
  BY <1>1, <1>2 DEF FinishAttempt, Store!AttemptEnded, Core, AuthorityCoherent
<1>6. None \notin FailureClasses
  BY NoneAssumption
<1> QED BY <1>1, <1>2, <1>4, <1>5, <1>6 DEF AttemptEnd, Ending, ResultingRunStatus

LEMMA CancelWrites ==
  ASSUME Core, AttemptsShaped, CancelGoal
  PROVE  AttemptEnd("INTERRUPTED", None) \/ AttemptsStay
<1>1. /\ wf'.status = "CANCELLED" /\ wf'.attempt = None /\ wf'.version = wf.version + 1
      /\ wf'.phase = wf.phase
  BY DEF CancelGoal, Advance, Core, TypeOK, Workflow
<1>2. CASE wf.status = "RUNNING"
  <2>1. /\ wf.attempt \in Attempts /\ attempts[wf.attempt] \in Attempt
        /\ attempts[wf.attempt].status = "RUNNING" /\ attempts[wf.attempt].failure = None
    BY <1>2, RunningBlank, Owner
  <2>2. [attempts[wf.attempt] EXCEPT !.status = "INTERRUPTED", !.ended = wf.version + 1]
        = [attempts[wf.attempt] EXCEPT !.status = "INTERRUPTED", !.failure = None,
                                       !.ended = wf.version + 1]
    BY <2>1 DEF Attempt
  <2>3. attempts' = [attempts EXCEPT ![wf.attempt] =
                       [attempts[wf.attempt] EXCEPT !.status = "INTERRUPTED",
                                                    !.ended = wf.version + 1]]
    BY <1>2 DEF CancelGoal
  <2>4. Store!AttemptEnded(wf.attempt, "INTERRUPTED", None)
    BY <2>1, <2>2, <2>3 DEF Store!AttemptEnded
  <2> QED BY <1>1, <1>2, <2>1, <2>4 DEF AttemptEnd
<1>3. CASE wf.status # "RUNNING"
  BY <1>1, <1>3 DEF CancelGoal, AttemptsStay, Core, AuthorityCoherent
<1> QED BY <1>2, <1>3

LEMMA AttemptWrites ==
  ASSUME Core, AttemptsShaped, Next
  PROVE  \/ \E a \in Attempts : AttemptStart(a)
         \/ \E status, failure : AttemptEnd(status, failure)
         \/ AttemptsStay
<1>1. CASE MovedOn
  BY <1>1 DEF MovedOn, AttemptsStay
<1>2. ASSUME NEW p \in Procs, ResumeGoal(p) PROVE AttemptsStay
  <2>1. wf.status = "BLOCKED" /\ UNCHANGED attempts
    BY <1>2 DEF ResumeGoal, RecoverableBlocker
  <2>2. /\ wf'.attempt = wf.attempt /\ wf'.phase = wf.phase /\ wf'.version = wf.version + 1
        /\ wf'.status \in {"READY", "BLOCKED"}
    BY <1>2 DEF ResumeGoal, Advance, Core, TypeOK, Workflow
  <2> QED BY <2>1, <2>2 DEF AttemptsStay
<1>3. CASE UNCHANGED <<wf, attempts, reconciled>>
  BY <1>3 DEF AttemptsStay
<1>4. ASSUME NEW a \in Attempts, wf.status = "READY", FreshAttempt(a), Start(a)
      PROVE  AttemptStart(a)
  BY <1>4 DEF AttemptStart
<1> QED BY <1>1, <1>2, <1>3, <1>4, EndWrites, CancelWrites, AttemptForm

LEMMA AttemptsShapedStep ==
  ASSUME Core, AttemptsShaped, Next PROVE AttemptsShaped'
<1>1. ASSUME NEW a \in Attempts, AttemptStart(a) PROVE AttemptsShaped'
  <2>1. wf.phase # "CLOSEOUT"
    BY <1>1 DEF AttemptStart, Core, AuthorityCoherent
  <2>2. Store!AttemptRecord(attempts'[a]) /\ attempts'[a].status # "NONE"
    BY <1>1, <2>1, StartRows DEF Store!AttemptRecord
  <2>3. \A b \in Attempts : b # a => attempts'[b] = attempts[b]
    BY <1>1, StartRows
  <2> QED BY <2>2, <2>3 DEF AttemptsShaped
<1>2. ASSUME NEW status, NEW failure, AttemptEnd(status, failure) PROVE AttemptsShaped'
  <2>1. wf.phase # "CLOSEOUT" /\ wf.version \in Nat
    BY <1>2, Numbers DEF AttemptEnd, Core, AuthorityCoherent
  <2>2. wf.version + 1 # 0
    BY <2>1
  <2>3. Store!AttemptRecord(attempts'[wf.attempt]) /\ attempts'[wf.attempt].status # "NONE"
    BY <1>2, <2>1, <2>2, EndRows DEF AttemptEnd, Store!AttemptRecord
  <2>4. \A b \in Attempts : b # wf.attempt => attempts'[b] = attempts[b]
    BY <1>2, EndRows
  <2> QED BY <2>3, <2>4 DEF AttemptsShaped
<1>3. CASE AttemptsStay
  BY <1>3 DEF AttemptsStay, AttemptsShaped
<1> QED BY <1>1, <1>2, <1>3, AttemptWrites

LEMMA EndedHereStep ==
  ASSUME Core, Boundary, AttemptsShaped, EndedHere, Next PROVE EndedHere'
<1> DEFINE Here(a) == /\ attempts[a].failure = "TRANSIENT" => attempts[a].phase = wf.phase
                      /\ attempts[a].ended = wf.version => attempts[a].phase = wf.phase
<1>1. /\ wf.version \in Nat /\ wf.version + 1 # 0
      /\ \A a \in Attempts : attempts[a].ended # wf.version + 1
  <2>1. wf.version \in Nat /\ \A a \in Attempts : attempts[a].ended \in Nat
    BY Numbers DEF Core
  <2>2. \A a \in Attempts : attempts[a].ended <= wf.version
    BY DEF Boundary, Recorded
  <2> QED BY <2>1, <2>2
<1>2. ASSUME NEW a \in Attempts, AttemptStart(a) PROVE EndedHere'
  <2>1. /\ wf'.phase = wf.phase /\ wf'.version = wf.version + 1 /\ wf'.status = "RUNNING"
        /\ attempts'[a].phase = wf.phase
        /\ \A b \in Attempts : b # a => attempts'[b] = attempts[b]
    BY <1>2, StartRows
  <2>2. \A b \in Attempts : Here(b)'
    BY <1>1, <2>1 DEF EndedHere
  <2> QED BY <2>1, <2>2 DEF EndedHere
<1>3. ASSUME NEW status, NEW failure, AttemptEnd(status, failure) PROVE EndedHere'
  <2>1. /\ wf'.phase = wf.phase /\ wf'.version = wf.version + 1 /\ wf.attempt \in Attempts
        /\ attempts'[wf.attempt].phase = wf.phase
        /\ attempts'[wf.attempt].status \in Store!Ended
        /\ \A b \in Attempts : b # wf.attempt => attempts'[b] = attempts[b]
    BY <1>3, EndRows DEF AttemptEnd, Store!Ended
  <2>2. \A b \in Attempts : Here(b)'
    BY <1>1, <2>1 DEF EndedHere
  <2> QED BY <2>1, <2>2 DEF EndedHere
<1>4. CASE AttemptsStay
  <2>1. CASE wf' = wf
    BY <1>4, <2>1 DEF AttemptsStay, EndedHere
  <2>2. CASE /\ wf'.version = wf.version + 1 /\ wf'.phase = wf.phase
             /\ wf'.status = "BLOCKED" => wf.status = "BLOCKED"
    BY <1>1, <1>4, <2>2 DEF AttemptsStay, EndedHere
  <2>3. CASE wf'.version = wf.version + 1 /\ wf.status = "READY" /\ wf'.status # "BLOCKED"
    <3>1. \A a \in Attempts : attempts[a].failure # "TRANSIENT"
      BY <2>3 DEF Boundary, RetryBoundary
    <3> QED BY <1>1, <1>4, <2>3, <3>1 DEF AttemptsStay, EndedHere
  <2> QED BY <1>4, <2>1, <2>2, <2>3 DEF AttemptsStay
<1> QED BY <1>2, <1>3, <1>4, AttemptWrites

(* The triggers of the Attempt rows. *)
LEMMA AttemptTriggersAccept ==
  ASSUME Core, Boundary, AttemptsShaped, Next PROVE Store!AttemptTriggers
<1>1. ASSUME NEW a \in Attempts, AttemptStart(a) PROVE Store!AttemptTriggers
  <2>1. wf.status = "READY" /\ wf.attempt = None
    BY <1>1 DEF AttemptStart, Core, AuthorityCoherent
  <2>2. \A b \in Attempts : attempts[b].status # "RUNNING"
    <3>1. None \notin Attempts
      BY ConstantsAssumption
    <3> QED BY <2>1, <3>1 DEF Core, AuthorityCoherent
  <2>3. \A b \in Attempts : attempts[b].failure # "TRANSIENT"
    BY <2>1 DEF Boundary, RetryBoundary
  <2>4. attempts[a].status = "NONE" /\ Store!NewAttempt(a)
    BY <1>1, <2>2, <2>3, StartRows DEF Store!NewAttempt
  <2>5. \A b \in Attempts : b # a => attempts'[b] = attempts[b]
    BY <1>1, StartRows
  <2> QED BY <2>4, <2>5 DEF Store!AttemptTriggers
<1>2. ASSUME NEW status, NEW failure, AttemptEnd(status, failure) PROVE Store!AttemptTriggers
  <2>1. wf.attempt \in Attempts /\ wf.status = "RUNNING" /\ wf.version \in Nat
    BY <1>2, Numbers DEF AttemptEnd, Core
  <2>2. /\ attempts[wf.attempt].status = "RUNNING" /\ attempts[wf.attempt].phase = wf.phase
        /\ attempts'[wf.attempt].status = status /\ attempts'[wf.attempt].failure = failure
        /\ attempts'[wf.attempt].ended = wf.version + 1
        /\ attempts'[wf.attempt].phase = wf.phase
        /\ \A b \in Attempts : b # wf.attempt => attempts'[b] = attempts[b]
    BY <1>2, EndRows
  <2>3. wf.version + 1 # 0
    BY <2>1
  <2>4. Store!LifecycleShape(wf.attempt) /\ attempts'[wf.attempt].status \in Store!Ended
    BY <1>2, <2>2, <2>3 DEF AttemptEnd, Store!LifecycleShape, Store!Ended
  <2>5. \A b \in Attempts : b > wf.attempt => attempts[b].status = "NONE"
    <3>1. wf.attempt # None
      BY <2>1, ConstantsAssumption
    <3> QED BY <3>1 DEF Boundary, LatestOwned
  <2>6. Store!FinishedAttempt(wf.attempt)
    BY <2>1, <2>2, <2>4, <2>5 DEF Store!FinishedAttempt
  <2> QED BY <2>1, <2>2, <2>6 DEF Store!AttemptTriggers
<1>3. CASE AttemptsStay
  BY <1>3 DEF AttemptsStay, Store!AttemptTriggers
<1> QED BY <1>1, <1>2, <1>3, AttemptWrites

(* The trigger of a reconciliation: the Attempt it names still runs, or is one *)
(* of those that ended in the phase of the blocked workflow.                   *)
LEMMA RecoveryTriggersAccept ==
  ASSUME Core, EndedHere, Next PROVE Store!RecoveryTriggers
<1>1. CASE wf.status = "RUNNING"
  <2>1. wf.attempt \in Attempts /\ wf.attempt # None
    BY <1>1, Owner, ConstantsAssumption
  <2>2. attempts[wf.attempt].status = "RUNNING" /\ attempts[wf.attempt].phase = wf.phase
    BY <2>1 DEF Core, AuthorityCoherent
  <2> QED BY <1>1, <2>1, <2>2 DEF Store!RecoveryTriggers
<1>2. CASE wf.status = "BLOCKED"
  BY <1>2 DEF Core, AuthorityCoherent, EndedHere, Store!RecoveryTriggers
<1>3. CASE wf.status \notin {"RUNNING", "BLOCKED"}
  <2>1. reconciled' = reconciled
    BY <1>3, AttemptForm DEF AttemptEnds, CancelGoal, MovedOn, ResumeGoal, RecoverableBlocker
  <2> QED BY <2>1 DEF Store!RecoveryTriggers
<1> QED BY <1>1, <1>2, <1>3
-----------------------------------------------------------------------------
(* The generations *)

Prepared(g, d) ==
  /\ wf.phase = "PLAN" /\ FreshGeneration(g) /\ wf'.gen = g
  /\ gens' = [gens EXCEPT ![g] = PrepareGeneration(wf.gen, d)]

Rejected(g, d) ==
  /\ wf.gen \in Generations /\ gens[wf.gen].state = "FROZEN" /\ gens[wf.gen].frozen = d
  /\ FreshGeneration(g) /\ wf'.gen = g
  /\ gens' = [gens EXCEPT ![wf.gen].state = "REJECTED", ![g] = PrepareGeneration(wf.gen, d)]

Changed(state, frozen) ==
  /\ wf.gen \in Generations /\ wf'.gen = wf.gen
  /\ Store!CandidateChanged(state, frozen)
  /\ state \in GenerationStates \ {"NONE", "MUTABLE"}
  /\ state = "FROZEN" => frozen \in Digests

LEMMA StateWritten ==
  ASSUME Core, wf.gen \in Generations, NEW state,
         <<gens[wf.gen].state, state>> \in Store!CandidateEdges,
         gens' = [gens EXCEPT ![wf.gen].state = state]
  PROVE  Store!CandidateChanged(state, gens[wf.gen].frozen)
<1>1. gens[wf.gen] \in Generation
  BY DEF Core, TypeOK
<1>2. [gens[wf.gen] EXCEPT !.state = state]
      = [gens[wf.gen] EXCEPT !.state = state, !.frozen = gens[wf.gen].frozen]
  BY <1>1 DEF Generation
<1>3. gens' = [gens EXCEPT ![wf.gen] = [gens[wf.gen] EXCEPT !.state = state,
                                                           !.frozen = gens[wf.gen].frozen]]
  BY <1>2
<1>4. wf.gen # None
  BY ConstantsAssumption
<1> QED BY <1>3, <1>4 DEF Store!CandidateChanged, Store!CandidateApplies, Store!UpdatedGeneration

LEMMA InvalidatedWritten ==
  ASSUME Core, wf.gen \in Generations, gens[wf.gen].state \in {"FREEZING", "FROZEN"},
         wf'.gen = wf.gen, Invalidate(wf.gen)
  PROVE  Changed("INVALIDATED", gens[wf.gen].frozen)
<1>1. <<gens[wf.gen].state, "INVALIDATED">> \in Store!CandidateEdges
  BY DEF Store!CandidateEdges, Store!Current
<1>2. Store!CandidateChanged("INVALIDATED", gens[wf.gen].frozen)
  BY <1>1, StateWritten DEF Invalidate
<1> QED BY <1>2 DEF Changed, GenerationStates

LEMMA FrozenWritten ==
  ASSUME Core, wf.gen \in Generations, gens[wf.gen].state = "FREEZING", wf'.gen = wf.gen,
         NEW d \in Digests,
         gens' = [gens EXCEPT ![wf.gen] = [@ EXCEPT !.state = "FROZEN", !.frozen = d]]
  PROVE  Changed("FROZEN", d)
<1>1. <<gens[wf.gen].state, "FROZEN">> \in Store!CandidateEdges
  BY DEF Store!CandidateEdges
<1>2. wf.gen # None
  BY ConstantsAssumption
<1>3. Store!CandidateChanged("FROZEN", d)
  BY <1>1, <1>2 DEF Store!CandidateChanged, Store!CandidateApplies, Store!UpdatedGeneration
<1> QED BY <1>3 DEF Changed, GenerationStates

LEMMA GenStays ==
  ASSUME Core, Next
  PROVE  \/ UNCHANGED gens /\ wf'.gen = wf.gen
         \/ \E g \in Generations, d \in Digests : PrepareCandidate(g, d)
         \/ BeginCandidateFreeze
         \/ \E p \in Procs :
              \/ CompleteSourceFreeze(p) \/ CompleteLocalVerification(p)
              \/ CommitIntegrityFailure(p) \/ CloseAcceptedGoal(p)
              \/ \E g \in Generations : BeginAcceptanceRepair(p, g)
<1> DEFINE Stays == UNCHANGED gens /\ wf'.gen = wf.gen
<1>1. ASSUME NEW next \in Workflow, next.gen = wf.gen, Advance(next) PROVE wf'.gen = wf.gen
  BY <1>1 DEF Advance, Workflow
<1>2. ASSUME \/ \E a \in Attempts : StartGoal(a) \/ \E p \in Procs : BeginAttempt(p, a)
             \/ RecordAttemptResult \/ \E f \in FailureClasses : RecordAttemptFailure(f)
             \/ \E s \in {"READY", "BLOCKED"} : InterruptAttempt(s)
             \/ StartupRecovery \/ CancelGoal \/ BeginPlanning \/ BeginEvidenceBuild
             \/ \E o \in Obligations, result \in Results \union {"PROTOCOL_ERROR"} :
                  RunVerification(o, result)
             \/ \E p \in Procs : CommitEvidenceSet(p) \/ ResumeGoal(p)
      PROVE  UNCHANGED gens
  BY <1>2 DEF StartGoal, BeginAttempt, RecordAttemptResult, RecordAttemptFailure,
              InterruptAttempt, StartupRecovery, CancelGoal, BeginPlanning, BeginEvidenceBuild,
              RunVerification, CommitEvidenceSet, ResumeGoal
<1>3. ASSUME \/ \E a \in Attempts : StartGoal(a) \/ \E p \in Procs : BeginAttempt(p, a)
             \/ RecordAttemptResult \/ \E f \in FailureClasses : RecordAttemptFailure(f)
             \/ \E s \in {"READY", "BLOCKED"} : InterruptAttempt(s)
             \/ StartupRecovery \/ CancelGoal \/ BeginPlanning \/ BeginEvidenceBuild
             \/ \E o \in Obligations, result \in Results \union {"PROTOCOL_ERROR"} :
                  RunVerification(o, result)
             \/ \E p \in Procs : CommitEvidenceSet(p) \/ ResumeGoal(p)
      PROVE  wf'.gen = wf.gen
  <2>1. ASSUME NEW a \in Attempts, Start(a) PROVE wf'.gen = wf.gen
    BY <2>1 DEF Start, Advance, Core, TypeOK, Workflow
  <2>2. ASSUME NEW status, NEW failure, NEW s \in RunStatuses, FinishAttempt(status, failure, s)
        PROVE  wf'.gen = wf.gen
    BY <2>2, FinishWorkflow
  <2>3. ASSUME NEW ph, EnterPhase(ph) PROVE wf'.gen = wf.gen
    BY <2>3 DEF EnterPhase, Advance, Core, TypeOK, Workflow
  <2>4. CASE CancelGoal \/ \E p \in Procs : ResumeGoal(p)
    BY <2>4 DEF CancelGoal, ResumeGoal, Advance, Core, TypeOK, Workflow
  <2>5. CASE \E a \in Attempts : StartGoal(a) \/ \E p \in Procs : BeginAttempt(p, a)
    BY <2>1, <2>5 DEF StartGoal, BeginAttempt
  <2>6. CASE BeginPlanning \/ BeginEvidenceBuild \/ \E p \in Procs : CommitEvidenceSet(p)
    BY <2>3, <2>6 DEF BeginPlanning, BeginEvidenceBuild, CommitEvidenceSet
  <2>7. CASE \/ RecordAttemptResult \/ \E f \in FailureClasses : RecordAttemptFailure(f)
             \/ \E s \in {"READY", "BLOCKED"} : InterruptAttempt(s) \/ StartupRecovery
    BY <2>2, <2>7 DEF RecordAttemptResult, RecordAttemptFailure, InterruptAttempt, StartupRecovery,
                      ResultingRunStatus, RunStatuses
  <2>8. CASE \E o \in Obligations, result \in Results \union {"PROTOCOL_ERROR"} :
               RunVerification(o, result)
    BY <2>2, <2>8 DEF RunVerification, ResultingRunStatus, RunStatuses
  <2> QED BY <1>3, <2>4, <2>5, <2>6, <2>7, <2>8
<1>4. ASSUME NEW p \in Procs,
             \/ BeginFreeze(p) \/ SecondReading(p) \/ ConfigureLocalVerification(p)
             \/ \E o \in Obligations : BeginVerification(p, o)
             \/ RunCheck(p)
             \/ \E cmd \in {"EVIDENCE_SET", "EVALUATE"} : BeginObservation(p, cmd)
             \/ EvaluateAcceptance(p)
             \/ \E cmd \in {"CLOSE", "REPAIR"}, d \in decisions : BeginConsumption(p, cmd, d)
             \/ BeginResume(p) \/ AbandonCommand(p) \/ Crash(p)
      PROVE  Stays
  BY <1>4 DEF BeginFreeze, SecondReading, ConfigureLocalVerification, BeginVerification, RunCheck,
              BeginObservation, EvaluateAcceptance, BeginConsumption, BeginResume, AbandonCommand,
              Crash, Observed, store
<1>5. ASSUME NEW d \in Digests, SourceChange(d) PROVE Stays
  BY <1>5 DEF SourceChange, store
<1> QED BY <1>2, <1>3, <1>4, <1>5 DEF Next

LEMMA CandidateWrites ==
  ASSUME Core, Next
  PROVE  \/ UNCHANGED gens /\ wf'.gen = wf.gen
         \/ \E g \in Generations, d \in Digests : Prepared(g, d) \/ Rejected(g, d)
         \/ \E state, frozen : Changed(state, frozen)
<1>1. ASSUME NEW g \in Generations, NEW d \in Digests, PrepareCandidate(g, d) PROVE Prepared(g, d)
  BY <1>1 DEF PrepareCandidate, Prepared, Ready, Advance, Core, TypeOK, Workflow
<1>2. CASE BeginCandidateFreeze
  <2>1. wf.gen \in Generations /\ gens[wf.gen].state = "MUTABLE" /\ wf'.gen = wf.gen
    BY <1>2, Active DEF BeginCandidateFreeze, ActiveState, EnterPhase, Advance, Core, TypeOK, Workflow
  <2>2. <<gens[wf.gen].state, "FREEZING">> \in Store!CandidateEdges
    BY <2>1 DEF Store!CandidateEdges
  <2>3. Store!CandidateChanged("FREEZING", gens[wf.gen].frozen)
    BY <1>2, <2>1, <2>2, StateWritten DEF BeginCandidateFreeze
  <2> QED BY <2>1, <2>3 DEF Changed, GenerationStates
<1>3. ASSUME NEW p \in Procs, CompleteSourceFreeze(p)
      PROVE  \E state, frozen : Changed(state, frozen)
  <2>1. wf.gen \in Generations /\ gens[wf.gen].state = "FREEZING"
    BY <1>3, Active DEF CompleteSourceFreeze, ActiveState
  <2>2. wf'.gen = wf.gen
    BY <1>3, FinishWorkflow DEF CompleteSourceFreeze, ResultingRunStatus, RunStatuses
  <2>3. CASE Unstable(p)
    BY <1>3, <2>1, <2>2, <2>3, InvalidatedWritten DEF CompleteSourceFreeze
  <2>4. CASE ~Unstable(p)
    <3>1. plan[p].second \in Digests
      BY <1>3, <2>4 DEF CompleteSourceFreeze, Unstable, Core, PlanBinding
    <3> QED BY <1>3, <2>1, <2>2, <2>4, <3>1, FrozenWritten DEF CompleteSourceFreeze
  <2> QED BY <2>3, <2>4
<1>4. ASSUME NEW p \in Procs, CompleteLocalVerification(p)
      PROVE  \/ UNCHANGED gens /\ wf'.gen = wf.gen
             \/ \E state, frozen : Changed(state, frozen)
  <2>1. wf.gen \in Generations /\ gens[wf.gen].state = "FROZEN"
    BY <1>4, Active DEF CompleteLocalVerification, ActiveState
  <2>2. wf'.gen = wf.gen
    BY <1>4, FinishWorkflow DEF CompleteLocalVerification, ResultingRunStatus, RunStatuses
  <2>3. CASE Invalidate(wf.gen)
    BY <2>1, <2>2, <2>3, InvalidatedWritten
  <2> QED BY <1>4, <2>2, <2>3 DEF CompleteLocalVerification
<1>5. ASSUME NEW p \in Procs, CommitIntegrityFailure(p)
      PROVE  \E state, frozen : Changed(state, frozen)
  <2>1. wf.gen \in Generations /\ gens[wf.gen].state = "FROZEN"
    BY <1>5, Active DEF CommitIntegrityFailure, Committable, ActiveState
  <2>2. wf'.gen = wf.gen
    BY <1>5 DEF CommitIntegrityFailure, Advance, Core, TypeOK, Workflow
  <2> QED BY <1>5, <2>1, <2>2, InvalidatedWritten DEF CommitIntegrityFailure
<1>6. ASSUME NEW p \in Procs, CloseAcceptedGoal(p)
      PROVE  \E state, frozen : Changed(state, frozen)
  <2>1. wf.gen \in Generations /\ gens[wf.gen].state = "FROZEN"
    BY <1>6, Active DEF CloseAcceptedGoal, Commit, Committable, ActiveState
  <2>2. wf'.gen = wf.gen
    BY <1>6 DEF CloseAcceptedGoal, Advance, Core, TypeOK, Workflow
  <2>3. <<gens[wf.gen].state, "ACCEPTED">> \in Store!CandidateEdges
    BY <2>1 DEF Store!CandidateEdges
  <2>4. Store!CandidateChanged("ACCEPTED", gens[wf.gen].frozen)
    BY <1>6, <2>1, <2>3, StateWritten DEF CloseAcceptedGoal
  <2> QED BY <2>1, <2>2, <2>4 DEF Changed, GenerationStates
<1>7. ASSUME NEW p \in Procs, NEW g \in Generations, BeginAcceptanceRepair(p, g)
      PROVE  \E d \in Digests : Rejected(g, d)
  <2>1. /\ wf.gen \in Generations /\ gens[wf.gen].state = "FROZEN"
        /\ gens[wf.gen].frozen \in Digests
    BY <1>7, Active DEF BeginAcceptanceRepair, Commit, Committable, ActiveState
  <2>2. wf'.gen = g
    BY <1>7 DEF BeginAcceptanceRepair, Advance, Core, TypeOK, Workflow
  <2>3. plan[p].first = gens[wf.gen].frozen
    BY <1>7 DEF BeginAcceptanceRepair, Commit, SourceDrifted
  <2> QED BY <1>7, <2>1, <2>2, <2>3 DEF BeginAcceptanceRepair, Rejected
<1> QED BY <1>1, <1>2, <1>3, <1>4, <1>5, <1>6, <1>7, GenStays

LEMMA FreshIsNext ==
  ASSUME Core, GenerationsOrdered, NEW g \in Generations, FreshGeneration(g)
  PROVE  /\ g \in Nat /\ gens[g].state = "NONE"
         /\ wf.gen = None => g = 1
         /\ wf.gen # None => wf.gen \in Generations /\ wf.gen \in Nat /\ g = wf.gen + 1
<1>1. \A h \in Generations : h \in Nat /\ h # 0 /\ 1..h \subseteq Generations
  BY ConstantsAssumption, GenerationsNumbered
<1>2. \A h \in Generations : (h >= g) <=> ~(wf.gen # None /\ h <= wf.gen)
  BY DEF FreshGeneration, GenerationsOrdered
<1>3. g \in Nat /\ gens[g].state = "NONE"
  <2>1. g \in Nat /\ g >= g
    BY <1>1
  <2> QED BY <2>1 DEF FreshGeneration
<1>4. ASSUME wf.gen = None PROVE g = 1
  <2>1. 1 \in Generations
    BY <1>1, <1>3
  <2> QED BY <1>1, <1>2, <1>3, <1>4, <2>1
<1>5. ASSUME wf.gen # None PROVE wf.gen \in Generations /\ wf.gen \in Nat /\ g = wf.gen + 1
  <2>1. wf.gen \in Generations /\ wf.gen \in Nat
    BY <1>1, <1>5 DEF Core, TypeOK, Workflow
  <2>2. g > wf.gen
    BY <1>2, <1>3, <1>5, <2>1
  <2>3. wf.gen + 1 \in Generations
    BY <1>1, <1>3, <2>1, <2>2
  <2> QED BY <1>2, <1>3, <1>5, <2>1, <2>2, <2>3
<1> QED BY <1>3, <1>4, <1>5

LEMMA PreparationRows ==
  ASSUME Core, NEW g \in Generations, NEW d, Prepared(g, d)
  PROVE  /\ gens'[g] = PrepareGeneration(wf.gen, d)
         /\ \A h \in Generations : h # g => gens'[h] = gens[h]
BY DEF Core, TypeOK, Prepared

LEMMA RejectionRows ==
  ASSUME Core, NEW g \in Generations, NEW d, Rejected(g, d)
  PROVE  /\ gens'[g] = PrepareGeneration(wf.gen, d) /\ g # wf.gen
         /\ gens'[wf.gen] = [gens[wf.gen] EXCEPT !.state = "REJECTED"]
         /\ gens'[wf.gen].state = "REJECTED" /\ gens'[wf.gen].frozen = d
         /\ gens'[wf.gen].base = gens[wf.gen].base /\ gens'[wf.gen].parent = gens[wf.gen].parent
         /\ \A h \in Generations : h \notin {g, wf.gen} => gens'[h] = gens[h]
<1>1. g \in Nat /\ gens[g].state = "NONE"
  BY ConstantsAssumption DEF Rejected, FreshGeneration
<1>2. g # wf.gen /\ wf.gen \in Generations /\ gens[wf.gen] \in Generation
  BY <1>1 DEF Rejected, Core, TypeOK
<1>3. /\ gens'[g] = PrepareGeneration(wf.gen, d)
      /\ gens'[wf.gen] = [gens[wf.gen] EXCEPT !.state = "REJECTED"]
      /\ \A h \in Generations : h \notin {g, wf.gen} => gens'[h] = gens[h]
  BY <1>2 DEF Rejected, Core, TypeOK
<1>4. /\ gens'[wf.gen].state = "REJECTED" /\ gens'[wf.gen].frozen = gens[wf.gen].frozen
      /\ gens'[wf.gen].base = gens[wf.gen].base /\ gens'[wf.gen].parent = gens[wf.gen].parent
  BY <1>2, <1>3 DEF Generation
<1> QED BY <1>2, <1>3, <1>4 DEF Rejected

LEMMA ChangedRows ==
  ASSUME Core, NEW state, NEW frozen, Changed(state, frozen)
  PROVE  /\ wf.gen \in Generations
         /\ gens'[wf.gen].state = state /\ gens'[wf.gen].frozen = frozen
         /\ gens'[wf.gen].base = gens[wf.gen].base /\ gens'[wf.gen].parent = gens[wf.gen].parent
         /\ \A h \in Generations : h # wf.gen => gens'[h] = gens[h]
<1>1. wf.gen \in Generations /\ gens[wf.gen] \in Generation
  BY DEF Changed, Core, TypeOK
<1>2. gens' = [gens EXCEPT ![wf.gen] = [gens[wf.gen] EXCEPT !.state = state, !.frozen = frozen]]
  BY DEF Changed, Store!CandidateChanged, Store!UpdatedGeneration
<1>3. /\ gens'[wf.gen] = [gens[wf.gen] EXCEPT !.state = state, !.frozen = frozen]
      /\ \A h \in Generations : h # wf.gen => gens'[h] = gens[h]
  BY <1>1, <1>2 DEF Core, TypeOK
<1> QED BY <1>1, <1>3 DEF Generation

LEMMA GenerationsOrderedStep ==
  ASSUME Core, CandidateLineage, GenerationsOrdered, Next PROVE GenerationsOrdered'
<1> DEFINE Row(g) == /\ gens[g].state # "NONE" <=> wf.gen # None /\ g <= wf.gen
                     /\ gens[g].parent # g
                     /\ gens[g].state \in {"NONE", "MUTABLE", "FREEZING"} => gens[g].frozen = None
<1>1. /\ None \notin Generations
      /\ \A h \in Generations : h \in Nat /\ h # 0
  BY ConstantsAssumption, GenerationsNumbered
<1>2. ASSUME UNCHANGED gens, wf'.gen = wf.gen PROVE GenerationsOrdered'
  BY <1>2 DEF GenerationsOrdered
<1>3. ASSUME NEW g \in Generations, NEW d, Prepared(g, d) PROVE GenerationsOrdered'
  <2>1. wf.gen = None /\ g = 1 /\ wf'.gen = 1
    BY <1>3, FreshIsNext DEF Prepared, CandidateLineage
  <2>2. /\ gens'[g].state = "MUTABLE" /\ gens'[g].frozen = None /\ gens'[g].parent = None
        /\ \A h \in Generations : h # g => gens'[h] = gens[h]
    <3>1. /\ gens'[g] = PrepareGeneration(wf.gen, d)
          /\ \A h \in Generations : h # g => gens'[h] = gens[h]
      BY <1>3, PreparationRows
    <3> QED BY <2>1, <3>1 DEF PrepareGeneration
  <2>3. Row(g)'
    BY <1>1, <2>1, <2>2
  <2>4. ASSUME NEW h \in Generations, h # g PROVE Row(h)'
    BY <1>1, <2>1, <2>2, <2>4 DEF GenerationsOrdered
  <2> QED BY <2>3, <2>4 DEF GenerationsOrdered
<1>4. ASSUME NEW g \in Generations, NEW d, Rejected(g, d) PROVE GenerationsOrdered'
  <2>1. wf.gen \in Generations /\ wf.gen \in Nat /\ g = wf.gen + 1 /\ wf'.gen = g
    BY <1>1, <1>4, FreshIsNext DEF Rejected
  <2>2. /\ gens'[g].state = "MUTABLE" /\ gens'[g].frozen = None /\ gens'[g].parent = wf.gen
        /\ gens'[wf.gen].state = "REJECTED" /\ gens'[wf.gen].parent = gens[wf.gen].parent
        /\ \A h \in Generations : h \notin {g, wf.gen} => gens'[h] = gens[h]
    <3>1. gens'[g] = PrepareGeneration(wf.gen, d)
      BY <1>4, RejectionRows
    <3>2. /\ gens'[g].state = "MUTABLE" /\ gens'[g].frozen = None /\ gens'[g].parent = wf.gen
      BY <3>1 DEF PrepareGeneration
    <3> QED BY <1>4, <3>2, RejectionRows
  <2>3. Row(g)'
    BY <1>1, <2>1, <2>2
  <2>4. ASSUME NEW h \in Generations, h = wf.gen PROVE Row(h)'
    BY <1>1, <2>1, <2>2, <2>4 DEF GenerationsOrdered
  <2>5. ASSUME NEW h \in Generations, h \notin {g, wf.gen} PROVE Row(h)'
    BY <1>1, <2>1, <2>2, <2>5 DEF GenerationsOrdered
  <2>6. \A h \in Generations : Row(h)'
    <3> HIDE DEF Row
    <3> QED BY <2>3, <2>4, <2>5
  <2> QED BY <2>6 DEF GenerationsOrdered
<1>5. ASSUME NEW state, NEW frozen, Changed(state, frozen) PROVE GenerationsOrdered'
  <2>1. /\ wf.gen \in Generations
        /\ gens'[wf.gen].state = state /\ gens'[wf.gen].frozen = frozen
        /\ gens'[wf.gen].parent = gens[wf.gen].parent
        /\ \A h \in Generations : h # wf.gen => gens'[h] = gens[h]
    BY <1>5, ChangedRows
  <2>2. state \notin {"NONE", "MUTABLE"} /\ wf'.gen = wf.gen
    BY <1>5 DEF Changed
  <2>3. state = "FREEZING" => frozen = None
    <3>1. state = "FREEZING" => gens[wf.gen].state = "MUTABLE" /\ frozen = gens[wf.gen].frozen
      BY <1>5 DEF Changed, Store!CandidateChanged, Store!CandidateApplies, Store!CandidateEdges
    <3> QED BY <2>1, <3>1 DEF GenerationsOrdered
  <2>4. ASSUME NEW h \in Generations, h = wf.gen PROVE Row(h)'
    <3>1. h \in Nat /\ h <= wf.gen /\ wf.gen # None
      <4>1. wf.gen \in Nat /\ wf.gen # None
        BY <1>1, <2>1
      <4> QED BY <2>4, <4>1
    <3>2. gens[h].parent # h
      BY DEF GenerationsOrdered
    <3>3. gens'[h].parent # h /\ gens'[h].state = state /\ gens'[h].frozen = frozen
      BY <2>1, <2>4, <3>2
    <3> QED BY <2>2, <2>3, <2>4, <3>1, <3>3
  <2>5. ASSUME NEW h \in Generations, h # wf.gen PROVE Row(h)'
    BY <1>1, <2>1, <2>2, <2>5 DEF GenerationsOrdered
  <2>6. \A h \in Generations : Row(h)'
    <3> HIDE DEF Row
    <3> QED BY <2>4, <2>5
  <2> QED BY <2>6 DEF GenerationsOrdered
<1> QED BY <1>2, <1>3, <1>4, <1>5, CandidateWrites

(* The triggers of the generations: a new one follows the one that has ended.  *)
LEMMA GenerationTriggersAccept ==
  ASSUME Core, CandidateLineage, GenerationsOrdered, CandidateLineage', Next
  PROVE  Store!GenerationTriggers
<1> DEFINE Judged(g) == gens'[g] # gens[g] =>
             IF gens[g].state = "NONE" THEN Store!NewGeneration(g) ELSE Store!ChangedGeneration(g)
<1>1. \A g, h \in Generations :
        {gens'[g].state, gens'[h].state} \subseteq Store!Current => g = h
  BY DEF CandidateLineage, Store!Current
<1>2. None \notin Digests
  BY ConstantsAssumption
<1>3. ASSUME NEW g \in Generations, NEW d, Prepared(g, d) PROVE \A h \in Generations : Judged(h)
  <2>1. wf.gen = None /\ g = 1 /\ gens[g].state = "NONE"
    BY <1>3, FreshIsNext DEF Prepared, CandidateLineage
  <2>2. /\ gens'[g].state = "MUTABLE" /\ gens'[g].frozen = None /\ gens'[g].parent = None
        /\ \A h \in Generations : h # g => gens'[h] = gens[h]
    <3>1. /\ gens'[g] = PrepareGeneration(wf.gen, d)
          /\ \A h \in Generations : h # g => gens'[h] = gens[h]
      BY <1>3, PreparationRows
    <3> QED BY <2>1, <3>1 DEF PrepareGeneration
  <2>3. Store!NewGeneration(g)
    BY <2>1, <2>2 DEF Store!NewGeneration
  <2> QED BY <2>1, <2>2, <2>3
<1>4. ASSUME NEW g \in Generations, NEW d \in Digests, Rejected(g, d)
      PROVE  \A h \in Generations : Judged(h)
  <2>1. /\ wf.gen \in Generations /\ wf.gen \in Nat /\ g = wf.gen + 1 /\ gens[g].state = "NONE"
        /\ gens[wf.gen].state = "FROZEN"
    <3>1. wf.gen # None
      BY <1>4, ConstantsAssumption DEF Rejected
    <3> QED BY <1>4, <3>1, FreshIsNext DEF Rejected
  <2>2. /\ gens'[g].state = "MUTABLE" /\ gens'[g].frozen = None /\ gens'[g].parent = wf.gen
        /\ gens'[wf.gen].state = "REJECTED" /\ gens'[wf.gen].parent = gens[wf.gen].parent
        /\ gens'[wf.gen].base = gens[wf.gen].base /\ gens'[wf.gen].frozen = d
        /\ \A h \in Generations : h \notin {g, wf.gen} => gens'[h] = gens[h]
    <3>1. gens'[g] = PrepareGeneration(wf.gen, d)
      BY <1>4, RejectionRows
    <3>2. /\ gens'[g].state = "MUTABLE" /\ gens'[g].frozen = None /\ gens'[g].parent = wf.gen
      BY <3>1 DEF PrepareGeneration
    <3> QED BY <1>4, <3>2, RejectionRows
  <2>3. wf.gen # 0
    BY <2>1, GenerationsNumbered
  <2>4. g # 1 /\ g - 1 = wf.gen
    BY <2>1, <2>3
  <2>5. Store!NewGeneration(g)
    BY <2>2, <2>4 DEF Store!NewGeneration
  <2>6. Store!ChangedGeneration(wf.gen)
    BY <1>2, <2>1, <2>2 DEF Store!ChangedGeneration, Store!CandidateEdges
  <2> QED BY <2>1, <2>2, <2>5, <2>6
<1>5. ASSUME NEW state, NEW frozen, Changed(state, frozen)
      PROVE  \A h \in Generations : Judged(h)
  <2>1. /\ wf.gen \in Generations
        /\ gens'[wf.gen].state = state /\ gens'[wf.gen].frozen = frozen
        /\ gens'[wf.gen].base = gens[wf.gen].base /\ gens'[wf.gen].parent = gens[wf.gen].parent
        /\ \A h \in Generations : h # wf.gen => gens'[h] = gens[h]
    BY <1>5, ChangedRows
  <2>2. /\ <<gens[wf.gen].state, state>> \in Store!CandidateEdges
        /\ state # "FROZEN" => frozen = gens[wf.gen].frozen
        /\ state = "FROZEN" => frozen \in Digests
    BY <1>5 DEF Changed, Store!CandidateChanged, Store!CandidateApplies
  <2>3. /\ state = "FREEZING" => gens[wf.gen].state = "MUTABLE"
        /\ state \in {"REJECTED", "ACCEPTED"} => gens[wf.gen].state = "FROZEN"
        /\ gens[wf.gen].state # "NONE"
    BY <2>2 DEF Store!CandidateEdges, Store!Current
  <2>4. state = "FREEZING" => frozen = None
    BY <2>1, <2>2, <2>3 DEF GenerationsOrdered
  <2>5. state \in {"FROZEN", "REJECTED", "ACCEPTED"} => frozen # None
    BY <1>2, <2>1, <2>2, <2>3 DEF Core, FrozenIdentity
  <2>6. Store!ChangedGeneration(wf.gen)
    BY <2>1, <2>2, <2>4, <2>5 DEF Store!ChangedGeneration
  <2> QED BY <2>1, <2>3, <2>6
<1>6. ASSUME UNCHANGED gens PROVE \A h \in Generations : Judged(h)
  BY <1>6
<1>7. \A h \in Generations : Judged(h)
  <2> HIDE DEF Judged
  <2> QED BY <1>3, <1>4, <1>5, <1>6, CandidateWrites
<1> QED BY <1>1, <1>7 DEF Store!GenerationTriggers

LEMMA CheckedStep ==
  ASSUME Core, VerifiesChecked, Next PROVE VerifiesChecked'
<1>1. plan \in [Procs -> Plan]
  BY DEF Core, TypeOK
<1>2. checks \subseteq checks'
  BY DEF Next, StartGoal, BeginAttempt, RecordAttemptResult, RecordAttemptFailure,
         InterruptAttempt, StartupRecovery, CancelGoal, BeginPlanning, PrepareCandidate,
         BeginCandidateFreeze, BeginEvidenceBuild, RunVerification, BeginFreeze,
         SecondReading, CompleteSourceFreeze, ConfigureLocalVerification, BeginVerification,
         RunCheck, CompleteLocalVerification, BeginObservation, CommitEvidenceSet,
         EvaluateAcceptance, BeginConsumption, CommitIntegrityFailure, CloseAcceptedGoal,
         BeginAcceptanceRepair, BeginResume, ResumeGoal, AbandonCommand, Crash, SourceChange,
         Observed, store
<1>3. CASE UNCHANGED plan
  BY <1>2, <1>3 DEF VerifiesChecked
<1>4. ASSUME NEW p \in Procs, Done(p) PROVE VerifiesChecked'
  BY <1>1, <1>2, <1>4 DEF VerifiesChecked, Done, Idle
<1>5. ASSUME NEW p \in Procs, NEW planned, Begin(p, planned),
             planned.cmd = "VERIFY" => planned.gen \in checks
      PROVE  VerifiesChecked'
  BY <1>1, <1>2, <1>5 DEF VerifiesChecked, Begin
<1>6. ASSUME NEW p \in Procs, NEW o \in Obligations, BeginVerification(p, o)
      PROVE  VerifiesChecked'
  BY <1>5, <1>6 DEF BeginVerification, Planned, Idle
<1>7. ASSUME NEW p \in Procs, BeginFreeze(p) \/ BeginResume(p) PROVE VerifiesChecked'
  BY <1>5, <1>7 DEF BeginFreeze, BeginResume, Planned, Idle
<1>8. ASSUME NEW p \in Procs, NEW cmd \in {"EVIDENCE_SET", "EVALUATE"}, BeginObservation(p, cmd)
      PROVE  VerifiesChecked'
  BY <1>5, <1>8 DEF BeginObservation, Planned, Idle
<1>9. ASSUME NEW p \in Procs, NEW cmd \in {"CLOSE", "REPAIR"}, NEW d, BeginConsumption(p, cmd, d)
      PROVE  VerifiesChecked'
  BY <1>5, <1>9 DEF BeginConsumption, Planned, Idle
<1>10. ASSUME NEW p \in Procs, SecondReading(p) \/ RunCheck(p) PROVE VerifiesChecked'
  <2>1. plan[p] \in Plan
    BY <1>1
  <2>2. PICK second, x : plan' = [plan EXCEPT ![p] = [@ EXCEPT !.second = second, !.result = x]]
    BY <1>10 DEF SecondReading, RunCheck
  <2>3. LET r == [plan[p] EXCEPT !.second = second, !.result = x] IN
          r.cmd = plan[p].cmd /\ r.gen = plan[p].gen
    BY <2>1 DEF Plan
  <2>4. \A q \in Procs : plan'[q].cmd = plan[q].cmd /\ plan'[q].gen = plan[q].gen
    BY <1>1, <2>2, <2>3
  <2> QED BY <1>2, <2>4 DEF VerifiesChecked
<1>11. ASSUME \/ \E a \in Attempts : StartGoal(a) \/ \E p \in Procs : BeginAttempt(p, a)
              \/ RecordAttemptResult \/ \E f \in FailureClasses : RecordAttemptFailure(f)
              \/ \E s \in {"READY", "BLOCKED"} : InterruptAttempt(s)
              \/ StartupRecovery \/ CancelGoal \/ BeginPlanning \/ BeginEvidenceBuild
              \/ BeginCandidateFreeze
              \/ \E g \in Generations, d \in Digests : PrepareCandidate(g, d)
              \/ \E o \in Obligations, result \in Results \union {"PROTOCOL_ERROR"} :
                   RunVerification(o, result)
              \/ \E p \in Procs : ConfigureLocalVerification(p)
              \/ \E d \in Digests : SourceChange(d)
       PROVE  UNCHANGED plan
  BY <1>11 DEF StartGoal, BeginAttempt, RecordAttemptResult, RecordAttemptFailure,
               InterruptAttempt, StartupRecovery, CancelGoal, BeginPlanning,
               BeginEvidenceBuild, BeginCandidateFreeze, PrepareCandidate, RunVerification,
               ConfigureLocalVerification, SourceChange
<1>12. ASSUME NEW p \in Procs,
              \/ CompleteSourceFreeze(p) \/ CompleteLocalVerification(p)
              \/ CommitEvidenceSet(p) \/ EvaluateAcceptance(p) \/ CommitIntegrityFailure(p)
              \/ CloseAcceptedGoal(p) \/ \E g \in Generations : BeginAcceptanceRepair(p, g)
              \/ ResumeGoal(p) \/ AbandonCommand(p) \/ Crash(p)
       PROVE  Done(p)
  BY <1>12
     DEF CompleteSourceFreeze, CompleteLocalVerification, CommitEvidenceSet, EvaluateAcceptance,
         CommitIntegrityFailure, CloseAcceptedGoal, BeginAcceptanceRepair, ResumeGoal,
         AbandonCommand, Crash
<1> QED
  BY <1>3, <1>4, <1>6, <1>7, <1>8, <1>9, <1>10, <1>11, <1>12 DEF Next

-----------------------------------------------------------------------------
(* Phases, Evidence Sets, decisions and repairs *)

LEMMA PhaseStays ==
  ASSUME Core, Next
  PROVE  \/ wf'.phase = wf.phase /\ wf'.gen = wf.gen
         \/ BeginPlanning \/ BeginEvidenceBuild \/ BeginCandidateFreeze
         \/ \E g \in Generations, d \in Digests : PrepareCandidate(g, d)
         \/ \E p \in Procs :
              \/ CommitEvidenceSet(p) \/ CloseAcceptedGoal(p)
              \/ \E g \in Generations : BeginAcceptanceRepair(p, g)
<1> DEFINE Stays == wf'.phase = wf.phase /\ wf'.gen = wf.gen
<1>1. ASSUME NEW a \in Attempts, Start(a) PROVE Stays
  BY <1>1 DEF Start, Advance, Core, TypeOK, Workflow
<1>2. ASSUME NEW status, NEW failure, NEW s \in RunStatuses, FinishAttempt(status, failure, s)
      PROVE  Stays
  BY <1>2, FinishWorkflow
<1>3. CASE CancelGoal \/ \E p \in Procs : ResumeGoal(p) \/ CommitIntegrityFailure(p)
  BY <1>3 DEF CancelGoal, ResumeGoal, CommitIntegrityFailure, Advance, Core, TypeOK, Workflow
<1>4. CASE \E a \in Attempts : StartGoal(a) \/ \E p \in Procs : BeginAttempt(p, a)
  BY <1>1, <1>4 DEF StartGoal, BeginAttempt
<1>5. CASE \/ RecordAttemptResult \/ \E f \in FailureClasses : RecordAttemptFailure(f)
           \/ \E s \in {"READY", "BLOCKED"} : InterruptAttempt(s) \/ StartupRecovery
  BY <1>2, <1>5 DEF RecordAttemptResult, RecordAttemptFailure, InterruptAttempt, StartupRecovery,
                    ResultingRunStatus, RunStatuses
<1>6. CASE \E o \in Obligations, result \in Results \union {"PROTOCOL_ERROR"} :
             RunVerification(o, result)
  BY <1>2, <1>6 DEF RunVerification, ResultingRunStatus, RunStatuses
<1>7. CASE \E p \in Procs : CompleteSourceFreeze(p) \/ CompleteLocalVerification(p)
  BY <1>2, <1>7 DEF CompleteSourceFreeze, CompleteLocalVerification, ResultingRunStatus, RunStatuses
<1>8. ASSUME NEW p \in Procs,
             \/ BeginFreeze(p) \/ SecondReading(p) \/ ConfigureLocalVerification(p)
             \/ \E o \in Obligations : BeginVerification(p, o)
             \/ RunCheck(p)
             \/ \E cmd \in {"EVIDENCE_SET", "EVALUATE"} : BeginObservation(p, cmd)
             \/ EvaluateAcceptance(p)
             \/ \E cmd \in {"CLOSE", "REPAIR"}, d \in decisions : BeginConsumption(p, cmd, d)
             \/ BeginResume(p) \/ AbandonCommand(p) \/ Crash(p)
      PROVE  Stays
  BY <1>8 DEF BeginFreeze, SecondReading, ConfigureLocalVerification, BeginVerification, RunCheck,
              BeginObservation, EvaluateAcceptance, BeginConsumption, BeginResume, AbandonCommand,
              Crash, Observed, store
<1>9. ASSUME NEW d \in Digests, SourceChange(d) PROVE Stays
  BY <1>9 DEF SourceChange, store
<1> QED BY <1>3, <1>4, <1>5, <1>6, <1>7, <1>8, <1>9 DEF Next

(* The records that only one command writes. *)
LEMMA RecordWrites ==
  ASSUME Next
  PROVE  /\ UNCHANGED decisions \/ \E p \in Procs : EvaluateAcceptance(p)
         /\ UNCHANGED checks \/ \E p \in Procs : ConfigureLocalVerification(p)
         /\ UNCHANGED repairs \/ \E p \in Procs, g \in Generations : BeginAcceptanceRepair(p, g)
<1>1. ASSUME \/ \E a \in Attempts : StartGoal(a) \/ \E p \in Procs : BeginAttempt(p, a)
             \/ RecordAttemptResult \/ \E f \in FailureClasses : RecordAttemptFailure(f)
             \/ \E s \in {"READY", "BLOCKED"} : InterruptAttempt(s)
             \/ StartupRecovery \/ CancelGoal \/ BeginPlanning \/ BeginEvidenceBuild
             \/ BeginCandidateFreeze
             \/ \E g \in Generations, d \in Digests : PrepareCandidate(g, d)
             \/ \E o \in Obligations, result \in Results \union {"PROTOCOL_ERROR"} :
                  RunVerification(o, result)
             \/ \E d \in Digests : SourceChange(d)
      PROVE  UNCHANGED <<checks, decisions, repairs>>
  BY <1>1 DEF StartGoal, BeginAttempt, RecordAttemptResult, RecordAttemptFailure,
              InterruptAttempt, StartupRecovery, CancelGoal, BeginPlanning, BeginEvidenceBuild,
              BeginCandidateFreeze, PrepareCandidate, RunVerification, SourceChange, store
<1>2. ASSUME NEW p \in Procs,
             \/ BeginFreeze(p) \/ SecondReading(p) \/ CompleteSourceFreeze(p)
             \/ \E o \in Obligations : BeginVerification(p, o)
             \/ RunCheck(p) \/ CompleteLocalVerification(p)
             \/ \E cmd \in {"EVIDENCE_SET", "EVALUATE"} : BeginObservation(p, cmd)
             \/ CommitEvidenceSet(p) \/ CommitIntegrityFailure(p)
             \/ \E cmd \in {"CLOSE", "REPAIR"}, d \in decisions : BeginConsumption(p, cmd, d)
             \/ CloseAcceptedGoal(p) \/ BeginResume(p) \/ ResumeGoal(p)
             \/ AbandonCommand(p) \/ Crash(p)
      PROVE  UNCHANGED <<checks, decisions, repairs>>
  BY <1>2
     DEF BeginFreeze, SecondReading, CompleteSourceFreeze, BeginVerification, RunCheck,
         CompleteLocalVerification, BeginObservation, CommitEvidenceSet, CommitIntegrityFailure,
         BeginConsumption, CloseAcceptedGoal, BeginResume, ResumeGoal, AbandonCommand, Crash,
         Observed, store
<1>3. ASSUME NEW p \in Procs, EvaluateAcceptance(p) PROVE UNCHANGED <<checks, repairs>>
  BY <1>3 DEF EvaluateAcceptance
<1>4. ASSUME NEW p \in Procs, ConfigureLocalVerification(p) PROVE UNCHANGED <<decisions, repairs>>
  BY <1>4 DEF ConfigureLocalVerification
<1>5. ASSUME NEW p \in Procs, NEW g \in Generations, BeginAcceptanceRepair(p, g)
      PROVE  UNCHANGED <<checks, decisions>>
  BY <1>5 DEF BeginAcceptanceRepair
<1> QED BY <1>1, <1>2, <1>3, <1>4, <1>5 DEF Next

LEMMA EvidenceShapedStep ==
  ASSUME Core, EvidenceShaped, Next PROVE EvidenceShaped'
<1>1. Results \subseteq Store!Statuses
  <2> DEFINE Run(termination, accepted) ==
        [termination |-> termination, accepted |-> accepted, truncated |-> FALSE, limit |-> FALSE]
  <2>1. /\ Run("EXITED", TRUE) \in Store!Observations
        /\ Run("EXITED", FALSE) \in Store!Observations
        /\ Run("SIGNALED", None) \in Store!Observations
    BY NoneAssumption DEF Store!Observations
  <2>2. /\ Store!StatusForObservation(Run("EXITED", TRUE)) = "PASS"
        /\ Store!StatusForObservation(Run("EXITED", FALSE)) = "FAIL"
        /\ Store!StatusForObservation(Run("SIGNALED", None)) = "RUNNER_ERROR"
    BY DEF Store!StatusForObservation
  <2> HIDE DEF Run
  <2> QED BY <2>1, <2>2 DEF Store!Statuses, Results
<1>2. CASE EvidenceKept
  BY <1>2 DEF EvidenceKept, EvidenceShaped
<1>3. CASE EvidenceAdded
  BY <1>1, <1>3 DEF EvidenceAdded, RecordEvidence, EvidenceShaped, Store!EvidenceRecord
<1> QED BY <1>2, <1>3, EvidenceWrites

LEMMA RepairWrites ==
  ASSUME Core, CandidateLineage, GenerationsOrdered,
         NEW p \in Procs, NEW g \in Generations, BeginAcceptanceRepair(p, g)
  PROVE  \E d \in decisions :
           /\ d = CurrentDecision /\ d = plan[p].decision /\ d.outcome = "REJECT_REPAIRABLE"
           /\ repairs' = repairs \union {[version |-> wf.version + 1, decision |-> d, child |-> g]}
           /\ wf.gen \in Generations /\ wf.gen \in Nat /\ g = wf.gen + 1
           /\ wf'.version = wf.version + 1 /\ wf'.phase = "IMPLEMENT" /\ wf'.gen = g
           /\ wf'.status = "READY" /\ wf'.attempt = None /\ Rejected(g, gens[wf.gen].frozen)
<1>1. /\ plan[p].decision \in decisions /\ plan[p].decision.outcome = "REJECT_REPAIRABLE"
      /\ plan[p].decision = CurrentDecision
  BY DEF BeginAcceptanceRepair, Consumable, Consumes, DecisionCurrent
<1>2. wf.gen \in Generations /\ gens[wf.gen].state = "FROZEN"
  BY Active DEF BeginAcceptanceRepair, Commit, Committable, ActiveState
<1>3. wf.gen \in Nat /\ g = wf.gen + 1
  BY <1>2, FreshIsNext, ConstantsAssumption DEF BeginAcceptanceRepair
<1>4. wf.status = "READY" /\ wf.attempt = None
  BY DEF BeginAcceptanceRepair, Commit, Committable, Ready, Core, AuthorityCoherent
<1>5. /\ wf'.version = wf.version + 1 /\ wf'.phase = "IMPLEMENT" /\ wf'.gen = g
      /\ wf'.status = "READY" /\ wf'.attempt = None
  BY <1>4 DEF BeginAcceptanceRepair, Advance, Core, TypeOK, Workflow
<1>6. plan[p].first = gens[wf.gen].frozen
  BY DEF BeginAcceptanceRepair, Commit, SourceDrifted
<1>7. Rejected(g, gens[wf.gen].frozen)
  BY <1>2, <1>5, <1>6 DEF BeginAcceptanceRepair, Rejected
<1>8. repairs' = repairs \union {[version |-> wf.version + 1, decision |-> plan[p].decision,
                                   child |-> g]}
  BY DEF BeginAcceptanceRepair
<1> QED BY <1>1, <1>2, <1>3, <1>5, <1>7, <1>8

LEMMA RepairsShapedStep ==
  ASSUME Core, CandidateLineage, GenerationsOrdered, RepairsShaped, Next PROVE RepairsShaped'
<1>1. wf.version \in Nat /\ \A r \in repairs : r.version \in Nat
  BY Numbers DEF Core, TypeOK, Repair
<1>2. wf'.version = wf.version \/ wf'.version = wf.version + 1
  BY VersionStep DEF Consumed
<1>3. CASE UNCHANGED repairs
  BY <1>1, <1>2, <1>3 DEF RepairsShaped
<1>4. ASSUME NEW p \in Procs, NEW g \in Generations, BeginAcceptanceRepair(p, g)
      PROVE  RepairsShaped'
  <2>1. PICK d \in decisions :
          /\ d = CurrentDecision
          /\ repairs' = repairs \union {[version |-> wf.version + 1, decision |-> d, child |-> g]}
          /\ wf.gen \in Generations /\ wf.gen \in Nat /\ g = wf.gen + 1
          /\ wf'.version = wf.version + 1
    BY <1>4, RepairWrites
  <2>2. d.gen = wf.gen /\ g # wf.gen /\ g >= 2
    BY <2>1, GenerationsNumbered DEF CurrentDecision
  <2> QED BY <1>1, <2>1, <2>2 DEF RepairsShaped, Store!RepairRecord
<1> QED BY <1>3, <1>4, RecordWrites

LEMMA DecisionsReissuedStep ==
  ASSUME Core, DecisionsReissued, Next PROVE DecisionsReissued'
<1>1. wf.version \in Nat /\ \A d \in decisions : d.version \in Nat
  BY Numbers DEF Core, TypeOK, Decision
<1>2. ASSUME NEW p \in Procs, EvaluateAcceptance(p) PROVE DecisionsReissued'
  <2>1. decisions' = decisions \union {CurrentDecision}
    BY <1>2 DEF EvaluateAcceptance
  <2>2. CurrentDecision' = CurrentDecision /\ UNCHANGED wf
    BY <1>2 DEF EvaluateAcceptance, CurrentDecision, EvidenceRuleOutcome, SetRecords, Unaccounted
  <2> HIDE DEF CurrentDecision
  <2> QED BY <2>1, <2>2 DEF DecisionsReissued
<1>3. CASE UNCHANGED decisions
  <2>1. \A d \in decisions : d.version < wf.version + 1
    BY <1>1 DEF DecisionsReissued, CurrentDecision
  <2>2. CASE wf'.version = wf.version + 1
    BY <1>3, <2>1, <2>2 DEF DecisionsReissued
  <2>3. CASE UNCHANGED Consumed
    <3>1. CurrentDecision' = CurrentDecision
      BY <2>3 DEF Consumed, CurrentDecision, EvidenceRuleOutcome, SetRecords, Unaccounted
    <3> QED BY <1>3, <2>3, <3>1 DEF DecisionsReissued, Consumed
  <2> QED BY <2>2, <2>3, VersionStep
<1> QED BY <1>2, <1>3, RecordWrites

(* The records of a set stay the ones it was recorded with. *)
LEMMA SetRecordsStay ==
  ASSUME Core, EvidenceBindsFrozen, SetsBind, Next, NEW g \in Generations, sets'[g] = sets[g]
  PROVE  SetRecords(g)' = SetRecords(g)
<1>1. CASE EvidenceKept
  BY <1>1 DEF EvidenceKept, SetRecords
<1>2. CASE EvidenceAdded
  <2>1. PICK e : evidence' = evidence \union {e} /\ e.attempt = wf.attempt
    <3>1. PICK kind, o, result : RecordEvidence(kind, o, gens'[wf.gen].frozen, result)
      BY <1>2 DEF EvidenceAdded
    <3> DEFINE new == [attempt |-> wf.attempt, gen |-> wf.gen, kind |-> kind, obligation |-> o,
                       digest |-> gens'[wf.gen].frozen, result |-> result]
    <3>2. evidence' = evidence \union {new}
      BY <3>1 DEF RecordEvidence
    <3>3. new.attempt = wf.attempt
      OBVIOUS
    <3> QED BY <3>2, <3>3
  <2>2. attempts[wf.attempt].status = "RUNNING"
    BY <1>2 DEF EvidenceAdded
  <2>3. wf.attempt \notin sets[g]
    BY <2>2 DEF SetsBind, EvidenceBindsFrozen
  <2> QED BY <2>1, <2>3 DEF SetRecords
<1> QED BY <1>1, <1>2, EvidenceWrites

LEMMA SetWrites ==
  ASSUME Core, EvidenceBindsFrozen, EvidenceShaped, NEW p \in Procs, CommitEvidenceSet(p)
  PROVE  /\ wf.gen \in Generations /\ gens[wf.gen].state = "FROZEN"
         /\ gens[wf.gen].frozen \in Digests
         /\ wf.status = "READY" /\ wf.phase = "EVIDENCE_BUILD" /\ wf.attempt = None
         /\ wf'.version = wf.version + 1 /\ wf'.phase = "FINAL_VERIFY" /\ wf'.status = "READY"
         /\ wf'.gen = wf.gen /\ wf'.attempt = None
         /\ sets' = [sets EXCEPT ![wf.gen] = {e.attempt : e \in TestEvidence(wf.gen)}]
         /\ {e \in evidence : e.attempt \in sets'[wf.gen]} = TestEvidence(wf.gen)
         /\ \A e \in TestEvidence(wf.gen) : e.obligation \in Obligations
         /\ \A o \in Obligations : \E e \in TestEvidence(wf.gen) : e.obligation = o
         /\ TestEvidence(wf.gen) # {} /\ sets'[wf.gen] # {}
         /\ LocalCommand => wf.gen \in checks
<1>1. wf.gen \in Generations /\ gens[wf.gen].state = "FROZEN" /\ gens[wf.gen].frozen \in Digests
  BY Active DEF CommitEvidenceSet, Commit, Committable, ActiveState
<1>2. wf.status = "READY" /\ wf.phase = "EVIDENCE_BUILD" /\ wf.attempt = None
  BY DEF CommitEvidenceSet, Commit, Committable, Ready, ObservingPhase, Core, AuthorityCoherent
<1>3. /\ wf'.version = wf.version + 1 /\ wf'.phase = "FINAL_VERIFY" /\ wf'.status = "READY"
      /\ wf'.gen = wf.gen /\ wf'.attempt = None
  BY <1>2 DEF CommitEvidenceSet, EnterPhase, Advance, Core, TypeOK, Workflow
<1>4. sets' = [sets EXCEPT ![wf.gen] = {e.attempt : e \in TestEvidence(wf.gen)}]
  BY DEF CommitEvidenceSet
<1>5. sets'[wf.gen] = {e.attempt : e \in TestEvidence(wf.gen)}
  BY <1>1, <1>4 DEF Core, TypeOK
<1>6. \A e \in evidence : \A f \in evidence : f.attempt = e.attempt => f = e
  BY DEF EvidenceBindsFrozen
<1>7. TestEvidence(wf.gen) \subseteq evidence
  BY DEF TestEvidence, EligibleOf, EvidenceOf
<1>8. {e \in evidence : e.attempt \in sets'[wf.gen]} = TestEvidence(wf.gen)
  BY <1>5, <1>6, <1>7
<1>9. \A e \in TestEvidence(wf.gen) : e.obligation \in Obligations
  BY DEF TestEvidence, EligibleOf, EvidenceOf, EvidenceShaped, Store!EvidenceRecord
<1>10. /\ \A o \in Obligations : \E e \in TestEvidence(wf.gen) : e.obligation = o
       /\ LocalCommand => wf.gen \in checks
  BY DEF CommitEvidenceSet, Accountable, ObligationsAccounted, Covered
<1>11. TestEvidence(wf.gen) # {}
  BY <1>10, ConstantsAssumption
<1> QED BY <1>1, <1>2, <1>3, <1>4, <1>5, <1>8, <1>9, <1>10, <1>11

LEMMA SetsShapedStep ==
  ASSUME Core, CandidateLineage, GenerationsOrdered, EvidenceBindsFrozen, SetsBind,
         EvidenceShaped, SetsShaped, Next
  PROVE  SetsShaped'
<1> DEFINE InSet(phase) == phase \in {"FINAL_VERIFY", "CLOSEOUT"}
<1>1. \A g \in Generations : gens'[g].state = "NONE" => gens[g].state = "NONE"
  BY GenerationStep DEF GenerationsMove, GenerationMove
<1>2. checks \subseteq checks'
  BY RecordWrites DEF ConfigureLocalVerification
<1>3. ASSUME UNCHANGED sets
      PROVE  \A g \in Generations :
               /\ gens'[g].state = "NONE" => sets'[g] = {}
               /\ sets'[g] # {} => Store!EvidenceSetRecord(SetRecords(g)')
  <2>1. ASSUME NEW g \in Generations PROVE SetRecords(g)' = SetRecords(g)
    BY <1>3, SetRecordsStay
  <2>2. \A g \in Generations : SetRecords(g)' = SetRecords(g)
    BY <2>1
  <2> QED BY <1>1, <1>3, <2>2 DEF SetsShaped
<1>4. ASSUME UNCHANGED sets, wf'.gen = wf.gen, InSet(wf'.phase) <=> InSet(wf.phase)
      PROVE  SetsShaped'
  <2>1. wf'.gen # None => (sets'[wf'.gen] # {} <=> InSet(wf'.phase))
    BY <1>4 DEF SetsShaped
  <2>2. LocalCommand /\ InSet(wf'.phase) => wf'.gen \in checks'
    BY <1>2, <1>4 DEF SetsShaped
  <2> QED BY <1>3, <1>4, <2>1, <2>2 DEF SetsShaped
<1>5. ASSUME NEW g \in Generations, FreshGeneration(g), wf'.gen = g, wf'.phase = "IMPLEMENT",
             UNCHANGED sets
      PROVE  SetsShaped'
  <2>1. sets[g] = {}
    BY <1>5, FreshIsNext DEF SetsShaped
  <2> QED BY <1>3, <1>5, <2>1 DEF SetsShaped
<1>6. ASSUME NEW p \in Procs, CommitEvidenceSet(p) PROVE SetsShaped'
  <2>1. /\ wf.gen \in Generations /\ gens[wf.gen].state = "FROZEN" /\ wf'.gen = wf.gen
        /\ wf'.phase = "FINAL_VERIFY" /\ sets'[wf.gen] # {}
        /\ LocalCommand => wf.gen \in checks
        /\ {e \in evidence : e.attempt \in sets'[wf.gen]} = TestEvidence(wf.gen)
        /\ sets' = [sets EXCEPT ![wf.gen] = {e.attempt : e \in TestEvidence(wf.gen)}]
        /\ Store!EvidenceSetRecord(TestEvidence(wf.gen))
    BY <1>6, SetWrites DEF Store!EvidenceSetRecord
  <2>2. UNCHANGED <<gens, checks, evidence>>
    BY <1>6 DEF CommitEvidenceSet
  <2>3. \A g \in Generations : g # wf.gen => sets'[g] = sets[g]
    BY <2>1 DEF Core, TypeOK
  <2>4. ASSUME NEW g \in Generations
        PROVE  /\ gens'[g].state = "NONE" => sets'[g] = {}
               /\ sets'[g] # {} => Store!EvidenceSetRecord(SetRecords(g)')
    <3>1. CASE g = wf.gen
      <4>1. SetRecords(g)' = TestEvidence(wf.gen)
        BY <2>1, <2>2, <3>1 DEF SetRecords
      <4> QED BY <2>1, <2>2, <3>1, <4>1
    <3>2. CASE g # wf.gen
      <4>1. SetRecords(g)' = SetRecords(g)
        BY <1>6, <2>3, <3>2, SetRecordsStay DEF Next
      <4> QED BY <2>2, <2>3, <3>2, <4>1 DEF SetsShaped
    <3> QED BY <3>1, <3>2
  <2> QED BY <2>1, <2>2, <2>4 DEF SetsShaped
<1>7. CASE \E p \in Procs : CommitEvidenceSet(p)
  BY <1>6, <1>7
<1>8. CASE UNCHANGED sets
  <2>1. CASE BeginPlanning \/ BeginEvidenceBuild \/ BeginCandidateFreeze
    BY <1>4, <1>8, <2>1 DEF BeginPlanning, BeginEvidenceBuild, BeginCandidateFreeze, EnterPhase,
                            Ready, Advance, Core, TypeOK, Workflow
  <2>2. ASSUME NEW p \in Procs, CloseAcceptedGoal(p) PROVE SetsShaped'
    <3>1. wf.phase = "FINAL_VERIFY"
      BY <2>2 DEF CloseAcceptedGoal, Commit, Committable, Ready, ObservingPhase
    <3>2. wf'.phase = "CLOSEOUT" /\ wf'.gen = wf.gen
      BY <2>2 DEF CloseAcceptedGoal, Advance, Core, TypeOK, Workflow
    <3> QED BY <1>4, <1>8, <3>1, <3>2
  <2>3. ASSUME NEW g \in Generations, NEW d \in Digests, PrepareCandidate(g, d) PROVE SetsShaped'
    <3>1. FreshGeneration(g) /\ wf'.gen = g /\ wf'.phase = "IMPLEMENT"
      BY <2>3 DEF PrepareCandidate, Advance, Core, TypeOK, Workflow
    <3> QED BY <1>5, <1>8, <3>1
  <2>4. ASSUME NEW p \in Procs, NEW g \in Generations, BeginAcceptanceRepair(p, g)
        PROVE  SetsShaped'
    <3>1. FreshGeneration(g) /\ wf'.gen = g /\ wf'.phase = "IMPLEMENT"
      BY <2>4 DEF BeginAcceptanceRepair, Advance, Core, TypeOK, Workflow
    <3> QED BY <1>5, <1>8, <3>1
  <2>5. CASE wf'.phase = wf.phase /\ wf'.gen = wf.gen
    BY <1>4, <1>8, <2>5
  <2> QED BY <1>7, <2>1, <2>2, <2>3, <2>4, <2>5, PhaseStays
<1> QED BY <1>7, <1>8, SetsWrites

LEMMA StoreInvariantStep == ASSUME StoreInvariant, Next PROVE StoreInvariant'
<1>1. Grounded'
  BY GroundedStep DEF StoreInvariant
<1>2. AttemptsShaped' /\ EndedHere'
  BY AttemptsShapedStep, EndedHereStep DEF StoreInvariant, Grounded
<1>3. GenerationsOrdered'
  BY GenerationsOrderedStep DEF StoreInvariant, Grounded
<1>4. VerifiesChecked' /\ EvidenceShaped'
  BY CheckedStep, EvidenceShapedStep DEF StoreInvariant, Grounded
<1>5. SetsShaped'
  BY SetsShapedStep DEF StoreInvariant, Grounded, FrozenInvariant, ClosedInvariant
<1>6. DecisionsReissued' /\ RepairsShaped'
  BY DecisionsReissuedStep, RepairsShapedStep DEF StoreInvariant, Grounded
<1> QED BY <1>1, <1>2, <1>3, <1>4, <1>5, <1>6 DEF StoreInvariant

LEMMA StoreInvariantInit == Init => StoreInvariant
<1> SUFFICES ASSUME Init PROVE StoreInvariant
  OBVIOUS
<1>2. Grounded
  <2>1. FrozenInvariant /\ ClosedInvariant
    BY DEF Init, FrozenInvariant, FrozenState, ClosedInvariant, SetsBind, CloseoutSound,
           EvidenceBindsFrozen
  <2> QED BY <2>1, CoreInit, LineageInit, BoundaryInit DEF Grounded
<1>3. AttemptsShaped /\ EndedHere
  BY DEF Init, AttemptsShaped, EndedHere
<1>4. GenerationsOrdered
  BY ConstantsAssumption DEF Init, GenerationsOrdered
<1>5. VerifiesChecked /\ EvidenceShaped /\ DecisionsReissued /\ RepairsShaped
  BY DEF Init, VerifiesChecked, EvidenceShaped, DecisionsReissued, RepairsShaped, Idle
<1>6. SetsShaped
  BY DEF Init, SetsShaped
<1> QED BY <1>2, <1>3, <1>4, <1>5, <1>6 DEF StoreInvariant

-----------------------------------------------------------------------------
(* The triggers *)

LEMMA AddedRecord ==
  ASSUME Core, EvidenceBindsFrozen, EvidenceAdded
  PROVE  \E e : /\ evidence' = evidence \union {e} /\ eligible' = eligible \union {e.attempt}
                /\ e \notin evidence /\ e.attempt = wf.attempt /\ e.gen = wf.gen
                /\ e.digest = gens'[wf.gen].frozen
                /\ \/ e.kind = "CANDIDATE_FREEZE" /\ wf.phase = "SOURCE_FREEZE"
                      /\ e.obligation = None /\ e.result = "OBSERVED"
                   \/ e.kind = "TEST_RESULT" /\ wf.phase = "EVIDENCE_BUILD"
                      /\ e.obligation \in Obligations /\ e.result \in Results
<1>1. PICK kind, o, result :
        /\ \/ kind = "CANDIDATE_FREEZE" /\ wf.phase = "SOURCE_FREEZE"
              /\ o = None /\ result = "OBSERVED"
           \/ kind = "TEST_RESULT" /\ wf.phase = "EVIDENCE_BUILD"
              /\ o \in Obligations /\ result \in Results
        /\ RecordEvidence(kind, o, gens'[wf.gen].frozen, result)
  BY DEF EvidenceAdded
<1> DEFINE new == [attempt |-> wf.attempt, gen |-> wf.gen, kind |-> kind, obligation |-> o,
                   digest |-> gens'[wf.gen].frozen, result |-> result]
<1>2. evidence' = evidence \union {new} /\ eligible' = eligible \union {wf.attempt}
  BY <1>1 DEF RecordEvidence
<1>3. /\ new.attempt = wf.attempt /\ new.gen = wf.gen /\ new.kind = kind
      /\ new.obligation = o /\ new.digest = gens'[wf.gen].frozen /\ new.result = result
  OBVIOUS
<1>4. new \notin evidence
  BY <1>3 DEF EvidenceAdded, EvidenceBindsFrozen
<1> HIDE DEF new
<1> QED BY <1>1, <1>2, <1>3, <1>4

LEMMA EvidenceTriggersAccept ==
  ASSUME Core, EvidenceBindsFrozen, Next
  PROVE  Store!EvidenceTriggers /\ Store!EligibilityTriggers /\ Store!EligibilityDecoded
<1>1. CASE EvidenceKept
  BY <1>1 DEF EvidenceKept, Store!EvidenceTriggers, Store!EligibilityTriggers,
              Store!EligibilityDecoded, Store!EligibilityChange
<1>2. CASE EvidenceAdded
  <2>1. PICK e : /\ evidence' = evidence \union {e} /\ eligible' = eligible \union {e.attempt}
                 /\ e \notin evidence /\ e.attempt = wf.attempt /\ e.gen = wf.gen
                 /\ e.digest = gens'[wf.gen].frozen
                 /\ \/ e.kind = "CANDIDATE_FREEZE" /\ wf.phase = "SOURCE_FREEZE"
                       /\ e.obligation = None /\ e.result = "OBSERVED"
                    \/ e.kind = "TEST_RESULT" /\ wf.phase = "EVIDENCE_BUILD"
                       /\ e.obligation \in Obligations /\ e.result \in Results
    BY <1>2, AddedRecord
  <2>2. /\ attempts[wf.attempt].status = "RUNNING" /\ attempts[wf.attempt].phase = wf.phase
        /\ gens'[wf.gen].state = "FROZEN"
    BY <1>2, ConstantsAssumption DEF EvidenceAdded, Core, AuthorityCoherent
  <2>3. evidence' \ evidence = {e}
    BY <2>1
  <2>4. Store!EvidenceTriggers
    BY <2>1, <2>2, <2>3 DEF Store!EvidenceTriggers, Results
  <2>5. {f.attempt : f \in evidence' \ evidence} = {e.attempt}
    BY <2>3
  <2>6. eligible' \ eligible \subseteq {e.attempt} /\ eligible' \subseteq eligible \union {e.attempt}
    BY <2>1
  <2> QED BY <2>4, <2>5, <2>6 DEF Store!EligibilityTriggers, Store!EligibilityDecoded,
                                   Store!EligibilityChange
<1> QED BY <1>1, <1>2, EvidenceWrites

LEMMA EvidenceSetTriggersAccept ==
  ASSUME Core, EvidenceBindsFrozen, EvidenceShaped, SetsShaped, Next
  PROVE  Store!EvidenceSetTriggers
<1>1. CASE UNCHANGED sets
  BY <1>1 DEF Store!EvidenceSetTriggers
<1>2. ASSUME NEW p \in Procs, CommitEvidenceSet(p) PROVE Store!EvidenceSetTriggers
  <2>1. /\ wf.gen \in Generations /\ gens[wf.gen].state = "FROZEN"
        /\ wf.phase = "EVIDENCE_BUILD"
        /\ sets' = [sets EXCEPT ![wf.gen] = {e.attempt : e \in TestEvidence(wf.gen)}]
        /\ {e \in evidence : e.attempt \in sets'[wf.gen]} = TestEvidence(wf.gen)
        /\ \A e \in TestEvidence(wf.gen) : e.obligation \in Obligations
        /\ \A o \in Obligations : \E e \in TestEvidence(wf.gen) : e.obligation = o
    BY <1>2, SetWrites
  <2>2. \A g \in Generations : g # wf.gen => sets'[g] = sets[g]
    BY <2>1 DEF Core, TypeOK
  <2>3. sets[wf.gen] = {}
    BY <2>1, ConstantsAssumption DEF SetsShaped
  <2>4. \A e \in TestEvidence(wf.gen) :
          /\ e.gen = wf.gen /\ e.digest = gens[wf.gen].frozen
          /\ e.obligation # None /\ e.attempt \in eligible
    <3>1. \A e \in TestEvidence(wf.gen) : e \in evidence /\ e.gen = wf.gen /\ e.attempt \in eligible
      BY DEF TestEvidence, EligibleOf, EvidenceOf
    <3> QED BY <2>1, <3>1, ConstantsAssumption DEF EvidenceBindsFrozen
  <2> HIDE DEF TestEvidence
  <2> QED BY <2>1, <2>2, <2>3, <2>4 DEF Store!EvidenceSetTriggers
<1> QED BY <1>1, <1>2, SetsWrites

LEMMA DecisionTriggersAccept == ASSUME Core, Next PROVE Store!DecisionTriggers
<1>1. ASSUME NEW p \in Procs, EvaluateAcceptance(p) PROVE Store!DecisionTriggers
  <2>1. /\ wf.phase = "FINAL_VERIFY" /\ wf.status = "READY" /\ gens[wf.gen].state = "FROZEN"
        /\ decisions' = decisions \union {CurrentDecision}
    BY <1>1 DEF EvaluateAcceptance, Commit, Committable, Ready, ActiveState, ObservingPhase
  <2>2. /\ CurrentDecision.version = wf.version /\ CurrentDecision.gen = wf.gen
        /\ CurrentDecision.digest = gens[wf.gen].frozen /\ CurrentDecision.refs = sets[wf.gen]
    BY DEF CurrentDecision
  <2> QED BY <2>1, <2>2 DEF Store!DecisionTriggers
<1> QED BY <1>1, RecordWrites DEF Store!DecisionTriggers

LEMMA ClosingWrites ==
  ASSUME Core, NEW p \in Procs, CloseAcceptedGoal(p)
  PROVE  \E d \in decisions :
           /\ d = CurrentDecision /\ d.outcome = "ACCEPT"
           /\ closeout' = [version |-> wf.version + 1, decision |-> d]
           /\ wf.gen \in Generations /\ gens[wf.gen].state = "FROZEN"
           /\ gens[wf.gen].frozen \in Digests
           /\ wf.phase = "FINAL_VERIFY" /\ wf.status = "READY" /\ wf.attempt = None
           /\ wf' = [wf EXCEPT !.phase = "CLOSEOUT", !.status = "CLOSED", !.version = wf.version + 1]
           /\ wf'.phase = "CLOSEOUT" /\ wf'.status = "CLOSED" /\ wf'.version = wf.version + 1
           /\ gens' = [gens EXCEPT ![wf.gen].state = "ACCEPTED"]
           /\ gens'[wf.gen].state = "ACCEPTED" /\ gens'[wf.gen].frozen = gens[wf.gen].frozen
<1>1. /\ plan[p].decision \in decisions /\ plan[p].decision.outcome = "ACCEPT"
      /\ plan[p].decision = CurrentDecision
  BY DEF CloseAcceptedGoal, Consumable, Consumes, DecisionCurrent
<1>2. /\ wf.gen \in Generations /\ gens[wf.gen].state = "FROZEN" /\ gens[wf.gen].frozen \in Digests
  BY Active DEF CloseAcceptedGoal, Commit, Committable, ActiveState
<1>3. wf.phase = "FINAL_VERIFY" /\ wf.status = "READY" /\ wf.attempt = None
  BY DEF CloseAcceptedGoal, Commit, Committable, Ready, ObservingPhase, Core, AuthorityCoherent
<1>4. /\ wf' = [wf EXCEPT !.phase = "CLOSEOUT", !.status = "CLOSED", !.version = wf.version + 1]
      /\ wf'.phase = "CLOSEOUT" /\ wf'.status = "CLOSED" /\ wf'.version = wf.version + 1
  BY DEF CloseAcceptedGoal, Advance, Core, TypeOK, Workflow
<1>5. gens' = [gens EXCEPT ![wf.gen].state = "ACCEPTED"]
  BY DEF CloseAcceptedGoal
<1>6. gens'[wf.gen].state = "ACCEPTED" /\ gens'[wf.gen].frozen = gens[wf.gen].frozen
  BY <1>2, <1>5 DEF Core, TypeOK, Generation
<1>7. closeout' = [version |-> wf.version + 1, decision |-> plan[p].decision]
  BY DEF CloseAcceptedGoal
<1> QED BY <1>1, <1>2, <1>3, <1>4, <1>5, <1>6, <1>7

LEMMA CloseoutTriggersAccept ==
  ASSUME Core, CloseoutSound, Next PROVE Store!CloseoutTriggers
<1>1. CASE UNCHANGED closeout
  BY <1>1 DEF Store!CloseoutTriggers
<1>2. ASSUME NEW p \in Procs, CloseAcceptedGoal(p) PROVE Store!CloseoutTriggers
  <2>1. PICK d \in decisions :
          /\ d = CurrentDecision /\ d.outcome = "ACCEPT"
          /\ closeout' = [version |-> wf.version + 1, decision |-> d]
          /\ wf.status = "READY"
          /\ wf'.phase = "CLOSEOUT" /\ wf'.status = "CLOSED" /\ wf'.version = wf.version + 1
          /\ gens'[wf.gen].state = "ACCEPTED" /\ gens'[wf.gen].frozen = gens[wf.gen].frozen
    BY <1>2, ClosingWrites
  <2>2. d.version = wf.version /\ d.gen = wf.gen /\ d.digest = gens[wf.gen].frozen
    BY <2>1 DEF CurrentDecision
  <2>3. closeout'.decision = d /\ closeout'.version = wf.version + 1
    BY <2>1
  <2>4. closeout = None
    BY <2>1 DEF CloseoutSound
  <2> QED BY <2>1, <2>2, <2>3, <2>4 DEF Store!CloseoutTriggers
<1>3. CASE wf.status = "CLOSED"
  BY <1>1, <1>3, TerminalStep DEF store
<1> QED BY <1>1, <1>2, <1>3, CloseWrites

LEMMA RepairTriggersAccept ==
  ASSUME Core, CandidateLineage, GenerationsOrdered, Next PROVE Store!RepairTriggers
<1>1. CASE UNCHANGED repairs
  BY <1>1 DEF Store!RepairTriggers
<1>2. ASSUME NEW p \in Procs, NEW g \in Generations, BeginAcceptanceRepair(p, g)
      PROVE  Store!RepairTriggers
  <2>1. PICK d \in decisions :
          /\ d = CurrentDecision /\ d.outcome = "REJECT_REPAIRABLE"
          /\ repairs' = repairs \union {[version |-> wf.version + 1, decision |-> d, child |-> g]}
          /\ wf.gen \in Generations /\ wf.gen \in Nat /\ g = wf.gen + 1
          /\ wf'.version = wf.version + 1 /\ wf'.phase = "IMPLEMENT" /\ wf'.gen = g
          /\ wf'.status = "READY" /\ Rejected(g, gens[wf.gen].frozen)
    BY <1>2, RepairWrites
  <2>2. d.version = wf.version /\ d.gen = wf.gen /\ d.digest = gens[wf.gen].frozen
    BY <2>1 DEF CurrentDecision
  <2>3. /\ gens'[g] = PrepareGeneration(wf.gen, gens[wf.gen].frozen)
        /\ gens'[wf.gen].state = "REJECTED" /\ gens'[wf.gen].frozen = gens[wf.gen].frozen
    BY <2>1, RejectionRows
  <2>4. /\ gens'[g].state = "MUTABLE" /\ gens'[g].parent = wf.gen
        /\ gens'[g].base = gens[wf.gen].frozen
    BY <2>3 DEF PrepareGeneration
  <2> DEFINE made == [version |-> wf.version + 1, decision |-> d, child |-> g]
  <2>5. made.version = wf.version + 1 /\ made.decision = d /\ made.child = g
    OBVIOUS
  <2>6. \A r \in repairs' \ repairs : r = made
    BY <2>1
  <2> HIDE DEF made
  <2> QED BY <2>1, <2>2, <2>3, <2>4, <2>5, <2>6 DEF Store!RepairTriggers
<1> QED BY <1>1, <1>2, RecordWrites

LEMMA WorkflowTriggersAccept ==
  ASSUME Core, AttemptsShaped, Core', CandidateLineage', Boundary', EndedHere', Next
  PROVE  Store!WorkflowTriggers
<1>1. SUFFICES ASSUME wf' # wf
               PROVE  /\ wf.status \notin {"CANCELLED", "CLOSED"} /\ wf'.version <= MaxVersion
                      /\ wf'.status = "RUNNING" <=> wf'.attempt # None
                      /\ Store!ActiveAttemptPhase
                      /\ wf'.gen # None => gens'[wf'.gen].state # "NONE"
                      /\ wf'.phase \notin {"DISCOVERY", "PLAN"} => wf'.gen # None
                      /\ wf'.phase = "CLOSEOUT" <=> wf'.status = "CLOSED"
                      /\ wf.status = "RUNNING" /\ wf'.attempt # wf.attempt => Store!Released
                      /\ Store!RetryBoundaryKept
  BY DEF Store!WorkflowTriggers
<1>2. wf.status \notin {"CANCELLED", "CLOSED"}
  BY <1>1, TerminalStep DEF store
<1>3. wf'.version <= MaxVersion
  BY ConstantsAssumption DEF Core, TypeOK, Workflow
<1>4. /\ wf'.status = "RUNNING" <=> wf'.attempt # None
      /\ wf'.phase = "CLOSEOUT" <=> wf'.status = "CLOSED"
      /\ Store!ActiveAttemptPhase
  BY DEF Core, TypeOK, Workflow, AuthorityCoherent, Store!ActiveAttemptPhase
<1>5. /\ wf'.gen # None => gens'[wf'.gen].state # "NONE"
      /\ wf'.phase \notin {"DISCOVERY", "PLAN"} => wf'.gen # None
  <2>1. wf'.phase \notin {"DISCOVERY", "PLAN"} => wf'.gen # None
    BY DEF CandidateLineage
  <2>2. wf'.gen # None => wf'.phase \in Phases \ {"DISCOVERY", "PLAN"}
    BY DEF CandidateLineage, Core, TypeOK, Workflow
  <2>3. wf'.gen # None => gens'[wf'.gen].state # "NONE"
    BY <2>2 DEF CandidateLineage, PhaseStates, Phases
  <2> QED BY <2>1, <2>3
<1>6. ASSUME wf.status = "RUNNING", wf'.attempt # wf.attempt PROVE Store!Released
  <2>1. ~\E a \in Attempts : AttemptStart(a)
    BY <1>6 DEF AttemptStart
  <2>2. ~AttemptsStay
    BY <1>6 DEF AttemptsStay
  <2>3. PICK status, failure : AttemptEnd(status, failure)
    BY <2>1, <2>2, AttemptWrites
  <2> QED BY <2>3, EndRows DEF AttemptEnd, Store!Released
<1>7. Store!RetryBoundaryKept
  BY DEF Boundary, RetryBoundary, EndedHere, Store!RetryBoundaryKept
<1> QED BY <1>2, <1>3, <1>4, <1>5, <1>6, <1>7

LEMMA TriggersHold ==
  ASSUME StoreInvariant, StoreInvariant', Next
  PROVE  Store!TriggersAccept /\ Store!EligibilityDecoded
<1> USE DEF StoreInvariant, Grounded, FrozenInvariant, ClosedInvariant
<1>1. Store!AttemptTriggers /\ Store!RecoveryTriggers
  BY AttemptTriggersAccept, RecoveryTriggersAccept
<1>2. Store!GenerationTriggers
  BY GenerationTriggersAccept
<1>3. Store!EvidenceTriggers /\ Store!EligibilityTriggers /\ Store!EligibilityDecoded
  BY EvidenceTriggersAccept
<1>4. Store!EvidenceSetTriggers /\ Store!DecisionTriggers
  BY EvidenceSetTriggersAccept, DecisionTriggersAccept
<1>5. Store!CloseoutTriggers /\ Store!RepairTriggers
  BY CloseoutTriggersAccept, RepairTriggersAccept
<1>6. Store!WorkflowTriggers
  BY WorkflowTriggersAccept
<1> QED BY <1>1, <1>2, <1>3, <1>4, <1>5, <1>6 DEF Store!TriggersAccept

-----------------------------------------------------------------------------
(* The transactions *)

LEMMA RowsDecode == StoreInvariant => Store!RowsDecoded
<1> SUFFICES ASSUME StoreInvariant PROVE Store!RowsDecoded
  OBVIOUS
<1> USE DEF StoreInvariant, Grounded
<1>1. Store!WorkflowDecoded
  <2>1. wf.version >= 1 /\ (wf.phase \notin {"DISCOVERY", "PLAN"} => wf.gen # None)
    BY DEF Core, TypeOK, Workflow, CandidateLineage
  <2>2. Store!WorkflowRecord(wf)
    BY <2>1 DEF Core, AuthorityCoherent, Store!WorkflowRecord, Store!NeedsCandidate
  <2>3. Store!ActiveAttempt(wf, attempts)
    BY Owner DEF Core, AuthorityCoherent, Store!ActiveAttempt
  <2> QED BY <2>2, <2>3 DEF Store!WorkflowDecoded
<1>2. Store!AttemptsDecoded
  BY DEF AttemptsShaped, Store!AttemptsDecoded
<1>3. Store!GenerationsDecoded
  <2>1. \A g \in Generations : gens[g].state \in {"FROZEN", "REJECTED", "ACCEPTED"} =>
          gens[g].frozen # None
    BY ConstantsAssumption DEF Core, FrozenIdentity
  <2> QED BY <2>1 DEF GenerationsOrdered, Store!GenerationsDecoded, Store!CandidateRecord
<1>4. Store!EvidenceDecoded /\ Store!RepairsDecoded
  BY DEF EvidenceShaped, RepairsShaped, Store!EvidenceDecoded, Store!RepairsDecoded
<1>5. Store!EvidenceSetsDecoded
  BY DEF SetsShaped, SetRecords, Store!EvidenceSetsDecoded, Store!Members
<1> QED BY <1>1, <1>2, <1>3, <1>4, <1>5 DEF Store!RowsDecoded

(* The row of a workflow after one event. *)
LEMMA WorkflowRows ==
  ASSUME Core
  PROVE  /\ \A s, a : Advance([wf EXCEPT !.status = s, !.attempt = a]) =>
              /\ wf' = [wf EXCEPT !.status = s, !.attempt = a, !.version = @ + 1]
              /\ wf'.version = wf.version + 1 /\ wf'.status = s /\ wf'.attempt = a
         /\ \A s : Advance([wf EXCEPT !.status = s]) =>
              /\ wf' = [wf EXCEPT !.status = s, !.version = @ + 1]
              /\ wf'.version = wf.version + 1 /\ wf'.status = s
         /\ \A ph, g : Advance([wf EXCEPT !.phase = ph, !.gen = g]) =>
              /\ wf' = [wf EXCEPT !.phase = ph, !.gen = g, !.version = @ + 1, !.status = @]
              /\ wf'.version = wf.version + 1 /\ wf'.phase = ph /\ wf'.gen = g
         /\ \A ph : Advance([wf EXCEPT !.phase = ph]) =>
              /\ wf' = [wf EXCEPT !.phase = ph, !.gen = wf.gen, !.version = @ + 1, !.status = @]
              /\ wf'.version = wf.version + 1 /\ wf'.phase = ph /\ wf'.gen = wf.gen
         /\ \A ph, s : Advance([wf EXCEPT !.phase = ph, !.status = s]) =>
              /\ wf' = [wf EXCEPT !.phase = ph, !.gen = wf.gen, !.version = @ + 1, !.status = s]
              /\ wf'.version = wf.version + 1 /\ wf'.phase = ph /\ wf'.gen = wf.gen
BY DEF Advance, Core, TypeOK, Workflow

LEMMA FinishTransaction ==
  ASSUME Core, wf.status = "RUNNING", NEW status, NEW failure, NEW runStatus,
         Ending(status, failure, runStatus), FinishAttempt(status, failure, runStatus)
  PROVE  /\ Store!AttemptFinished(<<status, failure, runStatus>>)
         /\ <<status, failure, runStatus>> \in Store!Payloads
         /\ wf'.version = wf.version + 1 /\ wf'.status = runStatus /\ wf.attempt # None
         /\ attempts[wf.attempt].phase = wf.phase
         /\ attempts'[wf.attempt].status = status /\ attempts'[wf.attempt].failure = failure
<1>1. wf.attempt \in Attempts /\ wf.attempt # None /\ attempts[wf.attempt] \in Attempt
  BY Owner, ConstantsAssumption DEF Core, TypeOK
<1>2. attempts[wf.attempt].status = "RUNNING" /\ attempts[wf.attempt].phase = wf.phase
  BY <1>1 DEF Core, AuthorityCoherent
<1>3. /\ wf' = [wf EXCEPT !.status = runStatus, !.attempt = None, !.version = @ + 1]
      /\ wf'.version = wf.version + 1 /\ wf'.status = runStatus
  BY WorkflowRows DEF FinishAttempt
<1>4. Store!AttemptEnded(wf.attempt, status, failure)
  BY <1>2 DEF FinishAttempt, Store!AttemptEnded
<1>5. <<status, failure, runStatus>> \in Store!Payloads
  BY DEF Ending, ResultingRunStatus, FailureClasses, Store!Payloads
<1>6. Store!AttemptFinished(<<status, failure, runStatus>>)
  BY <1>1, <1>2, <1>3, <1>4, <1>5 DEF Store!AttemptFinished
<1>7. attempts'[wf.attempt].status = status /\ attempts'[wf.attempt].failure = failure
  <2>1. attempts'[wf.attempt] = [attempts[wf.attempt] EXCEPT !.status = status,
                                   !.failure = failure, !.ended = wf.version + 1]
    BY <1>1 DEF FinishAttempt, Core, TypeOK
  <2> QED BY <1>1, <2>1 DEF Attempt
<1> QED BY <1>1, <1>2, <1>3, <1>5, <1>6, <1>7

(* A transaction that advances the version. *)
Versioned(commit) == wf'.version = wf.version + 1 /\ commit

LEMMA StartTransaction ==
  ASSUME Core, NEW a \in Attempts, StartGoal(a) \/ \E p \in Procs : BeginAttempt(p, a)
  PROVE  Versioned(Store!CommitAttemptEvent)
<1>1. /\ wf.status = "READY" /\ FreshAttempt(a) /\ Start(a)
      /\ UNCHANGED <<gens, checks, evidence, eligible, sets, decisions, closeout, repairs,
                     reconciled>>
  BY DEF StartGoal, BeginAttempt
<1>2. wf.attempt = None
  BY <1>1 DEF Core, AuthorityCoherent
<1>3. /\ wf' = [wf EXCEPT !.status = "RUNNING", !.attempt = a, !.version = @ + 1]
      /\ wf'.version = wf.version + 1
  BY <1>1, WorkflowRows DEF Start
<1>4. Store!AttemptStarted(a)
  BY <1>1, <1>2, <1>3 DEF Start, Store!AttemptStarted
<1>5. Store!NextAttempt(a)
  <2>1. \A b \in Attempts : b \in Nat
    BY ConstantsAssumption
  <2>2. \A b \in Attempts : ~(b >= a) <=> b < a
    BY <2>1
  <2> QED BY <1>1, <2>2 DEF FreshAttempt, Store!NextAttempt
<1> QED BY <1>1, <1>3, <1>4, <1>5
        DEF Versioned, Store!CommitAttemptEvent, Store!StartAttempt, Store!OtherRows

LEMMA EndTransaction ==
  ASSUME Core, wf.status = "RUNNING", NEW status, NEW failure, NEW runStatus,
         Ending(status, failure, runStatus), FinishAttempt(status, failure, runStatus),
         UNCHANGED <<gens, checks, evidence, eligible, sets, decisions, closeout, repairs,
                     reconciled>>
  PROVE  Versioned(Store!CommitAttemptEvent)
BY FinishTransaction DEF Versioned, Store!CommitAttemptEvent, Store!FinishAttempt, Store!OtherRows

LEMMA StartupTransaction ==
  ASSUME Core, StartupRecovery PROVE Versioned(Store!CommitStartupRecovery)
<1>1. /\ wf.status = "RUNNING" /\ FinishAttempt("INTERRUPTED", None, "BLOCKED")
      /\ reconciled' = wf.version + 1
      /\ UNCHANGED <<gens, checks, evidence, eligible, sets, decisions, closeout, repairs>>
  BY DEF StartupRecovery
<1>2. /\ Store!AttemptFinished(<<"INTERRUPTED", None, "BLOCKED">>)
      /\ wf'.version = wf.version + 1 /\ wf'.status = "BLOCKED" /\ wf.attempt # None
      /\ attempts'[wf.attempt].status = "INTERRUPTED"
  BY <1>1, FinishTransaction DEF Ending
<1> QED BY <1>1, <1>2 DEF Versioned, Store!CommitStartupRecovery, Store!StartupRequest,
                          Store!ReconciliationInserted

LEMMA CancelTransaction ==
  ASSUME Core, AttemptsShaped, CancelGoal PROVE Versioned(Store!CommitWorkflowEvent)
<1>1. /\ wf.status \notin {"CANCELLED", "CLOSED"}
      /\ wf' = [wf EXCEPT !.status = "CANCELLED", !.attempt = None, !.version = @ + 1]
      /\ wf'.version = wf.version + 1 /\ wf'.attempt = None
  BY WorkflowRows DEF CancelGoal, IsTerminalWorkflow
<1>2. IF wf.attempt = None THEN UNCHANGED attempts
      ELSE Store!AttemptEnded(wf.attempt, "INTERRUPTED", None)
  <2>1. CASE wf.attempt = None
    BY <2>1, ConstantsAssumption DEF CancelGoal, Core, AuthorityCoherent
  <2>2. CASE wf.attempt # None
    BY <1>1, <2>2, CancelWrites DEF AttemptEnd, AttemptsStay
  <2> QED BY <2>1, <2>2
<1>3. Store!Cancelled
  BY <1>1, <1>2 DEF Store!Cancelled
<1> QED BY <1>1, <1>3 DEF Versioned, Store!CommitWorkflowEvent, Store!OtherRows, CancelGoal

(* A phase the workflow enters, with its generation or with a new one. *)
LEMMA PhaseTransaction ==
  ASSUME Core, wf.status = "READY", NEW to, <<wf.phase, to>> \in Store!PhaseEdges,
         to \notin {"IMPLEMENT", "CLOSEOUT"}, to # "PLAN" => wf.gen # None, EnterPhase(to)
  PROVE  /\ Store!PhaseTransitioned(to, wf.gen)
         /\ wf'.version = wf.version + 1 /\ wf'.phase = to /\ wf'.gen = wf.gen
<1>1. wf.attempt = None
  BY DEF Core, AuthorityCoherent
<1>2. /\ wf' = [wf EXCEPT !.phase = to, !.gen = wf.gen, !.version = @ + 1, !.status = @]
      /\ wf'.version = wf.version + 1 /\ wf'.phase = to /\ wf'.gen = wf.gen
  BY WorkflowRows DEF EnterPhase
<1> QED BY <1>1, <1>2 DEF Store!PhaseTransitioned

LEMMA GenerationTransaction ==
  ASSUME Core, wf.status = "READY", wf.phase \in {"PLAN", "FINAL_VERIFY"}, NEW g \in Generations,
         g # wf.gen, Advance([wf EXCEPT !.phase = "IMPLEMENT", !.gen = g])
  PROVE  /\ Store!PhaseTransitioned("IMPLEMENT", g)
         /\ wf'.version = wf.version + 1 /\ wf'.phase = "IMPLEMENT" /\ wf'.gen = g
<1>1. wf.attempt = None /\ g # None
  BY ConstantsAssumption DEF Core, AuthorityCoherent
<1>2. /\ wf' = [wf EXCEPT !.phase = "IMPLEMENT", !.gen = g, !.version = @ + 1, !.status = @]
      /\ wf'.version = wf.version + 1 /\ wf'.phase = "IMPLEMENT" /\ wf'.gen = g
  BY WorkflowRows
<1>3. <<wf.phase, "IMPLEMENT">> \in Store!PhaseEdges
  BY DEF Store!PhaseEdges
<1> QED BY <1>1, <1>2, <1>3 DEF Store!PhaseTransitioned

LEMMA PlanningTransaction ==
  ASSUME Core, BeginPlanning PROVE Versioned(Store!CommitWorkflowEvent)
<1>1. wf.status = "READY" /\ wf.phase = "DISCOVERY" /\ EnterPhase("PLAN") /\ UNCHANGED attempts
  BY DEF BeginPlanning, Ready
<1>2. <<"DISCOVERY", "PLAN">> \in Store!PhaseEdges \ Store!CompoundEdges
  BY DEF Store!PhaseEdges, Store!CompoundEdges
<1>3. Store!PhaseTransitioned("PLAN", wf.gen) /\ wf'.version = wf.version + 1
  BY <1>1, <1>2, PhaseTransaction
<1>4. \E edge \in Store!PhaseEdges \ Store!CompoundEdges :
        /\ wf.phase = edge[1] /\ Store!PhaseTransitioned(edge[2], wf.gen)
        /\ edge = <<"SOURCE_FREEZE", "EVIDENCE_BUILD">> =>
             Store!FrozenAuthority /\ Store!FreezeRecorded
  <2>1. <<"DISCOVERY", "PLAN">> # <<"SOURCE_FREEZE", "EVIDENCE_BUILD">>
    OBVIOUS
  <2> QED BY <1>1, <1>2, <1>3, <2>1
<1>5. Store!OtherRows
  BY DEF BeginPlanning, Store!OtherRows
<1> QED BY <1>1, <1>3, <1>4, <1>5 DEF Versioned, Store!CommitWorkflowEvent

LEMMA EvidenceBuildTransaction ==
  ASSUME Core, BeginEvidenceBuild PROVE Versioned(Store!CommitWorkflowEvent)
<1>1. /\ wf.status = "READY" /\ wf.phase = "SOURCE_FREEZE" /\ EnterPhase("EVIDENCE_BUILD")
      /\ wf.gen # None /\ gens[wf.gen].state = "FROZEN" /\ UNCHANGED attempts
  BY DEF BeginEvidenceBuild, Ready, ActiveState
<1>2. <<"SOURCE_FREEZE", "EVIDENCE_BUILD">> \in Store!PhaseEdges \ Store!CompoundEdges
  BY DEF Store!PhaseEdges, Store!CompoundEdges
<1>3. Store!PhaseTransitioned("EVIDENCE_BUILD", wf.gen) /\ wf'.version = wf.version + 1
  BY <1>1, <1>2, PhaseTransaction
<1>4. Store!FrozenAuthority
  BY <1>1 DEF Store!FrozenAuthority
<1>5. Store!FreezeRecorded
  BY DEF BeginEvidenceBuild, FreezeEvidenced, EligibleOf, EvidenceOf, Store!FreezeRecorded,
         Store!EligibleFor
<1>6. \E edge \in Store!PhaseEdges \ Store!CompoundEdges :
        /\ wf.phase = edge[1] /\ Store!PhaseTransitioned(edge[2], wf.gen)
        /\ edge = <<"SOURCE_FREEZE", "EVIDENCE_BUILD">> =>
             Store!FrozenAuthority /\ Store!FreezeRecorded
  BY <1>1, <1>2, <1>3, <1>4, <1>5
<1>7. Store!OtherRows
  BY DEF BeginEvidenceBuild, Store!OtherRows
<1> QED BY <1>1, <1>3, <1>6, <1>7 DEF Versioned, Store!CommitWorkflowEvent

LEMMA FreshIsStoreNext ==
  ASSUME NEW g \in Generations, FreshGeneration(g) PROVE Store!NextGeneration(g)
<1>1. \A h \in Generations : h \in Nat
  BY ConstantsAssumption
<1>2. \A h \in Generations : ~(h >= g) <=> h < g
  BY <1>1
<1> QED BY <1>2 DEF FreshGeneration, Store!NextGeneration

LEMMA PreparationTransaction ==
  ASSUME Core, CandidateLineage, NEW g \in Generations, NEW d \in Digests, PrepareCandidate(g, d)
  PROVE  Versioned(Store!CommitCandidatePreparation)
<1>1. /\ wf.status = "READY" /\ wf.phase = "PLAN" /\ FreshGeneration(g)
      /\ Advance([wf EXCEPT !.phase = "IMPLEMENT", !.gen = g])
      /\ gens' = [gens EXCEPT ![g] = PrepareGeneration(wf.gen, d)]
  BY DEF PrepareCandidate, Ready
<1>2. g # wf.gen /\ g # None
  BY <1>1, ConstantsAssumption DEF CandidateLineage
<1>3. /\ Store!PhaseTransitioned("IMPLEMENT", g)
      /\ wf'.version = wf.version + 1 /\ wf'.phase = "IMPLEMENT" /\ wf'.gen = g
  BY <1>1, <1>2, GenerationTransaction
<1>4. gens'[g] = PrepareGeneration(wf.gen, d)
  BY <1>1 DEF Core, TypeOK
<1>5. /\ gens'[g].state = "MUTABLE" /\ gens'[g].frozen = None
      /\ gens'[g].parent = wf.gen /\ gens'[g].base = d
  BY <1>4 DEF PrepareGeneration
<1>6. gens' = Store!InsertedGeneration(gens, g, gens'[g].parent, gens'[g].base)
  BY <1>1, <1>5 DEF PrepareGeneration, Store!InsertedGeneration
<1>7. Store!PreparationAdmitted(g)
  BY <1>1, <1>3, FreshIsStoreNext DEF Store!PreparationAdmitted
<1>8. Store!PreparationRequest
  BY <1>2, <1>3, <1>5 DEF Store!PreparationRequest
<1>9. UNCHANGED <<attempts, checks, evidence, eligible, sets, decisions, closeout, repairs,
                  reconciled>>
  BY DEF PrepareCandidate
<1> QED BY <1>3, <1>6, <1>7, <1>8, <1>9 DEF Versioned, Store!CommitCandidatePreparation

LEMMA FreezeStartTransaction ==
  ASSUME Core, GenerationsOrdered, BeginCandidateFreeze
  PROVE  Versioned(Store!CommitWorkflowCandidateEvent)
<1>1. /\ wf.status = "READY" /\ wf.phase = "IMPLEMENT" /\ EnterPhase("SOURCE_FREEZE")
      /\ wf.gen # None /\ wf.gen \in Generations /\ gens[wf.gen].state = "MUTABLE"
      /\ gens' = [gens EXCEPT ![wf.gen].state = "FREEZING"]
  BY Active DEF BeginCandidateFreeze, Ready, ActiveState
<1>2. <<"IMPLEMENT", "SOURCE_FREEZE">> \in Store!PhaseEdges
  BY DEF Store!PhaseEdges
<1>3. /\ Store!PhaseTransitioned("SOURCE_FREEZE", wf.gen)
      /\ wf'.version = wf.version + 1 /\ wf'.phase = "SOURCE_FREEZE"
  BY <1>1, <1>2, PhaseTransaction
<1>4. gens[wf.gen].frozen = None
  BY <1>1 DEF GenerationsOrdered
<1>5. Store!CandidateChanged("FREEZING", None)
  <2>1. <<gens[wf.gen].state, "FREEZING">> \in Store!CandidateEdges
    BY <1>1 DEF Store!CandidateEdges
  <2> QED BY <1>1, <1>4, <2>1, StateWritten
<1>6. gens'[wf.gen].state = "FREEZING"
  BY <1>1 DEF Core, TypeOK, Generation
<1>7. Store!FreezeStartRequest
  BY <1>1, <1>3, <1>6 DEF Store!FreezeStartRequest, Store!Phase, Store!Candidate
<1>8. UNCHANGED <<attempts, checks, evidence, eligible, sets, decisions, closeout, repairs,
                  reconciled>>
  BY DEF BeginCandidateFreeze
<1> QED BY <1>3, <1>5, <1>7, <1>8 DEF Versioned, Store!CommitWorkflowCandidateEvent

LEMMA DiscreditWritten ==
  ASSUME Invalidate(wf.gen) PROVE Store!Discredit(wf.gen)
<1>1. eligible \ {e.attempt : e \in EvidenceOf(wf.gen)}
      = eligible \ {e.attempt : e \in Store!EligibleFor(wf.gen)}
  BY DEF EvidenceOf, Store!EligibleFor
<1> QED BY <1>1 DEF Invalidate, Store!Discredit

LEMMA InvalidationWritten ==
  ASSUME Core, wf.gen \in Generations, gens[wf.gen].state \in {"FREEZING", "FROZEN"},
         Invalidate(wf.gen)
  PROVE  /\ Store!CandidateChanged("INVALIDATED", gens[wf.gen].frozen)
         /\ Store!Discredit(wf.gen) /\ gens'[wf.gen].state = "INVALIDATED"
<1>1. <<gens[wf.gen].state, "INVALIDATED">> \in Store!CandidateEdges
  BY DEF Store!CandidateEdges, Store!Current
<1>2. Store!CandidateChanged("INVALIDATED", gens[wf.gen].frozen)
  BY <1>1, StateWritten DEF Invalidate
<1>3. gens'[wf.gen].state = "INVALIDATED"
  BY DEF Invalidate, Core, TypeOK, Generation
<1> QED BY <1>2, <1>3, DiscreditWritten

LEMMA IntegrityTransaction ==
  ASSUME Core, NEW p \in Procs, CommitIntegrityFailure(p)
  PROVE  Versioned(Store!CommitCandidateIntegrityFailure)
<1>1. /\ wf.status = "READY" /\ wf.gen # None /\ wf.gen \in Generations
      /\ gens[wf.gen].state = "FROZEN" /\ Invalidate(wf.gen)
      /\ Advance([wf EXCEPT !.status = "FAILED"])
  BY Active DEF CommitIntegrityFailure, Committable, Ready, ActiveState
<1>2. wf.attempt = None
  BY <1>1 DEF Core, AuthorityCoherent
<1>3. /\ wf' = [wf EXCEPT !.status = "FAILED", !.version = @ + 1]
      /\ wf'.version = wf.version + 1 /\ wf'.status = "FAILED"
  BY <1>1, WorkflowRows
<1>4. /\ Store!CandidateChanged("INVALIDATED", gens[wf.gen].frozen)
      /\ Store!Discredit(wf.gen) /\ gens'[wf.gen].state = "INVALIDATED"
  BY <1>1, InvalidationWritten
<1>5. Store!IntegrityRequest
  BY <1>1, <1>3, <1>4 DEF Store!IntegrityRequest, Store!Candidate
<1>6. Store!FrozenInvalidated /\ Store!IntegrityFailed
  BY <1>1, <1>2, <1>3, <1>4
     DEF Store!FrozenInvalidated, Store!FrozenAuthority, Store!IntegrityFailed
<1>7. UNCHANGED <<attempts, checks, evidence, sets, decisions, closeout, repairs, reconciled>>
  BY DEF CommitIntegrityFailure
<1> QED BY <1>3, <1>5, <1>6, <1>7 DEF Versioned, Store!CommitCandidateIntegrityFailure

LEMMA CheckTransaction ==
  ASSUME Core, NEW p \in Procs, ConfigureLocalVerification(p)
  PROVE  Store!CommitLocalCommandVerificationAuthority
<1>1. /\ wf.status = "READY" /\ wf.phase = "EVIDENCE_BUILD" /\ wf.gen # None
      /\ wf.gen \in Generations /\ gens[wf.gen].state = "FROZEN" /\ wf.gen \notin checks
      /\ checks' = checks \union {wf.gen}
  BY Active DEF ConfigureLocalVerification, Ready, ActiveState
<1>2. wf.attempt = None
  BY <1>1 DEF Core, AuthorityCoherent
<1>3. checks' \ checks = {wf.gen}
  BY <1>1
<1>4. Store!LocalAuthorityRequest /\ Store!LocalAuthorityAdmitted
  BY <1>1, <1>2, <1>3 DEF Store!LocalAuthorityRequest, Store!LocalAuthorityAdmitted,
                          Store!FrozenAuthority
<1>5. UNCHANGED <<wf, attempts, gens, evidence, eligible, sets, decisions, closeout, repairs,
                  reconciled>>
  BY DEF ConfigureLocalVerification
<1> QED BY <1>1, <1>4, <1>5 DEF Store!CommitLocalCommandVerificationAuthority

LEMMA RecordTransaction ==
  ASSUME EvidenceBindsFrozen, attempts[wf.attempt].status = "RUNNING",
         attempts'[wf.attempt].status # "RUNNING", gens'[wf.gen].state = "FROZEN",
         NEW kind, NEW obligations, NEW o \in obligations, NEW result,
         RecordEvidence(kind, o, gens'[wf.gen].frozen, result)
  PROVE  /\ Store!EvidenceRecorded(kind, obligations)
         /\ \E e \in evidence' \ evidence : e.attempt = wf.attempt /\ e.attempt \in eligible'
<1> DEFINE new == [attempt |-> wf.attempt, gen |-> wf.gen, kind |-> kind, obligation |-> o,
                   digest |-> gens'[wf.gen].frozen, result |-> result]
<1>1. evidence' = evidence \union {new} /\ eligible' = eligible \union {wf.attempt}
  BY DEF RecordEvidence
<1>2. /\ new.attempt = wf.attempt /\ new.gen = wf.gen /\ new.kind = kind
      /\ new.obligation = o /\ new.digest = gens'[wf.gen].frozen
  OBVIOUS
<1>3. new \notin evidence
  BY <1>2 DEF EvidenceBindsFrozen
<1> HIDE DEF new
<1>4. Store!EvidenceAdmitted(new, kind)
  BY <1>2 DEF Store!EvidenceAdmitted
<1>5. Store!EvidenceInserted(new) /\ Store!EligibilityInserted(new)
  BY <1>1, <1>2, <1>3 DEF Store!EvidenceInserted, Store!EligibilityInserted
<1>6. new \in evidence' \ evidence /\ new.attempt = wf.attempt /\ new.attempt \in eligible'
  BY <1>1, <1>2, <1>3
<1> QED BY <1>2, <1>4, <1>5, <1>6 DEF Store!EvidenceRecorded

LEMMA FreezeTransaction ==
  ASSUME Core, EvidenceBindsFrozen, NEW p \in Procs, CompleteSourceFreeze(p)
  PROVE  Versioned(Store!CommitCandidateAttemptOutcome)
<1>1. /\ wf.status = "RUNNING" /\ wf.phase = "SOURCE_FREEZE" /\ wf.gen # None
      /\ wf.gen \in Generations /\ gens[wf.gen].state = "FREEZING"
      /\ UNCHANGED <<checks, sets, decisions, closeout, repairs, reconciled>>
  BY Active DEF CompleteSourceFreeze, OwnedAttempt, ActiveState
<1>2. Store!FreezeAdmitted
  BY <1>1 DEF Store!FreezeAdmitted
<1>3. CASE Unstable(p)
  <2>1. /\ Invalidate(wf.gen) /\ UNCHANGED evidence
        /\ FinishAttempt("FAILED", "NON_RETRYABLE", ResultingRunStatus("NON_RETRYABLE"))
    BY <1>3 DEF CompleteSourceFreeze
  <2>2. Ending("FAILED", "NON_RETRYABLE", ResultingRunStatus("NON_RETRYABLE"))
        /\ ResultingRunStatus("NON_RETRYABLE") = "FAILED"
    BY DEF Ending, ResultingRunStatus, FailureClasses
  <2>3. /\ Store!AttemptFinished(<<"FAILED", "NON_RETRYABLE", "FAILED">>)
        /\ wf'.version = wf.version + 1 /\ wf.attempt # None
        /\ attempts[wf.attempt].phase = wf.phase /\ attempts'[wf.attempt].status = "FAILED"
    BY <1>1, <2>1, <2>2, FinishTransaction
  <2>4. /\ Store!CandidateChanged("INVALIDATED", gens[wf.gen].frozen)
        /\ Store!Discredit(wf.gen) /\ gens'[wf.gen].state = "INVALIDATED"
    BY <1>1, <2>1, InvalidationWritten
  <2>5. Store!FreezeOutcomeRequest
    BY <1>1, <2>1, <2>3, <2>4 DEF Store!FreezeOutcomeRequest, Store!Finish
  <2>6. Store!FreezeRefused
    BY <2>1, <2>3, <2>4 DEF Store!FreezeRefused
  <2> QED BY <1>1, <1>2, <2>3, <2>5, <2>6 DEF Versioned, Store!CommitCandidateAttemptOutcome
<1>4. CASE ~Unstable(p)
  <2>1. /\ gens' = [gens EXCEPT ![wf.gen] = [gens[wf.gen] EXCEPT !.state = "FROZEN",
                                                                !.frozen = plan[p].second]]
        /\ RecordEvidence("CANDIDATE_FREEZE", None, plan[p].second, "OBSERVED")
        /\ FinishAttempt("RESULT_RECORDED", None, "READY")
    BY <1>4 DEF CompleteSourceFreeze
  <2>2. gens'[wf.gen].state = "FROZEN" /\ gens'[wf.gen].frozen = plan[p].second
    BY <1>1, <2>1 DEF Core, TypeOK, Generation
  <2>3. /\ Store!AttemptFinished(<<"RESULT_RECORDED", None, "READY">>)
        /\ wf'.version = wf.version + 1 /\ wf.attempt # None
        /\ attempts[wf.attempt].phase = wf.phase
        /\ attempts'[wf.attempt].status = "RESULT_RECORDED"
    BY <1>1, <2>1, FinishTransaction DEF Ending
  <2>4. attempts[wf.attempt].status = "RUNNING"
    BY <1>1, Owner DEF Core, AuthorityCoherent
  <2>5. /\ Store!EvidenceRecorded("CANDIDATE_FREEZE", {None})
        /\ \E e \in evidence' \ evidence : e.attempt = wf.attempt /\ e.attempt \in eligible'
    BY <2>1, <2>2, <2>3, <2>4, RecordTransaction
  <2>6. Store!CandidateChanged("FROZEN", gens'[wf.gen].frozen)
    <3>1. <<gens[wf.gen].state, "FROZEN">> \in Store!CandidateEdges
      BY <1>1 DEF Store!CandidateEdges
    <3> QED BY <1>1, <2>1, <2>2, <3>1 DEF Store!CandidateChanged, Store!CandidateApplies,
                                         Store!UpdatedGeneration
  <2>7. Store!FreezeOutcomeRequest
    BY <1>1, <2>2, <2>3, <2>5 DEF Store!FreezeOutcomeRequest, Store!Finish, Store!Candidate
  <2>8. Store!FreezeCommitted
    BY <2>3, <2>5, <2>6 DEF Store!FreezeCommitted
  <2> QED BY <1>1, <1>2, <2>3, <2>7, <2>8 DEF Versioned, Store!CommitCandidateAttemptOutcome
<1> QED BY <1>3, <1>4

(* The Attempt of a check that ended as it should, and as a failure. *)
LEMMA VerifiedTransaction ==
  ASSUME Core, EvidenceBindsFrozen, wf.status = "RUNNING", wf.phase = "EVIDENCE_BUILD",
         wf.gen \in Generations, gens[wf.gen].state = "FROZEN",
         LocalCommand => wf.gen \in checks, NEW o \in Obligations, NEW result,
         RecordEvidence("TEST_RESULT", o, gens[wf.gen].frozen, result),
         FinishAttempt("RESULT_RECORDED", None, "READY"),
         UNCHANGED <<gens, checks, sets, decisions, closeout, repairs, reconciled>>
  PROVE  Versioned(Store!CommitVerificationAttemptOutcome)
<1>1. /\ Store!AttemptFinished(<<"RESULT_RECORDED", None, "READY">>)
      /\ wf'.version = wf.version + 1 /\ wf.attempt # None
      /\ attempts[wf.attempt].phase = wf.phase
      /\ attempts'[wf.attempt].status = "RESULT_RECORDED"
  BY FinishTransaction DEF Ending
<1>2. attempts[wf.attempt].status = "RUNNING"
  BY Owner DEF Core, AuthorityCoherent
<1>3. /\ Store!EvidenceRecorded("TEST_RESULT", Obligations)
      /\ \E e \in evidence' \ evidence : e.attempt = wf.attempt /\ e.attempt \in eligible'
  BY <1>1, <1>2, RecordTransaction
<1>4. Store!VerificationRequest
  BY <1>1, <1>3 DEF Store!VerificationRequest, Store!Finish
<1>5. Store!VerificationAdmitted
  BY ConstantsAssumption DEF Store!VerificationAdmitted, Store!FrozenAuthority
<1> QED BY <1>1, <1>3, <1>4, <1>5 DEF Versioned, Store!CommitVerificationAttemptOutcome

LEMMA FailedTransaction ==
  ASSUME Core, wf.status = "RUNNING",
         FinishAttempt("FAILED", "NON_RETRYABLE", ResultingRunStatus("NON_RETRYABLE")),
         UNCHANGED <<gens, checks, evidence, eligible, sets, decisions, closeout, repairs,
                     reconciled>>
  PROVE  Versioned(Store!CommitAttemptEvent)
<1>1. Ending("FAILED", "NON_RETRYABLE", ResultingRunStatus("NON_RETRYABLE"))
  BY DEF Ending, FailureClasses
<1> QED BY <1>1, EndTransaction

LEMMA RunTransaction ==
  ASSUME Core, EvidenceBindsFrozen, NEW o \in Obligations,
         NEW result \in Results \union {"PROTOCOL_ERROR"}, RunVerification(o, result)
  PROVE  \/ Versioned(Store!CommitAttemptEvent)
         \/ Versioned(Store!CommitVerificationAttemptOutcome)
<1>1. /\ wf.status = "RUNNING" /\ wf.phase = "EVIDENCE_BUILD" /\ wf.gen \in Generations
      /\ gens[wf.gen].state = "FROZEN"
      /\ UNCHANGED <<gens, checks, sets, decisions, closeout, repairs, reconciled>>
  BY Active DEF RunVerification, OwnedAttempt, ActiveState
<1>2. CASE result = "PROTOCOL_ERROR"
  BY <1>1, <1>2, FailedTransaction DEF RunVerification
<1>3. CASE result # "PROTOCOL_ERROR"
  <2>1. /\ RecordEvidence("TEST_RESULT", o, gens[wf.gen].frozen, result)
        /\ FinishAttempt("RESULT_RECORDED", None, "READY")
    BY <1>3 DEF RunVerification
  <2>2. LocalCommand => wf.gen \in checks
    BY DEF RunVerification
  <2> QED BY <1>1, <2>1, <2>2, VerifiedTransaction
<1> QED BY <1>2, <1>3

LEMMA VerifyTransaction ==
  ASSUME Core, EvidenceBindsFrozen, VerifiesChecked, NEW p \in Procs, CompleteLocalVerification(p)
  PROVE  \/ Versioned(Store!CommitAttemptEvent)
         \/ Versioned(Store!CommitVerificationAttemptOutcome)
         \/ Versioned(Store!CommitVerificationIntegrityFailure)
<1>1. /\ wf.status = "RUNNING" /\ wf.phase = "EVIDENCE_BUILD" /\ wf.gen \in Generations
      /\ wf.gen # None /\ gens[wf.gen].state = "FROZEN" /\ wf.gen = plan[p].gen
      /\ plan[p].cmd = "VERIFY" /\ wf.gen \in checks
      /\ UNCHANGED <<checks, sets, decisions, closeout, repairs, reconciled>>
  BY Active DEF CompleteLocalVerification, OwnedAttempt, ActiveState, VerifiesChecked
<1>2. CASE /\ CheckedSourceDrifted(p) /\ Invalidate(wf.gen) /\ UNCHANGED evidence
           /\ FinishAttempt("FAILED", "NON_RETRYABLE", ResultingRunStatus("NON_RETRYABLE"))
  <2>1. Ending("FAILED", "NON_RETRYABLE", ResultingRunStatus("NON_RETRYABLE"))
        /\ ResultingRunStatus("NON_RETRYABLE") = "FAILED"
    BY DEF Ending, ResultingRunStatus, FailureClasses
  <2>2. /\ Store!AttemptFinished(<<"FAILED", "NON_RETRYABLE", "FAILED">>)
        /\ wf'.version = wf.version + 1 /\ wf.attempt # None
        /\ attempts[wf.attempt].phase = wf.phase
        /\ attempts'[wf.attempt].status = "FAILED"
        /\ attempts'[wf.attempt].failure = "NON_RETRYABLE"
    BY <1>1, <1>2, <2>1, FinishTransaction
  <2>3. /\ Store!CandidateChanged("INVALIDATED", gens[wf.gen].frozen)
        /\ Store!Discredit(wf.gen) /\ gens'[wf.gen].state = "INVALIDATED"
    BY <1>1, <1>2, InvalidationWritten
  <2>4. Store!VerificationIntegrityRequest
    BY <1>1, <2>2, <2>3 DEF Store!VerificationIntegrityRequest, Store!Finish, Store!Candidate
  <2>5. Store!FrozenInvalidated
    BY <1>1, <2>3 DEF Store!FrozenInvalidated, Store!FrozenAuthority
  <2> QED BY <1>1, <1>2, <2>2, <2>4, <2>5 DEF Versioned, Store!CommitVerificationIntegrityFailure
<1>3. CASE /\ FinishAttempt("FAILED", "NON_RETRYABLE", ResultingRunStatus("NON_RETRYABLE"))
           /\ UNCHANGED <<gens, evidence, eligible>>
  BY <1>1, <1>3, FailedTransaction
<1>4. CASE /\ ~CheckedSourceDrifted(p)
           /\ plan[p].result # "PROTOCOL_ERROR" /\ plan[p].second # None
           /\ RecordEvidence("TEST_RESULT", plan[p].obligation, plan[p].second, plan[p].result)
           /\ FinishAttempt("RESULT_RECORDED", None, "READY")
           /\ UNCHANGED gens
  <2>1. plan[p].second = gens[wf.gen].frozen /\ plan[p].obligation \in Obligations
    BY <1>1, <1>4 DEF CheckedSourceDrifted, Core, PlanBinding
  <2> QED BY <1>1, <1>4, <2>1, VerifiedTransaction
<1> QED BY <1>2, <1>3, <1>4 DEF CompleteLocalVerification

LEMMA SetTransaction ==
  ASSUME Core, EvidenceBindsFrozen, EvidenceShaped, SetsShaped,
         NEW p \in Procs, CommitEvidenceSet(p)
  PROVE  Versioned(Store!CommitEvidenceSetTransition)
<1>1. /\ wf.gen \in Generations /\ gens[wf.gen].state = "FROZEN"
      /\ wf.status = "READY" /\ wf.phase = "EVIDENCE_BUILD"
      /\ wf'.phase = "FINAL_VERIFY"
      /\ sets' = [sets EXCEPT ![wf.gen] = {e.attempt : e \in TestEvidence(wf.gen)}]
      /\ \A o \in Obligations : \E e \in TestEvidence(wf.gen) : e.obligation = o
  BY SetWrites
<1>2. wf.gen # None /\ sets[wf.gen] = {}
  BY <1>1, ConstantsAssumption DEF SetsShaped
<1>3. Store!ObligationEvidence(wf.gen) = TestEvidence(wf.gen)
  <2>1. \A e \in evidence : e.obligation # None <=> e.kind = "TEST_RESULT"
    BY ConstantsAssumption DEF EvidenceShaped, Store!EvidenceRecord
  <2> QED BY <2>1 DEF Store!ObligationEvidence, Store!EligibleFor, TestEvidence, EligibleOf, EvidenceOf
<1>4. <<"EVIDENCE_BUILD", "FINAL_VERIFY">> \in Store!PhaseEdges
  BY DEF Store!PhaseEdges
<1>5. Store!PhaseTransitioned("FINAL_VERIFY", wf.gen) /\ wf'.version = wf.version + 1
  BY <1>1, <1>2, <1>4, PhaseTransaction DEF CommitEvidenceSet
<1>6. Store!EvidenceSetRequest /\ Store!FrozenAuthority
  BY <1>1, <1>2 DEF Store!EvidenceSetRequest, Store!Phase, Store!FrozenAuthority
<1>7. Store!EvidenceSetInserted(wf.gen, Store!ObligationEvidence(wf.gen))
  BY <1>1, <1>2, <1>3 DEF Store!EvidenceSetInserted
<1>8. UNCHANGED <<attempts, gens, checks, evidence, eligible, decisions, closeout, repairs,
                  reconciled>>
  BY DEF CommitEvidenceSet
<1> QED BY <1>1, <1>3, <1>5, <1>6, <1>7, <1>8
        DEF Versioned, Store!CommitEvidenceSetTransition

LEMMA AggregatedRules ==
  ASSUME NEW x \in {"PASS", "FAIL_REPAIRABLE", "FAIL_BLOCKED", "ENGINE_ERROR"}
  PROVE  Store!Aggregated([WORKFLOW_FINAL_VERIFY |-> "PASS", CANDIDATE_CURRENT_FROZEN |-> "PASS",
                           CANDIDATE_DIGEST_CURRENT |-> "PASS",
                           REQUIRED_OBLIGATIONS_PRESENT |-> "PASS",
                           REQUIRED_EVIDENCE_PASSING |-> x, MANIFEST_POLICY_CURRENT |-> "PASS"])
         = (IF x = "ENGINE_ERROR" THEN "ENGINE_ERROR"
            ELSE IF x = "FAIL_BLOCKED" THEN "REJECT_BLOCKED"
            ELSE IF x = "FAIL_REPAIRABLE" THEN "REJECT_REPAIRABLE" ELSE "ACCEPT")
<1> DEFINE results == [WORKFLOW_FINAL_VERIFY |-> "PASS", CANDIDATE_CURRENT_FROZEN |-> "PASS",
                       CANDIDATE_DIGEST_CURRENT |-> "PASS",
                       REQUIRED_OBLIGATIONS_PRESENT |-> "PASS",
                       REQUIRED_EVIDENCE_PASSING |-> x, MANIFEST_POLICY_CURRENT |-> "PASS"]
<1> DEFINE found == {results[rule] : rule \in DOMAIN results}
<1>1. found = {"PASS", x}
  OBVIOUS
<1> HIDE DEF results
<1>2. Store!Aggregated(results)
      = CASE "ENGINE_ERROR" \in found -> "ENGINE_ERROR"
          [] "ENGINE_ERROR" \notin found /\ "FAIL_BLOCKED" \in found -> "REJECT_BLOCKED"
          [] found \intersect {"ENGINE_ERROR", "FAIL_BLOCKED"} = {}
             /\ "FAIL_REPAIRABLE" \in found -> "REJECT_REPAIRABLE"
          [] OTHER -> "ACCEPT"
  BY DEF Store!Aggregated
<1> HIDE DEF found
<1>3. CASE x = "ENGINE_ERROR"
  BY <1>1, <1>2, <1>3 DEF results
<1>4. CASE x = "FAIL_BLOCKED"
  BY <1>1, <1>2, <1>4 DEF results
<1>5. CASE x = "FAIL_REPAIRABLE"
  BY <1>1, <1>2, <1>5 DEF results
<1>6. CASE x = "PASS"
  BY <1>1, <1>2, <1>6 DEF results
<1> QED BY <1>3, <1>4, <1>5, <1>6

(* The engine re-issues the decision of the present rows. *)
LEMMA ReissuedNow ==
  ASSUME Core, SetsShaped, wf.phase = "FINAL_VERIFY", wf.gen \in Generations,
         gens[wf.gen].state = "FROZEN"
  PROVE  Store!Reissued(CurrentDecision)
<1> DEFINE d == CurrentDecision
<1>1. /\ d.version = wf.version /\ d.gen = wf.gen /\ d.digest = gens[wf.gen].frozen
      /\ d.refs = sets[wf.gen] /\ d.outcome = EvidenceRuleOutcome(wf.gen)
  BY DEF CurrentDecision
<1> HIDE DEF d
<1>2. wf.gen # None /\ sets[wf.gen] # {} /\ (LocalCommand => wf.gen \in checks)
  BY ConstantsAssumption DEF SetsShaped
<1>3. Store!Compiled(d)
  BY <1>1, <1>2 DEF Store!Compiled, Store!FrozenAuthority
<1> DEFINE x == IF ~Store!Accounted(wf.gen) THEN "FAIL_BLOCKED"
                ELSE IF Store!Found(wf.gen, "RUNNER_ERROR") THEN "ENGINE_ERROR"
                ELSE IF Store!Found(wf.gen, "FAIL") THEN "FAIL_REPAIRABLE" ELSE "PASS"
<1>4. Store!RuleResults(d)
      = [WORKFLOW_FINAL_VERIFY |-> "PASS", CANDIDATE_CURRENT_FROZEN |-> "PASS",
         CANDIDATE_DIGEST_CURRENT |-> "PASS", REQUIRED_OBLIGATIONS_PRESENT |-> "PASS",
         REQUIRED_EVIDENCE_PASSING |-> x, MANIFEST_POLICY_CURRENT |-> "PASS"]
  BY <1>1, <1>2 DEF Store!RuleResults, Store!Passing
<1>5. /\ ~Store!Accounted(wf.gen) <=> SetRecords(wf.gen) = {} \/ Unaccounted(SetRecords(wf.gen))
      /\ Store!Found(wf.gen, "RUNNER_ERROR")
           <=> \E e \in SetRecords(wf.gen) : e.result = "RUNNER_ERROR"
      /\ Store!Found(wf.gen, "FAIL") <=> \E e \in SetRecords(wf.gen) : e.result = "FAIL"
  <2>1. Store!Members(wf.gen) = SetRecords(wf.gen)
    BY DEF Store!Members, SetRecords
  <2>2. Obligations # {}
    BY ConstantsAssumption
  <2> QED BY <2>1, <2>2 DEF Store!Accounted, Store!Found, Unaccounted
<1>6. x \in {"PASS", "FAIL_REPAIRABLE", "FAIL_BLOCKED", "ENGINE_ERROR"}
  OBVIOUS
<1>7. EvidenceRuleOutcome(wf.gen)
      = (IF x = "ENGINE_ERROR" THEN "ENGINE_ERROR"
         ELSE IF x = "FAIL_BLOCKED" THEN "REJECT_BLOCKED"
         ELSE IF x = "FAIL_REPAIRABLE" THEN "REJECT_REPAIRABLE" ELSE "ACCEPT")
  BY <1>5 DEF EvidenceRuleOutcome
<1> HIDE DEF x
<1>8. d.outcome = Store!Aggregated(Store!RuleResults(d))
  BY <1>1, <1>4, <1>6, <1>7, AggregatedRules
<1> QED BY <1>3, <1>8 DEF Store!Reissued, d

LEMMA EvaluationTransaction ==
  ASSUME Core, SetsShaped, DecisionsReissued, NEW p \in Procs, EvaluateAcceptance(p)
  PROVE  UNCHANGED Store!rows \/ Store!CommitAcceptanceEvaluation
<1>1. /\ wf.gen \in Generations /\ gens[wf.gen].state = "FROZEN"
      /\ wf.phase = "FINAL_VERIFY" /\ decisions' = decisions \union {CurrentDecision}
      /\ UNCHANGED <<wf, attempts, gens, checks, evidence, eligible, sets, closeout, repairs,
                     reconciled>>
  BY Active DEF EvaluateAcceptance, Commit, Committable, Ready, ObservingPhase, ActiveState
<1>2. CurrentDecision.version = wf.version
  BY DEF CurrentDecision
<1>3. Store!Reissued(CurrentDecision)
  BY <1>1, ReissuedNow
<1> DEFINE d == CurrentDecision
<1> HIDE DEF d
<1>4. CASE d \in decisions
  BY <1>1, <1>4 DEF Store!rows, d
<1>5. CASE d \notin decisions
  <2>1. Store!EvaluationRequest
    BY <1>1, <1>2, <1>5 DEF Store!EvaluationRequest, d
  <2>2. \A other \in decisions : other.version = d.version => other.outcome = d.outcome
    <3>1. wf.version \in Nat
      BY Numbers DEF Core
    <3>2. \A other \in decisions : other.version < wf.version \/ other = d
      BY DEF DecisionsReissued, d
    <3>3. d.version = wf.version
      BY <1>2 DEF d
    <3> QED BY <3>1, <3>2, <3>3
  <2>3. d \in decisions' /\ Store!Reissued(d) /\ Store!DecisionInserted(d)
    BY <1>1, <1>3 DEF Store!DecisionInserted, d
  <2> QED BY <1>1, <2>1, <2>2, <2>3 DEF Store!CommitAcceptanceEvaluation
<1> QED BY <1>4, <1>5

LEMMA CloseoutTransaction ==
  ASSUME Core, SetsShaped, CloseoutSound, NEW p \in Procs, CloseAcceptedGoal(p)
  PROVE  Versioned(Store!CommitAcceptedCloseout)
<1>1. PICK d \in decisions :
        /\ d = CurrentDecision /\ d.outcome = "ACCEPT"
        /\ closeout' = [version |-> wf.version + 1, decision |-> d]
        /\ wf.gen \in Generations /\ gens[wf.gen].state = "FROZEN"
        /\ wf.phase = "FINAL_VERIFY" /\ wf.status = "READY" /\ wf.attempt = None
        /\ wf'.phase = "CLOSEOUT" /\ wf'.version = wf.version + 1
        /\ gens' = [gens EXCEPT ![wf.gen].state = "ACCEPTED"] /\ gens'[wf.gen].state = "ACCEPTED"
  BY ClosingWrites
<1>2. wf.gen # None /\ closeout = None
  BY <1>1, ConstantsAssumption DEF CloseoutSound
<1>3. Store!Consumed(d, "ACCEPT") /\ d.gen = wf.gen
  BY <1>1, ReissuedNow DEF Store!Consumed, CurrentDecision
<1>4. Store!CandidateApplies("ACCEPTED", gens[wf.gen].frozen)
      /\ gens' = Store!UpdatedGeneration(gens, wf.gen, "ACCEPTED", gens[wf.gen].frozen)
  <2>1. <<gens[wf.gen].state, "ACCEPTED">> \in Store!CandidateEdges
    BY <1>1 DEF Store!CandidateEdges
  <2> QED BY <1>1, <2>1, StateWritten DEF Store!CandidateChanged
<1>5. Store!PhaseTransitioned("CLOSEOUT", wf.gen)
  <2>1. wf' = [wf EXCEPT !.phase = "CLOSEOUT", !.gen = wf.gen, !.version = @ + 1,
                         !.status = "CLOSED"]
    BY WorkflowRows DEF CloseAcceptedGoal
  <2>2. <<wf.phase, "CLOSEOUT">> \in Store!PhaseEdges
    BY <1>1 DEF Store!PhaseEdges
  <2> QED BY <1>1, <1>2, <2>1, <2>2 DEF Store!PhaseTransitioned
<1>6. closeout'.version = wf'.version /\ closeout'.decision.gen = wf.gen
  BY <1>1, <1>3
<1>7. Store!CloseoutRequest
  BY <1>1, <1>2, <1>6 DEF Store!CloseoutRequest, Store!Phase, Store!Candidate
<1>8. Store!CloseoutAdmitted(d) /\ Store!CloseoutInserted(d)
  BY <1>1, <1>2, <1>3, <1>4, <1>5 DEF Store!CloseoutAdmitted, Store!CloseoutInserted
<1>9. UNCHANGED <<attempts, checks, evidence, eligible, sets, decisions, repairs, reconciled>>
  BY DEF CloseAcceptedGoal
<1> QED BY <1>1, <1>4, <1>7, <1>8, <1>9 DEF Versioned, Store!CommitAcceptedCloseout

LEMMA RepairTransaction ==
  ASSUME Core, CandidateLineage, GenerationsOrdered, SetsShaped, RepairsShaped,
         NEW p \in Procs, NEW g \in Generations, BeginAcceptanceRepair(p, g)
  PROVE  Versioned(Store!CommitAcceptanceRepair)
<1>1. PICK d \in decisions :
        /\ d = CurrentDecision /\ d.outcome = "REJECT_REPAIRABLE"
        /\ repairs' = repairs \union {[version |-> wf.version + 1, decision |-> d, child |-> g]}
        /\ wf.gen \in Generations /\ wf.gen \in Nat /\ g = wf.gen + 1
        /\ Rejected(g, gens[wf.gen].frozen)
  BY RepairWrites
<1>2. wf.phase = "FINAL_VERIFY" /\ wf.status = "READY" /\ gens[wf.gen].state = "FROZEN"
  BY DEF BeginAcceptanceRepair, Commit, Committable, Ready, ObservingPhase, ActiveState
<1>3. wf.gen # None /\ g # wf.gen /\ Advance([wf EXCEPT !.phase = "IMPLEMENT", !.gen = g])
  BY <1>1, ConstantsAssumption DEF BeginAcceptanceRepair
<1>4. /\ Store!PhaseTransitioned("IMPLEMENT", g)
      /\ wf'.version = wf.version + 1 /\ wf'.phase = "IMPLEMENT" /\ wf'.gen = g
  BY <1>2, <1>3, GenerationTransaction
<1>5. Store!Consumed(d, "REJECT_REPAIRABLE") /\ d.gen = wf.gen /\ d.digest = gens[wf.gen].frozen
  BY <1>1, <1>2, ReissuedNow DEF Store!Consumed, CurrentDecision
<1>6. Store!CandidateApplies("REJECTED", gens[wf.gen].frozen)
  BY <1>2, <1>3 DEF Store!CandidateApplies, Store!CandidateEdges
<1>7. /\ gens'[g] = PrepareGeneration(wf.gen, gens[wf.gen].frozen)
      /\ gens'[wf.gen].state = "REJECTED"
  BY <1>1, RejectionRows
<1>8. /\ gens'[g].state = "MUTABLE" /\ gens'[g].parent = wf.gen
      /\ gens'[g].base = gens[wf.gen].frozen
  BY <1>7 DEF PrepareGeneration
<1> DEFINE made == [version |-> wf.version + 1, decision |-> d, child |-> g]
<1>9. made.version = wf.version + 1 /\ made.decision = d /\ made.child = g
  OBVIOUS
<1>10. made \in repairs' \ repairs
  <2>1. wf.version \in Nat /\ \A r \in repairs : r.version \in Nat /\ r.version <= wf.version
    BY Numbers DEF Core, TypeOK, Repair, RepairsShaped
  <2>2. made.version = wf.version + 1
    OBVIOUS
  <2> HIDE DEF made
  <2>3. made \notin repairs
    BY <2>1, <2>2
  <2> QED BY <1>1, <2>3 DEF made
<1> HIDE DEF made
<1>11. Store!RepairRequest
  BY <1>2, <1>3, <1>4, <1>5, <1>7, <1>8, <1>9, <1>10
     DEF Store!RepairRequest, Store!Phase, Store!Candidate
<1>12. Store!RepairAdmitted(d, g) /\ Store!RepairInserted(d, g)
  BY <1>1, <1>4, <1>5, <1>6, FreshIsStoreNext
     DEF Store!RepairAdmitted, Store!RepairInserted, Rejected
<1>13. gens' = Store!InsertedGeneration(
                 Store!UpdatedGeneration(gens, wf.gen, "REJECTED", gens[wf.gen].frozen),
                 g, wf.gen, gens[wf.gen].frozen)
  <2>1. [gens[wf.gen] EXCEPT !.state = "REJECTED"]
        = [gens[wf.gen] EXCEPT !.state = "REJECTED", !.frozen = gens[wf.gen].frozen]
    BY <1>1 DEF Core, TypeOK, Generation
  <2>2. gens' = [gens EXCEPT ![wf.gen] = [gens[wf.gen] EXCEPT !.state = "REJECTED"],
                             ![g] = PrepareGeneration(wf.gen, gens[wf.gen].frozen)]
    BY <1>1 DEF Rejected
  <2> QED BY <2>1, <2>2 DEF Store!InsertedGeneration, Store!UpdatedGeneration, PrepareGeneration
<1>14. UNCHANGED <<attempts, checks, evidence, eligible, sets, decisions, closeout, reconciled>>
  BY DEF BeginAcceptanceRepair
<1> QED BY <1>4, <1>11, <1>12, <1>13, <1>14 DEF Versioned, Store!CommitAcceptanceRepair

LEMMA ResumeTransaction ==
  ASSUME Core, EndedHere, Store!RowsDecoded', NEW p \in Procs, ResumeGoal(p)
  PROVE  Versioned(Store!CommitResumeRecovery)
<1>1. /\ wf.status = "BLOCKED" /\ reconciled' = wf.version + 1
      /\ UNCHANGED <<attempts, gens, checks, evidence, eligible, sets, decisions, closeout,
                     repairs>>
  BY DEF ResumeGoal, RecoverableBlocker
<1>2. wf.attempt = None
  BY <1>1 DEF Core, AuthorityCoherent
<1>3. \E a \in Attempts : Store!ResumeSource(a)
  <2>1. CASE reconciled = wf.version
    BY <1>1, <2>1 DEF EndedHere, Store!ResumeSource
  <2>2. CASE reconciled # wf.version
    BY <2>2 DEF ResumeGoal, RecoverableBlocker, EndedHere, Store!ResumeSource, Store!Ended
  <2> QED BY <2>1, <2>2
<1> DEFINE disposition == IF SafeSamePhase(p) THEN "SAFE_SAME_PHASE" ELSE "BLOCKED"
<1> DEFINE r == [inspected |-> wf.version, resulting |-> wf.version + 1, phase |-> wf.phase,
                 disposition |-> disposition,
                 safePhase |-> IF SafeSamePhase(p) THEN wf.phase ELSE None]
<1>4. \E i \in DOMAIN Store!Phases : Store!Phases[i] = wf.phase
  BY DEF Core, TypeOK, Workflow, Phases, Store!Phases
<1>5. r \in Store!Reconciliations(wf)
  BY <1>4 DEF Store!Reconciliations, Store!ReconciliationRecord, Store!Dispositions
<1>6. wf' = [wf EXCEPT !.status = IF SafeSamePhase(p) THEN "READY" ELSE "BLOCKED",
                       !.version = @ + 1]
      /\ wf'.version = wf.version + 1
      /\ wf'.status = IF SafeSamePhase(p) THEN "READY" ELSE "BLOCKED"
  BY WorkflowRows DEF ResumeGoal
<1>7. wf'.phase = wf.phase
  BY <1>6 DEF Core, TypeOK, Workflow
<1>8. wf' = Store!RecoveryPlanned(wf, r)
  BY <1>6 DEF Store!RecoveryPlanned, Core, TypeOK, Workflow
<1>9. Store!ResumeRequest
  <2>1. r.disposition # "SAFE_EARLIER_PHASE" /\ r.resulting = wf.version + 1
    OBVIOUS
  <2> HIDE DEF r
  <2> QED BY <1>1, <1>5, <1>8, <2>1 DEF Store!ResumeRequest
<1>10. Store!RecoveryApplies(wf, wf')
  <2>1. Store!PhaseIndex(wf.phase) \in 1..7
    BY <1>4 DEF Store!PhaseIndex, Store!Phases
  <2>2. Store!PhaseIndex(wf.phase) <= Store!PhaseIndex(wf.phase)
    BY <2>1
  <2>3. Store!WorkflowRecord(wf')
    BY DEF Store!RowsDecoded, Store!WorkflowDecoded
  <2> QED BY <1>1, <1>2, <1>6, <1>7, <2>2, <2>3 DEF Store!RecoveryApplies
<1> QED BY <1>1, <1>3, <1>6, <1>9, <1>10
        DEF Versioned, Store!CommitResumeRecovery, Store!ReconciliationInserted

LEMMA TransactionStep ==
  ASSUME StoreInvariant, StoreInvariant', Next
  PROVE  UNCHANGED Store!rows \/ Store!Transaction
<1> USE DEF StoreInvariant, Grounded, FrozenInvariant, ClosedInvariant
<1>1. ASSUME \/ Versioned(Store!CommitAttemptEvent) \/ Versioned(Store!CommitWorkflowEvent)
             \/ Versioned(Store!CommitCandidatePreparation)
             \/ Versioned(Store!CommitWorkflowCandidateEvent)
             \/ Versioned(Store!CommitCandidateIntegrityFailure)
             \/ Versioned(Store!CommitVerificationIntegrityFailure)
             \/ Versioned(Store!CommitCandidateAttemptOutcome)
             \/ Versioned(Store!CommitVerificationAttemptOutcome)
             \/ Versioned(Store!CommitEvidenceSetTransition)
             \/ Versioned(Store!CommitAcceptedCloseout) \/ Versioned(Store!CommitAcceptanceRepair)
             \/ Versioned(Store!CommitStartupRecovery) \/ Versioned(Store!CommitResumeRecovery)
      PROVE  Store!Transaction
  BY <1>1 DEF Versioned, Store!Transaction
<1>2. ASSUME NEW a \in Attempts, StartGoal(a) \/ \E p \in Procs : BeginAttempt(p, a)
      PROVE  Store!Transaction
  BY <1>1, <1>2, StartTransaction
<1>3. CASE \/ RecordAttemptResult \/ \E f \in FailureClasses : RecordAttemptFailure(f)
           \/ \E s \in {"READY", "BLOCKED"} : InterruptAttempt(s)
  <2>1. \E status, failure, runStatus :
          /\ wf.status = "RUNNING" /\ Ending(status, failure, runStatus)
          /\ FinishAttempt(status, failure, runStatus)
          /\ UNCHANGED <<gens, checks, evidence, eligible, sets, decisions, closeout, repairs,
                         reconciled>>
    BY <1>3 DEF RecordAttemptResult, RecordAttemptFailure, InterruptAttempt, Ending
  <2> QED BY <1>1, <2>1, EndTransaction
<1>4. CASE StartupRecovery \/ CancelGoal \/ BeginPlanning \/ BeginEvidenceBuild \/ BeginCandidateFreeze
  BY <1>1, <1>4, StartupTransaction, CancelTransaction, PlanningTransaction,
     EvidenceBuildTransaction, FreezeStartTransaction
<1>5. ASSUME NEW g \in Generations, NEW d \in Digests, PrepareCandidate(g, d)
      PROVE  Store!Transaction
  BY <1>1, <1>5, PreparationTransaction
<1>6. ASSUME NEW o \in Obligations, NEW result \in Results \union {"PROTOCOL_ERROR"},
             RunVerification(o, result)
      PROVE  Store!Transaction
  BY <1>1, <1>6, RunTransaction
<1>7. ASSUME NEW p \in Procs, CompleteSourceFreeze(p) \/ CompleteLocalVerification(p)
      PROVE  Store!Transaction
  BY <1>1, <1>7, FreezeTransaction, VerifyTransaction
<1>8. ASSUME NEW p \in Procs, ConfigureLocalVerification(p) PROVE Store!Transaction
  BY <1>8, CheckTransaction DEF Store!Transaction
<1>9. ASSUME NEW p \in Procs, CommitEvidenceSet(p) \/ CommitIntegrityFailure(p)
      PROVE  Store!Transaction
  BY <1>1, <1>9, SetTransaction, IntegrityTransaction
<1>10. ASSUME NEW p \in Procs, EvaluateAcceptance(p)
       PROVE  UNCHANGED Store!rows \/ Store!Transaction
  BY <1>10, EvaluationTransaction DEF Store!Transaction
<1>11. ASSUME NEW p \in Procs, CloseAcceptedGoal(p) PROVE Store!Transaction
  BY <1>1, <1>11, CloseoutTransaction
<1>12. ASSUME NEW p \in Procs, NEW g \in Generations, BeginAcceptanceRepair(p, g)
       PROVE  Store!Transaction
  BY <1>1, <1>12, RepairTransaction
<1>13. ASSUME NEW p \in Procs, ResumeGoal(p) PROVE Store!Transaction
  <2>1. Store!RowsDecoded'
    BY RowsDecode, PTL
  <2> QED BY <1>1, <1>13, <2>1, ResumeTransaction
<1>14. ASSUME NEW p \in Procs,
              \/ BeginFreeze(p) \/ SecondReading(p) \/ RunCheck(p)
              \/ \E o \in Obligations : BeginVerification(p, o)
              \/ \E cmd \in {"EVIDENCE_SET", "EVALUATE"} : BeginObservation(p, cmd)
              \/ \E cmd \in {"CLOSE", "REPAIR"}, d \in decisions : BeginConsumption(p, cmd, d)
              \/ BeginResume(p) \/ AbandonCommand(p) \/ Crash(p)
       PROVE  UNCHANGED Store!rows
  BY <1>14 DEF BeginFreeze, SecondReading, RunCheck, BeginVerification, BeginObservation,
               BeginConsumption, BeginResume, AbandonCommand, Crash, Observed, store, Store!rows
<1>15. ASSUME NEW d \in Digests, SourceChange(d) PROVE UNCHANGED Store!rows
  BY <1>15 DEF SourceChange, store, Store!rows
<1> QED BY <1>2, <1>3, <1>4, <1>5, <1>6, <1>7, <1>8, <1>9, <1>10, <1>11, <1>12, <1>13, <1>14,
           <1>15 DEF Next

LEMMA StoreInvariantHolds == Spec => []StoreInvariant
<1>1. ASSUME StoreInvariant, UNCHANGED vars PROVE StoreInvariant'
  <2>1. Grounded'
    <3>1. Core' /\ CandidateLineage'
      BY <1>1, CoreStep DEF StoreInvariant, Grounded, vars, CandidateLineage, ActiveState
    <3>2. Boundary' /\ FrozenInvariant'
      BY <1>1 DEF StoreInvariant, Grounded, vars, Boundary, Recorded, LatestOwned,
                  OneFailurePerVersion, TransientIsLast, RetryBoundary, FrozenInvariant,
                  FrozenState, EvidenceBindsFrozen
    <3>3. ClosedInvariant'
      BY <1>1 DEF StoreInvariant, Grounded, vars, ClosedInvariant, SetsBind, CloseoutSound,
                  EvidenceBindsFrozen
    <3> QED BY <3>1, <3>2, <3>3 DEF Grounded
  <2>2. AttemptsShaped' /\ EndedHere' /\ GenerationsOrdered'
    BY <1>1 DEF StoreInvariant, vars, AttemptsShaped, EndedHere, GenerationsOrdered
  <2>3. VerifiesChecked' /\ EvidenceShaped' /\ RepairsShaped'
    BY <1>1 DEF StoreInvariant, vars, VerifiesChecked, EvidenceShaped, RepairsShaped
  <2>4. SetsShaped'
    BY <1>1 DEF StoreInvariant, vars, SetsShaped, SetRecords
  <2>5. DecisionsReissued'
    BY <1>1 DEF StoreInvariant, vars, DecisionsReissued, CurrentDecision, EvidenceRuleOutcome,
                SetRecords, Unaccounted
  <2> QED BY <2>1, <2>2, <2>3, <2>4, <2>5 DEF StoreInvariant
<1>2. StoreInvariant /\ [Next]_vars => StoreInvariant'
  BY <1>1, StoreInvariantStep
<1> QED BY <1>2, StoreInvariantInit, PTL DEF Spec

(* AdmittedByStore: every step of a kernel that changes a row is one of the    *)
(* transactions of the store, and no trigger, check or unique index refuses a  *)
(* row that it writes, nor a decoder one that it reads again.                  *)
THEOREM StoreImplemented == Spec => AdmittedByStore
<1>1. Init => Store!Init
  BY DEF Init, Store!Init
<1>2. ASSUME StoreInvariant, StoreInvariant', Next
      PROVE  UNCHANGED Store!rows \/ Store!Next
  <2>1. Store!TriggersAccept /\ Store!EligibilityDecoded
    BY <1>2, TriggersHold
  <2>2. Store!RowsDecoded'
    BY <1>2, RowsDecode, PTL
  <2> QED BY <1>2, <2>1, <2>2, TransactionStep DEF Store!Next
<1>3. UNCHANGED vars => UNCHANGED Store!rows
  BY DEF vars, Store!rows
<1>4. StoreInvariant /\ StoreInvariant' /\ [Next]_vars => [Store!Next]_(Store!rows)
  BY <1>2, <1>3
<1> QED BY <1>1, <1>4, StoreInvariantHolds, PTL DEF Spec, AdmittedByStore, Store!Spec
=============================================================================
