--------------------------- MODULE AuthorityReads ---------------------------
(***************************************************************************)
(* The readers of a Goal's retained authority: the status view that tells  *)
(* the user what blocks the Goal and what may safely be done next, the     *)
(* snapshot that the workflow driver decides on, and the recovery catalog. *)
(* Each of them joins rows that different transactions wrote and refuses   *)
(* the whole read if two of them disagree; a Goal whose rows a reader      *)
(* refuses can be neither shown, driven nor recovered.                     *)
(***************************************************************************)
EXTENDS RetainedAuthority

\* None is neither a decision to show nor a kind of blocker.
ASSUME NoneIsNotShown ==
  None \notin Decision \union {"ACTIVE_ATTEMPT", "RECONCILED_BLOCKER", "RECOVERABLE_FAILURE"}

-----------------------------------------------------------------------------
(* The status authority *)

\* Policy and profile are bound to the Workflow by the event that starts it.
Bound == wf.version > 1 /\ trail[2].type = "WORKFLOW_ATTEMPT_STARTED"

ActiveAttemptExact ==
  /\ wf.status = "RUNNING" <=> wf.attempt # None
  /\ wf.attempt # None =>
       attempts[wf.attempt].status = "RUNNING" /\ attempts[wf.attempt].phase = wf.phase

\* Mutant: the decisions of the active generation count at every version.
DecisionsOfGeneration == {d \in decisions : d.gen = wf.gen}

\* The decisions issued about the active generation at this very version.
PresentDecisions == {d \in decisions : d.gen = wf.gen /\ d.version = wf.version}

\* The decision the Goal was closed by, or else the present one.
ShownDecision ==
  IF closeout # None THEN closeout.decision
  ELSE IF PresentDecisions = {} THEN None
  ELSE CHOOSE d \in PresentDecisions : TRUE

LatestRecovery ==
  IF recoveries = {} THEN None
  ELSE CHOOSE r \in recoveries : \A s \in recoveries : s.version <= r.version

ShownAcceptance ==
  /\ wf.status = "CLOSED" <=> closeout # None
  /\ ShownDecision # None =>
       LET d == ShownDecision IN
       /\ d.gen = wf.gen /\ d.digest = gens[wf.gen].frozen
       /\ IF closeout # None
          THEN /\ closeout.version = wf.version /\ d.version + 1 = wf.version
               /\ d.outcome = "ACCEPT" /\ gens[wf.gen].state = "ACCEPTED"
          ELSE wf.phase = "FINAL_VERIFY" /\ d.version = wf.version

StatusReads ==
  /\ StartClosure /\ CommandClosure /\ ActiveAttemptExact
  /\ wf.gen # None => gens[wf.gen].state # "NONE"
  /\ recoveries # {} => Bound /\ LatestRecovery.version <= wf.version
  /\ ShownAcceptance

-----------------------------------------------------------------------------
(* The status view: what the user is told to do next *)

DecisionAdvice(outcome) ==
  IF outcome \in {"ACCEPT", "REJECT_REPAIRABLE"} THEN "RUNTIME_CONTINUE" ELSE "INSPECT_BLOCKER"

BlockedAdvice ==
  IF recoveries # {} /\ LatestRecovery.version = wf.version THEN "RESUME_GOAL"
  ELSE "INSPECT_BLOCKER"

ReadyAdvice ==
  IF ShownDecision # None THEN DecisionAdvice(ShownDecision.outcome)
  ELSE IF wf.phase = "DISCOVERY" /\ ~Bound THEN "START_GOAL"
  ELSE "RUNTIME_CONTINUE"

NextSafeAction ==
  CASE wf.status = "RUNNING" -> "WAIT_FOR_ACTIVE_ATTEMPT"
    [] wf.status = "BLOCKED" -> BlockedAdvice
    [] wf.status = "FAILED" -> "INSPECT_BLOCKER"
    [] wf.status \in {"CANCELLED", "CLOSED"} -> "NO_ACTION"
    [] wf.status = "READY" -> ReadyAdvice

-----------------------------------------------------------------------------
(* The driver's authority *)

PhaseAttempts == {a \in Made : attempts[a].phase = wf.phase}
LatestPhaseAttempt == CHOOSE a \in PhaseAttempts : \A b \in PhaseAttempts : b <= a

DriverAttemptReads(a) ==
  /\ wf.attempt # None => wf.attempt = a
  /\ attempts[a].status = "RUNNING" => wf.attempt = a
  /\ attempts[a].failure = "TRANSIENT" => wf.status \in {"BLOCKED", "CANCELLED"}

\* The context of a running Attempt is that of the present version and, in
\* IMPLEMENT, of the present Candidate; an older one may be of an earlier visit.
DriverContextReads(a) ==
  LET m == manifests[a]
      running == attempts[a].status = "RUNNING" IN
  /\ wf.phase \in CodingPhases <=> m # None
  /\ m # None =>
       /\ WorkerAuthority(m, a)
       /\ IF running THEN m.version = wf.version ELSE m.version < wf.version
       /\ running /\ wf.phase = "IMPLEMENT" => m.candidate = CandidateBinding

DriverReads ==
  PhaseAttempts # {} =>
    DriverAttemptReads(LatestPhaseAttempt) /\ DriverContextReads(LatestPhaseAttempt)

\* The latest Attempt of the phase did its work, in IMPLEMENT on the present Candidate.
PhaseAttemptCompleted ==
  /\ PhaseAttempts # {} /\ attempts[LatestPhaseAttempt].status = "RESULT_RECORDED"
  /\ wf.phase = "IMPLEMENT" => manifests[LatestPhaseAttempt].candidate = CandidateBinding

\* What the kernel demands of the context of a further Attempt.
ContextAdmitted == RepairContextCurrent /\ ContextCompiles

\* The kernel takes what the driver asks of it in a coding phase: to leave the
\* phase once its Attempt is completed, to begin an Attempt before that.
DriverCommandTaken ==
  IF PhaseAttemptCompleted THEN wf.phase = "IMPLEMENT" => ActiveState("MUTABLE")
  ELSE ContextAdmitted

-----------------------------------------------------------------------------
(* What the readers' advice is worth *)

\* The child of a repair was already handed to a worker.
RepairHanded ==
  /\ wf.phase = "IMPLEMENT" /\ RepairsFor(wf.gen) # {}
  /\ \E a \in Made : manifests[a] # None /\ manifests[a].candidate = CandidateBinding

\* The exception: that worker ended without a result, and the repair it was to
\* make is of an older version than the next Attempt asks for.
RepairLost == RepairHanded /\ ~PhaseAttemptCompleted

\* The kernel takes the command the user is advised to give.  RUNTIME_CONTINUE is
\* the driver's next command: in a coding phase it is taken, but for a lost repair
\* (what a verification asks of the process that gives it is WorkflowDrive's).
AdviceSafe ==
  /\ NextSafeAction = "START_GOAL" <=> (wf.version = 1 /\ wf.status = "READY")
  /\ NextSafeAction = "RESUME_GOAL" => RecoverableBlocker
  /\ NextSafeAction = "RUNTIME_CONTINUE" =>
       /\ Started /\ wf.status = "READY"
       /\ \A d \in decisions : d = ShownDecision => DecisionCurrent(d)
       /\ DriverCommandTaken \/ RepairLost

-----------------------------------------------------------------------------
(* The recovery catalog *)

\* The latest failure to reconcile is the one that blocked the Workflow.
BlockedBy(a) ==
  /\ attempts[a].failure = "RECONCILE_FIRST" /\ attempts[a].ended = wf.version
  /\ \A b \in Made : attempts[b].failure = "RECONCILE_FIRST" => b <= a

BlockerKind ==
  IF wf.status = "RUNNING" THEN "ACTIVE_ATTEMPT"
  ELSE IF wf.status # "BLOCKED" THEN None
  ELSE IF recoveries # {} /\ LatestRecovery.version = wf.version THEN "RECONCILED_BLOCKER"
  ELSE IF \E a \in Made : BlockedBy(a) THEN "RECOVERABLE_FAILURE"
  ELSE None

CatalogSource ==
  CASE BlockerKind = "ACTIVE_ATTEMPT" -> wf.attempt
    [] BlockerKind = "RECONCILED_BLOCKER" -> LatestRecovery.from
    [] BlockerKind = "RECOVERABLE_FAILURE" -> CHOOSE a \in Made : BlockedBy(a)

\* What the coordinator demands of the catalog entry.
CatalogReads ==
  BlockerKind # None =>
    LET a == CatalogSource IN
    /\ Bound /\ a # None /\ attempts[a].phase = wf.phase
    /\ manifests[a] # None <=> wf.phase \in CodingPhases
    /\ ContinuityBarrier => attempts[a].phase = "EVIDENCE_BUILD" /\ wf.gen # None
    /\ BlockerKind = "ACTIVE_ATTEMPT" <=> attempts[a].status = "RUNNING"
    /\ BlockerKind = "RECOVERABLE_FAILURE" => attempts[a].status = "FAILED"

\* A resume is offered exactly where the kernel would take it.
CatalogExact == RecoverableBlocker <=> (wf.status = "BLOCKED" /\ BlockerKind # None)

-----------------------------------------------------------------------------
(* getGoalStatus, the driver's loop and the recovery coordinator: whatever    *)
(* was committed, interrupted or repaired before, every reader accepts the    *)
(* rows it joins, and the catalog offers what a resume accepts.  The kernel   *)
(* starts and resumes the Goal where the user is advised to, and in a coding  *)
(* phase takes what the advice to continue makes the driver ask, with one     *)
(* exception: once the child of a repair was handed to a worker that recorded *)
(* no result, RUNTIME_CONTINUE is still advised and every further Attempt is  *)
(* refused.  The exception is exact: the context of the next Attempt is       *)
(* refused if, and only if, the child was handed to a worker before.  The     *)
(* manifest of a running Attempt, under which nothing has changed since it    *)
(* was inserted, is one that the triggers take.                               *)
ReadersAccept ==
  /\ StatusReads /\ DriverReads /\ CatalogReads /\ CatalogExact /\ AdviceSafe
  /\ wf.status = "READY" => (ContextAdmitted <=> ~RepairHanded)
  /\ wf.status = "RUNNING" /\ wf.phase \in CodingPhases =>
       ContextTriggers(manifests[wf.attempt], wf.attempt)
=============================================================================
