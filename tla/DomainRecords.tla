---------------------------- MODULE DomainRecords ----------------------------
(***************************************************************************)
(* The records of the domain: what makes one of them valid by itself.      *)
(*                                                                         *)
(* A reducer asserts these of the record it returns, and a decoder of      *)
(* every row that is written or read back, so a row that breaks one of     *)
(* them can be neither committed nor read.  They are stated over one       *)
(* record at a time; what binds records to each other is the store's.      *)
(***************************************************************************)
EXTENDS Naturals

CONSTANTS Obligations, None

Phases == <<"DISCOVERY", "PLAN", "IMPLEMENT", "SOURCE_FREEZE", "EVIDENCE_BUILD",
            "FINAL_VERIFY", "CLOSEOUT">>
PhaseIndex(phase) == CHOOSE i \in DOMAIN Phases : Phases[i] = phase
-----------------------------------------------------------------------------
(* Workflow and Attempt *)

NeedsCandidate(phase) == phase \notin {"DISCOVERY", "PLAN"}

WorkflowRecord(w) ==
  /\ w.version >= 1
  /\ w.phase = "CLOSEOUT" <=> w.status = "CLOSED"
  /\ w.status = "RUNNING" <=> w.attempt # None
  /\ NeedsCandidate(w.phase) => w.gen # None

AttemptRecord(a) ==
  /\ a.phase # "CLOSEOUT"
  /\ \/ a.status = "RUNNING" /\ a.failure = None /\ a.ended = 0
     \/ a.status \in {"RESULT_RECORDED", "INTERRUPTED"} /\ a.failure = None /\ a.ended # 0
     \/ a.status = "FAILED" /\ a.failure # None /\ a.ended # 0

\* The Workflow and its active Attempt, which is looked up apart, are one authority.
ActiveAttempt(w, attempts) ==
  IF w.status # "RUNNING" THEN w.attempt = None
  ELSE /\ w.attempt # None
       /\ attempts[w.attempt].status = "RUNNING" /\ attempts[w.attempt].phase = w.phase
-----------------------------------------------------------------------------
(* Candidate generations *)

\* Invalidation keeps what identity the generation had.
CandidateRecord(generations, g) ==
  LET row == generations[g] IN
  /\ row.parent # g
  /\ row.state \in {"MUTABLE", "FREEZING"} => row.frozen = None
  /\ row.state \in {"FROZEN", "REJECTED", "ACCEPTED"} => row.frozen # None
-----------------------------------------------------------------------------
(* Evidence.  RUNNER_ERROR stands for TIMEOUT too. *)

\* What a runner may report: an exit code of a process that exited and of no
\* other, and an exceeded output limit only with output cut off.
Observations ==
  {o \in [termination : {"EXITED", "SIGNALED", "TIMED_OUT", "SPAWN_FAILED"},
          accepted : BOOLEAN \union {None}, truncated : BOOLEAN, limit : BOOLEAN] :
     /\ o.accepted # None <=> o.termination = "EXITED"
     /\ o.limit => o.truncated /\ o.termination # "SPAWN_FAILED"}

\* Output cut off is an error of the runner, whatever the process returned.
StatusForObservation(o) ==
  IF o.limit \/ o.truncated \/ o.termination # "EXITED" THEN "RUNNER_ERROR"
  ELSE IF o.accepted THEN "PASS" ELSE "FAIL"

Statuses == {StatusForObservation(o) : o \in Observations}

EvidenceRecord(e) ==
  \/ /\ e.kind = "CANDIDATE_FREEZE"
     /\ e.obligation = None /\ e.result = "OBSERVED"
  \/ /\ e.kind = "TEST_RESULT"
     /\ e.obligation \in Obligations /\ e.result \in Statuses

\* Eligibility has two versions: given with the record, taken away once.
EligibilityChange(recorded, before, after) ==
  after \subseteq before \union recorded

\* A record serves one obligation, no obligation goes without, and no other is named.
EvidenceSetRecord(members) ==
  /\ members # {}
  /\ \A e \in members : e.obligation \in Obligations
  /\ \A o \in Obligations : \E e \in members : e.obligation = o
-----------------------------------------------------------------------------
(* Acceptance repair and recovery *)

RepairRecord(r) ==
  /\ r.child # r.decision.gen /\ r.child >= 2

Dispositions == {"BLOCKED", "SAFE_SAME_PHASE", "SAFE_EARLIER_PHASE"}

ReconciliationRecord(r) ==
  /\ r.resulting = r.inspected + 1
  /\ \/ r.disposition = "BLOCKED" /\ r.safePhase = None
     \/ r.disposition = "SAFE_SAME_PHASE" /\ r.safePhase = r.phase
     \/ /\ r.disposition = "SAFE_EARLIER_PHASE" /\ r.safePhase # None
        /\ PhaseIndex(r.safePhase) < PhaseIndex(r.phase)

Reconciliations(w) ==
  {r \in [inspected : {w.version}, resulting : {w.version + 1}, phase : {w.phase},
          disposition : Dispositions,
          safePhase : {Phases[i] : i \in DOMAIN Phases} \union {None}] :
     ReconciliationRecord(r)}

\* The event a reconciliation plans for a blocked Workflow.
RecoveryPlanned(w, r) ==
  [w EXCEPT !.version = r.resulting,
            !.phase = IF r.disposition = "BLOCKED" THEN @ ELSE r.safePhase,
            !.status = IF r.disposition = "BLOCKED" THEN "BLOCKED" ELSE "READY"]

\* What the reducer admits of such an event.
RecoveryApplies(w, next) ==
  /\ w.status = "BLOCKED" /\ w.attempt = None
  /\ next.version = w.version + 1
  /\ \/ next.status = "BLOCKED" /\ next.phase = w.phase
     \/ next.status = "READY" /\ PhaseIndex(next.phase) <= PhaseIndex(w.phase)
  /\ WorkflowRecord(next)
=============================================================================
